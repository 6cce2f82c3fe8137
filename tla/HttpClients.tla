---------------------------- MODULE HttpClients ----------------------------
(***************************************************************************)
(* The clients that output_http keeps when it is compiled with MANAGMENT:  *)
(* the accept loop looks up or adds the address of a connection; a request *)
(* for pictures is refused when its client had one less than a second      *)
(* before, and the refusal moves the time of that picture ahead; each      *)
(* picture sent sets it.  Every output_http instance has its own accept    *)
(* loop, and the list, a global, is emptied by each that starts.           *)
(*                                                                         *)
(* Time advances by half a second; a time of zero is long ago.  The clock  *)
(* is not set back.                                                        *)
(***************************************************************************)
EXTENDS Integers, Sequences, FiniteSets, Functions

CONSTANTS
    HcMaxConnections, \* connections, numbered as they are accepted, at most
    HcAddresses,      \* addresses they come from
    HcServers,        \* output_http instances
    HcMaxClock,       \* how far time goes
    HcMaxPictures,    \* pictures sent, at most
    HcAllocFails      \* whether an allocation may fail

ASSUME HttpClientsAssumption == HcMaxConnections \in Nat /\ HcServers \in Nat

VARIABLES
    hcClock,      \* now
    hcServer,     \* how far each server_thread() is: "off", "counted", "on"
    hcLock,       \* whether client_infos.mutex is held
    hcCount,      \* client_infos.client_count
    hcArray,      \* client_infos.infos, the number of a client each, 0 where none was written
    hcGrown,      \* the larger array an accept loop has from realloc()
    hcLast,       \* last_take_time of the clients
    hcAddress,    \* and their addresses
    hcPc,         \* where each connection is
    hcFrom,       \* its address
    hcClient,     \* its client, 0 for NULL
    hcSent,       \* the pictures sent, with their client and time
    hcPassed,     \* the requests let through although their client had a picture within the interval
    hcFined,      \* the clients that were refused once
    hcFaulty,     \* whether an allocation failed
    hcEnd         \* "bad": a thread followed a null or wild pointer; "freed": it used freed memory

hcThreads == <<hcPc, hcFrom, hcClient>>
hcGhosts == <<hcSent, hcPassed, hcFined, hcFaulty>>
hcVars == <<hcClock, hcServer, hcLock, hcCount, hcArray, hcGrown, hcLast, hcAddress, hcThreads, hcGhosts, hcEnd>>

HcConnections == 1 .. HcMaxConnections
Interval == 2     \* 1000 ms
LongAgo == -100   \* last_take_time, set to zero
PiggyFine == 4    \* piggy_fine, 2 s

HcInit ==
    /\ hcClock = 0 /\ hcServer = [s \in 1 .. HcServers |-> "off"] /\ hcLock = FALSE
    /\ hcCount = 0 /\ hcArray = <<>> /\ hcGrown = [c \in HcConnections |-> <<>>] /\ hcLast = <<>> /\ hcAddress = <<>>
    /\ hcPc = [c \in HcConnections |-> "none"] /\ hcFrom \in [HcConnections -> HcAddresses]
    /\ hcClient = [c \in HcConnections |-> 0]
    /\ hcSent = {} /\ hcPassed = {} /\ hcFined = {} /\ hcFaulty = FALSE /\ hcEnd = "no"

Readable == hcCount <= Len(hcArray)
Listed == {hcArray[i] : i \in 1 .. hcCount} \ {0}
At(c, place) == hcPc[c] = place /\ hcEnd = "no"
Go(c, place) == hcPc' = [hcPc EXCEPT ![c] = place]

\* Time counts once there is a picture.
HcTick ==
    /\ hcClock < HcMaxClock /\ hcSent # {}
    /\ hcClock' = hcClock + 1
    /\ UNCHANGED <<hcServer, hcLock, hcCount, hcArray, hcGrown, hcLast, hcAddress, hcThreads, hcGhosts, hcEnd>>

\* server_thread() makes the mutex anew, though another may hold it, and empties the list without it.
HcStart(s) ==
    /\ hcEnd = "no"
    /\ \/ /\ hcServer[s] = "off" /\ hcServer' = [hcServer EXCEPT ![s] = "counted"]
          /\ hcLock' = FALSE /\ hcCount' = 0 /\ UNCHANGED hcArray
       \/ /\ hcServer[s] = "counted" /\ hcServer' = [hcServer EXCEPT ![s] = "on"]
          /\ hcArray' = <<>> /\ UNCHANGED <<hcLock, hcCount>>
    /\ UNCHANGED <<hcClock, hcGrown, hcLast, hcAddress, hcThreads, hcGhosts, hcEnd>>

-----------------------------------------------------------------------------
\* The last_take_time of a new client.
FirstTime == LongAgo

\* The places of the list that add_client() compares, those where it would stop, as there is the address or nothing it
\* could read an address from, and the first of them, where it does.
Compared == 1 .. hcCount
Wild(i) == ~(i \in DOMAIN hcArray /\ hcArray[i] # 0)
StopsAt(c) == {i \in Compared : Wild(i) \/ hcAddress[hcArray[i]] = hcFrom[c]}
FirstStop(c) == {i \in StopsAt(c) : \A j \in StopsAt(c) : i <= j}

\* The accept loops that are in add_client(); each handles one connection at a time.
Adding == {c \in HcConnections : hcPc[c] \in {"grow", "store"}}

\* add_client() up to the allocations: an address that is listed already, or a new client.
HcAdd(c) ==
    /\ At(c, "none") /\ ~hcLock /\ \A d \in 1 .. c - 1 : hcPc[d] # "none"
    /\ Cardinality(Adding) < Cardinality({s \in DOMAIN hcServer : hcServer[s] = "on"})
    /\ \/ /\ (\E i \in FirstStop(c) : Wild(i)) /\ hcEnd' = "bad"
          /\ UNCHANGED <<hcLast, hcAddress, hcClient, hcPc, hcFaulty, hcLock>>
       \/ /\ \E i \in FirstStop(c) : ~Wild(i) /\ hcClient' = [hcClient EXCEPT ![c] = hcArray[i]]
          /\ Go(c, "request")
          /\ UNCHANGED <<hcLast, hcAddress, hcFaulty, hcLock, hcEnd>>
       \/ /\ StopsAt(c) = {}
          /\ hcLast' = Append(hcLast, FirstTime) /\ hcAddress' = Append(hcAddress, hcFrom[c])
          /\ hcClient' = [hcClient EXCEPT ![c] = Len(hcLast')]
          /\ hcLock' = TRUE /\ Go(c, "grow") /\ UNCHANGED <<hcFaulty, hcEnd>>
       \/ /\ StopsAt(c) = {} /\ HcAllocFails /\ hcFaulty' = TRUE /\ Go(c, "request")
          /\ UNCHANGED <<hcLast, hcAddress, hcClient, hcLock, hcEnd>>
    /\ UNCHANGED <<hcClock, hcServer, hcCount, hcArray, hcGrown, hcFrom, hcSent, hcPassed, hcFined>>

\* realloc(), which frees the array that client_infos.infos still points to.
HcGrow(c) ==
    /\ At(c, "grow") /\ Go(c, "store")
    /\ IF hcArray # <<>> /\ \E d \in HcConnections : hcPc[d] = "store"
       THEN hcEnd' = "freed" /\ UNCHANGED hcGrown
       ELSE hcGrown' = [hcGrown EXCEPT ![c] = [i \in 1 .. hcCount + 1 |-> IF Wild(i) THEN 0 ELSE hcArray[i]]] /\ UNCHANGED hcEnd
    /\ UNCHANGED <<hcClock, hcServer, hcLock, hcCount, hcArray, hcLast, hcAddress, hcFrom, hcClient, hcGhosts>>

\* Mutant: the new client is not counted.
AddEndsUncounted(c) ==
    /\ At(c, "store") /\ Go(c, "request")
    /\ hcArray' = [hcGrown[c] EXCEPT ![hcCount + 1] = hcClient[c]]
    /\ hcLock' = FALSE
    /\ UNCHANGED <<hcClock, hcServer, hcCount, hcGrown, hcLast, hcAddress, hcFrom, hcClient, hcGhosts, hcEnd>>

\* The larger array gets the new client at its end.
AddEnds(c) ==
    /\ At(c, "store") /\ Go(c, "request")
    /\ hcArray' = IF hcCount < Len(hcGrown[c]) THEN [hcGrown[c] EXCEPT ![hcCount + 1] = hcClient[c]] ELSE hcGrown[c]
    /\ hcEnd' = IF hcCount < Len(hcGrown[c]) THEN "no" ELSE "bad"
    /\ hcGrown' = [hcGrown EXCEPT ![c] = <<>>] /\ hcCount' = hcCount + 1 /\ hcLock' = FALSE
    /\ UNCHANGED <<hcClock, hcServer, hcLast, hcAddress, hcFrom, hcClient, hcGhosts>>

-----------------------------------------------------------------------------
\* check_client_status(): less than the interval ago, but neither now nor in the future.
Cheats(k) == k \in Listed /\ hcClock - hcLast[k] < Interval /\ hcClock - hcLast[k] > 0

Recently(k) == {p \in hcSent : p.client = k /\ p.time < hcClock /\ hcClock - p.time < Interval}

\* A request for a picture or for a stream.
HcRequest(c) ==
    /\ At(c, "request") /\ ~hcLock
    /\ \/ ~Readable /\ hcEnd' = "bad" /\ UNCHANGED <<hcPc, hcPassed>>
       \/ Readable /\ Cheats(hcClient[c]) /\ Go(c, "fine") /\ UNCHANGED <<hcPassed, hcEnd>>
       \/ /\ Readable /\ ~Cheats(hcClient[c]) /\ Go(c, "send") /\ UNCHANGED hcEnd
          /\ hcPassed' = hcPassed \cup {[client |-> p.client, time |-> hcClock] : p \in Recently(hcClient[c])}
    /\ UNCHANGED <<hcClock, hcServer, hcLock, hcCount, hcArray, hcGrown, hcLast, hcAddress, hcFrom, hcClient, hcSent, hcFined, hcFaulty>>

\* A refused request: piggy_fine is added without the lock.
FineClient(c) ==
    /\ At(c, "fine") /\ Go(c, "end")
    /\ hcLast' = [hcLast EXCEPT ![hcClient[c]] = @ + PiggyFine]
    /\ hcFined' = hcFined \cup {hcClient[c]}
    /\ UNCHANGED <<hcClock, hcServer, hcLock, hcCount, hcArray, hcGrown, hcAddress, hcFrom, hcClient, hcSent, hcPassed, hcFaulty, hcEnd>>

\* update_client_timestamp(), after a picture was copied.
Stamp(c) == [hcLast EXCEPT ![hcClient[c]] = hcClock]

\* The one picture of a snapshot, or one of a stream, which goes on until a write fails.
HcSend(c) ==
    /\ At(c, "send") /\ ~hcLock /\ Cardinality(hcSent) < HcMaxPictures
    /\ IF hcClient[c] = 0 THEN hcEnd' = "bad" /\ UNCHANGED <<hcLast, hcSent, hcPc>>
       ELSE /\ hcLast' = Stamp(c)
            /\ hcSent' = hcSent \cup {[client |-> hcClient[c], time |-> hcClock]}
            /\ UNCHANGED hcEnd
            /\ Go(c, "end") \/ UNCHANGED hcPc
    /\ UNCHANGED <<hcClock, hcServer, hcLock, hcCount, hcArray, hcGrown, hcAddress, hcFrom, hcClient, hcPassed, hcFined, hcFaulty>>

\* send_clients_JSON() reads the list without the lock.
ClientsJson(c) ==
    /\ At(c, "request") /\ Go(c, "end")
    /\ hcEnd' = CASE \E i \in 1 .. hcCount : Wild(i) -> "bad"
                  [] (\A i \in 1 .. hcCount : ~Wild(i)) /\ hcCount > 0 /\ (\E d \in HcConnections : hcPc[d] = "store") -> "freed"
                  [] OTHER -> "no"
    /\ UNCHANGED <<hcClock, hcServer, hcLock, hcCount, hcArray, hcGrown, hcLast, hcAddress, hcFrom, hcClient, hcGhosts>>

HcNext ==
    \/ HcTick
    \/ \E s \in 1 .. HcServers : HcStart(s)
    \/ \E c \in HcConnections :
         HcAdd(c) \/ HcGrow(c) \/ AddEnds(c) \/ HcRequest(c) \/ FineClient(c) \/ HcSend(c) \/ ClientsJson(c)

HcSpec == HcInit /\ [][HcNext]_hcVars

-----------------------------------------------------------------------------
HcTypeOK ==
    /\ hcClock \in 0 .. HcMaxClock /\ hcServer \in [1 .. HcServers -> {"off", "counted", "on"}] /\ hcLock \in BOOLEAN
    /\ hcCount \in 0 .. Cardinality(HcConnections) /\ Range(hcArray) \cup UNION {Range(hcGrown[c]) : c \in HcConnections} \subseteq {0} \cup DOMAIN hcLast
    /\ Range(hcLast) \subseteq Int /\ Range(hcAddress) \subseteq HcAddresses /\ Len(hcAddress) = Len(hcLast)
    /\ hcPc \in [HcConnections -> {"none", "grow", "store", "request", "fine", "send", "end"}]
    /\ hcFrom \in [HcConnections -> HcAddresses] /\ hcClient \in [HcConnections -> {0} \cup DOMAIN hcLast]
    /\ hcFined \subseteq DOMAIN hcLast /\ hcFaulty \in BOOLEAN /\ hcEnd \in {"no", "bad", "freed"}

\* The list is emptied once only, before anyone uses it.
StartedOnce == Cardinality({s \in 1 .. HcServers : hcServer[s] # "off"}) <= 1

\* "Client not found in the client list! How did it happend??": with one output_http, and as long as memory lasts,
\* the client of every connection is in the list, and no address is in it twice.
ClientsListed ==
    StartedOnce /\ ~hcFaulty =>
        /\ \A c \in HcConnections : hcPc[c] \in {"request", "fine", "send", "end"} => hcClient[c] \in Listed
        /\ \A i, j \in 1 .. hcCount : hcAddress[hcArray[i]] = hcAddress[hcArray[j]] => i = j

\* A client is refused only when it had a picture before, and the time of that picture lies behind by then.
RefusedOnlyServed ==
    \A c \in HcConnections : hcPc[c] = "fine" => \E p \in hcSent : p.client = hcClient[c] /\ p.time < hcClock

\* A request that comes less than a second after its client had a picture is let through only when the client was
\* fined before, which moves the time into the future, when it had another picture at that very moment, or when a
\* second output_http emptied the list.
LetThroughExplained ==
    \A q \in hcPassed :
        \/ q.client \in hcFined \/ ~StartedOnce
        \/ q \in hcSent

\* No thread follows a null or wild pointer unless a second output_http emptied the list under it or memory ran out.
BadOnlyByRestart == hcEnd = "bad" => ~StartedOnce \/ hcFaulty

\* The list of clients of the MANAGMENT build is complete, and a picture is refused, or let through too early, for a
\* reason; a wild pointer has two causes.
ClientsKept == ClientsListed /\ RefusedOnlyServed /\ LetThroughExplained /\ BadOnlyByRestart
=============================================================================
