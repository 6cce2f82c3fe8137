----------------------------- MODULE HttpServer -----------------------------
(***************************************************************************)
(* server_thread() of httpd.c: it opens a listening socket for every       *)
(* address, waits in select(), accepts, and starts a client_thread() for   *)
(* every connection, to which it hands an allocated pcfd that the new      *)
(* thread copies and frees.                                                *)
(*                                                                         *)
(* One pcfd is allocated for every round of select(), and a round may find *)
(* several sockets ready.  OneReady restricts the environment to one.      *)
(***************************************************************************)
EXTENDS Integers, Sequences, Functions

CONSTANTS
    MAX_SD_LEN,     \* listening sockets a server may have
    AddressNum,     \* addresses getaddrinfo() returns
    MaxConns,       \* bound: connections
    MaxThreadFaults,    \* bound: pthread_create() and accept() that fail
    OneReady        \* no select() finds two listening sockets ready

ASSUME HttpServerAssumption == MAX_SD_LEN \in Nat /\ MAX_SD_LEN >= 2 /\ AddressNum \in Nat /\ MaxConns \in Nat /\ OneReady \in BOOLEAN

Sockets == 1..MAX_SD_LEN
Conns == 1..MaxConns        \* the n-th connection, the n-th pcfd and the n-th thread
NoSocket == 0
NoConn == 0

VARIABLES
    hsPc,           \* where server_thread() is
    hsSd,           \* sd[]: the address a socket listens to, or NoSocket for -1
    hsSdLen,        \* i while the sockets are opened
    hsAddress,      \* aip2
    hsListening,    \* the addresses whose socket listens
    hsQueue,        \* the connections the kernel holds for an address
    hsReady,        \* the sockets of selectfds this round has still to look at
    hsPcfd,         \* pcfd
    hsFd,           \* the field fd of every pcfd
    hsFreed,        \* how often each was freed
    hsThreads,      \* client_thread(): its argument, its own copy of fd, where it is
    hsConn,         \* connections made so far
    hsClosed,       \* connections closed on this side
    hsFaults

serverVars == <<hsPc, hsSd, hsSdLen, hsAddress, hsListening, hsQueue, hsReady, hsPcfd, hsFd, hsFreed, hsThreads, hsConn,
                hsClosed, hsFaults>>
openVars == <<hsSd, hsSdLen, hsAddress, hsListening>>
connVars == <<hsQueue, hsReady, hsPcfd, hsFd, hsFreed, hsThreads, hsConn, hsClosed, hsFaults>>

ServerInit ==
    /\ hsPc = "open" /\ hsSd = [i \in Sockets |-> NoSocket] /\ hsSdLen = 0 /\ hsAddress = 1 /\ hsListening = {}
    /\ hsQueue = [a \in 1..AddressNum |-> <<>>] /\ hsReady = {} /\ hsPcfd = 0
    /\ hsFd = [b \in Conns |-> NoConn] /\ hsFreed = [b \in Conns |-> 0]
    /\ hsThreads = <<>> /\ hsConn = 0 /\ hsClosed = {} /\ hsFaults = 0

-----------------------------------------------------------------------------
(* Opening *)

\* The next address: socket(), bind() and listen(), any of which may fail; the place in sd[] is then
\* used for the next one.  When sd[] is full, i is taken back by one and the rest is left out.
OpenSocket(outcome) ==
    /\ hsPc = "open" /\ hsAddress <= AddressNum
    /\ IF outcome = "listens"
       THEN /\ hsSd' = [hsSd EXCEPT ![hsSdLen + 1] = hsAddress] /\ hsListening' = hsListening \cup {hsAddress}
            /\ IF hsSdLen + 1 >= MAX_SD_LEN
               THEN hsSdLen' = hsSdLen /\ hsAddress' = AddressNum + 1
               ELSE hsSdLen' = hsSdLen + 1 /\ hsAddress' = hsAddress + 1
       ELSE /\ hsSd' = [hsSd EXCEPT ![hsSdLen + 1] = NoSocket] /\ hsAddress' = hsAddress + 1
            /\ UNCHANGED <<hsListening, hsSdLen>>
    /\ UNCHANGED <<hsPc, connVars>>

\* sd_len is known: without a socket the program exits.
Opened ==
    /\ hsPc = "open" /\ hsAddress > AddressNum
    /\ hsPc' = IF hsSdLen < 1 THEN "exit" ELSE "allocate"
    /\ UNCHANGED <<openVars, connVars>>

-----------------------------------------------------------------------------
(* Accepting *)

\* A client connects (external).
Connects(a) ==
    /\ a \in hsListening /\ hsConn < MaxConns /\ hsPc \notin {"exit", "stopped"}
    /\ OneReady => \A b \in 1..AddressNum \ {a} : hsQueue[b] = <<>>
    /\ hsConn' = hsConn + 1 /\ hsQueue' = [hsQueue EXCEPT ![a] = Append(@, hsConn + 1)]
    /\ UNCHANGED <<hsPc, openVars, hsReady, hsPcfd, hsFd, hsFreed, hsThreads, hsClosed, hsFaults>>

\* The pcfd of the next round.
AllocatePcfd ==
    /\ hsPc = "allocate" /\ hsPc' = "select" /\ hsPcfd' = hsPcfd + 1
    /\ UNCHANGED <<openVars, hsQueue, hsReady, hsFd, hsFreed, hsThreads, hsConn, hsClosed, hsFaults>>

\* select() returns with every socket that has a connection; EINTR repeats it.
Select ==
    /\ hsPc = "select"
    /\ hsReady' = {i \in Sockets : hsSd[i] # NoSocket /\ hsQueue[hsSd[i]] # <<>>} /\ hsReady' # {}
    /\ hsPc' = "accept"
    /\ UNCHANGED <<openVars, hsQueue, hsPcfd, hsFd, hsFreed, hsThreads, hsConn, hsClosed, hsFaults>>

\* The lowest socket that is ready.
Next1 == CHOOSE i \in hsReady : \A k \in hsReady : i <= k
NextQueue == hsQueue[hsSd[Next1]]
RoundOver == hsPc' = IF hsReady = {Next1} THEN "allocate" ELSE "accept"

\* accept() puts the connection (or -1, which nobody looks at) in the pcfd, and a thread gets the pcfd.
AcceptStarts(aborted) ==
    /\ hsPc = "accept" /\ hsReady # {} /\ (aborted => hsFaults < MaxThreadFaults)
    /\ hsFaults' = IF aborted THEN hsFaults + 1 ELSE hsFaults
    /\ hsFd' = [hsFd EXCEPT ![hsPcfd] = IF aborted THEN NoConn ELSE Head(NextQueue)]
    /\ hsClosed' = IF aborted THEN hsClosed \cup {Head(NextQueue)} ELSE hsClosed
    /\ hsQueue' = [hsQueue EXCEPT ![hsSd[Next1]] = Tail(@)] /\ hsReady' = hsReady \ {Next1} /\ RoundOver
    /\ hsThreads' = Append(hsThreads, [arg |-> hsPcfd, fd |-> NoConn, at |-> "copy"])
    /\ UNCHANGED <<openVars, hsPcfd, hsFreed, hsConn>>

\* pthread_create() fails: the connection is closed and the pcfd freed here.
AcceptThreadless ==
    /\ hsPc = "accept" /\ hsReady # {} /\ hsFaults < MaxThreadFaults /\ hsFaults' = hsFaults + 1
    /\ hsFd' = [hsFd EXCEPT ![hsPcfd] = Head(NextQueue)]
    /\ hsClosed' = hsClosed \cup {Head(NextQueue)} /\ hsFreed' = [hsFreed EXCEPT ![hsPcfd] = @ + 1]
    /\ hsQueue' = [hsQueue EXCEPT ![hsSd[Next1]] = Tail(@)] /\ hsReady' = hsReady \ {Next1} /\ RoundOver
    /\ UNCHANGED <<openVars, hsPcfd, hsThreads, hsConn>>

\* output_stop() cancels the thread in select(), and server_cleanup() closes the sockets; or select()
\* fails and the program exits.
ServerEnds(how) ==
    /\ hsPc = "select" /\ hsPc' = how
    /\ hsSd' = [i \in Sockets |-> NoSocket] /\ hsListening' = {}
    /\ UNCHANGED <<hsSdLen, hsAddress, connVars>>

-----------------------------------------------------------------------------
(* client_thread() *)

\* Mutant: the argument is freed before it is copied.
ThreadCopiesLate(t) ==
    /\ hsThreads[t].at = "copy"
    /\ hsThreads' = [hsThreads EXCEPT ![t].at = "free"] /\ hsFreed' = [hsFreed EXCEPT ![hsThreads[t].arg] = @ + 1]
    /\ UNCHANGED <<hsPc, openVars, hsQueue, hsReady, hsPcfd, hsFd, hsConn, hsClosed, hsFaults>>
\* memcpy(&lcfd, arg, ..)
ThreadCopies(t) ==
    /\ hsThreads[t].at = "copy"
    /\ hsThreads' = [hsThreads EXCEPT ![t].at = "free", ![t].fd = hsFd[hsThreads[t].arg]]
    /\ UNCHANGED <<hsPc, openVars, hsQueue, hsReady, hsPcfd, hsFd, hsFreed, hsConn, hsClosed, hsFaults>>

\* free(arg)
ThreadFrees(t) ==
    /\ hsThreads[t].at = "free"
    /\ hsThreads' = [hsThreads EXCEPT ![t].at = "serve"] /\ hsFreed' = [hsFreed EXCEPT ![hsThreads[t].arg] = @ + 1]
    /\ UNCHANGED <<hsPc, openVars, hsQueue, hsReady, hsPcfd, hsFd, hsConn, hsClosed, hsFaults>>

\* The request (module HttpRequest) is answered and the connection closed.
ThreadServes(t) ==
    /\ hsThreads[t].at = "serve"
    /\ hsThreads' = [hsThreads EXCEPT ![t].at = "done"] /\ hsClosed' = hsClosed \cup ({hsThreads[t].fd} \ {NoConn})
    /\ UNCHANGED <<hsPc, openVars, hsQueue, hsReady, hsPcfd, hsFd, hsFreed, hsConn, hsFaults>>

ServerStep == (\E outcome \in {"socket", "bind", "listen", "listens"} : OpenSocket(outcome)) \/ Opened \/ AllocatePcfd \/ Select
              \/ (\E aborted \in BOOLEAN : AcceptStarts(aborted)) \/ AcceptThreadless
ClientStep == \E t \in DOMAIN hsThreads : ThreadCopies(t) \/ ThreadFrees(t) \/ ThreadServes(t)

ServerNext ==
    \/ ServerStep \/ ClientStep
    \/ \E a \in 1..AddressNum : Connects(a)
    \/ \E how \in {"stopped", "exit"} : ServerEnds(how)

ServerSpec == ServerInit /\ [][ServerNext]_serverVars

-----------------------------------------------------------------------------
(* Properties *)

HttpServerTypeOK ==
    /\ hsPc \in {"open", "allocate", "select", "accept", "stopped", "exit"}
    /\ hsSd \in [Sockets -> 0..AddressNum] /\ hsSdLen \in 0..MAX_SD_LEN /\ hsPcfd \in 0..(MaxConns + 1)
    /\ hsReady \subseteq Sockets /\ hsClosed \subseteq Conns

\* "It must have been allocated so it is freeable by this thread function" (httpd.c:1040): the pcfd
\* a thread has been given is there until it frees it, and nobody else frees it or writes to it.
PcfdOwned ==
    /\ \A b \in Conns : hsFreed[b] <= 1
    /\ \A t \in DOMAIN hsThreads : hsThreads[t].at \in {"copy", "free"} => hsFreed[hsThreads[t].arg] = 0
    /\ \A t, u \in DOMAIN hsThreads : t # u => hsThreads[t].arg # hsThreads[u].arg

\* server_thread() waits on all the sockets that listen, whatever failed for the addresses before them
\* and after them, and no other.
ListensToAll == hsPc \in {"select", "accept"} => Range(hsSd) \ {NoSocket} = hsListening

\* A connection the server has taken is served by one thread, and is closed in the end.
EveryConnectionClosed == \A c \in Conns : (hsConn >= c) ~> (c \in hsClosed \/ hsPc \in {"exit", "stopped"})

\* A thread of output_http owns the descriptor it is given, and server_thread() waits on every socket that listens.
ConnectionsOwned == PcfdOwned /\ ListensToAll
=============================================================================
