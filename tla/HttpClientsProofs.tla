------------------------- MODULE HttpClientsProofs --------------------------
(***************************************************************************)
(* In the build of output_http with MANAGMENT, with one instance, the list *)
(* of clients has every connection's client, once, for any number of       *)
(* connections and of clients.                                             *)
(***************************************************************************)
EXTENDS HttpClients, FiniteSetTheorems, TLAPS

-----------------------------------------------------------------------------
(* output_http, MANAGMENT: the list of clients *)

\* At most one output_http was started.
Solo == \A s, t \in 1 .. HcServers : hcServer[s] # "off" /\ hcServer[t] # "off" => s = t

ClientNumbers == 1 .. Len(hcLast)

ClientTypes ==
    /\ hcClock \in Nat /\ hcCount \in Nat /\ hcServer \in [1 .. HcServers -> {"off", "counted", "on"}]
    /\ hcLast \in Seq(Int) /\ hcAddress \in Seq(HcAddresses) /\ Len(hcAddress) = Len(hcLast)
    /\ hcArray \in Seq(Nat) /\ hcGrown \in [HcConnections -> Seq(Nat)]
    /\ hcPc \in [HcConnections -> {"none", "grow", "store", "request", "fine", "send", "end"}]
    /\ hcFrom \in [HcConnections -> HcAddresses] /\ hcClient \in [HcConnections -> Nat]
    /\ hcSent \subseteq [client : Nat, time : Nat]

\* Whatever is a client's number is one that was given to a client, or 0.
NumbersGiven ==
    /\ \A i \in 1 .. Len(hcArray) : hcArray[i] \in {0} \cup ClientNumbers
    /\ \A c \in HcConnections : \A i \in 1 .. Len(hcGrown[c]) : hcGrown[c][i] \in {0} \cup ClientNumbers
    /\ \A c \in HcConnections : hcClient[c] \in {0} \cup ClientNumbers /\ (hcPc[c] = "none" => hcClient[c] = 0)
    /\ \A p \in hcSent : p.client \in ClientNumbers /\ p.time <= hcClock

\* The time kept for a client is that of its last picture; a fine only adds to it, and only a client that had a picture
\* is fined.
TimesInv ==
    /\ \A k \in ClientNumbers : hcLast[k] = LongAgo \/ \E p \in hcSent : p.client = k /\ p.time <= hcLast[k]
    /\ \A k \in ClientNumbers \ hcFined :
          /\ hcLast[k] = LongAgo \/ [client |-> k, time |-> hcLast[k]] \in hcSent
          /\ \A p \in hcSent : p.client = k => p.time <= hcLast[k]
          /\ hcLast[k] <= hcClock
    /\ \A c \in HcConnections : hcPc[c] = "fine" =>
          /\ hcClient[c] # 0
          /\ \E p \in hcSent : p.client = hcClient[c] /\ p.time < hcClock /\ p.time <= hcLast[hcClient[c]]

\* The list while it is not emptied: nothing is in it twice, an address that is being added is not in it, and the larger
\* array has what the list has.
ListRight ==
    /\ (\A s \in 1 .. HcServers : hcServer[s] # "on") =>
          hcCount = 0 /\ hcArray = <<>> /\ \A c \in HcConnections : hcPc[c] = "none"
    /\ Len(hcArray) = hcCount
    /\ \A i \in 1 .. hcCount : hcArray[i] # 0
    /\ \A i, j \in 1 .. hcCount : hcAddress[hcArray[i]] = hcAddress[hcArray[j]] => i = j
    /\ \A c, d \in Adding : c = d
    /\ \A c \in Adding :
          /\ hcClient[c] # 0
          /\ \A i \in 1 .. hcCount : hcAddress[hcArray[i]] # hcAddress[hcClient[c]]
          /\ hcPc[c] = "store" => Len(hcGrown[c]) = hcCount + 1 /\ \A i \in 1 .. hcCount : hcGrown[c][i] = hcArray[i]
    /\ \A c \in HcConnections : hcPc[c] \in {"request", "fine", "send", "end"} =>
          hcClient[c] \in Listed \/ (hcClient[c] = 0 /\ hcFaulty)
    /\ hcEnd = "bad" => hcFaulty

ListInv == Solo => ListRight

\* A request is let through early only for a fined client, for one with a picture at that very moment, or when a second
\* output_http emptied the list.
PassedInv == \A q \in hcPassed : q.client \in hcFined \/ ~Solo \/ q \in hcSent

ClientsInv == ClientTypes /\ NumbersGiven /\ TimesInv /\ ListInv /\ PassedInv

-----------------------------------------------------------------------------
\* With at most one server started, the set of the started ones has at most one member.
LEMMA StartedOnceIsSolo == ASSUME ClientTypes, StartedOnce PROVE Solo
<1> DEFINE Started == {s \in 1 .. HcServers : hcServer[s] # "off"}
<1>1. IsFiniteSet(1 .. HcServers)
  BY HttpClientsAssumption, FS_Interval
<1>2. IsFiniteSet(Started) /\ Cardinality(Started) \in Nat
  BY ZenonT(30), <1>1, FS_Subset, FS_CardinalityType
<1>3. Cardinality(Started) <= 1
  BY Zenon DEF StartedOnce
<1>4. Cardinality(Started) = 0 \/ Cardinality(Started) = 1
  BY <1>2, <1>3
<1> HIDE DEF Started
<1>5. Started = {} \/ \E x : Started = {x}
  BY ZenonT(30), <1>2, <1>4, FS_EmptySet, FS_Singleton
<1> QED BY <1>5 DEF Solo, Started

\* The accept loop of the one server handles one connection at a time.
LEMMA OneAccepts ==
    ASSUME ClientTypes, Solo, Cardinality(Adding) < Cardinality({s \in DOMAIN hcServer : hcServer[s] = "on"})
    PROVE  Adding = {} /\ \E s \in 1 .. HcServers : hcServer[s] = "on"
<1> DEFINE On == {s \in DOMAIN hcServer : hcServer[s] = "on"}
<1>1. IsFiniteSet(1 .. HcServers) /\ IsFiniteSet(HcConnections) /\ DOMAIN hcServer = 1 .. HcServers
  BY HttpClientsAssumption, FS_Interval DEF ClientTypes, HcConnections
<1>2. Adding \subseteq HcConnections /\ On \subseteq 1 .. HcServers
  BY Zenon, <1>1 DEF Adding
<1>3. IsFiniteSet(Adding) /\ IsFiniteSet(On)
  BY ZenonT(30), <1>1, <1>2, FS_Subset
<1>4. Cardinality(Adding) \in Nat /\ Cardinality(On) \in Nat
  BY Zenon, <1>3, FS_CardinalityType
<1>5. ASSUME On # {} PROVE \E x : On = {x}
  <2>1. PICK x : x \in On
    BY Zenon, <1>5
  <2>2. \A y \in On : y = x
    BY Zenon, <1>1, <2>1 DEF Solo
  <2> HIDE DEF On
  <2>3. On = {x}
    BY Zenon, <2>1, <2>2
  <2> QED BY Zenon, <2>3
<1> HIDE DEF On
<1>6. Cardinality(On) = 0 \/ Cardinality(On) = 1
  BY Zenon, <1>3, <1>5, FS_EmptySet, FS_Singleton
<1>7. Cardinality(Adding) = 0 /\ Cardinality(On) # 0
  BY SMTT(30), <1>4, <1>6 DEF On
<1>8. Adding = {} /\ On # {}
  BY Zenon, <1>3, <1>7, FS_EmptySet
<1> QED BY Zenon, <1>1, <1>8 DEF On

\* Nothing is known at first.
LEMMA ClientsInitially == HcInit => ClientsInv
<1> SUFFICES ASSUME HcInit PROVE ClientsInv
  BY Zenon
<1>1. ClientTypes
  BY SMTT(30) DEF HcInit, ClientTypes
<1>2. NumbersGiven /\ TimesInv /\ PassedInv
  BY SMTT(30) DEF HcInit, NumbersGiven, TimesInv, PassedInv, ClientNumbers
<1>3. ListRight
  BY SMTT(30) DEF HcInit, ListRight, Adding
<1> QED BY Zenon, <1>1, <1>2, <1>3 DEF ClientsInv, ListInv

\* Time passes, a connection moves on, or the list is read: nothing of the list or the times changes.
LEMMA IdleStep ==
    ASSUME ClientsInv, hcClock' \in Nat, hcClock' >= hcClock,
           UNCHANGED <<hcServer, hcCount, hcArray, hcGrown, hcLast, hcAddress, hcFrom, hcClient, hcSent, hcPassed,
           hcFined, hcFaulty>>,
           hcPc' \in [HcConnections -> {"none", "grow", "store", "request", "fine", "send", "end"}],
           \A c \in HcConnections : hcPc'[c] = hcPc[c] \/ (hcPc[c] = "request" /\ hcPc'[c] = "end"),
           hcEnd' = "bad" => hcEnd = "bad" \/ (\E i \in 1 .. hcCount : Wild(i)) \/ (Solo => hcFaulty)
    PROVE  ClientsInv'
<1> USE DEF ClientsInv
<1>1. ClientTypes'
  BY Zenon DEF ClientTypes
<1>2. NumbersGiven'
  BY SMTT(30) DEF NumbersGiven, ClientNumbers, ClientTypes
<1>3. TimesInv'
  <2>1. \A k \in ClientNumbers : hcLast[k] \in Int
    BY SMTT(30) DEF ClientTypes, ClientNumbers
  <2>2. \A p \in hcSent : p.time \in Nat
    BY Zenon DEF ClientTypes
  <2> QED BY SMTT(30), <2>1, <2>2 DEF TimesInv, ClientNumbers, ClientTypes
<1>4. ListInv'
  <2> SUFFICES ASSUME Solo PROVE ListRight'
    BY Zenon DEF ListInv, Solo
  <2>1. ListRight /\ Adding' = Adding
    BY Zenon DEF ListInv, Adding
  <2>2. hcEnd' = "bad" => hcFaulty
    BY SMTT(30), <2>1 DEF ListRight, Wild, ClientTypes
  <2> QED BY <2>1, <2>2 DEF ListRight, Listed, Adding
<1>5. PassedInv'
  BY Zenon DEF PassedInv, Solo
<1> QED BY Zenon, <1>1, <1>2, <1>3, <1>4, <1>5

\* A server starts: before the first one does, there is nothing to empty.
LEMMA StartStep == ASSUME ClientsInv, NEW s \in 1 .. HcServers, HcStart(s) PROVE ClientsInv'
<1> USE DEF ClientsInv
<1>1. /\ UNCHANGED <<hcClock, hcGrown, hcLast, hcAddress, hcPc, hcFrom, hcClient, hcSent, hcPassed, hcFined, hcFaulty, hcEnd>>
      /\ \/ hcServer[s] = "off" /\ hcServer' = [hcServer EXCEPT ![s] = "counted"] /\ hcCount' = 0 /\ hcArray' = hcArray
         \/ hcServer[s] = "counted" /\ hcServer' = [hcServer EXCEPT ![s] = "on"] /\ hcCount' = hcCount /\ hcArray' = <<>>
  BY Zenon DEF HcStart, hcThreads, hcGhosts
<1>2. ClientTypes'
  <2>1. hcServer' \in [1 .. HcServers -> {"off", "counted", "on"}]
    BY Zenon, <1>1 DEF ClientTypes
  <2>2. hcCount' \in Nat /\ hcArray' \in Seq(Nat)
    <3>1. <<>> \in Seq(Nat)
      OBVIOUS
    <3>2. hcArray' = hcArray \/ hcArray' = <<>>
      BY Zenon, <1>1
    <3>3. hcCount' = hcCount \/ hcCount' = 0
      BY Zenon, <1>1
    <3>4. hcCount \in Nat /\ hcArray \in Seq(Nat)
      BY Zenon DEF ClientTypes
    <3>5. hcCount' \in Nat
      BY <3>3, <3>4
    <3>6. hcArray' \in Seq(Nat)
      BY <3>1, <3>2, <3>4, Zenon
    <3> QED BY Zenon, <3>5, <3>6
  <2> QED BY Zenon, <1>1, <2>1, <2>2 DEF ClientTypes
<1>3. NumbersGiven' /\ TimesInv'
  BY <1>1 DEF NumbersGiven, TimesInv, ClientNumbers
<1>4. Solo' => Solo
  BY ZenonT(30), <1>1 DEF ClientTypes, Solo
<1>5. ListInv'
  <2> SUFFICES ASSUME Solo' PROVE ListRight'
    BY Zenon DEF ListInv
  <2>1. ListRight
    BY Zenon, <1>4 DEF ListInv
  <2>2. \A t \in 1 .. HcServers : hcServer[t] # "on"
    BY ZenonT(30), <1>1 DEF Solo, ClientTypes
  <2>3. hcCount = 0 /\ hcArray = <<>> /\ \A c \in HcConnections : hcPc[c] = "none"
    BY Zenon, <2>1, <2>2 DEF ListRight
  <2>4. hcCount' = 0 /\ hcArray' = <<>>
    BY Zenon, <1>1, <2>3
  <2> QED BY ZenonT(30), <1>1, <2>1, <2>3, <2>4 DEF ListRight, Adding
<1>6. PassedInv'
  BY Zenon, <1>1, <1>4 DEF PassedInv
<1> QED BY Zenon, <1>2, <1>3, <1>5, <1>6

\* add_client() up to the allocations.
LEMMA AddStep == ASSUME ClientsInv, NEW c \in HcConnections, HcAdd(c) PROVE ClientsInv'
<1> USE DEF ClientsInv
<1>0. /\ hcPc[c] = "none" /\ hcEnd = "no"
      /\ UNCHANGED <<hcClock, hcServer, hcCount, hcArray, hcGrown, hcFrom, hcSent, hcPassed, hcFined>>
      /\ Solo' => Solo
      /\ Solo => Adding = {} /\ \E s \in 1 .. HcServers : hcServer[s] = "on"
  <2>1. Solo => Adding = {} /\ \E s \in 1 .. HcServers : hcServer[s] = "on"
    BY Zenon, OneAccepts DEF HcAdd
  <2> QED BY Zenon, <2>1 DEF HcAdd, At, Solo
<1>1. CASE (\E i \in FirstStop(c) : Wild(i)) /\ hcEnd' = "bad" /\ UNCHANGED <<hcLast, hcAddress, hcClient, hcPc, hcFaulty, hcLock>>
  <2>1. \E i \in 1 .. hcCount : Wild(i)
    BY ZenonT(30), <1>1 DEF FirstStop, StopsAt, Compared
  <2> QED BY SMTT(30), <1>0, <1>1, <2>1, IdleStep DEF ClientTypes
<1>2. ASSUME NEW i \in FirstStop(c), ~Wild(i), hcClient' = [hcClient EXCEPT ![c] = hcArray[i]], Go(c, "request"),
             UNCHANGED <<hcLast, hcAddress, hcFaulty, hcLock, hcEnd>>
      PROVE  ClientsInv'
  <2>1. i \in 1 .. hcCount /\ i \in 1 .. Len(hcArray) /\ hcArray[i] # 0
    BY SMTT(30), <1>2 DEF FirstStop, StopsAt, Compared, Wild, ClientTypes
  <2>2. hcArray[i] \in ClientNumbers
    BY Zenon, <2>1 DEF NumbersGiven
  <2>3. hcPc' = [hcPc EXCEPT ![c] = "request"]
    BY Zenon, <1>2 DEF Go
  <2>4. ClientTypes'
    BY SMTT(30), <1>0, <1>2, <2>1, <2>3 DEF ClientTypes
  <2>5. NumbersGiven'
    BY Zenon, <1>0, <1>2, <2>2, <2>3 DEF NumbersGiven, ClientNumbers, ClientTypes
  <2>6. TimesInv'
    BY ZenonT(30), <1>0, <1>2, <2>3 DEF TimesInv, ClientNumbers, ClientTypes
  <2>7. ListInv'
    <3> SUFFICES ASSUME Solo PROVE ListRight'
      BY Zenon, <1>0 DEF ListInv
    <3>1. ListRight /\ Adding = {} /\ Adding' = {} /\ \E s \in 1 .. HcServers : hcServer[s] = "on"
      BY Zenon, <1>0, <2>3 DEF ListInv, Adding, ClientTypes
    <3>2. hcArray[i] \in Listed
      BY Zenon, <2>1 DEF Listed
    <3>3. \A d \in HcConnections : d # c => hcClient'[d] = hcClient[d] /\ hcPc'[d] = hcPc[d]
      BY Zenon, <1>2, <2>3 DEF ClientTypes
    <3>4. hcClient'[c] = hcArray[i] /\ hcPc'[c] = "request"
      BY Zenon, <1>2, <2>3 DEF ClientTypes
    <3>5. \A d \in HcConnections : hcPc'[d] \in {"request", "fine", "send", "end"} =>
             hcClient'[d] \in Listed \/ (hcClient'[d] = 0 /\ hcFaulty)
      BY SMTT(30), <3>1, <3>2, <3>3, <3>4 DEF ListRight
    <3>6. Listed' = Listed
      BY ZenonT(30), <1>0 DEF Listed
    <3> QED BY ZenonT(30), <1>0, <1>2, <3>1, <3>5, <3>6 DEF ListRight
  <2>8. PassedInv'
    BY Zenon, <1>0, <1>2 DEF PassedInv
  <2> QED BY Zenon, <2>4, <2>5, <2>6, <2>7, <2>8
<1>3. ASSUME StopsAt(c) = {}, hcLast' = Append(hcLast, FirstTime), hcAddress' = Append(hcAddress, hcFrom[c]),
             hcClient' = [hcClient EXCEPT ![c] = Len(hcLast')], Go(c, "grow"), UNCHANGED <<hcFaulty, hcEnd>>
      PROVE  ClientsInv'
  <2> DEFINE n == Len(hcLast) + 1
  <2>1. /\ hcLast' \in Seq(Int) /\ Len(hcLast') = n /\ hcLast'[n] = LongAgo
        /\ \A k \in ClientNumbers : hcLast'[k] = hcLast[k]
    BY SMTT(30), <1>3 DEF ClientTypes, ClientNumbers, FirstTime, LongAgo
  <2>2. /\ hcAddress' \in Seq(HcAddresses) /\ Len(hcAddress') = n /\ hcAddress'[n] = hcFrom[c]
        /\ \A k \in ClientNumbers : hcAddress'[k] = hcAddress[k]
    BY <1>3 DEF ClientTypes, ClientNumbers
  <2>3. /\ hcPc' = [hcPc EXCEPT ![c] = "grow"] /\ hcClient' = [hcClient EXCEPT ![c] = n]
    BY Zenon, <1>3, <2>1 DEF Go
  <2>4. ClientNumbers' = ClientNumbers \cup {n} /\ n \notin ClientNumbers /\ n \in Nat /\ n # 0
    BY SMTT(30), <2>1 DEF ClientNumbers, ClientTypes
  <2>5. ClientTypes'
    BY ZenonT(30), <1>0, <2>1, <2>2, <2>3, <2>4 DEF ClientTypes
  <2> HIDE DEF n
  <2>6. NumbersGiven'
    BY Zenon, <1>0, <2>3, <2>4 DEF NumbersGiven, ClientTypes
  <2>7. TimesInv'
    <3>1. \A d \in HcConnections : hcPc'[d] = "fine" => hcPc[d] = "fine" /\ hcClient'[d] = hcClient[d]
      BY Zenon, <2>3 DEF ClientTypes
    <3>2. \A d \in HcConnections : hcPc'[d] = "fine" => hcClient[d] \in ClientNumbers
      BY Zenon, <3>1 DEF TimesInv, NumbersGiven
    <3>3. \A d \in HcConnections : hcPc'[d] = "fine" =>
            /\ hcClient'[d] # 0
            /\ \E p \in hcSent : p.client = hcClient'[d] /\ p.time < hcClock /\ p.time <= hcLast'[hcClient'[d]]
      BY SMTT(30), <2>1, <3>1, <3>2 DEF TimesInv
    <3>4. \A p \in hcSent : p.client # n
      BY Zenon, <2>4 DEF NumbersGiven
    <3>5. LongAgo <= hcClock
      BY DEF LongAgo, ClientTypes
    <3> QED BY ZenonT(30), <1>0, <2>1, <2>4, <3>3, <3>4, <3>5 DEF TimesInv
  <2>8. ListInv'
    <3> SUFFICES ASSUME Solo PROVE ListRight'
      BY Zenon, <1>0 DEF ListInv
    <3>1. ListRight /\ Adding = {} /\ Adding' = {c} /\ \E s \in 1 .. HcServers : hcServer[s] = "on"
      BY Zenon, <1>0, <2>3 DEF ListInv, Adding, ClientTypes
    <3>2. \A i \in 1 .. hcCount : hcArray[i] \in ClientNumbers /\ hcAddress'[hcArray[i]] = hcAddress[hcArray[i]]
      BY Zenon, <2>2, <3>1 DEF ListRight, NumbersGiven
    <3>3. \A i \in 1 .. hcCount : hcAddress[hcArray[i]] # hcFrom[c]
      BY ZenonT(30), <1>3 DEF StopsAt, Compared
    <3>4. hcClient'[c] = n /\ hcPc'[c] = "grow" /\ hcAddress'[hcClient'[c]] = hcFrom[c]
      BY ZenonT(30), <2>2, <2>3 DEF ClientTypes
    <3>5. Listed' = Listed
      BY ZenonT(30), <1>0 DEF Listed
    <3>6. \A d \in HcConnections : hcPc'[d] \in {"request", "fine", "send", "end"} =>
             hcClient'[d] \in Listed \/ (hcClient'[d] = 0 /\ hcFaulty)
      BY Zenon, <2>3, <3>1 DEF ListRight, ClientTypes
    <3>7. \A i, j \in 1 .. hcCount : hcAddress'[hcArray[i]] = hcAddress'[hcArray[j]] => i = j
      BY SMTT(30), <3>1, <3>2 DEF ListRight
    <3>8. \A i \in 1 .. hcCount : hcAddress'[hcArray[i]] # hcAddress'[hcClient'[c]]
      BY Zenon, <3>2, <3>3, <3>4
    <3>9. \A d, e \in Adding' : d = e
      BY Zenon, <3>1
    <3>10. \A d \in Adding' : hcClient'[d] # 0 /\ hcPc'[d] # "store"
             /\ \A i \in 1 .. hcCount : hcAddress'[hcArray[i]] # hcAddress'[hcClient'[d]]
      BY ZenonT(30), <2>4, <3>1, <3>4, <3>8
    <3>11. /\ Len(hcArray) = hcCount /\ (hcEnd = "bad" => hcFaulty)
           /\ \A i \in 1 .. hcCount : hcArray[i] # 0
      BY Zenon, <3>1 DEF ListRight
    <3> QED BY ZenonT(30), <1>0, <1>3, <3>1, <3>5, <3>6, <3>7, <3>9, <3>10, <3>11 DEF ListRight
  <2>9. PassedInv'
    BY Zenon, <1>0 DEF PassedInv
  <2> QED BY Zenon, <2>5, <2>6, <2>7, <2>8, <2>9
<1>4. ASSUME hcFaulty' = TRUE, Go(c, "request"), UNCHANGED <<hcLast, hcAddress, hcClient, hcLock, hcEnd>>
      PROVE  ClientsInv'
  <2>1. hcPc' = [hcPc EXCEPT ![c] = "request"] /\ hcClient[c] = 0
    BY Zenon, <1>0, <1>4 DEF Go, NumbersGiven
  <2>2. ClientTypes'
    BY Zenon, <1>0, <1>4, <2>1 DEF ClientTypes
  <2>3. NumbersGiven' /\ TimesInv'
    BY ZenonT(30), <1>0, <1>4, <2>1 DEF NumbersGiven, TimesInv, ClientNumbers, ClientTypes
  <2>4. ListInv'
    <3> SUFFICES ASSUME Solo PROVE ListRight'
      BY Zenon, <1>0 DEF ListInv
    <3>1. ListRight /\ Adding = {} /\ Adding' = {} /\ \E s \in 1 .. HcServers : hcServer[s] = "on"
      BY Zenon, <1>0, <2>1 DEF ListInv, Adding, ClientTypes
    <3>2. Listed' = Listed
      BY ZenonT(30), <1>0 DEF Listed
    <3> QED BY SMTT(30), <1>0, <1>4, <2>1, <3>1, <3>2 DEF ListRight, ClientTypes
  <2>5. PassedInv'
    BY Zenon, <1>0, <1>4 DEF PassedInv
  <2> QED BY Zenon, <2>2, <2>3, <2>4, <2>5
<1> QED BY ZenonT(30), <1>1, <1>2, <1>3, <1>4 DEF HcAdd

\* realloc(): with one accept loop nobody else is about to use the old array.
LEMMA GrowStep == ASSUME ClientsInv, NEW c \in HcConnections, HcGrow(c) PROVE ClientsInv'
<1> USE DEF ClientsInv
<1> DEFINE Larger == [i \in 1 .. hcCount + 1 |-> IF Wild(i) THEN 0 ELSE hcArray[i]]
<1>1. /\ hcPc[c] = "grow" /\ hcEnd = "no" /\ hcPc' = [hcPc EXCEPT ![c] = "store"]
      /\ UNCHANGED <<hcClock, hcServer, hcCount, hcArray, hcLast, hcAddress, hcFrom, hcClient, hcSent, hcPassed, hcFined, hcFaulty>>
      /\ \/ hcEnd' = "freed" /\ hcGrown' = hcGrown /\ \E d \in HcConnections : hcPc[d] = "store"
         \/ hcGrown' = [hcGrown EXCEPT ![c] = Larger] /\ hcEnd' = "no"
  BY Zenon DEF HcGrow, At, Go, hcGhosts
<1>2. Larger \in Seq(Nat) /\ Len(Larger) = hcCount + 1
  BY SMTT(30) DEF ClientTypes, Wild
<1>3. \A i \in 1 .. hcCount + 1 : Larger[i] \in {0} \cup ClientNumbers /\ (~Wild(i) => Larger[i] = hcArray[i])
  BY SMTT(30) DEF NumbersGiven, Wild, ClientTypes
<1> HIDE DEF Larger
<1>4. ClientTypes'
  BY ZenonT(30), <1>1, <1>2 DEF ClientTypes
<1>5. NumbersGiven'
  <2>1. \A d \in HcConnections : \A i \in 1 .. Len(hcGrown'[d]) : hcGrown'[d][i] \in {0} \cup ClientNumbers
    BY ZenonT(30), <1>1, <1>2, <1>3 DEF NumbersGiven, ClientTypes
  <2> QED BY Zenon, <1>1, <2>1 DEF NumbersGiven, ClientNumbers, ClientTypes
<1>6. TimesInv'
  BY ZenonT(30), <1>1 DEF TimesInv, ClientNumbers, ClientTypes
<1>7. ListInv'
  <2> SUFFICES ASSUME Solo PROVE ListRight'
    BY Zenon, <1>1 DEF ListInv, Solo
  <2>1. ListRight /\ c \in Adding
    BY Zenon, <1>1 DEF ListInv, Adding
  <2>2. Adding' = Adding /\ \A d \in Adding : d = c
    BY Zenon, <1>1, <2>1 DEF ListRight, Adding, ClientTypes
  <2>3. ~ \E d \in HcConnections : hcPc[d] = "store"
    BY Zenon, <1>1, <2>2 DEF Adding
  <2>4. hcGrown'[c] = Larger /\ hcEnd' = "no"
    BY Zenon, <1>1, <2>3 DEF ClientTypes
  <2>5. \A i \in 1 .. hcCount : ~Wild(i)
    BY SMTT(30), <2>1 DEF ListRight, Wild, ClientTypes
  <2>6. \A i \in 1 .. hcCount : Larger[i] = hcArray[i]
    BY SMTT(30), <1>3, <2>5 DEF ClientTypes
  <2>7. \A d \in HcConnections : hcPc'[d] \in {"request", "fine", "send", "end"} => hcPc[d] = hcPc'[d]
    BY Zenon, <1>1 DEF ClientTypes
  <2>8. \E s \in 1 .. HcServers : hcServer[s] = "on"
    BY Zenon, <1>1, <2>1 DEF ListRight
  <2>9. Listed' = Listed
    BY Zenon, <1>1 DEF Listed
  <2>10. \A d \in Adding' : hcClient'[d] # 0 /\ \A i \in 1 .. hcCount : hcAddress[hcArray[i]] # hcAddress[hcClient'[d]]
    BY SMTT(30), <1>1, <2>1, <2>2 DEF ListRight
  <2>11. \A d \in Adding' : Len(hcGrown'[d]) = hcCount + 1 /\ \A i \in 1 .. hcCount : hcGrown'[d][i] = hcArray[i]
    BY Zenon, <1>2, <2>2, <2>4, <2>6
  <2>12. /\ Len(hcArray) = hcCount /\ \A i \in 1 .. hcCount : hcArray[i] # 0
         /\ \A i, j \in 1 .. hcCount : hcAddress[hcArray[i]] = hcAddress[hcArray[j]] => i = j
    BY Zenon, <2>1 DEF ListRight
  <2>13. \A d \in HcConnections : hcPc'[d] \in {"request", "fine", "send", "end"} =>
             hcClient[d] \in Listed \/ (hcClient[d] = 0 /\ hcFaulty)
    BY Zenon, <2>1, <2>7 DEF ListRight
  <2> QED BY <1>1, <2>2, <2>4, <2>8, <2>9, <2>10, <2>11, <2>12, <2>13 DEF ListRight
<1>8. PassedInv'
  BY Zenon, <1>1 DEF PassedInv, Solo
<1> QED BY Zenon, <1>4, <1>5, <1>6, <1>7, <1>8

\* The larger array becomes the list, with the new client at its end.
LEMMA AddEndsStep == ASSUME ClientsInv, NEW c \in HcConnections, AddEnds(c) PROVE ClientsInv'
<1> USE DEF ClientsInv
<1> DEFINE larger == hcGrown[c]
<1>1. /\ hcPc[c] = "store" /\ hcEnd = "no" /\ hcPc' = [hcPc EXCEPT ![c] = "request"]
      /\ hcGrown' = [hcGrown EXCEPT ![c] = <<>>] /\ hcCount' = hcCount + 1
      /\ hcArray' = IF hcCount < Len(larger) THEN [larger EXCEPT ![hcCount + 1] = hcClient[c]] ELSE larger
      /\ hcEnd' = IF hcCount < Len(larger) THEN "no" ELSE "bad"
      /\ UNCHANGED <<hcClock, hcServer, hcLast, hcAddress, hcFrom, hcClient, hcSent, hcPassed, hcFined, hcFaulty>>
  BY Zenon DEF AddEnds, At, Go, hcGhosts
<1>2. larger \in Seq(Nat) /\ hcClient[c] \in Nat /\ hcCount \in Nat
  BY Zenon DEF ClientTypes
<1> HIDE DEF larger
<1>3. hcArray' \in Seq(Nat) /\ Len(hcArray') = Len(larger)
  BY SMTT(30), <1>1, <1>2
<1>4. \A i \in 1 .. Len(larger) : hcArray'[i] = IF i = hcCount + 1 THEN hcClient[c] ELSE larger[i]
  BY SMTT(30), <1>1, <1>2
<1>5. ClientTypes'
  BY SMTT(30), <1>1, <1>3 DEF ClientTypes
<1>6. NumbersGiven'
  <2>1. \A i \in 1 .. Len(hcArray') : hcArray'[i] \in {0} \cup ClientNumbers
    BY ZenonT(30), <1>3, <1>4 DEF NumbersGiven, larger
  <2>2. \A d \in HcConnections : \A i \in 1 .. Len(hcGrown'[d]) : hcGrown'[d][i] \in {0} \cup ClientNumbers
    BY SMTT(30), <1>1 DEF NumbersGiven, ClientTypes
  <2> QED BY Zenon, <1>1, <2>1, <2>2 DEF NumbersGiven, ClientNumbers, ClientTypes
<1>7. TimesInv'
  BY ZenonT(30), <1>1 DEF TimesInv, ClientNumbers, ClientTypes
<1>8. ListInv'
  <2> SUFFICES ASSUME Solo PROVE ListRight'
    BY Zenon, <1>1 DEF ListInv, Solo
  <2>1. ListRight /\ c \in Adding
    BY Zenon, <1>1 DEF ListInv, Adding
  <2>2. Adding' = {}
    BY Zenon, <1>1, <2>1 DEF ListRight, Adding, ClientTypes
  <2>3. Len(larger) = hcCount + 1 /\ (\A i \in 1 .. hcCount : larger[i] = hcArray[i]) /\ hcClient[c] # 0
    BY Zenon, <1>1, <2>1 DEF ListRight, larger
  <2>4. /\ Len(hcArray') = hcCount' /\ hcEnd' = "no" /\ hcArray'[hcCount + 1] = hcClient[c]
        /\ \A i \in 1 .. hcCount : hcArray'[i] = hcArray[i]
    BY SMTT(30), <1>1, <1>2, <1>3, <1>4, <2>3
  <2>5. \A i \in 1 .. hcCount' : i = hcCount + 1 \/ i \in 1 .. hcCount
    BY SMTT(30), <1>1, <1>2
  <2>6. \A i \in 1 .. hcCount' : hcArray'[i] # 0
    BY <2>1, <2>3, <2>4, <2>5 DEF ListRight
  <2>7. \A i \in 1 .. hcCount : hcAddress[hcArray[i]] # hcAddress[hcClient[c]]
    BY ZenonT(30), <2>1 DEF ListRight
  <2>8. \A i, j \in 1 .. hcCount' : hcAddress'[hcArray'[i]] = hcAddress'[hcArray'[j]] => i = j
    BY SMTT(30), <1>1, <2>1, <2>4, <2>5, <2>7 DEF ListRight
  <2>9. Listed \subseteq Listed' /\ hcClient[c] \in Listed'
    <3>1. 1 .. hcCount \subseteq 1 .. hcCount' /\ hcCount + 1 \in 1 .. hcCount'
      BY SMTT(30), <1>1, <1>2
    <3> QED BY ZenonT(30), <2>3, <2>4, <3>1 DEF Listed
  <2>10. \A d \in HcConnections : hcPc'[d] \in {"request", "fine", "send", "end"} => d = c \/ hcPc[d] = hcPc'[d]
    BY Zenon, <1>1 DEF ClientTypes
  <2>11. \E s \in 1 .. HcServers : hcServer[s] = "on"
    BY Zenon, <1>1, <2>1 DEF ListRight
  <2> QED BY ZenonT(30), <1>1, <2>1, <2>2, <2>4, <2>6, <2>8, <2>9, <2>10, <2>11 DEF ListRight
<1>9. PassedInv'
  BY Zenon, <1>1 DEF PassedInv, Solo
<1> QED BY Zenon, <1>5, <1>6, <1>7, <1>8, <1>9

\* A client is let through, or refused when it had a picture less than a second ago.
LEMMA RequestStep == ASSUME ClientsInv, NEW c \in HcConnections, HcRequest(c) PROVE ClientsInv'
<1> USE DEF ClientsInv
<1> DEFINE k == hcClient[c]
<1>0. /\ hcPc[c] = "request" /\ hcEnd = "no"
      /\ UNCHANGED <<hcClock, hcServer, hcCount, hcArray, hcGrown, hcLast, hcAddress, hcFrom, hcClient, hcSent, hcFined, hcFaulty>>
      /\ k \in Nat /\ hcClock \in Nat /\ hcCount \in Nat
  BY ZenonT(30) DEF HcRequest, At, ClientTypes
<1>1. CASE ~Readable /\ hcEnd' = "bad" /\ UNCHANGED <<hcPc, hcPassed>>
  <2>1. hcCount \in 1 .. hcCount /\ Wild(hcCount)
    BY SMTT(30), <1>0, <1>1 DEF Readable, Wild, ClientTypes
  <2> QED BY <1>0, <1>1, <2>1, IdleStep DEF ClientTypes
<1>2. ASSUME NEW place \in {"fine", "send"}, hcPc' = [hcPc EXCEPT ![c] = place], hcEnd' = hcEnd
      PROVE  ClientTypes' /\ NumbersGiven' /\ ListInv'
  <2>1. ClientTypes'
    BY Zenon, <1>0, <1>2 DEF ClientTypes
  <2>2. NumbersGiven'
    BY Zenon, <1>0, <1>2 DEF NumbersGiven, ClientNumbers, ClientTypes
  <2>3. ListInv'
    <3> SUFFICES ASSUME Solo PROVE ListRight'
      BY ZenonT(30), <1>0 DEF ListInv, Solo
    <3>1. ListRight /\ Adding' = Adding /\ Listed' = Listed
      BY ZenonT(30), <1>0, <1>2 DEF ListInv, Adding, Listed, ClientTypes
    <3>2. \A d \in HcConnections : hcPc'[d] = hcPc[d] \/ (d = c /\ hcPc'[d] = place)
      BY Zenon, <1>2 DEF ClientTypes
    <3>3. \E s \in 1 .. HcServers : hcServer[s] = "on"
      BY Zenon, <1>0, <3>1 DEF ListRight
    <3>4. \A d \in HcConnections : hcPc'[d] \in {"request", "fine", "send", "end"} =>
             hcClient[d] \in Listed \/ (hcClient[d] = 0 /\ hcFaulty)
      BY ZenonT(30), <1>0, <3>1, <3>2 DEF ListRight
    <3>5. \A d \in Adding : hcPc'[d] = "store" => hcPc[d] = "store"
      BY ZenonT(30), <1>0, <3>2 DEF Adding
    <3> QED BY ZenonT(30), <1>0, <1>2, <3>1, <3>3, <3>4, <3>5 DEF ListRight
  <2> QED BY Zenon, <2>1, <2>2, <2>3
<1>3. ASSUME Readable, Cheats(k), Go(c, "fine"), UNCHANGED <<hcPassed, hcEnd>> PROVE ClientsInv'
  <2>1. hcPc' = [hcPc EXCEPT ![c] = "fine"]
    BY Zenon, <1>3 DEF Go
  <2>2. k \in ClientNumbers /\ k # 0
    BY ZenonT(30), <1>3 DEF Cheats, Listed, Readable, NumbersGiven, ClientTypes
  <2>3. hcLast[k] \in Int
    BY SMTT(30), <2>2 DEF ClientNumbers, ClientTypes
  <2>4. hcLast[k] < hcClock /\ hcLast[k] # LongAgo
    BY <1>0, <1>3, <2>3 DEF Cheats, Interval, LongAgo
  <2>5. PICK p \in hcSent : p.client = k /\ p.time <= hcLast[k]
    BY ZenonT(30), <2>2, <2>4 DEF TimesInv
  <2>6. p.time < hcClock
    BY SMTT(30), <1>0, <2>3, <2>4, <2>5 DEF ClientTypes
  <2>7. \A d \in HcConnections : hcPc'[d] = "fine" => d = c \/ hcPc[d] = "fine"
    BY Zenon, <2>1 DEF ClientTypes
  <2>8. TimesInv'
    BY ZenonT(30), <1>0, <2>2, <2>5, <2>6, <2>7 DEF TimesInv, ClientNumbers
  <2>9. PassedInv'
    BY ZenonT(30), <1>0, <1>3 DEF PassedInv, Solo
  <2> QED BY Zenon, <1>2, <1>3, <2>1, <2>8, <2>9
<1>4. ASSUME ~Cheats(k), Go(c, "send"), hcEnd' = hcEnd,
             hcPassed' = hcPassed \cup {[client |-> p.client, time |-> hcClock] : p \in Recently(k)}
      PROVE  ClientsInv'
  <2>1. hcPc' = [hcPc EXCEPT ![c] = "send"]
    BY ZenonT(30), <1>4 DEF Go
  <2>2. TimesInv'
    BY ZenonT(30), <1>0, <2>1 DEF TimesInv, ClientNumbers, ClientTypes
  <2>3. ASSUME NEW p \in Recently(k), Solo, k \notin hcFined
        PROVE  [client |-> p.client, time |-> hcClock] \in hcSent
    <3>1. p \in hcSent /\ p.client = k /\ p.time < hcClock /\ hcClock - p.time < Interval /\ p.time \in Nat
      BY Zenon, <2>3 DEF Recently, ClientTypes
    <3>2. k \in ClientNumbers /\ k # 0
      BY <3>1 DEF NumbersGiven, ClientNumbers
    <3>3. hcLast[k] \in Int
      BY SMTT(30), <3>2 DEF ClientNumbers, ClientTypes
    <3>4. k \in Listed
      BY ZenonT(30), <1>0, <2>3, <3>2 DEF ListInv, ListRight
    <3>5. p.time <= hcLast[k] /\ hcLast[k] <= hcClock
      BY ZenonT(30), <2>3, <3>1, <3>2 DEF TimesInv
    <3>6. hcLast[k] = hcClock /\ hcLast[k] # LongAgo
      BY <1>0, <1>4, <3>1, <3>3, <3>4, <3>5 DEF Cheats, Interval, LongAgo
    <3>7. [client |-> k, time |-> hcLast[k]] \in hcSent
      BY ZenonT(30), <2>3, <3>2, <3>6 DEF TimesInv
    <3> QED BY Zenon, <3>1, <3>6, <3>7
  <2>4. \A p \in Recently(k) : p.client = k
    BY Zenon DEF Recently
  <2>5. PassedInv'
    BY <1>0, <1>4, <2>3, <2>4 DEF PassedInv, Solo
  <2> QED BY ZenonT(30), <1>2, <1>4, <2>1, <2>2, <2>5
<1> QED BY ZenonT(30), <1>1, <1>3, <1>4 DEF HcRequest

\* A fine moves the time of the last picture ahead.
LEMMA FineStep == ASSUME ClientsInv, NEW c \in HcConnections, FineClient(c) PROVE ClientsInv'
<1> USE DEF ClientsInv
<1> DEFINE k == hcClient[c]
<1>1. /\ hcPc[c] = "fine" /\ hcPc' = [hcPc EXCEPT ![c] = "end"]
      /\ hcLast' = [hcLast EXCEPT ![k] = @ + PiggyFine] /\ hcFined' = hcFined \cup {k}
      /\ UNCHANGED <<hcClock, hcServer, hcCount, hcArray, hcGrown, hcAddress, hcFrom, hcClient, hcSent, hcPassed, hcFaulty, hcEnd>>
  BY ZenonT(30) DEF FineClient, At, Go
<1>2. k \in ClientNumbers
  BY ZenonT(30), <1>1 DEF TimesInv, NumbersGiven
<1>3. \A n \in ClientNumbers : hcLast[n] \in Int
  BY SMTT(30) DEF ClientNumbers, ClientTypes
<1> HIDE DEF k
<1>4. /\ hcLast' \in Seq(Int) /\ Len(hcLast') = Len(hcLast) /\ hcLast'[k] = hcLast[k] + 4
      /\ \A n \in ClientNumbers : n # k => hcLast'[n] = hcLast[n]
  BY SMTT(30), <1>1, <1>2, <1>3 DEF ClientNumbers, ClientTypes, PiggyFine
<1>5. ClientTypes' /\ ClientNumbers' = ClientNumbers
  BY Zenon, <1>1, <1>4 DEF ClientTypes, ClientNumbers
<1>6. NumbersGiven'
  BY Zenon, <1>1, <1>5 DEF NumbersGiven, ClientTypes
<1>7. TimesInv'
  <2>1. \A n \in ClientNumbers : hcLast[n] <= hcLast'[n] /\ hcLast'[n] \in Int
    BY <1>3, <1>4
  <2>2. \A p \in hcSent : p.time \in Nat
    BY Zenon DEF ClientTypes
  <2>3. \E p \in hcSent : p.client = k /\ p.time <= hcLast[k]
    BY ZenonT(30), <1>1 DEF TimesInv, k
  <2>4. \A n \in ClientNumbers : hcLast'[n] = LongAgo \/ \E p \in hcSent : p.client = n /\ p.time <= hcLast'[n]
    BY <1>2, <1>3, <1>4, <2>1, <2>2, <2>3 DEF TimesInv
  <2>5. \A d \in HcConnections : hcPc'[d] = "fine" => hcPc[d] = "fine" /\ hcClient[d] \in ClientNumbers
    BY ZenonT(30), <1>1 DEF ClientTypes, TimesInv, NumbersGiven
  <2>6. \A d \in HcConnections : hcPc'[d] = "fine" =>
            /\ hcClient[d] # 0
            /\ \E p \in hcSent : p.client = hcClient[d] /\ p.time < hcClock /\ p.time <= hcLast'[hcClient[d]]
    <3> SUFFICES ASSUME NEW d \in HcConnections, hcPc'[d] = "fine"
                 PROVE  /\ hcClient[d] # 0
                        /\ \E p \in hcSent : p.client = hcClient[d] /\ p.time < hcClock /\ p.time <= hcLast'[hcClient[d]]
      BY ZenonT(30)
    <3>1. PICK p \in hcSent : p.client = hcClient[d] /\ p.time < hcClock /\ p.time <= hcLast[hcClient[d]]
      BY ZenonT(30), <2>5 DEF TimesInv
    <3>2. p.time <= hcLast'[hcClient[d]]
      BY <1>3, <2>1, <2>2, <2>5, <3>1
    <3> QED BY ZenonT(30), <2>5, <3>1, <3>2 DEF TimesInv
  <2>7. \A n \in ClientNumbers \ hcFined' : n \in ClientNumbers \ hcFined /\ hcLast'[n] = hcLast[n]
    BY Zenon, <1>1, <1>4
  <2> QED BY <1>1, <1>5, <2>4, <2>6, <2>7 DEF TimesInv
<1>8. ListInv'
  <2> SUFFICES ASSUME Solo PROVE ListRight'
    BY Zenon, <1>1 DEF ListInv, Solo
  <2>1. ListRight /\ Adding' = Adding /\ Listed' = Listed
    BY ZenonT(30), <1>1 DEF ListInv, Adding, Listed, ClientTypes
  <2>2. \A d \in HcConnections : hcPc'[d] = hcPc[d] \/ (d = c /\ hcPc'[d] = "end")
    BY Zenon, <1>1 DEF ClientTypes
  <2>3. \E s \in 1 .. HcServers : hcServer[s] = "on"
    BY Zenon, <1>1, <2>1 DEF ListRight
  <2> QED BY <1>1, <2>1, <2>2, <2>3 DEF ListRight, Adding
<1>9. PassedInv'
  BY ZenonT(30), <1>1 DEF PassedInv, Solo
<1> QED BY Zenon, <1>5, <1>6, <1>7, <1>8, <1>9

\* A picture is sent, and its time kept.
LEMMA SendStep == ASSUME ClientsInv, NEW c \in HcConnections, HcSend(c) PROVE ClientsInv'
<1> USE DEF ClientsInv
<1> DEFINE k == hcClient[c]
           sent == [client |-> k, time |-> hcClock]
<1>0. /\ hcPc[c] = "send" /\ hcEnd = "no"
      /\ UNCHANGED <<hcClock, hcServer, hcCount, hcArray, hcGrown, hcAddress, hcFrom, hcClient, hcPassed, hcFined, hcFaulty>>
  BY ZenonT(30) DEF HcSend, At
<1>1. CASE k = 0
  <2>1. Solo => hcFaulty
    BY ZenonT(30), <1>0, <1>1 DEF ListInv, ListRight, Listed
  <2> QED BY <1>0, <1>1, <2>1, IdleStep DEF ClientTypes, HcSend
<1>2. CASE k # 0
  <2>1. /\ hcLast' = [hcLast EXCEPT ![k] = hcClock] /\ hcSent' = hcSent \cup {sent} /\ hcEnd' = hcEnd
        /\ hcPc' = [hcPc EXCEPT ![c] = "end"] \/ hcPc' = hcPc
    BY Zenon, <1>2 DEF HcSend, Stamp, Go
  <2>2. k \in ClientNumbers /\ k \in Nat /\ hcClock \in Nat
    BY Zenon, <1>2 DEF NumbersGiven, ClientTypes
  <2>3. \A n \in ClientNumbers : hcLast[n] \in Int
    BY DEF ClientNumbers, ClientTypes
  <2> HIDE DEF k
  <2>4. sent.client = k /\ sent.time = hcClock /\ sent \in [client : Nat, time : Nat]
    BY Zenon, <2>2
  <2> HIDE DEF sent
  <2>5. /\ hcLast' \in Seq(Int) /\ Len(hcLast') = Len(hcLast) /\ hcLast'[k] = hcClock
        /\ \A n \in ClientNumbers : n # k => hcLast'[n] = hcLast[n]
    BY SMTT(30), <2>1, <2>2 DEF ClientNumbers, ClientTypes
  <2>6. ClientTypes' /\ ClientNumbers' = ClientNumbers
    BY Zenon, <1>0, <2>1, <2>4, <2>5 DEF ClientTypes, ClientNumbers
  <2>7. NumbersGiven'
    <3>1. \A p \in hcSent' : p.client \in ClientNumbers /\ p.time <= hcClock
      BY SMTT(30), <2>1, <2>2, <2>4 DEF NumbersGiven
    <3> QED BY Zenon, <1>0, <2>1, <2>6, <3>1 DEF NumbersGiven, ClientTypes
  <2>8. TimesInv'
    <3>1. \A n \in ClientNumbers : hcLast'[n] = LongAgo \/ \E p \in hcSent' : p.client = n /\ p.time <= hcLast'[n]
      BY <2>1, <2>2, <2>4, <2>5 DEF TimesInv
    <3>2. \A n \in ClientNumbers \ hcFined :
             /\ hcLast'[n] = LongAgo \/ [client |-> n, time |-> hcLast'[n]] \in hcSent'
             /\ \A p \in hcSent' : p.client = n => p.time <= hcLast'[n]
             /\ hcLast'[n] <= hcClock
      <4> SUFFICES ASSUME NEW n \in ClientNumbers \ hcFined
                   PROVE  /\ hcLast'[n] = LongAgo \/ [client |-> n, time |-> hcLast'[n]] \in hcSent'
                          /\ \A p \in hcSent' : p.client = n => p.time <= hcLast'[n]
                          /\ hcLast'[n] <= hcClock
        BY ZenonT(30)
      <4>1. CASE n = k
        BY SMTT(30), <2>1, <2>2, <2>4, <2>5, <4>1 DEF NumbersGiven, sent
      <4>2. CASE n # k
        BY <2>1, <2>4, <2>5, <4>2 DEF TimesInv
      <4> QED BY Zenon, <4>1, <4>2
    <3>3. \A d \in HcConnections : hcPc'[d] = "fine" => hcPc[d] = "fine" /\ hcClient[d] \in ClientNumbers /\ hcClient[d] # 0
      BY Zenon, <2>1 DEF ClientTypes, TimesInv, NumbersGiven
    <3>4. \A d \in HcConnections : hcPc'[d] = "fine" =>
              \E p \in hcSent' : p.client = hcClient[d] /\ p.time < hcClock /\ p.time <= hcLast'[hcClient[d]]
      <4> SUFFICES ASSUME NEW d \in HcConnections, hcPc'[d] = "fine"
                   PROVE  \E p \in hcSent' : p.client = hcClient[d] /\ p.time < hcClock /\ p.time <= hcLast'[hcClient[d]]
        BY ZenonT(30)
      <4>1. PICK p \in hcSent : p.client = hcClient[d] /\ p.time < hcClock /\ p.time <= hcLast[hcClient[d]]
        BY Zenon, <3>3 DEF TimesInv
      <4>2. p.time \in Nat
        BY Zenon DEF ClientTypes
      <4>3. hcClient[d] = k => p.time <= hcLast'[hcClient[d]]
        BY SMTT(30), <2>2, <2>5, <4>1, <4>2
      <4>4. hcClient[d] # k => p.time <= hcLast'[hcClient[d]]
        BY Zenon, <2>5, <3>3, <4>1
      <4> QED BY ZenonT(30), <2>1, <4>1, <4>3, <4>4
    <3> QED BY ZenonT(30), <1>0, <2>6, <3>1, <3>2, <3>3, <3>4 DEF TimesInv
  <2>9. ListInv'
    <3> SUFFICES ASSUME Solo PROVE ListRight'
      BY Zenon, <1>0 DEF ListInv, Solo
    <3>1. ListRight /\ Adding' = Adding /\ Listed' = Listed
      BY Zenon, <1>0, <2>1 DEF ListInv, Adding, Listed, ClientTypes
    <3>2. \A d \in HcConnections : hcPc'[d] = hcPc[d] \/ (d = c /\ hcPc'[d] = "end")
      BY Zenon, <2>1 DEF ClientTypes
    <3>3. \E s \in 1 .. HcServers : hcServer[s] = "on"
      BY Zenon, <1>0, <3>1 DEF ListRight
    <3> QED BY ZenonT(30), <1>0, <2>1, <3>1, <3>2, <3>3 DEF ListRight, Adding
  <2>10. PassedInv'
    BY ZenonT(30), <1>0, <2>1 DEF PassedInv, Solo
  <2> QED BY Zenon, <2>6, <2>7, <2>8, <2>9, <2>10
<1> QED BY Zenon, <1>1, <1>2

\* ClientsKept, for any number of connections, addresses and servers: with one output_http, and as long as memory
\* lasts, the client of every connection is in the list and no address twice (ClientsListed); a client is refused only
\* after a picture (RefusedOnlyServed); one is let through early for a reason (LetThroughExplained); and a thread
\* follows a wild pointer only when a second output_http emptied the list or memory ran out (BadOnlyByRestart).
THEOREM ClientsKeptHolds == HcSpec => []ClientsKept
<1>1. HcInit => ClientsInv
  BY Zenon, ClientsInitially
<1>2. ASSUME ClientsInv, [HcNext]_hcVars PROVE ClientsInv'
  <2>1. CASE UNCHANGED hcVars
    BY SMTT(30), <1>2, <2>1, IdleStep DEF hcVars, hcThreads, hcGhosts, ClientsInv, ClientTypes
  <2>2. CASE HcTick
    BY SMTT(30), <1>2, <2>2, IdleStep DEF HcTick, hcThreads, hcGhosts, ClientsInv, ClientTypes
  <2>3. ASSUME NEW c \in HcConnections, ClientsJson(c) PROVE ClientsInv'
    <3>1. hcEnd' = "bad" => \E i \in 1 .. hcCount : Wild(i)
      BY Zenon, <2>3 DEF ClientsJson
    <3>2. hcPc[c] = "request" /\ hcPc' = [hcPc EXCEPT ![c] = "end"] /\ hcClock' = hcClock /\ hcClock \in Nat
      BY Zenon, <1>2, <2>3 DEF ClientsJson, At, Go, ClientsInv, ClientTypes
    <3>3. /\ hcPc' \in [HcConnections -> {"none", "grow", "store", "request", "fine", "send", "end"}]
          /\ \A d \in HcConnections : hcPc'[d] = hcPc[d] \/ (hcPc[d] = "request" /\ hcPc'[d] = "end")
      BY Zenon, <1>2, <3>2 DEF ClientsInv, ClientTypes
    <3> QED BY <1>2, <2>3, <3>1, <3>2, <3>3, IdleStep DEF ClientsJson, hcGhosts
  <2> QED BY Zenon, <1>2, <2>1, <2>2, <2>3, StartStep, AddStep, GrowStep, AddEndsStep, RequestStep, FineStep,
             SendStep DEF HcNext
<1>3. ASSUME ClientsInv PROVE ClientsKept
  <2>1. StartedOnce => Solo
    BY Zenon, <1>3, StartedOnceIsSolo DEF ClientsInv
  <2>2. ClientsListed
    BY Zenon, <1>3, <2>1 DEF ClientsInv, ClientsListed, ListInv, ListRight
  <2>3. RefusedOnlyServed
    BY Zenon, <1>3 DEF ClientsInv, RefusedOnlyServed, TimesInv
  <2>4. LetThroughExplained
    BY Zenon, <1>3, <2>1 DEF ClientsInv, LetThroughExplained, PassedInv
  <2>5. BadOnlyByRestart
    BY ZenonT(30), <1>3, <2>1 DEF ClientsInv, BadOnlyByRestart, ListInv, ListRight
  <2> QED BY Zenon, <2>2, <2>3, <2>4, <2>5 DEF ClientsKept
<1> QED BY <1>1, <1>2, <1>3, PTL DEF HcSpec
=============================================================================
