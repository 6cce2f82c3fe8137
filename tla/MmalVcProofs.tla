---------------------------- MODULE MmalVcProofs ----------------------------
(***************************************************************************)
(* That a call to the VideoCore gets its own reply, through a waiter of    *)
(* its own, with its bulk transfer and the service in use, for any number  *)
(* of threads and of waiters and whatever calls of VCHIQ fail.             *)
(***************************************************************************)
EXTENDS MmalVcClient, FiniteSetTheorems, TLAPS

-----------------------------------------------------------------------------

VcPlaces == {"out", "unuse", "ready", "using", "getwaiter", "pickwaiter", "send", "bulk", "await", "unsent", "answered",
             "releasewaiter"}

\* Where a call may have a waiter, and where it has sent its message and not been answered.
WithWaiter == {"send", "bulk", "await", "unsent", "answered", "releasewaiter"}
Sent == {"bulk", "await"}

\* The threads with a reference to the client, those that came through the semaphore of the pool, and those that use
\* the service.
Inside == {t \in VcThreads : vcAt[t] # "out"}
Through == {t \in VcThreads : vcAt[t] = "pickwaiter" \/ mine[t] # 0}
InService == {t \in VcThreads : vcAt[t] \in {"unuse", "using", "await", "unsent"} \/ (vcAt[t] = "bulk" /\ mine[t] # 0)}

VcTypes ==
    /\ vcRefs \in Nat /\ useCount \in Int /\ useFaults \in Nat /\ poolSem \in Nat
    /\ inUse \subseteq Waiters /\ dest \in [Waiters -> VcThreads \cup {NoThread}] /\ waiterSem \in [Waiters -> Nat]
    /\ bulkLock \in VcThreads \cup {NoThread} /\ vcAt \in [VcThreads -> VcPlaces]
    /\ mine \in [VcThreads -> 0 .. MaxWaiters] /\ isBulk \in [VcThreads -> BOOLEAN]
    /\ answer \in [VcThreads -> VcThreads \cup {NoThread}]
    /\ toVc \in Seq(VcThreads \X (0 .. MaxWaiters) \X BOOLEAN) /\ bulkTo \in Seq(VcThreads)
    /\ toHost \in Seq(VcThreads \X (0 .. MaxWaiters))

\* The counters count threads.
CountsInv ==
    /\ vcRefs = Cardinality(Inside)
    /\ vcRefs > 0 => poolSem + Cardinality(Through) = MaxWaiters
    /\ ServiceInUse

\* A waiter in use is that of one call.
WaitersInv ==
    /\ \A t \in VcThreads : mine[t] # 0 => vcAt[t] \in WithWaiter
    /\ \A t \in VcThreads : vcAt[t] \in {"await", "unsent", "answered", "releasewaiter"} => mine[t] # 0
    /\ \A s, t \in VcThreads : mine[s] # 0 /\ mine[s] = mine[t] /\ vcAt[s] # "releasewaiter" /\ vcAt[t] # "releasewaiter" => s = t
    /\ \A t \in VcThreads : mine[t] # 0 /\ vcAt[t] # "releasewaiter" => mine[t] \in inUse
    /\ \A w \in inUse : \E t \in VcThreads : mine[t] = w /\ vcAt[t] # "releasewaiter"
    /\ WaiterFound

\* The message of a call, the reply to it, or the post of its waiter: there is only one of them, and it is that of the
\* call whose waiter it names.
Asking(m) == m[2] # 0 => vcAt[m[1]] \in Sent /\ mine[m[1]] = m[2] /\ dest[m[2]] = m[1]

RepliesInv ==
    /\ \A i \in 1 .. Len(toVc) : Asking(toVc[i])
    /\ \A i \in 1 .. Len(toHost) : toHost[i][2] # 0 /\ Asking(toHost[i])
    /\ \A i, j \in 1 .. Len(toVc) : toVc[i][2] # 0 /\ toVc[i][2] = toVc[j][2] => i = j
    /\ \A i, j \in 1 .. Len(toHost) : toHost[i][2] = toHost[j][2] => i = j
    /\ \A i \in 1 .. Len(toVc), j \in 1 .. Len(toHost) : toVc[i][2] # toHost[j][2]
    /\ \A w \in Waiters : waiterSem[w] > 0 =>
          /\ waiterSem[w] = 1
          /\ \A i \in 1 .. Len(toVc) : toVc[i][2] # w
          /\ \A i \in 1 .. Len(toHost) : toHost[i][2] # w
          /\ \E t \in VcThreads : mine[t] = w /\ vcAt[t] \in Sent /\ answer[t] = t

\* bulk_lock is that of the call that has a bulk transfer to make, which it sends last of all.
LockInv ==
    /\ \A t \in VcThreads : isBulk[t] => vcAt[t] \notin {"out", "unuse", "ready", "using"}
    /\ \A t \in VcThreads : vcAt[t] = "bulk" => isBulk[t]
    /\ \A t \in VcThreads : bulkLock = t <=> isBulk[t] /\ vcAt[t] \in {"getwaiter", "pickwaiter", "send", "bulk"}

\* The transfers that are sent or about to be are, in order, those of the messages that announce one.
Owed == IF \E t \in VcThreads : vcAt[t] = "bulk" THEN Append(bulkTo, bulkLock) ELSE bulkTo
Places(f, msgs, owed) ==
    /\ \A k \in 1 .. Len(owed) : f[k] \in 1 .. Len(msgs) /\ msgs[f[k]][3] /\ msgs[f[k]][1] = owed[k]
    /\ \A k, l \in 1 .. Len(owed) : k < l => f[k] < f[l]
    /\ \A i \in 1 .. Len(msgs) : msgs[i][3] => \E k \in 1 .. Len(owed) : f[k] = i
Announced(msgs, owed) == \E f \in [1 .. Len(owed) -> Nat] : Places(f, msgs, owed)
BulkInv == BulkPaired /\ Announced(toVc, Owed)

VcInv == VcTypes /\ CountsInv /\ WaitersInv /\ RepliesInv /\ LockInv /\ BulkInv

-----------------------------------------------------------------------------
\* A sequence without its first element.
LEMMA Shorter ==
    ASSUME NEW S, NEW q \in Seq(S), q # <<>>
    PROVE  /\ Head(q) \in S /\ Head(q) = q[1] /\ Tail(q) \in Seq(S)
           /\ Len(q) \in Nat \ {0} /\ 1 \in 1 .. Len(q) /\ Len(Tail(q)) = Len(q) - 1
           /\ \A i \in 1 .. Len(Tail(q)) : i + 1 \in 1 .. Len(q) /\ i + 1 # 1 /\ Tail(q)[i] = q[i + 1]
OBVIOUS

\* A sequence with one more element.
LEMMA Longer ==
    ASSUME NEW S, NEW q \in Seq(S), NEW e \in S
    PROVE  /\ Append(q, e) \in Seq(S) /\ Len(q) \in Nat /\ Len(Append(q, e)) = Len(q) + 1
           /\ Append(q, e)[Len(q) + 1] = e
           /\ \A i \in 1 .. Len(q) : Append(q, e)[i] = q[i]
           /\ \A i \in 1 .. Len(Append(q, e)) : i \in 1 .. Len(q) \/ i = Len(q) + 1
OBVIOUS

\* A count of a function of counts goes up or down by one.
LEMMA OneMore ==
    ASSUME NEW S, NEW f \in [S -> Nat], NEW k
    PROVE  /\ [f EXCEPT ![k] = f[k] + 1] \in [S -> Nat]
           /\ k \in S /\ f[k] > 0 => [f EXCEPT ![k] = f[k] - 1] \in [S -> Nat]
<1>1. [f EXCEPT ![k] = f[k] + 1] \in [S -> Nat]
  <2>1. CASE k \in S
    <3>1. f[k] + 1 \in Nat
      BY <2>1
    <3> QED BY Zenon, <3>1
  <2>2. CASE k \notin S
    BY Zenon, <2>2
  <2> QED BY Zenon, <2>1, <2>2
<1>2. ASSUME k \in S, f[k] > 0 PROVE [f EXCEPT ![k] = f[k] - 1] \in [S -> Nat]
  <2>1. f[k] - 1 \in Nat
    BY <1>2
  <2> QED BY Zenon, <2>1
<1> QED BY Zenon, <1>1, <1>2

\* A message that announces a transfer, and the transfer, come last.
LEMMA AnnounceOne ==
    ASSUME NEW S, NEW msgs \in Seq(S), NEW T, NEW owed \in Seq(T), NEW m \in S, m[1] \in T, Announced(msgs, owed), m[3]
    PROVE  Announced(Append(msgs, m), Append(owed, m[1]))
<1> DEFINE n == Len(owed) + 1
           more == Append(msgs, m)
           all == Append(owed, m[1])
<1>1. PICK f \in [1 .. Len(owed) -> Nat] : Places(f, msgs, owed)
  BY Zenon DEF Announced
<1>a. \A k \in 1 .. Len(owed) : f[k] \in 1 .. Len(msgs) /\ msgs[f[k]][3] /\ msgs[f[k]][1] = owed[k]
  BY Zenon, <1>1 DEF Places
<1>b. \A k, l \in 1 .. Len(owed) : k < l => f[k] < f[l]
  BY Zenon, <1>1 DEF Places
<1>c. \A i \in 1 .. Len(msgs) : msgs[i][3] => \E k \in 1 .. Len(owed) : f[k] = i
  BY Zenon, <1>1 DEF Places
<1>2. /\ Len(more) = Len(msgs) + 1 /\ Len(msgs) \in Nat /\ more[Len(msgs) + 1] = m
      /\ \A i \in 1 .. Len(msgs) : more[i] = msgs[i]
  OBVIOUS
<1>3. /\ Len(all) = n /\ Len(owed) \in Nat /\ all[n] = m[1]
      /\ \A k \in 1 .. Len(owed) : all[k] = owed[k]
  OBVIOUS
<1> DEFINE g == [k \in 1 .. n |-> IF k = n THEN Len(msgs) + 1 ELSE f[k]]
<1>4. g \in [1 .. Len(all) -> Nat] /\ g[n] = Len(msgs) + 1 /\ \A k \in 1 .. Len(owed) : g[k] = f[k]
  BY <1>2, <1>3
<1> HIDE DEF g, more, all
<1>5. \A k \in 1 .. n : k \in 1 .. Len(owed) \/ k = n
  BY <1>3
<1>d. /\ \A i \in 1 .. Len(msgs) : i \in 1 .. Len(more)
      /\ Len(msgs) + 1 \in 1 .. Len(more)
      /\ \A i \in 1 .. Len(more) : i \in 1 .. Len(msgs) \/ i = Len(msgs) + 1
      /\ \A k \in 1 .. Len(owed) : k \in 1 .. Len(all)
      /\ n \in 1 .. Len(all)
  BY <1>2, <1>3
<1>6. ASSUME NEW k \in 1 .. Len(all) PROVE g[k] \in 1 .. Len(more) /\ more[g[k]][3] /\ more[g[k]][1] = all[k]
  <2>1. CASE k \in 1 .. Len(owed)
    <3>1. f[k] \in 1 .. Len(msgs) /\ msgs[f[k]][3] /\ msgs[f[k]][1] = owed[k]
      BY Zenon, <1>a, <2>1
    <3>2. more[f[k]] = msgs[f[k]] /\ f[k] \in 1 .. Len(more) /\ all[k] = owed[k] /\ g[k] = f[k]
      BY Zenon, <1>2, <1>3, <1>4, <1>d, <2>1, <3>1
    <3> QED BY Zenon, <3>1, <3>2
  <2>2. CASE k = n
    <3>1. g[k] = Len(msgs) + 1 /\ more[g[k]] = m /\ all[k] = m[1]
      BY Zenon, <1>2, <1>3, <1>4, <2>2
    <3> QED BY Zenon, <1>d, <3>1
  <2> QED BY Zenon, <1>3, <1>5, <2>1, <2>2
<1>7. ASSUME NEW k \in 1 .. Len(all), NEW l \in 1 .. Len(all), k < l PROVE g[k] < g[l]
  <2>1. k \in 1 .. Len(owed)
    BY <1>3, <1>7
  <2>2. g[k] = f[k] /\ f[k] \in 1 .. Len(msgs)
    BY Zenon, <1>4, <1>a, <2>1
  <2>3. CASE l \in 1 .. Len(owed)
    BY Zenon, <1>4, <1>7, <1>b, <2>1, <2>2, <2>3
  <2>4. CASE l = n
    <3>1. g[l] = Len(msgs) + 1
      BY Zenon, <1>4, <2>4
    <3> QED BY <1>2, <2>2, <3>1
  <2> QED BY Zenon, <1>3, <1>5, <2>3, <2>4
<1>8. ASSUME NEW i \in 1 .. Len(more), more[i][3] PROVE \E k \in 1 .. Len(all) : g[k] = i
  <2>1. CASE i \in 1 .. Len(msgs)
    <3>1. PICK k \in 1 .. Len(owed) : f[k] = i
      BY Zenon, <1>2, <1>8, <1>c, <2>1
    <3> QED BY Zenon, <1>4, <1>d, <3>1
  <2>2. CASE i = Len(msgs) + 1
    BY Zenon, <1>4, <1>d, <2>2
  <2> QED BY Zenon, <1>d, <2>1, <2>2
<1>9. Places(g, more, all)
  BY Zenon, <1>6, <1>7, <1>8 DEF Places
<1> QED BY Zenon, <1>4, <1>9 DEF Announced, more, all

\* A message without a transfer changes nothing.
LEMMA AnnounceNone ==
    ASSUME NEW S, NEW msgs \in Seq(S), NEW owed, NEW m \in S, Announced(msgs, owed), ~m[3]
    PROVE  Announced(Append(msgs, m), owed)
<1> DEFINE more == Append(msgs, m)
<1>1. PICK f \in [1 .. Len(owed) -> Nat] : Places(f, msgs, owed)
  BY Zenon DEF Announced
<1>a. \A k \in 1 .. Len(owed) : f[k] \in 1 .. Len(msgs) /\ msgs[f[k]][3] /\ msgs[f[k]][1] = owed[k]
  BY Zenon, <1>1 DEF Places
<1>b. \A k, l \in 1 .. Len(owed) : k < l => f[k] < f[l]
  BY Zenon, <1>1 DEF Places
<1>c. \A i \in 1 .. Len(msgs) : msgs[i][3] => \E k \in 1 .. Len(owed) : f[k] = i
  BY Zenon, <1>1 DEF Places
<1>2. /\ Len(more) = Len(msgs) + 1 /\ Len(msgs) \in Nat /\ more[Len(msgs) + 1] = m
      /\ \A i \in 1 .. Len(msgs) : more[i] = msgs[i]
  OBVIOUS
<1> HIDE DEF more
<1>d. /\ \A i \in 1 .. Len(msgs) : i \in 1 .. Len(more)
      /\ \A i \in 1 .. Len(more) : i \in 1 .. Len(msgs) \/ i = Len(msgs) + 1
  BY <1>2
<1>3. Places(f, more, owed)
  <2>1. ASSUME NEW k \in 1 .. Len(owed) PROVE f[k] \in 1 .. Len(more) /\ more[f[k]][3] /\ more[f[k]][1] = owed[k]
    <3>1. f[k] \in 1 .. Len(msgs) /\ msgs[f[k]][3] /\ msgs[f[k]][1] = owed[k]
      BY Zenon, <1>a
    <3>2. more[f[k]] = msgs[f[k]] /\ f[k] \in 1 .. Len(more)
      BY Zenon, <1>2, <1>d, <3>1
    <3> QED BY Zenon, <3>1, <3>2
  <2>2. ASSUME NEW i \in 1 .. Len(more), more[i][3] PROVE \E k \in 1 .. Len(owed) : f[k] = i
    BY Zenon, <1>2, <1>c, <1>d, <2>2
  <2> QED BY Zenon, <1>b, <2>1, <2>2 DEF Places
<1> QED BY Zenon, <1>3 DEF Announced, more

\* The first message that announces a transfer announces the first one owed.
LEMMA TakeOne ==
    ASSUME NEW S, NEW msgs \in Seq(S), NEW T, NEW owed \in Seq(T), Announced(msgs, owed), msgs # <<>>, Head(msgs)[3]
    PROVE  owed # <<>> /\ Head(owed) = Head(msgs)[1] /\ Announced(Tail(msgs), Tail(owed))
<1> DEFINE rest == Tail(msgs)
           left == Tail(owed)
<1>1. PICK f \in [1 .. Len(owed) -> Nat] : Places(f, msgs, owed)
  BY Zenon DEF Announced
<1>a. \A k \in 1 .. Len(owed) : f[k] \in 1 .. Len(msgs) /\ msgs[f[k]][3] /\ msgs[f[k]][1] = owed[k]
  BY Zenon, <1>1 DEF Places
<1>b. \A k, l \in 1 .. Len(owed) : k < l => f[k] < f[l]
  BY Zenon, <1>1 DEF Places
<1>c. \A i \in 1 .. Len(msgs) : msgs[i][3] => \E k \in 1 .. Len(owed) : f[k] = i
  BY Zenon, <1>1 DEF Places
<1>2. /\ Len(msgs) \in Nat \ {0} /\ Len(rest) = Len(msgs) - 1 /\ Head(msgs) = msgs[1]
      /\ \A i \in 1 .. Len(rest) : rest[i] = msgs[i + 1]
  OBVIOUS
<1>3. PICK k \in 1 .. Len(owed) : f[k] = 1
  <2>1. 1 \in 1 .. Len(msgs)
    BY <1>2
  <2> QED BY Zenon, <1>2, <1>c, <2>1
<1>4. Len(owed) \in Nat /\ 1 \in 1 .. Len(owed)
  BY <1>3
<1>5. k = 1
  <2>1. f[1] \in 1 .. Len(msgs) /\ (1 < k => f[1] < f[k])
    BY Zenon, <1>3, <1>4, <1>a, <1>b
  <2> QED BY <1>2, <1>3, <2>1
<1>6. owed # <<>> /\ Head(owed) = Head(msgs)[1]
  <2>1. owed # <<>> /\ Head(owed) = owed[1]
    BY <1>4
  <2>2. owed[1] = msgs[1][1]
    <3>1. f[1] = 1
      BY Zenon, <1>3, <1>5
    <3>2. msgs[f[1]][1] = owed[1]
      BY Zenon, <1>4, <1>a
    <3> QED BY Zenon, <3>1, <3>2
  <2> QED BY Zenon, <1>2, <2>1, <2>2
<1>7. Len(left) = Len(owed) - 1 /\ \A l \in 1 .. Len(left) : left[l] = owed[l + 1]
  BY <1>4
<1> DEFINE g == [l \in 1 .. Len(left) |-> f[l + 1] - 1]
<1>8. ASSUME NEW l \in 1 .. Len(left) PROVE l + 1 \in 1 .. Len(owed) /\ f[l + 1] > 1 /\ f[l + 1] \in 1 .. Len(msgs)
  <2>1. l + 1 \in 1 .. Len(owed) /\ 1 < l + 1
    BY <1>4, <1>7
  <2>2. f[1] < f[l + 1] /\ f[1] = 1 /\ f[l + 1] \in 1 .. Len(msgs)
    BY Zenon, <1>3, <1>4, <1>5, <1>a, <1>b, <2>1
  <2> QED BY Zenon, <1>2, <2>1, <2>2
<1>9. g \in [1 .. Len(left) -> Nat] /\ \A l \in 1 .. Len(left) : g[l] = f[l + 1] - 1
  BY <1>8
<1> HIDE DEF g, rest, left
<1>10. ASSUME NEW l \in 1 .. Len(left) PROVE g[l] \in 1 .. Len(rest) /\ rest[g[l]][3] /\ rest[g[l]][1] = left[l]
  <2>1. /\ l + 1 \in 1 .. Len(owed) /\ f[l + 1] > 1 /\ f[l + 1] \in 1 .. Len(msgs) /\ g[l] = f[l + 1] - 1
        /\ left[l] = owed[l + 1]
    BY Zenon, <1>7, <1>8, <1>9
  <2>2. msgs[f[l + 1]][3] /\ msgs[f[l + 1]][1] = owed[l + 1]
    BY Zenon, <1>a, <2>1
  <2> DEFINE x == f[l + 1]
  <2>0. Len(msgs) \in Nat \ {0} /\ Len(rest) = Len(msgs) - 1 /\ x > 1 /\ x \in 1 .. Len(msgs) /\ g[l] = x - 1
    BY Zenon, <1>2, <2>1
  <2> HIDE DEF x
  <2>4a. g[l] \in 1 .. Len(rest) /\ g[l] + 1 = x
    BY <2>0
  <2> USE DEF x
  <2>3. g[l] \in 1 .. Len(rest) /\ g[l] + 1 = f[l + 1]
    BY Zenon, <2>4a
  <2>4. rest[g[l]] = msgs[f[l + 1]]
    BY Zenon, <1>2, <2>3
  <2> QED BY Zenon, <2>1, <2>2, <2>3, <2>4
<1>11. ASSUME NEW k1 \in 1 .. Len(left), NEW l \in 1 .. Len(left), k1 < l PROVE g[k1] < g[l]
  <2>1. /\ g[k1] = f[k1 + 1] - 1 /\ g[l] = f[l + 1] - 1 /\ k1 + 1 \in 1 .. Len(owed) /\ l + 1 \in 1 .. Len(owed)
        /\ f[k1 + 1] \in 1 .. Len(msgs) /\ f[l + 1] \in 1 .. Len(msgs)
    BY Zenon, <1>8, <1>9
  <2>2. k1 + 1 < l + 1
    BY <1>11, <1>4, <1>7
  <2>3. f[k1 + 1] < f[l + 1]
    BY Zenon, <1>b, <2>1, <2>2
  <2> QED BY <1>2, <2>1, <2>3
<1>12. ASSUME NEW i \in 1 .. Len(rest), rest[i][3] PROVE \E l \in 1 .. Len(left) : g[l] = i
  <2>0. i + 1 \in 1 .. Len(msgs) /\ rest[i] = msgs[i + 1]
    BY <1>2
  <2>1. PICK l \in 1 .. Len(owed) : f[l] = i + 1
    BY Zenon, <1>12, <1>c, <2>0
  <2>2. l # 1 /\ l - 1 \in 1 .. Len(left) /\ g[l - 1] = i
    <3>1. l # 1
      BY <1>2, <1>3, <1>5, <2>1
    <3>2. l - 1 \in 1 .. Len(left) /\ (l - 1) + 1 = l
      BY <1>4, <1>7, <3>1
    <3>3. g[l - 1] = f[l] - 1
      BY Zenon, <1>9, <3>2
    <3>4. g[l - 1] = i
      BY <1>2, <2>1, <3>3
    <3> QED BY Zenon, <3>1, <3>2, <3>4
  <2> QED BY Zenon, <2>2
<1>13. Places(g, rest, left)
  BY Zenon, <1>10, <1>11, <1>12 DEF Places
<1> QED BY Zenon, <1>6, <1>9, <1>13 DEF Announced, rest, left

LEMMA TakeNone ==
    ASSUME NEW S, NEW msgs \in Seq(S), NEW T, NEW owed \in Seq(T), Announced(msgs, owed), msgs # <<>>, ~Head(msgs)[3]
    PROVE  Announced(Tail(msgs), owed)
<1> DEFINE rest == Tail(msgs)
<1>1. PICK f \in [1 .. Len(owed) -> Nat] : Places(f, msgs, owed)
  BY Zenon DEF Announced
<1>a. \A k \in 1 .. Len(owed) : f[k] \in 1 .. Len(msgs) /\ msgs[f[k]][3] /\ msgs[f[k]][1] = owed[k]
  BY Zenon, <1>1 DEF Places
<1>b. \A k, l \in 1 .. Len(owed) : k < l => f[k] < f[l]
  BY Zenon, <1>1 DEF Places
<1>c. \A i \in 1 .. Len(msgs) : msgs[i][3] => \E k \in 1 .. Len(owed) : f[k] = i
  BY Zenon, <1>1 DEF Places
<1>2. /\ Len(msgs) \in Nat \ {0} /\ Len(rest) = Len(msgs) - 1 /\ Head(msgs) = msgs[1]
      /\ \A i \in 1 .. Len(rest) : rest[i] = msgs[i + 1]
  OBVIOUS
<1> DEFINE g == [k \in 1 .. Len(owed) |-> f[k] - 1]
<1>3. \A k \in 1 .. Len(owed) : f[k] \in 1 .. Len(msgs) /\ f[k] # 1
  <2>1. ASSUME NEW k \in 1 .. Len(owed) PROVE f[k] \in 1 .. Len(msgs) /\ f[k] # 1
    <3>1. f[k] \in 1 .. Len(msgs) /\ msgs[f[k]][3]
      BY Zenon, <1>a
    <3>2. f[k] # 1
      BY Zenon, <1>2, <3>1
    <3> QED BY Zenon, <3>1, <3>2
  <2> QED BY Zenon, <2>1
<1>4. g \in [1 .. Len(owed) -> Nat] /\ \A k \in 1 .. Len(owed) : g[k] = f[k] - 1
  BY <1>3
<1> HIDE DEF g, rest
<1>5. ASSUME NEW k \in 1 .. Len(owed) PROVE g[k] \in 1 .. Len(rest) /\ rest[g[k]][3] /\ rest[g[k]][1] = owed[k]
  <2>1. g[k] = f[k] - 1 /\ f[k] \in 1 .. Len(msgs) /\ f[k] # 1
    BY Zenon, <1>3, <1>4
  <2>2. g[k] \in 1 .. Len(rest) /\ g[k] + 1 = f[k]
    BY <1>2, <2>1
  <2>3. rest[g[k]] = msgs[f[k]]
    BY Zenon, <1>2, <2>2
  <2> QED BY Zenon, <1>a, <2>2, <2>3
<1>6. ASSUME NEW k \in 1 .. Len(owed), NEW l \in 1 .. Len(owed), k < l PROVE g[k] < g[l]
  <2>1. g[k] = f[k] - 1 /\ g[l] = f[l] - 1 /\ f[k] \in 1 .. Len(msgs) /\ f[l] \in 1 .. Len(msgs) /\ f[k] < f[l]
    BY Zenon, <1>3, <1>4, <1>6, <1>b
  <2> QED BY <1>2, <2>1
<1>7. ASSUME NEW i \in 1 .. Len(rest), rest[i][3] PROVE \E k \in 1 .. Len(owed) : g[k] = i
  <2>0. i + 1 \in 1 .. Len(msgs) /\ rest[i] = msgs[i + 1]
    BY <1>2
  <2>1. PICK k \in 1 .. Len(owed) : f[k] = i + 1
    BY Zenon, <1>7, <1>c, <2>0
  <2>2. g[k] = i
    BY <1>4, <2>1
  <2> QED BY Zenon, <2>2
<1>8. Places(g, rest, owed)
  BY Zenon, <1>5, <1>6, <1>7 DEF Places
<1> QED BY Zenon, <1>4, <1>8 DEF Announced, rest

\* The sets the counters count are finite.
LEMMA FiniteCounts == IsFiniteSet(Inside) /\ IsFiniteSet(Through) /\ IsFiniteSet(InService)
<1>1. Inside \in SUBSET VcThreads /\ Through \in SUBSET VcThreads /\ InService \in SUBSET VcThreads
  BY Zenon DEF Inside, Through, InService
<1> QED BY Zenon, <1>1, FS_Subset, VcAssumption

\* With no reference to the client every thread is outside.
LEMMA AllOut ==
    ASSUME VcInv, vcRefs = 0
    PROVE  \A t \in VcThreads : vcAt[t] = "out" /\ mine[t] = 0
<1>1. Inside = {}
  BY Zenon, FiniteCounts, FS_EmptySet DEF VcInv, CountsInv
<1> QED BY Zenon, <1>1 DEF Inside, VcInv, WaitersInv, WithWaiter

\* A thread inside has a reference, and with one reference it is the only one inside.
LEMMA LastIn ==
    ASSUME VcInv, NEW t \in VcThreads, vcAt[t] # "out"
    PROVE  /\ vcRefs \in Nat /\ vcRefs > 0
           /\ vcRefs <= 1 => \A s \in VcThreads : s # t => vcAt[s] = "out" /\ mine[s] = 0
<1>1. t \in Inside
  BY Zenon DEF Inside
<1>2. vcRefs \in Nat /\ vcRefs = Cardinality(Inside)
  BY Zenon DEF VcInv, VcTypes, CountsInv
<1>3. Inside # {}
  BY Zenon, <1>1
<1>4. vcRefs # 0
  BY Zenon, <1>2, <1>3, FiniteCounts, FS_EmptySet
<1>5. ASSUME vcRefs = 1 PROVE Inside = {t}
  BY Zenon, <1>1, <1>2, <1>5, FiniteCounts, FS_Singleton
<1>6. \A s \in VcThreads : vcAt[s] = "out" => mine[s] = 0
  BY Zenon DEF VcInv, WaitersInv, WithWaiter
<1>7. ASSUME vcRefs <= 1, NEW s \in VcThreads, s # t PROVE vcAt[s] = "out" /\ mine[s] = 0
  <2>1. s \notin Inside
    BY <1>2, <1>4, <1>5, <1>7
  <2> QED BY Zenon, <2>1, <1>6 DEF Inside
<1> QED BY <1>2, <1>4, <1>7

\* Every variable stays in its type.
LEMMA VcTypesStep ==
    ASSUME VcInv, [VcClientNext]_vcClientVars
    PROVE  VcTypes'
<1>0. VcTypes
  BY Zenon DEF VcInv
<1>1. CASE VcHandles
  <2>1. Head(toVc) \in VcThreads \X (0 .. MaxWaiters) \X BOOLEAN
    BY Zenon, <1>0, <1>1, Shorter DEF VcTypes, VcHandles
  <2>2. <<Head(toVc)[1], Head(toVc)[2]>> \in VcThreads \X (0 .. MaxWaiters)
    BY Zenon, <2>1
  <2>3. toHost' \in Seq(VcThreads \X (0 .. MaxWaiters))
    BY Zenon, <1>0, <1>1, <2>2, Longer DEF VcTypes, VcHandles
  <2>4. toVc' \in Seq(VcThreads \X (0 .. MaxWaiters) \X BOOLEAN)
    BY Zenon, <1>0, <1>1, Shorter DEF VcTypes, VcHandles
  <2>5. bulkTo' \in Seq(VcThreads)
    <3>1. bulkTo \in Seq(VcThreads) /\ (bulkTo' = bulkTo \/ (bulkTo # <<>> /\ bulkTo' = Tail(bulkTo)))
      BY Zenon, <1>0, <1>1 DEF VcTypes, VcHandles
    <3> QED BY Zenon, <3>1, Shorter
  <2> QED BY Zenon, <1>0, <1>1, <2>3, <2>4, <2>5 DEF VcTypes, VcHandles, setup, waitPool, channels, own
<1>2. CASE Callback
  <2>1. Head(toHost) \in VcThreads \X (0 .. MaxWaiters) /\ toHost' \in Seq(VcThreads \X (0 .. MaxWaiters))
    BY Zenon, <1>0, <1>2, Shorter DEF VcTypes, Callback
  <2>2. Head(toHost)[1] \in VcThreads
    BY Zenon, <2>1
  <2>3. answer' \in [VcThreads -> VcThreads \cup {NoThread}]
    BY Zenon, <1>0, <1>2, <2>2 DEF VcTypes, Callback
  <2>4. waiterSem \in [Waiters -> Nat] /\ waiterSem' = [waiterSem EXCEPT ![Head(toHost)[2]] = waiterSem[Head(toHost)[2]] + 1]
    BY Zenon, <1>0, <1>2 DEF VcTypes, Callback
  <2>5. waiterSem' \in [Waiters -> Nat]
    BY Zenon, <2>4, OneMore
  <2> QED BY Zenon, <1>0, <1>2, <2>1, <2>3, <2>5 DEF VcTypes, Callback, setup, waitPool, channels, own
<1>3. ASSUME NEW t \in VcThreads, VcInit(t) PROVE VcTypes'
  <2>1. poolSem' \in Nat /\ waiterSem' \in [Waiters -> Nat] /\ inUse' \subseteq Waiters /\ vcAt' \in [VcThreads -> VcPlaces]
    <3>1. 0 \in Nat /\ MaxWaiters \in Nat /\ vcAt' \in [VcThreads -> VcPlaces]
      BY Zenon, <1>0, <1>3, VcAssumption DEF VcTypes, VcPlaces, VcInit, VcGoes
    <3>2. CASE vcRefs > 0
      BY Zenon, <1>0, <1>3, <3>1, <3>2 DEF VcTypes, VcInit, waitPool
    <3>3. CASE ~(vcRefs > 0)
      BY Zenon, <1>3, <3>1, <3>3 DEF VcInit
    <3> QED BY Zenon, <3>2, <3>3
  <2> QED BY <1>0, <1>3, <2>1 DEF VcTypes, VcInit, VcGoes, setup, waitPool, channels, own
<1>4. ASSUME NEW t \in VcThreads, VcInitFails(t) PROVE VcTypes'
  BY <1>4 DEF VcInv, VcTypes, VcPlaces, VcInitFails, setup, waitPool, channels, own
<1>5. ASSUME NEW t \in VcThreads, VcInitRelease(t) PROVE VcTypes'
  BY <1>5 DEF VcInv, VcTypes, VcPlaces, VcInitRelease, VcGoes, Unuse, setup, waitPool, channels, own
<1>6. ASSUME NEW t \in VcThreads, VcUse(t) PROVE VcTypes'
  BY <1>6 DEF VcInv, VcTypes, VcPlaces, VcUse, VcGoes, setup, waitPool, channels, own
<1>7. ASSUME NEW t \in VcThreads, VcRelease(t) PROVE VcTypes'
  BY <1>7 DEF VcInv, VcTypes, VcPlaces, VcRelease, VcGoes, Unuse, setup, waitPool, channels, own
<1>8. ASSUME NEW t \in VcThreads, VcDeinit(t) PROVE VcTypes'
  <2>1. vcRefs' \in Nat
    BY <1>8, LastIn DEF VcDeinit, VcGoes
  <2>2. toVc' \in Seq(VcThreads \X (0 .. MaxWaiters) \X BOOLEAN) /\ bulkTo' \in Seq(VcThreads)
        /\ toHost' \in Seq(VcThreads \X (0 .. MaxWaiters))
    <3>1. <<>> \in Seq(VcThreads)
      OBVIOUS
    <3>2. <<>> \in Seq(VcThreads \X (0 .. MaxWaiters))
      OBVIOUS
    <3>3. <<>> \in Seq(VcThreads \X (0 .. MaxWaiters) \X BOOLEAN)
      OBVIOUS
    <3> QED BY Zenon, <1>0, <1>8, <3>1, <3>2, <3>3 DEF VcTypes, VcDeinit, channels
  <2>3. /\ poolSem' \in Nat /\ waiterSem' \in [Waiters -> Nat] /\ inUse' \subseteq Waiters /\ vcAt' \in [VcThreads -> VcPlaces]
        /\ dest' \in [Waiters -> VcThreads \cup {NoThread}]
    <3>1. 0 \in Nat /\ vcAt' \in [VcThreads -> VcPlaces]
      BY Zenon, <1>0, <1>8 DEF VcTypes, VcPlaces, VcDeinit, VcGoes
    <3>2. CASE vcRefs > 1
      BY Zenon, <1>0, <1>8, <3>1, <3>2 DEF VcTypes, VcDeinit, waitPool
    <3>3. CASE ~(vcRefs > 1)
      BY Zenon, <1>8, <3>1, <3>3 DEF VcDeinit
    <3> QED BY Zenon, <3>2, <3>3
  <2> QED BY Zenon, <1>8, <2>1, <2>2, <2>3 DEF VcInv, VcTypes, VcDeinit, VcGoes, setup, waitPool, channels, own
<1>9. ASSUME NEW t \in VcThreads, NEW reply \in BOOLEAN, NEW bulk \in BOOLEAN, Call(t, reply, bulk) PROVE VcTypes'
  BY Zenon, <1>9 DEF VcInv, VcTypes, VcPlaces, Call, VcGoes, setup, waitPool, channels, own
<1>10. ASSUME NEW t \in VcThreads, WaiterWait(t) PROVE VcTypes'
  BY <1>10 DEF VcInv, VcTypes, VcPlaces, WaiterWait, VcGoes, setup, waitPool, channels, own
<1>11. ASSUME NEW t \in VcThreads, WaiterTake(t) PROVE VcTypes'
  <2>1. inUse' \subseteq Waiters /\ mine' \in [VcThreads -> 0 .. MaxWaiters] /\ vcAt' \in [VcThreads -> VcPlaces]
    <3>1. \A w \in Waiters : w \in 0 .. MaxWaiters
      BY VcAssumption DEF Waiters
    <3>2. vcAt' \in [VcThreads -> VcPlaces]
      BY Zenon, <1>0, <1>11 DEF VcTypes, VcPlaces, WaiterTake, VcGoes
    <3> QED BY Zenon, <1>0, <1>11, <3>1, <3>2 DEF VcTypes, WaiterTake
  <2> QED BY Zenon, <1>11, <2>1 DEF VcInv, VcTypes, WaiterTake, VcGoes, setup, waitPool, channels, own
<1>12. ASSUME NEW t \in VcThreads, Send(t) PROVE VcTypes'
  <2>1. <<t, mine[t], isBulk[t]>> \in VcThreads \X (0 .. MaxWaiters) \X BOOLEAN
    BY Zenon DEF VcInv, VcTypes
  <2>2. toVc' \in Seq(VcThreads \X (0 .. MaxWaiters) \X BOOLEAN)
    BY <1>12, <2>1 DEF VcInv, VcTypes, Send
  <2>3. /\ vcAt' \in [VcThreads -> VcPlaces] /\ dest' \in [Waiters -> VcThreads \cup {NoThread}]
        /\ useCount' \in Int /\ useFaults' \in Nat
    <3>1. vcAt' \in [VcThreads -> VcPlaces] /\ dest' \in [Waiters -> VcThreads \cup {NoThread}]
      BY Zenon, <1>0, <1>12 DEF VcTypes, VcPlaces, Send, VcGoes
    <3>2. /\ useCount \in Int /\ useFaults \in Nat
          /\ useCount' = useCount \/ useCount' = useCount + 1
          /\ useFaults' = useFaults \/ useFaults' = useFaults + 1
      BY Zenon, <1>0, <1>12 DEF VcTypes, Send, Use
    <3>3. useCount' \in Int /\ useFaults' \in Nat
      BY <3>2
    <3> QED BY Zenon, <3>1, <3>3
  <2>4. /\ mine' \in [VcThreads -> 0 .. MaxWaiters] /\ isBulk' \in [VcThreads -> BOOLEAN]
        /\ answer' \in [VcThreads -> VcThreads \cup {NoThread}]
    BY Zenon, <1>12, VcAssumption DEF VcInv, VcTypes, Send, Back, own
  <2> QED BY Zenon, <1>12, <2>2, <2>3, <2>4 DEF VcInv, VcTypes, Send, setup
<1>13. ASSUME NEW t \in VcThreads, SendMsgFails(t) PROVE VcTypes'
  <2>3. /\ vcAt' \in [VcThreads -> VcPlaces] /\ dest' \in [Waiters -> VcThreads \cup {NoThread}]
        /\ useCount' \in Int /\ useFaults' \in Nat
    <3>1. vcAt' \in [VcThreads -> VcPlaces] /\ dest' \in [Waiters -> VcThreads \cup {NoThread}]
      BY Zenon, <1>0, <1>13 DEF VcTypes, VcPlaces, SendMsgFails, VcGoes
    <3>2. /\ useCount \in Int /\ useFaults \in Nat
          /\ useCount' = useCount \/ useCount' = useCount + 1
          /\ useFaults' = useFaults \/ useFaults' = useFaults + 1
      BY Zenon, <1>0, <1>13 DEF VcTypes, SendMsgFails, Use
    <3>3. useCount' \in Int /\ useFaults' \in Nat
      BY <3>2
    <3> QED BY Zenon, <3>1, <3>3
  <2>4. /\ mine' \in [VcThreads -> 0 .. MaxWaiters] /\ isBulk' \in [VcThreads -> BOOLEAN]
        /\ answer' \in [VcThreads -> VcThreads \cup {NoThread}]
    BY Zenon, <1>13, VcAssumption DEF VcInv, VcTypes, SendMsgFails, Back, own
  <2> QED BY Zenon, <1>13, <2>3, <2>4 DEF VcInv, VcTypes, SendMsgFails, setup, channels
<1>14. ASSUME NEW t \in VcThreads, SendBulk(t) PROVE VcTypes'
  <2>1. bulkTo' \in Seq(VcThreads)
    BY <1>14 DEF VcInv, VcTypes, SendBulk
  <2>4. /\ mine' \in [VcThreads -> 0 .. MaxWaiters] /\ isBulk' \in [VcThreads -> BOOLEAN]
        /\ answer' \in [VcThreads -> VcThreads \cup {NoThread}] /\ vcAt' \in [VcThreads -> VcPlaces]
    BY Zenon, <1>14, VcAssumption DEF VcInv, VcTypes, VcPlaces, SendBulk, VcGoes, Back, own
  <2> QED BY Zenon, <1>14, <2>1, <2>4 DEF VcInv, VcTypes, SendBulk, setup, waitPool
<1>15. ASSUME NEW t \in VcThreads, Answered(t) PROVE VcTypes'
  <2>1. waiterSem' \in [Waiters -> Nat] /\ useCount' \in Int /\ vcAt' \in [VcThreads -> VcPlaces]
    <3>1. /\ waiterSem \in [Waiters -> Nat] /\ useCount \in Int /\ useCount' = useCount - 1
          /\ waiterSem[mine[t]] > 0 /\ waiterSem' = [waiterSem EXCEPT ![mine[t]] = waiterSem[mine[t]] - 1]
      BY Zenon, <1>0, <1>15 DEF VcTypes, Answered, Unuse
    <3>2. useCount' \in Int
      BY <3>1
    <3>3. vcAt[t] = "await" /\ vcAt' \in [VcThreads -> VcPlaces] /\ mine[t] \in 0 .. MaxWaiters
      BY Zenon, <1>0, <1>15 DEF VcTypes, VcPlaces, Answered, VcGoes
    <3>4. mine[t] # 0
      BY Zenon, <3>3 DEF VcInv, WaitersInv
    <3>5. mine[t] \in Waiters
      BY VcAssumption, <3>3, <3>4 DEF Waiters
    <3> QED BY Zenon, <3>1, <3>2, <3>3, <3>5, OneMore
  <2> QED BY Zenon, <1>15, <2>1 DEF VcInv, VcTypes, Answered, VcGoes, Unuse, setup, waitPool, channels, own
<1>16. ASSUME NEW t \in VcThreads, Unsent(t) PROVE VcTypes'
  BY <1>16 DEF VcInv, VcTypes, VcPlaces, Unsent, VcGoes, Unuse, setup, waitPool, channels, own
<1>17. ASSUME NEW t \in VcThreads, ReleaseWaiter(t) PROVE VcTypes'
  BY Zenon, <1>17 DEF VcInv, VcTypes, VcPlaces, ReleaseWaiter, VcGoes, setup, waitPool, channels, own
<1>18. ASSUME NEW t \in VcThreads, PostWaiter(t) PROVE VcTypes'
  <2>4. /\ mine' \in [VcThreads -> 0 .. MaxWaiters] /\ isBulk' \in [VcThreads -> BOOLEAN]
        /\ answer' \in [VcThreads -> VcThreads \cup {NoThread}] /\ vcAt' \in [VcThreads -> VcPlaces]
    BY <1>18, VcAssumption DEF VcInv, VcTypes, VcPlaces, PostWaiter, VcGoes, Back
  <2> QED BY <1>18, <2>4 DEF VcInv, VcTypes, PostWaiter, setup, channels
<1>19. CASE UNCHANGED vcClientVars
  BY Zenon, <1>19 DEF VcInv, VcTypes, VcPlaces, vcClientVars
<1> QED BY Zenon, <1>1, <1>2, <1>3, <1>4, <1>5, <1>6, <1>7, <1>8, <1>9, <1>10, <1>11, <1>12, <1>13, <1>14, <1>15,
    <1>16, <1>17, <1>18, <1>19 DEF VcClientNext, VcStep

\* A reference for every thread inside.
InsideCounted == vcRefs = Cardinality(Inside)

\* client.refcount goes up as a thread comes in and down as it leaves.
LEMMA InsideStep ==
    ASSUME VcInv, [VcClientNext]_vcClientVars
    PROVE  InsideCounted'
<1>1. CASE VcHandles
  <2>1. Inside' = Inside
    BY Zenon, <1>1 DEF Inside, VcInv, VcTypes, VcHandles, setup, waitPool, channels, own
  <2> QED BY Zenon, <1>1, <2>1 DEF VcInv, CountsInv, InsideCounted, VcHandles, setup, waitPool, channels, own
<1>2. CASE Callback
  <2>1. Inside' = Inside
    BY Zenon, <1>2 DEF Inside, VcInv, VcTypes, Callback, setup, waitPool, channels, own
  <2> QED BY Zenon, <1>2, <2>1 DEF VcInv, CountsInv, InsideCounted, Callback, setup, waitPool, channels, own
<1>3. ASSUME NEW t \in VcThreads, VcInit(t) PROVE InsideCounted'
  <2>1. Inside' = Inside \cup {t} /\ t \notin Inside /\ vcRefs' = vcRefs + 1
    BY Zenon, <1>3 DEF Inside, VcInv, VcTypes, VcInit, VcGoes
  <2>2. Cardinality(Inside') = Cardinality(Inside) + 1
    BY Zenon, <2>1, FiniteCounts, FS_AddElement
  <2> QED BY Zenon, <2>1, <2>2 DEF VcInv, CountsInv, InsideCounted
<1>4. ASSUME NEW t \in VcThreads, VcInitFails(t) PROVE InsideCounted'
  <2>1. Inside' = Inside
    BY Zenon, <1>4 DEF Inside, VcInv, VcTypes, VcInitFails, setup, waitPool, channels, own
  <2> QED BY Zenon, <1>4, <2>1 DEF VcInv, CountsInv, InsideCounted, VcInitFails, setup, waitPool, channels, own
<1>5. ASSUME NEW t \in VcThreads, VcInitRelease(t) PROVE InsideCounted'
  <2>1. Inside' = Inside
    BY Zenon, <1>5 DEF Inside, VcInv, VcTypes, VcInitRelease, VcGoes, Unuse, setup, waitPool, channels, own
  <2> QED BY Zenon, <1>5, <2>1 DEF VcInv, CountsInv, InsideCounted, VcInitRelease, VcGoes, Unuse, setup, waitPool,
      channels, own
<1>6. ASSUME NEW t \in VcThreads, VcUse(t) PROVE InsideCounted'
  <2>1. Inside' = Inside
    BY Zenon, <1>6 DEF Inside, VcInv, VcTypes, VcUse, VcGoes, setup, waitPool, channels, own
  <2> QED BY Zenon, <1>6, <2>1 DEF VcInv, CountsInv, InsideCounted, VcUse, VcGoes, setup, waitPool, channels, own
<1>7. ASSUME NEW t \in VcThreads, VcRelease(t) PROVE InsideCounted'
  <2>1. Inside' = Inside
    BY Zenon, <1>7 DEF Inside, VcInv, VcTypes, VcRelease, VcGoes, Unuse, setup, waitPool, channels, own
  <2> QED BY Zenon, <1>7, <2>1 DEF VcInv, CountsInv, InsideCounted, VcRelease, VcGoes, Unuse, setup, waitPool,
      channels, own
<1>8. ASSUME NEW t \in VcThreads, VcDeinit(t) PROVE InsideCounted'
  <2>1. Inside' = Inside \ {t} /\ t \in Inside /\ vcRefs' = vcRefs - 1
    BY Zenon, <1>8 DEF Inside, VcInv, VcTypes, VcDeinit, VcGoes
  <2>2. Cardinality(Inside') = Cardinality(Inside) - 1
    BY Zenon, <2>1, FiniteCounts, FS_RemoveElement
  <2> QED BY Zenon, <2>1, <2>2 DEF VcInv, CountsInv, InsideCounted
<1>9. ASSUME NEW t \in VcThreads, NEW reply \in BOOLEAN, NEW bulk \in BOOLEAN, Call(t, reply, bulk) PROVE InsideCounted'
  <2>1. Inside' = Inside
    BY Zenon, <1>9 DEF Inside, VcInv, VcTypes, Call, VcGoes, setup, waitPool, channels, own
  <2> QED BY Zenon, <1>9, <2>1 DEF VcInv, CountsInv, InsideCounted, Call, VcGoes, setup, waitPool, channels, own
<1>10. ASSUME NEW t \in VcThreads, WaiterWait(t) PROVE InsideCounted'
  <2>1. Inside' = Inside
    BY Zenon, <1>10 DEF Inside, VcInv, VcTypes, WaiterWait, VcGoes, setup, waitPool, channels, own
  <2> QED BY Zenon, <1>10, <2>1 DEF VcInv, CountsInv, InsideCounted, WaiterWait, VcGoes, setup, waitPool, channels, own
<1>11. ASSUME NEW t \in VcThreads, WaiterTake(t) PROVE InsideCounted'
  <2>1. Inside' = Inside
    BY Zenon, <1>11 DEF Inside, VcInv, VcTypes, WaiterTake, VcGoes, setup, waitPool, channels, own
  <2> QED BY Zenon, <1>11, <2>1 DEF VcInv, CountsInv, InsideCounted, WaiterTake, VcGoes, setup, waitPool, channels, own
<1>12. ASSUME NEW t \in VcThreads, Send(t) PROVE InsideCounted'
  <2>1. Inside' = Inside
    BY Zenon, <1>12 DEF Inside, VcInv, VcTypes, Send, VcGoes, Use, Back, setup, waitPool, channels, own
  <2> QED BY Zenon, <1>12, <2>1 DEF VcInv, CountsInv, InsideCounted, Send, VcGoes, Use, Back, setup, waitPool,
      channels, own
<1>13. ASSUME NEW t \in VcThreads, SendMsgFails(t) PROVE InsideCounted'
  <2>1. Inside' = Inside
    BY Zenon, <1>13 DEF Inside, VcInv, VcTypes, SendMsgFails, VcGoes, Use, Back, setup, waitPool, channels, own
  <2> QED BY Zenon, <1>13, <2>1 DEF VcInv, CountsInv, InsideCounted, SendMsgFails, VcGoes, Use, Back, setup, waitPool,
      channels, own
<1>14. ASSUME NEW t \in VcThreads, SendBulk(t) PROVE InsideCounted'
  <2>1. Inside' = Inside
    BY Zenon, <1>14 DEF Inside, VcInv, VcTypes, SendBulk, VcGoes, Back, setup, waitPool, channels, own
  <2> QED BY Zenon, <1>14, <2>1 DEF VcInv, CountsInv, InsideCounted, SendBulk, VcGoes, Back, setup, waitPool,
      channels, own
<1>15. ASSUME NEW t \in VcThreads, Answered(t) PROVE InsideCounted'
  <2>1. Inside' = Inside
    BY Zenon, <1>15 DEF Inside, VcInv, VcTypes, Answered, VcGoes, Unuse, setup, waitPool, channels, own
  <2> QED BY Zenon, <1>15, <2>1 DEF VcInv, CountsInv, InsideCounted, Answered, VcGoes, Unuse, setup, waitPool,
      channels, own
<1>16. ASSUME NEW t \in VcThreads, Unsent(t) PROVE InsideCounted'
  <2>1. Inside' = Inside
    BY Zenon, <1>16 DEF Inside, VcInv, VcTypes, Unsent, VcGoes, Unuse, setup, waitPool, channels, own
  <2> QED BY Zenon, <1>16, <2>1 DEF VcInv, CountsInv, InsideCounted, Unsent, VcGoes, Unuse, setup, waitPool, channels,
      own
<1>17. ASSUME NEW t \in VcThreads, ReleaseWaiter(t) PROVE InsideCounted'
  <2>1. Inside' = Inside
    BY Zenon, <1>17 DEF Inside, VcInv, VcTypes, ReleaseWaiter, VcGoes, setup, waitPool, channels, own
  <2> QED BY Zenon, <1>17, <2>1 DEF VcInv, CountsInv, InsideCounted, ReleaseWaiter, VcGoes, setup, waitPool, channels,
      own
<1>18. ASSUME NEW t \in VcThreads, PostWaiter(t) PROVE InsideCounted'
  <2>1. Inside' = Inside
    BY Zenon, <1>18 DEF Inside, VcInv, VcTypes, PostWaiter, VcGoes, Back, setup, waitPool, channels, own
  <2> QED BY Zenon, <1>18, <2>1 DEF VcInv, CountsInv, InsideCounted, PostWaiter, VcGoes, Back, setup, waitPool,
      channels, own
<1>19. CASE UNCHANGED vcClientVars
  BY Zenon, <1>19 DEF InsideCounted, Inside, VcInv, CountsInv, vcClientVars
<1> QED BY Zenon, <1>1, <1>2, <1>3, <1>4, <1>5, <1>6, <1>7, <1>8, <1>9, <1>10, <1>11, <1>12, <1>13, <1>14, <1>15,
    <1>16, <1>17, <1>18, <1>19 DEF VcClientNext, VcStep

\* While the client is there, the semaphore of the pool and the threads that came through it make up the waiters.
PoolCounted == vcRefs > 0 => poolSem + Cardinality(Through) = MaxWaiters

\* A thread comes through the semaphore by taking one from it, and gives it back last.
LEMMA PoolStep ==
    ASSUME VcInv, [VcClientNext]_vcClientVars
    PROVE  PoolCounted'
<1>1. CASE VcHandles
  <2>1. Through' = Through
    BY Zenon, <1>1 DEF Through, VcInv, VcTypes, WaitersInv, WithWaiter, VcHandles, setup, waitPool, channels, own
  <2> QED BY Zenon, <1>1, <2>1 DEF VcInv, CountsInv, PoolCounted, VcHandles, setup, waitPool, channels, own
<1>2. CASE Callback
  <2>1. Through' = Through
    BY Zenon, <1>2 DEF Through, VcInv, VcTypes, WaitersInv, WithWaiter, Callback, setup, waitPool, channels, own
  <2> QED BY Zenon, <1>2, <2>1 DEF VcInv, CountsInv, PoolCounted, Callback, setup, waitPool, channels, own
<1>3. ASSUME NEW t \in VcThreads, VcInit(t) PROVE PoolCounted'
  <2>1. CASE vcRefs > 0
    <3>1. Through' = Through
      BY <1>3, <2>1 DEF Through, VcInv, VcTypes, WaitersInv, WithWaiter, VcInit, VcGoes, setup, waitPool, channels, own
    <3> QED BY Zenon, <1>3, <2>1, <3>1 DEF VcInv, CountsInv, PoolCounted, VcInit, VcGoes, setup, waitPool, channels, own
  <2>2. CASE vcRefs = 0
    <3>1. Through' = {}
      BY Zenon, <1>3, <2>2, AllOut DEF Through, VcInv, VcTypes, VcInit, VcGoes, setup, waitPool, channels, own
    <3>2. poolSem' = MaxWaiters
      BY <1>3, <2>2 DEF VcInit
    <3> QED BY <3>1, <3>2, FS_EmptySet, VcAssumption DEF PoolCounted
  <2> QED BY <2>1, <2>2 DEF VcInv, VcTypes
<1>4. ASSUME NEW t \in VcThreads, VcInitFails(t) PROVE PoolCounted'
  <2>1. Through' = Through
    BY Zenon, <1>4 DEF Through, VcInv, VcTypes, WaitersInv, WithWaiter, VcInitFails, setup, waitPool, channels, own
  <2> QED BY Zenon, <1>4, <2>1 DEF VcInv, CountsInv, PoolCounted, VcInitFails, setup, waitPool, channels, own
<1>5. ASSUME NEW t \in VcThreads, VcInitRelease(t) PROVE PoolCounted'
  <2>1. Through' = Through
    BY Zenon, <1>5 DEF Through, VcInv, VcTypes, WaitersInv, WithWaiter, VcInitRelease, VcGoes, Unuse, setup, waitPool,
        channels, own
  <2> QED BY Zenon, <1>5, <2>1 DEF VcInv, CountsInv, PoolCounted, VcInitRelease, VcGoes, Unuse, setup, waitPool,
      channels, own
<1>6. ASSUME NEW t \in VcThreads, VcUse(t) PROVE PoolCounted'
  <2>1. Through' = Through
    BY Zenon, <1>6 DEF Through, VcInv, VcTypes, WaitersInv, WithWaiter, VcUse, VcGoes, setup, waitPool, channels, own
  <2> QED BY Zenon, <1>6, <2>1 DEF VcInv, CountsInv, PoolCounted, VcUse, VcGoes, setup, waitPool, channels, own
<1>7. ASSUME NEW t \in VcThreads, VcRelease(t) PROVE PoolCounted'
  <2>1. Through' = Through
    BY Zenon, <1>7 DEF Through, VcInv, VcTypes, WaitersInv, WithWaiter, VcRelease, VcGoes, Unuse, setup, waitPool,
        channels, own
  <2> QED BY Zenon, <1>7, <2>1 DEF VcInv, CountsInv, PoolCounted, VcRelease, VcGoes, Unuse, setup, waitPool, channels,
      own
<1>8. ASSUME NEW t \in VcThreads, VcDeinit(t) PROVE PoolCounted'
  <2>1. CASE vcRefs > 1
    <3>1. Through' = Through
      BY Zenon, <1>8, <2>1 DEF Through, VcInv, VcTypes, WaitersInv, WithWaiter, VcDeinit, VcGoes, setup, waitPool,
          channels, own
    <3> QED BY <1>8, <2>1, <3>1 DEF VcInv, VcTypes, CountsInv, PoolCounted, VcDeinit, VcGoes, setup, waitPool,
        channels, own
  <2>2. CASE ~(vcRefs > 1)
    BY <1>8, <2>2, LastIn DEF PoolCounted, VcDeinit, VcGoes
  <2> QED BY Zenon, <2>1, <2>2
<1>9. ASSUME NEW t \in VcThreads, NEW reply \in BOOLEAN, NEW bulk \in BOOLEAN, Call(t, reply, bulk) PROVE PoolCounted'
  <2>1. Through' = Through
    BY Zenon, <1>9 DEF Through, VcInv, VcTypes, WaitersInv, WithWaiter, Call, VcGoes, setup, waitPool, channels, own
  <2> QED BY Zenon, <1>9, <2>1 DEF VcInv, CountsInv, PoolCounted, Call, VcGoes, setup, waitPool, channels, own
<1>10. ASSUME NEW t \in VcThreads, WaiterWait(t) PROVE PoolCounted'
  <2>1. Through' = Through \cup {t} /\ t \notin Through
    <3>1. /\ vcAt[t] = "getwaiter" /\ vcAt' = [vcAt EXCEPT ![t] = "pickwaiter"] /\ mine' = mine
          /\ vcAt \in [VcThreads -> VcPlaces]
      BY Zenon, <1>10 DEF VcInv, VcTypes, WaiterWait, VcGoes, own
    <3>2. mine[t] = 0
      BY Zenon, <3>1 DEF VcInv, WaitersInv, WithWaiter
    <3> QED BY Zenon, <3>1, <3>2 DEF Through
  <2>2. Cardinality(Through') = Cardinality(Through) + 1 /\ Cardinality(Through) \in Nat
    BY Zenon, <2>1, FiniteCounts, FS_AddElement, FS_CardinalityType
  <2>3. poolSem' = poolSem - 1 /\ poolSem \in Nat /\ vcRefs' = vcRefs
    BY Zenon, <1>10 DEF VcInv, VcTypes, WaiterWait, setup
  <2> QED BY <2>2, <2>3 DEF VcInv, CountsInv, PoolCounted
<1>11. ASSUME NEW t \in VcThreads, WaiterTake(t) PROVE PoolCounted'
  <2>1. mine[t] = 0
    BY Zenon, <1>11 DEF VcInv, VcTypes, WaitersInv, WithWaiter, WaiterTake, VcGoes
  <2>2. vcAt[t] = "pickwaiter" /\ (vcAt'[t] = "pickwaiter" \/ mine'[t] # 0)
    BY <1>11, VcAssumption DEF VcInv, VcTypes, WaiterTake, VcGoes, Waiters
  <2>3. \A s \in VcThreads : s # t => vcAt'[s] = vcAt[s] /\ mine'[s] = mine[s]
    BY Zenon, <1>11 DEF VcInv, VcTypes, WaiterTake, VcGoes
  <2>4. Through' = Through
    BY Zenon, <2>2, <2>3 DEF Through
  <2> QED BY Zenon, <1>11, <2>4 DEF VcInv, CountsInv, PoolCounted, WaiterTake, setup
<1>12. ASSUME NEW t \in VcThreads, Send(t) PROVE PoolCounted'
  <2>1. Through' = Through
    BY <1>12 DEF Through, VcInv, VcTypes, WaitersInv, WithWaiter, Send, VcGoes, Use, Back, setup, waitPool, channels,
        own
  <2> QED BY Zenon, <1>12, <2>1 DEF VcInv, CountsInv, PoolCounted, Send, VcGoes, Use, Back, setup, waitPool, channels,
      own
<1>13. ASSUME NEW t \in VcThreads, SendMsgFails(t) PROVE PoolCounted'
  <2>1. Through' = Through
    BY <1>13 DEF Through, VcInv, VcTypes, WaitersInv, WithWaiter, SendMsgFails, VcGoes, Use, Back, setup, waitPool,
        channels, own
  <2> QED BY Zenon, <1>13, <2>1 DEF VcInv, CountsInv, PoolCounted, SendMsgFails, VcGoes, Use, Back, setup, waitPool,
      channels, own
<1>14. ASSUME NEW t \in VcThreads, SendBulk(t) PROVE PoolCounted'
  <2>1. Through' = Through
    BY <1>14 DEF Through, VcInv, VcTypes, WaitersInv, WithWaiter, SendBulk, VcGoes, Back, setup, waitPool, channels, own
  <2> QED BY Zenon, <1>14, <2>1 DEF VcInv, CountsInv, PoolCounted, SendBulk, VcGoes, Back, setup, waitPool, channels,
      own
<1>15. ASSUME NEW t \in VcThreads, Answered(t) PROVE PoolCounted'
  <2>1. Through' = Through
    BY Zenon, <1>15 DEF Through, VcInv, VcTypes, WaitersInv, WithWaiter, Answered, VcGoes, Unuse, setup, waitPool,
        channels, own
  <2> QED BY Zenon, <1>15, <2>1 DEF VcInv, CountsInv, PoolCounted, Answered, VcGoes, Unuse, setup, waitPool, channels,
      own
<1>16. ASSUME NEW t \in VcThreads, Unsent(t) PROVE PoolCounted'
  <2>1. Through' = Through
    BY Zenon, <1>16 DEF Through, VcInv, VcTypes, WaitersInv, WithWaiter, Unsent, VcGoes, Unuse, setup, waitPool,
        channels, own
  <2> QED BY Zenon, <1>16, <2>1 DEF VcInv, CountsInv, PoolCounted, Unsent, VcGoes, Unuse, setup, waitPool, channels, own
<1>17. ASSUME NEW t \in VcThreads, ReleaseWaiter(t) PROVE PoolCounted'
  <2>1. Through' = Through
    BY Zenon, <1>17 DEF Through, VcInv, VcTypes, WaitersInv, WithWaiter, ReleaseWaiter, VcGoes, setup, waitPool,
        channels, own
  <2> QED BY Zenon, <1>17, <2>1 DEF VcInv, CountsInv, PoolCounted, ReleaseWaiter, VcGoes, setup, waitPool, channels, own
<1>18. ASSUME NEW t \in VcThreads, PostWaiter(t) PROVE PoolCounted'
  <2>1. Through' = Through \ {t} /\ t \in Through
    BY Zenon, <1>18 DEF Through, VcInv, VcTypes, WaitersInv, WithWaiter, PostWaiter, VcGoes, Back, setup, waitPool,
        channels, own
  <2>2. Cardinality(Through') = Cardinality(Through) - 1 /\ Cardinality(Through) \in Nat
    BY Zenon, <2>1, FiniteCounts, FS_RemoveElement, FS_CardinalityType
  <2>3. poolSem' = poolSem + 1 /\ poolSem \in Nat /\ vcRefs' = vcRefs
    BY Zenon, <1>18 DEF VcInv, VcTypes, PostWaiter, setup
  <2> QED BY <2>2, <2>3 DEF VcInv, CountsInv, PoolCounted
<1>19. CASE UNCHANGED vcClientVars
  BY Zenon, <1>19 DEF PoolCounted, Through, VcInv, CountsInv, vcClientVars
<1> QED BY Zenon, <1>1, <1>2, <1>3, <1>4, <1>5, <1>6, <1>7, <1>8, <1>9, <1>10, <1>11, <1>12, <1>13, <1>14, <1>15,
    <1>16, <1>17, <1>18, <1>19 DEF VcClientNext, VcStep

\* client.usecount goes up and down with the calls and the components that use the service.
LEMMA ServiceStep ==
    ASSUME VcInv, [VcClientNext]_vcClientVars
    PROVE  ServiceInUse'
<1>1. CASE VcHandles
  <2>1. InService' = InService
    BY Zenon, <1>1 DEF InService, VcInv, VcTypes, WaitersInv, WithWaiter, VcHandles, setup, waitPool, channels, own
  <2> QED BY Zenon, <1>1, <2>1 DEF VcInv, CountsInv, ServiceInUse, InService, VcHandles, setup, waitPool, channels, own
<1>2. CASE Callback
  <2>1. InService' = InService
    BY Zenon, <1>2 DEF InService, VcInv, VcTypes, WaitersInv, WithWaiter, Callback, setup, waitPool, channels, own
  <2> QED BY Zenon, <1>2, <2>1 DEF VcInv, CountsInv, ServiceInUse, InService, Callback, setup, waitPool, channels, own
<1>3. ASSUME NEW t \in VcThreads, VcInit(t) PROVE ServiceInUse'
  <2>1. CASE vcRefs > 0
    <3>1. InService' = InService
      BY Zenon, <1>3, <2>1 DEF InService, VcInv, VcTypes, VcInit, VcGoes, setup, waitPool, channels, own
    <3> QED BY Zenon, <1>3, <2>1, <3>1 DEF VcInv, CountsInv, ServiceInUse, InService, VcInit, VcGoes, setup, waitPool,
        channels, own
  <2>2. CASE vcRefs = 0
    <3>1. InService' = {t}
      BY <1>3, <2>2, AllOut DEF InService, VcInv, VcTypes, VcInit, VcGoes
    <3>2. useCount' = 1
      BY <1>3, <2>2 DEF VcInit
    <3> QED BY Zenon, <3>1, <3>2, FS_Singleton DEF ServiceInUse, InService
  <2> QED BY <2>1, <2>2 DEF VcInv, VcTypes
<1>4. ASSUME NEW t \in VcThreads, VcInitFails(t) PROVE ServiceInUse'
  <2>1. InService' = {}
    BY Zenon, <1>4, AllOut DEF InService, VcInitFails
  <2> QED BY Zenon, <1>4, <2>1, FS_EmptySet DEF ServiceInUse, InService, VcInitFails
<1>5. ASSUME NEW t \in VcThreads, VcInitRelease(t) PROVE ServiceInUse'
  <2>1. InService' = InService \ {t} /\ t \in InService
    BY Zenon, <1>5 DEF InService, VcInv, VcTypes, WaitersInv, WithWaiter, VcInitRelease, VcGoes, own
  <2>2. Cardinality(InService') = Cardinality(InService) - 1
    BY Zenon, <2>1, FiniteCounts, FS_RemoveElement
  <2> QED BY Zenon, <1>5, <2>2 DEF VcInv, VcTypes, CountsInv, ServiceInUse, InService, VcInitRelease, Unuse
<1>6. ASSUME NEW t \in VcThreads, VcUse(t) PROVE ServiceInUse'
  <2>1. InService' = InService \cup {t} /\ t \notin InService
    BY <1>6 DEF InService, VcInv, VcTypes, WaitersInv, WithWaiter, VcUse, VcGoes, own
  <2>2. Cardinality(InService') = Cardinality(InService) + 1
    BY Zenon, <2>1, FiniteCounts, FS_AddElement
  <2> QED BY Zenon, <1>6, <2>2 DEF VcInv, VcTypes, CountsInv, ServiceInUse, InService, VcUse
<1>7. ASSUME NEW t \in VcThreads, VcRelease(t) PROVE ServiceInUse'
  <2>1. InService' = InService \ {t} /\ t \in InService
    BY Zenon, <1>7 DEF InService, VcInv, VcTypes, WaitersInv, WithWaiter, VcRelease, VcGoes, own
  <2>2. Cardinality(InService') = Cardinality(InService) - 1
    BY Zenon, <2>1, FiniteCounts, FS_RemoveElement
  <2> QED BY Zenon, <1>7, <2>2 DEF VcInv, VcTypes, CountsInv, ServiceInUse, InService, VcRelease, Unuse
<1>8. ASSUME NEW t \in VcThreads, VcDeinit(t) PROVE ServiceInUse'
  <2>1. InService' = InService
    BY Zenon, <1>8 DEF InService, VcInv, VcTypes, WaitersInv, WithWaiter, VcDeinit, VcGoes, setup, waitPool, channels,
        own
  <2> QED BY Zenon, <1>8, <2>1 DEF VcInv, CountsInv, ServiceInUse, InService, VcDeinit, VcGoes, setup, waitPool,
      channels, own
<1>9. ASSUME NEW t \in VcThreads, NEW reply \in BOOLEAN, NEW bulk \in BOOLEAN, Call(t, reply, bulk) PROVE ServiceInUse'
  <2>1. InService' = InService
    BY Zenon, <1>9 DEF InService, VcInv, VcTypes, WaitersInv, WithWaiter, Call, VcGoes, setup, waitPool, channels, own
  <2> QED BY Zenon, <1>9, <2>1 DEF VcInv, CountsInv, ServiceInUse, InService, Call, VcGoes, setup, waitPool, channels,
      own
<1>10. ASSUME NEW t \in VcThreads, WaiterWait(t) PROVE ServiceInUse'
  <2>1. InService' = InService
    BY Zenon, <1>10 DEF InService, VcInv, VcTypes, WaitersInv, WithWaiter, WaiterWait, VcGoes, setup, waitPool,
        channels, own
  <2> QED BY Zenon, <1>10, <2>1 DEF VcInv, CountsInv, ServiceInUse, InService, WaiterWait, VcGoes, setup, waitPool,
      channels, own
<1>11. ASSUME NEW t \in VcThreads, WaiterTake(t) PROVE ServiceInUse'
  <2>1. InService' = InService
    BY <1>11 DEF InService, VcInv, VcTypes, WaitersInv, WithWaiter, WaiterTake, VcGoes, setup, waitPool, channels, own
  <2> QED BY Zenon, <1>11, <2>1 DEF VcInv, CountsInv, ServiceInUse, InService, WaiterTake, VcGoes, setup, waitPool,
      channels, own
<1>12. ASSUME NEW t \in VcThreads, Send(t) PROVE ServiceInUse'
  <2>1. CASE mine[t] = 0
    <3>1. InService' = InService
      BY Zenon, <1>12, <2>1 DEF InService, VcInv, VcTypes, Send, VcGoes, Back, own
    <3>2. useCount' = useCount /\ useFaults' = useFaults
      BY Zenon, <1>12, <2>1 DEF Send
    <3> QED BY Zenon, <3>1, <3>2 DEF VcInv, CountsInv, ServiceInUse, InService
  <2>2. CASE mine[t] # 0
    <3>1. InService' = InService \cup {t} /\ t \notin InService
      BY Zenon, <1>12, <2>2 DEF InService, VcInv, VcTypes, Send, VcGoes, own
    <3>2. Cardinality(InService') = Cardinality(InService) + 1
      BY Zenon, <3>1, FiniteCounts, FS_AddElement
    <3>3. \/ useCount' = useCount + 1 /\ useFaults' = useFaults
          \/ useFaults' # 0
      BY <1>12, <2>2 DEF VcInv, VcTypes, Send, Use
    <3> QED BY Zenon, <3>2, <3>3 DEF VcInv, CountsInv, ServiceInUse, InService
  <2> QED BY Zenon, <2>1, <2>2
<1>13. ASSUME NEW t \in VcThreads, SendMsgFails(t) PROVE ServiceInUse'
  <2>1. CASE mine[t] = 0
    <3>1. InService' = InService
      BY Zenon, <1>13, <2>1 DEF InService, VcInv, VcTypes, SendMsgFails, VcGoes, Back, own
    <3>2. useCount' = useCount /\ useFaults' = useFaults
      BY Zenon, <1>13, <2>1 DEF SendMsgFails
    <3> QED BY Zenon, <3>1, <3>2 DEF VcInv, CountsInv, ServiceInUse, InService
  <2>2. CASE mine[t] # 0
    <3>1. InService' = InService \cup {t} /\ t \notin InService
      BY <1>13, <2>2 DEF InService, VcInv, VcTypes, SendMsgFails, VcGoes, own
    <3>2. Cardinality(InService') = Cardinality(InService) + 1
      BY Zenon, <3>1, FiniteCounts, FS_AddElement
    <3>3. \/ useCount' = useCount + 1 /\ useFaults' = useFaults
          \/ useFaults' # 0
      BY <1>13, <2>2 DEF VcInv, VcTypes, SendMsgFails, Use
    <3> QED BY Zenon, <3>2, <3>3 DEF VcInv, CountsInv, ServiceInUse, InService
  <2> QED BY Zenon, <2>1, <2>2
<1>14. ASSUME NEW t \in VcThreads, SendBulk(t) PROVE ServiceInUse'
  <2>1. InService' = InService
    BY <1>14 DEF InService, VcInv, VcTypes, WaitersInv, WithWaiter, SendBulk, VcGoes, Back, setup, waitPool, channels,
        own
  <2> QED BY Zenon, <1>14, <2>1 DEF VcInv, CountsInv, ServiceInUse, InService, SendBulk, VcGoes, Back, setup,
      waitPool, channels, own
<1>15. ASSUME NEW t \in VcThreads, Answered(t) PROVE ServiceInUse'
  <2>1. InService' = InService \ {t} /\ t \in InService
    BY Zenon, <1>15 DEF InService, VcInv, VcTypes, WaitersInv, WithWaiter, Answered, VcGoes, own
  <2>2. Cardinality(InService') = Cardinality(InService) - 1
    BY Zenon, <2>1, FiniteCounts, FS_RemoveElement
  <2> QED BY Zenon, <1>15, <2>2 DEF VcInv, VcTypes, CountsInv, ServiceInUse, InService, Answered, Unuse
<1>16. ASSUME NEW t \in VcThreads, Unsent(t) PROVE ServiceInUse'
  <2>1. InService' = InService \ {t} /\ t \in InService
    BY Zenon, <1>16 DEF InService, VcInv, VcTypes, WaitersInv, WithWaiter, Unsent, VcGoes, own
  <2>2. Cardinality(InService') = Cardinality(InService) - 1
    BY Zenon, <2>1, FiniteCounts, FS_RemoveElement
  <2> QED BY Zenon, <1>16, <2>2 DEF VcInv, VcTypes, CountsInv, ServiceInUse, InService, Unsent, Unuse
<1>17. ASSUME NEW t \in VcThreads, ReleaseWaiter(t) PROVE ServiceInUse'
  <2>1. InService' = InService
    BY Zenon, <1>17 DEF InService, VcInv, VcTypes, WaitersInv, WithWaiter, ReleaseWaiter, VcGoes, setup, waitPool,
        channels, own
  <2> QED BY Zenon, <1>17, <2>1 DEF VcInv, CountsInv, ServiceInUse, InService, ReleaseWaiter, VcGoes, setup, waitPool,
      channels, own
<1>18. ASSUME NEW t \in VcThreads, PostWaiter(t) PROVE ServiceInUse'
  <2>1. InService' = InService
    BY Zenon, <1>18 DEF InService, VcInv, VcTypes, WaitersInv, WithWaiter, PostWaiter, VcGoes, Back, setup, waitPool,
        channels, own
  <2> QED BY Zenon, <1>18, <2>1 DEF VcInv, CountsInv, ServiceInUse, InService, PostWaiter, VcGoes, Back, setup,
      waitPool, channels, own
<1>19. CASE UNCHANGED vcClientVars
  BY Zenon, <1>19 DEF ServiceInUse, VcInv, CountsInv, vcClientVars
<1> QED BY Zenon, <1>1, <1>2, <1>3, <1>4, <1>5, <1>6, <1>7, <1>8, <1>9, <1>10, <1>11, <1>12, <1>13, <1>14, <1>15,
    <1>16, <1>17, <1>18, <1>19 DEF VcClientNext, VcStep

LEMMA CountsStep == VcInv /\ [VcClientNext]_vcClientVars => CountsInv'
BY Zenon, InsideStep, PoolStep, ServiceStep DEF CountsInv, InsideCounted, PoolCounted

\* A step of a thread that neither takes nor gives back a waiter leaves them as they are.
LEMMA WaitersKept ==
    ASSUME VcInv, NEW t \in VcThreads, inUse' = inUse, noWaiter' = noWaiter, mine'[t] = mine[t],
           \A s \in VcThreads : s # t => vcAt'[s] = vcAt[s] /\ mine'[s] = mine[s],
           vcAt[t] # "releasewaiter", vcAt'[t] # "releasewaiter",
           mine[t] # 0 => vcAt'[t] \in WithWaiter,
           vcAt'[t] \in {"await", "unsent", "answered"} => mine[t] # 0
    PROVE  WaitersInv'
<1>1. \A s \in VcThreads : mine'[s] = mine[s] /\ (vcAt'[s] = "releasewaiter" <=> vcAt[s] = "releasewaiter")
  BY Zenon
<1>2. (\A s \in VcThreads : mine[s] # 0 => vcAt[s] \in WithWaiter)'
  BY Zenon, <1>1 DEF VcInv, WaitersInv
<1>3. (\A s \in VcThreads : vcAt[s] \in {"await", "unsent", "answered", "releasewaiter"} => mine[s] # 0)'
  BY Zenon, <1>1 DEF VcInv, WaitersInv
<1>4. /\ (\A r, s \in VcThreads : /\ mine[r] # 0 /\ mine[r] = mine[s]
                                 /\ vcAt[r] # "releasewaiter" /\ vcAt[s] # "releasewaiter" => r = s)'
      /\ (\A s \in VcThreads : mine[s] # 0 /\ vcAt[s] # "releasewaiter" => mine[s] \in inUse)'
  BY <1>1 DEF VcInv, WaitersInv
<1>5. (\A w \in inUse : \E s \in VcThreads : mine[s] = w /\ vcAt[s] # "releasewaiter")'
  BY <1>1 DEF VcInv, WaitersInv
<1> QED BY Zenon, <1>2, <1>3, <1>4, <1>5 DEF VcInv, WaitersInv, WaiterFound

\* A thread the semaphore let through finds a free waiter: otherwise as many threads as there are waiters came through
\* besides it.
LEMMA FreeWaiter ==
    ASSUME VcInv, NEW t \in VcThreads, vcAt[t] = "pickwaiter"
    PROVE  Waiters \ inUse # {}
<1> SUFFICES ASSUME Waiters \subseteq inUse PROVE FALSE
  BY Zenon
<1> DEFINE Owns(s, w) == mine[s] = w /\ vcAt[s] # "releasewaiter"
           owner == [w \in Waiters |-> CHOOSE s \in VcThreads : Owns(s, w)]
           others == Through \ {t}
<1>1. \A w \in Waiters : \E s \in VcThreads : Owns(s, w)
  BY Zenon DEF VcInv, WaitersInv
<1>2. \A w \in Waiters : owner[w] \in VcThreads /\ Owns(owner[w], w)
  BY Zenon, <1>1
<1>3. t \in Through /\ mine[t] = 0
  BY Zenon DEF Through, VcInv, WaitersInv, WithWaiter
<1>4. \A w \in Waiters : owner[w] \in others
  BY <1>2, <1>3, VcAssumption DEF Through, Waiters
<1>5. \A v, w \in Waiters : owner[v] = owner[w] => v = w
  BY Zenon, <1>2
<1>6. IsFiniteSet(others) /\ Cardinality(others) = Cardinality(Through) - 1
  BY Zenon, <1>3, FiniteCounts, FS_RemoveElement
<1>7. IsFiniteSet(Waiters) /\ Cardinality(Waiters) = MaxWaiters
  BY FS_Interval, VcAssumption DEF Waiters
<1>8. vcRefs > 0 /\ poolSem \in Nat
  BY Zenon, LastIn DEF VcInv, VcTypes
<1>9. Cardinality(Through) \in Nat /\ poolSem + Cardinality(Through) = MaxWaiters
  BY Zenon, <1>8, FiniteCounts, FS_CardinalityType DEF VcInv, CountsInv
<1>10. Cardinality(others) < Cardinality(Waiters)
  BY <1>6, <1>7, <1>8, <1>9
<1>11. owner \in [Waiters -> others]
  BY Zenon, <1>4
<1> HIDE DEF owner, others
<1>12. \E v, w \in Waiters : v # w /\ owner[v] = owner[w]
  BY <1>6, <1>7, <1>10, <1>11, FS_PigeonHole
<1> QED BY Zenon, <1>5, <1>12

\* A waiter is taken by one call and given back by it.
LEMMA WaitersStep ==
    ASSUME VcInv, [VcClientNext]_vcClientVars
    PROVE  WaitersInv'
<1>1. CASE VcHandles
  BY Zenon, <1>1 DEF VcInv, WaitersInv, WaiterFound, VcHandles, setup, waitPool, channels, own
<1>2. CASE Callback
  BY Zenon, <1>2 DEF VcInv, WaitersInv, WaiterFound, Callback, setup, waitPool, channels, own
<1>3. ASSUME NEW t \in VcThreads, VcInit(t) PROVE WaitersInv'
  <2>1. CASE vcRefs > 0
    <3>1. /\ inUse' = inUse /\ noWaiter' = noWaiter /\ mine'[t] = mine[t]
          /\ \A s \in VcThreads : s # t => vcAt'[s] = vcAt[s] /\ mine'[s] = mine[s]
      BY Zenon, <1>3, <2>1 DEF VcInv, VcTypes, VcInit, VcGoes, setup, waitPool, channels, own
    <3>2. /\ vcAt[t] # "releasewaiter" /\ vcAt'[t] # "releasewaiter" /\ (mine[t] # 0 => vcAt'[t] \in WithWaiter)
          /\ vcAt'[t] \in {"await", "unsent", "answered"} => mine[t] # 0
      BY Zenon, <1>3, <2>1 DEF VcInv, VcTypes, WaitersInv, WithWaiter, VcInit, VcGoes, setup, waitPool, channels, own
    <3> QED BY Zenon, <3>1, <3>2, WaitersKept
  <2>2. CASE vcRefs = 0
    <3>1. \A s \in VcThreads : mine'[s] = 0 /\ vcAt'[s] \in {"out", "ready", "unuse"}
      BY <1>3, <2>2, AllOut DEF VcInv, VcTypes, WaitersInv, WithWaiter, VcInit, VcGoes, setup, waitPool, channels, own
    <3>2. inUse' = {} /\ noWaiter' = noWaiter
      BY <1>3, <2>2 DEF VcInv, VcTypes, VcInit, VcGoes, setup, waitPool, channels, own
    <3> QED BY Zenon, <3>1, <3>2 DEF VcInv, WaitersInv, WaiterFound
  <2> QED BY <2>1, <2>2 DEF VcInv, VcTypes
<1>4. ASSUME NEW t \in VcThreads, VcInitFails(t) PROVE WaitersInv'
  <2>1. /\ inUse' = inUse /\ noWaiter' = noWaiter /\ mine'[t] = mine[t]
        /\ \A s \in VcThreads : s # t => vcAt'[s] = vcAt[s] /\ mine'[s] = mine[s]
    BY Zenon, <1>4 DEF VcInv, VcTypes, VcInitFails, setup, waitPool, channels, own
  <2>2. /\ vcAt[t] # "releasewaiter" /\ vcAt'[t] # "releasewaiter" /\ (mine[t] # 0 => vcAt'[t] \in WithWaiter)
        /\ vcAt'[t] \in {"await", "unsent", "answered"} => mine[t] # 0
    BY Zenon, <1>4 DEF VcInv, VcTypes, WaitersInv, WithWaiter, VcInitFails, setup, waitPool, channels, own
  <2> QED BY Zenon, <2>1, <2>2, WaitersKept
<1>5. ASSUME NEW t \in VcThreads, VcInitRelease(t) PROVE WaitersInv'
  <2>1. /\ inUse' = inUse /\ noWaiter' = noWaiter /\ mine'[t] = mine[t]
        /\ \A s \in VcThreads : s # t => vcAt'[s] = vcAt[s] /\ mine'[s] = mine[s]
    BY Zenon, <1>5 DEF VcInv, VcTypes, VcInitRelease, VcGoes, Unuse, setup, waitPool, channels, own
  <2>2. /\ vcAt[t] # "releasewaiter" /\ vcAt'[t] # "releasewaiter" /\ (mine[t] # 0 => vcAt'[t] \in WithWaiter)
        /\ vcAt'[t] \in {"await", "unsent", "answered"} => mine[t] # 0
    BY Zenon, <1>5 DEF VcInv, VcTypes, WaitersInv, WithWaiter, VcInitRelease, VcGoes, Unuse, setup, waitPool,
        channels, own
  <2> QED BY Zenon, <2>1, <2>2, WaitersKept
<1>6. ASSUME NEW t \in VcThreads, VcUse(t) PROVE WaitersInv'
  <2>1. /\ inUse' = inUse /\ noWaiter' = noWaiter /\ mine'[t] = mine[t]
        /\ \A s \in VcThreads : s # t => vcAt'[s] = vcAt[s] /\ mine'[s] = mine[s]
    BY Zenon, <1>6 DEF VcInv, VcTypes, VcUse, VcGoes, setup, waitPool, channels, own
  <2>2. /\ vcAt[t] # "releasewaiter" /\ vcAt'[t] # "releasewaiter" /\ (mine[t] # 0 => vcAt'[t] \in WithWaiter)
        /\ vcAt'[t] \in {"await", "unsent", "answered"} => mine[t] # 0
    BY Zenon, <1>6 DEF VcInv, VcTypes, WaitersInv, WithWaiter, VcUse, VcGoes, setup, waitPool, channels, own
  <2> QED BY Zenon, <2>1, <2>2, WaitersKept
<1>7. ASSUME NEW t \in VcThreads, VcRelease(t) PROVE WaitersInv'
  <2>1. /\ inUse' = inUse /\ noWaiter' = noWaiter /\ mine'[t] = mine[t]
        /\ \A s \in VcThreads : s # t => vcAt'[s] = vcAt[s] /\ mine'[s] = mine[s]
    BY Zenon, <1>7 DEF VcInv, VcTypes, VcRelease, VcGoes, Unuse, setup, waitPool, channels, own
  <2>2. /\ vcAt[t] # "releasewaiter" /\ vcAt'[t] # "releasewaiter" /\ (mine[t] # 0 => vcAt'[t] \in WithWaiter)
        /\ vcAt'[t] \in {"await", "unsent", "answered"} => mine[t] # 0
    BY Zenon, <1>7 DEF VcInv, VcTypes, WaitersInv, WithWaiter, VcRelease, VcGoes, Unuse, setup, waitPool, channels, own
  <2> QED BY Zenon, <2>1, <2>2, WaitersKept
<1>8. ASSUME NEW t \in VcThreads, VcDeinit(t) PROVE WaitersInv'
  <2>1. CASE vcRefs > 1
    <3>1. /\ inUse' = inUse /\ noWaiter' = noWaiter /\ mine'[t] = mine[t]
          /\ \A s \in VcThreads : s # t => vcAt'[s] = vcAt[s] /\ mine'[s] = mine[s]
      BY Zenon, <1>8, <2>1 DEF VcInv, VcTypes, VcDeinit, VcGoes, setup, waitPool, channels, own
    <3>2. /\ vcAt[t] # "releasewaiter" /\ vcAt'[t] # "releasewaiter" /\ (mine[t] # 0 => vcAt'[t] \in WithWaiter)
          /\ vcAt'[t] \in {"await", "unsent", "answered"} => mine[t] # 0
      BY Zenon, <1>8, <2>1 DEF VcInv, VcTypes, WaitersInv, WithWaiter, VcDeinit, VcGoes, setup, waitPool, channels, own
    <3> QED BY Zenon, <3>1, <3>2, WaitersKept
  <2>2. CASE ~(vcRefs > 1)
    <3>1. \A s \in VcThreads : mine'[s] = 0 /\ vcAt'[s] \in {"out", "ready", "unuse"}
      <4>1. vcAt[t] = "ready" /\ vcAt' = [vcAt EXCEPT ![t] = "out"] /\ mine' = mine /\ vcAt \in [VcThreads -> VcPlaces]
        BY Zenon, <1>8 DEF VcInv, VcTypes, VcDeinit, VcGoes, own
      <4>2. vcAt[t] # "out" /\ mine[t] = 0
        BY Zenon, <4>1 DEF VcInv, WaitersInv, WithWaiter
      <4>3. vcRefs \in Nat /\ (vcRefs <= 1 => \A s \in VcThreads : s # t => vcAt[s] = "out" /\ mine[s] = 0)
        BY Zenon, <4>2, LastIn
      <4>4. vcRefs <= 1
        BY <2>2, <4>3
      <4> QED BY Zenon, <4>1, <4>2, <4>3, <4>4
    <3>2. inUse' = {} /\ noWaiter' = noWaiter
      BY Zenon, <1>8, <2>2 DEF VcInv, VcTypes, VcDeinit, VcGoes, setup, waitPool, channels, own
    <3> QED BY Zenon, <3>1, <3>2 DEF VcInv, WaitersInv, WaiterFound
  <2> QED BY Zenon, <2>1, <2>2 DEF VcInv, VcTypes
<1>9. ASSUME NEW t \in VcThreads, NEW reply \in BOOLEAN, NEW bulk \in BOOLEAN, Call(t, reply, bulk) PROVE WaitersInv'
  <2>1. /\ inUse' = inUse /\ noWaiter' = noWaiter /\ mine'[t] = mine[t]
        /\ \A s \in VcThreads : s # t => vcAt'[s] = vcAt[s] /\ mine'[s] = mine[s]
    BY Zenon, <1>9 DEF VcInv, VcTypes, Call, VcGoes, setup, waitPool, channels, own
  <2>2. /\ vcAt[t] # "releasewaiter" /\ vcAt'[t] # "releasewaiter" /\ (mine[t] # 0 => vcAt'[t] \in WithWaiter)
        /\ vcAt'[t] \in {"await", "unsent", "answered"} => mine[t] # 0
    BY Zenon, <1>9 DEF VcInv, VcTypes, WaitersInv, WithWaiter, Call, VcGoes, setup, waitPool, channels, own
  <2> QED BY Zenon, <2>1, <2>2, WaitersKept
<1>10. ASSUME NEW t \in VcThreads, WaiterWait(t) PROVE WaitersInv'
  <2>1. /\ inUse' = inUse /\ noWaiter' = noWaiter /\ mine'[t] = mine[t]
        /\ \A s \in VcThreads : s # t => vcAt'[s] = vcAt[s] /\ mine'[s] = mine[s]
    BY Zenon, <1>10 DEF VcInv, VcTypes, WaiterWait, VcGoes, setup, waitPool, channels, own
  <2>2. /\ vcAt[t] # "releasewaiter" /\ vcAt'[t] # "releasewaiter" /\ (mine[t] # 0 => vcAt'[t] \in WithWaiter)
        /\ vcAt'[t] \in {"await", "unsent", "answered"} => mine[t] # 0
    BY Zenon, <1>10 DEF VcInv, VcTypes, WaitersInv, WithWaiter, WaiterWait, VcGoes, setup, waitPool, channels, own
  <2> QED BY Zenon, <2>1, <2>2, WaitersKept
<1>11. ASSUME NEW t \in VcThreads, WaiterTake(t) PROVE WaitersInv'
  <2>1. PICK w \in Waiters \ inUse : mine' = [mine EXCEPT ![t] = w] /\ inUse' = inUse \cup {w}
    BY Zenon, <1>11, FreeWaiter DEF WaiterTake, VcGoes
  <2>2. vcAt[t] = "pickwaiter" /\ vcAt' = [vcAt EXCEPT ![t] = "send"] /\ noWaiter' = noWaiter
    BY Zenon, <1>11, FreeWaiter DEF WaiterTake, VcGoes
  <2>3. mine[t] = 0 /\ mine'[t] = w /\ w # 0 /\ vcAt'[t] = "send"
    <3>1. mine[t] = 0 /\ mine'[t] = w /\ vcAt'[t] = "send"
      BY Zenon, <2>1, <2>2 DEF VcInv, VcTypes, WaitersInv, WithWaiter
    <3>2. w # 0
      BY VcAssumption DEF Waiters
    <3> QED BY Zenon, <3>1, <3>2
  <2>4. \A s \in VcThreads : s # t => vcAt'[s] = vcAt[s] /\ mine'[s] = mine[s]
    BY Zenon, <2>1, <2>2 DEF VcInv, VcTypes
  <2>5. /\ (\A s \in VcThreads : mine[s] # 0 => vcAt[s] \in WithWaiter)'
        /\ (\A s \in VcThreads : vcAt[s] \in {"await", "unsent", "answered", "releasewaiter"} => mine[s] # 0)'
    BY <2>3, <2>4 DEF VcInv, WaitersInv, WithWaiter
  <2>6. /\ (\A r, s \in VcThreads : /\ mine[r] # 0 /\ mine[r] = mine[s]
                                   /\ vcAt[r] # "releasewaiter" /\ vcAt[s] # "releasewaiter" => r = s)'
        /\ (\A s \in VcThreads : mine[s] # 0 /\ vcAt[s] # "releasewaiter" => mine[s] \in inUse)'
    BY <2>1, <2>3, <2>4 DEF VcInv, WaitersInv
  <2>7. (\A v \in inUse : \E s \in VcThreads : mine[s] = v /\ vcAt[s] # "releasewaiter")'
    <3> SUFFICES ASSUME NEW v \in inUse' PROVE \E s \in VcThreads : mine'[s] = v /\ vcAt'[s] # "releasewaiter"
      BY Zenon
    <3>1. CASE v = w
      BY Zenon, <3>1, <2>3
    <3>2. CASE v # w
      <4>1. PICK s \in VcThreads : mine[s] = v /\ vcAt[s] # "releasewaiter"
        BY Zenon, <3>2, <2>1 DEF VcInv, WaitersInv
      <4>2. s # t
        BY <4>1, <2>1, <2>3, <3>2, VcAssumption DEF VcInv, VcTypes, Waiters
      <4> QED BY Zenon, <4>1, <4>2, <2>4
    <3> QED BY Zenon, <3>1, <3>2
  <2> QED BY Zenon, <2>2, <2>5, <2>6, <2>7 DEF VcInv, WaitersInv, WaiterFound
<1>12. ASSUME NEW t \in VcThreads, Send(t) PROVE WaitersInv'
  <2>1. /\ inUse' = inUse /\ noWaiter' = noWaiter /\ mine'[t] = mine[t]
        /\ \A s \in VcThreads : s # t => vcAt'[s] = vcAt[s] /\ mine'[s] = mine[s]
    BY Zenon, <1>12 DEF VcInv, VcTypes, Send, VcGoes, Use, Back, setup, waitPool, channels, own
  <2>2. /\ vcAt[t] # "releasewaiter" /\ vcAt'[t] # "releasewaiter" /\ (mine[t] # 0 => vcAt'[t] \in WithWaiter)
        /\ vcAt'[t] \in {"await", "unsent", "answered"} => mine[t] # 0
    BY Zenon, <1>12 DEF VcInv, VcTypes, WaitersInv, WithWaiter, Send, VcGoes, Use, Back, setup, waitPool, channels, own
  <2> QED BY Zenon, <2>1, <2>2, WaitersKept
<1>13. ASSUME NEW t \in VcThreads, SendMsgFails(t) PROVE WaitersInv'
  <2>1. /\ inUse' = inUse /\ noWaiter' = noWaiter /\ mine'[t] = mine[t]
        /\ \A s \in VcThreads : s # t => vcAt'[s] = vcAt[s] /\ mine'[s] = mine[s]
    BY Zenon, <1>13 DEF VcInv, VcTypes, SendMsgFails, VcGoes, Use, Back, setup, waitPool, channels, own
  <2>2. /\ vcAt[t] # "releasewaiter" /\ vcAt'[t] # "releasewaiter" /\ (mine[t] # 0 => vcAt'[t] \in WithWaiter)
        /\ vcAt'[t] \in {"await", "unsent", "answered"} => mine[t] # 0
    BY Zenon, <1>13 DEF VcInv, VcTypes, WaitersInv, WithWaiter, SendMsgFails, VcGoes, Use, Back, setup, waitPool,
        channels, own
  <2> QED BY Zenon, <2>1, <2>2, WaitersKept
<1>14. ASSUME NEW t \in VcThreads, SendBulk(t) PROVE WaitersInv'
  <2>1. /\ inUse' = inUse /\ noWaiter' = noWaiter /\ mine'[t] = mine[t]
        /\ \A s \in VcThreads : s # t => vcAt'[s] = vcAt[s] /\ mine'[s] = mine[s]
    BY Zenon, <1>14 DEF VcInv, VcTypes, SendBulk, VcGoes, Back, setup, waitPool, channels, own
  <2>2. /\ vcAt[t] # "releasewaiter" /\ vcAt'[t] # "releasewaiter" /\ (mine[t] # 0 => vcAt'[t] \in WithWaiter)
        /\ vcAt'[t] \in {"await", "unsent", "answered"} => mine[t] # 0
    BY Zenon, <1>14 DEF VcInv, VcTypes, WaitersInv, WithWaiter, SendBulk, VcGoes, Back, setup, waitPool, channels, own
  <2> QED BY Zenon, <2>1, <2>2, WaitersKept
<1>15. ASSUME NEW t \in VcThreads, Answered(t) PROVE WaitersInv'
  <2>1. /\ inUse' = inUse /\ noWaiter' = noWaiter /\ mine'[t] = mine[t]
        /\ \A s \in VcThreads : s # t => vcAt'[s] = vcAt[s] /\ mine'[s] = mine[s]
    BY Zenon, <1>15 DEF VcInv, VcTypes, Answered, VcGoes, Unuse, setup, waitPool, channels, own
  <2>2. /\ vcAt[t] # "releasewaiter" /\ vcAt'[t] # "releasewaiter" /\ (mine[t] # 0 => vcAt'[t] \in WithWaiter)
        /\ vcAt'[t] \in {"await", "unsent", "answered"} => mine[t] # 0
    BY Zenon, <1>15 DEF VcInv, VcTypes, WaitersInv, WithWaiter, Answered, VcGoes, Unuse, setup, waitPool, channels, own
  <2> QED BY Zenon, <2>1, <2>2, WaitersKept
<1>16. ASSUME NEW t \in VcThreads, Unsent(t) PROVE WaitersInv'
  <2>1. /\ inUse' = inUse /\ noWaiter' = noWaiter /\ mine'[t] = mine[t]
        /\ \A s \in VcThreads : s # t => vcAt'[s] = vcAt[s] /\ mine'[s] = mine[s]
    BY Zenon, <1>16 DEF VcInv, VcTypes, Unsent, VcGoes, Unuse, setup, waitPool, channels, own
  <2>2. /\ vcAt[t] # "releasewaiter" /\ vcAt'[t] # "releasewaiter" /\ (mine[t] # 0 => vcAt'[t] \in WithWaiter)
        /\ vcAt'[t] \in {"await", "unsent", "answered"} => mine[t] # 0
    BY Zenon, <1>16 DEF VcInv, VcTypes, WaitersInv, WithWaiter, Unsent, VcGoes, Unuse, setup, waitPool, channels, own
  <2> QED BY Zenon, <2>1, <2>2, WaitersKept
<1>17. ASSUME NEW t \in VcThreads, ReleaseWaiter(t) PROVE WaitersInv'
  <2>1. /\ vcAt[t] = "answered" /\ vcAt'[t] = "releasewaiter" /\ mine' = mine /\ inUse' = inUse \ {mine[t]} /\ noWaiter' = noWaiter
        /\ \A s \in VcThreads : s # t => vcAt'[s] = vcAt[s]
    BY Zenon, <1>17 DEF VcInv, VcTypes, ReleaseWaiter, VcGoes, setup, waitPool, channels, own
  <2>2. /\ (\A s \in VcThreads : mine[s] # 0 => vcAt[s] \in WithWaiter)'
        /\ (\A s \in VcThreads : vcAt[s] \in {"await", "unsent", "answered", "releasewaiter"} => mine[s] # 0)'
    BY Zenon, <2>1 DEF VcInv, WaitersInv, WithWaiter
  <2>3. /\ (\A r, s \in VcThreads : /\ mine[r] # 0 /\ mine[r] = mine[s]
                                   /\ vcAt[r] # "releasewaiter" /\ vcAt[s] # "releasewaiter" => r = s)'
        /\ (\A s \in VcThreads : mine[s] # 0 /\ vcAt[s] # "releasewaiter" => mine[s] \in inUse)'
    BY <2>1 DEF VcInv, WaitersInv
  <2>4. (\A v \in inUse : \E s \in VcThreads : mine[s] = v /\ vcAt[s] # "releasewaiter")'
    BY <2>1 DEF VcInv, WaitersInv
  <2> QED BY Zenon, <2>1, <2>2, <2>3, <2>4 DEF VcInv, WaitersInv, WaiterFound
<1>18. ASSUME NEW t \in VcThreads, PostWaiter(t) PROVE WaitersInv'
  <2>1. /\ vcAt[t] = "releasewaiter" /\ vcAt'[t] = "ready" /\ mine'[t] = 0 /\ inUse' = inUse /\ noWaiter' = noWaiter
        /\ \A s \in VcThreads : s # t => vcAt'[s] = vcAt[s] /\ mine'[s] = mine[s]
    BY Zenon, <1>18 DEF VcInv, VcTypes, PostWaiter, VcGoes, Back, setup, waitPool, channels, own
  <2>2. /\ (\A s \in VcThreads : mine[s] # 0 => vcAt[s] \in WithWaiter)'
        /\ (\A s \in VcThreads : vcAt[s] \in {"await", "unsent", "answered", "releasewaiter"} => mine[s] # 0)'
    BY <2>1 DEF VcInv, WaitersInv, WithWaiter
  <2>3. /\ (\A r, s \in VcThreads : /\ mine[r] # 0 /\ mine[r] = mine[s]
                                   /\ vcAt[r] # "releasewaiter" /\ vcAt[s] # "releasewaiter" => r = s)'
        /\ (\A s \in VcThreads : mine[s] # 0 /\ vcAt[s] # "releasewaiter" => mine[s] \in inUse)'
    BY <2>1 DEF VcInv, WaitersInv
  <2>4. (\A v \in inUse : \E s \in VcThreads : mine[s] = v /\ vcAt[s] # "releasewaiter")'
    BY <2>1 DEF VcInv, WaitersInv
  <2> QED BY Zenon, <2>1, <2>2, <2>3, <2>4 DEF VcInv, WaitersInv, WaiterFound
<1>19. CASE UNCHANGED vcClientVars
  BY Zenon, <1>19 DEF VcInv, WaitersInv, WaiterFound, vcClientVars
<1> QED BY Zenon, <1>1, <1>2, <1>3, <1>4, <1>5, <1>6, <1>7, <1>8, <1>9, <1>10, <1>11, <1>12, <1>13, <1>14, <1>15,
    <1>16, <1>17, <1>18, <1>19 DEF VcClientNext, VcStep

\* What the messages and the replies name.
LEMMA Spoken ==
    ASSUME VcInv
    PROVE  /\ \A i \in 1 .. Len(toVc) : toVc[i][1] \in VcThreads /\ Asking(toVc[i])
           /\ \A i \in 1 .. Len(toHost) : toHost[i][1] \in VcThreads /\ toHost[i][2] # 0 /\ Asking(toHost[i])
<1>1. /\ \A i \in 1 .. Len(toVc) : Asking(toVc[i])
      /\ \A i \in 1 .. Len(toHost) : toHost[i][2] # 0 /\ Asking(toHost[i])
  BY Zenon DEF VcInv, RepliesInv
<1>2. toVc \in Seq(VcThreads \X (0 .. MaxWaiters) \X BOOLEAN) /\ toHost \in Seq(VcThreads \X (0 .. MaxWaiters))
  BY Zenon DEF VcInv, VcTypes
<1>3. \A i \in 1 .. Len(toVc) : toVc[i][1] \in VcThreads
  BY <1>2
<1>4. \A i \in 1 .. Len(toHost) : toHost[i][1] \in VcThreads
  BY <1>2
<1> QED BY Zenon, <1>1, <1>3, <1>4

\* A step of a thread that has not sent a message, or has been answered, leaves messages and replies as they are.
LEMMA RepliesKept ==
    ASSUME VcInv, NEW t \in VcThreads, vcAt[t] \notin Sent, toVc' = toVc, toHost' = toHost, waiterSem' = waiterSem,
           \A s \in VcThreads : s # t => vcAt'[s] = vcAt[s] /\ mine'[s] = mine[s] /\ answer'[s] = answer[s],
           \A s \in VcThreads : vcAt[s] \in Sent /\ mine[s] # 0 => dest'[mine[s]] = dest[mine[s]]
    PROVE  RepliesInv'
<1>1. ASSUME NEW i \in 1 .. Len(toVc) PROVE Asking(toVc[i])'
  <2>1. toVc[i][1] \in VcThreads /\ Asking(toVc[i])
    BY Zenon, Spoken
  <2> QED BY Zenon, <2>1 DEF Asking
<1>2. ASSUME NEW i \in 1 .. Len(toHost) PROVE (toHost[i][2] # 0 /\ Asking(toHost[i]))'
  <2>1. toHost[i][1] \in VcThreads /\ toHost[i][2] # 0 /\ Asking(toHost[i])
    BY Zenon, Spoken
  <2> QED BY Zenon, <2>1 DEF Asking
<1>3. ASSUME NEW w \in Waiters, waiterSem[w] > 0
      PROVE  \E s \in VcThreads : mine'[s] = w /\ vcAt'[s] \in Sent /\ answer'[s] = s
  <2>1. PICK s \in VcThreads : mine[s] = w /\ vcAt[s] \in Sent /\ answer[s] = s
    BY Zenon, <1>3 DEF VcInv, RepliesInv
  <2> QED BY Zenon, <2>1
<1> QED BY <1>1, <1>2, <1>3 DEF VcInv, RepliesInv

\* With all threads out, or only one in that is at rest, nobody waits for a reply.
LEMMA NoReplies ==
    ASSUME VcInv, \A s \in VcThreads : mine[s] = 0
    PROVE  (\A i \in 1 .. Len(toVc) : toVc[i][2] = 0) /\ toHost = <<>>
<1>1. ASSUME NEW i \in 1 .. Len(toVc) PROVE toVc[i][2] = 0
  BY Zenon, Spoken DEF Asking
<1>2. toHost \in Seq(VcThreads \X (0 .. MaxWaiters)) /\ \A i \in 1 .. Len(toHost) : toHost[i][2] # 0 /\ Asking(toHost[i])
  BY Zenon DEF VcInv, VcTypes, RepliesInv
<1>3. ASSUME toHost # <<>> PROVE FALSE
  <2>0. toHost \in Seq(VcThreads \X (0 .. MaxWaiters))
    BY Zenon, <1>2
  <2>1. toHost[1] \in VcThreads \X (0 .. MaxWaiters) /\ 1 \in 1 .. Len(toHost)
    BY <2>0, <1>3
  <2>2. toHost[1][1] \in VcThreads
    BY Zenon, <2>1
  <2> QED BY Zenon, <1>2, <2>1, <2>2 DEF Asking
<1> QED BY Zenon, <1>1, <1>3

\* The waiter of a call that has not sent its message is named by no message, no reply and no post.
LEMMA FreshWaiter ==
    ASSUME VcInv, NEW t \in VcThreads, vcAt[t] = "send", mine[t] # 0
    PROVE  /\ mine[t] \in Waiters /\ waiterSem[mine[t]] = 0
           /\ \A i \in 1 .. Len(toVc) : toVc[i][2] # mine[t]
           /\ \A i \in 1 .. Len(toHost) : toHost[i][2] # mine[t]
           /\ \A s \in VcThreads : vcAt[s] \in Sent => mine[s] # mine[t]
<1>1. mine[t] \in Waiters
  BY VcAssumption DEF VcInv, VcTypes, Waiters
<1>2. \A s \in VcThreads : vcAt[s] \in Sent => mine[s] # mine[t]
  BY Zenon DEF VcInv, WaitersInv, Sent
<1>3. ASSUME NEW i \in 1 .. Len(toVc) PROVE toVc[i][2] # mine[t]
  BY Zenon, <1>2, Spoken DEF Asking
<1>4. ASSUME NEW i \in 1 .. Len(toHost) PROVE toHost[i][2] # mine[t]
  BY Zenon, <1>2, Spoken DEF Asking
<1>5. waiterSem[mine[t]] = 0
  <2>1. waiterSem[mine[t]] \in Nat /\ ~(waiterSem[mine[t]] > 0)
    BY Zenon, <1>1, <1>2 DEF VcInv, VcTypes, RepliesInv
  <2> QED BY <2>1
<1> QED BY Zenon, <1>1, <1>2, <1>3, <1>4, <1>5

\* A message, a reply and a post name the waiter of the call they belong to.
LEMMA RepliesStep ==
    ASSUME VcInv, [VcClientNext]_vcClientVars
    PROVE  RepliesInv'
<1>1. CASE VcHandles
  <2> DEFINE msg == Head(toVc)
             reply == <<msg[1], msg[2]>>
  <2>0. /\ toVc \in Seq(VcThreads \X (0 .. MaxWaiters) \X BOOLEAN) /\ toHost \in Seq(VcThreads \X (0 .. MaxWaiters))
        /\ waiterSem \in [Waiters -> Nat] /\ answer \in [VcThreads -> VcThreads \cup {NoThread}]
    BY Zenon DEF VcInv, VcTypes
  <2>a. /\ \A i \in 1 .. Len(toVc) : Asking(toVc[i])
        /\ \A i \in 1 .. Len(toHost) : toHost[i][2] # 0 /\ Asking(toHost[i])
    BY Zenon DEF VcInv, RepliesInv
  <2>u. \A i, j \in 1 .. Len(toVc) : toVc[i][2] # 0 /\ toVc[i][2] = toVc[j][2] => i = j
    BY Zenon DEF VcInv, RepliesInv
  <2>v. \A i, j \in 1 .. Len(toHost) : toHost[i][2] = toHost[j][2] => i = j
    BY Zenon DEF VcInv, RepliesInv
  <2>w. \A i \in 1 .. Len(toVc), j \in 1 .. Len(toHost) : toVc[i][2] # toHost[j][2]
    BY Zenon DEF VcInv, RepliesInv
  <2>c. \A w \in Waiters : waiterSem[w] > 0 =>
              /\ waiterSem[w] = 1
              /\ \A i \in 1 .. Len(toVc) : toVc[i][2] # w
              /\ \A i \in 1 .. Len(toHost) : toHost[i][2] # w
              /\ \E s \in VcThreads : mine[s] = w /\ vcAt[s] \in Sent /\ answer[s] = s
    BY Zenon DEF VcInv, RepliesInv
  <2>1. /\ toVc # <<>> /\ toVc' = Tail(toVc) /\ vcAt' = vcAt /\ mine' = mine /\ answer' = answer
        /\ dest' = dest /\ waiterSem' = waiterSem
    BY Zenon, <1>1 DEF VcHandles, own, waitPool
  <2>2. /\ msg \in VcThreads \X (0 .. MaxWaiters) \X BOOLEAN /\ msg = toVc[1] /\ 1 \in 1 .. Len(toVc)
    BY Zenon, <2>0, <2>1, Shorter
  <2>s. \A i \in 1 .. Len(toVc') : i + 1 \in 1 .. Len(toVc) /\ i + 1 # 1 /\ toVc'[i] = toVc[i + 1]
    BY Zenon, <2>0, <2>1, Shorter
  <2>3. (\A i \in 1 .. Len(toVc) : Asking(toVc[i]))'
    BY Zenon, <2>1, <2>s, <2>a DEF Asking
  <2>4. (\A i, j \in 1 .. Len(toVc) : toVc[i][2] # 0 /\ toVc[i][2] = toVc[j][2] => i = j)'
    <3> SUFFICES ASSUME NEW i \in 1 .. Len(toVc'), NEW j \in 1 .. Len(toVc'), toVc'[i][2] # 0, toVc'[i][2] = toVc'[j][2] PROVE i = j
      BY Zenon
    <3>a. i + 1 \in 1 .. Len(toVc) /\ toVc'[i] = toVc[i + 1] /\ j + 1 \in 1 .. Len(toVc) /\ toVc'[j] = toVc[j + 1]
      BY Zenon, <2>s
    <3>b. toVc[i + 1][2] = toVc[j + 1][2] /\ toVc[i + 1][2] # 0
      BY Zenon, <3>a
    <3>1. i + 1 = j + 1
      BY Zenon, <2>u, <3>a, <3>b
    <3> QED BY <3>1
  <2>5. CASE msg[2] = 0
    <3>1. toHost' = toHost
      BY Zenon, <1>1, <2>5 DEF VcHandles
    <3>2. (\A i \in 1 .. Len(toHost) : toHost[i][2] # 0 /\ Asking(toHost[i]))'
      BY Zenon, <2>1, <2>a, <3>1 DEF Asking
    <3>3. (\A i, j \in 1 .. Len(toHost) : toHost[i][2] = toHost[j][2] => i = j)'
      BY Zenon, <2>v, <3>1
    <3>4. (\A i \in 1 .. Len(toVc), j \in 1 .. Len(toHost) : toVc[i][2] # toHost[j][2])'
      <4> SUFFICES ASSUME NEW i \in 1 .. Len(toVc'), NEW j \in 1 .. Len(toHost') PROVE toVc'[i][2] # toHost'[j][2]
        BY Zenon
      <4>1. i + 1 \in 1 .. Len(toVc) /\ toVc'[i] = toVc[i + 1] /\ j \in 1 .. Len(toHost) /\ toHost'[j] = toHost[j]
        BY Zenon, <2>s, <3>1
      <4> QED BY Zenon, <2>w, <4>1
    <3>5. (\A w \in Waiters : waiterSem[w] > 0 =>
              /\ waiterSem[w] = 1
              /\ \A i \in 1 .. Len(toVc) : toVc[i][2] # w
              /\ \A i \in 1 .. Len(toHost) : toHost[i][2] # w
              /\ \E s \in VcThreads : mine[s] = w /\ vcAt[s] \in Sent /\ answer[s] = s)'
      <4> SUFFICES ASSUME NEW w \in Waiters, waiterSem'[w] > 0
                   PROVE  /\ waiterSem'[w] = 1
                          /\ \A i \in 1 .. Len(toVc') : toVc'[i][2] # w
                          /\ \A i \in 1 .. Len(toHost') : toHost'[i][2] # w
                          /\ \E s \in VcThreads : mine'[s] = w /\ vcAt'[s] \in Sent /\ answer'[s] = s
        BY Zenon
      <4>0. waiterSem[w] > 0
        BY Zenon, <2>1
      <4>1. waiterSem[w] = 1 /\ \E s \in VcThreads : mine[s] = w /\ vcAt[s] \in Sent /\ answer[s] = s
        BY Zenon, <2>c, <4>0
      <4>2. \A i \in 1 .. Len(toVc) : toVc[i][2] # w
        BY Zenon, <2>c, <4>0
      <4>3. \A i \in 1 .. Len(toVc') : toVc'[i][2] # w
        BY Zenon, <2>s, <4>2
      <4>4. \A i \in 1 .. Len(toHost) : toHost[i][2] # w
        BY Zenon, <2>c, <4>0
      <4>5. \A i \in 1 .. Len(toHost') : toHost'[i][2] # w
        BY Zenon, <4>0, <4>4, <3>1
      <4> QED BY Zenon, <2>1, <4>1, <4>3, <4>5
    <3> QED BY Zenon, <2>3, <2>4, <3>2, <3>3, <3>4, <3>5 DEF RepliesInv
  <2>6. CASE msg[2] # 0
    <3>1. toHost' = Append(toHost, reply) /\ reply \in VcThreads \X (0 .. MaxWaiters) /\ reply[1] = msg[1] /\ reply[2] = msg[2]
      BY Zenon, <1>1, <2>2, <2>6 DEF VcHandles
    <3>2. Asking(msg)
      BY Zenon, <2>2, <2>a
    <3>3. /\ \A i \in 1 .. Len(toVc') : toVc'[i][2] # msg[2]
          /\ \A i \in 1 .. Len(toHost) : toHost[i][2] # msg[2]
          /\ \A w \in Waiters : waiterSem[w] > 0 => w # msg[2]
      <4>1. ASSUME NEW i \in 1 .. Len(toVc') PROVE toVc'[i][2] # msg[2]
        <5>1. i + 1 \in 1 .. Len(toVc) /\ i + 1 # 1 /\ toVc'[i] = toVc[i + 1]
          BY Zenon, <2>s
        <5>2. toVc[1][2] # toVc[i + 1][2]
          BY Zenon, <2>2, <2>6, <2>u, <5>1
        <5> QED BY Zenon, <2>2, <5>1, <5>2
      <4>2. ASSUME NEW i \in 1 .. Len(toHost) PROVE toHost[i][2] # msg[2]
        BY Zenon, <2>2, <2>w
      <4>3. ASSUME NEW w \in Waiters, waiterSem[w] > 0 PROVE w # msg[2]
        <5>1. toVc[1][2] # w
          BY Zenon, <2>2, <2>c, <4>3
        <5> QED BY Zenon, <2>2, <5>1
      <4> QED BY Zenon, <4>1, <4>2, <4>3
    <3> HIDE DEF msg, reply
    <3>4. /\ toHost'[Len(toHost) + 1] = reply
          /\ \A i \in 1 .. Len(toHost) : toHost'[i] = toHost[i]
          /\ \A i \in 1 .. Len(toHost') : i \in 1 .. Len(toHost) \/ i = Len(toHost) + 1
      <4> HIDE DEF reply
      <4> DEFINE Pairs == VcThreads \X (0 .. MaxWaiters)
      <4>0. toHost' = Append(toHost, reply)
        BY Zenon, <3>1
      <4>1. toHost \in Seq(Pairs) /\ reply \in Pairs
        BY Zenon, <2>0, <3>1
      <4> HIDE DEF Pairs
      <4>2. /\ Append(toHost, reply)[Len(toHost) + 1] = reply
            /\ \A i \in 1 .. Len(toHost) : Append(toHost, reply)[i] = toHost[i]
            /\ Len(Append(toHost, reply)) = Len(toHost) + 1 /\ Len(toHost) \in Nat
        BY <4>1
      <4>3. /\ toHost'[Len(toHost) + 1] = reply /\ \A i \in 1 .. Len(toHost) : toHost'[i] = toHost[i]
            /\ Len(toHost') = Len(toHost) + 1 /\ Len(toHost) \in Nat
        BY Zenon, <4>0, <4>2
      <4>4. \A i \in 1 .. Len(toHost') : i \in 1 .. Len(toHost) \/ i = Len(toHost) + 1
        BY <4>3
      <4> QED BY Zenon, <4>3, <4>4
    <3>5. ASSUME NEW i \in 1 .. Len(toHost')
          PROVE  \/ i \in 1 .. Len(toHost) /\ toHost'[i] = toHost[i]
                 \/ i = Len(toHost) + 1 /\ toHost'[i][1] = msg[1] /\ toHost'[i][2] = msg[2]
      BY Zenon, <3>1, <3>4
    <3>6. (\A i \in 1 .. Len(toHost) : toHost[i][2] # 0 /\ Asking(toHost[i]))'
      BY Zenon, <2>1, <2>6, <2>a, <3>2, <3>5 DEF Asking
    <3>7. (\A i, j \in 1 .. Len(toHost) : toHost[i][2] = toHost[j][2] => i = j)'
      BY Zenon, <2>v, <3>3, <3>5
    <3>8. (\A i \in 1 .. Len(toVc), j \in 1 .. Len(toHost) : toVc[i][2] # toHost[j][2])'
      <4> SUFFICES ASSUME NEW i \in 1 .. Len(toVc'), NEW j \in 1 .. Len(toHost') PROVE toVc'[i][2] # toHost'[j][2]
        BY Zenon
      <4>1. i + 1 \in 1 .. Len(toVc) /\ toVc'[i] = toVc[i + 1]
        BY Zenon, <2>s
      <4>2. CASE j \in 1 .. Len(toHost) /\ toHost'[j] = toHost[j]
        BY Zenon, <2>w, <4>1, <4>2
      <4>3. CASE toHost'[j][2] = msg[2]
        BY Zenon, <3>3, <4>3
      <4> QED BY Zenon, <3>5, <4>2, <4>3
    <3>9. (\A w \in Waiters : waiterSem[w] > 0 =>
              /\ waiterSem[w] = 1
              /\ \A i \in 1 .. Len(toVc) : toVc[i][2] # w
              /\ \A i \in 1 .. Len(toHost) : toHost[i][2] # w
              /\ \E s \in VcThreads : mine[s] = w /\ vcAt[s] \in Sent /\ answer[s] = s)'
      <4> SUFFICES ASSUME NEW w \in Waiters, waiterSem'[w] > 0
                   PROVE  /\ waiterSem'[w] = 1
                          /\ \A i \in 1 .. Len(toVc') : toVc'[i][2] # w
                          /\ \A i \in 1 .. Len(toHost') : toHost'[i][2] # w
                          /\ \E s \in VcThreads : mine'[s] = w /\ vcAt'[s] \in Sent /\ answer'[s] = s
        BY Zenon
      <4>0. waiterSem[w] > 0
        BY Zenon, <2>1
      <4>1. waiterSem[w] = 1 /\ \E s \in VcThreads : mine[s] = w /\ vcAt[s] \in Sent /\ answer[s] = s
        BY Zenon, <2>c, <4>0
      <4>2. \A i \in 1 .. Len(toVc) : toVc[i][2] # w
        BY Zenon, <2>c, <4>0
      <4>3. \A i \in 1 .. Len(toVc') : toVc'[i][2] # w
        BY Zenon, <2>s, <4>2
      <4>4. \A i \in 1 .. Len(toHost) : toHost[i][2] # w
        BY Zenon, <2>c, <4>0
      <4>5. \A i \in 1 .. Len(toHost') : toHost'[i][2] # w
        BY Zenon, <4>0, <4>4, <3>3, <3>5
      <4> QED BY Zenon, <2>1, <4>1, <4>3, <4>5
    <3> QED BY Zenon, <2>3, <2>4, <3>6, <3>7, <3>8, <3>9 DEF RepliesInv
  <2> QED BY Zenon, <2>5, <2>6
<1>2. CASE Callback
  <2> DEFINE msg == Head(toHost)
  <2>0. /\ toVc \in Seq(VcThreads \X (0 .. MaxWaiters) \X BOOLEAN) /\ toHost \in Seq(VcThreads \X (0 .. MaxWaiters))
        /\ waiterSem \in [Waiters -> Nat] /\ answer \in [VcThreads -> VcThreads \cup {NoThread}]
    BY Zenon DEF VcInv, VcTypes
  <2>a. /\ \A i \in 1 .. Len(toVc) : Asking(toVc[i])
        /\ \A i \in 1 .. Len(toHost) : toHost[i][2] # 0 /\ Asking(toHost[i])
    BY Zenon DEF VcInv, RepliesInv
  <2>u. \A i, j \in 1 .. Len(toVc) : toVc[i][2] # 0 /\ toVc[i][2] = toVc[j][2] => i = j
    BY Zenon DEF VcInv, RepliesInv
  <2>v. \A i, j \in 1 .. Len(toHost) : toHost[i][2] = toHost[j][2] => i = j
    BY Zenon DEF VcInv, RepliesInv
  <2>w. \A i \in 1 .. Len(toVc), j \in 1 .. Len(toHost) : toVc[i][2] # toHost[j][2]
    BY Zenon DEF VcInv, RepliesInv
  <2>c. \A w \in Waiters : waiterSem[w] > 0 =>
              /\ waiterSem[w] = 1
              /\ \A i \in 1 .. Len(toVc) : toVc[i][2] # w
              /\ \A i \in 1 .. Len(toHost) : toHost[i][2] # w
              /\ \E s \in VcThreads : mine[s] = w /\ vcAt[s] \in Sent /\ answer[s] = s
    BY Zenon DEF VcInv, RepliesInv
  <2>1. /\ vcAt' = vcAt /\ mine' = mine /\ dest' = dest /\ toVc' = toVc /\ toHost # <<>> /\ toHost' = Tail(toHost)
        /\ answer' = [answer EXCEPT ![dest[msg[2]]] = msg[1]]
        /\ waiterSem' = [waiterSem EXCEPT ![msg[2]] = waiterSem[msg[2]] + 1]
    BY Zenon, <1>2 DEF Callback
  <2>2. /\ msg \in VcThreads \X (0 .. MaxWaiters) /\ msg = toHost[1] /\ 1 \in 1 .. Len(toHost)
    BY Zenon, <2>0, <2>1, Shorter
  <2>s. \A i \in 1 .. Len(toHost') : i + 1 \in 1 .. Len(toHost) /\ i + 1 # 1 /\ toHost'[i] = toHost[i + 1]
    BY Zenon, <2>0, <2>1, Shorter
  <2>3. msg[2] # 0 /\ Asking(msg) /\ msg[1] \in VcThreads /\ msg[2] \in 0 .. MaxWaiters
    BY Zenon, <2>2, <2>a
  <2>4. /\ \A i \in 1 .. Len(toHost') : toHost'[i][2] # msg[2]
        /\ \A i \in 1 .. Len(toVc) : toVc[i][2] # msg[2]
        /\ msg[2] \in Waiters => ~(waiterSem[msg[2]] > 0)
    <3>1. ASSUME NEW i \in 1 .. Len(toHost') PROVE toHost'[i][2] # msg[2]
      <4>1. i + 1 \in 1 .. Len(toHost) /\ i + 1 # 1 /\ toHost'[i] = toHost[i + 1]
        BY Zenon, <2>s
      <4>2. toHost[1][2] # toHost[i + 1][2]
        BY Zenon, <2>2, <2>v, <4>1
      <4> QED BY Zenon, <2>2, <4>1, <4>2
    <3>2. ASSUME NEW i \in 1 .. Len(toVc) PROVE toVc[i][2] # msg[2]
      BY Zenon, <2>2, <2>w
    <3>3. ASSUME msg[2] \in Waiters, waiterSem[msg[2]] > 0 PROVE FALSE
      BY Zenon, <2>2, <2>c, <3>3
    <3> QED BY Zenon, <3>1, <3>2, <3>3
  <2> HIDE DEF msg
  <2>5. msg[2] \in Waiters
    BY <2>3, VcAssumption DEF Waiters
  <2>6. dest[msg[2]] = msg[1] /\ vcAt[msg[1]] \in Sent /\ mine[msg[1]] = msg[2]
    BY Zenon, <2>3 DEF Asking
  <2>7. answer'[msg[1]] = msg[1] /\ \A s \in VcThreads : answer[s] = s => answer'[s] = s
    BY Zenon, <2>0, <2>1, <2>3, <2>6
  <2>8. \A w \in Waiters : w # msg[2] => waiterSem'[w] = waiterSem[w]
    BY Zenon, <2>0, <2>1
  <2>9. waiterSem'[msg[2]] = 1
    <3>1. /\ waiterSem'[msg[2]] = waiterSem[msg[2]] + 1 /\ waiterSem[msg[2]] \in Nat
          /\ ~(waiterSem[msg[2]] > 0)
      BY Zenon, <2>0, <2>1, <2>4, <2>5
    <3> QED BY <3>1
  <2>10. (\A i \in 1 .. Len(toVc) : Asking(toVc[i]))'
    BY Zenon, <2>1, <2>a DEF Asking
  <2>11. (\A i \in 1 .. Len(toHost) : toHost[i][2] # 0 /\ Asking(toHost[i]))'
    BY Zenon, <2>1, <2>s, <2>a DEF Asking
  <2>12. (\A i, j \in 1 .. Len(toHost) : toHost[i][2] = toHost[j][2] => i = j)'
    <3> SUFFICES ASSUME NEW i \in 1 .. Len(toHost'), NEW j \in 1 .. Len(toHost'), toHost'[i][2] = toHost'[j][2] PROVE i = j
      BY Zenon
    <3>a. i + 1 \in 1 .. Len(toHost) /\ toHost'[i] = toHost[i + 1] /\ j + 1 \in 1 .. Len(toHost) /\ toHost'[j] = toHost[j + 1]
      BY Zenon, <2>s
    <3>b. toHost[i + 1][2] = toHost[j + 1][2]
      BY Zenon, <3>a
    <3>1. i + 1 = j + 1
      BY Zenon, <2>v, <3>a, <3>b
    <3> QED BY <3>1
  <2>13. (\A i \in 1 .. Len(toVc), j \in 1 .. Len(toHost) : toVc[i][2] # toHost[j][2])'
    <3> SUFFICES ASSUME NEW i \in 1 .. Len(toVc'), NEW j \in 1 .. Len(toHost') PROVE toVc'[i][2] # toHost'[j][2]
      BY Zenon
    <3>1. i \in 1 .. Len(toVc) /\ toVc'[i] = toVc[i]
      BY Zenon, <2>1
    <3>2. j + 1 \in 1 .. Len(toHost) /\ toHost'[j] = toHost[j + 1]
      BY Zenon, <2>s
    <3> QED BY Zenon, <2>w, <3>1, <3>2
  <2>14. ASSUME NEW w \in Waiters, waiterSem'[w] > 0
         PROVE  /\ waiterSem'[w] = 1
                /\ \A i \in 1 .. Len(toVc') : toVc'[i][2] # w
                /\ \A i \in 1 .. Len(toHost') : toHost'[i][2] # w
                /\ \E s \in VcThreads : mine'[s] = w /\ vcAt'[s] \in Sent /\ answer'[s] = s
    <3>1. CASE w = msg[2]
      BY Zenon, <2>1, <2>3, <2>4, <2>6, <2>7, <2>9, <3>1
    <3>2. CASE w # msg[2]
      <4>1. waiterSem[w] > 0 /\ waiterSem'[w] = waiterSem[w]
        BY Zenon, <2>8, <2>14, <3>2
      <4>2. PICK s \in VcThreads : mine[s] = w /\ vcAt[s] \in Sent /\ answer[s] = s
        BY Zenon, <4>1, <2>c
      <4>3. waiterSem[w] = 1 /\ \A i \in 1 .. Len(toVc) : toVc[i][2] # w
        BY Zenon, <2>c, <4>1
      <4>4. \A i \in 1 .. Len(toHost) : toHost[i][2] # w
        BY Zenon, <2>c, <4>1
      <4>5. \A i \in 1 .. Len(toHost') : toHost'[i][2] # w
        BY Zenon, <2>s, <4>4
      <4> QED BY Zenon, <2>1, <2>7, <4>1, <4>2, <4>3, <4>5
    <3> QED BY Zenon, <3>1, <3>2
  <2>15. (\A w \in Waiters : waiterSem[w] > 0 =>
              /\ waiterSem[w] = 1
              /\ \A i \in 1 .. Len(toVc) : toVc[i][2] # w
              /\ \A i \in 1 .. Len(toHost) : toHost[i][2] # w
              /\ \E s \in VcThreads : mine[s] = w /\ vcAt[s] \in Sent /\ answer[s] = s)'
    BY Zenon, <2>14
  <2>16. (\A i, j \in 1 .. Len(toVc) : toVc[i][2] # 0 /\ toVc[i][2] = toVc[j][2] => i = j)'
    BY Zenon, <2>1, <2>u
  <2> QED BY Zenon, <2>10, <2>11, <2>12, <2>13, <2>15, <2>16 DEF RepliesInv
<1>3. ASSUME NEW t \in VcThreads, VcInit(t) PROVE RepliesInv'
  <2>1. CASE vcRefs > 0
    <3>1. /\ vcAt[t] \notin Sent /\ toVc' = toVc /\ toHost' = toHost /\ waiterSem' = waiterSem /\ dest' = dest
          /\ \A s \in VcThreads : s # t => vcAt'[s] = vcAt[s] /\ mine'[s] = mine[s] /\ answer'[s] = answer[s]
      BY Zenon, <1>3, <2>1 DEF VcInv, VcTypes, Sent, VcInit, VcGoes, setup, waitPool, channels, own
    <3> QED BY Zenon, <3>1, RepliesKept
  <2>2. CASE vcRefs = 0
    <3>1. (\A i \in 1 .. Len(toVc) : toVc[i][2] = 0) /\ toHost = <<>>
      BY Zenon, <2>2, AllOut, NoReplies
    <3>2. toVc' = toVc /\ toHost' = toHost /\ waiterSem' = [w \in Waiters |-> 0]
      BY <1>3, <2>2 DEF VcInit, channels
    <3> QED BY <3>1, <3>2 DEF RepliesInv, Asking
  <2> QED BY <2>1, <2>2 DEF VcInv, VcTypes
<1>4. ASSUME NEW t \in VcThreads, VcInitFails(t) PROVE RepliesInv'
  <2>1. /\ vcAt[t] \notin Sent /\ toVc' = toVc /\ toHost' = toHost /\ waiterSem' = waiterSem /\ dest' = dest
        /\ \A s \in VcThreads : s # t => vcAt'[s] = vcAt[s] /\ mine'[s] = mine[s] /\ answer'[s] = answer[s]
    BY Zenon, <1>4 DEF VcInv, VcTypes, Sent, VcInitFails, setup, waitPool, channels, own
  <2> QED BY Zenon, <2>1, RepliesKept
<1>5. ASSUME NEW t \in VcThreads, VcInitRelease(t) PROVE RepliesInv'
  <2>1. /\ vcAt[t] \notin Sent /\ toVc' = toVc /\ toHost' = toHost /\ waiterSem' = waiterSem /\ dest' = dest
        /\ \A s \in VcThreads : s # t => vcAt'[s] = vcAt[s] /\ mine'[s] = mine[s] /\ answer'[s] = answer[s]
    BY Zenon, <1>5 DEF VcInv, VcTypes, Sent, VcInitRelease, VcGoes, Unuse, setup, waitPool, channels, own
  <2> QED BY Zenon, <2>1, RepliesKept
<1>6. ASSUME NEW t \in VcThreads, VcUse(t) PROVE RepliesInv'
  <2>1. /\ vcAt[t] \notin Sent /\ toVc' = toVc /\ toHost' = toHost /\ waiterSem' = waiterSem /\ dest' = dest
        /\ \A s \in VcThreads : s # t => vcAt'[s] = vcAt[s] /\ mine'[s] = mine[s] /\ answer'[s] = answer[s]
    BY Zenon, <1>6 DEF VcInv, VcTypes, Sent, VcUse, VcGoes, setup, waitPool, channels, own
  <2> QED BY Zenon, <2>1, RepliesKept
<1>7. ASSUME NEW t \in VcThreads, VcRelease(t) PROVE RepliesInv'
  <2>1. /\ vcAt[t] \notin Sent /\ toVc' = toVc /\ toHost' = toHost /\ waiterSem' = waiterSem /\ dest' = dest
        /\ \A s \in VcThreads : s # t => vcAt'[s] = vcAt[s] /\ mine'[s] = mine[s] /\ answer'[s] = answer[s]
    BY Zenon, <1>7 DEF VcInv, VcTypes, Sent, VcRelease, VcGoes, Unuse, setup, waitPool, channels, own
  <2> QED BY Zenon, <2>1, RepliesKept
<1>8. ASSUME NEW t \in VcThreads, VcDeinit(t) PROVE RepliesInv'
  <2>1. CASE vcRefs > 1
    <3>1. /\ vcAt[t] \notin Sent /\ toVc' = toVc /\ toHost' = toHost /\ waiterSem' = waiterSem /\ dest' = dest
          /\ \A s \in VcThreads : s # t => vcAt'[s] = vcAt[s] /\ mine'[s] = mine[s] /\ answer'[s] = answer[s]
      BY Zenon, <1>8, <2>1 DEF VcInv, VcTypes, Sent, VcDeinit, VcGoes, setup, waitPool, channels, own
    <3> QED BY Zenon, <3>1, RepliesKept
  <2>2. CASE ~(vcRefs > 1)
    <3>1. toVc' = <<>> /\ toHost' = <<>> /\ waiterSem' = [w \in Waiters |-> 0]
      BY Zenon, <1>8, <2>2 DEF VcDeinit
    <3> QED BY <3>1 DEF RepliesInv
  <2> QED BY Zenon, <2>1, <2>2
<1>9. ASSUME NEW t \in VcThreads, NEW reply \in BOOLEAN, NEW bulk \in BOOLEAN, Call(t, reply, bulk) PROVE RepliesInv'
  <2>1. /\ vcAt[t] \notin Sent /\ toVc' = toVc /\ toHost' = toHost /\ waiterSem' = waiterSem /\ dest' = dest
        /\ \A s \in VcThreads : s # t => vcAt'[s] = vcAt[s] /\ mine'[s] = mine[s] /\ answer'[s] = answer[s]
    BY Zenon, <1>9 DEF VcInv, VcTypes, Sent, Call, VcGoes, setup, waitPool, channels, own
  <2> QED BY Zenon, <2>1, RepliesKept
<1>10. ASSUME NEW t \in VcThreads, WaiterWait(t) PROVE RepliesInv'
  <2>1. /\ vcAt[t] \notin Sent /\ toVc' = toVc /\ toHost' = toHost /\ waiterSem' = waiterSem /\ dest' = dest
        /\ \A s \in VcThreads : s # t => vcAt'[s] = vcAt[s] /\ mine'[s] = mine[s] /\ answer'[s] = answer[s]
    BY Zenon, <1>10 DEF VcInv, VcTypes, Sent, WaiterWait, VcGoes, setup, waitPool, channels, own
  <2> QED BY Zenon, <2>1, RepliesKept
<1>11. ASSUME NEW t \in VcThreads, WaiterTake(t) PROVE RepliesInv'
  <2>1. /\ vcAt[t] \notin Sent /\ toVc' = toVc /\ toHost' = toHost /\ waiterSem' = waiterSem /\ dest' = dest
        /\ \A s \in VcThreads : s # t => vcAt'[s] = vcAt[s] /\ mine'[s] = mine[s] /\ answer'[s] = answer[s]
    BY Zenon, <1>11 DEF VcInv, VcTypes, Sent, WaiterTake, VcGoes, setup, waitPool, channels, own
  <2> QED BY Zenon, <2>1, RepliesKept
<1>12. ASSUME NEW t \in VcThreads, Send(t) PROVE RepliesInv'
  <2> DEFINE msg == <<t, mine[t], isBulk[t]>>
  <2>1. /\ vcAt[t] = "send" /\ toVc' = Append(toVc, msg) /\ toHost' = toHost /\ waiterSem' = waiterSem
        /\ \A s \in VcThreads : s # t => vcAt'[s] = vcAt[s] /\ mine'[s] = mine[s] /\ answer'[s] = answer[s]
    BY Zenon, <1>12 DEF VcInv, VcTypes, Send, VcGoes, Back, own
  <2>0. PICK n \in Nat : n = Len(toVc) + 1
    BY DEF VcInv, VcTypes
  <2>u. \A i, j \in 1 .. Len(toVc) : toVc[i][2] # 0 /\ toVc[i][2] = toVc[j][2] => i = j
    BY Zenon DEF VcInv, RepliesInv
  <2>v. \A i, j \in 1 .. Len(toHost) : toHost[i][2] = toHost[j][2] => i = j
    BY Zenon DEF VcInv, RepliesInv
  <2>w. \A i \in 1 .. Len(toVc), j \in 1 .. Len(toHost) : toVc[i][2] # toHost[j][2]
    BY Zenon DEF VcInv, RepliesInv
  <2>c. \A w \in Waiters : waiterSem[w] > 0 =>
              /\ waiterSem[w] = 1
              /\ \A i \in 1 .. Len(toVc) : toVc[i][2] # w
              /\ \A i \in 1 .. Len(toHost) : toHost[i][2] # w
              /\ \E s \in VcThreads : mine[s] = w /\ vcAt[s] \in Sent /\ answer[s] = s
    BY Zenon DEF VcInv, RepliesInv
  <2>2. /\ Len(toVc') = n /\ Len(toVc) \in Nat /\ n = Len(toVc) + 1 /\ toVc'[n] = msg
        /\ \A i \in 1 .. Len(toVc) : toVc'[i] = toVc[i]
    BY <2>0, <2>1 DEF VcInv, VcTypes
  <2>3. msg[1] = t /\ msg[2] = mine[t]
    BY Zenon
  <2>4. ASSUME NEW s \in VcThreads, vcAt[s] \in Sent, mine[s] # 0
        PROVE  s # t /\ vcAt'[s] = vcAt[s] /\ mine'[s] = mine[s] /\ answer'[s] = answer[s] /\ dest'[mine[s]] = dest[mine[s]]
    <3>1. s # t
      BY Zenon, <2>1, <2>4 DEF Sent
    <3>2. CASE mine[t] = 0
      BY Zenon, <1>12, <2>1, <3>1, <3>2 DEF Send
    <3>3. CASE mine[t] # 0
      <4>1. mine[s] # mine[t]
        BY Zenon, <2>1, <2>4, <3>3, FreshWaiter
      <4>2. dest' = [dest EXCEPT ![mine[t]] = t]
        BY Zenon, <1>12, <3>3 DEF Send
      <4> QED BY <2>1, <2>4, <3>1, <4>1, <4>2, VcAssumption DEF VcInv, VcTypes, Waiters
    <3> QED BY Zenon, <3>2, <3>3
  <2>5. ASSUME NEW i \in 1 .. Len(toVc) PROVE Asking(toVc[i])'
    <3>1. toVc[i][1] \in VcThreads /\ Asking(toVc[i]) /\ toVc'[i] = toVc[i]
      BY Zenon, <2>2, Spoken
    <3> QED BY <2>4, <3>1 DEF Asking
  <2>6. ASSUME NEW i \in 1 .. Len(toHost) PROVE toHost[i][2] # 0 /\ Asking(toHost[i])'
    <3>1. toHost[i][1] \in VcThreads /\ toHost[i][2] # 0 /\ Asking(toHost[i])
      BY Zenon, Spoken
    <3> QED BY Zenon, <2>1, <2>4, <3>1 DEF Asking
  <2>7. ASSUME NEW w \in Waiters, waiterSem[w] > 0
        PROVE  \E s \in VcThreads : mine'[s] = w /\ vcAt'[s] \in Sent /\ answer'[s] = s
    <3>1. PICK s \in VcThreads : mine[s] = w /\ vcAt[s] \in Sent /\ answer[s] = s
      BY Zenon, <2>7 DEF VcInv, RepliesInv
    <3> QED BY <2>4, <3>1, VcAssumption DEF Waiters
  <2>8. CASE mine[t] = 0
    <3>1. Asking(toVc[n])'
      BY Zenon, <2>2, <2>3, <2>8 DEF Asking
    <3> HIDE DEF msg
    <3>2. /\ \A i \in 1 .. Len(toVc') : i \in 1 .. Len(toVc) \/ i = n
          /\ \A w \in Waiters : w # 0
      BY <2>2, VcAssumption DEF Waiters
    <3>3. toVc'[n][2] = 0
      BY Zenon, <2>2, <2>3, <2>8
    <3>4. (\A i \in 1 .. Len(toVc) : Asking(toVc[i]))'
      BY Zenon, <2>5, <3>1, <3>2
    <3>5. (\A i, j \in 1 .. Len(toVc) : toVc[i][2] # 0 /\ toVc[i][2] = toVc[j][2] => i = j)'
      <4> SUFFICES ASSUME NEW i \in 1 .. Len(toVc'), NEW j \in 1 .. Len(toVc'),
                          toVc'[i][2] # 0, toVc'[i][2] = toVc'[j][2]
                   PROVE  i = j
        OBVIOUS
      <4>1. i \in 1 .. Len(toVc) /\ j \in 1 .. Len(toVc)
        BY Zenon, <3>2, <3>3
      <4>2. toVc'[i] = toVc[i] /\ toVc'[j] = toVc[j]
        BY Zenon, <2>2, <4>1
      <4> QED BY Zenon, <2>u, <4>1, <4>2
    <3>6. (\A i \in 1 .. Len(toVc), j \in 1 .. Len(toHost) : toVc[i][2] # toHost[j][2])'
      <4> SUFFICES ASSUME NEW i \in 1 .. Len(toVc'), NEW j \in 1 .. Len(toHost)
                   PROVE  toVc'[i][2] # toHost[j][2]
        BY Zenon, <2>1
      <4>1. CASE i = n
        BY Zenon, <2>6, <3>3, <4>1
      <4>2. CASE i \in 1 .. Len(toVc)
        BY Zenon, <2>2, <2>w, <4>2
      <4> QED BY Zenon, <3>2, <4>1, <4>2
    <3>7. (\A w \in Waiters : waiterSem[w] > 0 =>
              /\ waiterSem[w] = 1
              /\ \A i \in 1 .. Len(toVc) : toVc[i][2] # w
              /\ \A i \in 1 .. Len(toHost) : toHost[i][2] # w
              /\ \E s \in VcThreads : mine[s] = w /\ vcAt[s] \in Sent /\ answer[s] = s)'
      <4> SUFFICES ASSUME NEW w \in Waiters, waiterSem[w] > 0
                   PROVE  /\ waiterSem[w] = 1
                          /\ \A i \in 1 .. Len(toVc') : toVc'[i][2] # w
                          /\ \A i \in 1 .. Len(toHost) : toHost[i][2] # w
                          /\ \E s \in VcThreads : mine'[s] = w /\ vcAt'[s] \in Sent /\ answer'[s] = s
        BY Zenon, <2>1
      <4>1. ASSUME NEW i \in 1 .. Len(toVc') PROVE toVc'[i][2] # w
        <5>1. CASE i = n
          BY Zenon, <3>2, <3>3, <5>1
        <5>2. CASE i \in 1 .. Len(toVc)
          BY Zenon, <2>2, <2>c, <5>2
        <5> QED BY Zenon, <3>2, <5>1, <5>2
      <4> QED BY Zenon, <2>7, <2>c, <4>1
    <3>8. (\A i, j \in 1 .. Len(toHost) : toHost[i][2] = toHost[j][2] => i = j)'
      BY Zenon, <2>1, <2>v
    <3>9. (\A i \in 1 .. Len(toHost) : toHost[i][2] # 0 /\ Asking(toHost[i]))'
      BY Zenon, <2>1, <2>6
    <3> QED BY Zenon, <3>4, <3>5, <3>6, <3>7, <3>8, <3>9 DEF RepliesInv
  <2>9. CASE mine[t] # 0
    <3>1. /\ mine[t] \in Waiters /\ waiterSem[mine[t]] = 0
          /\ \A i \in 1 .. Len(toVc) : toVc[i][2] # mine[t]
          /\ \A i \in 1 .. Len(toHost) : toHost[i][2] # mine[t]
      BY Zenon, <2>1, <2>9, FreshWaiter
    <3>2. vcAt'[t] \in Sent /\ mine'[t] = mine[t] /\ dest'[mine[t]] = t
      BY Zenon, <1>12, <2>9, <3>1 DEF VcInv, VcTypes, Send, VcGoes, own, Sent
    <3>3. Asking(toVc[n])'
      BY Zenon, <2>2, <2>3, <3>2 DEF Asking
    <3> HIDE DEF msg
    <3>4. \A i \in 1 .. Len(toVc') : i \in 1 .. Len(toVc) \/ i = n
      BY <2>2
    <3>5. toVc'[n][2] = mine[t]
      BY Zenon, <2>2, <2>3
    <3>6. (\A i \in 1 .. Len(toVc) : Asking(toVc[i]))'
      BY Zenon, <2>5, <3>3, <3>4
    <3>7. (\A i, j \in 1 .. Len(toVc) : toVc[i][2] # 0 /\ toVc[i][2] = toVc[j][2] => i = j)'
      <4> SUFFICES ASSUME NEW i \in 1 .. Len(toVc'), NEW j \in 1 .. Len(toVc'),
                          toVc'[i][2] # 0, toVc'[i][2] = toVc'[j][2]
                   PROVE  i = j
        OBVIOUS
      <4>1. CASE i = n
        <5>1. j \notin 1 .. Len(toVc)
          BY Zenon, <2>2, <3>1, <3>5, <4>1
        <5> QED BY Zenon, <3>4, <4>1, <5>1
      <4>2. CASE i \in 1 .. Len(toVc)
        <5>1. j # n
          BY Zenon, <2>2, <3>1, <3>5, <4>2
        <5>2. j \in 1 .. Len(toVc)
          BY Zenon, <3>4, <5>1
        <5>3. toVc'[i] = toVc[i] /\ toVc'[j] = toVc[j]
          BY Zenon, <2>2, <4>2, <5>2
        <5> QED BY Zenon, <2>u, <4>2, <5>2, <5>3
      <4> QED BY Zenon, <3>4, <4>1, <4>2
    <3>8. (\A i \in 1 .. Len(toVc), j \in 1 .. Len(toHost) : toVc[i][2] # toHost[j][2])'
      <4> SUFFICES ASSUME NEW i \in 1 .. Len(toVc'), NEW j \in 1 .. Len(toHost)
                   PROVE  toVc'[i][2] # toHost[j][2]
        BY Zenon, <2>1
      <4>1. CASE i = n
        BY Zenon, <3>1, <3>5, <4>1
      <4>2. CASE i \in 1 .. Len(toVc)
        BY Zenon, <2>2, <2>w, <4>2
      <4> QED BY Zenon, <3>4, <4>1, <4>2
    <3>9. (\A w \in Waiters : waiterSem[w] > 0 =>
              /\ waiterSem[w] = 1
              /\ \A i \in 1 .. Len(toVc) : toVc[i][2] # w
              /\ \A i \in 1 .. Len(toHost) : toHost[i][2] # w
              /\ \E s \in VcThreads : mine[s] = w /\ vcAt[s] \in Sent /\ answer[s] = s)'
      <4>0. ~(waiterSem[mine[t]] > 0)
        BY <3>1
      <4> SUFFICES ASSUME NEW w \in Waiters, waiterSem[w] > 0
                   PROVE  /\ waiterSem[w] = 1
                          /\ \A i \in 1 .. Len(toVc') : toVc'[i][2] # w
                          /\ \A i \in 1 .. Len(toHost) : toHost[i][2] # w
                          /\ \E s \in VcThreads : mine'[s] = w /\ vcAt'[s] \in Sent /\ answer'[s] = s
        BY Zenon, <2>1
      <4>2. w # mine[t]
        BY Zenon, <4>0
      <4>1. ASSUME NEW i \in 1 .. Len(toVc') PROVE toVc'[i][2] # w
        BY Zenon, <2>2, <2>c, <3>4, <3>5, <4>2
      <4> QED BY Zenon, <2>7, <2>c, <4>1
    <3> QED BY Zenon, <2>1, <2>6, <3>6, <3>7, <3>8, <3>9 DEF VcInv, RepliesInv
  <2> QED BY Zenon, <2>8, <2>9
<1>13. ASSUME NEW t \in VcThreads, SendMsgFails(t) PROVE RepliesInv'
  <2>1. /\ vcAt[t] = "send" /\ toVc' = toVc /\ toHost' = toHost /\ waiterSem' = waiterSem
        /\ \A s \in VcThreads : s # t => vcAt'[s] = vcAt[s] /\ mine'[s] = mine[s] /\ answer'[s] = answer[s]
    BY Zenon, <1>13 DEF VcInv, VcTypes, SendMsgFails, VcGoes, Use, Back, setup, waitPool, channels, own
  <2>2. ASSUME NEW s \in VcThreads, vcAt[s] \in Sent, mine[s] # 0 PROVE dest'[mine[s]] = dest[mine[s]]
    <3>1. CASE mine[t] = 0
      BY Zenon, <1>13, <3>1 DEF SendMsgFails
    <3>2. CASE mine[t] # 0
      <4>1. mine[s] # mine[t]
        BY Zenon, <2>1, <2>2, <3>2, FreshWaiter
      <4>2. dest' = [dest EXCEPT ![mine[t]] = t]
        BY Zenon, <1>13, <3>2 DEF SendMsgFails
      <4> QED BY <2>2, <4>1, <4>2, VcAssumption DEF VcInv, VcTypes, Waiters
    <3> QED BY Zenon, <3>1, <3>2
  <2> QED BY Zenon, <2>1, <2>2, RepliesKept DEF Sent
<1>14. ASSUME NEW t \in VcThreads, SendBulk(t) PROVE RepliesInv'
  <2>1. /\ vcAt[t] = "bulk" /\ toVc' = toVc /\ toHost' = toHost /\ waiterSem' = waiterSem /\ dest' = dest
        /\ \A s \in VcThreads : s # t => vcAt'[s] = vcAt[s] /\ mine'[s] = mine[s] /\ answer'[s] = answer[s]
        /\ mine[t] # 0 => vcAt'[t] = "await" /\ mine'[t] = mine[t] /\ answer'[t] = answer[t]
    BY Zenon, <1>14 DEF VcInv, VcTypes, SendBulk, VcGoes, Back, setup, waitPool, channels, own
  <2>2. \A s \in VcThreads : mine[s] # 0 /\ vcAt[s] \in Sent => vcAt'[s] \in Sent /\ mine'[s] = mine[s] /\ answer'[s] = answer[s]
    BY Zenon, <2>1 DEF Sent
  <2>3. ASSUME NEW i \in 1 .. Len(toVc) PROVE Asking(toVc[i])'
    <3>1. toVc[i][1] \in VcThreads /\ Asking(toVc[i])
      BY Zenon, Spoken
    <3> QED BY Zenon, <2>1, <2>2, <3>1 DEF Asking
  <2>4. ASSUME NEW i \in 1 .. Len(toHost) PROVE (toHost[i][2] # 0 /\ Asking(toHost[i]))'
    <3>1. toHost[i][1] \in VcThreads /\ toHost[i][2] # 0 /\ Asking(toHost[i])
      BY Zenon, Spoken
    <3> QED BY Zenon, <2>1, <2>2, <3>1 DEF Asking
  <2>5. ASSUME NEW w \in Waiters, waiterSem[w] > 0
        PROVE  \E s \in VcThreads : mine'[s] = w /\ vcAt'[s] \in Sent /\ answer'[s] = s
    <3>1. PICK s \in VcThreads : mine[s] = w /\ vcAt[s] \in Sent /\ answer[s] = s
      BY Zenon, <2>5 DEF VcInv, RepliesInv
    <3> QED BY <2>2, <3>1, VcAssumption DEF Waiters
  <2>8. /\ \A i, j \in 1 .. Len(toVc) : toVc[i][2] # 0 /\ toVc[i][2] = toVc[j][2] => i = j
        /\ \A i, j \in 1 .. Len(toHost) : toHost[i][2] = toHost[j][2] => i = j
        /\ \A i \in 1 .. Len(toVc), j \in 1 .. Len(toHost) : toVc[i][2] # toHost[j][2]
        /\ \A w \in Waiters : waiterSem[w] > 0 => /\ waiterSem[w] = 1
                                                  /\ \A i \in 1 .. Len(toVc) : toVc[i][2] # w
                                                  /\ \A i \in 1 .. Len(toHost) : toHost[i][2] # w
    BY Zenon DEF VcInv, RepliesInv
  <2> QED BY <2>1, <2>3, <2>4, <2>5, <2>8 DEF RepliesInv
<1>15. ASSUME NEW t \in VcThreads, Answered(t) PROVE RepliesInv'
  <2>1. /\ vcAt[t] = "await" /\ toVc' = toVc /\ toHost' = toHost /\ dest' = dest /\ mine' = mine /\ answer' = answer
        /\ \A s \in VcThreads : s # t => vcAt'[s] = vcAt[s]
    BY Zenon, <1>15 DEF VcInv, VcTypes, Answered, VcGoes, Unuse, setup, waitPool, channels, own
  <2>2. mine[t] \in Waiters /\ waiterSem[mine[t]] > 0
    BY Zenon, <1>15, VcAssumption DEF VcInv, VcTypes, WaitersInv, Waiters, Answered, VcGoes
  <2>3. /\ \A i \in 1 .. Len(toVc) : toVc[i][2] # mine[t]
        /\ \A i \in 1 .. Len(toHost) : toHost[i][2] # mine[t]
        /\ waiterSem[mine[t]] = 1
    BY Zenon, <2>2 DEF VcInv, RepliesInv
  <2>4. waiterSem'[mine[t]] = 0 /\ \A w \in Waiters : w # mine[t] => waiterSem'[w] = waiterSem[w]
    BY <1>15, <2>2, <2>3 DEF VcInv, VcTypes, Answered
  <2>5. ASSUME NEW i \in 1 .. Len(toVc) PROVE Asking(toVc[i])'
    <3>1. toVc[i][1] \in VcThreads /\ Asking(toVc[i])
      BY Zenon, Spoken
    <3> QED BY Zenon, <2>1, <2>3, <3>1 DEF Asking
  <2>6. ASSUME NEW i \in 1 .. Len(toHost) PROVE (toHost[i][2] # 0 /\ Asking(toHost[i]))'
    <3>1. toHost[i][1] \in VcThreads /\ toHost[i][2] # 0 /\ Asking(toHost[i])
      BY Zenon, Spoken
    <3> QED BY Zenon, <2>1, <2>3, <3>1 DEF Asking
  <2>7. ASSUME NEW w \in Waiters, waiterSem'[w] > 0
        PROVE  waiterSem'[w] = waiterSem[w] /\ \E s \in VcThreads : mine'[s] = w /\ vcAt'[s] \in Sent /\ answer'[s] = s
    <3>1. w # mine[t] /\ waiterSem'[w] = waiterSem[w]
      BY <2>4, <2>7
    <3>2. PICK s \in VcThreads : mine[s] = w /\ vcAt[s] \in Sent /\ answer[s] = s
      BY Zenon, <2>7, <3>1 DEF VcInv, RepliesInv
    <3>3. s # t
      BY Zenon, <3>1, <3>2
    <3> QED BY Zenon, <2>1, <3>1, <3>2, <3>3
  <2>8. /\ \A i, j \in 1 .. Len(toVc) : toVc[i][2] # 0 /\ toVc[i][2] = toVc[j][2] => i = j
        /\ \A i, j \in 1 .. Len(toHost) : toHost[i][2] = toHost[j][2] => i = j
        /\ \A i \in 1 .. Len(toVc), j \in 1 .. Len(toHost) : toVc[i][2] # toHost[j][2]
        /\ \A w \in Waiters : waiterSem[w] > 0 => /\ waiterSem[w] = 1
                                                  /\ \A i \in 1 .. Len(toVc) : toVc[i][2] # w
                                                  /\ \A i \in 1 .. Len(toHost) : toHost[i][2] # w
    BY Zenon DEF VcInv, RepliesInv
  <2> QED BY <2>1, <2>5, <2>6, <2>7, <2>8 DEF RepliesInv
<1>16. ASSUME NEW t \in VcThreads, Unsent(t) PROVE RepliesInv'
  <2>1. /\ vcAt[t] \notin Sent /\ toVc' = toVc /\ toHost' = toHost /\ waiterSem' = waiterSem /\ dest' = dest
        /\ \A s \in VcThreads : s # t => vcAt'[s] = vcAt[s] /\ mine'[s] = mine[s] /\ answer'[s] = answer[s]
    BY Zenon, <1>16 DEF VcInv, VcTypes, Sent, Unsent, VcGoes, Unuse, setup, waitPool, channels, own
  <2> QED BY Zenon, <2>1, RepliesKept
<1>17. ASSUME NEW t \in VcThreads, ReleaseWaiter(t) PROVE RepliesInv'
  <2>1. /\ vcAt[t] \notin Sent /\ toVc' = toVc /\ toHost' = toHost /\ waiterSem' = waiterSem /\ dest' = dest
        /\ \A s \in VcThreads : s # t => vcAt'[s] = vcAt[s] /\ mine'[s] = mine[s] /\ answer'[s] = answer[s]
    BY Zenon, <1>17 DEF VcInv, VcTypes, Sent, ReleaseWaiter, VcGoes, setup, waitPool, channels, own
  <2> QED BY Zenon, <2>1, RepliesKept
<1>18. ASSUME NEW t \in VcThreads, PostWaiter(t) PROVE RepliesInv'
  <2>1. /\ vcAt[t] \notin Sent /\ toVc' = toVc /\ toHost' = toHost /\ waiterSem' = waiterSem /\ dest' = dest
        /\ \A s \in VcThreads : s # t => vcAt'[s] = vcAt[s] /\ mine'[s] = mine[s] /\ answer'[s] = answer[s]
    BY Zenon, <1>18 DEF VcInv, VcTypes, Sent, PostWaiter, VcGoes, Back, setup, waitPool, channels, own
  <2> QED BY Zenon, <2>1, RepliesKept
<1>19. CASE UNCHANGED vcClientVars
  <2>1. vcAt' = vcAt /\ mine' = mine /\ answer' = answer /\ dest' = dest /\ waiterSem' = waiterSem /\ toVc' = toVc /\ toHost' = toHost
    BY Zenon, <1>19 DEF vcClientVars
  <2>2. RepliesInv
    BY Zenon DEF VcInv
  <2> QED BY <2>1, <2>2 DEF RepliesInv, Asking
<1> QED BY Zenon, <1>1, <1>2, <1>3, <1>4, <1>5, <1>6, <1>7, <1>8, <1>9, <1>10, <1>11, <1>12, <1>13, <1>14, <1>15,
    <1>16, <1>17, <1>18, <1>19 DEF VcClientNext, VcStep

\* bulk_lock is taken by one call and given back by it.
LEMMA LockStep ==
    ASSUME VcInv, [VcClientNext]_vcClientVars
    PROVE  LockInv'
<1>1. CASE VcHandles
  BY Zenon, <1>1, VcAssumption DEF VcInv, VcTypes, LockInv, VcHandles, setup, waitPool, channels, own
<1>2. CASE Callback
  BY Zenon, <1>2, VcAssumption DEF VcInv, VcTypes, LockInv, Callback, setup, waitPool, channels, own
<1>3. ASSUME NEW t \in VcThreads, VcInit(t) PROVE LockInv'
  BY <1>3, VcAssumption DEF VcInv, VcTypes, LockInv, VcInit, VcGoes, setup, waitPool, channels, own
<1>4. ASSUME NEW t \in VcThreads, VcInitFails(t) PROVE LockInv'
  BY Zenon, <1>4, VcAssumption DEF VcInv, VcTypes, LockInv, VcInitFails, setup, waitPool, channels, own
<1>5. ASSUME NEW t \in VcThreads, VcInitRelease(t) PROVE LockInv'
  BY Zenon, <1>5, VcAssumption DEF VcInv, VcTypes, LockInv, VcInitRelease, VcGoes, Unuse, setup, waitPool, channels, own
<1>6. ASSUME NEW t \in VcThreads, VcUse(t) PROVE LockInv'
  BY Zenon, <1>6, VcAssumption DEF VcInv, VcTypes, LockInv, VcUse, VcGoes, setup, waitPool, channels, own
<1>7. ASSUME NEW t \in VcThreads, VcRelease(t) PROVE LockInv'
  BY Zenon, <1>7, VcAssumption DEF VcInv, VcTypes, LockInv, VcRelease, VcGoes, Unuse, setup, waitPool, channels, own
<1>8. ASSUME NEW t \in VcThreads, VcDeinit(t) PROVE LockInv'
  BY Zenon, <1>8, VcAssumption DEF VcInv, VcTypes, LockInv, VcDeinit, VcGoes, setup, waitPool, channels, own
<1>9. ASSUME NEW t \in VcThreads, NEW reply \in BOOLEAN, NEW bulk \in BOOLEAN, Call(t, reply, bulk) PROVE LockInv'
  BY Zenon, <1>9, VcAssumption DEF VcInv, VcTypes, LockInv, Call, VcGoes, setup, waitPool, channels, own
<1>10. ASSUME NEW t \in VcThreads, WaiterWait(t) PROVE LockInv'
  BY Zenon, <1>10, VcAssumption DEF VcInv, VcTypes, LockInv, WaiterWait, VcGoes, setup, waitPool, channels, own
<1>11. ASSUME NEW t \in VcThreads, WaiterTake(t) PROVE LockInv'
  BY <1>11, VcAssumption DEF VcInv, VcTypes, LockInv, WaiterTake, VcGoes, setup, waitPool, channels, own
<1>12. ASSUME NEW t \in VcThreads, Send(t) PROVE LockInv'
  BY Zenon, <1>12, VcAssumption DEF VcInv, VcTypes, LockInv, Send, VcGoes, Use, Back, setup, waitPool, channels, own
<1>13. ASSUME NEW t \in VcThreads, SendMsgFails(t) PROVE LockInv'
  BY Zenon, <1>13, VcAssumption DEF VcInv, VcTypes, LockInv, SendMsgFails, VcGoes, Use, Back, setup, waitPool,
      channels, own
<1>14. ASSUME NEW t \in VcThreads, SendBulk(t) PROVE LockInv'
  BY Zenon, <1>14, VcAssumption DEF VcInv, VcTypes, LockInv, SendBulk, VcGoes, Back, setup, waitPool, channels, own
<1>15. ASSUME NEW t \in VcThreads, Answered(t) PROVE LockInv'
  BY Zenon, <1>15, VcAssumption DEF VcInv, VcTypes, LockInv, Answered, VcGoes, Unuse, setup, waitPool, channels, own
<1>16. ASSUME NEW t \in VcThreads, Unsent(t) PROVE LockInv'
  BY Zenon, <1>16, VcAssumption DEF VcInv, VcTypes, LockInv, Unsent, VcGoes, Unuse, setup, waitPool, channels, own
<1>17. ASSUME NEW t \in VcThreads, ReleaseWaiter(t) PROVE LockInv'
  BY Zenon, <1>17, VcAssumption DEF VcInv, VcTypes, LockInv, ReleaseWaiter, VcGoes, setup, waitPool, channels, own
<1>18. ASSUME NEW t \in VcThreads, PostWaiter(t) PROVE LockInv'
  BY Zenon, <1>18, VcAssumption DEF VcInv, VcTypes, LockInv, PostWaiter, VcGoes, Back, setup, waitPool, channels, own
<1>19. CASE UNCHANGED vcClientVars
  BY Zenon, <1>19 DEF VcInv, VcTypes, LockInv, vcClientVars
<1> QED BY Zenon, <1>1, <1>2, <1>3, <1>4, <1>5, <1>6, <1>7, <1>8, <1>9, <1>10, <1>11, <1>12, <1>13, <1>14, <1>15,
    <1>16, <1>17, <1>18, <1>19 DEF VcClientNext, VcStep

\* A step that neither sends nor takes a message or a transfer leaves their order.
LEMMA BulkKept ==
    ASSUME VcInv, toVc' = toVc, bulkTo' = bulkTo, mixedUp' = mixedUp,
           \A s \in VcThreads : vcAt'[s] = "bulk" <=> vcAt[s] = "bulk",
           (\E s \in VcThreads : vcAt[s] = "bulk") => bulkLock' = bulkLock
    PROVE  BulkInv'
<1>1. Owed' = Owed
  BY Zenon DEF Owed
<1> QED BY Zenon, <1>1 DEF VcInv, BulkInv, BulkPaired

\* A thread that has bulk_lock before its message is sent keeps the others from sending a transfer.
LEMMA NoneSending ==
    ASSUME VcInv, NEW t \in VcThreads, isBulk[t], vcAt[t] = "send"
    PROVE  bulkLock = t /\ \A s \in VcThreads : vcAt[s] # "bulk"
BY Zenon DEF VcInv, LockInv

\* What is owed is a sequence of threads.
LEMMA OwedType == VcInv => Owed \in Seq(VcThreads)
<1>1. ASSUME VcInv, NEW t \in VcThreads, vcAt[t] = "bulk" PROVE bulkLock \in VcThreads
  BY Zenon, <1>1 DEF VcInv, LockInv
<1> QED BY <1>1 DEF Owed, VcInv, VcTypes

\* The order of the messages that announce a transfer is that of the transfers.
LEMMA BulkStep ==
    ASSUME VcInv, [VcClientNext]_vcClientVars
    PROVE  BulkInv'
<1>1. CASE VcHandles
  <2> DEFINE Kinds == VcThreads \X (0 .. MaxWaiters) \X BOOLEAN
  <2>1. toVc \in Seq(Kinds) /\ toVc # <<>> /\ toVc' = Tail(toVc) /\ vcAt' = vcAt /\ bulkLock' = bulkLock
    BY Zenon, <1>1 DEF VcInv, VcTypes, VcHandles
  <2>2. Announced(toVc, Owed) /\ Owed \in Seq(VcThreads) /\ BulkPaired /\ bulkTo \in Seq(VcThreads)
    BY Zenon, OwedType DEF VcInv, VcTypes, BulkInv
  <2> HIDE DEF Kinds
  <2>3. CASE Head(toVc)[3]
    <3>1. Head(Owed) = Head(toVc)[1] /\ Announced(Tail(toVc), Tail(Owed))
      BY Zenon, <2>1, <2>2, <2>3, TakeOne
    <3>2. bulkTo # <<>> /\ bulkTo' = Tail(bulkTo) /\ (mixedUp' <=> mixedUp \/ Head(bulkTo) # Head(toVc)[1])
      BY Zenon, <1>1, <2>3 DEF VcHandles
    <3>3. Head(Owed) = Head(bulkTo) /\ Owed' = Tail(Owed)
      <4>1. CASE \E s \in VcThreads : vcAt[s] = "bulk"
        <5>1. Owed = Append(bulkTo, bulkLock) /\ Owed' = Append(Tail(bulkTo), bulkLock) /\ bulkLock \in VcThreads
          BY Zenon, <4>1, <2>1, <3>2 DEF Owed, VcInv, LockInv
        <5> QED BY <5>1, <3>2, <2>2
      <4>2. CASE ~\E s \in VcThreads : vcAt[s] = "bulk"
        BY Zenon, <4>2, <2>1, <3>2 DEF Owed
      <4> QED BY Zenon, <4>1, <4>2
    <3>4. ~mixedUp'
      BY Zenon, <2>2, <3>1, <3>2, <3>3 DEF BulkPaired
    <3> QED BY Zenon, <2>1, <3>1, <3>3, <3>4 DEF BulkInv, BulkPaired
  <2>4. CASE ~Head(toVc)[3]
    <3>1. bulkTo' = bulkTo /\ mixedUp' = mixedUp
      BY Zenon, <1>1, <2>4 DEF VcHandles
    <3>2. Owed' = Owed
      BY Zenon, <2>1, <3>1 DEF Owed
    <3>3. Announced(Tail(toVc), Owed)
      BY Zenon, <2>1, <2>2, <2>4, TakeNone
    <3> QED BY Zenon, <2>1, <2>2, <3>1, <3>2, <3>3 DEF BulkInv, BulkPaired
  <2> QED BY Zenon, <2>3, <2>4
<1>2. CASE Callback
  <2>1. /\ toVc' = toVc /\ bulkTo' = bulkTo /\ mixedUp' = mixedUp /\ bulkLock' = bulkLock
        /\ \A s \in VcThreads : vcAt'[s] = "bulk" <=> vcAt[s] = "bulk"
    BY Zenon, <1>2 DEF VcInv, VcTypes, Callback, setup, waitPool, channels, own
  <2> QED BY Zenon, <2>1, BulkKept
<1>3. ASSUME NEW t \in VcThreads, VcInit(t) PROVE BulkInv'
  <2>1. /\ toVc' = toVc /\ bulkTo' = bulkTo /\ mixedUp' = mixedUp /\ bulkLock' = bulkLock
        /\ \A s \in VcThreads : vcAt'[s] = "bulk" <=> vcAt[s] = "bulk"
    BY Zenon, <1>3 DEF VcInv, VcTypes, VcInit, VcGoes, setup, waitPool, channels, own
  <2> QED BY Zenon, <2>1, BulkKept
<1>4. ASSUME NEW t \in VcThreads, VcInitFails(t) PROVE BulkInv'
  <2>1. /\ toVc' = toVc /\ bulkTo' = bulkTo /\ mixedUp' = mixedUp /\ bulkLock' = bulkLock
        /\ \A s \in VcThreads : vcAt'[s] = "bulk" <=> vcAt[s] = "bulk"
    BY Zenon, <1>4 DEF VcInv, VcTypes, VcInitFails, setup, waitPool, channels, own
  <2> QED BY Zenon, <2>1, BulkKept
<1>5. ASSUME NEW t \in VcThreads, VcInitRelease(t) PROVE BulkInv'
  <2>1. /\ toVc' = toVc /\ bulkTo' = bulkTo /\ mixedUp' = mixedUp /\ bulkLock' = bulkLock
        /\ \A s \in VcThreads : vcAt'[s] = "bulk" <=> vcAt[s] = "bulk"
    BY Zenon, <1>5 DEF VcInv, VcTypes, VcInitRelease, VcGoes, Unuse, setup, waitPool, channels, own
  <2> QED BY Zenon, <2>1, BulkKept
<1>6. ASSUME NEW t \in VcThreads, VcUse(t) PROVE BulkInv'
  <2>1. /\ toVc' = toVc /\ bulkTo' = bulkTo /\ mixedUp' = mixedUp /\ bulkLock' = bulkLock
        /\ \A s \in VcThreads : vcAt'[s] = "bulk" <=> vcAt[s] = "bulk"
    BY Zenon, <1>6 DEF VcInv, VcTypes, VcUse, VcGoes, setup, waitPool, channels, own
  <2> QED BY Zenon, <2>1, BulkKept
<1>7. ASSUME NEW t \in VcThreads, VcRelease(t) PROVE BulkInv'
  <2>1. /\ toVc' = toVc /\ bulkTo' = bulkTo /\ mixedUp' = mixedUp /\ bulkLock' = bulkLock
        /\ \A s \in VcThreads : vcAt'[s] = "bulk" <=> vcAt[s] = "bulk"
    BY Zenon, <1>7 DEF VcInv, VcTypes, VcRelease, VcGoes, Unuse, setup, waitPool, channels, own
  <2> QED BY Zenon, <2>1, BulkKept
<1>8. ASSUME NEW t \in VcThreads, VcDeinit(t) PROVE BulkInv'
  <2>1. CASE vcRefs > 1
    <3>1. /\ toVc' = toVc /\ bulkTo' = bulkTo /\ mixedUp' = mixedUp /\ bulkLock' = bulkLock
          /\ \A s \in VcThreads : vcAt'[s] = "bulk" <=> vcAt[s] = "bulk"
      BY Zenon, <1>8, <2>1 DEF VcInv, VcTypes, VcDeinit, VcGoes, setup, waitPool, channels, own
    <3> QED BY Zenon, <3>1, BulkKept
  <2>2. CASE ~(vcRefs > 1)
    <3>1. \A s \in VcThreads : vcAt'[s] # "bulk"
      <4>1. vcAt[t] = "ready" /\ vcAt' = [vcAt EXCEPT ![t] = "out"] /\ vcAt \in [VcThreads -> VcPlaces]
        BY Zenon, <1>8 DEF VcInv, VcTypes, VcDeinit, VcGoes
      <4>2. vcRefs \in Nat /\ (vcRefs <= 1 => \A s \in VcThreads : s # t => vcAt[s] = "out" /\ mine[s] = 0)
        BY Zenon, <4>1, LastIn
      <4>3. vcRefs <= 1
        BY <2>2, <4>2
      <4> QED BY Zenon, <4>1, <4>2, <4>3
    <3>2. toVc' = <<>> /\ bulkTo' = <<>> /\ mixedUp' = mixedUp
      BY Zenon, <1>8, <2>2 DEF VcDeinit
    <3>3. Owed' = <<>>
      BY Zenon, <3>1, <3>2 DEF Owed
    <3>4. Announced(<<>>, <<>>)
      <4>1. Places([k \in 1 .. 0 |-> 0], <<>>, <<>>)
        BY DEF Places
      <4>2. [k \in 1 .. 0 |-> 0] \in [1 .. Len(<<>>) -> Nat]
        BY Zenon
      <4> QED BY Zenon, <4>1, <4>2 DEF Announced
    <3> QED BY Zenon, <3>2, <3>3, <3>4 DEF VcInv, BulkInv, BulkPaired
  <2> QED BY Zenon, <2>1, <2>2
<1>9. ASSUME NEW t \in VcThreads, NEW reply \in BOOLEAN, NEW bulk \in BOOLEAN, Call(t, reply, bulk) PROVE BulkInv'
  <2>1. /\ toVc' = toVc /\ bulkTo' = bulkTo /\ mixedUp' = mixedUp
        /\ \A s \in VcThreads : vcAt'[s] = "bulk" <=> vcAt[s] = "bulk"
    BY Zenon, <1>9 DEF VcInv, VcTypes, Call, VcGoes, setup, waitPool, channels, own
  <2>2. ASSUME NEW s \in VcThreads, vcAt[s] = "bulk" PROVE bulkLock' = bulkLock
    BY Zenon, <1>9, <2>2, VcAssumption DEF VcInv, LockInv, Call
  <2> QED BY Zenon, <2>1, <2>2, BulkKept
<1>10. ASSUME NEW t \in VcThreads, WaiterWait(t) PROVE BulkInv'
  <2>1. /\ toVc' = toVc /\ bulkTo' = bulkTo /\ mixedUp' = mixedUp /\ bulkLock' = bulkLock
        /\ \A s \in VcThreads : vcAt'[s] = "bulk" <=> vcAt[s] = "bulk"
    BY Zenon, <1>10 DEF VcInv, VcTypes, WaiterWait, VcGoes, setup, waitPool, channels, own
  <2> QED BY Zenon, <2>1, BulkKept
<1>11. ASSUME NEW t \in VcThreads, WaiterTake(t) PROVE BulkInv'
  <2>1. /\ toVc' = toVc /\ bulkTo' = bulkTo /\ mixedUp' = mixedUp /\ bulkLock' = bulkLock
        /\ \A s \in VcThreads : vcAt'[s] = "bulk" <=> vcAt[s] = "bulk"
    BY Zenon, <1>11 DEF VcInv, VcTypes, WaiterTake, VcGoes, setup, waitPool, channels, own
  <2> QED BY Zenon, <2>1, BulkKept
<1>12. ASSUME NEW t \in VcThreads, Send(t) PROVE BulkInv'
  <2> DEFINE msg == <<t, mine[t], isBulk[t]>>
             Kinds == VcThreads \X (0 .. MaxWaiters) \X BOOLEAN
  <2>1. msg \in Kinds /\ msg[1] = t /\ msg[3] = isBulk[t] /\ toVc \in Seq(Kinds)
    BY Zenon DEF VcInv, VcTypes
  <2>2. toVc' = Append(toVc, msg) /\ bulkTo' = bulkTo /\ mixedUp' = mixedUp /\ bulkLock' = bulkLock
    BY Zenon, <1>12 DEF Send
  <2>3. /\ vcAt[t] = "send" /\ (vcAt'[t] = "bulk" <=> isBulk[t])
        /\ \A s \in VcThreads : s # t => vcAt'[s] = vcAt[s]
    BY Zenon, <1>12 DEF VcInv, VcTypes, Send, VcGoes
  <2>4. Announced(toVc, Owed) /\ Owed \in Seq(VcThreads) /\ BulkPaired
    BY Zenon, OwedType DEF VcInv, BulkInv
  <2> HIDE DEF msg, Kinds
  <2>5. CASE isBulk[t]
    <3>1. Owed = bulkTo /\ bulkLock = t
      BY Zenon, <2>3, <2>5, NoneSending DEF Owed
    <3>2. Owed' = Append(bulkTo, t)
      BY Zenon, <2>2, <2>3, <2>5, <3>1 DEF Owed
    <3>3. Announced(Append(toVc, msg), Append(Owed, msg[1]))
      BY Zenon, <2>1, <2>4, <2>5, AnnounceOne
    <3> QED BY Zenon, <2>1, <2>2, <2>4, <3>1, <3>2, <3>3 DEF BulkInv, BulkPaired
  <2>6. CASE ~isBulk[t]
    <3>1. Owed' = Owed
      BY Zenon, <2>2, <2>3, <2>6 DEF Owed
    <3>2. Announced(Append(toVc, msg), Owed)
      BY Zenon, <2>1, <2>4, <2>6, AnnounceNone
    <3> QED BY Zenon, <2>2, <2>4, <3>1, <3>2 DEF BulkInv, BulkPaired
  <2> QED BY Zenon, <2>5, <2>6
<1>13. ASSUME NEW t \in VcThreads, SendMsgFails(t) PROVE BulkInv'
  <2>1. /\ toVc' = toVc /\ bulkTo' = bulkTo /\ mixedUp' = mixedUp
        /\ \A s \in VcThreads : vcAt'[s] = "bulk" <=> vcAt[s] = "bulk"
    BY Zenon, <1>13 DEF VcInv, VcTypes, SendMsgFails, VcGoes, Use, Back, setup, waitPool, channels, own
  <2>2. ASSUME NEW s \in VcThreads, vcAt[s] = "bulk" PROVE bulkLock' = bulkLock
    BY Zenon, <1>13, <2>2, NoneSending DEF SendMsgFails, VcGoes
  <2> QED BY Zenon, <2>1, <2>2, BulkKept
<1>14. ASSUME NEW t \in VcThreads, SendBulk(t) PROVE BulkInv'
  <2>1. /\ vcAt[t] = "bulk" /\ vcAt'[t] # "bulk" /\ toVc' = toVc /\ bulkTo' = Append(bulkTo, t) /\ mixedUp' = mixedUp
        /\ \A s \in VcThreads : s # t => vcAt'[s] = vcAt[s]
    BY Zenon, <1>14 DEF VcInv, VcTypes, SendBulk, VcGoes
  <2>2. bulkLock = t /\ \A s \in VcThreads : s # t => vcAt[s] # "bulk"
    BY Zenon, <2>1 DEF VcInv, LockInv
  <2>3. Owed' = Owed
    BY Zenon, <2>1, <2>2 DEF Owed
  <2> QED BY Zenon, <2>1, <2>3 DEF VcInv, BulkInv, BulkPaired
<1>15. ASSUME NEW t \in VcThreads, Answered(t) PROVE BulkInv'
  <2>1. /\ toVc' = toVc /\ bulkTo' = bulkTo /\ mixedUp' = mixedUp /\ bulkLock' = bulkLock
        /\ \A s \in VcThreads : vcAt'[s] = "bulk" <=> vcAt[s] = "bulk"
    BY Zenon, <1>15 DEF VcInv, VcTypes, Answered, VcGoes, Unuse, setup, waitPool, channels, own
  <2> QED BY Zenon, <2>1, BulkKept
<1>16. ASSUME NEW t \in VcThreads, Unsent(t) PROVE BulkInv'
  <2>1. /\ toVc' = toVc /\ bulkTo' = bulkTo /\ mixedUp' = mixedUp /\ bulkLock' = bulkLock
        /\ \A s \in VcThreads : vcAt'[s] = "bulk" <=> vcAt[s] = "bulk"
    BY Zenon, <1>16 DEF VcInv, VcTypes, Unsent, VcGoes, Unuse, setup, waitPool, channels, own
  <2> QED BY Zenon, <2>1, BulkKept
<1>17. ASSUME NEW t \in VcThreads, ReleaseWaiter(t) PROVE BulkInv'
  <2>1. /\ toVc' = toVc /\ bulkTo' = bulkTo /\ mixedUp' = mixedUp /\ bulkLock' = bulkLock
        /\ \A s \in VcThreads : vcAt'[s] = "bulk" <=> vcAt[s] = "bulk"
    BY Zenon, <1>17 DEF VcInv, VcTypes, ReleaseWaiter, VcGoes, setup, waitPool, channels, own
  <2> QED BY Zenon, <2>1, BulkKept
<1>18. ASSUME NEW t \in VcThreads, PostWaiter(t) PROVE BulkInv'
  <2>1. /\ toVc' = toVc /\ bulkTo' = bulkTo /\ mixedUp' = mixedUp /\ bulkLock' = bulkLock
        /\ \A s \in VcThreads : vcAt'[s] = "bulk" <=> vcAt[s] = "bulk"
    BY Zenon, <1>18 DEF VcInv, VcTypes, PostWaiter, VcGoes, Back, setup, waitPool, channels, own
  <2> QED BY Zenon, <2>1, BulkKept
<1>19. CASE UNCHANGED vcClientVars
  BY Zenon, <1>19 DEF VcInv, BulkInv, BulkPaired, Owed, vcClientVars
<1> QED BY Zenon, <1>1, <1>2, <1>3, <1>4, <1>5, <1>6, <1>7, <1>8, <1>9, <1>10, <1>11, <1>12, <1>13, <1>14, <1>15,
    <1>16, <1>17, <1>18, <1>19 DEF VcClientNext, VcStep

\* Nothing is sent, held or counted at first.
LEMMA VcInitially == VcClientInit => VcInv
<1> SUFFICES ASSUME VcClientInit PROVE VcInv
  BY Zenon
<1>1. VcTypes
  <2>1. toVc \in Seq(VcThreads \X (0 .. MaxWaiters) \X BOOLEAN) /\ bulkTo \in Seq(VcThreads) /\ toHost \in Seq(VcThreads \X (0 .. MaxWaiters))
    BY DEF VcClientInit
  <2> QED BY <2>1, VcAssumption DEF VcClientInit, VcTypes, VcPlaces
<1>2. CountsInv
  <2>1. Inside = {} /\ InService = {}
    BY Zenon DEF VcClientInit, Inside, InService
  <2>2. Cardinality(Inside) = 0 /\ Cardinality(InService) = 0
    BY Zenon, <2>1, FS_EmptySet
  <2>3. vcRefs = 0 /\ useCount = 0 /\ ~(vcRefs > 0)
    BY DEF VcClientInit
  <2>4. ServiceInUse
    BY Zenon, <2>2, <2>3 DEF ServiceInUse, InService
  <2> QED BY Zenon, <2>2, <2>3, <2>4 DEF CountsInv
<1>3. WaitersInv /\ RepliesInv
  BY DEF VcClientInit, WaitersInv, WaiterFound, RepliesInv
<1>4. LockInv
  BY Zenon, VcAssumption DEF VcClientInit, LockInv
<1>5. BulkInv
  <2>1. Owed = <<>> /\ toVc = <<>> /\ BulkPaired
    BY Zenon DEF VcClientInit, Owed, BulkPaired
  <2>2. Places([k \in 1 .. 0 |-> 0], <<>>, <<>>) /\ [k \in 1 .. 0 |-> 0] \in [1 .. Len(<<>>) -> Nat]
    BY DEF Places
  <2> QED BY Zenon, <2>1, <2>2 DEF BulkInv, Announced
<1> QED BY Zenon, <1>1, <1>2, <1>3, <1>4, <1>5 DEF VcInv

\* The reply in the buffer of a call that is woken is its own.
LEMMA VcImplies == VcInv => CallsPaired
<1> SUFFICES ASSUME VcInv PROVE CallsPaired
  BY Zenon
<1>1. ASSUME NEW t \in VcThreads, vcAt[t] = "await", waiterSem[mine[t]] > 0 PROVE answer[t] = t
  <2>1. mine[t] \in Waiters
    BY Zenon, <1>1, VcAssumption DEF VcInv, VcTypes, WaitersInv, Waiters
  <2>2. PICK s \in VcThreads : mine[s] = mine[t] /\ vcAt[s] \in Sent /\ answer[s] = s
    BY Zenon, <1>1, <2>1 DEF VcInv, RepliesInv
  <2>3. s = t
    BY Zenon, <1>1, <2>1, <2>2, VcAssumption DEF VcInv, WaitersInv, Sent, Waiters
  <2> QED BY Zenon, <2>2, <2>3
<1> QED BY Zenon, <1>1 DEF VcInv, CountsInv, WaitersInv, BulkInv, CallsPaired, ReplyIsMine

\* Of any number of threads that call VideoCore over any number of waiters, each finds its own reply in its buffer when it
\* is woken (mmal_vc_sendwait_message() and the callback of VCHIQ), get_waiter() finds a waiter, each bulk transfer goes
\* with its message, and the service is in use while a call is under way.
THEOREM CallsPairedHolds == VcClientSpec => []CallsPaired
<1>1. VcInv /\ [VcClientNext]_vcClientVars => VcInv'
  BY Zenon, VcTypesStep, CountsStep, WaitersStep, RepliesStep, LockStep, BulkStep DEF VcInv
<1> QED BY VcInitially, <1>1, VcImplies, PTL DEF VcClientSpec

=============================================================================
