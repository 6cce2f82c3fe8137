---------------------------- MODULE OutputProofs ----------------------------
(***************************************************************************)
(* What output_file and output_zmqserver keep.                             *)
(*                                                                         *)
(* output_file: db is held exactly inside the critical section of the take *)
(* command, so that the size a thread compared is still the size of the    *)
(* picture it copies, for any number of threads; and the ring of files is  *)
(* kept over crashes and restarts, for any options and number of files.    *)
(* output_zmqserver: frames are packed for any number of slots and frames  *)
(* of any size.                                                            *)
(***************************************************************************)
EXTENDS FileTake, FileRing, ZmqSlots, FiniteSetTheorems, WellFoundedInduction, TLAPS

-----------------------------------------------------------------------------
(* FileTake: the static picture buffer of output_file *)

\* db is owned exactly by the thread in its critical section.
TakeTypes == TakeTypeOK /\ \A t \in TakeThreads : db = t <=> takePc[t] \in Locked

\* Inside the critical section the picture fits into max_frame_size once it was compared, and only
\* the thread that holds db leaves the static buffer half written.
FileTakeInv ==
    /\ \A t \in TakeThreads : takePc[t] \in {"copy", "copying", "unlock"} => PictureSize[buf] <= max_frame_size
    /\ \A t \in TakeThreads : takePc[t] = "copying" => frame.head = buf
    /\ frame.head # frame.tail => \E t \in TakeThreads : takePc[t] = "copying"

\* db has one owner.
LEMMA OneInside ==
    ASSUME TakeTypes, NEW s \in TakeThreads, NEW t \in TakeThreads,
           takePc[s] \in Locked, takePc[t] \in Locked
    PROVE  s = t
BY Zenon DEF TakeTypes, TakeTypeOK

\* Every step keeps the types, and db with the thread inside.
LEMMA TakeTypeStep == ASSUME TakeTypes, [TakeNext]_takeVars PROVE TakeTypes'
<1> USE TakeAssumption DEF TakeTypes, TakeTypeOK, TakeToPc, Locked, TakePcs, TakeThreads
<1>1. CASE Publish
  BY <1>1 DEF Publish, TakePictures
<1>2. CASE Wake
  BY ZenonT(30), <1>2 DEF Wake
<1>3. ASSUME NEW t \in TakeThreads, Run(t) \/ TakeRequest(t) PROVE TakeTypes'
  <2>1. CASE Lock(t)
    <3>1. CASE t = Worker
      BY <2>1, <3>1 DEF Lock
    <3>2. CASE t # Worker
      BY ZenonT(30), <2>1, <3>2 DEF Lock
    <3> QED BY Zenon, <3>1, <3>2
  <2>2. CASE FrameFits(t)
    BY Zenon, <2>2 DEF FrameFits
  <2>3. CASE Grow(t)
    <3>1. PictureSize[buf] + Slack \in Nat
      OBVIOUS
    <3>2. file' \in [TakeThreads -> Bytes]
      BY <2>3 DEF Grow, Bytes
    <3> QED BY Zenon, <2>3, <3>1, <3>2 DEF Grow
  <2>4. CASE NoMemory(t)
    BY <2>4 DEF NoMemory
  <2>5. CASE GiveUp(t)
    BY <2>5 DEF GiveUp, Bytes, Blank, TakePictures
  <2>6. CASE Copy(t)
    BY Zenon, <2>6 DEF Copy, Bytes
  <2>7. CASE Copied(t)
    BY Zenon, <2>7 DEF Copied, Bytes
  <2>8. CASE Unlock(t)
    BY Zenon, <2>8 DEF Unlock
  <2>9. CASE OpenFails(t)
    BY <2>9 DEF OpenFails, Bytes, Blank, TakePictures
  <2>10. CASE Write(t)
    BY <2>10 DEF Write, Bytes, TakePictures
  <2>11. CASE Written(t)
    <3>1. file[t] \in Bytes /\ frame.tail \in TakePictures \cup {Garbage}
      BY Zenon DEF Bytes
    <3>2. Blank \in Bytes
      BY DEF Bytes, Blank, TakePictures
    <3>3. \A x \in TakePictures \cup {Garbage} : [file[t] EXCEPT !.tail = x] \in Bytes
      BY Zenon, <3>1 DEF Bytes
    <3>4. file' \in [TakeThreads -> Bytes]
      <4>1. CASE file' = [file EXCEPT ![t] = Blank]
        BY Zenon, <3>2, <4>1
      <4>2. CASE file' = [file EXCEPT ![t].tail = IF @ = Garbage THEN Garbage ELSE frame.tail]
        <5>1. PICK x \in TakePictures \cup {Garbage} : file' = [file EXCEPT ![t].tail = x]
          BY ZenonT(30), <3>1, <4>2
        <5> QED BY Zenon, <3>3, <5>1
      <4> QED BY Zenon, <2>11, <4>1, <4>2 DEF Written
    <3> QED BY <2>11, <3>4 DEF Written
  <2>12. CASE TakeRequest(t)
    BY <2>12 DEF TakeRequest, Bytes, Blank, TakePictures
  <2> QED BY ZenonT(30), <1>3, <2>1, <2>2, <2>3, <2>4, <2>5, <2>6, <2>7, <2>8, <2>9, <2>10, <2>11, <2>12 DEF Run
<1>4. CASE UNCHANGED takeVars
  BY Zenon, <1>4 DEF takeVars
<1> QED BY Zenon, <1>1, <1>2, <1>3, <1>4 DEF TakeNext

\* Every step keeps the sizes that were compared and the picture that is being copied.
LEMMA FileTakeInvStep == ASSUME TakeTypes, FileTakeInv, [TakeNext]_takeVars PROVE FileTakeInv'
<1> USE TakeAssumption DEF TakeTypes, TakeTypeOK, FileTakeInv, TakeToPc, Locked, TakePcs, TakeThreads
<1>1. CASE Publish
  BY Zenon, <1>1 DEF Publish, TakePictures
<1>2. CASE Wake
  BY Zenon, <1>2 DEF Wake
<1>3. ASSUME NEW t \in TakeThreads, Run(t) \/ TakeRequest(t) PROVE FileTakeInv'
  <2>1. CASE Lock(t)
    BY <2>1 DEF Lock
  <2>2. CASE FrameFits(t)
    BY Zenon, <2>2 DEF FrameFits
  <2>3. CASE Grow(t)
    BY <2>3, OneInside DEF Grow
  <2>4. CASE NoMemory(t)
    BY Zenon, <2>4, OneInside DEF NoMemory
  <2>5. CASE GiveUp(t)
    BY Zenon, <2>5 DEF GiveUp
  <2>6. CASE Copy(t)
    BY Zenon, <2>6, OneInside DEF Copy, Bytes
  <2>7. CASE Copied(t)
    BY Zenon, <2>7, OneInside DEF Copied, Bytes
  <2>8. CASE Unlock(t)
    BY Zenon, <2>8 DEF Unlock
  <2>9. CASE OpenFails(t)
    BY Zenon, <2>9 DEF OpenFails
  <2>10. CASE Write(t)
    BY Zenon, <2>10 DEF Write
  <2>11. CASE Written(t)
    BY Zenon, <2>11 DEF Written
  <2>12. CASE TakeRequest(t)
    BY Zenon, <2>12 DEF TakeRequest
  <2> QED BY ZenonT(30), <1>3, <2>1, <2>2, <2>3, <2>4, <2>5, <2>6, <2>7, <2>8, <2>9, <2>10, <2>11, <2>12 DEF Run
<1>4. CASE UNCHANGED takeVars
  BY Zenon, <1>4 DEF takeVars
<1> QED BY Zenon, <1>1, <1>2, <1>3, <1>4 DEF TakeNext

-----------------------------------------------------------------------------
\* The types of the shared buffer, and that db is owned exactly by the thread in its critical section.
THEOREM DbOwned == TakeSpec => []TakeTypes
<1>1. TakeInit => TakeTypes
  <2>1. Blank \in Bytes /\ 0 \in TakePictures
    BY TakeAssumption DEF Bytes, Blank, TakePictures
  <2>2. TakeInit => woken \in BOOLEAN
    BY ZenonT(30) DEF TakeInit
  <2> QED BY <2>1, <2>2, TakeAssumption DEF TakeInit, TakeTypes, TakeTypeOK, TakePcs, Locked
<1> QED BY <1>1, TakeTypeStep, PTL DEF TakeSpec

\* FileTakeInv holds in every reachable state.
LEMMA FileTakeInvariant == TakeSpec => []FileTakeInv
<1>1. TakeInit => FileTakeInv
  BY DEF TakeInit, FileTakeInv, Blank
<1> QED BY <1>1, DbOwned, FileTakeInvStep, PTL DEF TakeSpec

\* memcpy() of worker_thread() and of output_cmd() stays inside the static buffer, unless realloc() failed.
THEOREM TakeCopyFits == TakeSpec => []CopyFits
<1>1. TakeTypes /\ FileTakeInv => CopyFits
  BY Zenon DEF TakeTypes, TakeTypeOK, FileTakeInv, CopyFits
<1> QED BY <1>1, DbOwned, FileTakeInvariant, PTL

\* The static buffer holds one whole picture whenever no thread is copying into it.
THEOREM FrameWholeHolds == TakeSpec => []FrameWhole
<1>1. FileTakeInv => FrameWhole
  BY Zenon DEF FileTakeInv, FrameWhole
<1> QED BY <1>1, FileTakeInvariant, PTL

\* Both for any number of HTTP threads: copies stay inside the static buffer, and it holds one whole picture.
THEOREM PictureTakenHolds == TakeSpec => []PictureTaken
<1>1. CopyFits /\ FrameWhole => PictureTaken
  BY Zenon DEF PictureTaken
<1> QED BY <1>1, TakeCopyFits, FrameWholeHolds, PTL

-----------------------------------------------------------------------------
(* output_file: the ring of files *)

\* A file: its name, and the number it was created under.
Named == [time : Int, number : Int, serial : Int]

\* The files of a folder have different names.
Ordered(D) == D \subseteq Named /\ \A f, g \in D : f = g \/ Before(f, g) \/ Before(g, f)

\* The files in front of one and behind it, in the order of alphasort().
Preceding(D, f) == {g \in D : Before(g, f)}
Following(D, f) == {g \in D : Before(f, g)}

\* alphasort() orders the names.
LEMMA BeforeOrders ==
    /\ \A f \in Named : ~Before(f, f)
    /\ \A f, g, h \in Named : Before(f, g) /\ Before(g, h) => Before(f, h)
BY DEF Named, Before

\* Some set in a nonempty collection of subsets of a finite set has no other of them within it.
LEMMA SmallestSet ==
    ASSUME NEW D, IsFiniteSet(D), NEW C, C \subseteq SUBSET D, C # {}
    PROVE  \E X \in C : \A Y \in C : Y \subseteq X => Y = X
<1>1. C \subseteq FiniteSubsetsOf(D)
  BY Zenon, FS_FiniteSubsetsOfFinite
<1>2. PICK X \in C : \A Y \in C : ~(<<Y, X>> \in StrictSubsetOrdering(D))
  BY Zenon, <1>1, WFMin, FS_StrictSubsetOrderingWellFounded
<1>3. \A Y \in C : Y \subseteq X => Y = X
  BY ZenonT(30), <1>2 DEF StrictSubsetOrdering
<1> QED BY Zenon, <1>3

\* A nonempty set of files of a folder has a first and a last one.
LEMMA FirstAndLast ==
    ASSUME NEW D, IsFiniteSet(D), Ordered(D), NEW R, R \subseteq D, R # {}
    PROVE  /\ \E f \in R : \A g \in R : g = f \/ Before(f, g)
           /\ \E f \in R : \A g \in R : g = f \/ Before(g, f)
<1>1. \E f \in R : \A g \in R : g = f \/ Before(f, g)
  <2> DEFINE C == {Preceding(D, f) : f \in R}
  <2>1. C \subseteq SUBSET D /\ C # {}
    BY ZenonT(30) DEF Preceding
  <2>2. PICK X \in C : \A Y \in C : Y \subseteq X => Y = X
    <3> HIDE DEF C
    <3> QED BY <2>1, SmallestSet
  <2>3. PICK f \in R : X = Preceding(D, f)
    BY Zenon
  <2>4. ASSUME NEW g \in R, Before(g, f) PROVE FALSE
    <3>1. Preceding(D, g) \subseteq Preceding(D, f) /\ g \in Preceding(D, f) /\ g \notin Preceding(D, g)
      BY Zenon, <2>4, BeforeOrders DEF Ordered, Preceding
    <3> QED BY Zenon, <2>2, <2>3, <3>1
  <2> QED BY Zenon, <2>4 DEF Ordered
<1>2. \E f \in R : \A g \in R : g = f \/ Before(g, f)
  <2> DEFINE C == {Following(D, f) : f \in R}
  <2>1. C \subseteq SUBSET D /\ C # {}
    BY ZenonT(30) DEF Following
  <2>2. PICK X \in C : \A Y \in C : Y \subseteq X => Y = X
    <3> HIDE DEF C
    <3> QED BY <2>1, SmallestSet
  <2>3. PICK f \in R : X = Following(D, f)
    BY Zenon
  <2>4. ASSUME NEW g \in R, Before(f, g) PROVE FALSE
    <3>1. Following(D, g) \subseteq Following(D, f) /\ g \in Following(D, f) /\ g \notin Following(D, g)
      BY Zenon, <2>4, BeforeOrders DEF Ordered, Following
    <3> QED BY Zenon, <2>2, <2>3, <3>1
  <2> QED BY Zenon, <2>4 DEF Ordered
<1> QED BY Zenon, <1>1, <1>2

\* A file comes before another exactly when fewer come before it.
LEMMA Ranked ==
    ASSUME NEW D, IsFiniteSet(D), Ordered(D), NEW f \in D, NEW g \in D, Before(f, g)
    PROVE  Cardinality(Preceding(D, f)) < Cardinality(Preceding(D, g))
<1>1. Preceding(D, f) \subseteq Preceding(D, g) /\ f \in Preceding(D, g) /\ f \notin Preceding(D, f)
  BY Zenon, BeforeOrders DEF Ordered, Preceding
<1>2. Preceding(D, g) \subseteq D
  BY Zenon DEF Preceding
<1>3. IsFiniteSet(Preceding(D, g)) /\ IsFiniteSet(Preceding(D, f))
  BY Zenon, <1>1, <1>2, FS_Subset
<1>4. Cardinality(Preceding(D, f)) \in Nat /\ Cardinality(Preceding(D, g)) \in Nat
  BY Zenon, <1>3, FS_CardinalityType
<1>5. Cardinality(Preceding(D, f)) <= Cardinality(Preceding(D, g)) /\ Cardinality(Preceding(D, f)) # Cardinality(Preceding(D, g))
  BY Zenon, <1>1, <1>3, FS_Subset
<1> QED BY <1>4, <1>5

\* The first n entries of the sorted list: that many, unless the folder has fewer, and before all the others.
LEMMA OldestAreFirst ==
    ASSUME NEW D, IsFiniteSet(D), Ordered(D), NEW n \in Int,
           NEW Old, Old = {f \in D : Cardinality(Preceding(D, f)) < n}
    PROVE  /\ Old \subseteq D /\ IsFiniteSet(Old) /\ IsFiniteSet(D \ Old)
           /\ n <= Cardinality(D) => Cardinality(D \ Old) <= Cardinality(D) - n
           /\ n >= 0 => Cardinality(D \ Old) >= Cardinality(D) - n
           /\ \A f \in Old : \A g \in D \ Old : Before(f, g)
<1>1. Old \subseteq D /\ D \ Old \subseteq D
  BY Zenon
<1>2. IsFiniteSet(Old) /\ IsFiniteSet(D \ Old)
  BY Zenon, <1>1, FS_Subset
<1>3. Cardinality(Old) \in Nat /\ Cardinality(D) \in Nat /\ Cardinality(D \ Old) = Cardinality(D) - Cardinality(Old)
  <2>1. D \cap Old = Old
    BY Zenon
  <2>2. Cardinality(Old) \in Nat /\ Cardinality(D) \in Nat
    BY Zenon, <1>2, FS_CardinalityType
  <2>3. Cardinality(D \ Old) = Cardinality(D) - Cardinality(D \cap Old)
    BY ZenonT(30), FS_Difference
  <2> QED BY ZenonT(30), <2>1, <2>2, <2>3
<1>4. \A f \in D : IsFiniteSet(Preceding(D, f)) /\ Cardinality(Preceding(D, f)) \in Nat
  <2>1. \A f \in D : Preceding(D, f) \subseteq D
    BY Zenon DEF Preceding
  <2> QED BY Zenon, <2>1, FS_Subset, FS_CardinalityType
<1>5. ASSUME NEW f \in Old, NEW g \in D \ Old PROVE Before(f, g)
  <2>1. f # g /\ f \in D /\ g \in D
    BY Zenon
  <2>2. CASE Before(g, f)
    <3>1. Cardinality(Preceding(D, g)) < Cardinality(Preceding(D, f))
      BY Zenon, <2>1, <2>2, Ranked
    <3> QED BY <3>1, <1>4, <2>1
  <2> QED BY Zenon, <2>1, <2>2 DEF Ordered
<1>6. ASSUME n <= Cardinality(D) PROVE Cardinality(Old) >= n
  <2>1. CASE D \ Old = {}
    <3>1. Old = D
      BY Zenon, <2>1
    <3> QED BY Zenon, <3>1, <1>6
  <2>2. CASE D \ Old # {}
    <3>1. PICK r \in D \ Old : \A g \in D \ Old : g = r \/ Before(r, g)
      BY ZenonT(30), <1>1, <2>2, FirstAndLast
    <3>2. Preceding(D, r) \subseteq Old
      <4>1. ASSUME NEW g \in Preceding(D, r), g \notin Old PROVE FALSE
        <5>1. g \in D \ Old /\ Before(g, r) /\ g \in Named /\ r \in Named
          BY Zenon, <4>1 DEF Preceding, Ordered
        <5> QED BY Zenon, <3>1, <5>1, BeforeOrders
      <4> QED BY Zenon, <4>1
    <3>3. Cardinality(Preceding(D, r)) <= Cardinality(Old)
      BY Zenon, <3>2, <1>2, FS_Subset
    <3>4. Cardinality(Preceding(D, r)) \in Nat /\ ~(Cardinality(Preceding(D, r)) < n)
      BY Zenon, <1>4
    <3> QED BY <1>3, <3>3, <3>4
  <2> QED BY Zenon, <2>1, <2>2
<1>7. ASSUME n >= 0 PROVE Cardinality(Old) <= n
  <2>1. CASE Old = {}
    BY Zenon, <1>7, <2>1, FS_EmptySet
  <2>2. CASE Old # {}
    <3>1. PICK m \in Old : \A g \in Old : g = m \/ Before(g, m)
      BY Zenon, <1>1, <2>2, FirstAndLast
    <3>2. Old \subseteq Preceding(D, m) \cup {m} /\ m \notin Preceding(D, m)
      BY Zenon, <3>1, BeforeOrders DEF Preceding, Ordered
    <3>3. /\ IsFiniteSet(Preceding(D, m) \cup {m})
          /\ Cardinality(Preceding(D, m) \cup {m}) = Cardinality(Preceding(D, m)) + 1
      BY Zenon, <1>4, <3>2, FS_AddElement
    <3>4. Cardinality(Old) <= Cardinality(Preceding(D, m) \cup {m})
      BY Zenon, <3>2, <3>3, FS_Subset
    <3>5. Cardinality(Preceding(D, m)) \in Nat /\ Cardinality(Preceding(D, m)) < n
      BY Zenon, <1>4
    <3> QED BY <1>3, <3>3, <3>4, <3>5
  <2> QED BY Zenon, <2>1, <2>2
<1> QED BY <1>1, <1>2, <1>3, <1>5, <1>6, <1>7

\* What % computes.
LEMMA Division ==
    ASSUME NEW m \in Nat, m >= 1, NEW c \in Nat
    PROVE  \E q, r \in Int : r = c % m /\ 0 <= r /\ r < m /\ r = c - m * q
<1>1. c % m \in Int /\ 0 <= c % m
  OBVIOUS
<1>2. c % m < m
  OBVIOUS
<1>3. c \div m \in Int
  OBVIOUS
<1>4. c % m = c - m * (c \div m)
  OBVIOUS
<1> QED BY ZenonT(30), <1>1, <1>2, <1>3, <1>4

\* The counter modulo the period grows by one until it is zero again.
LEMMA Period ==
    ASSUME NEW m \in Nat, m >= 1, NEW c \in Nat, c >= 1, c % m # 0
    PROVE  c % m = ((c - 1) % m) + 1
<1>1. PICK q \in Int, r \in Int : r = c % m /\ 0 <= r /\ r < m /\ r = c - m * q
  BY Zenon, Division
<1>2. PICK p \in Int, s \in Int : s = (c - 1) % m /\ 0 <= s /\ s < m /\ s = c - 1 - m * p
  <2>1. c - 1 \in Nat
    OBVIOUS
  <2> QED BY Zenon, <2>1, Division
<1>3. PICK x \in Int, y \in Int : x = m * q /\ y = m * p
  OBVIOUS
<1>4. r = c - x /\ s = c - 1 - y
  BY Zenon, <1>1, <1>2, <1>3
<1>5. CASE q >= p + 1
  <2>1. m * q >= m * (p + 1) /\ m * (p + 1) = m * p + m
    BY <1>5
  <2>2. x >= y + m
    BY Zenon, <1>3, <2>1
  <2>3. r # 0
    BY Zenon, <1>1
  <2> QED BY <1>1, <1>2, <1>4, <2>2, <2>3
<1>6. CASE q <= p - 1
  <2>1. m * q <= m * (p - 1) /\ m * (p - 1) = m * p - m
    BY <1>6
  <2>2. x <= y - m
    BY Zenon, <1>3, <2>1
  <2> QED BY <1>1, <1>2, <1>4, <2>2
<1>7. CASE q = p
  <2>1. x = y
    BY Zenon, <1>3, <1>7
  <2>2. r = s + 1
    BY <1>4, <2>1
  <2> QED BY Zenon, <1>1, <1>2, <2>2
<1> QED BY <1>5, <1>6, <1>7

-----------------------------------------------------------------------------
\* The types; the files of the folder have different names, and those to be deleted are among them.
RingTypes ==
    /\ size \in Int /\ exceed \in Nat /\ clock \in Int /\ zone \in {0, Hour} /\ counter \in Nat /\ created \in Nat
    /\ ringPc \in {"wait", "link", "linking", "ring", "delete", "off"}
    /\ IsFiniteSet(disk) /\ Ordered(disk) /\ doomed \subseteq disk

\* Since the last maintenance the folder has grown by no more files than the counter tells; while it is maintained, the
\* files that stay are no more than the ring is to have.
BoundInv ==
    /\ ringPc \in {"link", "linking", "ring", "delete"} => counter >= 1
    /\ ringPc = "wait" /\ counter >= 1 /\ size >= 0 /\ ~stuck =>
          Cardinality(disk) <= size + (counter % (exceed + 1))
    /\ ringPc \in {"link", "linking", "ring"} /\ counter >= 2 /\ size >= 0 /\ ~stuck =>
          Cardinality(disk) <= size + ((counter - 1) % (exceed + 1)) + 1
    /\ ringPc = "delete" => size >= 0 /\ (~stuck => Cardinality(disk \ doomed) <= size)

\* The files that stay and come after all those that are still to be deleted.
Spared == {g \in disk \ doomed : \A f \in doomed : Before(f, g)}

\* While the local time does not go back, the names are in the order of creation and before the next one; and at least
\* as many files as the ring is to have stay, behind those that are deleted.
OrderInv ==
    /\ \A f \in disk : f.serial <= created
    /\ zone = Hour => \A f \in disk : f.time < clock + zone \/ (f.time = clock + zone /\ f.number < counter)
    /\ zone = Hour => \A f, g \in disk : Before(f, g) => f.serial < g.serial
    /\ doomed # {} => ringPc = "delete" /\ Cardinality(Spared) >= size

\* The old link is gone before the new one is made.
LinkInv == (ringPc = "linking" => link = 0) /\ LinkNotStale

RingInv == RingTypes /\ BoundInv /\ OrderInv /\ LinkInv

\* A new file adds at most one to the folder, whose names stay different.
LEMMA Creation ==
    ASSUME RingTypes, Create
    PROVE  /\ NewFile \in Named
           /\ IsFiniteSet(disk') /\ Ordered(disk')
           /\ Cardinality(disk) \in Nat /\ Cardinality(disk') \in Nat /\ Cardinality(disk') <= Cardinality(disk) + 1
<1> DEFINE Left == {f \in disk : Before(f, NewFile) \/ Before(NewFile, f)}
<1>1. NewFile \in Named
  BY DEF RingTypes, NewFile, Named, Hour
<1>2. Left \subseteq disk /\ disk' = Left \cup {NewFile}
  BY Zenon DEF Create
<1>3. IsFiniteSet(Left) /\ Cardinality(Left) <= Cardinality(disk)
  BY Zenon, <1>2, FS_Subset DEF RingTypes
<1>4. IsFiniteSet(Left \cup {NewFile}) /\ Cardinality(Left \cup {NewFile}) \in {Cardinality(Left), Cardinality(Left) + 1}
  BY Zenon, <1>3, FS_AddElement
<1>5. Cardinality(disk) \in Nat /\ Cardinality(Left) \in Nat
  BY Zenon, <1>3, FS_CardinalityType DEF RingTypes
<1>6. Ordered(disk')
  <2>1. disk' \subseteq Named
    BY Zenon, <1>1, <1>2 DEF RingTypes, Ordered
  <2>2. ASSUME NEW f \in disk', NEW g \in disk' PROVE f = g \/ Before(f, g) \/ Before(g, f)
    BY Zenon, <1>2 DEF RingTypes, Ordered
  <2> QED BY Zenon, <2>1, <2>2 DEF Ordered
<1> QED BY SMTT(30), <1>1, <1>2, <1>3, <1>4, <1>5, <1>6

\* Every step keeps the types.
LEMMA RingTypesStep == ASSUME RingInv, [RingNext]_ringVars PROVE RingTypes'
<1> USE DEF RingInv
<1>1. /\ size' \in Int /\ exceed' \in Nat /\ clock' \in Int /\ zone' \in {0, Hour} /\ counter' \in Nat /\ created' \in Nat
      /\ ringPc' \in {"wait", "link", "linking", "ring", "delete", "off"}
  <2>1. size' \in Int /\ exceed' \in Nat
    BY ZenonT(30), RingAssumption DEF RingTypes, RingNext, ringVars, Save, SaveFails, NoLink, Unlink, Link, NotDue,
       ScanFails,
       Scan, Delete, Deleted, Crash, Restart, Tick, SetBack
  <2>2. clock' \in Int /\ counter' \in Nat /\ created' \in Nat
    <3>1. CASE Save \/ SaveFails \/ Restart \/ Tick
      BY <3>1 DEF RingTypes, Save, SaveFails, Restart, Tick
    <3>2. CASE NoLink \/ Unlink \/ Link \/ NotDue \/ ScanFails \/ Deleted \/ UNCHANGED ringVars
      BY Zenon, <3>2 DEF RingTypes, ringVars, NoLink, Unlink, Link, NotDue, ScanFails, Deleted
    <3>3. CASE Scan \/ Delete \/ Crash \/ SetBack
      BY Zenon, <3>3 DEF RingTypes, Scan, Delete, Crash, SetBack
    <3> QED BY Zenon, <3>1, <3>2, <3>3 DEF RingNext
  <2>3. zone' \in {0, Hour}
    BY ZenonT(30) DEF RingTypes, RingNext, ringVars, Save, SaveFails, NoLink, Unlink, Link, NotDue, ScanFails, Scan,
       Delete,
       Deleted, Crash, Restart, Tick, SetBack
  <2>4. ringPc' \in {"wait", "link", "linking", "ring", "delete", "off"}
    BY ZenonT(30) DEF RingTypes, RingNext, ringVars, Save, SaveFails, NoLink, Unlink, Link, NotDue, ScanFails, Scan,
       Delete,
       Deleted, Crash, Restart, Tick, SetBack
  <2> QED BY Zenon, <2>1, <2>2, <2>3, <2>4
<1>2. CASE Save \/ SaveFails
  <2>1. Create /\ doomed' = doomed /\ doomed = {}
    BY Zenon, <1>2 DEF Save, SaveFails, OrderInv
  <2>2. IsFiniteSet(disk') /\ Ordered(disk')
    BY Zenon, <2>1, Creation
  <2> QED BY Zenon, <1>1, <2>1, <2>2 DEF RingTypes
<1>3. CASE Delete
  <2>1. PICK f \in doomed : doomed' = doomed \ {f} /\ (disk' = disk \ {f} \/ disk' = disk)
    BY Zenon, <1>3 DEF Delete
  <2>2. IsFiniteSet(disk') /\ disk' \subseteq disk
    BY Zenon, <2>1, FS_RemoveElement DEF RingTypes
  <2>3. Ordered(disk') /\ doomed' \subseteq disk'
    BY Zenon, <2>1, <2>2 DEF RingTypes, Ordered
  <2> QED BY Zenon, <1>1, <2>2, <2>3 DEF RingTypes
<1>4. CASE Scan
  BY Zenon, <1>1, <1>4 DEF Scan, RingTypes, Oldest
<1>5. CASE \/ NoLink \/ Unlink \/ Link \/ NotDue \/ ScanFails \/ Deleted \/ Crash \/ Restart \/ Tick \/ SetBack
           \/ UNCHANGED ringVars
  <2>1. disk' = disk /\ doomed' \subseteq doomed
    BY Zenon, <1>5 DEF NoLink, Unlink, Link, NotDue, ScanFails, Deleted, Crash, Restart, Tick, SetBack, ringVars
  <2> QED BY Zenon, <1>1, <2>1 DEF RingTypes
<1> QED BY Zenon, <1>2, <1>3, <1>4, <1>5 DEF RingNext

\* Every step keeps the bound.
LEMMA BoundStep == ASSUME RingInv, [RingNext]_ringVars PROVE BoundInv'
<1> USE DEF RingInv
<1>0. Cardinality(disk) \in Nat
  BY Zenon, FS_CardinalityType DEF RingTypes
<1>1. CASE Save
  <2>1. /\ ringPc = "wait" /\ ringPc' = "link" /\ counter' = counter + 1 /\ size' = size /\ exceed' = exceed
        /\ stuck' = stuck /\ Create
    BY Zenon, <1>1 DEF Save
  <2>2. Cardinality(disk') \in Nat /\ Cardinality(disk') <= Cardinality(disk) + 1
    BY Zenon, <2>1, Creation
  <2>3. counter' - 1 = counter /\ counter' >= 1
    BY <2>1 DEF RingTypes
  <2>4. CASE counter >= 1 /\ size >= 0 /\ ~stuck
    <3>1. Cardinality(disk) <= size + (counter % (exceed + 1))
      BY Zenon, <2>1, <2>4 DEF BoundInv
    <3>2. counter % (exceed + 1) \in Int
      BY DEF RingTypes
    <3>3. Cardinality(disk') <= size' + ((counter' - 1) % (exceed' + 1)) + 1
      <4> HIDE DEF RingInv
      <4>1. (counter' - 1) % (exceed' + 1) = counter % (exceed + 1)
        BY Zenon, <2>1, <2>3
      <4>2. PICK k \in Int : k = counter % (exceed + 1)
        BY Zenon, <3>2
      <4>3. size \in Int
        BY Zenon DEF RingTypes, RingInv
      <4>4. Cardinality(disk') <= size + k + 1
        BY <1>0, <2>2, <3>1, <4>2, <4>3
      <4> QED BY Zenon, <2>1, <4>1, <4>2, <4>4
    <3> QED BY Zenon, <2>1, <2>3, <3>3 DEF BoundInv
  <2>5. CASE ~(counter >= 1 /\ size >= 0 /\ ~stuck)
    <3>1. ~(counter' >= 2 /\ size' >= 0 /\ ~stuck')
      BY <2>1, <2>5 DEF RingTypes
    <3> QED BY Zenon, <2>1, <2>3, <3>1 DEF BoundInv
  <2> QED BY Zenon, <2>4, <2>5
<1>2. CASE SaveFails \/ Crash
  BY Zenon, <1>2 DEF SaveFails, Crash, BoundInv
<1>3. CASE NoLink \/ Unlink \/ Link
  <2>1. /\ ringPc \in {"link", "linking"} /\ ringPc' \in {"linking", "ring"}
        /\ UNCHANGED <<size, exceed, disk, counter, doomed, stuck>>
    BY Zenon, <1>3 DEF NoLink, Unlink, Link
  <2> QED BY Zenon, <2>1 DEF BoundInv
<1>4. CASE NotDue
  <2>1. /\ ringPc = "ring" /\ ringPc' = "wait" /\ (~Due \/ size < 0) /\ counter >= 1
        /\ UNCHANGED <<size, exceed, disk, counter, doomed, stuck>>
    BY Zenon, <1>4 DEF NotDue, BoundInv
  <2>2. CASE size < 0
    BY SMTT(30), <2>1, <2>2 DEF BoundInv, RingTypes
  <2>3. CASE ~Due /\ size >= 0 /\ ~stuck
    <3>1. counter >= 2 /\ counter % (exceed + 1) # 0
      BY SMTT(30), <2>1, <2>3 DEF Due, RingTypes
    <3>2. exceed + 1 \in Nat /\ exceed + 1 >= 1
      BY DEF RingTypes
    <3>3. counter % (exceed + 1) = ((counter - 1) % (exceed + 1)) + 1
      BY ZenonT(30), <2>1, <3>1, <3>2, Period DEF RingTypes
    <3>4. Cardinality(disk) <= size + ((counter - 1) % (exceed + 1)) + 1
      BY Zenon, <2>1, <2>3, <3>1 DEF BoundInv
    <3>5. PICK k \in Int : k = (counter - 1) % (exceed + 1)
      BY <3>2 DEF RingTypes
    <3>6. Cardinality(disk) <= size + (counter % (exceed + 1))
      BY <3>3, <3>4, <3>5 DEF RingTypes
    <3> QED BY Zenon, <2>1, <3>6 DEF BoundInv
  <2>4. CASE stuck
    BY Zenon, <2>1, <2>4 DEF BoundInv
  <2> QED BY <2>1, <2>2, <2>3, <2>4 DEF RingTypes
<1>5. CASE ScanFails
  BY Zenon, <1>5 DEF ScanFails, BoundInv
<1>6. CASE Scan
  <2>1. /\ ringPc = "ring" /\ ringPc' = "delete" /\ size >= 0 /\ UNCHANGED <<size, exceed, disk, counter>>
        /\ doomed' = Oldest(Cardinality(disk) - size) /\ counter >= 1
    BY Zenon, <1>6 DEF Scan, BoundInv
  <2> DEFINE n == Cardinality(disk) - size
  <2>2. n \in Int /\ n <= Cardinality(disk) /\ Cardinality(disk) - n = size
    BY <1>0, <2>1 DEF RingTypes
  <2>3. doomed' = {f \in disk : Cardinality(Preceding(disk, f)) < n}
    BY Zenon, <2>1 DEF Oldest, Preceding
  <2>4. Cardinality(disk \ doomed') <= Cardinality(disk) - n
    <3> HIDE DEF n
    <3> QED BY ZenonT(30), <2>2, <2>3, OldestAreFirst DEF RingTypes
  <2> QED BY Zenon, <2>1, <2>2, <2>4 DEF BoundInv
<1>7. CASE Delete
  <2>1. PICK f \in doomed : /\ doomed' = doomed \ {f}
                            /\ (disk' = disk \ {f} /\ stuck' = stuck) \/ stuck' = TRUE
    BY Zenon, <1>7 DEF Delete
  <2>2. ringPc = "delete" /\ ringPc' = "delete" /\ UNCHANGED <<size, counter>>
    BY Zenon, <1>7 DEF Delete
  <2>3. disk' = disk \ {f} => disk' \ doomed' = disk \ doomed
    BY Zenon, <2>1
  <2> QED BY Zenon, <2>1, <2>2, <2>3 DEF BoundInv
<1>8. CASE Deleted
  <2>1. /\ ringPc = "delete" /\ ringPc' = "wait" /\ doomed = {} /\ counter >= 1 /\ size >= 0
        /\ UNCHANGED <<size, exceed, disk, counter, stuck>>
    BY Zenon, <1>8 DEF Deleted, BoundInv
  <2>2. ~stuck => Cardinality(disk) <= size
    <3>1. disk \ doomed = disk
      BY Zenon, <2>1
    <3> QED BY Zenon, <2>1, <3>1 DEF BoundInv
  <2>3. PICK k \in Int : k = counter % (exceed + 1) /\ 0 <= k
    <3>1. exceed + 1 \in Nat /\ exceed + 1 >= 1
      BY DEF RingTypes
    <3> QED BY Zenon, <3>1, Division DEF RingTypes
  <2>4. ~stuck => Cardinality(disk) <= size + (counter % (exceed + 1))
    BY <1>0, <2>2, <2>3 DEF RingTypes
  <2> QED BY Zenon, <2>1, <2>4 DEF BoundInv
<1>9. CASE Restart
  BY SMTT(30), <1>9 DEF Restart, BoundInv
<1>10. CASE Tick \/ SetBack \/ UNCHANGED ringVars
  <2>1. UNCHANGED <<ringPc, size, exceed, disk, counter, doomed, stuck>>
    BY Zenon, <1>10 DEF Tick, SetBack, ringVars
  <2> QED BY Zenon, <2>1 DEF BoundInv
<1> QED BY Zenon, <1>1, <1>2, <1>3, <1>4, <1>5, <1>6, <1>7, <1>8, <1>9, <1>10 DEF RingNext

\* Every step keeps the order of the names, and the files that are to stay.
LEMMA OrderStep == ASSUME RingInv, [RingNext]_ringVars PROVE OrderInv'
<1> USE DEF RingInv
<1>1. CASE Save \/ SaveFails
  <2>1. /\ Create /\ created' = created + 1 /\ counter' = counter + 1 /\ doomed' = doomed /\ doomed = {}
        /\ zone' = zone /\ clock' = clock
    BY Zenon, <1>1 DEF Save, SaveFails, OrderInv
  <2>2. \A f \in disk' : f \in disk \/ f = NewFile
    BY Zenon, <2>1 DEF Create
  <2>3. NewFile.time = clock + zone /\ NewFile.number = counter /\ NewFile.serial = created + 1
    BY Zenon DEF NewFile
  <2>4. \A f \in disk : f.time \in Int /\ f.number \in Int /\ f.serial \in Int
    BY Zenon DEF RingTypes, Ordered, Named
  <2>5. \A f \in disk' : f.serial <= created'
    BY SMTT(30), <2>1, <2>2, <2>3, <2>4 DEF OrderInv, RingTypes
  <2>6. zone = Hour => \A f \in disk' : f.time < clock + zone \/ (f.time = clock + zone /\ f.number < counter')
    BY SMTT(30), <2>1, <2>2, <2>3, <2>4 DEF OrderInv, RingTypes, Hour
  <2>7. ASSUME zone = Hour, NEW f \in disk', NEW g \in disk', Before(f, g) PROVE f.serial < g.serial
    <3>1. CASE f \in disk /\ g \in disk
      BY Zenon, <2>7, <3>1 DEF OrderInv
    <3>2. CASE f \in disk /\ g = NewFile
      BY SMTT(30), <2>3, <2>4, <3>2 DEF OrderInv, RingTypes
    <3>3. CASE f = NewFile /\ g \in disk
      <4>1. g.time < clock + zone \/ (g.time = clock + zone /\ g.number < counter)
        BY Zenon, <2>7, <3>3 DEF OrderInv
      <4> QED BY SMTT(30), <2>3, <2>4, <2>7, <3>3, <4>1 DEF Before, RingTypes, Hour
    <3>4. CASE f = NewFile /\ g = NewFile
      BY SMTT(30), <2>3, <2>7, <3>4 DEF Before, RingTypes, Hour
    <3> QED BY Zenon, <2>2, <3>1, <3>2, <3>3, <3>4
  <2> QED BY Zenon, <2>1, <2>5, <2>6, <2>7 DEF OrderInv
<1>2. CASE Scan
  <2>1. /\ ringPc' = "delete" /\ UNCHANGED <<size, disk, zone, clock, counter, created>> /\ size >= 0
        /\ doomed' = Oldest(Cardinality(disk) - size)
    BY Zenon, <1>2 DEF Scan
  <2>2. Cardinality(disk) \in Nat
    BY Zenon, FS_CardinalityType DEF RingTypes
  <2>3. ASSUME doomed' # {} PROVE Cardinality(Spared') >= size
    <3> DEFINE n == Cardinality(disk) - size
    <3>1. n \in Int /\ Cardinality(disk) - n = size
      BY SMTT(30), <2>1, <2>2 DEF RingTypes
    <3>2. doomed' = {f \in disk : Cardinality(Preceding(disk, f)) < n}
      BY Zenon, <2>1 DEF Oldest, Preceding
    <3>3. n >= 0
      <4>1. PICK f \in disk : Cardinality(Preceding(disk, f)) < n
        BY Zenon, <2>3, <3>2
      <4>2. Preceding(disk, f) \subseteq disk
        BY Zenon DEF Preceding
      <4>3. Cardinality(Preceding(disk, f)) \in Nat
        BY Zenon, <4>2, FS_Subset, FS_CardinalityType DEF RingTypes
      <4> QED BY <4>1, <4>3, <3>1
    <3>4. /\ Cardinality(disk \ doomed') >= Cardinality(disk) - n
          /\ \A f \in doomed' : \A g \in disk \ doomed' : Before(f, g)
      <4>1. IsFiniteSet(disk) /\ Ordered(disk)
        BY Zenon DEF RingTypes
      <4> HIDE DEF n, RingInv
      <4>2. n >= 0 => Cardinality(disk \ doomed') >= Cardinality(disk) - n
        BY ZenonT(30), <3>1, <3>2, <4>1, OldestAreFirst
      <4>3. ASSUME NEW f \in doomed', NEW g \in disk \ doomed' PROVE Before(f, g)
        BY ZenonT(30), <3>1, <3>2, <4>1, <4>2, OldestAreFirst
      <4> QED BY Zenon, <3>3, <4>2, <4>3
    <3>5. Spared' = disk \ doomed'
      BY Zenon, <2>1, <3>4 DEF Spared
    <3> QED BY Zenon, <3>1, <3>4, <3>5
  <2> QED BY Zenon, <2>1, <2>3 DEF OrderInv
<1>3. CASE Delete
  <2>1. PICK f \in doomed : doomed' = doomed \ {f} /\ (disk' = disk \ {f} \/ disk' = disk)
    BY Zenon, <1>3 DEF Delete
  <2>2. ringPc' = "delete" /\ UNCHANGED <<size, zone, clock, counter, created>>
    BY Zenon, <1>3 DEF Delete
  <2>3. disk' \subseteq disk
    BY Zenon, <2>1
  <2>4. Cardinality(Spared') >= size
    <3>1. Spared \subseteq Spared' /\ Spared' \subseteq disk
      BY Zenon, <2>1 DEF Spared
    <3>2. IsFiniteSet(Spared') /\ IsFiniteSet(Spared)
      BY Zenon, <3>1, FS_Subset DEF RingTypes
    <3>3. Cardinality(Spared) <= Cardinality(Spared')
      BY Zenon, <3>1, <3>2, FS_Subset
    <3>4. Cardinality(Spared) \in Nat /\ Cardinality(Spared') \in Nat /\ Cardinality(Spared) >= size
      BY Zenon, <3>2, FS_CardinalityType DEF OrderInv
    <3> QED BY <3>3, <3>4 DEF RingTypes
  <2> QED BY Zenon, <2>2, <2>3, <2>4 DEF OrderInv
<1>4. CASE Crash
  BY Zenon, <1>4 DEF Crash, OrderInv
<1>5. CASE Restart
  <2>1. doomed' = {} /\ UNCHANGED <<disk, zone, created>> /\ clock' = clock + 1
    BY Zenon, <1>5 DEF Restart, OrderInv
  <2>2. \A f \in disk : f.time \in Int
    BY Zenon DEF RingTypes, Ordered, Named
  <2> QED BY SMTT(30), <2>1, <2>2 DEF OrderInv, RingTypes, Hour
<1>6. CASE Tick
  <2>1. UNCHANGED <<disk, zone, created, doomed, ringPc, size, counter>> /\ clock' = clock + 1
    BY Zenon, <1>6 DEF Tick
  <2>2. \A f \in disk : f.time \in Int
    BY Zenon DEF RingTypes, Ordered, Named
  <2>3. Spared' = Spared
    BY Zenon, <2>1 DEF Spared
  <2> QED BY SMTT(30), <2>1, <2>2, <2>3 DEF OrderInv, RingTypes, Hour
<1>7. CASE NoLink \/ Unlink \/ Link \/ NotDue \/ ScanFails \/ Deleted \/ SetBack \/ UNCHANGED ringVars
  <2>1. /\ UNCHANGED <<disk, created, doomed, size, counter, clock>> /\ (zone' = zone \/ zone' = 0)
        /\ doomed # {} => ringPc' = ringPc
    BY Zenon, <1>7 DEF NoLink, Unlink, Link, NotDue, ScanFails, Deleted, SetBack, ringVars, OrderInv
  <2>2. Spared' = Spared
    BY Zenon, <2>1 DEF Spared
  <2> QED BY SMTT(30), <2>1, <2>2 DEF OrderInv, Hour
<1> QED BY Zenon, <1>1, <1>2, <1>3, <1>4, <1>5, <1>6, <1>7 DEF RingNext

\* Every step keeps the link.
LEMMA LinkStep == ASSUME RingInv, [RingNext]_ringVars PROVE LinkInv'
<1> USE DEF RingInv, LinkInv, LinkNotStale
<1>1. CASE Save \/ SaveFails
  BY Zenon, <1>1 DEF Save, SaveFails
<1>2. CASE NoLink \/ Unlink
  BY <1>2 DEF NoLink, Unlink
<1>3. CASE Link
  BY Zenon, <1>3 DEF Link
<1>4. CASE NotDue \/ ScanFails \/ Deleted
  BY <1>4 DEF NotDue, ScanFails, Deleted
<1>5. CASE Scan \/ Delete
  <2>1. UNCHANGED <<linkFile, counter, link, created>>
    BY Zenon, <1>5 DEF Scan, Delete
  <2>2. ringPc \in {"ring", "delete"} /\ ringPc' = "delete"
    BY Zenon, <1>5 DEF Scan, Delete
  <2> QED BY Zenon, <2>1, <2>2
<1>6. CASE Crash \/ Restart
  BY <1>6 DEF Crash, Restart
<1>7. CASE Tick \/ SetBack \/ UNCHANGED ringVars
  BY <1>7 DEF Tick, SetBack, ringVars
<1> QED BY Zenon, <1>1, <1>2, <1>3, <1>4, <1>5, <1>6, <1>7 DEF RingNext

\* A file goes only when as many newer ones stay as the ring is to have.
LEMMA DeletionStep ==
    ASSUME RingInv, [RingNext]_ringVars, zone = Hour, NEW f \in disk \ disk'
    PROVE  Cardinality({g \in disk' : g.serial > f.serial}) >= size
<1> USE DEF RingInv
<1>1. CASE Save \/ SaveFails
  <2>1. Create
    BY Zenon, <1>1 DEF Save, SaveFails
  <2>2. NewFile.time = clock + zone /\ NewFile.number = counter
    BY Zenon DEF NewFile
  <2>3. Before(f, NewFile)
    BY Zenon, <2>2 DEF OrderInv, Before
  <2> QED BY Zenon, <2>1, <2>3 DEF Create
<1>2. CASE Delete
  <2> DEFINE Newer == {g \in disk' : g.serial > f.serial}
  <2>1. f \in doomed /\ disk' = disk \ {f}
    BY Zenon, <1>2 DEF Delete
  <2>2. Spared \subseteq Newer
    <3>1. ASSUME NEW g \in Spared PROVE g \in Newer
      <4>1. g \in disk /\ g # f /\ Before(f, g)
        BY Zenon, <2>1 DEF Spared
      <4>2. f.serial < g.serial /\ f.serial \in Int /\ g.serial \in Int
        BY Zenon, <4>1 DEF OrderInv, RingTypes, Ordered, Named
      <4> QED BY Zenon, <2>1, <4>1, <4>2
    <3> QED BY Zenon, <3>1
  <2>3. Newer \subseteq disk
    BY Zenon, <2>1
  <2>4. IsFiniteSet(Newer)
    BY Zenon, <2>3, FS_Subset DEF RingTypes
  <2>5. IsFiniteSet(Spared) /\ Cardinality(Spared) <= Cardinality(Newer)
    BY Zenon, <2>2, <2>4, FS_Subset
  <2>6. Cardinality(Spared) \in Nat /\ Cardinality(Newer) \in Nat /\ Cardinality(Spared) >= size
    BY Zenon, <2>1, <2>4, <2>5, FS_CardinalityType DEF OrderInv
  <2> QED BY SMTT(30), <2>5, <2>6 DEF RingTypes
<1>3. CASE ~(Save \/ SaveFails \/ Delete)
  <2>1. disk' = disk
    BY ZenonT(30), <1>3 DEF RingNext, ringVars, NoLink, Unlink, Link, NotDue, ScanFails, Scan, Deleted, Crash,
       Restart, Tick,
       SetBack
  <2> QED BY Zenon, <2>1
<1> QED BY Zenon, <1>1, <1>2, <1>3

\* The ring is what was asked for: bounded, without a stale link, and short only of its oldest files, over any number of
\* crashes and restarts, with any options and any number of files.
THEOREM RingKeptHolds == RingSpec => RingKept
<1>1. RingInit => RingInv
  <2> SUFFICES ASSUME RingInit PROVE RingInv
    BY Zenon
  <2>1. disk = {} /\ doomed = {} /\ counter = 0 /\ created = 0 /\ clock = 0 /\ zone = Hour /\ ringPc = "wait"
    BY Zenon DEF RingInit
  <2>2. size \in Int /\ exceed \in Nat
    BY Zenon, RingAssumption DEF RingInit
  <2>3. RingTypes
    BY <2>1, <2>2, FS_EmptySet DEF RingTypes, Ordered
  <2> QED BY SMTT(30), <2>1, <2>3 DEF RingInv, BoundInv, OrderInv, LinkInv, LinkNotStale
<1>2. RingInv /\ [RingNext]_ringVars => RingInv'
  BY Zenon, RingTypesStep, BoundStep, OrderStep, LinkStep DEF RingInv
<1>3. RingInv => RingBounded /\ LinkNotStale
  <2> SUFFICES ASSUME RingInv, ringPc = "wait", counter > 0, size >= 0, ~stuck
               PROVE  Cardinality(disk) <= size + exceed
    BY Zenon DEF RingInv, LinkInv, RingBounded
  <2>1. Cardinality(disk) <= size + (counter % (exceed + 1))
    BY DEF RingInv, BoundInv, RingTypes
  <2>2. PICK k \in Int : k = counter % (exceed + 1) /\ k < exceed + 1
    <3>1. exceed + 1 \in Nat /\ exceed + 1 >= 1 /\ counter \in Nat
      BY DEF RingInv, RingTypes
    <3> QED BY Zenon, <3>1, Division
  <2>3. Cardinality(disk) \in Nat
    BY Zenon, FS_CardinalityType DEF RingInv, RingTypes
  <2> QED BY <2>1, <2>2, <2>3 DEF RingInv, RingTypes
<1>4. RingInv /\ [RingNext]_ringVars =>
        [zone = Hour => \A f \in disk \ disk' : Cardinality({g \in disk' : g.serial > f.serial}) >= size]_ringVars
  BY Zenon, DeletionStep
<1> QED BY <1>1, <1>2, <1>3, <1>4, PTL DEF RingSpec, RingKept, OnlyOldestDeleted

-----------------------------------------------------------------------------
(* output_zmqserver: the slots and the message *)

\* What is packed of each slot: the number of the frame and its length.
Packages == [ZSlots -> [number : Nat, len : Nat]]

ZmqTypes ==
    /\ zPos \in ZSlots /\ zCurrent \in {0} \cup ZSlots /\ zMax \in Nat /\ zRoom \in Nat /\ zOwn \in Nat
    /\ zFrame \in [number : Nat, size : Nat] /\ zCopied \in [number : Nat, size : Nat]
    /\ zSlot \in [ZSlots -> [room : Nat, frame : Nat]] /\ zPacked \in Packages
    /\ zSent = <<>> \/ zSent \in Packages

\* The frame that is copied is no newer than the one published, and those packed are no newer than it; the ones packed
\* since the last message are in order; and what a slot holds is at least as new as what was packed from it.
NumbersInv ==
    /\ zCopied.number <= zFrame.number
    /\ \A s \in ZSlots : zPacked[s].number <= zCopied.number
    /\ \A s, r \in ZSlots : s < r /\ r < zPos => zPacked[s].number <= zPacked[r].number
    /\ \A s \in ZSlots : zSlot[s].frame <= zFrame.number
    /\ zPc \in {"package", "record"} => zCopied.number <= zSlot[zPos].frame
    /\ PackedIsThere

\* No frame is larger than max_frame_size was at the time, and the buffer of the message has room for so many of it.
LengthsInv ==
    /\ zCopied.size <= zMax
    /\ \A s \in ZSlots : zPacked[s].len * ZmqBufferSize <= zRoom

ZmqInv == ZmqTypes /\ NumbersInv /\ LengthsInv /\ MessageInOrder /\ OverrunOnlyBehindMax

\* The worker starts with no frame.
LEMMA ZmqInitially == ZmqInit => ZmqInv
<1> SUFFICES ASSUME ZmqInit PROVE ZmqInv
  BY Zenon
<1>1. ZmqTypes
  BY SMTT(30), ZmqAssumption DEF ZmqInit, ZmqTypes, Packages, ZSlots, NoBuffer
<1>2. NumbersInv
  BY SMTT(30) DEF ZmqInit, NumbersInv, PackedIsThere, ZSlots, NoBuffer
<1>3. LengthsInv
  BY SMTT(30), ZmqAssumption DEF ZmqInit, LengthsInv, ZSlots
<1> QED BY Zenon, <1>1, <1>2, <1>3 DEF ZmqInv, ZmqInit, MessageInOrder, OverrunOnlyBehindMax

\* A frame that passes changes no more than its own number; so does a wake-up, and a command that fails.
LEMMA PassingStep ==
    ASSUME ZmqInv, (\E bytes \in FrameSizes : ZmqPublish(bytes)) \/ WakeSpuriously \/ CopyFails \/ Record \/ TakeFails
    PROVE  ZmqInv'
<1> USE DEF ZmqInv
<1>1. /\ UNCHANGED <<zPos, zSlot, zCopied, zPacked, zRoom, zSent, zOwn>>
      /\ zFrame' \in [number : Nat, size : Nat] /\ zFrame'.number >= zFrame.number
      /\ zMax' \in Nat /\ zMax' >= zMax
      /\ zPc' \in {"package", "record"} => zPc' = zPc
      /\ zPc' \notin {"overrun", "takeOverrun"}
  <2>1. /\ UNCHANGED <<zPos, zSlot, zCopied, zPacked, zRoom, zSent, zOwn>>
        /\ zPc' \in {"package", "record"} => zPc' = zPc
        /\ zPc' \notin {"overrun", "takeOverrun"}
    BY Zenon DEF ZmqPublish, WakeSpuriously, CopyFails, Record, TakeFails
  <2>2. zFrame' \in [number : Nat, size : Nat] /\ zFrame'.number >= zFrame.number
    <3>1. CASE \E bytes \in FrameSizes : ZmqPublish(bytes)
      <4>1. PICK bytes \in FrameSizes : zFrame' = [number |-> zFrame.number + 1, size |-> bytes]
        BY Zenon, <3>1 DEF ZmqPublish
      <4>2. bytes \in Nat /\ zFrame.number \in Nat
        BY Zenon, ZmqAssumption DEF ZmqTypes
      <4> QED BY <4>1, <4>2
    <3>2. CASE zFrame' = zFrame
      BY <3>2 DEF ZmqTypes
    <3> QED BY ZenonT(30), <3>1, <3>2 DEF WakeSpuriously, CopyFails, Record, TakeFails
  <2>3. zMax' \in Nat /\ zMax' >= zMax
    <3>1. zMax \in Nat /\ zFrame.size \in Nat /\ ZmqSlack \in Nat
      BY Zenon, ZmqAssumption DEF ZmqTypes
    <3>2. zMax' = zMax \/ (zFrame.size > zMax /\ zMax' = zFrame.size + ZmqSlack)
      BY Zenon DEF ZmqPublish, WakeSpuriously, CopyFails, Record, TakeFails, NewMax
    <3> QED BY <3>1, <3>2
  <2> QED BY Zenon, <2>1, <2>2, <2>3
<1>2. zCurrent' \in {0} \cup ZSlots
  BY Zenon DEF ZmqTypes, ZmqPublish, WakeSpuriously, CopyFails, Record, TakeFails, ZSlots
<1>3. ZmqTypes'
  BY Zenon, <1>1, <1>2 DEF ZmqTypes
<1>4. NumbersInv'
  BY <1>1 DEF ZmqTypes, NumbersInv, PackedIsThere
<1>5. LengthsInv' /\ MessageInOrder' /\ OverrunOnlyBehindMax'
  BY <1>1 DEF ZmqTypes, LengthsInv, MessageInOrder, OverrunOnlyBehindMax
<1> QED BY Zenon, <1>3, <1>4, <1>5

\* The frame is copied into the slot.
LEMMA CopyStep == ASSUME ZmqInv, CopyFrame PROVE ZmqInv'
<1> USE DEF ZmqInv
<1>1. NewMax \in Nat /\ NewRoom \in Nat /\ NewMax >= zMax /\ zFrame.size <= NewMax
  BY SMTT(30), ZmqAssumption DEF ZmqTypes, NewMax, NewRoom
<1>2. /\ zSlot' \in [ZSlots -> [room : Nat, frame : Nat]]
      /\ zSlot'[zPos].frame = zFrame.number /\ \A s \in ZSlots : s # zPos => zSlot'[s] = zSlot[s]
  BY Zenon, <1>1 DEF CopyFrame, ZmqTypes
<1>3. ZmqTypes'
  BY Zenon, <1>1, <1>2 DEF CopyFrame, ZmqTypes, ZSlots
<1>4. \A s \in ZSlots : zSlot'[s].frame <= zFrame.number /\ zSlot'[s].frame >= zSlot[s].frame
  BY SMTT(30), <1>2 DEF ZmqTypes, NumbersInv
<1>5. NumbersInv'
  <2>1. UNCHANGED <<zFrame, zPos, zPacked>> /\ zCopied' = zFrame
    BY Zenon DEF CopyFrame
  <2>2. \A s \in ZSlots : zPacked[s].number \in Nat /\ zSlot[s].frame \in Nat /\ zSlot'[s].frame \in Nat
    BY ZenonT(30), <1>2 DEF ZmqTypes, Packages
  <2>3. \A s \in ZSlots : zPacked[s].number <= zFrame.number /\ zPacked[s].number <= zSlot'[s].frame
    BY SMTT(30), <1>4, <2>2 DEF ZmqTypes, NumbersInv, PackedIsThere
  <2> QED BY Zenon, <1>2, <1>4, <2>1, <2>3 DEF ZmqTypes, NumbersInv, PackedIsThere
<1>6. LengthsInv' /\ MessageInOrder' /\ OverrunOnlyBehindMax'
  BY Zenon, <1>1 DEF CopyFrame, ZmqTypes, LengthsInv, MessageInOrder, OverrunOnlyBehindMax
<1> QED BY Zenon, <1>3, <1>5, <1>6

\* The copy runs past the end of its slot only behind max_frame_size.
LEMMA OverrunStep == ASSUME ZmqInv, CopyOverruns PROVE ZmqInv'
<1> USE DEF ZmqInv
<1>1. zFrame.size <= zMax /\ zSlot[zPos].room \in 1 .. zMax - 1
  BY SMTT(30), ZmqAssumption DEF CopyOverruns, NewRoom, NewMax, ZmqTypes
<1> QED BY Zenon, <1>1 DEF CopyOverruns, ZmqTypes, NumbersInv, PackedIsThere, LengthsInv, MessageInOrder,
           OverrunOnlyBehindMax

\* The frame enters the package, which is sent when it is full.
LEMMA PackageStep == ASSUME ZmqInv, Package PROVE ZmqInv'
<1> USE DEF ZmqInv
<1>1. /\ zPc = "package" /\ zPc' = "wait" /\ UNCHANGED <<zFrame, zSlot, zCurrent, zMax, zCopied, zOwn>>
      /\ zRoom' = BufferRoom
      /\ zPacked' = [zPacked EXCEPT ![zPos] = [number |-> zCopied.number, len |-> zCopied.size]]
  BY Zenon DEF Package
<1>2. /\ zPacked' \in Packages
      /\ zPacked'[zPos].number = zCopied.number /\ zPacked'[zPos].len = zCopied.size
      /\ \A s \in ZSlots : s # zPos => zPacked'[s] = zPacked[s]
  BY Zenon, <1>1 DEF ZmqTypes, Packages
<1>3. zPos' \in ZSlots /\ (zPos' = 1 \/ (zPos' = zPos + 1 /\ zSent' = zSent))
  BY SMTT(30), ZmqAssumption DEF Package, ZmqTypes, ZSlots
<1>4. (zSent' = zPacked' /\ zPos = ZmqBufferSize) \/ zSent' = zSent
  BY Zenon DEF Package
<1>5. zRoom' \in Nat /\ zRoom' >= zRoom /\ zMax * ZmqBufferSize <= zRoom'
  BY SMTT(30), <1>1, ZmqAssumption DEF ZmqTypes, BufferRoom
<1>6. ZmqTypes'
  BY ZenonT(30), <1>1, <1>2, <1>3, <1>4, <1>5 DEF ZmqTypes
<1>7. \A s, r \in ZSlots : s < r /\ r <= zPos => zPacked'[s].number <= zPacked'[r].number
  BY SMTT(30), <1>2 DEF ZmqTypes, Packages, NumbersInv, ZSlots
<1>8. NumbersInv'
  <2>1. \A s \in ZSlots : zPacked'[s].number <= zCopied.number
    <3>1. zPacked'[zPos].number <= zCopied.number
      BY SMTT(30), <1>2 DEF ZmqTypes
    <3>2. \A s \in ZSlots : s # zPos => zPacked'[s].number <= zCopied.number
      BY Zenon, <1>2 DEF NumbersInv
    <3> QED BY Zenon, <3>1, <3>2
  <2>2. \A s, r \in ZSlots : s < r /\ r < zPos' => zPacked'[s].number <= zPacked'[r].number
    BY SMTT(30), <1>3, <1>7 DEF ZmqTypes, ZSlots
  <2>3. \A s \in ZSlots : zPacked'[s].number <= zSlot[s].frame
    BY Zenon, <1>1, <1>2 DEF NumbersInv, PackedIsThere
  <2> QED BY Zenon, <1>1, <2>1, <2>2, <2>3 DEF NumbersInv, PackedIsThere
<1>9. \A s \in ZSlots : zPacked'[s].len * ZmqBufferSize <= zRoom'
  <2>1. zCopied.size * ZmqBufferSize <= zMax * ZmqBufferSize
    BY SMTT(30), ZmqAssumption DEF ZmqTypes, LengthsInv
  <2>2. /\ zCopied.size * ZmqBufferSize \in Nat /\ zMax * ZmqBufferSize \in Nat
        /\ \A s \in ZSlots : zPacked[s].len * ZmqBufferSize \in Nat
    BY SMTT(30), ZmqAssumption DEF ZmqTypes, Packages
  <2>3. zCopied.size * ZmqBufferSize <= zRoom'
    BY <1>5, <2>1, <2>2
  <2>4. \A s \in ZSlots : zPacked[s].len * ZmqBufferSize <= zRoom'
    BY SMTT(30), <1>5, <2>2 DEF ZmqTypes, LengthsInv
  <2> QED BY Zenon, <1>2, <2>3, <2>4
<1>10. LengthsInv'
  BY Zenon, <1>1, <1>9 DEF LengthsInv
<1>11. MessageInOrder'
  <2>1. CASE zSent' = zPacked' /\ zPos = ZmqBufferSize
    BY SMTT(30), <1>7, <1>9, <2>1 DEF MessageInOrder, ZSlots
  <2>2. CASE zSent' = zSent
    <3>1. \A s \in ZSlots : zSent # <<>> => zSent[s].len * ZmqBufferSize \in Nat
      <4>1. zSent # <<>> => \A s \in ZSlots : zSent[s].len \in Nat
        BY Zenon DEF ZmqTypes, Packages
      <4> QED BY SMTT(30), <4>1, ZmqAssumption
    <3> QED BY SMTT(30), <1>5, <2>2, <3>1 DEF MessageInOrder, ZmqTypes
  <2> QED BY Zenon, <1>4, <2>1, <2>2
<1> QED BY Zenon, <1>1, <1>6, <1>8, <1>10, <1>11 DEF OverrunOnlyBehindMax

\* A command for a picture puts a frame that is at least as new into the slot it uses.
LEMMA TakeStep == ASSUME ZmqInv, ZmqTake \/ \E moved \in BOOLEAN : TakeGrows(moved) PROVE ZmqInv'
<1> USE DEF ZmqInv
<1>1. /\ UNCHANGED <<zFrame, zPos, zCurrent, zCopied, zPacked, zRoom, zSent>>
      /\ zPc' \in {"package", "record"} => zPc' = zPc
      /\ zPc' # "overrun"
  BY Zenon DEF ZmqTake, TakeGrows
<1>2. zMax' \in Nat /\ zMax' >= zMax /\ zOwn' \in Nat
  BY SMTT(30), ZmqAssumption DEF ZmqTake, TakeGrows, ZmqTypes
<1>3. /\ zSlot' \in [ZSlots -> [room : Nat, frame : Nat]]
      /\ \A s \in ZSlots : zSlot'[s].frame \in {zSlot[s].frame, zFrame.number}
  <2>1. CASE ZmqTake
    BY SMTT(30), <2>1 DEF ZmqTake, ZmqTypes
  <2>2. CASE \E moved \in BOOLEAN : TakeGrows(moved)
    BY SMTT(30), <1>2, <2>2 DEF TakeGrows, ZmqTypes
  <2> QED BY Zenon, <2>1, <2>2
<1>4. ZmqTypes'
  BY Zenon, <1>1, <1>2, <1>3 DEF ZmqTypes
<1>5. NumbersInv'
  <2>1. \A s \in ZSlots : zPacked[s].number \in Nat /\ zSlot[s].frame \in Nat
    BY Zenon DEF ZmqTypes, Packages
  <2>2. \A s \in ZSlots : zSlot'[s].frame <= zFrame.number /\ zSlot[s].frame <= zSlot'[s].frame
    BY SMTT(30), <1>3, <2>1 DEF ZmqTypes, NumbersInv
  <2>3. \A s \in ZSlots : zSlot'[s].frame \in Nat
    BY Zenon, <1>3
  <2>4. \A s \in ZSlots : zPacked[s].number <= zSlot'[s].frame
    BY <2>1, <2>2, <2>3 DEF NumbersInv, PackedIsThere
  <2>5. zPc' \in {"package", "record"} => zCopied.number <= zSlot'[zPos].frame
    BY <1>1, <2>1, <2>2, <2>3 DEF ZmqTypes, NumbersInv
  <2> QED BY Zenon, <1>1, <2>2, <2>4, <2>5 DEF NumbersInv, PackedIsThere
<1>6. LengthsInv' /\ MessageInOrder'
  BY SMTT(30), <1>1, <1>2 DEF ZmqTypes, LengthsInv, MessageInOrder
<1>7. OverrunOnlyBehindMax'
  <2>1. CASE zPc' = "takeOverrun"
    <3>1. zFrame.size <= zMax /\ ~(zFrame.size <= TakeRoom) /\ UNCHANGED <<zSlot, zMax, zOwn>>
      BY Zenon, <2>1 DEF ZmqTake, TakeGrows
    <3>2. TakeRoom \in Nat
      BY Zenon DEF TakeRoom, ZmqTypes
    <3>3. TakeRoom' = TakeRoom
      BY Zenon, <1>1, <3>1 DEF TakeRoom
    <3> QED BY SMTT(30), <1>1, <2>1, <3>1, <3>2, <3>3 DEF OverrunOnlyBehindMax, ZmqTypes
  <2> QED BY ZenonT(30), <1>1, <2>1 DEF OverrunOnlyBehindMax
<1> QED BY Zenon, <1>4, <1>5, <1>6, <1>7

\* A message has the worker's frames, in order and each from its slot, with room for all of them, and a slot is too small
\* for its frame for one reason only, for any number of slots and any sizes.
THEOREM FramesPackedHolds == ZmqSpec => []FramesPacked
<1>1. ASSUME ZmqInv, [ZmqNext]_zmqVars PROVE ZmqInv'
  <2>1. CASE UNCHANGED zmqVars
    BY ZenonT(30), <1>1, <2>1
       DEF zmqVars, ZmqInv, ZmqTypes, NumbersInv, PackedIsThere, LengthsInv, MessageInOrder, OverrunOnlyBehindMax,
       TakeRoom
  <2> QED BY Zenon, <1>1, <2>1, PassingStep, CopyStep, OverrunStep, PackageStep, TakeStep DEF ZmqNext
<1>2. ZmqInv => FramesPacked
  BY Zenon DEF ZmqInv, NumbersInv, FramesPacked
<1> QED BY <1>1, <1>2, ZmqInitially, PTL DEF ZmqSpec
=============================================================================
