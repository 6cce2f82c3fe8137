----------------------------- MODULE MmalProofs -----------------------------
(***************************************************************************)
(* That a MMAL component lives exactly as long as it is referenced, for    *)
(* any number of components and of references to them and to their ports,  *)
(* given back by different threads at the same time; that the action of a  *)
(* component runs alone and is never missed, for any number of items of    *)
(* work; and that a connection lives as long as a client has a reference   *)
(* to it, what may become of it otherwise, and what may take a tunnel      *)
(* apart, for any number of connections over any ports, whatever calls     *)
(* fail.                                                                   *)
(***************************************************************************)
EXTENDS MmalComponent, MmalAction, MmalCxLife, FiniteSetTheorems, TLAPS

-----------------------------------------------------------------------------
(* MmalComponent: references to a component *)

\* The references of one kind to a component.
Held(c, k) == {r \in Refs : refOf[r] = c /\ refAt[r] = k}

\* The two counters count the references.
Counted ==
    \A c \in CompIds : compRefcount[c] = Cardinality(Held(c, "comp")) /\ refcountPorts[c] = Cardinality(Held(c, "port"))

\* Whoever closes a component is the only one who has a reference to it, but for those to ports, and has said so in
\* destruction_pending; a component whose destruction is pending is being closed or destroyed.
ClosingAlone ==
    /\ \A r \in Refs : refAt[r] = "closing" =>
          pending[refOf[r]] /\ \A q \in Refs \ {r} : refOf[q] = refOf[r] => refAt[q] = "port"
    /\ \A c \in CompIds : alive[c] /\ pending[c] /\ ~stuck[c] =>
          \E r \in Refs : refOf[r] = c /\ refAt[r] \in {"closing", "destroy"}

\* A reference names a component, which is alive and was not given up.
RefsAlive ==
    /\ \A r \in Refs : refAt[r] = "free" => refOf[r] = NoComp
    /\ \A r \in Refs : refAt[r] # "free" => refOf[r] \in CompIds /\ alive[refOf[r]] /\ ~stuck[refOf[r]]
    /\ \A c \in CompIds : stuck[c] => alive[c]

ComponentInv == Counted /\ ClosingAlone /\ RefsAlive /\ DestroyedAlone /\ ComponentNotLeaked

-----------------------------------------------------------------------------
\* The sets of references are finite.
LEMMA HeldFinite == \A c, k : IsFiniteSet(Held(c, k)) /\ Cardinality(Held(c, k)) \in Nat
<1> TAKE c, k
<1>1. Held(c, k) \subseteq Refs
  BY Zenon DEF Held
<1> QED BY Zenon, <1>1, FS_Subset, FS_CardinalityType, ComponentAssumption

\* What is left of them when one is left out.
LEMMA OthersHeld ==
    ASSUME NEW c, NEW k, NEW r \in Held(c, k)
    PROVE  /\ Cardinality(Held(c, k)) > 1 => \E q \in Refs \ {r} : refOf[q] = c /\ refAt[q] = k
           /\ Cardinality(Held(c, k)) <= 1 => \A q \in Refs \ {r} : ~(refOf[q] = c /\ refAt[q] = k)
<1> DEFINE S == Held(c, k)
<1>1. IsFiniteSet(S) /\ Cardinality(S) \in Nat
  BY Zenon, HeldFinite
<1>2. IsFiniteSet(S \ {r}) /\ Cardinality(S \ {r}) = Cardinality(S) - 1
  BY Zenon, <1>1, FS_RemoveElement
<1>3. Cardinality(S \ {r}) = 0 <=> S \ {r} = {}
  BY ZenonT(30), <1>2, FS_EmptySet
<1>4. Cardinality(S) > 1 => S \ {r} # {}
  BY <1>1, <1>2, <1>3
<1>5. Cardinality(S) <= 1 => S \ {r} = {}
  <2>1. Cardinality(S \ {r}) \in Nat
    BY Zenon, <1>2, FS_CardinalityType
  <2> QED BY <1>1, <1>2, <1>3, <2>1
<1> QED BY Zenon, <1>4, <1>5 DEF Held

\* A counter that is not zero counts something.
LEMMA SomeHeld ==
    ASSUME NEW c, NEW k
    PROVE  Cardinality(Held(c, k)) > 0 <=> \E q \in Refs : refOf[q] = c /\ refAt[q] = k
<1>1. Cardinality(Held(c, k)) = 0 <=> Held(c, k) = {}
  BY Zenon, HeldFinite, FS_EmptySet
<1>2. Held(c, k) = {} <=> ~\E q \in Refs : refOf[q] = c /\ refAt[q] = k
  BY Zenon DEF Held
<1> QED BY <1>1, <1>2, HeldFinite

\* How the sets change when a reference becomes another.
LEMMA TakeCounts ==
    ASSUME refOf \in [Refs -> CompIds \cup {NoComp}], refAt \in [Refs -> RefStates],
           NEW r \in Refs, NEW c, NEW k, Take(r, c, k), NEW d, NEW j
    PROVE  Cardinality(Held(d, j)') =
             Cardinality(Held(d, j)) + (IF d = c /\ j = k THEN 1 ELSE 0)
                                     - (IF refOf[r] = d /\ refAt[r] = j THEN 1 ELSE 0)
<1> DEFINE S == Held(d, j)
<1> DEFINE T == {q \in Refs : refOf'[q] = d /\ refAt'[q] = j}
<1> DEFINE In == IF d = c /\ j = k THEN 1 ELSE 0
<1> DEFINE Out == IF refOf[r] = d /\ refAt[r] = j THEN 1 ELSE 0
<1> SUFFICES Cardinality(T) = Cardinality(S) + In - Out
  BY Zenon DEF Held
<1>2. IsFiniteSet(S) /\ Cardinality(S) \in Nat
  BY Zenon, HeldFinite
<1>3. \A q \in Refs : refOf'[q] = (IF q = r THEN c ELSE refOf[q]) /\ refAt'[q] = (IF q = r THEN k ELSE refAt[q])
  BY Zenon DEF Take
<1>4. CASE (d = c /\ j = k) /\ ~(refOf[r] = d /\ refAt[r] = j)
  <2>1. T = S \cup {r} /\ r \notin S
    BY Zenon, <1>3, <1>4 DEF Held
  <2>2. Cardinality(T) = Cardinality(S) + 1
    BY ZenonT(30), <1>2, <2>1, FS_AddElement
  <2>3. In = 1 /\ Out = 0
    BY Zenon, <1>4
  <2> HIDE DEF In, Out, S, T
  <2> QED BY <1>2, <2>2, <2>3
<1>5. CASE ~(d = c /\ j = k) /\ refOf[r] = d /\ refAt[r] = j
  <2>1. T = S \ {r} /\ r \in S
    BY Zenon, <1>3, <1>5 DEF Held
  <2>2. Cardinality(T) = Cardinality(S) - 1
    BY ZenonT(30), <1>2, <2>1, FS_RemoveElement
  <2>3. In = 0 /\ Out = 1
    BY Zenon, <1>5
  <2> HIDE DEF In, Out, S, T
  <2> QED BY <1>2, <2>2, <2>3
<1>6. CASE (d = c /\ j = k) /\ refOf[r] = d /\ refAt[r] = j
  <2>1. T = S
    BY Zenon, <1>3, <1>6 DEF Held
  <2>3. In = 1 /\ Out = 1
    BY Zenon, <1>6
  <2> HIDE DEF In, Out, S, T
  <2> QED BY <1>2, <2>1, <2>3
<1>7. CASE ~(d = c /\ j = k) /\ ~(refOf[r] = d /\ refAt[r] = j)
  <2>1. T = S
    BY Zenon, <1>3, <1>7 DEF Held
  <2>3. In = 0 /\ Out = 0
    BY Zenon, <1>7
  <2> HIDE DEF In, Out, S, T
  <2> QED BY <1>2, <2>1, <2>3
<1> QED BY Zenon, <1>4, <1>5, <1>6, <1>7

\* A release that goes on keeps the component it is about.
LEMMA GoesTakes ==
    ASSUME refOf \in [Refs -> CompIds \cup {NoComp}], NEW r \in Refs, NEW k, Goes(r, k)
    PROVE  Take(r, refOf[r], k)
BY Zenon DEF Goes, Take

-----------------------------------------------------------------------------
\* The types of the variables are kept.
LEMMA ComponentTypeStep == ComponentTypeOK /\ RefsAlive /\ Counted /\ [ComponentNext]_componentVars => ComponentTypeOK'
<1> SUFFICES ASSUME ComponentTypeOK, RefsAlive, Counted, [ComponentNext]_componentVars PROVE ComponentTypeOK'
  BY Zenon
<1> USE DEF RefStates
<1>1. CASE ComponentCreateFails
  BY <1>1 DEF ComponentTypeOK, ComponentCreateFails, work
<1>2. ASSUME NEW r \in Refs, NEW c \in CompIds, ComponentCreate(r, c) PROVE ComponentTypeOK'
  BY <1>2 DEF ComponentTypeOK, ComponentCreate, Take
<1>3. ASSUME NEW r \in Refs, NEW from \in Refs, ComponentAcquire(r, from) PROVE ComponentTypeOK'
  <2>1. refOf[from] \in CompIds
    BY Zenon, <1>3 DEF ComponentAcquire, RefsAlive
  <2> QED BY <1>3, <2>1 DEF ComponentTypeOK, ComponentAcquire, Take, life, work
<1>4. ASSUME NEW r \in Refs, NEW from \in Refs, PortAcquire(r, from) PROVE ComponentTypeOK'
  <2>1. refOf[from] \in CompIds
    BY Zenon, <1>4 DEF PortAcquire, RefsAlive
  <2> QED BY <1>4, <2>1 DEF ComponentTypeOK, PortAcquire, Take, life, work
<1>5. ASSUME NEW r \in Refs, ComponentRelease(r) PROVE ComponentTypeOK'
  <2>1. refOf[r] \in CompIds
    BY Zenon, <1>5 DEF ComponentRelease, RefsAlive
  <2>2. compRefcount[refOf[r]] > 0
    <3>1. Cardinality(Held(refOf[r], "comp")) > 0
      BY Zenon, <1>5, SomeHeld DEF ComponentRelease
    <3> QED BY Zenon, <2>1, <3>1 DEF Counted
  <2>3. compRefcount' \in [CompIds -> Nat]
    BY <1>5, <2>1, <2>2 DEF ComponentTypeOK, ComponentRelease
  <2>4. refAt' \in [Refs -> RefStates] /\ refOf' \in [Refs -> CompIds \cup {NoComp}]
    BY Zenon, <1>5 DEF ComponentTypeOK, ComponentRelease, Give, Take, Goes
  <2>5. pending' \in [CompIds -> BOOLEAN]
    BY ZenonT(30), <1>5 DEF ComponentTypeOK, ComponentRelease
  <2> QED BY Zenon, <1>5, <2>3, <2>4, <2>5 DEF ComponentTypeOK, ComponentRelease, life, work
<1>6. ASSUME NEW r \in Refs, ComponentClosed(r) PROVE ComponentTypeOK'
  <2>1. refAt' \in [Refs -> RefStates] /\ refOf' \in [Refs -> CompIds \cup {NoComp}]
    BY Zenon, <1>6 DEF ComponentTypeOK, ComponentClosed, Give, Take, Goes
  <2>2. pending' \in [CompIds -> BOOLEAN]
    BY ZenonT(30), <1>6 DEF ComponentTypeOK, ComponentClosed
  <2> QED BY Zenon, <1>6, <2>1, <2>2 DEF ComponentTypeOK, ComponentClosed, life, work
<1>7. ASSUME NEW r \in Refs, PortRelease(r) PROVE ComponentTypeOK'
  <2>1. refOf[r] \in CompIds
    BY Zenon, <1>7 DEF PortRelease, RefsAlive
  <2>2. refcountPorts[refOf[r]] > 0
    <3>1. Cardinality(Held(refOf[r], "port")) > 0
      BY Zenon, <1>7, SomeHeld DEF PortRelease
    <3> QED BY Zenon, <2>1, <3>1 DEF Counted
  <2>3. refcountPorts' \in [CompIds -> Nat]
    BY <1>7, <2>1, <2>2 DEF ComponentTypeOK, PortRelease
  <2>4. refAt' \in [Refs -> RefStates] /\ refOf' \in [Refs -> CompIds \cup {NoComp}]
    BY Zenon, <1>7 DEF ComponentTypeOK, PortRelease, Give, Take, Goes
  <2> QED BY Zenon, <1>7, <2>3, <2>4 DEF ComponentTypeOK, PortRelease, life, work
<1>8. ASSUME NEW r \in Refs, ComponentDestroy(r) PROVE ComponentTypeOK'
  <2>1. refAt' \in [Refs -> RefStates] /\ refOf' \in [Refs -> CompIds \cup {NoComp}]
    BY Zenon, <1>8 DEF ComponentTypeOK, ComponentDestroy, Give, Take
  <2>2. alive' \in [CompIds -> BOOLEAN] /\ stuck' \in [CompIds -> BOOLEAN]
    BY ZenonT(30), <1>8 DEF ComponentTypeOK, ComponentDestroy
  <2>3. coreRefs' \in Nat
    BY <1>8 DEF ComponentTypeOK, ComponentDestroy
  <2> QED BY Zenon, <1>8, <2>1, <2>2, <2>3 DEF ComponentTypeOK, ComponentDestroy, work
<1>9. ASSUME NEW r \in Refs, ComponentEnable(r) PROVE ComponentTypeOK'
  <2>1. PICK resumed \in SUBSET PortIds : /\ paused' = [paused EXCEPT ![refOf[r]] = @ \ resumed]
                                          /\ enabled' = [enabled EXCEPT ![refOf[r]] = resumed = PortIds]
    BY ZenonT(30), <1>9 DEF ComponentEnable
  <2>2. enabled' \in [CompIds -> BOOLEAN]
    BY ZenonT(30), <2>1 DEF ComponentTypeOK
  <2>3. paused' \in [CompIds -> SUBSET PortIds]
    BY ZenonT(30), <2>1 DEF ComponentTypeOK
  <2> QED BY Zenon, <1>9, <2>2, <2>3 DEF ComponentTypeOK, ComponentEnable, life
<1>10. ASSUME NEW r \in Refs, ComponentDisable(r) PROVE ComponentTypeOK'
  BY ZenonT(30), <1>10 DEF ComponentTypeOK, ComponentDisable, life
<1>11. CASE UNCHANGED componentVars
  BY Zenon, <1>11 DEF ComponentTypeOK, componentVars
<1> QED BY Zenon, <1>1, <1>2, <1>3, <1>4, <1>5, <1>6, <1>7, <1>8, <1>9, <1>10, <1>11 DEF ComponentNext

-----------------------------------------------------------------------------
\* A new reference to a component, taken by somebody who holds one: of kind k, counted by the counter of its kind.
LEMMA AcquireKeeps ==
    ASSUME ComponentTypeOK, ComponentInv, NEW r \in Refs, NEW from \in Refs, NEW k \in {"comp", "port"},
           refAt[r] = "free", refAt[from] \in {"comp", "port"}, k = "comp" => refAt[from] = "comp",
           Take(r, refOf[from], k),
           IF k = "comp" THEN /\ compRefcount' = [compRefcount EXCEPT ![refOf[from]] = @ + 1]
                              /\ UNCHANGED refcountPorts
           ELSE /\ refcountPorts' = [refcountPorts EXCEPT ![refOf[from]] = @ + 1]
                /\ UNCHANGED compRefcount,
           UNCHANGED <<alive, stuck, pending>>
    PROVE  ComponentInv'
<1> DEFINE c == refOf[from]
<1>1. c \in CompIds /\ c # NoComp /\ alive[c] /\ ~stuck[c] /\ refOf[r] = NoComp /\ r # from
  BY Zenon, ComponentAssumption DEF ComponentInv, RefsAlive
<1>2. \A q \in Refs : refOf'[q] = (IF q = r THEN c ELSE refOf[q]) /\ refAt'[q] = (IF q = r THEN k ELSE refAt[q])
  BY Zenon DEF Take, ComponentTypeOK
<1>3. Counted'
  <2> SUFFICES ASSUME NEW d \in CompIds
               PROVE  compRefcount'[d] = Cardinality(Held(d, "comp")') /\ refcountPorts'[d] = Cardinality(Held(d, "port")')
    BY Zenon DEF Counted
  <2>1. refOf[r] # d
    BY Zenon, <1>1, ComponentAssumption
  <2>2. Cardinality(Held(d, "comp")') = Cardinality(Held(d, "comp")) + (IF d = c /\ "comp" = k THEN 1 ELSE 0)
    BY <2>1, TakeCounts, HeldFinite DEF ComponentTypeOK
  <2>3. Cardinality(Held(d, "port")') = Cardinality(Held(d, "port")) + (IF d = c /\ "port" = k THEN 1 ELSE 0)
    BY <2>1, TakeCounts, HeldFinite DEF ComponentTypeOK
  <2>4. compRefcount[d] = Cardinality(Held(d, "comp")) /\ refcountPorts[d] = Cardinality(Held(d, "port"))
    BY Zenon DEF ComponentInv, Counted
  <2>5. compRefcount'[d] = compRefcount[d] + (IF d = c /\ "comp" = k THEN 1 ELSE 0)
    BY DEF ComponentTypeOK
  <2>6. refcountPorts'[d] = refcountPorts[d] + (IF d = c /\ "port" = k THEN 1 ELSE 0)
    BY DEF ComponentTypeOK
  <2> QED BY Zenon, <2>2, <2>3, <2>4, <2>5, <2>6
<1>4. ClosingAlone'
  <2>1. ASSUME NEW p \in Refs, refAt'[p] = "closing"
        PROVE  pending'[refOf'[p]] /\ \A q \in Refs \ {p} : refOf'[q] = refOf'[p] => refAt'[q] = "port"
    BY <1>1, <1>2, <2>1 DEF ComponentInv, ClosingAlone
  <2>2. ASSUME NEW d \in CompIds, alive'[d], pending'[d], ~stuck'[d]
        PROVE  \E p \in Refs : refOf'[p] = d /\ refAt'[p] \in {"closing", "destroy"}
    BY <1>1, <1>2, <2>2 DEF ComponentInv, ClosingAlone
  <2> QED BY Zenon, <2>1, <2>2 DEF ClosingAlone
<1>5. RefsAlive'
  BY Zenon, <1>1, <1>2 DEF ComponentInv, RefsAlive
<1>6. DestroyedAlone'
  BY <1>1, <1>2 DEF ComponentInv, DestroyedAlone
<1>7. ComponentNotLeaked'
  BY <1>1, <1>2, ComponentAssumption DEF ComponentInv, ComponentNotLeaked
<1> QED BY Zenon, <1>3, <1>4, <1>5, <1>6, <1>7 DEF ComponentInv

\* A component is created: nobody had a reference to it.
LEMMA CreateKeeps ==
    ASSUME ComponentTypeOK, ComponentInv, NEW r \in Refs, NEW c \in CompIds, ComponentCreate(r, c)
    PROVE  ComponentInv'
<1> USE DEF ComponentCreate
<1>1. /\ c # NoComp /\ refOf[r] = NoComp /\ refAt[r] = "free" /\ ~alive[c] /\ ~stuck[c]
      /\ \A q \in Refs : refOf[q] # c
  BY Zenon, ComponentAssumption DEF ComponentInv, RefsAlive
<1>2. \A q \in Refs : refOf'[q] = (IF q = r THEN c ELSE refOf[q]) /\ refAt'[q] = (IF q = r THEN "comp" ELSE refAt[q])
  BY Zenon DEF Take, ComponentTypeOK
<1>3. Counted'
  <2> SUFFICES ASSUME NEW d \in CompIds
               PROVE  compRefcount'[d] = Cardinality(Held(d, "comp")') /\ refcountPorts'[d] = Cardinality(Held(d, "port")')
    BY Zenon DEF Counted
  <2>1. refOf[r] # d
    BY Zenon, <1>1, ComponentAssumption
  <2>2. Cardinality(Held(d, "comp")') = Cardinality(Held(d, "comp")) + (IF d = c THEN 1 ELSE 0)
    BY <2>1, TakeCounts, HeldFinite DEF ComponentTypeOK
  <2>3. Cardinality(Held(d, "port")') = Cardinality(Held(d, "port"))
    BY <2>1, TakeCounts, HeldFinite DEF ComponentTypeOK
  <2>4. d = c => Cardinality(Held(d, "comp")) = 0 /\ Cardinality(Held(d, "port")) = 0
    BY <1>1, SomeHeld, HeldFinite
  <2>5. compRefcount[d] = Cardinality(Held(d, "comp")) /\ refcountPorts[d] = Cardinality(Held(d, "port"))
    BY Zenon DEF ComponentInv, Counted
  <2>6. compRefcount'[d] = (IF d = c THEN 1 ELSE compRefcount[d]) /\ refcountPorts'[d] = (IF d = c THEN 0 ELSE refcountPorts[d])
    BY Zenon DEF ComponentTypeOK
  <2>7. CASE d = c
    BY <2>2, <2>3, <2>4, <2>6, <2>7
  <2>8. CASE d # c
    BY <2>2, <2>3, <2>5, <2>6, <2>8, HeldFinite
  <2> QED BY Zenon, <2>7, <2>8
<1>4. ClosingAlone'
  <2>1. ASSUME NEW p \in Refs, refAt'[p] = "closing"
        PROVE  pending'[refOf'[p]] /\ \A q \in Refs \ {p} : refOf'[q] = refOf'[p] => refAt'[q] = "port"
    <3>1. p # r /\ refAt[p] = "closing" /\ refOf'[p] = refOf[p] /\ refOf[p] # c /\ pending[refOf[p]]
      BY Zenon, <1>1, <1>2, <2>1 DEF ComponentInv, ClosingAlone
    <3>2. pending'[refOf'[p]]
      BY <3>1 DEF ComponentTypeOK
    <3>3. \A q \in Refs \ {p} : refOf'[q] = refOf'[p] => refAt'[q] = "port"
      BY <1>1, <1>2, <3>1 DEF ComponentInv, ClosingAlone
    <3> QED BY Zenon, <3>2, <3>3
  <2>2. ASSUME NEW d \in CompIds, alive'[d], pending'[d], ~stuck'[d]
        PROVE  \E p \in Refs : refOf'[p] = d /\ refAt'[p] \in {"closing", "destroy"}
    <3>1. d # c /\ alive[d] /\ pending[d] /\ ~stuck[d]
      BY Zenon, <2>2 DEF ComponentTypeOK
    <3> QED BY <1>1, <1>2, <3>1 DEF ComponentInv, ClosingAlone
  <2> QED BY Zenon, <2>1, <2>2 DEF ClosingAlone
<1>5. RefsAlive'
  <2>1. \A d \in CompIds : alive'[d] = (d = c \/ alive[d]) /\ stuck'[d] = stuck[d]
    BY ZenonT(30) DEF ComponentTypeOK
  <2>2. \A q \in Refs : refAt'[q] = "free" => refOf'[q] = NoComp
    BY Zenon, <1>1, <1>2 DEF ComponentInv, RefsAlive
  <2>3. ASSUME NEW q \in Refs, refAt'[q] # "free" PROVE refOf'[q] \in CompIds /\ alive'[refOf'[q]] /\ ~stuck'[refOf'[q]]
    <3>1. CASE q = r
      BY ZenonT(30), <1>1, <1>2, <2>1, <3>1
    <3>2. CASE q # r
      BY <1>2, <2>1, <2>3, <3>2 DEF ComponentInv, RefsAlive
    <3> QED BY Zenon, <3>1, <3>2
  <2>4. \A d \in CompIds : stuck'[d] => alive'[d]
    BY Zenon, <2>1 DEF ComponentInv, RefsAlive
  <2> QED BY Zenon, <2>2, <2>3, <2>4 DEF RefsAlive
<1>6. DestroyedAlone'
  BY Zenon, <1>1, <1>2 DEF ComponentInv, DestroyedAlone
<1>7. ComponentNotLeaked'
  <2>1. \A d \in CompIds : alive'[d] = (d = c \/ alive[d]) /\ stuck'[d] = stuck[d]
    BY ZenonT(30) DEF ComponentTypeOK
  <2> QED BY <1>1, <1>2, <2>1, ComponentAssumption DEF ComponentInv, ComponentNotLeaked
<1> QED BY Zenon, <1>3, <1>4, <1>5, <1>6, <1>7 DEF ComponentInv

\* mmal_component_release(): the last reference to the component goes on to close it.
LEMMA ReleaseKeeps ==
    ASSUME ComponentTypeOK, ComponentInv, NEW r \in Refs, ComponentRelease(r)
    PROVE  ComponentInv'
<1> DEFINE c == refOf[r]
<1>1. /\ c \in CompIds /\ c # NoComp /\ alive[c] /\ ~stuck[c] /\ refAt[r] = "comp" /\ r \in Held(c, "comp")
      /\ compRefcount[c] = Cardinality(Held(c, "comp"))
      /\ \A q \in Refs : refOf[q] = c => refAt[q] \notin {"closing", "destroy"}
  <2>1. refAt[r] = "comp" /\ c \in CompIds /\ alive[c] /\ ~stuck[c] /\ c # NoComp
    BY Zenon, ComponentAssumption DEF ComponentRelease, ComponentInv, RefsAlive
  <2>2. r \in Held(c, "comp") /\ compRefcount[c] = Cardinality(Held(c, "comp"))
    BY ZenonT(30), <2>1 DEF ComponentInv, Counted, Held
  <2>3. ASSUME NEW q \in Refs, refOf[q] = c PROVE refAt[q] # "closing"
    BY Zenon, <2>1, <2>3 DEF ComponentInv, ClosingAlone
  <2>4. ASSUME NEW q \in Refs, refOf[q] = c PROVE refAt[q] # "destroy"
    BY Zenon, <2>1, <2>4 DEF ComponentInv, DestroyedAlone
  <2> QED BY Zenon, <2>1, <2>2, <2>3, <2>4
<1>2. UNCHANGED <<alive, stuck, refcountPorts>> /\ compRefcount' = [compRefcount EXCEPT ![c] = @ - 1]
  BY Zenon DEF ComponentRelease, life
<1>3. ASSUME NEW n, NEW k, Take(r, n, k), k \notin {"comp", "port"} PROVE Counted'
  <2> SUFFICES ASSUME NEW d \in CompIds
               PROVE  compRefcount'[d] = Cardinality(Held(d, "comp")') /\ refcountPorts'[d] = Cardinality(Held(d, "port")')
    BY Zenon DEF Counted
  <2>1. Cardinality(Held(d, "comp")') = Cardinality(Held(d, "comp")) - (IF c = d THEN 1 ELSE 0)
    BY <1>1, <1>3, TakeCounts, HeldFinite DEF ComponentTypeOK
  <2>2. Cardinality(Held(d, "port")') = Cardinality(Held(d, "port"))
    BY <1>1, <1>3, TakeCounts, HeldFinite DEF ComponentTypeOK
  <2>3. compRefcount[d] = Cardinality(Held(d, "comp")) /\ refcountPorts[d] = Cardinality(Held(d, "port"))
    BY Zenon DEF ComponentInv, Counted
  <2>4. compRefcount'[d] = compRefcount[d] - (IF c = d THEN 1 ELSE 0) /\ refcountPorts'[d] = refcountPorts[d]
    BY <1>2 DEF ComponentTypeOK
  <2> QED BY Zenon, <2>1, <2>2, <2>3, <2>4
<1>4. CASE compRefcount[c] > 1
  <2>1. Take(r, NoComp, "free") /\ UNCHANGED pending
    BY Zenon, <1>4 DEF ComponentRelease, Give
  <2>2. PICK other \in Refs \ {r} : refOf[other] = c /\ refAt[other] = "comp"
    BY SMTT(30), <1>1, <1>4, OthersHeld
  <2>3. \A q \in Refs : refOf'[q] = (IF q = r THEN NoComp ELSE refOf[q]) /\ refAt'[q] = (IF q = r THEN "free" ELSE refAt[q])
    BY Zenon, <2>1 DEF Take, ComponentTypeOK
  <2>4. ClosingAlone'
    <3>1. ASSUME NEW p \in Refs, refAt'[p] = "closing"
          PROVE  pending'[refOf'[p]] /\ \A q \in Refs \ {p} : refOf'[q] = refOf'[p] => refAt'[q] = "port"
      <4>1. p # r /\ refAt[p] = "closing" /\ refOf'[p] = refOf[p] /\ refOf[p] # NoComp
        BY Zenon, <2>3, <3>1, ComponentAssumption DEF ComponentInv, RefsAlive
      <4> QED BY <2>1, <2>3, <4>1 DEF ComponentInv, ClosingAlone
    <3>2. ASSUME NEW d \in CompIds, alive'[d], pending'[d], ~stuck'[d]
          PROVE  \E p \in Refs : refOf'[p] = d /\ refAt'[p] \in {"closing", "destroy"}
      <4>1. PICK p \in Refs : refOf[p] = d /\ refAt[p] \in {"closing", "destroy"}
        BY Zenon, <1>2, <2>1, <3>2 DEF ComponentInv, ClosingAlone
      <4> QED BY Zenon, <1>1, <2>3, <4>1
    <3> QED BY Zenon, <3>1, <3>2 DEF ClosingAlone
  <2>5. RefsAlive'
    BY Zenon, <1>2, <2>3 DEF ComponentInv, RefsAlive
  <2>6. DestroyedAlone'
    BY <2>3, ComponentAssumption DEF ComponentInv, DestroyedAlone, RefsAlive
  <2>7. ComponentNotLeaked'
    <3> SUFFICES ASSUME NEW d \in CompIds, alive[d], ~stuck[d] PROVE \E p \in Refs : refOf'[p] = d
      BY Zenon, <1>2 DEF ComponentNotLeaked
    <3>1. CASE d = c
      BY Zenon, <2>2, <2>3, <3>1
    <3>2. CASE d # c
      BY Zenon, <2>3, <3>2 DEF ComponentInv, ComponentNotLeaked
    <3> QED BY Zenon, <3>1, <3>2
  <2> QED BY Zenon, <1>3, <2>1, <2>4, <2>5, <2>6, <2>7 DEF ComponentInv
<1>5. CASE ~(compRefcount[c] > 1)
  <2>1. Goes(r, "closing") /\ pending' = [pending EXCEPT ![c] = TRUE]
    BY Zenon, <1>5 DEF ComponentRelease
  <2>2. Take(r, c, "closing")
    BY Zenon, <2>1, GoesTakes DEF ComponentTypeOK
  <2>3. \A q \in Refs : refOf'[q] = refOf[q] /\ refAt'[q] = (IF q = r THEN "closing" ELSE refAt[q])
    BY Zenon, <2>1 DEF Goes, ComponentTypeOK
  <2>4. \A q \in Refs \ {r} : refOf[q] = c => refAt[q] = "port"
    <3>1. compRefcount[c] <= 1
      BY <1>1, <1>5 DEF ComponentTypeOK
    <3>2. \A q \in Refs \ {r} : ~(refOf[q] = c /\ refAt[q] = "comp")
      BY <1>1, <3>1, OthersHeld
    <3> QED BY Zenon, <1>1, <3>2 DEF ComponentInv, RefsAlive, ComponentTypeOK, RefStates
  <2>5. ClosingAlone'
    <3>1. ASSUME NEW p \in Refs, refAt'[p] = "closing"
          PROVE  pending'[refOf'[p]] /\ \A q \in Refs \ {p} : refOf'[q] = refOf'[p] => refAt'[q] = "port"
      <4>1. CASE p = r
        BY <1>1, <2>1, <2>3, <2>4, <4>1 DEF ComponentTypeOK
      <4>2. CASE p # r
        <5>1. refAt[p] = "closing" /\ refOf[p] # c /\ refOf[p] \in CompIds /\ pending[refOf[p]]
          BY Zenon, <1>1, <2>3, <3>1, <4>2 DEF ComponentInv, ClosingAlone, RefsAlive
        <5>2. pending'[refOf'[p]]
          BY Zenon, <2>1, <2>3, <5>1 DEF ComponentTypeOK
        <5> QED BY <2>3, <5>1, <5>2 DEF ComponentInv, ClosingAlone
      <4> QED BY Zenon, <4>1, <4>2
    <3>2. ASSUME NEW d \in CompIds, alive'[d], pending'[d], ~stuck'[d]
          PROVE  \E p \in Refs : refOf'[p] = d /\ refAt'[p] \in {"closing", "destroy"}
      <4>1. CASE d = c
        BY Zenon, <2>3, <4>1
      <4>2. CASE d # c
        <5>1. pending[d]
          BY Zenon, <2>1, <3>2, <4>2 DEF ComponentTypeOK
        <5>2. PICK p \in Refs : refOf[p] = d /\ refAt[p] \in {"closing", "destroy"}
          BY Zenon, <1>2, <3>2, <5>1 DEF ComponentInv, ClosingAlone
        <5> QED BY Zenon, <2>3, <4>2, <5>2
      <4> QED BY Zenon, <4>1, <4>2
    <3> QED BY Zenon, <3>1, <3>2 DEF ClosingAlone
  <2>6. RefsAlive'
    BY Zenon, <1>1, <1>2, <2>3 DEF ComponentInv, RefsAlive
  <2>7. DestroyedAlone'
    BY <1>1, <2>3 DEF ComponentInv, DestroyedAlone
  <2>8. ComponentNotLeaked'
    BY Zenon, <1>2, <2>3 DEF ComponentInv, ComponentNotLeaked
  <2> QED BY <1>3, <2>2, <2>5, <2>6, <2>7, <2>8 DEF ComponentInv
<1> QED BY Zenon, <1>4, <1>5

\* A reference that is not counted, or no longer, is given back while somebody else keeps one to the component, or goes
\* on to destroy what nobody else has a reference to.
LEMMA LeavesKeeps ==
    ASSUME ComponentTypeOK, ComponentInv, NEW r \in Refs, NEW c, c = refOf[r], c \in CompIds,
           refAt[r] \in {"port", "closing"}, Counted', UNCHANGED <<alive, stuck>>, pending' \in [CompIds -> BOOLEAN],
           \A d \in CompIds : pending'[d] => pending[d],
           \A d \in CompIds \ {c} : pending'[d] = pending[d],
           \/ Give(r) /\ (\E q \in Refs \ {r} : refOf[q] = c)
           \/ Goes(r, "destroy") /\ \A q \in Refs \ {r} : refOf[q] # c,
           refAt[r] = "port" => UNCHANGED pending,
           refAt[r] = "closing" /\ Give(r) => ~pending'[c]
    PROVE  ComponentInv'
<1>1. c # NoComp /\ alive[c] /\ ~stuck[c] /\ refAt[r] # "free" /\ refAt[r] # "destroy"
  BY Zenon, ComponentAssumption DEF ComponentInv, RefsAlive
<1>2. CASE Give(r) /\ (\E q \in Refs \ {r} : refOf[q] = c)
  <2>1. \A q \in Refs : refOf'[q] = (IF q = r THEN NoComp ELSE refOf[q]) /\ refAt'[q] = (IF q = r THEN "free" ELSE refAt[q])
    BY Zenon, <1>2 DEF Give, Take, ComponentTypeOK
  <2>2. ASSUME NEW p \in Refs, refAt'[p] = "closing"
        PROVE  pending'[refOf'[p]] /\ \A q \in Refs \ {p} : refOf'[q] = refOf'[p] => refAt'[q] = "port"
    <3>1. p # r /\ refAt[p] = "closing" /\ refOf'[p] = refOf[p] /\ refOf[p] # NoComp /\ refOf[p] \in CompIds /\ pending[refOf[p]]
      BY <2>1, <2>2, ComponentAssumption DEF ComponentInv, RefsAlive, ClosingAlone
    <3>2. refAt[r] = "closing" => refOf[p] # c
      BY Zenon, <3>1 DEF ComponentInv, ClosingAlone
    <3>3. pending'[refOf'[p]]
      BY Zenon, <3>1, <3>2
    <3>4. \A q \in Refs \ {p} : refOf'[q] = refOf'[p] => refAt'[q] = "port"
      BY <2>1, <3>1 DEF ComponentInv, ClosingAlone
    <3> QED BY Zenon, <3>3, <3>4
  <2>3. ASSUME NEW d \in CompIds, alive'[d], pending'[d], ~stuck'[d]
        PROVE  \E p \in Refs : refOf'[p] = d /\ refAt'[p] \in {"closing", "destroy"}
    <3>1. PICK p \in Refs : refOf[p] = d /\ refAt[p] \in {"closing", "destroy"}
      BY Zenon, <2>3 DEF ComponentInv, ClosingAlone
    <3>2. p # r
      BY Zenon, <1>1, <1>2, <2>3, <3>1
    <3> QED BY Zenon, <2>1, <3>1, <3>2
  <2>4. ClosingAlone'
    BY Zenon, <2>2, <2>3 DEF ClosingAlone
  <2>5. RefsAlive'
    BY SMTT(30), <2>1 DEF ComponentInv, RefsAlive
  <2>6. DestroyedAlone'
    BY SMTT(30), <2>1, ComponentAssumption DEF ComponentInv, DestroyedAlone, RefsAlive
  <2>7. ComponentNotLeaked'
    <3> SUFFICES ASSUME NEW d \in CompIds, alive[d], ~stuck[d] PROVE \E p \in Refs : refOf'[p] = d
      BY Zenon DEF ComponentNotLeaked
    <3>1. CASE d = c
      BY Zenon, <1>2, <2>1, <3>1
    <3>2. CASE d # c
      BY <2>1, <3>2 DEF ComponentInv, ComponentNotLeaked
    <3> QED BY Zenon, <3>1, <3>2
  <2> QED BY Zenon, <2>4, <2>5, <2>6, <2>7 DEF ComponentInv
<1>3. CASE Goes(r, "destroy") /\ \A q \in Refs \ {r} : refOf[q] # c
  <2>1. \A q \in Refs : refOf'[q] = refOf[q] /\ refAt'[q] = (IF q = r THEN "destroy" ELSE refAt[q])
    BY Zenon, <1>3 DEF Goes, ComponentTypeOK
  <2>2. ASSUME NEW p \in Refs, refAt'[p] = "closing"
        PROVE  pending'[refOf'[p]] /\ \A q \in Refs \ {p} : refOf'[q] = refOf'[p] => refAt'[q] = "port"
    <3>1. p # r /\ refAt[p] = "closing" /\ refOf'[p] = refOf[p] /\ refOf[p] # c /\ refOf[p] \in CompIds /\ pending[refOf[p]]
      BY Zenon, <1>3, <2>1, <2>2 DEF ComponentInv, RefsAlive, ClosingAlone
    <3>2. pending'[refOf'[p]]
      BY Zenon, <3>1
    <3>3. \A q \in Refs \ {p} : refOf'[q] = refOf'[p] => refAt'[q] = "port"
      BY SMTT(30), <2>1, <3>1 DEF ComponentInv, ClosingAlone
    <3> QED BY Zenon, <3>2, <3>3
  <2>3. ASSUME NEW d \in CompIds, alive'[d], pending'[d], ~stuck'[d]
        PROVE  \E p \in Refs : refOf'[p] = d /\ refAt'[p] \in {"closing", "destroy"}
    <3>1. PICK p \in Refs : refOf[p] = d /\ refAt[p] \in {"closing", "destroy"}
      BY Zenon, <2>3 DEF ComponentInv, ClosingAlone
    <3> QED BY Zenon, <2>1, <3>1
  <2>4. ClosingAlone'
    BY Zenon, <2>2, <2>3 DEF ClosingAlone
  <2>5. RefsAlive'
    BY SMTT(30), <1>1, <2>1 DEF ComponentInv, RefsAlive
  <2>6. DestroyedAlone'
    BY SMTT(30), <1>3, <2>1 DEF ComponentInv, DestroyedAlone
  <2>7. ComponentNotLeaked'
    BY <2>1 DEF ComponentInv, ComponentNotLeaked
  <2> QED BY Zenon, <2>4, <2>5, <2>6, <2>7 DEF ComponentInv
<1> QED BY Zenon, <1>2, <1>3

\* The end of mmal_component_release_internal(): references to ports take the destruction over.
LEMMA ClosedKeeps ==
    ASSUME ComponentTypeOK, ComponentInv, NEW r \in Refs, ComponentClosed(r)
    PROVE  ComponentInv'
<1> DEFINE c == refOf[r]
<1>1. /\ refAt[r] = "closing" /\ c \in CompIds /\ \A q \in Refs \ {r} : refOf[q] = c => refAt[q] = "port"
      /\ refcountPorts[c] = Cardinality(Held(c, "port"))
  BY Zenon DEF ComponentClosed, ComponentInv, ClosingAlone, RefsAlive, Counted
<1>2. UNCHANGED <<alive, stuck, compRefcount, refcountPorts>>
  BY Zenon DEF ComponentClosed, life
<1>3. ASSUME NEW n, NEW k, Take(r, n, k), k \notin {"comp", "port"} PROVE Counted'
  <2> SUFFICES ASSUME NEW d \in CompIds
               PROVE  compRefcount'[d] = Cardinality(Held(d, "comp")') /\ refcountPorts'[d] = Cardinality(Held(d, "port")')
    BY Zenon DEF Counted
  <2>1. Cardinality(Held(d, "comp")') = Cardinality(Held(d, "comp")) /\ Cardinality(Held(d, "port")') = Cardinality(Held(d, "port"))
    BY <1>1, <1>3, TakeCounts, HeldFinite DEF ComponentTypeOK
  <2> QED BY Zenon, <1>2, <2>1 DEF ComponentInv, Counted
<1>4. CASE refcountPorts[c] > 0
  <2>1. Give(r) /\ pending' = [pending EXCEPT ![c] = FALSE]
    BY Zenon, <1>4 DEF ComponentClosed
  <2>2. PICK q \in Refs : refOf[q] = c /\ refAt[q] = "port"
    BY <1>1, <1>4, SomeHeld
  <2>3. q # r
    BY Zenon, <1>1, <2>2
  <2>4. /\ pending' \in [CompIds -> BOOLEAN] /\ ~pending'[c] /\ \A d \in CompIds : pending'[d] => pending[d]
        /\ \A d \in CompIds \ {c} : pending'[d] = pending[d]
    BY Zenon, <1>1, <2>1 DEF ComponentTypeOK
  <2>5. Counted'
    BY Zenon, <1>3, <2>1 DEF Give
  <2> QED BY ZenonT(30), <1>1, <1>2, <2>1, <2>2, <2>3, <2>4, <2>5, LeavesKeeps
<1>5. CASE ~(refcountPorts[c] > 0)
  <2>1. Goes(r, "destroy") /\ UNCHANGED pending
    BY Zenon, <1>5 DEF ComponentClosed
  <2>2. \A q \in Refs \ {r} : refOf[q] # c
    BY <1>1, <1>5, SomeHeld
  <2>3. Counted'
    BY <1>3, <2>1, GoesTakes DEF ComponentTypeOK
  <2>4. ~Give(r)
    BY Zenon, <2>1 DEF Goes, Give, Take, ComponentTypeOK
  <2>5. pending' \in [CompIds -> BOOLEAN] /\ \A d \in CompIds : pending'[d] = pending[d]
    BY Zenon, <2>1 DEF ComponentTypeOK
  <2> QED BY Zenon, <1>1, <1>2, <2>1, <2>2, <2>3, <2>4, <2>5, LeavesKeeps
<1> QED BY Zenon, <1>4, <1>5

\* mmal_port_release(): the last reference of all destroys.
LEMMA PortReleaseKeeps ==
    ASSUME ComponentTypeOK, ComponentInv, NEW r \in Refs, PortRelease(r)
    PROVE  ComponentInv'
<1> DEFINE c == refOf[r]
<1>1. /\ refAt[r] = "port" /\ c \in CompIds /\ alive[c] /\ ~stuck[c] /\ c # NoComp
      /\ refcountPorts[c] = Cardinality(Held(c, "port")) /\ compRefcount[c] = Cardinality(Held(c, "comp"))
  BY Zenon, ComponentAssumption DEF PortRelease, ComponentInv, RefsAlive, Counted
<1>2. r \in Held(c, "port")
  BY Zenon, <1>1 DEF Held
<1>3. UNCHANGED <<alive, stuck, compRefcount, pending>> /\ refcountPorts' = [refcountPorts EXCEPT ![c] = @ - 1]
  BY Zenon DEF PortRelease, life
<1>4. ASSUME NEW n, NEW k, Take(r, n, k), k \notin {"comp", "port"} PROVE Counted'
  <2> SUFFICES ASSUME NEW d \in CompIds
               PROVE  compRefcount'[d] = Cardinality(Held(d, "comp")') /\ refcountPorts'[d] = Cardinality(Held(d, "port")')
    BY Zenon DEF Counted
  <2>1. Cardinality(Held(d, "port")') = Cardinality(Held(d, "port")) - (IF c = d THEN 1 ELSE 0)
    BY <1>1, <1>4, TakeCounts, HeldFinite DEF ComponentTypeOK
  <2>2. Cardinality(Held(d, "comp")') = Cardinality(Held(d, "comp"))
    BY <1>1, <1>4, TakeCounts, HeldFinite DEF ComponentTypeOK
  <2>3. compRefcount[d] = Cardinality(Held(d, "comp")) /\ refcountPorts[d] = Cardinality(Held(d, "port"))
    BY Zenon DEF ComponentInv, Counted
  <2>4. refcountPorts'[d] = refcountPorts[d] - (IF c = d THEN 1 ELSE 0) /\ compRefcount'[d] = compRefcount[d]
    BY <1>3 DEF ComponentTypeOK
  <2> QED BY Zenon, <2>1, <2>2, <2>3, <2>4
<1>5. pending' \in [CompIds -> BOOLEAN] /\ \A d \in CompIds : pending'[d] = pending[d]
  BY Zenon, <1>3 DEF ComponentTypeOK
<1>6. CASE refcountPorts[c] > 1 \/ compRefcount[c] > 0 \/ pending[c]
  <2>1. Give(r)
    BY Zenon, <1>6 DEF PortRelease
  <2>2. Counted'
    BY Zenon, <1>4, <2>1 DEF Give
  <2>3. \E q \in Refs \ {r} : refOf[q] = c
    <3>1. CASE refcountPorts[c] > 1
      BY SMTT(30), <1>1, <1>2, <3>1, OthersHeld
    <3>2. CASE compRefcount[c] > 0
      BY SMTT(30), <1>1, <3>2, SomeHeld
    <3>3. CASE pending[c]
      BY Zenon, <1>1, <3>3 DEF ComponentInv, ClosingAlone
    <3> QED BY Zenon, <1>6, <3>1, <3>2, <3>3
  <2> QED BY Zenon, <1>1, <1>3, <1>5, <2>1, <2>2, <2>3, LeavesKeeps
<1>7. CASE ~(refcountPorts[c] > 1 \/ compRefcount[c] > 0 \/ pending[c])
  <2>1. Goes(r, "destroy")
    BY Zenon, <1>7 DEF PortRelease
  <2>2. Counted'
    BY <1>4, <2>1, GoesTakes DEF ComponentTypeOK
  <2>3. ASSUME NEW q \in Refs \ {r}, refOf[q] = c PROVE FALSE
    <3>1. refAt[q] # "port"
      <4>1. refcountPorts[c] <= 1
        BY <1>1, <1>7 DEF ComponentTypeOK
      <4> QED BY SMTT(30), <1>1, <1>2, <2>3, <4>1, OthersHeld
    <3>2. refAt[q] # "comp"
      BY SMTT(30), <1>1, <1>7, <2>3, SomeHeld
    <3>3. refAt[q] # "closing"
      BY Zenon, <1>7, <2>3 DEF ComponentInv, ClosingAlone
    <3>4. refAt[q] # "destroy"
      BY Zenon, <2>3 DEF ComponentInv, DestroyedAlone
    <3>5. refAt[q] # "free"
      BY Zenon, <1>1, <2>3 DEF ComponentInv, RefsAlive
    <3> QED BY Zenon, <3>1, <3>2, <3>3, <3>4, <3>5 DEF ComponentTypeOK, RefStates
  <2> QED BY Zenon, <1>1, <1>3, <1>5, <2>1, <2>2, <2>3, LeavesKeeps
<1> QED BY Zenon, <1>6, <1>7

\* mmal_component_destroy_internal(): the component is freed, or given up.
LEMMA DestroyKeeps ==
    ASSUME ComponentTypeOK, ComponentInv, NEW r \in Refs, ComponentDestroy(r)
    PROVE  ComponentInv'
<1> DEFINE c == refOf[r]
<1>1. refAt[r] = "destroy" /\ c \in CompIds /\ c # NoComp /\ alive[c] /\ ~stuck[c] /\ \A q \in Refs \ {r} : refOf[q] # c
  BY Zenon, ComponentAssumption DEF ComponentDestroy, ComponentInv, RefsAlive, DestroyedAlone
<1>2. Take(r, NoComp, "free") /\ UNCHANGED <<compRefcount, refcountPorts, pending>>
  BY Zenon DEF ComponentDestroy, Give
<1>3. \A q \in Refs : refOf'[q] = (IF q = r THEN NoComp ELSE refOf[q]) /\ refAt'[q] = (IF q = r THEN "free" ELSE refAt[q])
  BY Zenon, <1>2 DEF Take, ComponentTypeOK
<1>4. \A d \in CompIds \ {c} : alive'[d] = alive[d] /\ stuck'[d] = stuck[d]
  BY Zenon DEF ComponentDestroy, ComponentTypeOK
<1>5. /\ alive'[c] => stuck'[c]
      /\ stuck'[c] => alive'[c]
  BY Zenon, <1>1 DEF ComponentDestroy, ComponentTypeOK
<1>6. Counted'
  <2> SUFFICES ASSUME NEW d \in CompIds
               PROVE  compRefcount'[d] = Cardinality(Held(d, "comp")') /\ refcountPorts'[d] = Cardinality(Held(d, "port")')
    BY Zenon DEF Counted
  <2>1. Cardinality(Held(d, "comp")') = Cardinality(Held(d, "comp")) /\ Cardinality(Held(d, "port")') = Cardinality(Held(d, "port"))
    BY <1>1, <1>2, TakeCounts, HeldFinite DEF ComponentTypeOK
  <2> QED BY Zenon, <1>2, <2>1 DEF ComponentInv, Counted
<1>7. ClosingAlone'
  <2>1. ASSUME NEW p \in Refs, refAt'[p] = "closing"
        PROVE  pending'[refOf'[p]] /\ \A q \in Refs \ {p} : refOf'[q] = refOf'[p] => refAt'[q] = "port"
    <3>1. p # r /\ refAt[p] = "closing" /\ refOf'[p] = refOf[p] /\ refOf[p] # NoComp
      BY Zenon, <1>3, <2>1, ComponentAssumption DEF ComponentInv, RefsAlive
    <3> QED BY SMTT(30), <1>2, <1>3, <3>1 DEF ComponentInv, ClosingAlone
  <2>2. ASSUME NEW d \in CompIds, alive'[d], pending'[d], ~stuck'[d]
        PROVE  \E p \in Refs : refOf'[p] = d /\ refAt'[p] \in {"closing", "destroy"}
    <3>1. d # c
      BY Zenon, <1>5, <2>2
    <3>2. PICK p \in Refs : refOf[p] = d /\ refAt[p] \in {"closing", "destroy"}
      BY Zenon, <1>2, <1>4, <2>2, <3>1 DEF ComponentInv, ClosingAlone
    <3> QED BY Zenon, <1>3, <3>1, <3>2
  <2> QED BY Zenon, <2>1, <2>2 DEF ClosingAlone
<1>8. RefsAlive'
  <2>1. \A q \in Refs : refAt'[q] = "free" => refOf'[q] = NoComp
    BY Zenon, <1>3 DEF ComponentInv, RefsAlive
  <2>2. ASSUME NEW q \in Refs, refAt'[q] # "free" PROVE refOf'[q] \in CompIds /\ alive'[refOf'[q]] /\ ~stuck'[refOf'[q]]
    <3>1. q # r /\ refOf'[q] = refOf[q] /\ refAt[q] # "free" /\ refOf[q] # c
      BY Zenon, <1>1, <1>3, <2>2
    <3>2. refOf[q] \in CompIds /\ alive[refOf[q]] /\ ~stuck[refOf[q]]
      BY Zenon, <3>1 DEF ComponentInv, RefsAlive
    <3> QED BY Zenon, <1>4, <3>1, <3>2
  <2>3. ASSUME NEW d \in CompIds, stuck'[d] PROVE alive'[d]
    <3>1. CASE d = c
      BY Zenon, <1>5, <2>3, <3>1
    <3>2. CASE d # c
      BY Zenon, <1>4, <2>3, <3>2 DEF ComponentInv, RefsAlive
    <3> QED BY Zenon, <3>1, <3>2
  <2> QED BY Zenon, <2>1, <2>2, <2>3 DEF RefsAlive
<1>9. DestroyedAlone'
  BY SMTT(30), <1>3, ComponentAssumption DEF ComponentInv, DestroyedAlone, RefsAlive
<1>10. ComponentNotLeaked'
  <2> SUFFICES ASSUME NEW d \in CompIds, alive'[d], ~stuck'[d] PROVE \E p \in Refs : refOf'[p] = d
    BY Zenon DEF ComponentNotLeaked
  <2>1. d # c
    BY Zenon, <1>5
  <2>2. PICK p \in Refs : refOf[p] = d
    BY Zenon, <1>4, <2>1 DEF ComponentInv, ComponentNotLeaked
  <2> QED BY Zenon, <1>3, <2>1, <2>2
<1> QED BY Zenon, <1>6, <1>7, <1>8, <1>9, <1>10 DEF ComponentInv

\* What leaves references and components alone.
LEMMA SameKeeps ==
    ASSUME ComponentInv, UNCHANGED <<alive, compRefcount, refcountPorts, pending, refOf, refAt, stuck>>
    PROVE  ComponentInv'
BY SMTT(30) DEF ComponentInv, Counted, Held, ClosingAlone, RefsAlive, DestroyedAlone, ComponentNotLeaked

\* Every step keeps the invariant.
LEMMA ComponentInvStep == ComponentTypeOK /\ ComponentInv /\ [ComponentNext]_componentVars => ComponentInv'
<1> SUFFICES ASSUME ComponentTypeOK, ComponentInv, [ComponentNext]_componentVars PROVE ComponentInv'
  BY Zenon
<1>1. CASE ComponentCreateFails
  BY Zenon, <1>1, SameKeeps DEF ComponentCreateFails
<1>2. ASSUME NEW r \in Refs, NEW c \in CompIds, ComponentCreate(r, c) PROVE ComponentInv'
  BY Zenon, <1>2, CreateKeeps
<1>3. ASSUME NEW r \in Refs, NEW from \in Refs, ComponentAcquire(r, from) PROVE ComponentInv'
  BY ZenonT(30), <1>3, AcquireKeeps DEF ComponentAcquire, life
<1>4. ASSUME NEW r \in Refs, NEW from \in Refs, PortAcquire(r, from) PROVE ComponentInv'
  BY ZenonT(30), <1>4, AcquireKeeps DEF PortAcquire, life
<1>5. ASSUME NEW r \in Refs, ComponentRelease(r) PROVE ComponentInv'
  BY Zenon, <1>5, ReleaseKeeps
<1>6. ASSUME NEW r \in Refs, ComponentClosed(r) PROVE ComponentInv'
  BY Zenon, <1>6, ClosedKeeps
<1>7. ASSUME NEW r \in Refs, PortRelease(r) PROVE ComponentInv'
  BY Zenon, <1>7, PortReleaseKeeps
<1>8. ASSUME NEW r \in Refs, ComponentDestroy(r) PROVE ComponentInv'
  BY Zenon, <1>8, DestroyKeeps
<1>9. ASSUME NEW r \in Refs, ComponentEnable(r) \/ ComponentDisable(r) PROVE ComponentInv'
  BY Zenon, <1>9, SameKeeps DEF ComponentEnable, ComponentDisable, life
<1>10. CASE UNCHANGED componentVars
  BY Zenon, <1>10, SameKeeps DEF componentVars
<1> QED BY Zenon, <1>1, <1>2, <1>3, <1>4, <1>5, <1>6, <1>7, <1>8, <1>9, <1>10 DEF ComponentNext

\* There is nothing at first.
LEMMA ComponentInitially == ComponentInit => ComponentTypeOK /\ ComponentInv
<1> SUFFICES ASSUME ComponentInit PROVE ComponentTypeOK /\ ComponentInv
  BY Zenon
<1>1. ComponentTypeOK
  BY Zenon DEF ComponentInit, ComponentTypeOK, RefStates
<1>2. Counted
  <2>1. \A c \in CompIds, k \in {"comp", "port"} : Cardinality(Held(c, k)) = 0
    BY SomeHeld, HeldFinite DEF ComponentInit
  <2> QED BY Zenon, <2>1 DEF ComponentInit, Counted
<1>3. ClosingAlone /\ RefsAlive /\ DestroyedAlone /\ ComponentNotLeaked
  BY Zenon DEF ComponentInit, ClosingAlone, RefsAlive, DestroyedAlone, ComponentNotLeaked
<1> QED BY Zenon, <1>1, <1>2, <1>3 DEF ComponentInv

-----------------------------------------------------------------------------
\* The invariant holds in every behaviour.
THEOREM ComponentInvariant == ComponentSpec => [](ComponentTypeOK /\ ComponentInv)
<1>1. ComponentTypeOK /\ ComponentInv /\ [ComponentNext]_componentVars => (ComponentTypeOK /\ ComponentInv)'
  BY Zenon, ComponentTypeStep, ComponentInvStep DEF ComponentInv
<1> QED BY ComponentInitially, <1>1, PTL DEF ComponentSpec

\* mmal_component_destroy_internal() is entered by one thread only, the last one to have anything of the component,
\* whichever of mmal_component_release() and mmal_port_release() it comes from.
THEOREM DestroyedAloneHolds == ComponentSpec => []DestroyedAlone
<1>1. ComponentInv => DestroyedAlone
  BY Zenon DEF ComponentInv
<1> QED BY <1>1, ComponentInvariant, PTL

\* A reference to a component or to one of its ports keeps the component allocated.
THEOREM ReferencedAliveHolds == ComponentSpec => []ReferencedAlive
<1>1. ComponentInv => ReferencedAlive
  BY Zenon DEF ComponentInv, RefsAlive, ReferencedAlive
<1> QED BY <1>1, ComponentInvariant, PTL

\* mmal_component_release() and mmal_port_release() never leave the destruction to each other.
THEOREM ComponentNotLeakedHolds == ComponentSpec => []ComponentNotLeaked
<1>1. ComponentInv => ComponentNotLeaked
  BY Zenon DEF ComponentInv
<1> QED BY <1>1, ComponentInvariant, PTL

\* mmal_core_deinit() takes VCOS and the logging down only after the last component: creations that fail may leave
\* mmal_core_refcount too high, never too low.
THEOREM CoreOutlivesHolds == ComponentSpec => []CoreOutlives
<1> DEFINE Alive == {c \in CompIds : alive[c]}
<1>1. ComponentInit => CoreOutlives
  <2> SUFFICES ASSUME ComponentInit PROVE CoreOutlives
    BY Zenon
  <2>1. Alive = {}
    BY Zenon DEF ComponentInit
  <2> QED BY <2>1, FS_EmptySet DEF ComponentInit, CoreOutlives
<1>2. ComponentTypeOK /\ ComponentInv /\ CoreOutlives /\ [ComponentNext]_componentVars => CoreOutlives'
  <2> SUFFICES ASSUME ComponentTypeOK, ComponentInv, CoreOutlives, [ComponentNext]_componentVars PROVE CoreOutlives'
    BY Zenon
  <2>1. IsFiniteSet(Alive) /\ Cardinality(Alive) \in Nat /\ coreRefs >= Cardinality(Alive) /\ coreRefs \in Nat
    <3>1. Alive \subseteq CompIds
      BY Zenon
    <3>2. IsFiniteSet(Alive)
      BY Zenon, <3>1, FS_Subset, ComponentAssumption
    <3> QED BY Zenon, <3>2, FS_CardinalityType DEF CoreOutlives, ComponentTypeOK
  <2>2. ASSUME UNCHANGED alive, coreRefs' \in {coreRefs, coreRefs + 1} PROVE CoreOutlives'
    BY <2>1, <2>2 DEF CoreOutlives
  <2>3. ASSUME NEW r \in Refs, NEW c \in CompIds, ComponentCreate(r, c) PROVE CoreOutlives'
    <3>1. Alive' = Alive \cup {c} /\ c \notin Alive /\ coreRefs' = coreRefs + 1
      BY Zenon, <2>3 DEF ComponentCreate, ComponentTypeOK
    <3>2. Cardinality(Alive') = Cardinality(Alive) + 1
      BY Zenon, <2>1, <3>1, FS_AddElement
    <3> QED BY SMTT(30), <2>1, <3>1, <3>2 DEF CoreOutlives
  <2>4. ASSUME NEW r \in Refs, ComponentDestroy(r) PROVE CoreOutlives'
    <3>1. CASE UNCHANGED <<alive, coreRefs>>
      BY Zenon, <2>2, <3>1
    <3>2. CASE alive' = [alive EXCEPT ![refOf[r]] = FALSE] /\ coreRefs' = IF coreRefs = 0 THEN 0 ELSE coreRefs - 1
      <4>1. refOf[r] \in Alive
        BY Zenon, <2>4 DEF ComponentDestroy, ComponentInv, RefsAlive
      <4>2. Alive' = Alive \ {refOf[r]}
        BY Zenon, <3>2, <4>1 DEF ComponentTypeOK
      <4>3. Cardinality(Alive') = Cardinality(Alive) - 1 /\ IsFiniteSet(Alive')
        BY SMTT(30), <2>1, <4>1, <4>2, FS_RemoveElement
      <4>4. Cardinality(Alive') \in Nat
        BY Zenon, <4>3, FS_CardinalityType
      <4>5. coreRefs' >= Cardinality(Alive')
        BY <2>1, <3>2, <4>3, <4>4
      <4> QED BY Zenon, <4>5 DEF CoreOutlives
    <3> QED BY Zenon, <2>4, <3>1, <3>2 DEF ComponentDestroy
  <2>5. CASE ComponentCreateFails
    BY Zenon, <2>2, <2>5 DEF ComponentCreateFails
  <2>6. ASSUME NEW r \in Refs, NEW from \in Refs, ComponentAcquire(r, from) \/ PortAcquire(r, from) PROVE CoreOutlives'
    BY Zenon, <2>2, <2>6 DEF ComponentAcquire, PortAcquire, life
  <2>7. ASSUME NEW r \in Refs, ComponentRelease(r) \/ ComponentClosed(r) \/ PortRelease(r) PROVE CoreOutlives'
    BY Zenon, <2>2, <2>7 DEF ComponentRelease, ComponentClosed, PortRelease, life
  <2>8. ASSUME NEW r \in Refs, ComponentEnable(r) \/ ComponentDisable(r) PROVE CoreOutlives'
    BY Zenon, <2>2, <2>8 DEF ComponentEnable, ComponentDisable, life
  <2>9. CASE UNCHANGED componentVars
    BY Zenon, <2>2, <2>9 DEF componentVars
  <2> QED BY Zenon, <2>3, <2>4, <2>5, <2>6, <2>7, <2>8, <2>9 DEF ComponentNext
<1> QED BY <1>1, <1>2, ComponentInvariant, PTL DEF ComponentSpec

\* An enabled component has no port left paused, also when earlier attempts to enable it stopped halfway.
THEOREM EnabledResumedHolds == ComponentSpec => []EnabledResumed
<1> DEFINE Resumed == \A c \in CompIds : enabled[c] => paused[c] = {}
<1>1. ComponentInit => Resumed
  BY Zenon DEF ComponentInit
<1>2. ComponentTypeOK /\ ComponentInv /\ Resumed /\ [ComponentNext]_componentVars => Resumed'
  <2> SUFFICES ASSUME ComponentTypeOK, ComponentInv, Resumed, [ComponentNext]_componentVars PROVE Resumed'
    BY Zenon
  <2>1. CASE UNCHANGED work
    BY Zenon, <2>1 DEF work
  <2>2. ASSUME NEW r \in Refs, NEW c \in CompIds, ComponentCreate(r, c) PROVE Resumed'
    BY Zenon, <2>2 DEF ComponentCreate, ComponentTypeOK
  <2>3. ASSUME NEW r \in Refs, ComponentEnable(r) PROVE Resumed'
    <3>1. refOf[r] \in CompIds
      BY Zenon, <2>3 DEF ComponentEnable, ComponentInv, RefsAlive
    <3>2. PICK resumed \in SUBSET PortIds :
            /\ paused' = [paused EXCEPT ![refOf[r]] = @ \ resumed]
            /\ enabled' = [enabled EXCEPT ![refOf[r]] = resumed = PortIds]
      BY ZenonT(30), <2>3 DEF ComponentEnable
    <3>3. ASSUME NEW c \in CompIds, enabled'[c] PROVE paused'[c] = {}
      <4>1. CASE c = refOf[r]
        <5>1. resumed = PortIds /\ paused'[c] = paused[c] \ resumed
          BY ZenonT(30), <3>1, <3>2, <3>3, <4>1 DEF ComponentTypeOK
        <5> QED BY Zenon, <5>1 DEF ComponentTypeOK
      <4>2. CASE c # refOf[r]
        BY Zenon, <3>2, <3>3, <4>2 DEF ComponentTypeOK
      <4> QED BY Zenon, <4>1, <4>2
    <3> QED BY Zenon, <3>3
  <2>4. ASSUME NEW r \in Refs, ComponentDisable(r) PROVE Resumed'
    BY Zenon, <2>4 DEF ComponentDisable, ComponentTypeOK, ComponentInv, RefsAlive
  <2>5. ASSUME NEW r \in Refs, NEW from \in Refs, ComponentAcquire(r, from) \/ PortAcquire(r, from) PROVE UNCHANGED work
    BY Zenon, <2>5 DEF ComponentAcquire, PortAcquire
  <2>6. ASSUME NEW r \in Refs, ComponentRelease(r) \/ ComponentClosed(r) \/ PortRelease(r) \/ ComponentDestroy(r)
        PROVE  UNCHANGED work
    BY Zenon, <2>6 DEF ComponentRelease, ComponentClosed, PortRelease, ComponentDestroy
  <2>7. ComponentCreateFails \/ UNCHANGED componentVars => UNCHANGED work
    BY Zenon DEF ComponentCreateFails, componentVars, work
  <2> QED BY Zenon, <2>1, <2>2, <2>3, <2>4, <2>5, <2>6, <2>7 DEF ComponentNext
<1>3. Resumed => EnabledResumed
  BY Zenon DEF EnabledResumed
<1> QED BY <1>1, <1>2, <1>3, ComponentInvariant, PTL DEF ComponentSpec

\* The whole of it, for any number of components and references: a component lives exactly as long as it is
\* referenced, is destroyed by one thread, the core outlives it, and once it is enabled its ports run.
THEOREM ComponentKeptHolds == ComponentSpec => []ComponentKept
<1>1. DestroyedAlone /\ ReferencedAlive /\ ComponentNotLeaked /\ CoreOutlives /\ EnabledResumed => ComponentKept
  BY Zenon DEF ComponentKept
<1> QED BY <1>1, DestroyedAloneHolds, ReferencedAliveHolds, ComponentNotLeakedHolds, CoreOutlivesHolds,
           EnabledResumedHolds, PTL

-----------------------------------------------------------------------------
(* MmalAction: the action of a component *)

\* The mutex belongs to the thread exactly while it runs the action; the thread exists exactly while
\* the action is registered, and leaves only for a client that waits in the join, after the ports
\* were closed; closed ports have no work left.
ActionInv ==
    /\ acThread = "run" <=> acMutex = "thread"
    /\ acThread # "none" <=> acAction
    /\ acQuit <=> acClient = "join"
    /\ acThread = "gone" => acClient = "join"
    /\ acClient = "join" => acAction /\ acClosed
    /\ acClient = "idle" => acSem <= MaxWork
    /\ acClosed \/ ~acAction => acWork = 0
    /\ EveryTriggerRuns

\* Every step keeps the types, if the bound on the posts is known.
LEMMA ActionTypeStep == ASSUME ActionTypeOK, ActionInv, [ActionNext]_actionVars PROVE ActionTypeOK'
<1>1. acAction' \in BOOLEAN /\ acQuit' \in BOOLEAN /\ acClosed' \in BOOLEAN
  BY ZenonT(30) DEF ActionTypeOK, ActionNext, actionVars, ActionRegister, ActionTrigger, ActionWakes, ActionRuns,
     ActionRan,
         ActionDrained, ActionLock, ActionUnlock, ActionDeregister, ActionJoined
<1>2. acSem' \in 0..(MaxWork + 1) /\ acWork' \in 0..MaxWork
  BY SMTT(30), ActionAssumption
     DEF ActionTypeOK, ActionInv, ActionNext, actionVars, ActionRegister, ActionTrigger, ActionWakes, ActionRuns,
         ActionRan, ActionDrained, ActionLock, ActionUnlock, ActionDeregister, ActionJoined
<1>3. /\ acMutex' \in {"free", "client", "thread"} /\ acClient' \in {"idle", "join"}
      /\ acThread' \in {"none", "wait", "lock", "run", "gone"}
  BY Zenon DEF ActionTypeOK, ActionNext, actionVars, ActionRegister, ActionTrigger, ActionWakes, ActionRuns,
     ActionRan,
         ActionDrained, ActionLock, ActionUnlock, ActionDeregister, ActionJoined
<1> QED BY Zenon, <1>1, <1>2, <1>3 DEF ActionTypeOK

\* Every step keeps the invariant.
LEMMA ActionInvStep == ASSUME ActionTypeOK, ActionInv, [ActionNext]_actionVars PROVE ActionInv'
<1> USE ActionAssumption DEF ActionTypeOK, ActionInv, EveryTriggerRuns
<1>1. CASE ActionRegister
  BY <1>1 DEF ActionRegister
<1>2. CASE ActionTrigger
  BY SMTT(30), <1>2 DEF ActionTrigger
<1>3. CASE ActionWakes
  BY <1>3 DEF ActionWakes
<1>4. CASE ActionRuns
  BY Zenon, <1>4 DEF ActionRuns
<1>5. CASE ActionRan
  BY <1>5 DEF ActionRan
<1>6. CASE ActionDrained
  BY <1>6 DEF ActionDrained
<1>7. CASE ActionLock
  BY Zenon, <1>7 DEF ActionLock
<1>8. CASE ActionUnlock
  BY Zenon, <1>8 DEF ActionUnlock
<1>9. CASE ActionDeregister
  BY <1>9 DEF ActionDeregister
<1>10. CASE ActionJoined
  BY <1>10 DEF ActionJoined
<1>11. CASE UNCHANGED actionVars
  BY Zenon, <1>11 DEF actionVars
<1> QED BY ZenonT(30), <1>1, <1>2, <1>3, <1>4, <1>5, <1>6, <1>7, <1>8, <1>9, <1>10, <1>11 DEF ActionNext

\* The types and the invariant hold in every reachable state.
LEMMA ActionInvariant == ActionSpec => [](ActionTypeOK /\ ActionInv)
<1>1. ActionInit => ActionTypeOK
  <2>1. ActionInit => acAction \in BOOLEAN /\ acQuit \in BOOLEAN /\ acClosed \in BOOLEAN
    BY ZenonT(30) DEF ActionInit
  <2> QED BY <2>1, ActionAssumption DEF ActionInit, ActionTypeOK
<1>2. ActionInit => ActionInv
  BY ActionAssumption DEF ActionInit, ActionInv, EveryTriggerRuns
<1> QED BY <1>1, <1>2, ActionTypeStep, ActionInvStep, PTL DEF ActionSpec

\* pf_action() never runs while a client holds the action locked, nor after it was deregistered.
THEOREM ActionExcludedHolds == ActionSpec => []ActionExcluded
<1>1. ActionTypeOK /\ ActionInv => ActionExcluded
  BY Zenon DEF ActionTypeOK, ActionInv, ActionExcluded
<1> QED BY <1>1, ActionInvariant, PTL

\* For every item of work a run of the action is to come.
THEOREM EveryTriggerRunsHolds == ActionSpec => []EveryTriggerRuns
<1>1. ActionInv => EveryTriggerRuns
  BY Zenon DEF ActionInv
<1> QED BY <1>1, ActionInvariant, PTL

\* Both for any number of items of work: the action runs alone, and once for everything it was triggered for.
THEOREM ActionKeptHolds == ActionSpec => []ActionKept
<1>1. ActionExcluded /\ EveryTriggerRuns => ActionKept
  BY Zenon DEF ActionKept
<1> QED BY <1>1, ActionExcludedHolds, EveryTriggerRunsHolds, PTL

-----------------------------------------------------------------------------
(* MmalCxLife: references to a connection *)

PortStates == [peer : [CxPorts -> CxPorts \cup {Unjoined}], on : [CxPorts -> BOOLEAN]]

\* Joined ports name each other, and one of them is an output.
Paired(peer) ==
    \A p \in CxPorts : peer[p] # Unjoined => /\ peer[peer[p]] = p
                                             /\ p \in CxOutputs <=> peer[p] \notin CxOutputs

\* The ports p and q of a tunnel are taken apart.
Parted(peer, p) == [peer EXCEPT ![p] = Unjoined, ![peer[p]] = Unjoined]

-----------------------------------------------------------------------------
\* The ends of a connection are ports, and differ.
LEMMA Ends == \A c \in CxObjects : CxOut[c] \in CxOutputs /\ CxIn[c] \in CxPorts /\ CxOut[c] \in CxPorts /\ CxIn[c] \notin CxOutputs
BY Zenon, CxLifeAssumption DEF CxObjects, CxPorts, CxOutputs, CxInputs

\* Switching ports on or off leaves joined what is joined.
LEMMA SwitchedPorts ==
    ASSUME NEW ports \in PortStates, NEW S
    PROVE  /\ Switched(ports, S, TRUE) \in PortStates /\ Switched(ports, S, TRUE).peer = ports.peer
           /\ Switched(ports, S, FALSE) \in PortStates /\ Switched(ports, S, FALSE).peer = ports.peer
BY ZenonT(30) DEF PortStates, Switched

\* An outcome is a status and a state of the ports.
LEMMA OutcomeFields == \A ok, ports : Outcome(ok, ports).ok = ok /\ Outcome(ok, ports).ports = ports
BY Zenon DEF Outcome

LEMMA OffPorts ==
    ASSUME NEW ports \in PortStates, NEW p \in CxPorts, NEW d \in PortOffOutcomes(ports, p)
    PROVE  d.ports \in PortStates /\ d.ports.peer = ports.peer /\ d.ok \in BOOLEAN
<1> DEFINE q == ports.peer[p]
<1>1. \/ d = Outcome(FALSE, ports) \/ d = Outcome(TRUE, Switched(ports, {p, q}, FALSE))
      \/ d = Outcome(FALSE, Switched(ports, {p, q} \cap CxOutputs, FALSE))
  BY ZenonT(30) DEF PortOffOutcomes
<1>2. CASE d = Outcome(FALSE, ports)
  BY ZenonT(30), <1>2, OutcomeFields
<1>3. CASE d = Outcome(TRUE, Switched(ports, {p, q}, FALSE))
  <2>1. d.ports = Switched(ports, {p, q}, FALSE) /\ d.ok \in BOOLEAN
    BY ZenonT(30), <1>3, OutcomeFields
  <2> QED BY ZenonT(30), <2>1, SwitchedPorts
<1>4. CASE d = Outcome(FALSE, Switched(ports, {p, q} \cap CxOutputs, FALSE))
  <2>1. d.ports = Switched(ports, {p, q} \cap CxOutputs, FALSE) /\ d.ok \in BOOLEAN
    BY ZenonT(30), <1>4, OutcomeFields
  <2> QED BY ZenonT(30), <2>1, SwitchedPorts
<1> QED BY ZenonT(30), <1>1, <1>2, <1>3, <1>4

LEMMA OnPorts ==
    ASSUME NEW ports \in PortStates, NEW p \in CxPorts,
           NEW d \in PortOnOutcomes(ports, p, TRUE) \cup PortOnOutcomes(ports, p, FALSE)
    PROVE  d.ports \in PortStates /\ d.ports.peer = ports.peer /\ d.ok \in BOOLEAN
<1> DEFINE q == ports.peer[p]
<1>1. \/ d = Outcome(FALSE, ports) \/ d = Outcome(FALSE, Switched(ports, {p, q}, FALSE))
      \/ d = Outcome(TRUE, Switched(ports, {p, q}, TRUE))
  BY ZenonT(30) DEF PortOnOutcomes
<1>2. CASE d = Outcome(FALSE, ports)
  BY ZenonT(30), <1>2, OutcomeFields
<1>3. CASE d = Outcome(FALSE, Switched(ports, {p, q}, FALSE))
  <2>1. d.ports = Switched(ports, {p, q}, FALSE) /\ d.ok \in BOOLEAN
    BY ZenonT(30), <1>3, OutcomeFields
  <2> QED BY ZenonT(30), <2>1, SwitchedPorts
<1>4. CASE d = Outcome(TRUE, Switched(ports, {p, q}, TRUE))
  <2>1. d.ports = Switched(ports, {p, q}, TRUE) /\ d.ok \in BOOLEAN
    BY ZenonT(30), <1>4, OutcomeFields
  <2> QED BY ZenonT(30), <2>1, SwitchedPorts
<1> QED BY ZenonT(30), <1>1, <1>2, <1>3, <1>4

\* So does enabling or disabling a connection.
LEMMA CxOffPorts ==
    ASSUME NEW ports \in PortStates, NEW c \in CxObjects, NEW d \in CxOffOutcomes(c, ports)
    PROVE  d.ports \in PortStates /\ d.ports.peer = ports.peer /\ d.ok \in BOOLEAN
<1>1. CASE clTunnel[c]
  BY Zenon, <1>1, Ends, OffPorts DEF CxOffOutcomes
<1>2. CASE ~clTunnel[c] /\ d \in PortOffOutcomes(ports, CxIn[c])
  BY Zenon, <1>2, Ends, OffPorts
<1>3. ASSUME NEW e \in PortOffOutcomes(ports, CxIn[c]), d \in PortOffOutcomes(e.ports, CxOut[c])
      PROVE  d.ports \in PortStates /\ d.ports.peer = ports.peer /\ d.ok \in BOOLEAN
  <2>1. e.ports \in PortStates /\ e.ports.peer = ports.peer
    BY Zenon, Ends, OffPorts
  <2> QED BY Zenon, <1>3, <2>1, Ends, OffPorts
<1> QED BY Zenon, <1>1, <1>2, <1>3 DEF CxOffOutcomes

LEMMA CxOnPorts ==
    ASSUME NEW ports \in PortStates, NEW c \in CxObjects, NEW d \in CxOnOutcomes(c, ports)
    PROVE  d.ports \in PortStates /\ d.ports.peer = ports.peer /\ d.ok \in BOOLEAN
<1> DEFINE Good(e) == e.ports \in PortStates /\ e.ports.peer = ports.peer /\ e.ok \in BOOLEAN
<1> DEFINE output == PortOnOutcomes(ports, CxOut[c], TRUE)
<1> DEFINE both == UNION {PortOnOutcomes(e.ports, CxIn[c], TRUE) : e \in {x \in output : x.ok}}
<1>1. CASE clTunnel[c]
  BY ZenonT(30), <1>1, Ends, OnPorts DEF CxOnOutcomes
<1>2. ASSUME NEW e \in output PROVE Good(e)
  BY ZenonT(30), Ends, OnPorts
<1>3. ASSUME NEW e \in both PROVE Good(e)
  <2>1. PICK f \in output : e \in PortOnOutcomes(f.ports, CxIn[c], TRUE)
    BY ZenonT(30)
  <2>2. f.ports \in PortStates /\ f.ports.peer = ports.peer
    BY ZenonT(30), <1>2
  <2>3. CxIn[c] \in CxPorts
    BY Zenon, Ends
  <2>4. e.ports \in PortStates /\ e.ports.peer = f.ports.peer /\ e.ok \in BOOLEAN
    BY ZenonT(30), <2>1, <2>2, <2>3, OnPorts
  <2> QED BY Zenon, <2>2, <2>4
<1>4. ASSUME NEW e \in both, NEW f \in PortOffOutcomes(e.ports, CxOut[c]) PROVE Good(Outcome(FALSE, f.ports))
  <2>1. e.ports \in PortStates /\ e.ports.peer = ports.peer
    BY ZenonT(30), <1>3
  <2>2. f.ports \in PortStates /\ f.ports.peer = ports.peer
    BY <2>1, Ends, OffPorts
  <2> QED BY Zenon, <2>2 DEF Outcome
<1>5. Good(Outcome(FALSE, ports))
  BY Zenon DEF Outcome
<1>6. CASE ~clTunnel[c]
  <2>1. \/ d = Outcome(FALSE, ports) \/ d \in both \/ d \in output
        \/ \E e \in both : \E f \in PortOffOutcomes(e.ports, CxOut[c]) : d = Outcome(FALSE, f.ports)
    <3> DEFINE undone == {{Outcome(FALSE, e.ports) : e \in PortOffOutcomes(f.ports, CxOut[c])} : f \in {x \in both : ~x.ok}}
    <3>1. d \in {Outcome(FALSE, ports)} \cup {e \in both : e.ok} \cup {e \in output : ~e.ok} \cup UNION undone
      BY ZenonT(30), <1>6 DEF CxOnOutcomes
    <3>2. ASSUME d \in UNION undone
          PROVE  \E e \in both : \E f \in PortOffOutcomes(e.ports, CxOut[c]) : d = Outcome(FALSE, f.ports)
      <4> HIDE DEF both
      <4> QED BY ZenonT(30), <3>2
    <3> HIDE DEF both, output, undone
    <3> QED BY ZenonT(30), <3>1, <3>2
  <2> HIDE DEF Good, both, output
  <2>3. Good(d)
    BY ZenonT(30), <1>2, <1>3, <1>4, <1>5, <2>1
  <2> QED BY Zenon, <2>3 DEF Good
<1> QED BY Zenon, <1>1, <1>6

\* mmal_port_disconnect() takes the two ports of a tunnel apart, or does not.
LEMMA PartPorts ==
    ASSUME NEW ports \in PortStates, Paired(ports.peer), NEW p \in CxPorts, NEW d \in PortPart(ports, p)
    PROVE  /\ d.ports \in PortStates
           /\ \/ d.ports.peer = ports.peer
              \/ ports.peer[p] # Unjoined /\ d.ports.peer = Parted(ports.peer, p)
<1> DEFINE q == ports.peer[p]
<1> DEFINE disabled == IF ports.on[p] THEN PortOffOutcomes(ports, p) ELSE {Outcome(TRUE, ports)}
<1>1. ASSUME NEW e \in disabled PROVE e.ports \in PortStates /\ e.ports.peer = ports.peer
  <2>1. CASE ports.on[p]
    BY Zenon, <2>1, OffPorts
  <2>2. CASE ~ports.on[p]
    <3>1. e = Outcome(TRUE, ports)
      BY Zenon, <2>2
    <3> HIDE DEF disabled
    <3>2. e.ports = ports
      BY Zenon, <3>1 DEF Outcome
    <3> QED BY Zenon, <3>2
  <2> QED BY Zenon, <2>1, <2>2
<1>2. CASE q = Unjoined
  <2>1. d = Outcome(FALSE, ports)
    BY Zenon, <1>2 DEF PortPart
  <2> QED BY ZenonT(30), <2>1, OutcomeFields
<1>3. CASE q # Unjoined
  <2>1. \/ d \in disabled
        \/ \E e \in disabled : d = Outcome(FALSE, e.ports)
        \/ \E e \in disabled : d = Outcome(TRUE, Peered(e.ports, p, q, Unjoined, Unjoined))
    <3>1. d \in {e \in disabled : ~e.ok} \cup {Outcome(FALSE, e.ports) : e \in disabled} \cup
               {Outcome(TRUE, Peered(e.ports, p, q, Unjoined, Unjoined)) : e \in {x \in disabled : x.ok}}
      BY ZenonT(30), <1>3 DEF PortPart
    <3> HIDE DEF disabled
    <3> QED BY ZenonT(30), <3>1
  <2>2. CASE d \in disabled
    BY ZenonT(30), <1>1, <2>2
  <2>3. ASSUME NEW e \in disabled, d = Outcome(FALSE, e.ports)
        PROVE  d.ports \in PortStates /\ d.ports.peer = ports.peer
    <3>1. d.ports = e.ports
      BY ZenonT(30), <2>3, OutcomeFields
    <3> QED BY ZenonT(30), <1>1, <3>1
  <2>4. ASSUME NEW e \in disabled, d = Outcome(TRUE, Peered(e.ports, p, q, Unjoined, Unjoined))
        PROVE  d.ports \in PortStates /\ d.ports.peer = Parted(ports.peer, p)
    <3>1. d.ports = Peered(e.ports, p, q, Unjoined, Unjoined)
      BY ZenonT(30), <2>4, OutcomeFields
    <3>2. e.ports \in PortStates /\ e.ports.peer = ports.peer
      BY ZenonT(30), <1>1
    <3>3. q \in CxPorts
      BY Zenon, <1>3 DEF PortStates
    <3>4. d.ports.peer = Parted(ports.peer, p) /\ d.ports.on = e.ports.on
      BY Zenon, <3>1, <3>2, <3>3 DEF Peered, Parted, PortStates
    <3>5. d.ports \in PortStates
      <4>1. Parted(ports.peer, p) \in [CxPorts -> CxPorts \cup {Unjoined}]
        BY Zenon, <3>3 DEF Parted, PortStates
      <4>2. e.ports.on \in [CxPorts -> BOOLEAN]
        BY Zenon, <3>2 DEF PortStates
      <4>3. d.ports = [peer |-> d.ports.peer, on |-> d.ports.on]
        BY ZenonT(30), <3>1, <3>2 DEF Peered, PortStates
      <4> HIDE DEF q, disabled
      <4> QED BY Zenon, <3>4, <4>1, <4>2, <4>3 DEF PortStates
    <3> QED BY Zenon, <3>4, <3>5
  <2> QED BY ZenonT(30), <1>3, <2>1, <2>2, <2>3, <2>4
<1> QED BY Zenon, <1>2, <1>3

\* Which leaves the other tunnels as they are.
LEMMA PartedPaired ==
    ASSUME NEW ports \in PortStates, Paired(ports.peer), NEW p \in CxOutputs, ports.peer[p] # Unjoined
    PROVE  /\ Paired(Parted(ports.peer, p))
           /\ \A o \in CxOutputs \ {p} : Parted(ports.peer, p)[o] = ports.peer[o]
<1> DEFINE peer == ports.peer
<1> DEFINE q == peer[p]
<1>1. p \in CxPorts /\ q \in CxPorts /\ q \notin CxOutputs /\ peer[q] = p /\ p # q
  BY Zenon DEF PortStates, Paired, CxPorts
<1>2. \A r \in CxPorts : Parted(peer, p)[r] = (IF r = p \/ r = q THEN Unjoined ELSE peer[r])
  BY Zenon, <1>1 DEF Parted, PortStates
<1>3. \A r \in CxPorts : peer[r] # Unjoined /\ r # p /\ r # q => peer[r] \in CxPorts /\ peer[r] # p /\ peer[r] # q
  BY Zenon, <1>1 DEF PortStates, Paired
<1>4. Paired(Parted(peer, p))
  <2> SUFFICES ASSUME NEW r \in CxPorts, Parted(peer, p)[r] # Unjoined
               PROVE  /\ Parted(peer, p)[Parted(peer, p)[r]] = r
                      /\ r \in CxOutputs <=> Parted(peer, p)[r] \notin CxOutputs
    BY Zenon DEF Paired
  <2>1. r # p /\ r # q /\ Parted(peer, p)[r] = peer[r] /\ peer[r] # Unjoined
    BY Zenon, <1>2
  <2>2. peer[r] \in CxPorts /\ peer[r] # p /\ peer[r] # q
    BY Zenon, <1>3, <2>1
  <2>3. Parted(peer, p)[peer[r]] = peer[peer[r]]
    BY Zenon, <1>2, <2>2
  <2> QED BY Zenon, <2>1, <2>3 DEF Paired
<1>5. \A o \in CxOutputs \ {p} : Parted(peer, p)[o] = peer[o]
  BY Zenon, <1>1, <1>2 DEF CxPorts
<1> QED BY Zenon, <1>4, <1>5

\* mmal_port_connect() joins two ports that were free, an output and an input.
LEMMA JoinPorts ==
    ASSUME NEW ports \in PortStates, Paired(ports.peer), NEW c \in CxObjects,
           NEW d \in PortJoin(ports, CxOut[c], CxIn[c])
    PROVE  /\ d.ports \in PortStates /\ d.ok \in BOOLEAN /\ Paired(d.ports.peer)
           /\ \A o \in CxOutputs : ports.peer[o] # Unjoined => d.ports.peer[o] = ports.peer[o]
<1> DEFINE p == CxOut[c]
<1> DEFINE q == CxIn[c]
<1>1. p \in CxPorts /\ p \in CxOutputs /\ q \in CxPorts /\ q \notin CxOutputs /\ p # q
  BY Zenon, Ends
<1>2. CASE d = Outcome(FALSE, ports)
  <2>1. d.ports = ports /\ d.ok \in BOOLEAN
    BY ZenonT(30), <1>2, OutcomeFields
  <2> QED BY Zenon, <2>1
<1>3. CASE ports.peer[p] = Unjoined /\ ports.peer[q] = Unjoined /\ d = Outcome(TRUE, Peered(ports, p, q, q, p))
  <2>1. d.ports = Peered(ports, p, q, q, p) /\ d.ok \in BOOLEAN
    BY ZenonT(30), <1>3, OutcomeFields
  <2> DEFINE peer == [ports.peer EXCEPT ![p] = q, ![q] = p]
  <2>2. d.ports.peer = peer /\ d.ports.on = ports.on /\ d.ports = [peer |-> d.ports.peer, on |-> d.ports.on]
    BY ZenonT(30), <1>1, <2>1 DEF Peered, PortStates
  <2>3. peer \in [CxPorts -> CxPorts \cup {Unjoined}]
    BY Zenon, <1>1 DEF PortStates
  <2>4. d.ports \in PortStates
    <3>1. ports.on \in [CxPorts -> BOOLEAN]
      BY Zenon DEF PortStates
    <3> HIDE DEF p, q, peer
    <3> QED BY Zenon, <2>2, <2>3, <3>1 DEF PortStates
  <2>5. \A r \in CxPorts : peer[r] = (IF r = q THEN p ELSE IF r = p THEN q ELSE ports.peer[r])
    BY Zenon, <1>1 DEF PortStates
  <2>6. Paired(peer)
    <3> HIDE DEF p, q, peer
    <3> SUFFICES ASSUME NEW r \in CxPorts, peer[r] # Unjoined
                 PROVE  peer[peer[r]] = r /\ (r \in CxOutputs <=> peer[r] \notin CxOutputs)
      BY Zenon DEF Paired
    <3>1. CASE r \in {p, q}
      BY Zenon, <1>1, <2>5, <3>1
    <3>2. CASE r \notin {p, q}
      <4>1. peer[r] = ports.peer[r]
        BY Zenon, <2>5, <3>2
      <4>2. ports.peer[r] \in CxPorts
        BY Zenon, <4>1 DEF PortStates
      <4>3. ports.peer[ports.peer[r]] = r /\ (r \in CxOutputs <=> ports.peer[r] \notin CxOutputs)
        BY Zenon, <4>1 DEF Paired
      <4>4. r # Unjoined
        BY Zenon, CxLifeAssumption
      <4>5. ports.peer[r] # p /\ ports.peer[r] # q
        BY Zenon, <1>3, <4>3, <4>4 DEF p, q
      <4> QED BY Zenon, <2>5, <4>1, <4>2, <4>3, <4>5
    <3> QED BY Zenon, <3>1, <3>2
  <2>7. \A o \in CxOutputs : ports.peer[o] # Unjoined => peer[o] = ports.peer[o]
    BY Zenon, <1>1, <1>3, <2>5 DEF CxPorts
  <2> HIDE DEF p, q, peer
  <2> QED BY Zenon, <2>1, <2>2, <2>4, <2>6, <2>7
<1>4. \/ d = Outcome(FALSE, ports)
      \/ ports.peer[p] = Unjoined /\ ports.peer[q] = Unjoined /\ d = Outcome(TRUE, Peered(ports, p, q, q, p))
  BY ZenonT(30) DEF PortJoin
<1> QED BY ZenonT(30), <1>2, <1>3, <1>4

\* What mmal_connection_destroy_internal() leaves of the tunnels.
LEMMA DetachedPorts ==
    ASSUME NEW ports \in PortStates, Paired(ports.peer), NEW c \in CxObjects, NEW tunnel \in BOOLEAN,
           NEW after \in Detached(c, tunnel, ports)
    PROVE  /\ after \in PortStates /\ Paired(after.peer)
           /\ \A o \in CxOutputs : (o = CxOut[c] /\ tunnel) \/ after.peer[o] = ports.peer[o]
<1>1. CASE ~tunnel
  BY Zenon, <1>1 DEF Detached
<1>2. CASE tunnel
  <2>1. PICK d \in PortPart(ports, CxOut[c]) : after = d.ports
    BY Zenon, <1>2 DEF Detached
  <2>2. CxOut[c] \in CxPorts /\ CxOut[c] \in CxOutputs
    BY Zenon, Ends
  <2>3. /\ after \in PortStates
        /\ \/ after.peer = ports.peer
           \/ ports.peer[CxOut[c]] # Unjoined /\ after.peer = Parted(ports.peer, CxOut[c])
    BY Zenon, <2>1, <2>2, PartPorts
  <2>4. CASE after.peer = ports.peer
    BY Zenon, <2>3, <2>4
  <2>5. CASE ports.peer[CxOut[c]] # Unjoined /\ after.peer = Parted(ports.peer, CxOut[c])
    BY <1>2, <2>2, <2>3, <2>5, PartedPaired
  <2> QED BY Zenon, <2>3, <2>4, <2>5
<1> QED BY Zenon, <1>1, <1>2

-----------------------------------------------------------------------------
\* What the proofs need beside the types: joined ports are pairs, a reference keeps the connection, and what nobody
\* has a reference to is gone or accounted for.
ClInv ==
    /\ ClTypeOK /\ Paired(clPorts.peer)
    /\ \A c \in CxObjects : clHolders[c] > 0 => cl[c] = "live" /\ clRefs[c] = clHolders[c]
    /\ LeakExplained

\* What a step does to the output ports: none of those that are joined changes, but the one of connection d.
OutputsKept(d, cut) ==
    \A o \in CxOutputs : clPorts.peer[o] # Unjoined => (o = CxOut[d] /\ cut) \/ clPorts'.peer[o] = clPorts.peer[o]

\* The types in a form the provers like.
LEMMA ClTypes ==
    ClTypeOK <=> /\ cl \in [CxObjects -> {"unborn", "live", "freed"}] /\ clRefs \in [CxObjects -> 0 .. CxMaxHolders]
                 /\ clTunnel \in [CxObjects -> BOOLEAN] /\ clOn \in [CxObjects -> BOOLEAN]
                 /\ clRefused \in [CxObjects -> BOOLEAN]
                 /\ clHolders \in [CxObjects -> 0 .. CxMaxHolders] /\ clPorts \in PortStates
BY Zenon DEF ClTypeOK, PortStates

\* mmal_connection_destroy_internal() frees the connection or leaves it enabled.
LEMMA DestroyDone ==
    ASSUME ClTypeOK, Paired(clPorts.peer), NEW c \in CxObjects, DestroyInternal(c)
    PROVE  /\ clPorts' \in PortStates /\ Paired(clPorts'.peer)
           /\ \/ /\ clOn' = [clOn EXCEPT ![c] = FALSE] /\ cl' = [cl EXCEPT ![c] = "freed"]
                 /\ OutputsKept(c, clTunnel[c])
              \/ /\ clOn' = [clOn EXCEPT ![c] = TRUE] /\ UNCHANGED cl
                 /\ OutputsKept(c, FALSE)
<1>1. clPorts \in PortStates /\ clTunnel[c] \in BOOLEAN
  BY Zenon, ClTypes
<1>2. PICK d \in IF clOn[c] THEN CxOffOutcomes(c, clPorts) ELSE {Outcome(TRUE, clPorts)} :
        /\ clOn' = [clOn EXCEPT ![c] = ~d.ok]
        /\ cl' = [cl EXCEPT ![c] = IF d.ok THEN "freed" ELSE @]
        /\ clPorts' \in IF d.ok THEN Detached(c, clTunnel[c], d.ports) ELSE {d.ports}
  BY ZenonT(30) DEF DestroyInternal
<1>3. d.ports \in PortStates /\ d.ports.peer = clPorts.peer /\ d.ok \in BOOLEAN
  <2>1. CASE clOn[c]
    BY Zenon, <1>1, <1>2, <2>1, CxOffPorts
  <2>2. CASE ~clOn[c]
    <3>1. d = Outcome(TRUE, clPorts)
      BY Zenon, <1>2, <2>2
    <3>2. d.ports = clPorts /\ d.ok \in BOOLEAN
      BY ZenonT(30), <3>1, OutcomeFields
    <3> QED BY Zenon, <1>1, <3>2
  <2> QED BY Zenon, <2>1, <2>2
<1>4. CASE d.ok
  <2>1. clPorts' \in Detached(c, clTunnel[c], d.ports)
    BY Zenon, <1>2, <1>4
  <2>2. /\ clPorts' \in PortStates /\ Paired(clPorts'.peer)
        /\ \A o \in CxOutputs : (o = CxOut[c] /\ clTunnel[c]) \/ clPorts'.peer[o] = d.ports.peer[o]
    BY Zenon, <1>1, <1>3, <2>1, DetachedPorts
  <2>3. OutputsKept(c, clTunnel[c])
    BY Zenon, <1>3, <2>2 DEF OutputsKept
  <2>4. clOn' = [clOn EXCEPT ![c] = FALSE]
    BY ZenonT(30), <1>2, <1>4
  <2>5. cl' = [cl EXCEPT ![c] = "freed"]
    BY Zenon, <1>2, <1>4
  <2> QED BY Zenon, <2>2, <2>3, <2>4, <2>5
<1>5. CASE ~d.ok
  <2>1. clPorts' = d.ports
    BY Zenon, <1>2, <1>5
  <2>2. OutputsKept(c, FALSE)
    BY Zenon, <1>3, <2>1 DEF OutputsKept
  <2>3. clOn' = [clOn EXCEPT ![c] = TRUE]
    BY ZenonT(30), <1>2, <1>5
  <2>4. cl' = [cl EXCEPT ![c] = cl[c]]
    BY Zenon, <1>2, <1>5
  <2>5. UNCHANGED cl
    BY Zenon, <2>4, ClTypes
  <2> QED BY ZenonT(30), <1>3, <2>1, <2>2, <2>3, <2>5
<1> QED BY ZenonT(30), <1>3, <1>4, <1>5

\* One connection changes; the others keep what the invariant says of them.
LEMMA OthersKeep ==
    ASSUME ClInv, ClTypeOK', Paired(clPorts'.peer), NEW c \in CxObjects,
           \A e \in CxObjects \ {c} : /\ cl'[e] = cl[e] /\ clRefs'[e] = clRefs[e] /\ clHolders'[e] = clHolders[e]
                                      /\ clOn'[e] = clOn[e] /\ clRefused'[e] = clRefused[e],
           clHolders'[c] > 0 => cl'[c] = "live" /\ clRefs'[c] = clHolders'[c],
           cl'[c] = "live" /\ clHolders'[c] = 0 => clOn'[c] \/ clRefused'[c]
    PROVE  ClInv'
<1>1. \A e \in CxObjects : clHolders'[e] > 0 => cl'[e] = "live" /\ clRefs'[e] = clHolders'[e]
  BY Zenon DEF ClInv
<1>2. LeakExplained'
  BY Zenon DEF ClInv, LeakExplained
<1> QED BY Zenon, <1>1, <1>2 DEF ClInv

\* A tunnel is cut only where an output port is taken from the connection that is being destroyed.
LEMMA CutFrom ==
    ASSUME ClInv, NEW d \in CxObjects, NEW cut \in BOOLEAN, OutputsKept(d, cut),
           \A e \in CxObjects \ {d} : clTunnel'[e] = clTunnel[e],
           Joined(d) /\ clHolders'[d] > 0 => Joined(d)',
           cut => cl[d] # "freed" /\ cl'[d] = "freed" /\ clTunnel'[d]
    PROVE  CutOnlyBy
<1> SUFFICES ASSUME NEW c \in CxObjects, Joined(c), clHolders'[c] > 0, ~Joined(c)'
             PROVE  \E x \in CxObjects \ {c} : CxOut[x] = CxOut[c] /\ cl[x] # "freed" /\ cl'[x] = "freed" /\ clTunnel'[x]
  BY Zenon DEF CutOnlyBy
<1>1. c # d
  BY Zenon
<1>2. clPorts.peer[CxOut[c]] = CxIn[c] /\ CxIn[c] # Unjoined /\ CxOut[c] \in CxOutputs
  BY Zenon, Ends, CxLifeAssumption DEF Joined
<1>3. clPorts'.peer[CxOut[c]] # clPorts.peer[CxOut[c]]
  BY Zenon, <1>1, <1>2 DEF Joined
<1>4. CxOut[c] = CxOut[d] /\ cut
  BY Zenon, <1>2, <1>3 DEF OutputsKept
<1> QED BY Zenon, <1>1, <1>4

\* mmal_connection_create(), when the connection stays.
LEMMA CreateStep == ASSUME ClInv, NEW c \in CxObjects, Create(c) PROVE ClInv' /\ CutOnlyBy
<1>1. cl[c] = "unborn" /\ clHolders[c] = 0 /\ ClTypeOK /\ clPorts \in PortStates /\ Paired(clPorts.peer)
  BY ClTypes, CxLifeAssumption DEF Create, ClInv
<1>2. PICK tunnel \in BOOLEAN : \E d \in IF tunnel THEN PortJoin(clPorts, CxOut[c], CxIn[c]) ELSE {Outcome(TRUE, clPorts)} :
         /\ clTunnel' = [clTunnel EXCEPT ![c] = tunnel] /\ clPorts' = d.ports
         /\ clRefused' = [clRefused EXCEPT ![c] = ~d.ok]
         /\ clHolders' = [clHolders EXCEPT ![c] = IF d.ok THEN 1 ELSE 0]
  BY ZenonT(30) DEF Create
<1>3. PICK d \in IF tunnel THEN PortJoin(clPorts, CxOut[c], CxIn[c]) ELSE {Outcome(TRUE, clPorts)} :
         /\ clTunnel' = [clTunnel EXCEPT ![c] = tunnel] /\ clPorts' = d.ports
         /\ clRefused' = [clRefused EXCEPT ![c] = ~d.ok]
         /\ clHolders' = [clHolders EXCEPT ![c] = IF d.ok THEN 1 ELSE 0]
  BY ZenonT(30), <1>2
<1>4. /\ d.ports \in PortStates /\ d.ok \in BOOLEAN /\ Paired(d.ports.peer)
      /\ \A o \in CxOutputs : clPorts.peer[o] # Unjoined => d.ports.peer[o] = clPorts.peer[o]
  <2>1. CASE tunnel
    BY Zenon, <1>1, <1>3, <2>1, JoinPorts
  <2>2. CASE ~tunnel
    <3>1. d = Outcome(TRUE, clPorts)
      BY Zenon, <1>3, <2>2
    <3>2. d.ports = clPorts /\ d.ok \in BOOLEAN
      BY ZenonT(30), <3>1, OutcomeFields
    <3> QED BY Zenon, <1>1, <3>2
  <2> QED BY Zenon, <2>1, <2>2
<1>5. OutputsKept(c, FALSE)
  BY Zenon, <1>3, <1>4 DEF OutputsKept
<1>6. cl' = [cl EXCEPT ![c] = "live"] /\ clRefs' = [clRefs EXCEPT ![c] = 1] /\ UNCHANGED clOn
  BY Zenon DEF Create
<1>7. clRefused' \in [CxObjects -> BOOLEAN] /\ clTunnel' \in [CxObjects -> BOOLEAN]
  BY Zenon, <1>1, <1>3, ClTypes
<1>8. clHolders' \in [CxObjects -> 0 .. CxMaxHolders] /\ clRefs' \in [CxObjects -> 0 .. CxMaxHolders]
  <2>1. 0 \in 0 .. CxMaxHolders /\ 1 \in 0 .. CxMaxHolders
    BY CxLifeAssumption
  <2> QED BY Zenon, <1>1, <1>3, <1>6, <2>1, ClTypes
<1>9. cl' \in [CxObjects -> {"unborn", "live", "freed"}] /\ clOn' \in [CxObjects -> BOOLEAN]
  BY Zenon, <1>1, <1>6, ClTypes
<1>10. ClTypeOK'
  BY Zenon, <1>3, <1>4, <1>7, <1>8, <1>9, ClTypes DEF ClTypeOK, PortStates
<1>11. ClInv'
  <2>1. Paired(clPorts'.peer)
    BY Zenon, <1>3, <1>4
  <2>2. \A e \in CxObjects \ {c} : /\ cl'[e] = cl[e] /\ clRefs'[e] = clRefs[e] /\ clHolders'[e] = clHolders[e]
                                   /\ clOn'[e] = clOn[e] /\ clRefused'[e] = clRefused[e]
    BY Zenon, <1>1, <1>3, <1>6, ClTypes
  <2>3. cl'[c] = "live" /\ clRefs'[c] = 1
    BY Zenon, <1>1, <1>6, ClTypes
  <2>4. d.ok => clHolders'[c] = 1
    BY Zenon, <1>1, <1>3, ClTypes
  <2>5. ~d.ok => clHolders'[c] = 0 /\ clRefused'[c]
    BY ZenonT(30), <1>1, <1>3, ClTypes
  <2> QED BY <1>4, <1>10, <2>1, <2>2, <2>3, <2>4, <2>5, OthersKeep
<1>12. CutOnlyBy
  <2>1. ~Joined(c)
    BY <1>1 DEF Joined
  <2>2. \A e \in CxObjects \ {c} : clTunnel'[e] = clTunnel[e]
    BY Zenon, <1>1, <1>3, ClTypes
  <2>3. OutputsKept(c, FALSE) /\ FALSE \in BOOLEAN
    BY ZenonT(30), <1>5
  <2> QED BY ZenonT(30), <2>1, <2>2, <2>3, CutFrom
<1> QED BY Zenon, <1>11, <1>12

\* mmal_connection_create(), when it gives up before the ports are joined.
LEMMA CreateFailsStep == ASSUME ClInv, NEW c \in CxObjects, CreateFails(c) PROVE ClInv' /\ CutOnlyBy
<1>1. cl[c] = "unborn" /\ clHolders[c] = 0 /\ ClTypeOK /\ clPorts \in PortStates /\ Paired(clPorts.peer)
  BY ClTypes, CxLifeAssumption DEF CreateFails, ClInv
<1>2. PICK tunnel \in BOOLEAN : clTunnel' = [clTunnel EXCEPT ![c] = tunnel] /\ clPorts' \in Detached(c, tunnel, clPorts)
  BY ZenonT(30) DEF CreateFails
<1>3. /\ clPorts' \in PortStates /\ Paired(clPorts'.peer)
      /\ \A o \in CxOutputs : (o = CxOut[c] /\ tunnel) \/ clPorts'.peer[o] = clPorts.peer[o]
  BY Zenon, <1>1, <1>2, DetachedPorts
<1>4. cl' = [cl EXCEPT ![c] = "freed"] /\ UNCHANGED <<clRefs, clOn, clHolders, clRefused>>
  BY Zenon DEF CreateFails
<1>5. clTunnel' \in [CxObjects -> BOOLEAN] /\ cl' \in [CxObjects -> {"unborn", "live", "freed"}]
  BY Zenon, <1>1, <1>2, <1>4, ClTypes
<1>6. ClTypeOK'
  BY Zenon, <1>1, <1>3, <1>4, <1>5, ClTypes DEF ClTypeOK, PortStates
<1>7. cl'[c] = "freed" /\ \A e \in CxObjects \ {c} : cl'[e] = cl[e]
  BY Zenon, <1>1, <1>4, ClTypes
<1>8. ClInv'
  BY <1>1, <1>3, <1>4, <1>6, <1>7, OthersKeep
<1>9. CutOnlyBy
  <2>1. ~Joined(c)
    BY <1>1 DEF Joined
  <2>2. \A e \in CxObjects \ {c} : clTunnel'[e] = clTunnel[e]
    BY Zenon, <1>1, <1>2, ClTypes
  <2>3. OutputsKept(c, tunnel)
    BY Zenon, <1>3 DEF OutputsKept
  <2>4. tunnel => clTunnel'[c]
    BY Zenon, <1>1, <1>2, ClTypes
  <2> QED BY Zenon, <1>1, <1>7, <2>1, <2>2, <2>3, <2>4, CutFrom
<1> QED BY Zenon, <1>8, <1>9

\* mmal_connection_enable() and mmal_connection_disable() leave the tunnels joined.
LEMMA SwitchStep == ASSUME ClInv, NEW c \in CxObjects, ClEnable(c) \/ ClDisable(c) PROVE ClInv' /\ CutOnlyBy
<1>1. clHolders[c] > 0 /\ ClTypeOK /\ clPorts \in PortStates /\ Paired(clPorts.peer) /\ UNCHANGED <<cl, clTunnel, clRefs, clHolders, clRefused>>
  BY Zenon, ClTypes DEF ClEnable, ClDisable, ClInv
<1>2. /\ clPorts' \in PortStates /\ clPorts'.peer = clPorts.peer /\ clOn' \in [CxObjects -> BOOLEAN]
      /\ \A e \in CxObjects \ {c} : clOn'[e] = clOn[e]
  <2>1. CASE ClEnable(c)
    <3>1. PICK d \in CxOnOutcomes(c, clPorts) : clPorts' = d.ports /\ clOn' = [clOn EXCEPT ![c] = d.ok]
      BY ZenonT(30), <2>1 DEF ClEnable
    <3>2. d.ports \in PortStates /\ d.ports.peer = clPorts.peer /\ d.ok \in BOOLEAN
      BY Zenon, <1>1, CxOnPorts
    <3> QED BY Zenon, <1>1, <3>1, <3>2, ClTypes
  <2>2. CASE ClDisable(c)
    <3>1. PICK d \in CxOffOutcomes(c, clPorts) : clPorts' = d.ports /\ clOn' = [clOn EXCEPT ![c] = ~d.ok]
      BY ZenonT(30), <2>2 DEF ClDisable
    <3>2. d.ports \in PortStates /\ d.ports.peer = clPorts.peer /\ d.ok \in BOOLEAN
      BY Zenon, <1>1, CxOffPorts
    <3> QED BY Zenon, <1>1, <3>1, <3>2, ClTypes
  <2> QED BY Zenon, <2>1, <2>2
<1>3. ClTypeOK'
  BY Zenon, <1>1, <1>2, ClTypes DEF ClTypeOK, PortStates
<1>4. ClInv'
  <2>1. cl[c] = "live" /\ clRefs[c] = clHolders[c] /\ clHolders[c] # 0
    BY <1>1, ClTypes, CxLifeAssumption DEF ClInv
  <2> QED BY Zenon, <1>1, <1>2, <1>3, <2>1, OthersKeep
<1>5. CutOnlyBy
  <2>1. OutputsKept(c, FALSE) /\ FALSE \in BOOLEAN
    BY Zenon, <1>2 DEF OutputsKept
  <2>2. Joined(c) => Joined(c)'
    BY Zenon, <1>1, <1>2 DEF Joined
  <2> QED BY ZenonT(30), <1>1, <2>1, <2>2, CutFrom
<1> QED BY Zenon, <1>4, <1>5

\* mmal_connection_acquire().
LEMMA AcquireStep == ASSUME ClInv, NEW c \in CxObjects, ClAcquire(c) PROVE ClInv' /\ CutOnlyBy
<1>1. /\ clHolders[c] \in 1 .. CxMaxHolders - 1 /\ ClTypeOK /\ Paired(clPorts.peer) /\ UNCHANGED <<cl, clTunnel, clOn, clRefused, clPorts>>
      /\ clRefs' = [clRefs EXCEPT ![c] = clRefs[c] + 1] /\ clHolders' = [clHolders EXCEPT ![c] = clHolders[c] + 1]
  BY Zenon DEF ClAcquire, ClInv
<1>2. cl[c] = "live" /\ clRefs[c] = clHolders[c]
  BY <1>1, CxLifeAssumption DEF ClInv
<1>3. clHolders[c] + 1 \in 0 .. CxMaxHolders /\ clHolders[c] + 1 > 0
  BY <1>1, CxLifeAssumption
<1>4. clRefs' \in [CxObjects -> 0 .. CxMaxHolders] /\ clHolders' \in [CxObjects -> 0 .. CxMaxHolders]
  BY Zenon, <1>1, <1>2, <1>3, ClTypes
<1>5. ClTypeOK'
  BY Zenon, <1>1, <1>4 DEF ClTypeOK
<1>6. /\ clRefs'[c] = clHolders'[c] /\ clHolders'[c] # 0
      /\ \A e \in CxObjects \ {c} : clRefs'[e] = clRefs[e] /\ clHolders'[e] = clHolders[e]
  BY <1>1, <1>2, <1>3, ClTypes
<1>7. ClInv'
  BY Zenon, <1>1, <1>2, <1>5, <1>6, OthersKeep
<1>8. CutOnlyBy
  BY Zenon, <1>1 DEF CutOnlyBy, Joined
<1> QED BY Zenon, <1>7, <1>8

\* mmal_connection_release() and mmal_connection_destroy().
LEMMA ReleaseStep == ASSUME ClInv, NEW c \in CxObjects, ClRelease(c) PROVE ClInv' /\ CutOnlyBy
<1>1. /\ clHolders[c] > 0 /\ ClTypeOK /\ Paired(clPorts.peer) /\ UNCHANGED <<clTunnel, clRefused>>
      /\ clRefs' = [clRefs EXCEPT ![c] = clRefs[c] - 1] /\ clHolders' = [clHolders EXCEPT ![c] = clHolders[c] - 1]
  BY Zenon DEF ClRelease, ClInv
<1>2. cl[c] = "live" /\ clRefs[c] = clHolders[c] /\ clHolders[c] \in 1 .. CxMaxHolders
  BY <1>1, ClTypes, CxLifeAssumption DEF ClInv
<1>3. clHolders[c] - 1 \in 0 .. CxMaxHolders
  BY <1>2, CxLifeAssumption
<1>4. clRefs' \in [CxObjects -> 0 .. CxMaxHolders] /\ clHolders' \in [CxObjects -> 0 .. CxMaxHolders]
  BY Zenon, <1>1, <1>2, <1>3, ClTypes
<1>5. /\ clRefs'[c] = clHolders[c] - 1 /\ clHolders'[c] = clHolders[c] - 1
      /\ \A e \in CxObjects \ {c} : clRefs'[e] = clRefs[e] /\ clHolders'[e] = clHolders[e]
  BY Zenon, <1>1, <1>2, ClTypes
<1>6. CASE clRefs[c] = 1
  <2>1. DestroyInternal(c)
    BY Zenon, <1>6 DEF ClRelease
  <2>2. clHolders'[c] = 0
    BY <1>2, <1>5, <1>6
  <2>3. /\ clPorts' \in PortStates /\ Paired(clPorts'.peer)
        /\ \/ /\ clOn' = [clOn EXCEPT ![c] = FALSE] /\ cl' = [cl EXCEPT ![c] = "freed"]
              /\ OutputsKept(c, clTunnel[c])
           \/ /\ clOn' = [clOn EXCEPT ![c] = TRUE] /\ UNCHANGED cl
              /\ OutputsKept(c, FALSE)
    BY ZenonT(30), <1>1, <2>1, DestroyDone
  <2>4. clOn' \in [CxObjects -> BOOLEAN] /\ \A e \in CxObjects \ {c} : clOn'[e] = clOn[e]
    BY ZenonT(30), <1>1, <2>3, ClTypes
  <2>5. cl' \in [CxObjects -> {"unborn", "live", "freed"}] /\ \A e \in CxObjects \ {c} : cl'[e] = cl[e]
    BY ZenonT(30), <1>1, <2>3, ClTypes
  <2>6. ClTypeOK'
    BY Zenon, <1>1, <1>4, <2>3, <2>4, <2>5, ClTypes DEF ClTypeOK, PortStates
  <2>7. cl'[c] = "freed" \/ clOn'[c]
    BY ZenonT(30), <1>1, <2>3, ClTypes
  <2>8. ClInv'
    BY SMTT(30), <1>1, <1>5, <2>2, <2>3, <2>4, <2>5, <2>6, <2>7, OthersKeep
  <2>9. CutOnlyBy
    <3>1. CASE cl' = [cl EXCEPT ![c] = "freed"] /\ OutputsKept(c, clTunnel[c])
      <4>1. cl'[c] = "freed" /\ cl[c] # "freed" /\ clTunnel[c] \in BOOLEAN /\ clTunnel' = clTunnel
        BY Zenon, <1>1, <1>2, <3>1, ClTypes
      <4>2. ~(clHolders'[c] > 0)
        BY <2>2
      <4> QED BY Zenon, <3>1, <4>1, <4>2, CutFrom
    <3>2. CASE OutputsKept(c, FALSE)
      <4>1. ~(clHolders'[c] > 0)
        BY <2>2
      <4>2. FALSE \in BOOLEAN
        BY Zenon
      <4> QED BY ZenonT(30), <1>1, <3>2, <4>1, <4>2, CutFrom
    <3> QED BY ZenonT(30), <2>3, <3>1, <3>2
  <2> QED BY Zenon, <2>8, <2>9
<1>7. CASE clRefs[c] # 1
  <2>1. UNCHANGED <<cl, clOn, clPorts>>
    BY Zenon, <1>7 DEF ClRelease
  <2>2. clHolders[c] - 1 # 0
    BY <1>2, <1>7
  <2>3. ClTypeOK'
    BY Zenon, <1>1, <1>4, <2>1 DEF ClTypeOK
  <2>4. ClInv'
    BY Zenon, <1>1, <1>2, <1>5, <2>1, <2>2, <2>3, OthersKeep
  <2>5. CutOnlyBy
    BY Zenon, <1>1, <2>1, <1>2 DEF CutOnlyBy, Joined, ClInv
  <2> QED BY Zenon, <2>4, <2>5
<1> QED BY Zenon, <1>6, <1>7

-----------------------------------------------------------------------------
\* Every step keeps the invariant and cuts no tunnel but in the ways CutOnlyBy names.
LEMMA ClStep == ASSUME ClInv, [ClNext]_clVars PROVE ClInv' /\ (CutOnlyBy \/ UNCHANGED clVars)
<1>1. CASE ClNext
  BY Zenon, <1>1, CreateStep, CreateFailsStep, SwitchStep, AcquireStep, ReleaseStep DEF ClNext
<1>2. CASE UNCHANGED clVars
  BY Zenon, <1>2 DEF clVars, ClInv, ClTypeOK, LeakExplained
<1> QED BY Zenon, <1>1, <1>2

\* The invariant holds in every behaviour.
THEOREM ClInvariant == ClSpec => []ClInv
<1>1. ClInit => ClInv
  <2> SUFFICES ASSUME ClInit PROVE ClInv
    BY Zenon
  <2>1. clPorts.peer = [p \in CxPorts |-> Unjoined] /\ clPorts \in PortStates
    BY Zenon DEF ClInit, PortStates
  <2>2. Paired(clPorts.peer)
    BY Zenon, <2>1 DEF Paired
  <2>3. 0 \in 0 .. CxMaxHolders
    BY CxLifeAssumption
  <2>4. ClTypeOK
    BY Zenon, <2>1, <2>3, ClTypes DEF ClInit
  <2> QED BY <2>2, <2>4 DEF ClInit, ClInv, LeakExplained
<1> QED BY <1>1, ClStep, PTL DEF ClSpec

\* A connection that a client has a reference to is allocated, and its count is the number of these references; and
\* joined ports name each other, whatever calls to the ports failed.
THEOREM HeldAliveHolds == ClSpec => []HeldAlive
<1>1. ClInv => HeldAlive
  BY Zenon DEF ClInv, HeldAlive, Paired
<1> QED BY <1>1, ClInvariant, PTL

\* Only a connection that could not be disabled, or whose creation failed where its ports were to be joined, is lost.
THEOREM LeakExplainedHolds == ClSpec => []LeakExplained
<1>1. ClInv => LeakExplained
  BY Zenon DEF ClInv
<1> QED BY <1>1, ClInvariant, PTL

\* A tunnel in use is taken apart only by a failing creation on its output port, or by the destruction of another
\* tunnel on it.
THEOREM TunnelCutOnlyByHolds == ClSpec => TunnelCutOnlyBy
<1>1. ClInv /\ [ClNext]_clVars => [CutOnlyBy]_clVars
  BY Zenon, ClStep
<1> QED BY <1>1, ClInvariant, PTL DEF ClSpec, TunnelCutOnlyBy

\* All three, for any number of connections and whatever calls to the ports fail.
THEOREM ConnectionKeptHolds == ClSpec => ConnectionKept
<1>1. ClSpec => [](HeldAlive /\ LeakExplained)
  BY HeldAliveHolds, LeakExplainedHolds, PTL
<1> QED BY Zenon, <1>1, TunnelCutOnlyByHolds DEF ConnectionKept
=============================================================================
