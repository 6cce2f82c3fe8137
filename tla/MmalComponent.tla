--------------------------- MODULE MmalComponent ----------------------------
(***************************************************************************)
(* The life of a MMAL component (mmal_component.c): creation, references   *)
(* to the component and to its ports, enabling, and destruction by         *)
(* whoever gives back the last reference.                                  *)
(*                                                                         *)
(* A reference is an identity of its own, so that references held by       *)
(* different threads can be given back at the same time; what is done with *)
(* private->lock held is one step.                                         *)
(***************************************************************************)
EXTENDS Integers, FiniteSets

CONSTANTS
    CompIds,     \* component instances
    Refs,        \* references there may be at one time (bound)
    PortIds,     \* input and output ports of a component
    MaxCoreRefs  \* bound on mmal_core_refcount, of which failed creations lose one

NoComp == "nocomp"

ASSUME ComponentAssumption ==
    IsFiniteSet(Refs) /\ NoComp \notin CompIds /\ IsFiniteSet(CompIds) /\ MaxCoreRefs \in Nat

VARIABLES
    alive,          \* the component is allocated
    compRefcount,       \* priv->refcount
    refcountPorts,  \* priv->refcount_ports
    pending,        \* private->destruction_pending
    refOf,          \* the component a reference is to
    refAt,          \* what the reference is, or what its release is doing
    stuck,          \* pf_destroy() failed: the component is given up, not freed
    enabled,        \* component->is_enabled
    paused,         \* ports with core->is_paused
    coreRefs        \* mmal_core_refcount

componentVars == <<alive, compRefcount, refcountPorts, pending, refOf, refAt, stuck, enabled, paused, coreRefs>>

RefStates == {"free", "comp", "port", "closing", "destroy"}
life == <<alive, stuck, coreRefs>>
work == <<enabled, paused>>

ComponentInit ==
    /\ alive = [c \in CompIds |-> FALSE] /\ stuck = [c \in CompIds |-> FALSE]
    /\ compRefcount = [c \in CompIds |-> 0] /\ refcountPorts = [c \in CompIds |-> 0]
    /\ pending = [c \in CompIds |-> FALSE]
    /\ refOf = [r \in Refs |-> NoComp] /\ refAt = [r \in Refs |-> "free"]
    /\ enabled = [c \in CompIds |-> FALSE] /\ paused = [c \in CompIds |-> {}]
    /\ coreRefs = 0

\* Reference r becomes one of kind k to component c.
Take(r, c, k) == refAt' = [refAt EXCEPT ![r] = k] /\ refOf' = [refOf EXCEPT ![r] = c]
Give(r) == Take(r, NoComp, "free")
Goes(r, k) == refAt' = [refAt EXCEPT ![r] = k] /\ UNCHANGED refOf

\* mmal_component_create_core(), with mmal_core_init(): the control port, the constructor of the
\* supplier, the event pool and the list of ports.
ComponentCreate(r, c) ==
    /\ refAt[r] = "free" /\ ~alive[c] /\ coreRefs < MaxCoreRefs
    /\ alive' = [alive EXCEPT ![c] = TRUE] /\ coreRefs' = coreRefs + 1
    /\ compRefcount' = [compRefcount EXCEPT ![c] = 1] /\ refcountPorts' = [refcountPorts EXCEPT ![c] = 0]
    /\ pending' = [pending EXCEPT ![c] = FALSE]
    /\ enabled' = [enabled EXCEPT ![c] = FALSE] /\ paused' = [paused EXCEPT ![c] = {}]
    /\ Take(r, c, "comp") /\ UNCHANGED stuck

\* Without memory for the component, or without its mutex, it returns with the core still
\* referenced; any later failure destroys what was made and gives the core back.
ComponentCreateFails ==
    /\ coreRefs < MaxCoreRefs
    /\ coreRefs' \in {coreRefs, coreRefs + 1}
    /\ UNCHANGED <<alive, compRefcount, refcountPorts, pending, refOf, refAt, stuck, work>>

\* mmal_component_acquire(), by somebody who holds a reference.
ComponentAcquire(r, from) ==
    /\ refAt[r] = "free" /\ refAt[from] = "comp"
    /\ compRefcount' = [compRefcount EXCEPT ![refOf[from]] = @ + 1]
    /\ Take(r, refOf[from], "comp")
    /\ UNCHANGED <<life, refcountPorts, pending, work>>

\* mmal_port_acquire(), as mmal_port_payload_alloc() calls it.
PortAcquire(r, from) ==
    /\ refAt[r] = "free" /\ refAt[from] \in {"comp", "port"}
    /\ refcountPorts' = [refcountPorts EXCEPT ![refOf[from]] = @ + 1]
    /\ Take(r, refOf[from], "port")
    /\ UNCHANGED <<life, compRefcount, pending, work>>

\* mmal_component_release() and mmal_component_destroy(): the last one prepares the destruction.
ComponentRelease(r) ==
    LET c == refOf[r] IN
    /\ refAt[r] = "comp"
    /\ compRefcount' = [compRefcount EXCEPT ![c] = @ - 1]
    /\ IF compRefcount[c] > 1 THEN Give(r) /\ UNCHANGED pending
       ELSE Goes(r, "closing") /\ pending' = [pending EXCEPT ![c] = TRUE]
    /\ UNCHANGED <<life, refcountPorts, work>>

\* Mutant: destruction_pending stays set when the destruction is delayed.
ComponentClosedStillPending(r) ==
    /\ refAt[r] = "closing"
    /\ IF refcountPorts[refOf[r]] > 0 THEN Give(r) ELSE Goes(r, "destroy")
    /\ UNCHANGED <<life, compRefcount, refcountPorts, pending, work>>

\* The ports are disabled and disconnected.  With references to ports the destruction is left to
\* mmal_port_release().
ComponentClosed(r) ==
    LET c == refOf[r] IN
    /\ refAt[r] = "closing"
    /\ IF refcountPorts[c] > 0 THEN Give(r) /\ pending' = [pending EXCEPT ![c] = FALSE]
       ELSE Goes(r, "destroy") /\ UNCHANGED pending
    /\ UNCHANGED <<life, compRefcount, refcountPorts, work>>

\* mmal_port_release(), as mmal_port_payload_free() calls it.
PortRelease(r) ==
    LET c == refOf[r] IN
    /\ refAt[r] = "port"
    /\ refcountPorts' = [refcountPorts EXCEPT ![c] = @ - 1]
    /\ IF refcountPorts[c] > 1 \/ compRefcount[c] > 0 \/ pending[c] THEN Give(r) ELSE Goes(r, "destroy")
    /\ UNCHANGED <<life, compRefcount, pending, work>>

\* mmal_component_destroy_internal(): if pf_destroy() fails the rest is not done.
ComponentDestroy(r) ==
    LET c == refOf[r] IN
    /\ refAt[r] = "destroy" /\ Give(r)
    /\ \/ /\ alive' = [alive EXCEPT ![c] = FALSE] /\ UNCHANGED stuck
          /\ coreRefs' = IF coreRefs = 0 THEN 0 ELSE coreRefs - 1
       \/ stuck' = [stuck EXCEPT ![c] = TRUE] /\ UNCHANGED <<alive, coreRefs>>
    /\ UNCHANGED <<compRefcount, refcountPorts, pending, work>>

\* mmal_component_enable(): pf_enable(), and the ports are resumed one after the other until one
\* of them cannot send what it has queued.
ComponentEnable(r) ==
    LET c == refOf[r] IN
    /\ refAt[r] = "comp" /\ ~enabled[c]
    /\ \E resumed \in SUBSET PortIds :
          /\ paused' = [paused EXCEPT ![c] = @ \ resumed]
          /\ enabled' = [enabled EXCEPT ![c] = resumed = PortIds]
    /\ UNCHANGED <<life, compRefcount, refcountPorts, pending, refOf, refAt>>

\* mmal_component_disable(): pf_disable(), and every port is paused.
ComponentDisable(r) ==
    LET c == refOf[r] IN
    /\ refAt[r] = "comp" /\ enabled[c]
    /\ paused' = [paused EXCEPT ![c] = PortIds]
    /\ enabled' = [enabled EXCEPT ![c] = FALSE]
    /\ UNCHANGED <<life, compRefcount, refcountPorts, pending, refOf, refAt>>

ComponentNext ==
    \/ ComponentCreateFails
    \/ \E r \in Refs :
          \/ \E c \in CompIds : ComponentCreate(r, c)
          \/ \E from \in Refs : ComponentAcquire(r, from) \/ PortAcquire(r, from)
          \/ ComponentRelease(r) \/ ComponentClosed(r) \/ PortRelease(r) \/ ComponentDestroy(r)
          \/ ComponentEnable(r) \/ ComponentDisable(r)

ComponentSpec == ComponentInit /\ [][ComponentNext]_componentVars

-----------------------------------------------------------------------------
(* Properties *)

ComponentTypeOK ==
    /\ alive \in [CompIds -> BOOLEAN] /\ stuck \in [CompIds -> BOOLEAN]
    /\ compRefcount \in [CompIds -> Nat] /\ refcountPorts \in [CompIds -> Nat]
    /\ pending \in [CompIds -> BOOLEAN]
    /\ refOf \in [Refs -> CompIds \cup {NoComp}] /\ refAt \in [Refs -> RefStates]
    /\ enabled \in [CompIds -> BOOLEAN] /\ paused \in [CompIds -> SUBSET PortIds]
    /\ coreRefs \in Nat

\* mmal_component_destroy_internal() is called once: whoever is about to call it is alone, whether
\* the last reference was one to the component or one to a port, given back at the same time.
DestroyedAlone ==
    \A r \in Refs : refAt[r] = "destroy" =>
        \A q \in Refs \ {r} : refOf[q] # refOf[r]

\* A reference, to the component or to a port, keeps the component alive.
ReferencedAlive == \A r \in Refs : refAt[r] # "free" => refOf[r] \in CompIds /\ alive[refOf[r]]

\* A component nobody references any more is destroyed: the release that sees the references to
\* ports and the release of the last of these never leave it to each other.
ComponentNotLeaked == \A c \in CompIds : alive[c] /\ ~stuck[c] => \E r \in Refs : refOf[r] = c

\* mmal_core_deinit() takes down logging and VCOS only when no component is left.
CoreOutlives == coreRefs >= Cardinality({c \in CompIds : alive[c]})

\* A component that says it is enabled has no port left paused by a resume that failed halfway.
EnabledResumed == \A c \in CompIds : alive[c] /\ enabled[c] => paused[c] = {}

\* A component lives exactly as long as it is referenced, is destroyed by one thread, the core outlives it, and once it is
\* enabled its ports run.
ComponentKept == DestroyedAlone /\ ReferencedAlive /\ ComponentNotLeaked /\ CoreOutlives /\ EnabledResumed
=============================================================================
