---------------------------- MODULE MmalWrapper -----------------------------
(***************************************************************************)
(* The wrapper of a component (mmal_component_wrapper.c): a pool for each  *)
(* port, a queue of what the output port produced, and one semaphore on    *)
(* which the client waits for an empty or a full buffer.                   *)
(*                                                                         *)
(* The client is one thread, the component's callbacks come from another   *)
(* one: a callback puts a buffer, and posts the semaphore afterwards.      *)
(***************************************************************************)
EXTENDS Integers, Sequences, FiniteSets

CONSTANTS
    WInBuffers,    \* headers of the input port's pool
    WOutBuffers,   \* headers of the output port's pool
    WSemMax        \* bound: posts the semaphore tells apart

WPorts == {"in", "out"}
WBuffers == WInBuffers \union WOutBuffers
WPoolOf(b) == IF b \in WInBuffers THEN "in" ELSE "out"

VARIABLES
    wLife,      \* the wrapper exists
    wOn,        \* port->is_enabled
    wHeaders,   \* ports whose pool has its headers (mmal_pool_resize() was called)
    wWhere,     \* where a buffer is: "pool", "client", "port" or "queue"
    wQueue,     \* output_queue[0]
    wSem,       \* the semaphore
    wOwed,      \* a callback put its buffer and has still to post
    wError,     \* wrapper->status is an error
    wAt         \* what the client waits for: "full", a port whose pool is empty, or "idle"

wPlaces == <<wWhere, wQueue>>
wrapperVars == <<wLife, wOn, wHeaders, wPlaces, wSem, wOwed, wError, wAt>>

\* n posts of the semaphore.
Posted(n) == wSem' = IF wSem + n > WSemMax THEN WSemMax ELSE wSem + n

WrapperInit ==
    /\ wLife = FALSE /\ wOn = {} /\ wHeaders = {}
    /\ wWhere = [b \in WBuffers |-> "pool"] /\ wQueue = <<>>
    /\ wSem = 0 /\ wOwed = FALSE /\ wError = FALSE /\ wAt = "idle"

\* mmal_wrapper_create(): pools without headers, a queue, and the control port enabled.  When a
\* part of it fails, mmal_wrapper_destroy() takes the rest apart.
WrapperCreate ==
    /\ ~wLife /\ wLife' \in BOOLEAN
    /\ UNCHANGED <<wOn, wHeaders, wPlaces, wSem, wOwed, wError, wAt>>

\* mmal_wrapper_destroy(): destroying the component disables its ports, so that the buffers come
\* back; then the pools and the queue are freed.
WrapperDestroy ==
    /\ wLife /\ wAt = "idle" /\ ~wOwed
    /\ \A b \in WBuffers : wWhere[b] # "client"
    /\ wLife' = FALSE /\ wOn' = {} /\ wHeaders' = {} /\ wSem' = 0 /\ wError' = FALSE
    /\ wWhere' = [b \in WBuffers |-> "pool"] /\ wQueue' = <<>>
    /\ UNCHANGED <<wOwed, wAt>>

\* mmal_wrapper_port_enable(): zero copy, the pool resized and the port enabled; a failure leaves
\* the port disabled.
WrapperEnable(p) ==
    /\ wLife /\ wAt = "idle" /\ p \notin wOn
    /\ wHeaders' = wHeaders \union {p}
    /\ wOn' \in {wOn, wOn \union {p}}
    /\ UNCHANGED <<wLife, wPlaces, wSem, wOwed, wError, wAt>>

\* mmal_wrapper_port_disable(): mmal_port_disable() hands back every buffer the port holds, and
\* the buffers that an output port produced are released to their pool.  Each released buffer is
\* posted; those of an output port are posted when they are queued as well.
WrapperDisable(p) ==
    LET held == {b \in WBuffers : WPoolOf(b) = p /\ wWhere[b] = "port"}
        back == held \union (IF p = "out" THEN {wQueue[i] : i \in 1..Len(wQueue)} ELSE {})
    IN  /\ wLife /\ wAt = "idle" /\ p \in wOn /\ wOn' = wOn \ {p}
        /\ wWhere' = [b \in WBuffers |-> IF b \in back THEN "pool" ELSE wWhere[b]]
        /\ wQueue' = IF p = "out" THEN <<>> ELSE wQueue
        /\ Posted(Cardinality(back) + (IF p = "out" THEN Cardinality(held) ELSE 0))
        /\ UNCHANGED <<wLife, wHeaders, wOwed, wError, wAt>>

\* The queue of the port's pool is empty, or the pool has no headers yet.
Empty(p) == \A b \in WBuffers : WPoolOf(b) = p => wWhere[b] # "pool" \/ p \notin wHeaders

\* One turn of the loop of mmal_wrapper_buffer_get_empty(): with an error the call returns it,
\* with a buffer it returns that, and otherwise it waits or, without the flag, gives up.
GetEmpty(p, wait) ==
    IF wError THEN wAt' = "idle" /\ UNCHANGED wPlaces
    ELSE IF Empty(p) THEN wAt' = (IF wait THEN p ELSE "idle") /\ UNCHANGED wPlaces
    ELSE /\ \E b \in WBuffers :
               WPoolOf(b) = p /\ wWhere[b] = "pool" /\ wWhere' = [wWhere EXCEPT ![b] = "client"]
         /\ wAt' = "idle" /\ UNCHANGED wQueue

\* The same of mmal_wrapper_buffer_get_full().
GetFull(wait) ==
    IF wError THEN wAt' = "idle" /\ UNCHANGED wPlaces
    ELSE IF wQueue = <<>> THEN wAt' = (IF wait THEN "full" ELSE "idle") /\ UNCHANGED wPlaces
    ELSE /\ wWhere' = [wWhere EXCEPT ![Head(wQueue)] = "client"] /\ wQueue' = Tail(wQueue)
         /\ wAt' = "idle"

\* The client calls one of them.
WrapperGet(wait) ==
    /\ wLife /\ wAt = "idle" /\ (GetFull(wait) \/ \E p \in WPorts : GetEmpty(p, wait))
    /\ UNCHANGED <<wLife, wOn, wHeaders, wSem, wOwed, wError>>

\* vcos_semaphore_wait() returns and the loop goes round.
WrapperWakes ==
    /\ wAt # "idle" /\ wSem > 0 /\ wSem' = wSem - 1
    /\ IF wAt = "full" THEN GetFull(TRUE) ELSE GetEmpty(wAt, TRUE)
    /\ UNCHANGED <<wLife, wOn, wHeaders, wOwed, wError>>

\* The client sends a buffer to its port.
WrapperSend(b) ==
    /\ wAt = "idle" /\ wWhere[b] = "client" /\ WPoolOf(b) \in wOn
    /\ wWhere' = [wWhere EXCEPT ![b] = "port"]
    /\ UNCHANGED <<wLife, wOn, wHeaders, wQueue, wSem, wOwed, wError, wAt>>

\* The client releases a buffer it does not need any more; mmal_wrapper_bh_release_cb() puts it
\* into its pool and posts.
WrapperRelease(b) ==
    /\ wLife /\ wAt = "idle" /\ wWhere[b] = "client"
    /\ wWhere' = [wWhere EXCEPT ![b] = "pool"] /\ Posted(1)
    /\ UNCHANGED <<wLife, wOn, wHeaders, wQueue, wOwed, wError, wAt>>

\* mmal_wrapper_bh_in_cb(): the component is done with an input buffer, which
\* mmal_wrapper_bh_release_cb() puts into its pool.
InputDone(b) ==
    /\ ~wOwed /\ wWhere[b] = "port" /\ WPoolOf(b) = "in"
    /\ wWhere' = [wWhere EXCEPT ![b] = "pool"] /\ wOwed' = TRUE
    /\ UNCHANGED <<wLife, wOn, wHeaders, wQueue, wSem, wError, wAt>>

\* mmal_wrapper_bh_out_cb(): the component filled an output buffer.
OutputDone(b) ==
    /\ ~wOwed /\ wWhere[b] = "port" /\ WPoolOf(b) = "out"
    /\ wWhere' = [wWhere EXCEPT ![b] = "queue"] /\ wQueue' = Append(wQueue, b) /\ wOwed' = TRUE
    /\ UNCHANGED <<wLife, wOn, wHeaders, wSem, wError, wAt>>

\* mmal_wrapper_control_cb() with an error event.
ControlError ==
    /\ wLife /\ ~wError /\ ~wOwed /\ wError' = TRUE /\ wOwed' = TRUE
    /\ UNCHANGED <<wLife, wOn, wHeaders, wPlaces, wSem, wAt>>

\* The callback posts the semaphore.
WrapperPost ==
    /\ wOwed /\ wOwed' = FALSE /\ Posted(1)
    /\ UNCHANGED <<wLife, wOn, wHeaders, wPlaces, wError, wAt>>

WrapperNext ==
    \/ WrapperCreate \/ WrapperDestroy \/ WrapperWakes \/ ControlError \/ WrapperPost
    \/ \E p \in WPorts : WrapperEnable(p) \/ WrapperDisable(p)
    \/ \E wait \in BOOLEAN : WrapperGet(wait)
    \/ \E b \in WBuffers : WrapperSend(b) \/ WrapperRelease(b) \/ InputDone(b) \/ OutputDone(b)

\* The semaphore wakes the client that waits, and a callback that runs ends.
WrapperFair == WF_wrapperVars(WrapperWakes) /\ WF_wrapperVars(WrapperPost)

-----------------------------------------------------------------------------
(* Properties *)

WrapperTypeOK ==
    /\ wLife \in BOOLEAN /\ wOn \subseteq WPorts /\ wHeaders \subseteq WPorts
    /\ wWhere \in [WBuffers -> {"pool", "client", "port", "queue"}]
    /\ Len(wQueue) <= Cardinality(WOutBuffers)
    /\ wSem \in 0..WSemMax /\ wOwed \in BOOLEAN /\ wError \in BOOLEAN /\ wAt \in WPorts \union {"idle", "full"}

\* A port that is disabled holds no buffer, and nothing it produced is left in the output queue: what
\* mmal_wrapper_port_disable() verifies with the length of the pool's queue, whatever the component
\* and the client did before.
WrapperDisabledEmpty ==
    /\ \A b \in WBuffers : wWhere[b] = "port" => WPoolOf(b) \in wOn
    /\ \A b \in WBuffers : wWhere[b] = "queue" <=> \E i \in 1..Len(wQueue) : wQueue[i] = b
    /\ "out" \notin wOn => wQueue = <<>>

\* A client that waits for a buffer is woken when there is one, and when an error was reported: no
\* wake-up is lost between its look at the queue and its wait.
WrapperWaitEnds ==
    /\ (wAt = "full" /\ wQueue # <<>>) ~> wAt = "idle"
    /\ \A p \in WPorts : (wAt = p /\ ~Empty(p)) ~> wAt = "idle"
    /\ (wAt # "idle" /\ wError) ~> wAt = "idle"
=============================================================================
