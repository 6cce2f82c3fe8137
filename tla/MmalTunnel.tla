----------------------------- MODULE MmalTunnel -----------------------------
(***************************************************************************)
(* Two connected ports of the MMAL core (mmal_port.c): the output port of  *)
(* one component and the input port of another, which the core keeps       *)
(* supplied with the buffers of a pool.  A filled buffer goes from the     *)
(* output callback to the input port, and a used one from the input        *)
(* callback over the pool to the output port.                              *)
(*                                                                         *)
(* One thread connects, enables, disables and disconnects the ports, at    *)
(* either end.  Each component gives its buffers back from a thread of its *)
(* own.  What a thread does under the send lock of a port is one step.     *)
(***************************************************************************)
EXTENDS Integers, Sequences, FiniteSets

CONSTANTS
    TunnelBuffers,   \* buffer headers of the pool
    MaxEvents        \* format changes the producer announces (bound)

ASSUME TunnelAssumption == IsFiniteSet(TunnelBuffers) /\ MaxEvents \in Nat

Ports == {"out", "in"}

VARIABLES
    joined,     \* core->connected_port is set, on both ports
    owned,      \* core->core_owns_connection
    on,         \* port->is_enabled
    hasCb,      \* core->buffer_header_callback is set
    moving,     \* core->transit_buffer_headers
    poolAt,     \* the port whose pool_for_connection is set, or "none"
    poolPipes,  \* the callback of the pool is mmal_port_connected_pool_cb
    where,      \* where each buffer is
    todo,       \* what the control thread has still to do
    portLocked, \* the port whose lock the control thread holds, or "none"
    doing,      \* control point of each component's thread
    buf,        \* the buffer it returns
    seen,       \* what it read: is_enabled of the output port, or the callback of the pool
    events,     \* format changes so far
    early       \* a pool was destroyed while a buffer of it was not at home

tunnelVars == <<joined, owned, on, hasCb, moving, poolAt, poolPipes, where, todo, portLocked,
                doing, buf, seen, events, early>>

Places == {"none", "queue", "out", "in", "thread"}
NoBuf == "nobuf"

TunnelInit ==
    /\ joined = FALSE /\ owned = FALSE
    /\ on = [p \in Ports |-> FALSE] /\ hasCb = [p \in Ports |-> FALSE]
    /\ moving = [p \in Ports |-> 0]
    /\ poolAt = "none" /\ poolPipes = FALSE
    /\ where = [b \in TunnelBuffers |-> "none"]
    /\ todo = <<>> /\ portLocked = "none"
    /\ doing = [p \in Ports |-> "idle"] /\ buf = [p \in Ports |-> NoBuf]
    /\ seen = [p \in Ports |-> FALSE]
    /\ events = 0 /\ early = FALSE

ctlFrame == <<joined, owned, on, hasCb, poolAt, poolPipes, portLocked, early>>
threads == <<doing, buf, seen, events>>

-----------------------------------------------------------------------------
(* The control thread *)

\* mmal_port_connect(): both ports are free and disabled.  The core owns the connection unless
\* pf_connect() of the output port takes it over.
TunnelConnect ==
    /\ todo = <<>> /\ ~joined /\ \A p \in Ports : ~on[p]
    /\ joined' = TRUE /\ owned' \in BOOLEAN
    /\ UNCHANGED <<on, hasCb, moving, poolAt, poolPipes, where, todo, portLocked, threads, early>>

\* mmal_port_enable() of a connected port: the pool, the input port, the output port, the buffers.
TunnelEnable(p) ==
    /\ todo = <<>> /\ joined /\ ~on[p]
    /\ todo' = (IF owned THEN <<"pool">> ELSE <<>>) \o <<"on-in", "on-out">>
               \o (IF owned THEN <<"fill">> ELSE <<>>)
    /\ UNCHANGED <<ctlFrame, moving, where, threads>>

\* mmal_port_disable() and mmal_port_disconnect(): the output port first, the input port last.
OffOrder == <<"off-out", "cb-out", "wait-out", "off-in", "cb-in", "wait-in", "destroy">>

\* The error path of mmal_port_enable(): the peer and then the port that is enabled, which is either
\* end, are disabled, and the pool is destroyed.
Undo == {<<"off-in", "cb-in", "wait-in", "off-out", "cb-out", "wait-out", "destroy">>,
         <<"off-out", "cb-out", "wait-out", "off-in", "cb-in", "wait-in", "destroy">>}

TunnelDisable(p) ==
    /\ todo = <<>> /\ joined /\ on[p]
    /\ todo' = OffOrder
    /\ UNCHANGED <<ctlFrame, moving, where, threads>>

\* mmal_port_disconnect(), at either end.
TunnelDisconnect(p) ==
    /\ todo = <<>> /\ joined
    /\ todo' = (IF on[p] THEN OffOrder ELSE <<>>) \o <<"part">>
    /\ UNCHANGED <<ctlFrame, moving, where, threads>>

Step(what) == todo # <<>> /\ Head(todo) = what

\* mmal_port_connection_enable(): the pool goes to the output port if it can allocate, else to the
\* input port.
MakePool ==
    /\ Step("pool")
    /\ \/ /\ todo' = <<>>                        \* no memory
          /\ UNCHANGED <<poolAt, poolPipes, where>>
       \/ /\ poolAt' \in Ports /\ poolPipes' = TRUE
          /\ where' = [b \in TunnelBuffers |-> "queue"]
          /\ todo' = Tail(todo)
    /\ UNCHANGED <<joined, owned, on, hasCb, moving, portLocked, threads, early>>

\* mmal_port_enable_internal(), where pf_enable() may fail.
SwitchOn(p) ==
    /\ Step("on-" \o p)
    /\ \/ /\ on' = [on EXCEPT ![p] = TRUE] /\ hasCb' = [hasCb EXCEPT ![p] = TRUE]
          /\ todo' = Tail(todo)
       \/ /\ hasCb' = [hasCb EXCEPT ![p] = TRUE] /\ todo' \in Undo /\ UNCHANGED on
    /\ UNCHANGED <<joined, owned, moving, poolAt, poolPipes, where, portLocked, threads, early>>

\* mmal_port_connection_start(), mmal_port_populate_from_pool(): one buffer after the other, until
\* the queue is empty or pf_send() fails.  The refused buffer is released; with the callback of the
\* pool it is tried once more.
Fill(b) ==
    /\ Step("fill") /\ where[b] = "queue"
    /\ \/ /\ where' = [where EXCEPT ![b] = "out"] /\ moving' = [moving EXCEPT !["out"] = @ + 1]
          /\ todo' \in {todo} \cup Undo
       \/ /\ todo' \in Undo /\ UNCHANGED <<where, moving>>
    /\ UNCHANGED <<ctlFrame, threads>>

Filled ==
    /\ Step("fill") /\ \A b \in TunnelBuffers : where[b] # "queue"
    /\ todo' = Tail(todo)
    /\ UNCHANGED <<ctlFrame, moving, where, threads>>

\* mmal_port_disable_internal(): is_enabled = 0; the lock of the port is kept to the end.
SwitchOff(p) ==
    /\ Step("off-" \o p)
    /\ IF on[p] THEN /\ portLocked' = p /\ on' = [on EXCEPT ![p] = FALSE] /\ todo' = Tail(todo)
       ELSE /\ todo' = SubSeq(todo, 4, Len(todo)) /\ UNCHANGED <<portLocked, on>>
    /\ UNCHANGED <<joined, owned, hasCb, moving, poolAt, poolPipes, where, threads, early>>

\* The callback of the pool is reset if it is this port's pool; pf_disable() follows.
SilencePool(p) ==
    /\ Step("cb-" \o p)
    /\ poolPipes' = (poolPipes /\ poolAt # p) /\ todo' = Tail(todo)
    /\ UNCHANGED <<joined, owned, on, hasCb, moving, poolAt, where, portLocked, threads, early>>

\* IN_TRANSIT_WAIT() and the end of mmal_port_disable_internal().
AwaitReturns(p) ==
    /\ Step("wait-" \o p) /\ moving[p] = 0
    /\ hasCb' = [hasCb EXCEPT ![p] = FALSE] /\ portLocked' = "none" /\ todo' = Tail(todo)
    /\ UNCHANGED <<joined, owned, on, moving, poolAt, poolPipes, where, threads, early>>

\* mmal_port_connection_disable()
DestroyPool ==
    /\ Step("destroy")
    /\ early' = (early \/ \E b \in TunnelBuffers : where[b] \notin {"queue", "none"})
    /\ poolAt' = "none" /\ poolPipes' = FALSE
    /\ where' = [b \in TunnelBuffers |-> "none"]
    /\ todo' = Tail(todo)
    /\ UNCHANGED <<joined, owned, on, hasCb, moving, portLocked, threads>>

\* The ports forget each other, unless the one that manages the connection itself refuses.
Part ==
    /\ Step("part") /\ todo' = <<>>
    /\ joined' \in (IF owned THEN {FALSE} ELSE BOOLEAN)
    /\ UNCHANGED <<owned, on, hasCb, moving, poolAt, poolPipes, where, portLocked, threads, early>>

-----------------------------------------------------------------------------
(* The threads of the components *)

At(p, from, to) == doing[p] = from /\ doing' = [doing EXCEPT ![p] = to]

\* mmal_port_send_buffer() to port p: accepted if the port is enabled and pf_send() agrees.
Accepted(p, b) ==
    /\ on[p]
    /\ where' = [where EXCEPT ![b] = p] /\ moving' = [moving EXCEPT ![p] = @ + 1]

\* A component returns a buffer with mmal_port_buffer_header_callback().  The callback of the
\* output port, mmal_port_connected_output_cb(), looks whether its port is enabled; that of the
\* input port, mmal_port_connected_input_cb(), releases the buffer.
Return(p, b) ==
    /\ where[b] = p /\ At(p, "idle", IF p = "out" THEN "forward" ELSE "release")
    /\ buf' = [buf EXCEPT ![p] = b] /\ where' = [where EXCEPT ![b] = "thread"]
    /\ seen' = [seen EXCEPT ![p] = on["out"]]
    /\ UNCHANGED <<ctlFrame, moving, todo, events>>

\* The filled buffer goes to the input port ...
Forward ==
    /\ seen["out"] /\ At("out", "forward", "count") /\ Accepted("in", buf["out"])
    /\ UNCHANGED <<ctlFrame, todo, buf, seen, events>>

\* ... or is released: the port was disabled, or the input port does not take it.
Unforwarded ==
    /\ At("out", "forward", "release")
    /\ UNCHANGED <<ctlFrame, moving, todo, where, buf, seen, events>>

\* Mutant: the callback of the pool is not called.
ReleaseUnpiped(p) ==
    /\ At(p, "release", "pipe")
    /\ seen' = [seen EXCEPT ![p] = FALSE]
    /\ UNCHANGED <<ctlFrame, moving, todo, where, buf, events>>

\* mmal_pool_buffer_header_release() looks for a callback ...
Release(p) ==
    /\ At(p, "release", "pipe")
    /\ seen' = [seen EXCEPT ![p] = poolPipes]
    /\ UNCHANGED <<ctlFrame, moving, todo, where, buf, events>>

\* ... which is mmal_port_connected_pool_cb(): the buffer goes back to the output port ...
Pipe(p) ==
    /\ seen[p] /\ At(p, "pipe", "count") /\ Accepted("out", buf[p])
    /\ UNCHANGED <<ctlFrame, todo, buf, seen, events>>

\* ... or, if that fails or there is none, to the queue of the pool.
Enqueue(p) ==
    /\ At(p, "pipe", "count") /\ (seen[p] => ~on["out"])
    /\ where' = [where EXCEPT ![buf[p]] = "queue"]
    /\ UNCHANGED <<ctlFrame, moving, todo, buf, seen, events>>

\* IN_TRANSIT_DECREMENT()
Count(p) ==
    /\ At(p, "count", "idle")
    /\ moving' = [moving EXCEPT ![p] = @ - 1]
    /\ buf' = [buf EXCEPT ![p] = NoBuf]
    /\ UNCHANGED <<ctlFrame, todo, where, seen, events>>

\* The producer announces a new format: the callback commits it on the output port, under the lock
\* of that port, and sends the event on.
Announce ==
    /\ events < MaxEvents /\ hasCb["out"] /\ owned
    /\ At("out", "idle", "commit") /\ events' = events + 1
    /\ UNCHANGED <<ctlFrame, moving, todo, where, buf, seen>>

Commit ==
    /\ At("out", "commit", "idle") /\ portLocked # "out"
    /\ UNCHANGED <<ctlFrame, moving, todo, where, buf, seen, events>>

-----------------------------------------------------------------------------

TunnelControl ==
    \/ MakePool \/ Filled \/ DestroyPool \/ Part
    \/ \E p \in Ports : SwitchOn(p) \/ SwitchOff(p) \/ SilencePool(p) \/ AwaitReturns(p)
    \/ \E b \in TunnelBuffers : Fill(b)

TunnelProducer == \/ Forward \/ Unforwarded \/ Commit \/ \E b \in TunnelBuffers : Return("out", b)
                  \/ Release("out") \/ Pipe("out") \/ Enqueue("out") \/ Count("out")

TunnelConsumer == \/ \E b \in TunnelBuffers : Return("in", b)
                  \/ Release("in") \/ Pipe("in") \/ Enqueue("in") \/ Count("in")

TunnelNext ==
    \/ TunnelConnect \/ \E p \in Ports : TunnelEnable(p) \/ TunnelDisable(p) \/ TunnelDisconnect(p)
    \/ TunnelControl \/ TunnelProducer \/ TunnelConsumer \/ Announce

\* A component works through its buffers in the order it got them: none is passed over for ever.
TunnelFair ==
    /\ WF_tunnelVars(TunnelControl) /\ WF_tunnelVars(TunnelProducer) /\ WF_tunnelVars(TunnelConsumer)
    /\ \A p \in Ports, b \in TunnelBuffers : SF_tunnelVars(Return(p, b))

-----------------------------------------------------------------------------
(* Properties *)

TunnelTypeOK ==
    /\ joined \in BOOLEAN /\ owned \in BOOLEAN /\ on \in [Ports -> BOOLEAN]
    /\ hasCb \in [Ports -> BOOLEAN] /\ moving \in [Ports -> 0 .. Cardinality(TunnelBuffers) + 1]
    /\ poolAt \in Ports \cup {"none"} /\ poolPipes \in BOOLEAN
    /\ where \in [TunnelBuffers -> Places] /\ portLocked \in Ports \cup {"none"}
    /\ buf \in [Ports -> TunnelBuffers \cup {NoBuf}] /\ seen \in [Ports -> BOOLEAN]
    /\ events \in 0 .. MaxEvents /\ early \in BOOLEAN

\* mmal_port_connection_disable() destroys the pool only when every buffer is back in its queue,
\* from whichever end the connection is disabled and whatever the components are doing.
PoolDestroyedWhole == ~early

\* No component's thread returns a buffer through a callback that mmal_port_disable_internal() has
\* reset, or to a pool that is gone.
TunnelCallbackSet == \A p \in Ports : buf[p] # NoBuf => hasCb[p] /\ poolAt # "none"

\* What is in transit on a port is with its component or its thread; a buffer between the ports
\* is counted on both.
TunnelTransitExact ==
    \A p \in Ports : moving[p] = Cardinality({b \in TunnelBuffers : where[b] = p})
                                 + (IF buf[p] # NoBuf THEN 1 ELSE 0)

\* A buffer the consumer has used comes back to the producer, unless the connection is being
\* disabled.
Circulates ==
    \A b \in TunnelBuffers :
        (where[b] = "in" /\ poolPipes) ~> (where[b] = "out" \/ ~on["out"] \/ ~poolPipes)

\* Disabling ends, unless the producer's thread waits for the lock of the output port to commit a
\* format: mmal_port_disable_internal() holds that lock while it waits for the buffers that only
\* this thread can return.
TunnelDisableEnds == (portLocked # "none") ~> (portLocked = "none" \/ doing["out"] = "commit")
=============================================================================
