--------------------------- MODULE MmalConnection ---------------------------
(***************************************************************************)
(* A connection between an output and an input port that is not tunnelled  *)
(* (mmal_connection.c), in a graph whose worker thread moves the buffers   *)
(* (mmal_graph.c).  Filled buffers and events wait in connection->queue,   *)
(* empty ones in the queue of connection->pool; each arrival wakes the     *)
(* worker.  A change of format that the input port cannot follow makes the *)
(* worker disable the connection, set the format on both ports and enable  *)
(* it again.                                                               *)
(*                                                                         *)
(* The semaphore of the graph is a flag: more posts than one only wake a   *)
(* worker that finds nothing to do.  A call of mmal_port_send_buffer() is  *)
(* one step; MmalPort models what it does.                                 *)
(***************************************************************************)
EXTENDS Integers, Sequences, SequencesExt, FiniteSets

CONSTANTS
    CxBuffers,    \* headers of connection->pool
    MaxFormats,   \* format changes of the producer (bound)
    MaxFaults     \* calls of the ports' functions that fail (bound)

ASSUME ConnectionAssumption ==
    IsFiniteSet(CxBuffers) /\ MaxFormats \in Nat /\ MaxFaults \in Nat

Sides == {"out", "in"}
Nobody == "nobody"

VARIABLES
    cxOn,       \* connection->is_enabled
    sideOn,     \* is_enabled of the two ports
    cxWhere,    \* where each buffer is
    cxQueue,    \* connection->queue: buffers and <<"event", format>>
    frameFmt,   \* format of the frame in each buffer
    outFmt,     \* the format the producer fills buffers in
    inFmt,      \* the format the consumer was last told
    newFmt,     \* the format of the event the worker handles
    changes,    \* format changes so far
    misfit,     \* a frame reached the consumer in another format, and no error had been reported
    reported,   \* mmal_event_error_send() was called for a format change
    wake,       \* graph->sema
    stopThread, \* graph->stop_thread
    worker,     \* control point of the worker thread
    inHand,     \* the buffer it holds
    again,      \* run_again
    graphAt,    \* control point of the thread that enables and disables the graph
    calls,      \* what is left of a connection enable or disable, and who runs it
    runner,
    notWhole,   \* vcos_assert() at the end of mmal_connection_disable() failed
    faults,     \* failures so far
    cxUnsent      \* the last failed send left an empty buffer in the pool

connectionVars == <<cxOn, sideOn, cxWhere, cxQueue, frameFmt, outFmt, inFmt, newFmt, changes, misfit, reported, wake,
                    stopThread, worker, inHand, again, graphAt, calls, runner, notWhole, faults, cxUnsent>>

formats == <<frameFmt, outFmt, inFmt, newFmt, changes, misfit, reported>>
flow == <<cxWhere, cxQueue, formats>>
workerVars == <<worker, inHand, again>>
callVars == <<calls, runner, notWhole>>

ConnectionInit ==
    /\ cxOn = FALSE /\ sideOn = [s \in Sides |-> FALSE]
    /\ cxWhere = [b \in CxBuffers |-> "pool"] /\ cxQueue = <<>>
    /\ frameFmt = [b \in CxBuffers |-> 0] /\ outFmt = 0 /\ inFmt = 0 /\ newFmt = 0
    /\ changes = 0 /\ misfit = FALSE /\ reported = FALSE
    /\ wake = FALSE /\ stopThread = FALSE
    /\ worker = "none" /\ inHand = Nobody /\ again = FALSE
    /\ graphAt = "off" /\ calls = <<>> /\ runner = Nobody /\ notWhole = FALSE
    /\ faults = 0 /\ cxUnsent = FALSE

Fault == faults < MaxFaults /\ faults' = faults + 1
Move(b, to) == cxWhere' = [cxWhere EXCEPT ![b] = to]

-----------------------------------------------------------------------------
(* The components: what they hold they return, also after the port is disabled. *)

\* mmal_connection_bh_out_cb(): the filled buffer is queued and the worker woken.
Produced(b) ==
    /\ cxWhere[b] = "out" /\ Move(b, "queue") /\ cxQueue' = Append(cxQueue, b)
    /\ frameFmt' = [frameFmt EXCEPT ![b] = outFmt] /\ wake' = TRUE
    /\ UNCHANGED <<cxOn, sideOn, outFmt, inFmt, newFmt, changes, misfit, reported, stopThread, workerVars, graphAt, callVars, faults, cxUnsent>>

\* The producer changes its format while it fills a buffer, and says so with an event, queued like
\* a buffer.
FormatEvent ==
    /\ sideOn["out"] /\ (\E b \in CxBuffers : cxWhere[b] = "out") /\ changes < MaxFormats
    /\ changes' = changes + 1 /\ outFmt' = changes'
    /\ cxQueue' = Append(cxQueue, <<"event", outFmt'>>) /\ wake' = TRUE
    /\ UNCHANGED <<cxOn, sideOn, cxWhere, frameFmt, inFmt, newFmt, misfit, reported, stopThread, workerVars, graphAt, callVars,
                   faults, cxUnsent>>

\* mmal_connection_bh_in_cb() and mmal_connection_bh_release_cb().
Consumed(b) ==
    /\ cxWhere[b] = "in" /\ Move(b, "pool") /\ wake' = TRUE
    /\ UNCHANGED <<cxOn, sideOn, cxQueue, formats, stopThread, workerVars, graphAt,
                   callVars, faults, cxUnsent>>

-----------------------------------------------------------------------------
(* mmal_connection_enable() and mmal_connection_disable(), as lists of calls *)

EnableCalls == <<"on-out", "on-in">>
DisableCalls == <<"off-in", "wait-in", "off-out", "wait-out", "flush">>

CallIs(what) == calls # <<>> /\ Head(calls) = what
CallsEnd(ok) == calls' = <<>> /\ runner' = Nobody /\ cxOn' = ok

\* mmal_port_enable() of both ports; if the input port fails the output port is disabled again.
PortOn(s) ==
    /\ CallIs("on-" \o s)
    /\ \/ /\ sideOn' = [sideOn EXCEPT ![s] = TRUE] /\ UNCHANGED faults
          /\ IF Len(calls) = 1 THEN CallsEnd(TRUE)
             ELSE calls' = Tail(calls) /\ UNCHANGED <<runner, cxOn>>
       \/ /\ Fault /\ CallsEnd(FALSE)
          /\ sideOn' = [t \in Sides |-> FALSE]
    /\ UNCHANGED <<flow, wake, stopThread, workerVars, graphAt, notWhole, cxUnsent>>

\* mmal_port_disable(): a port that is not enabled is an error, as is a failure of the port; the
\* connection then counts as enabled.
PortOff(s) ==
    /\ CallIs("off-" \o s)
    /\ \/ /\ sideOn[s] /\ sideOn' = [sideOn EXCEPT ![s] = FALSE] /\ calls' = Tail(calls)
          /\ UNCHANGED <<runner, cxOn, faults>>
       \/ /\ sideOn[s] /\ Fault /\ CallsEnd(TRUE) /\ UNCHANGED sideOn
       \/ /\ ~sideOn[s] /\ CallsEnd(TRUE) /\ UNCHANGED <<sideOn, faults>>
    /\ UNCHANGED <<flow, wake, stopThread, workerVars, graphAt, notWhole, cxUnsent>>

\* It returns when the component has given back every buffer.
PortReturned(s) ==
    /\ CallIs("wait-" \o s) /\ \A b \in CxBuffers : cxWhere[b] # s
    /\ calls' = Tail(calls)
    /\ UNCHANGED <<cxOn, sideOn, flow, wake, stopThread, workerVars, graphAt, runner, notWhole, faults, cxUnsent>>

\* The queue is flushed; vcos_assert(): all the headers are in the queue of the pool.
FlushQueue ==
    /\ CallIs("flush") /\ CallsEnd(FALSE)
    /\ cxWhere' = [b \in CxBuffers |-> IF cxWhere[b] = "queue" THEN "pool" ELSE cxWhere[b]]
    /\ cxQueue' = <<>> /\ wake' = TRUE
    /\ notWhole' = (notWhole \/ \E b \in CxBuffers : cxWhere'[b] # "pool")
    /\ UNCHANGED <<sideOn, formats, stopThread, workerVars, graphAt, faults, cxUnsent>>

-----------------------------------------------------------------------------
(* The worker thread: graph_worker_thread(), graph_do_processing() *)

WorkerGoes(from, to) == worker = from /\ worker' = to

\* It waits for the semaphore, and ends when the graph is being stopped.
WorkerWoken ==
    /\ wake /\ wake' = FALSE
    /\ WorkerGoes("wait", IF stopThread THEN "exit" ELSE "queue") /\ again' = FALSE
    /\ UNCHANGED <<cxOn, sideOn, flow, stopThread, inHand, graphAt, callVars, faults, cxUnsent>>

\* mmal_queue_get(connection->queue) gave a buffer ...
TakeFilled ==
    /\ cxQueue # <<>> /\ Head(cxQueue) \in CxBuffers
    /\ WorkerGoes("queue", "send") /\ inHand' = Head(cxQueue) /\ again' = TRUE
    /\ cxQueue' = Tail(cxQueue) /\ Move(Head(cxQueue), "worker")
    /\ UNCHANGED <<cxOn, sideOn, formats, wake, stopThread, graphAt, callVars, faults, cxUnsent>>

\* ... which is sent to the input port, or released.
SendOn ==
    /\ WorkerGoes("send", "queue") /\ inHand' = Nobody
    /\ \/ /\ sideOn["in"] /\ Move(inHand, "in") /\ misfit' = (misfit \/ (frameFmt[inHand] # inFmt /\ ~reported))
          /\ UNCHANGED <<wake, faults>>
       \/ /\ IF sideOn["in"] THEN Fault ELSE UNCHANGED faults
          /\ Move(inHand, "pool") /\ wake' = TRUE /\ UNCHANGED misfit
    /\ UNCHANGED <<cxOn, sideOn, cxQueue, frameFmt, outFmt, inFmt, newFmt, changes, reported, again, stopThread, graphAt, callVars, cxUnsent>>

\* Mutant: the input port is told the format and the connection is not disabled.
HandleFormatHot ==
    /\ cxQueue # <<>> /\ Head(cxQueue) \notin CxBuffers
    /\ again' = TRUE /\ cxQueue' = Tail(cxQueue)
    /\ WorkerGoes("queue", "queue") /\ newFmt' = Head(cxQueue)[2]
    /\ inFmt' = newFmt' /\ outFmt' = newFmt'
    /\ UNCHANGED <<cxOn, sideOn, cxWhere, frameFmt, changes, misfit, reported, wake, stopThread, inHand, graphAt,
                   callVars, faults, cxUnsent>>

\* ... or an event, mmal_connection_event_format_changed(): an input port that can follow gets the
\* event, after the commit that confirms what the producer does, and an error of either is reported;
\* otherwise, mmal_connection_reconfigure() disables the connection.
HandleFormat ==
    /\ cxQueue # <<>> /\ Head(cxQueue) \notin CxBuffers
    /\ again' = TRUE /\ cxQueue' = Tail(cxQueue) /\ newFmt' = Head(cxQueue)[2]
    /\ \/ /\ WorkerGoes("queue", "queue") /\ sideOn["in"] /\ inFmt' = newFmt'
          /\ UNCHANGED <<calls, runner, reported, faults>>
       \/ /\ WorkerGoes("queue", "queue") /\ (IF sideOn["in"] THEN Fault ELSE UNCHANGED faults) /\ reported' = TRUE
          /\ UNCHANGED <<inFmt, calls, runner>>
       \/ /\ WorkerGoes("queue", "reconfigure") /\ UNCHANGED <<inFmt, reported, faults>>
          /\ calls' = (IF cxOn THEN DisableCalls ELSE <<>>)
          /\ runner' = IF cxOn THEN "worker" ELSE Nobody
    /\ UNCHANGED <<cxOn, sideOn, cxWhere, frameFmt, outFmt, changes, misfit, wake, stopThread, inHand,
                   graphAt, notWhole, cxUnsent>>

\* The format is committed on both ports and the connection enabled; a failure is reported.
Reconfigure ==
    /\ worker = "reconfigure" /\ runner = Nobody
    /\ \/ /\ ~cxOn /\ outFmt' = newFmt /\ inFmt' = newFmt /\ worker' = "enable"
          /\ calls' = EnableCalls /\ runner' = "worker" /\ UNCHANGED <<faults, reported>>
       \/ /\ IF cxOn THEN UNCHANGED <<outFmt, faults>> ELSE Fault /\ outFmt' \in {outFmt, newFmt}
          /\ reported' = TRUE /\ worker' = "queue" /\ UNCHANGED <<inFmt, calls, runner>>
    /\ UNCHANGED <<cxOn, sideOn, cxWhere, cxQueue, frameFmt, newFmt, changes, misfit, wake, stopThread, inHand,
                   again, graphAt, notWhole, cxUnsent>>

Reconfigured ==
    /\ WorkerGoes("enable", "queue") /\ runner = Nobody
    /\ UNCHANGED <<cxOn, sideOn, flow, wake, stopThread, inHand, again, graphAt, callVars, faults, cxUnsent>>

QueueDone ==
    /\ cxQueue = <<>> /\ WorkerGoes("queue", "pool")
    /\ UNCHANGED <<cxOn, sideOn, flow, wake, stopThread, inHand, again, graphAt, callVars, faults, cxUnsent>>

\* An empty buffer goes to the output port; if that fails it is put back and the round ends.
SendEmpty(b) ==
    /\ worker = "pool" /\ cxWhere[b] = "pool"
    /\ \/ /\ sideOn["out"] /\ Move(b, "out") /\ again' = TRUE /\ cxUnsent' = FALSE
          /\ UNCHANGED <<worker, faults>>
       \/ /\ IF sideOn["out"] THEN Fault ELSE UNCHANGED faults
          /\ worker' = "wait" /\ again' = FALSE /\ cxUnsent' = TRUE /\ UNCHANGED cxWhere
    /\ UNCHANGED <<cxOn, sideOn, cxQueue, formats, wake, stopThread, inHand, graphAt, callVars>>

\* while (graph_do_processing(graph))
RoundDone ==
    /\ worker = "pool" /\ \A b \in CxBuffers : cxWhere[b] # "pool"
    /\ worker' = (IF again THEN "queue" ELSE "wait") /\ again' = FALSE
    /\ UNCHANGED <<cxOn, sideOn, flow, wake, stopThread, inHand, graphAt, callVars, faults, cxUnsent>>

-----------------------------------------------------------------------------
(* mmal_graph_enable() and mmal_graph_disable() *)

GraphEnable ==
    /\ graphAt = "off" /\ worker \in {"none", "exit"} /\ ~cxOn
    /\ graphAt' = "enabling" /\ worker' = "wait"
    /\ calls' = EnableCalls /\ runner' = "graph" /\ cxUnsent' = FALSE
    /\ UNCHANGED <<cxOn, sideOn, flow, wake, stopThread, inHand, again, notWhole, faults>>

\* The worker is started with a post; if the connection failed it is stopped.
GraphEnabled ==
    /\ graphAt = "enabling" /\ runner = Nobody
    /\ wake' = TRUE /\ stopThread' = (stopThread \/ ~cxOn)
    /\ graphAt' = IF cxOn THEN "on" ELSE "joinfailed"
    /\ UNCHANGED <<cxOn, sideOn, flow, workerVars, callVars, faults, cxUnsent>>

\* graph_stop_worker_thread(): stop_thread is set, and stays set.
GraphDisable ==
    /\ graphAt = "on" /\ graphAt' = "join" /\ stopThread' = TRUE /\ wake' = TRUE
    /\ UNCHANGED <<cxOn, sideOn, flow, workerVars, callVars, faults, cxUnsent>>

\* vcos_thread_join(), and then mmal_connection_disable().
GraphJoined ==
    /\ graphAt \in {"join", "joinfailed"} /\ worker = "exit"
    /\ IF graphAt = "join" /\ cxOn THEN calls' = DisableCalls /\ runner' = "graph" ELSE UNCHANGED <<calls, runner>>
    /\ graphAt' = "disabling"
    /\ UNCHANGED <<cxOn, sideOn, flow, wake, stopThread, workerVars, notWhole, faults, cxUnsent>>

GraphDisabled ==
    /\ graphAt = "disabling" /\ runner = Nobody /\ graphAt' = "off"
    /\ UNCHANGED <<cxOn, sideOn, flow, wake, stopThread, workerVars, callVars, faults, cxUnsent>>

-----------------------------------------------------------------------------

CxCalls == FlushQueue \/ \E s \in Sides : PortOn(s) \/ PortOff(s) \/ PortReturned(s)

CxWorker == \/ WorkerWoken \/ TakeFilled \/ SendOn \/ HandleFormat \/ Reconfigure \/ Reconfigured \/ QueueDone
            \/ RoundDone \/ \E b \in CxBuffers : SendEmpty(b)

CxComponents == \E b \in CxBuffers : Produced(b) \/ Consumed(b)

ConnectionNext ==
    \/ CxCalls \/ CxWorker \/ CxComponents \/ FormatEvent
    \/ GraphEnable \/ GraphEnabled \/ GraphDisable \/ GraphJoined \/ GraphDisabled

ConnectionFair ==
    /\ WF_connectionVars(CxCalls) /\ WF_connectionVars(CxWorker) /\ WF_connectionVars(GraphEnabled)
    /\ \A b \in CxBuffers : WF_connectionVars(Produced(b)) /\ WF_connectionVars(Consumed(b))

-----------------------------------------------------------------------------
(* Properties *)

ConnectionTypeOK ==
    /\ cxOn \in BOOLEAN /\ sideOn \in [Sides -> BOOLEAN] /\ wake \in BOOLEAN /\ stopThread \in BOOLEAN
    /\ cxWhere \in [CxBuffers -> {"pool", "out", "queue", "worker", "in"}]
    /\ frameFmt \in [CxBuffers -> 0 .. MaxFormats] /\ changes \in 0 .. MaxFormats /\ outFmt \in 0 .. MaxFormats /\ inFmt \in 0 .. MaxFormats
    /\ worker \in {"none", "wait", "queue", "send", "reconfigure", "enable", "pool", "exit"}
    /\ inHand \in CxBuffers \cup {Nobody} /\ faults \in 0 .. MaxFaults

\* The assertion at the end of mmal_connection_disable(): every header of the pool is back in its
\* queue, whoever disables the connection, the graph or the worker that reconfigures it.
PoolWholeAgain == ~notWhole

\* A frame reaches the consumer in the format the consumer was last told, across reconfigurations
\* and frames that were queued before the format changed, until a failure has been reported.
FormatInOrder == ~misfit

\* A buffer is in connection->queue exactly when it is nowhere else, and once.
CxBufferOnce ==
    \A b \in CxBuffers : Cardinality({i \in DOMAIN cxQueue : cxQueue[i] = b}) = IF cxWhere[b] = "queue" THEN 1 ELSE 0

\* While the worker of an enabled connection waits, nothing it could move waits with it: each
\* arrival in a queue wakes it.
NothingForgotten ==
    worker = "wait" /\ ~wake /\ graphAt = "on" /\ ~cxUnsent =>
        cxQueue = <<>> /\ \A b \in CxBuffers : cxWhere[b] # "pool"

\* An empty buffer of an enabled connection goes back to the producer, unless the graph is stopped
\* or a send failed.
CxCirculates ==
    \A b \in CxBuffers :
        (cxWhere[b] = "in" /\ graphAt = "on") ~> (cxWhere[b] = "out" \/ graphAt # "on" \/ cxUnsent \/ ~cxOn)
=============================================================================
