------------------------------ MODULE MmalPort ------------------------------
(***************************************************************************)
(* One port of a component in the MMAL core (mmal_port.c): a client that   *)
(* enables, disables, flushes and pauses the port from one thread and      *)
(* sends it buffers from another, and the component, which gives them back *)
(* from a thread of its own.                                               *)
(*                                                                         *)
(* A buffer header has one link, header->next.  The queue of the client's  *)
(* pool and the queue of a paused port are both lists over it, so the      *)
(* lists are modelled as they are, by the link.                            *)
(***************************************************************************)
EXTENDS Integers, Sequences, FiniteSets

CONSTANTS
    PortBufferNum  \* buffer headers of the client

ASSUME PortAssumption == PortBufferNum \in Nat \ {0}

PortBuffers == 1 .. PortBufferNum

NoBuffer == 0                      \* NULL; as the end of a list, the link that is the list itself
PortLinks == PortBuffers \cup {NoBuffer}
Ctl == "control"
Snd == "sender"
Cmp == "component"
Free == "free"

VARIABLES
    portEnabled,     \* port->is_enabled
    portCallback,    \* core->buffer_header_callback is set
    portPaused,      \* core->is_paused
    sendLock,    \* the thread that holds core->send_lock, or Free
    portFirst,   \* core->queue_first
    portLast,    \* core->queue_last: the buffer whose link it is, or Nil
    link,        \* header->next
    transit,     \* core->transit_buffer_headers
    transitSema,        \* core->transit_sema
    poolShared,      \* the buffers are of one pool; otherwise each is the only one of its pool
    poolFirst,   \* the queue of the one pool: first
    poolLast,    \* ... and last
    poolHome,        \* the buffers that are in their own pool
    inComponent,      \* buffers the component has
    portAt,          \* control point of each thread
    portCur,         \* the buffer each thread works on, or Nil
    portFollowing,   \* next of the loops over a list
    portFifo,        \* buffers accepted while the port is paused, in the order they were sent
    nullCall     \* a callback that is not set was called

portVars == <<portEnabled, portCallback, portPaused, sendLock, portFirst, portLast, link, transit, transitSema,
              poolShared, poolFirst, poolLast, poolHome, inComponent, portAt, portCur, portFollowing, portFifo, nullCall>>

PortThreads == {Ctl, Snd, Cmp}

PortInit ==
    /\ portEnabled = FALSE /\ portCallback = FALSE /\ portPaused = FALSE /\ sendLock = Free
    /\ portFirst = NoBuffer /\ portLast = NoBuffer
    /\ transit = 0 /\ transitSema = 1
    /\ poolShared \in BOOLEAN
    /\ poolFirst = (IF poolShared THEN 1 ELSE NoBuffer) /\ poolLast = (IF poolShared THEN PortBufferNum ELSE NoBuffer)
    /\ poolHome = IF poolShared THEN {} ELSE PortBuffers
    /\ link = [b \in PortBuffers |-> IF poolShared /\ b < PortBufferNum THEN b + 1 ELSE NoBuffer]
    /\ inComponent = {}
    /\ portAt = [t \in PortThreads |-> "idle"]
    /\ portCur = [t \in PortThreads |-> NoBuffer] /\ portFollowing = [t \in PortThreads |-> NoBuffer]
    /\ portFifo = <<>> /\ nullCall = FALSE

\* The queue of the port ends in a buffer that has a link: what its walks do is not modelled.
QueueRunsOn == portAt[Snd] = "runs-on"

PortMove(t, from, to) == ~QueueRunsOn /\ portAt[t] = from /\ portAt' = [portAt EXCEPT ![t] = to]
PortWork(t, b) == portCur' = [portCur EXCEPT ![t] = b]

clientPool == <<poolFirst, poolLast, poolHome>>
portQueue == <<portFirst, portLast>>
portCount == <<transit, transitSema>>
portState == <<portEnabled, portCallback, portPaused, poolShared>>

-----------------------------------------------------------------------------
(* The queue of the pool, and returning a buffer to the client *)

\* mmal_queue_put(): *last = buffer, buffer->next = 0.
ClientPut(b) ==
    IF poolShared
    THEN /\ link' = [IF poolLast = NoBuffer THEN link ELSE [link EXCEPT ![poolLast] = b] EXCEPT ![b] = NoBuffer]
         /\ poolFirst' = IF poolLast = NoBuffer THEN b ELSE poolFirst
         /\ poolLast' = b /\ UNCHANGED poolHome
    ELSE poolHome' = poolHome \cup {b} /\ link' = [link EXCEPT ![b] = NoBuffer] /\ UNCHANGED <<poolFirst, poolLast>>

\* The callback of the client: the buffer goes to its pool.
ClientCallback(b) ==
    IF portCallback THEN ClientPut(b) /\ UNCHANGED nullCall
    ELSE nullCall' = TRUE /\ UNCHANGED <<link, clientPool>>

\* IN_TRANSIT_DECREMENT()
TransitDecrement ==
    /\ transit' = transit - 1
    /\ transitSema' = IF transit = 1 THEN transitSema + 1 ELSE transitSema

\* The component calls mmal_port_buffer_header_callback(): the callback of the client ...
ComponentGive(b) ==
    /\ b \in inComponent /\ PortMove(Cmp, "idle", "given")
    /\ ClientCallback(b) /\ inComponent' = inComponent \ {b}
    /\ UNCHANGED <<portState, sendLock, portQueue, portCount, portCur, portFollowing, portFifo>>

\* ... and then the count.
ComponentGiven ==
    /\ PortMove(Cmp, "given", "idle") /\ TransitDecrement
    /\ UNCHANGED <<portState, sendLock, portQueue, clientPool, link, inComponent, portCur, portFollowing, portFifo, nullCall>>

-----------------------------------------------------------------------------
(* mmal_port_send_buffer() *)

\* The client takes the first buffer of its pool; the link stays what it was in the queue.
ClientTake ==
    /\ PortMove(Snd, "idle", "send")
    /\ \/ /\ poolFirst # NoBuffer /\ PortWork(Snd, poolFirst)
          /\ poolFirst' = link[poolFirst]
          /\ poolLast' = IF link[poolFirst] = NoBuffer THEN NoBuffer ELSE poolLast
          /\ UNCHANGED poolHome
       \/ \E b \in poolHome : PortWork(Snd, b) /\ poolHome' = poolHome \ {b} /\ UNCHANGED <<poolFirst, poolLast>>
    /\ UNCHANGED <<portState, sendLock, portQueue, portCount, link, inComponent, portFollowing, portFifo, nullCall>>

\* A port that is not enabled: the client puts the buffer back.
SendRefused ==
    /\ sendLock = Free /\ ~portEnabled
    /\ PortMove(Snd, "send", "idle") /\ PortWork(Snd, NoBuffer)
    /\ ClientPut(portCur[Snd])
    /\ UNCHANGED <<portState, sendLock, portQueue, portCount, inComponent, portFollowing, portFifo, nullCall>>

\* LOCK_SENDING(), and IN_TRANSIT_INCREMENT(), which waits for the semaphore if the count is 0.
SendLocked ==
    /\ sendLock = Free /\ portEnabled
    /\ PortMove(Snd, "send", "count") /\ sendLock' = Snd
    /\ UNCHANGED <<portState, portQueue, clientPool, portCount, link, inComponent, portCur, portFollowing, portFifo, nullCall>>

TransitIncrement ==
    /\ PortMove(Snd, "count", "deliver")
    /\ transit' = transit + 1
    /\ IF transit = 0 THEN transitSema = 1 /\ transitSema' = 0 ELSE UNCHANGED transitSema
    /\ UNCHANGED <<portState, sendLock, portQueue, clientPool, link, inComponent, portCur, portFollowing, portFifo, nullCall>>

\* Paused: the buffer is linked behind the last one; its own link is left alone, also if it is still
\* that of the pool it was taken from.
SendQueued ==
    /\ portPaused /\ PortWork(Snd, NoBuffer)
    /\ PortMove(Snd, "deliver", IF link[portCur[Snd]] = NoBuffer THEN "idle" ELSE "runs-on")
    /\ LET b == portCur[Snd]
       IN  /\ portFirst' = IF portLast = NoBuffer THEN b ELSE portFirst
           /\ link' = IF portLast = NoBuffer THEN link ELSE [link EXCEPT ![portLast] = b]
           /\ portLast' = b
           /\ portFifo' = Append(portFifo, b)
    /\ sendLock' = Free
    /\ UNCHANGED <<portState, clientPool, portCount, inComponent, portFollowing, nullCall>>

\* pf_send() accepts the buffer.
SendDelivered ==
    /\ ~portPaused /\ PortMove(Snd, "deliver", "idle") /\ PortWork(Snd, NoBuffer)
    /\ inComponent' = inComponent \cup {portCur[Snd]}
    /\ sendLock' = Free
    /\ UNCHANGED <<portState, portQueue, clientPool, portCount, link, portFollowing, portFifo, nullCall>>

\* pf_send() fails: the buffer is counted back, and the client puts it in the pool.
SendFails ==
    /\ ~portPaused /\ PortMove(Snd, "deliver", "idle") /\ PortWork(Snd, NoBuffer)
    /\ TransitDecrement /\ ClientPut(portCur[Snd])
    /\ sendLock' = Free
    /\ UNCHANGED <<portState, portQueue, inComponent, portFollowing, portFifo, nullCall>>

-----------------------------------------------------------------------------
(* mmal_port_enable(), with its own callback as the port is not connected *)

\* The callback is set before pf_enable(), which may fail and leaves it set.
PortEnable ==
    /\ ~portEnabled /\ portCallback' = TRUE
    /\ portAt[Ctl] = "idle" /\ \E ok \in BOOLEAN : portAt' = [portAt EXCEPT ![Ctl] = IF ok THEN "enable" ELSE "idle"]
    /\ UNCHANGED <<portEnabled, portPaused, poolShared, sendLock, portQueue, clientPool, portCount, link, inComponent, portCur, portFollowing,
                   portFifo, nullCall>>

PortEnabled ==
    /\ sendLock = Free /\ PortMove(Ctl, "enable", "idle") /\ portEnabled' = TRUE
    /\ UNCHANGED <<portCallback, portPaused, poolShared, sendLock, portQueue, clientPool, portCount, link, inComponent, portCur, portFollowing,
                   portFifo, nullCall>>

-----------------------------------------------------------------------------
(* mmal_port_disable() *)

\* is_enabled = 0 under the send lock.
PortDisable ==
    /\ portEnabled /\ sendLock = Free
    /\ PortMove(Ctl, "idle", "disable") /\ portEnabled' = FALSE
    /\ UNCHANGED <<portCallback, portPaused, poolShared, sendLock, portQueue, clientPool, portCount, link, inComponent, portCur, portFollowing,
                   portFifo, nullCall>>

\* pf_disable() fails: the port is enabled again.
PortDisableFails ==
    /\ sendLock = Free /\ PortMove(Ctl, "disable", "idle") /\ portEnabled' = TRUE
    /\ UNCHANGED <<portCallback, portPaused, poolShared, sendLock, portQueue, clientPool, portCount, link, inComponent, portCur, portFollowing,
                   portFifo, nullCall>>

\* pf_disable() succeeds: the queue of a paused port is walked ...
PortDisabled ==
    /\ PortMove(Ctl, "disable", "drain") /\ PortWork(Ctl, portFirst)
    /\ UNCHANGED <<portState, sendLock, portQueue, clientPool, portCount, link, inComponent, portFollowing, portFifo, nullCall>>

\* ... each buffer goes to the client by mmal_port_buffer_header_callback() ...
PortWalk(from, to, emptied) ==
    /\ portAt[Ctl] = from
    /\ IF portCur[Ctl] # NoBuffer
       THEN /\ portFollowing' = [portFollowing EXCEPT ![Ctl] = link[portCur[Ctl]]]
            /\ ClientCallback(portCur[Ctl])
            /\ portAt' = [portAt EXCEPT ![Ctl] = to \o "-counted"]
            /\ UNCHANGED <<portCur, portQueue, portFifo>>
       ELSE /\ portAt' = [portAt EXCEPT ![Ctl] = to]
            /\ IF emptied THEN portFirst' = NoBuffer /\ portLast' = NoBuffer /\ portFifo' = <<>>
               ELSE UNCHANGED <<portQueue, portFifo>>
            /\ UNCHANGED <<clientPool, link, nullCall, portFollowing, portCur>>
    /\ UNCHANGED <<portState, sendLock, portCount, inComponent>>

\* ... and is counted.
PortCounted(from, to) ==
    /\ PortMove(Ctl, to \o "-counted", from) /\ TransitDecrement
    /\ PortWork(Ctl, portFollowing[Ctl])
    /\ UNCHANGED <<portState, sendLock, portQueue, clientPool, link, inComponent, portFollowing, portFifo, nullCall>>

\* Mutant: nothing is waited for.
TransitUnwaited ==
    /\ PortMove(Ctl, "wait", "post")
    /\ transitSema' = 0
    /\ UNCHANGED <<portState, sendLock, portQueue, clientPool, transit, link, inComponent, portCur, portFollowing, portFifo, nullCall>>

\* IN_TRANSIT_WAIT(): the semaphore is taken ...
TransitWait ==
    /\ transitSema = 1 /\ transitSema' = 0
    /\ PortMove(Ctl, "wait", "post")
    /\ UNCHANGED <<portState, sendLock, portQueue, clientPool, transit, link, inComponent, portCur, portFollowing, portFifo, nullCall>>

\* ... and given back, and the callback is forgotten.
TransitPost ==
    /\ PortMove(Ctl, "post", "idle") /\ transitSema' = transitSema + 1 /\ portCallback' = FALSE
    /\ UNCHANGED <<portEnabled, portPaused, poolShared, sendLock, portQueue, clientPool, transit, link, inComponent, portCur, portFollowing,
                   portFifo, nullCall>>

-----------------------------------------------------------------------------
(* mmal_port_flush() and mmal_port_pause() *)

\* The queue is taken under the send lock, after pf_flush().
PortFlush ==
    /\ sendLock = Free /\ PortMove(Ctl, "idle", "flush")
    /\ PortWork(Ctl, portFirst)
    /\ portFirst' = NoBuffer /\ portLast' = NoBuffer /\ portFifo' = <<>>
    /\ UNCHANGED <<portState, sendLock, clientPool, portCount, link, inComponent, portFollowing, nullCall>>

\* The component is disabled or enabled.  A port that is not enabled has no queue to send.
PortPause(p) ==
    /\ sendLock = Free /\ portAt[Ctl] = "idle"
    /\ IF p \/ ~portEnabled
       THEN portPaused' = p /\ UNCHANGED <<portAt, sendLock, portCur>>
       ELSE /\ PortMove(Ctl, "idle", "resume") /\ sendLock' = Ctl /\ PortWork(Ctl, portFirst)
            /\ UNCHANGED portPaused
    /\ UNCHANGED <<portEnabled, portCallback, poolShared, portQueue, clientPool, portCount, link, inComponent, portFollowing, portFifo, nullCall>>

\* pf_send() accepts the next buffer of the queue.
ResumeSend ==
    /\ portAt[Ctl] = "resume" /\ portCur[Ctl] # NoBuffer /\ ~QueueRunsOn
    /\ inComponent' = inComponent \cup {portCur[Ctl]}
    /\ PortWork(Ctl, link[portCur[Ctl]])
    /\ portFifo' = IF portFifo = <<>> THEN portFifo ELSE Tail(portFifo)
    /\ UNCHANGED <<portState, sendLock, portQueue, clientPool, portCount, link, portAt, portFollowing, nullCall>>

\* It does not: the rest stays in the queue, and the port paused.
ResumeFails ==
    /\ portCur[Ctl] # NoBuffer /\ PortMove(Ctl, "resume", "idle")
    /\ portFirst' = portCur[Ctl] /\ PortWork(Ctl, NoBuffer) /\ sendLock' = Free
    /\ UNCHANGED <<portState, portLast, clientPool, portCount, link, inComponent, portFollowing, portFifo, nullCall>>

Resumed ==
    /\ portCur[Ctl] = NoBuffer /\ PortMove(Ctl, "resume", "idle")
    /\ portFirst' = NoBuffer /\ portLast' = NoBuffer /\ portPaused' = FALSE /\ sendLock' = Free
    /\ UNCHANGED <<portEnabled, portCallback, poolShared, clientPool, portCount, link, inComponent, portCur, portFollowing, portFifo, nullCall>>

-----------------------------------------------------------------------------

PortControl ==
    \/ PortEnable \/ PortEnabled \/ PortDisable \/ PortDisableFails \/ PortDisabled
    \/ PortWalk("drain", "wait", TRUE) \/ PortCounted("drain", "wait")
    \/ TransitWait \/ TransitPost
    \/ PortFlush \/ PortWalk("flush", "idle", FALSE) \/ PortCounted("flush", "idle")
    \/ \E p \in BOOLEAN : PortPause(p)
    \/ ResumeSend \/ ResumeFails \/ Resumed

PortSender == \/ ClientTake \/ SendRefused \/ SendLocked \/ TransitIncrement
              \/ SendQueued \/ SendDelivered \/ SendFails

PortComponent == ComponentGiven \/ \E b \in PortBuffers : ComponentGive(b)

PortNext == PortControl \/ PortSender \/ PortComponent

\* What a thread is in the middle of it goes on with, and a disabled component gives its buffers
\* back.
PortFair ==
    /\ WF_portVars(PortComponent)
    /\ WF_portVars(SendRefused \/ SendLocked \/ TransitIncrement \/ SendQueued \/ SendDelivered \/ SendFails)
    /\ WF_portVars(PortDisabled) /\ WF_portVars(PortWalk("drain", "wait", TRUE)) /\ WF_portVars(PortCounted("drain", "wait"))
    /\ WF_portVars(TransitWait) /\ WF_portVars(TransitPost)

-----------------------------------------------------------------------------
(* Properties *)

PortTypeOK ==
    /\ portEnabled \in BOOLEAN /\ portCallback \in BOOLEAN /\ portPaused \in BOOLEAN
    /\ sendLock \in {Free, Ctl, Snd} /\ portFirst \in PortLinks /\ portLast \in PortLinks
    /\ link \in [PortBuffers -> PortLinks] /\ transit \in Int /\ transitSema \in 0 .. 1
    /\ poolFirst \in PortLinks /\ poolLast \in PortLinks
    /\ poolShared \in BOOLEAN /\ poolHome \subseteq PortBuffers /\ inComponent \subseteq PortBuffers
    /\ portAt \in [PortThreads -> STRING] /\ portCur \in [PortThreads -> PortLinks]
    /\ portFollowing \in [PortThreads -> PortLinks] /\ portFifo \in Seq(PortBuffers) /\ nullCall \in BOOLEAN

\* The list that starts at b, as far as it does not repeat itself.
LinkedFrom(b) ==
    LET upTo[n \in 0 .. PortBufferNum] ==
            IF n = 0 THEN IF b = NoBuffer THEN <<>> ELSE <<b>>
            ELSE LET l == upTo[n - 1]
                 IN  IF l = <<>> \/ link[l[Len(l)]] = NoBuffer THEN l ELSE Append(l, link[l[Len(l)]])
    IN  upTo[PortBufferNum]

\* What the threads are in the middle of returning or sending is still counted.
TransitPending == Cardinality({t \in {Ctl, Cmp} : portAt[t] \in {"given", "wait-counted", "idle-counted"}})
           + (IF portAt[Snd] = "deliver" THEN 1 ELSE 0)

PortWalked == IF portAt[Ctl] \in {"drain", "flush"} THEN LinkedFrom(portCur[Ctl])
          ELSE IF portAt[Ctl] \in {"wait-counted", "idle-counted"} THEN LinkedFrom(portFollowing[Ctl])
          ELSE <<>>

PortQueued == IF portAt[Ctl] \in {"drain", "wait-counted"} THEN <<>>
          ELSE IF portAt[Ctl] = "resume" THEN LinkedFrom(portCur[Ctl]) ELSE LinkedFrom(portFirst)

\* IN_TRANSIT_COUNT() is the number of buffers between mmal_port_send_buffer() and the end of
\* mmal_port_buffer_header_callback(): those in the component, in the queue of a paused port, and
\* those a thread is returning.
TransitExact == QueueRunsOn \/ transit = Cardinality(inComponent) + Len(PortQueued) + Len(PortWalked) + TransitPending

\* transit_sema is free exactly when no buffer is in transit, but for the moment in which
\* mmal_port_disable() has it.
SemaphoreExact == (transitSema = 1) = (transit = 0 /\ portAt[Ctl] # "post")

\* mmal_port_buffer_header_callback() never calls a callback that mmal_port_disable() has reset.
CallbackSet == ~nullCall

\* A port that mmal_port_disable() returned for has no buffer left, whatever it was doing: neither
\* the component nor the queue of the port.
DisabledIsEmpty ==
    portAt[Ctl] = "idle" /\ ~portEnabled /\ ~portCallback =>
        inComponent = {} /\ portFirst = NoBuffer /\ transit = 0

\* The queue of a paused port holds what was sent to it, in the order it was sent, also after a
\* mmal_port_pause() that could not resume the port.
PausedInOrder == portAt[Ctl] \notin {"drain", "wait-counted"} /\ ~QueueRunsOn => PortQueued = portFifo

\* The queue of a paused port runs on into another list only if the pool had a second buffer behind the
\* one that was taken from it: a client whose every buffer is alone in its pool is safe.
RunsOnOnlyShared == QueueRunsOn => poolShared

\* mmal_port_disable() returns once the component has given its buffers back.
DisableReturns == (portAt[Ctl] = "wait") ~> (portAt[Ctl] = "idle" \/ QueueRunsOn)

\* A port counts the buffers in transit, keeps those of a paused port in order, and is empty, its callback at rest, once
\* mmal_port_disable() returned.
PortKept ==
    TransitExact /\ SemaphoreExact /\ CallbackSet /\ DisabledIsEmpty /\ PausedInOrder /\ RunsOnOnlyShared
=============================================================================
