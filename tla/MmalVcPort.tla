----------------------------- MODULE MmalVcPort -----------------------------
(***************************************************************************)
(* A port of a VideoCore component, seen from the host (mmal_vc_api.c and  *)
(* the callback of mmal_vc_client.c): its buffers travel to VideoCore and  *)
(* back.  A message says which buffer; the data of a buffer that is not    *)
(* shared memory follows on the bulk channel, so that a message without    *)
(* data may overtake the data of an earlier one.  Buffers that came back   *)
(* wait in the callback queue of the component for its action thread.      *)
(*                                                                         *)
(* External: VCHIQ, which keeps the order of messages and of bulk          *)
(* transfers, and the server, which returns all buffers before it answers  *)
(* the request to disable a port ("MMAL server should make sure that all   *)
(* buffers are sent back before it disables the port").                    *)
(***************************************************************************)
EXTENDS Integers, Sequences, SequencesExt, FiniteSets

CONSTANTS
    VpBuffers,   \* buffer headers of the client
    VpBufferNum  \* port->buffer_num, the size of the pool of contexts

ASSUME VpAssumption == IsFiniteSet(VpBuffers) /\ VpBufferNum \in Nat \ {0}

VARIABLES
    vpAt,        \* the client's thread: off, on, flush, disable, drain
    vpPool,      \* module->pool: none, live, deleted
    vpHasPool,   \* module->has_pool
    vpConnected, \* module->connected
    vpFailed,    \* an attempt to enable the port failed
    vpZeroCopy,    \* module->is_zero_copy
    sentData,    \* module->sent_data_on_port
    compatible,  \* is_port_flush_compatible
    vpWhere,     \* where each buffer is
    contexts,    \* the buffers that hold a context of the pool
    msgsOut,     \* messages to VideoCore
    bulkOut,     \* what VideoCore waits for on the bulk channel
    msgsIn,      \* messages to the host
    bulkIn,      \* what the host waits for on the bulk channel
    cbQueue,     \* callback_queue
    inAction,    \* the buffer mmal_vc_do_callback() has in the action thread
    returned,    \* the buffers with data VideoCore has returned and the client has not, in order
    overtook,    \* a flush was carried out before a buffer sent earlier had arrived
    disordered,  \* a buffer with data reached the client before an earlier one
    poolMisused  \* a pool that was deleted was used or deleted again

vcPortVars == <<vpAt, vpPool, vpHasPool, vpConnected, vpFailed, vpZeroCopy, sentData, compatible, vpWhere, contexts,
                msgsOut, bulkOut, msgsIn, bulkIn, cbQueue, inAction, returned, overtook, disordered, poolMisused>>
vpSettings == <<vpPool, vpHasPool, vpConnected, vpFailed, vpZeroCopy, poolMisused>>
vpBack == <<cbQueue, inAction, returned, disordered>>

NoVpBuf == "nobuf"

VcPortInit ==
    /\ vpAt = "off" /\ vpPool = "none" /\ vpHasPool = FALSE /\ vpConnected = FALSE /\ vpFailed = FALSE
    /\ vpZeroCopy = FALSE /\ sentData = FALSE /\ compatible = "unknown"
    /\ vpWhere = [b \in VpBuffers |-> "client"] /\ contexts = {}
    /\ msgsOut = <<>> /\ bulkOut = <<>> /\ msgsIn = <<>> /\ bulkIn = <<>> /\ cbQueue = <<>> /\ inAction = NoVpBuf
    /\ returned = <<>> /\ overtook = FALSE /\ disordered = FALSE /\ poolMisused = FALSE

Moved(b, to) == vpWhere' = [vpWhere EXCEPT ![b] = to]
-----------------------------------------------------------------------------
(* mmal_vc_port_enable(), _disable(), _connect(), _parameter_set() *)

\* A port that is connected on VideoCore needs no contexts.  The pool is deleted again when the
\* request fails, and has_pool stays as it is.
VcPortEnable(ok) ==
    LET made == ~vpConnected
        pool == IF made THEN "live" ELSE vpPool
        has  == vpHasPool \/ made IN
    /\ vpAt = "off" /\ vpHasPool' = has
    /\ IF ok THEN vpAt' = "on" /\ vpPool' = pool /\ UNCHANGED <<vpFailed, poolMisused>>
       ELSE /\ vpAt' = "off" /\ vpPool' = (IF has THEN "deleted" ELSE pool)
            /\ vpFailed' = TRUE /\ poolMisused' = (poolMisused \/ (has /\ pool # "live"))
    /\ UNCHANGED <<vpConnected, vpZeroCopy, sentData, compatible, vpWhere, contexts, msgsOut, bulkOut, msgsIn, bulkIn,
                   vpBack, overtook>>

\* mmal_vc_port_connect(), with another port and with none.  Only while the port is disabled
\* (mmal_port_connect(), mmal_port_disconnect()).
VcPortConnect ==
    /\ vpAt = "off" /\ vpConnected' = ~vpConnected
    /\ UNCHANGED <<vpAt, vpPool, vpHasPool, vpFailed, vpZeroCopy, sentData, compatible, vpWhere, contexts, msgsOut,
                   bulkOut, msgsIn, bulkIn, vpBack, overtook, poolMisused>>

\* MMAL_PARAMETER_ZERO_COPY, which clients set before they enable the port.
VcPortZeroCopy ==
    /\ vpAt = "off" /\ vpZeroCopy' = ~vpZeroCopy
    /\ UNCHANGED <<vpAt, vpPool, vpHasPool, vpConnected, vpFailed, sentData, compatible, vpWhere, contexts, msgsOut,
                   bulkOut, msgsIn, bulkIn, vpBack, overtook, poolMisused>>

VcPortDisable ==
    /\ vpAt = "on" /\ vpAt' = "disable"
    /\ UNCHANGED <<vpSettings, sentData, compatible, vpWhere, contexts, msgsOut, bulkOut, msgsIn, bulkIn, vpBack,
                   overtook>>

\* The answer has come: the pool goes.
DisableAnswered ==
    /\ vpAt = "disable" /\ msgsIn # <<>> /\ Head(msgsIn) = <<"disabled">> /\ msgsIn' = Tail(msgsIn)
    /\ vpAt' = "drain"
    /\ vpPool' = (IF vpHasPool THEN "deleted" ELSE vpPool) /\ vpHasPool' = FALSE
    /\ poolMisused' = (poolMisused \/ (vpHasPool /\ vpPool # "live"))
    /\ UNCHANGED <<vpConnected, vpFailed, vpZeroCopy, sentData, compatible, vpWhere, contexts, msgsOut, bulkOut, bulkIn,
                   vpBack, overtook>>

-----------------------------------------------------------------------------
(* mmal_vc_do_callback(): from the action thread, or from the thread that disables the port *)

\* mmal_port_buffer_header_callback(): the buffer is the client's again.
Delivered(b) ==
    /\ Moved(b, "client")
    /\ returned' = SelectSeq(returned, LAMBDA r : r # b)
    /\ disordered' = (disordered \/ (vpAt \notin {"disable", "drain"} /\ Contains(returned, b) /\ Head(returned) # b))

ActionTakes ==
    /\ inAction = NoVpBuf /\ cbQueue # <<>>
    /\ inAction' = Head(cbQueue) /\ cbQueue' = Tail(cbQueue)
    /\ UNCHANGED <<vpAt, vpSettings, sentData, compatible, vpWhere, contexts, msgsOut, bulkOut, msgsIn, bulkIn,
                   returned, disordered, overtook>>

ActionDelivers ==
    /\ inAction # NoVpBuf /\ Delivered(inAction) /\ inAction' = NoVpBuf
    /\ UNCHANGED <<vpAt, vpSettings, sentData, compatible, contexts, msgsOut, bulkOut, msgsIn, bulkIn, cbQueue,
                   overtook>>

\* "We need to make sure all the queued callbacks have been done"
Drain ==
    /\ vpAt = "drain" /\ cbQueue # <<>> /\ Delivered(Head(cbQueue)) /\ cbQueue' = Tail(cbQueue)
    /\ UNCHANGED <<vpAt, vpSettings, sentData, compatible, contexts, msgsOut, bulkOut, msgsIn, bulkIn, inAction,
                   overtook>>

\* The queue is empty; mmal_port_disable() then waits until no buffer is in transit.
Drained ==
    /\ vpAt = "drain" /\ cbQueue = <<>> /\ (\A b \in VpBuffers : vpWhere[b] = "client")
    /\ vpAt' = "off"
    /\ UNCHANGED <<vpSettings, sentData, compatible, vpWhere, contexts, msgsOut, bulkOut, msgsIn, bulkIn, vpBack,
                   overtook>>

-----------------------------------------------------------------------------
(* mmal_vc_port_send() and mmal_vc_port_flush() *)

\* Without a pool, or with all its contexts in use, the buffer is refused.  A buffer with data that
\* is neither shared nor short enough for the message goes by bulk transfer, and so does one that
\* only says "end of stream".
VcPortSend(b, bulk) ==
    /\ vpAt = "on" /\ vpWhere[b] = "client"
    /\ vpHasPool /\ Cardinality(contexts) < VpBufferNum /\ (bulk => ~vpZeroCopy)
    /\ contexts' = contexts \cup {b} /\ Moved(b, "away")
    /\ sentData' = (sentData \/ bulk)
    /\ msgsOut' = Append(msgsOut, <<"buffer", b, bulk>>)
    /\ UNCHANGED <<vpAt, vpSettings, compatible, bulkOut, msgsIn, bulkIn, vpBack, overtook>>

\* The version of the server is asked for once; when that fails it counts as an old one.
Version(sync) ==
    IF vpZeroCopy \/ ~sentData THEN UNCHANGED compatible /\ sync = FALSE
    ELSE /\ compatible' \in (IF compatible = "unknown" THEN {"yes", "no"} ELSE {compatible})
         /\ sync = (compatible' = "yes")

\* With data sent by bulk transfer before, the flush has a transfer of its own and keeps its place
\* among them.
VcPortFlush ==
    /\ vpAt = "on" /\ vpAt' = "flush"
    /\ \E sync \in BOOLEAN : Version(sync) /\ msgsOut' = Append(msgsOut, <<"flush", NoVpBuf, sync>>)
    /\ UNCHANGED <<vpSettings, sentData, vpWhere, contexts, bulkOut, msgsIn, bulkIn, vpBack, overtook>>

FlushAnswered ==
    /\ vpAt = "flush" /\ msgsIn # <<>> /\ Head(msgsIn) = <<"flushed">> /\ msgsIn' = Tail(msgsIn) /\ vpAt' = "on"
    /\ UNCHANGED <<vpSettings, sentData, compatible, vpWhere, contexts, msgsOut, bulkOut, bulkIn, vpBack, overtook>>

-----------------------------------------------------------------------------
(* VideoCore *)

AtVc == {b \in VpBuffers : vpWhere[b] = "vc"}

\* A flush returns what the component holds, without data.
Flushed ==
    /\ msgsIn' = msgsIn \o SetToSeq({<<"buffer", b, "empty">> : b \in AtVc}) \o <<<<"flushed">>>>
    /\ vpWhere' = [b \in VpBuffers |-> IF b \in AtVc THEN "away" ELSE vpWhere[b]]
    /\ overtook' = (overtook \/ bulkOut # <<>>)

VcTakes ==
    LET msg == Head(msgsOut) IN
    /\ msgsOut # <<>> /\ msgsOut' = Tail(msgsOut)
    /\ IF msg[3] THEN bulkOut' = Append(bulkOut, msg) /\ UNCHANGED <<vpWhere, msgsIn, overtook>>
       ELSE IF msg[1] = "flush" THEN Flushed /\ UNCHANGED bulkOut
       ELSE Moved(msg[2], "vc") /\ UNCHANGED <<bulkOut, msgsIn, overtook>>
    /\ UNCHANGED <<vpAt, vpSettings, sentData, compatible, contexts, bulkIn, vpBack>>

VcBulkDone ==
    LET msg == Head(bulkOut) IN
    /\ bulkOut # <<>> /\ bulkOut' = Tail(bulkOut)
    /\ IF msg[1] = "flush"
       THEN /\ msgsIn' = msgsIn \o SetToSeq({<<"buffer", b, "empty">> : b \in AtVc}) \o <<<<"flushed">>>>
            /\ vpWhere' = [b \in VpBuffers |-> IF b \in AtVc THEN "away" ELSE vpWhere[b]]
       ELSE Moved(msg[2], "vc") /\ UNCHANGED msgsIn
    /\ UNCHANGED <<vpAt, vpSettings, sentData, compatible, contexts, msgsOut, bulkIn, vpBack, overtook>>

\* A buffer comes back with data, at the end of the stream, or empty.
VcReturns(b, kind) ==
    /\ vpWhere[b] = "vc" /\ Moved(b, "away")
    /\ msgsIn' = Append(msgsIn, <<"buffer", b, kind>>)
    /\ returned' = IF kind = "empty" THEN returned ELSE Append(returned, b)
    /\ UNCHANGED <<vpAt, vpSettings, sentData, compatible, contexts, msgsOut, bulkOut, bulkIn, cbQueue, inAction,
                   disordered, overtook>>

VcDisables ==
    /\ vpAt = "disable" /\ msgsOut = <<>> /\ bulkOut = <<>> /\ AtVc = {} /\ bulkIn = <<>>
    /\ \A i \in DOMAIN msgsIn : msgsIn[i][1] = "buffer" /\ (vpZeroCopy \/ msgsIn[i][3] = "empty")
    /\ msgsIn' = Append(msgsIn, <<"disabled">>)
    /\ UNCHANGED <<vpAt, vpSettings, sentData, compatible, vpWhere, contexts, msgsOut, bulkOut, bulkIn, vpBack,
                   overtook>>

-----------------------------------------------------------------------------
(* mmal_vc_vchiq_callback(), mmal_vc_port_send_callback() *)

\* The context is freed and the buffer queued for the action thread.
SendCallback(b) == contexts' = contexts \ {b} /\ Moved(b, "queued") /\ cbQueue' = Append(cbQueue, b)

\* Mutant: an "end of stream" without data is handed on at once.
HostTakesEos ==
    LET msg == Head(msgsIn) IN
    /\ msgsIn # <<>> /\ msg[1] = "buffer" /\ msgsIn' = Tail(msgsIn)
    /\ IF ~vpZeroCopy /\ msg[3] = "data" THEN bulkIn' = Append(bulkIn, msg[2]) /\ UNCHANGED <<contexts, vpWhere, cbQueue>>
       ELSE SendCallback(msg[2]) /\ UNCHANGED bulkIn
    /\ UNCHANGED <<vpAt, vpSettings, sentData, compatible, msgsOut, bulkOut, inAction, returned, disordered, overtook>>

\* Data, and the end of the stream, are waited for; anything else is handed on.
HostTakes ==
    LET msg == Head(msgsIn) IN
    /\ msgsIn # <<>> /\ msg[1] = "buffer" /\ msgsIn' = Tail(msgsIn)
    /\ IF ~vpZeroCopy /\ msg[3] \in {"data", "eos"}
       THEN bulkIn' = Append(bulkIn, msg[2]) /\ UNCHANGED <<contexts, vpWhere, cbQueue>>
       ELSE SendCallback(msg[2]) /\ UNCHANGED bulkIn
    /\ UNCHANGED <<vpAt, vpSettings, sentData, compatible, msgsOut, bulkOut, inAction, returned, disordered, overtook>>

\* VCHIQ_BULK_RECEIVE_DONE and _ABORTED.
HostBulkDone ==
    /\ bulkIn # <<>> /\ bulkIn' = Tail(bulkIn) /\ SendCallback(Head(bulkIn))
    /\ UNCHANGED <<vpAt, vpSettings, sentData, compatible, msgsOut, bulkOut, msgsIn, inAction, returned, disordered,
                   overtook>>

-----------------------------------------------------------------------------

VcPortMoves == \/ VcTakes \/ VcBulkDone \/ VcDisables \/ HostTakes \/ HostBulkDone \/ FlushAnswered \/ DisableAnswered

VcPortNext ==
    \/ VcPortMoves \/ ActionTakes \/ ActionDelivers \/ Drain \/ Drained
    \/ \E ok \in BOOLEAN : VcPortEnable(ok)
    \/ VcPortConnect \/ VcPortZeroCopy \/ VcPortDisable \/ VcPortFlush
    \/ \E b \in VpBuffers : \/ \E bulk \in BOOLEAN : VcPortSend(b, bulk)
                            \/ \E kind \in {"data", "eos", "empty"} : VcReturns(b, kind)

\* VCHIQ, the threads and the server run on; a server that is asked to disable returns its buffers.
VcPortFair ==
    /\ WF_vcPortVars(VcPortMoves) /\ WF_vcPortVars(ActionTakes) /\ WF_vcPortVars(ActionDelivers)
    /\ WF_vcPortVars(Drain \/ Drained)
    /\ WF_vcPortVars(vpAt = "disable" /\ \E b \in VpBuffers : VcReturns(b, "empty"))

-----------------------------------------------------------------------------
(* Properties *)

VcPortTypeOK ==
    /\ vpAt \in {"off", "on", "flush", "disable", "drain"} /\ vpPool \in {"none", "live", "deleted"}
    /\ vpHasPool \in BOOLEAN /\ compatible \in {"unknown", "yes", "no"}
    /\ vpWhere \in [VpBuffers -> {"client", "away", "vc", "queued"}] /\ contexts \subseteq VpBuffers
    /\ Range(cbQueue) \subseteq VpBuffers /\ Range(bulkIn) \subseteq VpBuffers /\ inAction \in VpBuffers \cup {NoVpBuf}

\* A flush never overtakes a buffer that was sent before it, as the comment in mmal_vc_port_flush()
\* asks, on a server that is known to be new enough.
FlushInOrder == compatible # "no" => ~overtook

\* Buffers with data and the end of the stream reach the client in the order in which VideoCore
\* returned them, although empty buffers overtake them and although two threads call
\* mmal_vc_do_callback(); only while the port is being disabled is the order lost.
DataInOrder == ~disordered

\* Each buffer that is with VideoCore or on its way has its context, and no other has: none is
\* leaked, so that the pool suffices for the next buffers, and none is freed twice.
ContextsExact == contexts = {b \in VpBuffers : vpWhere[b] \in {"away", "vc"}}

\* A disabled port has given all its buffers back to the client, and none is still in the hands of
\* the action thread.
DisabledHasNone == vpAt = "off" => (\A b \in VpBuffers : vpWhere[b] = "client") /\ inAction = NoVpBuf

\* The pool of contexts exists while has_pool says so, and is deleted once, unless an attempt to
\* enable the port failed.
PoolAsSaid == vpFailed \/ ((vpHasPool => vpPool = "live") /\ ~poolMisused)

\* Disabling a port ends, whatever is under way.
VcDisableEnds == (vpAt = "disable") ~> (vpAt = "off")
=============================================================================
