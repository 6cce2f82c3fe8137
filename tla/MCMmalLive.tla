----------------------------- MODULE MCMmalLive ------------------------------
(*****************************************************************************)
(* Smaller instances of the MMAL modules that wait for something, side by    *)
(* side, under the fairness of each: component says which of them a behaviour *)
(* is about.  The fairness of the modules is merged conjunct by conjunct: in a *)
(* behaviour of one module the actions of the others are disabled for good.  *)
(* The pool and the clock ports, which never wait, do nothing here.          *)
(*****************************************************************************)
EXTENDS MmalPool, MmalPort, MmalTunnel, MmalAction, MmalClock, MmalVcClient, MmalVcPort,
        MmalConnection, MmalWrapper

VARIABLE component

\* The threads of the queue and of the VideoCore client, and a port of the tunnel for each.
Slots == QThreads \cup VcThreads
SlotPort(t) == IF t = (CHOOSE x \in Slots : TRUE) THEN "in" ELSE "out"

Components == {"queue", "port", "tunnel", "action", "clock", "vcClient", "vcPort", "connection",
               "wrapper"}
mmalLiveVars == <<poolVars, clockPortVars, queueVars, portVars, tunnelVars, actionVars, clockVars, vcClientVars, vcPortVars,
        connectionVars, wrapperVars, component>>

\* A step of the module of c, while the others do nothing.
Only(c, Taken) ==
    /\ component = c /\ Taken /\ UNCHANGED <<component, poolVars, clockPortVars>>
    /\ c # "queue" => UNCHANGED queueVars
    /\ c # "port" => UNCHANGED portVars
    /\ c # "tunnel" => UNCHANGED tunnelVars
    /\ c # "action" => UNCHANGED actionVars
    /\ c # "clock" => UNCHANGED clockVars
    /\ c # "vcClient" => UNCHANGED vcClientVars
    /\ c # "vcPort" => UNCHANGED vcPortVars
    /\ c # "connection" => UNCHANGED connectionVars
    /\ c # "wrapper" => UNCHANGED wrapperVars

MmalLiveInit ==
    /\ component \in Components /\ PoolInit /\ ClockPortInit
    /\ QueueInit /\ (component # "queue" => qHas[CHOOSE t \in QThreads : TRUE] = QBuffers)
    /\ PortInit /\ (component # "port" => ~poolShared)
    /\ TunnelInit
    /\ ActionInit
    /\ ClockInit
    /\ VcClientInit
    /\ VcPortInit
    /\ ConnectionInit
    /\ WrapperInit

MmalLiveNext ==
    \/ Only("queue", QueueNext)
    \/ Only("port", PortNext)
    \/ Only("tunnel", TunnelNext)
    \/ Only("action", ActionNext)
    \/ Only("clock", ClockNext)
    \/ Only("vcClient", VcClientNext)
    \/ Only("vcPort", VcPortNext)
    \/ Only("connection", ConnectionNext)
    \/ Only("wrapper", WrapperNext)

\* The variables of the module a behaviour is about: the only ones its fairness has to look at.
activeVars ==
    CASE component = "queue" -> queueVars
      [] component = "port" -> portVars
      [] component = "tunnel" -> tunnelVars
      [] component = "action" -> actionVars
      [] component = "clock" -> clockVars
      [] component = "vcClient" -> vcClientVars
      [] component = "vcPort" -> vcPortVars
      [] component = "connection" -> connectionVars
      [] component = "wrapper" -> wrapperVars

\* A step of the module of c, whatever it leaves alone.
Of(c, Taken) == component = c /\ Taken /\ UNCHANGED component

MmalLiveSpec ==
    /\ MmalLiveInit /\ [][MmalLiveNext]_mmalLiveVars
    /\ WF_activeVars(\/ Of("port", PortComponent)
                     \/ Of("tunnel", TunnelControl)
                     \/ Of("connection", CxCalls)
                     \/ Of("vcClient", VcHandles)
                     \/ Of("vcPort", VcPortMoves)
                     \/ Of("clock", clockAt # "gone" /\ Tick)
                     \/ Of("wrapper", WrapperWakes)
                     \/ Of("action", (ActionWakes \/ ActionRan)))
    /\ WF_activeVars(\/ Of("port", (SendRefused \/ SendLocked \/ TransitIncrement \/ SendQueued \/ SendDelivered \/ SendFails))
                     \/ Of("tunnel", TunnelProducer)
                     \/ Of("connection", CxWorker)
                     \/ Of("vcClient", Callback)
                     \/ Of("vcPort", ActionTakes)
                     \/ Of("clock", WorkerWakes)
                     \/ Of("wrapper", WrapperPost)
                     \/ Of("action", ActionUnlock))
    /\ WF_activeVars(\/ Of("port", (PortDisabled \/ PortWalk("drain", "wait", TRUE) \/ PortCounted("drain", "wait") \/ TransitWait))
                     \/ Of("tunnel", TunnelConsumer)
                     \/ Of("connection", GraphEnabled)
                     \/ Of("vcPort", ActionDelivers)
                     \/ Of("clock", Process)
                     \/ Of("action", ActionJoined))
    /\ WF_activeVars(\/ Of("port", TransitPost)
                     \/ Of("connection", (\E b \in CxBuffers : Produced(b)))
                     \/ Of("vcPort", (Drain \/ Drained \/ (vpAt = "disable" /\ \E b \in VpBuffers : VcReturns(b, "empty"))))
                     \/ Of("clock", ClockDestroy))
    /\ \A t \in Slots : WF_activeVars(\/ Of("connection", \E b \in CxBuffers : Consumed(b))
                                      \/ Of("queue", t \in QThreads /\ (QueuePost(t) \/ QueueTake(t)))
                                      \/ Of("vcClient", t \in VcThreads /\ VcStep(t)))
    /\ \A t \in Slots : SF_activeVars(\/ Of("queue", t \in QThreads /\ QueueLook(t))
                                      \/ Of("vcClient", t \in VcThreads /\ WaiterWait(t))
                                      \/ Of("tunnel", \E b \in TunnelBuffers : Return(SlotPort(t), b))
                                      \/ Of("action", ActionRuns))

\* Every wait of the library ends: of a queue, a port or a tunnel that is being disabled, a call to the VideoCore, the
\* wrapper, an action and a request to the clock; and buffers go round.
MmalProgress ==
    /\ GetSucceeds /\ DisableReturns /\ TunnelDisableEnds /\ CallsReturn /\ VcDisableEnds /\ Served /\ WrapperWaitEnds
    /\ ActionEnds /\ Circulates /\ CxCirculates
=============================================================================
