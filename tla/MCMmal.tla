------------------------------- MODULE MCMmal --------------------------------
(*****************************************************************************)
(* Small instances of the MMAL modules, side by side: component says which   *)
(* of them a behaviour is about, and the others keep one of their initial    *)
(* states.  As component never changes, each behaviour is one of the         *)
(* module's own specification.                                               *)
(*****************************************************************************)
EXTENDS MmalPool, MmalPort, MmalTunnel, MmalComponent, MmalAction, MmalClock, MmalUtil, MmalVcClient, MmalVcPort,
        MmalVcComponent, MmalPayload, MmalConnection, MmalGraph, MmalWrapper, MmalCxLife

VARIABLE component

\* Two connections from one output port, and two into one input port.
MCCxOut == <<"o", "o", "r">>
MCCxIn == <<"p", "q", "p">>

Components == {"pool", "queue", "port", "tunnel", "component", "action", "list", "clock",
               "clockPort", "format", "convert", "vcClient", "vcPort", "vcComponent", "payload",
               "connection", "graph", "wrapper", "cxLife"}
mmalVars == <<poolVars, queueVars, portVars, tunnelVars, componentVars, actionVars, listVars,
        clockVars, clockPortVars, formatVars, convertVars, vcClientVars, vcPortVars, vccVars,
        payloadVars, connectionVars, graphVars, wrapperVars, clVars, component>>

\* A step of the module of c, while the others do nothing.
Only(c, Taken) ==
    /\ component = c /\ Taken /\ UNCHANGED component
    /\ c # "pool" => UNCHANGED poolVars
    /\ c # "queue" => UNCHANGED queueVars
    /\ c # "port" => UNCHANGED portVars
    /\ c # "tunnel" => UNCHANGED tunnelVars
    /\ c # "component" => UNCHANGED componentVars
    /\ c # "action" => UNCHANGED actionVars
    /\ c # "list" => UNCHANGED listVars
    /\ c # "clock" => UNCHANGED clockVars
    /\ c # "clockPort" => UNCHANGED clockPortVars
    /\ c # "format" => UNCHANGED formatVars
    /\ c # "convert" => UNCHANGED convertVars
    /\ c # "vcClient" => UNCHANGED vcClientVars
    /\ c # "vcPort" => UNCHANGED vcPortVars
    /\ c # "vcComponent" => UNCHANGED vccVars
    /\ c # "payload" => UNCHANGED payloadVars
    /\ c # "connection" => UNCHANGED connectionVars
    /\ c # "graph" => UNCHANGED graphVars
    /\ c # "wrapper" => UNCHANGED wrapperVars
    /\ c # "cxLife" => UNCHANGED clVars

MmalInit ==
    /\ component \in Components
    /\ PoolInit
    /\ QueueInit /\ (component # "queue" => qHas[CHOOSE t \in QThreads : TRUE] = QBuffers)
    /\ PortInit /\ (component # "port" => ~poolShared)
    /\ TunnelInit
    /\ ComponentInit
    /\ ActionInit
    /\ ListInit
    /\ ClockInit
    /\ ClockPortInit
    /\ FormatInit /\ (component # "format" => es = [f \in Formats |-> CHOOSE x \in Contents : TRUE])
    /\ ConvertInit
    /\ VcClientInit
    /\ VcPortInit
    /\ VccInit
    /\ PayloadInit /\ (component # "payload" => \A t \in PayloadThreads : ~zeroCopy[t] /\ ~opaque[t])
    /\ ConnectionInit
    /\ GraphInit
    /\ WrapperInit
    /\ ClInit

MmalNext ==
    \/ Only("pool", PoolNext)
    \/ Only("queue", QueueNext)
    \/ Only("port", PortNext)
    \/ Only("tunnel", TunnelNext)
    \/ Only("component", ComponentNext)
    \/ Only("action", ActionNext)
    \/ Only("list", ListNext)
    \/ Only("clock", ClockNext)
    \/ Only("clockPort", ClockPortNext)
    \/ Only("format", FormatNext)
    \/ Only("convert", ConvertNext)
    \/ Only("vcClient", VcClientNext)
    \/ Only("vcPort", VcPortNext)
    \/ Only("vcComponent", VccNext)
    \/ Only("payload", PayloadNext)
    \/ Only("connection", ConnectionNext)
    \/ Only("graph", GraphNext)
    \/ Only("wrapper", WrapperNext)
    \/ Only("cxLife", ClNext)

MmalSpec == MmalInit /\ [][MmalNext]_mmalVars

\* The variables of the module a behaviour is about have their types.
MmalTypeOK ==
    /\ component \in Components
    /\ component = "pool" => PoolTypeOK
    /\ component = "queue" => QueueTypeOK
    /\ component = "port" => PortTypeOK
    /\ component = "tunnel" => TunnelTypeOK
    /\ component = "component" => ComponentTypeOK
    /\ component = "action" => ActionTypeOK
    /\ component = "list" => ListTypeOK
    /\ component = "clock" => ClockTypeOK
    /\ component = "clockPort" => ClockPortTypeOK
    /\ component = "format" => FormatTypeOK
    /\ component = "vcClient" => VcClientTypeOK
    /\ component = "vcPort" => VcPortTypeOK
    /\ component = "vcComponent" => VccTypeOK
    /\ component = "payload" => PayloadTypeOK
    /\ component = "connection" => ConnectionTypeOK
    /\ component = "graph" => GraphTypeOK
    /\ component = "wrapper" => WrapperTypeOK
    /\ component = "cxLife" => ClTypeOK

\* A buffer between two connected ports, tunnelled or carried by a client, or inside the wrapper of a component, is in one
\* place; the ports are told the format before the frames; and what is disabled is empty.
ConnectionFlow ==
    /\ PoolDestroyedWhole /\ TunnelCallbackSet /\ TunnelTransitExact
    /\ PoolWholeAgain /\ FormatInOrder /\ CxBufferOnce /\ NothingForgotten /\ WrapperDisabledEmpty

\* The host and the VideoCore agree on the components, the buffers and the shared memory there are, and nothing overtakes
\* what it must follow.
VideoCoreAgrees ==
    /\ FlushInOrder /\ DataInOrder /\ ContextsExact /\ DisabledHasNone /\ PoolAsSaid
    /\ ClientBalanced /\ NothingLeftThere /\ CopyFresh /\ SlotsExact /\ FreedWhereAllocated
=============================================================================
