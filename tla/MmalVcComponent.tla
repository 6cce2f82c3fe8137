-------------------------- MODULE MmalVcComponent ---------------------------
(***************************************************************************)
(* A component that lives on the VideoCore (mmal_vc_api.c): how the host   *)
(* creates and destroys it with remote calls, each of which may fail, and  *)
(* the host's copy of what the VideoCore says of its ports, which the      *)
(* operations on a port bring up to date.                                  *)
(*                                                                         *)
(* One client thread works on the component.  An operation is the list     *)
(* vccTodo of the calls it still has to make; a call that fails ends it or *)
(* sends it to its clean-up.                                               *)
(***************************************************************************)
EXTENDS Integers, Sequences

CONSTANTS
    MaxVcHandles,   \* bound: components the VideoCore creates over time
    MaxVccFaults    \* bound: remote calls and allocations that fail

VccPorts == {"in", "out"}
Infos == [fmt : {0, 1}, req : {0, 1}]    \* the format, and the buffer requirements
NoHandle == 0

VARIABLES
    vccLife,      \* the host's component: "none", "alive", or what is being done to it
    vccTodo,      \* calls the operation under way still has to make
    vccInits,     \* calls of mmal_vc_init() without their mmal_vc_deinit()
    vccUses,      \* calls of mmal_vc_use() without their mmal_vc_release()
    vccUnused,    \* mmal_vc_use() failed, which goes unnoticed
    vccHandle,    \* module->component_handle
    vccMem,       \* components whose context and ports are allocated here
    vccThere,     \* components that exist on the VideoCore
    vccLost,      \* components that a failed call left there
    vccHost,      \* the host's copy of the information on each port
    vccRemote,    \* the information itself
    vccUnread,    \* ports whose information a failed call left unread
    vccFaults

vccOwned == <<vccInits, vccUses, vccUnused, vccHandle, vccMem, vccThere, vccLost>>
vccInfo == <<vccHost, vccRemote, vccUnread>>
vccVars == <<vccLife, vccTodo, vccOwned, vccInfo, vccFaults>>

VccInit ==
    /\ vccLife = "none" /\ vccTodo = <<>>
    /\ vccInits = 0 /\ vccUses = 0 /\ vccUnused = FALSE
    /\ vccHandle = NoHandle /\ vccMem = {} /\ vccThere = {} /\ vccLost = {}
    /\ vccHost = [p \in VccPorts |-> [fmt |-> 0, req |-> 0]]
    /\ vccRemote = [p \in VccPorts |-> [fmt |-> 0, req |-> 0]]
    /\ vccUnread = {} /\ vccFaults = 0

Calls(ops) == vccTodo' = ops
Next1(op) == vccTodo # <<>> /\ Head(vccTodo)[1] = op
Port1 == Head(vccTodo)[2]
Goes1 == vccTodo' = Tail(vccTodo)
\* A call fails; it may do so while the bound on failures allows.
Fails1 == vccFaults < MaxVccFaults /\ vccFaults' = vccFaults + 1
Works1 == UNCHANGED vccFaults

ReadAll == <<<<"info", "in">>, <<"info", "out">>>>
DropClient == <<"drop", "in">>

\* mmal_vc_component_create(): the client is initialised and used, the component created, the
\* context and the ports allocated, and what the VideoCore says of each port read.
VccCreate ==
    /\ vccTodo = <<>> /\ vccLife = "none"
    /\ Calls(<<<<"init", "in">>, <<"use", "in">>, <<"create", "in">>, <<"module", "in">>, <<"ports", "in">>>>
             \o ReadAll \o <<<<"created", "in">>>>)
    /\ vccLife' = "creating" /\ vccUnread' = VccPorts
    /\ UNCHANGED <<vccOwned, vccHost, vccRemote, vccFaults>>

\* mmal_vc_component_destroy(), which ends with the client released whatever happened.
VccDestroy ==
    /\ vccTodo = <<>> /\ vccLife = "alive"
    /\ Calls(<<<<"destroy", "in">>, DropClient>>) /\ vccLife' = "destroying"
    /\ UNCHANGED <<vccOwned, vccInfo, vccFaults>>

\* mmal_vc_init() for the component.  When it fails there is nothing to undo.
InitClient ==
    /\ Next1("init")
    /\ \/ Works1 /\ Goes1 /\ vccInits' = vccInits + 1 /\ UNCHANGED vccLife
       \/ Fails1 /\ Calls(<<>>) /\ vccLife' = "none" /\ UNCHANGED vccInits
    /\ UNCHANGED <<vccUses, vccUnused, vccHandle, vccMem, vccThere, vccLost, vccInfo>>

\* mmal_vc_use(): its status is overwritten by that of the next call.
UseClient ==
    /\ Next1("use") /\ Goes1
    /\ \/ Works1 /\ vccUses' = vccUses + 1 /\ UNCHANGED vccUnused
       \/ Fails1 /\ vccUnused' = TRUE /\ UNCHANGED vccUses
    /\ UNCHANGED <<vccLife, vccInits, vccHandle, vccMem, vccThere, vccLost, vccInfo>>

\* MMAL_WORKER_COMPONENT_CREATE.
CreateRemote ==
    /\ Next1("create")
    /\ \/ /\ \E h \in 1..MaxVcHandles :
                 h \notin vccThere /\ vccThere' = vccThere \union {h} /\ vccHandle' = h
          /\ Works1 /\ Goes1
       \/ Fails1 /\ Calls(<<DropClient>>) /\ UNCHANGED <<vccThere, vccHandle>>
    /\ UNCHANGED <<vccLife, vccInits, vccUses, vccUnused, vccMem, vccLost, vccInfo>>

\* The context.  Without memory for it, a destruction is sent in a message whose handle nobody set:
\* the component stays on the VideoCore.
AllocateModule ==
    /\ Next1("module")
    /\ \/ Works1 /\ Goes1 /\ vccMem' = vccMem \union {vccHandle} /\ UNCHANGED <<vccLost, vccHandle>>
       \/ /\ Fails1 /\ Calls(<<DropClient>>) /\ UNCHANGED vccMem
          /\ vccLost' = vccLost \union {vccHandle} /\ vccHandle' = NoHandle
    /\ UNCHANGED <<vccLife, vccInits, vccUses, vccUnused, vccThere, vccInfo>>

\* The ports, the queue of callbacks and the action: any failure destroys the component.
AllocatePorts ==
    /\ Next1("ports")
    /\ \/ Works1 /\ Goes1
       \/ Fails1 /\ Calls(<<<<"destroy", "in">>, DropClient>>)
    /\ UNCHANGED <<vccLife, vccOwned, vccInfo>>

\* mmal_vc_port_info_get().  Its failure ends the operation; a creation is undone.
InfoGet ==
    /\ Next1("info")
    /\ \/ /\ Works1 /\ Goes1 /\ vccUnread' = vccUnread \ {Port1}
          /\ vccHost' = [vccHost EXCEPT ![Port1] = vccRemote[Port1]]
       \/ /\ Fails1 /\ UNCHANGED <<vccHost, vccUnread>>
          /\ Calls(IF vccLife = "creating" THEN <<<<"destroy", "in">>, DropClient>> ELSE <<>>)
    /\ UNCHANGED <<vccLife, vccOwned, vccRemote>>

\* The functions of the component are set: from now on pf_destroy is mmal_vc_component_destroy().
Created ==
    /\ Next1("created") /\ Goes1 /\ Works1 /\ vccLife' = "alive"
    /\ UNCHANGED <<vccOwned, vccInfo>>

\* MMAL_WORKER_COMPONENT_DESTROY.  The ports and the context are freed only when it worked.
DestroyRemote ==
    /\ Next1("destroy") /\ Goes1
    /\ \/ /\ Works1 /\ vccThere' = vccThere \ {vccHandle} /\ vccMem' = vccMem \ {vccHandle}
          /\ UNCHANGED vccLost
       \/ Fails1 /\ vccLost' = vccLost \union {vccHandle} /\ UNCHANGED <<vccThere, vccMem>>
    /\ vccHandle' = NoHandle
    /\ UNCHANGED <<vccLife, vccInits, vccUses, vccUnused, vccInfo>>

\* mmal_vc_release() and mmal_vc_deinit().
Drop ==
    /\ Next1("drop") /\ Goes1 /\ Works1
    /\ vccUses' = vccUses - 1 /\ vccInits' = vccInits - 1 /\ vccLife' = "none"
    /\ UNCHANGED <<vccUnused, vccHandle, vccMem, vccThere, vccLost, vccInfo>>

\* mmal_vc_port_set_format(): the information is set and read back, with that of the output ports
\* when the port is an input.
SetFormat(p) ==
    /\ vccTodo = <<>> /\ vccLife = "alive"
    /\ Calls(<<<<"set", p>>, <<"info", p>>>> \o (IF p = "in" THEN <<<<"info", "out">>>> ELSE <<>>))
    /\ UNCHANGED <<vccLife, vccOwned, vccInfo, vccFaults>>

\* mmal_vc_port_info_set().  What an input is set to may change what the VideoCore says of the
\* outputs; the answer tells the port's own new information.
InfoSet ==
    /\ Next1("set")
    /\ \/ /\ Works1 /\ Goes1
          /\ \E i \in Infos, o \in Infos :
                /\ vccRemote' = IF Port1 = "in" THEN [in |-> i, out |-> o] ELSE [vccRemote EXCEPT !["out"] = i]
                /\ vccHost' = [vccHost EXCEPT ![Port1] = i]
                /\ vccUnread' = (vccUnread \ {Port1}) \union (IF Port1 = "in" THEN {"out"} ELSE {})
       \/ Fails1 /\ Calls(<<>>) /\ UNCHANGED vccInfo
    /\ UNCHANGED <<vccLife, vccOwned>>

\* mmal_vc_port_parameter_set() of MMAL_PARAMETER_BUFFER_REQUIREMENTS, after which the requirements
\* of all ports are read.
ParameterSet(p) ==
    /\ vccTodo = <<>> /\ vccLife = "alive"
    /\ Calls(<<<<"param", p>>, <<"reqs", "in">>, <<"reqs", "out">>>>)
    /\ UNCHANGED <<vccLife, vccOwned, vccInfo, vccFaults>>

\* MMAL_WORKER_PORT_PARAMETER_SET: the requirements of every port may change.
ParameterSent ==
    /\ Next1("param")
    /\ \/ /\ Works1 /\ Goes1 /\ vccUnread' = VccPorts
          /\ \E i \in {0, 1}, o \in {0, 1} :
                 vccRemote' = [in |-> [vccRemote["in"] EXCEPT !.req = i], out |-> [vccRemote["out"] EXCEPT !.req = o]]
       \/ Fails1 /\ Calls(<<>>) /\ UNCHANGED <<vccRemote, vccUnread>>
    /\ UNCHANGED <<vccLife, vccOwned, vccHost>>

\* mmal_vc_port_requirements_get(): it takes the requirements and leaves the format.  A port whose
\* format is up to date is then up to date.
RequirementsGet ==
    /\ Next1("reqs")
    /\ \/ /\ Works1 /\ Goes1
          /\ vccHost' = [vccHost EXCEPT ![Port1].req = vccRemote[Port1].req]
          /\ vccUnread' = IF vccHost[Port1].fmt = vccRemote[Port1].fmt THEN vccUnread \ {Port1} ELSE vccUnread
       \/ Fails1 /\ Calls(<<>>) /\ UNCHANGED <<vccHost, vccUnread>>
    /\ UNCHANGED <<vccLife, vccOwned, vccRemote>>

\* mmal_vc_drm_get_time() and mmal_vc_drm_get_lhs32(), which initialise the client for one call.
DrmCall ==
    /\ vccTodo = <<>> /\ vccLife = "none"
    /\ Calls(<<<<"init", "in">>, <<"ask", "in">>>>) /\ vccLife' = "asking"
    /\ UNCHANGED <<vccOwned, vccInfo, vccFaults>>

\* The call, and mmal_vc_deinit() whatever its status.
DrmAsked ==
    /\ Next1("ask") /\ Goes1 /\ (Works1 \/ Fails1)
    /\ vccInits' = vccInits - 1 /\ vccLife' = "none"
    /\ UNCHANGED <<vccUses, vccUnused, vccHandle, vccMem, vccThere, vccLost, vccInfo>>

VccNext ==
    \/ VccCreate \/ VccDestroy \/ InitClient \/ UseClient \/ CreateRemote \/ AllocateModule \/ AllocatePorts
    \/ InfoGet \/ Created \/ DestroyRemote \/ Drop \/ InfoSet \/ ParameterSent \/ RequirementsGet
    \/ DrmCall \/ DrmAsked
    \/ \E p \in VccPorts : SetFormat(p) \/ ParameterSet(p)

-----------------------------------------------------------------------------
(* Properties *)

VccTypeOK ==
    /\ vccLife \in {"none", "creating", "alive", "destroying", "asking"}
    /\ vccInits \in 0..1 /\ vccUses \in -MaxVccFaults..1 /\ vccUnused \in BOOLEAN
    /\ vccHandle \in 0..MaxVcHandles /\ vccMem \subseteq vccThere /\ vccThere \subseteq 1..MaxVcHandles
    /\ vccLost \subseteq vccThere
    /\ vccHost \in [VccPorts -> Infos] /\ vccRemote \in [VccPorts -> Infos] /\ vccUnread \subseteq VccPorts
    /\ vccFaults \in 0..MaxVccFaults

\* Between operations the client is initialised once for the component that is alive and not at all
\* otherwise, and it is claimed as often as it is initialised unless claiming it failed, on every
\* path through mmal_vc_component_create(), mmal_vc_component_destroy() and the calls for DRM.
ClientBalanced ==
    vccTodo = <<>> =>
        /\ vccInits = (IF vccLife = "alive" THEN 1 ELSE 0)
        /\ ~vccUnused => vccUses = vccInits

\* Between operations every component on the VideoCore is the one the host has, or one that a call
\* that failed is known to have left there; and the contexts allocated on the host are those of
\* the same components.
NothingLeftThere ==
    vccTodo = <<>> =>
        /\ vccThere \ vccLost = (IF vccLife = "alive" THEN {vccHandle} ELSE {})
        /\ vccMem \ vccLost = vccThere \ vccLost

\* Between operations the host's copy of a port's format and buffer requirements is what the
\* VideoCore has, after any sequence of mmal_vc_port_set_format() and mmal_vc_port_parameter_set()
\* on either port, unless the call that would have read it failed.
CopyFresh ==
    vccTodo = <<>> /\ vccLife = "alive" =>
        \A p \in VccPorts : vccHost[p] # vccRemote[p] => p \in vccUnread /\ vccFaults > 0
=============================================================================
