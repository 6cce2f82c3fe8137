----------------------------- MODULE MmalCxLife -----------------------------
(***************************************************************************)
(* The life of connections between ports (mmal_connection.c): creation     *)
(* with its error paths, the references of clients, and destruction, for   *)
(* connections that may share a port.  A tunnelled connection joins its    *)
(* ports in the core (mmal_port_connect()), the others put callbacks on    *)
(* them.  MmalConnection and MmalTunnel model the buffers.                 *)
(*                                                                         *)
(* Any call of a port's function may fail.  A client that is told of an    *)
(* error drops the connection, as connect_ports() and                      *)
(* mmal_graph_new_connection() do.                                         *)
(***************************************************************************)
EXTENDS Integers, FiniteSets

CONSTANTS
    CxOut, CxIn,   \* the output and the input port of each connection
    CxMaxHolders   \* references that clients have to one of them (bound)

CxObjects == DOMAIN CxOut
CxOutputs == {CxOut[c] : c \in CxObjects}
CxInputs == {CxIn[c] : c \in CxObjects}
CxPorts == CxOutputs \cup CxInputs
Unjoined == "unjoined"

ASSUME CxLifeAssumption == /\ DOMAIN CxOut = DOMAIN CxIn /\ CxMaxHolders \in Nat \ {0}
                           /\ CxOutputs \cap CxInputs = {} /\ Unjoined \notin CxPorts

VARIABLES
    cl,          \* "unborn", "live" or "freed", of each connection
    clTunnel,    \* MMAL_CONNECTION_FLAG_TUNNELLING
    clRefs,      \* refcount
    clOn,        \* is_enabled of the connection
    clHolders,   \* references that clients believe to have
    clRefused,   \* the connection exists but mmal_connection_create() returned an error
    clPorts      \* peer: connected_port, and on: is_enabled, of each port

clVars == <<cl, clTunnel, clRefs, clOn, clHolders, clRefused, clPorts>>

ClInit ==
    /\ cl = [c \in CxObjects |-> "unborn"] /\ clTunnel = [c \in CxObjects |-> FALSE]
    /\ clRefs = [c \in CxObjects |-> 0] /\ clOn = [c \in CxObjects |-> FALSE]
    /\ clHolders = [c \in CxObjects |-> 0] /\ clRefused = [c \in CxObjects |-> FALSE]
    /\ clPorts = [peer |-> [p \in CxPorts |-> Unjoined], on |-> [p \in CxPorts |-> FALSE]]

-----------------------------------------------------------------------------
(* What a call may do to the ports: outcomes with a status.                *)
Outcome(ok, ports) == [ok |-> ok, ports |-> ports]
Switched(ports, S, value) == [ports EXCEPT !.on = [p \in CxPorts |-> IF p \in S THEN value ELSE @[p]]]
Peered(ports, p, q, pp, qq) == [ports EXCEPT !.peer[p] = pp, !.peer[q] = qq]

\* Mutant: ports that are joined already are joined again.
PortJoinUnchecked(ports, p, q) == {Outcome(TRUE, Peered(ports, p, q, q, p))}

\* mmal_port_connect(): both ports must be free and disabled.
PortJoin(ports, p, q) ==
    IF \E r \in {p, q} : ports.peer[r] # Unjoined \/ ports.on[r] THEN {Outcome(FALSE, ports)}
    ELSE {Outcome(TRUE, Peered(ports, p, q, q, p))}

\* mmal_port_disable(): of two joined ports the output goes first, and its input may then fail.
PortOffOutcomes(ports, p) ==
    LET q == ports.peer[p] IN
    IF ~ports.on[p] THEN {Outcome(FALSE, ports)}
    ELSE {Outcome(FALSE, ports), Outcome(TRUE, Switched(ports, {p, q}, FALSE))} \cup
         IF q = Unjoined THEN {} ELSE {Outcome(FALSE, Switched(ports, {p, q} \cap CxOutputs, FALSE))}

\* mmal_port_enable(): a callback is not allowed on a joined port; an error disables both.
PortOnOutcomes(ports, p, callback) ==
    LET q == ports.peer[p] IN
    IF ports.on[p] \/ (callback /\ q # Unjoined) THEN {Outcome(FALSE, ports)}
    ELSE {Outcome(FALSE, Switched(ports, {p, q}, FALSE)), Outcome(TRUE, Switched(ports, {p, q}, TRUE))}

\* mmal_port_disconnect(), which disables the ports first.
PortPart(ports, p) ==
    LET q == ports.peer[p] IN
    IF q = Unjoined THEN {Outcome(FALSE, ports)}
    ELSE LET disabled == IF ports.on[p] THEN PortOffOutcomes(ports, p) ELSE {Outcome(TRUE, ports)} IN
         {d \in disabled : ~d.ok} \cup {Outcome(FALSE, d.ports) : d \in disabled} \cup
         {Outcome(TRUE, Peered(d.ports, p, q, Unjoined, Unjoined)) : d \in {x \in disabled : x.ok}}

-----------------------------------------------------------------------------
\* mmal_connection_disable(): the input port, then the output port.
CxOffOutcomes(c, ports) ==
    IF clTunnel[c] THEN PortOffOutcomes(ports, CxOut[c])
    ELSE LET input == PortOffOutcomes(ports, CxIn[c]) IN
         {d \in input : ~d.ok} \cup UNION {PortOffOutcomes(d.ports, CxOut[c]) : d \in {x \in input : x.ok}}

\* mmal_connection_enable(): the output port, then the input port, without which the output is disabled again;
\* and a pool that cannot be resized.
CxOnOutcomes(c, ports) ==
    IF clTunnel[c] THEN PortOnOutcomes(ports, CxOut[c], FALSE)
    ELSE LET output == PortOnOutcomes(ports, CxOut[c], TRUE)
             both == UNION {PortOnOutcomes(d.ports, CxIn[c], TRUE) : d \in {x \in output : x.ok}} IN
         {Outcome(FALSE, ports)} \cup {d \in both : d.ok} \cup {d \in output : ~d.ok} \cup
         UNION {{Outcome(FALSE, e.ports) : e \in PortOffOutcomes(d.ports, CxOut[c])} : d \in {x \in both : ~x.ok}}

\* What mmal_connection_destroy_internal() does to the ports of a connection that is not enabled.
Detached(c, tunnel, ports) == IF tunnel THEN {d.ports : d \in PortPart(ports, CxOut[c])} ELSE {ports}

\* mmal_connection_destroy_internal(): a connection that cannot be disabled stays.
DestroyInternal(c) ==
    \E d \in IF clOn[c] THEN CxOffOutcomes(c, clPorts) ELSE {Outcome(TRUE, clPorts)} :
        /\ clOn' = [clOn EXCEPT ![c] = ~d.ok]
        /\ cl' = [cl EXCEPT ![c] = IF d.ok THEN "freed" ELSE @]
        /\ clPorts' \in IF d.ok THEN Detached(c, clTunnel[c], d.ports) ELSE {d.ports}

\* mmal_connection_create() on its way out through "error": what it joined or did not join is disconnected.
CreateFails(c) ==
    /\ cl[c] = "unborn" /\ cl' = [cl EXCEPT ![c] = "freed"]
    /\ \E tunnel \in BOOLEAN :
         clTunnel' = [clTunnel EXCEPT ![c] = tunnel] /\ clPorts' \in Detached(c, tunnel, clPorts)
    /\ UNCHANGED <<clRefs, clOn, clHolders, clRefused>>

\* mmal_connection_create(): when the ports cannot be joined it returns the error, and the connection stays.
Create(c) ==
    /\ cl[c] = "unborn" /\ cl' = [cl EXCEPT ![c] = "live"]
    /\ clRefs' = [clRefs EXCEPT ![c] = 1]
    /\ \E tunnel \in BOOLEAN : \E d \in IF tunnel THEN PortJoin(clPorts, CxOut[c], CxIn[c])
                                       ELSE {Outcome(TRUE, clPorts)} :
         /\ clTunnel' = [clTunnel EXCEPT ![c] = tunnel] /\ clPorts' = d.ports
         /\ clRefused' = [clRefused EXCEPT ![c] = ~d.ok]
         /\ clHolders' = [clHolders EXCEPT ![c] = IF d.ok THEN 1 ELSE 0]
    /\ UNCHANGED clOn

ClEnable(c) ==
    /\ clHolders[c] > 0 /\ ~clOn[c]
    /\ \E d \in CxOnOutcomes(c, clPorts) : clPorts' = d.ports /\ clOn' = [clOn EXCEPT ![c] = d.ok]
    /\ UNCHANGED <<cl, clTunnel, clRefs, clHolders, clRefused>>

ClDisable(c) ==
    /\ clHolders[c] > 0 /\ clOn[c]
    /\ \E d \in CxOffOutcomes(c, clPorts) : clPorts' = d.ports /\ clOn' = [clOn EXCEPT ![c] = ~d.ok]
    /\ UNCHANGED <<cl, clTunnel, clRefs, clHolders, clRefused>>

ClAcquire(c) ==
    /\ clHolders[c] \in 1 .. CxMaxHolders - 1
    /\ clRefs' = [clRefs EXCEPT ![c] = @ + 1] /\ clHolders' = [clHolders EXCEPT ![c] = @ + 1]
    /\ UNCHANGED <<cl, clTunnel, clOn, clRefused, clPorts>>

\* mmal_connection_release() and mmal_connection_destroy().
ClRelease(c) ==
    /\ clHolders[c] > 0
    /\ clRefs' = [clRefs EXCEPT ![c] = @ - 1] /\ clHolders' = [clHolders EXCEPT ![c] = @ - 1]
    /\ IF clRefs[c] = 1 THEN DestroyInternal(c) ELSE UNCHANGED <<cl, clOn, clPorts>>
    /\ UNCHANGED <<clTunnel, clRefused>>

ClNext ==
    \E c \in CxObjects : Create(c) \/ CreateFails(c) \/ ClEnable(c) \/ ClDisable(c) \/ ClAcquire(c) \/ ClRelease(c)

ClSpec == ClInit /\ [][ClNext]_clVars

-----------------------------------------------------------------------------
ClTypeOK ==
    /\ cl \in [CxObjects -> {"unborn", "live", "freed"}] /\ clRefs \in [CxObjects -> 0 .. CxMaxHolders]
    /\ {clTunnel, clOn, clRefused} \subseteq [CxObjects -> BOOLEAN]
    /\ clHolders \in [CxObjects -> 0 .. CxMaxHolders]
    /\ clPorts \in [peer : [CxPorts -> CxPorts \cup {Unjoined}], on : [CxPorts -> BOOLEAN]]

\* A connection is there as long as a client has a reference; and its ports, once joined, name each other.
HeldAlive ==
    /\ \A c \in CxObjects : clHolders[c] > 0 => cl[c] = "live" /\ clRefs[c] = clHolders[c]
    /\ \A p \in CxPorts : clPorts.peer[p] # Unjoined => clPorts.peer[clPorts.peer[p]] = p

\* A connection that nobody has a reference to is freed, unless it could not be disabled when the last one was
\* released, or unless its creation failed where the ports were to be joined: those two are lost.
LeakExplained ==
    \A c \in CxObjects : cl[c] = "live" /\ clHolders[c] = 0 => clOn[c] \/ clRefused[c]

Joined(c) == clTunnel[c] /\ clHolders[c] > 0 /\ clPorts.peer[CxOut[c]] = CxIn[c]

CutOnlyBy ==
    \A c \in CxObjects : Joined(c) /\ clHolders'[c] > 0 /\ ~Joined(c)' =>
        \E d \in CxObjects \ {c} : CxOut[d] = CxOut[c] /\ cl[d] # "freed" /\ cl'[d] = "freed" /\ clTunnel'[d]

\* A tunnel that a client still has a reference to is taken apart only when the creation of another one on the
\* same output port fails before it reaches mmal_port_connect(), or when another one that joins the same ports
\* is destroyed.
TunnelCutOnlyBy == [][CutOnlyBy]_clVars

\* A connection lives as long as it is referenced, is lost in two cases only, and is cut by another one in two.
ConnectionKept == [](HeldAlive /\ LeakExplained) /\ TunnelCutOnlyBy
=============================================================================
