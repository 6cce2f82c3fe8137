----------------------------- MODULE MmalGraph ------------------------------
(***************************************************************************)
(* A graph of components built into one component (mmal_graph.c): what is  *)
(* added to it, and how enabling, disabling, flushing and a change of      *)
(* format on a port of the graph spread over its connections.  The calls   *)
(* come from one client.  How a connection moves buffers is in             *)
(* MmalConnection.                                                         *)
(***************************************************************************)
EXTENDS Integers, Sequences, SequencesExt, FiniteSets, FiniteSetsExt

CONSTANTS
    GComponents,   \* number of components
    GPortNum,      \* input ports, and output ports, of each of them
    GConnMax,      \* GRAPH_CONNECTIONS_MAX, for the connections
    GListMax,      \* GRAPH_CONNECTIONS_MAX, for the input ports and for the output ports
    GFormats,      \* formats of a port
    GraphFaults    \* calls of the components that fail (bound)

ASSUME GraphAssumption == GComponents \in Nat /\ GPortNum \in Nat /\ GConnMax \in Nat /\ GListMax \in Nat /\ GraphFaults \in Nat

\* A port is <<component, "in" or "out", index>>.
GPorts == (1 .. GComponents) \X {"in", "out"} \X (1 .. GPortNum)
Outs == {p \in GPorts : p[2] = "out"}
Ins == {p \in GPorts : p[2] = "in"}

VARIABLES
    gConns,     \* graph->connection: a sequence of <<out, in>>
    gInput,     \* graph->input: the inner ports that the ports of the graph stand for
    gOutput,    \* graph->output
    gLife,      \* "open", "built", "gone"
    gPortOn,    \* is_enabled of the inner ports
    gCxOn,      \* connections with is_enabled
    gFmt,       \* the format of each inner port
    gSeen,      \* the format the port of the graph shows for each inner port it stands for
    gFlushed,   \* inner ports that the flush reached, if that was the last call
    gLast,      \* the last call: <<operation, port, succeeded>>
    gFaults

graphVars == <<gConns, gInput, gOutput, gLife, gPortOn, gCxOn, gFmt, gSeen, gFlushed, gLast, gFaults>>

NoCall == <<"none", <<0, "in", 0>>, TRUE>>

GraphInit ==
    /\ gConns = <<>> /\ gInput = <<>> /\ gOutput = <<>> /\ gLife = "open"
    /\ gPortOn = {} /\ gCxOn = {}
    /\ gFmt = [p \in GPorts |-> CHOOSE f \in GFormats : TRUE] /\ gSeen = gFmt
    /\ gFlushed = {} /\ gLast = NoCall /\ gFaults = 0

used == UNION {{gConns[j][1], gConns[j][2]} : j \in DOMAIN gConns} \cup ToSet(gInput) \cup ToSet(gOutput)

\* mmal_graph_new_connection() and mmal_graph_add_connection(), between two ports that are not in
\* use yet, from a component to a later one.
NewConnection(out, in) ==
    /\ gLife = "open" /\ Len(gConns) < GConnMax /\ out[1] < in[1] /\ {out, in} \cap used = {}
    /\ gConns' = Append(gConns, <<out, in>>)
    /\ gFmt' = [gFmt EXCEPT ![in] = gFmt[out]]           \* mmal_connection_create()
    /\ gSeen' = gFmt'
    /\ gFlushed' = {} /\ gLast' = NoCall
    /\ UNCHANGED <<gInput, gOutput, gLife, gPortOn, gCxOn, gFaults>>

\* mmal_graph_add_port()
AddPort(p) ==
    /\ gLife = "open" /\ p \notin used
    /\ IF p[2] = "in" THEN /\ Len(gInput) < GListMax /\ gInput' = Append(gInput, p) /\ UNCHANGED gOutput
       ELSE /\ Len(gOutput) < GListMax /\ gOutput' = Append(gOutput, p) /\ UNCHANGED gInput
    /\ gFlushed' = {} /\ gLast' = NoCall
    /\ UNCHANGED <<gConns, gLife, gPortOn, gCxOn, gFmt, gSeen, gFaults>>

\* mmal_graph_build(), mmal_component_create_from_graph(): the ports of the graph mirror the inner
\* ports.  A failure destroys the graph with what it holds.
Build ==
    /\ gLife = "open"
    /\ \/ gLife' = "built" /\ gSeen' = gFmt /\ UNCHANGED gFaults
       \/ gLife' = "gone" /\ gFaults < GraphFaults /\ gFaults' = gFaults + 1 /\ UNCHANGED gSeen
    /\ gFlushed' = {} /\ gLast' = NoCall
    /\ UNCHANGED <<gConns, gInput, gOutput, gPortOn, gCxOn, gFmt>>

\* graph_component_destroy(), mmal_graph_destroy(): releasing the connections disables them.
GraphDestroy ==
    /\ gLife = "built" /\ gLife' = "gone"
    /\ gCxOn' = {} /\ gPortOn' = gPortOn \ UNION {{c[1], c[2]} : c \in ToSet(gConns)}
    /\ gFlushed' = {} /\ gLast' = NoCall
    /\ UNCHANGED <<gConns, gInput, gOutput, gFmt, gSeen, gFaults>>

-----------------------------------------------------------------------------
(* The walks.  A walk has the state <<ports enabled, connections enabled, success, faults>>. *)

\* The first connection with port p at one of its ends; 0 if there is none.
Matching(p) == LET js == {j \in DOMAIN gConns : p \in {gConns[j][1], gConns[j][2]}} IN
               IF js = {} THEN 0 ELSE Min(js)

OtherEnd(j, p) == IF gConns[j][2] = p THEN gConns[j][1] ELSE gConns[j][2]

\* The ports of the component of p on the other side, in their order.
Opposite(p) == LET side == IF p[2] = "out" THEN "in" ELSE "out"
               IN [i \in 1 .. GPortNum |-> <<p[1], side, i>>]

\* mmal_connection_enable() and mmal_connection_disable(); the fault is the f-th call.
ConnEnable(s, j, f) ==
    IF gConns[j] \in s[2] THEN s
    ELSE IF s[4] + 1 = f THEN <<s[1], s[2], FALSE, s[4] + 1>>
    ELSE <<s[1] \cup {gConns[j][1], gConns[j][2]}, s[2] \cup {gConns[j]}, TRUE, s[4] + 1>>

ConnDisable(s, j, f) ==
    IF gConns[j] \notin s[2] THEN s
    ELSE IF s[4] + 1 = f THEN <<s[1], s[2], FALSE, s[4] + 1>>
    ELSE <<s[1] \ {gConns[j][1], gConns[j][2]}, s[2] \ {gConns[j]}, TRUE, s[4] + 1>>

\* Mutant: the walk does not go on behind the connection.
StatePropagateOnce(s, port, enable, f) ==
    FoldLeft(LAMBDA t, q :
        IF ~t[3] \/ (q \in t[1]) = enable \/ Matching(q) = 0 THEN t
        ELSE LET j == Matching(q) IN IF enable THEN ConnEnable(t, j, f) ELSE ConnDisable(t, j, f),
        s, Opposite(port))

\* graph_port_state_propagate(): over the ports on the other side of the component that are not
\* yet as they should be; enabling before going on, disabling on the way back.
RECURSIVE StatePropagate(_, _, _, _)
StatePropagate(s, port, enable, f) ==
    FoldLeft(LAMBDA t, q :
        IF ~t[3] \/ (q \in t[1]) = enable \/ Matching(q) = 0 THEN t
        ELSE LET j == Matching(q)
                 u == IF enable THEN ConnEnable(t, j, f) ELSE t
                 v == IF u[3] THEN StatePropagate(u, OtherEnd(j, q), enable, f) ELSE u
             IN IF ~enable /\ v[3] THEN ConnDisable(v, j, f) ELSE v,
        s, Opposite(port))

\* graph_port_flush_propagate(): the set of ports flushed.
RECURSIVE FlushPropagate(_)
FlushPropagate(port) ==
    {port} \cup
    IF port[2] = "out" THEN {}
    ELSE UNION {IF q \in gPortOn /\ Matching(q) # 0 THEN FlushPropagate(gConns[Matching(q)][2]) ELSE {}
                : q \in ToSet(Opposite(port))}

\* A component passes the format of an input port on to its output ports that are not enabled.
Passed(fmt, port) ==
    [q \in GPorts |-> IF port[2] = "in" /\ q[1] = port[1] /\ q[2] = "out" /\ q \notin gPortOn
                      THEN fmt[port] ELSE fmt[q]]

\* graph_port_format_commit_propagate()
RECURSIVE FormatPropagate(_, _)
FormatPropagate(fmt, port) ==
    FoldLeft(LAMBDA g, q :
        IF q \in gPortOn \/ Matching(q) = 0 THEN g
        ELSE LET in == gConns[Matching(q)][2] IN FormatPropagate([g EXCEPT ![in] = g[q]], in),
        Passed(fmt, port),
        IF port[2] = "out" THEN <<>> ELSE Opposite(port))

-----------------------------------------------------------------------------
(* The calls on a port of the graph; p is the inner port find_port_from_graph() gives. *)

\* A call with at most one more fault, which is the f-th of the walk, or none with f = 0.
Faulty(f) == IF gFaults < GraphFaults THEN f \in 0 .. Len(gConns) ELSE f = 0

\* graph_port_enable(): the inner port, then the connections.
GraphPortEnable(p, f) ==
    LET w == StatePropagate(<<gPortOn \cup {p}, gCxOn, TRUE, 0>>, p, TRUE, f) IN
    /\ gLife = "built" /\ p \in ToSet(gInput \o gOutput) \ gPortOn /\ Faulty(f)
    /\ gPortOn' = w[1] /\ gCxOn' = w[2] /\ gFlushed' = {} /\ gLast' = <<IF gPortOn = {} THEN "enable" ELSE "enablemore", p, w[3]>>
    /\ gFaults' = gFaults + (IF w[3] THEN 0 ELSE 1)
    /\ UNCHANGED <<gConns, gInput, gOutput, gLife, gFmt, gSeen>>

\* graph_port_disable(): the connections go first, but only for an input port, or without any;
\* then the inner port.
GraphPortDisable(p, f) ==
    LET walk == gInput = <<>> \/ p[2] = "in"
        w == IF walk THEN StatePropagate(<<gPortOn, gCxOn, TRUE, 0>>, p, FALSE, f) ELSE <<gPortOn, gCxOn, TRUE, 0>>
    IN
    /\ gLife = "built" /\ p \in ToSet(gInput \o gOutput) /\ p \in gPortOn /\ Faulty(f)
    /\ gPortOn' = (IF w[3] THEN w[1] \ {p} ELSE w[1]) /\ gCxOn' = w[2]
    /\ gFlushed' = {} /\ gLast' = <<IF walk THEN "disable" ELSE "disableport", p, w[3]>>
    /\ gFaults' = gFaults + (IF w[3] THEN 0 ELSE 1)
    /\ UNCHANGED <<gConns, gInput, gOutput, gLife, gFmt, gSeen>>

\* graph_port_flush()
GraphPortFlush(p) ==
    /\ gLife = "built" /\ p \in ToSet(gInput \o gOutput) /\ gFlushed' = FlushPropagate(p)
    /\ gLast' = <<"flush", p, TRUE>>
    /\ UNCHANGED <<gConns, gInput, gOutput, gLife, gPortOn, gCxOn, gFmt, gSeen, gFaults>>

\* graph_port_format_commit(), graph_port_update(): the inner port, the connections, and what the
\* ports of the graph show.
GraphFormatCommit(p, fmt) ==
    /\ gLife = "built" /\ p \in ToSet(gInput \o gOutput) \ gPortOn
    /\ gFmt' = FormatPropagate([gFmt EXCEPT ![p] = fmt], p)
    /\ gSeen' = [q \in GPorts |-> IF q = p \/ (p[2] = "in" /\ q \in ToSet(gOutput)) THEN gFmt'[q] ELSE gSeen[q]]
    /\ gFlushed' = {} /\ gLast' = <<"format", p, TRUE>>
    /\ UNCHANGED <<gConns, gInput, gOutput, gLife, gPortOn, gCxOn, gFaults>>

\* No port is in use twice, so the order of what is added does not matter, nor does the number of
\* an unused port: connections are added in the order of their output ports, the ports of the graph
\* after them, and each time the first unused port of a component is taken.
After(p, ps) == \A i \in DOMAIN ps : ps[i][1] * GPortNum + ps[i][3] < p[1] * GPortNum + p[3]
FirstOf(cs) == [j \in DOMAIN cs |-> cs[j][1]]
FirstUnused(p) == \A i \in 1 .. p[3] - 1 : <<p[1], p[2], i>> \in used

GraphNext ==
    \/ \E out \in Outs, in \in Ins :
          /\ gInput = <<>> /\ gOutput = <<>> /\ After(out, FirstOf(gConns))
          /\ FirstUnused(out) /\ FirstUnused(in) /\ NewConnection(out, in)
    \/ \E p \in GPorts : FirstUnused(p) /\ After(p, IF p[2] = "in" THEN gInput ELSE gOutput) /\ AddPort(p)
    \/ Build \/ GraphDestroy
    \/ \E p \in GPorts :
          \/ \E f \in 0 .. GConnMax : GraphPortEnable(p, f) \/ GraphPortDisable(p, f)
          \/ GraphPortFlush(p) \/ \E fmt \in GFormats : GraphFormatCommit(p, fmt)

-----------------------------------------------------------------------------
(* Properties *)

GraphTypeOK ==
    /\ gLife \in {"open", "built", "gone"} /\ gPortOn \subseteq GPorts /\ gCxOn \subseteq ToSet(gConns)
    /\ gFmt \in [GPorts -> GFormats] /\ gSeen \in [GPorts -> GFormats] /\ gFaults \in 0 .. GraphFaults

\* The components reached from component c over the connections, forwards or backwards.
RECURSIVE Reached(_, _)
Reached(cs, forward) ==
    LET more == cs \cup {IF forward THEN gConns[j][2][1] ELSE gConns[j][1][1] :
                            j \in {k \in DOMAIN gConns : (IF forward THEN gConns[k][1][1] ELSE gConns[k][2][1]) \in cs}}
    IN IF more = cs THEN cs ELSE Reached(more, forward)

\* The connections behind the components that p leads to.
Behind(p) == LET forward == p[2] = "in"
                 cs == Reached({p[1]}, forward)
             IN {c \in ToSet(gConns) : (IF forward THEN c[1][1] ELSE c[2][1]) \in cs}

\* The first port of the graph to be enabled has every connection behind it enabled, over any
\* number of components and where branches meet again, unless a call had failed before.  (A port
\* enabled later may leave a branch out: the walk stops at what it finds enabled.)
EnableReaches == gLast[1] = "enable" /\ gLast[3] /\ gFaults = 0 => Behind(gLast[2]) \subseteq gCxOn

\* A port of the graph that could be disabled leaves no connection behind it enabled.
DisableReaches == gLast[1] = "disable" /\ gLast[3] /\ gFaults = 0 => Behind(gLast[2]) \cap gCxOn = {}

\* A flush of an input port reaches the input ports at the end of every enabled connection behind.
FlushReaches ==
    gLast[1] = "flush" /\ gLast[2][2] = "in" /\ gFaults = 0 =>
        \A c \in Behind(gLast[2]) : Behind(gLast[2]) \subseteq gCxOn => c[2] \in gFlushed

\* The ends of a connection that is not enabled agree on the format, however far from the port of
\* the graph on which it was set.
FormatsAgree == \A c \in ToSet(gConns) : c \notin gCxOn => gFmt[c[1]] = gFmt[c[2]]

\* The ports of the graph show the formats their inner ports have.
GraphShows == gLife = "built" => \A p \in ToSet(gInput \o gOutput) : gSeen[p] = gFmt[p]

\* What is done to a port of a graph reaches every connection and component behind it, and no further.
GraphReaches == EnableReaches /\ DisableReaches /\ FlushReaches /\ FormatsAgree /\ GraphShows
=============================================================================
