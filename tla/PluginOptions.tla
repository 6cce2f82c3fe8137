---------------------------- MODULE PluginOptions ----------------------------
(***************************************************************************)
(* Start-up: main() splits the argument string of each plugin and calls    *)
(* its init, which walks it with getopt_long_only().  Some plugins keep an *)
(* option in a record of the instance, others in a static of the shared    *)
(* object that every instance of the plugin uses; a static is either given *)
(* its default by each init or only once, when the object is loaded.  The  *)
(* index of getopt is one variable of the whole process.                   *)
(*                                                                         *)
(* A behaviour is about one or two instances of one plugin.  An argument   *)
(* is a number, a name that the plugin knows, or junk.  The position of    *)
(* getopt counts options, not words.                                       *)
(***************************************************************************)
EXTENDS Integers, Sequences, SequencesExt, FiniteSets

CONSTANTS
    OptMaxArguments    \* MAX_PLUGIN_ARGUMENTS

Args == {"-1", "1", "200", "name", "junk"}

Own(c, d) == [scope |-> "own", conv |-> c, dflt |-> d]
Static(c, d) == [scope |-> "static", conv |-> c, dflt |-> d]
Renewed(c, d) == [scope |-> "reset", conv |-> c, dflt |-> d]

\* "co" stands for sh, co, sa, bk, rot; "br" for br, wb, gain, cagc, cb; "hf" for hf, vf.
UvcOptions ==
    [id |-> Own("none", 0), device |-> Own("text", "default"), resolution |-> Own("resolution", "default"),
     fps |-> Own("atoi", -1), fourcc |-> Own("pick", "default"), quality |-> Own("percent", 80),
     minimum_size |-> Static("atLeast0", 0), dynctrls |-> Static("flag", 0), tvnorm |-> Own("pick", "default"),
     every |-> Static("atLeast1", 1), co |-> Own("int", 0), br |-> Own("int", 0), ex |-> Own("choiceOrInt", "default"),
     hf |-> Own("choice", "default"), pl |-> Own("choice", "default"), wantTimestamp |-> Static("flag", 0),
     softfps |-> Static("atoi", -1), timeout |-> Static("atLeast1", 5), dv_timings |-> Static("flag", 0)]

FileInOptions ==
    [id |-> Static("none", 0), delay |-> Static("atoi", 1), folder |-> Static("text", "default"),
     rm |-> Static("flag", 0), filename |-> Static("text", "default"), mode |-> Static("flag", 0)]

\* plugin_number is never assigned.
TestOptions ==
    [id |-> Static("zero", 0), delay |-> Static("atoi", 1000), resolution |-> Renewed("pick", "default")]

HttpInOptions ==
    [id |-> Static("zero", 0), hostname |-> Renewed("text", "default"), port |-> Renewed("text", "default")]

PtpOptions ==
    [id |-> Static("none", 0), delay |-> Renewed("atoi", 0), selected_port |-> Renewed("text", "default")]

\* "co" stands for co, br, sa, gain, ex.
OpencvOptions ==
    [id |-> Own("none", 0), device |-> Own("text", "default"), resolution |-> Own("resolution", "default"),
     fps |-> Own("int", 0), quality |-> Own("percent", 80), co |-> Own("int", 0),
     filter |-> Own("text", "default"), fargs |-> Own("text", "default")]

MvsOptions ==
    [id |-> Own("none", 0), device |-> Own("text", "default"), resolution |-> Own("resolution", "default"),
     fps |-> Own("int", 0), quality |-> Own("percent", 80), co |-> Own("int", 0),
     filter |-> Own("text", "default"), fargs |-> Own("text", "default")]

\* "co" stands for co, br, sa, gain, ex, lensposition, camera; "afmode" for afmode, afrange.
LibcameraOptions ==
    [id |-> Own("none", 0), resolution |-> Own("resolution", "default"), fps |-> Own("int", 0),
     quality |-> Own("percent", 80), co |-> Own("int", 0), buffercount |-> Own("int", 0),
     snapshot |-> Own("resolution", "default"), afmode |-> Own("choice", "default"), rotation |-> Own("int", 0)]

FileOutOptions ==
    [folder |-> Static("text", "default"), delay |-> Renewed("atoi", 0), ringbuffer_size |-> Static("atoi", -1),
     ringbuffer_exceed |-> Static("atoi", 0), input |-> Static("atoi", 0), mjpgFileName |-> Static("text", "default"),
     linkFileName |-> Static("text", "default"), command |-> Static("text", "default")]

HttpOutOptions ==
    [port |-> Own("atoi", 8080), hostname |-> Own("text", "default"), credentials |-> Own("text", "default"),
     www_folder |-> Own("text", "default"), nocommands |-> Own("flag", 0)]

UdpOptions ==
    [folder |-> Static("text", "default"), delay |-> Renewed("atoi", 0), command |-> Static("text", "default"),
     port |-> Static("atoi", 0), input |-> Static("atoi", 0)]

RtspOptions == [port |-> Static("atoi", 554), input |-> Static("atoi", 0)]

ViewerOptions == [input |-> Static("atoi", 0)]

AutofocusOptions == [delay |-> Renewed("atoi", 10000), input |-> Static("atoi", 0)]

ZmqOptions ==
    [folder |-> Static("text", "default"), ringbuffer_size |-> Static("atoi", -1),
     ringbuffer_exceed |-> Static("atoi", 0), input |-> Static("atoi", 0), mjpgFileName |-> Static("text", "default"),
     zmqAddress |-> Static("text", "default"), zmqBufferSize |-> Static("atoi", 3)]

OptionTable ==
    [input_uvc |-> UvcOptions, input_file |-> FileInOptions, input_testpicture |-> TestOptions,
     input_http |-> HttpInOptions, input_ptp2 |-> PtpOptions, input_opencv |-> OpencvOptions,
     input_mvs |-> MvsOptions, input_libcamera |-> LibcameraOptions, output_file |-> FileOutOptions,
     output_http |-> HttpOutOptions, output_udp |-> UdpOptions, output_rtsp |-> RtspOptions,
     output_viewer |-> ViewerOptions, output_autofocus |-> AutofocusOptions, output_zmqserver |-> ZmqOptions]

OptPlugins == DOMAIN OptionTable
IsInput(p) == "id" \in DOMAIN OptionTable[p]
Names(p) == DOMAIN OptionTable[p] \ {"id"}

Number(a) == CASE a = "-1" -> -1 [] a = "1" -> 1 [] a = "200" -> 200 [] OTHER -> 0
AtLeast(n, m) == IF n < m THEN m ELSE n

\* The value an option takes from its argument, before an OPTION macro refuses it.
Convert(c, a) ==
    CASE c \in {"atoi", "int"} -> Number(a)
      [] c = "atLeast0" -> AtLeast(Number(a), 0)
      [] c = "percent" -> IF Number(a) > 100 THEN 100 ELSE AtLeast(Number(a), 0)
      [] c = "atLeast1" -> AtLeast(Number(a), 1)
      [] c = "flag" -> 1
      [] OTHER -> a

\* parse_resolution_opt() takes a size, or one of the names it knows, and exits at anything else.
BadResolution(a) == a # "name"

\* OPTION_INT, OPTION_BOOL, OPTION_MULTI, OPTION_MULTI_OR_INT and parse_resolution_opt() exit.
Refuses(c, a) ==
    \/ c \in {"int", "percent"} /\ a \in {"200", "name", "junk"}
    \/ c = "choice" /\ a # "name"
    \/ c = "resolution" /\ BadResolution(a)
    \/ c = "choiceOrInt" /\ a = "junk"

\* A name that is not in the table of tv norms, codecs or pictures changes nothing.
Ignores(c, a) == c = "pick" /\ a # "name"

-----------------------------------------------------------------------------

VARIABLES
    optCmd,      \* the command line: plugin, the options given to each instance, number of inputs
    optPhase,    \* "main", "enter", "parse", "check", "run" or "left"
    optAt,       \* the instance whose init runs
    optind,      \* where getopt stands
    optSeen,     \* how many options argc lets init see
    optStatic,   \* the statics of the plugin
    optOwn,      \* the records of the instances
    optExit      \* the status the program left with

optVars == <<optCmd, optPhase, optAt, optind, optSeen, optStatic, optOwn, optExit>>

Plugin == optCmd.plugin
Table == OptionTable[Plugin]
Given == optCmd.given
Instances == DOMAIN Given
Id(i) == optCmd.first + i - 1
OptDefaults(p) == [o \in DOMAIN OptionTable[p] |-> OptionTable[p][o].dflt]

\* What an instance may be given: nothing, "help", a word no plugin knows, an option, and, when it is alone,
\* an option twice or three times.  Two instances are given the same option, or one of them nothing.
Offers(p) == {[name |-> o, arg |-> a] : o \in Names(p), a \in Args}
Lists(p) == {<<>>} \cup {<<[name |-> o, arg |-> "junk"]>> : o \in {"help", "unknown"}} \cup {<<c>> : c \in Offers(p)}
Again(p) == {l \in {<<c, d>> : c, d \in Offers(p)} : l[1].name = l[2].name} \cup {<<c, c, c>> : c \in Offers(p)}
Pairs(p) == {kl \in Lists(p) \X Lists(p) : kl[1] = <<>> \/ kl[2] = <<>> \/ kl[1][1].name = kl[2][1].name}
Commands(p) ==
    [plugin : {p}, first : IF IsInput(p) THEN {0, 1} ELSE {0}, incnt : IF IsInput(p) THEN {2} ELSE {0, 1, 2},
     given : {<<l>> : l \in Lists(p) \cup Again(p)} \cup Pairs(p)]

\* main() has parsed its own arguments, so getopt stands behind the last of them.
MainOptind == 9

OptInit ==
    /\ optCmd \in UNION {Commands(p) : p \in OptPlugins}
    /\ optPhase = "main" /\ optAt = 1 /\ optind = MainOptind /\ optSeen = 0 /\ optExit = "none"
    /\ optStatic = OptDefaults(optCmd.plugin)
    /\ optOwn = [i \in DOMAIN optCmd.given |-> OptDefaults(optCmd.plugin)]

Leave(status) == optPhase' = "left" /\ optExit' = status
\* An init returned 1: main() leaves, with success when it was an input's.
Refused == Leave(IF IsInput(Plugin) THEN "success" ELSE "failure")

\* daemon_mode(), when asked for: the program goes on in the grandchild.
Background ==
    /\ optPhase = "main"
    /\ \/ optPhase' = "enter" /\ UNCHANGED optExit
       \/ \E status \in {"failure", "success"} : Leave(status)   \* fork() or setsid(); chdir()
    /\ UNCHANGED <<optCmd, optAt, optind, optSeen, optStatic, optOwn>>

\* split_parameters(): with too many words argc keeps its zero and main() does not look at the result.
Words(l) == FoldSeq(LAMBDA g, n : n + IF g.name \in Names(Plugin) /\ Table[g.name].conv # "flag" THEN 2 ELSE 1, 0, l)
Visible(l) == IF Words(l) >= 2 /\ Words(l) + 1 >= OptMaxArguments THEN 0 ELSE Len(l)
VisibleUnchecked(l) == Len(l)

AssignId(v, i) == IF ~IsInput(Plugin) \/ Table["id"].conv = "zero" THEN v ELSE [v EXCEPT !["id"] = Id(i)]

\* Mutant: an instance starts with what the one before was given.
EnterInherits ==
    /\ optPhase = "enter"
    /\ optSeen' = Visible(Given[optAt])
    /\ optind' = 0
    /\ optStatic' = AssignId([o \in DOMAIN Table |-> IF Table[o].scope = "reset" THEN Table[o].dflt ELSE optStatic[o]],
                             optAt)
    /\ optOwn' = [optOwn EXCEPT ![optAt] = AssignId(IF optAt = 1 THEN OptDefaults(Plugin) ELSE optOwn[optAt - 1], optAt)]
    /\ optPhase' = "parse"
    /\ UNCHANGED <<optCmd, optAt, optExit>>

\* The head of an init: the statics it gives a default, a new record, and reset_getopt().
Enter ==
    /\ optPhase = "enter"
    /\ optSeen' = Visible(Given[optAt])
    /\ optind' = 0
    /\ optStatic' = AssignId([o \in DOMAIN Table |-> IF Table[o].scope = "reset" THEN Table[o].dflt ELSE optStatic[o]],
                             optAt)
    /\ optOwn' = [optOwn EXCEPT ![optAt] = AssignId(OptDefaults(Plugin), optAt)]
    /\ optPhase' = "parse"
    /\ UNCHANGED <<optCmd, optAt, optExit>>

Store(o, v) ==
    IF Table[o].scope = "own" THEN optOwn' = [optOwn EXCEPT ![optAt][o] = v] /\ UNCHANGED optStatic
    ELSE optStatic' = [optStatic EXCEPT ![o] = v] /\ UNCHANGED optOwn

\* One option.  input_ptp2 does not look at what getopt() does not know.
Parse ==
    /\ optPhase = "parse" /\ optind < optSeen
    /\ optind' = optind + 1
    /\ LET g == Given[optAt][optind + 1] IN
       \/ /\ g.name = "help" \/ (g.name = "unknown" /\ Plugin # "input_ptp2")
          /\ Refused /\ UNCHANGED <<optStatic, optOwn>>
       \/ /\ g.name = "unknown" /\ Plugin = "input_ptp2"
          /\ UNCHANGED <<optPhase, optExit, optStatic, optOwn>>
       \/ /\ g.name \in Names(Plugin) /\ Refuses(Table[g.name].conv, g.arg)
          /\ Leave("failure") /\ UNCHANGED <<optStatic, optOwn>>
       \/ /\ g.name \in Names(Plugin) /\ Ignores(Table[g.name].conv, g.arg)
          /\ UNCHANGED <<optPhase, optExit, optStatic, optOwn>>
       \/ /\ g.name \in Names(Plugin) /\ ~Refuses(Table[g.name].conv, g.arg) /\ ~Ignores(Table[g.name].conv, g.arg)
          /\ Store(g.name, Convert(Table[g.name].conv, g.arg)) /\ UNCHANGED <<optPhase, optExit>>
    /\ UNCHANGED <<optCmd, optAt, optSeen>>

ParseEnd ==
    /\ optPhase = "parse" /\ optind >= optSeen
    /\ optPhase' = "check"
    /\ UNCHANGED <<optCmd, optAt, optind, optSeen, optStatic, optOwn, optExit>>

Effective(i, o) == IF Table[o].scope = "own" THEN optOwn[i][o] ELSE optStatic[o]
Has(o) == o \in DOMAIN Table

\* What an init refuses once its options are parsed: the number of an input that is not loaded, no folder.
TooMuch(n) == ~(n < optCmd.incnt)
InputTooMuch == Has("input") /\ Plugin # "output_autofocus" /\ TooMuch(Effective(optAt, "input"))
NoFolder == Plugin = "input_file" /\ Effective(optAt, "folder") = "default"

\* Files and devices that may be missing, and options libcamera throws at.
MayRefuse == Has("mjpgFileName") /\ Effective(optAt, "mjpgFileName") # "default"
DeviceMissing == Plugin \in {"input_uvc", "input_opencv", "input_libcamera"}
FilterMissing == Has("filter") /\ Effective(optAt, "filter") # "default"
MayFail == DeviceMissing \/ FilterMissing
Aborts == Has("rotation") /\ Effective(optAt, "rotation") \notin {0, 180}

\* input_libcamera takes 4 buffers when the option is not given or zero, and at least one.
BufferCount(n) == IF n = 0 THEN 4 ELSE AtLeast(n, 1)
Normalise(i) == IF Has("buffercount") THEN [optOwn EXCEPT ![i]["buffercount"] = BufferCount(@)] ELSE optOwn

\* The name of the input that a negative number selects is read from outside of the array.
ReadsOutside == Has("input") /\ Plugin # "output_autofocus" /\ Effective(optAt, "input") < 0

\* The checks at the end of an init, and main() going on to the next plugin or to run them all.
InitEnds ==
    /\ optPhase = "check"
    /\ \/ /\ InputTooMuch \/ NoFolder \/ MayRefuse
          /\ Refused /\ UNCHANGED <<optAt, optOwn>>
       \/ /\ MayFail
          /\ Leave("failure") /\ UNCHANGED <<optAt, optOwn>>
       \/ /\ Aborts \/ ReadsOutside
          /\ Leave("crash") /\ UNCHANGED <<optAt, optOwn>>
       \/ /\ ~InputTooMuch /\ ~NoFolder /\ ~Aborts
          /\ optOwn' = Normalise(optAt)
          /\ IF optAt = Len(Given) THEN optPhase' = "run" /\ UNCHANGED optAt
             ELSE optPhase' = "enter" /\ optAt' = optAt + 1
          /\ UNCHANGED optExit
    /\ UNCHANGED <<optCmd, optind, optSeen, optStatic>>

OptNext == Background \/ Enter \/ Parse \/ ParseEnd \/ InitEnds

OptSpec == OptInit /\ [][OptNext]_optVars

-----------------------------------------------------------------------------

OptTypeOK ==
    /\ optPhase \in {"main", "enter", "parse", "check", "run", "left"}
    /\ optAt \in Instances /\ optind \in 0 .. MainOptind /\ optSeen \in 0 .. 3
    /\ DOMAIN optStatic = DOMAIN Table /\ \A i \in Instances : DOMAIN optOwn[i] = DOMAIN Table
    /\ optExit \in {"none", "success", "failure", "crash"} /\ (optExit # "none" <=> optPhase = "left")

\* What instance i asks of option o: the last argument that counts, unless it was given too many words.
Heard(i, o) == {n \in 1 .. Len(Given[i]) : Given[i][n].name = o /\ ~Ignores(Table[o].conv, Given[i][n].arg)}
Asks(i, o) == Heard(i, o) # {} /\ (Len(Given[i]) > 1 => Words(Given[i]) < OptMaxArguments - 1)
LastOf(S) == CHOOSE n \in S : \A k \in S : k <= n
Asked(i, o) ==
    LET v == IF Asks(i, o) THEN Convert(Table[o].conv, Given[i][LastOf(Heard(i, o))].arg) ELSE Table[o].dflt
    IN IF o = "buffercount" THEN BufferCount(v) ELSE v

\* Once the plugins run, an option that a plugin keeps in a record of the instance has the value that instance was
\* given, or its default: whatever main() and the init before left in getopt's index, and whatever another
\* instance was given.
OptionsKeptApart ==
    optPhase = "run" =>
        \A i \in Instances, o \in DOMAIN Table \ {"id"} :
            Table[o].scope = "own" => Effective(i, o) = Asked(i, o)

\* An option kept in a static is the same for every instance of the plugin: the value given last, or the default;
\* and where init sets the default again, the value the last instance asked for, even if an earlier one was given
\* another.
SharedByLast ==
    optPhase = "run" =>
        \A i \in Instances, o \in DOMAIN Table \ {"id"} :
            LET Askers == {j \in Instances : Asks(j, o)} IN
            CASE Table[o].scope = "static" ->
                    Effective(i, o) = IF Askers = {} THEN Table[o].dflt ELSE Asked(LastOf(Askers), o)
              [] Table[o].scope = "reset" -> Effective(i, o) = Asked(Len(Given), o)
              [] OTHER -> TRUE

\* The input that a running output reads was loaded, unless its number is negative or the plugin is
\* output_autofocus, which does not check it.
InputLoaded ==
    (optPhase = "run" /\ Has("input")) =>
        \A i \in Instances :
            \/ Effective(i, "input") \in 0 .. optCmd.incnt - 1
            \/ Effective(i, "input") < 0
            \/ Plugin = "output_autofocus"

\* The numbers that the workers divide by, count with or compare with are in range once the plugins run, whatever
\* the arguments were: a period and a timeout of at least one, a quality in percent, at least one buffer.
WithinLimits ==
    optPhase = "run" =>
        \A i \in Instances :
            /\ Has("every") => Effective(i, "every") >= 1 /\ Effective(i, "timeout") >= 1
                               /\ Effective(i, "minimum_size") >= 0
            /\ Has("quality") => Effective(i, "quality") \in 0 .. 100
            /\ Has("buffercount") => Effective(i, "buffercount") >= 1

\* The worker of an input publishes its pictures as those of its own input, unless a later instance of the plugin
\* has overwritten the number that input_file and input_ptp2 keep in a static, or the plugin never sets it
\* (input_testpicture, input_http) and is not the first input.
PublishesOwn ==
    (optPhase = "run" /\ IsInput(Plugin)) =>
        \A i \in Instances :
            \/ Effective(i, "id") = Id(i)
            \/ Plugin \in {"input_file", "input_ptp2"} /\ i < Len(Given) /\ Effective(i, "id") = Id(Len(Given))
            \/ Plugin \in {"input_testpicture", "input_http"} /\ Effective(i, "id") = 0

\* Each running instance of a plugin works with the options it was given, in range, or with those that the statics of the
\* plugin let another instance set.
OptionsRight == OptionsKeptApart /\ SharedByLast /\ InputLoaded /\ WithinLimits /\ PublishesOwn
=============================================================================
