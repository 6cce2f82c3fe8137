-------------------------- MODULE RaspicamSettings --------------------------
(***************************************************************************)
(* The settings of the Raspberry Pi camera: the options of the plugin      *)
(* (input_init() of input_raspicam.c) fill the parameter block, which is   *)
(* sent to the camera setting by setting (RaspiCamControl.c); and the      *)
(* cycle test, which moves one setting on with each call.                  *)
(*                                                                         *)
(* The camera (firmware) takes a setting or refuses it: rsRefuses says     *)
(* which one.  Text options stand for all spellings of their name.         *)
(***************************************************************************)
EXTENDS Integers, Sequences, SequencesExt

CONSTANTS
    MaxOptions,   \* bound: options on the command line
    OptionNumbers,      \* the numbers given to options
    Refusable     \* settings that the camera may refuse

\* The cross references of mode names and MMAL modes; a mode is called by the tail of its MMAL name.
exposure_map == << <<"off", "OFF">>, <<"auto", "AUTO">>, <<"night", "NIGHT">>, <<"nightpreview", "NIGHTPREVIEW">>,
    <<"backlight", "BACKLIGHT">>, <<"spotlight", "SPOTLIGHT">>, <<"sports", "SPORTS">>, <<"snow", "SNOW">>,
    <<"beach", "BEACH">>, <<"verylong", "VERYLONG">>, <<"fixedfps", "FIXEDFPS">>, <<"antishake", "ANTISHAKE">>,
    <<"fireworks", "FIREWORKS">> >>

awb_map == << <<"off", "OFF">>, <<"auto", "AUTO">>, <<"sun", "SUNLIGHT">>, <<"cloud", "CLOUDY">>, <<"shade", "SHADE">>,
    <<"tungsten", "TUNGSTEN">>, <<"fluorescent", "FLUORESCENT">>, <<"incandescent", "INCANDESCENT">>,
    <<"flash", "FLASH">>, <<"horizon", "HORIZON">> >>

imagefx_map == << <<"none", "NONE">>, <<"negative", "NEGATIVE">>, <<"solarise", "SOLARIZE">>, <<"sketch", "SKETCH">>,
    <<"denoise", "DENOISE">>, <<"emboss", "EMBOSS">>, <<"oilpaint", "OILPAINT">>, <<"hatch", "HATCH">>,
    <<"gpen", "GPEN">>, <<"pastel", "PASTEL">>, <<"watercolour", "WATERCOLOUR">>, <<"film", "FILM">>,
    <<"blur", "BLUR">>, <<"saturation", "SATURATION">>, <<"colourswap", "COLOURSWAP">>, <<"washedout", "WASHEDOUT">>,
    <<"posterise", "POSTERISE">>, <<"colourpoint", "COLOURPOINT">>, <<"colourbalance", "COLOURBALANCE">>,
    <<"cartoon", "CARTOON">> >>

metering_mode_map == << <<"average", "AVERAGE">>, <<"spot", "SPOT">>, <<"backlit", "BACKLIT">>, <<"matrix", "MATRIX">> >>
drc_mode_map == << <<"off", "OFF">>, <<"low", "LOW">>, <<"med", "MEDIUM">>, <<"high", "HIGH">> >>

\* map_xref() and unmap_xref(): the other side of the first entry with this one, or none.
map_xref(name, map) ==
    LET hits == {i \in 1..Len(map) : map[i][1] = name}
    IN  IF hits = {} THEN "none of these" ELSE map[CHOOSE i \in hits : \A j \in hits : i <= j][2]
unmap_xref(mode, map) ==
    LET hits == {i \in 1..Len(map) : map[i][2] = mode}
    IN  IF hits = {} THEN "none of these" ELSE map[CHOOSE i \in hits : \A j \in hits : i <= j][1]

\* exposure_mode_from_string() and its like: the mode of a name, or the usual one.
ModeMaps == [exposureMode |-> exposure_map, awbMode |-> awb_map, imageEffect |-> imagefx_map,
             exposureMeterMode |-> metering_mode_map, drc_level |-> drc_mode_map]
UsualMode == [exposureMode |-> "AUTO", awbMode |-> "AUTO", imageEffect |-> "NONE",
              exposureMeterMode |-> "AVERAGE", drc_level |-> "OFF"]
ModeFromString(p, name) ==
    LET mode == map_xref(name, ModeMaps[p]) IN IF mode = "none of these" THEN UsualMode[p] ELSE mode

\* raspicamcontrol_set_defaults(); the parts of one setting together.  gains are red and blue, 0 for none.
Defaults == [sharpness |-> 0, contrast |-> 0, brightness |-> 50, saturation |-> 0, ISO |-> 0,
             videoStabilisation |-> 0, exposureCompensation |-> 0, exposureMode |-> "AUTO",
             exposureMeterMode |-> "AVERAGE", awbMode |-> "AUTO", imageEffect |-> "NONE",
             colourEffects |-> <<0, 128, 128>>, rotation |-> 0, flips |-> <<0, 0>>, roi |-> "all",
             shutter_speed |-> 0, awb_gains |-> <<0, 0>>, drc_level |-> "OFF", stats_pass |-> 0]
NumberSettings == {"sharpness", "contrast", "brightness", "saturation", "ISO", "exposureCompensation", "rotation", "shutter_speed"}
FlagSettings == {"videoStabilisation", "stats_pass"}

\* raspicamcontrol_set_all_parameters(): the settings in the order they are sent.
SetOrder == <<"saturation", "sharpness", "contrast", "brightness", "ISO", "videoStabilisation", "exposureCompensation",
              "exposureMode", "exposureMeterMode", "awbMode", "awb_gains", "imageEffect", "colourEffects",
              "rotation", "flips", "roi", "shutter_speed", "drc_level", "stats_pass">>
Settings == DOMAIN Defaults

VARIABLES
    rsParams,    \* c_params
    rsAsked,     \* the names of the modes asked for, of those the maps know
    rsOptions,   \* options still allowed on the command line
    rsPlace,     \* where the plugin is: parsing, sending the settings, cycling, or gone
    rsResult,    \* result of raspicamcontrol_set_all_parameters()
    rsCamera,    \* the settings of the camera
    rsRefuses,   \* the setting that the camera refuses
    rsCycle      \* the cycle test: parameter, parameter_option, and whether the last call returned 0

settingsVars == <<rsParams, rsAsked, rsOptions, rsPlace, rsResult, rsCamera, rsRefuses, rsCycle>>

Reset == -99999     \* parameter_reset
\* What the camera has before anything is sent to it.
SettingsInit ==
    /\ rsParams = Defaults /\ rsAsked = [p \in DOMAIN ModeMaps |-> unmap_xref(UsualMode[p], ModeMaps[p])]
    /\ rsOptions \in 0..MaxOptions /\ rsPlace = <<"parse">> /\ rsResult = 0
    /\ rsCamera = [Defaults EXCEPT !.flips = "NONE"] /\ rsRefuses \in Refusable \union {"nothing"}
    /\ rsCycle = <<0, Reset, FALSE>>

-----------------------------------------------------------------------------
(* The options *)

SettingsStay == UNCHANGED <<rsPlace, rsResult, rsCamera, rsRefuses, rsCycle>>
Parsing == rsPlace = <<"parse">> /\ rsOptions > 0 /\ rsOptions' = rsOptions - 1

OptionNumber(p, n) ==
    /\ Parsing /\ rsParams' = [rsParams EXCEPT ![p] = n] /\ UNCHANGED rsAsked /\ SettingsStay
OptionFlag(p) ==
    /\ Parsing /\ rsParams' = [rsParams EXCEPT ![p] = 1] /\ UNCHANGED rsAsked /\ SettingsStay
OptionFlip(i) ==
    /\ Parsing /\ rsParams' = [rsParams EXCEPT !.flips[i] = 1] /\ UNCHANGED rsAsked /\ SettingsStay
OptionMode(p, name) ==
    /\ Parsing /\ rsParams' = [rsParams EXCEPT ![p] = ModeFromString(p, name)]
    /\ rsAsked' = [rsAsked EXCEPT ![p] = IF map_xref(name, ModeMaps[p]) = "none of these"
                                         THEN unmap_xref(UsualMode[p], ModeMaps[p]) ELSE name]
    /\ SettingsStay
\* -cfx: "%d:%d" takes as many of the two numbers as there are.
OptionColour(numbers) ==
    /\ Parsing
    /\ rsParams' = [rsParams EXCEPT !.colourEffects =
           <<1, IF Len(numbers) > 0 THEN numbers[1] ELSE @[2], IF Len(numbers) > 1 THEN numbers[2] ELSE @[3]>>]
    /\ UNCHANGED rsAsked /\ SettingsStay
OptionGain(i) ==
    /\ Parsing /\ rsParams' = [rsParams EXCEPT !.awb_gains[i] = 1] /\ UNCHANGED rsAsked /\ SettingsStay
OptionRoi ==
    /\ Parsing /\ rsParams' = [rsParams EXCEPT !.roi = "part"] /\ UNCHANGED rsAsked /\ SettingsStay
\* -h, or an option that is not known: the plugin does not start.
OptionHelp ==
    /\ Parsing /\ rsPlace' = <<"gone">> /\ UNCHANGED <<rsParams, rsAsked, rsResult, rsCamera, rsRefuses, rsCycle>>
\* The end of the command line; the worker thread sets the camera up, or a test program cycles.
OptionsEnd(to) ==
    /\ rsPlace = <<"parse">> /\ rsPlace' = to
    /\ UNCHANGED <<rsParams, rsAsked, rsOptions, rsResult, rsCamera, rsRefuses, rsCycle>>

-----------------------------------------------------------------------------
(* Sending the settings *)

\* The range checks of raspicamcontrol_set_saturation() and its like.
WithinRange(p, v) ==
    CASE p \in {"saturation", "sharpness", "contrast"} -> v >= -100 /\ v <= 100
      [] p = "brightness" -> v >= 0 /\ v <= 100
      [] OTHER -> TRUE

\* C's division and remainder, which round towards 0.
Quarter(r) == LET q == (IF r < 0 THEN -r ELSE r) % 360 \div 90 IN 90 * (IF r < 0 THEN -q ELSE q)
\* raspicamcontrol_set_flips(): the mirror of two flips.
Mirror(f) == IF f[1] # 0 /\ f[2] # 0 THEN "BOTH" ELSE IF f[1] # 0 THEN "HORIZONTAL" ELSE IF f[2] # 0 THEN "VERTICAL" ELSE "NONE"

\* What a setter makes of its value; raspicamcontrol_set_colourFX() and the mode setters pass it on.
Sent(p, v) == CASE p = "rotation" -> Quarter(v) [] p = "flips" -> Mirror(v) [] OTHER -> v

\* The camera after a setter, and what the setter returns.
CameraSet(camera, p, v) ==
    IF ~WithinRange(p, v) \/ p = rsRefuses \/ (p = "awb_gains" /\ 0 \in {v[1], v[2]}) THEN camera
    ELSE [camera EXCEPT ![p] = Sent(p, v)]
SetterResult(p, v) ==
    IF p = "awb_gains" /\ 0 \in {v[1], v[2]} THEN 0 ELSE IF ~WithinRange(p, v) \/ p = rsRefuses THEN 1 ELSE 0

\* Mutant: the first setting that fails ends it.
SendAllOrStop ==
    /\ rsPlace = <<"send">> /\ rsPlace' = <<"sent">>
    /\ LET Send(at, p) == IF at[2] > 0 THEN at ELSE <<CameraSet(at[1], p, rsParams[p]), SetterResult(p, rsParams[p])>>
           end == FoldLeft(Send, <<rsCamera, 0>>, SetOrder)
       IN  rsCamera' = end[1] /\ rsResult' = end[2]
    /\ UNCHANGED <<rsParams, rsAsked, rsOptions, rsRefuses, rsCycle>>

\* raspicamcontrol_set_all_parameters(): one setting after the other, whatever the camera says.
SendAll ==
    /\ rsPlace = <<"send">> /\ rsPlace' = <<"sent">>
    /\ LET Send(at, p) == <<CameraSet(at[1], p, rsParams[p]), at[2] + SetterResult(p, rsParams[p])>>
           end == FoldLeft(Send, <<rsCamera, 0>>, SetOrder)
       IN  rsCamera' = end[1] /\ rsResult' = end[2]
    /\ UNCHANGED <<rsParams, rsAsked, rsOptions, rsRefuses, rsCycle>>

-----------------------------------------------------------------------------
(* The cycle test *)

\* update_cycle_parameter(): the next option, or Reset at the end of the cycle.
CycleOption(option, min, max, increment) ==
    LET next == (IF option = Reset THEN min - increment ELSE option) + increment
    IN  IF next > max THEN Reset ELSE next

\* parameter 0 to 7: a setting, its first, last and step, and the value at the end.
Cycles == << <<"sharpness", -100, 100, 10, 0>>, <<"contrast", -100, 100, 10, 0>>, <<"brightness", 0, 100, 10, 50>>,
             <<"saturation", -100, 100, 10, 0>>, <<"exposureCompensation", -10, 10, 4, 0>>,
             <<"exposureMode", 0, Len(exposure_map), 1, "AUTO">>, <<"awbMode", 0, Len(awb_map), 1, "AUTO">>,
             <<"imageEffect", 0, Len(imagefx_map), 1, "NONE">> >>

\* The value of an option: a number, or the entry of a map.  The last option is one past the end of
\* its map, and the value read there may be any.
CycleValue(p, option) ==
    IF p \notin DOMAIN ModeMaps THEN option
    ELSE IF option < Len(ModeMaps[p]) THEN ModeMaps[p][option + 1][2] ELSE "none of these"

\* The parameters 8 and 9: what each call sends, and the option after it.
ColourCycle == << <<0, 128, 128>>, <<0, 100, 200>>, <<0, 0, 0>> >>
OrientationCycle == << << <<"rotation", 90>> >>, << <<"rotation", 180>> >>, << <<"rotation", 270>> >>,
    << <<"rotation", 0>>, <<"flips", <<1, 0>> >> >>, << <<"flips", <<0, 1>> >> >>, << <<"flips", <<1, 1>> >> >>,
    << <<"flips", <<0, 0>> >> >> >>
SetAll(camera, sets) == LET Set(c, s) == CameraSet(c, s[1], s[2]) IN FoldLeft(Set, camera, sets)

\* One branch of raspicamcontrol_cycle_test() for the parameter n: <<camera, parameter, option>> after it.
CycleBranch(n, at) ==
    LET camera == at[1] option == at[3]
        Through(c) == LET next == CycleOption(option, c[2], c[3], c[4])
                      IN  IF next = Reset THEN <<CameraSet(camera, c[1], c[5]), n + 1, Reset>>
                          ELSE <<CameraSet(camera, c[1], CycleValue(c[1], next)), n, next>>
        Steps(s) == LET k == IF option = Reset THEN 1 ELSE option + 1
                    IN  IF k = Len(s) THEN <<SetAll(camera, s[k]), n + 1, Reset>>
                        ELSE <<SetAll(camera, s[k]), n, k>>
    IN  IF at[2] # n THEN at
        ELSE IF n <= 7 THEN Through(Cycles[n + 1])
        ELSE IF n = 8 THEN Steps([k \in 1..3 |-> << <<"colourEffects", ColourCycle[k]>> >>])
        ELSE Steps(OrientationCycle)

\* raspicamcontrol_cycle_test(): parameters 0 to 6 exclude each other, 7, 8 and 9 follow in the same call;
\* after the last parameter the cycle starts again, at 1.
CycleTest ==
    /\ rsPlace = <<"cycle">>
    /\ LET at == <<rsCamera, rsCycle[1], rsCycle[2]>>
           last == CycleBranch(9, CycleBranch(8, CycleBranch(7, IF at[2] <= 6 THEN CycleBranch(at[2], at) ELSE at)))
       IN  /\ rsCamera' = last[1]
           /\ rsCycle' = IF last[2] = 10 THEN <<1, last[3], TRUE>> ELSE <<last[2], last[3], FALSE>>
    /\ UNCHANGED <<rsParams, rsAsked, rsOptions, rsPlace, rsResult, rsRefuses>>

SettingsNext ==
    \/ \E p \in NumberSettings, n \in OptionNumbers : OptionNumber(p, n)
    \/ \E p \in FlagSettings : OptionFlag(p)
    \/ \E i \in {1, 2} : OptionFlip(i) \/ OptionGain(i)
    \/ \E p \in DOMAIN ModeMaps : \E i \in 0..Len(ModeMaps[p]) :
           OptionMode(p, IF i = 0 THEN "some other" ELSE ModeMaps[p][i][1])
    \/ \E s \in { << >>, <<100>>, <<100, 200>> } : OptionColour(s)
    \/ OptionRoi \/ OptionHelp \/ OptionsEnd(<<"send">>)
    \/ (rsParams = Defaults /\ rsOptions = 0 /\ OptionsEnd(<<"cycle">>))
    \/ SendAll
    \/ CycleTest
SettingsFair == CycleTest

-----------------------------------------------------------------------------
(* Properties *)

SettingsTypeOK ==
    /\ DOMAIN rsParams = Settings /\ DOMAIN rsCamera = Settings /\ rsOptions \in 0..MaxOptions
    /\ rsResult \in 0..Len(SetOrder) /\ rsRefuses \in Refusable \union {"nothing"}
    /\ rsCycle[1] \in 0..9 /\ rsCycle[3] \in BOOLEAN

\* After raspicamcontrol_set_all_parameters() the camera has every setting of the parameter block
\* that is in range and that it takes, whichever other setting failed; and the result counts the others.
SettingsApplied ==
    rsPlace = <<"sent">> =>
        LET bad == {p \in Settings : ~WithinRange(p, rsParams[p]) \/ p = rsRefuses}
            noGains == 0 \in {rsParams.awb_gains[1], rsParams.awb_gains[2]}
            idle == IF noGains THEN {"awb_gains"} ELSE {}
        IN  /\ \A p \in (Settings \ bad) \ idle : rsCamera[p] = Sent(p, rsParams[p])
            /\ rsResult = 0 <=> bad \subseteq idle
            /\ rsParams.rotation >= 0 => rsCamera.rotation \in {0, 90, 180, 270}

\* A mode asked for by name is the one raspicamcontrol_dump_parameters() shows and the camera gets.
ShownAsAsked ==
    \A p \in DOMAIN ModeMaps :
        /\ unmap_xref(rsParams[p], ModeMaps[p]) = rsAsked[p]
        /\ rsPlace = <<"sent">> /\ p # rsRefuses => unmap_xref(rsCamera[p], ModeMaps[p]) = rsAsked[p]

\* When raspicamcontrol_cycle_test() reports the end of its sequence, the camera has its defaults again,
\* but for the U and V of the colour effect that is off.
CycleRestores ==
    rsCycle[3] => \A p \in Settings \ {"colourEffects", "flips"} : p # rsRefuses => rsCamera[p] = Defaults[p]
        /\ rsCamera.colourEffects[1] = 0 /\ rsCamera.flips = "NONE"

\* The cycle test comes to the end of its sequence again and again.
CycleFinishes == []<>(rsPlace = <<"cycle">> => rsCycle[3])

\* The camera has the settings that were asked for and are in range, each independent of the others, and has its
\* defaults back after the cycle test.
SettingsRight == SettingsApplied /\ ShownAsAsked /\ CycleRestores
=============================================================================
