------------------------------ MODULE MCPlugins ------------------------------
(*****************************************************************************)
(* Small instances of the modules about plugins, side by side: component     *)
(* says which of them a behaviour is about, and the others keep one of their *)
(* initial states.  As component never changes, each behaviour is one of the *)
(* module's own specification.                                               *)
(*****************************************************************************)
EXTENDS HttpRequest, HttpText, HttpClients, FileRing, FileTake, ZmqSlots, MjpgExtractor,
        UvcCamera, UvcControls, RaspicamSettings, PluginOptions, LibCamera

CONSTANT Components   \* the modules a run is about

VARIABLE component

MCNumbers == {-1} \cup (0 .. 2)
MCCameras == {{}, {1, 2}, {2, 3, 11, 13}, {1, 3, 11, 12}}
MCSizes == {-1} \cup (1 .. 2)
MCOptionNumbers == {-150, 95, 450}
\* The second picture does not fit into the buffer made for the first, the third does.
MCPictureSize == [p \in TakePictures |-> <<0, 2, 5, 4, 8, 3>>[p + 1]]
\* A byte, dashes like those of the boundary, a line break in the picture, and one that does not fit into
\* the buffer.
MCPictures == {<<216>>, <<45, 45>>, <<216, 45, 13, 10>>, <<216, 217, 13, 10, 45, 216>>}

pluginsVars == <<optVars, vars, textVars, hcVars, ringVars, takeVars, zmqVars, extractorVars,
                 uvcVars, ucVars, settingsVars, lcVars, component>>

\* A step of the module of c, while the others do nothing.
Only(c, Taken) ==
    /\ component = c /\ Taken /\ UNCHANGED component
    /\ c # "options" => UNCHANGED optVars
    /\ c # "request" => UNCHANGED vars
    /\ c # "text" => UNCHANGED textVars
    /\ c # "clients" => UNCHANGED hcVars
    /\ c # "ring" => UNCHANGED ringVars
    /\ c # "take" => UNCHANGED takeVars
    /\ c # "zmq" => UNCHANGED zmqVars
    /\ c # "extractor" => UNCHANGED extractorVars
    /\ c # "uvc" => UNCHANGED uvcVars
    /\ c # "controls" => UNCHANGED ucVars
    /\ c # "settings" => UNCHANGED settingsVars
    /\ c # "libcamera" => UNCHANGED lcVars

PluginsInit ==
    /\ component \in Components
    /\ (IF component = "options" THEN TRUE ELSE optCmd = CHOOSE c \in Commands("output_viewer") : TRUE) /\ OptInit
    /\ (IF component = "request" THEN TRUE ELSE conf = CHOOSE c \in Configurations : TRUE) /\ Init
    /\ (IF component = "text" THEN TRUE ELSE htSent = <<>>) /\ TextInit
    /\ (IF component = "clients" THEN TRUE ELSE hcFrom = CHOOSE f \in [HcConnections -> HcAddresses] : TRUE) /\ HcInit
    /\ (IF component = "ring" THEN TRUE ELSE size = 1 /\ exceed = 0 /\ linkFile = TRUE) /\ RingInit
    /\ TakeInit
    /\ (IF component = "zmq" THEN TRUE ELSE zMjpg = TRUE) /\ ZmqInit
    /\ ExtractorInit
    /\ (IF component = "uvc" THEN TRUE ELSE width = CHOOSE w \in Resolutions : TRUE) /\ UvcInit
    /\ (IF component = "controls" THEN TRUE ELSE ucCamera = [own |-> {}, has |-> {}, next |-> FALSE, items |-> MenuItems, unreadable |-> {}, jpeg |-> 0]
           /\ ucPc = "add") /\ UcInit
    /\ (IF component = "settings" THEN TRUE ELSE rsOptions = 0 /\ rsRefuses = "nothing") /\ SettingsInit
    /\ (IF component = "libcamera" THEN TRUE ELSE lcSame = TRUE /\ lcControls = "none") /\ LcInit

PluginsNext ==
    \/ Only("options", OptNext)
    \/ Only("request", Next)
    \/ Only("text", TextNext)
    \/ Only("clients", HcNext)
    \/ Only("ring", RingNext)
    \/ Only("take", TakeNext)
    \/ Only("zmq", ZmqNext)
    \/ Only("extractor", ExtractorNext)
    \/ Only("uvc", UvcNext)
    \/ Only("controls", UcNext)
    \/ Only("settings", SettingsNext)
    \/ Only("libcamera", LcNext)

PluginsSpec == PluginsInit /\ [][PluginsNext]_pluginsVars

\* The variables of the module a behaviour is about have their types.
PluginsTypeOK ==
    /\ component \in Components
    /\ component = "options" => OptTypeOK
    /\ component = "request" => TypeOK
    /\ component = "text" => TextTypeOK
    /\ component = "clients" => HcTypeOK
    /\ component = "ring" => RingTypeOK
    /\ component = "take" => TakeTypeOK
    /\ component = "zmq" => ZmqTypeOK
    /\ component = "extractor" => ExtractorTypeOK
    /\ component = "uvc" => UvcTypeOK
    /\ component = "controls" => UcTypeOK
    /\ component = "settings" => SettingsTypeOK
    /\ component = "libcamera" => LcTypeOK

\* Bytes that come in pieces are taken for what they are: the lines and texts of output_http's requests, and the pictures
\* of input_http.
StreamParsed == NoByteLost /\ TextConverted /\ PicturesInOrder /\ LengthNotNegative /\ Published
=============================================================================
