---------------------------- MODULE MCPluginsLive ----------------------------
(*****************************************************************************)
(* Small instances of the modules about threads of plugins, side by side,    *)
(* for what must happen: component says which of them a behaviour is about,  *)
(* and the others keep one of their initial states.  As component never      *)
(* changes, each behaviour is one of the module's own specification, and a   *)
(* fairness condition of one can be joined with one of another.              *)
(*****************************************************************************)
EXTENDS HttpServer, FileTake, UvcCamera, RaspicamSettings, Raspicam, LibCamera

CONSTANT Components   \* the modules a run is about

VARIABLE component

MCOptionNumbers == {-150, 95, 450}
MCPictureSize == [p \in TakePictures |-> <<0, 2, 5, 4, 8, 3>>[p + 1]]

liveVars == <<serverVars, takeVars, uvcVars, settingsVars, raspicamVars, lcVars, component>>

\* A step of the module of c, while the others do nothing.
Only(c, Taken) ==
    /\ component = c /\ Taken /\ UNCHANGED component
    /\ c # "server" => UNCHANGED serverVars
    /\ c # "take" => UNCHANGED takeVars
    /\ c # "uvc" => UNCHANGED uvcVars
    /\ c # "settings" => UNCHANGED settingsVars
    /\ c # "raspicam" => UNCHANGED raspicamVars
    /\ c # "libcamera" => UNCHANGED lcVars

LiveInit ==
    /\ component \in Components
    /\ ServerInit
    /\ TakeInit
    /\ (IF component = "uvc" THEN TRUE ELSE width = CHOOSE w \in Resolutions : TRUE) /\ UvcInit
    /\ (IF component = "settings" THEN TRUE ELSE rsOptions = 0 /\ rsRefuses = "nothing") /\ SettingsInit
    /\ (IF component = "raspicam" THEN TRUE ELSE rcStills = TRUE /\ rcPreview = TRUE) /\ RaspicamInit
    /\ (IF component = "libcamera" THEN TRUE ELSE lcSame = TRUE /\ lcControls = "none") /\ LcInit

LiveNext ==
    \/ Only("server", ServerNext)
    \/ Only("take", TakeNext)
    \/ Only("uvc", UvcNext)
    \/ Only("settings", SettingsNext)
    \/ Only("raspicam", RaspicamNext)
    \/ Only("libcamera", LcNext)

\* The variables of the module a behaviour is about: the only ones its fairness has to look at.
activeVars ==
    CASE component = "server" -> serverVars
      [] component = "take" -> takeVars
      [] component = "uvc" -> uvcVars
      [] component = "settings" -> settingsVars
      [] component = "raspicam" -> raspicamVars
      [] component = "libcamera" -> lcVars

\* A step of the module of c, whatever it leaves alone.
Of(c, Taken) == component = c /\ Taken /\ UNCHANGED component

\* The fairness of TakeFairSpec and of UvcFairSpec; server_thread() and the client threads go on; the cycle
\* test is called again; the worker, the callback and the encoder of the Raspberry Pi camera go on.
LiveSpec ==
    /\ LiveInit /\ [][LiveNext]_liveVars
    /\ WF_activeVars(\/ Of("take", Run(Worker))
                     \/ Of("server", ServerStep)
                     \/ Of("uvc", ~crashed /\ CamStep)
                     \/ Of("settings", SettingsFair)
                     \/ Of("raspicam", RcWorker)
                     \/ Of("libcamera", LcWorker))
    /\ WF_activeVars(\/ Of("take", Run("h1"))
                     \/ Of("server", ClientStep)
                     \/ Of("uvc", ~crashed /\ Change("h1"))
                     \/ Of("raspicam", RcCallback)
                     \/ Of("libcamera", LcComplete))
    /\ WF_activeVars(\/ Of("uvc", ~crashed /\ Change(Cam))
                     \/ Of("raspicam", RcEncoder)
                     \/ Of("libcamera", LcCopy))
    /\ SF_activeVars(Of("take", Wake))
    /\ SF_activeVars(Of("take", Lock("h1")))

\* Every "take" request that reaches output_file's output_cmd() gets its answer, whatever fails on the way.
TakeReturns == \A t \in Takers : (component = "take" /\ takePc[t] = "idle") ~> takePc[t] = "end"

\* A connection output_http has taken is served and closed, and a "take" request answered.
RequestsAnswered == EveryConnectionClosed /\ TakeReturns

\* A camera goes on: a pause, a capture, a snapshot and a cycle of tests come to their end, and so does the worker when
\* the program stops.
CamerasGoOn ==
    /\ PauseEnds /\ StopEnds /\ CycleFinishes /\ CaptureCompletes /\ WorkerEnds /\ SnapshotTaken /\ VideoResumes
=============================================================================
