------------------------------ MODULE UvcCamera ------------------------------
(***************************************************************************)
(* The camera of input_uvc: cam_thread() against the HTTP threads that     *)
(* call input_cmd(), which change the V4L2 controls and, through           *)
(* setResolution(), close and reopen the device under cam_thread().  The   *)
(* only hand-shake between them is vd->streamingState = STREAMING_PAUSED,  *)
(* which cam_thread() tests once a round.                                  *)
(*                                                                         *)
(* The format is MJPEG.  A resolution is the size of its largest picture.  *)
(* The driver is a set of open handles, one of which may stream.           *)
(***************************************************************************)
EXTENDS Integers, FiniteSets

CONSTANTS
    Requesters,    \* HTTP client threads that answer "command"
    Resolutions,   \* the sizes the camera offers
    DvTimings,     \* option -dv_timings
    MaxChanges,    \* times the device is reopened (bound)
    MaxCommands,   \* controls that are set (bound)
    Parameters,    \* in_parameters[]
    FirstParameter,\* in_parameters[0]
    UserClass,     \* the ones of class V4L2_CTRL_CLASS_USER
    Values,        \* values a command carries
    ValuesInRange,       \* the ones between ctrl.minimum and ctrl.maximum
    PowerUp        \* the value the controls of the camera start with

Cam == "cam"
Threads == Requesters \cup {Cam}
Closed == 0
Handles == 1 .. MaxChanges + 1

ASSUME UvcAssumption ==
    /\ Cam \notin Requesters /\ DvTimings \in BOOLEAN
    /\ MaxChanges \in Nat /\ MaxCommands \in Nat
    /\ Resolutions \subseteq Nat \ {0} /\ Resolutions # {}
    /\ FirstParameter \in Parameters /\ UserClass \subseteq Parameters
    /\ ValuesInRange \subseteq Values /\ PowerUp \in ValuesInRange

VARIABLES
    streamingState,
    fd,            \* the handle in vd->fd
    opened,        \* handles that are open
    streaming,     \* the handle that streams, Closed if none does
    mem,           \* the handle whose buffers vd->mem[] maps, Closed if unmapped
    width,         \* vd->width and vd->height
    tmp,           \* vd->tmpbuffer: its size (0: NULL), tmpbytesused, whether filled since allocated
    capacity,      \* of in->buf
    camPc,            \* control point of cam_thread()
    step,          \* where each thread is in setResolution()
    want,          \* the resolution it asks for
    videoIn,       \* pctx->videoIn is not NULL
    stop,
    shown,         \* in_parameters[].value
    device,        \* the values of the controls in the camera
    commands,      \* controls set so far
    failed,        \* a call of the driver or of calloc() failed (history)
    raced,         \* a change began while cam_thread() was past its test, or during another (history)
    crashed        \* the process received SIGSEGV

camera == <<streamingState, fd, opened, streaming, mem, width, tmp>>
controls == <<shown, device, commands>>
history == <<failed, raced, crashed>>
uvcVars == <<camera, capacity, camPc, step, want, videoIn, stop, controls, history>>

Steps == {"none", "disable", "unmap", "reopen", "free", "alloc", "enable"}
CamPcs == {"options", "enable", "test", "paused", "select", "grab", "copy", "queue", "check", "publish",
        "other", "change", "cleanup", "done"}
Fresh(size) == [size |-> size, used |-> 0, filled |-> FALSE]

\* input_init() opened and configured the camera, input_run() made in->buf.
UvcInit ==
    /\ streamingState = "OFF" /\ fd = 1 /\ opened = {1} /\ streaming = Closed /\ mem = 1
    /\ width \in Resolutions /\ tmp = Fresh(width) /\ capacity = width
    /\ camPc = "options" /\ videoIn = TRUE /\ stop = FALSE
    /\ step = [t \in Threads |-> "none"] /\ want = [t \in Threads |-> width]
    /\ device = [c \in Parameters |-> PowerUp] /\ shown = device /\ commands = 0
    /\ failed = FALSE /\ raced = FALSE /\ crashed = FALSE

ToPc(label) == camPc' = label
ToStep(t, label) == step' = [step EXCEPT ![t] = label]

\* Memory that is gone is touched: the process ends.
UvcCrash ==
    /\ crashed' = TRUE
    /\ UNCHANGED <<camera, capacity, camPc, step, want, videoIn, stop, controls,
                   failed, raced>>

-----------------------------------------------------------------------------
(* The controls *)

Accepted(c, v) == c \notin UserClass \/ v \in ValuesInRange

\* What v4l2SetControl() and then input_cmd(), whose index i is still 0, write.
Show(c, v) ==
    shown' = [[p \in Parameters |-> IF p = c /\ c \in UserClass /\ v \in ValuesInRange THEN v ELSE shown[p]]
              EXCEPT ![FirstParameter] = v]

SetControl(c, v) ==
    /\ commands < MaxCommands /\ commands' = commands + 1
    /\ \/ /\ ~Accepted(c, v) /\ Show(c, v)
          /\ UNCHANGED device
       \/ /\ Accepted(c, v) /\ fd \in opened /\ Show(c, v)
          /\ device' = [device EXCEPT ![c] = v]
       \/ /\ Accepted(c, v)
          /\ UNCHANGED <<shown, device>>
    /\ UNCHANGED <<camera, capacity, step, want, videoIn, stop, history>>

\* An HTTP thread sets a control.
CmdV4l2(t, c, v) ==
    /\ step[t] = "none"
    /\ videoIn \/ ~Accepted(c, v)
    /\ SetControl(c, v) /\ UNCHANGED camPc

\* The camera ended before: vd is NULL.
CmdV4l2Gone(t, c, v) ==
    /\ step[t] = "none"
    /\ ~videoIn /\ Accepted(c, v)
    /\ UvcCrash

\* cam_thread() sets the controls of the command line.
CamOption(c, v) == camPc = "options" /\ SetControl(c, v) /\ UNCHANGED camPc

CamOptionsDone ==
    /\ camPc = "options" /\ ToPc("enable")
    /\ UNCHANGED <<camera, capacity, step, want, videoIn, stop, controls, history>>

-----------------------------------------------------------------------------
(* setResolution(): by an HTTP thread, or by cam_thread() with -dv_timings *)

Changing == {t \in Threads : step[t] # "none"}

\* streamingState = STREAMING_PAUSED
Pause(t, w) ==
    /\ step[t] = "none" /\ fd + Cardinality(Changing) <= MaxChanges
    /\ streamingState' = "PAUSED" /\ want' = [want EXCEPT ![t] = w] /\ ToStep(t, "disable")
    /\ UNCHANGED <<fd, opened, streaming, mem, width, tmp, capacity, videoIn, stop,
                   controls, failed, crashed>>

\* input_cmd(IN_CMD_RESOLUTION) of an HTTP thread.
CmdResolution(t, w) ==
    /\ videoIn /\ Pause(t, w)
    /\ raced' = (raced \/ camPc \notin {"test", "paused"} \/ Changing # {})
    /\ UNCHANGED camPc

\* vd is NULL, or freed while setResolution() was at work on it.
CmdResolutionGone(t) ==
    /\ ~videoIn
    /\ step[t] # "none" \/ fd + Cardinality(Changing) <= MaxChanges
    /\ UvcCrash

\* Mutant: cam_thread() ignores the result.
ReturnForgotten(t, ok) ==
    /\ ToStep(t, "none") /\ failed' = (failed \/ ~ok) /\ UNCHANGED camPc

\* setResolution() returns; cam_thread() goes on or ends.
Return(t, ok) ==
    /\ ToStep(t, "none")
    /\ camPc' = IF t # Cam THEN camPc ELSE IF ok THEN "test" ELSE "cleanup"
    /\ failed' = (failed \/ ~ok)

ChangeFrame == UNCHANGED <<capacity, want, videoIn, stop, controls, raced, crashed>>

\* video_disable()
Disable(t) ==
    /\ step[t] = "disable" /\ fd \in opened
    /\ streaming' = IF streaming = fd THEN Closed ELSE streaming
    /\ streamingState' = "PAUSED" /\ ToStep(t, "unmap")
    /\ UNCHANGED <<fd, opened, mem, width, tmp, camPc, failed>> /\ ChangeFrame

DisableFails(t) ==
    /\ step[t] = "disable" /\ Return(t, FALSE)
    /\ UNCHANGED camera /\ ChangeFrame

\* munmap() and close(), then the new resolution.
Unmap(t) ==
    /\ step[t] = "unmap"
    /\ mem' = Closed /\ opened' = opened \ {fd}
    /\ streaming' = IF streaming = fd THEN Closed ELSE streaming
    /\ width' = want[t] /\ ToStep(t, "reopen")
    /\ UNCHANGED <<streamingState, fd, tmp, camPc, failed>> /\ ChangeFrame

\* init_v4l2(): the driver may choose another resolution; one handle may own buffers.
Reopen(t) ==
    /\ step[t] = "reopen" /\ opened = {}
    /\ fd' = fd + 1 /\ opened' = {fd + 1} /\ mem' = fd + 1
    /\ width' \in Resolutions /\ ToStep(t, "free")
    /\ UNCHANGED <<streamingState, streaming, tmp, camPc, failed>> /\ ChangeFrame

\* open() fails, or a later call of init_v4l2(), which leaves the handle open.
ReopenFails(t) ==
    /\ step[t] = "reopen" /\ Return(t, FALSE)
    /\ fd' = fd + 1 /\ opened' \in {opened, opened \cup {fd + 1}}
    /\ UNCHANGED <<streamingState, streaming, mem, width, tmp>> /\ ChangeFrame

\* free_framebuffer()
Free(t) ==
    /\ step[t] = "free" /\ ToStep(t, "alloc")
    /\ tmp' = [tmp EXCEPT !.size = 0, !.filled = FALSE]
    /\ UNCHANGED <<streamingState, fd, opened, streaming, mem, width, camPc, failed>> /\ ChangeFrame

\* init_framebuffer(): tmpbytesused keeps its value.
Alloc(t) ==
    /\ step[t] = "alloc"
    /\ tmp' = [tmp EXCEPT !.size = width, !.filled = FALSE] /\ ToStep(t, "enable")
    /\ UNCHANGED <<streamingState, fd, opened, streaming, mem, width, camPc, failed>> /\ ChangeFrame

AllocFails(t) ==
    /\ step[t] = "alloc" /\ Return(t, FALSE)
    /\ UNCHANGED camera /\ ChangeFrame

\* video_enable()
StreamOn ==
    /\ fd \in opened /\ mem = fd
    /\ streaming' = fd /\ streamingState' = "ON"
    /\ UNCHANGED <<fd, opened, mem, width, tmp>>

Enable(t) ==
    /\ step[t] = "enable" /\ StreamOn /\ Return(t, TRUE)
    /\ ChangeFrame

EnableFails(t) ==
    /\ step[t] = "enable" /\ Return(t, FALSE)
    /\ UNCHANGED camera /\ ChangeFrame

Change(t) == \/ Disable(t) \/ DisableFails(t) \/ Unmap(t) \/ Reopen(t) \/ ReopenFails(t)
             \/ Free(t) \/ Alloc(t) \/ AllocFails(t) \/ Enable(t) \/ EnableFails(t)

-----------------------------------------------------------------------------
(* cam_thread() *)

CamFrame == UNCHANGED <<capacity, step, want, videoIn, stop, controls, raced, crashed>>

CamEnable ==
    /\ camPc = "enable" /\ StreamOn /\ ToPc("test")
    /\ UNCHANGED failed /\ CamFrame

\* A call of the driver fails: by itself, or because another thread closed or stopped the device.
CamFails ==
    /\ \/ camPc = "enable"
       \/ camPc = "select" /\ fd \notin opened
       \/ camPc \in {"grab", "queue"}
       \/ camPc = "select" /\ ~DvTimings /\ streaming = fd
    /\ failed' = (failed \/ (fd \in opened /\ (camPc \in {"enable", "queue"} \/ streaming = fd)))
    /\ ToPc("cleanup")
    /\ UNCHANGED <<camera>> /\ CamFrame

\* while(!pglobal->stop)
CamTest ==
    /\ camPc = "test" /\ ToPc(IF stop THEN "cleanup" ELSE "paused")
    /\ UNCHANGED <<camera, failed>> /\ CamFrame

\* Mutant: no test of STREAMING_PAUSED.
CamUnpausedUntested ==
    /\ camPc = "paused" /\ ToPc("select")
    /\ UNCHANGED <<camera, failed>> /\ CamFrame

\* while(streamingState == STREAMING_PAUSED)
CamUnpaused ==
    /\ camPc = "paused" /\ streamingState # "PAUSED" /\ ToPc("select")
    /\ UNCHANGED <<camera, failed>> /\ CamFrame

\* select() reports a picture, or the error state of a device that does not stream.
CamReady ==
    /\ camPc = "select" /\ fd \in opened /\ ToPc("grab")
    /\ UNCHANGED <<camera, failed>> /\ CamFrame

\* select() reports an event only.
CamEvent ==
    /\ camPc = "select" /\ DvTimings /\ fd \in opened /\ ToPc("other")
    /\ UNCHANGED <<camera, failed>> /\ CamFrame

\* select() timed out, or the event is V4L2_EVENT_SOURCE_CHANGE.
CamChange ==
    /\ DvTimings /\ camPc \in {"select", "other"}
    /\ Pause(Cam, width) /\ ToPc("change")
    /\ UNCHANGED raced

\* uvcGrab(): VIDIOC_DQBUF
CamGrab ==
    /\ camPc = "grab" /\ fd \in opened /\ streaming = fd /\ ToPc("copy")
    /\ UNCHANGED <<camera, failed>> /\ CamFrame

\* uvcGrab(): memcpy() into tmpbuffer
CamCopy ==
    /\ camPc = "copy" /\ mem # Closed /\ tmp.size > 0
    /\ tmp' = [tmp EXCEPT !.used = width, !.filled = TRUE] /\ ToPc("queue")
    /\ UNCHANGED <<streamingState, fd, opened, streaming, mem, width, failed>> /\ CamFrame

\* uvcGrab(): "Ignoring empty buffer ..."
CamEmpty ==
    /\ camPc = "copy" /\ ToPc("queue")
    /\ UNCHANGED <<camera, failed>> /\ CamFrame

\* uvcGrab(): VIDIOC_QBUF
CamQueue ==
    /\ camPc = "queue" /\ fd \in opened /\ ToPc("check")
    /\ UNCHANGED <<camera, failed>> /\ CamFrame

\* -every_frame, -minimum_size and -softfps may drop the picture.
CamCheck ==
    /\ camPc = "check" /\ \E label \in {"publish", "other"} : ToPc(label)
    /\ UNCHANGED <<camera, failed>> /\ CamFrame

\* memcpy_picture() from tmpbuffer into in->buf, under db
CamPublish ==
    /\ camPc = "publish" /\ tmp.size > 0 /\ ToPc("other")
    /\ UNCHANGED <<camera, failed>> /\ CamFrame

\* The buffers were unmapped or freed by setResolution() of another thread.
CamCrash ==
    /\ \/ camPc = "copy" /\ (mem = Closed \/ tmp.size = 0)
       \/ camPc = "publish" /\ tmp.size = 0
    /\ UvcCrash

\* other_select_handlers
CamOther ==
    /\ camPc = "other" /\ ToPc("test")
    /\ UNCHANGED <<camera, failed>> /\ CamFrame

\* cam_cleanup(): the device stays open.
CamCleanup ==
    /\ camPc = "cleanup" /\ ToPc("done")
    /\ streaming' = IF streamingState = "ON" /\ streaming = fd THEN Closed ELSE streaming
    /\ streamingState' = IF streamingState = "ON" THEN "OFF" ELSE streamingState
    /\ tmp' = [tmp EXCEPT !.size = 0, !.filled = FALSE]
    /\ videoIn' = FALSE /\ capacity' = 0
    /\ UNCHANGED <<fd, opened, mem, width, step, want, stop, controls, history>>

\* signal_handler() sets stop and a second later calls input_stop(), which cancels cam_thread().
SigInt ==
    /\ ~stop /\ stop' = TRUE
    /\ UNCHANGED <<camera, capacity, camPc, step, want, videoIn, controls, history>>

CamCancel ==
    /\ stop /\ camPc \in {"paused", "select"} /\ ToPc("cleanup")
    /\ UNCHANGED <<camera, failed>> /\ CamFrame

CamStep == \/ CamEnable \/ CamFails \/ CamTest \/ CamUnpaused \/ CamReady \/ CamEvent \/ CamChange
           \/ CamGrab \/ CamCopy \/ CamEmpty \/ CamQueue \/ CamCheck \/ CamPublish \/ CamCrash
           \/ CamOther \/ CamCleanup \/ CamCancel \/ CamOptionsDone

Command(t) ==
    \/ \E c \in Parameters, v \in Values : CmdV4l2(t, c, v) \/ CmdV4l2Gone(t, c, v)
    \/ \E w \in Resolutions : CmdResolution(t, w)
    \/ CmdResolutionGone(t)

UvcNext ==
    /\ ~crashed
    /\ \/ CamStep \/ SigInt
       \/ \E c \in Parameters, v \in Values : CamOption(c, v)
       \/ \E t \in Threads : Change(t)
       \/ \E t \in Requesters : Command(t)

UvcSpec == UvcInit /\ [][UvcNext]_uvcVars
UvcFairSpec == UvcSpec /\ WF_uvcVars(~crashed /\ CamStep)
                 /\ \A t \in Threads : WF_uvcVars(~crashed /\ Change(t))

-----------------------------------------------------------------------------
(* Properties *)

\* Types; cam_thread() is in setResolution() exactly while its control point says so.
UvcTypeOK ==
    /\ streamingState \in {"OFF", "ON", "PAUSED"}
    /\ fd \in Handles /\ opened \subseteq Handles
    /\ {streaming, mem} \subseteq Handles \cup {Closed}
    /\ width \in Resolutions /\ capacity \in Resolutions \cup {0}
    /\ tmp \in [size : Resolutions \cup {0}, used : Resolutions \cup {0}, filled : BOOLEAN]
    /\ camPc \in CamPcs /\ step \in [Threads -> Steps] /\ want \in [Threads -> Resolutions]
    /\ {videoIn, stop, failed, raced, crashed} \subseteq BOOLEAN
    /\ shown \in [Parameters -> Values] /\ device \in [Parameters -> Values]
    /\ commands \in 0 .. MaxCommands
    /\ (camPc = "change") = (step[Cam] # "none")

\* cam_thread() ends, or crashes, only if the driver or calloc() failed, if the program
\* is stopped, or if an HTTP thread began to change the resolution while it was past its
\* test of STREAMING_PAUSED or while another change was under way.  A change that begins
\* while it waits at that test, and is the only one, is harmless.
CameraSurvives ==
    camPc \in {"cleanup", "done"} \/ crashed => stop \/ failed \/ raced

\* While nobody is in setResolution() and no change raced with cam_thread(), streamingState
\* = STREAMING_ON says that vd->fd is the open handle that streams, that vd->mem[] maps its
\* buffers and that tmpbuffer has the size of its pictures.
StateAgrees ==
    videoIn /\ Changing = {} /\ ~raced /\ streamingState = "ON" =>
        opened = {fd} /\ streaming = fd /\ mem = fd /\ tmp.size = width

\* What memcpy_picture() copies was written to tmpbuffer and fits into in->buf, which
\* nobody enlarges: for a picture that was stored since tmpbuffer was made, without a race,
\* and while the resolution is not above the first one.
CopyWithin ==
    camPc = "publish" /\ tmp.filled /\ ~raced =>
        tmp.used <= tmp.size /\ (width <= capacity => tmp.used <= capacity)

\* The list of controls that input.json shows agrees with the camera for each
\* user-class control but the first, whose entry input_cmd() overwrites at every command.
ControlsShown ==
    \A c \in UserClass \ {FirstParameter} : shown[c] = device[c]

\* A pause ends, unless a step of setResolution() failed: then cam_thread() waits for ever.
PauseEnds ==
    streamingState = "PAUSED" ~> (streamingState # "PAUSED" \/ failed \/ raced \/ crashed)

\* After SIGINT cam_thread() cleans up, even if it waits for the end of a pause.
StopEnds ==
    stop ~> (camPc = "done" \/ crashed)

\* The capture loop of input_uvc outlives a change of the resolution, what it copies fits, and what streamingState and
\* input.json say of the camera is true, unless a change began behind its test of STREAMING_PAUSED or during another.
CaptureConsistent == CameraSurvives /\ StateAgrees /\ CopyWithin /\ ControlsShown
=============================================================================
