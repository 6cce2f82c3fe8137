------------------------------ MODULE LibCamera ------------------------------
(***************************************************************************)
(* input_libcamera: the worker keeps a few requests circulating between    *)
(* the camera, whose thread pushes the completed ones into requestQueue,   *)
(* and itself.  A snapshot stops the camera, frees its requests, and       *)
(* starts it again with another resolution and one buffer; the next        *)
(* picture published ends it the same way.  A reader stands for an HTTP    *)
(* client: one of a snapshot raises in->snapshot before it waits.          *)
(*                                                                         *)
(* A request is <<generation, number>>: each configuration has its own.    *)
(* requestQueue has one reader and one writer; its operations are taken as *)
(* atomic, although only the reader holds free_requests_mutex_.            *)
(***************************************************************************)
EXTENDS Integers, Sequences, FiniteSets, Functions

CONSTANTS
    LcBufferCount,    \* settings->buffercount
    LcMaxReads,       \* pictures the reader asks for, at most
    LcMaxTriggers,    \* times the autofocus is triggered, at most
    LcMaxFaults       \* calls of libcamera that fail, at most

ASSUME LibCameraAssumption == LcBufferCount \in Nat

VARIABLES
    lcSame,       \* whether the snapshot has the resolution of the video
    lcPc,         \* where the worker is
    lcSize,       \* the resolution configured
    lcTurned,     \* whether the configured rotation is the one asked for
    lcGen,        \* how often the camera was configured
    lcStarted,    \* camera_started_
    lcReqs,       \* requests_
    lcQueued,     \* the requests the camera has
    lcDone,       \* requestQueue
    lcHeld,       \* the request whose picture the worker uses, as a set
    lcLost,       \* requests the camera did not take back
    lcControls,   \* controls_
    lcSnapshot,   \* in->snapshot
    lcSwitch,     \* is_switch: "no", "on", and "to" and "back" while switching
    lcDb,         \* who holds in->db
    lcShown,      \* the resolution of the picture in in->buf
    lcReader,     \* where the reader is
    lcReads, lcTriggers, lcFaults,
    lcAsked,      \* whether a snapshot was asked for
    lcFreed,      \* whether in->buf was moved while the reader copied from it
    lcEnd         \* how the program ended

lcCamera == <<lcSize, lcTurned, lcGen, lcStarted, lcReqs, lcQueued, lcDone, lcLost>>
lcOther == <<lcReader, lcReads, lcTriggers, lcAsked, lcSame>>
lcVars == <<lcPc, lcCamera, lcHeld, lcControls, lcSnapshot, lcSwitch, lcDb, lcShown, lcFaults, lcFreed, lcEnd,
            lcOther>>

LcRunning == lcEnd = "no"
Buffers(size) == IF size = "video" THEN LcBufferCount ELSE 1

LcInit ==
    /\ lcSame \in BOOLEAN
    /\ lcPc = "configure" /\ lcSize = "video" /\ lcTurned = TRUE /\ lcGen = 0 /\ lcStarted = FALSE
    /\ lcReqs = {} /\ lcQueued = {} /\ lcDone = <<>> /\ lcHeld = {} /\ lcLost = 0
    /\ lcControls \in {"none", "initial"} /\ lcSnapshot = FALSE /\ lcSwitch = "no" /\ lcDb = "free" /\ lcShown = "none"
    /\ lcReader = "idle" /\ lcReads = 0 /\ lcTriggers = 0 /\ lcFaults = 0
    /\ lcAsked = FALSE /\ lcFreed = FALSE /\ lcEnd = "no"

\* A failed start: the worker ignores it the first time and reads the null viewfinder_stream_; a switch exits.
StartFails ==
    /\ LcRunning /\ lcPc \in {"configure", "start", "queue"} /\ lcFaults < LcMaxFaults
    /\ lcFaults' = lcFaults + 1
    /\ lcEnd' = IF lcGen = 0 \/ (lcGen = 1 /\ lcPc # "configure") THEN "crash" ELSE "exit"
    /\ UNCHANGED <<lcPc, lcCamera, lcHeld, lcControls, lcSnapshot, lcSwitch, lcDb, lcShown, lcFreed, lcOther>>

\* startCamera() and the first half of startCapture(): a request for each buffer.
LcConfigure ==
    /\ LcRunning /\ lcPc = "configure"
    /\ lcGen' = lcGen + 1
    /\ lcReqs' = {<<lcGen + 1, n>> : n \in 1 .. Buffers(lcSize)}
    /\ lcPc' = "start"
    /\ UNCHANGED <<lcSize, lcTurned, lcStarted, lcQueued, lcDone, lcLost, lcHeld, lcControls, lcSnapshot, lcSwitch, lcDb,
                   lcShown, lcFaults, lcFreed, lcEnd, lcOther>>

\* camera_->start() has taken the controls; controls_ is cleared without control_mutex_.
LcStartCapture ==
    /\ LcRunning /\ lcPc = "start"
    /\ lcControls' = "none" /\ lcStarted' = TRUE
    /\ lcPc' = "queue"
    /\ UNCHANGED <<lcSize, lcTurned, lcGen, lcReqs, lcQueued, lcDone, lcLost, lcHeld, lcSnapshot, lcSwitch, lcDb, lcShown, lcFaults, lcFreed, lcEnd, lcOther>>

\* The requests are queued one after the other, each with the controls set by then.
QueueFirst ==
    /\ LcRunning /\ lcPc = "queue"
    /\ LET New == lcReqs \ (lcQueued \cup Range(lcDone)) IN
       \/ /\ \E r \in New : (\A q \in New : r[2] <= q[2]) /\ lcQueued' = lcQueued \cup {r}
          /\ lcControls' = "none" /\ UNCHANGED lcPc
       \/ /\ New = {}
          /\ lcPc' = IF lcSwitch = "no" THEN "loop" ELSE "move"
          /\ UNCHANGED <<lcQueued, lcControls>>
    /\ UNCHANGED <<lcSize, lcTurned, lcGen, lcStarted, lcReqs, lcDone, lcLost, lcHeld, lcSnapshot, lcSwitch, lcDb, lcShown, lcFaults, lcFreed, lcEnd, lcOther>>

\* requestComplete(), in a thread of libcamera.
LcComplete ==
    /\ LcRunning /\ lcStarted
    /\ \E r \in lcQueued : lcQueued' = lcQueued \ {r} /\ lcDone' = Append(lcDone, r)
    /\ UNCHANGED <<lcPc, lcSize, lcTurned, lcGen, lcStarted, lcReqs, lcLost, lcHeld, lcControls, lcSnapshot, lcSwitch, lcDb,
                   lcShown, lcFaults, lcFreed, lcEnd, lcOther>>
-----------------------------------------------------------------------------

\* The test of pglobal->stop.
LoopStop ==
    /\ LcRunning /\ lcPc = "loop"
    /\ lcPc' = "close"
    /\ UNCHANGED <<lcCamera, lcHeld, lcControls, lcSnapshot, lcSwitch, lcDb, lcShown, lcFaults, lcFreed, lcEnd, lcOther>>

\* Mutant: a snapshot is never looked for.
LoopCheckNever ==
    /\ LcRunning /\ lcPc = "loop"
    /\ lcPc' = "read"
    /\ UNCHANGED <<lcCamera, lcHeld, lcControls, lcSnapshot, lcSwitch, lcDb, lcShown, lcFaults, lcFreed, lcEnd, lcOther>>

\* One turn of the loop begins: a snapshot asked for needs the other resolution, or the same one.
LoopCheck ==
    /\ LcRunning /\ lcPc = "loop"
    /\ \/ lcSnapshot /\ ~lcSame /\ lcPc' = "stop" /\ lcSwitch' = "to"
       \/ lcSnapshot /\ lcSame /\ lcPc' = "clear" /\ UNCHANGED lcSwitch
       \/ ~lcSnapshot /\ lcPc' = "read" /\ UNCHANGED lcSwitch
    /\ UNCHANGED <<lcCamera, lcHeld, lcControls, lcSnapshot, lcDb, lcShown, lcFaults, lcFreed, lcEnd, lcOther>>

\* stopCamera(), while the camera still completes requests: those it had are cancelled.
StopCamera ==
    /\ LcRunning /\ lcPc = "stop"
    /\ lcStarted' = FALSE /\ lcQueued' = {}
    /\ lcPc' = "flush"
    /\ UNCHANGED <<lcSize, lcTurned, lcGen, lcReqs, lcDone, lcLost, lcHeld, lcControls, lcSnapshot, lcSwitch, lcDb, lcShown,
                   lcFaults, lcFreed, lcEnd, lcOther>>

\* Mutant: requestQueue keeps the requests of the old configuration.
FlushKeepsQueue ==
    /\ LcRunning /\ lcPc = "flush"
    /\ lcReqs' = {} /\ lcLost' = 0 /\ lcControls' = "none"
    /\ lcSize' = IF lcSwitch = "to" THEN "snapshot" ELSE "video"
    /\ lcTurned' = FALSE
    /\ lcPc' = "configure"
    /\ UNCHANGED <<lcGen, lcStarted, lcQueued, lcDone, lcHeld, lcSnapshot, lcSwitch, lcDb, lcShown, lcFaults, lcFreed, lcEnd,
                   lcOther>>

\* The rest of stopCamera(), and configureStill() with the other resolution and no rotation.
LcFlush ==
    /\ LcRunning /\ lcPc = "flush"
    /\ lcDone' = <<>> /\ lcReqs' = {} /\ lcLost' = 0 /\ lcControls' = "none"
    /\ lcSize' = IF lcSwitch = "to" THEN "snapshot" ELSE "video"
    /\ lcTurned' = FALSE
    /\ lcPc' = "configure"
    /\ UNCHANGED <<lcGen, lcStarted, lcQueued, lcHeld, lcSnapshot, lcSwitch, lcDb, lcShown, lcFaults, lcFreed, lcEnd,
                   lcOther>>

\* camera_->stop() or validate() fails and the exception ends the program; realloc() fails and the worker exits.
SwitchFails ==
    /\ LcRunning /\ lcPc \in {"stop", "flush", "move"} /\ lcFaults < LcMaxFaults
    /\ lcFaults' = lcFaults + 1
    /\ lcEnd' = IF lcPc = "move" THEN "exit" ELSE "crash"
    /\ UNCHANGED <<lcPc, lcCamera, lcHeld, lcControls, lcSnapshot, lcSwitch, lcDb, lcShown, lcFreed, lcOther>>

\* The end of switch_resolution(): in->buf gets its new size, without in->db.
LcMove ==
    /\ LcRunning /\ lcPc = "move"
    /\ lcFreed' = (lcFreed \/ lcReader = "copying")
    /\ IF lcSwitch = "to" THEN lcSwitch' = "on" /\ lcPc' = "clear" ELSE lcSwitch' = "no" /\ lcPc' = "loop"
    /\ UNCHANGED <<lcCamera, lcHeld, lcControls, lcSnapshot, lcDb, lcShown, lcFaults, lcEnd, lcOther>>

ClearSnapshot ==
    /\ LcRunning /\ lcPc = "clear"
    /\ lcSnapshot' = FALSE
    /\ lcPc' = "read"
    /\ UNCHANGED <<lcCamera, lcHeld, lcControls, lcSwitch, lcDb, lcShown, lcFaults, lcFreed, lcEnd, lcOther>>

\* readFrame() takes the oldest completed request; without one the worker tries again at once.
LcReadFrame ==
    /\ LcRunning /\ lcPc = "read"
    /\ IF lcDone = <<>> THEN lcPc' = "loop" /\ UNCHANGED <<lcHeld, lcDone>>
       ELSE lcHeld' = {Head(lcDone)} /\ lcDone' = Tail(lcDone) /\ lcPc' = "publish"
    /\ UNCHANGED <<lcSize, lcTurned, lcGen, lcStarted, lcReqs, lcQueued, lcLost, lcControls, lcSnapshot, lcSwitch, lcDb,
                   lcShown, lcFaults, lcFreed, lcEnd, lcOther>>

LcPublish ==
    /\ LcRunning /\ lcPc = "publish" /\ lcDb = "free"
    /\ lcShown' = lcSize
    /\ lcReader' = IF lcReader = "waiting" THEN "woken" ELSE lcReader
    /\ lcPc' = "return"
    /\ UNCHANGED <<lcCamera, lcHeld, lcControls, lcSnapshot, lcSwitch, lcDb, lcFaults, lcFreed, lcEnd, lcReads, lcTriggers,
                   lcAsked, lcSame>>

\* returnFrameBuffer(), which does not look at the result of queueRequest(); a snapshot is over.
ReturnFrame ==
    /\ LcRunning /\ lcPc = "return"
    /\ lcHeld' = {} /\ lcControls' = "none"
    /\ \/ lcQueued' = lcQueued \cup lcHeld /\ UNCHANGED <<lcLost, lcFaults>>
       \/ lcFaults < LcMaxFaults /\ lcFaults' = lcFaults + 1 /\ lcLost' = lcLost + 1 /\ UNCHANGED lcQueued
    /\ IF lcSwitch = "on" THEN lcSwitch' = "back" /\ lcPc' = "stop" ELSE lcPc' = "loop" /\ UNCHANGED lcSwitch
    /\ UNCHANGED <<lcSize, lcTurned, lcGen, lcStarted, lcReqs, lcDone, lcSnapshot, lcDb, lcShown, lcFreed, lcEnd, lcOther>>

\* stopCamera(), closeCamera() and worker_cleanup(): the context is gone.
LcClose ==
    /\ LcRunning /\ lcPc = "close"
    /\ lcStarted' = FALSE /\ lcQueued' = {} /\ lcDone' = <<>> /\ lcReqs' = {} /\ lcControls' = "none"
    /\ lcPc' = "gone"
    /\ UNCHANGED <<lcSize, lcTurned, lcGen, lcLost, lcHeld, lcSnapshot, lcSwitch, lcDb, lcShown, lcFaults, lcFreed, lcEnd,
                   lcOther>>

-----------------------------------------------------------------------------

\* send_snapshot() raises in->snapshot before it waits for a picture; send_stream() does not.
LcAsk ==
    /\ LcRunning /\ lcReader = "idle" /\ lcReads < LcMaxReads
    /\ lcReads' = lcReads + 1 /\ lcReader' = "locking"
    /\ \/ lcSnapshot' = TRUE /\ lcAsked' = TRUE
       \/ UNCHANGED <<lcSnapshot, lcAsked>>
    /\ UNCHANGED <<lcPc, lcCamera, lcHeld, lcControls, lcSwitch, lcDb, lcShown, lcFaults, lcFreed, lcEnd, lcTriggers, lcSame>>

LcWait ==
    /\ LcRunning /\ lcReader = "locking" /\ lcDb = "free"
    /\ lcReader' = "waiting"
    /\ UNCHANGED <<lcPc, lcCamera, lcHeld, lcControls, lcSnapshot, lcSwitch, lcDb, lcShown, lcFaults, lcFreed, lcEnd, lcReads,
                   lcTriggers, lcAsked, lcSame>>

LcCopy ==
    /\ LcRunning
    /\ \/ lcReader = "woken" /\ lcDb = "free" /\ lcDb' = "reader" /\ lcReader' = "copying"
       \/ lcReader = "copying" /\ lcDb' = "free" /\ lcReader' = "idle"
    /\ UNCHANGED <<lcPc, lcCamera, lcHeld, lcControls, lcSnapshot, lcSwitch, lcShown, lcFaults, lcFreed, lcEnd, lcReads,
                   lcTriggers, lcAsked, lcSame>>

\* input_cmd() triggers the autofocus: set() replaces the controls; the context may be gone.
LcTrigger ==
    /\ LcRunning /\ lcTriggers < LcMaxTriggers
    /\ lcTriggers' = lcTriggers + 1
    /\ IF lcPc = "gone" THEN lcEnd' = "crash" /\ UNCHANGED lcControls ELSE lcControls' = "trigger" /\ UNCHANGED lcEnd
    /\ UNCHANGED <<lcPc, lcCamera, lcHeld, lcSnapshot, lcSwitch, lcDb, lcShown, lcFaults, lcFreed, lcReader, lcReads, lcAsked,
                   lcSame>>

LcWorker ==
    \/ LcConfigure \/ LcStartCapture \/ QueueFirst \/ LoopCheck \/ StopCamera \/ LcFlush \/ LcMove \/ ClearSnapshot \/ LcReadFrame
    \/ LcPublish \/ ReturnFrame \/ LcClose

LcNext == LcWorker \/ StartFails \/ SwitchFails \/ LoopStop \/ LcComplete \/ LcAsk \/ LcWait \/ LcCopy \/ LcTrigger

LcSpec == LcInit /\ [][LcNext]_lcVars

-----------------------------------------------------------------------------

LcTypeOK ==
    /\ lcPc \in {"configure", "start", "queue", "loop", "stop", "flush", "move", "clear", "read", "publish", "return",
                 "close", "gone"}
    /\ lcSize \in {"video", "snapshot"} /\ lcSwitch \in {"no", "to", "on", "back"} /\ lcDb \in {"free", "reader"}
    /\ {lcSame, lcTurned, lcStarted, lcSnapshot, lcAsked, lcFreed} \subseteq BOOLEAN
    /\ lcControls \in {"none", "initial", "trigger"} /\ lcShown \in {"none", "video", "snapshot"}
    /\ lcReader \in {"idle", "locking", "waiting", "woken", "copying"} /\ (lcDb = "reader" <=> lcReader = "copying")
    /\ lcEnd \in {"no", "exit", "crash"} /\ lcGen \in Nat /\ lcLost \in 0 .. LcMaxFaults
    /\ lcReads \in 0 .. LcMaxReads /\ lcTriggers \in 0 .. LcMaxTriggers /\ lcFaults \in 0 .. LcMaxFaults

\* The camera, requestQueue and the worker only ever have requests of the present configuration: what stopCamera()
\* frees at a switch is used no more, although the camera went on completing requests while it was being stopped.
RequestsLive == lcQueued \cup Range(lcDone) \cup lcHeld \subseteq lcReqs

\* While pictures are taken each request is in one place, with the camera, in requestQueue or with the worker; the
\* only ones missing are those that queueRequest() did not take back.
RequestsConserved ==
    lcPc \in {"loop", "clear", "read", "publish", "return"} =>
        Cardinality(lcQueued) + Len(lcDone) + Cardinality(lcHeld) + lcLost = Buffers(lcSize)

\* The rotation asked for is kept, and no reader copies from a buffer that moves under it, as long as no snapshot of
\* another resolution is asked for: switch_resolution() does both.
KeptWithoutSwitch == (lcSame \/ ~lcAsked) => lcTurned /\ ~lcFreed

\* in->snapshot is answered: a picture of the snapshot's resolution is about to be published, or the program ends.
SnapshotTaken ==
    lcSnapshot ~> \/ lcPc = "publish" /\ (lcSame \/ lcSize = "snapshot")
                  \/ lcPc = "gone" \/ ~LcRunning

\* After a snapshot the camera goes back to the resolution of the video, or the program ends.
VideoResumes == lcSize = "snapshot" ~> lcSize = "video" \/ lcPc = "gone" \/ ~LcRunning

\* The requests of input_libcamera survive every switch of the resolution: none is lost, doubled or used after it was
\* freed, and without a switch neither the rotation nor a reader's buffer is.
RequestsKept == RequestsLive /\ RequestsConserved /\ KeptWithoutSwitch
=============================================================================
