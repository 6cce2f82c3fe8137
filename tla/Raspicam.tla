------------------------------ MODULE Raspicam ------------------------------
(***************************************************************************)
(* The Raspberry Pi camera plugin (input_raspicam.c): the worker thread    *)
(* sets up camera, preview and encoder, feeds the encoder's output port    *)
(* with buffers, and takes everything down again when the program stops;   *)
(* the encoder's callback thread hands the pictures over.  The copy of a   *)
(* picture into the frame buffer is in Streamer (RaspiData, RaspiEnd).     *)
(*                                                                         *)
(* MMAL is used as the plugin sees it; what it promises is in the MMAL     *)
(* modules.  A fatal failure ends the process, with all it had.            *)
(***************************************************************************)
EXTENDS Integers, Sequences, FiniteSets

CONSTANTS
    RcBuffers,     \* encoder_output->buffer_num
    RcMaxChunks,   \* bound: buffers that one picture takes
    RcMaxFaults    \* bound: calls that fail without ending the process

ASSUME RaspicamAssumption == RcBuffers \in Nat \ {0} /\ RcMaxChunks \in Nat \ {0} /\ RcMaxFaults \in Nat

VARIABLES
    rcStills, rcPreview,   \* usestills, wantPreview
    rcAt,        \* where the worker thread is
    rcHave,      \* what has been created: components, connections, pool, semaphore
    rcEnabled,   \* encoder->output[0]->is_enabled
    rcPool,      \* buffers in the pool's queue
    rcPort,      \* buffers in transit: with the encoder, or being called back with
    rcLeft,      \* buffers the worker still means to take: num - q
    rcNull,      \* mmal_queue_get() returned NULL to the worker
    rcTaking,    \* the camera takes pictures
    rcChunks,    \* buffers of this picture so far
    rcCall,      \* the callback: <<>> or <<what is next, whether the picture is complete>>
    rcSem,       \* complete_semaphore
    rcStray,     \* the semaphore was posted after it was deleted
    rcStop,      \* pglobal->stop
    rcFaults

raspicamVars == <<rcStills, rcPreview, rcAt, rcHave, rcEnabled, rcPool, rcPort, rcLeft, rcNull, rcTaking, rcChunks,
                  rcCall, rcSem, rcStray, rcStop, rcFaults>>
rcSettled == <<rcStills, rcPreview>>

\* The calls of the set-up, in order, and what each leaves behind.  A call of the second kind may fail
\* and the worker goes on.
Setup == <<"camera", "control", "config", "settings", "previewFormat", "preview", "region", "videoFormat",
           "stillFormat", "cameraOn", "previewOn", "encoder", "encoderFormat", "quality", "encoderOn",
           "pool", "previewLink", "encoderLink", "output">>
Optional == {"config", "settings", "previewFormat", "videoFormat", "previewLink"}
Leaves == {"camera", "preview", "encoder", "pool", "previewLink", "encoderLink"}
Skipped(s) == (s = "videoFormat" /\ rcStills) \/ (s = "previewLink" /\ ~rcPreview)

RaspicamInit ==
    /\ rcStills \in BOOLEAN /\ rcPreview \in BOOLEAN
    /\ rcAt = <<"setup", 1>> /\ rcHave = {} /\ rcEnabled = FALSE /\ rcPool = 0 /\ rcPort = 0 /\ rcLeft = 0
    /\ rcNull = FALSE /\ rcTaking = FALSE /\ rcChunks = 0 /\ rcCall = <<>> /\ rcSem = 0 /\ rcStray = FALSE
    /\ rcStop = FALSE /\ rcFaults = RcMaxFaults

Faulty == rcFaults > 0 /\ rcFaults' = rcFaults - 1
Sound == UNCHANGED rcFaults

-----------------------------------------------------------------------------
(* The worker thread *)

\* A call of the set-up that works, or that is not made; the last one makes the semaphore and enables
\* the output port, and the worker then feeds it.
SetupCall(i) ==
    LET s == Setup[i]
    IN  /\ rcAt = <<"setup", i>>
        /\ rcHave' = (IF s \in Leaves /\ ~Skipped(s) THEN rcHave \union {s} ELSE rcHave)
                     \union (IF s = "output" THEN {"semaphore"} ELSE {})
        /\ rcPool' = IF s = "pool" THEN RcBuffers ELSE rcPool
        /\ rcEnabled' = (s = "output")
        /\ rcAt' = IF s = "output" THEN <<IF rcStills THEN "loop" ELSE "count">> ELSE <<"setup", i + 1>>
        /\ UNCHANGED <<rcPort, rcLeft, rcNull, rcTaking, rcChunks, rcCall, rcSem, rcStray, rcStop>> /\ UNCHANGED rcSettled

\* A call that fails: the worker goes on without it, or ends the process.
SetupFails(i) ==
    /\ rcAt = <<"setup", i>> /\ Faulty /\ ~Skipped(Setup[i])
    /\ rcAt' = IF Setup[i] \in Optional THEN <<"setup", i + 1>> ELSE <<"exit">>
    /\ UNCHANGED <<rcHave, rcEnabled, rcPool, rcPort, rcLeft, rcNull, rcTaking, rcChunks, rcCall, rcSem, rcStray, rcStop>>
    /\ UNCHANGED rcSettled

RcKeeps == UNCHANGED <<rcHave, rcEnabled, rcChunks, rcCall, rcStray, rcStop>> /\ UNCHANGED rcSettled

\* while (!pglobal->stop) of the stills mode.
StillsLoop ==
    /\ rcAt = <<"loop">> /\ rcAt' = <<IF rcStop THEN "delete" ELSE "count">>
    /\ UNCHANGED <<rcPool, rcPort, rcLeft, rcNull, rcTaking, rcSem>> /\ RcKeeps /\ Sound

\* "Send all the buffers to the encoder output port": mmal_queue_length(), then as many times a buffer.
CountBuffers ==
    /\ rcAt = <<"count">> /\ rcAt' = <<"take">> /\ rcLeft' = rcPool
    /\ UNCHANGED <<rcPool, rcPort, rcNull, rcTaking, rcSem>> /\ RcKeeps /\ Sound

TakeBuffer ==
    /\ rcAt = <<"take">> /\ rcLeft > 0 /\ rcLeft' = rcLeft - 1
    /\ rcNull' = (rcNull \/ rcPool = 0)
    /\ rcPool' = IF rcPool = 0 THEN 0 ELSE rcPool - 1
    /\ rcAt' = <<IF rcPool = 0 THEN "crash" ELSE "send">>
    /\ UNCHANGED <<rcPort, rcTaking, rcSem>> /\ RcKeeps /\ Sound

SendBuffer(ok) ==
    /\ rcAt = <<"send">> /\ rcAt' = <<"take">>
    /\ IF ok THEN Sound ELSE Faulty
    /\ rcPort' = IF ok THEN rcPort + 1 ELSE rcPort
    /\ UNCHANGED <<rcPool, rcLeft, rcNull, rcTaking, rcSem>> /\ RcKeeps

\* MMAL_PARAMETER_CAPTURE: the stills loop waits for the picture, if taking it could be started.
StartCapture(ok) ==
    /\ rcAt = <<"take">> /\ rcLeft = 0
    /\ IF ok THEN Sound ELSE Faulty
    /\ rcTaking' = (rcTaking \/ ok)
    /\ rcAt' = <<IF ~rcStills THEN "video" ELSE IF ok THEN "wait" ELSE "loop">>
    /\ UNCHANGED <<rcPool, rcPort, rcLeft, rcNull, rcSem>> /\ RcKeeps

\* Mutant: the end of the program ends the wait for the picture.
CaptureDoneUnwaited ==
    /\ rcAt = <<"wait">> /\ rcAt' = <<"loop">>
    /\ \/ rcSem > 0 /\ rcSem' = rcSem - 1
       \/ rcStop /\ UNCHANGED rcSem
    /\ UNCHANGED <<rcPool, rcPort, rcLeft, rcNull, rcTaking>> /\ RcKeeps /\ Sound

\* vcos_semaphore_wait() returns.
CaptureDone ==
    /\ rcAt = <<"wait">> /\ rcSem > 0 /\ rcSem' = rcSem - 1 /\ rcAt' = <<"loop">>
    /\ UNCHANGED <<rcPool, rcPort, rcLeft, rcNull, rcTaking>> /\ RcKeeps /\ Sound

\* while (!pglobal->stop) usleep(1000) of the video mode.
VideoEnds ==
    /\ rcAt = <<"video">> /\ rcStop /\ rcAt' = <<"delete">>
    /\ UNCHANGED <<rcPool, rcPort, rcLeft, rcNull, rcTaking, rcSem>> /\ RcKeeps /\ Sound

\* The take-down, in the order of the code.
TakeDown == <<"delete", "previewLink", "disable", "drained", "encoderLink", "pool", "encoder", "preview", "camera", "end">>

\* One call of it.  mmal_port_disable() first marks the port, then waits until no buffer is on its way
\* and no callback is running; a port that was disabled already is left alone.
TakeDownCall(i) ==
    LET s == TakeDown[i]
    IN  /\ rcAt = <<s>> /\ s # "end" /\ rcAt' = <<TakeDown[i + 1]>>
        /\ s = "drained" => rcPort = 0 /\ rcCall = <<>>
        /\ rcEnabled' = (rcEnabled /\ s # "disable")
        /\ rcHave' = rcHave \ {IF s = "delete" THEN "semaphore" ELSE s}
        /\ UNCHANGED <<rcPool, rcPort, rcLeft, rcNull, rcTaking, rcChunks, rcCall, rcSem, rcStray, rcStop>>
        /\ UNCHANGED rcSettled /\ Sound

-----------------------------------------------------------------------------
(* The encoder (external) and its callback *)

\* The encoder returns a buffer with a part of a picture; the last part ends the picture.
EncoderReturns(end) ==
    /\ rcCall = <<>> /\ rcPort > 0 /\ rcEnabled /\ rcTaking /\ rcAt # <<"exit">>
    /\ end \/ rcChunks + 1 < RcMaxChunks
    /\ rcCall' = <<"release", end>> /\ rcChunks' = IF end THEN 0 ELSE rcChunks + 1
    /\ rcTaking' = (rcTaking /\ ~(end /\ rcStills))
    /\ UNCHANGED <<rcAt, rcHave, rcEnabled, rcPool, rcPort, rcLeft, rcNull, rcSem, rcStray, rcStop>>
    /\ UNCHANGED rcSettled /\ Sound

\* A disabled port gives its buffers back empty.
EncoderFlushes ==
    /\ rcCall = <<>> /\ rcPort > 0 /\ ~rcEnabled
    /\ rcCall' = <<"release", FALSE>>
    /\ UNCHANGED <<rcAt, rcHave, rcEnabled, rcPool, rcPort, rcLeft, rcNull, rcTaking, rcChunks, rcSem, rcStray, rcStop>>
    /\ UNCHANGED rcSettled /\ Sound

CallKeeps == UNCHANGED <<rcAt, rcHave, rcEnabled, rcLeft, rcNull, rcTaking, rcChunks, rcStop>> /\ UNCHANGED rcSettled

\* encoder_buffer_callback(): "release buffer back to the pool",
CallRelease ==
    /\ rcCall # <<>> /\ rcCall[1] = "release" /\ rcPool' = rcPool + 1
    /\ rcCall' = <<IF rcEnabled THEN "get" ELSE "post", rcCall[2]>>
    /\ UNCHANGED <<rcPort, rcSem, rcStray>> /\ CallKeeps /\ Sound

\* "and send one back to the port (if still open)": the worker may have been faster,
CallGet ==
    /\ rcCall # <<>> /\ rcCall[1] = "get"
    /\ IF rcPool = 0 THEN rcCall' = <<"post", rcCall[2]>> /\ UNCHANGED rcPool
       ELSE rcCall' = <<"send", rcCall[2]>> /\ rcPool' = rcPool - 1
    /\ UNCHANGED <<rcPort, rcSem, rcStray>> /\ CallKeeps /\ Sound

\* or the port may have been disabled in between: the buffer is then in no queue,
CallSend(ok) ==
    /\ rcCall # <<>> /\ rcCall[1] = "send"
    /\ IF ok THEN rcEnabled /\ Sound ELSE IF rcEnabled THEN Faulty ELSE Sound
    /\ rcPort' = IF ok THEN rcPort + 1 ELSE rcPort
    /\ rcCall' = <<"post", rcCall[2]>>
    /\ UNCHANGED <<rcPool, rcSem, rcStray>> /\ CallKeeps

\* and the semaphore is posted for a complete picture; the buffer is no longer on its way.
CallPost ==
    /\ rcCall # <<>> /\ rcCall[1] = "post" /\ rcCall' = <<>> /\ rcPort' = rcPort - 1
    /\ rcStray' = (rcStray \/ (rcCall[2] /\ "semaphore" \notin rcHave))
    /\ rcSem' = IF rcCall[2] /\ rcSem = 0 THEN 1 ELSE rcSem
    /\ UNCHANGED rcPool /\ CallKeeps /\ Sound

\* The main thread stops the program.
RcStopAll ==
    /\ ~rcStop /\ rcStop' = TRUE
    /\ UNCHANGED <<rcAt, rcHave, rcEnabled, rcPool, rcPort, rcLeft, rcNull, rcTaking, rcChunks, rcCall, rcSem, rcStray>>
    /\ UNCHANGED rcSettled /\ Sound

\* ... and input_stop() cancels the worker, which ends in one of its calls, its local variables with it:
\* worker_cleanup() only frees the frame buffer.
RcCancelled ==
    /\ rcStop /\ rcAt[1] \notin {"end", "exit", "crash", "cancelled"} /\ rcAt' = <<"cancelled">>
    /\ rcHave' = rcHave \ {"semaphore"}
    /\ UNCHANGED <<rcEnabled, rcPool, rcPort, rcLeft, rcNull, rcTaking, rcChunks, rcCall, rcSem, rcStray, rcStop>>
    /\ UNCHANGED rcSettled /\ Sound

RcWorker ==
    \/ \E i \in 1..Len(Setup) : SetupCall(i) /\ Sound
    \/ StillsLoop \/ CountBuffers \/ TakeBuffer \/ SendBuffer(TRUE) \/ StartCapture(TRUE) \/ CaptureDone \/ VideoEnds
    \/ \E i \in 1..Len(TakeDown) : TakeDownCall(i)
RcCallback == CallRelease \/ CallGet \/ CallSend(TRUE) \/ CallSend(FALSE) \/ CallPost
RcEncoder == EncoderReturns(TRUE) \/ EncoderFlushes

RaspicamNext ==
    \/ RcWorker \/ RcCallback \/ RcEncoder \/ RcStopAll \/ RcCancelled
    \/ \E i \in 1..Len(Setup) : SetupFails(i)
    \/ SendBuffer(FALSE) \/ StartCapture(FALSE) \/ EncoderReturns(FALSE)

RaspicamSpec == RaspicamInit /\ [][RaspicamNext]_raspicamVars

-----------------------------------------------------------------------------
(* Properties *)

RaspicamTypeOK ==
    /\ rcHave \subseteq Leaves \union {"semaphore"} /\ rcEnabled \in BOOLEAN /\ rcPool \in 0..RcBuffers
    /\ rcPort \in 0..(RcBuffers + 1) /\ rcLeft \in 0..RcBuffers /\ rcNull \in BOOLEAN /\ rcTaking \in BOOLEAN
    /\ rcChunks \in 0..(RcMaxChunks - 1) /\ rcSem \in 0..1 /\ rcStray \in BOOLEAN /\ rcFaults \in 0..RcMaxFaults

\* The worker takes as many buffers as the queue held when it asked, and the callback takes buffers from
\* the same queue: the queue always has one for the worker, which would otherwise send a NULL buffer,
\* because the callback wakes the worker only when it is through with the queue.
NeverEmptyHanded == ~rcNull

\* When the worker destroys the pool, its headers are not with the encoder and no callback holds one;
\* and the port is only ever enabled while pool, encoder and connection exist.
PoolOutlivesUse ==
    /\ "pool" \notin rcHave => rcPort = 0 /\ rcCall = <<>>
    /\ rcEnabled => {"pool", "encoder", "camera", "encoderLink"} \subseteq rcHave
    /\ "previewLink" \in rcHave => {"preview", "camera"} \subseteq rcHave
    /\ "encoderLink" \in rcHave => {"encoder", "camera"} \subseteq rcHave

\* In stills mode the semaphore is never posted after the worker deleted it: the worker has waited for
\* each picture it asked for.  (In video mode nobody waits, and a picture may end after the deletion; and
\* a cancelled worker waits for nothing.)
PostedAlive == rcStills /\ rcAt # <<"cancelled">> => ~rcStray

\* A worker that waits for a picture gets it, although the picture may take more buffers than there are.
CaptureCompletes == rcAt = <<"wait">> ~> rcAt # <<"wait">>

\* When the program stops, the worker takes everything down, unless it is cancelled before.
WorkerEnds == rcStop ~> rcAt \in {<<"end">>, <<"exit">>, <<"cancelled">>}

\* What the callback of input_raspicam and its worker share, the queue, the pool and the semaphore, is there when either
\* uses it.
CallbackSafe == NeverEmptyHanded /\ PoolOutlivesUse /\ PostedAlive
=============================================================================
