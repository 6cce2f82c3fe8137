------------------------------ MODULE Streamer ------------------------------
(* The whole process: main() and signal_handler() of mjpg_streamer.c, one input   *)
(* plugin and its output plugins, from loading to exit.  The plugins share        *)
(* in[0]: the picture buffer, its mutex db and its condition variable db_update.  *)
(* A set-up names the kind of the input and of each output; the actions that only *)
(* one plugin has carry its name.  An HTTP output stands for its server thread    *)
(* and one client thread, which streams or takes one snapshot.                    *)
(*                                                                                *)
(* What a picture contains is left to FrameBuffer.  Here the question is who      *)
(* holds, frees, destroys and unloads what others still use.  The first use of    *)
(* something that is gone is recorded in `fault` and ends the behaviour.          *)
EXTENDS Naturals, Sequences

CONSTANTS Setups,       \* the set-ups to start from: [input, outputs]
          MaxOutputs,   \* the most outputs one of them has
          Retries       \* ptp2: restarts of the camera before it gives up (3)

None == "none"
In == 0                 \* the input thread; the outputs are 1, 2, ...

(* What the threads of the plugins do differently.  Of an input: whether          *)
(* input_run() allocates in->buf, whether there is a context, whether a round may *)
(* end without a picture (skips) or end the thread (fails), whether its clean-up  *)
(* frees in->buf, and where it blocks, and so can be cancelled.  Steps that only  *)
(* one plugin has are actions below.                                              *)
TestPictureInput == [allocates |-> TRUE, context |-> FALSE, skips |-> FALSE, fails |-> FALSE,
                     frees |-> TRUE, blocks |-> {"loop"}]
FileInput == [allocates |-> FALSE, context |-> FALSE, skips |-> TRUE, fails |-> TRUE,
              frees |-> TRUE, blocks |-> {"loop", "grab", "fill"}]
HttpInput == [allocates |-> TRUE, context |-> FALSE, skips |-> TRUE, fails |-> FALSE,
              frees |-> TRUE, blocks |-> {"loop", "grab"}]
OpenCvInput == [allocates |-> FALSE, context |-> TRUE, skips |-> FALSE, fails |-> TRUE,
                frees |-> TRUE, blocks |-> {"grab"}]
MvsInput == [allocates |-> FALSE, context |-> TRUE, skips |-> FALSE, fails |-> FALSE,
             frees |-> TRUE, blocks |-> {"grab"}]
Ptp2Input == [allocates |-> FALSE, context |-> FALSE, skips |-> FALSE, fails |-> FALSE,
              frees |-> TRUE, blocks |-> {"loop", "preview", "restart"}]
RaspicamInput == [allocates |-> TRUE, context |-> FALSE, skips |-> FALSE, fails |-> FALSE,
                  frees |-> TRUE, blocks |-> {}]
LibcameraInput == [allocates |-> TRUE, context |-> TRUE, skips |-> TRUE, fails |-> FALSE,
                   frees |-> FALSE, blocks |-> {}]
InputPlugin == [testpicture |-> TestPictureInput, file |-> FileInput, http |-> HttpInput,
                opencv |-> OpenCvInput, mvs |-> MvsInput, ptp2 |-> Ptp2Input,
                raspicam |-> RaspicamInput, libcamera |-> LibcameraInput]
InputKinds == DOMAIN InputPlugin

(* Of an output: whether it waits for a datagram before every picture, whether    *)
(* its copy grows, whether it returns when the picture cannot be written, and     *)
(* whether it can be cancelled while it writes.  Clients of the HTTP output loop  *)
(* (stream) or not (snapshot), and are never cancelled.                           *)
UdpOutput == [datagram |-> TRUE, grows |-> TRUE, fails |-> TRUE, blocks |-> TRUE]
RtspOutput == [datagram |-> TRUE, grows |-> TRUE, fails |-> TRUE, blocks |-> TRUE]
ViewerOutput == [datagram |-> FALSE, grows |-> FALSE, fails |-> FALSE, blocks |-> FALSE]
AutofocusOutput == [datagram |-> FALSE, grows |-> FALSE, fails |-> FALSE, blocks |-> TRUE]
ZmqOutput == [datagram |-> FALSE, grows |-> TRUE, fails |-> TRUE, blocks |-> TRUE]
HttpStream == [datagram |-> FALSE, grows |-> TRUE, fails |-> TRUE, blocks |-> FALSE]
HttpSnapshot == [datagram |-> FALSE, grows |-> TRUE, fails |-> TRUE, blocks |-> FALSE]
OutputPlugin == [udp |-> UdpOutput, rtsp |-> RtspOutput, viewer |-> ViewerOutput,
                 autofocus |-> AutofocusOutput, zmq |-> ZmqOutput,
                 http_stream |-> HttpStream, http_snapshot |-> HttpSnapshot]
OutputKinds == DOMAIN OutputPlugin
Clients == {"http_stream", "http_snapshot"}

(* a set-up names known plugins, and at least one output, as main() sees to       *)
ASSUME SetupsAssumption ==
    /\ \A s \in Setups : /\ s \in [input : InputKinds, outputs : Seq(OutputKinds)]
                         /\ Len(s.outputs) \in 1..MaxOutputs
    /\ MaxOutputs \in Nat /\ Retries \in Nat

VARIABLES
    setup,      \* the plugins named on the command line
    main,       \* where the main thread is, in main() or in signal_handler()
    n,          \* the output it works on
    inLoaded,   \* the entry points of the input have been looked up
    outLoaded,  \* how many outputs have been loaded
    stop,       \* global.stop
    db,         \* in[0].db: {} or the thread that has locked it
    destroyed,  \* db has been destroyed
    buf,        \* in[0].buf: "null", "own" (allocated) or "freed"
    context,    \* in[0].context is there (opencv, mvs, libcamera)
    inPc, inCancel,
    control,    \* ptp2: the capture thread holds control_mutex
    tries,      \* ptp2: empty previews in a row
    mid,        \* raspicam: in the middle of a picture; libcamera: is_switch
    snapshot,   \* in[0].snapshot
    outPc, outCancel,
    fault       \* what was used although it was gone
mainVars == <<main, n, inLoaded, outLoaded, stop>>
inVars == <<inPc, inCancel, context, control, tries, mid>>
outVars == <<outPc, outCancel>>
shared == <<db, destroyed, buf, snapshot>>
vars == <<setup, mainVars, inVars, outVars, shared, fault>>

input == setup.input
plugin == InputPlugin[input]
outcnt == Len(setup.outputs)
Outputs == 1..outcnt
kind(o) == setup.outputs[o]
output(o) == OutputPlugin[kind(o)]
Before == {"load_in", "load_out", "run_in", "run_out", "pause"}

Init ==
    /\ setup \in Setups
    /\ main = "load_in" /\ n = 1 /\ inLoaded = FALSE /\ outLoaded = 0 /\ stop = FALSE
    /\ db = {} /\ destroyed = FALSE /\ buf = "null" /\ snapshot = FALSE
    /\ inPc = "off" /\ inCancel = FALSE /\ context = FALSE
    /\ control = FALSE /\ tries = 0 /\ mid = FALSE
    /\ outPc = [o \in Outputs |-> "off"] /\ outCancel = [o \in Outputs |-> FALSE]
    /\ fault = None

-----------------------------------------------------------------------------
(* Locks as the C library implements them: locking a destroyed mutex fails, and  *)
(* the plugins do not look at the result; unlocking does not ask who the owner is *)
Lock(t) == IF destroyed THEN db' = db ELSE db = {} /\ db' = {t}
Unlock == db' = {}
Broadcast == outPc' = [o \in Outputs |-> IF outPc[o] = "wait" THEN "woken" ELSE outPc[o]]
Waiting == {o \in Outputs : outPc[o] = "wait"}

(* memory that an output is copying from may be read after it was freed          *)
Reading == \E o \in Outputs : outPc[o] = "copy"
Freed(what) == fault' \in (IF Reading THEN {None, what} ELSE {None})

(* ---------------------------------- main() ---------------------------------- *)
(* dlopen, dlsym and input_init(); any of them may end the program               *)
LoadInput ==
    /\ main = "load_in"
    /\ \/ /\ main' = "load_out" /\ inLoaded' = TRUE
          /\ context' = plugin.context
       \/ main' = "failed" /\ UNCHANGED <<inLoaded, context>>
    /\ UNCHANGED <<setup, n, outLoaded, stop, inPc, inCancel, control, tries, mid,
                   outVars, shared, fault>>

LoadOutput ==
    /\ main = "load_out"
    /\ \/ /\ outLoaded' = n
          /\ IF n = outcnt THEN main' = "run_in" /\ n' = 1
                           ELSE main' = main /\ n' = n + 1
       \/ main' = "failed" /\ UNCHANGED <<outLoaded, n>>
    /\ UNCHANGED <<setup, inLoaded, stop, inVars, outVars, shared, fault>>

(* input_run(): memory, then the thread; ptp2 without a camera returns 0 without *)
(* having started one                                                            *)
RunInput ==
    /\ main = "run_in"
    /\ \/ /\ main' = "run_out"
          /\ inPc' = IF input \in {"file", "ptp2"} THEN "start" ELSE "loop"
          /\ buf' = IF plugin.allocates THEN "own" ELSE buf
       \/ main' = "run_out" /\ input = "ptp2" /\ UNCHANGED <<inPc, buf>>
       \/ main' = "failed" /\ UNCHANGED <<inPc, buf>>
    /\ UNCHANGED <<setup, n, inLoaded, outLoaded, stop, inCancel, context, control, tries,
                   mid, outVars, db, destroyed, snapshot, fault>>

(* output_run(); the result is not looked at                                     *)
RunOutput ==
    /\ main = "run_out"
    /\ outPc' = [outPc EXCEPT ![n] = IF kind(n) \in Clients THEN "idle"
                                      ELSE IF output(n).datagram THEN "start" ELSE "loop"]
    /\ IF n = outcnt THEN main' = "pause" /\ n' = 1 ELSE main' = main /\ n' = n + 1
    /\ UNCHANGED <<setup, inLoaded, outLoaded, stop, inVars, outCancel, shared, fault>>

(* ----------------------------- signal_handler() ----------------------------- *)
(* SIGINT is handled from before the plugins are loaded; main() never continues   *)
SigInt ==
    /\ main \in Before
    /\ stop' = TRUE /\ main' = "stop_in" /\ n' = 1
    /\ UNCHANGED <<setup, inLoaded, outLoaded, inVars, outVars, shared, fault>>

(* input_stop(); libcamera frees what its thread uses before it cancels it, and   *)
(* looks into the context before it asks whether there is one                     *)
StopInput ==
    /\ main = "stop_in"
    /\ main' = "stop_out"
    /\ \/ ~inLoaded /\ fault' = "function" /\ UNCHANGED <<inCancel, buf>>
       \/ /\ inLoaded /\ input = "libcamera" /\ ~context
          /\ fault' = "context" /\ UNCHANGED <<inCancel, buf>>
       \/ /\ inLoaded /\ input \in {"opencv", "mvs"} /\ ~context
          /\ UNCHANGED <<inCancel, buf, fault>>
       \/ /\ inLoaded /\ (plugin.context => context)
          /\ inPc = "off" /\ fault' = "thread" /\ UNCHANGED <<inCancel, buf>>
       \/ /\ inLoaded /\ (plugin.context => context)
          /\ inPc # "off" /\ inCancel' = TRUE
          /\ IF input = "libcamera" THEN buf' = "null" /\ Freed("buffer")
                                    ELSE UNCHANGED <<buf, fault>>
    /\ UNCHANGED <<setup, n, inLoaded, outLoaded, stop, inPc, context, control, tries,
                   mid, outVars, db, destroyed, snapshot>>

\* Mutant: the worker is not cancelled.
StopOutputOnly ==
    /\ main = "stop_out"
    /\ main' = "destroy"
    /\ fault' = IF outLoaded < n THEN "function" ELSE fault
    /\ UNCHANGED <<setup, n, inLoaded, outLoaded, stop, inVars, outVars, shared>>

(* output_stop() of output n: for HTTP it only ends the server thread             *)
StopOutput ==
    /\ main = "stop_out"
    /\ main' = "destroy"
    /\ outCancel' = [outCancel EXCEPT ![n] = TRUE]
    /\ fault' = IF outLoaded < n THEN "function"
                ELSE IF outPc[n] = "off" THEN "thread" ELSE fault
    /\ UNCHANGED <<setup, n, inLoaded, outLoaded, stop, inVars, outPc, shared>>

(* pthread_cond_destroy(&in[n].db_update) returns only when nobody waits, then    *)
(* pthread_mutex_destroy() fails while the mutex is locked.  n counts outputs,    *)
(* and only the first of them is also an input.                                   *)
Destroy ==
    /\ main = "destroy"
    /\ n = 1 => Waiting = {}
    /\ destroyed' = (destroyed \/ (n = 1 /\ db = {}))
    /\ IF n = outcnt THEN main' = "close_in" /\ n' = 1
                     ELSE main' = "stop_out" /\ n' = n + 1
    /\ UNCHANGED <<setup, inLoaded, outLoaded, stop, inVars, outVars, db, buf, snapshot, fault>>

CloseInput ==
    /\ main = "close_in" /\ main' = "close_out"
    /\ UNCHANGED <<setup, n, inLoaded, outLoaded, stop, inVars, outVars, shared, fault>>

CloseOutputs ==
    /\ main = "close_out" /\ main' = "closed"
    /\ UNCHANGED <<setup, n, inLoaded, outLoaded, stop, inVars, outVars, shared, fault>>

Exit ==
    /\ main = "closed" /\ main' = "exited"
    /\ UNCHANGED <<setup, n, inLoaded, outLoaded, stop, inVars, outVars, shared, fault>>

-----------------------------------------------------------------------------
(* ------------------------------ the input thread ---------------------------- *)
inLib == main \notin {"close_out", "closed", "exited", "failed"}
InStep(from, to) == inLib /\ inPc = from /\ inPc' = to
inRest == <<setup, mainVars, outCancel, inCancel, destroyed>>

(* file: scandir(); ptp2: malloc(); both may fail before a clean-up is registered *)
InBegin ==
    /\ inLib /\ inPc = "start"
    /\ \/ inPc' = "loop" /\ buf' = IF input = "ptp2" THEN "own" ELSE buf
       \/ inPc' = "done" /\ UNCHANGED buf
    /\ UNCHANGED <<inRest, outPc, context, control, tries, mid, db, snapshot, fault>>

(* the head of the loop; raspicam's thread does nothing else than to wait for it  *)
InTest ==
    /\ inLib /\ inPc = "loop"
    /\ input = "raspicam" => stop
    /\ inPc' = IF stop THEN "leave" ELSE IF input = "libcamera" THEN "switch" ELSE "grab"
    /\ UNCHANGED <<inRest, outPc, context, control, tries, mid, shared, fault>>

\* Mutant: the old buffer is freed before db is locked.
InGrabFrees ==
    /\ InStep("grab", "lock") /\ input # "ptp2"
    /\ IF buf = "own" THEN buf' = "freed" /\ Freed("buffer") ELSE UNCHANGED <<buf, fault>>
    /\ UNCHANGED <<inRest, outPc, context, control, tries, mid, db, snapshot>>

(* a new picture has arrived                                                      *)
InGrab ==
    /\ InStep("grab", "lock") /\ input # "ptp2"
    /\ UNCHANGED <<inRest, outPc, context, control, tries, mid, shared, fault>>

(* nothing usable: a lost connection (http), an event for another file (file),    *)
(* readFrame() without a frame (libcamera)                                        *)
InSkip ==
    /\ InStep("grab", "loop") /\ plugin.skips
    /\ UNCHANGED <<inRest, outPc, context, control, tries, mid, shared, fault>>

(* the loop is left: inotify, open() or fstat() failed (file), or capture.read()  *)
InFail ==
    /\ InStep("grab", "leave") /\ plugin.fails
    /\ UNCHANGED <<inRest, outPc, context, control, tries, mid, shared, fault>>

(* ptp2: the preview is taken with control_mutex; an error leaves it locked       *)
Ptp2Control ==
    /\ InStep("grab", "preview") /\ input = "ptp2" /\ ~control
    /\ control' = TRUE
    /\ UNCHANGED <<inRest, outPc, context, tries, mid, shared, fault>>

Ptp2Preview ==
    /\ inLib /\ inPc = "preview"
    /\ inPc' \in {"lock", "done"}
    /\ UNCHANGED <<inRest, outPc, context, control, tries, mid, shared, fault>>

(* libcamera: switch_resolution() reallocates in->buf without db; resetCamera()   *)
(* or realloc() may fail, which ends the program; videoIn may be gone since       *)
(* input_stop()                                                                   *)
SwitchResolution ==
    \/ inCancel /\ fault' = "context" /\ UNCHANGED main
    \/ ~inCancel /\ main' = main /\ Freed("buffer")
    \/ ~inCancel /\ main' = "failed" /\ UNCHANGED fault

(* libcamera: a snapshot was asked for, in another resolution or in the same      *)
LibSwitch ==
    /\ InStep("switch", "grab")
    /\ snapshot' = FALSE
    /\ \/ snapshot /\ SwitchResolution /\ mid' = TRUE
       \/ UNCHANGED <<mid, main, fault>>
    /\ UNCHANGED <<setup, n, inLoaded, outLoaded, stop, inCancel, context, control, tries,
                   outVars, db, destroyed, buf>>

(* libcamera: back to the resolution of the stream, after the snapshot            *)
LibSwitchBack ==
    /\ InStep("back", "loop") /\ SwitchResolution /\ mid' = FALSE
    /\ UNCHANGED <<setup, n, inLoaded, outLoaded, stop, inCancel, context, control, tries,
                   outVars, shared>>

InLock ==
    /\ InStep("lock", "fill") /\ Lock(In)
    /\ UNCHANGED <<inRest, outPc, context, control, tries, mid, buf, snapshot, fault>>

(* the picture is written to in->buf, which may be new memory (file) or belong to *)
(* the thread (opencv, mvs); libcamera's videoIn may be gone since input_stop()   *)
InFill ==
    /\ InStep("fill", "publish") /\ input # "ptp2"
    /\ IF input = "libcamera" /\ inCancel THEN fault' = "context" /\ UNCHANGED buf
                                          ELSE buf' = "own" /\ UNCHANGED fault
    /\ UNCHANGED <<inRest, outPc, context, control, tries, mid, db, snapshot>>

(* file: malloc() failed; the loop is left with db locked                         *)
FileNoMemory ==
    /\ InStep("fill", "leave") /\ input = "file"
    /\ buf' = "null"
    /\ UNCHANGED <<inRest, outPc, context, control, tries, mid, db, snapshot, fault>>

(* file: read() failed                                                            *)
FileReadFails ==
    /\ InStep("fill", "leave") /\ input = "file"
    /\ buf' = "null" /\ Unlock
    /\ UNCHANGED <<inRest, outPc, context, control, tries, mid, snapshot, fault>>

(* ptp2: an empty preview restarts the camera, with both locks held; after too    *)
(* many the thread returns as it is                                               *)
Ptp2Empty ==
    /\ inLib /\ inPc = "fill" /\ input = "ptp2"
    /\ IF tries > Retries THEN inPc' = "done" /\ UNCHANGED tries
                          ELSE inPc' = "restart" /\ tries' = tries + 1
    /\ UNCHANGED <<inRest, outPc, context, control, mid, shared, fault>>

(* ptp2: the copy, with the buffer grown; failures return with both locks held,   *)
(* or, once control_mutex is unlocked, with db                                    *)
Ptp2Fill ==
    /\ inLib /\ inPc \in {"fill", "restart"} /\ input = "ptp2"
    /\ tries' = IF inPc = "fill" THEN 0 ELSE tries
    /\ \/ inPc' = "done" /\ UNCHANGED control
       \/ inPc' \in {"publish", "done"} /\ control' = FALSE
    /\ UNCHANGED <<inRest, outPc, context, mid, shared, fault>>

InPublish ==
    /\ InStep("publish", IF input = "libcamera" /\ mid THEN "back" ELSE "loop")
    /\ Broadcast /\ Unlock
    /\ UNCHANGED <<inRest, context, control, tries, mid, buf, snapshot, fault>>

(* raspicam's encoder callback: db is locked with the first bytes of a picture    *)
(* and kept from one callback to the next                                         *)
RaspiData ==
    /\ inLib /\ inPc = "loop" /\ input = "raspicam" /\ ~mid
    /\ Lock(In) /\ mid' = TRUE
    /\ UNCHANGED <<inRest, inPc, outPc, context, control, tries, buf, snapshot, fault>>

(* the last buffer of a picture; when it is the only one and empty nobody has     *)
(* locked db                                                                      *)
RaspiEnd ==
    /\ inLib /\ inPc = "loop" /\ input = "raspicam"
    /\ mid' = FALSE /\ Broadcast /\ Unlock
    /\ UNCHANGED <<inRest, inPc, context, control, tries, buf, snapshot, fault>>

(* worker_cleanup(): db is not taken, and in->buf keeps its value; libcamera      *)
(* leaves the buffer to input_stop()                                              *)
Cleanup ==
    /\ inPc' = "done"
    /\ context' = FALSE
    /\ IF buf = "own" /\ plugin.frees THEN buf' = "freed" /\ Freed("buffer")
                                    ELSE UNCHANGED <<buf, fault>>

(* the end of the thread; file frees a list that only one of its modes has read   *)
InLeave ==
    /\ inLib /\ inPc = "leave"
    /\ \/ Cleanup
       \/ input = "file" /\ inPc' = "done" /\ fault' = "list" /\ UNCHANGED <<context, buf>>
    /\ UNCHANGED <<inRest, outPc, control, tries, mid, db, snapshot>>

(* a cancelled thread ends where it blocks, with the locks it has there;          *)
(* raspicam cannot be cancelled                                                   *)
InCancelled ==
    /\ inLib /\ inCancel /\ inPc \in plugin.blocks
    /\ Cleanup
    /\ UNCHANGED <<inRest, outPc, control, tries, mid, db, snapshot>>

(* the thread goes on after its code has been unmapped                            *)
InUnloaded ==
    /\ main \in {"close_out", "closed"}
    /\ inPc \notin {"off", "done"} /\ (inPc = "lock" => db = {})
    /\ fault' = "unloaded"
    /\ UNCHANGED <<setup, mainVars, inVars, outVars, shared>>

(* ---------------------------- the output threads ---------------------------- *)
(* the code of output o is unmapped, unless two outputs share it: it was opened   *)
(* twice and is closed once                                                       *)
OutClosed(o) == main = "closed" /\ \A p \in Outputs \ {o} : kind(p) # kind(o)
outLib(o) == main \notin {"exited", "failed"} /\ ~OutClosed(o)
OutStep(o, from, to) == outLib(o) /\ outPc[o] = from /\ outPc' = [outPc EXCEPT ![o] = to]
outRest == <<setup, mainVars, inVars, outCancel, destroyed, buf>>
Ended == {"off", "idle", "done"}

(* the server thread accepts a connection and starts a client thread; a snapshot  *)
(* does not look at stop                                                          *)
Accept(o) ==
    /\ kind(o) \in Clients /\ ~outCancel[o]
    /\ OutStep(o, "idle", IF kind(o) = "http_snapshot" THEN "lock" ELSE "loop")
    /\ snapshot' = (snapshot \/ kind(o) = "http_snapshot")
    /\ UNCHANGED <<outRest, db, fault>>

(* the head of the loop; the end runs worker_cleanup()                            *)
OutTest(o) ==
    /\ OutStep(o, "loop", IF stop THEN (IF kind(o) \in Clients THEN "idle" ELSE "done")
                          ELSE IF output(o).datagram THEN "recv" ELSE "lock")
    /\ UNCHANGED <<outRest, db, snapshot, fault>>

(* udp, rtsp: without a port the thread returns                                   *)
OutBegin(o) ==
    /\ OutStep(o, "start", "loop") \/ OutStep(o, "start", "done")
    /\ UNCHANGED <<outRest, db, snapshot, fault>>

(* udp, rtsp: a datagram asks for the next picture                                *)
Recv(o) ==
    /\ OutStep(o, "recv", "lock")
    /\ UNCHANGED <<outRest, db, snapshot, fault>>

(* pthread_mutex_lock(), then pthread_cond_wait() gives db back; it returns at    *)
(* once when db has been destroyed                                                *)
OutWait(o) ==
    /\ destroyed \/ db = {}
    /\ OutStep(o, "lock", IF destroyed THEN "woken" ELSE "wait")
    /\ UNCHANGED <<outRest, db, snapshot, fault>>

(* pthread_cond_wait() may return without a broadcast                             *)
Spurious(o) ==
    /\ OutStep(o, "wait", "woken")
    /\ UNCHANGED <<outRest, db, snapshot, fault>>

\* Mutant: the wait returns without db.
OutRelockSkipped(o) ==
    /\ OutStep(o, "woken", "copy")
    /\ UNCHANGED <<outRest, db, snapshot, fault>>

OutRelock(o) ==
    /\ OutStep(o, "woken", "copy") /\ Lock(o)
    /\ UNCHANGED <<outRest, snapshot, fault>>

(* the picture is copied and db unlocked; in->buf may have been freed already     *)
OutCopy(o) ==
    /\ OutStep(o, "copy", "send") /\ Unlock
    /\ fault' = IF buf = "freed" THEN "buffer" ELSE fault
    /\ UNCHANGED <<outRest, snapshot>>

(* there is no memory for a larger copy: db is unlocked, and the thread returns   *)
(* without its clean-up; viewer and autofocus never allocate again                *)
OutNoMemory(o) ==
    /\ output(o).grows
    /\ OutStep(o, "copy", IF kind(o) \in Clients THEN "idle" ELSE "done")
    /\ Unlock
    /\ UNCHANGED <<outRest, snapshot, fault>>

(* what is done with the copy, and back to the head of the loop                   *)
OutSend(o) ==
    /\ OutStep(o, "send", IF kind(o) = "http_snapshot" THEN "idle" ELSE "loop")
    /\ UNCHANGED <<outRest, db, snapshot, fault>>

(* the file cannot be written, or the connection is gone: the thread returns      *)
OutSendFails(o) ==
    /\ output(o).fails
    /\ OutStep(o, "send", IF kind(o) \in Clients THEN "idle" ELSE "done")
    /\ UNCHANGED <<outRest, db, snapshot, fault>>

(* a cancelled worker ends where it blocks; from pthread_cond_wait() only after   *)
(* it has locked db again, which nobody unlocks                                   *)
OutCancelled(o) ==
    /\ outCancel[o] /\ kind(o) \notin Clients
    /\ \/ OutStep(o, "recv", "done")
       \/ output(o).blocks /\ OutStep(o, "send", "done")
       \/ OutStep(o, "wait", "relock")
    /\ UNCHANGED <<outRest, db, snapshot, fault>>

OutDies(o) ==
    /\ OutStep(o, "relock", "done") /\ Lock(o)
    /\ UNCHANGED <<outRest, snapshot, fault>>

(* a thread goes on after its code has been unmapped                              *)
OutUnloaded(o) ==
    /\ OutClosed(o)
    /\ outPc[o] \notin Ended \cup {"wait"}
    /\ outPc[o] \in {"lock", "woken", "relock"} => destroyed \/ db = {}
    /\ fault' = "unloaded"
    /\ UNCHANGED <<setup, mainVars, inVars, outVars, shared>>

-----------------------------------------------------------------------------
Handler == StopInput \/ StopOutput \/ Destroy \/ CloseInput \/ CloseOutputs \/ Exit
Main == LoadInput \/ LoadOutput \/ RunInput \/ RunOutput \/ SigInt \/ Handler
InputThread ==
    \/ InBegin \/ InTest \/ InGrab \/ InSkip \/ InFail
    \/ Ptp2Control \/ Ptp2Preview \/ LibSwitch \/ LibSwitchBack
    \/ InLock \/ InFill \/ FileNoMemory \/ FileReadFails \/ Ptp2Empty \/ Ptp2Fill
    \/ InPublish \/ RaspiData \/ RaspiEnd \/ InLeave \/ InCancelled \/ InUnloaded
OutputThread(o) ==
    \/ OutTest(o) \/ OutBegin(o) \/ OutWait(o) \/ OutRelock(o) \/ OutCopy(o)
    \/ OutNoMemory(o) \/ OutSend(o) \/ OutSendFails(o) \/ OutCancelled(o) \/ OutDies(o)
    \/ OutUnloaded(o)
Next ==
    /\ fault = None
    /\ \/ Main
       \/ InputThread
       \/ \E o \in Outputs : OutputThread(o) \/ Accept(o) \/ Recv(o) \/ Spurious(o)

Spec == Init /\ [][Next]_vars

(* The handler runs on, and so does every thread that is not blocked; a thread    *)
(* that asks for db again and again gets it (SF).  Cameras, peers, connections    *)
(* and SIGINT owe nothing, writing to a peer may take for ever, and input_http    *)
(* does not look at stop while it cannot connect.                                 *)
InRuns == /\ inPc \notin {"grab", "preview"} /\ (input = "http" => inPc # "loop")
          /\ InputThread
OutRuns(o) == \/ OutBegin(o) \/ OutTest(o) \/ OutCopy(o) \/ OutNoMemory(o)
              \/ OutCancelled(o) \/ OutUnloaded(o) \/ (kind(o) = "viewer" /\ OutSend(o))
OutLocks(o) == OutWait(o) \/ OutRelock(o) \/ OutDies(o)
FairSpec ==
    /\ Spec
    /\ WF_vars(fault = None /\ Handler)
    /\ WF_vars(fault = None /\ InRuns)
    /\ SF_vars(fault = None /\ InLock)
    /\ \A o \in 1..MaxOutputs :
          /\ WF_vars(fault = None /\ o \in Outputs /\ OutRuns(o))
          /\ SF_vars(fault = None /\ o \in Outputs /\ OutLocks(o))

-----------------------------------------------------------------------------
TypeOK ==
    /\ setup \in Setups
    /\ main \in Before \cup {"stop_in", "stop_out", "destroy", "close_in", "close_out",
                            "closed", "exited", "failed"}
    /\ n \in Outputs /\ outLoaded \in 0..outcnt
    /\ {inLoaded, stop, destroyed, snapshot, inCancel, context, control, mid} \subseteq BOOLEAN
    /\ db = {} \/ \E t \in {In} \cup Outputs : db = {t}
    /\ buf \in {"null", "own", "freed"} /\ tries \in 0..Retries + 1
    /\ inPc \in {"off", "start", "loop", "switch", "grab", "preview", "lock", "fill",
                "restart", "publish", "back", "leave", "done"}
    /\ outPc \in [Outputs -> Ended \cup {"start", "loop", "recv", "lock", "wait", "woken",
                                         "copy", "send", "relock"}]
    /\ outCancel \in [Outputs -> BOOLEAN]
    /\ fault \in {None, "function", "context", "thread", "buffer", "list", "unloaded"}

(* a thread that has ended and took db with it                                    *)
InputDiedLocked == db = {In} /\ inPc = "done"
OutputDiedLocked == \E o \in Outputs : db = {o} /\ outPc[o] \in Ended

(* Every early return of every output unlocks db, and so do those of the inputs,  *)
(* but for two: input_file without memory and input_ptp2 after an error.  Only    *)
(* the cancellations of a shutdown may leave db locked besides.                   *)
LockGivenBack ==
    ~stop => ~OutputDiedLocked /\ (InputDiedLocked => input \in {"file", "ptp2"})

(* The buffer is written and read by one thread at a time until db is destroyed,  *)
(* except with raspicam, whose callback unlocks db for an empty picture without   *)
(* having locked it.                                                              *)
Inside == {o \in Outputs : outPc[o] = "copy"}
            \cup (IF inPc \in {"fill", "restart", "publish"} THEN {In} ELSE {})
Exclusive == destroyed \/ input = "raspicam" \/ \A t, u \in Inside : t = u

(* Until SIGINT nothing is used after it is gone, unless the input has ended by   *)
(* itself, after which a client that wakes up reads the freed buffer, or switches *)
(* its resolution for a snapshot (libcamera).                                     *)
SafeWhileRunning ==
    ~stop /\ fault # None => inPc = "done" \/ (input = "libcamera" /\ fault = "buffer")

(* After SIGINT the process exits, or runs into something that is gone, or hangs  *)
(* in pthread_cond_destroy() because of a thread that waits and that the handler  *)
(* has not cancelled: the worker of an output it has not come to, or a client of  *)
(* the HTTP server, which it never cancels.                                       *)
NotCancelled(o) == kind(o) \in Clients \/ o > n
ShutdownEnds ==
    stop ~> \/ main \in {"exited", "failed"} \/ fault # None
            \/ main = "destroy" /\ \E o \in Waiting : NotCancelled(o)

(* A worker that is cancelled ends, unless it needs db and another thread has died *)
(* with it: a worker cancelled in pthread_cond_wait() locks db again, runs its     *)
(* clean-up and never unlocks it.                                                  *)
Cancelled(o) == o \in Outputs /\ outCancel[o] /\ kind(o) \notin Clients
EndedOrStuck(o) ==
    \/ main \in {"exited", "failed"} \/ fault # None
    \/ o \in Outputs /\ outPc[o] = "done"
    \/ /\ o \in Outputs /\ outPc[o] \in {"lock", "woken", "relock"}
       /\ InputDiedLocked \/ OutputDiedLocked
CancelledEnds == \A o \in 1..MaxOutputs : Cancelled(o) ~> EndedOrStuck(o)

(* CTRL+C ends the process: unless something that is gone is used on the way, the *)
(* handler comes to exit(0).                                                      *)
SigIntExits == [](fault = None) => (stop ~> main = "exited")

\* db protects one plugin thread at a time, and no path gives it up but by unlocking it.
LockKept == LockGivenBack /\ Exclusive

\* A shutdown ends, and with it every cancelled thread of an output.
ShutdownCompletes == ShutdownEnds /\ CancelledEnds
=============================================================================
