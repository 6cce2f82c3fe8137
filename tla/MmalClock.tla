------------------------------ MODULE MmalClock ------------------------------
(***************************************************************************)
(* A media clock (mmal_clock.c).  Clients ask to be called back when the   *)
(* media time reaches a value; a worker thread sleeps on a semaphore that  *)
(* new requests, changes of the clock and a timer post.                    *)
(*                                                                         *)
(* Time is counted in units of MIN_TIMER_DELAY, so that a request is       *)
(* served when it is at most one unit away.  The media time is read and    *)
(* written by several threads without a lock; here each update is atomic.  *)
(***************************************************************************)
EXTENDS Integers, Sequences, SequencesExt, FiniteSets

CONSTANTS
    MaxTime,        \* media times are 0 .. MaxTime (bound)
    ReqSlots,       \* CLOCK_REQUEST_SLOTS
    DiscontThreshold, DiscontDuration, UpdateThreshold,
    MaxJumps,       \* mmal_clock_media_time_set() calls (bound)
    MaxScales       \* mmal_clock_scale_set() calls (bound)

ASSUME ClockAssumption == {MaxTime, ReqSlots, DiscontThreshold, DiscontDuration, UpdateThreshold, MaxJumps, MaxScales}
                          \subseteq Nat

VARIABLES
    mediaTime, scale, active,    \* private->media_time, scale (in ones), is_active
    pendingReqs,                 \* list_pending: the media times, in order
    freeSlots,                   \* length of list_free
    atTimer,                     \* media_time_at_timer; 0 when none
    discStart, discLeft,         \* the discontinuity in effect: its start, and the wall time left; -1: none
    clockEvent,                  \* the semaphore
    timer,                       \* wall time until the timer expires; -1: not set
    clockAt,                     \* worker thread: wait, process
    stopping,                    \* stop_thread
    clEarly,                       \* a request was served before its time
    turned,                      \* the scale changed its sign while requests were pending
    jumps, scales

clockVars == <<mediaTime, scale, active, pendingReqs, freeSlots, atTimer, discStart, discLeft, clockEvent, timer, clockAt,
               stopping, clEarly, turned, jumps, scales>>
discont == <<discStart, discLeft>>

ClockInit ==
    /\ mediaTime = 0 /\ scale = 1 /\ active = FALSE /\ pendingReqs = <<>> /\ freeSlots = ReqSlots /\ atTimer = 0
    /\ discStart = 0 /\ discLeft = -1 /\ clockEvent = 0 /\ timer = -1 /\ clockAt = "wait" /\ stopping = FALSE
    /\ clEarly = FALSE /\ turned = FALSE /\ jumps = 0 /\ scales = 0

\* The semaphore counts; more than one post has the effect of one, the worker looks at everything.
Wake == clockEvent' = 1

-----------------------------------------------------------------------------
(* Requests *)

\* The place of a request in a list sorted for the direction of time.
Before(a, b) == IF scale >= 0 THEN a < b ELSE a > b
\* Mutant: always at the back.
InsertedLast(s, r) == Append(s, r)

Inserted(s, r) == LET after == {i \in DOMAIN s : Before(r, s[i])}
                  IN IF after = {} THEN Append(s, r)
                     ELSE InsertAt(s, CHOOSE i \in after : \A j \in after : i <= j, r)

\* mmal_clock_request_add().  The slot is lost when the clock is being destroyed.
RequestAdd(r) ==
    /\ freeSlots > 0 /\ freeSlots' = freeSlots - 1
    /\ IF stopping THEN UNCHANGED <<pendingReqs, clockEvent>> ELSE pendingReqs' = Inserted(pendingReqs, r) /\ Wake
    /\ UNCHANGED <<mediaTime, scale, active, atTimer, discont, timer, clockAt, stopping, clEarly, turned, jumps, scales>>

\* mmal_clock_request_flush()
RequestFlush ==
    /\ pendingReqs # <<>> /\ pendingReqs' = <<>> /\ freeSlots' = freeSlots + Len(pendingReqs) /\ atTimer' = 0
    /\ UNCHANGED <<mediaTime, scale, active, discont, clockEvent, timer, clockAt, stopping, clEarly, turned, jumps, scales>>

-----------------------------------------------------------------------------
(* The clock is changed *)

ActiveSet(a) ==
    /\ active # a /\ active' = a /\ ~stopping
    /\ IF a THEN Wake ELSE UNCHANGED clockEvent
    /\ UNCHANGED <<mediaTime, scale, pendingReqs, freeSlots, atTimer, discont, timer, clockAt, stopping, clEarly, turned,
                   jumps, scales>>

\* mmal_clock_media_time_set(): a large difference resets the time; of smaller ones the average may
\* move it by one or be ignored.
MediaTimeSet(m) ==
    /\ jumps < MaxJumps /\ jumps' = jumps + 1 /\ m # mediaTime /\ ~stopping
    /\ IF m - mediaTime > UpdateThreshold \/ mediaTime - m > UpdateThreshold
       THEN mediaTime' = m /\ Wake
       ELSE \/ mediaTime' = (IF m > mediaTime THEN mediaTime + 1 ELSE mediaTime - 1) /\ Wake
            \/ UNCHANGED <<mediaTime, clockEvent>>
    /\ UNCHANGED <<scale, active, pendingReqs, freeSlots, atTimer, discont, timer, clockAt, stopping, clEarly, turned,
                   scales>>

\* mmal_clock_scale_set().  The pending requests keep their order.
ScaleSet(s) ==
    /\ scales < MaxScales /\ scales' = scales + 1 /\ s # scale /\ ~stopping
    /\ scale' = s /\ Wake
    /\ turned' = (turned \/ (pendingReqs # <<>> /\ (s < 0) # (scale < 0)))
    /\ UNCHANGED <<mediaTime, active, pendingReqs, freeSlots, atTimer, discont, timer, clockAt, stopping, clEarly, jumps>>

-----------------------------------------------------------------------------
(* Time, the timer and the worker thread *)

\* Wall time passes by one unit, and media time with it.  An expired timer posts the semaphore.
Tick ==
    /\ mediaTime' = IF active /\ mediaTime + scale \in 0 .. MaxTime THEN mediaTime + scale ELSE mediaTime
    /\ discLeft' = IF discLeft > 0 THEN discLeft - 1 ELSE -1
    /\ IF timer = 0 THEN timer' = -1 /\ Wake
       ELSE timer' = (IF timer > 0 THEN timer - 1 ELSE timer) /\ UNCHANGED clockEvent
    /\ UNCHANGED <<scale, active, pendingReqs, freeSlots, atTimer, discStart, clockAt, stopping, clEarly, turned, jumps,
                   scales>>

\* The worker wakes up and cancels the timer.
WorkerWakes ==
    /\ clockAt = "wait" /\ clockEvent = 1 /\ clockEvent' = 0 /\ timer' = -1
    /\ clockAt' = IF stopping THEN "ended" ELSE "process"
    /\ UNCHANGED <<mediaTime, scale, active, pendingReqs, freeSlots, atTimer, discont, stopping, clEarly, turned, jumps,
                   scales>>

Due(r, start, left) ==
    \/ left >= 0 /\ r >= start /\ r < start + DiscontDuration
    \/ scale > 0 /\ mediaTime + 1 >= r
    \/ scale < 0 /\ mediaTime - 1 <= r

\* mmal_clock_process_requests(): a jump back in time serves all requests and starts a
\* discontinuity; then the requests at the front are served as long as they are due, and the timer
\* is set for the next one.
Process ==
    LET jumped == atTimer # 0 /\ scale > 0 /\ mediaTime + DiscontThreshold < atTimer
        start  == IF jumped THEN atTimer ELSE discStart
        left   == IF jumped THEN DiscontDuration ELSE discLeft
        reqs   == IF jumped THEN <<>> ELSE pendingReqs
        served == CHOOSE n \in 0 .. Len(reqs) : /\ \A i \in 1 .. n : Due(reqs[i], start, left)
                                                /\ n < Len(reqs) => ~Due(reqs[n + 1], start, left)
        rest   == SubSeq(reqs, served + 1, Len(reqs))
        delay  == IF scale = 0 THEN MaxTime ELSE IF mediaTime > rest[1] THEN mediaTime - rest[1] ELSE rest[1] - mediaTime
    IN
    /\ clockAt = "process" /\ clockAt' = "wait"
    /\ IF pendingReqs = <<>> \/ ~active THEN UNCHANGED <<pendingReqs, freeSlots, atTimer, discont, timer, clEarly>>
       ELSE /\ pendingReqs' = rest /\ freeSlots' = freeSlots + Len(pendingReqs) - Len(rest)
            /\ discStart' = start /\ discLeft' = left
            /\ IF rest # <<>> THEN timer' = delay /\ atTimer' = mediaTime
               ELSE UNCHANGED timer /\ atTimer' = (IF jumped THEN 0 ELSE atTimer)
            /\ clEarly' = (clEarly \/ (left < 0 /\ scale > 0 /\ \E i \in 1 .. served : reqs[i] > mediaTime + 1))
    /\ UNCHANGED <<mediaTime, scale, active, clockEvent, stopping, turned, jumps, scales>>

\* mmal_clock_destroy(): the thread is told to stop ...
ClockStop ==
    /\ ~stopping /\ stopping' = TRUE /\ Wake
    /\ UNCHANGED <<mediaTime, scale, active, pendingReqs, freeSlots, atTimer, discont, timer, clockAt, clEarly, turned, jumps,
                   scales>>

\* ... and once it has ended, all requests are answered.
ClockDestroy ==
    /\ clockAt = "ended" /\ clockAt' = "gone"
    /\ pendingReqs' = <<>> /\ freeSlots' = freeSlots + Len(pendingReqs) /\ atTimer' = 0 /\ timer' = -1
    /\ UNCHANGED <<mediaTime, scale, active, discont, clockEvent, stopping, clEarly, turned, jumps, scales>>

-----------------------------------------------------------------------------

ClockNext ==
    /\ clockAt # "gone"
    /\ \/ \E r \in 1 .. MaxTime : RequestAdd(r)
       \/ RequestFlush
       \/ \E a \in BOOLEAN : ActiveSet(a)
       \/ \E m \in 0 .. MaxTime : MediaTimeSet(m)
       \/ \E s \in {-1, 0, 1} : ScaleSet(s)
       \/ Tick \/ WorkerWakes \/ Process \/ ClockStop \/ ClockDestroy

\* Time passes and the worker runs.
ClockFair ==
    WF_clockVars(clockAt # "gone" /\ Tick) /\ WF_clockVars(WorkerWakes) /\ WF_clockVars(Process)
    /\ WF_clockVars(ClockDestroy)

-----------------------------------------------------------------------------
(* Properties *)

ClockTypeOK ==
    /\ mediaTime \in 0 .. MaxTime /\ scale \in {-1, 0, 1} /\ active \in BOOLEAN /\ pendingReqs \in Seq(1 .. MaxTime)
    /\ freeSlots \in 0 .. ReqSlots /\ atTimer \in 0 .. MaxTime /\ discLeft \in -1 .. DiscontDuration
    /\ timer \in -1 .. MaxTime /\ clockAt \in {"wait", "process", "ended", "gone"}

\* Every slot is free or holds a pending request: none is lost, whichever way requests leave the
\* list, until the clock is being destroyed.
SlotsKept == ~stopping => freeSlots + Len(pendingReqs) = ReqSlots

\* "Earliest request is always at the front", unless time has turned round under pending requests.
EarliestFirst == turned \/ \A i \in 1 .. Len(pendingReqs) - 1 : ~Before(pendingReqs[i + 1], pendingReqs[i])

\* A request is not served before its time, except after a jump back.
NotEarly == ~clEarly

\* A pending request is eventually served while the clock runs forward: the worker is woken, or a
\* timer is set that wakes it, after every change of the clock.
Served ==
    \A r \in 1 .. MaxTime :
        (pendingReqs # <<>> /\ Head(pendingReqs) = r)
            ~> (pendingReqs = <<>> \/ Head(pendingReqs) # r \/ ~active \/ scale # 1 \/ turned)

-----------------------------------------------------------------------------
(***************************************************************************)
(* Two connected clock ports (mmal_port_clock.c).  The port of a reference *)
(* clock keeps a queue of empty buffers; each change of its scale or time  *)
(* is sent to the other port in the next of them, and the other port sets  *)
(* its own clock and returns the buffer, which comes back to the queue.    *)
(* A change for which there is no empty buffer is dropped.                 *)
(***************************************************************************)

CONSTANTS
    ClockBuffers,  \* buffers of the reference port
    Scales,        \* values a clock can have
    FirstScale     \* the scale of a new clock

ASSUME ClockPortAssumption == ClockBuffers \in Nat /\ FirstScale \in Scales

VARIABLES
    isReference,   \* module->is_reference
    cpActive,      \* the clock is active
    cpEnabled,     \* the ports are enabled
    refScale,      \* the scale of the reference clock
    emptyBufs,     \* buffers in module->queue
    updates,       \* buffers on their way to the other port, oldest first
    returning,     \* buffers on their way back
    otherScale,    \* the scale of the other clock
    unsent         \* the last change was not sent

clockPortVars == <<isReference, cpActive, cpEnabled, refScale, emptyBufs, updates, returning, otherScale, unsent>>

ClockPortInit ==
    /\ isReference = FALSE /\ cpActive = FALSE /\ cpEnabled = FALSE /\ refScale = FirstScale
    /\ emptyBufs = 0 /\ updates = <<>> /\ returning = ClockBuffers /\ otherScale = FirstScale /\ unsent = FALSE

\* mmal_port_clock_enable(): the core sends the buffers of the pool.
ClockPortEnable ==
    /\ ~cpEnabled /\ cpEnabled' = TRUE
    /\ UNCHANGED <<isReference, cpActive, refScale, emptyBufs, updates, returning, otherScale, unsent>>

\* mmal_port_clock_send() with an empty buffer.
QueueEmpty ==
    /\ cpEnabled /\ returning > 0 /\ returning' = returning - 1 /\ emptyBufs' = emptyBufs + 1
    /\ UNCHANGED <<isReference, cpActive, cpEnabled, refScale, updates, otherScale, unsent>>

\* mmal_port_clock_disable(): the clock stops, and mmal_port_clock_flush() gives the empty buffers
\* back; the buffers sent are waited for by the core.
ClockPortDisable ==
    /\ cpEnabled /\ updates = <<>> /\ cpEnabled' = FALSE /\ cpActive' = FALSE
    /\ emptyBufs' = 0 /\ returning' = returning + emptyBufs
    /\ UNCHANGED <<isReference, refScale, updates, otherScale, unsent>>

\* mmal_port_clock_forward_payload(): a buffer that cannot be locked is put back.
ForwardPayload(s) ==
    \/ /\ emptyBufs > 0 /\ emptyBufs' = emptyBufs - 1 /\ updates' = Append(updates, s) /\ unsent' = FALSE
    \/ unsent' = TRUE /\ UNCHANGED <<emptyBufs, updates>>

\* mmal_port_clock_scale_set(); mmal_port_clock_media_time_set() and _offset_set() forward the time
\* in the same way.  Only a reference port forwards.
ClockPortScale(s) ==
    /\ s # refScale /\ refScale' = s
    /\ IF isReference THEN ForwardPayload(s) ELSE unsent' = TRUE /\ UNCHANGED <<emptyBufs, updates>>
    /\ UNCHANGED <<isReference, cpActive, cpEnabled, returning, otherScale>>

\* MMAL_PARAMETER_CLOCK_REFERENCE and MMAL_PARAMETER_CLOCK_ACTIVE.
ClockPortParameter ==
    /\ \/ isReference' = ~isReference /\ UNCHANGED cpActive
       \/ cpActive' = ~cpActive /\ UNCHANGED isReference
    /\ UNCHANGED <<cpEnabled, refScale, emptyBufs, updates, returning, otherScale, unsent>>

\* mmal_port_clock_process_buffer() on the other port.
ClockProcess ==
    /\ updates # <<>> /\ otherScale' = Head(updates) /\ updates' = Tail(updates) /\ returning' = returning + 1
    /\ UNCHANGED <<isReference, cpActive, cpEnabled, refScale, emptyBufs, unsent>>

ClockPortNext == \/ ClockPortEnable \/ QueueEmpty \/ ClockPortDisable \/ ClockPortParameter \/ ClockProcess
                 \/ \E s \in Scales : ClockPortScale(s)

-----------------------------------------------------------------------------

ClockPortTypeOK ==
    /\ {isReference, cpActive, cpEnabled, unsent} \subseteq BOOLEAN /\ {refScale, otherScale} \subseteq Scales
    /\ emptyBufs \in 0 .. ClockBuffers /\ returning \in 0 .. ClockBuffers /\ updates \in Seq(Scales)

\* No buffer is lost: a port that has dropped an update for want of a buffer can send the next one.
ClockBuffersKept == emptyBufs + Len(updates) + returning = ClockBuffers

\* Once all updates have arrived the two clocks agree, unless the last change was dropped.
ClocksAgree == updates = <<>> /\ ~unsent => otherScale = refScale

\* The clock serves its requests in order and not early and loses no slot; two connected clock ports agree and lose no
\* buffer.
ClockKept == SlotsKept /\ EarliestFirst /\ NotEarly /\ ClockBuffersKept /\ ClocksAgree
=============================================================================
