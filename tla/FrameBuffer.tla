---------------------------- MODULE FrameBuffer ----------------------------
(***************************************************************************)
(* One entry of pglobal->in[]: the picture buffer that an input plugin     *)
(* fills and that every client of output_http copies from.                 *)
(*                                                                         *)
(* The writer is cam_thread of input_uvc; the readers are the detached     *)
(* client threads of httpd.c inside send_stream or send_snapshot.  All of  *)
(* them synchronise on the mutex "db" and on the condition variable        *)
(* "db_update", which is waited for WITHOUT a predicate: a reader takes    *)
(* the first wake-up for a new frame.                                      *)
(*                                                                         *)
(* A picture is named by its capture number; its bytes are a first and a   *)
(* second half, so that a memcpy takes two steps and a copy that mixes two *)
(* pictures can be seen.                                                   *)
(***************************************************************************)
EXTENDS Integers

CONSTANTS
    Streams,    \* client threads that serve /?action=stream
    Snapshots,  \* client threads that serve /?action=snapshot
    MaxFrame,   \* number of pictures the camera takes (bound)
    FrameSize,  \* FrameSize[n]: size of picture n; picture 0 is "none yet"
    TEN_K,      \* slack that send_stream adds when it grows its buffer
    Spurious    \* TRUE: pthread_cond_wait may return without a broadcast

Clients == Streams \cup Snapshots
Frames  == 0 .. MaxFrame

ASSUME ClientsAssumption == /\ "cam" \notin Clients
                            /\ "none" \notin Clients
                            /\ Streams \cap Snapshots = {}

ASSUME SizeAssumption == /\ MaxFrame \in Nat
                         /\ FrameSize \in [Frames -> Nat]
                         /\ FrameSize[0] = 0
                         /\ TEN_K \in Nat
                         /\ Spurious \in BOOLEAN

VARIABLES
    stop,       \* pglobal->stop
    cancelled,  \* input_stop() has requested the cancellation of cam_thread
    db,         \* owner of the mutex pglobal->in[].db, or "none"
    waiting,    \* the clients blocked in pthread_cond_wait(db_update)
    buf,        \* pglobal->in[].buf: the two halves and whether it is allocated
    size,       \* pglobal->in[].size
    timestamp,  \* pglobal->in[].timestamp, named by the picture it belongs to
    camPc,      \* control point of cam_thread
    tmp,        \* videoIn->tmpbuffer, tmpbytesused, tmptimestamp: the picture grabbed
    taken,      \* number of pictures the camera has taken
    pc,         \* control point of each client thread
    frame,      \* the client's own copy of the bytes
    frameSize,  \* its frame_size
    frameTime,  \* its timestamp
    capacity,   \* bytes allocated for frame (max_frame_size of send_stream)
    fresh       \* auxiliary: a picture was published since the client began to wait

bufVars    == <<buf, size, timestamp>>
camVars    == <<camPc, tmp, taken>>
clientVars == <<pc, frame, frameSize, frameTime, capacity>>
vars == <<stop, cancelled, db, waiting, bufVars, camVars, clientVars, fresh>>

Bytes  == [head : Frames, tail : Frames]
Blank  == [head |-> 0, tail |-> 0]

CamLocked    == {"copy", "copying", "stamp", "broadcast", "unlock"}
ClientLocked == {"wait", "read", "copy", "copying", "unlock", "nomem"}
CamPcs       == CamLocked \cup {"loop", "lock", "cleanup", "clear", "ended"}
ClientPcs    == ClientLocked \cup
                {"start", "loop", "blocked", "woken", "write", "error", "closed"}

Init ==
    /\ stop = FALSE /\ cancelled = FALSE
    /\ db = "none" /\ waiting = {}
    /\ buf = [bytes |-> Blank, live |-> TRUE] /\ size = 0 /\ timestamp = 0
    /\ camPc = "loop" /\ tmp = 0 /\ taken = 0
    /\ pc = [c \in Clients |-> "start"]
    /\ frame = [c \in Clients |-> Blank]
    /\ frameSize = [c \in Clients |-> 0]
    /\ frameTime = [c \in Clients |-> 0]
    /\ capacity = [c \in Clients |-> 0]
    /\ fresh = [c \in Clients |-> FALSE]

-----------------------------------------------------------------------------
(* The pthread primitives on db and db_update. *)

Lock(t) == db = "none" /\ db' = t

Unlock(t) == db = t /\ db' = "none"

-----------------------------------------------------------------------------
(* cam_thread of input_uvc. *)

\* select() reports a picture and uvcGrab() copies it to tmpbuffer.
CamGrab ==
    /\ camPc = "loop" /\ ~stop /\ ~cancelled
    /\ taken < MaxFrame
    /\ taken' = taken + 1
    /\ tmp' = taken + 1
    /\ camPc' = "lock"
    /\ UNCHANGED <<stop, cancelled, db, waiting, bufVars, clientVars, fresh>>

\* Mutant: an empty buffer clears the picture that was grabbed before.
CamGrabEmptyClears ==
    /\ camPc = "loop" /\ ~stop /\ ~cancelled
    /\ tmp' = 0
    /\ camPc' = "lock"
    /\ UNCHANGED <<stop, cancelled, db, waiting, bufVars, taken, clientVars, fresh>>

\* uvcGrab() dequeues an empty buffer and returns 0: tmpbuffer, tmpbytesused and
\* tmptimestamp keep the picture before, and that one is published again.
CamGrabEmpty ==
    /\ camPc = "loop" /\ ~stop /\ ~cancelled
    /\ camPc' = "lock"
    /\ UNCHANGED <<stop, cancelled, db, waiting, bufVars, tmp, taken, clientVars, fresh>>

\* A picture is grabbed and then dropped: every, minimum_size or soft_framedrop.
CamDrop ==
    /\ camPc = "loop" /\ ~stop /\ ~cancelled
    /\ taken < MaxFrame
    /\ taken' = taken + 1
    /\ tmp' = taken + 1
    /\ UNCHANGED <<stop, cancelled, db, waiting, bufVars, camPc, clientVars, fresh>>

\* Mutant: cam_thread writes without taking db.
CamLockSkipped ==
    /\ camPc = "lock"
    /\ camPc' = "copy"
    /\ UNCHANGED <<stop, cancelled, db, waiting, bufVars, tmp, taken, clientVars, fresh>>

CamLock ==
    /\ camPc = "lock"
    /\ Lock("cam")
    /\ camPc' = "copy"
    /\ UNCHANGED <<stop, cancelled, waiting, bufVars, tmp, taken, clientVars, fresh>>

\* memcpy_picture() writes tmp over one half of buf, and nothing when it returns 0.
Written(half) == IF FrameSize[tmp] = 0 THEN half ELSE tmp

\* memcpy_picture(), first half.
CamCopy ==
    /\ camPc = "copy"
    /\ buf' = [buf EXCEPT !.bytes.head = Written(@)]
    /\ camPc' = "copying"
    /\ UNCHANGED <<stop, cancelled, db, waiting, size, timestamp, tmp, taken, clientVars, fresh>>

\* Mutant: in[].size keeps the size of the picture before.
CamCopiedNoSize ==
    /\ camPc = "copying"
    /\ buf' = [buf EXCEPT !.bytes.tail = Written(@)]
    /\ camPc' = "stamp"
    /\ UNCHANGED <<stop, cancelled, db, waiting, size, timestamp, tmp, taken, clientVars, fresh>>

\* memcpy_picture(), second half; in[].size takes its return value.
CamCopied ==
    /\ camPc = "copying"
    /\ buf' = [buf EXCEPT !.bytes.tail = Written(@)]
    /\ size' = FrameSize[tmp]
    /\ camPc' = "stamp"
    /\ UNCHANGED <<stop, cancelled, db, waiting, timestamp, tmp, taken, clientVars, fresh>>

CamStamp ==
    /\ camPc = "stamp"
    /\ timestamp' = tmp
    /\ camPc' = "broadcast"
    /\ UNCHANGED <<stop, cancelled, db, waiting, buf, size, tmp, taken, clientVars, fresh>>

\* Mutant: pthread_cond_signal() wakes one of the blocked clients.
CamSignal ==
    /\ camPc = "broadcast"
    /\ \/ waiting = {} /\ UNCHANGED <<waiting, pc>>
       \/ \E w \in waiting : /\ waiting' = waiting \ {w}
                             /\ pc' = [pc EXCEPT ![w] = "woken"]
    /\ fresh' = [c \in Clients |-> TRUE]
    /\ camPc' = "unlock"
    /\ UNCHANGED <<stop, cancelled, db, bufVars, tmp, taken,
                   frame, frameSize, frameTime, capacity>>

\* pthread_cond_broadcast(): every blocked client has to take db again.
CamBroadcast ==
    /\ camPc = "broadcast"
    /\ waiting' = {}
    /\ pc' = [c \in Clients |-> IF c \in waiting THEN "woken" ELSE pc[c]]
    /\ fresh' = [c \in Clients |-> TRUE]
    /\ camPc' = "unlock"
    /\ UNCHANGED <<stop, cancelled, db, bufVars, tmp, taken,
                   frame, frameSize, frameTime, capacity>>

CamUnlock ==
    /\ camPc = "unlock"
    /\ Unlock("cam")
    /\ camPc' = "loop"
    /\ UNCHANGED <<stop, cancelled, waiting, bufVars, tmp, taken, clientVars, fresh>>

\* The loop ends because stop is set or cancellation takes effect in select().
CamStop ==
    /\ camPc = "loop"
    /\ stop \/ cancelled
    /\ camPc' = "cleanup"
    /\ UNCHANGED <<stop, cancelled, db, waiting, bufVars, tmp, taken, clientVars, fresh>>

\* The loop ends because select() times out or uvcGrab() fails.
CamFail ==
    /\ camPc = "loop" /\ ~stop /\ ~cancelled
    /\ camPc' = "cleanup"
    /\ UNCHANGED <<stop, cancelled, db, waiting, bufVars, tmp, taken, clientVars, fresh>>

\* cam_cleanup(): free(in->buf), without db.
CamFree ==
    /\ camPc = "cleanup"
    /\ buf' = [buf EXCEPT !.live = FALSE]
    /\ camPc' = "clear"
    /\ UNCHANGED <<stop, cancelled, db, waiting, size, timestamp, tmp, taken, clientVars, fresh>>

\* Mutant: the size is left at an error value.
CamClearError ==
    /\ camPc = "clear"
    /\ size' = -1
    /\ camPc' = "ended"
    /\ UNCHANGED <<stop, cancelled, db, waiting, buf, timestamp, tmp, taken, clientVars, fresh>>

\* cam_cleanup(): in->buf = NULL; in->size = 0.  Nobody is woken.
CamClear ==
    /\ camPc = "clear"
    /\ size' = 0
    /\ camPc' = "ended"
    /\ UNCHANGED <<stop, cancelled, db, waiting, buf, timestamp, tmp, taken, clientVars, fresh>>

Cam == \/ CamGrab \/ CamGrabEmpty \/ CamDrop \/ CamLock \/ CamCopy \/ CamCopied
       \/ CamStamp \/ CamBroadcast \/ CamUnlock
       \/ CamStop \/ CamFail \/ CamFree \/ CamClear

-----------------------------------------------------------------------------
(* send_stream() and send_snapshot() of httpd.c in client thread c. *)

ToPc(c, p) == pc' = [pc EXCEPT ![c] = p]

\* send_stream() writes the HTTP header first; when that fails it returns.
StreamHeader(c) ==
    /\ c \in Streams /\ pc[c] = "start"
    /\ ToPc(c, "loop") \/ ToPc(c, "closed")
    /\ UNCHANGED <<stop, cancelled, db, waiting, bufVars, camVars,
                   frame, frameSize, frameTime, capacity, fresh>>

\* while(!pglobal->stop) is left, the buffer is freed.
StreamStop(c) ==
    /\ c \in Streams /\ pc[c] = "loop"
    /\ stop
    /\ ToPc(c, "closed")
    /\ UNCHANGED <<stop, cancelled, db, waiting, bufVars, camVars,
                   frame, frameSize, frameTime, capacity, fresh>>

\* Mutant: the client copies what is there instead of waiting.
ClientLockNoWait(c) ==
    /\ \/ c \in Streams /\ pc[c] = "loop" /\ ~stop
       \/ c \in Snapshots /\ pc[c] = "start"
    /\ Lock(c)
    /\ ToPc(c, "read")
    /\ UNCHANGED <<stop, cancelled, waiting, bufVars, camVars,
                   frame, frameSize, frameTime, capacity, fresh>>

\* pthread_mutex_lock(): a stream in every round of its loop, a snapshot at once.
ClientLock(c) ==
    /\ \/ c \in Streams /\ pc[c] = "loop" /\ ~stop
       \/ c \in Snapshots /\ pc[c] = "start"
    /\ Lock(c)
    /\ ToPc(c, "wait")
    /\ UNCHANGED <<stop, cancelled, waiting, bufVars, camVars,
                   frame, frameSize, frameTime, capacity, fresh>>

\* pthread_cond_wait() releases db and blocks in one step.
ClientWait(c) ==
    /\ pc[c] = "wait"
    /\ Unlock(c)
    /\ waiting' = waiting \cup {c}
    /\ fresh' = [fresh EXCEPT ![c] = FALSE]
    /\ ToPc(c, "blocked")
    /\ UNCHANGED <<stop, cancelled, bufVars, camVars,
                   frame, frameSize, frameTime, capacity>>

\* A wake-up without a broadcast, which POSIX allows.
SpuriousWakeup(c) ==
    /\ Spurious
    /\ pc[c] = "blocked"
    /\ waiting' = waiting \ {c}
    /\ ToPc(c, "woken")
    /\ UNCHANGED <<stop, cancelled, db, bufVars, camVars,
                   frame, frameSize, frameTime, capacity, fresh>>

\* pthread_cond_wait() takes db again and returns.
ClientRelock(c) ==
    /\ pc[c] = "woken"
    /\ Lock(c)
    /\ ToPc(c, "read")
    /\ UNCHANGED <<stop, cancelled, waiting, bufVars, camVars,
                   frame, frameSize, frameTime, capacity, fresh>>

\* Mutant: the buffer is allocated for the first picture and never grown.
ClientReadNoGrow(c) ==
    /\ pc[c] = "read"
    /\ frameSize' = [frameSize EXCEPT ![c] = size]
    /\ capacity' = [capacity EXCEPT ![c] = IF capacity[c] = 0 THEN size + TEN_K ELSE capacity[c]]
    /\ ToPc(c, "copy")
    /\ UNCHANGED <<stop, cancelled, db, waiting, bufVars, camVars, frame, frameTime, fresh>>

\* frame_size is read and the client's buffer made large enough: send_stream grows
\* it only when the picture does not fit, send_snapshot allocates a new one.
ClientRead(c) ==
    /\ pc[c] = "read"
    /\ frameSize' = [frameSize EXCEPT ![c] = size]
    /\ capacity' = [capacity EXCEPT ![c] =
                      IF c \in Snapshots THEN size + 1
                      ELSE IF size > capacity[c] THEN size + TEN_K ELSE capacity[c]]
    /\ ToPc(c, "copy")
    /\ UNCHANGED <<stop, cancelled, db, waiting, bufVars, camVars, frame, frameTime, fresh>>

\* The allocation fails: nothing is copied.
ClientNoMemory(c) ==
    /\ pc[c] = "read"
    /\ c \in Snapshots \/ size > capacity[c]
    /\ frameSize' = [frameSize EXCEPT ![c] = size]
    /\ ToPc(c, "nomem")
    /\ UNCHANGED <<stop, cancelled, db, waiting, bufVars, camVars,
                   frame, frameTime, capacity, fresh>>

\* ... db is released before the error is sent.
ClientNoMemoryUnlock(c) ==
    /\ pc[c] = "nomem"
    /\ Unlock(c)
    /\ ToPc(c, "error")
    /\ UNCHANGED <<stop, cancelled, waiting, bufVars, camVars,
                   frame, frameSize, frameTime, capacity, fresh>>

\* send_error(500), then the function returns.
ClientError(c) ==
    /\ pc[c] = "error"
    /\ ToPc(c, "closed")
    /\ UNCHANGED <<stop, cancelled, db, waiting, bufVars, camVars,
                   frame, frameSize, frameTime, capacity, fresh>>

\* The bytes memcpy() may read for a half of buf: that half, or anything at all once
\* the buffer is freed.  A copy of no bytes leaves the client's half as it was.
Readable(c, mine, theirs) ==
    IF frameSize[c] = 0 THEN {mine} ELSE IF buf.live THEN {theirs} ELSE Frames

\* The timestamp is read and the first half of the memcpy done.
ClientCopy(c) ==
    /\ pc[c] = "copy"
    /\ frameTime' = [frameTime EXCEPT ![c] = timestamp]
    /\ \E half \in Readable(c, frame[c].head, buf.bytes.head) :
          frame' = [frame EXCEPT ![c].head = half]
    /\ ToPc(c, "copying")
    /\ UNCHANGED <<stop, cancelled, db, waiting, bufVars, camVars, frameSize, capacity, fresh>>

\* The second half of the memcpy.
ClientCopied(c) ==
    /\ pc[c] = "copying"
    /\ \E half \in Readable(c, frame[c].tail, buf.bytes.tail) :
          frame' = [frame EXCEPT ![c].tail = half]
    /\ ToPc(c, "unlock")
    /\ UNCHANGED <<stop, cancelled, db, waiting, bufVars, camVars,
                   frameSize, frameTime, capacity, fresh>>

ClientUnlock(c) ==
    /\ pc[c] = "unlock"
    /\ Unlock(c)
    /\ ToPc(c, "write")
    /\ UNCHANGED <<stop, cancelled, waiting, bufVars, camVars,
                   frame, frameSize, frameTime, capacity, fresh>>

\* The picture goes out with its part header.  A stream loops, a snapshot is done;
\* any write that fails ends either.
ClientWrite(c) ==
    /\ pc[c] = "write"
    /\ \/ c \in Streams /\ ToPc(c, "loop")
       \/ ToPc(c, "closed")
    /\ UNCHANGED <<stop, cancelled, db, waiting, bufVars, camVars,
                   frame, frameSize, frameTime, capacity, fresh>>

\* server_thread accepts a new connection: a new thread with fresh locals.
Accept(c) ==
    /\ pc[c] = "closed" /\ ~stop
    /\ ToPc(c, "start")
    /\ frame' = [frame EXCEPT ![c] = Blank]
    /\ frameSize' = [frameSize EXCEPT ![c] = 0]
    /\ frameTime' = [frameTime EXCEPT ![c] = 0]
    /\ capacity' = [capacity EXCEPT ![c] = 0]
    /\ fresh' = [fresh EXCEPT ![c] = FALSE]
    /\ UNCHANGED <<stop, cancelled, db, waiting, bufVars, camVars>>

Client(c) ==
    \/ StreamHeader(c) \/ StreamStop(c) \/ ClientLock(c) \/ ClientWait(c)
    \/ ClientRelock(c) \/ ClientRead(c) \/ ClientNoMemory(c)
    \/ ClientNoMemoryUnlock(c) \/ ClientError(c) \/ ClientCopy(c)
    \/ ClientCopied(c) \/ ClientUnlock(c) \/ ClientWrite(c)

-----------------------------------------------------------------------------
(* signal_handler(): stop is set; one second later input_stop() cancels cam_thread. *)

SetStop ==
    /\ ~stop
    /\ stop' = TRUE
    /\ UNCHANGED <<cancelled, db, waiting, bufVars, camVars, clientVars, fresh>>

InputStop ==
    /\ stop /\ ~cancelled
    /\ cancelled' = TRUE
    /\ UNCHANGED <<stop, db, waiting, bufVars, camVars, clientVars, fresh>>

Next == \/ Cam
        \/ \E c \in Clients : Client(c) \/ SpuriousWakeup(c) \/ Accept(c)
        \/ SetStop \/ InputStop

Spec == Init /\ [][Next]_vars

(* Fairness.  Every thread keeps running, so a step that is enabled is taken; a    *)
(* thread that asks for db again and again gets it (SF); not every picture is      *)
(* dropped.  Nothing is assumed of write(): a slow viewer may block for ever.      *)
CamFairness ==
    /\ WF_vars(CamGrab \/ CamGrabEmpty)
    /\ SF_vars(CamLock)
    /\ WF_vars(CamCopy \/ CamCopied \/ CamStamp \/ CamBroadcast \/ CamUnlock)
    /\ WF_vars(CamStop \/ CamFree \/ CamClear)

ClientFairness(c) ==
    /\ SF_vars(ClientRelock(c))
    /\ WF_vars(\/ ClientWait(c) \/ ClientRead(c) \/ ClientCopy(c) \/ ClientCopied(c)
               \/ ClientUnlock(c) \/ ClientNoMemoryUnlock(c))

FairSpec == Spec /\ CamFairness /\ \A c \in Clients : ClientFairness(c)

-----------------------------------------------------------------------------
(* The promise of the buffer, FrameChannel, and how this state implements it: the *)
(* picture a client sends is the one all parts of its copy belong to.             *)

Torn == -1

Sent(c) ==
    IF pc[c] # "write" THEN {}
    ELSE IF /\ frameSize[c] = FrameSize[frameTime[c]]
            /\ frameSize[c] > 0 => frame[c] = [head |-> frameTime[c], tail |-> frameTime[c]]
         THEN {frameTime[c]}
         ELSE {Torn}

Channel == INSTANCE FrameChannel WITH
    current <- timestamp, open <- buf.live,
    sent <- [c \in Clients |-> Sent(c)]

-----------------------------------------------------------------------------
(* Properties. *)

\* Types of the shared buffer, of cam_thread and of the client threads.
TypeOK ==
    /\ stop \in BOOLEAN /\ cancelled \in BOOLEAN
    /\ db \in Clients \cup {"cam", "none"}
    /\ waiting \subseteq Clients
    /\ buf \in [bytes : Bytes, live : BOOLEAN]
    /\ size \in Nat /\ timestamp \in Frames
    /\ camPc \in CamPcs /\ tmp \in Frames /\ taken \in Frames
    /\ pc \in [Clients -> ClientPcs]
    /\ frame \in [Clients -> Bytes]
    /\ frameSize \in [Clients -> Nat]
    /\ frameTime \in [Clients -> Frames]
    /\ capacity \in [Clients -> Nat]
    /\ fresh \in [Clients -> BOOLEAN]

\* What a client has copied, when it releases db and while it sends, is one picture:
\* both halves, the size in the Content-Length and the X-Timestamp belong together,
\* for as long as cam_cleanup() has not freed the buffer.
NoTornFrame ==
    \A c \in Clients :
        (pc[c] \in {"unlock", "write"} /\ buf.live) =>
            /\ frameSize[c] = FrameSize[frameTime[c]]
            /\ frameSize[c] > 0 => frame[c] = [head |-> frameTime[c], tail |-> frameTime[c]]

\* The memcpy of send_stream() and send_snapshot() never writes past the client's
\* buffer, whatever sizes were published since the buffer was last grown.
CopyFits ==
    \A c \in Clients : pc[c] \in {"copy", "copying"} => frameSize[c] <= capacity[c]

\* "wait for fresh frames": a client that copies does so after a picture was
\* published while it waited.
CopiesFreshFrame ==
    \A c \in Clients : pc[c] \in {"read", "copy", "copying"} => fresh[c]

\* No client reads the bytes of a buffer that cam_cleanup() has freed.
NoCopyFromFreed ==
    \A c \in Clients : (pc[c] \in {"copy", "copying"} /\ frameSize[c] > 0) => buf.live

\* A connection never sees time run backwards: the X-Timestamps it is sent never
\* decrease, although its wake-ups and the camera's publications race for db.
TimestampsMonotone ==
    [][\A c \in Clients : frameTime'[c] >= frameTime[c] \/ pc[c] = "closed"]_vars

\* The buffer implements FrameChannel: whatever cam_thread and the clients interleave,
\* each client sends the whole of the picture that is the latest when it releases db.
ImplementsChannel == Channel!Spec

\* db is released again and again: no path of either side keeps it.
LockReleased == []<>(db = "none")

\* A client that waits for a picture gets one, or an error, unless the input ended.
WaiterServed ==
    \A c \in Clients : pc[c] = "blocked" ~> (pc[c] \in {"write", "error"} \/ camPc = "ended")

\* db is released again and again, and whoever waits for a picture gets one.
WaitersServed == LockReleased /\ WaiterServed
=============================================================================
