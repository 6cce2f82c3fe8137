------------------------------ MODULE FileTake ------------------------------
(***************************************************************************)
(* How worker_thread() of output_file and the HTTP client threads that     *)
(* call its output_cmd(OUT_FILE_CMD_TAKE) share the static picture buffer  *)
(* "frame" and its size "max_frame_size".                                  *)
(*                                                                         *)
(* A picture is its number; its bytes are two halves, so that an           *)
(* interrupted copy or write shows.  The picture of the input (in[].buf)   *)
(* is whole whenever db is free, see FrameBuffer.                          *)
(***************************************************************************)
EXTENDS Integers, FiniteSets

CONSTANTS
    Takers,        \* HTTP client threads that answer "take"
    MaxPicture,    \* pictures the input publishes (bound)
    PictureSize,   \* PictureSize[p]: bytes of picture p
    Slack,         \* 1 << 16: bytes allocated beyond the picture
    ReallocFails     \* realloc() may fail

Worker == "worker"
TakeThreads == Takers \cup {Worker}
TakePictures == 0 .. MaxPicture
Garbage == -1

ASSUME TakeAssumption ==
    /\ Worker \notin Takers /\ "none" \notin TakeThreads
    /\ MaxPicture \in Nat /\ Slack \in Nat /\ ReallocFails \in BOOLEAN
    /\ PictureSize \in [TakePictures -> Nat] /\ PictureSize[0] = 0

VARIABLES
    db,               \* owner of in[input_number].db
    buf,              \* the picture in in[input_number].buf
    woken,            \* worker_thread() was woken by db_update
    frame,            \* the bytes of the static buffer, first and second half
    frameCapacity,         \* the bytes that are really allocated for it
    max_frame_size,
    takePc,               \* control point of each thread
    copied,           \* the picture each thread copied last
    file              \* the bytes of the file each thread writes, Blank if it failed

takeVars == <<db, buf, woken, frame, frameCapacity, max_frame_size, takePc, copied, file>>

Bytes == [head : TakePictures \cup {Garbage}, tail : TakePictures \cup {Garbage}]
Blank == [head |-> 0, tail |-> 0]
Locked == {"size", "nomem", "copy", "copying", "unlock"}
TakePcs == Locked \cup {"idle", "wait", "relock", "write", "writing", "end"}

TakeInit ==
    /\ db = "none" /\ buf = 0 /\ woken = FALSE
    /\ frame = Blank /\ frameCapacity = 0 /\ max_frame_size = 0
    /\ takePc = [t \in TakeThreads |-> "idle"]
    /\ copied = [t \in TakeThreads |-> 0] /\ file = [t \in TakeThreads |-> Blank]

-----------------------------------------------------------------------------
(* The input plugin, under db *)

\* The input publishes its next picture and wakes who waits.
Publish ==
    /\ db = "none" /\ buf < MaxPicture
    /\ buf' = buf + 1
    /\ woken' = (woken \/ takePc[Worker] = "wait")
    /\ UNCHANGED <<db, frame, frameCapacity, max_frame_size, takePc, copied, file>>

-----------------------------------------------------------------------------
(* worker_thread() and output_cmd(): the same steps, but for the wait *)

\* The thread goes on at another point.
TakeToPc(t, label) == takePc' = [takePc EXCEPT ![t] = label]

\* pthread_mutex_lock(); worker_thread() then waits for db_update, which gives db back.
Lock(t) ==
    /\ takePc[t] = "idle" /\ db = "none"
    /\ IF t = Worker THEN UNCHANGED db /\ TakeToPc(t, "wait")
                     ELSE db' = t /\ TakeToPc(t, "size")
    /\ UNCHANGED <<buf, woken, frame, frameCapacity, max_frame_size, copied, file>>

\* pthread_cond_wait() returns with db.
Wake ==
    /\ takePc[Worker] = "wait" /\ woken /\ db = "none"
    /\ db' = Worker /\ woken' = FALSE /\ TakeToPc(Worker, "size")
    /\ UNCHANGED <<buf, frame, frameCapacity, max_frame_size, copied, file>>

\* The picture fits into the buffer.
FrameFits(t) ==
    /\ takePc[t] = "size" /\ PictureSize[buf] <= max_frame_size
    /\ TakeToPc(t, "copy")
    /\ UNCHANGED <<db, buf, woken, frame, frameCapacity, max_frame_size, copied, file>>

\* realloc(): if the block moves, a thread in the middle of its write() reads freed memory.
Grow(t) ==
    /\ takePc[t] = "size" /\ PictureSize[buf] > max_frame_size
    /\ max_frame_size' = PictureSize[buf] + Slack
    /\ frameCapacity' = PictureSize[buf] + Slack
    /\ \E moved \in BOOLEAN :
          file' = [s \in TakeThreads |->
                      IF moved /\ takePc[s] = "writing" THEN [file[s] EXCEPT !.tail = Garbage]
                                                    ELSE file[s]]
    /\ TakeToPc(t, "copy")
    /\ UNCHANGED <<db, buf, woken, frame, copied>>

\* realloc() fails: max_frame_size is already raised.
NoMemory(t) ==
    /\ ReallocFails
    /\ takePc[t] = "size" /\ PictureSize[buf] > max_frame_size
    /\ max_frame_size' = PictureSize[buf] + Slack
    /\ TakeToPc(t, "nomem")
    /\ UNCHANGED <<db, buf, woken, frame, frameCapacity, copied, file>>

\* Mutant: db is kept.
GiveUpKeepsLock(t) ==
    /\ takePc[t] = "nomem"
    /\ TakeToPc(t, "end")
    /\ UNCHANGED <<db, buf, woken, frame, frameCapacity, max_frame_size, copied, file>>

\* db is released; the worker's thread ends, output_cmd() returns -1.
GiveUp(t) ==
    /\ takePc[t] = "nomem"
    /\ db' = "none"
    /\ TakeToPc(t, "end")
    /\ file' = [file EXCEPT ![t] = Blank]
    /\ UNCHANGED <<buf, woken, frame, frameCapacity, max_frame_size, copied>>

\* Mutant: db is released before the copy is complete.
CopyUnlocks(t) ==
    /\ takePc[t] = "copy"
    /\ frame' = [frame EXCEPT !.head = buf]
    /\ db' = "none"
    /\ TakeToPc(t, "copying")
    /\ UNCHANGED <<buf, woken, frameCapacity, max_frame_size, copied, file>>

\* memcpy(), first half.
Copy(t) ==
    /\ takePc[t] = "copy"
    /\ frame' = [frame EXCEPT !.head = buf]
    /\ TakeToPc(t, "copying")
    /\ UNCHANGED <<db, buf, woken, frameCapacity, max_frame_size, copied, file>>

\* memcpy(), second half.
Copied(t) ==
    /\ takePc[t] = "copying"
    /\ frame' = [frame EXCEPT !.tail = buf]
    /\ copied' = [copied EXCEPT ![t] = buf]
    /\ TakeToPc(t, "unlock")
    /\ UNCHANGED <<db, buf, woken, frameCapacity, max_frame_size, file>>

\* db is released before the file is written.
Unlock(t) ==
    /\ takePc[t] = "unlock"
    /\ db' = "none"
    /\ TakeToPc(t, "write")
    /\ UNCHANGED <<buf, woken, frame, frameCapacity, max_frame_size, copied, file>>

\* open() fails.
OpenFails(t) ==
    /\ takePc[t] = "write"
    /\ TakeToPc(t, "end")
    /\ file' = [file EXCEPT ![t] = Blank]
    /\ UNCHANGED <<db, buf, woken, frame, frameCapacity, max_frame_size, copied>>

\* write() reads the first half of the static buffer.
Write(t) ==
    /\ takePc[t] = "write"
    /\ file' = [file EXCEPT ![t] = [head |-> frame.head, tail |-> 0]]
    /\ TakeToPc(t, "writing")
    /\ UNCHANGED <<db, buf, woken, frame, frameCapacity, max_frame_size, copied>>

\* The second half, unless the block was freed under it; or write() fails.  The worker goes
\* on with its next picture, and a taker's request is answered.
Written(t) ==
    /\ takePc[t] = "writing"
    /\ \/ /\ file' = [file EXCEPT ![t].tail = IF @ = Garbage THEN Garbage ELSE frame.tail]
          /\ TakeToPc(t, IF t = Worker THEN "idle" ELSE "end")
       \/ TakeToPc(t, "end") /\ file' = [file EXCEPT ![t] = Blank]
    /\ UNCHANGED <<db, buf, woken, frame, frameCapacity, max_frame_size, copied>>

\* The next "take" request is handed to a thread.
TakeRequest(t) ==
    /\ takePc[t] = "end" /\ t \in Takers
    /\ TakeToPc(t, "idle")
    /\ file' = [file EXCEPT ![t] = Blank]
    /\ copied' = [copied EXCEPT ![t] = 0]
    /\ UNCHANGED <<db, buf, woken, frame, frameCapacity, max_frame_size>>

Run(t) == Lock(t) \/ FrameFits(t) \/ Grow(t) \/ NoMemory(t) \/ GiveUp(t) \/ Copy(t) \/ Copied(t)
          \/ Unlock(t) \/ OpenFails(t) \/ Write(t) \/ Written(t)

TakeNext == Publish \/ Wake \/ \E t \in TakeThreads : Run(t) \/ TakeRequest(t)

TakeSpec == TakeInit /\ [][TakeNext]_takeVars

\* Threads that can run do so, and nobody is kept from db for ever.
TakeFairSpec == TakeSpec /\ \A t \in Takers : WF_takeVars(Run(t)) /\ SF_takeVars(Lock(t))
                 /\ WF_takeVars(Run(Worker)) /\ SF_takeVars(Wake)

-----------------------------------------------------------------------------
(* Properties *)

\* Types of the shared buffer and of the threads.
TakeTypeOK ==
    /\ db \in TakeThreads \cup {"none"} /\ buf \in TakePictures /\ woken \in BOOLEAN
    /\ frame \in Bytes /\ frameCapacity \in Nat /\ max_frame_size \in Nat
    /\ takePc \in [TakeThreads -> TakePcs]
    /\ copied \in [TakeThreads -> TakePictures] /\ file \in [TakeThreads -> Bytes]

\* memcpy() never writes beyond the static buffer, although several threads keep its size, as
\* long as no realloc() failed.
CopyFits ==
    max_frame_size = frameCapacity =>
        \A t \in TakeThreads : takePc[t] \in {"copy", "copying"} => PictureSize[buf] <= frameCapacity

\* The static buffer holds one picture, except while a thread copies into it.
FrameWhole ==
    (\A t \in TakeThreads : takePc[t] # "copying") => frame.head = frame.tail

\* A thread that is done has saved the picture it copied itself, whole, or reported failure.
FileIsOwnCopy ==
    \A t \in TakeThreads : takePc[t] \in {"idle", "end"} =>
        file[t] \in {Blank, [head |-> copied[t], tail |-> copied[t]]}

\* The static buffer that the worker of output_file and its command handlers share holds one whole picture, and is
\* large enough for it.
PictureTaken == CopyFits /\ FrameWhole
=============================================================================
