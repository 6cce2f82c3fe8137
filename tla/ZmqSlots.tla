------------------------------ MODULE ZmqSlots ------------------------------
(***************************************************************************)
(* output_zmqserver.c: the worker copies every frame into the next of      *)
(* zmqBufferSize slots and, when the last is filled, packs them all into   *)
(* one message and sends it; in MJPG mode it writes the frames out.        *)
(* output_cmd() may take a picture meanwhile, through the same static      *)
(* variables.                                                              *)
(*                                                                         *)
(* A frame is known by its number, and has a size.  One max_frame_size is  *)
(* kept for all the slots.  Writing past the end of a slot is undefined:   *)
(* the model stops there.  The ring of files is that of module FileRing.   *)
(***************************************************************************)
EXTENDS Integers

CONSTANTS
    ZmqBufferSize,      \* option -b, at most MAX_ZMQ_BUFFER_SIZE
    FrameSizes,         \* sizes of frames
    ZmqSlack,              \* the 1 << 16 bytes added when a buffer grows
    MaxFrames           \* bound: frames the input publishes

ASSUME ZmqAssumption == ZmqBufferSize \in 1..10 /\ FrameSizes \subseteq Nat \ {0} /\ ZmqSlack \in Nat /\ MaxFrames \in Nat

ZSlots == 1..ZmqBufferSize
NoBuffer == [room |-> 0, frame |-> 0]       \* NULL

VARIABLES
    zPc,        \* "wait", "package" or "record"; "ended" after a failed realloc();
                \* "overrun" or "takeOverrun" after a write past the end, "dangling" when
                \* a slot was given back
    zMjpg,      \* mjpgFileName != NULL
    zFrame,     \* number and size of the frame in the global buffer
    zPos,       \* zmqBufferPos
    zSlot,      \* frames[]: room and content of a slot
    zCurrent,   \* frame: the slot it points to, 0 for NULL or for a buffer of its own
    zOwn,       \* the room of that buffer of its own, 0 for NULL
    zMax,       \* max_frame_size
    zCopied,    \* frame and frame_size of the worker
    zPacked,    \* pbPackage.frame[]: number of the frame and length of the blob
    zRoom,      \* bufferSize, 0 before buf is allocated
    zSent       \* the last message: the numbers and lengths packed

zmqVars == <<zPc, zMjpg, zFrame, zPos, zSlot, zCurrent, zOwn, zMax, zCopied, zPacked, zRoom, zSent>>

ZmqInit ==
    /\ zPc = "wait" /\ zMjpg \in BOOLEAN /\ zFrame = [number |-> 0, size |-> 0]
    /\ zPos = 1 /\ zSlot = [s \in ZSlots |-> NoBuffer] /\ zCurrent = 0 /\ zOwn = 0 /\ zMax = 0
    /\ zCopied = [number |-> 0, size |-> 0] /\ zPacked = [s \in ZSlots |-> [number |-> 0, len |-> 0]]
    /\ zRoom = 0 /\ zSent = <<>>

\* The input publishes a frame, and the worker, woken by it, has the lock; or the frame passes while the
\* worker is busy (external).
ZmqPublish(size) ==
    /\ zPc \in {"wait", "package", "record"} /\ zFrame.number < MaxFrames
    /\ zFrame' = [number |-> zFrame.number + 1, size |-> size]
    /\ zPc' = IF zPc = "wait" THEN "copy" ELSE zPc
    /\ UNCHANGED <<zMjpg, zOwn, zPos, zSlot, zCurrent, zMax, zCopied, zPacked, zRoom, zSent>>

\* pthread_cond_wait() may return without a signal; the worker does not look whether the frame is new.
WakeSpuriously ==
    /\ zPc = "wait" /\ zFrame.number > 0 /\ zPc' = "copy"
    /\ UNCHANGED <<zMjpg, zOwn, zFrame, zPos, zSlot, zCurrent, zMax, zCopied, zPacked, zRoom, zSent>>

\* max_frame_size and the room of the slot after "check if buffer for frame is large enough, increase
\* it if necessary".
NewMax == IF zFrame.size > zMax THEN zFrame.size + ZmqSlack ELSE zMax

NewRoom == IF zFrame.size > zMax \/ zSlot[zPos].room = 0 THEN NewMax ELSE zSlot[zPos].room

\* Mutant: the slot of the frame is not remembered.
CopyFrameForgets ==
    /\ zPc = "copy" /\ zFrame.size <= NewRoom
    /\ zMax' = NewMax /\ zCurrent' = zPos /\ zCopied' = zFrame
    /\ zSlot' = [zSlot EXCEPT ![1] = [room |-> NewRoom, frame |-> zFrame.number]]
    /\ zPc' = IF zMjpg THEN "record" ELSE "package"
    /\ UNCHANGED <<zMjpg, zOwn, zFrame, zPos, zPacked, zRoom, zSent>>

\* With the lock: the slot grows if the check says so, and the frame is copied into it.
CopyFrame ==
    /\ zPc = "copy" /\ zFrame.size <= NewRoom
    /\ zMax' = NewMax /\ zCurrent' = zPos /\ zCopied' = zFrame
    /\ zSlot' = [zSlot EXCEPT ![zPos] = [room |-> NewRoom, frame |-> zFrame.number]]
    /\ zPc' = IF zMjpg THEN "record" ELSE "package"
    /\ UNCHANGED <<zMjpg, zOwn, zFrame, zPos, zPacked, zRoom, zSent>>

\* The frame is no larger than max_frame_size, but this slot has not grown with it.
CopyOverruns ==
    /\ zPc = "copy" /\ zFrame.size > NewRoom /\ zPc' = "overrun"
    /\ UNCHANGED <<zMjpg, zOwn, zFrame, zPos, zSlot, zCurrent, zMax, zCopied, zPacked, zRoom, zSent>>

\* realloc() fails: the thread returns, with max_frame_size already raised.
CopyFails ==
    /\ zPc = "copy" /\ (zFrame.size > zMax \/ zSlot[zPos].room = 0) /\ zPc' = "ended"
    /\ zMax' = NewMax /\ zCurrent' = IF zSlot[zPos].room = 0 THEN 0 ELSE zPos
    /\ UNCHANGED <<zMjpg, zOwn, zFrame, zPos, zSlot, zCopied, zPacked, zRoom, zSent>>

\* buf grows with max_frame_size.
BufferRoom == IF zRoom < zMax * ZmqBufferSize THEN zMax * ZmqBufferSize ELSE zRoom

\* The frame enters the package; the last one sends it (a failure of zmq_send() is only logged).
Package ==
    /\ zPc = "package" /\ zPc' = "wait" /\ zRoom' = BufferRoom
    /\ zPacked' = [zPacked EXCEPT ![zPos] = [number |-> zCopied.number, len |-> zCopied.size]]
    /\ IF zPos = ZmqBufferSize
       THEN zSent' = zPacked' /\ zPos' = 1
       ELSE zPos' = zPos + 1 /\ UNCHANGED zSent
    /\ UNCHANGED <<zMjpg, zOwn, zFrame, zSlot, zCurrent, zMax, zCopied>>

\* MJPG mode: the frame is written to the standard output, always from the first slot; what fwrite()
\* returns is unsigned and so never below 0.
Record ==
    /\ zPc = "record" /\ zPc' = "wait"
    /\ UNCHANGED <<zMjpg, zOwn, zFrame, zPos, zSlot, zCurrent, zMax, zCopied, zPacked, zRoom, zSent>>

\* The room of the buffer that frame points to.
TakeRoom == IF zCurrent = 0 THEN zOwn ELSE zSlot[zCurrent].room

\* output_cmd(), OUT_FILE_CMD_TAKE: it copies the frame of the moment into the slot that the worker used
\* last, if max_frame_size says that it fits.
ZmqTake ==
    /\ zPc \in {"wait", "package", "record"} /\ zFrame.size <= zMax
    /\ IF zFrame.size <= TakeRoom
       THEN zSlot' = [s \in ZSlots |-> IF s = zCurrent THEN [zSlot[s] EXCEPT !.frame = zFrame.number] ELSE zSlot[s]] /\ UNCHANGED zPc
       ELSE zPc' = "takeOverrun" /\ UNCHANGED zSlot
    /\ UNCHANGED <<zMjpg, zOwn, zFrame, zPos, zCurrent, zMax, zCopied, zPacked, zRoom, zSent>>

\* A larger frame: realloc() makes frame larger where it is, or moves it away from the worker's slot,
\* which is then left with memory given back.  Before the first frame it is a buffer of its own.
TakeGrows(moved) ==
    /\ zPc \in {"wait", "package", "record"} /\ zFrame.size > zMax /\ zMax' = zFrame.size + ZmqSlack
    /\ zPc' = IF moved /\ zCurrent # 0 THEN "dangling" ELSE zPc
    /\ zSlot' = [s \in ZSlots |-> IF s = zCurrent /\ ~moved THEN [room |-> zMax', frame |-> zFrame.number] ELSE zSlot[s]]
    /\ zOwn' = IF zCurrent = 0 THEN zMax' ELSE zOwn
    /\ UNCHANGED <<zMjpg, zFrame, zPos, zCurrent, zCopied, zPacked, zRoom, zSent>>

\* ... or fails: the command ends, with max_frame_size already raised.
TakeFails ==
    /\ zPc \in {"wait", "package", "record"} /\ zFrame.size > zMax /\ zMax' = zFrame.size + ZmqSlack
    /\ UNCHANGED <<zPc, zMjpg, zOwn, zFrame, zPos, zSlot, zCurrent, zCopied, zPacked, zRoom, zSent>>

ZmqNext ==
    \/ \E size \in FrameSizes : ZmqPublish(size)
    \/ WakeSpuriously \/ CopyFrame \/ CopyOverruns \/ CopyFails \/ Package \/ Record
    \/ ZmqTake \/ (\E moved \in BOOLEAN : TakeGrows(moved)) \/ TakeFails

ZmqSpec == ZmqInit /\ [][ZmqNext]_zmqVars

-----------------------------------------------------------------------------
(* Properties *)

ZmqTypeOK ==
    /\ zPc \in {"wait", "copy", "package", "record", "ended", "overrun", "takeOverrun", "dangling"}
    /\ zPos \in ZSlots /\ zMax \in Nat /\ zRoom \in Nat

\* "check if buffer for frame is large enough, increase it if necessary" (output_zmqserver.c:295) compares the
\* frame with the one max_frame_size.  That a frame is written past the end of its buffer has no other
\* cause than that max_frame_size grew for another slot, or for an allocation that failed.
OverrunOnlyBehindMax ==
    /\ zPc = "overrun" => zFrame.size <= zMax /\ zSlot[zPos].room \in 1 .. zMax - 1
    /\ zPc = "takeOverrun" => zFrame.size <= zMax /\ TakeRoom < zMax

\* A message has the last zmqBufferSize frames that the worker took, in the order of their numbers, and the
\* buffer it was packed into has room for as many of the size of any of them.
MessageInOrder ==
    zSent # <<>> =>
        /\ \A s, r \in ZSlots : s < r => zSent[s].number <= zSent[r].number
        /\ \A s \in ZSlots : zSent[s].len * ZmqBufferSize <= zRoom

\* The slot of a packed frame holds that frame, or a newer one that a command for a picture put there.
PackedIsThere == \A s \in ZSlots : zPacked[s].number <= zSlot[s].frame

\* A message of output_zmqserver has the frames that its worker took, in order, each from the slot it was packed for;
\* a slot that is too small for its frame has one cause.
FramesPacked == MessageInOrder /\ PackedIsThere /\ OverrunOnlyBehindMax
=============================================================================
