-------------------------- MODULE FrameBufferProofs --------------------------
(***************************************************************************)
(* Proofs about FrameBuffer for any sets of stream and snapshot clients,   *)
(* any number of pictures and any picture sizes.                           *)
(***************************************************************************)
EXTENDS FrameBuffer, TLAPS

\* Who holds db is what the control points say, and the blocked clients are the
\* ones in pthread_cond_wait().
LockInv ==
    /\ db = "cam" <=> camPc \in CamLocked
    /\ \A c \in Clients : db = c <=> pc[c] \in ClientLocked
    /\ \A c \in waiting : pc[c] = "blocked"

\* The bytes hold picture n, unless n is empty.
Holds(bytes, n) == FrameSize[n] > 0 => bytes = [head |-> n, tail |-> n]

\* What the shared buffer holds at each control point of cam_thread.
BufferInv ==
    /\ buf.live <=> camPc \notin {"clear", "ended"}
    /\ camPc = "copying" => (FrameSize[tmp] > 0 => buf.bytes.head = tmp)
    /\ camPc = "stamp" => size = FrameSize[tmp] /\ Holds(buf.bytes, tmp)
    /\ (buf.live /\ camPc \notin {"copying", "stamp"}) =>
          size = FrameSize[timestamp] /\ Holds(buf.bytes, timestamp)

\* What a client's copy holds at each control point of the client.
CopyInv(c) ==
    /\ pc[c] = "copy" => frameSize[c] = size
    /\ pc[c] \in {"copying", "unlock"} => frameSize[c] = size /\ frameTime[c] = timestamp
    /\ pc[c] = "copying" => (FrameSize[timestamp] > 0 => frame[c].head = timestamp)
    /\ pc[c] = "unlock" => Holds(frame[c], timestamp)
    /\ pc[c] = "write" => /\ frameSize[c] = FrameSize[frameTime[c]]
                          /\ Holds(frame[c], frameTime[c])

CopiesInv == buf.live => \A c \in Clients : CopyInv(c)

\* Pictures are taken, published and copied in this order.
OrderInv ==
    /\ taken = tmp
    /\ timestamp <= tmp
    /\ \A c \in Clients : frameTime[c] <= timestamp

-----------------------------------------------------------------------------
\* The empty copy a client starts with has the type of a picture's bytes.
LEMMA BlankBytes == Blank \in Bytes /\ 0 \in Frames
BY SizeAssumption DEF Blank, Bytes, Frames

\* Every step of cam_thread, of a client or of the signal handler keeps the types.
LEMMA TypeStep == ASSUME TypeOK, [Next]_vars PROVE TypeOK'
<1> USE DEF TypeOK, Frames, bufVars, camVars, clientVars, CamPcs, ClientPcs, CamLocked, ClientLocked
<1>1. CASE CamGrab
  BY <1>1, SizeAssumption DEF CamGrab
<1>2. CASE CamGrabEmpty
  BY Zenon, <1>2 DEF CamGrabEmpty
<1>3. CASE CamDrop
  BY <1>3, SizeAssumption DEF CamDrop
<1>4. CASE CamLock
  BY Zenon, <1>4 DEF CamLock, Lock
<1>5. CASE CamCopy
  BY Zenon, <1>5 DEF CamCopy, Written, Bytes
<1>6. CASE CamCopied
  BY ZenonT(30), <1>6, SizeAssumption DEF CamCopied, Written, Bytes
<1>7. CASE CamStamp
  BY Zenon, <1>7 DEF CamStamp
<1>8. CASE CamBroadcast
  BY Zenon, <1>8 DEF CamBroadcast
<1>9. CASE CamUnlock
  BY Zenon, <1>9 DEF CamUnlock, Unlock
<1>10. CASE CamStop
  BY Zenon, <1>10 DEF CamStop
<1>11. CASE CamFail
  BY Zenon, <1>11 DEF CamFail
<1>12. CASE CamFree
  BY ZenonT(30), <1>12 DEF CamFree
<1>13. CASE CamClear
  BY Zenon, <1>13 DEF CamClear
<1>14. ASSUME NEW c \in Clients, StreamHeader(c) PROVE TypeOK'
  BY Zenon, <1>14 DEF StreamHeader, ToPc
<1>15. ASSUME NEW c \in Clients, StreamStop(c) PROVE TypeOK'
  BY Zenon, <1>15 DEF StreamStop, ToPc
<1>16. ASSUME NEW c \in Clients, ClientLock(c) PROVE TypeOK'
  BY Zenon, <1>16 DEF ClientLock, Lock, ToPc
<1>17. ASSUME NEW c \in Clients, ClientWait(c) PROVE TypeOK'
  BY Zenon, <1>17 DEF ClientWait, Unlock, ToPc
<1>18. ASSUME NEW c \in Clients, ClientRelock(c) PROVE TypeOK'
  BY Zenon, <1>18 DEF ClientRelock, Lock, ToPc
<1>19. ASSUME NEW c \in Clients, ClientRead(c) PROVE TypeOK'
  BY SMTT(30), <1>19, SizeAssumption DEF ClientRead, ToPc
<1>20. ASSUME NEW c \in Clients, ClientNoMemory(c) PROVE TypeOK'
  BY Zenon, <1>20, SizeAssumption DEF ClientNoMemory, ToPc
<1>21. ASSUME NEW c \in Clients, ClientNoMemoryUnlock(c) PROVE TypeOK'
  BY Zenon, <1>21 DEF ClientNoMemoryUnlock, Unlock, ToPc
<1>22. ASSUME NEW c \in Clients, ClientError(c) PROVE TypeOK'
  BY Zenon, <1>22 DEF ClientError, ToPc
<1>23. ASSUME NEW c \in Clients, ClientCopy(c) PROVE TypeOK'
  <2>1. PICK half \in Readable(c, frame[c].head, buf.bytes.head) :
               frame' = [frame EXCEPT ![c].head = half]
    BY ZenonT(30), <1>23 DEF ClientCopy
  <2>2. half \in Frames
    BY DEF Readable, Bytes
  <2>3. frame' \in [Clients -> Bytes]
    BY Zenon, <2>1, <2>2 DEF Bytes
  <2> QED BY Zenon, <1>23, <2>3 DEF ClientCopy, ToPc
<1>24. ASSUME NEW c \in Clients, ClientCopied(c) PROVE TypeOK'
  <2>1. PICK half \in Readable(c, frame[c].tail, buf.bytes.tail) :
               frame' = [frame EXCEPT ![c].tail = half]
    BY ZenonT(30), <1>24 DEF ClientCopied
  <2>2. half \in Frames
    BY DEF Readable, Bytes
  <2>3. frame' \in [Clients -> Bytes]
    BY Zenon, <2>1, <2>2 DEF Bytes
  <2> QED BY Zenon, <1>24, <2>3 DEF ClientCopied, ToPc
<1>25. ASSUME NEW c \in Clients, ClientUnlock(c) PROVE TypeOK'
  BY Zenon, <1>25 DEF ClientUnlock, Unlock, ToPc
<1>26. ASSUME NEW c \in Clients, ClientWrite(c) PROVE TypeOK'
  BY Zenon, <1>26 DEF ClientWrite, ToPc
<1>27. ASSUME NEW c \in Clients, SpuriousWakeup(c) PROVE TypeOK'
  BY Zenon, <1>27 DEF SpuriousWakeup, ToPc
<1>28. ASSUME NEW c \in Clients, Accept(c) PROVE TypeOK'
  BY Zenon, <1>28, BlankBytes DEF Accept, ToPc
<1>29. CASE SetStop
  BY Zenon, <1>29 DEF SetStop
<1>30. CASE InputStop
  BY Zenon, <1>30 DEF InputStop
<1>31. CASE UNCHANGED vars
  BY Zenon, <1>31 DEF vars
<1> QED BY ZenonT(30), <1>1, <1>2, <1>3, <1>4, <1>5, <1>6, <1>7, <1>8, <1>9, <1>10, <1>11, <1>12,
          <1>13, <1>14, <1>15, <1>16, <1>17, <1>18, <1>19, <1>20, <1>21, <1>22, <1>23,
          <1>24, <1>25, <1>26, <1>27, <1>28, <1>29, <1>30, <1>31
       DEF Next, Cam, Client

\* TypeOK is an invariant of the buffer protocol.
THEOREM TypeCorrect == Spec => []TypeOK
<1>1. Init => TypeOK
  <2>1. Init => buf \in [bytes : Bytes, live : BOOLEAN]
    BY BlankBytes DEF Init
  <2>2. Init => fresh \in [Clients -> BOOLEAN] /\ stop \in BOOLEAN /\ cancelled \in BOOLEAN
    BY ZenonT(30) DEF Init
  <2>3. Init => /\ db \in Clients \cup {"cam", "none"} /\ waiting \subseteq Clients
                /\ size \in Nat /\ timestamp \in Frames /\ tmp \in Frames /\ taken \in Frames
                /\ camPc \in CamPcs
    BY BlankBytes DEF Init, CamPcs
  <2>4. Init => /\ pc \in [Clients -> ClientPcs] /\ frame \in [Clients -> Bytes]
                /\ frameSize \in [Clients -> Nat] /\ frameTime \in [Clients -> Frames]
                /\ capacity \in [Clients -> Nat]
    BY BlankBytes DEF Init, ClientPcs
  <2> QED BY Zenon, <2>1, <2>2, <2>3, <2>4 DEF TypeOK
<1> QED BY <1>1, TypeStep, PTL DEF Spec

-----------------------------------------------------------------------------
\* Every step keeps the mutex: only a thread inside its critical section owns db.
LEMMA LockStep == ASSUME TypeOK, LockInv, [Next]_vars PROVE LockInv'
<1> USE DEF TypeOK, LockInv, bufVars, camVars, clientVars, CamPcs, ClientPcs, CamLocked, ClientLocked
<1>1. CASE CamGrab
  BY Zenon, <1>1, ClientsAssumption DEF CamGrab
<1>2. CASE CamGrabEmpty
  BY Zenon, <1>2, ClientsAssumption DEF CamGrabEmpty
<1>3. CASE CamDrop
  BY Zenon, <1>3, ClientsAssumption DEF CamDrop
<1>4. CASE CamLock
  BY <1>4, ClientsAssumption DEF CamLock, Lock
<1>5. CASE CamCopy
  BY Zenon, <1>5, ClientsAssumption DEF CamCopy
<1>6. CASE CamCopied
  BY Zenon, <1>6, ClientsAssumption DEF CamCopied
<1>7. CASE CamStamp
  BY Zenon, <1>7, ClientsAssumption DEF CamStamp
<1>8. CASE CamBroadcast
  BY Zenon, <1>8, ClientsAssumption DEF CamBroadcast
<1>9. CASE CamUnlock
  BY <1>9, ClientsAssumption DEF CamUnlock, Unlock
<1>10. CASE CamStop
  BY Zenon, <1>10, ClientsAssumption DEF CamStop
<1>11. CASE CamFail
  BY Zenon, <1>11, ClientsAssumption DEF CamFail
<1>12. CASE CamFree
  BY Zenon, <1>12, ClientsAssumption DEF CamFree
<1>13. CASE CamClear
  BY Zenon, <1>13, ClientsAssumption DEF CamClear
<1>14. ASSUME NEW c \in Clients, StreamHeader(c) PROVE LockInv'
  BY <1>14, ClientsAssumption DEF StreamHeader, ToPc
<1>15. ASSUME NEW c \in Clients, StreamStop(c) PROVE LockInv'
  BY Zenon, <1>15, ClientsAssumption DEF StreamStop, ToPc
<1>16. ASSUME NEW c \in Clients, ClientLock(c) PROVE LockInv'
  BY <1>16, ClientsAssumption DEF ClientLock, Lock, ToPc
<1>17. ASSUME NEW c \in Clients, ClientWait(c) PROVE LockInv'
  BY <1>17, ClientsAssumption DEF ClientWait, Unlock, ToPc
<1>18. ASSUME NEW c \in Clients, ClientRelock(c) PROVE LockInv'
  BY <1>18, ClientsAssumption DEF ClientRelock, Lock, ToPc
<1>19. ASSUME NEW c \in Clients, ClientRead(c) PROVE LockInv'
  BY Zenon, <1>19, ClientsAssumption DEF ClientRead, ToPc
<1>20. ASSUME NEW c \in Clients, ClientNoMemory(c) PROVE LockInv'
  BY Zenon, <1>20, ClientsAssumption DEF ClientNoMemory, ToPc
<1>21. ASSUME NEW c \in Clients, ClientNoMemoryUnlock(c) PROVE LockInv'
  BY Zenon, <1>21, ClientsAssumption DEF ClientNoMemoryUnlock, Unlock, ToPc
<1>22. ASSUME NEW c \in Clients, ClientError(c) PROVE LockInv'
  BY Zenon, <1>22, ClientsAssumption DEF ClientError, ToPc
<1>23. ASSUME NEW c \in Clients, ClientCopy(c) PROVE LockInv'
  BY Zenon, <1>23, ClientsAssumption DEF ClientCopy, ToPc
<1>24. ASSUME NEW c \in Clients, ClientCopied(c) PROVE LockInv'
  BY Zenon, <1>24, ClientsAssumption DEF ClientCopied, ToPc
<1>25. ASSUME NEW c \in Clients, ClientUnlock(c) PROVE LockInv'
  BY Zenon, <1>25, ClientsAssumption DEF ClientUnlock, Unlock, ToPc
<1>26. ASSUME NEW c \in Clients, ClientWrite(c) PROVE LockInv'
  BY <1>26, ClientsAssumption DEF ClientWrite, ToPc
<1>27. ASSUME NEW c \in Clients, SpuriousWakeup(c) PROVE LockInv'
  BY Zenon, <1>27, ClientsAssumption DEF SpuriousWakeup, ToPc
<1>28. ASSUME NEW c \in Clients, Accept(c) PROVE LockInv'
  BY Zenon, <1>28, ClientsAssumption DEF Accept, ToPc
<1>29. CASE SetStop
  BY Zenon, <1>29, ClientsAssumption DEF SetStop
<1>30. CASE InputStop
  BY Zenon, <1>30, ClientsAssumption DEF InputStop
<1>31. CASE UNCHANGED vars
  BY Zenon, <1>31, ClientsAssumption DEF vars
<1> QED BY Zenon, <1>1, <1>2, <1>3, <1>4, <1>5, <1>6, <1>7, <1>8, <1>9, <1>10, <1>11, <1>12,
          <1>13, <1>14, <1>15, <1>16, <1>17, <1>18, <1>19, <1>20, <1>21, <1>22, <1>23,
          <1>24, <1>25, <1>26, <1>27, <1>28, <1>29, <1>30, <1>31
       DEF Next, Cam, Client

\* db is held by cam_thread exactly between its lock and its unlock, and by a client
\* exactly inside send_stream()'s and send_snapshot()'s critical section.
THEOREM MutualExclusion == Spec => []LockInv
<1>1. Init => LockInv
  BY Zenon, ClientsAssumption DEF Init, LockInv, CamLocked, ClientLocked
<1> QED BY <1>1, TypeCorrect, LockStep, PTL DEF Spec

-----------------------------------------------------------------------------
\* Every step keeps the order in which pictures are taken, published and copied.
LEMMA OrderStep == ASSUME TypeOK, TypeOK', OrderInv, [Next]_vars PROVE OrderInv'
<1> USE DEF TypeOK, OrderInv, Frames, bufVars, camVars, clientVars
<1>1. CASE CamGrab
  BY <1>1, SizeAssumption DEF CamGrab
<1>2. CASE CamGrabEmpty
  BY Zenon, <1>2 DEF CamGrabEmpty
<1>3. CASE CamDrop
  BY <1>3, SizeAssumption DEF CamDrop
<1>4. CASE CamLock
  BY Zenon, <1>4 DEF CamLock, Lock
<1>5. CASE CamCopy
  BY Zenon, <1>5 DEF CamCopy, Written
<1>6. CASE CamCopied
  BY Zenon, <1>6 DEF CamCopied, Written
<1>7. CASE CamStamp
  BY <1>7 DEF CamStamp
<1>8. CASE CamBroadcast
  BY Zenon, <1>8 DEF CamBroadcast
<1>9. CASE CamUnlock
  BY Zenon, <1>9 DEF CamUnlock, Unlock
<1>10. CASE CamStop
  BY Zenon, <1>10 DEF CamStop
<1>11. CASE CamFail
  BY Zenon, <1>11 DEF CamFail
<1>12. CASE CamFree
  BY Zenon, <1>12 DEF CamFree
<1>13. CASE CamClear
  BY Zenon, <1>13 DEF CamClear
<1>14. ASSUME NEW c \in Clients, StreamHeader(c) PROVE OrderInv'
  BY Zenon, <1>14 DEF StreamHeader, ToPc
<1>15. ASSUME NEW c \in Clients, StreamStop(c) PROVE OrderInv'
  BY Zenon, <1>15 DEF StreamStop, ToPc
<1>16. ASSUME NEW c \in Clients, ClientLock(c) PROVE OrderInv'
  BY Zenon, <1>16 DEF ClientLock, Lock, ToPc
<1>17. ASSUME NEW c \in Clients, ClientWait(c) PROVE OrderInv'
  BY Zenon, <1>17 DEF ClientWait, Unlock, ToPc
<1>18. ASSUME NEW c \in Clients, ClientRelock(c) PROVE OrderInv'
  BY Zenon, <1>18 DEF ClientRelock, Lock, ToPc
<1>19. ASSUME NEW c \in Clients, ClientRead(c) PROVE OrderInv'
  BY Zenon, <1>19 DEF ClientRead, ToPc
<1>20. ASSUME NEW c \in Clients, ClientNoMemory(c) PROVE OrderInv'
  BY Zenon, <1>20 DEF ClientNoMemory, ToPc
<1>21. ASSUME NEW c \in Clients, ClientNoMemoryUnlock(c) PROVE OrderInv'
  BY Zenon, <1>21 DEF ClientNoMemoryUnlock, Unlock, ToPc
<1>22. ASSUME NEW c \in Clients, ClientError(c) PROVE OrderInv'
  BY Zenon, <1>22 DEF ClientError, ToPc
<1>23. ASSUME NEW c \in Clients, ClientCopy(c) PROVE OrderInv'
  BY <1>23 DEF ClientCopy, ToPc
<1>24. ASSUME NEW c \in Clients, ClientCopied(c) PROVE OrderInv'
  BY Zenon, <1>24 DEF ClientCopied, ToPc
<1>25. ASSUME NEW c \in Clients, ClientUnlock(c) PROVE OrderInv'
  BY Zenon, <1>25 DEF ClientUnlock, Unlock, ToPc
<1>26. ASSUME NEW c \in Clients, ClientWrite(c) PROVE OrderInv'
  BY Zenon, <1>26 DEF ClientWrite, ToPc
<1>27. ASSUME NEW c \in Clients, SpuriousWakeup(c) PROVE OrderInv'
  BY Zenon, <1>27 DEF SpuriousWakeup, ToPc
<1>28. ASSUME NEW c \in Clients, Accept(c) PROVE OrderInv'
  BY <1>28, SizeAssumption DEF Accept, ToPc
<1>29. CASE SetStop
  BY Zenon, <1>29 DEF SetStop
<1>30. CASE InputStop
  BY Zenon, <1>30 DEF InputStop
<1>31. CASE UNCHANGED vars
  BY Zenon, <1>31 DEF vars
<1> QED BY Zenon, <1>1, <1>2, <1>3, <1>4, <1>5, <1>6, <1>7, <1>8, <1>9, <1>10, <1>11, <1>12,
          <1>13, <1>14, <1>15, <1>16, <1>17, <1>18, <1>19, <1>20, <1>21, <1>22, <1>23,
          <1>24, <1>25, <1>26, <1>27, <1>28, <1>29, <1>30, <1>31
       DEF Next, Cam, Client

\* Every step of cam_thread keeps the shared buffer whole outside its critical section.
LEMMA BufferStep == ASSUME TypeOK, LockInv, BufferInv, [Next]_vars PROVE BufferInv'
<1> USE DEF TypeOK, BufferInv, Holds, Frames, bufVars, camVars, clientVars, CamPcs, CamLocked
<1>1. CASE CamGrab
  BY Zenon, <1>1, SizeAssumption DEF CamGrab
<1>2. CASE CamGrabEmpty
  BY Zenon, <1>2, SizeAssumption DEF CamGrabEmpty
<1>3. CASE CamDrop
  BY Zenon, <1>3, SizeAssumption DEF CamDrop
<1>4. CASE CamLock
  BY Zenon, <1>4, SizeAssumption DEF CamLock, Lock
<1>5. CASE CamCopy
  BY <1>5, SizeAssumption DEF CamCopy, Written, Bytes
<1>6. CASE CamCopied
  BY SMTT(30), <1>6, SizeAssumption DEF CamCopied, Written, Bytes
<1>7. CASE CamStamp
  BY Zenon, <1>7, SizeAssumption DEF CamStamp
<1>8. CASE CamBroadcast
  BY Zenon, <1>8, SizeAssumption DEF CamBroadcast
<1>9. CASE CamUnlock
  BY Zenon, <1>9, SizeAssumption DEF CamUnlock, Unlock
<1>10. CASE CamStop
  BY Zenon, <1>10, SizeAssumption DEF CamStop
<1>11. CASE CamFail
  BY Zenon, <1>11, SizeAssumption DEF CamFail
<1>12. CASE CamFree
  BY Zenon, <1>12, SizeAssumption DEF CamFree
<1>13. CASE CamClear
  BY Zenon, <1>13, SizeAssumption DEF CamClear
<1>14. ASSUME NEW c \in Clients, StreamHeader(c) PROVE BufferInv'
  BY Zenon, <1>14 DEF StreamHeader, ToPc
<1>15. ASSUME NEW c \in Clients, StreamStop(c) PROVE BufferInv'
  BY Zenon, <1>15 DEF StreamStop, ToPc
<1>16. ASSUME NEW c \in Clients, ClientLock(c) PROVE BufferInv'
  BY Zenon, <1>16 DEF ClientLock, Lock, ToPc
<1>17. ASSUME NEW c \in Clients, ClientWait(c) PROVE BufferInv'
  BY Zenon, <1>17 DEF ClientWait, Unlock, ToPc
<1>18. ASSUME NEW c \in Clients, ClientRelock(c) PROVE BufferInv'
  BY Zenon, <1>18 DEF ClientRelock, Lock, ToPc
<1>19. ASSUME NEW c \in Clients, ClientRead(c) PROVE BufferInv'
  BY Zenon, <1>19 DEF ClientRead, ToPc
<1>20. ASSUME NEW c \in Clients, ClientNoMemory(c) PROVE BufferInv'
  BY Zenon, <1>20 DEF ClientNoMemory, ToPc
<1>21. ASSUME NEW c \in Clients, ClientNoMemoryUnlock(c) PROVE BufferInv'
  BY Zenon, <1>21 DEF ClientNoMemoryUnlock, Unlock, ToPc
<1>22. ASSUME NEW c \in Clients, ClientError(c) PROVE BufferInv'
  BY Zenon, <1>22 DEF ClientError, ToPc
<1>23. ASSUME NEW c \in Clients, ClientCopy(c) PROVE BufferInv'
  BY Zenon, <1>23 DEF ClientCopy, ToPc
<1>24. ASSUME NEW c \in Clients, ClientCopied(c) PROVE BufferInv'
  BY Zenon, <1>24 DEF ClientCopied, ToPc
<1>25. ASSUME NEW c \in Clients, ClientUnlock(c) PROVE BufferInv'
  BY Zenon, <1>25 DEF ClientUnlock, Unlock, ToPc
<1>26. ASSUME NEW c \in Clients, ClientWrite(c) PROVE BufferInv'
  BY Zenon, <1>26 DEF ClientWrite, ToPc
<1>27. ASSUME NEW c \in Clients, SpuriousWakeup(c) PROVE BufferInv'
  BY Zenon, <1>27 DEF SpuriousWakeup, ToPc
<1>28. ASSUME NEW c \in Clients, Accept(c) PROVE BufferInv'
  BY Zenon, <1>28 DEF Accept, ToPc
<1>29. CASE SetStop
  BY Zenon, <1>29 DEF SetStop
<1>30. CASE InputStop
  BY Zenon, <1>30 DEF InputStop
<1>31. CASE UNCHANGED vars
  BY Zenon, <1>31 DEF vars
<1> QED BY ZenonT(30), <1>1, <1>2, <1>3, <1>4, <1>5, <1>6, <1>7, <1>8, <1>9, <1>10, <1>11, <1>12,
          <1>13, <1>14, <1>15, <1>16, <1>17, <1>18, <1>19, <1>20, <1>21, <1>22, <1>23,
          <1>24, <1>25, <1>26, <1>27, <1>28, <1>29, <1>30, <1>31
       DEF Next, Cam, Client

\* Every step keeps what the copies of the clients hold.
LEMMA CopyStep ==
    ASSUME TypeOK, LockInv, BufferInv, CopiesInv, [Next]_vars PROVE CopiesInv'
<1> USE DEF TypeOK, LockInv, BufferInv, CopiesInv, CopyInv, Holds, Frames, bufVars, camVars, clientVars, CamPcs,
        ClientPcs, CamLocked, ClientLocked
<1>1. CASE CamGrab
  BY Zenon, <1>1, SizeAssumption, ClientsAssumption DEF CamGrab
<1>2. CASE CamGrabEmpty
  BY Zenon, <1>2, SizeAssumption, ClientsAssumption DEF CamGrabEmpty
<1>3. CASE CamDrop
  BY Zenon, <1>3, SizeAssumption, ClientsAssumption DEF CamDrop
<1>4. CASE CamLock
  BY Zenon, <1>4, SizeAssumption, ClientsAssumption DEF CamLock, Lock
<1>5. CASE CamCopy
  BY ZenonT(30), <1>5, SizeAssumption, ClientsAssumption DEF CamCopy, Written, Bytes
<1>6. CASE CamCopied
  <2>1. \A c \in Clients : pc[c] \notin ClientLocked
    BY <1>6, ClientsAssumption DEF CamCopied
  <2>2. buf.live' = buf.live
    BY Zenon, <1>6 DEF CamCopied
  <2> QED BY Zenon, <1>6, <2>1, <2>2 DEF CamCopied
<1>7. CASE CamStamp
  BY <1>7, SizeAssumption, ClientsAssumption DEF CamStamp
<1>8. CASE CamBroadcast
  BY Zenon, <1>8, SizeAssumption, ClientsAssumption DEF CamBroadcast
<1>9. CASE CamUnlock
  BY Zenon, <1>9, SizeAssumption, ClientsAssumption DEF CamUnlock, Unlock
<1>10. CASE CamStop
  BY Zenon, <1>10, SizeAssumption, ClientsAssumption DEF CamStop
<1>11. CASE CamFail
  BY Zenon, <1>11, SizeAssumption, ClientsAssumption DEF CamFail
<1>12. CASE CamFree
  BY Zenon, <1>12, SizeAssumption, ClientsAssumption DEF CamFree
<1>13. CASE CamClear
  BY Zenon, <1>13, SizeAssumption, ClientsAssumption DEF CamClear
<1>14. ASSUME NEW c \in Clients, StreamHeader(c) PROVE CopiesInv'
  BY SMTT(30), <1>14, SizeAssumption, ClientsAssumption DEF StreamHeader, ToPc
<1>15. ASSUME NEW c \in Clients, StreamStop(c) PROVE CopiesInv'
  BY SMTT(30), <1>15, SizeAssumption, ClientsAssumption DEF StreamStop, ToPc
<1>16. ASSUME NEW c \in Clients, ClientLock(c) PROVE CopiesInv'
  BY SMTT(30), <1>16, SizeAssumption, ClientsAssumption DEF ClientLock, Lock, ToPc
<1>17. ASSUME NEW c \in Clients, ClientWait(c) PROVE CopiesInv'
  BY SMTT(30), <1>17, SizeAssumption, ClientsAssumption DEF ClientWait, Unlock, ToPc
<1>18. ASSUME NEW c \in Clients, ClientRelock(c) PROVE CopiesInv'
  BY <1>18, SizeAssumption, ClientsAssumption DEF ClientRelock, Lock, ToPc
<1>19. ASSUME NEW c \in Clients, ClientRead(c) PROVE CopiesInv'
  BY <1>19, SizeAssumption, ClientsAssumption DEF ClientRead, ToPc
<1>20. ASSUME NEW c \in Clients, ClientNoMemory(c) PROVE CopiesInv'
  BY <1>20, SizeAssumption, ClientsAssumption DEF ClientNoMemory, ToPc
<1>21. ASSUME NEW c \in Clients, ClientNoMemoryUnlock(c) PROVE CopiesInv'
  BY <1>21, SizeAssumption, ClientsAssumption DEF ClientNoMemoryUnlock, Unlock, ToPc
<1>22. ASSUME NEW c \in Clients, ClientError(c) PROVE CopiesInv'
  BY <1>22, SizeAssumption, ClientsAssumption DEF ClientError, ToPc
<1>23. ASSUME NEW c \in Clients, ClientCopy(c) PROVE CopiesInv'
  <2>1. SUFFICES ASSUME buf.live, NEW d \in Clients PROVE CopyInv(d)'
    BY ZenonT(30), <1>23 DEF ClientCopy
  <2>2. db = c /\ camPc \notin CamLocked /\ (d # c => pc[d] \notin ClientLocked)
    BY <1>23, ClientsAssumption DEF ClientCopy
  <2>3. CASE d = c
    <3>1. frameSize[c] = size /\ size = FrameSize[timestamp] /\ Holds(buf.bytes, timestamp)
      BY Zenon, <1>23, <2>1, <2>2, <2>3 DEF ClientCopy
    <3>2. FrameSize[timestamp] > 0 => frame'[c].head = timestamp
      BY <1>23, <2>1, <3>1 DEF ClientCopy, Readable, Bytes
    <3> QED BY <1>23, <2>3, <3>1, <3>2 DEF ClientCopy, ToPc
  <2>4. CASE d # c
    BY <1>23, <2>1, <2>2, <2>4 DEF ClientCopy, ToPc
  <2> QED BY Zenon, <2>3, <2>4
<1>24. ASSUME NEW c \in Clients, ClientCopied(c) PROVE CopiesInv'
  BY SMTT(30), <1>24, SizeAssumption, ClientsAssumption DEF ClientCopied, ToPc, Bytes, Readable
<1>25. ASSUME NEW c \in Clients, ClientUnlock(c) PROVE CopiesInv'
  BY SMTT(30), <1>25, SizeAssumption, ClientsAssumption DEF ClientUnlock, Unlock, ToPc
<1>26. ASSUME NEW c \in Clients, ClientWrite(c) PROVE CopiesInv'
  BY SMTT(30), <1>26, SizeAssumption, ClientsAssumption DEF ClientWrite, ToPc
<1>27. ASSUME NEW c \in Clients, SpuriousWakeup(c) PROVE CopiesInv'
  BY <1>27, SizeAssumption, ClientsAssumption DEF SpuriousWakeup, ToPc
<1>28. ASSUME NEW c \in Clients, Accept(c) PROVE CopiesInv'
  BY SMTT(30), <1>28, SizeAssumption, ClientsAssumption DEF Accept, ToPc
<1>29. CASE SetStop
  BY Zenon, <1>29, SizeAssumption, ClientsAssumption DEF SetStop
<1>30. CASE InputStop
  BY Zenon, <1>30, SizeAssumption, ClientsAssumption DEF InputStop
<1>31. CASE UNCHANGED vars
  BY Zenon, <1>31, SizeAssumption, ClientsAssumption DEF vars
<1> QED BY ZenonT(30), <1>1, <1>2, <1>3, <1>4, <1>5, <1>6, <1>7, <1>8, <1>9, <1>10, <1>11, <1>12,
          <1>13, <1>14, <1>15, <1>16, <1>17, <1>18, <1>19, <1>20, <1>21, <1>22, <1>23,
          <1>24, <1>25, <1>26, <1>27, <1>28, <1>29, <1>30, <1>31
       DEF Next, Cam, Client

\* The conjunction that the properties of the copies follow from.
PictureInv == TypeOK /\ LockInv /\ OrderInv /\ BufferInv /\ CopiesInv

\* The order of the pictures, the shared buffer and the copies are as stated, always.
THEOREM PictureInvariant == Spec => []PictureInv
<1>1. Init => OrderInv /\ BufferInv /\ CopiesInv
  BY SizeAssumption DEF Init, OrderInv, BufferInv, CopiesInv, CopyInv, Holds, Frames
<1>2. PictureInv /\ [Next]_vars => PictureInv'
  BY Zenon, TypeStep, LockStep, OrderStep, BufferStep, CopyStep DEF PictureInv
<1> QED BY <1>1, <1>2, TypeCorrect, MutualExclusion, PTL DEF Spec, PictureInv

\* No client ever sends a mixture of pictures: NoTornFrame holds for any number of
\* clients and pictures, whatever sizes the pictures have.
THEOREM NoTornFrameHolds == Spec => []NoTornFrame
<1>1. PictureInv => NoTornFrame
  BY ClientsAssumption
  DEF PictureInv, TypeOK, LockInv, BufferInv, CopiesInv, CopyInv, Holds, NoTornFrame,
      CamLocked, ClientLocked
<1> QED BY <1>1, PictureInvariant, PTL

\* The X-Timestamps of a connection never decrease.
THEOREM TimestampsMonotoneHolds == Spec => TimestampsMonotone
<1> DEFINE A == \A c \in Clients : frameTime'[c] >= frameTime[c] \/ pc[c] = "closed"
<1>1. ASSUME PictureInv, [Next]_vars PROVE A
  <2> USE DEF PictureInv, TypeOK, OrderInv, Frames, bufVars, camVars, clientVars
  <2>1. CASE Cam
    BY SMTT(30), <1>1, <2>1, SizeAssumption DEF Cam, CamGrab, CamGrabEmpty, CamDrop, CamLock,
       CamCopy, CamCopied, CamStamp, CamBroadcast, CamUnlock, CamStop, CamFail, CamFree, CamClear
  <2>2. ASSUME NEW c \in Clients, Client(c) \/ SpuriousWakeup(c) PROVE A
    <3>1. CASE ClientCopy(c)
      BY <1>1, <3>1, SizeAssumption DEF ClientCopy
    <3>2. CASE ~ClientCopy(c)
      <4>1. UNCHANGED frameTime
        BY Zenon, <2>2, <3>2 DEF Client, SpuriousWakeup, StreamHeader, StreamStop, ClientLock,
           ClientWait, ClientRelock, ClientRead, ClientNoMemory, ClientNoMemoryUnlock,
           ClientError, ClientCopied, ClientUnlock, ClientWrite
      <4> QED BY <1>1, <4>1, SizeAssumption
    <3> QED BY Zenon, <3>1, <3>2
  <2>3. ASSUME NEW c \in Clients, Accept(c) PROVE A
    BY SMTT(30), <1>1, <2>3, SizeAssumption DEF Accept
  <2>4. CASE SetStop \/ InputStop \/ UNCHANGED vars
    BY <1>1, <2>4, SizeAssumption DEF SetStop, InputStop, vars
  <2> QED BY Zenon, <1>1, <2>1, <2>2, <2>3, <2>4 DEF Next
<1>2. PictureInv /\ [Next]_vars => [A]_vars
  BY Zenon, <1>1
<1> QED BY <1>2, PictureInvariant, PTL DEF Spec, TimestampsMonotone

-----------------------------------------------------------------------------
\* Every step keeps the copy within the client's buffer.
LEMMA FitsStep == ASSUME TypeOK, CopyFits, [Next]_vars PROVE CopyFits'
<1> USE DEF TypeOK, CopyFits, bufVars, camVars, clientVars
<1>1. CASE CamGrab
  BY Zenon, <1>1 DEF CamGrab
<1>2. CASE CamGrabEmpty
  BY Zenon, <1>2 DEF CamGrabEmpty
<1>3. CASE CamDrop
  BY Zenon, <1>3 DEF CamDrop
<1>4. CASE CamLock
  BY Zenon, <1>4 DEF CamLock, Lock
<1>5. CASE CamCopy
  BY Zenon, <1>5 DEF CamCopy, Written
<1>6. CASE CamCopied
  BY Zenon, <1>6 DEF CamCopied, Written
<1>7. CASE CamStamp
  BY Zenon, <1>7 DEF CamStamp
<1>8. CASE CamBroadcast
  BY Zenon, <1>8 DEF CamBroadcast
<1>9. CASE CamUnlock
  BY Zenon, <1>9 DEF CamUnlock, Unlock
<1>10. CASE CamStop
  BY Zenon, <1>10 DEF CamStop
<1>11. CASE CamFail
  BY Zenon, <1>11 DEF CamFail
<1>12. CASE CamFree
  BY Zenon, <1>12 DEF CamFree
<1>13. CASE CamClear
  BY Zenon, <1>13 DEF CamClear
<1>14. ASSUME NEW c \in Clients, StreamHeader(c) PROVE CopyFits'
  BY Zenon, <1>14 DEF StreamHeader, ToPc
<1>15. ASSUME NEW c \in Clients, StreamStop(c) PROVE CopyFits'
  BY Zenon, <1>15 DEF StreamStop, ToPc
<1>16. ASSUME NEW c \in Clients, ClientLock(c) PROVE CopyFits'
  BY Zenon, <1>16 DEF ClientLock, Lock, ToPc
<1>17. ASSUME NEW c \in Clients, ClientWait(c) PROVE CopyFits'
  BY Zenon, <1>17 DEF ClientWait, Unlock, ToPc
<1>18. ASSUME NEW c \in Clients, ClientRelock(c) PROVE CopyFits'
  BY Zenon, <1>18 DEF ClientRelock, Lock, ToPc
<1>19. ASSUME NEW c \in Clients, ClientRead(c) PROVE CopyFits'
  BY <1>19, SizeAssumption DEF ClientRead, ToPc
<1>20. ASSUME NEW c \in Clients, ClientNoMemory(c) PROVE CopyFits'
  BY Zenon, <1>20 DEF ClientNoMemory, ToPc
<1>21. ASSUME NEW c \in Clients, ClientNoMemoryUnlock(c) PROVE CopyFits'
  BY Zenon, <1>21 DEF ClientNoMemoryUnlock, Unlock, ToPc
<1>22. ASSUME NEW c \in Clients, ClientError(c) PROVE CopyFits'
  BY Zenon, <1>22 DEF ClientError, ToPc
<1>23. ASSUME NEW c \in Clients, ClientCopy(c) PROVE CopyFits'
  BY Zenon, <1>23 DEF ClientCopy, ToPc
<1>24. ASSUME NEW c \in Clients, ClientCopied(c) PROVE CopyFits'
  BY Zenon, <1>24 DEF ClientCopied, ToPc
<1>25. ASSUME NEW c \in Clients, ClientUnlock(c) PROVE CopyFits'
  BY Zenon, <1>25 DEF ClientUnlock, Unlock, ToPc
<1>26. ASSUME NEW c \in Clients, ClientWrite(c) PROVE CopyFits'
  BY Zenon, <1>26 DEF ClientWrite, ToPc
<1>27. ASSUME NEW c \in Clients, SpuriousWakeup(c) PROVE CopyFits'
  BY Zenon, <1>27 DEF SpuriousWakeup, ToPc
<1>28. ASSUME NEW c \in Clients, Accept(c) PROVE CopyFits'
  BY Zenon, <1>28 DEF Accept, ToPc
<1>29. CASE SetStop
  BY Zenon, <1>29 DEF SetStop
<1>30. CASE InputStop
  BY Zenon, <1>30 DEF InputStop
<1>31. CASE UNCHANGED vars
  BY Zenon, <1>31 DEF vars
<1> QED BY Zenon, <1>1, <1>2, <1>3, <1>4, <1>5, <1>6, <1>7, <1>8, <1>9, <1>10, <1>11, <1>12,
          <1>13, <1>14, <1>15, <1>16, <1>17, <1>18, <1>19, <1>20, <1>21, <1>22, <1>23,
          <1>24, <1>25, <1>26, <1>27, <1>28, <1>29, <1>30, <1>31
       DEF Next, Cam, Client

\* No memcpy into a client's buffer exceeds what was allocated, for any picture sizes.
THEOREM CopyFitsHolds == Spec => []CopyFits
<1>1. Init => CopyFits
  BY Zenon DEF Init, CopyFits
<1> QED BY <1>1, TypeCorrect, FitsStep, PTL DEF Spec

-----------------------------------------------------------------------------
\* A client past pthread_cond_wait() was woken by a broadcast, if none is spurious.
FreshInv == ~Spurious =>
    \A c \in Clients : pc[c] \in {"woken", "read", "copy", "copying"} => fresh[c]

\* Every step keeps FreshInv.
LEMMA FreshStep == ASSUME TypeOK, LockInv, FreshInv, [Next]_vars PROVE FreshInv'
<1> USE DEF TypeOK, LockInv, FreshInv, bufVars, camVars, clientVars
<1>1. CASE CamGrab
  BY Zenon, <1>1 DEF CamGrab
<1>2. CASE CamGrabEmpty
  BY Zenon, <1>2 DEF CamGrabEmpty
<1>3. CASE CamDrop
  BY Zenon, <1>3 DEF CamDrop
<1>4. CASE CamLock
  BY Zenon, <1>4 DEF CamLock, Lock
<1>5. CASE CamCopy
  BY Zenon, <1>5 DEF CamCopy, Written
<1>6. CASE CamCopied
  BY Zenon, <1>6 DEF CamCopied, Written
<1>7. CASE CamStamp
  BY Zenon, <1>7 DEF CamStamp
<1>8. CASE CamBroadcast
  BY Zenon, <1>8 DEF CamBroadcast
<1>9. CASE CamUnlock
  BY Zenon, <1>9 DEF CamUnlock, Unlock
<1>10. CASE CamStop
  BY Zenon, <1>10 DEF CamStop
<1>11. CASE CamFail
  BY Zenon, <1>11 DEF CamFail
<1>12. CASE CamFree
  BY Zenon, <1>12 DEF CamFree
<1>13. CASE CamClear
  BY Zenon, <1>13 DEF CamClear
<1>14. ASSUME NEW c \in Clients, StreamHeader(c) PROVE FreshInv'
  BY Zenon, <1>14 DEF StreamHeader, ToPc
<1>15. ASSUME NEW c \in Clients, StreamStop(c) PROVE FreshInv'
  BY Zenon, <1>15 DEF StreamStop, ToPc
<1>16. ASSUME NEW c \in Clients, ClientLock(c) PROVE FreshInv'
  BY Zenon, <1>16 DEF ClientLock, Lock, ToPc
<1>17. ASSUME NEW c \in Clients, ClientWait(c) PROVE FreshInv'
  BY Zenon, <1>17 DEF ClientWait, Unlock, ToPc
<1>18. ASSUME NEW c \in Clients, ClientRelock(c) PROVE FreshInv'
  BY Zenon, <1>18 DEF ClientRelock, Lock, ToPc
<1>19. ASSUME NEW c \in Clients, ClientRead(c) PROVE FreshInv'
  BY Zenon, <1>19 DEF ClientRead, ToPc
<1>20. ASSUME NEW c \in Clients, ClientNoMemory(c) PROVE FreshInv'
  BY Zenon, <1>20 DEF ClientNoMemory, ToPc
<1>21. ASSUME NEW c \in Clients, ClientNoMemoryUnlock(c) PROVE FreshInv'
  BY Zenon, <1>21 DEF ClientNoMemoryUnlock, Unlock, ToPc
<1>22. ASSUME NEW c \in Clients, ClientError(c) PROVE FreshInv'
  BY Zenon, <1>22 DEF ClientError, ToPc
<1>23. ASSUME NEW c \in Clients, ClientCopy(c) PROVE FreshInv'
  BY Zenon, <1>23 DEF ClientCopy, ToPc
<1>24. ASSUME NEW c \in Clients, ClientCopied(c) PROVE FreshInv'
  BY Zenon, <1>24 DEF ClientCopied, ToPc
<1>25. ASSUME NEW c \in Clients, ClientUnlock(c) PROVE FreshInv'
  BY Zenon, <1>25 DEF ClientUnlock, Unlock, ToPc
<1>26. ASSUME NEW c \in Clients, ClientWrite(c) PROVE FreshInv'
  BY Zenon, <1>26 DEF ClientWrite, ToPc
<1>27. ASSUME NEW c \in Clients, SpuriousWakeup(c) PROVE FreshInv'
  BY Zenon, <1>27 DEF SpuriousWakeup, ToPc
<1>28. ASSUME NEW c \in Clients, Accept(c) PROVE FreshInv'
  BY Zenon, <1>28 DEF Accept, ToPc
<1>29. CASE SetStop
  BY Zenon, <1>29 DEF SetStop
<1>30. CASE InputStop
  BY Zenon, <1>30 DEF InputStop
<1>31. CASE UNCHANGED vars
  BY Zenon, <1>31 DEF vars
<1> QED BY Zenon, <1>1, <1>2, <1>3, <1>4, <1>5, <1>6, <1>7, <1>8, <1>9, <1>10, <1>11, <1>12,
          <1>13, <1>14, <1>15, <1>16, <1>17, <1>18, <1>19, <1>20, <1>21, <1>22, <1>23,
          <1>24, <1>25, <1>26, <1>27, <1>28, <1>29, <1>30, <1>31
       DEF Next, Cam, Client

\* Where pthread_cond_wait() never returns spuriously, every copy is of a picture
\* published after the client began to wait.
THEOREM CopiesFreshFrameHolds == Spec => [](~Spurious => CopiesFreshFrame)
<1>1. Init => FreshInv
  BY Zenon DEF Init, FreshInv
<1>2. FreshInv => (~Spurious => CopiesFreshFrame)
  BY Zenon DEF FreshInv, CopiesFreshFrame
<1> QED BY <1>1, <1>2, TypeCorrect, MutualExclusion, FreshStep, PTL DEF Spec

-----------------------------------------------------------------------------
\* A step that leaves the published picture, the buffer's life and what the clients
\* send alone is a stutter of the channel.
LEMMA ChannelStutter ==
    ASSUME timestamp' = timestamp, buf.live' = buf.live,
           \A c \in Clients : Sent(c)' = Sent(c)
    PROVE  UNCHANGED Channel!vars
BY Zenon DEF Channel!vars

\* Every step of the buffer protocol is a step of the channel or a stutter.
LEMMA ChannelStep == ASSUME PictureInv, PictureInv', [Next]_vars PROVE [Channel!Next]_(Channel!vars)
<1> USE DEF PictureInv, TypeOK, bufVars, camVars, clientVars
<1> DEFINE Same == UNCHANGED Channel!vars
<1>1. CASE CamStamp
  <2>1. buf.live
    BY Zenon, <1>1 DEF CamStamp, BufferInv
  <2>2. \A c \in Clients : Sent(c)' = Sent(c)
    BY Zenon, <1>1 DEF CamStamp, Sent
  <2>3. Channel!Publish
    BY Zenon, <1>1, <2>1, <2>2 DEF CamStamp, Channel!Publish, OrderInv
  <2> QED BY Zenon, <2>3 DEF Channel!Next
<1>2. CASE CamFree
  <2>1. buf.live /\ ~buf.live'
    BY Zenon, <1>2 DEF CamFree, BufferInv
  <2>2. \A c \in Clients : Sent(c)' = Sent(c)
    BY Zenon, <1>2 DEF CamFree, Sent
  <2>3. Channel!Close
    BY Zenon, <1>2, <2>1, <2>2 DEF CamFree, Channel!Close
  <2> QED BY Zenon, <2>3 DEF Channel!Next
<1>3. ASSUME NEW c \in Clients, ClientUnlock(c) PROVE Channel!Deliver(c)
  <2>1. Sent(c) = {} /\ Sent(c)' \in {{frameTime[c]}, {Torn}}
    BY Zenon, <1>3 DEF ClientUnlock, ToPc, Sent
  <2>2. buf.live => Sent(c)' = {timestamp}
    BY SMTT(30), <1>3, ClientsAssumption
    DEF ClientUnlock, ToPc, Sent, CopiesInv, CopyInv, Holds, BufferInv, LockInv, CamLocked, ClientLocked
  <2>3. \A d \in Clients \ {c} : Sent(d)' = Sent(d)
    BY Zenon, <1>3 DEF ClientUnlock, ToPc, Sent
  <2>4. PICK f \in Frames \cup {Torn} : (buf.live => f = timestamp) /\ Sent(c)' = {f}
    BY Zenon, <2>1, <2>2
  <2>5. [d \in Clients |-> Sent(d)]' = [[d \in Clients |-> Sent(d)] EXCEPT ![c] = {f}]
    BY ZenonT(30), <2>3, <2>4
  <2> QED BY ZenonT(30), <1>3, <2>1, <2>4, <2>5 DEF ClientUnlock, Channel!Deliver
<1>4. ASSUME NEW c \in Clients, ClientWrite(c) PROVE Channel!Finish(c)
  <2>1. Sent(c) # {} /\ Sent(c)' = {}
    BY Zenon, <1>4 DEF ClientWrite, ToPc, Sent
  <2>2. \A d \in Clients \ {c} : Sent(d)' = Sent(d)
    BY Zenon, <1>4 DEF ClientWrite, ToPc, Sent
  <2>3. [d \in Clients |-> Sent(d)]' = [[d \in Clients |-> Sent(d)] EXCEPT ![c] = {}]
    BY ZenonT(30), <2>1, <2>2
  <2> QED BY Zenon, <1>4, <2>1, <2>3 DEF ClientWrite, Channel!Finish
<1>5. ASSUME CamGrab \/ CamGrabEmpty \/ CamDrop \/ CamLock \/ CamUnlock \/ CamStop \/ CamFail
             \/ CamClear \/ SetStop \/ InputStop \/ UNCHANGED vars
      PROVE Same
  <2>1. \A c \in Clients : Sent(c)' = Sent(c)
    BY Zenon, <1>5 DEF CamGrab, CamGrabEmpty, CamDrop, CamLock, CamUnlock, CamStop, CamFail, CamClear,
       SetStop, InputStop, vars, Sent
  <2> QED BY Zenon, <1>5, <2>1, ChannelStutter
      DEF CamGrab, CamGrabEmpty, CamDrop, CamLock, CamUnlock, CamStop, CamFail, CamClear,
          SetStop, InputStop, vars
<1>6. ASSUME CamCopy \/ CamCopied PROVE Same
  <2>1. buf.live' = buf.live
    BY Zenon, <1>6 DEF CamCopy, CamCopied
  <2>2. \A c \in Clients : Sent(c)' = Sent(c)
    BY ZenonT(30), <1>6 DEF CamCopy, CamCopied, Sent
  <2> QED BY Zenon, <1>6, <2>1, <2>2, ChannelStutter DEF CamCopy, CamCopied
<1>7. CASE CamBroadcast
  <2>1. \A c \in Clients : Sent(c)' = Sent(c)
    BY Zenon, <1>7 DEF CamBroadcast, Sent, LockInv
  <2> QED BY Zenon, <1>7, <2>1, ChannelStutter DEF CamBroadcast
<1>8. ASSUME NEW c \in Clients,
             \/ StreamHeader(c) \/ StreamStop(c) \/ ClientLock(c) \/ ClientWait(c) \/ ClientRelock(c)
             \/ ClientNoMemoryUnlock(c) \/ ClientError(c) \/ SpuriousWakeup(c)
      PROVE Same
  <2>1. pc[c] # "write" /\ pc'[c] # "write" /\ \A d \in Clients \ {c} : pc'[d] = pc[d]
    BY Zenon, <1>8 DEF StreamHeader, StreamStop, ClientLock, ClientWait, ClientRelock,
       ClientNoMemoryUnlock, ClientError, SpuriousWakeup, ToPc
  <2>2. UNCHANGED <<bufVars, frame, frameSize, frameTime>>
    BY Zenon, <1>8 DEF StreamHeader, StreamStop, ClientLock, ClientWait, ClientRelock,
       ClientNoMemoryUnlock, ClientError, SpuriousWakeup
  <2>3. \A d \in Clients : Sent(d)' = Sent(d)
    BY Zenon, <2>1, <2>2 DEF Sent
  <2> QED BY Zenon, <2>2, <2>3, ChannelStutter
<1>9. ASSUME NEW c \in Clients,
             ClientRead(c) \/ ClientNoMemory(c) \/ ClientCopy(c) \/ ClientCopied(c) \/ Accept(c)
      PROVE Same
  <2>1. pc[c] # "write" /\ pc'[c] # "write" /\ \A d \in Clients \ {c} : pc'[d] = pc[d]
    BY Zenon, <1>9 DEF ClientRead, ClientNoMemory, ClientCopy, ClientCopied, Accept, ToPc
  <2>2. UNCHANGED bufVars
    BY Zenon, <1>9 DEF ClientRead, ClientNoMemory, ClientCopy, ClientCopied, Accept
  <2>3. \A d \in Clients \ {c} : /\ frame'[d] = frame[d] /\ frameSize'[d] = frameSize[d]
                                 /\ frameTime'[d] = frameTime[d]
    BY Zenon, <1>9 DEF ClientRead, ClientNoMemory, ClientCopy, ClientCopied, Accept
  <2>4. \A d \in Clients : Sent(d)' = Sent(d)
    BY ZenonT(30), <2>1, <2>3 DEF Sent
  <2> QED BY Zenon, <2>2, <2>4, ChannelStutter
<1> QED BY Zenon, <1>1, <1>2, <1>3, <1>4, <1>5, <1>6, <1>7, <1>8, <1>9 DEF Next, Cam, Client, Channel!Next

\* The buffer protocol of cam_thread, send_stream() and send_snapshot() implements the
\* latest-picture channel, for any clients and pictures.
THEOREM ImplementsChannelHolds == Spec => ImplementsChannel
<1>1. Init => Channel!Init
  BY DEF Init, Channel!Init, Sent
<1>2. PictureInv /\ PictureInv' /\ [Next]_vars => [Channel!Next]_(Channel!vars)
  BY Zenon, ChannelStep
<1> QED BY <1>1, <1>2, PictureInvariant, PTL DEF Spec, ImplementsChannel, Channel!Spec

=============================================================================
