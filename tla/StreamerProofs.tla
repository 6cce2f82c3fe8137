--------------------------- MODULE StreamerProofs ---------------------------
(***************************************************************************)
(* The safety of the process in Streamer, proved for every set of set-ups  *)
(* and any number of outputs: db is held by the thread that works on the   *)
(* picture and given back on every path, and until SIGINT nothing is used  *)
(* after it is gone.                                                       *)
(***************************************************************************)
EXTENDS Streamer, TLAPS

InPcs == {"off", "start", "loop", "switch", "grab", "preview", "lock", "fill", "restart",
          "publish", "back", "leave", "done"}
OutPcs == {"off", "idle", "done", "start", "loop", "recv", "lock", "wait", "woken", "copy",
           "send", "relock"}
Working == {"fill", "restart", "publish"}

\* What the phases of main() and of the handler mean for the threads.
PhaseInv ==
    /\ stop \in BOOLEAN /\ outcnt \in Nat /\ n \in Outputs
    /\ inPc \in InPcs /\ outPc \in [Outputs -> OutPcs]
    /\ main \notin Before \cup {"failed"} => stop
    /\ main \in Before => ~stop
    /\ inCancel => stop
    /\ destroyed => stop
    /\ DOMAIN outCancel = Outputs
    /\ \A o \in Outputs : outCancel[o] => stop
    /\ \A o \in Outputs : outPc[o] = "relock" => stop
    /\ main \in {"load_in", "load_out", "run_in"} => inPc = "off"
    /\ main \in {"load_in", "load_out", "run_in"} => \A o \in Outputs : outPc[o] = "off"
    /\ main = "run_out" => \A o \in Outputs : o >= n => outPc[o] = "off"
    /\ inPc \in {"switch", "back"} => input = "libcamera"

\* Whoever works on the picture holds db, and before SIGINT whoever holds db works on the
\* picture, but for the inputs that lose it.
LockInv ==
    /\ ~destroyed /\ input # "raspicam" =>
          /\ inPc \in Working => db = {In}
          /\ \A o \in Outputs : outPc[o] = "copy" => db = {o}
    /\ ~stop =>
          /\ \A o \in Outputs : db = {o} => outPc[o] = "copy"
          /\ db = {In} => inPc \in Working \/ input \in {"file", "ptp2", "raspicam"}
          /\ input = "raspicam" => inPc \in {"off", "loop"}

\* The buffer is freed only by the end of the input thread.
UseInv == (buf = "freed" => inPc = "done") /\ SafeWhileRunning

\* A set-up names known plugins and at least one output.
LEMMA SetupFacts == ASSUME NEW s \in Setups PROVE Len(s.outputs) \in Nat \ {0}
  BY SetupsAssumption

LEMMA PhaseInit == Init => setup \in Setups /\ PhaseInv
<1> SUFFICES ASSUME Init PROVE setup \in Setups /\ PhaseInv
  BY Zenon
<1>1. setup \in Setups /\ outcnt \in Nat \ {0}
  BY Zenon, SetupFacts DEF Init, outcnt
<1>2. stop = FALSE /\ inCancel = FALSE /\ destroyed = FALSE /\ outCancel = [o \in Outputs |-> FALSE]
  BY Zenon DEF Init
<1>3. /\ inPc = "off" /\ inPc \in InPcs /\ main \in Before /\ main = "load_in" /\ n \in Outputs
      /\ outPc \in [Outputs -> OutPcs] /\ \A o \in Outputs : outPc[o] = "off"
  BY <1>1 DEF Init, InPcs, OutPcs, Before, Outputs
<1>4. stop \in BOOLEAN /\ DOMAIN outCancel = Outputs /\ \A o \in Outputs : ~outCancel[o]
  BY ZenonT(30), <1>2
<1> QED BY <1>1, <1>2, <1>3, <1>4, Zenon DEF PhaseInv

\* Every step keeps the phases.
LEMMA PhaseStep == ASSUME PhaseInv, Next PROVE PhaseInv'
<1> USE DEF PhaseInv, InPcs, OutPcs, Before, Outputs, outcnt, input, mainVars, inVars, outVars,
        shared, inRest, outRest
<1>1. CASE LoadInput
  BY Zenon, <1>1 DEF LoadInput
<1>2. CASE LoadOutput
  BY <1>2 DEF LoadOutput
<1>3. CASE RunInput
  BY Zenon, <1>3 DEF RunInput
<1>4. CASE RunOutput
  BY <1>4 DEF RunOutput
<1>5. CASE SigInt
  BY <1>5 DEF SigInt
<1>6. CASE StopInput
  BY Zenon, <1>6 DEF StopInput
<1>7. CASE StopOutput
  BY Zenon, <1>7 DEF StopOutput
<1>8. CASE Destroy
  BY <1>8 DEF Destroy
<1>9. CASE CloseInput
  BY Zenon, <1>9 DEF CloseInput
<1>10. CASE CloseOutputs
  BY Zenon, <1>10 DEF CloseOutputs
<1>11. CASE Exit
  BY Zenon, <1>11 DEF Exit
<1>12. CASE InBegin
  BY Zenon, <1>12 DEF InBegin
<1>13. CASE InTest
  BY <1>13 DEF InTest
<1>14. CASE InGrab
  BY <1>14 DEF InGrab, InStep
<1>15. CASE InSkip
  BY <1>15 DEF InSkip, InStep
<1>16. CASE InFail
  BY <1>16 DEF InFail, InStep
<1>17. CASE Ptp2Control
  BY <1>17 DEF Ptp2Control, InStep
<1>18. CASE Ptp2Preview
  BY <1>18 DEF Ptp2Preview
<1>19. CASE LibSwitch
  BY Zenon, <1>19 DEF LibSwitch, SwitchResolution, InStep
<1>20. CASE LibSwitchBack
  BY Zenon, <1>20 DEF LibSwitchBack, SwitchResolution, InStep
<1>21. CASE InLock
  BY Zenon, <1>21 DEF InLock, InStep
<1>22. CASE InFill
  BY Zenon, <1>22 DEF InFill, InStep
<1>23. CASE FileNoMemory
  BY Zenon, <1>23 DEF FileNoMemory, InStep
<1>24. CASE FileReadFails
  BY Zenon, <1>24 DEF FileReadFails, InStep
<1>25. CASE Ptp2Empty
  BY <1>25 DEF Ptp2Empty
<1>26. CASE Ptp2Fill
  BY <1>26 DEF Ptp2Fill
<1>27. CASE InPublish
  BY Zenon, <1>27 DEF InPublish, Broadcast, InStep
<1>28. CASE RaspiData
  BY Zenon, <1>28 DEF RaspiData
<1>29. CASE RaspiEnd
  BY Zenon, <1>29 DEF RaspiEnd, Broadcast
<1>30. CASE InLeave
  BY Zenon, <1>30 DEF InLeave, Cleanup
<1>31. CASE InCancelled
  BY Zenon, <1>31 DEF InCancelled, Cleanup
<1>32. CASE InUnloaded
  BY Zenon, <1>32 DEF InUnloaded
<1>33. ASSUME NEW o \in Outputs, OutputThread(o) \/ Accept(o) \/ Recv(o) \/ Spurious(o) PROVE PhaseInv'
  <2>1. CASE OutTest(o)
    BY Zenon, <2>1 DEF OutTest, OutStep
  <2>2. CASE OutBegin(o)
    BY Zenon, <2>2 DEF OutBegin, OutStep
  <2>3. CASE OutWait(o)
    BY Zenon, <2>3 DEF OutWait, OutStep
  <2>4. CASE OutRelock(o)
    BY Zenon, <2>4 DEF OutRelock, OutStep
  <2>5. CASE OutCopy(o)
    BY Zenon, <2>5 DEF OutCopy, OutStep
  <2>6. CASE OutNoMemory(o)
    BY Zenon, <2>6 DEF OutNoMemory, OutStep
  <2>7. CASE OutSend(o)
    BY Zenon, <2>7 DEF OutSend, OutStep
  <2>8. CASE OutSendFails(o)
    BY Zenon, <2>8 DEF OutSendFails, OutStep
  <2>9. CASE OutCancelled(o)
    BY Zenon, <2>9 DEF OutCancelled, OutStep
  <2>10. CASE OutDies(o)
    BY Zenon, <2>10 DEF OutDies, OutStep
  <2>11. CASE OutUnloaded(o)
    BY Zenon, <2>11 DEF OutUnloaded, OutStep
  <2>12. CASE Accept(o)
    BY Zenon, <2>12 DEF Accept, OutStep
  <2>13. CASE Recv(o)
    BY Zenon, <2>13 DEF Recv, OutStep
  <2>14. CASE Spurious(o)
    BY Zenon, <2>14 DEF Spurious, OutStep
  <2> QED BY ZenonT(30), <1>33, <2>1, <2>2, <2>3, <2>4, <2>5, <2>6, <2>7, <2>8, <2>9, <2>10, <2>11, <2>12, <2>13,
             <2>14 DEF OutputThread
<1> QED BY ZenonT(30), <1>1, <1>2, <1>3, <1>4, <1>5, <1>6, <1>7, <1>8, <1>9, <1>10, <1>11, <1>12, <1>13, <1>14, <1>15,
           <1>16,
           <1>17, <1>18, <1>19, <1>20, <1>21, <1>22, <1>23, <1>24, <1>25, <1>26, <1>27, <1>28, <1>29, <1>30, <1>31,
           <1>32, <1>33 DEF Next, Main, Handler, InputThread

\* Every step keeps the owner of db.
LEMMA LockStep == ASSUME PhaseInv, LockInv, Next PROVE LockInv'
<1> USE DEF PhaseInv, LockInv, Working, In, InPcs, OutPcs, Before, Outputs, outcnt, input, mainVars, inVars, outVars,
        shared, inRest, outRest
<1>0. (\A a, b : {a} = {b} => a = b) /\ (\A a : {a} # {}) /\ \A o \in Outputs : o # In
  OBVIOUS
<1>1. CASE LoadInput
  BY Zenon, <1>1 DEF LoadInput
<1>2. CASE LoadOutput
  BY Zenon, <1>2 DEF LoadOutput
<1>3. CASE RunInput
  BY Zenon, <1>3 DEF RunInput
<1>4. CASE RunOutput
  BY <1>4 DEF RunOutput
<1>5. CASE SigInt
  BY Zenon, <1>5 DEF SigInt
<1>6. CASE StopInput
  BY Zenon, <1>6 DEF StopInput
<1>7. CASE StopOutput
  BY Zenon, <1>7 DEF StopOutput
<1>8. CASE Destroy
  BY ZenonT(30), <1>8 DEF Destroy
<1>9. CASE CloseInput
  BY Zenon, <1>9 DEF CloseInput
<1>10. CASE CloseOutputs
  BY Zenon, <1>10 DEF CloseOutputs
<1>11. CASE Exit
  BY Zenon, <1>11 DEF Exit
<1>12. CASE InBegin
  BY Zenon, <1>12 DEF InBegin
<1>13. CASE InTest
  BY <1>13 DEF InTest
<1>14. CASE InGrab
  BY <1>14 DEF InGrab, InStep
<1>15. CASE InSkip
  BY <1>15 DEF InSkip, InStep
<1>16. CASE InFail
  BY <1>16 DEF InFail, InStep
<1>17. CASE Ptp2Control
  BY <1>17 DEF Ptp2Control, InStep
<1>18. CASE Ptp2Preview
  BY <1>18 DEF Ptp2Preview
<1>19. CASE LibSwitch
  BY Zenon, <1>19 DEF LibSwitch, SwitchResolution, InStep
<1>20. CASE LibSwitchBack
  BY Zenon, <1>20 DEF LibSwitchBack, SwitchResolution, InStep
<1>21. CASE InLock
  BY ZenonT(30), <1>0, <1>21 DEF InLock, InStep, Lock
<1>22. CASE InFill
  BY Zenon, <1>22 DEF InFill, InStep
<1>23. CASE FileNoMemory
  BY Zenon, <1>23 DEF FileNoMemory, InStep
<1>24. CASE FileReadFails
  BY Zenon, <1>0, <1>24 DEF FileReadFails, InStep, Unlock
<1>25. CASE Ptp2Empty
  BY <1>25 DEF Ptp2Empty
<1>26. CASE Ptp2Fill
  BY <1>26 DEF Ptp2Fill
<1>27. CASE InPublish
  BY SMTT(30), <1>27 DEF InPublish, Broadcast, InStep, Unlock
<1>28. CASE RaspiData
  BY SMTT(30), <1>28 DEF RaspiData, Lock
<1>29. CASE RaspiEnd
  BY Zenon, <1>29 DEF RaspiEnd, Broadcast, Unlock
<1>30. CASE InLeave
  BY Zenon, <1>30 DEF InLeave, Cleanup
<1>31. CASE InCancelled
  BY Zenon, <1>31 DEF InCancelled, Cleanup
<1>32. CASE InUnloaded
  BY Zenon, <1>32 DEF InUnloaded
<1>33. ASSUME NEW o \in Outputs, OutputThread(o) \/ Accept(o) \/ Recv(o) \/ Spurious(o) PROVE LockInv'
  <2>1. CASE OutTest(o)
    BY Zenon, <2>1 DEF OutTest, OutStep
  <2>2. CASE OutBegin(o)
    BY SMTT(30), <2>2 DEF OutBegin, OutStep
  <2>3. CASE OutWait(o)
    BY Zenon, <2>3 DEF OutWait, OutStep
  <2>4. CASE OutRelock(o)
    BY ZenonT(30), <1>0, <2>4 DEF OutRelock, OutStep, Lock
  <2>5. CASE OutCopy(o)
    <3>1. /\ outPc[o] = "copy" /\ outPc' = [outPc EXCEPT ![o] = "send"]
          /\ db' = {} /\ UNCHANGED <<setup, stop, destroyed, inPc>>
      BY Zenon, <2>5 DEF OutCopy, OutStep, Unlock
    <3>2. ~destroyed /\ input # "raspicam" =>
             inPc \notin Working /\ \A p \in Outputs : p # o => outPc[p] # "copy"
      <4> SUFFICES ASSUME ~destroyed, input # "raspicam" PROVE
             inPc \notin Working /\ \A p \in Outputs : p # o => outPc[p] # "copy"
        BY Zenon
      <4>1. db = {o} /\ o # In
        BY Zenon, <1>0, <3>1
      <4>2. inPc \notin Working
        BY Zenon, <1>0, <4>1
      <4>3. ASSUME NEW p \in Outputs, outPc[p] = "copy" PROVE p = o
        <5>1. db = {p}
          BY Zenon, <4>3
        <5> QED BY ZenonT(30), <1>0, <5>1, <4>1
      <4> QED BY Zenon, <4>2, <4>3
    <3>3. \A p \in Outputs : outPc'[p] = "copy" => p # o /\ outPc[p] = "copy"
      BY Zenon, <3>1
    <3> QED BY Zenon, <1>0, <3>1, <3>2, <3>3
  <2>6. CASE OutNoMemory(o)
    <3>1. /\ outPc[o] = "copy" /\ outPc' = [outPc EXCEPT ![o] = (IF kind(o) \in Clients THEN "idle" ELSE "done")]
          /\ db' = {} /\ UNCHANGED <<setup, stop, destroyed, inPc>>
      BY Zenon, <2>6 DEF OutNoMemory, OutStep, Unlock
    <3>2. ~destroyed /\ input # "raspicam" =>
             inPc \notin Working /\ \A p \in Outputs : p # o => outPc[p] # "copy"
      <4> SUFFICES ASSUME ~destroyed, input # "raspicam" PROVE
             inPc \notin Working /\ \A p \in Outputs : p # o => outPc[p] # "copy"
        BY Zenon
      <4>1. db = {o} /\ o # In
        BY Zenon, <1>0, <3>1
      <4>2. inPc \notin Working
        BY Zenon, <1>0, <4>1
      <4>3. ASSUME NEW p \in Outputs, outPc[p] = "copy" PROVE p = o
        <5>1. db = {p}
          BY Zenon, <4>3
        <5> QED BY ZenonT(30), <1>0, <5>1, <4>1
      <4> QED BY Zenon, <4>2, <4>3
    <3>3. \A p \in Outputs : outPc'[p] = "copy" => p # o /\ outPc[p] = "copy"
      BY Zenon, <3>1
    <3> QED BY Zenon, <1>0, <3>1, <3>2, <3>3
  <2>7. CASE OutSend(o)
    BY Zenon, <2>7 DEF OutSend, OutStep
  <2>8. CASE OutSendFails(o)
    BY Zenon, <2>8 DEF OutSendFails, OutStep
  <2>9. CASE OutCancelled(o)
    BY Zenon, <2>9 DEF OutCancelled, OutStep
  <2>10. CASE OutDies(o)
    BY ZenonT(30), <2>10 DEF OutDies, OutStep, Lock
  <2>11. CASE OutUnloaded(o)
    BY Zenon, <2>11 DEF OutUnloaded, OutStep
  <2>12. CASE Accept(o)
    BY Zenon, <2>12 DEF Accept, OutStep
  <2>13. CASE Recv(o)
    BY Zenon, <2>13 DEF Recv, OutStep
  <2>14. CASE Spurious(o)
    BY Zenon, <2>14 DEF Spurious, OutStep
  <2> QED BY ZenonT(30), <1>33, <2>1, <2>2, <2>3, <2>4, <2>5, <2>6, <2>7, <2>8, <2>9, <2>10, <2>11, <2>12, <2>13,
             <2>14 DEF OutputThread
<1> QED BY ZenonT(30), <1>1, <1>2, <1>3, <1>4, <1>5, <1>6, <1>7, <1>8, <1>9, <1>10, <1>11, <1>12, <1>13, <1>14, <1>15,
           <1>16,
           <1>17, <1>18, <1>19, <1>20, <1>21, <1>22, <1>23, <1>24, <1>25, <1>26, <1>27, <1>28, <1>29, <1>30, <1>31,
           <1>32, <1>33 DEF Next, Main, Handler, InputThread

\* Every step but the end of the input keeps what is in use.
LEMMA UseStep == ASSUME PhaseInv, UseInv, Next PROVE UseInv'
<1> USE DEF PhaseInv, UseInv, SafeWhileRunning, None, InPcs, OutPcs, Before, Outputs, outcnt, input, mainVars, inVars,
        outVars,
        shared, inRest, outRest
<1>1. CASE LoadInput
  BY Zenon, <1>1 DEF LoadInput
<1>2. CASE LoadOutput
  BY Zenon, <1>2 DEF LoadOutput
<1>3. CASE RunInput
  BY Zenon, <1>3 DEF RunInput
<1>4. CASE RunOutput
  BY Zenon, <1>4 DEF RunOutput
<1>5. CASE SigInt
  BY Zenon, <1>5 DEF SigInt
<1>6. CASE StopInput
  BY Zenon, <1>6 DEF StopInput, Freed
<1>7. CASE StopOutput
  BY Zenon, <1>7 DEF StopOutput
<1>8. CASE Destroy
  BY Zenon, <1>8 DEF Destroy
<1>9. CASE CloseInput
  BY Zenon, <1>9 DEF CloseInput
<1>10. CASE CloseOutputs
  BY Zenon, <1>10 DEF CloseOutputs
<1>11. CASE Exit
  BY Zenon, <1>11 DEF Exit
<1>12. CASE InBegin
  BY Zenon, <1>12 DEF InBegin
<1>13. CASE InTest
  BY Zenon, <1>13 DEF InTest
<1>14. CASE InGrab
  BY Zenon, <1>14 DEF InGrab, InStep
<1>15. CASE InSkip
  BY Zenon, <1>15 DEF InSkip, InStep
<1>16. CASE InFail
  BY Zenon, <1>16 DEF InFail, InStep
<1>17. CASE Ptp2Control
  BY Zenon, <1>17 DEF Ptp2Control, InStep
<1>18. CASE Ptp2Preview
  BY Zenon, <1>18 DEF Ptp2Preview
<1>19. CASE LibSwitch
  BY Zenon, <1>19 DEF LibSwitch, SwitchResolution, InStep, Freed
<1>20. CASE LibSwitchBack
  BY Zenon, <1>20 DEF LibSwitchBack, SwitchResolution, InStep, Freed
<1>21. CASE InLock
  BY Zenon, <1>21 DEF InLock, InStep
<1>22. CASE InFill
  BY Zenon, <1>22 DEF InFill, InStep
<1>23. CASE FileNoMemory
  BY Zenon, <1>23 DEF FileNoMemory, InStep
<1>24. CASE FileReadFails
  BY Zenon, <1>24 DEF FileReadFails, InStep
<1>25. CASE Ptp2Empty
  BY Zenon, <1>25 DEF Ptp2Empty
<1>26. CASE Ptp2Fill
  BY Zenon, <1>26 DEF Ptp2Fill
<1>27. CASE InPublish
  BY Zenon, <1>27 DEF InPublish, Broadcast, InStep
<1>28. CASE RaspiData
  BY Zenon, <1>28 DEF RaspiData
<1>29. CASE RaspiEnd
  BY Zenon, <1>29 DEF RaspiEnd, Broadcast
<1>30. CASE InLeave
  BY Zenon, <1>30 DEF InLeave, Cleanup, Freed
<1>31. CASE InCancelled
  BY Zenon, <1>31 DEF InCancelled, Cleanup, Freed
<1>32. CASE InUnloaded
  BY Zenon, <1>32 DEF InUnloaded
<1>33. ASSUME NEW o \in Outputs, OutputThread(o) \/ Accept(o) \/ Recv(o) \/ Spurious(o) PROVE UseInv'
  <2>1. CASE OutTest(o)
    BY Zenon, <2>1 DEF OutTest, OutStep
  <2>2. CASE OutBegin(o)
    BY Zenon, <2>2 DEF OutBegin, OutStep
  <2>3. CASE OutWait(o)
    BY Zenon, <2>3 DEF OutWait, OutStep
  <2>4. CASE OutRelock(o)
    BY Zenon, <2>4 DEF OutRelock, OutStep
  <2>5. CASE OutCopy(o)
    BY Zenon, <2>5 DEF OutCopy, OutStep
  <2>6. CASE OutNoMemory(o)
    BY Zenon, <2>6 DEF OutNoMemory, OutStep
  <2>7. CASE OutSend(o)
    BY Zenon, <2>7 DEF OutSend, OutStep
  <2>8. CASE OutSendFails(o)
    BY Zenon, <2>8 DEF OutSendFails, OutStep
  <2>9. CASE OutCancelled(o)
    BY Zenon, <2>9 DEF OutCancelled, OutStep
  <2>10. CASE OutDies(o)
    BY Zenon, <2>10 DEF OutDies, OutStep
  <2>11. CASE OutUnloaded(o)
    BY Zenon, <2>11 DEF OutUnloaded, OutStep, OutClosed
  <2>12. CASE Accept(o)
    BY Zenon, <2>12 DEF Accept, OutStep
  <2>13. CASE Recv(o)
    BY Zenon, <2>13 DEF Recv, OutStep
  <2>14. CASE Spurious(o)
    BY Zenon, <2>14 DEF Spurious, OutStep
  <2> QED BY ZenonT(30), <1>33, <2>1, <2>2, <2>3, <2>4, <2>5, <2>6, <2>7, <2>8, <2>9, <2>10, <2>11, <2>12, <2>13,
             <2>14 DEF OutputThread
<1> QED BY ZenonT(30), <1>1, <1>2, <1>3, <1>4, <1>5, <1>6, <1>7, <1>8, <1>9, <1>10, <1>11, <1>12, <1>13, <1>14, <1>15,
           <1>16,
           <1>17, <1>18, <1>19, <1>20, <1>21, <1>22, <1>23, <1>24, <1>25, <1>26, <1>27, <1>28, <1>29, <1>30, <1>31,
           <1>32, <1>33 DEF Next, Main, Handler, InputThread

\* The three invariants hold in every reachable state.
LEMMA StreamerInvariant == Spec => [](PhaseInv /\ LockInv /\ UseInv)
<1>1. Init => PhaseInv /\ LockInv /\ UseInv
  <2> SUFFICES ASSUME Init PROVE LockInv /\ UseInv
    BY Zenon, PhaseInit
  <2>1. db = {} /\ inPc = "off" /\ fault = None /\ buf = "null" /\ \A o \in Outputs : outPc[o] = "off"
    BY Zenon DEF Init
  <2>2. LockInv
    BY Zenon, <2>1 DEF LockInv, Working
  <2>3. UseInv
    BY Zenon, <2>1 DEF UseInv, SafeWhileRunning
  <2> QED BY Zenon, <2>2, <2>3
<1>2. PhaseInv /\ LockInv /\ UseInv /\ [Next]_vars => (PhaseInv /\ LockInv /\ UseInv)'
  <2>1. CASE Next
    BY Zenon, <2>1, PhaseStep, LockStep, UseStep
  <2>2. CASE UNCHANGED vars
    BY Zenon, <2>2 DEF vars, mainVars, inVars, outVars, shared, PhaseInv, LockInv, UseInv, SafeWhileRunning,
                Outputs, outcnt, input
  <2> QED BY Zenon, <2>1, <2>2
<1> QED BY <1>1, <1>2, PTL DEF Spec

\* Whatever plugins are loaded, one thread at a time works on the picture until db is destroyed
\* (raspicam aside), and before SIGINT no thread ends with db locked but the two inputs that do.
THEOREM LockKeptHolds == Spec => []LockKept
<1>1. PhaseInv /\ LockInv => LockKept
  <2> SUFFICES ASSUME PhaseInv, LockInv PROVE LockKept
    BY Zenon
  <2>1. LockGivenBack
    BY Zenon DEF LockInv, LockGivenBack, OutputDiedLocked, InputDiedLocked, Ended, Working, PhaseInv
  <2>2. Exclusive
    <3> SUFFICES ASSUME ~destroyed, input # "raspicam" PROVE \A t, u \in Inside : t = u
      BY Zenon DEF Exclusive
    <3>1. \A t \in Inside : db = {t}
      BY Zenon DEF Inside, LockInv, Working
    <3> QED BY Zenon, <3>1
  <2> QED BY Zenon, <2>1, <2>2 DEF LockKept
<1> QED BY <1>1, StreamerInvariant, PTL

\* Until SIGINT nothing is used after it is gone, unless the input has ended by itself or, with
\* libcamera, an output reads the buffer that a change of resolution has freed.
THEOREM SafeWhileRunningHolds == Spec => []SafeWhileRunning
<1>1. UseInv => SafeWhileRunning
  BY Zenon DEF UseInv
<1> QED BY <1>1, StreamerInvariant, PTL
=============================================================================
