---------------------------- MODULE CameraProofs ----------------------------
(***************************************************************************)
(* What three camera inputs keep for any number of HTTP threads,           *)
(* resolutions, buffers and changes of the resolution.                     *)
(*                                                                         *)
(* input_uvc: as long as no change begins behind the test of               *)
(* STREAMING_PAUSED or during another one, the state of the device, the    *)
(* mapped buffers and tmpbuffer agree whenever cam_thread() uses them.     *)
(* input_libcamera: no request is lost, doubled or used after a switch of  *)
(* the resolution freed it.                                                *)
(* input_raspicam: the worker and the callback of the encoder share        *)
(* buffers, pool and semaphore without losing or reusing one.              *)
(***************************************************************************)
EXTENDS UvcCamera, LibCamera, Raspicam, FiniteSetTheorems, TLAPS

-----------------------------------------------------------------------------
(* UvcCamera: cam_thread() and setResolution() agree on the device *)


\* The control points between the test of STREAMING_PAUSED and the next round.
Past == {"select", "grab", "copy", "queue", "check", "publish", "other"}

\* The values of the variables; cam_thread() is in setResolution() exactly while its control
\* point says so, and videoIn is gone exactly when it has ended.
CaptureTypes ==
    /\ fd \in Nat \ {0} /\ width \in Resolutions
    /\ tmp \in [size : Nat, used : Nat, filled : BOOLEAN]
    /\ camPc \in CamPcs /\ step \in [Threads -> Steps] /\ want \in [Threads -> Resolutions]
    /\ (camPc = "change") <=> (step[Cam] # "none")
    /\ (camPc = "done") <=> ~videoIn

\* One thread at a time changes the resolution, the stream is paused meanwhile, and what each
\* step of setResolution() has reached; while the stream is on everything agrees.
Agreement ==
    /\ \A t, u \in Threads : step[t] # "none" /\ step[u] # "none" => t = u
    /\ \A t \in Threads : step[t] # "none" => streamingState = "PAUSED"
    /\ \A t \in Requesters : step[t] # "none" => camPc \in {"test", "paused", "cleanup"}
    /\ camPc \in {"options", "enable"} =>
          /\ \A t \in Threads : step[t] = "none"
          /\ opened = {fd} /\ mem = fd /\ tmp.size = width /\ ~tmp.filled
          /\ streamingState = "OFF"
    /\ camPc \notin {"options", "enable", "cleanup"} => streamingState \in {"ON", "PAUSED"}
    /\ camPc \in Past => streamingState = "ON"
    /\ opened \subseteq {fd}
    /\ \A t \in Threads : step[t] = "reopen" => opened = {}
    /\ \A t \in Threads : step[t] \in {"free", "alloc", "enable"} => opened = {fd} /\ mem = fd
    /\ \A t \in Threads : step[t] \in {"alloc", "enable"} => ~tmp.filled
    /\ \A t \in Threads : step[t] = "enable" => tmp.size = width
    /\ streamingState = "ON" =>
          /\ opened = {fd} /\ streaming = fd /\ mem = fd /\ tmp.size = width
          /\ tmp.filled => tmp.used = width
CaptureInv == ~raced /\ videoIn => Agreement

\* Every step keeps the types.
LEMMA TypesStep == ASSUME CaptureTypes, UvcNext PROVE CaptureTypes'
<1> USE UvcAssumption DEF CaptureTypes, CamPcs, Steps, camera, controls, history, CamFrame, ChangeFrame, ToPc,
        Threads, Cam
<1>1. CASE CamEnable
  BY Zenon, <1>1 DEF CamEnable, StreamOn
<1>2. CASE CamFails
  BY Zenon, <1>2 DEF CamFails
<1>3. CASE CamTest
  BY Zenon, <1>3 DEF CamTest
<1>4. CASE CamUnpaused
  BY Zenon, <1>4 DEF CamUnpaused
<1>5. CASE CamReady
  BY Zenon, <1>5 DEF CamReady
<1>6. CASE CamEvent
  BY Zenon, <1>6 DEF CamEvent
<1>7. CASE CamChange
  BY Zenon, <1>7 DEF CamChange, Pause, ToStep
<1>8. CASE CamGrab
  BY Zenon, <1>8 DEF CamGrab
<1>9. CASE CamCopy
  BY <1>9, Zenon DEF CamCopy
<1>10. CASE CamEmpty
  BY Zenon, <1>10 DEF CamEmpty
<1>11. CASE CamQueue
  BY Zenon, <1>11 DEF CamQueue
<1>12. CASE CamCheck
  BY Zenon, <1>12 DEF CamCheck
<1>13. CASE CamPublish
  BY Zenon, <1>13 DEF CamPublish
<1>14. CASE CamCrash
  BY Zenon, <1>14 DEF CamCrash, UvcCrash
<1>15. CASE CamOther
  BY Zenon, <1>15 DEF CamOther
<1>16. CASE CamCleanup
  BY <1>16, Zenon DEF CamCleanup
<1>17. CASE CamCancel
  BY Zenon, <1>17 DEF CamCancel
<1>18. CASE CamOptionsDone
  BY Zenon, <1>18 DEF CamOptionsDone
<1>19. CASE SigInt
  BY Zenon, <1>19 DEF SigInt
<1>20. ASSUME NEW c \in Parameters, NEW v \in Values, CamOption(c, v) PROVE CaptureTypes'
  BY Zenon, <1>20 DEF CamOption, SetControl
<1>21. ASSUME NEW t \in Threads, Change(t) PROVE CaptureTypes'
  <2>1. CASE Disable(t)
    BY Zenon, <2>1 DEF Disable, ToStep
  <2>2. CASE DisableFails(t)
    BY Zenon, <2>2 DEF DisableFails, ToStep, Return
  <2>3. CASE Unmap(t)
    BY Zenon, <2>3 DEF Unmap, ToStep
  <2>4. CASE Reopen(t)
    BY <2>4 DEF Reopen, ToStep
  <2>5. CASE ReopenFails(t)
    BY <2>5 DEF ReopenFails, ToStep, Return
  <2>6. CASE Free(t)
    BY <2>6, Zenon DEF Free, ToStep
  <2>7. CASE Alloc(t)
    BY ZenonT(30), <2>7 DEF Alloc, ToStep
  <2>8. CASE AllocFails(t)
    BY Zenon, <2>8 DEF AllocFails, ToStep, Return
  <2>9. CASE Enable(t)
    BY Zenon, <2>9 DEF Enable, ToStep, Return, StreamOn
  <2>10. CASE EnableFails(t)
    BY Zenon, <2>10 DEF EnableFails, ToStep, Return
  <2> QED BY Zenon, <1>21, <2>1, <2>2, <2>3, <2>4, <2>5, <2>6, <2>7, <2>8, <2>9, <2>10 DEF Change
<1>22. ASSUME NEW t \in Requesters, Command(t) PROVE CaptureTypes'
  <2>1. ASSUME NEW c \in Parameters, NEW v \in Values, CmdV4l2(t, c, v) PROVE CaptureTypes'
    BY Zenon, <2>1 DEF CmdV4l2, SetControl
  <2>2. ASSUME NEW c \in Parameters, NEW v \in Values, CmdV4l2Gone(t, c, v) PROVE CaptureTypes'
    BY Zenon, <2>2 DEF CmdV4l2Gone, UvcCrash
  <2>3. ASSUME NEW w \in Resolutions, CmdResolution(t, w) PROVE CaptureTypes'
    BY Zenon, <2>3 DEF CmdResolution, Pause, ToStep, Changing
  <2>4. CASE CmdResolutionGone(t)
    BY Zenon, <2>4 DEF CmdResolutionGone, UvcCrash
  <2> QED BY Zenon, <1>22, <2>1, <2>2, <2>3, <2>4 DEF Command
<1> QED BY Zenon, <1>1, <1>2, <1>3, <1>4, <1>5, <1>6, <1>7, <1>8, <1>9, <1>10, <1>11, <1>12, <1>13, <1>14, <1>15, <1>16,
           <1>17, <1>18, <1>19, <1>20, <1>21, <1>22, Zenon DEF UvcNext, CamStep

\* Every step keeps the agreement.
LEMMA AgreementStep == ASSUME CaptureTypes, CaptureInv, UvcNext PROVE CaptureInv'
<1> USE UvcAssumption DEF CaptureTypes, CaptureInv, Agreement, Past, CamPcs, Steps, Closed,
        camera, controls, history, CamFrame, ChangeFrame, ToPc, Threads, Cam
<1>1. CASE CamEnable
  BY Zenon, <1>1 DEF CamEnable, StreamOn
<1>2. CASE CamFails
  BY Zenon, <1>2 DEF CamFails
<1>3. CASE CamTest
  BY Zenon, <1>3 DEF CamTest
<1>4. CASE CamUnpaused
  BY Zenon, <1>4 DEF CamUnpaused
<1>5. CASE CamReady
  BY Zenon, <1>5 DEF CamReady
<1>6. CASE CamEvent
  BY Zenon, <1>6 DEF CamEvent
<1>7. CASE CamChange
  BY Zenon, <1>7 DEF CamChange, Pause, ToStep
<1>8. CASE CamGrab
  BY Zenon, <1>8 DEF CamGrab
<1>9. CASE CamCopy
  BY Zenon, <1>9 DEF CamCopy
<1>10. CASE CamEmpty
  BY Zenon, <1>10 DEF CamEmpty
<1>11. CASE CamQueue
  BY Zenon, <1>11 DEF CamQueue
<1>12. CASE CamCheck
  BY Zenon, <1>12 DEF CamCheck
<1>13. CASE CamPublish
  BY Zenon, <1>13 DEF CamPublish
<1>14. CASE CamCrash
  BY Zenon, <1>14 DEF CamCrash, UvcCrash
<1>15. CASE CamOther
  BY Zenon, <1>15 DEF CamOther
<1>16. CASE CamCleanup
  BY Zenon, <1>16 DEF CamCleanup
<1>17. CASE CamCancel
  BY Zenon, <1>17 DEF CamCancel
<1>18. CASE CamOptionsDone
  BY Zenon, <1>18 DEF CamOptionsDone
<1>19. CASE SigInt
  BY Zenon, <1>19 DEF SigInt
<1>20. ASSUME NEW c \in Parameters, NEW v \in Values, CamOption(c, v) PROVE CaptureInv'
  BY Zenon, <1>20 DEF CamOption, SetControl
<1>21. ASSUME NEW t \in Threads, Change(t) PROVE CaptureInv'
  <2>1. CASE Disable(t)
    BY Zenon, <2>1 DEF Disable, ToStep
  <2>2. CASE DisableFails(t)
    BY Zenon, <2>2 DEF DisableFails, ToStep, Return
  <2>3. CASE Unmap(t)
    BY Zenon, <2>3 DEF Unmap, ToStep
  <2>4. CASE Reopen(t)
    BY Zenon, <2>4 DEF Reopen, ToStep
  <2>5. CASE ReopenFails(t)
    BY Zenon, <2>5 DEF ReopenFails, ToStep, Return
  <2>6. CASE Free(t)
    BY Zenon, <2>6 DEF Free, ToStep
  <2>7. CASE Alloc(t)
    BY Zenon, <2>7 DEF Alloc, ToStep
  <2>8. CASE AllocFails(t)
    BY Zenon, <2>8 DEF AllocFails, ToStep, Return
  <2>9. CASE Enable(t)
    BY Zenon, <2>9 DEF Enable, ToStep, Return, StreamOn
  <2>10. CASE EnableFails(t)
    BY Zenon, <2>10 DEF EnableFails, ToStep, Return
  <2> QED BY <1>21, <2>1, <2>2, <2>3, <2>4, <2>5, <2>6, <2>7, <2>8, <2>9, <2>10, Zenon DEF Change
<1>22. ASSUME NEW t \in Requesters, Command(t) PROVE CaptureInv'
  <2>1. ASSUME NEW c \in Parameters, NEW v \in Values, CmdV4l2(t, c, v) PROVE CaptureInv'
    BY Zenon, <2>1 DEF CmdV4l2, SetControl
  <2>2. ASSUME NEW c \in Parameters, NEW v \in Values, CmdV4l2Gone(t, c, v) PROVE CaptureInv'
    BY Zenon, <2>2 DEF CmdV4l2Gone, UvcCrash
  <2>3. ASSUME NEW w \in Resolutions, CmdResolution(t, w) PROVE CaptureInv'
    BY <2>3, Zenon DEF CmdResolution, Pause, ToStep, Changing
  <2>4. CASE CmdResolutionGone(t)
    BY Zenon, <2>4 DEF CmdResolutionGone, UvcCrash
  <2> QED BY <1>22, <2>1, <2>2, <2>3, <2>4, Zenon DEF Command
<1> QED BY Zenon, <1>1, <1>2, <1>3, <1>4, <1>5, <1>6, <1>7, <1>8, <1>9, <1>10, <1>11, <1>12, <1>13, <1>14, <1>15, <1>16,
           <1>17, <1>18, <1>19, <1>20, <1>21, <1>22, Zenon DEF UvcNext, CamStep

\* cam_thread() ends or crashes for one of the three reasons; step by step.
LEMMA SurvivesStep == ASSUME CaptureTypes, CaptureInv, CameraSurvives, UvcNext PROVE CameraSurvives'
<1> USE UvcAssumption DEF CameraSurvives, camera, controls, history, CamFrame, ChangeFrame, ToPc, ToStep
<1>1. CASE CamFails
  <2>1. ~raced /\ videoIn => (camPc \in {"enable"} \cup Past => fd \in opened)
    BY Zenon DEF CaptureInv, Agreement
  <2>2. ~raced /\ videoIn => (camPc \in Past => streaming = fd)
    BY Zenon DEF CaptureInv, Agreement
  <2>3. videoIn /\ camPc \in {"enable"} \cup Past
    BY Zenon, <1>1 DEF CamFails, CaptureTypes, Past
  <2> QED BY <1>1, <2>1, <2>2, <2>3, Zenon DEF CamFails, Past
<1>2. CASE CamCrash
  <2>1. ~raced /\ videoIn /\ camPc \in Past => mem # Closed /\ tmp.size # 0
    BY Zenon DEF CaptureInv, Agreement, CaptureTypes, Closed
  <2>2. videoIn /\ camPc \in Past /\ (mem = Closed \/ tmp.size = 0)
    BY Zenon, <1>2 DEF CamCrash, CaptureTypes, Past
  <2> QED BY Zenon, <1>2, <2>1, <2>2 DEF CamCrash, UvcCrash
<1>3. ASSUME CamStep, ~CamFails, ~CamCrash PROVE CameraSurvives'
  <2>1. CASE CamEnable \/ CamTest \/ CamUnpaused \/ CamReady \/ CamEvent \/ CamChange
    BY Zenon, <2>1 DEF CamEnable, StreamOn, CamTest, CamUnpaused, CamReady, CamEvent, CamChange, Pause
  <2>2. CASE CamGrab \/ CamCopy \/ CamEmpty \/ CamQueue \/ CamCheck
    BY Zenon, <2>2 DEF CamGrab, CamCopy, CamEmpty, CamQueue, CamCheck
  <2>3. CASE CamPublish \/ CamOther \/ CamCleanup \/ CamCancel \/ CamOptionsDone
    BY Zenon, <2>3 DEF CamPublish, CamOther, CamCleanup, CamCancel, CamOptionsDone
  <2> QED BY <1>3, <2>1, <2>2, <2>3, Zenon DEF CamStep
<1>4. CASE SigInt
  BY Zenon, <1>4 DEF SigInt
<1>5. ASSUME NEW c \in Parameters, NEW v \in Values, CamOption(c, v) PROVE CameraSurvives'
  BY Zenon, <1>5 DEF CamOption, SetControl
<1>6. ASSUME NEW t \in Threads, Change(t) PROVE CameraSurvives'
  <2>1. CASE Disable(t) \/ DisableFails(t) \/ Unmap(t) \/ Reopen(t) \/ ReopenFails(t)
    BY <2>1, Zenon DEF Disable, DisableFails, Unmap, Reopen, ReopenFails, Return
  <2>2. CASE Free(t) \/ Alloc(t) \/ AllocFails(t) \/ Enable(t) \/ EnableFails(t)
    BY <2>2, Zenon DEF Free, Alloc, AllocFails, Enable, EnableFails, StreamOn, Return
  <2> QED BY <1>6, <2>1, <2>2, Zenon DEF Change
<1>7. ASSUME NEW t \in Requesters, Command(t) PROVE CameraSurvives'
  BY <1>7, Zenon DEF Command, CmdV4l2, CmdV4l2Gone, CmdResolution, CmdResolutionGone, SetControl, Pause, UvcCrash,
              CaptureTypes
<1> QED BY Zenon, <1>1, <1>2, <1>3, <1>4, <1>5, <1>6, <1>7 DEF UvcNext

\* The entries of the user-class controls follow the camera; step by step.
LEMMA ShownStep ==
    ASSUME shown \in [Parameters -> Values], device \in [Parameters -> Values], ControlsShown, UvcNext
    PROVE  shown' \in [Parameters -> Values] /\ device' \in [Parameters -> Values] /\ ControlsShown'
<1> DEFINE Shown == shown' \in [Parameters -> Values] /\ device' \in [Parameters -> Values] /\ ControlsShown'
<1>1. ASSUME NEW c \in Parameters, NEW v \in Values, SetControl(c, v) PROVE Shown
  BY <1>1, UvcAssumption, Zenon DEF SetControl, Show, Accepted, ControlsShown
<1>2. ASSUME UNCHANGED <<shown, device>> PROVE Shown
  BY Zenon, <1>2 DEF ControlsShown
<1>3. CamStep \/ SigInt => UNCHANGED <<shown, device>>
  <2> USE DEF CamFrame, controls
  <2>1. CamEnable \/ CamFails \/ CamTest \/ CamUnpaused \/ CamReady \/ CamEvent \/ CamChange => UNCHANGED <<shown, device>>
    BY Zenon DEF CamEnable, CamFails, CamTest, CamUnpaused, CamReady, CamEvent, CamChange, Pause
  <2>2. CamGrab \/ CamCopy \/ CamEmpty \/ CamQueue \/ CamCheck \/ CamPublish => UNCHANGED <<shown, device>>
    BY Zenon DEF CamGrab, CamCopy, CamEmpty, CamQueue, CamCheck, CamPublish
  <2>3. CamCrash \/ CamOther \/ CamCleanup \/ CamCancel \/ CamOptionsDone \/ SigInt => UNCHANGED <<shown, device>>
    BY Zenon DEF CamCrash, UvcCrash, CamOther, CamCleanup, CamCancel, CamOptionsDone, SigInt
  <2> QED BY <2>1, <2>2, <2>3, Zenon DEF CamStep
<1>4. \A t \in Threads : Change(t) => UNCHANGED <<shown, device>>
  <2> USE DEF ChangeFrame, controls
  <2>1. \A t \in Threads : Disable(t) \/ DisableFails(t) \/ Unmap(t) \/ Reopen(t) \/ ReopenFails(t) =>
           UNCHANGED <<shown, device>>
    BY Zenon DEF Disable, DisableFails, Unmap, Reopen, ReopenFails
  <2>2. \A t \in Threads : Free(t) \/ Alloc(t) \/ AllocFails(t) \/ Enable(t) \/ EnableFails(t) =>
           UNCHANGED <<shown, device>>
    BY Zenon DEF Free, Alloc, AllocFails, Enable, EnableFails
  <2> QED BY <2>1, <2>2, Zenon DEF Change
<1>5. ASSUME NEW t \in Requesters, Command(t)
      PROVE  (\E c \in Parameters, v \in Values : SetControl(c, v)) \/ UNCHANGED <<shown, device>>
  BY Zenon, <1>5 DEF Command, CmdV4l2, CmdV4l2Gone, CmdResolution, CmdResolutionGone, Pause, UvcCrash, controls
<1>6. \A c \in Parameters, v \in Values : CamOption(c, v) => SetControl(c, v)
  BY Zenon DEF CamOption
<1> HIDE DEF Shown
<1>7. Shown
  BY Zenon, <1>1, <1>2, <1>3, <1>4, <1>5, <1>6 DEF UvcNext
<1> QED BY Zenon, <1>7 DEF Shown

\* All the invariants together, in every reachable state.
LEMMA CaptureInvariant ==
    UvcSpec => [](/\ CaptureTypes /\ CaptureInv /\ CameraSurvives /\ ControlsShown
                  /\ shown \in [Parameters -> Values] /\ device \in [Parameters -> Values])
<1> DEFINE Inv == /\ CaptureTypes /\ CaptureInv /\ CameraSurvives /\ ControlsShown
                  /\ shown \in [Parameters -> Values] /\ device \in [Parameters -> Values]
<1>1. UvcInit => Inv
  <2> SUFFICES ASSUME UvcInit PROVE Inv
    BY Zenon
  <2>1. width \in Nat \ {0} /\ tmp = [size |-> width, used |-> 0, filled |-> FALSE]
    BY Zenon, UvcAssumption DEF UvcInit, Fresh
  <2>2. CaptureTypes
    BY <2>1, UvcAssumption DEF UvcInit, CaptureTypes, CamPcs, Steps, Threads
  <2>3. CaptureInv
    <3>1. tmp.size = width /\ tmp.filled = FALSE /\ \A t \in Threads : step[t] = "none"
      BY <2>1 DEF UvcInit
    <3> QED BY Zenon, <3>1 DEF UvcInit, CaptureInv, Agreement, Past, Threads
  <2>4. CameraSurvives
    BY Zenon DEF UvcInit, CameraSurvives
  <2>5. ControlsShown /\ shown \in [Parameters -> Values] /\ device \in [Parameters -> Values]
    BY Zenon, UvcAssumption DEF UvcInit, ControlsShown
  <2> QED BY Zenon, <2>2, <2>3, <2>4, <2>5
<1>2. Inv /\ [UvcNext]_uvcVars => Inv'
  <2>1. CASE UvcNext
    BY Zenon, <2>1, TypesStep, AgreementStep, SurvivesStep, ShownStep
  <2>2. CASE UNCHANGED uvcVars
    BY Zenon, <2>2 DEF uvcVars, camera, controls, history, CaptureTypes, CaptureInv, Agreement, CameraSurvives,
                ControlsShown
  <2> QED BY Zenon, <2>1, <2>2
<1> QED BY <1>1, <1>2, PTL DEF UvcSpec

\* Whatever the HTTP threads ask for, the capture loop ends only for a failure, for SIGINT or for a
\* race; while it captures, the open device, the mapped buffers and the sizes agree, what it copies
\* fits, and input.json shows the values the camera has.
THEOREM CaptureConsistentHolds == UvcSpec => []CaptureConsistent
<1>1. CaptureTypes /\ CaptureInv => StateAgrees
  BY Zenon DEF CaptureTypes, CaptureInv, Agreement, StateAgrees
<1>2. CaptureTypes /\ CaptureInv => CopyWithin
  BY UvcAssumption DEF CaptureTypes, CaptureInv, Agreement, CopyWithin, Past
<1> QED BY <1>1, <1>2, CaptureInvariant, PTL DEF CaptureConsistent

-----------------------------------------------------------------------------
(* LibCamera: no request is lost, doubled or used after it was freed *)

\* A sequence without repetitions.
Distinct(s) == \A i, j \in DOMAIN s : s[i] = s[j] => i = j

\* The worker takes pictures.
TakingPictures == {"loop", "clear", "read", "publish", "return"}

\* The requests that have not been queued yet.
Unqueued == lcReqs \ (lcQueued \cup Range(lcDone))

\* Requests are in one place, those of requestQueue once; the worker has one while it publishes it.
RequestsInv ==
    /\ lcPc \in {"configure", "start", "queue", "loop", "stop", "flush", "move", "clear", "read", "publish", "return",
                 "close", "gone"}
    /\ lcGen \in Nat /\ lcLost \in Nat /\ IsFiniteSet(lcReqs) /\ lcDone \in Seq(lcReqs)
    /\ RequestsLive
    /\ lcQueued \cap Range(lcDone) = {} /\ lcHeld \cap (lcQueued \cup Range(lcDone)) = {}
    /\ Distinct(lcDone)
    /\ lcPc \in {"publish", "return"} => \E r : lcHeld = {r}
    /\ lcPc \notin {"publish", "return"} => lcHeld = {}
    /\ lcPc \in {"configure", "start"} => lcQueued = {} /\ lcDone = <<>>
    /\ lcPc \in {"configure", "start", "queue", "move"} => lcLost = 0
    /\ lcPc = "flush" => lcQueued = {}

\* While they are queued at first none is missing, and afterwards only the ones not taken back.
CountInv ==
    /\ lcPc \in {"start", "queue"} =>
          Cardinality(lcQueued) + Len(lcDone) + Cardinality(Unqueued) = Buffers(lcSize)
    /\ lcPc \in TakingPictures \cup {"move"} =>
          Cardinality(lcQueued) + Len(lcDone) + Cardinality(lcHeld) + lcLost = Buffers(lcSize)

\* Without a snapshot of another resolution the camera is never stopped for one.
SwitchInv ==
    /\ lcSnapshot => lcAsked
    /\ lcSame \/ ~lcAsked =>
          lcSwitch = "no" /\ lcPc \notin {"stop", "flush", "move"} /\ lcTurned /\ ~lcFreed

\* The domain and the elements of an appended sequence.
LEMMA AppendFacts ==
    ASSUME NEW S, NEW s \in Seq(S), NEW e \in S
    PROVE  /\ DOMAIN s = 1..Len(s) /\ Len(s) \in Nat
           /\ DOMAIN Append(s, e) = 1..(Len(s) + 1)
           /\ \A i \in 1..Len(s) : Append(s, e)[i] = s[i]
           /\ Append(s, e)[Len(s) + 1] = e
  OBVIOUS

\* Append() adds its element to those of the sequence.
LEMMA AppendRange ==
    ASSUME NEW S, NEW s \in Seq(S), NEW e \in S
    PROVE  Range(Append(s, e)) = Range(s) \cup {e}
<1>1. /\ DOMAIN s = 1..Len(s) /\ Len(s) \in Nat
      /\ DOMAIN Append(s, e) = 1..(Len(s) + 1)
      /\ \A i \in 1..Len(s) : Append(s, e)[i] = s[i]
      /\ Append(s, e)[Len(s) + 1] = e
  BY AppendFacts
<1> QED BY <1>1 DEF Range

\* Append() of a new element keeps a sequence without repetitions.
LEMMA AppendDistinct ==
    ASSUME NEW S, NEW s \in Seq(S), NEW e \in S, e \notin Range(s), Distinct(s)
    PROVE  Distinct(Append(s, e))
<1>1. /\ DOMAIN s = 1..Len(s) /\ Len(s) \in Nat
      /\ DOMAIN Append(s, e) = 1..(Len(s) + 1)
      /\ \A i \in 1..Len(s) : Append(s, e)[i] = s[i]
      /\ Append(s, e)[Len(s) + 1] = e
  BY AppendFacts
<1>2. \A i \in 1..Len(s) : s[i] # e
  BY Zenon, <1>1 DEF Range
<1>3. ASSUME NEW i \in 1..(Len(s) + 1), NEW j \in 1..(Len(s) + 1), Append(s, e)[i] = Append(s, e)[j]
      PROVE  i = j
  <2>1. CASE i \in 1..Len(s) /\ j \in 1..Len(s)
    BY Zenon, <1>1, <1>3, <2>1 DEF Distinct
  <2>2. CASE ~(i \in 1..Len(s) /\ j \in 1..Len(s))
    BY <1>1, <1>2, <1>3, <2>2
  <2> QED BY Zenon, <2>1, <2>2
<1>4. Distinct(Append(s, e))
  BY <1>1, <1>3, Zenon DEF Distinct
<1> QED BY Zenon, <1>4

\* Without repetitions Tail() loses exactly the head.
LEMMA TailRange ==
    ASSUME NEW S, NEW s \in Seq(S), s # <<>>, Distinct(s)
    PROVE  /\ Head(s) \in Range(s) /\ Head(s) \in S
           /\ Range(Tail(s)) = Range(s) \ {Head(s)}
           /\ Tail(s) \in Seq(S) /\ Len(Tail(s)) = Len(s) - 1 /\ Len(s) \in Nat
           /\ Distinct(Tail(s))
<1>1. /\ DOMAIN s = 1..Len(s) /\ Len(s) \in Nat \ {0} /\ Head(s) = s[1]
  OBVIOUS
<1>2. /\ Head(s) \in S /\ Tail(s) \in Seq(S) /\ Len(Tail(s)) = Len(s) - 1
      /\ DOMAIN Tail(s) = 1..(Len(s) - 1)
      /\ \A i \in 1..(Len(s) - 1) : Tail(s)[i] = s[i + 1]
  OBVIOUS
<1>3. \A i \in 1..Len(s) : i = 1 \/ (i - 1 \in 1..(Len(s) - 1) /\ s[i] = Tail(s)[i - 1])
  BY <1>1, <1>2
<1>4. \A i \in 1..(Len(s) - 1) : i + 1 \in 1..Len(s) /\ s[i + 1] # s[1]
  BY <1>1 DEF Distinct
<1>5. Range(Tail(s)) \subseteq Range(s) \ {Head(s)}
  BY <1>1, <1>2, <1>4 DEF Range
<1>6. Range(s) \ {Head(s)} \subseteq Range(Tail(s))
  <2> SUFFICES ASSUME NEW i \in DOMAIN s, s[i] # Head(s) PROVE s[i] \in Range(Tail(s))
    BY Zenon DEF Range
  <2> QED BY <1>1, <1>2, <1>3, Zenon DEF Range
<1>7. Distinct(Tail(s))
  BY <1>1, <1>2, <1>4 DEF Distinct
<1>8. Head(s) \in Range(s)
  BY <1>1 DEF Range
<1> QED BY Zenon, <1>1, <1>2, <1>5, <1>6, <1>7, <1>8

\* The requests of a configuration: as many as it has buffers.
LEMMA RequestsMade ==
    ASSUME NEW g, NEW k \in Nat
    PROVE  LET R == {<<g, m>> : m \in 1..k} IN IsFiniteSet(R) /\ Cardinality(R) = k
<1> DEFINE R == {<<g, m>> : m \in 1..k}
           f == [m \in 1..k |-> <<g, m>>]
<1>1. f \in Bijection(1..k, R)
  BY ZenonT(30) DEF Bijection, Injection, Surjection, IsInjective
<1>2. IsFiniteSet(1..k) /\ Cardinality(1..k) = k
  BY FS_Interval
<1>3. ExistsBijection(1..k, R)
  BY Zenon, <1>1 DEF ExistsBijection
<1> HIDE DEF R
<1>4. IsFiniteSet(R) /\ Cardinality(R) = k
  BY Zenon, <1>2, <1>3, FS_Bijection
<1> QED BY Zenon, <1>4 DEF R

\* The invariants hold before the camera is configured.
LEMMA LibCameraInitially == LcInit => RequestsInv /\ CountInv /\ SwitchInv
<1> SUFFICES ASSUME LcInit PROVE RequestsInv /\ CountInv /\ SwitchInv
  BY Zenon
<1>1. RequestsInv
  BY FS_EmptySet DEF LcInit, RequestsInv, RequestsLive, Range, Distinct
<1>2. CountInv
  BY Zenon DEF LcInit, CountInv, TakingPictures
<1>3. lcSnapshot = FALSE /\ lcTurned = TRUE /\ lcFreed = FALSE /\ lcSwitch = "no" /\ lcPc = "configure"
  BY Zenon DEF LcInit
<1> QED BY Zenon, <1>1, <1>2, <1>3 DEF SwitchInv

\* Every step keeps the camera from being stopped without a reason.
LEMMA SwitchStep == ASSUME SwitchInv, LcNext PROVE SwitchInv'
<1> USE DEF SwitchInv, lcCamera, lcOther
<1>1. CASE LcConfigure \/ LcStartCapture \/ QueueFirst \/ LoopCheck \/ StopCamera \/ LcFlush
  BY <1>1, SMTT(20) DEF LcConfigure, LcStartCapture, QueueFirst, LoopCheck, StopCamera, LcFlush
<1>2. CASE LcMove \/ ClearSnapshot \/ LcReadFrame \/ LcPublish \/ ReturnFrame \/ LcClose
  BY SMTT(30), <1>2 DEF LcMove, ClearSnapshot, LcReadFrame, LcPublish, ReturnFrame, LcClose
<1>3. CASE StartFails \/ SwitchFails \/ LoopStop \/ LcComplete
  BY SMTT(30), <1>3 DEF StartFails, SwitchFails, LoopStop, LcComplete
<1>4. CASE LcAsk \/ LcWait \/ LcCopy \/ LcTrigger
  BY SMTT(30), <1>4 DEF LcAsk, LcWait, LcCopy, LcTrigger
<1> QED BY <1>1, <1>2, <1>3, <1>4, SMTT(20) DEF LcNext, LcWorker

\* Every step keeps each request in one place.
LEMMA RequestsStep == ASSUME RequestsInv, LcNext PROVE RequestsInv'
<1> USE DEF lcCamera, lcOther
<1>0. /\ lcDone \in Seq(lcReqs) /\ Range(lcDone) \subseteq lcReqs /\ lcQueued \subseteq lcReqs /\ lcHeld \subseteq lcReqs
      /\ IsFiniteSet(lcReqs) /\ Distinct(lcDone)
  BY Zenon DEF RequestsInv, RequestsLive
<1>1. CASE LcConfigure
  <2>1. lcQueued = {} /\ lcDone = <<>> /\ lcHeld = {} /\ lcLost = 0 /\ lcGen + 1 \in Nat
    BY SMTT(30), <1>1 DEF LcConfigure, RequestsInv
  <2>2. IsFiniteSet(lcReqs')
    <3>1. Buffers(lcSize) \in Nat
      BY Zenon, LibCameraAssumption DEF Buffers
    <3> QED BY <1>1, <3>1, RequestsMade, Zenon DEF LcConfigure
  <2>3. Range(lcDone) = {} /\ lcDone \in Seq(lcReqs')
    BY <2>1 DEF Range
  <2> QED BY Zenon, <1>1, <2>1, <2>2, <2>3 DEF LcConfigure, RequestsInv, RequestsLive, Distinct
<1>2. CASE LcStartCapture \/ StopCamera
  BY Zenon, <1>2 DEF LcStartCapture, StopCamera, RequestsInv, RequestsLive
<1>3. CASE QueueFirst
  <2>1. CASE lcPc' = lcPc
    <3>1. PICK r \in Unqueued : lcQueued' = lcQueued \cup {r}
      BY Zenon, <1>3, <2>1 DEF QueueFirst, Unqueued
    <3>2. r \in lcReqs /\ r \notin lcQueued /\ r \notin Range(lcDone)
      BY Zenon, <3>1 DEF Unqueued
    <3>3. lcPc = "queue" /\ lcHeld = {} /\ UNCHANGED <<lcPc, lcGen, lcLost, lcReqs, lcDone, lcHeld>>
      BY Zenon, <1>3, <2>1 DEF QueueFirst, RequestsInv
    <3> QED BY Zenon, <3>1, <3>2, <3>3 DEF RequestsInv, RequestsLive
  <2>2. CASE lcPc' # lcPc
    BY <1>3, <2>2, SMTT(20) DEF QueueFirst, RequestsInv, RequestsLive
  <2> QED BY Zenon, <2>1, <2>2
<1>4. CASE LoopCheck \/ LoopStop \/ LcMove \/ ClearSnapshot \/ LcPublish
  BY ZenonT(30), <1>4 DEF LoopCheck, LoopStop, LcMove, ClearSnapshot, LcPublish, RequestsInv, RequestsLive
<1>5. CASE LcFlush
  <2>1. lcQueued = {} /\ lcHeld = {} /\ lcGen \in Nat
    BY Zenon, <1>5 DEF LcFlush, RequestsInv
  <2>2. /\ lcPc' = "configure" /\ lcQueued' = {} /\ lcDone' = <<>> /\ lcReqs' = {} /\ lcHeld' = {}
        /\ lcLost' = 0 /\ lcGen' \in Nat
    BY Zenon, <1>5, <2>1 DEF LcFlush
  <2>3. Range(lcDone') = {} /\ lcDone' \in Seq(lcReqs') /\ IsFiniteSet(lcReqs')
    BY <2>2, FS_EmptySet DEF Range
  <2> QED BY SMTT(30), <2>2, <2>3 DEF RequestsInv, RequestsLive, Distinct
<1>6. CASE LcReadFrame
  <2>1. CASE lcDone = <<>>
    BY Zenon, <1>6, <2>1 DEF LcReadFrame, RequestsInv, RequestsLive
  <2>2. CASE lcDone # <<>>
    <3>1. /\ Head(lcDone) \in Range(lcDone) /\ Range(Tail(lcDone)) = Range(lcDone) \ {Head(lcDone)}
          /\ Tail(lcDone) \in Seq(lcReqs) /\ Distinct(Tail(lcDone))
      BY Zenon, <1>0, <2>2, TailRange
    <3>2. /\ lcHeld' = {Head(lcDone)} /\ lcDone' = Tail(lcDone) /\ lcPc' = "publish"
          /\ UNCHANGED <<lcGen, lcLost, lcReqs, lcQueued>>
      BY Zenon, <1>6, <2>2 DEF LcReadFrame
    <3> QED BY <1>0, <3>1, <3>2, Zenon DEF RequestsInv, RequestsLive
  <2> QED BY Zenon, <2>1, <2>2
<1>7. CASE ReturnFrame
  <2>1. /\ lcHeld' = {} /\ lcPc' \in {"stop", "loop"} /\ lcLost' \in Nat
        /\ lcQueued' \in {lcQueued, lcQueued \cup lcHeld} /\ UNCHANGED <<lcGen, lcReqs, lcDone>>
    BY SMTT(30), <1>7 DEF ReturnFrame, RequestsInv
  <2> QED BY Zenon, <1>0, <2>1 DEF RequestsInv, RequestsLive
<1>8. CASE LcClose
  <2>1. /\ lcPc' = "gone" /\ lcQueued' = {} /\ lcDone' = <<>> /\ lcReqs' = {} /\ lcHeld' = {}
        /\ lcLost' \in Nat /\ lcGen' \in Nat
    BY Zenon, <1>8 DEF LcClose, RequestsInv
  <2>2. Range(lcDone') = {} /\ lcDone' \in Seq(lcReqs') /\ IsFiniteSet(lcReqs')
    BY <2>1, FS_EmptySet, SMTT(20) DEF Range
  <2> QED BY SMTT(30), <2>1, <2>2 DEF RequestsInv, RequestsLive, Distinct
<1>9. CASE LcComplete
  <2>1. PICK r \in lcQueued : lcQueued' = lcQueued \ {r} /\ lcDone' = Append(lcDone, r)
    BY Zenon, <1>9 DEF LcComplete
  <2>2. UNCHANGED <<lcPc, lcGen, lcLost, lcReqs, lcHeld>>
    BY Zenon, <1>9 DEF LcComplete
  <2>3. r \in lcReqs /\ r \notin Range(lcDone) /\ r \notin lcHeld
    BY Zenon, <1>0 DEF RequestsInv
  <2>4. lcDone' \in Seq(lcReqs) /\ Range(lcDone') = Range(lcDone) \cup {r} /\ Distinct(lcDone')
    BY <1>0, <2>1, <2>3, AppendRange, AppendDistinct
  <2>5. lcPc \notin {"configure", "start", "flush"}
    BY Zenon, <2>1 DEF RequestsInv
  <2> QED BY Zenon, <1>0, <2>1, <2>2, <2>3, <2>4, <2>5 DEF RequestsInv, RequestsLive
<1>10. CASE StartFails \/ SwitchFails \/ LcAsk \/ LcWait \/ LcCopy \/ LcTrigger
  BY <1>10, Zenon DEF StartFails, SwitchFails, LcAsk, LcWait, LcCopy, LcTrigger, RequestsInv, RequestsLive
<1> QED BY Zenon, <1>1, <1>2, <1>3, <1>4, <1>5, <1>6, <1>7, <1>8, <1>9, <1>10 DEF LcNext, LcWorker

\* Every step keeps the number of requests: one that moves is counted at its new place.
LEMMA CountStep == ASSUME RequestsInv, CountInv, LcNext PROVE CountInv'
<1> USE DEF lcCamera, lcOther, TakingPictures
<1>0. /\ lcDone \in Seq(lcReqs) /\ lcQueued \subseteq lcReqs /\ lcHeld \subseteq lcReqs /\ Unqueued \subseteq lcReqs
      /\ IsFiniteSet(lcReqs) /\ Distinct(lcDone) /\ lcLost \in Nat
  BY Zenon DEF RequestsInv, RequestsLive, Unqueued
<1>a. /\ IsFiniteSet(lcQueued) /\ IsFiniteSet(Unqueued) /\ IsFiniteSet(lcHeld)
  BY Zenon, <1>0, FS_Subset
<1>b. /\ Cardinality(lcQueued) \in Nat /\ Cardinality(Unqueued) \in Nat /\ Cardinality(lcHeld) \in Nat /\ Len(lcDone) \in Nat
  BY <1>0, <1>a, FS_CardinalityType
<1>c. Cardinality({}) = 0
  BY Zenon, FS_EmptySet
<1>1. CASE LcConfigure
  <2>1. lcQueued' = {} /\ lcDone' = <<>> /\ lcPc' = "start" /\ lcSize' = lcSize
    BY Zenon, <1>1 DEF LcConfigure, RequestsInv
  <2>2. Cardinality(lcReqs') = Buffers(lcSize) /\ Buffers(lcSize) \in Nat
    <3>1. Buffers(lcSize) \in Nat
      BY Zenon, LibCameraAssumption DEF Buffers
    <3> QED BY <1>1, <3>1, RequestsMade, Zenon DEF LcConfigure
  <2>3. Unqueued' = lcReqs' /\ Len(lcDone') = 0
    BY <2>1 DEF Unqueued, Range
  <2>4. Cardinality(lcQueued') + Len(lcDone') + Cardinality(Unqueued') = Buffers(lcSize)
    BY <1>c, <2>1, <2>2, <2>3
  <2>5. Buffers(lcSize') = Buffers(lcSize)
    BY Zenon, <2>1
  <2> QED BY <2>1, <2>4, <2>5, SMTT(20) DEF CountInv
<1>2. CASE LcStartCapture
  <2>1. UNCHANGED <<lcReqs, lcQueued, lcDone, lcSize>> /\ lcPc = "start" /\ lcPc' = "queue"
    BY Zenon, <1>2 DEF LcStartCapture
  <2>2. Unqueued' = Unqueued /\ Buffers(lcSize') = Buffers(lcSize)
    BY Zenon, <2>1 DEF Unqueued
  <2> QED BY Zenon, <2>1, <2>2 DEF CountInv
<1>3. CASE QueueFirst
  <2>0. /\ lcPc = "queue" /\ lcHeld = {} /\ lcLost = 0 /\ UNCHANGED <<lcReqs, lcDone, lcSize, lcHeld, lcLost>>
    BY Zenon, <1>3 DEF QueueFirst, RequestsInv
  <2>s. Buffers(lcSize') = Buffers(lcSize)
    BY Zenon, <2>0
  <2>1. CASE lcPc' = lcPc
    <3>1. PICK r \in Unqueued : lcQueued' = lcQueued \cup {r}
      BY Zenon, <1>3, <2>1 DEF QueueFirst, Unqueued
    <3>2. r \notin lcQueued /\ Unqueued' = Unqueued \ {r}
      BY Zenon, <2>0, <3>1 DEF Unqueued
    <3>3. Cardinality(lcQueued') = Cardinality(lcQueued) + 1
      BY <1>a, <3>1, <3>2, FS_AddElement, Zenon
    <3>4. Cardinality(Unqueued') = Cardinality(Unqueued) - 1
      BY <1>a, <3>1, <3>2, FS_RemoveElement, Zenon
    <3> QED BY SMTT(30), <1>b, <2>0, <2>s, <2>1, <3>3, <3>4 DEF CountInv
  <2>2. CASE lcPc' # lcPc
    <3>1. Unqueued = {} /\ lcQueued' = lcQueued /\ lcPc' \in {"loop", "move"}
      BY Zenon, <1>3, <2>0, <2>2 DEF QueueFirst, Unqueued
    <3> QED BY SMTT(30), <1>b, <1>c, <2>0, <2>s, <3>1 DEF CountInv
  <2> QED BY Zenon, <2>1, <2>2
<1>4. CASE LoopCheck \/ LoopStop \/ LcMove \/ ClearSnapshot \/ LcPublish
  <2>1. /\ UNCHANGED <<lcReqs, lcQueued, lcDone, lcSize, lcHeld, lcLost>> /\ lcPc \in TakingPictures \cup {"move"}
        /\ lcPc' \notin {"start", "queue"}
    BY <1>4, Zenon DEF LoopCheck, LoopStop, LcMove, ClearSnapshot, LcPublish
  <2>2. Buffers(lcSize') = Buffers(lcSize)
    BY Zenon, <2>1
  <2> QED BY Zenon, <2>1, <2>2 DEF CountInv
<1>5. CASE StopCamera \/ LcFlush \/ LcClose
  BY Zenon, <1>5 DEF StopCamera, LcFlush, LcClose, CountInv
<1>6. CASE LcReadFrame
  <2>0. lcPc = "read" /\ lcHeld = {} /\ UNCHANGED <<lcSize, lcQueued, lcLost>>
    BY Zenon, <1>6 DEF LcReadFrame, RequestsInv
  <2>s. Buffers(lcSize') = Buffers(lcSize)
    BY Zenon, <2>0
  <2>1. CASE lcDone = <<>>
    BY <1>6, <2>0, <2>s, <2>1, Zenon DEF LcReadFrame, CountInv
  <2>2. CASE lcDone # <<>>
    <3>1. Len(Tail(lcDone)) = Len(lcDone) - 1
      BY Zenon, <1>0, <2>2, TailRange
    <3>2. /\ lcHeld' = {Head(lcDone)} /\ lcDone' = Tail(lcDone) /\ lcPc' = "publish"
      BY Zenon, <1>6, <2>2 DEF LcReadFrame
    <3>3. Cardinality(lcHeld') = 1
      BY <3>2, FS_Singleton, Zenon
    <3> QED BY SMTT(30), <1>b, <1>c, <2>0, <2>s, <3>1, <3>2, <3>3 DEF CountInv
  <2> QED BY Zenon, <2>1, <2>2
<1>7. CASE ReturnFrame
  <2>0. lcPc = "return" /\ lcHeld' = {} /\ lcPc' \in {"stop", "loop"} /\ UNCHANGED <<lcSize, lcDone>>
    BY Zenon, <1>7 DEF ReturnFrame
  <2>s. Buffers(lcSize') = Buffers(lcSize)
    BY Zenon, <2>0
  <2>1. PICK r : lcHeld = {r}
    BY <2>0, Zenon DEF RequestsInv
  <2>2. r \notin lcQueued /\ Cardinality(lcHeld) = 1
    BY <2>1, FS_Singleton, Zenon DEF RequestsInv
  <2>3. CASE lcQueued' = lcQueued \cup lcHeld /\ lcLost' = lcLost
    <3>1. Cardinality(lcQueued') = Cardinality(lcQueued) + 1
      BY <1>a, <2>1, <2>2, <2>3, FS_AddElement, Zenon
    <3> QED BY SMTT(30), <1>0, <1>b, <1>c, <2>0, <2>s, <2>2, <2>3, <3>1 DEF CountInv
  <2>4. CASE lcQueued' = lcQueued /\ lcLost' = lcLost + 1
    BY SMTT(30), <1>0, <1>b, <1>c, <2>0, <2>s, <2>2, <2>4 DEF CountInv
  <2> QED BY Zenon, <1>7, <2>3, <2>4 DEF ReturnFrame
<1>8. CASE LcComplete
  <2>0. UNCHANGED <<lcPc, lcSize, lcReqs, lcLost, lcHeld>>
    BY Zenon, <1>8 DEF LcComplete
  <2>s. Buffers(lcSize') = Buffers(lcSize)
    BY Zenon, <2>0
  <2>1. PICK r \in lcQueued : lcQueued' = lcQueued \ {r} /\ lcDone' = Append(lcDone, r)
    BY Zenon, <1>8 DEF LcComplete
  <2>2. Cardinality(lcQueued') = Cardinality(lcQueued) - 1
    BY <1>a, <2>1, FS_RemoveElement, Zenon
  <2>3. Len(lcDone') = Len(lcDone) + 1 /\ Range(lcDone') = Range(lcDone) \cup {r}
    BY <1>0, <2>1, AppendRange
  <2>4. Unqueued' = Unqueued
    BY Zenon, <2>0, <2>1, <2>3 DEF Unqueued
  <2> QED BY SMTT(30), <1>0, <1>b, <2>0, <2>s, <2>2, <2>3, <2>4 DEF CountInv
<1>9. CASE StartFails \/ SwitchFails \/ LcAsk \/ LcWait \/ LcCopy \/ LcTrigger
  <2>1. UNCHANGED <<lcPc, lcReqs, lcQueued, lcDone, lcSize, lcHeld, lcLost>>
    BY <1>9, Zenon DEF StartFails, SwitchFails, LcAsk, LcWait, LcCopy, LcTrigger
  <2>2. Unqueued' = Unqueued /\ Buffers(lcSize') = Buffers(lcSize)
    BY Zenon, <2>1 DEF Unqueued
  <2> QED BY Zenon, <2>1, <2>2 DEF CountInv
<1> QED BY Zenon, <1>1, <1>2, <1>3, <1>4, <1>5, <1>6, <1>7, <1>8, <1>9 DEF LcNext, LcWorker

\* The requests of input_libcamera are kept, whatever the number of buffers, of readers' pictures, of failing calls
\* and of switches: RequestsInv, CountInv and SwitchInv together are inductive.
THEOREM RequestsKeptHolds == LcSpec => []RequestsKept
<1> DEFINE I == RequestsInv /\ CountInv /\ SwitchInv
<1>1. LcInit => I
  BY Zenon, LibCameraInitially
<1>2. I /\ [LcNext]_lcVars => I'
  <2> SUFFICES ASSUME I, [LcNext]_lcVars PROVE I'
    BY Zenon
  <2>1. CASE LcNext
    BY Zenon, <2>1, RequestsStep, CountStep, SwitchStep
  <2>2. CASE UNCHANGED lcVars
    <3>1. UNCHANGED <<lcPc, lcReqs, lcQueued, lcDone, lcSize, lcHeld, lcLost, lcGen, lcSnapshot, lcAsked, lcSame,
                      lcSwitch, lcTurned, lcFreed>>
      BY Zenon, <2>2 DEF lcVars, lcCamera, lcOther
    <3>2. RequestsInv'
      BY Zenon, <3>1 DEF RequestsInv, RequestsLive
    <3>3. Unqueued' = Unqueued /\ Buffers(lcSize') = Buffers(lcSize)
      BY Zenon, <3>1 DEF Unqueued
    <3>4. CountInv'
      BY Zenon, <3>1, <3>3 DEF CountInv
    <3>5. SwitchInv'
      BY Zenon, <3>1 DEF SwitchInv
    <3> QED BY Zenon, <3>2, <3>4, <3>5
  <2> QED BY Zenon, <2>1, <2>2
<1>3. I => RequestsKept
  BY Zenon DEF RequestsInv, CountInv, SwitchInv, RequestsKept, RequestsConserved, KeptWithoutSwitch, TakingPictures
<1> HIDE DEF I
<1> QED BY <1>1, <1>2, <1>3, PTL DEF LcSpec

-----------------------------------------------------------------------------
(* input_raspicam: the worker and the callback *)

\* Where the worker is once it is set up: the port is open in the first two groups and closed in the last two; the
\* buffers may be on their way until the port is drained.
Feeding == {"loop", "count", "take", "send"}
Open == Feeding \cup {"wait", "video", "delete", "previewLink", "disable"}
Drained == {"encoderLink", "pool", "encoder", "preview", "camera", "end"}
Ended == {"exit", "cancelled"}
Places == Open \cup {"drained"} \cup Drained \cup Ended

\* The position of the worker, and the call it is in, in the set-up or after it.
WorkerTypes ==
    /\ \/ rcAt[1] = "setup" /\ rcAt[2] \in 1 .. 19 /\ rcAt = <<"setup", rcAt[2]>>
       \/ rcAt[1] \in Places /\ rcAt = <<rcAt[1]>>
    /\ rcPool \in Nat /\ rcPort \in Int /\ rcLeft \in Nat /\ rcSem \in {0, 1}
    /\ rcCall = <<>> \/ (rcCall = <<rcCall[1], rcCall[2]>> /\ rcCall[1] \in {"release", "get", "send", "post"})

\* What exists before the n-th call of the set-up.
SetUpTo(n) ==
    /\ n > 1 => "camera" \in rcHave
    /\ n > 6 => "preview" \in rcHave
    /\ n > 12 => "encoder" \in rcHave
    /\ n > 16 => "pool" \in rcHave
    /\ n > 18 => "encoderLink" \in rcHave
    /\ "previewLink" \in rcHave => n > 17
    /\ "encoderLink" \in rcHave => n > 18

\* What exists where: each call of the set-up that matters has been made when a later one is, and nothing is taken
\* down that another part still needs.
HaveInv ==
    /\ rcAt[1] = "setup" => SetUpTo(rcAt[2])
    /\ rcAt[1] \in Open \cup {"drained"} => {"pool", "encoder", "preview", "camera", "encoderLink"} \subseteq rcHave
    /\ rcAt[1] \in Feeding \cup {"wait", "video", "delete"} => "semaphore" \in rcHave
    /\ rcAt[1] \in {"disable", "drained"} \cup Drained => "previewLink" \notin rcHave
    /\ rcAt[1] \in Drained \ {"encoderLink"} => "encoderLink" \notin rcHave
    /\ rcAt[1] \in {"encoderLink", "pool"} => {"encoder", "camera"} \subseteq rcHave

\* The port is open from the end of the set-up to its disabling; without a pool it is closed, and nothing is on its way.
PortInv ==
    /\ rcAt[1] = "setup" \/ rcAt[1] \in Drained \cup {"exit"} => ~rcEnabled /\ rcPort = 0 /\ rcCall = <<>>
    /\ rcAt[1] \in Open => rcEnabled
    /\ rcAt[1] = "drained" => ~rcEnabled
    /\ PoolOutlivesUse

\* While the worker feeds the port, no picture is being taken and no callback runs; a stills worker waits until the one
\* picture is taken, its last buffer called back with, and the semaphore posted.
PictureInv ==
    /\ rcAt[1] = "setup" \/ rcAt[1] \in Feeding => ~rcTaking /\ rcCall = <<>>
    /\ rcStills /\ (rcAt[1] = "setup" \/ rcAt[1] \in Places \ {"wait", "cancelled"}) =>
          /\ ~rcTaking /\ rcSem = 0
          /\ rcCall # <<>> => ~rcCall[2] /\ ~rcEnabled
    /\ rcStills /\ rcAt[1] = "wait" =>
          /\ rcTaking => rcSem = 0
          /\ rcCall # <<>> => rcSem = 0 /\ (rcCall[2] => ~rcTaking)
    /\ rcStills => rcAt[1] # "video"
    /\ rcAt[1] \in {"loop", "wait"} => rcStills
    /\ rcAt[1] \in {"take", "send"} => rcLeft <= rcPool
    /\ NeverEmptyHanded /\ PostedAlive

RaspicamInv == WorkerTypes /\ HaveInv /\ PortInv /\ PictureInv

\* The places of the calls that leave something behind, or may not fail.
LEMMA SetupOrder ==
    /\ Len(Setup) = 19
    /\ \A i \in 1 .. 19 :
          /\ Setup[i] = "camera" <=> i = 1
          /\ Setup[i] = "preview" <=> i = 6
          /\ Setup[i] = "encoder" <=> i = 12
          /\ Setup[i] = "pool" <=> i = 16
          /\ Setup[i] = "previewLink" <=> i = 17
          /\ Setup[i] = "encoderLink" <=> i = 18
          /\ Setup[i] = "output" <=> i = 19
<1>1. Len(Setup) = 19
  BY Zenon DEF Setup
<1>2. ASSUME NEW i \in 1 .. 19
      PROVE  /\ Setup[i] = "camera" <=> i = 1
             /\ Setup[i] = "preview" <=> i = 6
             /\ Setup[i] = "encoder" <=> i = 12
             /\ Setup[i] = "pool" <=> i = 16
             /\ Setup[i] = "previewLink" <=> i = 17
             /\ Setup[i] = "encoderLink" <=> i = 18
             /\ Setup[i] = "output" <=> i = 19
  <2>1. \/ i = 1 \/ i = 2 \/ i = 3 \/ i = 4 \/ i = 5 \/ i = 6 \/ i = 7 \/ i = 8 \/ i = 9 \/ i = 10
        \/ i = 11 \/ i = 12 \/ i = 13 \/ i = 14 \/ i = 15 \/ i = 16 \/ i = 17 \/ i = 18 \/ i = 19
    OBVIOUS
  <2>2. /\ Setup[1] = "camera" /\ Setup[2] = "control" /\ Setup[3] = "config"
        /\ Setup[4] = "settings" /\ Setup[5] = "previewFormat" /\ Setup[6] = "preview"
        /\ Setup[7] = "region" /\ Setup[8] = "videoFormat" /\ Setup[9] = "stillFormat"
        /\ Setup[10] = "cameraOn" /\ Setup[11] = "previewOn" /\ Setup[12] = "encoder"
        /\ Setup[13] = "encoderFormat" /\ Setup[14] = "quality" /\ Setup[15] = "encoderOn"
        /\ Setup[16] = "pool" /\ Setup[17] = "previewLink" /\ Setup[18] = "encoderLink"
        /\ Setup[19] = "output"
    BY Zenon DEF Setup
  <2> QED BY <2>1, <2>2
<1> QED BY Zenon, <1>1, <1>2

\* The order of the take-down.
LEMMA TakeDownOrder ==
    /\ Len(TakeDown) = 10
    /\ \A i \in 1 .. 10 : TakeDown[i] # "end" =>
          \/ TakeDown[i] = "delete" /\ TakeDown[i + 1] = "previewLink"
          \/ TakeDown[i] = "previewLink" /\ TakeDown[i + 1] = "disable"
          \/ TakeDown[i] = "disable" /\ TakeDown[i + 1] = "drained"
          \/ TakeDown[i] = "drained" /\ TakeDown[i + 1] = "encoderLink"
          \/ TakeDown[i] = "encoderLink" /\ TakeDown[i + 1] = "pool"
          \/ TakeDown[i] = "pool" /\ TakeDown[i + 1] = "encoder"
          \/ TakeDown[i] = "encoder" /\ TakeDown[i + 1] = "preview"
          \/ TakeDown[i] = "preview" /\ TakeDown[i + 1] = "camera"
          \/ TakeDown[i] = "camera" /\ TakeDown[i + 1] = "end"
<1>1. Len(TakeDown) = 10
  BY Zenon DEF TakeDown
<1>2. ASSUME NEW i \in 1 .. 10, TakeDown[i] # "end"
      PROVE  \/ TakeDown[i] = "delete" /\ TakeDown[i + 1] = "previewLink"
             \/ TakeDown[i] = "previewLink" /\ TakeDown[i + 1] = "disable"
             \/ TakeDown[i] = "disable" /\ TakeDown[i + 1] = "drained"
             \/ TakeDown[i] = "drained" /\ TakeDown[i + 1] = "encoderLink"
             \/ TakeDown[i] = "encoderLink" /\ TakeDown[i + 1] = "pool"
             \/ TakeDown[i] = "pool" /\ TakeDown[i + 1] = "encoder"
             \/ TakeDown[i] = "encoder" /\ TakeDown[i + 1] = "preview"
             \/ TakeDown[i] = "preview" /\ TakeDown[i + 1] = "camera"
             \/ TakeDown[i] = "camera" /\ TakeDown[i + 1] = "end"
  <2>1. i = 1 \/ i = 2 \/ i = 3 \/ i = 4 \/ i = 5 \/ i = 6 \/ i = 7 \/ i = 8 \/ i = 9 \/ i = 10
    OBVIOUS
  <2>2. /\ TakeDown[1] = "delete" /\ TakeDown[2] = "previewLink" /\ TakeDown[3] = "disable"
        /\ TakeDown[4] = "drained" /\ TakeDown[5] = "encoderLink" /\ TakeDown[6] = "pool"
        /\ TakeDown[7] = "encoder" /\ TakeDown[8] = "preview" /\ TakeDown[9] = "camera"
        /\ TakeDown[10] = "end"
    BY Zenon DEF TakeDown
  <2>3. PICK j \in Nat : j = i + 1
    OBVIOUS
  <2>4. TakeDown[i + 1] = TakeDown[j]
    BY Zenon, <2>3
  <2>5. \/ (i = 1 /\ j = 2) \/ (i = 2 /\ j = 3) \/ (i = 3 /\ j = 4) \/ (i = 4 /\ j = 5) \/ (i = 5 /\ j = 6)
        \/ (i = 6 /\ j = 7) \/ (i = 7 /\ j = 8) \/ (i = 8 /\ j = 9) \/ (i = 9 /\ j = 10) \/ i = 10
    BY <2>1, <2>3
  <2> QED BY <2>2, <2>4, <2>5, <1>2
<1> QED BY Zenon, <1>1, <1>2

\* The plugin starts with nothing.
LEMMA RaspicamInitially == RaspicamInit => RaspicamInv
<1> SUFFICES ASSUME RaspicamInit PROVE RaspicamInv
  BY Zenon
<1>1. rcAt[1] = "setup" /\ rcAt[2] = 1 /\ rcHave = {} /\ rcCall = <<>>
  BY Zenon DEF RaspicamInit
<1>2. WorkerTypes
  BY <1>1 DEF RaspicamInit, WorkerTypes
<1>3. HaveInv
  BY <1>1 DEF HaveInv, SetUpTo, Open, Feeding, Drained
<1>4. PortInv
  BY Zenon, <1>1 DEF RaspicamInit, PortInv, PoolOutlivesUse, Open, Feeding, Drained
<1>5. PictureInv
  BY Zenon, <1>1 DEF RaspicamInit, PictureInv, NeverEmptyHanded, PostedAlive, Feeding
<1> QED BY Zenon, <1>2, <1>3, <1>4, <1>5 DEF RaspicamInv

\* Every step of the worker, of the callback and of the encoder keeps the invariant.
LEMMA RaspicamStep == ASSUME RaspicamInv, [RaspicamNext]_raspicamVars PROVE RaspicamInv'
<1> USE DEF RaspicamInv
<1>1. ASSUME NEW i \in 1 .. 19, SetupCall(i) PROVE RaspicamInv'
  <2>1. rcAt[1] = "setup" /\ rcAt[2] = i
    BY Zenon, <1>1 DEF SetupCall
  <2>0. SetUpTo(i)
    BY Zenon, <2>1 DEF HaveInv
  <2>2. CASE i = 19
    <3>1. rcAt' = <<IF rcStills THEN "loop" ELSE "count">> /\ rcHave' = rcHave \cup {"semaphore"} /\ rcEnabled'
      BY ZenonT(30), <1>1, <2>2, SetupOrder DEF SetupCall, Leaves
    <3>2. /\ (rcAt'[1] = "loop" /\ rcStills) \/ (rcAt'[1] = "count" /\ ~rcStills)
          /\ rcAt' = <<rcAt'[1]>>
      BY Zenon, <3>1
    <3>3. WorkerTypes'
      BY Zenon, <1>1, <2>2, <3>2, SetupOrder DEF SetupCall, WorkerTypes, Places, Open, Feeding
    <3>4. HaveInv'
      BY <2>0, <2>2, <3>1, <3>2 DEF HaveInv, SetUpTo, Open, Feeding, Drained
    <3>5. PortInv'
      BY <2>0, <2>2, <3>1, <3>2 DEF SetUpTo, PortInv, PoolOutlivesUse, Open, Feeding, Drained
    <3>6. PictureInv'
      BY Zenon, <1>1, <2>1, <2>2, <3>1, <3>2
         DEF SetupCall, rcSettled, PictureInv, NeverEmptyHanded, PostedAlive, Open, Feeding, Places
    <3> QED BY Zenon, <3>3, <3>4, <3>5, <3>6
  <2>3. CASE i # 19
    <3>1. rcAt' = <<"setup", i + 1>> /\ ~rcEnabled'
      BY ZenonT(30), <1>1, <2>3, SetupOrder DEF SetupCall
    <3>2. rcAt'[1] = "setup" /\ rcAt'[2] = i + 1 /\ i + 1 \in 1 .. 19
      BY <2>3, <3>1
    <3>3. WorkerTypes'
      BY Zenon, <1>1, <3>1, <3>2, RaspicamAssumption DEF SetupCall, WorkerTypes
    <3>4. HaveInv'
      <4>1. /\ rcHave \subseteq rcHave'
            /\ (i = 1 => "camera" \in rcHave') /\ (i = 6 => "preview" \in rcHave') /\ (i = 12 => "encoder" \in rcHave')
            /\ (i = 16 => "pool" \in rcHave') /\ (i = 18 => "encoderLink" \in rcHave')
            /\ "previewLink" \in rcHave' => "previewLink" \in rcHave \/ i = 17
            /\ "encoderLink" \in rcHave' => "encoderLink" \in rcHave \/ i = 18
        BY Zenon, <1>1, <2>3, SetupOrder DEF SetupCall, Leaves, Skipped
      <4>2. SetUpTo(i + 1)'
        BY <2>0, <4>1 DEF SetUpTo
      <4> QED BY Zenon, <3>2, <4>2 DEF HaveInv, Open, Feeding, Drained
    <3>5. PortInv'
      <4>1. /\ "previewLink" \in rcHave' => {"preview", "camera"} \subseteq rcHave'
            /\ "encoderLink" \in rcHave' => {"encoder", "camera"} \subseteq rcHave'
        <5>1. SetUpTo(i + 1)'
          BY Zenon, <3>2, <3>4 DEF HaveInv
        <5> QED BY <5>1 DEF SetUpTo
      <4> QED BY Zenon, <1>1, <2>1, <3>1, <3>2, <4>1 DEF SetupCall, PortInv, PoolOutlivesUse, Open, Feeding, Drained
    <3>6. PictureInv'
      BY Zenon, <1>1, <2>1, <3>2 DEF SetupCall, rcSettled, PictureInv, NeverEmptyHanded, PostedAlive, Open, Feeding, Drained,
         Ended, Places
    <3> QED BY Zenon, <3>3, <3>4, <3>5, <3>6
  <2> QED BY Zenon, <2>2, <2>3
<1>2. ASSUME NEW i \in 1 .. 19, SetupFails(i) PROVE RaspicamInv'
  <2>1. rcAt[1] = "setup" /\ rcAt[2] = i
    BY Zenon, <1>2 DEF SetupFails
  <2>2. (i \notin {1, 6, 12, 16, 18, 19} /\ rcAt' = <<"setup", i + 1>>) \/ rcAt' = <<"exit">>
    BY Zenon, <1>2, SetupOrder DEF SetupFails, Optional
  <2>3. \/ i \notin {1, 6, 12, 16, 18, 19} /\ rcAt' = <<"setup", i + 1>> /\ rcAt'[1] = "setup" /\ rcAt'[2] = i + 1
        \/ rcAt' = <<"exit">> /\ rcAt'[1] = "exit"
    BY <2>2
  <2>4. WorkerTypes'
    BY SMTT(30), <1>2, <2>3 DEF SetupFails, WorkerTypes, Places, Ended
  <2>5. HaveInv'
    <3>1. rcHave' = rcHave
      BY Zenon, <1>2 DEF SetupFails
    <3>2. CASE rcAt'[1] = "exit"
      BY Zenon, <3>1, <3>2 DEF HaveInv, Open, Feeding, Drained
    <3>3. CASE rcAt'[1] = "setup"
      <4>1. i \notin {1, 6, 12, 16, 18, 19} /\ rcAt'[2] = i + 1
        BY Zenon, <2>3, <3>3
      <4>2. SetUpTo(i)
        BY Zenon, <2>1 DEF HaveInv
      <4>3. SetUpTo(i + 1)'
        BY <3>1, <4>1, <4>2 DEF SetUpTo
      <4> QED BY Zenon, <3>3, <4>1, <4>3 DEF HaveInv, Open, Feeding, Drained
    <3> QED BY Zenon, <2>3, <3>2, <3>3
  <2>6. PortInv'
    BY Zenon, <1>2, <2>1, <2>3 DEF SetupFails, HaveInv, PortInv, PoolOutlivesUse, Open, Feeding, Drained
  <2>7. PictureInv'
    BY Zenon, <1>2, <2>1, <2>3 DEF SetupFails, rcSettled, PictureInv, NeverEmptyHanded, PostedAlive, Open, Feeding, Drained,
       Ended, Places
  <2> QED BY Zenon, <2>4, <2>5, <2>6, <2>7
<1>3. CASE StillsLoop
  <2>1. rcAt[1] = "loop" /\ ((rcAt'[1] = "delete" /\ rcAt' = <<"delete">>) \/ (rcAt'[1] = "count" /\ rcAt' = <<"count">>))
    BY Zenon, <1>3 DEF StillsLoop, RcKeeps, Sound, rcSettled, WorkerTypes
  <2>2. WorkerTypes'
    BY Zenon, <2>1, <1>3 DEF StillsLoop, RcKeeps, Sound, rcSettled, WorkerTypes, Open, Feeding, Drained, Ended, Places
  <2>3. HaveInv'
    BY Zenon, <2>1, <1>3 DEF StillsLoop, RcKeeps, Sound, rcSettled, HaveInv, Open, Feeding, Drained, Ended, Places
  <2>4. PortInv'
    BY Zenon, <2>1, <1>3 DEF StillsLoop, RcKeeps, Sound, rcSettled, HaveInv, PortInv, PoolOutlivesUse, Open, Feeding,
       Drained, Ended, Places
  <2>5. PictureInv'
    BY Zenon, <2>1, <1>3 DEF StillsLoop, RcKeeps, Sound, rcSettled, WorkerTypes, PortInv, PictureInv, NeverEmptyHanded,
       PostedAlive, Open, Feeding, Drained, Ended, Places
  <2> QED BY Zenon, <2>2, <2>3, <2>4, <2>5
<1>4. CASE CountBuffers
  <2>1. rcAt[1] = "count" /\ rcAt'[1] = "take" /\ rcAt' = <<"take">>
    BY Zenon, <1>4 DEF CountBuffers, RcKeeps, Sound, rcSettled, WorkerTypes
  <2>2. WorkerTypes'
    BY Zenon, <2>1, <1>4 DEF CountBuffers, RcKeeps, Sound, rcSettled, WorkerTypes, Open, Feeding, Drained, Ended, Places
  <2>3. HaveInv'
    BY Zenon, <2>1, <1>4 DEF CountBuffers, RcKeeps, Sound, rcSettled, HaveInv, Open, Feeding, Drained, Ended, Places
  <2>4. PortInv'
    BY Zenon, <2>1, <1>4 DEF CountBuffers, RcKeeps, Sound, rcSettled, HaveInv, PortInv, PoolOutlivesUse, Open, Feeding,
       Drained, Ended, Places
  <2>5. PictureInv'
    BY <2>1, <1>4 DEF CountBuffers, RcKeeps, Sound, rcSettled, WorkerTypes, PortInv, PictureInv, NeverEmptyHanded,
       PostedAlive, Open, Feeding, Drained, Ended, Places
  <2> QED BY Zenon, <2>2, <2>3, <2>4, <2>5
<1>5. CASE TakeBuffer
  <2>1. rcAt[1] = "take" /\ rcAt'[1] = "send" /\ rcAt' = <<"send">>
    BY <1>5 DEF TakeBuffer, RcKeeps, Sound, rcSettled, PictureInv, WorkerTypes
  <2>2. WorkerTypes'
    BY <2>1, <1>5 DEF TakeBuffer, RcKeeps, Sound, rcSettled, PictureInv, WorkerTypes, Open, Feeding, Drained, Ended,
       Places
  <2>3. HaveInv'
    BY Zenon, <2>1, <1>5 DEF TakeBuffer, RcKeeps, Sound, rcSettled, PictureInv, HaveInv, Open, Feeding, Drained, Ended, Places
  <2>4. PortInv'
    BY Zenon, <2>1, <1>5 DEF TakeBuffer, RcKeeps, Sound, rcSettled, PictureInv, HaveInv, PortInv, PoolOutlivesUse, Open,
       Feeding, Drained, Ended, Places
  <2>5. PictureInv'
    <3>1. rcLeft <= rcPool /\ ~rcTaking /\ rcCall = <<>>
      BY Zenon, <2>1 DEF PictureInv, Feeding
    <3>2. rcPool # 0 /\ rcLeft' <= rcPool'
      BY <1>5, <3>1 DEF TakeBuffer, WorkerTypes
    <3>3. ~rcNull'
      BY ZenonT(30), <1>5, <3>2 DEF TakeBuffer, PictureInv, NeverEmptyHanded
    <3> QED BY Zenon, <1>5, <2>1, <3>1, <3>2, <3>3
         DEF TakeBuffer, RcKeeps, rcSettled, PictureInv, NeverEmptyHanded, PostedAlive, Open, Feeding, Drained, Ended,
         Places
  <2> QED BY Zenon, <2>2, <2>3, <2>4, <2>5
<1>6. ASSUME NEW ok \in BOOLEAN, SendBuffer(ok) PROVE RaspicamInv'
  <2>1. rcAt[1] = "send" /\ rcAt'[1] = "take" /\ rcAt' = <<"take">>
    BY Zenon, <1>6 DEF SendBuffer, Faulty, RcKeeps, Sound, rcSettled, WorkerTypes
  <2>2. WorkerTypes'
    BY <2>1, <1>6 DEF SendBuffer, Faulty, RcKeeps, Sound, rcSettled, WorkerTypes, Open, Feeding, Drained, Ended, Places
  <2>3. HaveInv'
    BY Zenon, <2>1, <1>6 DEF SendBuffer, Faulty, RcKeeps, Sound, rcSettled, HaveInv, Open, Feeding, Drained, Ended, Places
  <2>4. PortInv'
    BY Zenon, <2>1, <1>6 DEF SendBuffer, Faulty, RcKeeps, Sound, rcSettled, HaveInv, PortInv, PoolOutlivesUse, Open, Feeding,
       Drained, Ended, Places
  <2>5. PictureInv'
    BY Zenon, <2>1, <1>6 DEF SendBuffer, Faulty, RcKeeps, Sound, rcSettled, WorkerTypes, PortInv, PictureInv,
       NeverEmptyHanded, PostedAlive, Open, Feeding, Drained, Ended, Places
  <2> QED BY Zenon, <2>2, <2>3, <2>4, <2>5
<1>7. ASSUME NEW ok \in BOOLEAN, StartCapture(ok) PROVE RaspicamInv'
  <2>1. rcAt[1] = "take" /\ rcAt' = <<rcAt'[1]>>
        /\ rcAt'[1] = IF ~rcStills THEN "video" ELSE IF ok THEN "wait" ELSE "loop"
    BY Zenon, <1>7 DEF StartCapture, Faulty, RcKeeps, Sound, rcSettled, WorkerTypes
  <2>2. WorkerTypes'
    BY Zenon, <2>1, <1>7 DEF StartCapture, Faulty, RcKeeps, Sound, rcSettled, WorkerTypes, Open, Feeding, Drained, Ended,
       Places
  <2>3. HaveInv'
    BY Zenon, <2>1, <1>7 DEF StartCapture, Faulty, RcKeeps, Sound, rcSettled, HaveInv, Open, Feeding, Drained, Ended, Places
  <2>4. PortInv'
    BY Zenon, <2>1, <1>7 DEF StartCapture, Faulty, RcKeeps, Sound, rcSettled, HaveInv, PortInv, PoolOutlivesUse, Open,
       Feeding, Drained, Ended, Places
  <2>5. PictureInv'
    BY Zenon, <2>1, <1>7 DEF StartCapture, Faulty, RcKeeps, Sound, rcSettled, WorkerTypes, PortInv, PictureInv,
       NeverEmptyHanded, PostedAlive, Open, Feeding, Drained, Ended, Places
  <2> QED BY Zenon, <2>2, <2>3, <2>4, <2>5
<1>8. CASE CaptureDone
  <2>1. rcAt[1] = "wait" /\ rcAt'[1] = "loop" /\ rcAt' = <<"loop">>
    BY Zenon, <1>8 DEF CaptureDone, RcKeeps, Sound, rcSettled, WorkerTypes
  <2>2. WorkerTypes'
    BY <2>1, <1>8 DEF CaptureDone, RcKeeps, Sound, rcSettled, WorkerTypes, Open, Feeding, Drained, Ended, Places
  <2>3. HaveInv'
    BY Zenon, <2>1, <1>8 DEF CaptureDone, RcKeeps, Sound, rcSettled, HaveInv, Open, Feeding, Drained, Ended, Places
  <2>4. PortInv'
    BY Zenon, <2>1, <1>8 DEF CaptureDone, RcKeeps, Sound, rcSettled, HaveInv, PortInv, PoolOutlivesUse, Open, Feeding,
       Drained, Ended, Places
  <2>5. PictureInv'
    BY <2>1, <1>8 DEF CaptureDone, RcKeeps, Sound, rcSettled, WorkerTypes, PortInv, PictureInv, NeverEmptyHanded,
       PostedAlive, Open, Feeding, Drained, Ended, Places
  <2> QED BY Zenon, <2>2, <2>3, <2>4, <2>5
<1>9. CASE VideoEnds
  <2>1. rcAt[1] = "video" /\ rcAt'[1] = "delete" /\ rcAt' = <<"delete">>
    BY Zenon, <1>9 DEF VideoEnds, RcKeeps, Sound, rcSettled, WorkerTypes
  <2>2. WorkerTypes'
    BY Zenon, <2>1, <1>9 DEF VideoEnds, RcKeeps, Sound, rcSettled, WorkerTypes, Open, Feeding, Drained, Ended, Places
  <2>3. HaveInv'
    BY Zenon, <2>1, <1>9 DEF VideoEnds, RcKeeps, Sound, rcSettled, HaveInv, Open, Feeding, Drained, Ended, Places
  <2>4. PortInv'
    BY Zenon, <2>1, <1>9 DEF VideoEnds, RcKeeps, Sound, rcSettled, HaveInv, PortInv, PoolOutlivesUse, Open, Feeding, Drained,
       Ended, Places
  <2>5. PictureInv'
    BY Zenon, <2>1, <1>9 DEF VideoEnds, RcKeeps, Sound, rcSettled, WorkerTypes, PortInv, PictureInv,
       NeverEmptyHanded,
       PostedAlive, Open, Feeding, Drained, Ended, Places
  <2> QED BY Zenon, <2>2, <2>3, <2>4, <2>5
<1>10. ASSUME NEW i \in 1 .. 10, TakeDownCall(i) PROVE RaspicamInv'
  <2> DEFINE from == TakeDown[i]
             to == TakeDown[i + 1]
  <2>1. from # "end" /\ rcAt[1] = from /\ rcAt'[1] = to /\ rcAt' = <<to>>
    BY Zenon, <1>10 DEF TakeDownCall
  <2>2. \/ from = "delete" /\ to = "previewLink"
        \/ from = "previewLink" /\ to = "disable"
        \/ from = "disable" /\ to = "drained"
        \/ from = "drained" /\ to = "encoderLink"
        \/ from = "encoderLink" /\ to = "pool"
        \/ from = "pool" /\ to = "encoder"
        \/ from = "encoder" /\ to = "preview"
        \/ from = "preview" /\ to = "camera"
        \/ from = "camera" /\ to = "end"
    BY Zenon, <2>1, TakeDownOrder
  <2>3. /\ from = "drained" => rcPort = 0 /\ rcCall = <<>>
        /\ rcEnabled' = (rcEnabled /\ from # "disable")
        /\ rcHave' = rcHave \ {IF from = "delete" THEN "semaphore" ELSE from}
        /\ rcPort' = rcPort /\ rcCall' = rcCall
    BY Zenon, <1>10 DEF TakeDownCall
  <2> HIDE DEF from, to
  <2>4. WorkerTypes'
    BY Zenon, <1>10, <2>1, <2>2 DEF TakeDownCall, WorkerTypes, Open, Feeding, Drained, Ended, Places
  <2>5. HaveInv'
    BY Zenon, <2>1, <2>2, <2>3 DEF HaveInv, Open, Feeding, Drained
  <2>6. PortInv'
    BY ZenonT(30), <2>1, <2>2, <2>3, <2>5 DEF HaveInv, PortInv, PoolOutlivesUse, Open, Feeding, Drained
  <2>7. PictureInv'
    BY Zenon, <1>10, <2>1, <2>2, <2>3
       DEF TakeDownCall, rcSettled, PictureInv, PortInv, NeverEmptyHanded, PostedAlive, Open, Feeding, Drained, Places
  <2> QED BY Zenon, <2>4, <2>5, <2>6, <2>7
<1>11. ASSUME NEW end \in BOOLEAN, EncoderReturns(end) PROVE RaspicamInv'
  <2>1. rcAt' = rcAt /\ rcHave' = rcHave /\ rcEnabled' = rcEnabled
    BY Zenon, <1>11 DEF EncoderReturns, Sound, rcSettled
  <2>2. WorkerTypes'
    BY Zenon, <1>11, <2>1 DEF EncoderReturns, Sound, rcSettled, WorkerTypes
  <2>3. HaveInv'
    BY Zenon, <2>1 DEF HaveInv, SetUpTo
  <2>4. PortInv'
    BY <1>11, <2>1 DEF EncoderReturns, Sound, rcSettled, PortInv, PoolOutlivesUse
  <2>5. PictureInv'
    BY ZenonT(30), <1>11, <2>1 DEF EncoderReturns, Sound, rcSettled, WorkerTypes, HaveInv, PortInv, PictureInv,
       NeverEmptyHanded,
       PostedAlive, Open, Feeding, Drained, Ended, Places
  <2> QED BY Zenon, <2>2, <2>3, <2>4, <2>5
<1>12. CASE EncoderFlushes
  <2>1. rcAt' = rcAt /\ rcHave' = rcHave /\ rcEnabled' = rcEnabled
    BY Zenon, <1>12 DEF EncoderFlushes, Sound, rcSettled
  <2>2. WorkerTypes'
    BY Zenon, <1>12, <2>1 DEF EncoderFlushes, Sound, rcSettled, WorkerTypes
  <2>3. HaveInv'
    BY Zenon, <2>1 DEF HaveInv, SetUpTo
  <2>4. PortInv'
    BY <1>12, <2>1 DEF EncoderFlushes, Sound, rcSettled, PortInv, PoolOutlivesUse
  <2>5. PictureInv'
    BY SMTT(30), <1>12, <2>1 DEF EncoderFlushes, Sound, rcSettled, WorkerTypes, HaveInv, PortInv, PictureInv,
       NeverEmptyHanded,
       PostedAlive, Open, Feeding, Drained, Ended, Places
  <2> QED BY Zenon, <2>2, <2>3, <2>4, <2>5
<1>13. CASE CallRelease
  <2>1. rcAt' = rcAt /\ rcHave' = rcHave /\ rcEnabled' = rcEnabled
    BY Zenon, <1>13 DEF CallRelease, CallKeeps, Sound, rcSettled
  <2>2. WorkerTypes'
    BY <1>13, <2>1 DEF CallRelease, CallKeeps, Sound, rcSettled, WorkerTypes
  <2>3. HaveInv'
    BY Zenon, <2>1 DEF HaveInv, SetUpTo
  <2>4. PortInv'
    BY <1>13, <2>1 DEF CallRelease, CallKeeps, Sound, rcSettled, PortInv, PoolOutlivesUse
  <2>5. PictureInv'
    BY SMTT(30), <1>13, <2>1 DEF CallRelease, CallKeeps, Sound, rcSettled, WorkerTypes, HaveInv, PortInv, PictureInv,
       NeverEmptyHanded, PostedAlive, Open, Feeding, Drained, Ended, Places
  <2> QED BY Zenon, <2>2, <2>3, <2>4, <2>5
<1>14. CASE CallGet
  <2>1. rcAt' = rcAt /\ rcHave' = rcHave /\ rcEnabled' = rcEnabled
    BY Zenon, <1>14 DEF CallGet, CallKeeps, Sound, rcSettled
  <2>2. WorkerTypes'
    BY <1>14, <2>1 DEF CallGet, CallKeeps, Sound, rcSettled, WorkerTypes
  <2>3. HaveInv'
    BY Zenon, <2>1 DEF HaveInv, SetUpTo
  <2>4. PortInv'
    BY <1>14, <2>1 DEF CallGet, CallKeeps, Sound, rcSettled, PortInv, PoolOutlivesUse
  <2>5. PictureInv'
    BY SMTT(30), <1>14, <2>1 DEF CallGet, CallKeeps, Sound, rcSettled, WorkerTypes, HaveInv, PortInv, PictureInv,
       NeverEmptyHanded, PostedAlive, Open, Feeding, Drained, Ended, Places
  <2> QED BY Zenon, <2>2, <2>3, <2>4, <2>5
<1>15. ASSUME NEW ok \in BOOLEAN, CallSend(ok) PROVE RaspicamInv'
  <2>1. rcAt' = rcAt /\ rcHave' = rcHave /\ rcEnabled' = rcEnabled
    BY Zenon, <1>15 DEF CallSend, Faulty, CallKeeps, Sound, rcSettled
  <2>2. WorkerTypes'
    BY <1>15, <2>1 DEF CallSend, Faulty, CallKeeps, Sound, rcSettled, WorkerTypes
  <2>3. HaveInv'
    BY Zenon, <2>1 DEF HaveInv, SetUpTo
  <2>4. PortInv'
    BY <1>15, <2>1 DEF CallSend, Faulty, CallKeeps, Sound, rcSettled, PortInv, PoolOutlivesUse
  <2>5. PictureInv'
    BY SMTT(30), <1>15, <2>1 DEF CallSend, Faulty, CallKeeps, Sound, rcSettled, WorkerTypes, HaveInv, PortInv,
       PictureInv,
       NeverEmptyHanded, PostedAlive, Open, Feeding, Drained, Ended, Places
  <2> QED BY Zenon, <2>2, <2>3, <2>4, <2>5
<1>16. CASE CallPost
  <2>1. rcAt' = rcAt /\ rcHave' = rcHave /\ rcEnabled' = rcEnabled
    BY Zenon, <1>16 DEF CallPost, CallKeeps, Sound, rcSettled
  <2>2. WorkerTypes'
    BY <1>16, <2>1 DEF CallPost, CallKeeps, Sound, rcSettled, WorkerTypes
  <2>3. HaveInv'
    BY Zenon, <2>1 DEF HaveInv, SetUpTo
  <2>4. PortInv'
    BY <1>16, <2>1 DEF CallPost, CallKeeps, Sound, rcSettled, PortInv, PoolOutlivesUse
  <2>5. PictureInv'
    BY ZenonT(30), <1>16, <2>1 DEF CallPost, CallKeeps, Sound, rcSettled, WorkerTypes, HaveInv, PortInv, PictureInv,
       NeverEmptyHanded, PostedAlive, Open, Feeding, Drained, Ended, Places
  <2> QED BY Zenon, <2>2, <2>3, <2>4, <2>5
<1>17. CASE RcStopAll
  <2>1. rcAt' = rcAt /\ rcHave' = rcHave /\ rcEnabled' = rcEnabled
    BY Zenon, <1>17 DEF RcStopAll, Sound, rcSettled
  <2>2. WorkerTypes'
    BY Zenon, <1>17, <2>1 DEF RcStopAll, Sound, rcSettled, WorkerTypes
  <2>3. HaveInv'
    BY Zenon, <2>1 DEF HaveInv, SetUpTo
  <2>4. PortInv'
    BY SMTT(30), <1>17, <2>1 DEF RcStopAll, Sound, rcSettled, PortInv, PoolOutlivesUse
  <2>5. PictureInv'
    BY SMTT(30), <1>17, <2>1 DEF RcStopAll, Sound, rcSettled, WorkerTypes, HaveInv, PortInv, PictureInv,
       NeverEmptyHanded,
       PostedAlive, Open, Feeding, Drained, Ended, Places
  <2> QED BY Zenon, <2>2, <2>3, <2>4, <2>5
<1>18. CASE RcCancelled
  <2>1. rcAt'[1] = "cancelled" /\ rcAt' = <<"cancelled">>
    BY Zenon, <1>18 DEF RcCancelled, rcSettled, WorkerTypes
  <2>2. WorkerTypes'
    BY Zenon, <2>1, <1>18 DEF RcCancelled, rcSettled, WorkerTypes, Open, Feeding, Drained, Ended, Places
  <2>3. HaveInv'
    BY Zenon, <2>1, <1>18 DEF RcCancelled, rcSettled, HaveInv, Open, Feeding, Drained, Ended, Places
  <2>4. PortInv'
    BY Zenon, <2>1, <1>18 DEF RcCancelled, rcSettled, HaveInv, PortInv, PoolOutlivesUse, Open, Feeding, Drained,
       Ended, Places
  <2>5. PictureInv'
    BY Zenon, <2>1, <1>18 DEF RcCancelled, rcSettled, WorkerTypes, PortInv, PictureInv, NeverEmptyHanded,
       PostedAlive, Open,
       Feeding, Drained, Ended, Places
  <2> QED BY Zenon, <2>2, <2>3, <2>4, <2>5
<1>19. CASE UNCHANGED raspicamVars
  BY SMTT(30), <1>19 DEF raspicamVars, WorkerTypes, HaveInv, SetUpTo, PortInv, PoolOutlivesUse, PictureInv,
     NeverEmptyHanded,
     PostedAlive
<1> QED BY ZenonT(30), <1>1, <1>2, <1>3, <1>4, <1>5, <1>6, <1>7, <1>8, <1>9, <1>10, <1>11, <1>12, <1>13, <1>14, <1>15,
           <1>16, <1>17,
           <1>18, <1>19, SetupOrder, TakeDownOrder
        DEF RaspicamNext, RcWorker, RcCallback, RcEncoder

\* What the worker and the callback share is there when either uses it, for any number of buffers and of parts of a
\* picture.
THEOREM CallbackSafeHolds == RaspicamSpec => []CallbackSafe
<1>1. RaspicamInv => CallbackSafe
  BY Zenon DEF RaspicamInv, PortInv, PictureInv, CallbackSafe
<1> QED BY <1>1, RaspicamInitially, RaspicamStep, PTL DEF RaspicamSpec
=============================================================================
