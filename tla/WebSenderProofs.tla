--------------------------- MODULE WebSenderProofs ---------------------------
(***************************************************************************)
(* Proofs about the transmitting page, for any files, any number of        *)
(* encoders, overlapping builds and beams, and every user; and about its   *)
(* stage, for any beats and any order of scrolls, beams and callbacks.     *)
(***************************************************************************)
EXTENDS WebSender, WebStage, TLAPS

LEMMA InitIInv == Init => IInv
<1> SUFFICES ASSUME Init PROVE IInv
  OBVIOUS
<1> USE ParameterAssumption DEF Init
<1>1. builds \in [Files -> 0 .. MaxBuilds]
  BY 0 \in 0 .. MaxBuilds
<1>2. beams \in [Beams -> Beam]
  BY DEF Beam
<1>3. TypeOK
  BY <1>1, <1>2 DEF TypeOK
<1>4. BeamHasEncoder /\ BeamAlone
  BY DEF BeamHasEncoder, BeamAlone, Running, Idle
<1>5. OneAtATime
  BY DEF OneAtATime
<1>6. QED
  BY <1>3, <1>4, <1>5
     DEF IInv, OwnedIsLive, PatienceOwnsEncoders, EncodersAreOwned, PlanInStep

(***************************************************************************)
(* Each operation keeps the invariant: what it cannot disturb comes last.  *)
(***************************************************************************)
LEMMA ChooseStep ==
  ASSUME IInv, NEW f \in Files, Choose(f), UNCHANGED patient
  PROVE  IInv'
<1> USE ParameterAssumption DEF Choose, IInv
<1>1. TypeOK'
  BY DEF TypeOK, Beam
<1>2. OneAtATime'
  BY DEF OneAtATime, BeamAlone, Idle, MayAct, TypeOK
<1>3. BeamAlone'
  BY DEF BeamAlone, OneAtATime, Beam, Idle, MayAct, TypeOK
<1>4. (OwnedIsLive /\ BeamHasEncoder /\ PatienceOwnsEncoders /\ PlanInStep)'
  BY DEF OwnedIsLive, BeamHasEncoder, Running, PatienceOwnsEncoders,
     EncodersAreOwned, PlanInStep
<1>5. QED
  BY <1>1, <1>2, <1>3, <1>4

LEMMA ReadRefusedStep ==
  ASSUME IInv, NEW f \in Files, ReadRefused(f), UNCHANGED patient
  PROVE  IInv'
<1> USE ParameterAssumption DEF ReadRefused, IInv
<1>1. TypeOK'
  BY DEF TypeOK, Beam
<1>2. OneAtATime'
  BY DEF OneAtATime, BeamAlone, Idle, MayAct, TypeOK
<1>3. BeamAlone'
  BY DEF BeamAlone, OneAtATime, Beam, Idle, MayAct, TypeOK
<1>4. (OwnedIsLive /\ BeamHasEncoder /\ PatienceOwnsEncoders /\ PlanInStep)'
  BY DEF OwnedIsLive, BeamHasEncoder, Running, PatienceOwnsEncoders,
     EncodersAreOwned, PlanInStep
<1>5. QED
  BY <1>1, <1>2, <1>3, <1>4

LEMMA ReadStep ==
  ASSUME IInv, NEW f \in Files, Read(f), UNCHANGED patient
  PROVE  IInv'
<1> USE ParameterAssumption DEF Read, buildPlan, releaseEncoder, IInv
<1>1. TypeOK'
  BY DEF TypeOK, Beam
<1>2. OwnedIsLive'
  BY DEF OwnedIsLive
<1>3. BeamHasEncoder'
  BY DEF BeamHasEncoder, Running, OwnedIsLive, BeamAlone, OneAtATime, Idle,
     MayAct, TypeOK
<1>4. PatienceOwnsEncoders'
  BY DEF PatienceOwnsEncoders, EncodersAreOwned, OneAtATime, TypeOK
<1>5. OneAtATime'
  BY DEF OneAtATime, BeamAlone, Idle, MayAct, TypeOK
<1>6. PlanInStep'
  BY DEF PlanInStep, OneAtATime, PatienceOwnsEncoders, EncodersAreOwned,
     MayAct, Idle, TypeOK
<1>7. BeamAlone'
  BY DEF BeamAlone, OneAtATime, Beam, Idle, MayAct, TypeOK
<1>8. QED
  BY <1>1, <1>2, <1>3, <1>4, <1>5, <1>6, <1>7

LEMMA SampleStep ==
  ASSUME IInv, NEW f \in Files, Sample(f), UNCHANGED patient
  PROVE  IInv'
<1> USE ParameterAssumption DEF Sample, buildPlan, releaseEncoder, IInv
<1>1. TypeOK'
  BY DEF TypeOK, Beam
<1>2. OwnedIsLive'
  BY DEF OwnedIsLive
<1>3. BeamHasEncoder'
  BY DEF BeamHasEncoder, Running, OwnedIsLive, BeamAlone, OneAtATime, Idle,
     MayAct, TypeOK
<1>4. PatienceOwnsEncoders'
  BY DEF PatienceOwnsEncoders, EncodersAreOwned, OneAtATime, TypeOK
<1>5. OneAtATime'
  BY DEF OneAtATime, BeamAlone, Idle, MayAct, TypeOK
<1>6. PlanInStep'
  BY DEF PlanInStep, OneAtATime, PatienceOwnsEncoders, EncodersAreOwned,
     MayAct, Idle, TypeOK
<1>7. BeamAlone'
  BY DEF BeamAlone, OneAtATime, Beam, Idle, MayAct, TypeOK
<1>8. QED
  BY <1>1, <1>2, <1>3, <1>4, <1>5, <1>6, <1>7

LEMMA EncodeFailsStep ==
  ASSUME IInv, NEW f \in Files, EncodeFails(f), UNCHANGED patient
  PROVE  IInv'
<1> USE ParameterAssumption DEF EncodeFails, IInv
<1>1. TypeOK'
  BY DEF TypeOK, Beam
<1>2. OneAtATime'
  BY DEF OneAtATime, BeamAlone, Idle, MayAct, TypeOK
<1>3. BeamAlone'
  BY DEF BeamAlone, OneAtATime, Beam, Idle, MayAct, TypeOK
<1>4. (OwnedIsLive /\ BeamHasEncoder /\ PatienceOwnsEncoders /\ PlanInStep)'
  BY DEF OwnedIsLive, BeamHasEncoder, Running, PatienceOwnsEncoders,
     EncodersAreOwned, PlanInStep
<1>5. QED
  BY <1>1, <1>2, <1>3, <1>4

LEMMA EncodeStep ==
  ASSUME IInv, NEW f \in Files, Encode(f), UNCHANGED patient
  PROVE  IInv'
<1> USE ParameterAssumption DEF Encode, IInv
<1>1. TypeOK'
  BY DEF TypeOK, Beam
<1>2. OwnedIsLive'
  BY DEF OwnedIsLive
<1>3. BeamHasEncoder'
  BY DEF BeamHasEncoder, Running, OwnedIsLive, BeamAlone, OneAtATime, Idle,
     MayAct, TypeOK
<1>4. PatienceOwnsEncoders'
  BY DEF PatienceOwnsEncoders, EncodersAreOwned, OneAtATime, TypeOK
<1>5. OneAtATime'
  BY DEF OneAtATime, BeamAlone, Idle, MayAct, TypeOK
<1>6. PlanInStep'
  BY DEF PlanInStep, OneAtATime, PatienceOwnsEncoders, EncodersAreOwned,
     MayAct, Idle, TypeOK
<1>7. BeamAlone'
  BY DEF BeamAlone, OneAtATime, Beam, Idle, MayAct, TypeOK
<1>8. QED
  BY <1>1, <1>2, <1>3, <1>4, <1>5, <1>6, <1>7

LEMMA ChangePlanStep ==
  ASSUME IInv, NEW choice \in BOOLEAN, ChangePlan(choice), UNCHANGED patient
  PROVE  IInv'
<1> USE ParameterAssumption DEF ChangePlan, buildPlan, releaseEncoder, IInv
<1>1. TypeOK'
  BY DEF TypeOK, Beam
<1>2. OwnedIsLive'
  BY DEF OwnedIsLive
<1>3. BeamHasEncoder'
  BY DEF BeamHasEncoder, Running, OwnedIsLive, BeamAlone, OneAtATime, Idle,
     MayAct, TypeOK
<1>4. PatienceOwnsEncoders'
  BY DEF PatienceOwnsEncoders, EncodersAreOwned, OneAtATime, TypeOK
<1>5. OneAtATime'
  BY DEF OneAtATime, BeamAlone, Idle, MayAct, TypeOK
<1>6. PlanInStep'
  BY DEF PlanInStep, OneAtATime, PatienceOwnsEncoders, EncodersAreOwned,
     MayAct, Idle, TypeOK
<1>7. BeamAlone'
  BY DEF BeamAlone, OneAtATime, Beam, Idle, MayAct, TypeOK
<1>8. QED
  BY <1>1, <1>2, <1>3, <1>4, <1>5, <1>6, <1>7

LEMMA ChangeInkStep ==
  ASSUME IInv, NEW choice \in BOOLEAN, ChangeInk(choice), UNCHANGED patient
  PROVE  IInv'
<1> USE ParameterAssumption DEF ChangeInk, IInv
<1>1. TypeOK'
  BY DEF TypeOK, Beam
<1>2. (OwnedIsLive /\ BeamHasEncoder /\ PatienceOwnsEncoders /\ OneAtATime /\ PlanInStep /\ BeamAlone)'
  BY DEF OwnedIsLive, BeamHasEncoder, Running, PatienceOwnsEncoders,
     EncodersAreOwned, OneAtATime, PlanInStep, BeamAlone, Idle
<1>3. QED
  BY <1>1, <1>2

LEMMA StartBeamStep ==
  ASSUME IInv, startBeam, UNCHANGED patient
  PROVE  IInv'
<1> USE ParameterAssumption DEF startBeam, plan, IInv
<1>1. TypeOK'
  BY DEF TypeOK, Beam
<1>2. BeamHasEncoder'
  BY DEF BeamHasEncoder, Running, OwnedIsLive, BeamAlone, OneAtATime, Idle,
     MayAct, TypeOK
<1>3. BeamAlone'
  BY DEF BeamAlone, OneAtATime, Beam, Idle, MayAct, TypeOK
<1>4. (OwnedIsLive /\ PatienceOwnsEncoders /\ OneAtATime /\ PlanInStep)'
  BY DEF OwnedIsLive, PatienceOwnsEncoders, EncodersAreOwned, OneAtATime,
     PlanInStep
<1>5. QED
  BY <1>1, <1>2, <1>3, <1>4

LEMMA TickStep ==
  ASSUME IInv, NEW b \in Beams, Tick(b), UNCHANGED patient
  PROVE  IInv'
<1> USE ParameterAssumption DEF Tick, page, plan, IInv
<1>1. TypeOK'
  BY DEF TypeOK, Beam
<1>2. (OwnedIsLive /\ BeamHasEncoder /\ PatienceOwnsEncoders /\ OneAtATime /\ PlanInStep /\ BeamAlone)'
  BY DEF OwnedIsLive, BeamHasEncoder, Running, PatienceOwnsEncoders,
     EncodersAreOwned, OneAtATime, PlanInStep, BeamAlone, Idle
<1>3. QED
  BY <1>1, <1>2

LEMMA TickThrowsStep ==
  ASSUME IInv, NEW b \in Beams, TickThrows(b), UNCHANGED patient
  PROVE  IInv'
<1> USE ParameterAssumption DEF TickThrows, plan, IInv
<1>1. TypeOK'
  BY DEF TypeOK, Beam
<1>2. BeamHasEncoder'
  BY DEF BeamHasEncoder, Running, OwnedIsLive, BeamAlone, OneAtATime, Idle,
     MayAct, TypeOK
<1>3. BeamAlone'
  BY DEF BeamAlone, OneAtATime, Beam, Idle, MayAct, TypeOK
<1>4. (OwnedIsLive /\ PatienceOwnsEncoders /\ OneAtATime /\ PlanInStep)'
  BY DEF OwnedIsLive, PatienceOwnsEncoders, EncodersAreOwned, OneAtATime,
     PlanInStep
<1>5. QED
  BY <1>1, <1>2, <1>3, <1>4

LEMMA LockGrantedStep ==
  ASSUME IInv, NEW b \in Beams, LockGranted(b), UNCHANGED patient
  PROVE  IInv'
<1> USE ParameterAssumption DEF LockGranted, plan, IInv
<1>1. TypeOK'
  BY DEF TypeOK, Beam
<1>2. BeamHasEncoder'
  BY DEF BeamHasEncoder, Running, OwnedIsLive, BeamAlone, OneAtATime, Idle,
     MayAct, TypeOK
<1>3. BeamAlone'
  BY DEF BeamAlone, OneAtATime, Beam, Idle, MayAct, TypeOK
<1>4. (OwnedIsLive /\ PatienceOwnsEncoders /\ OneAtATime /\ PlanInStep)'
  BY DEF OwnedIsLive, PatienceOwnsEncoders, EncodersAreOwned, OneAtATime,
     PlanInStep
<1>5. QED
  BY <1>1, <1>2, <1>3, <1>4

LEMMA LockDeniedStep ==
  ASSUME IInv, NEW b \in Beams, LockDenied(b), UNCHANGED patient
  PROVE  IInv'
<1> USE ParameterAssumption DEF LockDenied, plan, IInv
<1>1. TypeOK'
  BY DEF TypeOK, Beam
<1>2. BeamHasEncoder'
  BY DEF BeamHasEncoder, Running, OwnedIsLive, BeamAlone, OneAtATime, Idle,
     MayAct, TypeOK
<1>3. BeamAlone'
  BY DEF BeamAlone, OneAtATime, Beam, Idle, MayAct, TypeOK
<1>4. (OwnedIsLive /\ PatienceOwnsEncoders /\ OneAtATime /\ PlanInStep)'
  BY DEF OwnedIsLive, PatienceOwnsEncoders, EncodersAreOwned, OneAtATime,
     PlanInStep
<1>5. QED
  BY <1>1, <1>2, <1>3, <1>4

(* What stopping a beam makes of it.                                       *)
LEMMA StoppedBeam ==
  ASSUME NEW beam \in Beam
  PROVE  /\ Stopped(beam) \in Beam
         /\ Stopped(beam).loop = "stopped"
         /\ Stopped(beam).encoder = beam.encoder
BY DEF Stopped, Beam

LEMMA StopStep ==
  ASSUME IInv, Stop, UNCHANGED patient
  PROVE  IInv'
<1> USE ParameterAssumption DEF IInv
<1>1. UNCHANGED <<reads, pending, builds, owned, source, live, enabled, dark, mono, patient>>
  BY DEF Stop, plan
<1>2. CASE beamStop = None
  <2>1. UNCHANGED <<beams, beamStop>>
    BY <1>2 DEF Stop, stopBeam
  <2>2. QED
    BY <1>1, <2>1
       DEF TypeOK, OwnedIsLive, BeamHasEncoder, PatienceOwnsEncoders,
           EncodersAreOwned, OneAtATime, PlanInStep, BeamAlone, Idle, Running
<1>3. CASE beamStop # None
  <2>1. /\ beamStop \in Beams
        /\ beamStop' = None
        /\ beams' = [beams EXCEPT ![beamStop] = Stopped(beams[beamStop])]
    BY <1>3 DEF Stop, stopBeam, TypeOK
  <2>2. beams \in [Beams -> Beam] /\ beams[beamStop] \in Beam
    BY <2>1 DEF TypeOK
  <2>3. /\ beams' \in [Beams -> Beam]
        /\ beams'[beamStop].loop = "stopped"
        /\ \A b \in Beams : b # beamStop => beams'[b] = beams[b]
    BY <2>1, <2>2, StoppedBeam
  <2>4. TypeOK'
    BY <1>1, <2>1, <2>3 DEF TypeOK
  <2>5. BeamHasEncoder'
    BY <1>1, <2>3 DEF BeamHasEncoder, Running
  <2>6. BeamAlone'
    BY <1>1, <2>1, <2>3 DEF BeamAlone
  <2>7. (OwnedIsLive /\ PatienceOwnsEncoders /\ OneAtATime /\ PlanInStep)'
    BY <1>1 DEF OwnedIsLive, PatienceOwnsEncoders, EncodersAreOwned, OneAtATime, PlanInStep
  <2>8. QED
    BY <2>4, <2>5, <2>6, <2>7
<1>4. QED
  BY <1>2, <1>3

LEMMA PageHideStep ==
  ASSUME IInv, PageHide, UNCHANGED patient
  PROVE  IInv'
<1> USE ParameterAssumption DEF IInv
<1> DEFINE Left(b) == IF b = beamStop THEN Stopped(beams[b]) ELSE beams[b]
           Unlocked(b) == [Left(b) EXCEPT
                             !.lock = CASE @ = "held" -> "released"
                                        [] @ = "asked" -> "none"
                                        [] OTHER -> @]
<1>1. /\ UNCHANGED <<reads, pending, builds, source, enabled, dark, mono, patient>>
      /\ beamStop' = None /\ owned' = None /\ live' = live \ {owned}
      /\ beams' = [b \in Beams |-> Unlocked(b)]
  BY DEF PageHide, releaseEncoder
<1>2. ASSUME NEW b \in Beams
      PROVE  /\ beams'[b] \in Beam
             /\ beams'[b].loop = "running" => beams[b].loop = "running" /\ b # beamStop
  <2>1. beams[b] \in Beam
    BY DEF TypeOK
  <2>2. Left(b) \in Beam /\ (Left(b).loop = "running" => beams[b].loop = "running" /\ b # beamStop)
    BY <2>1, StoppedBeam
  <2>3. beams'[b] = Unlocked(b)
    BY <1>1
  <2> HIDE DEF Left
  <2>4. QED
    BY <2>2, <2>3 DEF Beam
<1> HIDE DEF Left, Unlocked
<1>3. TypeOK'
  BY <1>1, <1>2 DEF TypeOK
<1>4. BeamHasEncoder' /\ BeamAlone'
  BY <1>1, <1>2 DEF BeamHasEncoder, BeamAlone, Running
<1>5. (OwnedIsLive /\ PatienceOwnsEncoders /\ OneAtATime /\ PlanInStep)'
  BY <1>1 DEF OwnedIsLive, PatienceOwnsEncoders, EncodersAreOwned, OneAtATime, PlanInStep
<1>6. QED
  BY <1>3, <1>4, <1>5

LEMMA StepIInv == IInv /\ [Next]_vars => IInv'
<1> SUFFICES ASSUME IInv, [Next]_vars PROVE IInv'
  OBVIOUS
<1>1. CASE UNCHANGED vars
  BY <1>1
     DEF vars, page, plan, IInv, TypeOK, OwnedIsLive, BeamHasEncoder,
         PatienceOwnsEncoders, EncodersAreOwned, OneAtATime, PlanInStep,
         BeamAlone, Idle, Running
<1>2. CASE Next
  BY <1>2, ChooseStep, ReadRefusedStep, ReadStep, SampleStep, EncodeFailsStep,
     EncodeStep, ChangePlanStep, ChangeInkStep, StartBeamStep, TickStep,
     TickThrowsStep, LockGrantedStep, LockDeniedStep, StopStep, PageHideStep
     DEF Next, Step
<1>3. QED
  BY <1>1, <1>2

(* What the code keeps: every reachable state satisfies the invariant.     *)
LEMMA IInvHolds == Spec => []IInv
BY InitIInv, StepIInv, PTL DEF Spec

(* Every variable of the transmitting page keeps its type.                 *)
THEOREM TypeCorrect == Spec => []TypeOK
<1>1. IInv => TypeOK
  BY DEF IInv
<1>2. QED
  BY <1>1, IInvHolds, PTL

(* The encoder that owned.encoder names is never one that releaseEncoder() *)
(* freed, however many builds overlap.                                     *)
THEOREM BeamedEncoderIsLive == Spec => []OwnedIsLive
<1>1. IInv => OwnedIsLive
  BY DEF IInv
<1>2. QED
  BY <1>1, IInvHolds, PTL

(* A user who lets accept() and buildPlan() finish sends the file chosen   *)
(* last.                                                                   *)
THEOREM PatientPlanIsCurrent == Spec => []PlanIsCurrent
<1>1. IInv => PlanIsCurrent
  BY DEF IInv, PlanInStep, PlanIsCurrent
<1>2. QED
  BY <1>1, IInvHolds, PTL

(* For the same user tick() never draws from an encoder that was freed.    *)
THEOREM PatientBeamHasEncoder == Spec => []BeamHasEncoder
<1>1. IInv => BeamHasEncoder
  BY DEF IInv
<1>2. QED
  BY <1>1, IInvHolds, PTL

(* For the same user every encoder that is live can still be freed.        *)
THEOREM PatienceLosesNoEncoder == Spec => []PatienceOwnsEncoders
<1>1. IInv => PatienceOwnsEncoders
  BY DEF IInv
<1>2. QED
  BY <1>1, IInvHolds, PTL

(* Once beamStop has run no loop of a beam goes on.                        *)
THEOREM StoppedBeamIsStill == Spec => []StopEndsBeam
<1>1. IInv => StopEndsBeam
  BY ParameterAssumption DEF IInv, BeamAlone, StopEndsBeam, Running, TypeOK
<1>2. QED
  BY <1>1, IInvHolds, PTL

----------------------------------------------------------------------------
(* The stage.                                                              *)

(* The two calls that run and pause it.                                    *)
LEMMA ResumeRuns ==
  ASSUME StageInv, resume
  PROVE  running' = TRUE /\ callbacks' \in 0 .. MaxCallbacks /\ (usable => callbacks' > 0)
BY StageAssumption DEF resume, StageInv, StageTypeOK

LEMMA PausePauses ==
  ASSUME StageInv, pause
  PROVE  running' = FALSE /\ callbacks' \in 0 .. MaxCallbacks
BY DEF pause, StageInv, StageTypeOK

LEMMA StageStepKeepsInv == StageInv /\ [StageNext]_stageVars => StageInv'
<1> SUFFICES ASSUME StageInv, [StageNext]_stageVars PROVE StageInv'
  OBVIOUS
<1>1. CASE PaintAgain \/ UNCHANGED stageVars
  BY <1>1 DEF PaintAgain, stageVars, StageInv, StageTypeOK
<1>2. CASE PaintEnds
  BY <1>2, StageAssumption DEF PaintEnds, StageInv, StageTypeOK
<1>3. ASSUME NEW best \in Beats, Scroll(best) PROVE StageInv'
  <2>1. current' = best /\ UNCHANGED <<beaming, usable>>
    BY <1>3 DEF Scroll
  <2>2. CASE best = LossBeat
    <3>1. /\ running' = TRUE /\ callbacks' \in 0 .. MaxCallbacks
          /\ usable => callbacks' > 0
      BY <1>3, <2>2, ResumeRuns DEF Scroll
    <3>2. QED
      BY <2>1, <3>1 DEF StageInv, StageTypeOK
  <2>3. CASE best # LossBeat
    <3>1. running' = FALSE /\ callbacks' \in 0 .. MaxCallbacks
      BY <1>3, <2>3, PausePauses DEF Scroll
    <3>2. QED
      BY <2>1, <2>3, <3>1 DEF StageInv, StageTypeOK
  <2>4. QED
    BY <2>2, <2>3
<1>4. CASE BeamStarts
  BY <1>4, PausePauses DEF BeamStarts, StageInv, StageTypeOK
<1>5. CASE BeamStops
  BY <1>5, ResumeRuns DEF BeamStops, StageInv, StageTypeOK
<1>6. CASE StageHides
  <2>1. CASE beaming
    BY <1>6, <2>1, ResumeRuns DEF StageHides, StageInv, StageTypeOK
  <2>2. CASE ~beaming
    BY <1>6, <2>2 DEF StageHides, StageInv, StageTypeOK
  <2>3. QED
    BY <2>1, <2>2
<1>7. QED
  BY <1>1, <1>2, <1>3, <1>4, <1>5, <1>6 DEF StageNext

(* On its own beat, with no beam over it, the stage always has a callback  *)
(* to come that will find it running.                                      *)
THEOREM LossBeatStaysAlive == StageSpec => []LossBeatIsAlive
<1>1. StageInit => StageInv
  <2>1. 1 \in 0 .. MaxCallbacks /\ LossBeat # NoBeat /\ 1 > 0
    BY StageAssumption
  <2>2. QED
    BY <2>1 DEF StageInit, StageInv, StageTypeOK
<1>2. StageInv => LossBeatIsAlive
  BY DEF StageInv, LossBeatIsAlive
<1>3. QED
  BY <1>1, <1>2, StageStepKeepsInv, PTL DEF StageSpec
=============================================================================
