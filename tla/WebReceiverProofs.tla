------------------------- MODULE WebReceiverProofs -------------------------
(***************************************************************************)
(* Proofs about the receiving page, for any number of starts of the        *)
(* camera, every browser and every user.                                   *)
(***************************************************************************)
EXTENDS WebReceiver, TLAPS


LEMMA InitIInv == Init => IInv
BY ParameterAssumption
   DEF Init, IInv, TypeOK, StreamIsLive, PumpsHaveDecoders, ReceivingHasCamera,
       NoStrayCamera, UrlsAreOwned, OneAtATime, Starting

LEMMA StepIInv == IInv /\ [Next]_vars => IInv'
<1> SUFFICES ASSUME IInv, [Next]_vars PROVE IInv'
  OBVIOUS
<1> USE ParameterAssumption
        DEF IInv, TypeOK, StreamIsLive, PumpsHaveDecoders, ReceivingHasCamera,
            NoStrayCamera, UrlsAreOwned, OneAtATime, Starting, MayClick,
            startCamera, stopCamera, releaseResult
<1>1. CASE ClickCamera /\ UNCHANGED <<hasFrameCallback, patient>>
  <2>1. CASE receiving
    BY <1>1, <2>1 DEF ClickCamera, result
  <2>2. CASE ~receiving
    <3>1. PICK i \in Calls : /\ calls[i] = "idle"
                             /\ calls' = [calls EXCEPT ![i] = "asking"]
      BY <1>1, <2>2 DEF ClickCamera
    <3>2. /\ UNCHANGED <<receiving, stream, tracks, hasFrameCallback, patient>>
          /\ UNCHANGED <<decoders, finishing, visible>>
          /\ UNCHANGED <<url, urls>>
          /\ urls' \subseteq Calls /\ url' \in Calls \cup {None} /\ done' \in BOOLEAN
      BY <1>1, <2>2 DEF ClickCamera, result
    <3>3. patient => ~Starting /\ finishing = {} /\ tracks = {}
      BY <1>1, <2>2 DEF ClickCamera
    <3>4. TypeOK'
      BY <3>1, <3>2
    <3>5. StreamIsLive' /\ ReceivingHasCamera' /\ NoStrayCamera' /\ UrlsAreOwned'
      BY <3>2, <3>3
    <3>6. PumpsHaveDecoders'
      BY <3>1, <3>2
    <3>7. OneAtATime'
      BY <2>2, <3>1, <3>2, <3>3
    <3>8. QED
      BY <3>4, <3>5, <3>6, <3>7
  <2>3. QED
    BY <2>1, <2>2
<1>2. CASE ClickAgain /\ UNCHANGED <<hasFrameCallback, patient>>
  <2>1. CASE receiving
    BY <1>2, <2>1 DEF ClickAgain, result
  <2>2. CASE ~receiving
    <3>1. PICK i \in Calls : /\ calls[i] = "idle"
                             /\ calls' = [calls EXCEPT ![i] = "asking"]
      BY <1>2, <2>2 DEF ClickAgain
    <3>2. /\ UNCHANGED <<receiving, stream, tracks, hasFrameCallback, patient>>
          /\ UNCHANGED <<decoders, finishing, visible>>
          /\ url' = None /\ urls' = urls \ {url}
          /\ urls' \subseteq Calls /\ url' \in Calls \cup {None} /\ done' \in BOOLEAN
      BY <1>2, <2>2 DEF ClickAgain, result
    <3>3. patient => ~Starting /\ finishing = {} /\ tracks = {}
      BY <1>2, <2>2 DEF ClickAgain
    <3>4. TypeOK'
      BY <3>1, <3>2
    <3>5. StreamIsLive' /\ ReceivingHasCamera' /\ NoStrayCamera' /\ UrlsAreOwned'
      BY <3>2, <3>3
    <3>6. PumpsHaveDecoders'
      BY <3>1, <3>2
    <3>7. OneAtATime'
      BY <2>2, <3>1, <3>2, <3>3
    <3>8. QED
      BY <3>4, <3>5, <3>6, <3>7
  <2>3. QED
    BY <2>1, <2>2
<1>3. ASSUME NEW i \in Calls, Granted(i), UNCHANGED <<hasFrameCallback, patient>>
      PROVE  IInv'
  BY <1>3 DEF Granted, result
<1>4. ASSUME NEW i \in Calls, Denied(i), UNCHANGED <<hasFrameCallback, patient>>
      PROVE  IInv'
  BY <1>4 DEF Denied, result
<1>5. ASSUME NEW i \in Calls, Played(i), UNCHANGED <<hasFrameCallback, patient>>
      PROVE  IInv'
  <2>1. /\ calls[i] = "playing" /\ calls' = [calls EXCEPT ![i] = "pumping"]
        /\ stream = i /\ receiving' = TRUE /\ done' = FALSE
        /\ url' = None /\ urls' = urls \ {url} /\ decoders' = decoders \cup {i}
        /\ UNCHANGED <<stream, tracks, finishing, visible, hasFrameCallback, patient>>
    BY <1>5 DEF Played, result
  <2>2. TypeOK' /\ StreamIsLive' /\ ReceivingHasCamera' /\ UrlsAreOwned'
    BY <2>1
  <2>3. PumpsHaveDecoders'
    BY <2>1
  <2>4. NoStrayCamera'
    BY <2>1
  <2>5. patient => finishing = {} /\ \A j \in Calls : calls[j] \in {"asking", "playing"} => j = i
    BY <2>1
  <2>6. OneAtATime'
    BY <2>1, <2>5
  <2>7. QED
    BY <2>2, <2>3, <2>4, <2>6
<1>6. ASSUME NEW i \in Calls, PlayAborted(i), UNCHANGED <<hasFrameCallback, patient>>
      PROVE  IInv'
  <2>1. /\ calls[i] = "playing" /\ calls' = [calls EXCEPT ![i] = "over"]
        /\ UNCHANGED <<receiving, stream, tracks, hasFrameCallback, patient>>
        /\ UNCHANGED <<decoders, finishing, url, urls, done, visible>>
    BY <1>6 DEF PlayAborted, result
  <2>2. TypeOK' /\ StreamIsLive' /\ ReceivingHasCamera' /\ UrlsAreOwned'
    BY <2>1
  <2>3. PumpsHaveDecoders'
    BY <2>1
  <2>4. NoStrayCamera'
    BY <1>6, <2>1 DEF PlayAborted
  <2>5. OneAtATime'
    BY <2>1
  <2>6. QED
    BY <2>2, <2>3, <2>4, <2>5
<1>7. ASSUME NEW i \in Calls, PumpStops(i), UNCHANGED <<hasFrameCallback, patient>>
      PROVE  IInv'
  BY <1>7 DEF PumpStops, Due, result
<1>8. ASSUME NEW i \in Calls, PumpGoesOn(i), UNCHANGED <<hasFrameCallback, patient>>
      PROVE  IInv'
  BY <1>8 DEF PumpGoesOn, Due, page, result
<1>9. ASSUME NEW i \in Calls, PumpCompletes(i), UNCHANGED <<hasFrameCallback, patient>>
      PROVE  IInv'
  BY <1>9 DEF PumpCompletes, Due, result
<1>10. ASSUME NEW i \in Calls, Finish(i), UNCHANGED <<hasFrameCallback, patient>>
      PROVE  IInv'
  BY <1>10 DEF Finish, result
<1>11. ASSUME NEW i \in Calls, FinishFails(i), UNCHANGED <<hasFrameCallback, patient>>
      PROVE  IInv'
  BY <1>11 DEF FinishFails, result
<1>12. CASE (TabHidden \/ TabShown) /\ UNCHANGED <<hasFrameCallback, patient>>
  <2>1. /\ UNCHANGED <<calls, receiving, stream, tracks, decoders, finishing>>
        /\ UNCHANGED <<done, hasFrameCallback, patient>>
        /\ visible' \in BOOLEAN
        /\ \/ UNCHANGED <<url, urls>>
           \/ url' = None /\ urls' = urls \ {url}
    BY <1>12 DEF TabHidden, TabShown, result
  <2>2. TypeOK' /\ StreamIsLive' /\ ReceivingHasCamera' /\ PumpsHaveDecoders'
    BY <2>1
  <2>3. NoStrayCamera' /\ UrlsAreOwned'
    BY <2>1
  <2>4. OneAtATime'
    BY <2>1
  <2>5. QED
    BY <2>2, <2>3, <2>4
<1>13. CASE PageHide /\ UNCHANGED <<hasFrameCallback, patient>>
  BY <1>13 DEF PageHide, result
<1>14. CASE UNCHANGED vars
  BY <1>14 DEF vars, page, result
<1>15. QED
  BY <1>1, <1>2, <1>3, <1>4, <1>5, <1>6, <1>7, <1>8, <1>9, <1>10, <1>11,
     <1>12, <1>13, <1>14 DEF Next, Step, Pump
(* What the code keeps: every reachable state satisfies the invariant.     *)
LEMMA IInvHolds == Spec => []IInv
BY InitIInv, StepIInv, PTL DEF Spec

(* Every variable of the receiving page keeps its type.                    *)
THEOREM TypeCorrect == Spec => []TypeOK
<1>1. IInv => TypeOK
  BY DEF IInv
<1>2. QED
  BY <1>1, IInvHolds, PTL

(* A scheduled pump has its decoder and a decoder its pump: however many   *)
(* starts overlap, pump() never uses or frees a decoder that is gone.      *)
THEOREM PumpsKeepDecoders == Spec => []PumpsHaveDecoders
<1>1. IInv => PumpsHaveDecoders
  BY DEF IInv
<1>2. QED
  BY <1>1, IInvHolds, PTL

(* The page never says it is receiving from a camera that was stopped,     *)
(* however stopCamera(), pagehide and the starts interleave.               *)
THEOREM ReceivingKeepsCamera == Spec => []ReceivingHasCamera
<1>1. IInv => ReceivingHasCamera
  BY DEF IInv
<1>2. QED
  BY <1>1, IInvHolds, PTL

(* A user who waits for startCamera() to settle leaves no camera on.       *)
THEOREM PatienceLeavesNoCamera == Spec => []NoStrayCamera
<1>1. IInv => NoStrayCamera
  BY DEF IInv
<1>2. QED
  BY <1>1, IInvHolds, PTL

(* For the same user releaseResult() reaches every object URL that finish()*)
(* creates.                                                                *)
THEOREM PatienceOwnsUrls == Spec => []UrlsAreOwned
<1>1. IInv => UrlsAreOwned
  BY DEF IInv
<1>2. QED
  BY <1>1, IInvHolds, PTL
============================================================================
