---------------------------- MODULE WebReceiver ----------------------------
(***************************************************************************)
(* The receiving half of the browser demo (web/app.mjs): startCamera(),    *)
(* its pump, stopCamera(), finish() and the page events.                   *)
(*                                                                         *)
(* JavaScript runs a handler to its end or to its next await, so a step    *)
(* here is a handler's run between two awaits.  Each call of startCamera() *)
(* is known by a number; the stream it obtains, the decoder it creates and *)
(* the object URL of what it receives carry the same number.  Images and   *)
(* messages are left out: a pump's ingest may complete at any time, throw, *)
(* or change nothing that matters here.                                    *)
(***************************************************************************)
EXTENDS Integers

CONSTANTS
  MaxStarts,    (* bound: calls of startCamera() that open a camera        *)
  Browsers,     (* whether cam.requestVideoFrameCallback exists            *)
  Patience,     (* whether users click only when nothing is in progress    *)
  None          (* null                                                    *)

Calls == 1 .. MaxStarts

ASSUME ParameterAssumption ==
  /\ MaxStarts \in Nat
  /\ Browsers \subseteq BOOLEAN
  /\ Patience \subseteq BOOLEAN
  /\ None \notin Calls

VARIABLES
  hasFrameCallback,   (* of this browser; never changes                    *)
  patient,            (* of this user; never changes                       *)
  calls,        (* where each call of startCamera() is                     *)
  receiving,
  stream,       (* owned.stream, which is also cam.srcObject               *)
  tracks,       (* streams whose tracks have not been stopped              *)
  decoders,     (* decoders that have not been freed                       *)
  finishing,    (* calls of finish() waiting for unpack()                  *)
  url,          (* owned.url                                               *)
  urls,         (* object URLs that have not been revoked                  *)
  done,         (* the done box is shown                                   *)
  visible       (* document.visibilityState                                *)

result == <<finishing, url, urls, done>>
page == <<calls, receiving, stream, tracks, decoders, result, visible>>
vars == <<page, hasFrameCallback, patient>>

Init ==
  /\ hasFrameCallback \in Browsers
  /\ patient \in Patience
  /\ calls = [i \in Calls |-> "idle"]
  /\ receiving = FALSE
  /\ stream = None
  /\ tracks = {}
  /\ decoders = {}
  /\ finishing = {}
  /\ url = None
  /\ urls = {}
  /\ done = FALSE
  /\ visible = TRUE

----------------------------------------------------------------------------
Starting == \E i \in Calls : calls[i] \in {"asking", "playing"}

MayClick == visible /\ (patient => ~Starting /\ finishing = {})

(* Mutant: the tracks are left running.                                    *)
Bug_stopCamera ==
  /\ receiving' = FALSE
  /\ stream' = None
  /\ UNCHANGED tracks

stopCamera ==
  /\ receiving' = FALSE
  /\ tracks' = tracks \ {stream}
  /\ stream' = None

(* Mutant: the URL is forgotten, not revoked.                              *)
Bug_releaseResult ==
  /\ url' = None
  /\ UNCHANGED urls

releaseResult ==
  /\ url' = None
  /\ urls' = urls \ {url}

(* startCamera() up to the first await: a click while receiving stops.     *)
startCamera ==
  \/ /\ receiving
     /\ stopCamera
     /\ UNCHANGED calls
  \/ /\ ~receiving
     /\ \E i \in Calls :
          /\ calls[i] = "idle"
          /\ \A j \in 1 .. i - 1 : calls[j] # "idle"
          /\ calls' = [calls EXCEPT ![i] = "asking"]
     /\ UNCHANGED <<receiving, stream, tracks>>

ClickCamera ==
  /\ MayClick
  /\ startCamera
  /\ UNCHANGED <<decoders, result, visible>>

ClickAgain ==
  /\ MayClick
  /\ done
  /\ releaseResult
  /\ done' = FALSE
  /\ startCamera
  /\ UNCHANGED <<decoders, finishing, visible>>

(* getUserMedia() resolves; cam.play() is awaited.                         *)
Granted(i) ==
  /\ calls[i] = "asking"
  /\ calls' = [calls EXCEPT ![i] = "playing"]
  /\ stream' = i
  /\ tracks' = tracks \cup {i}
  /\ UNCHANGED <<receiving, decoders, result, visible>>

(* getUserMedia() rejects: an alert, and startCamera() returns.            *)
Denied(i) ==
  /\ calls[i] = "asking"
  /\ calls' = [calls EXCEPT ![i] = "over"]
  /\ UNCHANGED <<receiving, stream, tracks, decoders, result, visible>>

(* cam.play() resolves: the decoder is created and the pump scheduled.     *)
Played(i) ==
  /\ calls[i] = "playing"
  /\ stream = i
  /\ calls' = [calls EXCEPT ![i] = "pumping"]
  /\ receiving' = TRUE
  /\ done' = FALSE
  /\ releaseResult
  /\ decoders' = decoders \cup {i}
  /\ UNCHANGED <<stream, tracks, finishing, visible>>

(* The browser rejects a pending play() when srcObject changes; nothing    *)
(* catches that.                                                           *)
PlayAborted(i) ==
  /\ calls[i] = "playing"
  /\ stream # i
  /\ calls' = [calls EXCEPT ![i] = "over"]
  /\ UNCHANGED <<receiving, stream, tracks, decoders, result, visible>>

----------------------------------------------------------------------------
(* The scheduled pump runs: at the next frame of the camera on show, or,   *)
(* without frame callbacks, at the next frame of the display; a hidden tab *)
(* has neither.                                                            *)
Due(i) ==
  /\ calls[i] = "pumping"
  /\ visible
  /\ hasFrameCallback => stream # None

(* pump(): the camera was stopped.                                         *)
PumpStops(i) ==
  /\ Due(i)
  /\ ~receiving
  /\ calls' = [calls EXCEPT ![i] = "over"]
  /\ decoders' = decoders \ {i}
  /\ UNCHANGED <<receiving, stream, tracks, result, visible>>

(* Mutant: an ingest that throws returns without schedule(pump).           *)
Bug_PumpGoesOn(i) ==
  /\ Due(i)
  /\ receiving
  /\ calls' = [calls EXCEPT ![i] = "dropped"]
  /\ UNCHANGED <<receiving, stream, tracks, decoders, result, visible>>

(* pump(): a frame that does not complete the message, or an ingest that   *)
(* throws: schedule(pump).                                                 *)
PumpGoesOn(i) ==
  /\ Due(i)
  /\ receiving
  /\ UNCHANGED page

(* Mutant: the pump is scheduled again after the decoder was freed.        *)
Bug_PumpCompletes(i) ==
  /\ Due(i)
  /\ receiving
  /\ finishing' = finishing \cup {i}
  /\ releaseResult
  /\ decoders' = decoders \ {i}
  /\ stopCamera
  /\ UNCHANGED <<calls, done, visible>>

(* pump(): the message is complete.  finish() runs to its await, then the  *)
(* decoder is freed and the camera stopped.                                *)
PumpCompletes(i) ==
  /\ Due(i)
  /\ receiving
  /\ calls' = [calls EXCEPT ![i] = "over"]
  /\ finishing' = finishing \cup {i}
  /\ releaseResult
  /\ decoders' = decoders \ {i}
  /\ stopCamera
  /\ UNCHANGED <<done, visible>>

(* finish() after its await: the bytes are offered for download.           *)
Finish(i) ==
  /\ i \in finishing
  /\ finishing' = finishing \ {i}
  /\ url' = i
  /\ urls' = urls \cup {i}
  /\ done' = TRUE
  /\ UNCHANGED <<calls, receiving, stream, tracks, decoders, visible>>

(* finish() after its await: the bytes do not decompress; an alert.        *)
FinishFails(i) ==
  /\ i \in finishing
  /\ finishing' = finishing \ {i}
  /\ UNCHANGED <<calls, receiving, stream, tracks, decoders, url, urls, done,
                 visible>>

----------------------------------------------------------------------------
(* visibilitychange.                                                       *)
TabHidden ==
  /\ visible
  /\ visible' = FALSE
  /\ IF done THEN UNCHANGED <<url, urls>> ELSE releaseResult
  /\ UNCHANGED <<calls, receiving, stream, tracks, decoders, finishing, done>>

TabShown ==
  /\ ~visible
  /\ visible' = TRUE
  /\ UNCHANGED <<calls, receiving, stream, tracks, decoders, result>>

(* Mutant: only the reference to the stream is dropped.                    *)
Bug_PageHide ==
  /\ releaseResult
  /\ stream' = None
  /\ UNCHANGED <<calls, receiving, tracks, decoders, finishing, done, visible>>

(* pagehide; the page may be shown again from the back-forward cache.  The *)
(* decoders in owned are those of the stage, never a pump's.               *)
PageHide ==
  /\ releaseResult
  /\ stopCamera
  /\ UNCHANGED <<calls, decoders, finishing, done, visible>>

Pump(i) == PumpStops(i) \/ PumpGoesOn(i) \/ PumpCompletes(i)

Step ==
  \/ ClickCamera
  \/ ClickAgain
  \/ \E i \in Calls : \/ Granted(i) \/ Denied(i) \/ Played(i) \/ PlayAborted(i)
                      \/ Pump(i) \/ Finish(i) \/ FinishFails(i)
  \/ TabHidden
  \/ TabShown
  \/ PageHide

Next == Step /\ UNCHANGED <<hasFrameCallback, patient>>

Spec == Init /\ [][Next]_vars

(* The browser delivers the frames it owes: a scheduled pump is run.       *)
Fairness ==
  \A i \in Calls :
    WF_vars(PumpStops(i) /\ UNCHANGED <<hasFrameCallback, patient>>)

FairSpec == Spec /\ Fairness

----------------------------------------------------------------------------
TypeOK ==
  /\ hasFrameCallback \in BOOLEAN
  /\ patient \in BOOLEAN
  /\ calls \in [Calls -> {"idle", "asking", "playing", "pumping", "over"}]
  /\ receiving \in BOOLEAN
  /\ stream \in Calls \cup {None}
  /\ tracks \subseteq Calls
  /\ decoders \subseteq Calls
  /\ finishing \subseteq Calls
  /\ url \in Calls \cup {None}
  /\ urls \subseteq Calls
  /\ done \in BOOLEAN
  /\ visible \in BOOLEAN

(* A pump that is still scheduled has its decoder, and a decoder that is   *)
(* not freed has its pump: however many pumps overlap after impatient      *)
(* clicks, no decoder is used after free() or freed by another's end.      *)
PumpsHaveDecoders == decoders = {i \in Calls : calls[i] = "pumping"}

(* While the page says it is receiving, the camera it shows is running:    *)
(* no stop, page event or second start leaves the page receiving from a    *)
(* stream that was stopped.                                                *)
ReceivingHasCamera == receiving => stream \in tracks

(* A user who waits for each start to settle never leaves a camera on: the *)
(* only stream with live tracks is the one on show, and none when stopped. *)
NoStrayCamera ==
  patient =>
    /\ tracks \subseteq {stream}
    /\ ~receiving /\ ~Starting => tracks = {}

(* For the same user every object URL that is not revoked is the one the   *)
(* page can still revoke; anything else pins a whole payload in memory.    *)
UrlsAreOwned == patient => urls \subseteq {url}

(* app.mjs says of the encoder and decoder handles: "every one of them is  *)
(* explicitly freed."  A stopped camera's decoder should be, in the end,   *)
(* unless the tab stays hidden.                                            *)
DecodersAreFreed == []<>(receiving \/ ~visible \/ decoders = {})

(* Where the pump runs on animation frames that is so: however the starts  *)
(* and stops overlap, the pumps left over from earlier cameras end.        *)
AnimationFramesFreeDecoders == ~hasFrameCallback => DecodersAreFreed

----------------------------------------------------------------------------
(* What makes the invariants above inductive.  The stream on show has not  *)
(* been stopped; and a patient user has one start or one finish() in       *)
(* progress at a time, and neither a camera nor a URL while it is.         *)
StreamIsLive == stream # None => stream \in tracks

OneAtATime ==
  patient =>
    /\ Starting => ~receiving
    /\ \A i, j \in Calls :
         calls[i] \in {"asking", "playing"} /\ calls[j] \in {"asking", "playing"} => i = j
    /\ \A i \in Calls : calls[i] = "asking" => tracks = {}
    /\ \A i \in Calls : calls[i] = "playing" => tracks \subseteq {i}
    /\ \A i \in finishing : finishing = {i} /\ urls = {} /\ ~receiving /\ ~Starting

IInv ==
  /\ TypeOK
  /\ StreamIsLive
  /\ PumpsHaveDecoders
  /\ ReceivingHasCamera
  /\ NoStrayCamera
  /\ UrlsAreOwned
  /\ OneAtATime
============================================================================
