----------------------------- MODULE WebSender -----------------------------
(***************************************************************************)
(* The transmitting half of the browser demo (web/app.mjs): accept(),      *)
(* buildPlan(), releaseEncoder(), startBeam() with its tick and beamStop,  *)
(* and pagehide.                                                           *)
(*                                                                         *)
(* A step is a handler's run between two awaits.  Reading a file and       *)
(* compressing it (pack) are awaited, and end in any order.  Encoder       *)
(* handles and beams are numbered in the order they are created.  What a   *)
(* frame shows is the encoder it comes from.                               *)
(***************************************************************************)
EXTENDS Integers, FiniteSets

CONSTANTS
  Files,        (* what the user can choose: files, the samples            *)
  Unencodable,  (* those for which pz.encode() throws                      *)
  MaxEncoders,  (* bound: encoders created                                 *)
  MaxBuilds,    (* bound: builds of one file in flight                     *)
  MaxBeams,     (* bound: beams started                                    *)
  Patience,     (* whether users let an operation finish before the next   *)
  None          (* null                                                    *)

Encoders == 1 .. MaxEncoders
Beams == 1 .. MaxBeams

ASSUME ParameterAssumption ==
  /\ Unencodable \subseteq Files
  /\ {MaxEncoders, MaxBuilds, MaxBeams} \subseteq Nat
  /\ Patience \subseteq BOOLEAN
  /\ None \notin Encoders \cup Beams \cup Files

VARIABLES
  patient,    (* of this user; never changes                               *)
  reads,      (* files whose arrayBuffer() is awaited                      *)
  pending,    (* the payload chosen, or None                               *)
  builds,     (* file -> calls of buildPlan() awaiting pack()              *)
  owned,      (* owned.encoder                                             *)
  source,     (* the file of each encoder created so far                   *)
  live,       (* encoders not yet freed                                    *)
  enabled,    (* the Transmit button                                       *)
  dark,       (* the ink chosen is dark enough to decode                   *)
  mono,       (* the profile chosen is monochrome: its frames are inked    *)
  beams,      (* what each beam is: [encoder, drawable, loop, lock]        *)
  beamStop    (* the beam that beamStop would stop, or None                *)

plan == <<reads, pending, builds, owned, source, live, enabled, dark, mono>>
page == <<plan, beams, beamStop>>
vars == <<page, patient>>

Beam == [encoder : Encoders \cup {None},
         drawable : BOOLEAN,
         loop : {"unused", "running", "crashed", "stopped"},
         lock : {"none", "asked", "held", "released"}]

Init ==
  /\ patient \in Patience
  /\ reads = {}
  /\ pending = None
  /\ builds = [f \in Files |-> 0]
  /\ owned = None
  /\ source = [e \in Encoders |-> None]
  /\ live = {}
  /\ enabled = FALSE
  /\ dark = TRUE
  /\ mono = TRUE
  /\ beams = [b \in Beams |-> [encoder |-> None, drawable |-> TRUE,
                               loop |-> "unused", lock |-> "none"]]
  /\ beamStop = None

----------------------------------------------------------------------------
Idle == reads = {} /\ \A f \in Files : builds[f] = 0

(* The beam covers the page; a patient user does not work behind it.       *)
MayAct == patient => Idle /\ beamStop = None

(* Mutants: the old encoder is forgotten, not freed; it is freed but not   *)
(* forgotten.                                                              *)
Bug_releaseEncoder ==
  /\ owned' = None
  /\ UNCHANGED live

Bug_releaseEncoder_Dangling ==
  /\ live' = live \ {owned}
  /\ UNCHANGED owned

releaseEncoder ==
  /\ live' = live \ {owned}
  /\ owned' = None

(* buildPlan() up to its await of pack().                                  *)
buildPlan(f) ==
  IF f = None THEN UNCHANGED <<builds, owned, live>>
  ELSE /\ builds[f] < MaxBuilds
       /\ builds' = [builds EXCEPT ![f] = @ + 1]
       /\ releaseEncoder

(* accept(): the file is being read.                                       *)
Choose(f) ==
  /\ MayAct
  /\ reads' = reads \cup {f}
  /\ UNCHANGED <<pending, builds, owned, source, live, enabled, dark, mono,
                 beams, beamStop>>

(* The file is empty or too large: an alert.                               *)
ReadRefused(f) ==
  /\ f \in reads
  /\ reads' = reads \ {f}
  /\ UNCHANGED <<pending, builds, owned, source, live, enabled, dark, mono,
                 beams, beamStop>>

(* Mutant: the plan is not rebuilt for the file just read.                 *)
Bug_Read(f) ==
  /\ f \in reads
  /\ reads' = reads \ {f}
  /\ pending' = f
  /\ UNCHANGED <<builds, owned, source, live, enabled, dark, mono, beams,
                 beamStop>>

Read(f) ==
  /\ f \in reads
  /\ reads' = reads \ {f}
  /\ pending' = f
  /\ buildPlan(f)
  /\ UNCHANGED <<source, enabled, dark, mono, beams, beamStop>>

(* The buttons for the sample and for the small test.                      *)
Sample(f) ==
  /\ MayAct
  /\ pending' = f
  /\ buildPlan(f)
  /\ UNCHANGED <<reads, source, enabled, dark, mono, beams, beamStop>>

(* The profile or the rate changes.                                        *)
ChangePlan(monochrome) ==
  /\ MayAct
  /\ mono' = monochrome
  /\ buildPlan(pending)
  /\ UNCHANGED <<reads, pending, source, enabled, dark, beams, beamStop>>

(* Mutant: the null handle of a failed encoder is kept.                    *)
Bug_EncodeFails(f) ==
  /\ builds[f] > 0
  /\ f \in Unencodable
  /\ builds' = [builds EXCEPT ![f] = @ - 1]
  /\ owned' = 0
  /\ UNCHANGED <<reads, pending, source, live, enabled, dark, mono,
                 beams, beamStop>>

(* buildPlan() after its await: pz.encode() throws, an alert.              *)
EncodeFails(f) ==
  /\ builds[f] > 0
  /\ f \in Unencodable
  /\ builds' = [builds EXCEPT ![f] = @ - 1]
  /\ UNCHANGED <<reads, pending, owned, source, live, enabled, dark, mono,
                 beams, beamStop>>

(* buildPlan() after its await: a new encoder takes the place of whatever  *)
(* is there by now.                                                        *)
Encode(f) ==
  /\ builds[f] > 0
  /\ f \notin Unencodable
  /\ builds' = [builds EXCEPT ![f] = @ - 1]
  /\ \E e \in Encoders :
       /\ source[e] = None
       /\ \A d \in 1 .. e - 1 : source[d] # None
       /\ source' = [source EXCEPT ![e] = f]
       /\ live' = live \cup {e}
       /\ owned' = e
  /\ enabled' = TRUE
  /\ UNCHANGED <<reads, pending, dark, mono, beams, beamStop>>

(* The ink field, on show with a monochrome profile, enables Transmit by   *)
(* its contrast.                                                           *)
ChangeInk(usable) ==
  /\ MayAct
  /\ mono
  /\ dark' = usable
  /\ enabled' = (pending # None /\ usable)
  /\ UNCHANGED <<reads, pending, builds, owned, source, live, mono, beams,
                 beamStop>>

----------------------------------------------------------------------------
(* startBeam(): a click, or a key while Transmit has the focus.            *)
startBeam ==
  /\ MayAct
  /\ enabled
  /\ owned # None
  /\ \E b \in Beams :
       /\ beams[b].loop = "unused"
       /\ \A c \in 1 .. b - 1 : beams[c].loop # "unused"
       /\ beams' = [beams EXCEPT ![b] =
                      [encoder |-> owned, drawable |-> mono => dark,
                       loop |-> "running", lock |-> "asked"]]
       /\ beamStop' = b
  /\ UNCHANGED plan

(* tick(): a frame of the beam's encoder is drawn.                         *)
Tick(b) ==
  /\ beams[b].loop = "running"
  /\ beams[b].encoder \in live
  /\ beams[b].drawable
  /\ UNCHANGED page

(* tick(): frameRGBA() throws on a freed encoder and on an ink that is too *)
(* light, and the loop is not scheduled again.                             *)
TickThrows(b) ==
  /\ beams[b].loop = "running"
  /\ beams[b].encoder \notin live \/ ~beams[b].drawable
  /\ beams' = [beams EXCEPT ![b].loop = "crashed"]
  /\ UNCHANGED <<plan, beamStop>>

(* wakeLock.request() settles, whether or not the beam is still on.        *)
LockGranted(b) ==
  /\ beams[b].lock = "asked"
  /\ beams' = [beams EXCEPT ![b].lock = "held"]
  /\ UNCHANGED <<plan, beamStop>>

LockDenied(b) ==
  /\ beams[b].lock = "asked"
  /\ beams' = [beams EXCEPT ![b].lock = "none"]
  /\ UNCHANGED <<plan, beamStop>>

(* Mutant: the animation frame is not cancelled.                           *)
Bug_Stopped(beam) ==
  [beam EXCEPT !.lock = IF @ = "held" THEN "released" ELSE @]

Stopped(beam) ==
  [beam EXCEPT !.loop = "stopped",
               !.lock = IF @ = "held" THEN "released" ELSE @]

(* beamStop?.().                                                           *)
stopBeam ==
  IF beamStop = None THEN UNCHANGED <<beams, beamStop>>
  ELSE /\ beams' = [beams EXCEPT ![beamStop] = Stopped(@)]
       /\ beamStop' = None

(* A tap on the beam or Escape.                                            *)
Stop ==
  /\ stopBeam
  /\ UNCHANGED plan

(* Mutant: pagehide frees the encoder and leaves the beam on.              *)
Bug_PageHide ==
  /\ releaseEncoder
  /\ UNCHANGED <<reads, pending, builds, source, enabled, dark, mono, beams,
                 beamStop>>

(* pagehide; the page may come back from the back-forward cache.  The      *)
(* browser itself takes the wake locks of a page that is hidden, and       *)
(* refuses the requests.                                                   *)
PageHide ==
  /\ beamStop' = None
  /\ beams' = [b \in Beams |->
       [ (IF b = beamStop THEN Stopped(beams[b]) ELSE beams[b]) EXCEPT
           !.lock = CASE @ = "held" -> "released" [] @ = "asked" -> "none"
                      [] OTHER -> @ ]]
  /\ releaseEncoder
  /\ UNCHANGED <<reads, pending, builds, source, enabled, dark, mono>>

Step ==
  \/ \E f \in Files : \/ Choose(f) \/ ReadRefused(f) \/ Read(f) \/ Sample(f)
                      \/ EncodeFails(f) \/ Encode(f)
  \/ \E choice \in BOOLEAN : ChangePlan(choice) \/ ChangeInk(choice)
  \/ startBeam
  \/ \E b \in Beams : \/ Tick(b) \/ TickThrows(b)
                      \/ LockGranted(b) \/ LockDenied(b)
  \/ Stop
  \/ PageHide

Next == Step /\ UNCHANGED patient

Spec == Init /\ [][Next]_vars

----------------------------------------------------------------------------
TypeOK ==
  /\ patient \in BOOLEAN
  /\ reads \subseteq Files
  /\ pending \in Files \cup {None}
  /\ builds \in [Files -> 0 .. MaxBuilds]
  /\ owned \in Encoders \cup {None}
  /\ source \in [Encoders -> Files \cup {None}]
  /\ live \subseteq Encoders
  /\ {enabled, dark, mono} \subseteq BOOLEAN
  /\ beams \in [Beams -> Beam]
  /\ beamStop \in Beams \cup {None}

Running == {b \in Beams : beams[b].loop = "running"}

(* However the builds overlap, the encoder the page would beam is never    *)
(* one that was freed.                                                     *)
OwnedIsLive == owned # None => owned \in live

(* For a user who lets each operation finish, what Transmit would send is  *)
(* the file chosen last.                                                   *)
PlanIsCurrent == patient /\ Idle /\ owned # None => source[owned] = pending

(* For the same user a beam never loses the encoder it draws from.         *)
BeamHasEncoder ==
  patient => \A b \in Running : beams[b].encoder \in live

(* app.mjs says of the wasm handles: "every one of them is explicitly      *)
(* freed."  So no handle may be live that the page cannot free any more.   *)
EncodersAreOwned == live \subseteq {owned}

(* A user who lets each build finish never loses one.                      *)
PatienceOwnsEncoders == patient => EncodersAreOwned

(* Behind Transmit index.html says: "Tap or press Escape to stop."  Once   *)
(* stopped, nothing of the beam goes on.                                   *)
StopEndsBeam == patient /\ beamStop = None => Running = {}

----------------------------------------------------------------------------
(* What makes the invariants above inductive.  A patient user has one file *)
(* being read or one plan being built, with no encoder meanwhile; a beam   *)
(* is on only when neither is; and only the beam on show has a loop.       *)
OneAtATime ==
  patient =>
    /\ \A f \in reads : reads = {f} /\ \A g \in Files : builds[g] = 0
    /\ \A f \in Files :
         builds[f] > 0 =>
           /\ builds[f] = 1 /\ \A g \in Files : builds[g] > 0 => g = f
           /\ pending = f /\ owned = None /\ reads = {}

PlanInStep == patient /\ owned # None => source[owned] = pending

BeamAlone ==
  patient =>
    /\ beamStop # None => Idle
    /\ \A b \in Beams : beams[b].loop = "running" => b = beamStop

IInv ==
  /\ TypeOK
  /\ OwnedIsLive
  /\ BeamHasEncoder
  /\ PatienceOwnsEncoders
  /\ OneAtATime
  /\ PlanInStep
  /\ BeamAlone
============================================================================
