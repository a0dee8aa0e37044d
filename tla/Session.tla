------------------------------ MODULE Session ------------------------------
(***************************************************************************)
(* Reception of one message among several transmitters: pz-core's Encoder  *)
(* as the source of an endless, wrapping stream of frames, a camera that   *)
(* misses, repeats and garbles them, and pz-core's Decoder                 *)
(* (crates/pz-core/src/decoder.rs) with its session lock, counters,        *)
(* container checksum and reset.                                           *)
(*                                                                         *)
(* The fountain decoder inside it is used through its abstract             *)
(* specification: the blocks it knows are Peeled(frames absorbed)          *)
(* (Fountain.tla, which Peeling.tla is proved to implement).  Bytes are    *)
(* abstracted to which message they are: droplets of one transmitter only  *)
(* assemble to its container; a mixture assembles to anything, but the     *)
(* CRC-32 passes only for a real container.                                *)
(***************************************************************************)
EXTENDS Integers

CONSTANTS
  Transmitters,     (* displays in view                                    *)
  Message,          (* Message[t]: what t transmits                        *)
  MessageLen,       (* MessageLen[t]: its length in bytes                  *)
  SessionId,        (* SessionId[t]: configured, or folded from its CRC    *)
  DropletSize,      (* DropletSize[t]: from t's grid, mode and parity      *)
  PlanOf(_, _, _),  (* PlanOf(id, k, i): DegreeTable::plan for k blocks      *)
  FrameCount,       (* bound: the frame index wraps here, not at 2^32      *)
  MaxPayloadBytes,  (* MAX_PAYLOAD_BYTES                                   *)
  MaxCount,         (* bound: the two counters saturate here               *)
  MaxResets,        (* bound: calls of reset()                             *)
  None,             (* Rust's None                                         *)
  Garbage           (* bytes that are no message                           *)

(* Bytes of the CRC-32 in front of the message.                            *)
ChecksumBytes == 4

Indices == 0 .. FrameCount - 1

ASSUME TransmitterAssumption ==
  /\ MessageLen \in [Transmitters -> Nat]
  /\ DropletSize \in [Transmitters -> Nat \ {0}]
  /\ \A t \in Transmitters : Message[t] # None /\ Message[t] # Garbage
  /\ \A t, u \in Transmitters :
       Message[t] = Message[u] => MessageLen[t] = MessageLen[u]
  /\ None # Garbage

ASSUME BoundAssumption ==
  /\ FrameCount \in Nat \ {0}
  /\ MaxPayloadBytes \in Nat
  /\ MaxCount \in Nat
  /\ MaxResets \in Nat

VARIABLES
  session,          (* the session locked on to, or None                   *)
  absorbed,         (* droplets its fountain decoder was given             *)
  container,        (* what the fountain assembled, None until complete    *)
  finished,         (* the verified message, or None                       *)
  frames_seen,
  frames_accepted,
  outcome,          (* what the last call returned                         *)
  resets

decoder == <<session, absorbed, container, finished, frames_seen,
             frames_accepted, outcome>>
vars == <<decoder, resets>>

----------------------------------------------------------------------------
(* Encoder::new: the container is a checksum and the message.              *)
ContainerLen(t) == MessageLen[t] + ChecksumBytes

Accepted(t) == MessageLen[t] > 0 /\ MessageLen[t] <= MaxPayloadBytes

DivCeil(a, b) == (a + b - 1) \div b

BlockCount(s) == DivCeil(s.len, s.size)

(* What a frame of t makes of a fresh decoder's session.                   *)
SessionOf(t) ==
  [id |-> SessionId[t], size |-> DropletSize[t], len |-> ContainerLen(t)]

ASSUME NoneAssumption == \A t \in Transmitters : SessionOf(t) # None

Peel(s) == INSTANCE Closure WITH
             Blocks <- 0 .. BlockCount(s) - 1,
             Frames <- Indices,
             Plan <- [i \in Indices |-> PlanOf(s.id, BlockCount(s), i)]

(* recovered(): source blocks known from the droplets D.                   *)
Recovered(s, D) == Peel(s)!Peeled({d.index : d \in D})

IsComplete(s, D) == Recovered(s, D) = 0 .. BlockCount(s) - 1

(* assemble(): the message of the transmitters, if the droplets agree on   *)
(* one.  A mixture converges on garbage, unless only one transmitter's     *)
(* droplets happened to reach the result.                                  *)
Assembled(s, D) ==
  LET messages == {Message[d.from] : d \in D}
  IN IF \E m \in messages : messages = {m} THEN messages
     ELSE {Garbage} \cup
          {Message[d.from] : d \in {e \in D : ContainerLen(e.from) = s.len}}

(* Mutants: the id, or the droplet size, is not compared.                  *)
Bug_Fits_NoId(s, t) == s.size = DropletSize[t]
Bug_Fits_NoSize(s, t) == s.id = SessionId[t]

(* The two checks a frame of t passes to reach the fountain of session s.  *)
Fits(s, t) == s.id = SessionId[t] /\ s.size = DropletSize[t]

(* Mutant: every frame gets a fountain decoder of its own.                 *)
Bug_Gather(t, i) == {[from |-> t, index |-> i]}

(* The droplets in the fountain once frame i of t is added.                *)
Gather(t, i) == absorbed \cup {[from |-> t, index |-> i]}

Count(n) == IF n < MaxCount THEN n + 1 ELSE n

Init ==
  /\ session = None
  /\ absorbed = {}
  /\ container = None
  /\ finished = None
  /\ frames_seen = 0
  /\ frames_accepted = 0
  /\ outcome = "none"
  /\ resets = 0

----------------------------------------------------------------------------
Seen ==
  /\ frames_seen' = Count(frames_seen)
  /\ UNCHANGED resets

(* No frame in the image.                                                  *)
IngestNothing ==
  /\ Seen
  /\ outcome' = "not_found"
  /\ UNCHANGED <<session, absorbed, container, finished, frames_accepted>>

(* A frame that decode_sampled() cannot repair or verify.                  *)
IngestUnreadable ==
  /\ Seen
  /\ outcome' = "rejected"
  /\ UNCHANGED <<session, absorbed, container, finished, frames_accepted>>

(* Mutant: a finished decoder goes over to a new transmitter by itself.    *)
Bug_AbsorbFinished(t) ==
  /\ finished # None
  /\ session' = SessionOf(t)
  /\ absorbed' = {}
  /\ container' = None
  /\ finished' = None
  /\ outcome' = "progressed"
  /\ UNCHANGED frames_accepted

(* absorb(): the message is already there.                                 *)
AbsorbFinished(t) ==
  /\ finished # None
  /\ outcome' = "complete"
  /\ UNCHANGED <<session, absorbed, container, finished, frames_accepted>>

(* absorb(): another session's frame, or one of another droplet size.      *)
AbsorbForeign(t) ==
  /\ finished = None
  /\ session # None
  /\ ~Fits(session, t)
  /\ outcome' = "rejected"
  /\ UNCHANGED <<session, absorbed, container, finished, frames_accepted>>

(* absorb(): the first frame announces a message this build refuses.       *)
AbsorbTooLarge(t) ==
  /\ finished = None
  /\ session = None
  /\ ContainerLen(t) > MaxPayloadBytes
  /\ outcome' = "too_large"
  /\ UNCHANGED <<session, absorbed, container, finished, frames_accepted>>

(* Mutant: the checksum is not compared.                                   *)
Bug_Verify(s, D) ==
  /\ IF container = None /\ IsComplete(s, D)
     THEN container' \in Assembled(s, D)
     ELSE container' = container
  /\ finished' = container'
  /\ outcome' = IF container' = None THEN "progressed" ELSE "complete"

(* A complete fountain is assembled and its checksum compared; once it has *)
(* converged on the wrong bytes it stays there.                            *)
Verify(s, D) ==
  /\ IF container = None /\ IsComplete(s, D)
     THEN container' \in Assembled(s, D)
     ELSE container' = container
  /\ finished' = IF container' = Garbage THEN None ELSE container'
  /\ outcome' = CASE container' = None -> "progressed"
                  [] container' = Garbage -> "checksum_mismatch"
                  [] OTHER -> "complete"

(* absorb(): the droplet reaches the fountain decoder, which the first     *)
(* frame of a session creates.                                             *)
AbsorbDroplet(t, i) ==
  LET s == IF session = None THEN SessionOf(t) ELSE session
      D == Gather(t, i)
  IN /\ finished = None
     /\ session = None => ContainerLen(t) <= MaxPayloadBytes
     /\ Fits(s, t)
     /\ session' = s
     /\ absorbed' = D
     /\ frames_accepted' = Count(frames_accepted)
     /\ Verify(s, D)

(* The camera catches frame i of t (Encoder::frame).  A transmitter shows  *)
(* the indices in order, without end and wrapping; a camera that misses    *)
(* any number of frames and catches one several times sees any sequence of *)
(* them, so the display needs no state of its own.                         *)
Ingest(t, i) ==
  /\ Accepted(t)
  /\ Seen
  /\ \/ AbsorbFinished(t)
     \/ AbsorbForeign(t)
     \/ AbsorbTooLarge(t)
     \/ AbsorbDroplet(t, i)

(* Mutant: reset() clears one of the two counters.                         *)
Bug_Reset ==
  /\ resets < MaxResets
  /\ resets' = resets + 1
  /\ session' = None
  /\ absorbed' = {}
  /\ container' = None
  /\ finished' = None
  /\ frames_seen' = 0
  /\ UNCHANGED <<frames_accepted, outcome>>

(* reset(): forget the session and clear both counters.                    *)
Reset ==
  /\ resets < MaxResets
  /\ resets' = resets + 1
  /\ session' = None
  /\ absorbed' = {}
  /\ container' = None
  /\ finished' = None
  /\ frames_seen' = 0
  /\ frames_accepted' = 0
  /\ UNCHANGED outcome

Next ==
  \/ \E t \in Transmitters, i \in Indices : Ingest(t, i)
  \/ IngestNothing
  \/ IngestUnreadable
  \/ Reset

Spec == Init /\ [][Next]_vars

(* Transmitters never stop, and a camera that keeps looking catches each   *)
(* frame index of each of them again and again.                            *)
Fairness ==
  \A t \in Transmitters, i \in Indices : WF_vars(Ingest(t, i))

FairSpec == Spec /\ Fairness

----------------------------------------------------------------------------
TypeOK ==
  /\ session \in {None} \cup {SessionOf(t) : t \in Transmitters}
  /\ absorbed \in SUBSET [from : Transmitters, index : Indices]
  /\ container \in {None, Garbage} \cup {Message[t] : t \in Transmitters}
  /\ finished \in {None} \cup {Message[t] : t \in Transmitters}
  /\ frames_seen \in 0 .. MaxCount
  /\ frames_accepted \in 0 .. MaxCount
  /\ outcome \in {"none", "not_found", "rejected", "progressed", "too_large",
                  "checksum_mismatch", "complete"}
  /\ resets \in 0 .. MaxResets

(* Every droplet in the fountain belongs to the session and has its block  *)
(* size; the session itself, its length included, is that of a transmitter *)
(* one of whose droplets is in the fountain.                               *)
FountainMatchesSession ==
  IF session = None THEN absorbed = {}
  ELSE /\ \A d \in absorbed : /\ SessionId[d.from] = session.id
                              /\ DropletSize[d.from] = session.size
       /\ \E d \in absorbed : session = SessionOf(d.from)

(* A delivered message is the message of a transmitter that contributed to *)
(* it and announced the session's id and length: never a mixture, whatever *)
(* ids collide and whatever the camera saw.                                *)
DeliversOneMessage ==
  finished # None =>
    \E d \in absorbed :
      /\ finished = Message[d.from]
      /\ SessionOf(d.from) = session

(* Each accepted frame is a frame seen, and a decoder that has locked on   *)
(* to nothing has accepted nothing, also after any number of resets.       *)
CountersAgree ==
  /\ frames_accepted <= frames_seen
  /\ session = None => frames_accepted = 0

(* Only reset() takes back a result or lets go of a session.               *)
OnlyResetForgets ==
  [][resets' = resets =>
       /\ finished # None => finished' = finished
       /\ session # None => session' = session]_vars

(* Within a session, recovered blocks stay recovered.                      *)
ProgressNeverFalls ==
  [][session # None /\ session' = session =>
       Recovered(session, absorbed) \subseteq Recovered(session', absorbed')]_vars

(* The droplets of a session all come from one transmitter.                *)
(* decoder.rs says of the session check: "a frame from another transmitter *)
(* never reaches the fountain decoder."                                    *)
OneTransmitter == \A d, e \in absorbed : d.from = e.from

(* Whatever the encoder accepts, the decoder does not refuse:              *)
(* MAX_PAYLOAD_BYTES is documented as "Largest payload a single PZ session *)
(* can carry, in bytes."                                                   *)
AcceptedIsReceivable == outcome # "too_large"

(* Enough is enough: once the droplets of one message determine all of its *)
(* blocks, the call that brought the last of them has delivered it.        *)
EnoughIsDelivered ==
  /\ session # None
  /\ IsComplete(session, absorbed)
  /\ \A d, e \in absorbed : Message[d.from] = Message[e.from]
  => \E d \in absorbed : finished = Message[d.from]

(* A session's frame i, for i below its number of blocks, is block i       *)
(* itself (DegreeTable::plan): the shortest way through a message.         *)
Systematic ==
  \A t \in Transmitters :
    LET k == BlockCount(SessionOf(t))
    IN \A i \in 0 .. k - 1 : i \in Indices /\ PlanOf(SessionId[t], k, i) = {i}

PrefixIsComplete ==
  session # None /\ 0 .. BlockCount(session) - 1 \subseteq {d.index : d \in absorbed}
    => IsComplete(session, absorbed)

(* A session locked on to ends in a delivered message or in a reset.       *)
SessionsComplete == session # None ~> (finished # None \/ session = None)

----------------------------------------------------------------------------
(* The inductive invariant behind the safety properties.                   *)

(* What the fountain assembled, if it is a message, is the message of a    *)
(* contributing transmitter that announced exactly this session.           *)
ContainerIsOneMessage ==
  container \notin {None, Garbage} =>
    \E d \in absorbed :
      /\ container = Message[d.from]
      /\ SessionOf(d.from) = session

(* An assembled message is delivered, and nothing else is.                 *)
DeliversContainer ==
  /\ finished = IF container = Garbage THEN None ELSE container
  /\ session = None => container = None

(* The call that completes the fountain assembles it.                      *)
CompleteIsAssembled ==
  session # None /\ IsComplete(session, absorbed) => container # None

(* Only droplets of different messages converge on garbage.                *)
GarbageIsMixed ==
  container = Garbage =>
    \E d, e \in absorbed : Message[d.from] # Message[e.from]

IInv ==
  /\ TypeOK
  /\ FountainMatchesSession
  /\ ContainerIsOneMessage
  /\ DeliversContainer
  /\ CompleteIsAssembled
  /\ GarbageIsMixed
  /\ CountersAgree
============================================================================
