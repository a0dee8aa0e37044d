----------------------------- MODULE HostsProofs -----------------------------
(***************************************************************************)
(* Proofs about reception, for every set of transmitters, every choice of  *)
(* messages, lengths, ids and profiles and every degree table, and about   *)
(* the programs around it, for any calls, handles and session ids, and     *)
(* any addresses and lengths of what they allocate.                        *)
(***************************************************************************)
EXTENDS Hosts, Memory, FiniteSetTheorems, TLAPS

----------------------------------------------------------------------------
(* Reception alone: the receiver that Session specifies.                   *)

(* The saturating counters of a session stay within their width, and      *)
(* capping one keeps its order.                                            *)
LEMMA CountIsBounded ==
  ASSUME NEW n \in 0 .. MaxCount
  PROVE  Count(n) \in 0 .. MaxCount /\ n <= Count(n)
BY BoundAssumption DEF Count

LEMMA CountIsMonotone ==
  ASSUME NEW m \in 0 .. MaxCount, NEW n \in 0 .. MaxCount, m <= n
  PROVE  Count(m) <= Count(n) /\ m <= Count(n)
BY BoundAssumption DEF Count

(* A receiver that was just made satisfies the invariant.                  *)
LEMMA InitIInv == Init => IInv
BY BoundAssumption, TransmitterAssumption
   DEF Init, IInv, TypeOK, FountainMatchesSession, ContainerIsOneMessage,
       DeliversContainer, CompleteIsAssembled, GarbageIsMixed, CountersAgree

(* A complete fountain assembles something, and garbage only from droplets *)
(* of different messages.                                                  *)
LEMMA AssembledIsSomething ==
  ASSUME NEW s, NEW D \in SUBSET [from : Transmitters, index : Indices],
         D # {}, NEW m \in Assembled(s, D)
  PROVE  /\ m # None
         /\ m = Garbage => \E d, e \in D : Message[d.from] # Message[e.from]
<1> DEFINE messages == {Message[d.from] : d \in D}
<1>1. \A x \in messages : x # None /\ x # Garbage
  BY TransmitterAssumption
<1>2. CASE \E x \in messages : messages = {x}
  BY <1>1, <1>2 DEF Assembled
<1>3. CASE ~\E x \in messages : messages = {x}
  <2>1. \E d, e \in D : Message[d.from] # Message[e.from]
    BY <1>3
  <2>2. m # None
    BY <1>1, <1>3, TransmitterAssumption DEF Assembled
  <2>3. QED
    BY <2>1, <2>2
<1>4. QED
  BY <1>2, <1>3

(* What the fountain of a session assembles is garbage or the message of a *)
(* contributor that announced this very session.                           *)
LEMMA AssembledIsOneMessage ==
  ASSUME NEW s, NEW D, NEW m \in Assembled(s, D), m # Garbage,
         \A d \in D : SessionId[d.from] = s.id /\ DropletSize[d.from] = s.size,
         \E d \in D : s = SessionOf(d.from)
  PROVE  \E d \in D : m = Message[d.from] /\ SessionOf(d.from) = s
<1> DEFINE messages == {Message[d.from] : d \in D}
<1>1. PICK l \in D : s = SessionOf(l.from)
  OBVIOUS
<1>2. CASE \E x \in messages : messages = {x}
  <2>1. Message[l.from] = m
    BY <1>2 DEF Assembled
  <2>2. QED
    BY <1>1, <2>1
<1>3. CASE ~\E x \in messages : messages = {x}
  <2>1. PICK d \in D : m = Message[d.from] /\ ContainerLen(d.from) = s.len
    BY <1>3 DEF Assembled
  <2>2. SessionOf(d.from) = s
    BY <1>1, <2>1 DEF SessionOf
  <2>3. QED
    BY <2>1, <2>2
<1>4. QED
  BY <1>2, <1>3

(* A frame that does not reach the fountain.                               *)
LEMMA QuietKeepsIInv ==
  ASSUME IInv, Seen,
         UNCHANGED <<session, absorbed, container, finished, frames_accepted>>,
         outcome' \in {"not_found", "rejected", "too_large", "complete"}
  PROVE  IInv'
<1>1. frames_seen' \in 0 .. MaxCount /\ frames_accepted' <= frames_seen'
  BY CountIsMonotone, CountIsBounded DEF IInv, TypeOK, CountersAgree, Seen
<1>2. TypeOK'
  BY <1>1 DEF IInv, TypeOK, Seen
<1>3. FountainMatchesSession'
  BY DEF IInv, FountainMatchesSession
<1>4. ContainerIsOneMessage'
  BY DEF IInv, ContainerIsOneMessage
<1>5. DeliversContainer' /\ CountersAgree'
  BY <1>1 DEF IInv, DeliversContainer, CountersAgree
<1>6. CompleteIsAssembled' /\ GarbageIsMixed'
  BY DEF IInv, CompleteIsAssembled, GarbageIsMixed
<1>7. QED
  BY <1>2, <1>3, <1>4, <1>5, <1>6 DEF IInv

LEMMA DropletKeepsIInv ==
  ASSUME IInv, Seen,
         NEW t \in Transmitters, NEW i \in Indices, AbsorbDroplet(t, i)
  PROVE  IInv'
<1> DEFINE s == IF session = None THEN SessionOf(t) ELSE session
           d0 == [from |-> t, index |-> i]
           D == absorbed \cup {d0}
<1>1. /\ session' = s /\ absorbed' = D
      /\ finished = None
      /\ Fits(s, t)
      /\ frames_accepted' = Count(frames_accepted)
      /\ Verify(s, D)
  BY DEF AbsorbDroplet, Gather
<1>2. /\ s \in {SessionOf(u) : u \in Transmitters}
      /\ D \in SUBSET [from : Transmitters, index : Indices]
      /\ s # None
  BY NoneAssumption DEF IInv, TypeOK
<1>3. /\ \A d \in D : SessionId[d.from] = s.id /\ DropletSize[d.from] = s.size
      /\ \E d \in D : s = SessionOf(d.from)
  <2>1. SessionId[d0.from] = s.id /\ DropletSize[d0.from] = s.size
    BY <1>1 DEF Fits
  <2>2. CASE session = None
    <3>1. D = {d0} /\ s = SessionOf(d0.from)
      BY <2>2 DEF IInv, FountainMatchesSession
    <3>2. QED
      BY <2>1, <3>1
  <2>3. CASE session # None
    BY <2>1, <2>3 DEF IInv, FountainMatchesSession
  <2>4. QED
    BY <2>2, <2>3
<1>4. FountainMatchesSession'
  BY <1>1, <1>2, <1>3 DEF FountainMatchesSession
<1>5. container' # None /\ container' # Garbage =>
        \E d \in D : container' = Message[d.from] /\ SessionOf(d.from) = s
  <2>1. CASE container = None /\ IsComplete(s, D)
    BY <1>1, <1>3, <2>1, AssembledIsOneMessage DEF Verify
  <2>2. CASE ~(container = None /\ IsComplete(s, D))
    <3>1. container' = container
      BY <1>1, <2>2 DEF Verify
    <3>2. container # None => session = s
      BY DEF IInv, DeliversContainer
    <3>3. QED
      BY <3>1, <3>2 DEF IInv, ContainerIsOneMessage
  <2>3. QED
    BY <2>1, <2>2
<1>6. ContainerIsOneMessage'
  BY <1>1, <1>5 DEF ContainerIsOneMessage
<1>7. DeliversContainer'
  BY <1>1, <1>2, TransmitterAssumption DEF Verify, DeliversContainer
<1>8. /\ frames_seen' \in 0 .. MaxCount
      /\ frames_accepted' \in 0 .. MaxCount
      /\ frames_accepted' <= frames_seen'
  BY <1>1, CountIsMonotone, CountIsBounded
     DEF IInv, TypeOK, CountersAgree, Seen
<1>9. TypeOK'
  <2>1. container' \in {None, Garbage} \cup {Message[u] : u \in Transmitters}
    BY <1>2, <1>5
  <2>2. finished' \in {None} \cup {Message[u] : u \in Transmitters}
    BY <1>1, <2>1, TransmitterAssumption DEF Verify
  <2>3. outcome' \in {"progressed", "checksum_mismatch", "complete"}
    BY <1>1 DEF Verify
  <2>4. QED
    BY <1>1, <1>2, <1>8, <2>1, <2>2, <2>3 DEF IInv, TypeOK, Seen
<1>10. CountersAgree'
  BY <1>1, <1>2, <1>8 DEF CountersAgree
<1>11. /\ IsComplete(s, D) => container' # None
       /\ container' = Garbage =>
            \E d, e \in D : Message[d.from] # Message[e.from]
  <2>1. CASE container = None /\ IsComplete(s, D)
    <3>1. D # {} /\ container' \in Assembled(s, D)
      BY <1>1, <2>1 DEF Verify
    <3> HIDE DEF D, s
    <3>2. QED
      BY <1>2, <3>1, AssembledIsSomething
  <2>2. CASE ~(container = None /\ IsComplete(s, D))
    <3>1. container' = container
      BY <1>1, <2>2 DEF Verify
    <3>2. QED
      BY <2>2, <3>1 DEF IInv, GarbageIsMixed
  <2>3. QED
    BY <2>1, <2>2
<1>12. CompleteIsAssembled' /\ GarbageIsMixed'
  BY <1>1, <1>11 DEF CompleteIsAssembled, GarbageIsMixed
<1>13. QED
  BY <1>4, <1>6, <1>7, <1>9, <1>10, <1>12 DEF IInv

LEMMA ResetKeepsIInv ==
  ASSUME IInv, Reset
  PROVE  IInv'
BY BoundAssumption, TransmitterAssumption
   DEF IInv, Reset, TypeOK, FountainMatchesSession, ContainerIsOneMessage,
       DeliversContainer, CompleteIsAssembled, GarbageIsMixed, CountersAgree

LEMMA StutterKeepsIInv ==
  ASSUME IInv, UNCHANGED vars
  PROVE  IInv'
BY DEF IInv, vars, decoder, TypeOK, FountainMatchesSession,
       ContainerIsOneMessage, DeliversContainer, CompleteIsAssembled,
       GarbageIsMixed, CountersAgree

(* What an ingested frame does: it is turned away, or absorbed.            *)
LEMMA IngestSplits ==
  ASSUME NEW t \in Transmitters, NEW i \in Indices, Ingest(t, i)
  PROVE  /\ Seen
         /\ \/ /\ UNCHANGED <<session, absorbed, container, finished,
                              frames_accepted>>
               /\ outcome' \in {"rejected", "too_large", "complete"}
            \/ AbsorbDroplet(t, i)
BY DEF Ingest, AbsorbFinished, AbsorbForeign, AbsorbTooLarge

----------------------------------------------------------------------------
(* The inductive invariant holds in every reachable state of the receiver  *)
(* (Decoder::absorb, reset).                                               *)
THEOREM Inductive == Spec => []IInv
<1>1. Init => IInv
  BY InitIInv
<1>2. IInv /\ [Next]_vars => IInv'
  <2> SUFFICES ASSUME IInv, [Next]_vars PROVE IInv'
    OBVIOUS
  <2>1. ASSUME NEW t \in Transmitters, NEW i \in Indices, Ingest(t, i)
        PROVE  IInv'
    BY <2>1, IngestSplits, QuietKeepsIInv, DropletKeepsIInv
  <2>2. CASE IngestNothing
    BY <2>2, QuietKeepsIInv DEF IngestNothing
  <2>3. CASE IngestUnreadable
    BY <2>3, QuietKeepsIInv DEF IngestUnreadable
  <2>4. CASE Reset
    BY <2>4, ResetKeepsIInv
  <2>5. CASE UNCHANGED vars
    BY <2>5, StutterKeepsIInv
  <2>6. QED
    BY <2>1, <2>2, <2>3, <2>4, <2>5 DEF Next
<1>3. QED
  BY <1>1, <1>2, PTL DEF Spec

(* The receiver's variables keep their types.                              *)
THEOREM TypeCorrect == Spec => []TypeOK
<1>1. IInv => TypeOK
  BY DEF IInv
<1>2. QED
  BY <1>1, Inductive, PTL

(* The fountain of a session only ever holds droplets with the session's   *)
(* id and block size, one of them from the transmitter that opened it.     *)
THEOREM FountainIsTheSessions == Spec => []FountainMatchesSession
<1>1. IInv => FountainMatchesSession
  BY DEF IInv
<1>2. QED
  BY <1>1, Inductive, PTL

(* No interleaving of transmitters, colliding ids included, makes the      *)
(* receiver deliver anything but one transmitter's whole message, and that *)
(* transmitter announced the session's id, size and length.                *)
THEOREM NeverAMixture == Spec => []DeliversOneMessage
<1>1. IInv => DeliversOneMessage
  <2> SUFFICES ASSUME IInv, finished # None
               PROVE  \E d \in absorbed : /\ finished = Message[d.from]
                                         /\ SessionOf(d.from) = session
    BY DEF DeliversOneMessage
  <2>1. finished = container /\ container \notin {None, Garbage}
    BY TransmitterAssumption DEF IInv, TypeOK, DeliversContainer
  <2>2. QED
    BY <2>1 DEF IInv, ContainerIsOneMessage
<1>2. QED
  BY <1>1, Inductive, PTL

(* A session in which only one message was caught delivers it as soon as   *)
(* its droplets suffice, in the call that absorbs the last of them         *)
(* (Decoder::absorb): the checksum never turns a good message away, and no *)
(* complete fountain is left unassembled.                                  *)
THEOREM NoCompleteMessageWaits == Spec => []EnoughIsDelivered
<1>1. IInv => EnoughIsDelivered
  <2> SUFFICES ASSUME IInv, session # None, IsComplete(session, absorbed),
                      \A d, e \in absorbed : Message[d.from] = Message[e.from]
               PROVE  \E d \in absorbed : finished = Message[d.from]
    BY DEF EnoughIsDelivered
  <2>1. container # None /\ container # Garbage
    BY DEF IInv, CompleteIsAssembled, GarbageIsMixed
  <2>2. QED
    BY <2>1 DEF IInv, DeliversContainer, ContainerIsOneMessage
<1>2. QED
  BY <1>1, Inductive, PTL

(* If frame i of a session is block i for every i below the block count,   *)
(* as the encoder has it, a receiver that caught those frames, in any      *)
(* order and among any others, has the whole message.                      *)
THEOREM PrefixSuffices ==
  ASSUME Systematic
  PROVE  Spec => []PrefixIsComplete
<1>1. IInv => PrefixIsComplete
  <2> DEFINE k == BlockCount(session)
  <2> SUFFICES ASSUME IInv, session # None,
                      0 .. k - 1 \subseteq {d.index : d \in absorbed}
               PROVE  IsComplete(session, absorbed)
    BY DEF PrefixIsComplete
  <2>1. PICK t \in Transmitters : session = SessionOf(t)
    BY DEF IInv, TypeOK
  <2>2. \A i \in 0 .. k - 1 : i \in Indices /\ PlanOf(session.id, k, i) = {i}
    BY <2>1 DEF Systematic, SessionOf
  <2>3. ASSUME NEW i \in 0 .. k - 1, NEW S \in SUBSET (0 .. k - 1),
               Peel(session)!Closed(S, {d.index : d \in absorbed})
        PROVE  i \in S
    <3>1. i \in {d.index : d \in absorbed}
      OBVIOUS
    <3>2. [j \in Indices |-> PlanOf(session.id, k, j)][i] = {i}
      BY <2>2
    <3>3. {i} \ S # {i}
      BY <2>3, <3>1, <3>2 DEF Peel!Closed
    <3>4. QED
      BY <3>3
  <2>4. Recovered(session, absorbed) = 0 .. k - 1
    BY <2>3 DEF Recovered, Peel!Peeled
  <2>5. QED
    BY <2>4 DEF IsComplete
<1>2. QED
  BY <1>1, Inductive, PTL

(* frames_accepted never passes frames_seen, and is zero without a session. *)
THEOREM CountersStayConsistent == Spec => []CountersAgree
<1>1. IInv => CountersAgree
  BY DEF IInv
<1>2. QED
  BY <1>1, Inductive, PTL

(* One step of anything but reset().                                       *)
LEMMA StepForgetsNothing ==
  ASSUME IInv, [Next]_vars, resets' = resets
  PROVE  /\ finished # None => finished' = finished
         /\ session # None => session' = session
<1>1. ASSUME NEW t \in Transmitters, NEW i \in Indices, AbsorbDroplet(t, i)
      PROVE  finished = None /\ (session # None => session' = session)
  BY <1>1 DEF AbsorbDroplet
<1>2. ASSUME NEW t \in Transmitters, NEW i \in Indices, Ingest(t, i)
      PROVE  /\ finished # None => finished' = finished
             /\ session # None => session' = session
  BY <1>1, <1>2, IngestSplits
<1>3. ~Reset
  BY DEF Reset, IInv, TypeOK
<1>4. QED
  BY <1>2, <1>3 DEF Next, IngestNothing, IngestUnreadable, vars, decoder

(* A result, once delivered, and a session, once locked on to, stay until  *)
(* reset() is called: frames of whatever transmitter do not touch them.    *)
THEOREM OnlyResetLetsGo == Spec => OnlyResetForgets
<1> DEFINE A == resets' = resets =>
                  /\ finished # None => finished' = finished
                  /\ session # None => session' = session
<1>1. IInv /\ [Next]_vars => [A]_vars
  BY StepForgetsNothing
<1>2. QED
  BY <1>1, Inductive, PTL DEF Spec, OnlyResetForgets

(* Handing over more droplets never takes a recovered block away.          *)
LEMMA RecoveredGrows ==
  ASSUME NEW s, NEW D, NEW E, D \subseteq E
  PROVE  Recovered(s, D) \subseteq Recovered(s, E)
BY DEF Recovered, Peel!Peeled, Peel!Closed

(* One step within a session.                                              *)
LEMMA StepKeepsRecovered ==
  ASSUME IInv, [Next]_vars, session # None, session' = session
  PROVE  Recovered(session, absorbed) \subseteq Recovered(session', absorbed')
<1>1. ASSUME NEW t \in Transmitters, NEW i \in Indices, Ingest(t, i)
      PROVE  absorbed \subseteq absorbed'
  BY <1>1, IngestSplits DEF AbsorbDroplet, Gather
<1>2. ~Reset
  BY NoneAssumption DEF Reset
<1>3. absorbed \subseteq absorbed'
  BY <1>1, <1>2 DEF Next, IngestNothing, IngestUnreadable, vars, decoder
<1>4. Recovered(session, absorbed) \subseteq Recovered(session, absorbed')
  BY <1>3, RecoveredGrows
<1>5. QED
  BY <1>4

(* The recovered part of a message never shrinks within a session.         *)
THEOREM ProgressIsMonotone == Spec => ProgressNeverFalls
<1> DEFINE A == session # None /\ session' = session =>
                  Recovered(session, absorbed)
                    \subseteq Recovered(session', absorbed')
<1>1. IInv /\ [Next]_vars => [A]_vars
  BY StepKeepsRecovered
<1>2. QED
  BY <1>1, Inductive, PTL DEF Spec, ProgressNeverFalls

(* If ids are unique, the session check does keep other transmitters out   *)
(* of the fountain.                                                        *)
THEOREM UniqueIdsIsolate ==
  ASSUME \A t, u \in Transmitters : SessionId[t] = SessionId[u] => t = u
  PROVE  Spec => []OneTransmitter
<1>1. IInv => OneTransmitter
  BY DEF IInv, TypeOK, FountainMatchesSession, OneTransmitter
<1>2. QED
  BY <1>1, Inductive, PTL

----------------------------------------------------------------------------
(* The programs around the core.  Every step of the hosts is a step of the *)
(* core or leaves it alone.                                                *)

(* What a call was told of completion, and what pz wrote.                  *)
CompletionIsReal ==
  /\ wasm.kind = 3 => finished # None
  /\ cli = "wrote" => \E t \in Transmitters : cli_out = Message[t]

LastCallAgrees ==
  /\ last = "ingest" =>
       /\ (ffi_status = "Ok") <=> (wasm.returned >= 0)
       /\ (ffi_status = "Ok") <=> ~py.raised
       /\ ffi_status = "Ok" /\ ffi_out.kind = "complete" => finished # None
       /\ wasm.returned = 3 => finished # None
       /\ ~py.raised /\ py.status.complete => finished # None
  /\ last = "refused" =>
       ffi_status = "InvalidArgument" /\ wasm.returned < 0 /\ py.raised

Records ==
  /\ wasm = [returned |-> wasm.returned, kind |-> wasm.kind]
  /\ py = [raised |-> py.raised, seen |-> py.seen, status |-> py.status]

HInv == CompletionIsReal /\ LastCallAgrees /\ Records

----------------------------------------------------------------------------
(* Whatever the hosts are called with, the core behind them is the         *)
(* receiver that Session specifies: every call is a step of it or none, so *)
(* all that is proved of a session holds behind the C ABI, WebAssembly and *)
(* Python.  crates/pz-ffi, crates/pz-wasm, bindings/python.                *)
THEOREM HostsRunTheCore == HSpec => Spec
<1>1. HInit => Init
  BY DEF HInit
<1>2. [HNext]_hvars => [Next]_vars
  <2> SUFFICES ASSUME [HNext]_hvars PROVE [Next]_vars
    OBVIOUS
  <2>1. CASE UNCHANGED vars
    BY <2>1
  <2>2. CASE \/ \E t \in Transmitters, i \in Indices : OfferFrame(t, i)
             \/ OfferNothing \/ OfferUnreadable \/ ResetAll
    BY <2>2 DEF Next, OfferFrame, OfferNothing, OfferUnreadable, ResetAll
  <2>3. ASSUME NEW r \in Requests, NewEncoder(r) PROVE UNCHANGED vars
    BY <2>3 DEF NewEncoder
  <2>4. Refuse \/ CliEnds \/ FreeEncoders \/ FfiFrame \/ FfiResult
          => UNCHANGED vars
    BY DEF Refuse, CliEnds, FreeEncoders, FfiFrame, FfiResult
  <2>5. UNCHANGED hvars => UNCHANGED vars
    BY DEF hvars
  <2>6. QED
    BY <2>1, <2>2, <2>3, <2>4, <2>5 DEF HNext
<1>3. QED
  BY <1>1, <1>2, PTL DEF HSpec, Spec

(* What an ingest reports, and that a completion comes with the message.   *)
LEMMA CompleteHasResult ==
  ASSUME \/ \E t \in Transmitters, i \in Indices : Ingest(t, i)
         \/ IngestNothing \/ IngestUnreadable
  PROVE  /\ outcome' \in {"not_found", "rejected", "progressed", "too_large",
                          "checksum_mismatch", "complete"}
         /\ outcome' = "complete" => finished' # None
<1>1. CASE IngestNothing \/ IngestUnreadable
  BY <1>1 DEF IngestNothing, IngestUnreadable
<1>2. ASSUME NEW t \in Transmitters, NEW i \in Indices, Ingest(t, i)
      PROVE  /\ outcome' \in {"not_found", "rejected", "progressed", "too_large",
                              "checksum_mismatch", "complete"}
             /\ outcome' = "complete" => finished' # None
  <2>1. CASE AbsorbFinished(t) \/ AbsorbForeign(t) \/ AbsorbTooLarge(t)
    BY <2>1 DEF AbsorbFinished, AbsorbForeign, AbsorbTooLarge
  <2>2. CASE AbsorbDroplet(t, i)
    <3>1. PICK s, D : Verify(s, D)
      BY <2>2 DEF AbsorbDroplet
    <3>2. QED
      BY <3>1 DEF Verify
  <2>3. QED
    BY <1>2, <2>1, <2>2 DEF Ingest
<1>3. QED
  BY <1>1, <1>2

----------------------------------------------------------------------------
(* Offering an image to every host.                                        *)
LEMMA OfferKeepsHInv ==
  ASSUME HInv, IInv', Offer,
         \/ \E t \in Transmitters, i \in Indices : Ingest(t, i)
         \/ IngestNothing \/ IngestUnreadable
  PROVE  HInv'
<1>1. /\ last' = "ingest"
      /\ ffi_status' = PzStatus(outcome')
      /\ outcome' \notin Errors => ffi_out' = progress_to_c(outcome', Known', Total')
      /\ wasm' = [returned |-> Code(outcome'), kind |-> Code(outcome')]
      /\ PyIngest /\ CliIngest
  BY DEF Offer, FfiIngest, WasmIngest
<1>2. /\ outcome' \in {"not_found", "rejected", "progressed", "too_large",
                       "checksum_mismatch", "complete"}
      /\ outcome' = "complete" => finished' # None
  BY CompleteHasResult
<1>3. /\ (ffi_status' = "Ok") <=> outcome' \notin Errors
      /\ (wasm'.returned >= 0) <=> outcome' \notin Errors
      /\ wasm'.kind = 3 <=> outcome' = "complete"
      /\ wasm'.returned = 3 <=> outcome' = "complete"
  BY <1>1, <1>2 DEF PzStatus, Code, Errors
<1>4. outcome' \notin Errors => (ffi_out'.kind = "complete" <=> outcome' = "complete")
  BY <1>1, <1>2 DEF progress_to_c, DefaultProgress
<1>5. /\ py'.raised <=> outcome' \in Errors
      /\ ~py'.raised /\ py'.status.complete => outcome' = "complete"
      /\ py' = [raised |-> py'.raised, seen |-> py'.seen, status |-> py'.status]
  <2>1. CASE outcome' \in Errors
    BY <1>1, <2>1 DEF PyIngest, HInv, Records
  <2>2. CASE outcome' \notin Errors
    <3>1. py' = [raised |-> FALSE, seen |-> TRUE,
                 status |-> status(outcome', Known', Total', Share')]
      BY <1>1, <2>2 DEF PyIngest
    <3>2. py'.status.complete = (outcome' = "complete")
      BY <3>1, Zenon DEF status
    <3>3. QED
      BY <2>2, <3>1, <3>2
  <2>3. QED
    BY <2>1, <2>2
<1>6. CompletionIsReal'
  <2>1. outcome' = "complete" => \E t \in Transmitters : finished' = Message[t]
    BY <1>2 DEF IInv, TypeOK
  <2>2. CASE cli' = "wrote" /\ cli = "wrote"
    BY <1>1, <1>2, <1>3, <2>2 DEF CliIngest, CompletionIsReal, HInv
  <2>3. CASE cli' = "wrote" /\ cli # "wrote"
    BY <1>1, <1>2, <1>3, <2>1, <2>3 DEF CliIngest, CompletionIsReal
  <2>4. CASE cli' # "wrote"
    BY <1>2, <1>3, <2>4 DEF CompletionIsReal
  <2>5. QED
    BY <2>2, <2>3, <2>4
<1>7. LastCallAgrees'
  BY <1>1, <1>2, <1>3, <1>4, <1>5 DEF LastCallAgrees
<1>8. Records'
  BY <1>1, <1>5 DEF Records
<1>9. QED
  BY <1>6, <1>7, <1>8 DEF HInv

(* Every other call.                                                       *)
LEMMA CallsKeepHInv ==
  ASSUME HInv,
         \/ Refuse \/ ResetAll \/ CliEnds \/ FreeEncoders \/ FfiFrame \/ FfiResult
         \/ \E r \in Requests : NewEncoder(r)
         \/ UNCHANGED hvars
  PROVE  HInv'
<1> USE DEF HInv, CompletionIsReal, LastCallAgrees, Records
<1>1. CASE Refuse
  <2>1. /\ last' = "refused" /\ ffi_status' = "InvalidArgument"
        /\ wasm' = [returned |-> -1, kind |-> wasm.kind]
        /\ py' = [raised |-> TRUE, seen |-> py.seen, status |-> py.status]
        /\ UNCHANGED <<finished, cli, cli_out>>
    BY <1>1 DEF Refuse, FfiRefuse, WasmRefuse, PyRefuse, vars, decoder
  <2>2. wasm'.returned = -1 /\ wasm'.kind = wasm.kind /\ py'.raised
    BY <2>1
  <2>3. QED
    BY <2>1, <2>2
<1>2. CASE ResetAll
  <2>1. /\ last' = "reset" /\ UNCHANGED cli_out
        /\ wasm' = [returned |-> wasm.returned, kind |-> 0]
        /\ py' = [raised |-> py.raised, seen |-> FALSE, status |-> py.status]
        /\ cli' = "wrote" => cli = "wrote"
    BY <1>2 DEF ResetAll, WasmReset, FreshWasm
  <2>2. wasm'.kind = 0
    BY <2>1
  <2>3. QED
    BY <2>1, <2>2
<1>3. CASE CliEnds \/ FreeEncoders \/ UNCHANGED hvars
  BY <1>3 DEF CliEnds, FreeEncoders, hvars, views, vars, decoder
<1>4. CASE FfiFrame \/ FfiResult \/ \E r \in Requests : NewEncoder(r)
  BY <1>4 DEF FfiFrame, FfiResult, NewEncoder, vars, decoder
<1>5. QED
  BY <1>1, <1>2, <1>3, <1>4

(* Every call leaves the hosts in agreement.                               *)
LEMMA HInvHolds == HSpec => []HInv
<1>1. HInit => HInv
  BY DEF HInit, HInv, CompletionIsReal, LastCallAgrees, Records, FreshWasm
<1>2. HInv /\ IInv' /\ [HNext]_hvars => HInv'
  BY OfferKeepsHInv, CallsKeepHInv DEF HNext, OfferFrame, OfferNothing, OfferUnreadable
<1>3. QED
  BY <1>1, <1>2, HostsRunTheCore, Inductive, PTL DEF HSpec

(* Whatever was ingested, refused and reset, the C ABI, the WebAssembly    *)
(* module and the Python extension tell their callers the same of the last *)
(* call, a reported completion comes with a result to take, and pz wrote   *)
(* one transmitter's message.                                              *)
THEOREM HostsTellTheSame == HSpec => []HostsAgree
<1>1. HInv => HostsAgree
  BY DEF HInv, CompletionIsReal, LastCallAgrees, HostsAgree
<1>2. QED
  BY <1>1, HInvHolds, PTL

----------------------------------------------------------------------------
(* For every session argument, the id an encoder of any host sends is the  *)
(* one that its caller pinned, or the derived one for none; what does not  *)
(* fit is cut by the C ABI and refused by the rest.                        *)
THEOREM EncodersSendThePinnedId == HSpec => []PinnedIdIsSent
<1>1. HInit => PinnedIdIsSent
  BY DEF HInit, PinnedIdIsSent
<1>2. PinnedIdIsSent /\ [HNext]_hvars => PinnedIdIsSent'
  <2> SUFFICES ASSUME PinnedIdIsSent, [HNext]_hvars PROVE PinnedIdIsSent'
    OBVIOUS
  <2>1. ASSUME NEW r \in Requests, NewEncoder(r) PROVE PinnedIdIsSent'
    <3>1. r \in Request
      BY RequestAssumption
    <3>2. DerivedId \in 0 .. MaxId /\ r.session \in Int /\ MaxId \in Nat
      <4>1. MaxId \in Nat
        BY DEF MaxId
      <4>2. QED
        BY <3>1, <4>1, IdAssumption DEF Request
    <3> DEFINE e(id) == [id |-> id, pinned |-> r.session]
    <3>3. FfiEncoder(r) # None => Sends("ffi", e(FfiEncoder(r)))
      <4>1. FfiEncoder(r) # None => FfiEncoder(r) = Derived(r) % (MaxId + 1)
        BY DEF FfiEncoder, config_to
      <4>2. Derived(r) \in Int /\ Derived(r) >= 0
        BY <3>2 DEF Derived
      <4>3. Derived(r) <= MaxId => Derived(r) % (MaxId + 1) = Derived(r)
        BY <4>2 DEF MaxId
      <4>4. Derived(r) % (MaxId + 1) \in 0 .. MaxId
        BY <3>2, <4>2
      <4>5. r.session < 0 => Derived(r) = DerivedId
        BY DEF Derived
      <4>6. r.session >= 0 => Derived(r) = r.session
        BY <3>2 DEF Derived
      <4>7. QED
        BY <3>2, <4>1, <4>3, <4>4, <4>5, <4>6 DEF Sends
    <3>4. WasmEncoder(r) # None => Sends("wasm", e(WasmEncoder(r)))
      BY <3>2 DEF WasmEncoder, Derived, Sends
    <3>5. PyEncoder(r) # None => Sends("python", e(PyEncoder(r)))
      BY <3>2 DEF PyEncoder, Derived, Sends
    <3>6. CliEncoder(r) # None => Sends("cli", e(CliEncoder(r)))
      BY <3>2 DEF CliEncoder, Derived, Sends
    <3> DEFINE id(h) == CASE h = "ffi" -> FfiEncoder(r)
                          [] h = "wasm" -> WasmEncoder(r)
                          [] h = "python" -> PyEncoder(r)
                          [] h = "cli" -> CliEncoder(r)
    <3>7. \A h \in Hosts : id(h) # None => Sends(h, e(id(h)))
      BY <3>3, <3>4, <3>5, <3>6 DEF Hosts
    <3>8. enc' = [h \in Hosts |-> IF id(h) = None THEN None ELSE e(id(h))]
      BY <2>1 DEF NewEncoder
    <3> HIDE DEF id, e
    <3>9. QED
      BY <3>7, <3>8 DEF PinnedIdIsSent
  <2>2. CASE FreeEncoders
    BY <2>2 DEF FreeEncoders, PinnedIdIsSent
  <2>3. ASSUME UNCHANGED enc PROVE PinnedIdIsSent'
    BY <2>3 DEF PinnedIdIsSent
  <2>4. QED
    BY <2>1, <2>2, <2>3
       DEF HNext, OfferFrame, OfferNothing, OfferUnreadable, Offer, Refuse,
           ResetAll, CliEnds, FfiFrame, FfiResult, hvars
<1>3. QED
  BY <1>1, <1>2, PTL DEF HSpec

----------------------------------------------------------------------------
(* Fractions, as pairs.                                                    *)
IsShare(f) ==
  f[1] \in Nat /\ f[2] \in Nat /\ f[2] > 0 /\ f[1] <= f[2]

(* Monotonicity of products, which the solvers do not find by themselves.  *)
LEMMA ProductsOrdered ==
  ASSUME NEW a \in Nat, NEW b \in Nat, NEW c \in Nat, a <= b
  PROVE  a * c <= b * c
BY SMT

LEMMA FactorsOrdered ==
  ASSUME NEW a \in Nat, NEW b \in Nat, NEW c \in Nat, c > 0, a * c <= b * c
  PROVE  a <= b
BY SMT

(* Fractions compare transitively, also with different denominators.       *)
LEMMA AtLeastIsTransitive ==
  ASSUME NEW f, NEW g, NEW h, IsShare(f), IsShare(g), IsShare(h),
         AtLeast(f, g), AtLeast(g, h)
  PROVE  AtLeast(f, h)
<1> DEFINE a == f[1]  b == f[2]  c == g[1]  d == g[2]  p == h[1]  q == h[2]
<1>1. /\ a \in Nat /\ b \in Nat /\ c \in Nat /\ d \in Nat /\ p \in Nat /\ q \in Nat
      /\ d > 0 /\ c * b <= a * d /\ p * d <= c * q
  BY DEF IsShare, AtLeast
<1> HIDE DEF a, b, c, d, p, q
<1>2. /\ (c * b) * q <= (a * d) * q
      /\ (p * d) * b <= (c * q) * b
  <2>1. c * b \in Nat /\ a * d \in Nat /\ p * d \in Nat /\ c * q \in Nat
    BY <1>1
  <2>2. QED
    BY <1>1, <2>1, ProductsOrdered
<1>3. (p * b) * d <= (a * q) * d
  <2>1. (c * b) * q = (c * q) * b
    BY <1>1
  <2>2. (p * d) * b = (p * b) * d /\ (a * d) * q = (a * q) * d
    BY <1>1
  <2>3. /\ (p * d) * b \in Nat /\ (c * q) * b \in Nat /\ (a * d) * q \in Nat
    BY <1>1
  <2>4. QED
    BY <1>2, <2>1, <2>2, <2>3
<1>4. p * b <= a * q
  <2>1. p * b \in Nat /\ a * q \in Nat
    BY <1>1
  <2>2. QED
    BY <1>1, <1>3, <2>1, FactorsOrdered
<1>5. QED
  BY <1>4 DEF AtLeast, a, b, p, q

(* A session has blocks: its container is never empty.                     *)
LEMMA SessionHasBlocks ==
  ASSUME IInv, session # None
  PROVE  BlockCount(session) \in Nat /\ BlockCount(session) > 0
<1>1. PICK t \in Transmitters : session = SessionOf(t)
  BY DEF IInv, TypeOK
<1>2. session.len \in Nat /\ session.len > 0 /\ session.size \in Nat /\ session.size > 0
  BY <1>1, TransmitterAssumption DEF SessionOf, ContainerLen, ChecksumBytes
<1> DEFINE l == session.len  n == session.size
<1>3. (l + n - 1) \div n \in Int /\ l + n - 1 < n * ((l + n - 1) \div n) + n
  <2>1. l \in Nat /\ n \in Nat /\ n > 0
    BY <1>2
  <2> HIDE DEF l, n
  <2>2. QED
    BY <2>1, SMT
<1>4. (l + n - 1) \div n > 0
  <2>1. l \in Nat /\ n \in Nat /\ n > 0 /\ l > 0
    BY <1>2
  <2> DEFINE q == (l + n - 1) \div n
  <2>2. q \in Int /\ l + n - 1 < n * q + n
    BY <1>3
  <2> HIDE DEF l, n, q
  <2>3. q <= 0 => n * q <= 0
    BY <2>1, <2>2, SMT
  <2>4. n * q \in Int
    BY <2>1, <2>2
  <2>5. q > 0
    BY <2>1, <2>2, <2>3, <2>4
  <2>6. QED
    BY <2>5 DEF q
<1>5. QED
  BY <1>3, <1>4 DEF BlockCount, DivCeil

(* No more blocks are recovered than the session has.                      *)
LEMMA RecoveredIsBounded ==
  ASSUME IInv, session # None
  PROVE  /\ IsFiniteSet(Recovered(session, absorbed))
         /\ Cardinality(Recovered(session, absorbed)) \in Nat
         /\ Cardinality(Recovered(session, absorbed)) <= BlockCount(session)
<1> DEFINE n == BlockCount(session)
<1>1. n \in Nat /\ n > 0 /\ n - 1 \in Int
  BY SessionHasBlocks
<1>2. Recovered(session, absorbed) \in SUBSET (0 .. n - 1)
  BY DEF Recovered, Peel!Peeled
<1> HIDE DEF n
<1>3. IsFiniteSet(0 .. n - 1) /\ Cardinality(0 .. n - 1) = n
  BY <1>1, FS_Interval
<1>4. QED
  BY <1>2, <1>3, FS_Subset, FS_CardinalityType DEF n

(* The core's numbers make sense as a fraction.                            *)
Countable ==
  /\ Known \in Nat /\ IsShare(Share)
  /\ session # None => IsFiniteSet(Recovered(session, absorbed))

LEMMA IInvIsCountable == IInv => Countable
<1> SUFFICES ASSUME IInv PROVE Countable
  OBVIOUS
<1>1. CASE session = None
  BY <1>1 DEF Known, Share, IsShare, Countable
<1>2. CASE session # None
  BY <1>2, SessionHasBlocks, RecoveredIsBounded
     DEF Known, Total, Share, IsShare, Countable
<1>3. QED
  BY <1>1, <1>2

(* Between two resets the core's own numbers do not fall.                  *)
LEMMA StepKeepsShare ==
  ASSUME IInv, Countable, Countable', [Next]_vars, resets' = resets
  PROVE  Known <= Known' /\ AtLeast(Share', Share)
<1>1. /\ finished # None => finished' = finished
      /\ session # None => session' = session
  BY StepForgetsNothing
<1>2. /\ Known \in Nat /\ IsShare(Share)
      /\ Known' \in Nat /\ IsShare(Share')
  BY DEF Countable, IsShare
<1>3. session # None => Known <= Known' /\ Total = Total'
  <2>1. SUFFICES ASSUME session # None PROVE Known <= Known' /\ Total = Total'
    OBVIOUS
  <2>2. session' = session /\ session' # None
    BY <1>1, <2>1
  <2>3. Recovered(session, absorbed) \subseteq Recovered(session', absorbed')
    BY <2>1, <2>2, StepKeepsRecovered
  <2>4. IsFiniteSet(Recovered(session', absorbed'))
    BY <2>2 DEF Countable
  <2>5. Cardinality(Recovered(session, absorbed))
          <= Cardinality(Recovered(session', absorbed'))
    BY <2>3, <2>4, FS_Subset
  <2>6. QED
    BY <2>1, <2>2, <2>5 DEF Known, Total
<1>4. Known <= Known'
  BY <1>2, <1>3 DEF Known
<1>5. CASE finished' # None
  <2>1. Share' = <<1, 1>>
    BY <1>5 DEF Share
  <2>2. Share'[1] = 1 /\ Share'[2] = 1
    BY <2>1
  <2>3. QED
    BY <1>2, <1>4, <2>2 DEF IsShare, AtLeast
<1>6. CASE finished' = None /\ session = None
  <2>1. Share = <<0, 1>>
    BY <1>1, <1>6 DEF Share
  <2>2. Share[1] = 0 /\ Share[2] = 1
    BY <2>1
  <2>3. QED
    BY <1>2, <1>4, <2>2 DEF IsShare, AtLeast
<1>7. CASE finished' = None /\ session # None
  <2>1. Share = <<Known, Total>> /\ Share' = <<Known', Total>>
    BY <1>1, <1>3, <1>7 DEF Share
  <2>2. Total \in Nat
    BY <1>2, <2>1 DEF IsShare
  <2>3. Known * Total <= Known' * Total
    BY <1>2, <1>4, <2>2, ProductsOrdered
  <2>4. /\ Share[1] = Known /\ Share[2] = Total
        /\ Share'[1] = Known' /\ Share'[2] = Total
    BY <2>1
  <2>5. Known * Total \in Int /\ Known' * Total \in Int
    BY <1>2, <2>2
  <2>6. QED
    BY <1>4, <2>3, <2>4, <2>5 DEF AtLeast
<1>8. QED
  BY <1>4, <1>5, <1>6, <1>7

(* What a Python caller was shown last is not ahead of the core, though it *)
(* may lag behind it: a call that raises leaves the status of an earlier.  *)
ShownIsPast ==
  py.seen =>
    /\ py.status.recovered \in Nat /\ py.status.recovered <= Known
    /\ IsShare(py.status.fraction) /\ AtLeast(Share, py.status.fraction)

ShownGrows ==
  py.seen =>
    /\ py'.status.recovered >= py.status.recovered
    /\ AtLeast(py'.status.fraction, py.status.fraction)

LEMMA StatusFields ==
  ASSUME NEW o, NEW known, NEW total, NEW share
  PROVE  /\ status(o, known, total, share).recovered = known
         /\ status(o, known, total, share).fraction = share
BY DEF status

(* What a step does to the status object.                                  *)
LEMMA ShownSteps ==
  ASSUME Records, [HNext]_hvars
  PROVE  \/ py'.seen = py.seen /\ py'.status = py.status
         \/ resets' = resets + 1 /\ ~py'.seen
         \/ py'.status.recovered = Known' /\ py'.status.fraction = Share'
<1>1. CASE PyIngest
  <2>1. CASE outcome' \in Errors
    BY <1>1, <2>1 DEF PyIngest, Records
  <2>2. CASE outcome' \notin Errors
    <3>1. py'.status = status(outcome', Known', Total', Share')
      BY <1>1, <2>2 DEF PyIngest
    <3>2. /\ py'.status.recovered = Known'
          /\ py'.status.fraction = Share'
      BY <3>1, StatusFields
    <3>3. QED
      BY <3>2
  <2>3. QED
    BY <2>1, <2>2
<1>2. CASE PyRefuse
  BY <1>2 DEF PyRefuse, Records
<1>3. CASE ResetAll
  <2>1. resets' = resets + 1 /\ py' = [py EXCEPT !.seen = FALSE]
    BY <1>3 DEF ResetAll, Reset
  <2>2. QED
    BY <2>1 DEF Records
<1>4. CASE UNCHANGED py
  BY <1>4
<1>5. ASSUME NEW r \in Requests, NewEncoder(r) PROVE UNCHANGED py
  BY <1>5 DEF NewEncoder, views
<1>6. QED
  BY <1>1, <1>2, <1>3, <1>4, <1>5
     DEF HNext, OfferFrame, OfferNothing, OfferUnreadable, Offer, Refuse,
         CliEnds, FreeEncoders, FfiFrame, FfiResult, hvars, views

(* Whichever it is, what is shown stays behind the core and does not fall. *)
LEMMA ShownStaysPast ==
  ASSUME IInv, Countable, Countable', Records, ShownIsPast,
         [HNext]_hvars, [Next]_vars
  PROVE  /\ ShownIsPast'
         /\ resets' = resets => ShownGrows
<1>1. CASE resets' = resets
  <2>1. /\ Known \in Nat /\ IsShare(Share) /\ Known' \in Nat /\ IsShare(Share')
        /\ Known <= Known' /\ AtLeast(Share', Share)
    BY <1>1, StepKeepsShare DEF Countable, IsShare
  <2>2. py.seen => /\ py.status.recovered <= Known'
                   /\ AtLeast(Share', py.status.fraction)
    <3>1. py.seen => AtLeast(Share', py.status.fraction)
      BY <2>1, AtLeastIsTransitive DEF ShownIsPast
    <3>2. QED
      BY <2>1, <3>1 DEF ShownIsPast
  <2>3. AtLeast(Share', Share')
    BY <2>1 DEF IsShare, AtLeast
  <2>4. py.seen => AtLeast(py.status.fraction, py.status.fraction)
    BY DEF ShownIsPast, IsShare, AtLeast
  <2>5. CASE py'.seen = py.seen /\ py'.status = py.status
    BY <2>2, <2>4, <2>5 DEF ShownIsPast, ShownGrows, IsShare
  <2>6. CASE py'.status.recovered = Known' /\ py'.status.fraction = Share'
    BY <2>1, <2>2, <2>3, <2>6 DEF ShownIsPast, ShownGrows, IsShare
  <2>7. resets' # resets + 1
    BY <1>1 DEF IInv, TypeOK
  <2>8. QED
    BY <2>5, <2>6, <2>7, ShownSteps
<1>2. CASE resets' # resets
  <2>1. ~py'.seen
    <3>1. ResetAll
      BY <1>2
         DEF HNext, OfferFrame, OfferNothing, OfferUnreadable, Ingest,
             IngestNothing, IngestUnreadable, Seen, Refuse, CliEnds, NewEncoder,
             FreeEncoders, FfiFrame, FfiResult, hvars, vars
    <3>2. QED
      BY <3>1 DEF ResetAll, Records
  <2>2. QED
    BY <1>2, <2>1 DEF ShownIsPast
<1>3. QED
  BY <1>1, <1>2

(* Whatever outcomes, errors and refused calls come between two resets,    *)
(* the counts and the fraction that a Python caller is shown never fall,   *)
(* nor do those that the WebAssembly getters read.                         *)
THEOREM ShownProgressIsMonotone == HSpec => ShownProgressNeverFalls
<1> DEFINE A == resets' = resets =>
                  /\ py.seen =>
                       /\ py'.status.recovered >= py.status.recovered
                       /\ AtLeast(py'.status.fraction, py.status.fraction)
                  /\ AtLeast(Share', Share)
<1>1. HInit => ShownIsPast
  BY DEF HInit, ShownIsPast
<1>2. /\ IInv /\ Countable /\ Countable' /\ HInv
      /\ [HNext]_hvars /\ [Next]_vars /\ ShownIsPast
      => ShownIsPast'
  BY ShownStaysPast DEF HInv
<1>3. /\ IInv /\ Countable /\ Countable' /\ HInv
      /\ [HNext]_hvars /\ [Next]_vars /\ ShownIsPast
      => [A]_<<vars, py>>
  BY ShownStaysPast, StepKeepsShare DEF HInv, ShownGrows
<1>4. Spec => [][Next]_vars
  BY PTL DEF Spec
<1>5. QED
  BY <1>1, <1>2, <1>3, <1>4, HInvHolds, HostsRunTheCore, Inductive,
     IInvIsCountable, PTL DEF HSpec, ShownProgressNeverFalls

----------------------------------------------------------------------------
(* The memory that crosses the ABIs.                                       *)

(* What the layouts must be for: no two of the following are the same.     *)
LEMMA LayoutsDiffer ==
  /\ Vacant \in Layouts
  /\ \A n \in Nat : Bytes(n) \in Layouts /\ Bytes(n) # Vacant
  /\ \A k \in Kinds : Box(k) \in Layouts /\ Box(k) # Vacant
  /\ \A n \in Nat, k \in Kinds : Bytes(n) # Box(k)
  /\ Usize = Bytes(4)
BY DEF Vacant, Bytes, Box, Usize, Layouts, Kinds

LEMMA MInitMInv == MInit => MInv
<1> SUFFICES ASSUME MInit PROVE MInv
  OBVIOUS
<1> USE MemoryAssumption, LayoutsDiffer
<1>1. MTypeOK
  BY DEF MInit, MTypeOK, NoCall, Call
<1>2. ObjectsOwn /\ CallOwns /\ CallInPhase /\ BuffersOwn /\ NothingLost /\ sound
  BY DEF MInit, NoCall, ObjectsOwn, CallOwns, CallInPhase, BuffersOwn,
         NothingLost, Live
<1>3. QED
  BY <1>1, <1>2 DEF MInv

(* A call that changes the module's heap changes nothing of the C side.    *)
LEMMA CSideStays ==
  ASSUME BuffersOwn, UNCHANGED c_side
  PROVE  BuffersOwn'
BY DEF BuffersOwn, c_side, Live

LEMMA NewDecoderStep ==
  ASSUME MInv, NewDecoder
  PROVE  MInv'
<1> USE MemoryAssumption, LayoutsDiffer DEF MInv
<1>1. PICK o \in Objects, a \in Addresses :
        /\ kind[o] = "none" /\ heap[a] = Vacant
        /\ heap' = [heap EXCEPT ![a] = Box("decoder")]
        /\ kind' = [kind EXCEPT ![o] = "decoder"]
        /\ handle' = [handle EXCEPT ![o] = a]
  BY DEF NewDecoder, NextObject, into_raw, Vacancies, MTypeOK
<1>2. /\ call = NoCall /\ call' = call /\ UNCHANGED c_side
      /\ sound' = sound /\ trapped' = trapped
  BY DEF NewDecoder
<1>3. "decoder" \in Kinds /\ a # 0 /\ handle[o] = 0
  <2>1. "decoder" \in Kinds /\ "none" \notin Kinds /\ a # 0
    BY DEF Kinds
  <2>2. QED
    BY <1>1, <2>1 DEF ObjectsOwn
<1>4. MTypeOK'
  BY <1>1, <1>2, <1>3 DEF MTypeOK, c_side
<1>5. ObjectsOwn'
  BY <1>1, <1>3 DEF ObjectsOwn, MTypeOK
<1>6. CallOwns' /\ CallInPhase'
  BY <1>2 DEF CallOwns, CallInPhase, NoCall
<1>7. NothingLost'
  BY <1>1, <1>2, <1>3 DEF NothingLost, Live, Handles, MTypeOK
<1>8. QED
  BY <1>2, <1>4, <1>5, <1>6, <1>7, CSideStays

LEMMA WriteStep ==
  ASSUME MInv, Write
  PROVE  MInv'
<1> USE MemoryAssumption, LayoutsDiffer DEF MInv
<1>1. PICK o \in Objects \cup {0}, a \in Addresses, n \in Lengths :
        /\ o # 0 => handle[o] # 0
        /\ heap[a] = Vacant
        /\ heap' = [heap EXCEPT ![a] = Bytes(n)]
        /\ call' = [NoCall EXCEPT !.phase = "written", !.object = o,
                                  !.ptr = a, !.len = n]
  BY DEF Write, Open, pz_alloc, Vacancies, MTypeOK
<1>2. /\ UNCHANGED objects /\ UNCHANGED c_side
      /\ sound' = sound /\ trapped' = trapped
  BY DEF Write
<1>3. /\ call' \in Call
      /\ call'.phase = "written" /\ call'.object = o /\ call'.ptr = a
      /\ call'.len = n /\ call'.out = 0 /\ call'.made = 0
  BY <1>1 DEF NoCall, Call
<1>4. MTypeOK'
  BY <1>1, <1>2, <1>3 DEF MTypeOK, c_side, objects
<1>5. \A p \in Objects : handle[p] # 0 => handle[p] # a
  BY <1>1 DEF ObjectsOwn
<1>6. ObjectsOwn'
  BY <1>1, <1>2, <1>5 DEF ObjectsOwn, MTypeOK, objects
<1>7. CallOwns' /\ CallInPhase'
  BY <1>1, <1>2, <1>3 DEF CallOwns, CallInPhase, MTypeOK, objects
<1>8. NothingLost'
  BY <1>1, <1>2, <1>3 DEF NothingLost, Live, Handles, MTypeOK, objects, Write, NoCall
<1>9. QED
  BY <1>2, <1>4, <1>6, <1>7, <1>8, CSideStays

LEMMA ScratchStep ==
  ASSUME MInv, Scratch
  PROVE  MInv'
<1> USE MemoryAssumption, LayoutsDiffer DEF MInv
<1>1. PICK o \in Objects, a \in Addresses :
        /\ handle[o] # 0
        /\ heap[a] = Vacant
        /\ heap' = [heap EXCEPT ![a] = Bytes(4)]
        /\ call' = [NoCall EXCEPT !.phase = "asked", !.object = o, !.out = a]
  BY DEF Scratch, Open, pz_alloc, Vacancies, MTypeOK
<1>2. /\ UNCHANGED objects /\ UNCHANGED c_side
      /\ sound' = sound /\ trapped' = trapped
  BY DEF Scratch
<1>3. /\ call' \in Call
      /\ call'.phase = "asked" /\ call'.object = o /\ call'.ptr = 0
      /\ call'.out = a /\ call'.made = 0
  BY <1>1 DEF NoCall, Call
<1>4. MTypeOK'
  BY <1>1, <1>2, <1>3 DEF MTypeOK, c_side, objects
<1>5. \A p \in Objects : handle[p] # 0 => handle[p] # a
  BY <1>1 DEF ObjectsOwn
<1>6. ObjectsOwn'
  BY <1>1, <1>2, <1>5 DEF ObjectsOwn, MTypeOK, objects
<1>7. CallOwns' /\ CallInPhase'
  BY <1>1, <1>2, <1>3 DEF CallOwns, CallInPhase, MTypeOK, objects
<1>8. NothingLost'
  BY <1>1, <1>2, <1>3 DEF NothingLost, Live, Handles, MTypeOK, objects, Scratch, NoCall
<1>9. QED
  BY <1>2, <1>4, <1>6, <1>7, <1>8, CSideStays

LEMMA EncoderNewStep ==
  ASSUME MInv, EncoderNew
  PROVE  MInv'
<1> USE MemoryAssumption, LayoutsDiffer DEF MInv
<1>1. /\ UNCHANGED objects /\ UNCHANGED c_side /\ trapped' = trapped
      /\ call.phase = "written" /\ call.object = 0 /\ call \in Call
      /\ sound' = (sound /\ heap[call.ptr] = Bytes(call.len))
  BY DEF EncoderNew, MTypeOK
<1>2. /\ sound' = TRUE
      /\ call.ptr # 0 /\ call.out = 0 /\ call.made = 0
  BY <1>1 DEF CallOwns, CallInPhase
<1>3. CASE UNCHANGED heap /\ call' = [call EXCEPT !.phase = "done"]
  <2>1. /\ call' \in Call
        /\ call'.phase = "done" /\ call'.object = 0 /\ call'.ptr = call.ptr
        /\ call'.len = call.len /\ call'.out = 0 /\ call'.made = 0
    BY <1>1, <1>2, <1>3 DEF Call
  <2>2. MTypeOK'
    BY <1>1, <1>3, <2>1 DEF MTypeOK, c_side, objects
  <2>3. ObjectsOwn' /\ NothingLost'
    BY <1>1, <1>2, <1>3, <2>1 DEF ObjectsOwn, NothingLost, Handles, Live, objects
  <2>4. CallOwns' /\ CallInPhase'
    BY <1>1, <1>2, <1>3, <2>1 DEF CallOwns, CallInPhase, objects
  <2>5. QED
    BY <1>1, <1>2, <2>2, <2>3, <2>4, CSideStays
<1>4. ASSUME NEW a \in Addresses, into_raw(a, "encoder"),
             call' = [call EXCEPT !.phase = "done", !.made = a]
      PROVE  MInv'
  <2>1. /\ heap[a] = Vacant /\ "encoder" \in Kinds
        /\ heap' = [heap EXCEPT ![a] = Box("encoder")]
    BY <1>4 DEF into_raw, Vacancies, Kinds, MTypeOK
  <2>2. /\ call' \in Call
        /\ call'.phase = "done" /\ call'.object = 0 /\ call'.ptr = call.ptr
        /\ call'.len = call.len /\ call'.out = 0 /\ call'.made = a
    BY <1>1, <1>2, <1>4 DEF Call
  <2>3. MTypeOK'
    BY <1>1, <2>1, <2>2 DEF MTypeOK, c_side, objects
  <2>4. \A p \in Objects : handle[p] # 0 => handle[p] # a
    BY <2>1 DEF ObjectsOwn
  <2>5. ObjectsOwn'
    BY <1>1, <2>1, <2>4 DEF ObjectsOwn, MTypeOK, objects
  <2>6. /\ call.ptr \in Addresses /\ call.ptr # a
        /\ call.len # 0 /\ heap[call.ptr] = Bytes(call.len) /\ call.len \in Nat
    BY <1>1, <1>2, <2>1 DEF CallOwns, Call
  <2>7. CallOwns'
    BY <1>1, <1>2, <2>1, <2>2, <2>4, <2>6 DEF CallOwns, Handles, MTypeOK, objects
  <2>8. CallInPhase'
    BY <1>1, <1>2, <2>2 DEF CallInPhase
  <2>9. NothingLost'
    BY <1>1, <1>2, <2>1, <2>2 DEF NothingLost, Live, Handles, MTypeOK, objects
  <2>10. QED
    BY <1>1, <1>2, <2>3, <2>5, <2>7, <2>8, <2>9, CSideStays
<1>5. QED
  BY <1>3, <1>4 DEF EncoderNew

LEMMA IngestedStep ==
  ASSUME MInv, Ingested
  PROVE  MInv'
<1> USE MemoryAssumption, LayoutsDiffer DEF MInv
<1>1. /\ UNCHANGED <<heap, objects>> /\ UNCHANGED c_side /\ trapped' = trapped
      /\ call.phase = "written" /\ call.object \in Objects /\ call.object # 0
      /\ call \in Call
      /\ call' = [call EXCEPT !.phase = "done"]
      /\ sound' = (sound /\ heap[handle[call.object]] = Box(kind[call.object])
                   /\ heap[call.ptr] = Bytes(call.len))
  BY DEF Ingested, Reaches, MTypeOK, Call
<1>2. /\ sound' = TRUE
      /\ call.ptr # 0 /\ call.out = 0 /\ call.made = 0
  <2>1. call.ptr # 0 /\ call.out = 0 /\ call.made = 0 /\ handle[call.object] # 0
    BY <1>1, MemoryAssumption DEF CallInPhase
  <2>2. heap[call.ptr] = Bytes(call.len)
    BY <1>1, <2>1 DEF CallOwns
  <2>3. heap[handle[call.object]] = Box(kind[call.object])
    BY <1>1, <2>1 DEF ObjectsOwn
  <2>4. QED
    BY <1>1, <2>1, <2>2, <2>3
<1>3. /\ call' \in Call
      /\ call'.phase = "done" /\ call'.ptr = call.ptr
      /\ call'.len = call.len /\ call'.out = 0 /\ call'.made = 0
  BY <1>1, <1>2 DEF Call
<1>4. MTypeOK'
  BY <1>1, <1>3 DEF MTypeOK, c_side, objects
<1>5. ObjectsOwn' /\ NothingLost'
  BY <1>1, <1>2, <1>3 DEF ObjectsOwn, NothingLost, Handles, Live, objects
<1>6. CallOwns' /\ CallInPhase'
  BY <1>1, <1>2, <1>3 DEF CallOwns, CallInPhase, objects
<1>7. QED
  BY <1>1, <1>2, <1>4, <1>5, <1>6, CSideStays

(* pz_free of a block that is as long as it says.                          *)
LEMMA FreesOne ==
  ASSUME MInv, NEW ptr \in Addresses, NEW n \in Nat, n # 0,
         heap[ptr] = Bytes(n), pz_free(ptr, n)
  PROVE  sound' = TRUE /\ heap' = [heap EXCEPT ![ptr] = Vacant]
BY MemoryAssumption DEF pz_free, MInv

LEMMA GiveBackStep ==
  ASSUME MInv, GiveBack
  PROVE  MInv'
<1> USE MemoryAssumption, LayoutsDiffer
<1>1. /\ UNCHANGED c_side /\ trapped' = trapped
      /\ call.phase = "done" /\ call \in Call
      /\ call' = NoCall /\ call' \in Call
      /\ pz_free(call.ptr, call.len)
  BY DEF GiveBack, MInv, MTypeOK, NoCall, Call
<1>2. /\ call.ptr \in Addresses /\ call.len \in Nat /\ call.len # 0
      /\ heap[call.ptr] = Bytes(call.len) /\ call.out = 0
  BY <1>1 DEF CallOwns, CallInPhase, Call, MInv
<1>3. sound' = TRUE /\ heap' = [heap EXCEPT ![call.ptr] = Vacant]
  BY <1>1, <1>2, FreesOne
<1> USE DEF MInv
<1>4. \A p \in Objects : handle[p] # 0 => handle[p] # call.ptr
  BY <1>2 DEF ObjectsOwn
<1>5. CallOwns' /\ CallInPhase'
  BY <1>1 DEF CallOwns, CallInPhase, NoCall
<1>6. CASE call.made = 0
  <2>1. UNCHANGED objects
    BY <1>6 DEF GiveBack
  <2>2. MTypeOK'
    BY <1>1, <1>3, <2>1 DEF MTypeOK, c_side, objects
  <2>3. ObjectsOwn'
    BY <1>2, <1>3, <1>4, <2>1 DEF ObjectsOwn, MTypeOK, objects
  <2>4. NothingLost'
    BY <1>1, <1>2, <1>3, <1>6, <2>1 DEF NothingLost, Live, Handles, MTypeOK, objects
  <2>5. QED
    BY <1>1, <1>3, <1>5, <2>2, <2>3, <2>4, CSideStays
<1>7. CASE call.made # 0
  <2>1. PICK o \in Objects :
          /\ kind[o] = "none"
          /\ kind' = [kind EXCEPT ![o] = "encoder"]
          /\ handle' = [handle EXCEPT ![o] = call.made]
    BY <1>7 DEF GiveBack, NextObject
  <2>2. "encoder" \in Kinds /\ "none" \notin Kinds /\ handle[o] = 0
    BY <2>1 DEF ObjectsOwn, Kinds
  <2>3. /\ call.made \in Addresses /\ call.made \notin Handles
        /\ heap[call.made] = Box("encoder") /\ call.made # call.ptr
    BY <1>1, <1>2, <1>7, <2>2 DEF CallOwns, Call
  <2>4. \A p \in Objects : handle[p] # call.made
    BY <1>7, <2>3 DEF Handles
  <2>5. MTypeOK'
    BY <1>1, <1>3, <2>1, <2>2, <2>3 DEF MTypeOK, c_side
  <2>6. ObjectsOwn'
    BY <1>2, <1>3, <1>4, <2>1, <2>2, <2>3, <2>4 DEF ObjectsOwn, MTypeOK
  <2>7. NothingLost'
    BY <1>1, <1>2, <1>3, <2>1, <2>2, <2>3 DEF NothingLost, Live, Handles, MTypeOK
  <2>8. QED
    BY <1>1, <1>3, <1>5, <2>5, <2>6, <2>7, CSideStays
<1>8. QED
  BY <1>6, <1>7

LEMMA ProduceStep ==
  ASSUME MInv, Produce
  PROVE  MInv'
<1> USE MemoryAssumption, LayoutsDiffer DEF MInv
<1>1. /\ UNCHANGED objects /\ UNCHANGED c_side /\ trapped' = trapped
      /\ call.phase = "asked" /\ call \in Call
      /\ sound' = (sound /\ Reaches(call.object) /\ heap[call.out] = Usize)
  BY DEF Produce, MTypeOK
<1>2. call.out # 0 /\ call.out \in Addresses /\ call.ptr = 0 /\ call.made = 0
  BY <1>1 DEF CallInPhase, Call
<1>3. sound' = TRUE
  <2>1. heap[call.out] = Usize
    BY <1>2 DEF CallOwns
  <2>2. call.object # 0 => call.object \in Objects /\ handle[call.object] # 0
    BY <1>1 DEF CallInPhase, Call
  <2>3. Reaches(call.object)
    BY <2>2 DEF Reaches, ObjectsOwn
  <2>4. QED
    BY <1>1, <2>1, <2>3
<1>4. CASE UNCHANGED heap /\ call' = [call EXCEPT !.phase = "answered"]
  <2>1. /\ call' \in Call
        /\ call'.phase = "answered" /\ call'.ptr = 0
        /\ call'.out = call.out /\ call'.made = 0
    BY <1>1, <1>2, <1>4 DEF Call
  <2>2. MTypeOK'
    BY <1>1, <1>4, <2>1 DEF MTypeOK, c_side, objects
  <2>3. ObjectsOwn' /\ NothingLost'
    BY <1>1, <1>2, <1>4, <2>1 DEF ObjectsOwn, NothingLost, Handles, Live, objects
  <2>4. CallOwns' /\ CallInPhase'
    BY <1>1, <1>2, <1>4, <2>1 DEF CallOwns, CallInPhase, objects
  <2>5. QED
    BY <1>1, <1>3, <2>2, <2>3, <2>4, CSideStays
<1>5. ASSUME NEW a \in Addresses, NEW n \in Lengths, NEW s \in Spare,
             into_buffer(a, n, n + s),
             call' = [call EXCEPT !.phase = "answered", !.ptr = a, !.cell = n]
      PROVE  MInv'
  <2>1. heap[a] = Vacant /\ heap' = [heap EXCEPT ![a] = Bytes(n)]
    BY <1>5 DEF into_buffer, Vacancies, MTypeOK
  <2>2. /\ call' \in Call
        /\ call'.phase = "answered" /\ call'.ptr = a /\ call'.cell = n
        /\ call'.out = call.out /\ call'.made = 0
    BY <1>1, <1>2, <1>5 DEF Call
  <2>3. MTypeOK'
    BY <1>1, <2>1, <2>2 DEF MTypeOK, c_side, objects
  <2>4. \A p \in Objects : handle[p] # 0 => handle[p] # a
    BY <2>1 DEF ObjectsOwn
  <2>5. ObjectsOwn'
    BY <1>1, <2>1, <2>4 DEF ObjectsOwn, MTypeOK, objects
  <2>6. call.out # a /\ heap[call.out] = Usize
    BY <1>2, <2>1 DEF CallOwns
  <2>7. CallOwns' /\ CallInPhase'
    BY <1>1, <1>2, <2>1, <2>2, <2>6 DEF CallOwns, CallInPhase, MTypeOK, objects
  <2>8. NothingLost'
    BY <1>1, <1>2, <2>1, <2>2 DEF NothingLost, Live, Handles, MTypeOK, objects
  <2>9. QED
    BY <1>1, <1>3, <2>3, <2>5, <2>7, <2>8, CSideStays
<1>6. QED
  BY <1>4, <1>5 DEF Produce

LEMMA ReadLenStep ==
  ASSUME MInv, ReadLen
  PROVE  MInv'
<1> USE MemoryAssumption, LayoutsDiffer
<1>1. /\ UNCHANGED objects /\ UNCHANGED c_side /\ trapped' = trapped
      /\ call.phase = "answered" /\ call \in Call
      /\ call' = [call EXCEPT !.phase = "measured", !.len = call.cell, !.out = 0]
      /\ pz_free(call.out, 4)
  BY DEF ReadLen, MInv, MTypeOK
<1>2. /\ call.out \in Addresses /\ call.made = 0 /\ heap[call.out] = Bytes(4)
      /\ call.out # 0
  BY <1>1 DEF CallOwns, CallInPhase, Call, MInv
<1>3. sound' = TRUE /\ heap' = [heap EXCEPT ![call.out] = Vacant]
  <2>1. 4 \in Nat /\ 4 # 0
    OBVIOUS
  <2>2. QED
    BY <1>1, <1>2, <2>1, FreesOne, Zenon
<1> USE DEF MInv
<1>4. \A p \in Objects : handle[p] # 0 => handle[p] # call.out
  BY <1>2 DEF ObjectsOwn
<1>5. /\ call' \in Call
      /\ call'.phase = "measured" /\ call'.ptr = call.ptr
      /\ call'.len = call.cell /\ call'.out = 0 /\ call'.made = 0
  BY <1>1, <1>2 DEF Call
<1>6. MTypeOK'
  BY <1>1, <1>3, <1>5 DEF MTypeOK, c_side, objects
<1>7. ObjectsOwn'
  BY <1>1, <1>2, <1>3, <1>4 DEF ObjectsOwn, MTypeOK, objects
<1>8. CallOwns' /\ CallInPhase'
  BY <1>1, <1>2, <1>3, <1>5 DEF CallOwns, CallInPhase, MTypeOK, Call, objects
<1>9. NothingLost'
  BY <1>1, <1>2, <1>3, <1>5 DEF NothingLost, Live, Handles, MTypeOK, objects
<1>10. QED
  BY <1>1, <1>3, <1>6, <1>7, <1>8, <1>9, CSideStays

LEMMA TakeStep ==
  ASSUME MInv, Take
  PROVE  MInv'
<1> USE MemoryAssumption, LayoutsDiffer
<1>1. /\ UNCHANGED objects /\ UNCHANGED c_side /\ trapped' = trapped
      /\ call.phase = "measured" /\ call \in Call
      /\ call' = NoCall /\ call' \in Call
      /\ call'.ptr = 0 /\ call'.out = 0 /\ call'.made = 0
      /\ pz_free(call.ptr, call.len)
  BY DEF Take, MInv, MTypeOK, NoCall, Call
<1>2. call.out = 0 /\ call.made = 0 /\ call.ptr \in Addresses \cup {0}
  BY <1>1 DEF CallInPhase, Call, MInv
<1>3. CASE call.ptr = 0
  <2>1. UNCHANGED <<heap, sound>>
    BY <1>1, <1>3 DEF pz_free
  <2> USE DEF MInv
  <2>2. MTypeOK'
    BY <1>1, <2>1 DEF MTypeOK, objects, c_side
  <2>3. ObjectsOwn' /\ CallOwns' /\ CallInPhase'
    BY <1>1, <2>1 DEF ObjectsOwn, CallOwns, CallInPhase, NoCall, objects
  <2>4. NothingLost'
    BY <1>1, <1>2, <1>3, <2>1 DEF NothingLost, Live, Handles, objects
  <2>5. QED
    BY <1>1, <2>1, <2>2, <2>3, <2>4, CSideStays
<1>4. CASE call.ptr # 0
  <2>1. /\ call.ptr \in Addresses /\ call.len \in Nat /\ call.len # 0
        /\ heap[call.ptr] = Bytes(call.len)
    BY <1>1, <1>2, <1>4 DEF CallOwns, Call, MInv
  <2>2. sound' = TRUE /\ heap' = [heap EXCEPT ![call.ptr] = Vacant]
    BY <1>1, <2>1, FreesOne
  <2> USE DEF MInv
  <2>3. \A p \in Objects : handle[p] # 0 => handle[p] # call.ptr
    BY <2>1 DEF ObjectsOwn
  <2>4. MTypeOK'
    BY <1>1, <2>2 DEF MTypeOK, c_side, objects
  <2>5. ObjectsOwn'
    BY <1>1, <2>1, <2>2, <2>3 DEF ObjectsOwn, MTypeOK, objects
  <2>6. CallOwns' /\ CallInPhase'
    BY <1>1 DEF CallOwns, CallInPhase, NoCall
  <2>7. NothingLost'
    BY <1>1, <1>2, <2>1, <2>2 DEF NothingLost, Live, Handles, MTypeOK, objects
  <2>8. QED
    BY <1>1, <2>2, <2>4, <2>5, <2>6, <2>7, CSideStays
<1>5. QED
  BY <1>3, <1>4

LEMMA FreeObjectStep ==
  ASSUME MInv, FreeObject
  PROVE  MInv'
<1> USE MemoryAssumption, LayoutsDiffer DEF MInv
<1>1. PICK o \in Objects :
        /\ handle[o] # 0
        /\ sound' = (sound /\ Reaches(o))
        /\ heap' = [heap EXCEPT ![handle[o]] = Vacant]
        /\ handle' = [handle EXCEPT ![o] = 0]
  BY DEF FreeObject
<1>2. /\ kind' = kind /\ call = NoCall /\ call' = call /\ UNCHANGED c_side
      /\ trapped' = trapped
  BY DEF FreeObject
<1>3. sound' = TRUE
  <2>1. Reaches(o)
    BY <1>1 DEF Reaches, ObjectsOwn
  <2>2. QED
    BY <1>1, <2>1
<1>4. handle[o] \in Addresses /\ \A p \in Objects : p # o => handle[p] # handle[o]
  BY <1>1 DEF ObjectsOwn, MTypeOK
<1>5. MTypeOK'
  BY <1>1, <1>2, <1>4 DEF MTypeOK, c_side
<1>6. ObjectsOwn'
  BY <1>1, <1>2, <1>4 DEF ObjectsOwn, MTypeOK
<1>7. CallOwns' /\ CallInPhase'
  BY <1>2 DEF CallOwns, CallInPhase, NoCall
<1>8. NothingLost'
  BY <1>1, <1>2, <1>4 DEF NothingLost, Live, Handles, MTypeOK
<1>9. QED
  BY <1>2, <1>3, <1>5, <1>6, <1>7, <1>8, CSideStays

LEMMA TrapStep ==
  ASSUME MInv, ModuleTraps
  PROVE  MInv'
<1> USE DEF MInv
<1>1. /\ UNCHANGED <<heap, objects, c_side, sound>>
      /\ call' = NoCall /\ NoCall \in Call
      /\ NoCall.ptr = 0 /\ NoCall.out = 0 /\ NoCall.made = 0
      /\ NoCall.object = 0 /\ NoCall.phase = "idle"
  BY DEF ModuleTraps, NoCall, Call
<1>2. MTypeOK'
  BY <1>1 DEF MTypeOK, objects, c_side, ModuleTraps
<1>3. ObjectsOwn' /\ CallOwns' /\ CallInPhase'
  BY <1>1 DEF ObjectsOwn, CallOwns, CallInPhase, objects
<1>4. NothingLost'
  BY <1>1 DEF NothingLost, Live, Handles, objects, ModuleTraps
<1>5. QED
  BY <1>1, <1>2, <1>3, <1>4, CSideStays

(* The C side.                                                             *)
LEMMA CTakeStep ==
  ASSUME MInv, CTake
  PROVE  MInv'
<1> USE MemoryAssumption, LayoutsDiffer DEF MInv
<1>1. PICK a \in Vacancies(c_heap), n \in Lengths, s \in Spare :
        /\ c_heap' = [c_heap EXCEPT ![a] = Bytes(n + s)]
        /\ held' = held \cup {from_vec(a, n, n + s)}
  BY DEF CTake
<1>2. UNCHANGED <<heap, objects, call, sound, trapped>>
  BY DEF CTake
<1>3. a \in CAddresses /\ c_heap[a] = Vacant /\ n \in Nat /\ s \in Nat /\ n + s \in Nat
  BY DEF Vacancies, MTypeOK
<1> DEFINE b == from_vec(a, n, n + s)
<1>4. /\ b \in [data : CAddresses, len : Nat, cap : Nat]
      /\ b.data = a /\ b.cap = n + s
  BY <1>3 DEF from_vec
<1> HIDE DEF b
<1>5. \A c \in held : c.data # a /\ c.cap \in Nat /\ c.data \in CAddresses
  BY <1>3 DEF BuffersOwn, MTypeOK
<1>6. held' = held \cup {b}
  BY <1>1 DEF b
<1>7. MTypeOK'
  BY <1>1, <1>2, <1>3, <1>4, <1>6 DEF MTypeOK, objects
<1>8. BuffersOwn'
  <2>1. \A c \in held' : c_heap'[c.data] = Bytes(c.cap)
    BY <1>1, <1>3, <1>4, <1>5, <1>6 DEF BuffersOwn, MTypeOK
  <2>2. \A c, d \in held' : c.data = d.data => c = d
    BY <1>4, <1>5, <1>6 DEF BuffersOwn
  <2>3. Live(c_heap') \subseteq {c.data : c \in held'}
    <3>1. Live(c_heap') \subseteq Live(c_heap) \cup {a}
      BY <1>1, <1>3 DEF Live, MTypeOK
    <3>2. QED
      BY <1>4, <1>6, <3>1 DEF BuffersOwn
  <2>4. QED
    BY <2>1, <2>2, <2>3 DEF BuffersOwn, Live
<1>9. (ObjectsOwn /\ CallOwns /\ CallInPhase /\ NothingLost /\ sound)'
  BY <1>2 DEF ObjectsOwn, CallOwns, CallInPhase, NothingLost, Handles, Live, objects
<1>10. QED
  BY <1>7, <1>8, <1>9

LEMMA BufferFreeStep ==
  ASSUME MInv, pz_buffer_free
  PROVE  MInv'
<1> USE MemoryAssumption, LayoutsDiffer DEF MInv
<1>1. PICK b \in held :
        /\ sound' = (sound /\ c_heap[b.data] = Bytes(b.cap))
        /\ c_heap' = [c_heap EXCEPT ![b.data] = Vacant]
        /\ held' = held \ {b}
  BY DEF pz_buffer_free
<1>2. UNCHANGED <<heap, objects, call, trapped>>
  BY DEF pz_buffer_free
<1>3. b.data \in CAddresses /\ c_heap[b.data] = Bytes(b.cap)
  BY DEF BuffersOwn, MTypeOK
<1>4. sound' = TRUE
  BY <1>1, <1>3
<1>5. \A c \in held' : c \in held /\ c.data # b.data /\ c.data \in CAddresses
  BY <1>1 DEF BuffersOwn, MTypeOK
<1>6. MTypeOK'
  BY <1>1, <1>2 DEF MTypeOK, objects
<1>7. BuffersOwn'
  <2>1. \A c \in held' : c_heap'[c.data] = Bytes(c.cap)
    BY <1>1, <1>5 DEF BuffersOwn, MTypeOK
  <2>2. Live(c_heap') \subseteq Live(c_heap) \ {b.data}
    BY <1>1, <1>3 DEF Live, MTypeOK
  <2>3. Live(c_heap') \subseteq {c.data : c \in held'}
    <3>1. SUFFICES ASSUME NEW x \in Live(c_heap')
                   PROVE  \E c \in held' : c.data = x
      OBVIOUS
    <3>2. PICK c \in held : c.data = x
      BY <2>2 DEF BuffersOwn
    <3>3. QED
      BY <1>1, <2>2, <3>2
  <2>4. QED
    BY <1>5, <2>1, <2>3 DEF BuffersOwn, Live
<1>8. (ObjectsOwn /\ CallOwns /\ CallInPhase /\ NothingLost)'
  BY <1>2 DEF ObjectsOwn, CallOwns, CallInPhase, NothingLost, Handles, Live, objects
<1>9. QED
  BY <1>4, <1>6, <1>7, <1>8

LEMMA MInvHolds == MSpec => []MInv
<1>1. ASSUME MInv, UNCHANGED mvars PROVE MInv'
  BY <1>1 DEF MInv, mvars, objects, c_side, MTypeOK, ObjectsOwn, CallOwns,
     CallInPhase, BuffersOwn, NothingLost, Handles, Live
<1>2. MInv /\ [MNext]_mvars => MInv'
  BY <1>1, NewDecoderStep, WriteStep, EncoderNewStep, IngestedStep,
     GiveBackStep, ScratchStep, ProduceStep, ReadLenStep, TakeStep,
     FreeObjectStep, TrapStep, CTakeStep, BufferFreeStep DEF MNext
<1>3. QED
  BY <1>2, MInitMInv, PTL DEF MSpec

(* Whatever is called in whatever order, and whichever calls fail, every   *)
(* block is freed once and as it was allocated, and between two calls of   *)
(* the wrapper only the objects that are not freed are left in the module. *)
THEOREM NothingIsLeaked == MSpec => []MemoryIsAccounted
<1>1. MInv => MemoryIsAccounted
  <2> SUFFICES ASSUME MInv PROVE MemoryIsAccounted
    OBVIOUS
  <2> USE MemoryAssumption, LayoutsDiffer DEF MInv
  <2>1. Live(c_heap) = {b.data : b \in held}
    <3>1. \A b \in held : b.data \in DOMAIN c_heap /\ c_heap[b.data] # Vacant
      BY DEF BuffersOwn, MTypeOK
    <3>2. QED
      BY <3>1 DEF BuffersOwn, Live
  <2>2. Handles \subseteq Live(heap)
    BY DEF Handles, Live, ObjectsOwn, MTypeOK
  <2>3. ASSUME call = NoCall, ~trapped PROVE Live(heap) \subseteq Handles
    <3>1. Live(heap) \subseteq Handles \cup {0}
      BY <2>3 DEF NothingLost, NoCall
    <3>2. 0 \notin Live(heap)
      BY DEF Live, MTypeOK
    <3>3. QED
      BY <3>1, <3>2
  <2>4. QED
    BY <2>1, <2>2, <2>3 DEF MemoryIsAccounted
<1>2. QED
  BY <1>1, MInvHolds, PTL
=============================================================================
