---------------------------- MODULE FrameDecode ----------------------------
(***************************************************************************)
(* From the sampled colours of one captured frame to its droplet:          *)
(* decode_sampled() of crates/pz-core/src/decoder.rs with the header's and *)
(* the data blocks' Reed-Solomon repair, the confidence hints, the blind   *)
(* retries, the header's CRC-16 and the frame's CRC-32.                    *)
(*                                                                         *)
(* Abstractions.  A received symbol is damaged or not and weak (below the  *)
(* erasure threshold) or not.  Reed-Solomon is the bounded-distance        *)
(* decoder of an MDS code with n - k parity symbols (BoundedDistance.tla,  *)
(* which ReedSolomon.tla is checked to implement).  CRC-32 is taken to     *)
(* detect every mismatch; CRC-16 is not: a wrong header may pass it.       *)
(***************************************************************************)
EXTENDS BoundedDistance, FiniteSets

CONSTANTS
  HeaderN, HeaderK,   (* HEADER_CODE_BYTES, HEADER_BYTES                   *)
  BlockN, BlockK,     (* block_n, block_k of the frame's profile           *)
  BlockCount,         (* blocks: Reed-Solomon blocks of a frame            *)
  Faults,             (* [damaged, weak] symbol sets a capture may show    *)
  None

ASSUME CodeAssumption ==
  /\ {HeaderN, HeaderK, BlockN, BlockK, BlockCount} \subseteq Nat \ {0}
  /\ HeaderK < HeaderN
  /\ BlockK < BlockN

Symbols == 0 .. BlockCount * BlockN - 1

ASSUME FaultsAssumption ==
  /\ Faults \subseteq [damaged : SUBSET Symbols, weak : SUBSET Symbols]
  /\ None \notin Faults

HeaderParity == HeaderN - HeaderK
BlockParity == BlockN - BlockK

(* Which fields of the header in hand are those the sender stamped on the  *)
(* frame; geometry stands for grid size, mode and parity code.             *)
Header == [geometry : BOOLEAN, index : BOOLEAN, session : BOOLEAN]
Sent == [geometry |-> TRUE, index |-> TRUE, session |-> TRUE]

Verdicts == {"WrongLength", "HeaderCorrupt", "UnsupportedFormat",
             "FrameCorrupt", "ChecksumMismatch", "Accepted"}

ASSUME NoneAssumption == None \notin Header /\ None \notin Verdicts

VARIABLES
  stage,        (* "header", "cells", "data", "open" or "done"             *)
  header,       (* the decoded header, or None                             *)
  fault,        (* the data symbols of this capture, or None               *)
  block,        (* the block decode_symbols() is at                        *)
  payload,      (* every block so far came back as it was sent             *)
  verdict,      (* what decode_sampled() returned, or None                 *)
  guaranteed,   (* history: every code so far was within its guarantee     *)
  repairable    (* history: every code so far was repairable without hints *)

vars == <<stage, header, fault, block, payload, verdict, guaranteed, repairable>>

----------------------------------------------------------------------------
(* Damage of one code: how many symbols are damaged and weak, damaged but  *)
(* confident, and weak but sound.                                          *)
Damage(n) == {d \in [weak_bad : 0 .. n, bad : 0 .. n, weak_good : 0 .. n] :
                d.weak_bad + d.bad + d.weak_good <= n}

Weak(d) == d.weak_bad + d.weak_good
Damaged(d) == d.weak_bad + d.bad

(* Mutant: an error of the hinted attempt is final.                        *)
Bug_Repaired(p, f, e, d) == Corrected(p, f, e)

(* The hinted attempt, and on an error a second one without hints.         *)
Repaired(p, f, e, d) ==
  (Corrected(p, f, e) \ {"error"}) \cup
  (IF "error" \in Corrected(p, f, e) THEN Corrected(p, 0, Damaged(d)) ELSE {})

(* The header: more hints than the parity can pay for are all dropped.     *)
RepairedHeader(d) ==
  IF Weak(d) > HeaderParity
  THEN Repaired(HeaderParity, 0, Damaged(d), d)
  ELSE Repaired(HeaderParity, Weak(d), d.bad, d)

(* A data block: the least confident symbols, as many as the parity can    *)
(* pay for, are the hints; any of the weak ones may be the least confident.*)
RepairedBlock(d) ==
  LET f == IF Weak(d) < BlockParity THEN Weak(d) ELSE BlockParity
      kept == {b \in 0 .. d.weak_bad : f - b \in 0 .. d.weak_good}
  IN UNION {Repaired(BlockParity, f, Damaged(d) - b, d) : b \in kept}

(* Mutant: the blocks lie one after the other.                             *)
Bug_Positions(b) == {b * BlockN + s : s \in 0 .. BlockN - 1}

(* Interleaving: symbol s of block b is at s * blocks + b.                 *)
Positions(b) == {s * BlockCount + b : s \in 0 .. BlockN - 1}

(* What the fault x does to block b.                                       *)
BlockDamage(x, b) ==
  [weak_bad  |-> Cardinality(Positions(b) \cap x.weak \cap x.damaged),
   bad       |-> Cardinality(Positions(b) \cap (x.damaged \ x.weak)),
   weak_good |-> Cardinality(Positions(b) \cap (x.weak \ x.damaged))]

(* The contract of ReedSolomon::decode, 2e + f <= n - k; and one hint more *)
(* is made good by the blind retry when the damage alone is repairable.    *)
Guaranteed(p, d) ==
  /\ Weak(d) <= p
  /\ \/ 2 * d.bad + Weak(d) <= p
     \/ 2 * d.bad + Weak(d) <= p + 1 /\ 2 * Damaged(d) <= p

(* What the code can repair when it is given no hints.                     *)
Repairable(p, d) == 2 * Damaged(d) <= p

Init ==
  /\ stage = "header"
  /\ header = None
  /\ fault = None
  /\ block = 0
  /\ payload = TRUE
  /\ verdict = None
  /\ guaranteed = TRUE
  /\ repairable = TRUE

----------------------------------------------------------------------------
Reject(reason) ==
  /\ stage' = "done"
  /\ verdict' = reason
  /\ UNCHANGED <<header, fault, block, payload>>

(* The caller's colours do not fill the grid.                              *)
WrongLength ==
  /\ stage = "header"
  /\ Reject("WrongLength")
  /\ guaranteed' = FALSE
  /\ repairable' = FALSE

Judge(p, d) ==
  /\ guaranteed' = (guaranteed /\ Guaranteed(p, d))
  /\ repairable' = (repairable /\ Repairable(p, d))

(* FrameHeader::decode_protected() fails: both attempts, or the CRC-16 of  *)
(* a wrong codeword, or a field of one that passed the CRC-16.             *)
HeaderFails(d) ==
  /\ stage = "header"
  /\ \/ "error" \in RepairedHeader(d) /\ Reject("HeaderCorrupt")
     \/ "wrong" \in RepairedHeader(d) /\ Reject("HeaderCorrupt")
     \/ "wrong" \in RepairedHeader(d) /\ Reject("UnsupportedFormat")
  /\ Judge(HeaderParity, d)

(* The header is the one sent, or a wrong one that passed the CRC-16.  (A  *)
(* grid other than the sampled one is the UnsupportedFormat above; a wrong *)
(* mode or parity code is not noticed here.)                               *)
HeaderDecodes(d) ==
  /\ stage = "header"
  /\ \/ "right" \in RepairedHeader(d) /\ header' = Sent
     \/ "wrong" \in RepairedHeader(d) /\ header' \in Header \ {Sent}
  /\ stage' = "cells"
  /\ Judge(HeaderParity, d)
  /\ UNCHANGED <<fault, block, payload, verdict>>

(* The data cells are demodulated into symbols, with a confidence each.    *)
(* Under a wrong mode or parity code the symbols have nothing to do with   *)
(* those that were sent.                                                   *)
Demodulate ==
  /\ stage = "cells"
  /\ fault' \in IF header.geometry THEN Faults ELSE {None}
  /\ stage' = "data"
  /\ UNCHANGED <<header, block, payload, verdict, guaranteed, repairable>>

(* What one pass of the loop of decode_symbols() can make of its block.    *)
BlockOutcomes ==
  IF header.geometry THEN RepairedBlock(BlockDamage(fault, block))
  ELSE {"wrong", "error"}

JudgeBlock ==
  IF header.geometry THEN Judge(BlockParity, BlockDamage(fault, block))
  ELSE guaranteed' = FALSE /\ repairable' = FALSE

BlockFails ==
  /\ stage = "data"
  /\ "error" \in BlockOutcomes
  /\ Reject("FrameCorrupt")
  /\ JudgeBlock

(* Mutant: the loop runs one block too far.                                *)
Bug_BlockDecodes ==
  /\ stage = "data"
  /\ \/ "right" \in BlockOutcomes /\ payload' = payload
     \/ "wrong" \in BlockOutcomes /\ payload' = FALSE
  /\ block' = block + 1
  /\ stage' = IF block = BlockCount THEN "open" ELSE "data"
  /\ JudgeBlock
  /\ UNCHANGED <<header, fault, verdict>>

BlockDecodes ==
  /\ stage = "data"
  /\ \/ "right" \in BlockOutcomes /\ payload' = payload
     \/ "wrong" \in BlockOutcomes /\ payload' = FALSE
  /\ block' = block + 1
  /\ stage' = IF block + 1 = BlockCount THEN "open" ELSE "data"
  /\ JudgeBlock
  /\ UNCHANGED <<header, fault, verdict>>

(* Mutant: the checksum covers the droplet but not the frame index.        *)
Bug_OpenPayload ==
  /\ stage = "open"
  /\ stage' = "done"
  /\ verdict' = IF payload THEN "Accepted" ELSE "ChecksumMismatch"
  /\ UNCHANGED <<header, fault, block, payload, guaranteed, repairable>>

(* open_payload(): the CRC-32 over the droplet and the header's index.     *)
OpenPayload ==
  /\ stage = "open"
  /\ stage' = "done"
  /\ verdict' = IF payload /\ header.index THEN "Accepted" ELSE "ChecksumMismatch"
  /\ UNCHANGED <<header, fault, block, payload, guaranteed, repairable>>

(* The next capture is decoded from scratch: decode_sampled() has no state.*)
NextCapture ==
  /\ stage = "done"
  /\ stage' = "header"
  /\ header' = None
  /\ fault' = None
  /\ block' = 0
  /\ payload' = TRUE
  /\ verdict' = None
  /\ guaranteed' = TRUE
  /\ repairable' = TRUE

Next ==
  \/ WrongLength
  \/ \E d \in Damage(HeaderN) : HeaderFails(d) \/ HeaderDecodes(d)
  \/ Demodulate
  \/ BlockFails
  \/ BlockDecodes
  \/ OpenPayload
  \/ NextCapture

Spec == Init /\ [][Next]_vars

----------------------------------------------------------------------------
TypeOK ==
  /\ stage \in {"header", "cells", "data", "open", "done"}
  /\ header \in Header \cup {None}
  /\ fault \in Faults \cup {None}
  /\ block \in 0 .. BlockCount
  /\ payload \in BOOLEAN
  /\ verdict \in Verdicts \cup {None}
  /\ guaranteed \in BOOLEAN
  /\ repairable \in BOOLEAN

(* An accepted droplet is bit for bit the one its header's frame index     *)
(* names, also when miscorrection and a CRC-16 collision together forged   *)
(* the header: the fountain decoder is never fed a droplet under the wrong *)
(* plan.                                                                   *)
AcceptedIsBound ==
  verdict = "Accepted" => payload /\ header.index /\ header.geometry

(* A frame whose header and blocks all stay within their guarantee is      *)
(* accepted: the hints, their limits and the two attempts together lose no *)
(* frame that the code's contract says is repairable.                      *)
GuaranteedIsAccepted ==
  stage = "done" /\ guaranteed => verdict = "Accepted"

(* frame.rs promises that a burst is spread evenly over the blocks.  So a  *)
(* burst of half of all parity symbols in a row, unnoticed by the          *)
(* confidence estimates, never costs a frame whose header got through.     *)
Burst(S) ==
  \E first, last \in Symbols :
    /\ S = first .. last
    /\ last - first < BlockCount * (BlockParity \div 2)

BurstIsAbsorbed ==
  /\ stage = "done"
  /\ header = Sent
  /\ fault # None
  /\ fault.weak = {}
  /\ Burst(fault.damaged)
  => verdict = "Accepted"

(* A test of header.rs says: "A bad hint must not make an                  *)
(* otherwise-repairable header fail", and the data blocks retry blind for  *)
(* the same reason: a frame that is repairable without hints should be     *)
(* accepted with them.                                                     *)
HintsNeverHurt ==
  stage = "done" /\ repairable => verdict = "Accepted"

----------------------------------------------------------------------------
(* The inductive invariant behind AcceptedIsBound and GuaranteedIsAccepted.*)

(* Past the header there is one, and no verdict before the end.            *)
Progressing ==
  /\ stage \in {"cells", "data", "open"} => header \in Header /\ verdict = None
  /\ stage \in {"header", "cells"} => block = 0 /\ payload
  /\ stage = "data" => block < BlockCount /\ (header.geometry => fault \in Faults)
  /\ stage = "open" => block = BlockCount
  /\ stage # "done" => verdict = None

(* Under a wrong geometry no block comes back right.                       *)
MisreadIsNoticed ==
  stage \in {"data", "open"} /\ block > 0 /\ ~header.geometry => ~payload

(* Codes within their guarantee have all been repaired rightly.            *)
GuaranteeKept ==
  guaranteed /\ stage \in {"cells", "data", "open"} => header = Sent /\ payload

IInv ==
  /\ TypeOK
  /\ Progressing
  /\ MisreadIsNoticed
  /\ GuaranteeKept
  /\ AcceptedIsBound
  /\ GuaranteedIsAccepted
============================================================================
