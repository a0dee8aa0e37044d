------------------------------ MODULE MCCodecs ------------------------------
(* The algorithms that know nothing of screens and cameras, one call of one *)
(* of them per behaviour.                                                   *)
EXTENDS ReedSolomon, SplitMix, DegreePlan, Images

(* RS(6, 2) over GF(8), shortened by one symbol: every error of two symbols *)
(* or fewer, and some of three, against every set of erasures; lists out of *)
(* order, with a repeated position or one too many, and a short buffer.     *)
Wrong(positions, values) ==
  {[p \in 1 .. N |-> IF p \in positions THEN v[p] ELSE 0] :
     v \in [positions -> values]}

MCWords ==
  LET sorted == {SetToSortSeq(S, <) : S \in SUBSET (0 .. N - 1)}
      few == {<<>>, <<1>>, <<3, 0>>, <<2, 5, 2>>, <<0, 1, 4>>, <<6>>,
              <<5, 4, 1, 0>>, <<0, 1, 2, 3, 4>>}
      light == UNION {Wrong(S, {1, 6}) : S \in UNION {kSubset(w, 1 .. N) : w \in 0 .. 2}}
      heavy == UNION {Wrong(S, Field \ {0}) : S \in kSubset(2, 1 .. N)}
               \cup UNION {Wrong(S, {1, 3}) : S \in kSubset(3, 1 .. N)}
  IN [data : {<<3, 5>>}, error : light, erasures : sorted]
     \cup [data : {<<0, 7>>}, error : heavy, erasures : few]
     \cup [data : {<<3, 5>>}, error : {[p \in 1 .. N - 1 |-> 0]}, erasures : few]

(* One to five blocks; 32 sessions of 32 frames over a ten-bit generator.   *)
MCShifts == <<5, 4, 6>>
MCStates == 0 .. Word - 1
MCRipple == [k \in 1 .. 5 |-> <<1, 522, 709, 876, 1030>>[k] * 64]
MCSpike == [k \in 1 .. 5 |-> <<0, 1223, 1880, 2509, 3115>>[k] * 64]
MCStreams == [payload_len : {1, 2, 4, 5}, block_size : {1, 2},
              session_id : 0 .. 31, frame_index : 0 .. 31]

(* Grids of one and four cells in colours whose bytes are white space, '#'  *)
(* or digits in a PPM header, and wrap around in a PNG filter.              *)
Options(px, quiet, ink) ==
  [module_px |-> px, quiet_zone |-> quiet, background |-> <<200, 255, 131>>,
   ink |-> ink]

MCScenes ==
  {[cells |-> <<<<a, b>>, <<c, d>>>>, options |-> Options(0, 0, <<10, 32, 35>>)] :
     a, b, c, d \in {Black, <<255, 0, 255>>}}
  \cup {[cells |-> <<<<Black>>>>, options |-> Options(s[1], s[2], ink)] :
          s \in {<<1, 0>>, <<2, 0>>, <<3, 0>>, <<1, 1>>},
          ink \in {None, <<10, 77, 35>>, <<190, 255, 131>>}}

CodecsInit ==
  \/ CodeInit /\ plan = None /\ picture = None
  \/ PlanInit /\ word = None /\ picture = None
  \/ PictureInit /\ word = None /\ plan = None

PlanStep == plan # None /\ NextPlan /\ UNCHANGED <<word, picture>>

CodecsNext ==
  \/ word # None /\ Decode /\ UNCHANGED <<plan, picture>>
  \/ PlanStep
  \/ picture # None /\ NextPicture /\ UNCHANGED <<word, plan>>

(* plan() is sequential code: it goes on until it returns.                  *)
Spec ==
  /\ CodecsInit
  /\ [][CodecsNext]_<<word, plan, picture>>
  /\ WF_<<word, plan, picture>>(PlanStep)
============================================================================
