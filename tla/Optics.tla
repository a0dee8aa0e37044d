------------------------------- MODULE Optics -------------------------------
(***************************************************************************)
(* What a frame looks like and how its cells are read back: the layout of  *)
(* a grid (crates/pz-core/src/layout.rs), how its cells divide into        *)
(* Reed-Solomon blocks (frame.rs), the colours (color.rs), the cells the   *)
(* encoder draws (encoder.rs) and what decode_sampled() makes of the       *)
(* colours of a capture before anything is repaired (decoder.rs).          *)
(*                                                                         *)
(* Averages are kept as sums, and a confidence in thousandths, rounded     *)
(* down: compared with a threshold in thousandths, which is all the code   *)
(* does with one, both give what floating point gives but for rounding.    *)
(* Bits, cells and symbols count from 0 in a formula; cell i of a frame is *)
(* cells[i + 1].                                                           *)
(***************************************************************************)
EXTENDS Integers, FiniteSets, SequencesExt, Eager

CONSTANTS
  Profiles,            (* [grid, mode, parity_code]: requests to plan      *)
  Shots,               (* [grid, mode, symbols, header, exposure, smudge]: *)
                       (* frames, and how they are captured                *)
  ERASURE_THRESHOLD    (* 280: the confidence below which a cell is doubted *)

----------------------------------------------------------------------------
(* layout.rs.  A cell's colour code has a bit for each of red, green, blue. *)
HEADER_CELLS == 256
BLACK == 0
WHITE == 7

ALL == <<33, 49, 65, 81, 97>>
modules(grid) == ALL[grid + 1]

Least(S) == CHOOSE m \in S : \A s \in S : m <= s

(* The row or column v within the 7x7 pattern at its end of the grid; one  *)
(* of the separator is 7 or -1.                                            *)
InCorner(n, v) == v < 8 \/ v >= n - 8
Offset(n, v) == IF v < 8 THEN v ELSE v - (n - 7)

InFinder(n, r, c) == InCorner(n, r) /\ InCorner(n, c)

finder(n, r, c) ==
  LET dr == Offset(n, r)
      dc == Offset(n, c)
      ring == Least({dr, dc, 6 - dr, 6 - dc})
  IN IF ring = 0 \/ ring >= 2 THEN BLACK ELSE WHITE

OnRuler(n, r, c) == (r = 6 /\ c \in 8 .. n - 9) \/ (c = 6 /\ r \in 8 .. n - 9)
ruler(r, c) == IF (IF r = 6 THEN c ELSE r) % 2 = 0 THEN BLACK ELSE WHITE

PatchColumn(n) == (n - 8) \div 2
InPatch(n, r, c) == r < 4 /\ c \in PatchColumn(n) .. PatchColumn(n) + 7
patch(n, r, c) == (4 * (r \div 2)) + ((c - PatchColumn(n)) \div 2)

(* The colour of a structural cell, what was drawn last, or None.          *)
Structure(n, r, c) ==
  CASE InPatch(n, r, c) -> patch(n, r, c)
    [] ~InPatch(n, r, c) /\ OnRuler(n, r, c) -> ruler(r, c)
    [] ~InPatch(n, r, c) /\ ~OnRuler(n, r, c) /\ InFinder(n, r, c) -> finder(n, r, c)
    [] OTHER -> None

(* 0, and the sums of the first one, two, ... elements; by halves, which   *)
(* keeps TLC from recurring deeply.                                        *)
Running(s) ==
  LET sums[from \in 1 .. Len(s) + 1, len \in 0 .. Len(s)] ==
        IF len <= 1 THEN SubSeq(s, from, from + len - 1)
        ELSE LET left == sums[from, len \div 2]
                 right == sums[from + (len \div 2), len - (len \div 2)]
             IN left \o [k \in DOMAIN right |-> Last(left) + right[k]]
  IN <<0>> \o sums[1, Len(s)]
Total(s) == Last(Running(s))

(* Layout::new.  place[r][c]: how many free cells come before cell (r, c). *)
Layout(n) ==
  LET rows == Tuple([r \in 1 .. n |->
                Tuple([c \in 1 .. n |-> Structure(n, r - 1, c - 1)])])
      fixed == Tuple([i \in 1 .. n * n |-> rows[1 + ((i - 1) \div n)][1 + ((i - 1) % n)]])
      free == SelectSeq(Tuple([i \in 1 .. n * n |-> i - 1]),
                        LAMBDA i : fixed[i + 1] = None)
      within == Tuple([r \in 1 .. n |->
                  Running(Tuple([c \in 1 .. n |-> IF rows[r][c] = None THEN 1 ELSE 0]))])
      before == Running(Tuple([r \in 1 .. n |-> Last(within[r])]))
  IN [n |-> n, fixed |-> fixed,
      header_cells |-> SubSeq(free, 1, HEADER_CELLS),
      data_cells |-> SubSeq(free, HEADER_CELLS + 1, Len(free)),
      palette_cells |-> Tuple([v \in 1 .. 8 |->
        SelectSeq(Tuple([i \in 1 .. 4 * n |-> i - 1]),
                  LAMBDA i : InPatch(n, i \div n, i % n)
                               /\ patch(n, i \div n, i % n) = v - 1)]),
      place |-> Tuple([i \in 1 .. n * n |->
        before[1 + ((i - 1) \div n)] + within[1 + ((i - 1) \div n)][1 + ((i - 1) % n)]])]

Layouts == Tuple([g \in 1 .. Len(ALL) |-> Layout(ALL[g])])
layout(grid) == Layouts[grid + 1]

----------------------------------------------------------------------------
(* frame.rs: capacity.                                                     *)
Modes == {"Mono", "Rgb4", "Rgb8"}
bits_per_cell(mode) == CASE mode = "Mono" -> 1 [] mode = "Rgb4" -> 2 [] mode = "Rgb8" -> 3

(* In percent.                                                             *)
PARITY_RATIOS == <<10, 16, 22, 28, 34, 40, 50, 60>>
FRAME_CRC_BYTES == 4

Clamp(v, lo, hi) == IF v < lo THEN lo ELSE IF v > hi THEN hi ELSE v

symbols_total(grid, mode) ==
  (Len(layout(grid).data_cells) * bits_per_cell(mode)) \div 8

(* Mutant: the last, partial block is not counted.                         *)
Bug_blocks(total) == Clamp(total \div 255, 1, total + 1)

(* The fewest blocks of at most 255 symbols.                               *)
blocks(total) == Clamp((total + 254) \div 255, 1, total + 1)

(* FrameProfile::new: None for either error.                               *)
FrameProfile(grid, mode, parity_code) ==
  LET parity(n) ==
        Clamp(((n * PARITY_RATIOS[parity_code + 1]) + 50) \div 100, 2, n - 1)
      coded(count, n, k) ==
        IF n < 8 \/ count * k <= FRAME_CRC_BYTES THEN None
        ELSE [blocks |-> count, block_n |-> n, block_k |-> k, frame_payload |-> count * k]
      divided(count, n) == coded(count, n, n - parity(n))
      planned(total) == divided(blocks(total), total \div blocks(total))
  IN IF parity_code + 1 \notin DOMAIN PARITY_RATIOS THEN None
     ELSE planned(symbols_total(grid, mode))

(* encoder.rs: EncoderConfig's named profiles.                             *)
Presets ==
  [default |-> [grid |-> 1, mode |-> "Rgb8", parity_code |-> 3],
   robust |-> [grid |-> 0, mode |-> "Mono", parity_code |-> 5],
   mono |-> [grid |-> 4, mode |-> "Mono", parity_code |-> 3],
   fast |-> [grid |-> 4, mode |-> "Rgb8", parity_code |-> 1],
   resilient |-> [grid |-> 2, mode |-> "Rgb4", parity_code |-> 3]]

coded_symbols(p) == p.blocks * p.block_n
droplet_size(p) == p.frame_payload - FRAME_CRC_BYTES

----------------------------------------------------------------------------
(* color.rs.                                                               *)
Channels == 1 .. 3
Has(code, ch) == (code \div <<1, 2, 4>>[ch]) % 2 = 1

RGB4_CODEWORDS == <<0, 3, 5, 6>>

color_of(code) == <<IF Has(code, 1) THEN 255 ELSE 0,
                    IF Has(code, 2) THEN 255 ELSE 0,
                    IF Has(code, 3) THEN 255 ELSE 0>>

modulate(mode, value) ==
  CASE mode = "Mono" -> IF value % 2 = 1 THEN WHITE ELSE BLACK
    [] mode = "Rgb4" -> RGB4_CODEWORDS[(value % 4) + 1]
    [] mode = "Rgb8" -> value % 8

(* Bit `pos` of a stream of values of `width` bits, the high bit first;    *)
(* zero past its end.                                                      *)
Power2 == <<1, 2, 4, 8, 16, 32, 64, 128>>
Bit(values, width, pos) ==
  IF pos >= Len(values) * width THEN 0
  ELSE (values[(pos \div width) + 1] \div Power2[width - (pos % width)]) % 2

(* The stream cut into `count` values of another width, at most 8:         *)
(* unpack_bits() from bytes and pack_bits() into bytes.                    *)
Recut(values, from, to, count) ==
  Tuple([i \in 1 .. count |->
    LET bit(b) == IF b > to THEN 0
                  ELSE Bit(values, from, (to * (i - 1)) + b - 1) * Power2[to - b + 1]
    IN bit(1) + bit(2) + bit(3) + bit(4) + bit(5) + bit(6) + bit(7) + bit(8)])
unpack_bits(bytes, width, count) == Recut(bytes, 8, width, count)
pack_bits(values, width, byte_len) == Recut(values, width, 8, byte_len)

(* In thousandths.                                                         *)
luma(rgb) == (299 * rgb[1]) + (587 * rgb[2]) + (114 * rgb[3])

----------------------------------------------------------------------------
(* encoder.rs: the cells of a frame.                                       *)
frame(s) ==
  LET l == layout(s.grid)
      header_bits == unpack_bits(s.header, 1, HEADER_CELLS)
      data_values == unpack_bits(s.symbols, bits_per_cell(s.mode), Len(l.data_cells))
  IN Tuple([i \in DOMAIN l.fixed |->
       CASE l.fixed[i] # None -> l.fixed[i]
         [] l.fixed[i] = None /\ l.place[i] < HEADER_CELLS ->
              modulate("Mono", header_bits[l.place[i] + 1])
         [] OTHER -> modulate(s.mode, data_values[l.place[i] + 1 - HEADER_CELLS])])

----------------------------------------------------------------------------
(* Calibration::from_patches over the means of decode_sampled: sums over   *)
(* four patches of four cells for each channel, over one patch for luma.   *)
from_patches(l, colors) ==
  LET measured(code, Value(_)) ==
        LET cell(k) == Value(colors[l.palette_cells[code + 1][k] + 1])
        IN cell(1) + cell(2) + cell(3) + cell(4)
      channel(ch, on) ==
        LET part(v) == IF Has(v, ch) = on THEN measured(v, LAMBDA c : c[ch]) ELSE 0
        IN part(0) + part(1) + part(2) + part(3) + part(4) + part(5) + part(6) + part(7)
  IN [low |-> Tuple([ch \in Channels |-> channel(ch, FALSE)]),
      high |-> Tuple([ch \in Channels |-> channel(ch, TRUE)]),
      luma_low |-> measured(BLACK, luma), luma_high |-> measured(WHITE, luma)]

Abs(v) == IF v < 0 THEN -v ELSE v

(* One bit and how far the sample is from the boundary.  `lo` and `hi` are *)
(* sums of `count` samples; a range of two units or less is a collapsed    *)
(* channel.                                                                *)
Decide(lo, hi, count, value, unit) ==
  LET off == (2 * count * value) - (lo + hi)
  IN [bit |-> IF off > 0 THEN 1 ELSE 0,
      confidence |-> IF hi - lo <= 2 * count * unit THEN 0
                     ELSE Clamp((Abs(off) * 1000) \div (hi - lo), 0, 1000)]

channel_bit(cal, ch, value) == Decide(cal.low[ch], cal.high[ch], 16, value, 1)
luma_bit(cal, rgb) == Decide(cal.luma_low, cal.luma_high, 4, luma(rgb), 1000)

(* [value, confidence] of a cell.  An Rgb4 colour that is no code word is  *)
(* read as 0 with confidence 0, which is what decode_sampled() makes of an *)
(* unusable cell.                                                          *)
demodulate(cal, mode, rgb) ==
  IF mode = "Mono"
  THEN LET b == luma_bit(cal, rgb) IN [value |-> b.bit, confidence |-> b.confidence]
  ELSE LET b == Tuple([ch \in Channels |-> channel_bit(cal, ch, rgb[ch])])
           code == b[1].bit + (2 * b[2].bit) + (4 * b[3].bit)
           confidence == Least({b[ch].confidence : ch \in Channels})
           word == SelectInSeq(RGB4_CODEWORDS, LAMBDA w : w = code)
       IN CASE mode = "Rgb8" -> [value |-> code, confidence |-> confidence]
            [] mode = "Rgb4" /\ word > 0 ->
                 [value |-> word - 1, confidence |-> confidence]
            [] OTHER -> [value |-> 0, confidence |-> 0]

(* Mutant: a cell that straddles two symbols speaks for the first alone.   *)
Bug_symbol_confidence(readings, width, coded) ==
  Tuple([s \in 1 .. coded |->
           Least({1000} \cup {readings[c + 1].confidence :
             c \in {x \in 0 .. Len(readings) - 1 : (width * x) \div 8 = s - 1}})])

(* The least confidence of the cells that hold a bit of the symbol.        *)
symbol_confidence(readings, width, coded) ==
  Tuple([s \in 1 .. coded |->
           Least({1000} \cup {readings[c + 1].confidence :
             c \in (8 * (s - 1)) \div width .. ((8 * s) - 1) \div width})])

(* The header's 32 bytes and the bytes doubted; none if there are more     *)
(* than its 16 parity bytes.                                               *)
HeaderReading(cal, l, colors) ==
  LET bits == Tuple([i \in 1 .. HEADER_CELLS |->
                       demodulate(cal, "Mono", colors[l.header_cells[i] + 1])])
      doubted == {b \in 1 .. 32 : \E i \in (8 * b) - 7 .. 8 * b :
                                    bits[i].confidence < ERASURE_THRESHOLD}
  IN [bytes |-> pack_bits(Tuple([i \in DOMAIN bits |-> bits[i].value]), 1, 32),
      erasures |-> IF Cardinality(doubted) > 16 THEN {} ELSE doubted]

(* The symbols of a frame in the mode its header says, and their weight.   *)
DataReading(cal, l, mode, colors, coded) ==
  LET readings == Tuple([c \in DOMAIN l.data_cells |->
                           demodulate(cal, mode, colors[l.data_cells[c] + 1])])
      width == bits_per_cell(mode)
  IN [symbols |-> pack_bits(Tuple([c \in DOMAIN readings |-> readings[c].value]), width, coded),
      confidence |-> symbol_confidence(readings, width, coded)]

----------------------------------------------------------------------------
(* A plan is made; or a frame is displayed, a camera takes it, with things *)
(* in front of some cells and its own idea of the light, and it is read.   *)
VARIABLES
  plan,                (* [request, profile] or None                       *)
  shot,                (* a member of Shots, or None                       *)
  cells,               (* the frame on display, or None                    *)
  colors,              (* what the camera saw of its cells, or None        *)
  reading              (* [header, data], or None                          *)

OpticsVars == <<plan, shot, cells, colors, reading>>

OpticsInit ==
  plan = None /\ shot = None /\ cells = None /\ colors = None /\ reading = None

Plan(p) ==
  /\ shot = None /\ plan = None
  /\ plan' = [request |-> p, profile |-> FrameProfile(p.grid, p.mode, p.parity_code)]
  /\ UNCHANGED <<shot, cells, colors, reading>>

Display(s) ==
  /\ plan = None /\ shot = None
  /\ shot' = s
  /\ cells' = frame(s)
  /\ UNCHANGED <<plan, colors, reading>>

(* What covers a cell: a colour of its own, or a filter for one channel.   *)
Covered(paint, rgb) ==
  IF paint.kind = "solid" THEN paint.rgb
  ELSE [rgb EXCEPT ![paint.channel] = 255 - @]

(* In eighths, and saturated.                                              *)
Exposed(exposure, rgb) ==
  Tuple([ch \in Channels |->
           Clamp(((rgb[ch] * exposure.gain[ch]) \div 8) + exposure.bias[ch], 0, 255)])

(* How black and white show, and a colour that shows as one of them on     *)
(* each channel, or about halfway between them on each.                    *)
Dark(exposure) == Exposed(exposure, <<0, 0, 0>>)
Bright(exposure) == Exposed(exposure, <<255, 255, 255>>)
Gap(exposure, ch) == Bright(exposure)[ch] - Dark(exposure)[ch]
Extreme(exposure, rgb) ==
  \A ch \in Channels :
    Exposed(exposure, rgb)[ch] \in {Dark(exposure)[ch], Bright(exposure)[ch]}
Middling(exposure, rgb) ==
  \A ch \in Channels :
    8 * Abs((2 * Exposed(exposure, rgb)[ch])
              - (Dark(exposure)[ch] + Bright(exposure)[ch])) <= Gap(exposure, ch)

(* The cells that something covers: some of the header's, of the data, and *)
(* whole patches of the calibration.                                       *)
Smudged(s) ==
  LET l == layout(s.grid)
  IN {l.header_cells[i] : i \in s.smudge.header}
       \cup {l.data_cells[i] : i \in s.smudge.data}
       \cup UNION {Range(l.palette_cells[v + 1]) : v \in s.smudge.patches}

Photograph(s, drawn) ==
  LET smudged == Smudged(s)
  IN Tuple([i \in DOMAIN drawn |->
       Exposed(s.exposure, IF i - 1 \in smudged
                           THEN Covered(s.smudge.paint, color_of(drawn[i]))
                           ELSE color_of(drawn[i]))])

Capture ==
  /\ cells # None /\ colors = None
  /\ colors' = Photograph(shot, cells)
  /\ UNCHANGED <<plan, shot, cells, reading>>

(* decode_sampled() up to the first Reed-Solomon decoder.                  *)
ReadShot ==
  /\ colors # None /\ reading = None
  /\ LET l == layout(shot.grid)
         cal == from_patches(l, colors)
     IN reading' = [header |-> HeaderReading(cal, l, colors),
                    data |-> DataReading(cal, l, shot.mode, colors, Len(shot.symbols))]
  /\ UNCHANGED <<plan, shot, cells, colors>>

OpticsNext ==
  \/ \E p \in Profiles : Plan(p)
  \/ \E s \in Shots : Display(s)
  \/ Capture
  \/ ReadShot

OpticsSpec == OpticsInit /\ [][OpticsNext]_OpticsVars

----------------------------------------------------------------------------
(* The five layouts are closed terms; these facts about them, which relate *)
(* the order of the cells to their places, are computed and not proved.    *)
ASSUME LayoutAssumption ==
  \A g \in 0 .. 4 :
    LET l == layout(g)
        Cells == 0 .. Len(l.fixed) - 1
    IN /\ DOMAIN l.fixed = 1 .. Len(l.fixed) /\ Len(l.fixed) \in Nat
       /\ l.header_cells \in Seq(Cells) /\ Len(l.header_cells) = HEADER_CELLS
       /\ \A i \in 1 .. HEADER_CELLS :
            /\ l.fixed[l.header_cells[i] + 1] = None
            /\ l.place[l.header_cells[i] + 1] = i - 1
       /\ l.data_cells \in Seq(Cells)
       /\ \A i \in 1 .. Len(l.data_cells) :
            /\ l.fixed[l.data_cells[i] + 1] = None
            /\ l.place[l.data_cells[i] + 1] = HEADER_CELLS + i - 1
       /\ Len(l.data_cells)                (* corners, rulers, patches, header *)
            = (l.n * l.n) - 256 - (2 * (l.n - 16)) - 32 - HEADER_CELLS
       /\ \A v \in 0 .. 7 :
            /\ l.palette_cells[v + 1] \in Seq(Cells) /\ Len(l.palette_cells[v + 1]) = 4
            /\ \A k \in 1 .. 4 : l.fixed[l.palette_cells[v + 1][k] + 1] = v
            /\ None # v

ASSUME ProfileAssumption ==
  /\ Profiles \subseteq [grid : 0 .. 4, mode : Modes, parity_code : Nat]
  /\ None \notin [blocks : Nat, block_n : Nat, block_k : Nat, frame_payload : Nat]

(* A frame fits its grid, and what covers it is on the grid.               *)
ASSUME ShotAssumption ==
  /\ None \notin Shots
  /\ \A s \in Shots :
       /\ s.grid \in 0 .. 4 /\ s.mode \in Modes
       /\ s.symbols \in Seq(0 .. 255)
       /\ 8 * Len(s.symbols) <= bits_per_cell(s.mode) * Len(layout(s.grid).data_cells)
       /\ s.header \in Seq(0 .. 255) /\ Len(s.header) = 32
       /\ s.exposure.gain \in [Channels -> Nat] /\ s.exposure.bias \in [Channels -> Int]
       /\ s.smudge.header \subseteq 1 .. HEADER_CELLS
       /\ s.smudge.data \subseteq DOMAIN layout(s.grid).data_cells
       /\ s.smudge.patches \subseteq 0 .. 7
       /\ IF s.smudge.paint.kind = "solid" THEN s.smudge.paint.rgb \in [Channels -> 0 .. 255]
          ELSE s.smudge.paint.kind = "filter" /\ s.smudge.paint.channel \in Channels

(* What covers a cell is a filter, a colour that shows as a cell of the    *)
(* frame might, or one from about the middle: a shade between those could  *)
(* be read without doubt as what it is nearest to.                         *)
ASSUME PaintAssumption ==
  \A s \in Shots :
    s.smudge.paint.kind = "solid" =>
      Extreme(s.exposure, s.smudge.paint.rgb) \/ Middling(s.exposure, s.smudge.paint.rgb)

ASSUME ThresholdAssumption == ERASURE_THRESHOLD \in 280 .. 1000

----------------------------------------------------------------------------
(* Every grid, mode and parity code gives frames that the rest can work    *)
(* with: no structure lies on another, there is room for the header, the   *)
(* blocks are the fewest that Reed-Solomon can code and fill the cells but *)
(* for less than a symbol each, and paying for more parity repairs more    *)
(* and carries less.  An unknown parity code is refused.  Of the named     *)
(* profiles, "fast" carries the most and "robust" repairs the largest      *)
(* share.                                                                  *)
ProfilesAreSound ==
  plan # None =>
    LET p == plan.profile
        grid == plan.request.grid
        mode == plan.request.mode
        l == layout(grid)
        less == FrameProfile(grid, mode, plan.request.parity_code - 1)
        parity(profile) == profile.block_n - profile.block_k
        preset(name) == LET q == Presets[name]
                        IN FrameProfile(q.grid, q.mode, q.parity_code)
    IN /\ \A r, c \in 0 .. l.n - 1 :
            Cardinality({s \in {"finder", "ruler", "patch"} :
              CASE s = "finder" -> InFinder(l.n, r, c)
                [] s = "ruler" -> OnRuler(l.n, r, c)
                [] s = "patch" -> InPatch(l.n, r, c)}) <= 1
       /\ Len(l.header_cells) = HEADER_CELLS
       /\ IF plan.request.parity_code >= 8 THEN p = None
          ELSE /\ p # None
               /\ p.block_n \in 8 .. 255 /\ p.block_k \in 1 .. p.block_n - 2
               /\ coded_symbols(p) <= symbols_total(grid, mode)
               /\ symbols_total(grid, mode) - coded_symbols(p) < p.blocks
               /\ (p.blocks - 1) * 255 < symbols_total(grid, mode)
               /\ droplet_size(p) > 0
               /\ plan.request.parity_code > 0 =>
                    parity(p) > parity(less) /\ droplet_size(p) < droplet_size(less)
               /\ plan.request = Presets.fast =>
                    \A name \in DOMAIN Presets : droplet_size(preset(name)) <= droplet_size(p)
               /\ plan.request = Presets.robust =>
                    \A name \in DOMAIN Presets :
                      parity(preset(name)) * p.block_n <= parity(p) * preset(name).block_n

(* The cells that hold a bit of symbol s, from 1, or of header byte b.     *)
Holding(s) ==
  LET width == bits_per_cell(shot.mode)
  IN {layout(shot.grid).data_cells[c + 1] :
        c \in (8 * (s - 1)) \div width .. ((8 * s) - 1) \div width}
HeaderHolding(b) ==
  {layout(shot.grid).header_cells[i] : i \in (8 * b) - 7 .. 8 * b}

(* The exposure keeps what the mode tells apart apart: 20 levels or more,  *)
(* which is what Calibration::is_usable() asks.                            *)
Clear(exposure, mode) ==
  IF mode = "Mono" THEN luma(Bright(exposure)) - luma(Dark(exposure)) >= 20000
  ELSE \A ch \in Channels : Gap(exposure, ch) >= 20
Crushed(exposure, mode) ==
  IF mode = "Mono" THEN \A ch \in Channels : Gap(exposure, ch) <= 1
  ELSE \E ch \in Channels : Gap(exposure, ch) <= 1

(* The header and the cells of a mono frame are read by the black and the  *)
(* white patch alone, a channel by four patches on each side.              *)
ScaleKept(mode) ==
  IF mode = "Mono" THEN shot.smudge.patches \cap {BLACK, WHITE} = {}
  ELSE Cardinality(shot.smudge.patches) <= 1

Doubted(s) == reading.data.confidence[s] < ERASURE_THRESHOLD

(* A symbol whose cells are free is read as it was sent and not doubted.   *)
FreeSymbolsAreRead ==
  LET smudged == Smudged(shot)
  IN Clear(shot.exposure, shot.mode) /\ ScaleKept(shot.mode) =>
       \A s \in DOMAIN shot.symbols :
         Holding(s) \cap smudged = {} =>
           reading.data.symbols[s] = shot.symbols[s] /\ ~Doubted(s)

(* A symbol misread without doubt has a cell whose cover shows a colour of *)
(* the mode, for Rgb4 one that differs in two channels.                    *)
MisreadingsAreCovers ==
  LET smudged == Smudged(shot)
  IN Clear(shot.exposure, shot.mode) /\ ScaleKept(shot.mode) =>
       \A s \in DOMAIN shot.symbols :
         reading.data.symbols[s] # shot.symbols[s] /\ ~Doubted(s) =>
           /\ Holding(s) \cap smudged # {}
           /\ IF shot.smudge.paint.kind = "filter" THEN shot.mode # "Rgb4"
              ELSE Extreme(shot.exposure, shot.smudge.paint.rgb)

FreeHeaderIsRead ==
  LET smudged == Smudged(shot)
  IN Clear(shot.exposure, "Mono") /\ ScaleKept("Mono") =>
       \A b \in DOMAIN shot.header :
         HeaderHolding(b) \cap smudged = {} =>
           reading.header.bytes[b] = shot.header[b] /\ b \notin reading.header.erasures

(* Where the exposure has lost a channel, what needs it is doubted.        *)
LostChannelsAreDoubted ==
  Crushed(shot.exposure, shot.mode) => \A s \in DOMAIN shot.symbols : Doubted(s)

(* Damage to the picture of a frame stays where it is, and is either seen  *)
(* or a confident reading of what covers the cells, in a clear exposure    *)
(* even with a patch of the calibration covered ("turns a channel failure  *)
(* into an erasure"); an exposure that has lost a channel is seen.         *)
FramesAreReadable ==
  reading # None =>
    /\ FreeSymbolsAreRead
    /\ MisreadingsAreCovers
    /\ FreeHeaderIsRead
    /\ LostChannelsAreDoubted
=============================================================================
