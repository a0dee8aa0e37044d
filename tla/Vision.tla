------------------------------- MODULE Vision -------------------------------
(***************************************************************************)
(* Finding a frame in the picture of a camera and sampling its cells:      *)
(* crates/pz-vision (threshold.rs, finder.rs, geom.rs, lib.rs) and         *)
(* detect(), sample_frame() and ingest_image() of                          *)
(* crates/pz-core/src/decoder.rs.                                          *)
(*                                                                         *)
(* The camera looks straight at a screen that may be turned by quarters,   *)
(* so that a cell is a whole number of pixels and the homography through   *)
(* four corners that are found in place is affine; the one through any     *)
(* other four is None here and its sample is nothing.  Numbers are exact   *)
(* integers in the units that a comment gives, but for square roots,       *)
(* quotients and sample positions, which are rounded down.  Pixels,        *)
(* rows and columns count from 0: pixel (x, y) is img[y + 1][x + 1].       *)
(***************************************************************************)
EXTENDS Optics, BoundedDistance

CONSTANT
  Views    (* [frame, px, quiet, turn, shade, hidden, decoy]: what the     *)
           (* camera may see                                               *)

Greater(a, b) == IF a > b THEN a ELSE b

----------------------------------------------------------------------------
(* The camera.  A frame with its quiet zone, turned clockwise, some of its *)
(* corners (1 to 4 from the top left) hidden, perhaps with a corner of a   *)
(* QR code beside it, under a light that fades to the right.               *)
Side(v) == modules(v.frame.grid) + (2 * v.quiet)

(* The cell of the upright scene that is seen at row r and column c.       *)
Upright(v, r, c) ==
  LET end == Side(v) - 1
  IN CASE v.turn = 0 -> <<r, c>>
       [] v.turn = 1 -> <<end - c, r>>
       [] v.turn = 2 -> <<end - r, end - c>>
       [] v.turn = 3 -> <<c, end - r>>

Corner(n, r, c) ==
  IF r < 8 THEN (IF c < 8 THEN 1 ELSE 2) ELSE (IF c < 8 THEN 4 ELSE 3)

Ahead(v, drawn, r, c) ==
  LET n == modules(v.frame.grid)
      at == Upright(v, r, c)
      row == at[1] - v.quiet
      col == at[2] - v.quiet
  IN CASE c >= Side(v) ->
            IF r \in 9 .. 15 /\ c - Side(v) \in 1 .. 7
            THEN color_of(finder(n, r - 9, c - Side(v) - 1)) ELSE color_of(WHITE)
       [] c < Side(v) /\ row \in 0 .. n - 1 /\ col \in 0 .. n - 1 ->
            IF InFinder(n, row, col) /\ Corner(n, row, col) \in v.hidden
            THEN <<120, 110, 100>> ELSE color_of(drawn[(n * row) + col + 1])
       [] OTHER -> color_of(WHITE)

Picture(v, drawn) ==
  LET columns == Side(v) + IF v.decoy THEN 9 ELSE 0
      scene == Tuple([r \in 1 .. Side(v) |-> Tuple([c \in 1 .. columns |->
                 Ahead(v, drawn, r - 1, c - 1)])])
  IN Tuple([y \in 1 .. v.px * Side(v) |-> Tuple([x \in 1 .. v.px * columns |->
       Tuple([ch \in Channels |->
         (scene[1 + ((y - 1) \div v.px)][1 + ((x - 1) \div v.px)][ch]
            * (32 - ((v.shade * x) \div (v.px * columns)))) \div 32])])])

----------------------------------------------------------------------------
(* threshold.rs                                                            *)
Width(img) == Len(img[1])
Height(img) == Len(img)

to_gray(img) ==
  Tuple([y \in DOMAIN img |-> Tuple([x \in DOMAIN img[y] |->
    ((77 * img[y][x][1]) + (150 * img[y][x][2]) + (29 * img[y][x][3])) \div 256])])

(* sums[x + 1][y + 1]: of the pixels above and left of (x, y).             *)
Integral(gray) ==
  LET across == Tuple([y \in DOMAIN gray |-> Running(gray[y])])
  IN Tuple([x \in 1 .. Width(gray) + 1 |->
       Running(Tuple([y \in DOMAIN gray |-> across[y][x]]))])

default_window(w, h) ==
  LET eighth == Clamp(Least({w, h}) \div 8, 15, 199)
  IN eighth + 1 - (eighth % 2)

(* Integral::rect over the window, divided.                                *)
local_mean(sums, w, h, x, y, radius) ==
  LET x0 == Greater(x - radius, 0)
      y0 == Greater(y - radius, 0)
      x1 == Least({x + radius, w - 1})
      y1 == Least({y + radius, h - 1})
  IN (sums[x1 + 2][y1 + 2] + sums[x0 + 1][y0 + 1]
        - sums[x1 + 2][y0 + 1] - sums[x0 + 1][y1 + 2])
       \div ((x1 + 1 - x0) * (y1 + 1 - y0))

(* TRUE where the picture is dark.  `window` is odd and at least 15.       *)
adaptive_threshold(gray, window, bias) ==
  LET sums == Integral(gray)
  IN Tuple([y \in DOMAIN gray |-> Tuple([x \in DOMAIN gray[y] |->
       gray[y][x] < local_mean(sums, Width(gray), Height(gray), x - 1, y - 1,
                               window \div 2) - bias])])

----------------------------------------------------------------------------
(* finder.rs.  Positions along a scan line are in half pixels.             *)
FINDER_RATIOS == <<1, 1, 3, 1, 1>>
CORNER_RATIOS == <<1, 1, 1, 1, 1>>

Column(bin, x) == Tuple([y \in DOMAIN bin |-> bin[y][x + 1]])

(* The maximal runs of a line between two positions.                       *)
Runs(line, from, to) ==
  LET starts == SelectSeq(Tuple([k \in 1 .. to - from |-> from + k - 1]),
                          LAMBDA p : p = from \/ line[p + 1] # line[p])
  IN Tuple([k \in DOMAIN starts |->
       [dark |-> line[starts[k] + 1], start |-> starts[k],
        len |-> (IF k = Len(starts) THEN to ELSE starts[k + 1]) - starts[k]]])

(* The centre of five runs in proportion and their length, or None.  Each  *)
(* may be off by half of what it should be, or by three quarters of a      *)
(* pixel; a cell is a pixel or more.                                       *)
match_window(runs, i, ratios) ==
  IF i < 1 \/ i + 4 > Len(runs) THEN None
  ELSE LET w == SubSeq(runs, i, i + 4)
           total == Total(Tuple([k \in 1 .. 5 |-> w[k].len]))
           units == Total(ratios)
       IN IF /\ \A k \in 1 .. 5 : w[k].dark = (k % 2 = 1)
             /\ total >= units
             /\ \A k \in 1 .. 5 :
                  4 * Abs((w[k].len * units) - (ratios[k] * total))
                    <= Greater(2 * ratios[k] * total, 3 * units)
          THEN [at |-> (2 * w[3].start) + w[3].len, total |-> total]
          ELSE None

match_through(runs, pos, ratios) ==
  match_window(runs, SelectInSeq(runs, LAMBDA r : pos < r.start + r.len) - 2, ratios)

(* The markers whose scan crosses row y: matched along the row, along the  *)
(* column through the centre, and along the row through that one's centre. *)
RowHits(bin, ratios, x0, y0, x1, y1, y) ==
  LET row == Runs(bin[y + 1], x0, x1)
      Along(line, xi) == match_through(Runs(line, x0, x1), xi, ratios)
      Down(xi) == match_through(Runs(Column(bin, xi), y0, y1), y, ratios)
      Marker(across, down, again) ==
        IF again = None THEN None
        ELSE [x |-> again.at, y |-> down.at,
              total |-> across.total + down.total + again.total]
      Checked(across, down) ==
        IF \/ down = None
           \/ 2 * Abs(across.total - down.total) > Greater(across.total, down.total)
        THEN None
        ELSE Marker(across, down, Along(bin[(down.at \div 2) + 1], across.at \div 2))
      Hit(across) == IF across = None THEN None ELSE Checked(across, Down(across.at \div 2))
  IN SelectSeq(Tuple([i \in DOMAIN row |-> Hit(match_window(row, i, ratios))]),
               LAMBDA h : h # None)

scan_region(bin, ratios, x0, y0, x1, y1) ==
  FlattenSeq(SelectSeq(
    Tuple([k \in 1 .. y1 - y0 |-> RowHits(bin, ratios, x0, y0, x1, y1, y0 + k - 1)]),
    LAMBDA hits : hits # <<>>))

----------------------------------------------------------------------------
(* geom.rs.  Points and lengths are in 42nds of a pixel from here on: half *)
(* a pixel is 21, and a cell is a twenty-first of three lengths of seven.  *)
UNIT == 42

dist2(p, q) == ((p.x - q.x) * (p.x - q.x)) + ((p.y - q.y) * (p.y - q.y))

dist(p, q) ==
  LET root[bit \in 0 .. 14] ==
        IF bit = 0 THEN 0
        ELSE LET r == root[bit - 1] + (2 ^ (14 - bit))
             IN IF r * r <= dist2(p, q) THEN r ELSE root[bit - 1]
  IN root[14]

(* Hits within the radius of the mean of a cluster join it, the first such *)
(* one; those of a single scan line are dropped.                           *)
cluster(hits, radius) ==
  LET centre(c) == [x |-> c.x \div c.hits, y |-> c.y \div c.hits]
      clusters[k \in 0 .. Len(hits)] ==
        IF k = 0 THEN <<>>
        ELSE LET before == clusters[k - 1]
                 h == [x |-> 21 * hits[k].x, y |-> 21 * hits[k].y,
                       module |-> 2 * hits[k].total, hits |-> 1]
                 c == SelectInSeq(before, LAMBDA b :
                                    dist2(centre(b), h) <= radius * radius)
             IN IF c = 0 THEN Append(before, h)
                ELSE [before EXCEPT ![c] = [f \in DOMAIN h |-> @[f] + h[f]]]
      crossed == SelectSeq(clusters[Len(hits)], LAMBDA c : c.hits >= 2)
  IN Tuple([k \in DOMAIN crossed |->
       [x |-> centre(crossed[k]).x, y |-> centre(crossed[k]).y,
        module |-> crossed[k].module \div crossed[k].hits]])

(* In the order in which the scan met them.                                *)
find_finder_patterns(bin) ==
  LET lengths(hits) == Total(Tuple([k \in DOMAIN hits |-> hits[k].total]))
      patterns(hits) ==
        IF hits = <<>> THEN <<>>
        ELSE cluster(hits, Greater((4 * lengths(hits)) \div Len(hits), 2 * UNIT))
  IN patterns(scan_region(bin, FINDER_RATIOS, 0, 0, Width(bin), Height(bin)))

(* Twice the area of a polygon.                                            *)
signed_area(pts) ==
  Total(Tuple([i \in DOMAIN pts |->
    LET q == pts[(i % Len(pts)) + 1]
    IN (pts[i].x * q.y) - (q.x * pts[i].y)]))

(* Mutant: the corners are taken as they come, which may wind backwards.   *)
Bug_order_quad(pts) == pts

(* Along the perimeter, clockwise on screen: the first of the longest pairs *)
(* is a diagonal.                                                          *)
order_quad(pts) ==
  LET pairs == <<<<1, 2>>, <<1, 3>>, <<1, 4>>, <<2, 3>>, <<2, 4>>, <<3, 4>>>>
      length(k) == dist2(pts[pairs[k][1]], pts[pairs[k][2]])
      d == pairs[Least({k \in 1 .. 6 : \A j \in 1 .. 6 : length(j) <= length(k)})]
      others == SetToSortSeq(1 .. 4 \ Range(d), <)
      quad == <<pts[d[1]], pts[others[1]], pts[d[2]], pts[others[2]]>>
  IN IF signed_area(quad) < 0 THEN <<quad[1], quad[4], quad[3], quad[2]>> ELSE quad

(* <<top left, top right, bottom left>>: the first is opposite the longest *)
(* side, and the other two wind clockwise.                                 *)
order_finders(p) ==
  LET d01 == dist2(p[1], p[2])
      d12 == dist2(p[2], p[3])
      d02 == dist2(p[1], p[3])
      t == CASE d01 >= d12 /\ d01 >= d02 -> <<p[3], p[1], p[2]>>
             [] ~(d01 >= d12 /\ d01 >= d02) /\ d12 >= d01 /\ d12 >= d02 ->
                  <<p[1], p[2], p[3]>>
             [] OTHER -> <<p[2], p[1], p[3]>>
      cross == ((t[2].x - t[1].x) * (t[3].y - t[1].y))
                 - ((t[2].y - t[1].y) * (t[3].x - t[1].x))
  IN IF cross < 0 THEN <<t[1], t[3], t[2]>> ELSE t

(* The hit nearest to where the fourth corner should be, or None.          *)
find_corner_marker(bin, approx, radius) ==
  LET r == Greater(radius, 2 * UNIT)
      x0 == Greater(approx.x - r, 0) \div UNIT
      y0 == Greater(approx.y - r, 0) \div UNIT
      x1 == Least({((approx.x + r) \div UNIT) + 1, Width(bin)})
      y1 == Least({((approx.y + r) \div UNIT) + 1, Height(bin)})
      point(hit) == [x |-> 21 * hit.x, y |-> 21 * hit.y]
      off(hit) == dist2(point(hit), approx)
      nearest(hits) ==
        IF hits = <<>> THEN None
        ELSE point(hits[Least({k \in DOMAIN hits :
                     \A j \in DOMAIN hits : off(hits[k]) <= off(hits[j])})])
  IN nearest(IF x1 <= x0 + 5 \/ y1 <= y0 + 5 THEN <<>>
             ELSE scan_region(bin, CORNER_RATIOS, x0, y0, x1, y1))

----------------------------------------------------------------------------
(* decoder.rs: detect().                                                   *)

(* Of the first eight patterns, the first group with the least score.      *)
BestGroup(patterns, size, Score(_)) ==
  LET group(S) == LET order == SetToSortSeq(S, <)
                  IN Tuple([k \in 1 .. size |-> patterns[order[k]]])
      scored == {<<S, Score(group(S))>> : S \in kSubset(size, 1 .. Least({Len(patterns), 8}))}
      good == {c \in scored : c[2] # None}
      Earlier(S, T) == S = T \/ Least((S \ T) \cup (T \ S)) \in S
  IN IF good = {} THEN None
     ELSE LET least == Least({c[2] : c \in good})
              ties == {c[1] : c \in {g \in good : g[2] = least}}
          IN group(CHOOSE S \in ties : \A T \in ties : Earlier(S, T))

(* In thousandths, within 32 bits.                                         *)
Permille(a, b) ==
  LET digits[k \in 0 .. 3] ==
        IF k = 0 THEN <<a \div b, a % b>>
        ELSE LET d == digits[k - 1]
             IN <<(10 * d[1]) + ((10 * d[2]) \div b), (10 * d[2]) % b>>
  IN digits[3][1]

(* How far four corners are from a rectangle; None if they cover less than *)
(* eight pixels.                                                           *)
OutOfSquare(q) ==
  LET side == Tuple([k \in 1 .. 4 |-> dist(q[k], q[(k % 4) + 1])])
  IN IF Abs(signed_area(q)) < 16 * UNIT * UNIT THEN None
     ELSE Permille(Abs(side[1] - side[3]) + Abs(side[2] - side[4])
                     + Abs(dist(q[1], q[3]) - dist(q[2], q[4])),
                   CHOOSE s \in Range(side) : \A k \in 1 .. 4 : side[k] <= s)
QuadScore(group) == OutOfSquare(order_quad(group))

best_quad(patterns) ==
  CASE Len(patterns) < 4 -> None
    [] Len(patterns) = 4 -> patterns
    [] Len(patterns) > 4 -> BestGroup(patterns, 4, QuadScore)

(* How far three corners are from two equal legs at a right angle; None    *)
(* for a leg shorter than two pixels.                                      *)
OutOfTrue(t) ==
  LET leg == Tuple([k \in 1 .. 2 |-> dist(t[1], t[k + 1])])
      dot == ((t[2].x - t[1].x) * (t[3].x - t[1].x))
               + ((t[2].y - t[1].y) * (t[3].y - t[1].y))
  IN IF leg[1] < 2 * UNIT \/ leg[2] < 2 * UNIT THEN None
     ELSE Permille(Abs(leg[1] - leg[2]), Greater(leg[1], leg[2]))
            + Permille(Abs(dot), leg[1] * leg[2])
TripleScore(group) == OutOfTrue(order_finders(group))

OrElse(first, second) == IF first = None THEN second ELSE first

best_triple(patterns) ==
  OrElse(IF Len(patterns) <= 3 THEN None ELSE BestGroup(patterns, 3, TripleScore),
         SubSeq(patterns, 1, 3))

(* The supported grids, nearest first to a span of `span` between finders  *)
(* with cells of `module`.                                                 *)
NearestGrids(span, module) ==
  LET off(g) == Abs((span * 1000) \div module + 7000 - (1000 * modules(g)))
  IN SetToSortSeq(0 .. 4, LAMBDA g, h : off(g) < off(h) \/ (off(g) = off(h) /\ g < h))

Straight(p, q, r) ==
  ((q.x - p.x) * (r.y - p.y)) - ((q.y - p.y) * (r.x - p.x)) = 0
Degenerate(q) ==
  \E k \in 1 .. 4 : Straight(q[k], q[(k % 4) + 1], q[((k + 1) % 4) + 1])

(* The two nearest grids, each in every rotation; None if there are none.  *)
detections_from_quad(quad, module) ==
  LET perimeter == Total(Tuple([k \in 1 .. 4 |-> dist(quad[k], quad[(k % 4) + 1])]))
      grids == NearestGrids(perimeter \div 4, module)
  IN IF Degenerate(quad) THEN None
     ELSE Tuple([k \in 1 .. 8 |->
            [grid |-> grids[1 + ((k - 1) \div 4)],
             quad |-> Tuple([c \in 1 .. 4 |-> quad[(((k - 1) + (c - 1)) % 4) + 1]])]])

(* Three corners: the fourth completes the parallelogram, or is a marker   *)
(* near there.                                                             *)
Fallback(bin, t) ==
  LET module == (t[1].module + t[2].module + t[3].module) \div 3
      predicted == [x |-> t[2].x + t[3].x - t[1].x, y |-> t[2].y + t[3].y - t[1].y]
      corner == find_corner_marker(bin, predicted, 6 * module)
      grids == NearestGrids((dist(t[1], t[2]) + dist(t[1], t[3])) \div 2, module)
      candidates(br) ==
        SelectSeq(Tuple([k \in 1 .. 3 |->
                    [grid |-> grids[k], quad |-> <<t[1], t[2], br, t[3]>>]]),
                  LAMBDA d : ~Degenerate(d.quad))
  IN candidates(OrElse(corner, predicted))

(* Candidates, most likely first.  A cell that match_window() accepts is a *)
(* pixel or more, so neither test that it is three quarters of one fails.  *)
detect(img) ==
  LET w == Width(img)
      h == Height(img)
      from_four(group) ==
        IF group = None THEN None
        ELSE detections_from_quad(order_quad(group),
               Total(Tuple([k \in 1 .. 4 |-> group[k].module])) \div 4)
      candidates(bin, patterns) ==
        IF Len(patterns) < 3 THEN <<>>
        ELSE OrElse(from_four(best_quad(patterns)),
                    Fallback(bin, order_finders(best_triple(patterns))))
      found(bin) == candidates(bin, find_finder_patterns(bin))
  IN IF w < 32 \/ h < 32 THEN <<>>
     ELSE found(adaptive_threshold(to_gray(img), default_window(w, h), 6))

----------------------------------------------------------------------------
(* lib.rs and decoder.rs: sampling.                                        *)
Flat(quad) ==
  quad[1].x + quad[3].x = quad[2].x + quad[4].x /\ quad[1].y + quad[3].y = quad[2].y + quad[4].y

(* Homography::apply: where in the picture a point of a grid is that is    *)
(* given in fiftieths of a cell.                                           *)
apply(quad, n, gx, gy) ==
  LET map(f) == quad[1][f] + ((((gx - 175) * (quad[2][f] - quad[1][f]))
                                 + ((gy - 175) * (quad[4][f] - quad[1][f])))
                                \div (50 * (n - 7)))
  IN [x |-> map("x"), y |-> map("y")]

(* The pixel at (x, y) counts as the colour of that very point.            *)
sample_bilinear(img, p) ==
  LET x == Clamp(p.x, 0, UNIT * (Width(img) - 1))
      y == Clamp(p.y, 0, UNIT * (Height(img) - 1))
      x0 == x \div UNIT
      y0 == y \div UNIT
      x1 == Least({x0 + 1, Width(img) - 1})
      y1 == Least({y0 + 1, Height(img) - 1})
      fx == x % UNIT
      fy == y % UNIT
      mix(ch) == ((UNIT - fy) * (((UNIT - fx) * img[y0 + 1][x0 + 1][ch])
                                   + (fx * img[y0 + 1][x1 + 1][ch])))
                   + (fy * (((UNIT - fx) * img[y1 + 1][x0 + 1][ch])
                              + (fx * img[y1 + 1][x1 + 1][ch])))
  IN Tuple([ch \in Channels |-> ((2 * mix(ch)) + (UNIT * UNIT)) \div (2 * UNIT * UNIT)])

SAMPLE_EXTENT == 14    (* 0.28 of a cell, in fiftieths *)

(* The mean of three by three samples around the middle of a cell.         *)
sample_cell(img, quad, n, row, col) ==
  LET points == Tuple([k \in 1 .. 9 |->
        sample_bilinear(img, apply(quad, n,
          (50 * col) + 25 + (SAMPLE_EXTENT * (((k - 1) % 3) - 1)),
          (50 * row) + 25 + (SAMPLE_EXTENT * (((k - 1) \div 3) - 1))))])
  IN Tuple([ch \in Channels |->
       Total(Tuple([k \in 1 .. 9 |-> points[k][ch]])) \div 9])

sample_frame(img, d) ==
  LET n == modules(d.grid)
  IN Tuple([i \in 1 .. n * n |->
       sample_cell(img, d.quad, n, (i - 1) \div n, (i - 1) % n)])

----------------------------------------------------------------------------
VARIABLES
  view,                (* what the camera looks at, or None                *)
  image,               (* its picture                                      *)
  detections,          (* the candidates, or None before detect()          *)
  tried,               (* how many of them ingest_image() has decoded      *)
  seen                 (* what it read of the last one, or None            *)

VisionVars == <<view, image, detections, tried, seen>>

VisionInit ==
  view = None /\ image = None /\ detections = None /\ tried = 0 /\ seen = None

Look(v) ==
  /\ view = None
  /\ view' = v
  /\ image' = Picture(v, frame(v.frame))
  /\ UNCHANGED <<detections, tried, seen>>

Detect ==
  /\ image # None /\ detections = None
  /\ detections' = detect(image)
  /\ UNCHANGED <<view, image, tried, seen>>

(* What decode_sampled() reads of a candidate; None for one that is not    *)
(* sampled here.                                                           *)
Sampled(img, d, f) ==
  LET l == layout(d.grid)
      sampled == sample_frame(img, d)
      cal == from_patches(l, sampled)
  IN IF Flat(d.quad)
     THEN [header |-> HeaderReading(cal, l, sampled),
           data |-> IF d.grid = f.grid
                    THEN DataReading(cal, l, f.mode, sampled, Len(f.symbols)) ELSE None]
     ELSE None

(* Whether Reed-Solomon recovers a word with p parity symbols, with or     *)
(* without the doubted ones as hints.                                      *)
Recovered(p, wrong, doubted) ==
  \/ "right" \in Corrected(p, Cardinality(doubted), Cardinality(wrong \ doubted))
  \/ "right" \in Corrected(p, 0, Cardinality(wrong))

Differing(s, t) == {i \in DOMAIN s : s[i] # t[i]}

(* The header's checksum accepts what was sent and nothing else.           *)
Accepted(read, f) ==
  read # None /\ Recovered(16, Differing(read.header.bytes, f.header), read.header.erasures)

(* Every block of the data is recovered with the default parity.  Symbol s *)
(* belongs to block s modulo their number.                                 *)
Readable(read, f) ==
  LET wrong == Differing(read.data.symbols, f.symbols)
      doubted == {s \in DOMAIN f.symbols : read.data.confidence[s] < ERASURE_THRESHOLD}
      within(p, S) == \A b \in 0 .. p.blocks - 1 :
        LET block == {s \in S : s % p.blocks = b}
        IN Recovered(p.block_n - p.block_k, wrong \cap block, doubted \cap block)
  IN within(FrameProfile(f.grid, f.mode, 3), DOMAIN f.symbols)

(* One turn of the loop of ingest_image(), which ends at the first         *)
(* candidate that decodes.                                                 *)
Try ==
  /\ detections # None /\ tried < Len(detections)
  /\ ~Accepted(seen, view.frame)
  /\ tried' = tried + 1
  /\ seen' = Sampled(image, detections[tried'], view.frame)
  /\ UNCHANGED <<view, image, detections>>

VisionNext ==
  \/ \E v \in Views : Look(v)
  \/ Detect
  \/ Try

----------------------------------------------------------------------------
(* Where the centres of the frame's corners are in the picture.            *)
TrueQuad ==
  LET n == modules(view.frame.grid)
      near == view.quiet + 3
      far == view.quiet + n - 4
      place == <<<<near, near>>, <<near, far>>, <<far, far>>, <<far, near>>>>
      seenAt(k) == CHOOSE c \in {near, far} \X {near, far} :
                     Upright(view, c[1], c[2]) = place[k]
  IN Tuple([k \in 1 .. 4 |->
       [x |-> ((2 * seenAt(k)[2]) + 1) * view.px * 21,
        y |-> ((2 * seenAt(k)[1]) + 1) * view.px * 21]])

(* Within half a cell.                                                     *)
Right(d, corners) ==
  /\ d.grid = view.frame.grid
  /\ \A k \in corners : dist(d.quad[k], TrueQuad[k]) <= 21 * view.px

(* A frame in full view, in any of four positions, under a light that      *)
(* fades across it and with another finder beside it, is among the         *)
(* candidates, and the first of them whose header is accepted, which there *)
(* is, is the frame the right way up, with every block of its data within  *)
(* repair.  So it is with the bottom right corner hidden where three       *)
(* candidates show that the fallback was taken: a fourth pattern, even a   *)
(* chance one in the data, keeps it from that.  ("Identical markers leave  *)
(* the frame's rotation ambiguous. That is resolved downstream by trying   *)
(* all four and letting the CRC-protected header arbitrate".)              *)
DisplayedFramesAreFound ==
  detections # None =>
    LET kept == 1 .. 4 \ view.hidden
    IN view.hidden = {} \/ (view.hidden = {3} /\ Len(detections) <= 3) =>
         /\ \E i \in DOMAIN detections : Right(detections[i], kept)
         /\ Accepted(seen, view.frame) =>
              Right(detections[tried], kept) /\ Readable(seen, view.frame)
         /\ tried = Len(detections) => Accepted(seen, view.frame)
=============================================================================
