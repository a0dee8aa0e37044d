------------------------------- MODULE Images -------------------------------
(***************************************************************************)
(* A frame as a picture and as a file: render.rs draws its cells, png.rs   *)
(* (in pz-core) and ppm.rs (in pz-cli) write and read the picture.         *)
(*                                                                         *)
(* A picture is written, possibly saved again by another program, and      *)
(* read.  A PNG file is the sequence of its chunks, an IDAT chunk the      *)
(* stored deflate blocks it holds; checksums, which decode() does not      *)
(* compare, are left out.  A PPM file is the sequence of its bytes.        *)
(***************************************************************************)
EXTENDS Integers, SequencesExt, Eager

CONSTANTS
  Scenes,       (* [cells, options]: grids of colours and RenderOptions    *)
  MaxStored     (* 65535: the longest stored block                         *)

Byte == 0 .. 255
Colour == [1 .. 3 -> Byte]
Black == <<0, 0, 0>>

ASSUME StoredAssumption == MaxStored \in Nat \ {0}

(* None is no value of its type.                                           *)
ASSUME NoneAssumption == None \notin Colour /\ None \notin Seq(Byte)

(* Square grids, on any background but black; the callers ask for white.   *)
ASSUME SceneAssumption ==
  \A s \in Scenes :
    /\ s.cells \in Seq(Seq(Colour)) /\ s.cells # <<>>
    /\ \A row \in DOMAIN s.cells : Len(s.cells[row]) = Len(s.cells)
    /\ s.options.module_px \in Nat /\ s.options.quiet_zone \in Nat
    /\ s.options.background \in Colour \ {Black}
    /\ s.options.ink \in Colour \cup {None}

----------------------------------------------------------------------------
(* render.rs.  cells[row][col]; rows, columns and pixels count from 0.     *)
scale(o) == Max({o.module_px, 1})

(* Pure black is drawn in the ink, if there is one.                        *)
Drawn(rgb, o) == IF rgb = Black /\ o.ink # None THEN o.ink ELSE rgb

(* The pixel of column x in row y: a cell, or the quiet zone around them.  *)
PixelAt(cells, o, x, y) ==
  LET cell(v) == (v \div scale(o)) - o.quiet_zone
      inside(v) == cell(v) \in 0 .. Len(cells) - 1
  IN IF inside(x) /\ inside(y)
     THEN Drawn(cells[cell(y) + 1][cell(x) + 1], o) ELSE o.background

render(cells, o) ==
  LET size == (Len(cells) + 2 * o.quiet_zone) * scale(o)
  IN [width |-> size, height |-> size,
      data |-> Tuple([i \in 1 .. 3 * size * size |->
                 LET p == (i - 1) \div 3
                 IN PixelAt(cells, o, p % size, p \div size)[1 + ((i - 1) % 3)]])]

(* Luminance by the Rec. 601 weights, in parts of 1 / 255000.              *)
luminance(rgb) == 299 * rgb[1] + 587 * rgb[2] + 114 * rgb[3]

contrast_ok(o) ==
  o.ink # None => luminance(o.background) - luminance(o.ink) >= 450 * 255

(* RgbImage::get and to_rgba.                                              *)
get(img, x, y) ==
  LET i == (y * img.width + x) * 3
  IN <<img.data[i + 1], img.data[i + 2], img.data[i + 3]>>

to_rgba(img) ==
  Tuple([i \in 1 .. 4 * img.width * img.height |->
             LET channel == (i - 1) % 4
             IN IF channel = 3 THEN 255
                ELSE img.data[((i - 1) \div 4) * 3 + channel + 1]])

----------------------------------------------------------------------------
(* png.rs: writing.                                                        *)
Slice(s, from, len) == SubSeq(s, from + 1, from + len)

Stored(final, bytes) == [final |-> final, type |-> 0, bytes |-> bytes]

(* Mutant: a stream that fills its last block exactly has no final block.  *)
Bug_zlib_stored(raw) ==
  [b \in 1 .. (Len(raw) + MaxStored - 1) \div MaxStored |->
     Stored(b * MaxStored > Len(raw),
            Slice(raw, (b - 1) * MaxStored,
                  Min({MaxStored, Len(raw) - (b - 1) * MaxStored})))]

(* Stored blocks, all but the last of them full.                           *)
zlib_stored(raw) ==
  IF raw = <<>> THEN <<Stored(TRUE, <<>>)>>
  ELSE Tuple([b \in 1 .. (Len(raw) + MaxStored - 1) \div MaxStored |->
         LET offset == (b - 1) * MaxStored
             len == Min({MaxStored, Len(raw) - offset})
         IN Stored(offset + len >= Len(raw), Slice(raw, offset, len))])

IHDR(w, h, color, depth, interlace) ==
  [kind |-> "IHDR", width |-> w, height |-> h, color |-> color,
   depth |-> depth, interlace |-> interlace]
IDAT(blocks) == [kind |-> "IDAT", blocks |-> blocks]
Chunk(kind) == [kind |-> kind]

(* Each row behind its filter.                                             *)
Rows(bytes, stride, filter) ==
  FlattenSeq([y \in 1 .. Len(bytes) \div stride |->
                <<filter[y]>> \o Slice(bytes, (y - 1) * stride, stride)])

encode_png(img) ==
  <<IHDR(img.width, img.height, 2, 8, 0),
    IDAT(zlib_stored(Rows(img.data, 3 * img.width,
                          [y \in 1 .. img.height |-> 0]))),
    Chunk("IEND")>>

----------------------------------------------------------------------------
(* png.rs: reading.                                                        *)
Abs(n) == IF n < 0 THEN -n ELSE n

(* The neighbour the gradient predicts, ties in the order a, b, c.         *)
Paeth(a, b, c) ==
  LET p == a + b - c
      near(v) == Abs(p - v)
  IN IF near(a) <= near(b) /\ near(a) <= near(c) THEN a
     ELSE IF near(b) <= near(c) THEN b ELSE c

(* What a row filter adds: a is to the left, b above, c above that.        *)
Predicted(filter, a, b, c) ==
  CASE filter = 0 -> 0
    [] filter = 1 -> a
    [] filter = 2 -> b
    [] filter = 3 -> (a + b) \div 2
    [] filter = 4 -> Paeth(a, b, c)

At(row, i) == IF i >= 1 THEN row[i] ELSE 0

(* The byte of a row that comes after current, from the filtered one, x.   *)
Restored(current, x, filter, previous, channels) ==
  LET i == Len(current) + 1
  IN (x + Predicted(filter, At(current, i - channels), previous[i],
                    At(previous, i - channels))) % 256

(* One row, from its filtered bytes and the row above.                     *)
Unfilter(filter, row, previous, channels) ==
  FoldLeft(LAMBDA current, x :
             Append(current, Restored(current, x, filter, previous, channels)),
           <<>>, row)

(* Row y of the stream, below rows.                                        *)
RowBelow(rows, y, raw, stride, channels) ==
  LET above == IF y = 1 THEN [i \in 1 .. stride |-> 0] ELSE Last(rows)
      start == (y - 1) * (stride + 1)
  IN Unfilter(raw[start + 1], Slice(raw, start + 1, stride), above, channels)

(* All rows of the stream; more bytes than the picture needs are ignored.  *)
Unfiltered(raw, stride, height, channels) ==
  FoldLeft(LAMBDA rows, y : Append(rows, RowBelow(rows, y, raw, stride, channels)),
           <<>>, [y \in 1 .. height |-> y])

(* The bytes of the stored blocks up to the final one, or None.         *)
Inflate(blocks) ==
  LET finals == {b \in DOMAIN blocks : blocks[b].final}
      end == Min(finals)
  IN IF finals = {} \/ \E b \in 1 .. end : blocks[b].type # 0 THEN None
     ELSE FlattenSeq([b \in 1 .. end |-> blocks[b].bytes])

Channels(color) == CASE color = 2 -> 3 [] color = 6 -> 4 [] OTHER -> 0

(* Chunks are read up to IEND or the end of the file; the last IHDR holds, *)
(* unknown chunks are passed over, the IDAT chunks are one stream.         *)
decode_png(file) ==
  LET ends == {i \in DOMAIN file : file[i].kind = "IEND"}
      read == SubSeq(file, 1, Min(ends \cup {Len(file) + 1}) - 1)
      headers == {i \in DOMAIN read : read[i].kind = "IHDR"}
      stream == FlattenSeq([i \in DOMAIN read |->
                              IF read[i].kind = "IDAT" THEN read[i].blocks ELSE <<>>])
      h == read[Max(headers)]
      channels == Channels(h.color)
      stride == h.width * channels
      raw == Inflate(stream)
  IN IF \/ headers = {}
        \/ \E i \in headers : \/ read[i].depth # 8
                              \/ read[i].interlace # 0
                              \/ Channels(read[i].color) = 0
     THEN None
     ELSE IF h.width = 0 \/ h.height = 0 \/ raw = None THEN None
     ELSE IF Len(raw) < (stride + 1) * h.height THEN None
     ELSE IF \E y \in 0 .. h.height - 1 : raw[y * (stride + 1) + 1] \notin 0 .. 4
          THEN None
     ELSE LET rows == Unfiltered(raw, stride, h.height, channels)
          IN [width |-> h.width, height |-> h.height,
              data |-> Tuple([i \in 1 .. 3 * h.width * h.height |->
                         LET p == (i - 1) \div 3
                         IN rows[1 + (p \div h.width)]
                                [(p % h.width) * channels + ((i - 1) % 3) + 1]])]

----------------------------------------------------------------------------
(* ppm.rs.                                                                 *)
White == {9, 10, 12, 13, 32}
Newline == 10
Hash == 35
Digits(n) ==
  LET digits[k \in 0 .. n] ==
        IF k < 10 THEN <<48 + k>> ELSE Append(digits[k \div 10], 48 + (k % 10))
  IN digits[n]

Magic == <<80, 54>>

PpmHeader(w, h, comment) ==
  Magic \o comment \o <<Newline>> \o Digits(w) \o <<32>> \o Digits(h)
    \o <<Newline>> \o Digits(255) \o <<Newline>>

write_ppm(img) == PpmHeader(img.width, img.height, <<>>) \o img.data

(* The first position from pos on (counted from 1, Len + 1 if there is     *)
(* none) whose byte is in S.                                               *)
Next_(bytes, pos, S) ==
  Min({i \in pos .. Len(bytes) : bytes[i] \in S} \cup {Len(bytes) + 1})

(* Where the token at or after pos begins: white space and comments, which *)
(* end with their line, are passed over.                                   *)
TokenStart(bytes, pos) ==
  LET skip[i \in 1 .. Len(bytes) + 1] ==
        LET start == Next_(bytes, i, Byte \ White)
        IN IF start <= Len(bytes) /\ bytes[start] = Hash
           THEN skip[Next_(bytes, start, {Newline})] ELSE start
  IN skip[pos]

(* The four tokens [from, to) of the header.                               *)
Tokens(bytes) ==
  FoldLeft(LAMBDA tokens, n :
             LET from == TokenStart(bytes, IF tokens = <<>> THEN 1 ELSE Last(tokens)[2])
             IN Append(tokens, <<from, Next_(bytes, from, White)>>),
           <<>>, <<1, 2, 3, 4>>)

(* parse::<usize>(), of a number that fits; -1 for an error.               *)
Number(s) ==
  IF s = <<>> \/ \E i \in DOMAIN s : s[i] \notin 48 .. 57 THEN -1
  ELSE FoldLeft(LAMBDA n, d : 10 * n + d - 48, 0, s)

read_ppm(bytes) ==
  LET tokens == Tokens(bytes)
      text(t) == SubSeq(bytes, tokens[t][1], tokens[t][2] - 1)
      width == Number(text(2))
      height == Number(text(3))
      (* one white byte after the header, whatever it is                   *)
      start == tokens[4][2]
      needed == width * height * 3
  IN IF \/ text(1) # Magic
        \/ width < 0 \/ height < 0 \/ Number(text(4)) # 255
        \/ Len(bytes) < start + needed
     THEN None
     ELSE [width |-> width, height |-> height, data |-> Slice(bytes, start, needed)]

----------------------------------------------------------------------------
VARIABLE picture    (* [scene, image, format, file, sound, loaded, read]   *)

(* A frame is rendered and written.                                        *)
Draw(s) ==
  LET img == render(s.cells, s.options)
  IN picture = [scene |-> s, image |-> img, format |-> "none", file |-> <<>>,
                sound |-> TRUE, loaded |-> FALSE, read |-> None]

PictureInit == \E s \in Scenes : Draw(s)

WritePng ==
  /\ picture.format = "none"
  /\ picture' = [picture EXCEPT !.format = "png", !.file = encode_png(picture.image)]

WritePpm ==
  /\ picture.format = "none"
  /\ picture' = [picture EXCEPT !.format = "ppm", !.file = write_ppm(picture.image)]

(* What PNG's row filters do to the bytes of a picture.                    *)
Filtered(bytes, stride, channels, filter) ==
  Tuple([i \in DOMAIN bytes |->
    LET left == IF (i - 1) % stride >= channels THEN i - channels ELSE 0
        up == i - stride
        corner == IF left > 0 THEN left - stride ELSE 0
    IN (bytes[i] - Predicted(filter[1 + ((i - 1) \div stride)], At(bytes, left),
                             At(bytes, up), At(bytes, corner))) % 256])

(* What another program writes that saves the file again without           *)
(* compressing it: any row filters, with or without an alpha channel,      *)
(* several IDAT chunks, and chunks of its own.                             *)
Resaved(img, filter, alpha) ==
  LET channels == IF alpha THEN 4 ELSE 3
      bytes == IF alpha THEN to_rgba(img) ELSE img.data
      stride == channels * img.width
      blocks == zlib_stored(Rows(Filtered(bytes, stride, channels, filter), stride, filter))
  IN <<IHDR(img.width, img.height, IF alpha THEN 6 ELSE 2, 8, 0), Chunk("tEXt"),
       IDAT(<<Head(blocks)>>), IDAT(Tail(blocks)), Chunk("IEND")>>

ResavePng(filter, alpha) ==
  /\ picture.format = "png" /\ ~picture.loaded /\ picture.sound
  /\ picture.file = encode_png(picture.image)
  /\ picture' = [picture EXCEPT !.file = Resaved(picture.image, filter, alpha)]

(* A form that the decoder does not read, or a file cut short.             *)
Spoilt(file, how) ==
  CASE how = "interlaced" -> [file EXCEPT ![1].interlace = 1]
    [] how = "deep" -> [file EXCEPT ![1].depth = 16]
    [] how = "palette" -> [file EXCEPT ![1].color = 3]
    [] how = "no header" -> Tail(file)
    [] how = "compressed" ->
         [i \in DOMAIN file |->
            IF file[i].kind = "IDAT" /\ file[i].blocks # <<>>
            THEN [file[i] EXCEPT !.blocks[1].type = 2] ELSE file[i]]
    [] how = "short" -> SubSeq(file, 1, 1)

SpoilPng(how) ==
  /\ picture.format = "png" /\ ~picture.loaded /\ picture.sound
  /\ picture' = [picture EXCEPT !.sound = FALSE, !.file = Spoilt(@, how)]

(* A comment after the magic number.                                       *)
ResavePpm ==
  /\ picture.format = "ppm" /\ ~picture.loaded /\ picture.sound
  /\ picture' = [picture EXCEPT !.file =
       PpmHeader(picture.image.width, picture.image.height, <<32, Hash, 49, 32>>)
         \o picture.image.data]

CutPpm ==
  /\ picture.format = "ppm" /\ ~picture.loaded /\ picture.sound
  /\ picture' = [picture EXCEPT !.sound = FALSE, !.file = Front(@)]

Read ==
  /\ picture.format # "none"
  /\ ~picture.loaded
  /\ picture' = [picture EXCEPT !.loaded = TRUE, !.read =
       IF picture.format = "png" THEN decode_png(picture.file)
       ELSE read_ppm(picture.file)]

NextPicture ==
  \/ WritePng \/ WritePpm
  \/ \E filter \in [1 .. picture.image.height -> 0 .. 4], alpha \in BOOLEAN :
       ResavePng(filter, alpha)
  \/ \E how \in {"interlaced", "deep", "palette", "no header", "compressed", "short"} :
       SpoilPng(how)
  \/ ResavePpm \/ CutPpm
  \/ Read

PictureSpec == PictureInit /\ [][NextPicture]_picture

----------------------------------------------------------------------------
(* A picture comes back from its file as it was drawn, whichever format,   *)
(* row filters, channels and chunks it went through, and in the middle of  *)
(* each cell it shows that cell's colour, a dark one apart from the quiet  *)
(* zone if the contrast was found sufficient; a file that pz says it does  *)
(* not read is refused and never read as another picture.  ("A file that   *)
(* has been re-saved by another tool without recompressing will still      *)
(* load.")                                                                 *)
FramesSurviveFiles ==
  picture # None /\ picture.loaded =>
    IF ~picture.sound THEN picture.read = None
    ELSE LET o == picture.scene.options
             cells == picture.scene.cells
             middle(v) == ((v - 1 + o.quiet_zone) * scale(o)) + (scale(o) \div 2)
         IN /\ picture.read = picture.image
            /\ \A row, col \in DOMAIN cells :
                 LET seen == get(picture.read, middle(col), middle(row))
                 IN /\ seen = Drawn(cells[row][col], o)
                    /\ cells[row][col] = Black /\ contrast_ok(o) =>
                         luminance(seen) < luminance(o.background)
============================================================================
