# Photonic Zero in TLA+

Photonic Zero sends a message as an endless stream of coloured square codes on
a display; a camera that sees enough of them, in any order, recovers the
message. There is no back channel. This directory models the protocol from the
fountain code down to the pixels of a camera's picture, the programs and
bindings that put it before users, and the browser page; it checks the models
with TLC and proves the main safety properties with TLAPS. Paths below are
relative to the repository.

Contents: [the system](#the-system) · [modules](#modules) · [runs](#runs) ·
[fairness](#fairness) · [proofs](#proofs) · [findings](#findings) ·
[not modelled](#not-modelled) · [plan](#plan)

## The system

A message travels through these parts, each a plain synchronous library
unless the table says otherwise:

| Part | State | Operations | What makes it correct |
|---|---|---|---|
| message encoder (`pz-core/src/encoder.rs`) | none after `new` | `new`, `header(i)`, `frame(i)` | frame `i` is a pure function of the message and `i`; container = CRC-32 + message; 16-bit session id |
| fountain encoder, plan (`pz-fountain`) | none | `plan(session, i)`, `droplet(i)` | both ends derive the same blocks from `(session, i)`; every plan names distinct blocks in order |
| profile, header, interleaving (`pz-core/src/frame.rs`, `header.rs`) | none | `FrameProfile::new`, `encode_symbols`, `decode_symbols`, `seal_payload`, `open_payload`, `decode_protected` | every profile fits its code; damage within the code's budget is repaired; a droplet is bound to its frame index |
| Reed-Solomon, CRC (`pz-fec`) | none | `encode`, `decode` | exact within 2e + f <= n - k |
| layout, colour (`pz-core/src/layout.rs`, `color.rs`) | none | cells to colours and back | the two ends agree on the role of every cell; a reading that may be wrong is doubted |
| rendering, PNG, PPM (`render.rs`, `png.rs`, `pz-cli/src/ppm.rs`) | none | cells to pixels, pixels to files and back | a file gives back the picture it was written from, or an error |
| detection (`pz-vision`, `detect`) | none | find codes in an image, sample cells | finds the code if it is in view |
| frame decoding (`decode_sampled`) | none between frames | colours to (header, droplet) | never accepts a droplet under a wrong index; loses no repairable frame |
| fountain decoder (`pz-fountain/src/lib.rs`) | solved blocks and their count, pending droplets, reference lists | `absorb`, `assemble` | result depends on the set of frames only; blocks exact |
| session decoder (`pz-core/src/decoder.rs`) | session, fountain, counters, finished message | `ingest_*`, `absorb`, `reset` | delivers one transmitter's message or none |
| bindings (`pz-ffi`, `pz-wasm`, `packages/js`, `bindings/python`, `include`) | handles, the last outcome, buffers lent to the caller | thin wrappers | they report the same of the same call, and take memory back as they gave it |
| command lines (`pz-cli`, `packages/js/bin`) | one decoder per call | files in, frames out and back | what is written is a message that was sent |
| web page (`web/app.mjs`) | encoder and decoder handles, camera stream, object URL, animation loops, wake lock | event handlers with awaits between | nothing is used after it is freed, nothing is lost without being freed |

Interaction is by calls: an image goes through detection, sampling and
`decode_sampled`, which hands a droplet to the session decoder, which owns a
fountain decoder. Asynchrony exists in two places: between the display and the
camera (frames lost, repeated, garbled, from several displays at once), and in
the web page, where every `await` lets other handlers run.

What is hard to test here: cascades of `propagate()` in every order; session
ids that collide; miscorrection by Reed-Solomon and the hints that lead to it;
readings that are wrong without being doubted; corners that are found in the
wrong order or beside decoys; outcomes that wrappers cache; handlers of the
page that overlap. `PROJECT.json` lists each hazard at its line with the
properties about it.

## Modules

| Module | Models | Correspondence |
|---|---|---|
| `Closure` | what frames determine under peeling | `Plan[f]` is `DegreeTable::plan`; a block is a formal XOR of source blocks, `Xor` is `xor_into`; `Peeled(F)` is the least set closed under "one block missing" |
| `Fountain` | abstract fountain decoder | one variable for the frames handed over, one for the blocks known |
| `Peeling` | `pz_fountain::Decoder` | the variables are the struct's fields plus the locals of `propagate()`; a step is one loop iteration; `AbsorbSolve`, `AbsorbStore`, `AbsorbRedundant` are the branches of `absorb()`, `Pop`, `VisitEmpty`, `VisitEntry` the loops |
| `SplitMix` | the generator, `prng.rs` | one operator per function, over words of `WordBits` |
| `DegreePlan` | degree table, `DegreeTable::plan`, splitting and joining the message | one step per draw; the generator, the unit and the table's logarithms are parameters |
| `Session` | `pz_core::Decoder` against several transmitters and a lossy camera | the variables are the struct's fields; `AbsorbFinished`, `AbsorbForeign`, `AbsorbTooLarge`, `AbsorbDroplet` are the exits of `absorb()`; the fountain inside is `Closure!Peeled` |
| `Hosts` | `pz-ffi`, `pz-wasm`, the Python extension and `pz decode` around that decoder | extends `Session`; each host's variables are what it keeps beside the decoder and what its caller holds; one `Offer` hands an image to all |
| `Memory` | the memory of `pz-wasm` and `packages/js`, and the buffers of `pz-ffi` | a step is one call of the JavaScript wrapper into the module with the JavaScript around it; `heap` has the layout of each block, `call` the locals of the wrapper's method, `handle` the objects' `_handle`, `held` the `PzBuffer`s of a C caller |
| `FrameDecode` | `decode_sampled()` from the readings on | one step per stage: header, cells, each block, checksum |
| `BoundedDistance` | what `ReedSolomon::decode` promises | `Corrected` lists what it can return; `FrameDecode` and `Vision` rely on it, `ReedSolomon` is checked against it |
| `Galois`, `ReedSolomon` | `gf.rs`, `poly.rs`, `rs.rs` | one operator per function, the code's algorithms over a field of any size |
| `Optics` | `layout.rs`, `FrameProfile::new`, `color.rs`, the cells of `Encoder::frame`, and `decode_sampled()` up to the first repair | `Plan` makes a profile; `Display`, `Capture`, `ReadShot` follow a frame to its readings |
| `Vision` | `pz-vision`, `detect`, `sample_frame`, the loop of `ingest_image` | `Look` takes a picture, `Detect` lists candidates, `Try` samples them one by one; extends `Optics` |
| `Images` | `render.rs`, `png.rs`, `ppm.rs` | draw, write, perhaps save again with other filters or chunks or cut short, read |
| `WebReceiver` | receiving half of `web/app.mjs` | a step is a handler's run between two awaits; `calls[i]` is where the i-th `startCamera()` is |
| `WebSender` | transmitting half of `web/app.mjs` | the same; `builds`, `beams` are the `buildPlan()` and `startBeam()` activations |
| `WebStage` | the stage of `web/app.mjs` | a step is a callback of the browser: `paint()`, the observer, the start and stop of a beam, `pagehide` |
| `Eager` | - | tuples that TLC evaluates once |
| `*Proofs` | the theorems about the module of that name; those about `Session` and `Memory` are in `HostsProofs`, those about `WebStage` in `WebSenderProofs` | |
| `MC*` | small values for the constants; `MCCodecs` and `MCOptics` join the algorithm modules so that each behaviour calls one of them, `MCHosts` joins `Hosts` and `Memory`, `MCWebSender` joins `WebSender` and `WebStage` in the same way | |

They compose in four places. `Peeling` implements `Fountain` (refinement), and
`Session` uses its meaning (`Recovered == Peeled(frames absorbed)`). `Hosts`
runs on top of `Session`. `FrameDecode` and `Vision` use `Corrected`, which
`ReedSolomon` is checked to implement. `Vision` feeds the pixels it samples to
the demodulation of `Optics`, and asks `Corrected` whether the readings are
within repair.

Abstractions worth knowing:

* Blocks of bytes are formal sums, because the fountain code never branches on
  bytes. A frame's plan is a constant, so results hold for every plan.
* The work queue and reference lists of `propagate()` are sets and any member
  may come next. This contains the code's order.
* In `Session` a mixture of two messages assembles to something whose CRC-32
  does not match (`Garbage`), unless the blocks happen to be one transmitter's.
* In `FrameDecode` CRC-32 detects every mismatch; CRC-16 does not: a wrong
  header may pass. A symbol is damaged or not, and doubted (below the erasure
  threshold) or not. In `Vision` the header's checksum is exact.
* `Optics` and `Vision` calculate with integers where the code has `f32`:
  averages are kept as sums, confidences are thousandths, points are in 42nds of
  a pixel. Both compare as the code does except for rounding.
* In `Vision` the camera looks straight at the screen, so a cell is a whole
  number of pixels. Turns, fading light, a hidden corner and a decoy finder
  remain. A candidate whose corners are not a parallelogram is sampled by no
  frame's cells and reads as nothing.
* In `Hosts` every image is offered to every host at once. Their decoders are
  separate but deterministic, so they go through the same states.
* In `Memory` the allocator returns any free address. What a call allocates and
  frees again before it returns is left out, and so is the content of a block. The
  C caller frees each buffer once, as the header tells it to.
* `WebStage` knows of a beam only that it starts and stops, at any time; what a
  painted frame shows is left out.
* In the page, a file is a name, a frame's image is its encoder, and timers are
  steps that may happen at any moment.
* `patient` and `hasFrameCallback` are chosen at the start and never change: a
  user who waits for one operation before the next, and a browser that has
  `requestVideoFrameCallback`. Several guarantees hold only for one choice, and
  each property says which.

## Runs

| Run | Asks | Bounds |
|---|---|---|
| `peeling` | are blocks exact, the count right, nothing stranded, the result independent of order; does the decoder implement `Fountain`; does `absorb()` return | 4 blocks, all 15 plans, 4 calls |
| `session_collision` | with colliding ids, is a mixture ever delivered, a session or result ever dropped, a block forgotten, a counter wrong | 4 transmitters with one id (two with the same message in different profiles, one with a longer message), 3 frame indices, 1 reset |
| `session_unique` | with distinct ids, is the fountain one transmitter's, does a session complete | 3 transmitters, 4 indices, 1 reset |
| `hosts` | do the wrappers tell the same story, does shown progress fall, is the pinned id the one sent; is every block of memory freed once, with its layout, by its owner, and does any call that returns or throws leave one behind | 3 transmitters (two collide, one is too large), 2 indices, 1 reset, 5 kinds of encoder request; 2 JavaScript objects, 4 addresses, one C buffer, 2 lengths, with and without spare capacity |
| `frame_decode` | are accepted droplets exact, guaranteed frames accepted, bursts absorbed | header RS(32,16) with every mix of damage; 2 data blocks of 5 symbols, 4 of them parity, with a damaged run and a doubted run anywhere |
| `codecs` | is Reed-Solomon a bounded-distance decoder and what `Corrected` says; are plans sound and do they end; do pictures survive their files | RS(6,2) over GF(8), shortened by one: every error of up to two symbols and many of three, every set of erasures; a ten-bit generator with 1024 streams over one to five blocks; pictures of one to four cells, with `MaxStored` 7 |
| `optics` | are all profiles sound; is what is read what was displayed, or doubted; is a frame in view found and readable | all 5 grids, 3 modes and 9 parity codes; captures of 33 × 33 frames under 6 exposures, 11 covers in 5 paints; pictures at 2 and 3 pixels per cell in four turns, evenly lit and fading by 10/32, whole, with the bottom right corner hidden, and beside a decoy |
| `receiver` | do pumps and decoders live and end together, does a receiving page have a camera, are streams and URLs lost | 3 starts, both users, both browsers |
| `sender` | is a freed encoder ever held, is the plan the file chosen last, does stopping end the beam; does the sample transfer run whenever its counters are on screen | 1 file that encodes and 1 that does not, 2 encoders, 2 builds in flight per file, 2 beams, both users; 3 beats, 6 pending callbacks of the stage |
| `session_limit`, `frame_hints`, `receiver_leak` | the claims under [findings](#findings) | the smallest that shows them |

Why these bounds are enough. Four blocks and four frames make cascades in which
two entries resolve the same block, an entry shrinks while another is being
visited, and a block becomes known while entries that mention it are still
stored; and for the peeling decoder and the session the theorems below cover every
size anyway. Three indices let a session finish, be repeated and be
polluted; two are enough for the hosts, which only look at outcomes, and every
outcome occurs. Two interleaved blocks of four parity symbols contain every case of
the budget: below, at and one above it, in errors, hints and both; the header
code has its real size. RS(6,2) has the same four parity symbols and is small
enough to compare every received word with every codeword, and GF(8) makes
miscorrection frequent. Ten bits leave the generator's shifts and multiplications
distinct while its outputs can be tabulated; the draws reach every degree, and
the collisions that make `plan` draw again. A `MaxStored` of 7 makes pictures of
four cells span several stored blocks. The profiles are all there are. The
colours of a capture are exhaustive in what the properties tell apart: covered,
filtered, exposed within and beyond what the calibration can undo. Two pixels
per cell is the least that can be read at all (see below). Two pending
activations of a handler are what an
overlap needs; the third start and second beam show what is left over
afterwards. Four addresses are what two objects and the two blocks of a call need,
so that an address is used again for something else, and a second object is freed
and made beside the first. Six callbacks of the stage pile up while it is paused
and resumed within one frame. Counters of `Session` saturate at `MaxCount`; the frame index wraps
at `FrameCount` instead of 2^32.

Deadlock is checked except in `receiver` and `sender`, where the bounded number
of starts and beams runs out, and in `codecs` and `optics`, where an algorithm
that was called once has returned.

Each property of a passing run is broken by a mutant: a definition named
`Bug_...` beside the one it replaces (a dropped guard, a missing reset, an
order swapped), listed in `PROJECT.json`.

## Fairness

* `Peeling`: `WF(Cascade)`. `absorb()` is a synchronous call; once entered, its
  loops run.
* `MCCodecs`: `WF(PlanStep)`, for the same reason: `plan()` is sequential code.
* `Session`: `WF(Ingest(t, i))` for every transmitter and index. A transmitter
  never stops and its index wraps, and a camera that keeps looking catches each
  index again. Without it (all frames lost for ever) nothing could complete.
  The property still allows a reset at any time.
* `WebReceiver`: `WF(PumpStops(i))`. A browser that shows the page calls the
  frame callback it owes. `Due` says when it owes one: never for a hidden tab,
  and never from a video element without a stream.
* `WebSender`, `WebStage`, `Memory`, `Hosts`, `FrameDecode` and the other algorithms have none; they
  claim no liveness.

## Proofs

All theorems hold for every value of the constants under the assumptions stated
in the modules: a finite non-empty set of blocks; any plan; None, garbage and messages
distinct; n > k > 0 for both codes; a derived id of 16 bits; for plans, a
generator that stays within its states; for optics, frames that fit one of the
five grids, and requests for one of these grids, a mode and a parity code that is
any natural number; for files, any square grid of colours at any scale. No assumption restricts ids, orders or numbers of frames, calls,
files or activations. Three need a word:

* `LayoutAssumption` (`Optics`) has no constants in it. It says of the five
  layouts how many data cells each leaves, and that the free cells in scan order sit
  at the places that the frame is drawn from. `Layout` is a fold over up to 9409 cells, so TLC computes the
  assumption in every run that extends the module, and the prover takes it.
* `PaintAssumption` (`Optics`) restricts the solid covers: a cover shows as
  black or white on each channel, or close to the middle on each. A shade
  in between (a quarter of the way, say) is read with some confidence as what it
  is nearest to, and no property could ask for more.
* `SceneAssumption` (`Images`) excludes a black background. Without an ink
  `contrast_ok()` holds whatever the background is, so on black it would promise
  ink that nobody sees; every caller in the repository draws on white.

`PeelingProofs`. `BlocksAreExact`, `NothingStranded` and `Confluent` are not
inductive. `IInv` adds: a stored entry's data is the sum of the blocks it still
names (`EntriesAreExact`); queued and current blocks are solved
(`WorkIsSolved`); an entry that names a block can still be reached from it,
through the reference list or the visit in progress (`EntriesAreReachable`);
every entry is the rest of some frame and every frame is explained or stored
(`EntriesHaveFrames`, `FramesAreKept`); and every known block is derivable from
the frames (`KnownIsDerivable`). One lemma per action shows that each conjunct
survives. When `absorb()` returns, the queue is empty, so entries name unknown
blocks only and at least two of them; hence the known set is closed under the
frames' plans, hence it contains `Peeled`, and by `KnownIsDerivable` it is
`Peeled`. This gives `OrderIndependence` and, step by step,
`DecoderImplementsFountain`. `NoBlockForFree` counts: every solved block and
every entry in store has a useful droplet of its own, because a visit turns one
entry into one block at most. Hence no message of K blocks completes before K
useful droplets, and memory grows with useful droplets only. `CascadesTerminate` replaces
the liveness that the prover cannot do: what a cascade still has to do is a finite
set (blocks not yet taken from the queue), and each iteration takes one off it,
or visits one more slot of the block in hand, or ends the call.

`HostsProofs`, on `Session`. `IInv` adds to the properties that an assembled message is one
of a contributor that announced this very session (`ContainerIsOneMessage`),
that exactly that is delivered (`DeliversContainer`), that a complete fountain
has been assembled (`CompleteIsAssembled`), and that only a mixture
assembles to garbage (`GarbageIsMixed`). The last two give
`NoCompleteMessageWaits`: as soon as one message's droplets determine it, it has been
delivered. `PrefixSuffices` adds that the systematic prefix is always enough,
from an assumption of its own on the plans (`Systematic`), which is what
`DegreeTable::plan` returns for the first K indices. `ProgressNeverFalls`
follows from the monotonicity of `Peeled`. `UniqueIdsIsolate` assumes pairwise
distinct ids and is what the comment in `decoder.rs` claims without that
assumption.

`HostsProofs`, on `Hosts`. Every step of the hosts is a step of `Session` or
leaves it alone (`HostsRunTheCore`), so what is proved of a session holds
beneath them.
`HostsTellTheSame` needs `HInv`: a cached completion is still one
(`CompletionIsReal`), which reset must preserve, and the last call's reports
agree (`LastCallAgrees`). `EncodersSendThePinnedId` is inductive as it stands.
`ShownProgressIsMonotone` rests on `ShownIsPast`: what a caller was shown is
never ahead of the core, which it may lag behind after an error. The core's
share does not fall (`StepKeepsShare`, by cases on whether the step completes
the message or opens the session), and comparing fractions is transitive.

`HostsProofs`, on `Memory`. `NothingIsLeaked` is not inductive: `MInv` adds that each block has one
owner which knows its layout. An object owns what its handle points to
(`ObjectsOwn`); the call in progress owns its argument, its out-cell, the bytes it
was given and the handle it is about to wrap, and which of them it has depends on how far
it is (`CallOwns`, `CallInPhase`); a C caller owns its buffers, whose layout is
their `cap` (`BuffersOwn`); and nothing else is live (`NothingLost`). One case is
excepted, in the property itself: when the allocator fails inside the module the
wrapper's method ends with an exception and does not free its argument (see
[findings](#findings)).

`FrameDecodeProofs`. `IInv` adds where each stage stands (`Progressing`), that
a misread geometry is noticed (`MisreadIsNoticed`), and that codes within their
guarantee were repaired rightly (`GuaranteeKept`). A lemma shows that within
`Guaranteed` the repair of a header or block can only be right, with hints, with
the hints cut to the budget, and after a blind retry. For `BurstsAreAbsorbed`,
`BurstIsSpread` counts what interleaving leaves of a burst in one block: the
rows of its symbols within the burst are different and too few
(`FS_PigeonHole`), so each block stays within `Guaranteed`.

`WebSenderProofs` and `WebReceiverProofs`. For an impatient user only what
each handler restores by itself is inductive (`OwnedIsLive`,
`PumpsHaveDecoders`, `ReceivingHasCamera`, the last through `StreamIsLive`). The
guarantees for a patient user rest on a description of the only overlaps such a
user causes: one read, build, start or finish at a time, with no encoder, camera
or URL meanwhile (`OneAtATime`), the plan in step with the file
(`PlanInStep`), and a single beam (`BeamAlone`). These two invariants were
checked with TLC over the bounds of `sender` and `receiver` before they were
proved. A patient user may still stop a beam at any moment, also while the
request for a wake lock is pending; no property says when that lock is given back,
because the page may keep it (see [findings](#findings)).

`WebSenderProofs`, on `WebStage`. `LossBeatIsAlive` needs with `StageInv` that a running stage
has a callback pending, which each `resume()` must restore, whether or not the
callback that will see the pause has run.

`DegreePlanProofs`. The generator is a parameter: nothing about the quality of
its numbers is used. `PlanInv` says that the blocks drawn so far are different
blocks of the message, no more of them than the degree, which is itself at most
K; and that a finished plan is the frame's own block or those draws in order.
`PlansStaySound` needs that the members of a finite set of numbers, listed by how
many lie below, come in strictly ascending order, and `SplitIsUndone`
that splitting and assembling give back each byte: position i of the payload is
in block (i - 1) / size at (i - 1) % size, and the padding is cut off.
`LoopCanAlwaysEnd` is the safety half of `PlansEnd`: whenever the loop draws
again, a block is left to draw. That a draw will hit it depends on the
generator, and is checked for `SplitMix` with ten bits.

`OpticsProofs`. `PicturesAreReadable` goes from the light up. What a camera
shows of a colour lies between what it shows of black and of white
(`ShowsBetween`). The palette patches, one of them possibly covered, give each channel its low and high averages, in which a covered patch shifts one side by a
quarter at most (`ChannelScale`, by cases on whether that patch is on the low or
the high side), so that black and white are still read with full confidence
(`ChannelIsRead`), a shade near the middle with less than 280
(`MiddlingChannel`), and a collapsed channel with none (`CollapsedChannel`). A colour
is read channel by channel (`ColourReading`), through a filter as a neighbour
that is no code word of `Rgb4` (`FilteredWords`). Beside this,
`PackedIs` shows that packing undoes unpacking: a byte is the sum of
its binary digits (`ByteIs`), each digit lies in the one cell of its place (`PlaceIs`, `BitIs`), and a
byte depends on the cells that hold its bits and on no others, although at three
bits to a cell they straddle bytes. `FrameIs` and `PhotographIs`
connect the two through the places of the layout, and
`ConfidenceOfSymbol` carries doubt about a cell to every symbol with a bit in it. The
invariant itself (`ShotInv`) only says that what is on display, seen and read
belongs to the shot.

`ProfilesStaySound` needs of the behaviour that the plan on display is what
`FrameProfile::new` makes of some request (`PlanMade`); the rest is about that
function. `BlocksAreEven` divides any number of symbols from 17 up, not only the
fifteen totals of the wire format: the fewest blocks of at most 255 have 17
symbols or more each. `ParityGrows` is for blocks of every such size: the eight
ratios, rounded, stay apart and leave six symbols for data. Hence no grid and mode
is too small for any code (`ProfileIs`: only the reserved codes get None), and
`ProfileIsSound` compares each code with the one below. `PartsAreApart` shows that
no cell lies in two function patterns, and `PresetsCompare` goes through the five
presets in numbers (`NamedProfiles`).

`ImagesProofs`. A picture and its file are as large as they like, so what the
codecs compute by recursion has to be known for every size. The community modules
define folds through a recursive function on the subsets of an interval. Such a
function exists (`RecursionExists`, `FoldExists`): the numbers up to which it
does are a set, and a set of numbers has a least member. The same induction over
a set (`UpTo`) then follows a fold step by step. In this way each of the
recursive parts gets a lemma for every input: digits written are digits read
(`NumbersSurvive`), a token is what lies between white space and comments
(`HeaderTokens`), stored blocks put together are the stream that was cut
(`StoredBlocks`, `FlattenedIs`), a row that was filtered is the row again byte
after byte (`UnfilterGives`) and so are the rows, each on top of the one below
(`UnfilteredGives`). `PpmSurvives`, `PngSurvives` and `PngRefused` state what
follows for any picture, and `FilesKeepFrames` adds the drawing: every pixel has the colour of its cell
(`RenderedImage`), the middle of a cell lies in that cell (`CellSeen`), and ink
that passes `contrast_ok()` is darker than its background (`InkIsDarker`). The
inductive invariant `PictureInv` says that the file is one that the code or
another program writes for the frame, or is such a file spoilt or cut in one of the
ways modelled. TLC has checked it on scenes of one and four cells.

Only model-checked, and why:

* liveness (`AbsorbReturns`, `SessionsComplete`, `AnimationFramesFreeDecoders`,
  `PlansEnd`): no fairness reasoning in the prover. For the first and the last
  the theorems above give the safety part;
* `DecodesWithinRadius` and `ImplementsCorrected`: `ReedSolomon` computes in
  `Galois`, whose addition is a bit operation that the prover has no theory of;
* `DisplayedFramesAreFound` (`Vision`): it would need the finder search followed over
  whole pictures of 33 × 33 cells. The way from found corners to readings is
  proved (`PicturesAreReadable`).

## Findings

Each is a run that TLC refutes.

1. `session_limit`. The encoder compares the message with `MAX_PAYLOAD_BYTES`,
   the receiver compares the container, which is four bytes longer. The largest
   four sizes can be sent and never received.
2. `frame_hints`. Erasure hints that use up the whole parity leave nothing to
   detect an error with. With one further error, Reed-Solomon "repairs" the
   block to a wrong codeword and reports success, so the blind retry that the
   comments promise does not happen.
3. `receiver_leak`. A stopped camera's decoder is freed by the next frame of
   the camera, which does not come.

### Observed while modelling, without a run of its own

Disagreements and rough edges met while reading, recorded for whoever edits the
code. None is a counterexample of TLC, so none counts as a finding.

- *Shared ids.* The session id has 16 bits. Two transmitters that draw the same
  id, with the same size and block length, mix in one fountain
  (`decoder.rs:665` says they cannot). The checksum keeps the mixture from being
  delivered, but the session is stuck until it is reset.
- *Repeats count as useful.* `useful()` of the fountain counts a repeated frame
  with two or more unknown blocks again, and `pending` keeps another copy of it
  (`pz-fountain/src/lib.rs:334`, `:345`).
- *Transmitter.* Two overlapping `buildPlan` calls leak an encoder; a new plan
  enables Transmit although the ink is too light, which then throws out of the
  animation frame; a key press can start a second beam, hence `StopEndsBeam` is
  stated for the patient user only. A wake lock that is granted after the beam was
  stopped is kept (`app.mjs:366`, `:394`: `wake` is still null when it would be
  released), until the page is hidden; `LockGranted` and `Stopped` show the steps.
- *Receiver.* Hiding the tab keeps the object URL while the done box is shown
  (`app.mjs:556`; `web/README.md` says it is revoked on hide).
- *Stage.* `resume()` within one frame of `pause()` starts a second animation
  loop beside the first (`app.mjs:117`; `callbacks` counts them in `WebStage`). `beamStop()`
  resumes the stage on any section of the page, where it then runs until the page is
  scrolled, although "only run the sample transfer while its own beat is on screen"
  (`app.mjs:144`, `:399`).
- *Bindings.* `config_to` of the C ABI truncates ids with `as u16` where the
  other bindings reject them; its progress counts are 0 for frames that were not
  found, rejected, or completed the message, and untouched on an error. The wasm
  code -1 means both a protocol error and a bad argument.
- *Allocation.* `pz_alloc` is documented to return null on failure
  (`pz-wasm/src/lib.rs:30`), but `vec!` aborts, which is a trap: the wrapper's
  `wasm allocation failed` (`index.mjs:192`, `:213`) cannot happen. A trap in the middle
  of a method leaves its argument or its out-cell allocated, as there is no
  `finally`; the comment at `index.mjs:111` counts on nobody using the instance afterwards.
- *Command line.* No mono profile; frame files of an earlier, longer run stay
  in the output directory.
- *Images.* PNG decoding ignores CRC and Adler checksums. `contrast_ok` does not
  compare the ink with the other palette colours. `RenderOptions::output_size`
  is 0 for `module_px` 0 where `render` uses 1.
- *Detection.* The three-finder fallback tries one rotation (rfc 10.3 requires
  all four); a chance fourth pattern preempts that fallback;
  `find_corner_marker` looks for 1:1:1:1:1 although all four corners are 7x7
  finders; `find_finder_patterns` documents "strongest first" and returns scan
  order; `sample_bilinear` is half a pixel off, so that one pixel per cell does
  not read and two only just; `Calibration::is_usable` is never called by
  `decode_sampled`; a strong fade can exceed the default parity at two pixels
  per cell.

## Not modelled

- *Perspective proper.* `Vision` looks straight at the screen, turned by
  quarters and scaled by whole pixels, so that the homography through four
  corners found in place is affine. The general one (`solve8`, Gaussian
  elimination over floats) and what rounding does to it are left out.
- *Thresholding by Otsu, global thresholds and `order_corners`*: `detect` does
  not call them.
- *CRC arithmetic.* The two CRC-32s are taken to notice every difference; the
  CRC-16 of the header is not trusted that far, and `FrameDecode` lets any wrong
  header pass it. The polynomials themselves are not modelled.
- *Floating point.* The luma, fade and soliton computations use integers or
  rationals scaled to integers; rounding to the nearest float is left out.
- *The stage's* counters, drop rate and drawing; the JavaScript wrapper's checks of
  its arguments and `load()`; the C++ wrapper, the C ABI's frame handles and caught
  panics; numpy conversions.
- *Files of other programs, beyond the model's.* In `Images` the program that saves a
  picture again and the reader under test share `Predicted`, the definition of the Paeth filter, so
  `FramesSurviveFiles` cannot notice an error that both would make, such as the order in
  which ties are broken. Chunk and zlib framing are left out there too.
- *Command lines* (`pz-cli`, `pz.mjs`): files and arguments.
- *The RFC, build, CI and release*: not programs.

`Galois`, `ReedSolomon` and `SplitMix` use bit operations, which the prover
cannot, and `Vision` scans pictures, so these modules hold no theorems: what
they compute is checked with TLC over bounded inputs only.

## Plan

In the order of what each would add:

1. Small tilts and then perspective in `Vision`, over a rational grid.
2. CRC-16 as a polynomial remainder, with the bursts it is sure to notice.

A proof that is left: the places of the layout from the definition of `Layout`,
which would turn `LayoutAssumption` into a lemma. `RecursionExists` gives the
induction; counting up to 9409 cells is what remains.
