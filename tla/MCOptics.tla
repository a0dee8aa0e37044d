------------------------------ MODULE MCOptics ------------------------------
EXTENDS Vision
MCProfiles == [grid : 0 .. 4, mode : Modes, parity_code : 0 .. 8]

Frame(mode, seed) ==
  [grid |-> 0, mode |-> mode,
   symbols |-> Tuple([i \in 1 .. (CASE mode = "Mono" -> 63 [] mode = "Rgb4" -> 127
                                [] mode = "Rgb8" -> 191) |->
                       ((i * (37 + seed)) + (i \div 3)) % 256]),
   header |-> Tuple([i \in 1 .. 32 |-> ((i * 73) + seed) % 256])]
Seen(f, exposure, smudge) ==
  [grid |-> f.grid, mode |-> f.mode, symbols |-> f.symbols, header |-> f.header,
   exposure |-> exposure, smudge |-> smudge]

Light(gain, bias) == [gain |-> gain, bias |-> bias]
Daylight == Light(<<8, 8, 8>>, <<0, 0, 0>>)
Lamp == Light(<<7, 5, 3>>, <<10, 25, 60>>)
MCExposures == {Daylight, Lamp, Light(<<8, 8, 8>>, <<220, 200, 180>>),
                Light(<<1, 1, 1>>, <<90, 80, 70>>), Light(<<8, 8, 0>>, <<0, 0, 128>>),
                Light(<<8, 8, 8>>, <<255, 255, 255>>)}

Solid(v) == [kind |-> "solid", rgb |-> v]
Filter(ch) == [kind |-> "filter", channel |-> ch]
Smudge(data, header, patches, paint) ==
  [data |-> data, header |-> header, patches |-> patches, paint |-> paint]
MCSmudges ==
  {Smudge(s[1], s[2], s[3], paint) :
     s \in {<<{1}, {}, {}>>, <<{3}, {}, {}>>, <<200 .. 230, {}, {}>>,
            <<508 .. 510, {}, {}>>, <<{511}, {}, {}>>, <<{}, 9 .. 16, {}>>,
            <<{}, 1 .. 140, {}>>, <<{}, {}, {0}>>, <<{}, {}, {6}>>,
            <<{}, {}, {7}>>, <<{5, 6}, {}, {0, 1, 2, 3}>>},
     paint \in {Solid(<<255, 255, 0>>), Solid(<<128, 128, 128>>),
               Filter(1), Filter(2), Filter(3)}}
MCShots ==
  {Seen(Frame(mode, 0), e, s) : mode \in Modes, e \in {Daylight, Lamp}, s \in MCSmudges}
  \cup
  {Seen(Frame(mode, 1), e, Smudge(S, {}, {}, Solid(<<128, 128, 128>>))) :
     mode \in Modes, e \in MCExposures, S \in {{}, {200}}}
View(mode, px, quiet, turn, shade, hidden, decoy) ==
  [frame |-> Frame(mode, 2), px |-> px, quiet |-> quiet, turn |-> turn,
   shade |-> shade, hidden |-> hidden, decoy |-> decoy]
MCViews ==
  {View(mode, px, 2, turn, shade, hidden, FALSE) :
     mode \in Modes, px \in {2, 3}, turn \in 0 .. 3, shade \in {0, 10},
     hidden \in {{}, {3}}}
  \cup {View(mode, 2, 3, turn, 10, {}, TRUE) : mode \in Modes, turn \in 0 .. 3}

Init == OpticsInit /\ VisionInit
Next == \/ view = None /\ OpticsNext /\ UNCHANGED VisionVars
        \/ plan = None /\ shot = None /\ VisionNext /\ UNCHANGED OpticsVars
Spec == Init /\ [][Next]_<<OpticsVars, VisionVars>>
=============================================================================
