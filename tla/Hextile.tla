------------------------------- MODULE Hextile --------------------------------
(* The Hextile decoder: how a rectangle is cut into tiles, and which background *)
(* and foreground a tile is painted with when it does not bring its own.        *)
EXTENDS Integers, Sequences, FiniteSets

CONSTANT NoColour

\* A tile: RAW, what it specifies, whether it has subrectangles and whether
\* these bring their own colours.
Tiles(colours) ==
  {tile \in [raw : BOOLEAN, bg : colours \cup {NoColour}, fg : colours \cup {NoColour},
             any : BOOLEAN, colored : BOOLEAN] :
     tile.raw => tile.bg = NoColour /\ tile.fg = NoColour /\ ~tile.any /\ ~tile.colored}

\* One axis of the tile loops: cuts of at most `most', the last one shorter.
Cuts(first, length, most) ==
  {[lo |-> first + most * k,
    size |-> IF length - most * k > most THEN most ELSE length - most * k]
     : k \in {k \in 0 .. length : most * k < length}}

\* hextile_recv_subrects refuses a subrectangle that leaves its tile.
SubrectFits(sub, width, height) == sub.x + sub.w <= width /\ sub.y + sub.h <= height

\* The loop of hextile_recv_rect: what is carried, and how each tile is painted.
Paint(bg, fg) == [bg |-> bg, fg |-> fg]
Begin == [bg |-> NoColour, fg |-> NoColour, ok |-> TRUE, painted |-> <<>>]
Broken(state) == [state EXCEPT !.ok = FALSE]

\* A tile that is not raw: what it specifies, or else what is carried.
Chosen(specified, carried) == IF specified # NoColour THEN specified ELSE carried

PaintTile(state, tile, bg, fg) ==
  IF \/ bg = NoColour
     \/ tile.fg # NoColour /\ tile.colored
     \/ tile.any /\ ~tile.colored /\ fg = NoColour
  THEN Broken(state)
  ELSE [state EXCEPT
          !.bg = bg, !.fg = IF tile.colored THEN NoColour ELSE fg,
          !.painted = Append(@, Paint(bg, IF ~tile.any THEN NoColour
                                          ELSE IF tile.colored THEN "colored" ELSE fg))]

\* Fault: colours are carried over a raw tile.
DecodeTileCarriesOverRaw(state, tile) ==
  IF ~state.ok THEN state
  ELSE IF tile.raw
  THEN [state EXCEPT !.painted = Append(@, Paint("raw", "raw"))]
  ELSE PaintTile(state, tile, Chosen(tile.bg, state.bg), Chosen(tile.fg, state.fg))

DecodeTile(state, tile) ==
  IF ~state.ok THEN state
  ELSE IF tile.raw
  THEN [state EXCEPT !.bg = NoColour, !.fg = NoColour,
                     !.painted = Append(@, Paint("raw", "raw"))]
  ELSE PaintTile(state, tile, Chosen(tile.bg, state.bg), Chosen(tile.fg, state.fg))

DecodeRect(stream) ==
  LET after[n \in 0 .. Len(stream)] ==
        IF n = 0 THEN Begin ELSE DecodeTile(after[n - 1], stream[n])
  IN  after[Len(stream)]

------------------------------------------------------------------------------
(* Reference, the rule the protocol states: a colour that a tile leaves out is  *)
(* the last one specified, unless a tile in between broke the carry.            *)

InForce(specified, broken, i) ==
  IF \E j \in 1 .. i : specified[j] # NoColour /\ \A k \in j .. i - 1 : ~broken[k]
  THEN specified[CHOOSE j \in 1 .. i : /\ specified[j] # NoColour
                                       /\ \A k \in j + 1 .. i : specified[k] = NoColour]
  ELSE NoColour

Background(stream, i) ==
  InForce([j \in DOMAIN stream |-> stream[j].bg], [j \in DOMAIN stream |-> stream[j].raw], i)
Foreground(stream, i) ==
  InForce([j \in DOMAIN stream |-> stream[j].fg],
          [j \in DOMAIN stream |-> stream[j].raw \/ stream[j].colored], i)

Legal(stream) ==
  \A i \in DOMAIN stream : LET tile == stream[i] IN
    ~tile.raw =>
      /\ Background(stream, i) # NoColour
      /\ ~(tile.fg # NoColour /\ tile.colored)
      /\ tile.any /\ ~tile.colored => Foreground(stream, i) # NoColour

Painted(stream, i) ==
  LET tile == stream[i]
  IN  IF tile.raw THEN Paint("raw", "raw")
      ELSE Paint(Background(stream, i),
                 IF ~tile.any THEN NoColour
                 ELSE IF tile.colored THEN "colored" ELSE Foreground(stream, i))

\* The decoder accepts exactly the legal streams, and paints every tile with the
\* colours in force: the carry across plain, coloured and raw tiles is the
\* protocol's.
CarriesTheColours(colours, n) ==
  \A length \in 1 .. n : \A stream \in [1 .. length -> Tiles(colours)] :
    LET result == DecodeRect(stream)
    IN  /\ result.ok = Legal(stream)
        /\ result.ok => \A i \in 1 .. length : result.painted[i] = Painted(stream, i)

\* The tiles of a rectangle cover it once, whatever its place and size.
TilesPartition(n, most) ==
  \A first \in 0 .. 2 : \A length \in 1 .. n :
    LET cuts == Cuts(first, length, most)
    IN  \A x \in 0 .. first + length + most :
          Cardinality({cut \in cuts : x \in cut.lo .. cut.lo + cut.size - 1})
            = IF x \in first .. first + length - 1 THEN 1 ELSE 0

===============================================================================
