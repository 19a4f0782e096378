----------------------------- MODULE PixelMapping -----------------------------
(* From desktop pixels to presentation pixels: where the mapped desktop lies,   *)
(* which source pixel a presentation pixel samples, which presentation pixels a *)
(* dirty span touches, and where a row is stored.  Axes are alike; a span is    *)
(* half open, as in the code.                                                   *)
EXTENDS Integers, FiniteSets

Ceil(a, b) == (a + b - 1) \div b
Least(a, b) == IF a < b THEN a ELSE b
Span(lo, hi) == lo .. hi - 1

\* The destination of the calibrated rectangle: floor one edge, ceil the other.
Placed(offset, size, storage, output) ==
  [lo |-> (offset * storage) \div output,
   hi |-> Least(storage, Ceil((offset + size) * storage, output))]

\* x_sample, y_sample and x_edge, y_edge.
Sample(i, source, target) == (i * source) \div target
\* Fault: the edge of a span rounded down.
FirstEdge(i, source, target) == (i * target) \div source
Edge(i, source, target) == Least(target, Ceil(i * target, source))

\* rfb_dirty_mark_rect: each row keeps one span around all that touched it.
Rows(rects) == UNION {Span(r.y, r.y + r.h) : r \in rects}
Hull(rects, row) ==
  LET touching == {r \in rects : row \in Span(r.y, r.y + r.h)}
      left == {r.x : r \in touching}
      right == {r.x + r.w : r \in touching}
  IN  [lo |-> CHOOSE x \in left : \A other \in left : x <= other,
       hi |-> CHOOSE x \in right : \A other \in right : other <= x]

\* What an update of the hidden buffer writes, walking rows and spans by edges.
DirtyColumns(span, source, target) ==
  Span(Edge(span.lo, source, target), Edge(span.hi, source, target))

Updated(rects, size, target) ==
  LET rows == Rows(rects)
      top == CHOOSE y \in rows : \A other \in rows : y <= other
      bottom == CHOOSE y \in rows : \A other \in rows : other <= y
      walked == Span(Edge(top, size.h, target.h), Edge(bottom + 1, size.h, target.h))
  IN  UNION {{<<x, y>> : x \in DirtyColumns(Hull(rects, Sample(y, size.h, target.h)),
                                            size.w, target.w)}
               : y \in {row \in walked : Sample(row, size.h, target.h) \in rows}}

\* hires_bg_storage_row: an interlaced frame keeps its even rows first.
StorageRow(row, height, separated) ==
  IF separated THEN row \div 2 + (IF row % 2 = 1 THEN height \div 2 ELSE 0) ELSE row

------------------------------------------------------------------------------
(* Reference: the complete rebuild samples every presentation pixel.            *)

Resampled(rects, size, target) ==
  {pixel \in (0 .. target.w - 1) \X (0 .. target.h - 1) :
     /\ Sample(pixel[2], size.h, target.h) \in Rows(rects)
     /\ LET span == Hull(rects, Sample(pixel[2], size.h, target.h))
        IN  Sample(pixel[1], size.w, target.w) \in Span(span.lo, span.hi)}

Sizes(n) == [w : 1 .. n, h : 1 .. n]
RectsIn(size) ==
  {r \in [x : 0 .. size.w - 1, y : 0 .. size.h - 1, w : 1 .. size.w, h : 1 .. size.h] :
     r.x + r.w <= size.w /\ r.y + r.h <= size.h}

\* A dirty span is carried into the hidden buffer by edges, the full rebuild
\* samples pixel by pixel: both must give the same picture, at every scale, and
\* no pixel of the span may sample outside it (the code then gives up).
DeltaIsRebuild(n) ==
  \A size \in Sizes(n), target \in Sizes(n) : \A one, other \in RectsIn(size) :
    Updated({one, other}, size, target) = Resampled({one, other}, size, target)

\* The destination is never empty and never past the storage, and an identity
\* scale places the rectangle where it is.
PlacementFits(n) ==
  \A storage, output \in 1 .. n : \A offset \in 0 .. output - 1 :
    \A size \in 1 .. output - offset :
      LET place == Placed(offset, size, storage, output)
      IN  /\ 0 <= place.lo /\ place.lo < place.hi /\ place.hi <= storage
          /\ storage = output => place = [lo |-> offset, hi |-> offset + size]

\* Every row has a place of its own, and each field is one contiguous half.
RowsKeptApart(n) ==
  \A half \in 1 .. n : \A separated \in BOOLEAN :
    LET height == 2 * half
        stored == [row \in 0 .. height - 1 |-> StorageRow(row, height, separated)]
    IN  /\ {stored[row] : row \in DOMAIN stored} = DOMAIN stored
        /\ separated => \A row \in DOMAIN stored : (stored[row] < half) = (row % 2 = 0)

===============================================================================
