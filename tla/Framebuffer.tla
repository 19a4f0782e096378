----------------------------- MODULE Framebuffer -----------------------------
(* The authoritative CPU-side desktop image of src/src/framebuffer.c, as       *)
(* operators on one record.                                                     *)
(*                                                                              *)
(* A pixel is abstracted to the number of the FramebufferUpdate message that    *)
(* last wrote it (0: no update ever did).  The stored colour is irrelevant to   *)
(* what the code decides; which update a pixel came from is exactly what        *)
(* "valid" and "dirty" make claims about.                                       *)
EXTENDS Naturals

CONSTANTS MaxWidth, MaxHeight   \* the widest and tallest geometry in use
CONSTANT Capacity               \* pixel_capacity, in pixels

ASSUME FramebufferAssumption ==
  /\ MaxWidth \in Nat \ {0}
  /\ MaxHeight \in Nat \ {0}
  /\ Capacity \in Nat

AllCells == (0 .. MaxWidth - 1) \X (0 .. MaxHeight - 1)

Rectangles == [x : Nat, y : Nat, width : Nat, height : Nat]

NoRect == [x |-> 0, y |-> 0, width |-> 0, height |-> 0]

Framebuffers ==
  [width : 0 .. MaxWidth, height : 0 .. MaxHeight, valid : BOOLEAN,
   dirty : BOOLEAN, dirty_rect : Rectangles, pixels : [AllCells -> Nat]]

\* The logical pixels of the current geometry, and those of a rectangle.
CellsOf(fb) == (0 .. fb.width - 1) \X (0 .. fb.height - 1)

RectCells(r) == (r.x .. r.x + r.width - 1) \X (r.y .. r.y + r.height - 1)

PixelCount(fb) == fb.width * fb.height

\* Fault: sums kept in too few bits (here four) wrap around.
WrappingSumsFit(r, fb) ==
  /\ (r.x + r.width) % 16 <= fb.width
  /\ (r.y + r.height) % 16 <= fb.height

\* The widened sums of region_fits (rfb_session.c): a zero-sized region fits.
RegionFits(r, fb) ==
  /\ r.x + r.width <= fb.width
  /\ r.y + r.height <= fb.height

RectFits(r, fb) ==
  /\ r.width # 0
  /\ r.height # 0
  /\ RegionFits(r, fb)

ClearDirty(fb) == [fb EXCEPT !.dirty = FALSE, !.dirty_rect = NoRect]

Invalidate(fb) == [ClearDirty(fb) EXCEPT !.valid = FALSE]

MarkValid(fb) == [fb EXCEPT !.valid = TRUE]

Lower(a, b) == IF a < b THEN a ELSE b
Higher(a, b) == IF a < b THEN b ELSE a

\* The bounding box of the dirty box so far and one more rectangle.
Enclose(d, r) ==
  LET left == Lower(d.x, r.x)
      top == Lower(d.y, r.y)
  IN [x |-> left,
      y |-> top,
      width |-> Higher(d.x + d.width, r.x + r.width) - left,
      height |-> Higher(d.y + d.height, r.y + r.height) - top]

IncludeDirty(fb, r) ==
  [fb EXCEPT !.dirty = TRUE,
             !.dirty_rect = IF fb.dirty THEN Enclose(fb.dirty_rect, r) ELSE r]

\* write_rect once its guards hold: the pixels, then the dirty box.
WriteRect(fb, r, stamp) ==
  IncludeDirty([fb EXCEPT !.pixels =
                  [c \in AllCells |-> IF c \in RectCells(r) THEN stamp
                                                            ELSE fb.pixels[c]]],
               r)

Empty ==
  [width |-> 0, height |-> 0, valid |-> FALSE, dirty |-> FALSE,
   dirty_rect |-> NoRect, pixels |-> [c \in AllCells |-> 0]]

GeometryAccepted(w, h) == w # 0 /\ h # 0 /\ w * h <= Capacity

\* A new geometry re-interprets the same storage, so no logical pixel is known
\* to come from an update any more unless the geometry stays what it was.
SetGeometry(fb, w, h) ==
  Invalidate([fb EXCEPT !.width = w, !.height = h,
                        !.pixels = IF w = fb.width /\ h = fb.height
                                   THEN fb.pixels
                                   ELSE [c \in AllCells |-> 0]])
==============================================================================
