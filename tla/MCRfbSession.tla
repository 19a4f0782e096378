---------------------------- MODULE MCRfbSession -----------------------------
(* A 2x2 desktop, geometries that some guard refuses, and rectangles that tile  *)
(* it, overlap, are empty, leave it, or would be inside again if sums wrapped.  *)
EXTENDS RfbSession

R(rx, ry, rw, rh) == [x |-> rx, y |-> ry, width |-> rw, height |-> rh]

MCGeometries == {<<2, 2>>, <<3, 1>>, <<2, 3>>, <<3, 3>>, <<0, 2>>}

MCWireRects ==
  {R(0, 0, 2, 2), R(0, 0, 2, 1), R(0, 1, 2, 1), R(0, 1, 1, 1), R(1, 1, 1, 1),
   R(2, 0, 0, 2), R(0, 0, 3, 1), R(1, 0, 15, 1)}
==============================================================================
