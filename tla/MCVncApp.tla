------------------------------ MODULE MCVncApp -------------------------------
(* The coordinator on a 2x1 desktop: whole, half and empty rectangles, one that *)
(* leaves the desktop, and a server that may announce another geometry.         *)
EXTENDS VncApp

R(rx, ry, rw, rh) == [x |-> rx, y |-> ry, width |-> rw, height |-> rh]

MCGeometries == {<<2, 1>>, <<1, 1>>, <<0, 1>>}

MCWireRects ==
  {R(0, 0, 2, 1), R(0, 0, 1, 1), R(1, 0, 1, 1), R(0, 0, 2, 0), R(1, 0, 2, 1)}
==============================================================================
