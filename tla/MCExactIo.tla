------------------------------ MODULE MCExactIo ------------------------------
(* Two connections over at most two descriptors, so that a descriptor is reused *)
(* or is not; a buffer that is smaller than one read and larger than another.   *)
EXTENDS ExactIo
==============================================================================
