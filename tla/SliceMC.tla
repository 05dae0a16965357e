------------------------------ MODULE SliceMC -------------------------------
(* Values for the constants of Slice: an int64_t of four bits. *)
EXTENDS Slice

SmallBounds == -8 .. 7
=============================================================================
