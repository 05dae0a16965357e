----------------------------- MODULE SliceBounds -----------------------------
(***************************************************************************)
(* slice::get_start and slice::get_stop, and the bounds that               *)
(* slice_projection::evaluate makes of them.                               *)
(***************************************************************************)
EXTENDS Integers

CONSTANT Absent      \* an optional<int64_t> without a value

(* A bound counts from the end when it is negative, and is cut at the size. *)
FromTheEnd(n, size) ==
  LET len == IF n >= 0 THEN n ELSE size + n
  IN IF len <= size THEN len ELSE size

StartOf(start_, step_, size) ==
  IF start_ # Absent THEN FromTheEnd(start_, size)
  ELSE IF step_ >= 0 THEN 0 ELSE size

StopOf(stop_, step_, size) ==
  IF stop_ # Absent THEN FromTheEnd(stop_, size)
  ELSE IF step_ >= 0 THEN size ELSE -1

FirstFrom(start, step_, size) ==
  IF step_ > 0 THEN (IF start < 0 THEN 0 ELSE start)
  ELSE IF start >= size THEN size - 1 ELSE start

LastFrom(stop, step_, size) ==
  IF step_ > 0 THEN (IF stop > size THEN size ELSE stop)
  ELSE IF stop < -1 THEN -1 ELSE stop
=============================================================================
