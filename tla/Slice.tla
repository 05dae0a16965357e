------------------------------- MODULE Slice --------------------------------
(***************************************************************************)
(* slice_projection::evaluate over an array of `size` elements: the bounds *)
(* that slice::get_start and slice::get_stop compute, and the loop that    *)
(* visits the elements.  Applying the expressions of the projection to an  *)
(* element is left out.                                                    *)
(*                                                                         *)
(* int64_t is MinInt .. MaxInt.  The step that passes MaxInt or MinInt is  *)
(* signed overflow: undefined behaviour.                                   *)
(***************************************************************************)
EXTENDS SliceBounds, Sequences

CONSTANTS
  MaxInt,     \* the largest int64_t
  Bounds,     \* bound: the integers written as start, stop and step
  MaxSize     \* bound: the number of elements of the array

MinInt == -MaxInt - 1

ASSUME SliceAssumption ==
  /\ MaxInt \in Nat /\ MaxSize \in 0 .. MaxInt
  /\ Bounds \subseteq MinInt .. MaxInt
  /\ Absent \notin Int

VARIABLES
  start_, stop_, step_,   \* the slice; start_ and stop_ may be absent
  size,                   \* val.size()
  i, end,                 \* the loop
  visited,                \* history: the positions handed to val.at, in order
  status

vars == <<start_, stop_, step_, size, i, end, visited, status>>

get_start == StartOf(start_, step_, size)

StopsAtZero ==   \* mutant: a slice that goes down leaves out position 0
  IF stop_ # Absent
  THEN LET len == IF stop_ >= 0 THEN stop_ ELSE size + stop_
       IN IF len <= size THEN len ELSE size
  ELSE IF step_ >= 0 THEN size ELSE 0

get_stop == StopOf(stop_, step_, size)

FirstUnclamped == get_start   \* mutant: a negative start is not brought to 0

FirstOfAbsent ==   \* mutant: an absent start has no default
  IF start_ = Absent THEN start_
  ELSE IF step_ > 0 THEN (IF get_start < 0 THEN 0 ELSE get_start)
  ELSE IF get_start >= size THEN size - 1 ELSE get_start

first == FirstFrom(get_start, step_, size)

last == LastFrom(get_stop, step_, size)

Init ==
  /\ start_ \in Bounds \cup {Absent}
  /\ stop_ \in Bounds \cup {Absent}
  /\ step_ \in Bounds
  /\ size \in 0 .. MaxSize
  /\ i = 0 /\ end = 0
  /\ visited = <<>>
  /\ status = "called"

BeginWithAnyStep ==   \* mutant: a step of zero is not refused
  /\ status = "called"
  /\ status' = "visiting" /\ i' = first /\ end' = last
  /\ UNCHANGED <<start_, stop_, step_, size, visited>>

Begin ==
  /\ status = "called"
  /\ IF step_ = 0
     THEN status' = "step_cannot_be_zero" /\ UNCHANGED <<i, end>>
     ELSE status' = "visiting" /\ i' = first /\ end' = last
  /\ UNCHANGED <<start_, stop_, step_, size, visited>>

InLoop == IF step_ > 0 THEN i < end ELSE i > end

Visit ==
  /\ status = "visiting" /\ InLoop
  /\ visited' = Append(visited, i)
  /\ IF i + step_ \in MinInt .. MaxInt
     THEN i' = i + step_ /\ UNCHANGED status
     ELSE status' = "undefined" /\ UNCHANGED i
  /\ UNCHANGED <<start_, stop_, step_, size, end>>

Finish ==
  /\ status = "visiting" /\ ~InLoop
  /\ status' = "done"
  /\ UNCHANGED <<start_, stop_, step_, size, i, end, visited>>

Returned == status \notin {"called", "visiting"} /\ UNCHANGED vars

Next == Begin \/ Visit \/ Finish \/ Returned

Spec == Init /\ [][Next]_vars

-----------------------------------------------------------------------------
(* Type correctness. *)
TypeOK ==
  /\ start_ \in Int \cup {Absent} /\ stop_ \in Int \cup {Absent} /\ step_ \in Int
  /\ size \in Nat
  /\ i \in Int /\ end \in Int
  /\ visited \in Seq(Int)
  /\ status \in {"called", "visiting", "done", "step_cannot_be_zero", "undefined"}

(* val.at is called with positions of the array only. *)
VisitedInBounds == \A k \in DOMAIN visited : visited[k] \in 0 .. size - 1

(***************************************************************************)
(* The reference: a position is selected when it is reached from the       *)
(* beginning of the slice by whole steps and lies before its end, where    *)
(* both count from the end of the array when negative.  The grammar of     *)
(* slices in the json-formula specification is that of Python.             *)
(***************************************************************************)
FromEnd(n) == IF n < 0 THEN n + size ELSE n

Clamp(lo, hi, n) == IF n < lo THEN lo ELSE IF n > hi THEN hi ELSE n

Range ==
  IF step_ > 0
  THEN <<IF start_ = Absent THEN 0 ELSE Clamp(0, size, FromEnd(start_)),
         IF stop_ = Absent THEN size ELSE Clamp(0, size, FromEnd(stop_))>>
  ELSE <<IF start_ = Absent THEN size - 1 ELSE Clamp(-1, size - 1, FromEnd(start_)),
         IF stop_ = Absent THEN -1 ELSE Clamp(-1, size - 1, FromEnd(stop_))>>

Selected ==
  {p \in 0 .. size - 1 :
     IF step_ > 0 THEN p >= Range[1] /\ p < Range[2] /\ (p - Range[1]) % step_ = 0
     ELSE p <= Range[1] /\ p > Range[2] /\ (Range[1] - p) % (-step_) = 0}

(* A slice selects what the reference says, each position once, in order. *)
SelectsTheSlice ==
  status = "done" =>
    /\ {visited[k] : k \in DOMAIN visited} = Selected
    /\ \A k \in 2 .. Len(visited) :
         IF step_ > 0 THEN visited[k-1] < visited[k] ELSE visited[k-1] > visited[k]

(***************************************************************************)
(* The loop ends: it takes no more passes than the array has elements.  A  *)
(* step of zero, which would take passes for ever, is refused before it.   *)
(***************************************************************************)
EndsInTime == Len(visited) <= size
=============================================================================
