---------------------------- MODULE SliceProofs -----------------------------
(***************************************************************************)
(* For every slice and every array, the loop of slice_projection stays in  *)
(* the array, ends, and selects what the slice says.                       *)
(***************************************************************************)
EXTENDS Slice, TLAPS

(***************************************************************************)
(* The bounds of the loop are in the array once it has begun.  Only then   *)
(* does "i is before end" say that i is a position: a loop that goes up    *)
(* needs i at 0 or above, and one that goes down needs i below size.  Each *)
(* pass takes i at least one position further.                             *)
(***************************************************************************)
LoopInBounds ==
  status = "visiting" =>
    /\ step_ # 0
    /\ step_ > 0 => i >= Len(visited) /\ end <= size
    /\ step_ < 0 => i + Len(visited) < size /\ end >= -1

NothingYet == status = "called" => visited = <<>>

IInv == TypeOK /\ NothingYet /\ LoopInBounds /\ VisitedInBounds /\ EndsInTime

(* What get_start and get_stop are clamped to. *)
LEMMA FirstAndLast ==
  ASSUME TypeOK, step_ # 0
  PROVE  /\ first \in Int /\ last \in Int
         /\ step_ > 0 => first >= 0 /\ last <= size
         /\ step_ < 0 => first < size /\ last >= -1
<1>1. get_start \in Int /\ get_start <= size
  BY SliceAssumption DEF TypeOK, get_start, StartOf, FromTheEnd
<1>2. get_stop \in Int /\ get_stop <= size
  BY SliceAssumption DEF TypeOK, get_stop, StopOf, FromTheEnd
<1> QED BY <1>1, <1>2 DEF TypeOK, first, last, FirstFrom, LastFrom

LEMMA InitInv == Init => IInv
BY SliceAssumption
   DEF Init, IInv, TypeOK, NothingYet, LoopInBounds, VisitedInBounds, EndsInTime, MinInt

LEMMA NextInv == IInv /\ [Next]_vars => IInv'
<1> SUFFICES ASSUME IInv, [Next]_vars PROVE IInv'
  OBVIOUS
<1> USE DEF IInv
<1>1. CASE Begin
  <2>1. TypeOK'
    BY <1>1, FirstAndLast DEF Begin, TypeOK
  <2>2. LoopInBounds'
    BY <1>1, FirstAndLast DEF Begin, LoopInBounds, NothingYet, TypeOK
  <2>3. VisitedInBounds' /\ EndsInTime'
    BY <1>1 DEF Begin, VisitedInBounds, EndsInTime
  <2>4. NothingYet'
    BY <1>1 DEF Begin, NothingYet
  <2> QED BY <2>1, <2>2, <2>3, <2>4
<1>2. CASE Visit
  <2>1. i \in 0 .. size - 1
    BY <1>2 DEF Visit, InLoop, LoopInBounds, TypeOK
  <2>2. TypeOK'
    BY <1>2 DEF Visit, TypeOK
  <2>3. Len(visited') = Len(visited) + 1
    BY <1>2 DEF Visit, TypeOK
  <2>4. LoopInBounds'
    BY <1>2, <2>3 DEF Visit, LoopInBounds, TypeOK
  <2>5. VisitedInBounds'
    BY <1>2, <2>1 DEF Visit, VisitedInBounds, TypeOK
  <2>6. EndsInTime'
    BY <1>2, <2>1, <2>3 DEF Visit, InLoop, LoopInBounds, EndsInTime, TypeOK
  <2>7. NothingYet'
    BY <1>2 DEF Visit, NothingYet
  <2> QED BY <2>2, <2>4, <2>5, <2>6, <2>7
<1>3. CASE Finish
  BY <1>3 DEF Finish, TypeOK, NothingYet, LoopInBounds, VisitedInBounds, EndsInTime
<1>4. CASE Returned \/ UNCHANGED vars
  BY <1>4
     DEF Returned, vars, TypeOK, NothingYet, LoopInBounds, VisitedInBounds, EndsInTime
<1> QED BY <1>1, <1>2, <1>3, <1>4 DEF Next

(* The state of the loop keeps its types. *)
THEOREM TypeCorrect == Spec => []TypeOK
BY InitInv, NextInv, PTL DEF Spec, IInv

(***************************************************************************)
(* val.at(i) is called with positions of the array only, whatever start,   *)
(* stop and step are written.                                              *)
(***************************************************************************)
THEOREM StaysInArray == Spec => []VisitedInBounds
BY InitInv, NextInv, PTL DEF Spec, IInv

(* The loop never takes more passes than the array has elements. *)
THEOREM LoopEndsInTime == Spec => []EndsInTime
BY InitInv, NextInv, PTL DEF Spec, IInv

-----------------------------------------------------------------------------
(***************************************************************************)
(* What the loop selects.  Both directions are one when positions are      *)
(* measured from the beginning of the slice, in its direction: Distance    *)
(* grows by Stride with each pass.                                         *)
(***************************************************************************)
Stride == IF step_ > 0 THEN step_ ELSE -step_

Distance(p) == IF step_ > 0 THEN p - Range[1] ELSE Range[1] - p

BeforeEnd(p) == IF step_ > 0 THEN p < Range[2] ELSE p > Range[2]

LEMMA MultipleOf ==
  ASSUME NEW s \in Int, s > 0, NEW q \in Int
  PROVE  (s * q) % s = 0
OBVIOUS

(* A multiple of s is s from the next, and none is between them. *)
LEMMA NextMultiple ==
  ASSUME NEW s \in Int, s > 0, NEW x \in Int, x % s = 0
  PROVE  /\ (x + s) % s = 0
         /\ \A y \in Int : y % s = 0 /\ x < y => x + s <= y
<1>1. x = s * (x \div s) /\ x \div s \in Int
  OBVIOUS
<1> DEFINE q == x \div s
<1>2. x + s = s * (q + 1) /\ q + 1 \in Int
  BY <1>1
<1>3. (x + s) % s = 0
  <2> HIDE DEF q
  <2>1. (s * (q + 1)) % s = 0
    BY <1>2, MultipleOf
  <2> QED BY <1>2, <2>1, Zenon
<1>4. ASSUME NEW y \in Int, y % s = 0, x < y, y < x + s PROVE FALSE
  <2>1. y = s * (y \div s) /\ y \div s \in Int
    BY <1>4
  <2> DEFINE r == y \div s
  <2>2. y - x = s * (r - q) /\ r - q \in Int
    BY <1>1, <2>1
  <2> HIDE DEF q, r
  <2>3. r - q > 0
    BY <1>4, <2>2
  <2>4. r - q < 1
    BY <1>4, <2>2
  <2> QED BY <2>2, <2>3, <2>4
<1> QED BY <1>3, <1>4

(***************************************************************************)
(* Before the loop is through, i is a whole number of strides into the     *)
(* slice, or nothing can be selected; end cuts off what the end of the     *)
(* slice cuts off; and the selected positions up to i have been visited.   *)
(***************************************************************************)
Visited == {visited[k] : k \in DOMAIN visited}

VisitedSoFar ==
  status = "visiting" =>
    /\ \A p \in 0 .. size - 1 : BeforeEnd(p) <=> IF step_ > 0 THEN p < end ELSE p > end
    /\ \/ Distance(i) >= 0 /\ Distance(i) % Stride = 0
       \/ i < 0
    /\ Visited = {p \in Selected : Distance(p) < Distance(i)}

InOrder ==
  status = "visiting" =>
    /\ \A k \in DOMAIN visited : Distance(visited[k]) < Distance(i)
    /\ \A k \in 2 .. Len(visited) : Distance(visited[k-1]) < Distance(visited[k])

Complete == VisitedSoFar /\ InOrder /\ SelectsTheSlice

LEMMA SelectedByDistance ==
  ASSUME TypeOK, step_ # 0
  PROVE  /\ Selected = {p \in 0 .. size - 1 : Distance(p) >= 0 /\ BeforeEnd(p)
                                             /\ Distance(p) % Stride = 0}
         /\ Stride \in Int /\ Stride > 0
         /\ \A p \in Int : Distance(p) \in Int /\ Distance(p + step_) = Distance(p) + Stride
         /\ Range[1] \in Int /\ Range[2] \in Int
<1>1. Range[1] \in Int /\ Range[2] \in Int
  BY SliceAssumption DEF TypeOK, Range, Clamp, FromEnd
<1>2. Stride \in Int /\ Stride > 0
  BY DEF Stride, TypeOK
<1>3. \A p \in Int : Distance(p) \in Int /\ Distance(p + step_) = Distance(p) + Stride
  BY <1>1 DEF Distance, Stride, TypeOK
<1>4. Selected = {p \in 0 .. size - 1 : Distance(p) >= 0 /\ BeforeEnd(p)
                                       /\ Distance(p) % Stride = 0}
  <2> SUFFICES ASSUME NEW p \in 0 .. size - 1
      PROVE  (IF step_ > 0 THEN p >= Range[1] /\ p < Range[2] /\ (p - Range[1]) % step_ = 0
              ELSE p <= Range[1] /\ p > Range[2] /\ (Range[1] - p) % (-step_) = 0)
             <=> Distance(p) >= 0 /\ BeforeEnd(p) /\ Distance(p) % Stride = 0
    BY DEF Selected
  <2> QED BY <1>1 DEF TypeOK, Distance, BeforeEnd, Stride
<1> QED BY <1>1, <1>2, <1>3, <1>4

LEMMA DistanceOrders ==
  ASSUME TypeOK, step_ # 0, NEW p \in Int, NEW q \in Int
  PROVE  /\ Distance(p) < Distance(q) <=> IF step_ > 0 THEN p < q ELSE p > q
         /\ Distance(p) = Distance(q) => p = q
         /\ step_ < 0 /\ Range[1] < 0 /\ p >= 0 => Distance(p) < 0
<1>1. Range[1] \in Int
  BY SelectedByDistance
<1> QED BY <1>1 DEF Distance, TypeOK

(* The bounds that the code computes are those of the reference, or select *)
(* the same.                                                               *)
LEMMA SameBounds ==
  ASSUME TypeOK, step_ # 0
  PROVE  /\ first = Range[1] \/ (step_ < 0 /\ first < 0 /\ Range[1] < 0)
         /\ \A p \in 0 .. size - 1 : BeforeEnd(p) <=> IF step_ > 0 THEN p < last ELSE p > last
<1>1. first = Range[1] \/ (step_ < 0 /\ first < 0 /\ Range[1] < 0)
  BY SliceAssumption
     DEF TypeOK, first, FirstFrom, get_start, StartOf, FromTheEnd, Range, Clamp, FromEnd
<1>2. \A p \in 0 .. size - 1 : BeforeEnd(p) <=> IF step_ > 0 THEN p < last ELSE p > last
  BY SliceAssumption
     DEF TypeOK, last, LastFrom, get_stop, StopOf, FromTheEnd, Range, Clamp, FromEnd, BeforeEnd
<1> QED BY <1>1, <1>2

LEMMA InitComplete == Init => Complete
BY DEF Init, Complete, VisitedSoFar, InOrder, SelectsTheSlice

(* The loop changes nothing of what a position is measured by. *)
LEMMA SameMeasure ==
  ASSUME UNCHANGED <<start_, stop_, step_, size>>
  PROVE  /\ Stride' = Stride /\ Selected' = Selected
         /\ \A p : Distance(p)' = Distance(p)
         /\ \A p : BeforeEnd(p)' <=> BeforeEnd(p)
BY DEF Range, FromEnd, Stride, Selected, Distance, BeforeEnd

LEMMA BeginComplete ==
  ASSUME IInv, Complete, Begin, step_ # 0
  PROVE  Complete'
<1>0. TypeOK /\ NothingYet
  BY DEF IInv
<1>1. /\ status' = "visiting" /\ i' = first /\ end' = last /\ visited' = <<>>
      /\ UNCHANGED <<start_, stop_, step_, size>>
  BY <1>0 DEF Begin, NothingYet
<1>2. /\ Stride' = Stride /\ Selected' = Selected
      /\ \A p : Distance(p)' = Distance(p)
      /\ \A p : BeforeEnd(p)' <=> BeforeEnd(p)
  BY <1>1, SameMeasure
<1>3. first \in Int
  BY <1>0, FirstAndLast
<1>4. first = Range[1] => Distance(first) = 0
  BY <1>0, <1>3, SelectedByDistance DEF Distance
<1>5. (Distance(first) >= 0 /\ Distance(first) % Stride = 0) \/ first < 0
  BY <1>0, <1>4, SameBounds, SelectedByDistance
<1>6. ASSUME NEW p \in Selected PROVE ~(Distance(p) < Distance(first))
  <2>1. p \in 0 .. size - 1 /\ Distance(p) >= 0 /\ Distance(p) \in Int
    BY <1>0, <1>6, SelectedByDistance
  <2>2. CASE first = Range[1]
    BY <1>4, <2>1, <2>2
  <2>3. CASE step_ < 0 /\ Range[1] < 0
    BY <2>1, <2>3, <1>0, DistanceOrders
  <2> QED BY <1>0, <2>2, <2>3, SameBounds
<1>7. \A p \in 0 .. size - 1 : BeforeEnd(p) <=> IF step_ > 0 THEN p < last ELSE p > last
  BY <1>0, SameBounds
<1>8. VisitedSoFar'
  <2>1. Visited' = {}
    BY <1>1 DEF Visited
  <2>2. Distance(i)' = Distance(first)
    BY <1>1, <1>2 DEF Distance
  <2> QED BY <1>1, <1>2, <1>5, <1>6, <1>7, <2>1, <2>2 DEF VisitedSoFar
<1>9. InOrder' /\ SelectsTheSlice'
  BY <1>1 DEF InOrder, SelectsTheSlice
<1> QED BY <1>8, <1>9 DEF Complete

LEMMA VisitComplete ==
  ASSUME IInv, Complete, Visit, status' = "visiting"
  PROVE  Complete'
<1>0. TypeOK /\ LoopInBounds /\ step_ # 0 /\ status = "visiting" /\ VisitedSoFar /\ InOrder
  BY DEF IInv, LoopInBounds, Visit, Complete
<1>1. /\ i' = i + step_ /\ end' = end /\ visited' = Append(visited, i)
      /\ UNCHANGED <<start_, stop_, step_, size>>
  BY DEF Visit
<1>2. /\ Stride' = Stride /\ Selected' = Selected
      /\ \A p : Distance(p)' = Distance(p)
      /\ \A p : BeforeEnd(p)' <=> BeforeEnd(p)
  BY <1>1, SameMeasure
<1>3. i \in 0 .. size - 1 /\ BeforeEnd(i)
  <2>1. i \in 0 .. size - 1
    BY <1>0 DEF Visit, InLoop, LoopInBounds, TypeOK
  <2> QED BY <1>0, <2>1 DEF VisitedSoFar, Visit, InLoop
<1>4. Distance(i) >= 0 /\ Distance(i) % Stride = 0
  BY <1>0, <1>3 DEF VisitedSoFar
<1>5. i \in Selected
  BY <1>0, <1>3, <1>4, SelectedByDistance
<1>6. Distance(i)' = Distance(i) + Stride /\ Distance(i) \in Int /\ Stride \in Int /\ Stride > 0
  <2>1. Distance(i)' = Distance(i + step_)
    BY <1>1, <1>2 DEF Distance
  <2> QED BY <1>0, <1>3, <2>1, SelectedByDistance
<1>7. Distance(i)' >= 0 /\ (Distance(i)') % Stride = 0
  <2>1. (Distance(i) + Stride) % Stride = 0
    BY <1>4, <1>6, NextMultiple
  <2> QED BY <1>4, <1>6, <2>1
<1>8. ASSUME NEW p \in Selected
      PROVE  Distance(p) < Distance(i)' <=> Distance(p) < Distance(i) \/ p = i
  <2>1. p \in Int /\ Distance(p) \in Int /\ Distance(p) % Stride = 0
    BY <1>0, SelectedByDistance
  <2>2. Distance(p) > Distance(i) => Distance(p) >= Distance(i) + Stride
    BY <1>4, <1>6, <2>1, NextMultiple
  <2>3. Distance(p) = Distance(i) => p = i
    BY <1>0, <2>1, DistanceOrders DEF TypeOK
  <2> QED BY <1>6, <2>1, <2>2, <2>3
<1>9. Visited' = Visited \cup {i}
  BY <1>0, <1>1 DEF Visited, TypeOK
<1>10. VisitedSoFar'
  BY <1>0, <1>1, <1>2, <1>5, <1>7, <1>8, <1>9 DEF VisitedSoFar
<1>11. InOrder'
  <2>1. ASSUME NEW k \in DOMAIN visited PROVE visited[k] \in Int /\ Distance(visited[k]) \in Int
    <3>1. visited[k] \in Int
      BY <1>0, <2>1 DEF TypeOK
    <3> QED BY <1>0, <3>1, SelectedByDistance
  <2>2. /\ Len(visited') = Len(visited) + 1 /\ DOMAIN visited' = 1 .. Len(visited) + 1
        /\ \A k \in DOMAIN visited : visited'[k] = visited[k]
        /\ visited'[Len(visited) + 1] = i /\ DOMAIN visited = 1 .. Len(visited)
        /\ Len(visited) \in Nat
    BY <1>0, <1>1 DEF TypeOK
  <2>3. \A k \in DOMAIN visited' : Distance(visited'[k]) < Distance(i)'
    BY <1>0, <1>6, <2>1, <2>2 DEF InOrder
  <2>4. \A k \in 2 .. Len(visited') : Distance(visited'[k-1]) < Distance(visited'[k])
    BY <1>0, <2>2 DEF InOrder
  <2> QED BY <1>2, <2>3, <2>4 DEF InOrder
<1>12. SelectsTheSlice'
  BY DEF SelectsTheSlice
<1> QED BY <1>10, <1>11, <1>12 DEF Complete

LEMMA FinishComplete ==
  ASSUME IInv, Complete, Finish
  PROVE  Complete'
<1>0. TypeOK /\ LoopInBounds /\ step_ # 0 /\ status = "visiting" /\ VisitedSoFar /\ InOrder
  BY DEF IInv, LoopInBounds, Finish, Complete
<1>1. status' = "done" /\ UNCHANGED <<start_, stop_, step_, size, i, end, visited>>
  BY DEF Finish
<1>2. ASSUME NEW p \in Selected PROVE Distance(p) < Distance(i)
  <2>1. p \in 0 .. size - 1 /\ BeforeEnd(p)
    BY <1>0, SelectedByDistance
  <2>2. IF step_ > 0 THEN p < i ELSE p > i
    BY <1>0, <2>1 DEF VisitedSoFar, Finish, InLoop, TypeOK
  <2> QED BY <1>0, <2>1, <2>2, DistanceOrders DEF TypeOK
<1>3. Visited = Selected
  BY <1>0, <1>2 DEF VisitedSoFar
<1>4. ASSUME NEW k \in 2 .. Len(visited)
      PROVE  IF step_ > 0 THEN visited[k-1] < visited[k] ELSE visited[k-1] > visited[k]
  <2>1. visited[k-1] \in Int /\ visited[k] \in Int
    BY <1>0 DEF TypeOK
  <2>2. Distance(visited[k-1]) < Distance(visited[k])
    BY <1>0 DEF InOrder
  <2> QED BY <1>0, <2>1, <2>2, DistanceOrders DEF TypeOK
<1>5. SelectsTheSlice'
  <2>1. Selected' = Selected
    BY <1>1, SameMeasure
  <2> QED BY <1>1, <1>3, <1>4, <2>1 DEF SelectsTheSlice, Visited
<1> QED BY <1>1, <1>5 DEF Complete, VisitedSoFar, InOrder

LEMMA NextComplete == IInv /\ Complete /\ [Next]_vars => Complete'
<1> SUFFICES ASSUME IInv, Complete, [Next]_vars PROVE Complete'
  OBVIOUS
<1>1. CASE Begin
  <2>1. step_ = 0 => Complete'
    BY <1>1 DEF Begin, Complete, VisitedSoFar, InOrder, SelectsTheSlice
  <2> QED BY <1>1, <2>1, BeginComplete
<1>2. CASE Visit
  <2>1. status' # "visiting" => Complete'
    BY <1>2 DEF Visit, Complete, VisitedSoFar, InOrder, SelectsTheSlice
  <2> QED BY <1>2, <2>1, VisitComplete
<1>3. CASE Finish
  BY <1>3, FinishComplete
<1>4. CASE Returned \/ UNCHANGED vars
  <2>1. UNCHANGED vars
    BY <1>4 DEF Returned
  <2>2. /\ Stride' = Stride /\ Selected' = Selected
        /\ \A p : Distance(p)' = Distance(p)
        /\ \A p : BeforeEnd(p)' <=> BeforeEnd(p)
    BY <2>1, SameMeasure DEF vars
  <2>3. VisitedSoFar' /\ InOrder' /\ SelectsTheSlice'
    BY <2>1, <2>2 DEF vars, Complete, VisitedSoFar, InOrder, SelectsTheSlice, Visited, Distance, Range, FromEnd
  <2> QED BY <2>3 DEF Complete
<1> QED BY <1>1, <1>2, <1>3, <1>4 DEF Next

(***************************************************************************)
(* A slice selects the positions that the reference says, in its order and *)
(* each once, for every start, stop and step and every size of array.      *)
(***************************************************************************)
THEOREM SliceIsCorrect == Spec => []SelectsTheSlice
<1>1. Spec => []IInv
  BY InitInv, NextInv, PTL DEF Spec
<1>2. Complete => SelectsTheSlice
  BY DEF Complete
<1> QED BY <1>1, <1>2, InitComplete, NextComplete, PTL DEF Spec
=============================================================================
