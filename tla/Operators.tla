----------------------------- MODULE Operators ------------------------------
(***************************************************************************)
(* The unary and binary operators of json-formula: what evaluate of each   *)
(* operator class returns for its operands, or Throws.  None sets ec.      *)
(* The arithmetic of doubles is exact here: rounding, a zero with a sign   *)
(* and the text of what is not finite are left out.                        *)
(***************************************************************************)
EXTENDS Json

is_false(v) ==
  \/ Kind(v) \in {"array", "string"} /\ v[2] = <<>>
  \/ IsObject(v) /\ DOMAIN v[2] = {}
  \/ v = False
  \/ IsNumber(v) /\ as_int(v) = 0
  \/ IsNull(v)

is_true(v) == ~is_false(v)

not_expression(v) == Bool(is_false(v))

or_operator(lhs, rhs) ==
  IF IsNull(lhs) /\ IsNull(rhs) THEN Null
  ELSE IF is_true(lhs) THEN lhs ELSE rhs

and_operator(lhs, rhs) == IF is_true(lhs) THEN rhs ELSE lhs

eq_operator(lhs, rhs) == Bool(Equal(lhs, rhs))
ne_operator(lhs, rhs) == Bool(~Equal(lhs, rhs))

-----------------------------------------------------------------------------
(***************************************************************************)
(* lt, lte, gt and gte: `signs` are the outcomes of the comparison that    *)
(* make them true.  A number is compared with the number a string starts   *)
(* with; a string is compared with the text of a number.                   *)
(***************************************************************************)
NumbersOrdered(x, y, signs) ==
  IF y = Throws THEN Throws ELSE Bool(CompareNumbers(x, y) \in signs)

Ordered(lhs, rhs, signs) ==
  CASE (IsNumber(lhs) /\ IsNumber(rhs)) \/ (IsString(lhs) /\ IsString(rhs)) ->
         Bool(Compare(lhs, rhs) \in signs)
    [] IsNumber(lhs) /\ IsString(rhs) ->
         NumbersOrdered(Number(lhs), stod(rhs[2]), signs)
    [] IsString(lhs) /\ IsNumber(rhs) ->
         Bool(CompareTexts(lhs[2], SixDigits(Number(rhs))) \in signs)
    [] OTHER -> False

lt_operator(lhs, rhs)  == Ordered(lhs, rhs, {-1})
lte_operator(lhs, rhs) == Ordered(lhs, rhs, {-1, 0})
gt_operator(lhs, rhs)  == Ordered(lhs, rhs, {1})
gte_operator(lhs, rhs) == Ordered(lhs, rhs, {0, 1})

-----------------------------------------------------------------------------
(* plus, minus, mult and div: the same cases, around another operation. *)
IsScalarCase(lhs, rhs) ==
  \/ IsNumber(lhs) /\ IsNumber(rhs)
  \/ \E v \in {lhs, rhs} : Kind(v) \in {"null", "bool"}

(* An operand beside a null, a boolean, or another number. *)
ScalarOperand(v) ==
  CASE Kind(v) = "double" -> Number(v)
    [] IsString(v)        -> stod(v[2])
    [] Kind(v) = "bool"   -> IF v[2] THEN <<1, 1>> ELSE <<0, 1>>
    [] IsNull(v)          -> <<0, 1>>
    [] OTHER              -> as_integer(v)

Calculate(oper, x, y) ==
  IF Throws \in {x, y} THEN Throws
  ELSE Double(CASE oper = "plus_op"  -> Plus(x, y)
                [] oper = "minus_op" -> Minus(x, y)
                [] oper = "mult_op"  -> Times(x, y)
                [] oper = "div_op"   -> Over(x, y))

(* One element of the result for each position; Throws if one of them does. *)
ArrayOf(results) ==
  IF Throws \in ToSet(results) THEN Throws ELSE Array(results)

TruncatesToShorter(oper, lhs, rhs) ==   \* mutant: the longer tail is dropped
  ArrayOf([k \in 1 .. (IF Len(lhs) < Len(rhs) THEN Len(lhs) ELSE Len(rhs)) |->
             Calculate(oper, as_double(lhs[k]), as_double(rhs[k]))])

(* The shorter array is filled up with zeros. *)
Elementwise(oper, lhs, rhs) ==
  LET At(s, k) == IF k <= Len(s) THEN as_double(s[k]) ELSE <<0, 1>>
  IN ArrayOf([k \in 1 .. (IF Len(lhs) < Len(rhs) THEN Len(rhs) ELSE Len(lhs)) |->
                Calculate(oper, At(lhs, k), At(rhs, k))])

(* The operand that is no array is converted first, once. *)
WithEach(oper, elements, y) ==
  IF y = Throws THEN Throws
  ELSE ArrayOf([k \in DOMAIN elements |-> Calculate(oper, as_double(elements[k]), y)])

EachWith(oper, x, elements) ==
  IF x = Throws THEN Throws
  ELSE ArrayOf([k \in DOMAIN elements |-> Calculate(oper, x, as_double(elements[k]))])

(* What follows the scalar case: strings, arrays, or nothing. *)
Arithmetic(oper, lhs, rhs) ==
  CASE IsString(lhs) \/ IsString(rhs) -> Calculate(oper, as_double(lhs), as_double(rhs))
    [] IsArray(lhs) /\ IsArray(rhs)   -> Elementwise(oper, lhs[2], rhs[2])
    [] IsArray(lhs) /\ ~IsArray(rhs)  -> WithEach(oper, lhs[2], as_double(rhs))
    [] IsArray(rhs) /\ ~IsArray(lhs)  -> EachWith(oper, as_double(lhs), rhs[2])
    [] OTHER -> Null

(* Only between scalars is a division by zero refused. *)
Scalars(oper, x, y) ==
  IF oper = "div_op" /\ Throws \notin {x, y} /\ y[1] = 0 THEN Null
  ELSE Calculate(oper, x, y)

Computed(oper, lhs, rhs) ==
  IF IsScalarCase(lhs, rhs)
  THEN Scalars(oper, ScalarOperand(lhs), ScalarOperand(rhs))
  ELSE Arithmetic(oper, lhs, rhs)

plus_operator(lhs, rhs)  == Computed("plus_op", lhs, rhs)
minus_operator(lhs, rhs) == Computed("minus_op", lhs, rhs)
mult_operator(lhs, rhs)  == Computed("mult_op", lhs, rhs)
div_operator(lhs, rhs)   == Computed("div_op", lhs, rhs)

-----------------------------------------------------------------------------
TextOf(v) ==
  CASE Kind(v) = "int"    -> Decimal(v[2])
    [] Kind(v) = "double" -> SixDigits(v[2])
    [] IsString(v)        -> v[2]
    [] Kind(v) = "bool"   -> IF v[2] THEN <<"t", "r", "u", "e">>
                             ELSE <<"f", "a", "l", "s", "e">>
    [] OTHER              -> <<>>

concat_operator(lhs, rhs) ==
  LET At(v, k) == CASE ~IsArray(v)      -> TextOf(v)
                    [] IsArray(v) /\ k <= Len(v[2]) -> TextOf(v[2][k])
                    [] OTHER            -> <<>>
      size(v)  == IF IsArray(v) THEN Len(v[2]) ELSE 0
      joined(k) == String(At(lhs, k) \o At(rhs, k))
  IN IF IsArray(lhs) \/ IsArray(rhs)
     THEN Array([k \in 1 .. (IF size(lhs) < size(rhs) THEN size(rhs) ELSE size(lhs)) |->
                   joined(k)])
     ELSE IF TextOf(lhs) = <<>> /\ TextOf(rhs) = <<>> THEN Null
     ELSE joined(1)

(* Nulls and objects are not added, and what is added goes to the end. *)
AddToUnion(s, v) ==
  CASE IsArray(v)                    -> s \o v[2]
    [] Kind(v) \in {"null", "object"} -> s
    [] OTHER                         -> Append(s, v)

union_operator(lhs, rhs) ==
  CASE IsArray(lhs)                  -> Array(AddToUnion(lhs[2], rhs))
    [] ~IsArray(lhs) /\ IsArray(rhs) -> Array(AddToUnion(rhs[2], lhs))
    [] OTHER                         -> Null

binary_operator(oper, lhs, rhs) ==
  CASE oper = "or_op"     -> or_operator(lhs, rhs)
    [] oper = "and_op"    -> and_operator(lhs, rhs)
    [] oper = "eq_op"     -> eq_operator(lhs, rhs)
    [] oper = "ne_op"     -> ne_operator(lhs, rhs)
    [] oper = "lt_op"     -> lt_operator(lhs, rhs)
    [] oper = "lte_op"    -> lte_operator(lhs, rhs)
    [] oper = "gt_op"     -> gt_operator(lhs, rhs)
    [] oper = "gte_op"    -> gte_operator(lhs, rhs)
    [] oper = "plus_op"   -> plus_operator(lhs, rhs)
    [] oper = "minus_op"  -> minus_operator(lhs, rhs)
    [] oper = "mult_op"   -> mult_operator(lhs, rhs)
    [] oper = "div_op"    -> div_operator(lhs, rhs)
    [] oper = "concat_op" -> concat_operator(lhs, rhs)
    [] oper = "union_op"  -> union_operator(lhs, rhs)
=============================================================================
