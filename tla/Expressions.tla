---------------------------- MODULE Expressions -----------------------------
(***************************************************************************)
(* The expression nodes, the functions that call back into an expression,  *)
(* and the evaluate_tokens that both call: the machine of TokenMachine     *)
(* with what nodes, operators and functions compute.                       *)
(*                                                                         *)
(* An expression is its node, what the node was constructed with, and the  *)
(* expressions_ of a projection.                                           *)
(***************************************************************************)
EXTENDS TokenMachine, FunctionLibrary, SliceBounds

CONSTANTS
  MaxInt    \* the largest int64_t

ASSUME ExpressionsAssumption == MaxInt \in Nat /\ Absent \notin Int

Node(node, arg) == [node |-> node, arg |-> arg, exprs |-> <<>>]

Projections == {"object_projection", "list_projection", "slice_projection",
                "filter_expression", "flatten_projection"}

operator_kind(e) ==
  CASE e.node = "flatten_projection" -> "flatten_projection_op"
    [] e.node \in Projections \ {"flatten_projection"} -> "projection_op"
    [] OTHER -> DefaultOper

Owning(tok, x) == [kind |-> tok.kind, oper |-> tok.oper, of |-> x]
Bare(tok)      == Owning(tok, "nothing")

ExpressionToken(e) == Owning(Expression(operator_kind(e)), e)
LiteralToken(v)    == Owning(Literal, v)

Stacks == INSTANCE TokenStacks

-----------------------------------------------------------------------------
(* projection_base::add_expression.  An expression that binds tighter than *)
(* the projection at the end, or as tight and to the right, goes into it.  *)
AddAtTheEnd(p, e) ==   \* mutant: an expression never goes into another
  [p EXCEPT !.exprs = Append(@, e)]

RECURSIVE add_expression(_, _)
add_expression(p, e) ==
  LET inner == [n \in DOMAIN p.exprs |-> ExpressionToken(p.exprs[n])]
  IN IF Stacks!JoinsProjection(inner, ExpressionToken(e))
     THEN [p EXCEPT !.exprs[Len(p.exprs)] = add_expression(@, e)]
     ELSE [p EXCEPT !.exprs = Append(@, e)]

(* push_token of an expression, with what AddExpression leaves out. *)
push_expression(q, e) ==
  IF Stacks!JoinsProjection(q, ExpressionToken(e))
  THEN [q EXCEPT ![Len(q)].of = add_expression(@, e)]
  ELSE Append(q, ExpressionToken(e))

-----------------------------------------------------------------------------
identifier_selector(key, v) ==
  IF IsObject(v) THEN IF key \in DOMAIN v[2] THEN v[2][key] ELSE Null ELSE Null

Wrapped(n) == ((n + MaxInt + 1) % (2 * (MaxInt + 1))) - MaxInt - 1

(* The sum may overflow for an index near MaxInt.  It then wraps, or is     *)
(* taken to be no less than the size: null in either case.                 *)
index_selector(index, v) ==
  IF ~IsArray(v) THEN Null
  ELSE LET slen == Len(v[2])
       IN CASE index \in 0 .. slen - 1 -> v[2][index + 1]
            [] index \notin 0 .. slen - 1 /\ Wrapped(slen + index) \in 0 .. slen - 1 ->
                 v[2][Wrapped(slen + index) + 1]
            [] OTHER -> Null

(* slice: [start, stop, step]; the elements that the loop of Slice visits. *)
SliceElements(s, elements) ==
  LET size  == Len(elements)
      first == FirstFrom(StartOf(s.start, s.step, size), s.step, size)
      last  == LastFrom(StopOf(s.stop, s.step, size), s.step, size)
      room  == IF s.step > 0 THEN last - first ELSE first - last
      count == IF room <= 0 THEN 0
               ELSE (room + Magnitude(s.step) - 1) \div Magnitude(s.step)
  IN [n \in 1 .. count |-> elements[first + (n - 1) * s.step + 1]]

(* One level of arrays is taken away. *)
FlatElements(elements) ==
  FlattenSeq([n \in DOMAIN elements |->
                IF IsArray(elements[n]) THEN elements[n][2] ELSE <<elements[n]>>])

-----------------------------------------------------------------------------
RECURSIVE Evaluate(_, _, _), evaluate_tokens(_, _, _)

apply_expressions(exprs, v, ec) ==
  FoldLeft(LAMBDA r, e : IF IsThrown(r.val) THEN r ELSE Evaluate(e, r.val, r.ec),
           Result(v, ec), exprs)

(* j.val is put at the end of an array, as it is or as a const pointer. *)
Extended(r, j, v) ==
  IF IsThrown(j.val) THEN j ELSE Result(Array(Append(r.val[2], v)), j.ec)

PointsTo(r, j) == Extended(r, j, Pointed(j.val))

(* An array of const pointers to what the expressions make of each element. *)
Projected(exprs, elements, ec) ==
  FoldLeft(LAMBDA r, v :
             IF IsThrown(r.val) THEN r ELSE PointsTo(r, apply_expressions(exprs, v, r.ec)),
           Result(Array(<<>>), ec), elements)

object_projection(e, v, ec) ==
  IF IsObject(v) THEN Projected(e.exprs, Members(v), ec) ELSE Result(Null, ec)

(* A null is projected to an array with a null in it. *)
list_projection(e, v, ec) ==
  CASE IsArray(v) -> Projected(e.exprs, v[2], ec)
    [] IsNull(v)  -> Result(Array(<<Null>>), ec)
    [] OTHER      -> Result(Null, ec)

slice_projection(e, v, ec) ==
  CASE ~IsArray(v)                     -> Result(Null, ec)
    [] IsArray(v) /\ e.arg.step = 0    -> Result(Null, "step_cannot_be_zero")
    [] OTHER -> Projected(e.exprs, SliceElements(e.arg, v[2]), ec)

flatten_projection(e, v, ec) ==
  IF IsArray(v) THEN Projected(e.exprs, FlatElements(v[2]), ec) ELSE Result(Null, ec)

filter_expression(e, v, ec) ==
  LET Kept(r, item, c) ==
        CASE IsThrown(c.val) -> c
          [] ~IsThrown(c.val) /\ is_false(c.val) -> Result(r.val, c.ec)
          [] OTHER -> PointsTo(r, apply_expressions(e.exprs, item, c.ec))
      Filtered(r, item) ==
        IF IsThrown(r.val) THEN r ELSE Kept(r, item, evaluate_tokens(item, e.arg, r.ec))
  IN IF IsArray(v) THEN FoldLeft(Filtered, Result(Array(<<>>), ec), v[2])
     ELSE Result(Null, ec)

multi_select_list(e, v, ec) ==
  LET Element(r, toks) ==
        IF IsThrown(r.val) THEN r ELSE PointsTo(r, evaluate_tokens(v, toks, r.ec))
  IN IF e.arg = <<>> THEN Result(Null, "invalid_object")
     ELSE FoldLeft(Element, Result(Array(<<>>), ec), e.arg)

(* try_emplace: of two members with one key the first is kept. *)
multi_select_hash(e, v, ec) ==
  LET Emplaced(r, f, key, j) ==
        CASE IsThrown(j.val) -> j
          [] ~IsThrown(j.val) /\ key \in DOMAIN f -> Result(r.val, j.ec)
          [] OTHER -> Result(Object([k \in DOMAIN f \cup {key} |->
                                       IF k = key THEN Pointed(j.val) ELSE f[k]]), j.ec)
      Member(r, m) ==
        IF IsThrown(r.val) THEN r
        ELSE Emplaced(r, r.val[2], m.key, evaluate_tokens(v, m.toks, r.ec))
  IN IF e.arg = <<>> THEN Result(Null, "invalid_object")
     ELSE FoldLeft(Member, Result(Object([k \in {} |-> Null]), ec), e.arg)

Evaluate(e, v, ec) ==
  CASE e.node = "identifier_selector" -> Result(identifier_selector(e.arg, v), ec)
    [] e.node = "current_node"        -> Result(v, ec)
    [] e.node = "index_selector"      -> Result(index_selector(e.arg, v), ec)
    [] e.node = "object_projection"   -> object_projection(e, v, ec)
    [] e.node = "list_projection"     -> list_projection(e, v, ec)
    [] e.node = "slice_projection"    -> slice_projection(e, v, ec)
    [] e.node = "filter_expression"   -> filter_expression(e, v, ec)
    [] e.node = "flatten_projection"  -> flatten_projection(e, v, ec)
    [] e.node = "multi_select_list"   -> multi_select_list(e, v, ec)
    [] e.node = "multi_select_hash"   -> multi_select_hash(e, v, ec)
    [] e.node = "function_expression" -> evaluate_tokens(v, e.arg, ec)
-----------------------------------------------------------------------------
(***************************************************************************)
(* The functions that call back.  sort_by, max_by and min_by give the      *)
(* expression an ec of its own and do not look at it: an expression that   *)
(* fails shows as a key that is null.                                      *)
(***************************************************************************)
TakesExpression(args) == ~IsExpressionArgument(args[1]) /\ IsExpressionArgument(args[2])

(* Each key is compared as it is made, so the first bad one is the last. *)
KeysInTurn(e, elements) ==
  LET Keyed(r, j) == Extended(r, j, j.val)
  IN FoldLeft(LAMBDA r, item :
                IF IsThrown(r.val) THEN r
                ELSE IF ~OfOneKind(r.val[2]) THEN r
                ELSE Keyed(r, Evaluate(e, item, r.ec)),
              Result(Array(<<>>), NoCode), elements).val

ExtremeIn(elements, found, sign) ==
  CASE elements = <<>> -> Null
    [] elements # <<>> /\ IsThrown(found) -> found
    [] OTHER -> IF OfOneKind(found[2]) THEN elements[Extreme(found[2], sign)] ELSE InvalidType

ExtremeBy(args, sign) ==
  CASE ~TakesExpression(args) -> InvalidType
    [] TakesExpression(args) /\ ~IsArray(args[1]) -> InvalidType
    [] OTHER -> ExtremeIn(args[1][2], KeysInTurn(args[2][2], args[1][2]), sign)

max_by(args) == ExtremeBy(args, 1)
min_by(args) == ExtremeBy(args, -1)

(* A sort compares every element at least once, and any two kinds of key    *)
(* with each other: a bad key is always noticed.                           *)
SortedBy(elements, found) ==
  CASE Len(elements) <= 1 -> Array(elements)
    [] Len(elements) > 1 /\ (\E n \in DOMAIN found : IsThrown(found[n])) ->
         SelectSeq(found, IsThrown)[1]
    [] OTHER -> IF OfOneKind(found) THEN Array(StableSort(elements, found)) ELSE InvalidType

sort_by(args) ==
  CASE ~TakesExpression(args) -> InvalidType
    [] TakesExpression(args) /\ ~IsArray(args[1]) -> InvalidType
    [] OTHER -> SortedBy(args[1][2], [n \in DOMAIN args[1][2] |->
                                        Evaluate(args[2][2], args[1][2][n], NoCode).val])

(* map tests ec after each element, and takes any error for a wrong type,   *)
(* one that was there before the call included.                            *)
map(args, ec) ==
  LET WithNext(r, j) ==
        CASE IsThrown(j.val) -> j.val
          [] ~IsThrown(j.val) /\ j.ec # NoCode -> InvalidType
          [] OTHER -> Array(Append(r[2], Pointed(j.val)))
      Mapped(r, item) ==
        IF IsThrown(r) \/ IsError(r) THEN r ELSE WithNext(r, Evaluate(args[1][2], item, ec))
  IN CASE ~(IsExpressionArgument(args[1]) /\ ~IsExpressionArgument(args[2])) -> InvalidType
       [] IsExpressionArgument(args[1]) /\ Kind(args[2]) = "array" ->
            FoldLeft(Mapped, Array(<<>>), args[2][2])
       [] OTHER -> InvalidType

call_function(name, args, ec) ==
  CASE name = "map"     -> map(args, ec)
    [] name = "max_by"  -> max_by(args)
    [] name = "min_by"  -> min_by(args)
    [] name = "sort_by" -> sort_by(args)
    [] OTHER            -> library_function(name, args)

-----------------------------------------------------------------------------
(* What the tokens of evaluate_tokens compute: its other steps are those of *)
(* TokenMachine, and a list is run until it has an outcome.                *)
compute(tok, operands, ec) ==
  CASE tok.kind = "expression"      -> Evaluate(tok.of, operands[1], ec)
    [] tok.kind = "unary_operator"  -> Result(not_expression(operands[1]), ec)
    [] tok.kind = "binary_operator" ->
         Result(binary_operator(tok.oper, operands[1], operands[2]), ec)

RECURSIVE Run(_)
Run(m) == IF m.outcome # "running" THEN m ELSE Run(Pass(m, compute, call_function))

evaluate_tokens(doc, toks, ec) == ResultOf(Run(Called(doc, toks, ec)))
=============================================================================
