------------------------------- MODULE Tokens -------------------------------
(***************************************************************************)
(* The tokens of a compiled json-formula program and operator_table.       *)
(*                                                                         *)
(* A token is its token_kind and the operator_kind of the operator, or of  *)
(* the root node of the expression, that it owns.  Literal values, key     *)
(* names and the text of identifiers are left out: nothing in the stacks   *)
(* branches on them.  A function token carries the name of its function,   *)
(* whose arity is FunctionArity[name].                                     *)
(***************************************************************************)
EXTENDS Integers, Sequences

CONSTANTS
  Functions,      \* names that static_resources::get_function knows
  FunctionArity   \* their arity, or AnyArity where arity() is empty

AnyArity == -1

ASSUME FunctionAssumption ==
  /\ Functions \subseteq STRING
  /\ FunctionArity \in [Functions -> Nat \cup {AnyArity}]

ProjectionOpers == {"projection_op", "flatten_projection_op"}
UnaryOpers      == {"not_op"}
BinaryOpers     ==
  {"or_op", "and_op", "eq_op", "ne_op", "lt_op", "lte_op", "gt_op", "gte_op",
   "plus_op", "minus_op", "mult_op", "div_op", "concat_op", "union_op"}
DefaultOper     == "default_op"

(***************************************************************************)
(* operator_table: a lower level binds tighter.                            *)
(***************************************************************************)
OperLevel(oper) ==
  CASE oper \in ProjectionOpers -> 11
    [] oper \in {"or_op", "plus_op", "minus_op", "mult_op", "div_op",
                 "concat_op", "union_op"} -> 9
    [] oper = "and_op" -> 8
    [] oper \in {"eq_op", "ne_op"} -> 6
    [] oper \in {"lt_op", "lte_op", "gt_op", "gte_op"} -> 5
    [] OTHER -> 1

OperRightAssociative(oper) == oper \in {"not_op", "projection_op"}

-----------------------------------------------------------------------------
(***************************************************************************)
(* token_kind, less the kinds push_token consumes without storing          *)
(* (rparen and the end_ kinds), which are the Closers.                     *)
(***************************************************************************)
Openers  == {"begin_multi_select_hash", "begin_multi_select_list",
             "begin_filter", "function"}
Closers  == {"rparen", "end_multi_select_hash", "end_multi_select_list",
             "end_filter", "end_function", "end_expression_type",
             "end_of_expression"}
Stored   == Openers \cup
            {"current_node", "lparen", "pipe", "separator", "key", "literal",
             "expression", "binary_operator", "unary_operator", "argument",
             "begin_expression_type"}
Operators == {"unary_operator", "binary_operator"}

Opers == ProjectionOpers \cup UnaryOpers \cup BinaryOpers \cup {DefaultOper, "none"}

Token == [kind : Stored \cup Closers, oper : Opers \cup Functions]

Tok(kind)        == [kind |-> kind, oper |-> "none"]
Expression(oper) == [kind |-> "expression", oper |-> oper]
Unary(oper)      == [kind |-> "unary_operator", oper |-> oper]
Binary(oper)     == [kind |-> "binary_operator", oper |-> oper]
Function(name)   == [kind |-> "function", oper |-> name]
Literal          == Tok("literal")
CurrentNode      == Tok("current_node")
Selector         == Expression(DefaultOper)

(* token::is_projection, is_operator, precedence_level, is_right_associative. *)
IsProjection(tok) == tok.kind = "expression" /\ tok.oper \in ProjectionOpers

IsOperator(tok) == tok.kind \in Operators

precedence_level(tok) ==
  IF tok.kind \in Operators \cup {"expression"} THEN OperLevel(tok.oper) ELSE 0

is_right_associative(tok) ==
  /\ tok.kind \in Operators \cup {"expression"}
  /\ OperRightAssociative(tok.oper)
=============================================================================
