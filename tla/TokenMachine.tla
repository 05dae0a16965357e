---------------------------- MODULE TokenMachine ----------------------------
(***************************************************************************)
(* evaluate_tokens with the values it computes: m is the state of one      *)
(* call, and Pass one pass of its loop, or what follows the loop.          *)
(* EvaluateTokens is its abstraction: the kinds of the parameters, without *)
(* the values.                                                             *)
(*                                                                         *)
(* A program token is a Token with a third field, what the token owns: a   *)
(* literal or an expression.  What expressions, operators and functions    *)
(* compute is a parameter of Pass, given by the module that uses this one: *)
(*  - Compute(tok, operands, ec), the Result of a token for its operands;  *)
(*  - CallFunction(name, args, ec), what a function returns.               *)
(***************************************************************************)
EXTENDS Tokens, Values, SequencesExt

Called(doc, toks, ec) ==
  [toks |-> toks, i |-> 1, root |-> doc, stack |-> <<>>, args |-> <<>>,
   ec |-> ec, outcome |-> "running", thrown |-> "nothing"]

Stop(m, how) == [m EXCEPT !.outcome = how]
Rethrow(m, v) == [m EXCEPT !.outcome = "throws", !.thrown = v[3]]

(* `size` parameters are taken off, p is put there, and tokens are passed. *)
PushedTo(m, size, p, passed) ==
  [m EXCEPT !.stack = Append(SubSeq(@, 1, Len(@) - size), p), !.i = @ + passed]

(* ec is written to where something fails, and is never cleared. *)
Written(old, new) == IF new = NoCode THEN old ELSE new

(* The value of r is put in the place of `size` parameters. *)
Replaced(m, size, r) ==
  IF IsThrown(r.val) THEN Rethrow(m, r.val)
  ELSE [PushedTo(m, size, ValueParameter(r.val), 1) EXCEPT !.ec = Written(@, r.ec)]

(* What an expression or an operator is applied to, and puts in its place. *)
Taken(m) == IF m.toks[m.i].kind = "binary_operator" THEN 2 ELSE 1

Operands(m) ==
  LET below == Len(m.stack) - Taken(m)
  IN [k \in 1 .. Taken(m) |-> ValueOf(m.stack[below + k])]

Applied(m, result) ==
  LET below == Len(m.stack) - Taken(m)
  IN IF Len(m.stack) < Taken(m) THEN Stop(m, "assertion")
     ELSE IF \E k \in 1 .. Taken(m) : IsExpressionArgument(m.stack[below + k])
     THEN Stop(m, "undefined")
     ELSE Replaced(m, Taken(m), result)

PipeStays(m) ==   \* mutant: the pipe is not passed
  [m EXCEPT !.root = ValueOf(Last(m.stack))]

TokenPipe(m) ==
  IF m.stack = <<>> THEN Stop(m, "assertion")
  ELSE IF IsExpressionArgument(Last(m.stack)) THEN Stop(m, "undefined")
  ELSE [m EXCEPT !.root = ValueOf(Last(m.stack)), !.i = @ + 1]

EvaluatesTheArgument(m) ==   \* mutant: the expression token is not passed over
  IF m.i < Len(m.toks) /\ m.stack # <<>> /\ m.toks[m.i + 1].kind = "expression"
  THEN PushedTo(m, 1, ExpressionArgument(m.toks[m.i + 1].of), 1)
  ELSE Stop(m, "assertion")

TokenExpressionType(m) ==
  IF m.i < Len(m.toks) /\ m.stack # <<>> /\ m.toks[m.i + 1].kind = "expression"
  THEN PushedTo(m, 1, ExpressionArgument(m.toks[m.i + 1].of), 2)
  ELSE Stop(m, "assertion")

TokenArgument(m) ==
  IF m.stack = <<>> THEN Stop(m, "assertion")
  ELSE [m EXCEPT !.args = Append(@, Last(m.stack)), !.stack = Front(@), !.i = @ + 1]

(* A function gets values as they are. *)
Passed(args) ==
  [k \in DOMAIN args |-> IF IsExpressionArgument(args[k]) THEN args[k] ELSE ValueOf(args[k])]

ErrorAfter(m, r) == IF IsError(r) THEN Written(m.ec, r[2]) ELSE m.ec

KeepsArguments(m, r) ==   \* mutant: arg_stack is not cleared after a call
  IF IsThrown(r) THEN Rethrow(m, r)
  ELSE IF ErrorAfter(m, r) # NoCode THEN [Stop(m, "null") EXCEPT !.ec = ErrorAfter(m, r)]
  ELSE PushedTo(m, 0, ValueParameter(r), 1)

(* An ec that was set before the call ends the list as well. *)
AfterCall(m, r) ==
  IF IsThrown(r) THEN Rethrow(m, r)
  ELSE IF ErrorAfter(m, r) # NoCode THEN [Stop(m, "null") EXCEPT !.ec = ErrorAfter(m, r)]
  ELSE [PushedTo(m, 0, ValueParameter(r), 1) EXCEPT !.args = <<>>]

TokenFunction(m, returned) ==
  IF FunctionArity[m.toks[m.i].oper] \notin {AnyArity, Len(m.args)}
  THEN [Stop(m, "null") EXCEPT !.ec = "invalid_arity"]
  ELSE AfterCall(m, returned)

Finished(m) ==
  IF Len(m.stack) # 1 THEN Stop(m, "assertion")
  ELSE Stop(m, IF IsExpressionArgument(m.stack[1]) THEN "undefined" ELSE "value")

Pass(m, Compute(_, _, _), CallFunction(_, _, _)) ==
  IF m.i > Len(m.toks) THEN Finished(m)
  ELSE LET tok == m.toks[m.i]
       IN CASE tok.kind = "literal"      -> PushedTo(m, 0, ValueParameter(tok.of), 1)
            [] tok.kind = "current_node" -> PushedTo(m, 0, ValueParameter(m.root), 1)
            [] tok.kind = "begin_expression_type" -> TokenExpressionType(m)
            [] tok.kind \in {"expression", "unary_operator", "binary_operator"} ->
                 Applied(m, Compute(tok, Operands(m), m.ec))
            [] tok.kind = "pipe"         -> TokenPipe(m)
            [] tok.kind = "argument"     -> TokenArgument(m)
            [] tok.kind = "function"     ->
                 TokenFunction(m, CallFunction(tok.oper, Passed(m.args), m.ec))
            [] OTHER                     -> [m EXCEPT !.i = @ + 1]

(* The value of a call, a null after an error of a function, or what it     *)
(* throws: a failing assertion throws as well.                             *)
Outcome(m) ==
  CASE m.outcome = "value"  -> ValueOf(m.stack[1])
    [] m.outcome = "null"   -> Null
    [] m.outcome = "throws" -> Thrown(m.thrown)
    [] OTHER                -> Thrown(m.outcome)

ResultOf(m) == Result(Outcome(m), m.ec)
=============================================================================
