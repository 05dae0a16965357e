--------------------------- MODULE EvaluateTokens ---------------------------
(***************************************************************************)
(* evaluate_tokens: the machine that runs a token list, on a stack of      *)
(* parameters and a stack of arguments.  A parameter is a value or an      *)
(* expression; which value it is, and what expressions, operators and      *)
(* functions compute, is left out: each of them may set ec, or throw.      *)
(*                                                                         *)
(* It is called again and again, by search, by the program that holds an   *)
(* expression, and by the expressions that hold token lists: with any of   *)
(* the lists, and with an ec that may be set already.                      *)
(***************************************************************************)
EXTENDS TokenLists, SequencesExt

CONSTANT Programs   \* the token lists that are run

ASSUME ProgramsAssumption == Programs \subseteq Seq(Token)

VARIABLES
  toks,        \* output_stack, the token list
  i,           \* the position of the next token
  stack,       \* stack: "value" or "expression" for each parameter
  arg_stack,   \* arg_stack, likewise
  ec,          \* whether ec has been set
  outcome      \* how the call stands

vars == <<toks, i, stack, arg_stack, ec, outcome>>

Parameters == {"value", "expression"}
Outcomes   == {"idle", "running", "value", "null", "throws", "assertion", "undefined"}

Init ==
  /\ toks = <<>> /\ i = 1
  /\ stack = <<>> /\ arg_stack = <<>>
  /\ ec = FALSE
  /\ outcome = "idle"

call ==
  /\ outcome = "idle"
  /\ outcome' = "running"
  /\ toks' \in Programs
  /\ ec' \in BOOLEAN
  /\ i' = 1
  /\ stack' = <<>> /\ arg_stack' = <<>>

t == toks[i]

At(kind) == outcome = "running" /\ i <= Len(toks) /\ t.kind = kind

(* The call ends: JSONCONS_ASSERT throws, value() of an expression reads    *)
(* the wrong member of a union, and an error in a function returns null.    *)
EndWith(how) == outcome' = how /\ UNCHANGED <<toks, i, stack, arg_stack, ec>>

(* The loop goes on with these parameters, having passed n tokens. *)
GoOn(n, params) ==
  /\ i' = i + n
  /\ stack' = params
  /\ UNCHANGED <<toks, outcome>>

Quietly == UNCHANGED <<arg_stack, ec>>

(* std::stod, as<...> and at() throw, in functions and in operators. *)
MayThrow == EndWith("throws")

(* What expressions and operators may do to ec. *)
MaySetEc == ec' \in {ec, TRUE} /\ UNCHANGED arg_stack

(* `size` parameters on top of stack are there, and values. *)
Holds(size) == Len(stack) >= size
Values(size) == \A k \in Len(stack) - size + 1 .. Len(stack) : stack[k] = "value"

Below(size) == SubSeq(stack, 1, Len(stack) - size)

literal == At("literal") /\ GoOn(1, Append(stack, "value")) /\ Quietly

current_node == At("current_node") /\ GoOn(1, Append(stack, "value")) /\ Quietly

PassesTheArgument ==   \* mutant: the argument token is passed over too
  /\ At("begin_expression_type")
  /\ IF i + 1 <= Len(toks) /\ Holds(1)
     THEN GoOn(3, Append(Below(1), "expression")) /\ Quietly
     ELSE EndWith("assertion")

begin_expression_type ==
  /\ At("begin_expression_type")
  /\ IF i + 1 <= Len(toks) /\ Holds(1)
     THEN IF toks[i+1].kind = "expression"
          THEN GoOn(2, Append(Below(1), "expression")) /\ Quietly
          ELSE EndWith("assertion")
     ELSE EndWith("assertion")

(* A token that takes `size` values and leaves one. *)
Apply(size) ==
  IF ~Holds(size) THEN EndWith("assertion")
  ELSE IF ~Values(size) THEN EndWith("undefined")
  ELSE \/ MayThrow
       \/ GoOn(1, Append(Below(size), "value")) /\ MaySetEc

expression      == At("expression") /\ Apply(1)
unary_operator  == At("unary_operator") /\ Apply(1)

BinaryNeedsOne == At("binary_operator") /\ Apply(1)   \* mutant: one operand is taken

binary_operator == At("binary_operator") /\ Apply(2)

(* The value on top becomes the root of what follows, and stays. *)
pipe ==
  /\ At("pipe")
  /\ IF ~Holds(1) THEN EndWith("assertion")
     ELSE IF ~Values(1) THEN EndWith("undefined")
     ELSE GoOn(1, stack) /\ Quietly

argument ==
  /\ At("argument")
  /\ IF ~Holds(1) THEN EndWith("assertion")
     ELSE /\ GoOn(1, Below(1))
          /\ arg_stack' = Append(arg_stack, Last(stack))
          /\ UNCHANGED ec

FunctionKeepsArguments ==   \* mutant: arg_stack is not cleared
  /\ At("function")
  /\ FunctionArity[t.oper] \in {AnyArity, Len(arg_stack)}
  /\ GoOn(1, Append(stack, "value"))
  /\ Quietly

(* An error that an earlier token has set is taken for the function's. *)
function ==
  /\ At("function")
  /\ \/ /\ outcome' = "null" /\ ec' = TRUE
        /\ UNCHANGED <<toks, i, stack, arg_stack>>
     \/ FunctionArity[t.oper] \in {AnyArity, Len(arg_stack)} /\ MayThrow
     \/ /\ FunctionArity[t.oper] \in {AnyArity, Len(arg_stack)}
        /\ ~ec
        /\ GoOn(1, Append(stack, "value"))
        /\ arg_stack' = <<>>
        /\ UNCHANGED ec

(* The switch has no case for the other kinds. *)
ignored ==
  /\ outcome = "running" /\ i <= Len(toks)
  /\ t.kind \in {"separator", "key", "lparen"} \cup (Openers \ {"function"}) \cup Closers
  /\ GoOn(1, stack) /\ Quietly

FinishWithTop ==   \* mutant: values may be left below the result
  /\ outcome = "running" /\ i > Len(toks)
  /\ IF stack = <<>> THEN EndWith("assertion")
     ELSE EndWith(IF Last(stack) = "value" THEN "value" ELSE "undefined")

finish ==
  /\ outcome = "running" /\ i > Len(toks)
  /\ IF Len(stack) # 1 THEN EndWith("assertion")
     ELSE EndWith(IF stack[1] = "value" THEN "value" ELSE "undefined")

(* The call is left, with its stacks. *)
leave ==
  /\ outcome \notin {"idle", "running"}
  /\ outcome' = "idle"
  /\ toks' = <<>> /\ i' = 1
  /\ stack' = <<>> /\ arg_stack' = <<>>
  /\ ec' = FALSE

Next ==
  \/ call \/ leave
  \/ literal \/ current_node \/ begin_expression_type \/ expression
  \/ unary_operator \/ binary_operator \/ pipe \/ argument \/ function
  \/ ignored \/ finish

Spec == Init /\ [][Next]_vars

-----------------------------------------------------------------------------
(* Type correctness. *)
TypeOK ==
  /\ toks \in Seq(Token)
  /\ i \in 1 .. Len(toks) + 1
  /\ stack \in Seq(Parameters)
  /\ arg_stack \in Seq(Parameters)
  /\ ec \in BOOLEAN
  /\ outcome \in Outcomes

(***************************************************************************)
(* Well-formed lists run: no assertion of evaluate_tokens fails, and no    *)
(* expression is taken for a value.                                        *)
(***************************************************************************)
NeverFails == WellFormed(toks) => outcome \notin {"assertion", "undefined"}

(* Each function of a well-formed list finds its own arguments, and only    *)
(* these, on arg_stack.                                                     *)
FindsItsArguments ==
  WellFormed(toks) /\ outcome = "running" => Len(arg_stack) = ArgumentDepth(toks)[i-1]

(***************************************************************************)
(* Well-formedness asks no more than evaluate_tokens does: a list without  *)
(* expression arguments that yields a value is well formed.                *)
(***************************************************************************)
OnlyWellFormedRun ==
  outcome = "value" /\ (\A k \in 1 .. Len(toks) : toks[k].kind # "begin_expression_type")
    => WellFormed(toks)
=============================================================================
