----------------------------- MODULE TokenLists -----------------------------
(***************************************************************************)
(* When evaluate_tokens can run a token list: what each token needs on the *)
(* stack of parameters and what it leaves there.                           *)
(***************************************************************************)
EXTENDS Tokens

Need(tok) ==
  CASE tok.kind = "binary_operator" -> 2
    [] tok.kind \in {"expression", "unary_operator", "pipe", "argument",
                     "begin_expression_type"} -> 1
    [] OTHER -> 0

Effect(tok) ==
  CASE tok.kind \in {"literal", "current_node", "function"} -> 1
    [] tok.kind \in {"binary_operator", "argument"} -> -1
    [] OTHER -> 0

(* begin_expression_type takes the token after it along. *)
Skipped(toks, i) == i > 1 /\ toks[i-1].kind = "begin_expression_type"

(***************************************************************************)
(* d[i] parameters are on stack, and a[i] on arg_stack, after i tokens; a  *)
(* list is well formed by d and a when every token finds what it needs,    *)
(* expressions go to arguments only, and one value is left.                *)
(***************************************************************************)
DepthsOf(toks, d, a) ==
  /\ d \in [0 .. Len(toks) -> Int]
  /\ a \in [0 .. Len(toks) -> Nat]
  /\ d[0] = 0 /\ a[0] = 0
  /\ \A i \in 1 .. Len(toks) :
       /\ d[i] = d[i-1] + (IF Skipped(toks, i) THEN 0 ELSE Effect(toks[i]))
       /\ a[i] = CASE toks[i].kind = "argument" -> a[i-1] + 1
                   [] toks[i].kind = "function" -> 0
                   [] OTHER -> a[i-1]

WellFormedBy(toks, d, a) ==
  /\ DepthsOf(toks, d, a)
  /\ d[Len(toks)] = 1
  /\ \A i \in 1 .. Len(toks) :
       /\ ~Skipped(toks, i) => Need(toks[i]) <= d[i-1]
       /\ toks[i].kind = "begin_expression_type" =>
            /\ i + 2 <= Len(toks)
            /\ toks[i+1].kind = "expression"
            /\ toks[i+2].kind = "argument"
       /\ toks[i].kind = "function" =>
            FunctionArity[toks[i].oper] \in {AnyArity, a[i-1]}

StackDepth(toks) ==
  LET d[i \in 0 .. Len(toks)] ==
        IF i = 0 THEN 0
        ELSE d[i-1] + (IF Skipped(toks, i) THEN 0 ELSE Effect(toks[i]))
  IN d

ArgumentDepth(toks) ==
  LET a[i \in 0 .. Len(toks)] ==
        IF i = 0 THEN 0
        ELSE CASE toks[i].kind = "argument" -> a[i-1] + 1
               [] toks[i].kind = "function" -> 0
               [] OTHER -> a[i-1]
  IN a

WellFormed(toks) == WellFormedBy(toks, StackDepth(toks), ArgumentDepth(toks))
=============================================================================
