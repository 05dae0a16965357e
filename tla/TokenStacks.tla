----------------------------- MODULE TokenStacks -----------------------------
(***************************************************************************)
(* output_stack_ and operator_stack_ of jsonformula_evaluator and the      *)
(* member functions that change them: push_token and unwind_rparen.        *)
(*                                                                         *)
(* A stacks value s has four fields:                                       *)
(*   s.output     output_stack_                                            *)
(*   s.operators  operator_stack_                                          *)
(*   s.ec         the error code, NoError while it is clear                *)
(*   s.lists      history: every token list moved into an expression node  *)
(* What a projection token holds inside is left out; that a token has      *)
(* joined it shows as an unchanged output.                                 *)
(***************************************************************************)
EXTENDS Tokens, SequencesExt

NoError   == "none"
Undefined == "undefined"   \* the build dereferences what is not there
Throws    == "throws"      \* JSONCONS_THROW or JSONCONS_ASSERT

(* The members of jsonformula_errc that compile sets, and the ways out. *)
Errors ==
  {NoError, Undefined, Throws,
   "expected_identifier", "expected_index_expression", "expected_colon",
   "expected_comparator", "expected_key", "expected_multi_select_list",
   "expected_rbrace", "expected_rbracket", "expected_rparen",
   "illegal_escaped_character", "invalid_arity", "invalid_codepoint",
   "invalid_literal", "invalid_number", "step_cannot_be_zero", "syntax_error",
   "unbalanced_braces", "unbalanced_parentheses", "unbalanced_quotes",
   "unexpected_end_of_input", "unknown_function"}

EmptyStacks == [output |-> <<>>, operators |-> <<>>, ec |-> NoError, lists |-> {}]

(* The index of the last token of a kind, 0 when there is none. *)
IsLastAt(kind, q, i) ==
  q[i].kind = kind /\ \A j \in i+1 .. Len(q) : q[j].kind # kind

LastAt(kind, q) ==
  IF \E i \in 1 .. Len(q) : IsLastAt(kind, q, i)
  THEN CHOOSE i \in 1 .. Len(q) : IsLastAt(kind, q, i)
  ELSE 0

After(i, q) == SubSeq(q, i + 1, Len(q))

Put(s, tok) == [s EXCEPT !.output = Append(@, tok)]

SetError(s, e) == [s EXCEPT !.ec = e]

(***************************************************************************)
(* unwind_rparen moves the operators above the innermost lparen, and then  *)
(* the lparen, off operator_stack_.  Without an lparen the operators are   *)
(* moved from but not erased.                                              *)
(***************************************************************************)
UnwindKeepsLparen(s) ==   \* mutant: erases from the operator above the lparen
  LET p == LastAt("lparen", s.operators)
      popped == [s EXCEPT !.output = @ \o Reverse(After(p, s.operators))]
  IN IF p = 0 THEN SetError(popped, "unbalanced_parentheses")
     ELSE [popped EXCEPT !.operators = SubSeq(@, 1, p)]

unwind_rparen(s) ==
  LET p == LastAt("lparen", s.operators)
      popped == [s EXCEPT !.output = @ \o Reverse(After(p, s.operators))]
  IN IF p = 0 THEN SetError(popped, "unbalanced_parentheses")
     ELSE [popped EXCEPT !.operators = SubSeq(@, 1, p - 1)]

NotPrefixed(toks) == toks   \* mutant: nothing is put in front

(* A token list gets a current_node in front unless it starts with a literal. *)
Prefixed(toks) ==
  IF toks[1].kind = "literal" THEN toks ELSE <<CurrentNode>> \o toks

(***************************************************************************)
(* An expression made by a token of the given level and associativity is   *)
(* handed to the projection on top of output_stack_ when it binds tighter, *)
(* or as tight and to the right, and is stacked as a token otherwise.      *)
(***************************************************************************)
JoinsProjection(q, tok) ==
  /\ q # <<>>
  /\ IsProjection(Last(q))
  /\ \/ precedence_level(tok) < precedence_level(Last(q))
     \/ /\ precedence_level(tok) = precedence_level(Last(q))
        /\ is_right_associative(tok)

AddExpression(s, tok, expr) ==
  IF JoinsProjection(s.output, tok) THEN s ELSE Put(s, expr)

CaptureOneMore(s, from, lists, tok, expr) ==   \* mutant: erases the token before
  IF <<>> \in lists THEN SetError(s, Undefined)
  ELSE AddExpression([s EXCEPT !.output = SubSeq(@, 1, from - 2),
                               !.lists = @ \cup {Prefixed(l) : l \in lists}],
                     tok, expr)

(* The tokens from position `from` on become the lists of one expression.   *)
(* toks.back() of an empty list is what the code would read next.           *)
Capture(s, from, lists, tok, expr) ==
  IF <<>> \in lists THEN SetError(s, Undefined)
  ELSE AddExpression([s EXCEPT !.output = SubSeq(@, 1, from - 1),
                               !.lists = @ \cup {Prefixed(l) : l \in lists}],
                     tok, expr)

-----------------------------------------------------------------------------
EndFilter(s) ==
  LET u == unwind_rparen(s)
      b == LastAt("begin_filter", u.output)
  IN IF b = 0 THEN SetError(u, "unbalanced_braces")
     ELSE Capture(u, b, {After(b, u.output)}, Tok("end_filter"),
                  Expression("projection_op"))

(***************************************************************************)
(* The elements of a multi-select list lie between separators.  A          *)
(* separator that ends the list would be taken as a token of an element:   *)
(* the scan takes the token it starts an element from unseen.              *)
(***************************************************************************)
Elements(q) ==
  LET cuts == {i \in 1 .. Len(q) - 1 :
                 q[i].kind = "separator" /\ q[i+1].kind # "separator"}
      ends == {i - 1 : i \in cuts} \cup {Len(q)}
      Start(e) == CHOOSE b \in 1 .. e + 1 :
                    /\ b - 1 \in cuts \cup {0}
                    /\ \A c \in cuts : c < e => c < b
  IN {SubSeq(q, Start(e), e) : e \in ends \ {0}}

EndMultiSelectList(s) ==
  LET u == unwind_rparen(s)
      b == LastAt("begin_multi_select_list", u.output)
  IN IF b = 0 THEN SetError(u, Undefined)   \* looks for a separator before the front
     ELSE Capture(u, b, Elements(After(b, u.output)),
                  Tok("end_multi_select_list"), Selector)

(***************************************************************************)
(* The values of a multi-select hash are the tokens after each key.  The   *)
(* scan for a key does not stop at begin_multi_select_hash, so the hash    *)
(* begins at the last one that nothing or a key follows; when there is     *)
(* none (0), the scan runs off the front of output_stack_.                 *)
(***************************************************************************)
IsHashBegin(q, b) ==
  q[b].kind = "begin_multi_select_hash" /\ (b = Len(q) \/ q[b+1].kind = "key")

IsLastHashBegin(q, b) ==
  IsHashBegin(q, b) /\ \A j \in b + 1 .. Len(q) : ~IsHashBegin(q, j)

HashBegin(q) ==
  IF \E b \in 1 .. Len(q) : IsLastHashBegin(q, b)
  THEN CHOOSE b \in 1 .. Len(q) : IsLastHashBegin(q, b)
  ELSE 0

HashValues(q, b) ==
  LET keys == {k \in b + 1 .. Len(q) : q[k].kind = "key"}
      Stop(k) == IF \E n \in keys : n > k
                 THEN LET n == CHOOSE n \in keys :
                                 n > k /\ \A m \in keys : m > k => n <= m
                      IN IF q[n-1].kind = "separator" THEN n - 2 ELSE n - 1
                 ELSE Len(q)
  IN {SubSeq(q, k + 1, Stop(k)) : k \in keys}

EndMultiSelectHash(s) ==
  LET u == unwind_rparen(s)
      b == HashBegin(u.output)
  IN IF b = 0 THEN SetError(u, Undefined)
     ELSE Capture(u, b, HashValues(u.output, b),
                  Tok("end_multi_select_hash"), Selector)

(* begin_expression_type stays on output_stack_, under the expression, and *)
(* the operators of the expression stay on operator_stack_.                *)
EndExpressionType(s) ==
  LET b == LastAt("begin_expression_type", s.output)
  IN IF b = 0 THEN SetError(s, Throws)
     ELSE LET toks == After(b, s.output)
          IN IF toks = <<>> THEN SetError(s, Undefined)
             ELSE Put([s EXCEPT !.output = SubSeq(@, 1, b),
                                !.lists = @ \cup {Prefixed(toks)}], Selector)

(***************************************************************************)
(* end_function: an argument token that a binary operator follows trades   *)
(* places with it, so that an operator of the last argument, which is      *)
(* unwound after the argument token, is applied before it.                 *)
(***************************************************************************)
NoSwap(q) == q   \* mutant: the arguments are left where they are

SwapArguments(q) ==
  LET Swapped(i) == /\ i \in 1 .. Len(q) - 1
                    /\ q[i].kind = "argument"
                    /\ q[i+1].kind = "binary_operator"
  IN [i \in 1 .. Len(q) |-> IF Swapped(i) THEN q[i+1]
                            ELSE IF Swapped(i-1) THEN q[i-1] ELSE q[i]]

ArgumentCount(q) == Len(SelectSeq(q, LAMBDA t : t.kind = "argument"))

EndFunction(s) ==
  LET u == unwind_rparen(s)
      b == LastAt("function", u.output)
      f == u.output[b]
      toks == After(b, u.output)
  IN IF b = 0 THEN SetError(u, "unbalanced_parentheses")
     ELSE IF FunctionArity[f.oper] \notin {AnyArity, ArgumentCount(toks)}
     THEN SetError(u, "invalid_arity")
     ELSE IF toks = <<>> THEN SetError(u, Undefined)
     ELSE AddExpression(
            [u EXCEPT !.output = SubSeq(@, 1, b - 1),
                      !.lists = @ \cup {Append(Prefixed(SwapArguments(toks)), f)}],
            Tok("end_function"), Selector)

-----------------------------------------------------------------------------
EndOfExpression(s) ==
  [s EXCEPT !.output = @ \o Reverse(s.operators), !.operators = <<>>]

PushLiteral(s, tok) ==
  IF s.output # <<>> /\ Last(s.output).kind = "current_node"
  THEN [s EXCEPT !.output = Append(Front(@), tok)]
  ELSE Put(s, tok)

(***************************************************************************)
(* The shunting of an operator: it goes on top of a looser one, and        *)
(* otherwise first moves the tighter ones below it to output_stack_.       *)
(***************************************************************************)
StacksOn(ops, tok) ==
  \/ ops = <<>>
  \/ Last(ops).kind = "lparen"
  \/ precedence_level(tok) < precedence_level(Last(ops))
  \/ precedence_level(tok) = precedence_level(Last(ops)) /\ is_right_associative(tok)

Yields(op, tok) ==
  /\ IsOperator(op)
  /\ \/ precedence_level(tok) > precedence_level(op)
     \/ precedence_level(tok) = precedence_level(op) /\ is_right_associative(tok)

IsKept(ops, tok, k) ==
  /\ \A i \in k + 1 .. Len(ops) : Yields(ops[i], tok)
  /\ k = 0 \/ ~Yields(ops[k], tok)

KeptBelow(ops, tok) ==
  IF \E k \in 0 .. Len(ops) : IsKept(ops, tok, k)
  THEN CHOOSE k \in 0 .. Len(ops) : IsKept(ops, tok, k)
  ELSE 0

PushOperatorNoUnwind(s, tok) ==   \* mutant: the tighter operators stay below
  [s EXCEPT !.operators = Append(@, tok)]

PushOperator(s, tok) ==
  LET k == IF StacksOn(s.operators, tok) THEN Len(s.operators)
           ELSE KeptBelow(s.operators, tok)
  IN [s EXCEPT !.output = @ \o Reverse(After(k, s.operators)),
               !.operators = Append(SubSeq(@, 1, k), tok)]

PushLparen(s) == [s EXCEPT !.operators = Append(@, Tok("lparen"))]

push_token(tok, s) ==
  CASE tok.kind = "end_filter"              -> EndFilter(s)
    [] tok.kind = "end_multi_select_list"   -> EndMultiSelectList(s)
    [] tok.kind = "end_multi_select_hash"   -> EndMultiSelectHash(s)
    [] tok.kind = "end_expression_type"     -> EndExpressionType(s)
    [] tok.kind = "end_function"            -> EndFunction(s)
    [] tok.kind = "end_of_expression"       -> EndOfExpression(s)
    [] tok.kind = "rparen"                  -> unwind_rparen(s)
    [] tok.kind = "lparen"                  -> PushLparen(s)
    [] tok.kind = "literal"                 -> PushLiteral(s, tok)
    [] tok.kind = "expression"              -> AddExpression(s, tok, tok)
    [] tok.kind \in Operators               -> PushOperator(s, tok)
    [] tok.kind = "separator"               -> PushLparen(Put(unwind_rparen(s), tok))
    [] tok.kind \in Openers                 -> PushLparen(Put(s, tok))
    [] OTHER                                -> Put(s, tok)

-----------------------------------------------------------------------------
(***************************************************************************)
(* Between two lparens, an operator on operator_stack_ is never looser     *)
(* than one under it: that is what makes the shunting of push_token apply  *)
(* tighter operators first.                                                *)
(***************************************************************************)
SegmentsOrdered(ops) ==
  \A j \in 2 .. Len(ops) :
    ops[j-1].kind # "lparen" /\ ops[j].kind # "lparen" =>
      precedence_level(ops[j]) <= precedence_level(ops[j-1])

(* output_stack_ begins with what evaluate_tokens can start with. *)
Rooted(q) == q # <<>> /\ q[1].kind \in {"current_node", "literal"}
=============================================================================
