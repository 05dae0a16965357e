---------------------------- MODULE CompileProofs ----------------------------
(***************************************************************************)
(* For every expression over every alphabet: the state of compile is typed *)
(* in every pass, its operators are stacked in order, the root of the      *)
(* expression stays where it is, state_stack_ has a bottom, a slice finds  *)
(* no bound of another one, and an error that a pass sets and goes on from *)
(* is reported in the end, and nothing is built on it.                     *)
(***************************************************************************)
EXTENDS Compile, TLAPS

-----------------------------------------------------------------------------
(***************************************************************************)
(* What push_token preserves, whatever token it is given: the types of the *)
(* stacks, the order of operator_stack_, and the root of output_stack_.    *)
(***************************************************************************)
OperatorToken == {t \in Token : t.kind \in Operators \cup {"lparen"}}

(* The fields of a stacks value; what its lists are does not matter here. *)
Record(q, ops, e, ls) == [output |-> q, operators |-> ops, ec |-> e, lists |-> ls]

Fields(s) == s = Record(s.output, s.operators, s.ec, s.lists)

OutputOK(q) == q \in Seq(Token) /\ Rooted(q)

OperatorsOK(ops) == ops \in Seq(OperatorToken) /\ SegmentsOrdered(ops)

(***************************************************************************)
(* The order of operator_stack_ is inductive only with its kinds: a token  *)
(* that is no operator would stop the unwinding and have no level to       *)
(* compare.                                                                *)
(***************************************************************************)
StacksOK(s) == Fields(s) /\ OutputOK(s.output) /\ OperatorsOK(s.operators) /\ s.ec \in Errors

-----------------------------------------------------------------------------
(* Sequences. *)

LEMMA Reversed ==
  ASSUME NEW S, NEW q \in Seq(S)
  PROVE  Reverse(q) \in Seq(S)
<1>1. \A k \in 1 .. Len(q) : q[(Len(q) - k) + 1] \in S
  OBVIOUS
<1> QED BY <1>1 DEF Reverse

LEMMA Part ==
  ASSUME NEW S, NEW q \in Seq(S), NEW m \in Nat \ {0}, NEW n \in 0 .. Len(q)
  PROVE  SubSeq(q, m, n) \in Seq(S)
OBVIOUS

LEMMA Prefix ==
  ASSUME NEW S, NEW q \in Seq(S), NEW n \in 0 .. Len(q)
  PROVE  /\ SubSeq(q, 1, n) \in Seq(S)
         /\ Len(SubSeq(q, 1, n)) = n
         /\ \A k \in 1 .. n : SubSeq(q, 1, n)[k] = q[k]
OBVIOUS

LEMMA Appended ==
  ASSUME NEW S, NEW q \in Seq(S), NEW x \in S
  PROVE  /\ Append(q, x) \in Seq(S) /\ Append(q, x) # <<>>
         /\ Append(q, x)[1] = IF q = <<>> THEN x ELSE q[1]
<1>1. /\ Append(q, x) \in Seq(S) /\ Len(Append(q, x)) = Len(q) + 1
      /\ \A k \in 1 .. Len(q) : Append(q, x)[k] = q[k]
      /\ Append(q, x)[Len(q) + 1] = x
  OBVIOUS
<1> DEFINE r == Append(q, x)
<1> HIDE DEF r
<1>2. r # <<>>
  BY <1>1 DEF r
<1>3. CASE q = <<>>
  <2>1. Len(q) = 0
    BY <1>3
  <2> QED BY <1>1, <1>2, <1>3, <2>1 DEF r
<1>4. CASE q # <<>>
  <2>1. Len(q) > 0
    BY <1>4
  <2>2. 1 \in 1 .. Len(q)
    BY <2>1
  <2> QED BY <1>1, <1>2, <1>4, <2>2 DEF r
<1> QED BY <1>3, <1>4

LEMMA LastAtIndex ==
  ASSUME NEW kind, NEW q \in Seq(Token)
  PROVE  /\ LastAt(kind, q) \in 0 .. Len(q)
         /\ LastAt(kind, q) # 0 => q[LastAt(kind, q)].kind = kind
BY DEF LastAt, IsLastAt

LEMMA HashBeginIndex ==
  ASSUME NEW q \in Seq(Token)
  PROVE  /\ HashBegin(q) \in 0 .. Len(q)
         /\ HashBegin(q) # 0 => q[HashBegin(q)].kind = "begin_multi_select_hash"
BY DEF HashBegin, IsLastHashBegin, IsHashBegin

LEMMA AfterIndex ==
  ASSUME NEW S, NEW q \in Seq(S), NEW n \in 0 .. Len(q)
  PROVE  After(n, q) \in Seq(S)
BY Part DEF After

-----------------------------------------------------------------------------
(* output_stack_ and operator_stack_ grow and shrink at their ends. *)

LEMMA OutputGrows ==
  ASSUME NEW q, OutputOK(q), NEW r \in Seq(Token)
  PROVE  OutputOK(q \o r)
<1>1. q \in Seq(Token) /\ Len(q) > 0 /\ q[1].kind \in {"current_node", "literal"}
  BY DEF OutputOK, Rooted
<1>2. q \o r \in Seq(Token) /\ Len(q \o r) > 0 /\ (q \o r)[1] = q[1]
  BY <1>1
<1> QED BY <1>1, <1>2 DEF OutputOK, Rooted

LEMMA OutputAppended ==
  ASSUME NEW q, OutputOK(q), NEW tok \in Token
  PROVE  OutputOK(Append(q, tok))
<1>1. q \in Seq(Token) /\ Len(q) > 0 /\ q[1].kind \in {"current_node", "literal"}
  BY DEF OutputOK, Rooted
<1>2. Append(q, tok) \in Seq(Token) /\ Len(Append(q, tok)) > 0 /\ Append(q, tok)[1] = q[1]
  BY <1>1
<1> QED BY <1>1, <1>2 DEF OutputOK, Rooted

LEMMA OutputCut ==
  ASSUME NEW q, OutputOK(q), NEW n \in 1 .. Len(q)
  PROVE  OutputOK(SubSeq(q, 1, n))
<1>1. q \in Seq(Token) /\ q[1].kind \in {"current_node", "literal"}
  BY DEF OutputOK, Rooted
<1>2. /\ SubSeq(q, 1, n) \in Seq(Token) /\ Len(SubSeq(q, 1, n)) = n
      /\ SubSeq(q, 1, n)[1] = q[1]
  BY <1>1, Prefix
<1> QED BY <1>1, <1>2 DEF OutputOK, Rooted

LEMMA OperatorsCut ==
  ASSUME NEW ops, OperatorsOK(ops), NEW n \in 0 .. Len(ops)
  PROVE  OperatorsOK(SubSeq(ops, 1, n))
<1>1. ops \in Seq(OperatorToken)
  BY DEF OperatorsOK
<1>2. /\ SubSeq(ops, 1, n) \in Seq(OperatorToken) /\ Len(SubSeq(ops, 1, n)) = n
      /\ \A k \in 1 .. n : SubSeq(ops, 1, n)[k] = ops[k]
  BY <1>1, Prefix
<1>3. SegmentsOrdered(SubSeq(ops, 1, n))
  BY <1>1, <1>2 DEF OperatorsOK, SegmentsOrdered
<1> QED BY <1>2, <1>3 DEF OperatorsOK

(* A token may be stacked where it is no looser than what it lies on. *)
LEMMA OperatorsAppended ==
  ASSUME NEW ops, OperatorsOK(ops), NEW tok \in OperatorToken,
         \/ ops = <<>> \/ tok.kind = "lparen" \/ Last(ops).kind = "lparen"
         \/ precedence_level(tok) <= precedence_level(Last(ops))
  PROVE  OperatorsOK(Append(ops, tok))
<1>1. ops \in Seq(OperatorToken)
  BY DEF OperatorsOK
<1>2. /\ Append(ops, tok) \in Seq(OperatorToken)
      /\ Len(Append(ops, tok)) = Len(ops) + 1
      /\ \A k \in 1 .. Len(ops) : Append(ops, tok)[k] = ops[k]
      /\ Append(ops, tok)[Len(ops) + 1] = tok
  BY <1>1
<1>3. SegmentsOrdered(Append(ops, tok))
  <2>1. ASSUME NEW j \in 2 .. Len(ops) + 1,
               Append(ops, tok)[j-1].kind # "lparen", Append(ops, tok)[j].kind # "lparen"
        PROVE  precedence_level(Append(ops, tok)[j]) <= precedence_level(Append(ops, tok)[j-1])
    <3>1. CASE j = Len(ops) + 1
      <4>1. Append(ops, tok)[j] = tok /\ Append(ops, tok)[j-1] = Last(ops) /\ ops # <<>>
        BY <1>1, <1>2, <3>1 DEF Last
      <4> QED BY <2>1, <4>1
    <3>2. CASE j \in 2 .. Len(ops)
      <4>1. Append(ops, tok)[j] = ops[j] /\ Append(ops, tok)[j-1] = ops[j-1]
        BY <1>1, <1>2, <3>2
      <4> QED BY <2>1, <3>2, <4>1 DEF OperatorsOK, SegmentsOrdered
    <3> QED BY <1>1, <3>1, <3>2
  <2> QED BY <1>2, <2>1 DEF SegmentsOrdered
<1> QED BY <1>2, <1>3 DEF OperatorsOK

-----------------------------------------------------------------------------
(* The changes that push_token is made of. *)

LEMMA Parts ==
  ASSUME NEW s, StacksOK(s)
  PROVE  /\ OutputOK(s.output) /\ OperatorsOK(s.operators) /\ s.ec \in Errors
         /\ s.output \in Seq(Token) /\ s.operators \in Seq(Token)
         /\ s = Record(s.output, s.operators, s.ec, s.lists)
<1>1. OutputOK(s.output) /\ OperatorsOK(s.operators) /\ s.ec \in Errors
      /\ s = Record(s.output, s.operators, s.ec, s.lists)
  BY DEF StacksOK, Fields
<1>2. s.output \in Seq(Token) /\ s.operators \in Seq(OperatorToken)
  BY <1>1 DEF OutputOK, OperatorsOK
<1>3. OperatorToken \subseteq Token
  BY DEF OperatorToken
<1> QED BY <1>1, <1>2, <1>3

LEMMA Whole ==
  ASSUME NEW q, OutputOK(q), NEW ops, OperatorsOK(ops), NEW e \in Errors, NEW ls
  PROVE  StacksOK(Record(q, ops, e, ls))
<1> DEFINE r == Record(q, ops, e, ls)
<1>1. r.output = q /\ r.operators = ops /\ r.ec = e /\ r.lists = ls
  BY DEF Record
<1>2. r = Record(r.output, r.operators, r.ec, r.lists)
  BY <1>1
<1> HIDE DEF r
<1>3. StacksOK(r)
  BY <1>1, <1>2 DEF StacksOK, Fields
<1> QED BY <1>3 DEF r

LEMMA ErrorSet ==
  ASSUME NEW s, StacksOK(s), NEW e \in Errors
  PROVE  StacksOK(SetError(s, e))
<1>1. s = Record(s.output, s.operators, s.ec, s.lists)
  BY Parts
<1>2. SetError(s, e) = Record(s.output, s.operators, e, s.lists)
  BY <1>1 DEF SetError, Record
<1> QED BY <1>2, Parts, Whole

LEMMA TokenPut ==
  ASSUME NEW s, StacksOK(s), NEW tok \in Token
  PROVE  StacksOK(Put(s, tok))
<1>1. OutputOK(Append(s.output, tok))
  BY Parts, OutputAppended
<1>2. s = Record(s.output, s.operators, s.ec, s.lists)
  BY Parts
<1>3. Put(s, tok) = Record(Append(s.output, tok), s.operators, s.ec, s.lists)
  BY <1>2 DEF Put, Record
<1> QED BY <1>1, <1>3, Parts, Whole

LEMMA TokensMade ==
  /\ \A kind \in Stored : Tok(kind) \in Token /\ Tok(kind).kind = kind
  /\ \A oper \in Opers : Expression(oper) \in Token
  /\ Literal \in Token /\ CurrentNode \in Token /\ Selector \in Token
<1>1. \A kind \in Stored : Tok(kind) \in Token /\ Tok(kind).kind = kind
  BY DEF Tok, Token, Opers
<1>2. \A oper \in Opers : Expression(oper) \in Token
  BY DEF Expression, Token, Stored
<1>3. Literal \in Token /\ CurrentNode \in Token
  BY <1>1 DEF Literal, CurrentNode, Stored
<1>4. Selector \in Token
  BY <1>2 DEF Selector, Opers
<1> QED BY <1>1, <1>2, <1>3, <1>4

(* The operators above position n can be moved to output_stack_. *)
LEMMA Moved ==
  ASSUME NEW s, StacksOK(s), NEW n \in 0 .. Len(s.operators)
  PROVE  OutputOK(s.output \o Reverse(After(n, s.operators)))
<1>1. s.operators \in Seq(Token) /\ OutputOK(s.output)
  BY Parts
<1>2. Reverse(After(n, s.operators)) \in Seq(Token)
  BY <1>1, AfterIndex, Reversed
<1> QED BY <1>1, <1>2, OutputGrows

LEMMA Unwound ==
  ASSUME NEW s, StacksOK(s)
  PROVE  StacksOK(unwind_rparen(s))
<1> DEFINE p == LastAt("lparen", s.operators)
           q == s.output \o Reverse(After(p, s.operators))
<1>0. s = Record(s.output, s.operators, s.ec, s.lists)
  BY Parts
<1>1. p \in 0 .. Len(s.operators)
  BY Parts, LastAtIndex
<1>2. OutputOK(q)
  BY <1>1, Moved
<1>3. CASE p = 0
  <2>1. unwind_rparen(s) = Record(q, s.operators, "unbalanced_parentheses", s.lists)
    BY <1>0, <1>3 DEF unwind_rparen, SetError, Record
  <2>2. "unbalanced_parentheses" \in Errors
    BY DEF Errors
  <2> HIDE DEF q
  <2> QED BY <1>2, <2>1, <2>2, Parts, Whole
<1>4. CASE p # 0
  <2> DEFINE ops == SubSeq(s.operators, 1, p - 1)
  <2>1. p - 1 \in 0 .. Len(s.operators)
    BY <1>1, <1>4, Parts
  <2>2. OperatorsOK(ops)
    BY <2>1, OperatorsCut, Parts
  <2>3. unwind_rparen(s) = Record(q, ops, s.ec, s.lists)
    BY <1>0, <1>4 DEF unwind_rparen, Record
  <2> HIDE DEF q, ops
  <2> QED BY <1>2, <2>2, <2>3, Parts, Whole
<1> QED BY <1>3, <1>4

LEMMA ExpressionAdded ==
  ASSUME NEW s, StacksOK(s), NEW tok, NEW expr \in Token
  PROVE  StacksOK(AddExpression(s, tok, expr))
BY TokenPut DEF AddExpression

(* A group does not begin at the root, so that the root stays when the     *)
(* group is taken off.                                                     *)
LEMMA GroupTaken ==
  ASSUME NEW s, StacksOK(s), NEW b \in 1 .. Len(s.output), s.output[b].kind \in Openers,
         NEW ls
  PROVE  StacksOK([s EXCEPT !.output = SubSeq(@, 1, b - 1), !.lists = ls])
<1> DEFINE q == SubSeq(s.output, 1, b - 1)
<1>1. b # 1
  BY Parts DEF OutputOK, Rooted, Openers
<1>2. b - 1 \in 1 .. Len(s.output)
  BY <1>1, Parts
<1>3. OutputOK(q)
  BY <1>2, OutputCut, Parts
<1>4. s = Record(s.output, s.operators, s.ec, s.lists)
  BY Parts
<1>5. [s EXCEPT !.output = SubSeq(@, 1, b - 1), !.lists = ls] = Record(q, s.operators, s.ec, ls)
  <2> DEFINE r == [s EXCEPT !.output = q]
  <2> HIDE DEF q
  <2>1. [s EXCEPT !.output = q, !.lists = ls] = [r EXCEPT !.lists = ls]
    OBVIOUS
  <2>2. r = Record(q, s.operators, s.ec, s.lists)
    BY <1>4 DEF Record
  <2> HIDE DEF r
  <2>3. [r EXCEPT !.lists = ls] = Record(q, s.operators, s.ec, ls)
    BY <2>2 DEF Record
  <2> QED BY <2>1, <2>3 DEF q
<1> HIDE DEF q
<1> QED BY <1>3, <1>5, Parts, Whole

LEMMA Captured ==
  ASSUME NEW s, StacksOK(s), NEW b \in 1 .. Len(s.output), s.output[b].kind \in Openers,
         NEW ls, NEW tok, NEW expr \in Token
  PROVE  StacksOK(Capture(s, b, ls, tok, expr))
<1>1. StacksOK(SetError(s, Undefined))
  <2>1. Undefined \in Errors
    BY DEF Errors
  <2> QED BY <2>1, ErrorSet
<1> DEFINE r == [s EXCEPT !.output = SubSeq(@, 1, b - 1),
                          !.lists = @ \cup {Prefixed(l) : l \in ls}]
<1>2. StacksOK(r)
  BY GroupTaken
<1>3. Capture(s, b, ls, tok, expr) =
        IF <<>> \in ls THEN SetError(s, Undefined) ELSE AddExpression(r, tok, expr)
  BY DEF Capture
<1> HIDE DEF r
<1> QED BY <1>1, <1>2, <1>3, ExpressionAdded

-----------------------------------------------------------------------------
(* push_token, by kind of token. *)

LEMMA FilterEnded ==
  ASSUME NEW s, StacksOK(s)
  PROVE  StacksOK(EndFilter(s))
<1> DEFINE u == unwind_rparen(s)
           b == LastAt("begin_filter", u.output)
<1>1. StacksOK(u)
  BY Unwound
<1>2. b \in 0 .. Len(u.output) /\ (b # 0 => u.output[b].kind = "begin_filter")
  BY <1>1, Parts, LastAtIndex
<1>3. CASE b = 0
  <2>1. "unbalanced_braces" \in Errors
    BY DEF Errors
  <2> QED BY <1>1, <1>3, <2>1, ErrorSet DEF EndFilter
<1>4. CASE b # 0
  <2>1. b \in 1 .. Len(u.output) /\ u.output[b].kind \in Openers
    BY <1>1, <1>2, <1>4, Parts DEF Openers
  <2>2. Expression("projection_op") \in Token
    BY TokensMade DEF Opers, ProjectionOpers
  <2>3. EndFilter(s) = Capture(u, b, {After(b, u.output)}, Tok("end_filter"),
                               Expression("projection_op"))
    BY <1>4 DEF EndFilter
  <2> HIDE DEF u, b
  <2> QED BY <1>1, <2>1, <2>2, <2>3, Captured
<1> QED BY <1>3, <1>4

LEMMA UndefinedSet ==
  ASSUME NEW s, StacksOK(s)
  PROVE  StacksOK(SetError(s, Undefined))
<1>1. Undefined \in Errors
  BY DEF Errors
<1> QED BY <1>1, ErrorSet

LEMMA ListEnded ==
  ASSUME NEW s, StacksOK(s)
  PROVE  StacksOK(EndMultiSelectList(s))
<1> DEFINE u == unwind_rparen(s)
           b == LastAt("begin_multi_select_list", u.output)
<1>1. StacksOK(u)
  BY Unwound
<1>2. b \in 0 .. Len(u.output) /\ (b # 0 => u.output[b].kind = "begin_multi_select_list")
  BY <1>1, Parts, LastAtIndex
<1>3. CASE b = 0
  BY <1>1, <1>3, UndefinedSet DEF EndMultiSelectList
<1>4. CASE b # 0
  <2>1. b \in 1 .. Len(u.output) /\ u.output[b].kind \in Openers
    BY <1>1, <1>2, <1>4, Parts DEF Openers
  <2>2. EndMultiSelectList(s) = Capture(u, b, Elements(After(b, u.output)),
                                        Tok("end_multi_select_list"), Selector)
    BY <1>4 DEF EndMultiSelectList
  <2> HIDE DEF u, b
  <2> QED BY <1>1, <2>1, <2>2, TokensMade, Captured
<1> QED BY <1>3, <1>4

LEMMA HashEnded ==
  ASSUME NEW s, StacksOK(s)
  PROVE  StacksOK(EndMultiSelectHash(s))
<1> DEFINE u == unwind_rparen(s)
           b == HashBegin(u.output)
<1>1. StacksOK(u)
  BY Unwound
<1>2. b \in 0 .. Len(u.output) /\ (b # 0 => u.output[b].kind = "begin_multi_select_hash")
  BY <1>1, Parts, HashBeginIndex
<1>3. CASE b = 0
  BY <1>1, <1>3, UndefinedSet DEF EndMultiSelectHash
<1>4. CASE b # 0
  <2>1. b \in 1 .. Len(u.output) /\ u.output[b].kind \in Openers
    BY <1>1, <1>2, <1>4, Parts DEF Openers
  <2>2. EndMultiSelectHash(s) = Capture(u, b, HashValues(u.output, b),
                                        Tok("end_multi_select_hash"), Selector)
    BY <1>4 DEF EndMultiSelectHash
  <2> HIDE DEF u, b
  <2> QED BY <1>1, <2>1, <2>2, TokensMade, Captured
<1> QED BY <1>3, <1>4

(* begin_expression_type is not the root either. *)
LEMMA ExpressionTypeEnded ==
  ASSUME NEW s, StacksOK(s)
  PROVE  StacksOK(EndExpressionType(s))
<1> DEFINE b == LastAt("begin_expression_type", s.output)
           q == SubSeq(s.output, 1, b)
           toks == After(b, s.output)
           ls == s.lists \cup {Prefixed(toks)}
           r == Record(q, s.operators, s.ec, ls)
<1>1. CASE b = 0
  <2>1. Throws \in Errors
    BY DEF Errors
  <2> QED BY <1>1, <2>1, ErrorSet DEF EndExpressionType
<1>2. CASE b # 0
  <2>1. b \in 1 .. Len(s.output)
    BY <1>2, Parts, LastAtIndex
  <2>2. StacksOK(r)
    <3>1. OutputOK(q)
      BY <2>1, OutputCut, Parts
    <3> HIDE DEF q, ls
    <3> QED BY <3>1, Parts, Whole
  <2>3. [s EXCEPT !.output = SubSeq(@, 1, b), !.lists = ls] = r
    <3> DEFINE r1 == [s EXCEPT !.output = q]
    <3> HIDE DEF q, ls
    <3>1. [s EXCEPT !.output = q, !.lists = ls] = [r1 EXCEPT !.lists = ls]
      OBVIOUS
    <3>2. s = Record(s.output, s.operators, s.ec, s.lists)
      BY Parts
    <3>3. r1 = Record(q, s.operators, s.ec, s.lists)
      BY <3>2 DEF Record
    <3> HIDE DEF r1
    <3>4. [r1 EXCEPT !.lists = ls] = r
      BY <3>3 DEF Record
    <3> QED BY <3>1, <3>4 DEF q
  <2>4. EndExpressionType(s) =
          IF toks = <<>> THEN SetError(s, Undefined) ELSE Put(r, Selector)
    BY <1>2, <2>3 DEF EndExpressionType
  <2> HIDE DEF r, toks
  <2> QED BY <2>2, <2>4, TokensMade, TokenPut, UndefinedSet
<1> QED BY <1>1, <1>2

LEMMA FunctionEnded ==
  ASSUME NEW s, StacksOK(s)
  PROVE  StacksOK(EndFunction(s))
<1> DEFINE u == unwind_rparen(s)
           b == LastAt("function", u.output)
           toks == After(b, u.output)
           ls == u.lists \cup {Append(Prefixed(SwapArguments(toks)), u.output[b])}
           r == [u EXCEPT !.output = SubSeq(@, 1, b - 1), !.lists = ls]
<1>1. StacksOK(u)
  BY Unwound
<1>2. b \in 0 .. Len(u.output) /\ (b # 0 => u.output[b].kind = "function")
  BY <1>1, Parts, LastAtIndex
<1>3. /\ StacksOK(SetError(u, "unbalanced_parentheses"))
      /\ StacksOK(SetError(u, "invalid_arity"))
      /\ StacksOK(SetError(u, Undefined))
  <2>1. {"unbalanced_parentheses", "invalid_arity", Undefined} \subseteq Errors
    BY DEF Errors
  <2> QED BY <1>1, <2>1, ErrorSet
<1>4. b # 0 => StacksOK(r)
  <2>1. ASSUME b # 0 PROVE b \in 1 .. Len(u.output) /\ u.output[b].kind \in Openers
    BY <1>1, <1>2, <2>1, Parts DEF Openers
  <2> HIDE DEF u, b, ls
  <2> QED BY <1>1, <2>1, GroupTaken
<1>5. \/ EndFunction(s) = SetError(u, "unbalanced_parentheses")
      \/ EndFunction(s) = SetError(u, "invalid_arity")
      \/ EndFunction(s) = SetError(u, Undefined)
      \/ b # 0 /\ EndFunction(s) = AddExpression(r, Tok("end_function"), Selector)
  BY DEF EndFunction
<1> HIDE DEF u, b, r
<1> QED BY <1>3, <1>4, <1>5, TokensMade, ExpressionAdded

(* Nothing is left on operator_stack_ at the end. *)
LEMMA ExpressionEnded ==
  ASSUME NEW s, StacksOK(s)
  PROVE  StacksOK(EndOfExpression(s))
<1> DEFINE q == s.output \o Reverse(s.operators)
<1>1. OutputOK(q)
  BY Parts, Reversed, OutputGrows
<1>2. OperatorsOK(<<>>)
  BY DEF OperatorsOK, SegmentsOrdered
<1>3. s = Record(s.output, s.operators, s.ec, s.lists)
  BY Parts
<1> HIDE DEF q
<1>4. EndOfExpression(s) = Record(q, <<>>, s.ec, s.lists)
  <2> DEFINE r == [s EXCEPT !.output = q]
  <2>1. [s EXCEPT !.output = q, !.operators = <<>>] = [r EXCEPT !.operators = <<>>]
    OBVIOUS
  <2>2. r = Record(q, s.operators, s.ec, s.lists)
    BY <1>3 DEF Record
  <2> HIDE DEF r
  <2>3. [r EXCEPT !.operators = <<>>] = Record(q, <<>>, s.ec, s.lists)
    BY <2>2 DEF Record
  <2> QED BY <2>1, <2>3 DEF EndOfExpression, q, r
<1> QED BY <1>1, <1>2, <1>4, Parts, Whole

(* A literal takes the place of a current_node, the root included. *)
LEMMA LiteralPushed ==
  ASSUME NEW s, StacksOK(s), NEW tok \in Token, tok.kind = "literal"
  PROVE  StacksOK(PushLiteral(s, tok))
<1> DEFINE q == Append(Front(s.output), tok)
<1>1. OutputOK(q)
  <2>1. s.output \in Seq(Token) /\ Len(s.output) > 0 /\ s.output[1].kind \in {"current_node", "literal"}
    BY Parts DEF OutputOK, Rooted
  <2>2. Len(s.output) - 1 \in 0 .. Len(s.output)
    BY <2>1
  <2>3. /\ Front(s.output) \in Seq(Token) /\ Len(Front(s.output)) = Len(s.output) - 1
        /\ \A k \in 1 .. Len(s.output) - 1 : Front(s.output)[k] = s.output[k]
    BY <2>1, <2>2, Prefix DEF Front
  <2> DEFINE f == Front(s.output)
  <2> HIDE DEF f
  <2>4. f \in Seq(Token) /\ (f # <<>> => f[1] = s.output[1])
    BY <2>1, <2>3 DEF f
  <2>5. /\ Append(f, tok) \in Seq(Token) /\ Append(f, tok) # <<>>
        /\ Append(f, tok)[1] = IF f = <<>> THEN tok ELSE f[1]
    BY <2>4, Appended
  <2> QED BY <2>1, <2>4, <2>5 DEF OutputOK, Rooted, f
<1>2. s = Record(s.output, s.operators, s.ec, s.lists)
  BY Parts
<1> HIDE DEF q
<1>3. [s EXCEPT !.output = q] = Record(q, s.operators, s.ec, s.lists)
  BY <1>2 DEF Record
<1>4. PushLiteral(s, tok) = Record(q, s.operators, s.ec, s.lists) \/ PushLiteral(s, tok) = Put(s, tok)
  BY <1>3 DEF PushLiteral, q
<1> QED BY <1>1, <1>4, Parts, Whole, TokenPut

LEMMA LparenPushed ==
  ASSUME NEW s, StacksOK(s)
  PROVE  StacksOK(PushLparen(s))
<1> DEFINE ops == Append(s.operators, Tok("lparen"))
<1>1. OperatorsOK(ops)
  <2>1. Tok("lparen") \in OperatorToken /\ Tok("lparen").kind = "lparen"
    BY TokensMade DEF OperatorToken, Stored
  <2> QED BY <2>1, Parts, OperatorsAppended
<1>2. s = Record(s.output, s.operators, s.ec, s.lists)
  BY Parts
<1> HIDE DEF ops
<1>3. [s EXCEPT !.operators = ops] = Record(s.output, ops, s.ec, s.lists)
  BY <1>2 DEF Record
<1>4. PushLparen(s) = Record(s.output, ops, s.ec, s.lists)
  BY <1>3 DEF PushLparen, ops
<1> QED BY <1>1, <1>4, Parts, Whole

LEMMA Levels == \A tok : precedence_level(tok) \in Nat
BY DEF precedence_level, OperLevel

(***************************************************************************)
(* An operator is stacked on a looser one, or after the tighter ones have  *)
(* been moved: on what does not yield to it, which is no tighter then.     *)
(***************************************************************************)
LEMMA OperatorPushed ==
  ASSUME NEW s, StacksOK(s), NEW tok \in Token, tok.kind \in Operators
  PROVE  StacksOK(PushOperator(s, tok))
<1> DEFINE ops == s.operators
           k == IF StacksOn(ops, tok) THEN Len(ops) ELSE KeptBelow(ops, tok)
           q == s.output \o Reverse(After(k, ops))
           kept == SubSeq(ops, 1, k)
           grown == Append(kept, tok)
<1>1. ops \in Seq(OperatorToken) /\ OperatorsOK(ops)
  BY Parts DEF OperatorsOK
<1>2. k \in 0 .. Len(ops)
  BY <1>1 DEF KeptBelow
<1>3. OutputOK(q)
  BY <1>2, Moved
<1>4. /\ OperatorsOK(kept) /\ Len(kept) = k
      /\ k > 0 => Last(kept) = ops[k]
  BY <1>1, <1>2, OperatorsCut, Prefix DEF Last
<1>5. \/ k = 0 \/ ops[k].kind = "lparen" \/ precedence_level(tok) <= precedence_level(ops[k])
  <2>1. CASE StacksOn(ops, tok)
    <3>1. k = Len(ops) /\ (k > 0 => Last(ops) = ops[k])
      BY <2>1 DEF Last
    <3> QED BY <2>1, <3>1, <1>1, Levels DEF StacksOn
  <2>2. CASE ~StacksOn(ops, tok) /\ k # 0
    <3>1. IsKept(ops, tok, k)
      BY <1>1, <2>2 DEF KeptBelow
    <3>2. ~Yields(ops[k], tok)
      BY <2>2, <3>1 DEF IsKept
    <3>3. ops[k].kind \in Operators \cup {"lparen"}
      BY <1>1, <1>2, <2>2 DEF OperatorToken
    <3> QED BY <3>2, <3>3, Levels DEF Yields, IsOperator
  <2> QED BY <2>1, <2>2
<1>6. OperatorsOK(grown)
  <2>1. tok \in OperatorToken
    BY DEF OperatorToken
  <2> HIDE DEF kept, k, ops
  <2>2. k = 0 => kept = <<>>
    BY <1>4 DEF OperatorsOK
  <2> QED BY <1>2, <1>4, <1>5, <2>1, <2>2, OperatorsAppended
<1>7. s = Record(s.output, s.operators, s.ec, s.lists)
  BY Parts
<1>8. PushOperator(s, tok) = [s EXCEPT !.output = q, !.operators = grown]
  BY DEF PushOperator
<1> HIDE DEF q, grown
<1>9. [s EXCEPT !.output = q, !.operators = grown] = Record(q, grown, s.ec, s.lists)
  <2> DEFINE r == [s EXCEPT !.output = q]
  <2>1. [s EXCEPT !.output = q, !.operators = grown] = [r EXCEPT !.operators = grown]
    OBVIOUS
  <2>2. r = Record(q, s.operators, s.ec, s.lists)
    BY <1>7 DEF Record
  <2> HIDE DEF r
  <2>3. [r EXCEPT !.operators = grown] = Record(q, grown, s.ec, s.lists)
    BY <2>2 DEF Record
  <2> QED BY <2>1, <2>3
<1> QED BY <1>3, <1>6, <1>8, <1>9, Parts, Whole

(***************************************************************************)
(* push_token keeps the stacks in order, whatever token it is given.       *)
(***************************************************************************)
THEOREM PushKeepsStacks ==
  ASSUME NEW s, StacksOK(s), NEW tok \in Token
  PROVE  StacksOK(push_token(tok, s))
<1>1. CASE tok.kind = "end_filter"
  <2>1. push_token(tok, s) = EndFilter(s)
    BY <1>1 DEF push_token, Operators, Openers
  <2> QED BY <1>1, <2>1, FilterEnded
<1>2. CASE tok.kind = "end_multi_select_list"
  <2>1. push_token(tok, s) = EndMultiSelectList(s)
    BY <1>2 DEF push_token, Operators, Openers
  <2> QED BY <1>2, <2>1, ListEnded
<1>3. CASE tok.kind = "end_multi_select_hash"
  <2>1. push_token(tok, s) = EndMultiSelectHash(s)
    BY <1>3 DEF push_token, Operators, Openers
  <2> QED BY <1>3, <2>1, HashEnded
<1>4. CASE tok.kind = "end_expression_type"
  <2>1. push_token(tok, s) = EndExpressionType(s)
    BY <1>4 DEF push_token, Operators, Openers
  <2> QED BY <1>4, <2>1, ExpressionTypeEnded
<1>5. CASE tok.kind = "end_function"
  <2>1. push_token(tok, s) = EndFunction(s)
    BY <1>5 DEF push_token, Operators, Openers
  <2> QED BY <1>5, <2>1, FunctionEnded
<1>6. CASE tok.kind = "end_of_expression"
  <2>1. push_token(tok, s) = EndOfExpression(s)
    BY <1>6 DEF push_token, Operators, Openers
  <2> QED BY <1>6, <2>1, ExpressionEnded
<1>7. CASE tok.kind = "rparen"
  <2>1. push_token(tok, s) = unwind_rparen(s)
    BY <1>7 DEF push_token, Operators, Openers
  <2> QED BY <1>7, <2>1, Unwound
<1>8. CASE tok.kind = "lparen"
  <2>1. push_token(tok, s) = PushLparen(s)
    BY <1>8 DEF push_token, Operators, Openers
  <2> QED BY <1>8, <2>1, LparenPushed
<1>9. CASE tok.kind = "literal"
  <2>1. push_token(tok, s) = PushLiteral(s, tok)
    BY <1>9 DEF push_token, Operators, Openers
  <2> QED BY <1>9, <2>1, LiteralPushed
<1>10. CASE tok.kind = "expression"
  <2>1. push_token(tok, s) = AddExpression(s, tok, tok)
    BY <1>10 DEF push_token, Operators, Openers
  <2> QED BY <1>10, <2>1, ExpressionAdded
<1>11. CASE tok.kind \in Operators
  <2>1. push_token(tok, s) = PushOperator(s, tok)
    BY <1>11 DEF push_token, Operators, Openers
  <2> QED BY <1>11, <2>1, OperatorPushed
<1>12. CASE tok.kind = "separator"
  <2>1. push_token(tok, s) = PushLparen(Put(unwind_rparen(s), tok))
    BY <1>12 DEF push_token, Operators, Openers
  <2>2. StacksOK(Put(unwind_rparen(s), tok))
    BY Unwound, TokenPut
  <2> QED BY <2>1, <2>2, LparenPushed
<1>13. CASE tok.kind \in Openers
  <2>1. push_token(tok, s) = PushLparen(Put(s, tok))
    BY <1>13 DEF push_token, Operators, Openers
  <2>2. StacksOK(Put(s, tok))
    BY TokenPut
  <2> QED BY <2>1, <2>2, LparenPushed
<1>14. CASE tok.kind \in {"current_node", "pipe", "key", "argument", "begin_expression_type"}
  <2>1. push_token(tok, s) = Put(s, tok)
    BY <1>14 DEF push_token, Operators, Openers
  <2> QED BY <2>1, TokenPut
<1>15. tok.kind \in Stored \cup Closers
  BY DEF Token
<1> QED BY <1>1, <1>2, <1>3, <1>4, <1>5, <1>6, <1>7, <1>8, <1>9, <1>10, <1>11, <1>12,
           <1>13, <1>14, <1>15 DEF Stored, Closers, Operators

-----------------------------------------------------------------------------
(* compile, pass after pass. *)

Roots == {"start", "rhs_expression"}

StatesOK(states) ==
  states \in Seq(path_state) /\ (states # <<>> => states[1] \in Roots)

(***************************************************************************)
(* Every pass but the one in `start` puts other states on state_stack_     *)
(* only in the place of a state that is not in Roots, and so not in the    *)
(* place of the bottom.                                                    *)
(***************************************************************************)
InputOK == rest \in Seq(STRING) /\ fed \in 0 .. MaxLength /\ finished \in BOOLEAN

SliceOK(s) == s \in [start : BOOLEAN, stop : BOOLEAN]

IInv ==
  /\ InputOK
  /\ StatesOK(state_stack)
  /\ StacksOK(stacks)
  /\ buffer \in BufferText
  /\ SliceOK(slic)
  /\ status \in Statuses

-----------------------------------------------------------------------------
(* state_stack_. *)

LEMMA UnderOK ==
  ASSUME StatesOK(state_stack), state_stack # <<>>
  PROVE  /\ StatesOK(Under) /\ Top \in path_state
         /\ Top \notin Roots => Under # <<>>
<1>1. state_stack \in Seq(path_state) /\ Len(state_stack) > 0 /\ state_stack[1] \in Roots
  BY DEF StatesOK
<1>2. Len(state_stack) - 1 \in 0 .. Len(state_stack)
  BY <1>1
<1>3. /\ Under \in Seq(path_state) /\ Len(Under) = Len(state_stack) - 1
      /\ \A k \in 1 .. Len(Under) : Under[k] = state_stack[k]
  BY <1>1, <1>2, Prefix DEF Under, Front
<1>4. Top \in path_state /\ Top = state_stack[Len(state_stack)]
  BY <1>1 DEF Top, Last
<1>5. Under # <<>> => Under[1] = state_stack[1]
  BY <1>1, <1>3
<1>6. Top \notin Roots => Len(state_stack) # 1
  BY <1>1, <1>4
<1> QED BY <1>1, <1>3, <1>4, <1>5, <1>6 DEF StatesOK

LEMMA Extended ==
  ASSUME NEW states, StatesOK(states), states # <<>>, NEW xs \in Seq(path_state)
  PROVE  StatesOK(states \o xs)
<1>1. states \in Seq(path_state) /\ Len(states) > 0 /\ states[1] \in Roots
  BY DEF StatesOK
<1>2. states \o xs \in Seq(path_state) /\ (states \o xs)[1] = states[1]
  BY <1>1
<1> QED BY <1>1, <1>2 DEF StatesOK

LEMMA Tuples ==
  /\ \A x \in path_state : <<x>> \in Seq(path_state)
  /\ \A x, y \in path_state : <<x, y>> \in Seq(path_state)
  /\ \A x, y, z \in path_state : <<x, y, z>> \in Seq(path_state)
OBVIOUS

LEMMA OnOK ==
  ASSUME StatesOK(state_stack), state_stack # <<>>
  PROVE  /\ \A x \in path_state : StatesOK(On(<<x>>))
         /\ \A x, y \in path_state : StatesOK(On(<<x, y>>))
BY Extended, Tuples DEF On

LEMMA ReplaceOK ==
  ASSUME StatesOK(state_stack), state_stack # <<>>, Top \notin Roots
  PROVE  /\ \A x \in path_state : StatesOK(Replace(<<x>>))
         /\ \A x, y \in path_state : StatesOK(Replace(<<x, y>>))
         /\ \A x, y, z \in path_state : StatesOK(Replace(<<x, y, z>>))
<1>1. StatesOK(Under) /\ Under # <<>>
  BY UnderOK
<1> QED BY <1>1, Extended, Tuples DEF Replace

-----------------------------------------------------------------------------
(* The steps that the passes are made of. *)

LEMMA Dropped ==
  ASSUME InputOK, NEW n \in Nat, Drop(n)
  PROVE  InputOK'
<1>1. rest \in Seq(STRING) /\ n + 1 \in Nat \ {0} /\ Len(rest) \in 0 .. Len(rest)
  BY DEF InputOK
<1>2. SubSeq(rest, n + 1, Len(rest)) \in Seq(STRING)
  BY <1>1, Part
<1> QED BY <1>2 DEF InputOK, Drop

LEMMA GotoInv ==
  ASSUME IInv, NEW n \in Nat, NEW states, StatesOK(states), Goto(n, states)
  PROVE  IInv'
<1>1. InputOK'
  BY Dropped DEF IInv, Goto
<1> QED BY <1>1 DEF IInv, Goto

LEMMA CollectInv ==
  ASSUME IInv, NEW n \in Nat, NEW states, StatesOK(states), NEW text \in BufferText,
         Collect(n, states, text)
  PROVE  IInv'
<1>1. InputOK'
  BY Dropped DEF IInv, Collect
<1> QED BY <1>1 DEF IInv, Collect

LEMMA StatusSet == \A e \in Errors : StatusAfter(e) \in Statuses
BY DEF StatusAfter, Statuses, Errors

LEMMA PushedInv ==
  ASSUME IInv, NEW n \in Nat, NEW states, StatesOK(states), NEW s, StacksOK(s),
         NEW text \in BufferText, PushedFrom(s, n, states, text), SliceOK(slic')
  PROVE  IInv'
<1>1. InputOK'
  BY Dropped DEF IInv, PushedFrom
<1>2. stacks' = s /\ status' = StatusAfter(s.ec) /\ s.ec \in Errors
  BY Parts DEF PushedFrom
<1>3. status' \in Statuses
  BY <1>2, StatusSet
<1> QED BY <1>1, <1>2, <1>3 DEF IInv, PushedFrom

LEMMA PushInv ==
  ASSUME IInv, NEW n \in Nat, NEW states, StatesOK(states), NEW tok \in Token,
         Push(n, states, tok)
  PROVE  IInv'
<1>1. StacksOK(push_token(tok, stacks))
  BY PushKeepsStacks DEF IInv
<1>2. PushedFrom(push_token(tok, stacks), n, states, buffer) /\ SliceOK(slic')
  BY DEF Push, IInv
<1>3. buffer \in BufferText
  BY DEF IInv
<1> HIDE DEF Push
<1> QED BY <1>1, <1>2, <1>3, PushedInv

LEMMA FailInv ==
  ASSUME IInv, NEW e \in Errors, Fail(e)
  PROVE  IInv'
<1>1. StacksOK(SetError(stacks, e))
  BY ErrorSet DEF IInv
<1> QED BY <1>1, StatusSet DEF IInv, Fail, InputOK

LEMMA BufferChecked ==
  ASSUME NEW s, StacksOK(s), buffer \in BufferText
  PROVE  StacksOK(checkBuffer(s)) /\ Unflushed \in BufferText
<1>1. "invalid_literal" \in Errors
  BY DEF Errors
<1>2. StacksOK(SetError(s, "invalid_literal"))
  BY <1>1, ErrorSet
<1>3. StacksOK(PushLiteral(s, Literal))
  BY TokensMade, LiteralPushed DEF Literal, Tok
<1> QED BY <1>2, <1>3 DEF checkBuffer, Unflushed, BufferText

LEMMA FlushPushInv ==
  ASSUME IInv, NEW n \in Nat, NEW states, StatesOK(states), NEW tok \in Token,
         FlushPush(n, states, tok)
  PROVE  IInv'
<1>1. StacksOK(checkBuffer(stacks)) /\ Unflushed \in BufferText
  BY BufferChecked DEF IInv
<1>2. StacksOK(push_token(tok, checkBuffer(stacks)))
  BY <1>1, PushKeepsStacks
<1>3. PushedFrom(push_token(tok, checkBuffer(stacks)), n, states, Unflushed) /\ SliceOK(slic')
  BY DEF FlushPush, IInv
<1> QED BY <1>1, <1>2, <1>3, PushedInv

LEMMA FlushGotoInv ==
  ASSUME IInv, NEW n \in Nat, NEW states, StatesOK(states), FlushGoto(n, states)
  PROVE  IInv'
<1>1. InputOK'
  BY Dropped DEF IInv, FlushGoto
<1>2. StacksOK(checkBuffer(stacks)) /\ Unflushed \in BufferText
  BY BufferChecked DEF IInv
<1> QED BY <1>1, <1>2 DEF IInv, FlushGoto

LEMMA TakeTextInv ==
  ASSUME IInv, NEW n \in Nat, StatesOK(Under), NEW tok \in Token, TakeText(n, tok)
  PROVE  IInv'
<1>1. StacksOK(push_token(tok, stacks))
  BY PushKeepsStacks DEF IInv
<1>2. PushedFrom(push_token(tok, stacks), n, Under, "empty") /\ SliceOK(slic')
  BY DEF TakeText, IInv
<1>3. "empty" \in BufferText
  BY DEF BufferText
<1> QED BY <1>1, <1>2, <1>3, PushedInv

LEMMA PassSpaceInv ==
  ASSUME IInv, NEW states, StatesOK(states), NEW s, StacksOK(s), NEW text \in BufferText,
         PassSpace(states, s, text)
  PROVE  IInv'
<1>1. SpaceLength \in Nat
  BY DEF SpaceLength
<1>2. InputOK'
  BY <1>1, Dropped DEF IInv, PassSpace
<1>3. "unexpected_end_of_input" \in Errors
  BY DEF Errors
<1>4. StacksOK(stacks')
  BY <1>3, ErrorSet DEF PassSpace
<1> QED BY <1>2, <1>4 DEF IInv, PassSpace

LEMMA AdvanceFromInv ==
  ASSUME IInv, NEW s, StacksOK(s), AdvancePastSpaceFrom(s)
  PROVE  IInv'
<1>1. StacksOK(checkBuffer(s)) /\ Unflushed \in BufferText
  BY BufferChecked DEF IInv
<1>2. CASE PassSpace(state_stack, checkBuffer(s), Unflushed)
  BY <1>1, <1>2, PassSpaceInv DEF IInv
<1>3. CASE /\ stacks' = s
           /\ buffer' = NormalisedText
           /\ UNCHANGED <<input, state_stack, slic, status>>
  BY <1>3 DEF IInv, InputOK, input, BufferText, NumberTexts, NormalisedText
<1>4. CASE Fail(Throws)
  <2>1. Throws \in Errors
    BY DEF Errors
  <2> QED BY <1>4, <2>1, FailInv
<1> QED BY <1>2, <1>3, <1>4 DEF AdvancePastSpaceFrom

LEMMA AdvanceInv ==
  ASSUME IInv, advance_past_space_character \/ FlushThenAdvance
  PROVE  IInv'
<1>1. "invalid_literal" \in Errors
  BY DEF Errors
<1>2. StacksOK(stacks) /\ StacksOK(SetError(stacks, "invalid_literal"))
  BY <1>1, ErrorSet DEF IInv
<1> QED BY <1>2, AdvanceFromInv DEF advance_past_space_character, FlushThenAdvance

LEMMA BinaryInv ==
  ASSUME IInv, NEW n \in Nat, StatesOK(Under), NEW oper \in BinaryOpers,
         PushBinary(n, oper) \/ FlushBinary(n, oper)
  PROVE  IInv'
<1>1. Binary(oper) \in Token /\ CurrentNode \in Token
  BY TokensMade DEF Binary, Token, Stored, Opers
<1>2. StacksOK(checkBuffer(stacks)) /\ Unflushed \in BufferText /\ StacksOK(stacks)
      /\ buffer \in BufferText
  BY BufferChecked DEF IInv
<1>3. ASSUME NEW s, StacksOK(s) PROVE StacksOK(WithBinary(oper, s))
  BY <1>1, <1>3, PushKeepsStacks, TokenPut DEF WithBinary
<1>4. StacksOK(WithBinary(oper, stacks)) /\ StacksOK(WithBinary(oper, checkBuffer(stacks)))
  BY <1>2, <1>3
<1>5. CASE PushBinary(n, oper)
  <2>1. PushedFrom(WithBinary(oper, stacks), n, Under, buffer) /\ SliceOK(slic')
    BY <1>5 DEF PushBinary, IInv
  <2> QED BY <1>2, <1>4, <2>1, PushedInv
<1>6. CASE FlushBinary(n, oper)
  <2>1. PushedFrom(WithBinary(oper, checkBuffer(stacks)), n, Under, Unflushed) /\ SliceOK(slic')
    BY <1>6 DEF FlushBinary, IInv
  <2> QED BY <1>2, <1>4, <2>1, PushedInv
<1> QED BY <1>5, <1>6

(* What a character makes of the buffer. *)
LEMMA PushBackText ==
  ASSUME NEW b \in BufferText, NEW x \in STRING
  PROVE  push_back(b, x) \in BufferText
<1>1. /\ AppendDigit(b, x) \in BufferText /\ AppendPoint(b) \in BufferText
      /\ AppendExponent(b) \in BufferText /\ AppendSign(b, x) \in BufferText
  <2>1. AppendDigit(b, x) \in BufferText
    BY DEF AppendDigit, BufferText, NumberTexts
  <2>2. AppendPoint(b) \in BufferText
    BY DEF AppendPoint, BufferText, NumberTexts
  <2>3. AppendExponent(b) \in BufferText
    BY DEF AppendExponent, BufferText, NumberTexts
  <2>4. AppendSign(b, x) \in BufferText
    BY DEF AppendSign, BufferText, NumberTexts
  <2> QED BY <2>1, <2>2, <2>3, <2>4
<1> QED BY <1>1 DEF push_back, BufferText

-----------------------------------------------------------------------------
(* The passes, by the part of the grammar they read. *)

(* What every pass may use. *)
LEMMA Reading ==
  ASSUME IInv, CanRead
  PROVE  /\ state_stack # <<>> /\ StatesOK(state_stack) /\ StatesOK(Under)
         /\ StacksOK(stacks) /\ buffer \in BufferText
         /\ push_back(buffer, c) \in BufferText
<1>1. state_stack # <<>> /\ StatesOK(state_stack) /\ StacksOK(stacks) /\ buffer \in BufferText
  BY DEF IInv, CanRead
<1>2. c \in STRING
  BY DEF IInv, InputOK, CanRead, c
<1> QED BY <1>1, <1>2, UnderOK, PushBackText

LEMMA OperandInv ==
  ASSUME IInv, CanRead, Top \notin Roots, Operand
  PROVE  IInv'
<1>1. /\ StatesOK(Replace(<<"val_expr", "raw_string">>))
      /\ StatesOK(Replace(<<"multi_select_hash">>))
      /\ StatesOK(Replace(<<"identifier_or_function_expr", "unquoted_string">>))
      /\ StatesOK(Under)
  BY Reading, ReplaceOK DEF path_state
<1>2. Tok("begin_multi_select_hash") \in Token /\ Expression("projection_op") \in Token
  BY TokensMade DEF Stored, Openers, Opers, ProjectionOpers
<1>3. CASE advance_past_space_character
  BY <1>3, AdvanceInv
<1>4. CASE c = "'" /\ Goto(1, Replace(<<"val_expr", "raw_string">>))
  BY <1>1, <1>4, GotoInv
<1>5. CASE Push(1, Replace(<<"multi_select_hash">>), Tok("begin_multi_select_hash"))
  BY <1>1, <1>2, <1>5, PushInv
<1>6. CASE Push(1, Under, Expression("projection_op"))
  BY <1>1, <1>2, <1>6, PushInv
<1>7. CASE Collect(1, Replace(<<"identifier_or_function_expr", "unquoted_string">>),
                   push_back(buffer, c))
  BY <1>1, <1>7, Reading, CollectInv
<1> QED BY <1>3, <1>4, <1>5, <1>6, <1>7 DEF Operand

LEMMA LeaveOrFailInv ==
  ASSUME IInv, CanRead, LeaveOrFail
  PROVE  IInv'
<1>1. "syntax_error" \in Errors
  BY DEF Errors
<1> QED BY <1>1, Reading, GotoInv, FailInv DEF LeaveOrFail

LEMMA ReadExpressionInv ==
  ASSUME IInv, ReadExpression
  PROVE  IInv'
<1> USE DEF At
<1>1. CASE start
  <2>1. StatesOK(Replace(<<"rhs_expression", "lhs_expression">>))
    <3>1. StatesOK(Under)
      BY <1>1, Reading DEF start
    <3>2. <<"rhs_expression", "lhs_expression">> \in Seq(path_state)
      BY Tuples DEF path_state
    <3>3. CASE Under = <<>>
      <4>1. Replace(<<"rhs_expression", "lhs_expression">>) = <<"rhs_expression", "lhs_expression">>
        BY <3>2, <3>3 DEF Replace
      <4>2. <<"rhs_expression", "lhs_expression">>[1] \in Roots
        BY DEF Roots
      <4> DEFINE xs == <<"rhs_expression", "lhs_expression">>
      <4> HIDE DEF xs
      <4>3. xs \in Seq(path_state) /\ xs[1] \in Roots
        BY <3>2, <4>2 DEF xs
      <4>4. StatesOK(xs)
        BY <4>3 DEF StatesOK
      <4> QED BY <4>1, <4>4 DEF xs
    <3>4. CASE Under # <<>>
      BY <3>1, <3>2, <3>4, Extended DEF Replace
    <3> QED BY <3>3, <3>4
  <2> QED BY <1>1, <2>1, GotoInv DEF start
<1>2. CASE rhs_expression
  <2>1. CanRead /\ StatesOK(Under)
    BY <1>2, Reading DEF rhs_expression
  <2>2. /\ \A x \in path_state : StatesOK(On(<<x>>))
        /\ \A x, y \in path_state : StatesOK(On(<<x, y>>))
    BY <2>1, Reading, OnOK
  <2>3. /\ StatesOK(On(<<"sub_expression">>))
        /\ StatesOK(On(<<"lhs_expression", "expect_pipe_or_or">>))
        /\ StatesOK(On(<<"lhs_expression", "expect_and">>))
        /\ StatesOK(On(<<"lhs_expression", "cmp_ne">>))
        /\ StatesOK(On(<<"bracket_specifier">>))
        /\ StatesOK(On(<<"comparator_expression">>))
        /\ StatesOK(On(<<"jf_expression">>))
    BY <2>2 DEF path_state
  <2> QED BY <1>2, <2>1, <2>3, AdvanceInv, GotoInv, FlushGotoInv, LeaveOrFailInv DEF rhs_expression
<1>3. CASE comparator_expression
  <2>1. CanRead /\ Top \notin Roots
    BY <1>3 DEF comparator_expression, Roots
  <2>2. \A x \in Comparator : StatesOK(Replace(<<"lhs_expression", CompareState[x]>>))
    BY <2>1, Reading, ReplaceOK DEF CompareState, Comparator, path_state
  <2> QED BY <1>3, <2>1, <2>2, AdvanceInv, GotoInv, LeaveOrFailInv DEF comparator_expression
<1>4. CASE jf_expression
  <2>1. CanRead /\ Top \notin Roots
    BY <1>4 DEF jf_expression, Roots
  <2>2. \A x \in Arithmetic : StatesOK(Replace(<<"lhs_expression", ArithmeticState[x]>>))
    BY <2>1, Reading, ReplaceOK DEF ArithmeticState, Arithmetic, path_state, OperatorStates
  <2> QED BY <1>4, <2>1, <2>2, AdvanceInv, FlushGotoInv, LeaveOrFailInv DEF jf_expression
<1>5. CASE lhs_expression
  <2>1. CanRead /\ Top \notin Roots
    BY <1>5 DEF lhs_expression, Roots
  <2>2. /\ StatesOK(Replace(<<"quoted_string">>))
        /\ StatesOK(Replace(<<"literal">>))
        /\ StatesOK(Replace(<<"bracket_specifier_or_multi_select_list">>))
        /\ StatesOK(Replace(<<"expect_rparen", "rhs_expression", "lhs_expression">>))
        /\ StatesOK(Replace(<<"number">>))
        /\ StatesOK(Under) /\ StatesOK(state_stack)
    BY <2>1, Reading, ReplaceOK DEF path_state
  <2>3. /\ Tok("lparen") \in Token /\ Unary("not_op") \in Token /\ Selector \in Token
        /\ "expected_identifier" \in Errors
    BY TokensMade DEF Stored, Unary, Token, Opers, UnaryOpers, Errors
  <2>4. push_back(buffer, c) \in BufferText
    BY <2>1, Reading
  <2> QED BY <1>5, <2>1, <2>2, <2>3, <2>4, OperandInv, GotoInv, PushInv, CollectInv, FailInv
          DEF lhs_expression
<1>6. CASE sub_expression
  <2>1. CanRead /\ Top \notin Roots
    BY <1>6 DEF sub_expression, Roots
  <2>2. /\ StatesOK(On(<<"quoted_string">>))
        /\ StatesOK(Replace(<<"expect_multi_select_list">>))
    BY <2>1, Reading, ReplaceOK, OnOK DEF path_state
  <2>3. "expected_identifier" \in Errors
    BY DEF Errors
  <2> QED BY <1>6, <2>1, <2>2, <2>3, OperandInv, GotoInv, FailInv DEF sub_expression
<1>7. CASE key_expr \/ val_expr
  <2>1. StatesOK(Under) /\ Tok("key") \in Token /\ Selector \in Token
    BY <1>7, Reading, TokensMade DEF key_expr, val_expr, Stored
  <2> QED BY <1>7, <2>1, TakeTextInv DEF key_expr, val_expr
<1>8. CASE expect_rparen
  <2>1. CanRead /\ Top \notin Roots
    BY <1>8 DEF expect_rparen, Roots
  <2>2. StatesOK(Replace(<<"rhs_expression">>))
    BY <2>1, Reading, ReplaceOK DEF path_state
  <2>3. Tok("rparen") \in Token /\ "expected_rparen" \in Errors
    BY DEF Tok, Token, Closers, Opers, Errors
  <2> QED BY <1>8, <2>2, <2>3, AdvanceInv, PushInv, FailInv DEF expect_rparen
<1> QED BY <1>1, <1>2, <1>3, <1>4, <1>5, <1>6, <1>7, <1>8 DEF ReadExpression

LEMMA ReadFunctionInv ==
  ASSUME IInv, ReadFunction
  PROVE  IInv'
<1> USE DEF At
<1>1. ASSUME CanRead, Top \in {"identifier_or_function_expr", "expression_or_expression_type",
                               "function_expression", "argument", "expression_type"}
      PROVE  /\ StatesOK(Under) /\ StatesOK(state_stack)
             /\ StatesOK(On(<<"expression_or_expression_type">>))
             /\ StatesOK(Replace(<<"function_expression", "expression_or_expression_type">>))
             /\ StatesOK(Replace(<<"expression_type", "rhs_expression", "lhs_expression">>))
             /\ StatesOK(Replace(<<"argument", "rhs_expression", "number">>))
             /\ StatesOK(Replace(<<"argument", "rhs_expression", "lhs_expression">>))
  <2>1. Top \notin Roots
    BY <1>1 DEF Roots
  <2> QED BY <1>1, <2>1, Reading, OnOK, ReplaceOK DEF path_state
<1>2. /\ Tok("begin_expression_type") \in Token /\ Tok("argument") \in Token
      /\ Tok("end_function") \in Token /\ CurrentNode \in Token /\ Selector \in Token
  BY TokensMade DEF Stored, Tok, Token, Closers, Opers
<1>3. CASE identifier_or_function_expr
  <2>1. StatesOK(Under) /\ Selector \in Token /\ "unknown_function" \in Errors
    BY <1>1, <1>2, <1>3 DEF identifier_or_function_expr, Errors
  <2>2. CASE /\ buffer \in Functions
             /\ PushedFrom(push_token(Function(buffer), stacks), 1,
                           Replace(<<"function_expression", "expression_or_expression_type">>),
                           "empty")
             /\ UNCHANGED slic
    <3>1. Function(buffer) \in Token
      BY <2>2 DEF Function, Token, Stored, Openers
    <3>2. StacksOK(push_token(Function(buffer), stacks)) /\ SliceOK(slic')
      BY <2>2, <3>1, PushKeepsStacks DEF IInv
    <3>3. "empty" \in BufferText
      BY DEF BufferText
    <3>4. StatesOK(Replace(<<"function_expression", "expression_or_expression_type">>))
      BY <1>1, <1>3 DEF identifier_or_function_expr
    <3> QED BY <2>2, <3>2, <3>3, <3>4, PushedInv
  <2> QED BY <1>3, <2>1, <2>2, TakeTextInv, FailInv DEF identifier_or_function_expr
<1>4. CASE expression_or_expression_type
  <2>1. push_back(buffer, c) \in BufferText
    BY <1>4, Reading DEF expression_or_expression_type
  <2> QED BY <1>1, <1>2, <1>4, <2>1, AdvanceInv, PushInv, CollectInv, GotoInv
          DEF expression_or_expression_type
<1>5. CASE function_expression
  BY <1>1, <1>2, <1>5, AdvanceInv, FlushPushInv, FlushGotoInv DEF function_expression
<1>6. CASE argument
  BY <1>1, <1>2, <1>6, PushInv DEF argument
<1>7. CASE expression_type
  <2>1. StacksOK(Put(EndExpressionType(stacks), Tok("argument"))) /\ SliceOK(slic')
    BY <1>2, <1>7, ExpressionTypeEnded, TokenPut DEF expression_type, IInv
  <2>2. buffer \in BufferText
    BY DEF IInv
  <2> QED BY <1>1, <1>7, <2>1, <2>2, PushedInv DEF expression_type
<1> QED BY <1>3, <1>4, <1>5, <1>6, <1>7 DEF ReadFunction

LEMMA ReadTextInv ==
  ASSUME IInv, ReadText
  PROVE  IInv'
<1> USE DEF At
<1> DEFINE Texts == {"quoted_string", "raw_string", "unquoted_string", "literal",
                     "number", "digit"} \cup EscapeStates
<1>1. ASSUME CanRead, Top \in Texts
      PROVE  /\ StatesOK(Under) /\ StatesOK(state_stack) /\ Under # <<>>
             /\ \A x \in EscapeStates \cup {"digit"} :
                  StatesOK(On(<<x>>)) /\ StatesOK(Replace(<<x>>))
  <2>1. Top \notin Roots
    BY <1>1 DEF Roots, EscapeStates
  <2>2. Under # <<>>
    BY <1>1, <2>1, Reading, UnderOK
  <2> QED BY <1>1, <2>1, <2>2, Reading, OnOK, ReplaceOK DEF path_state
<1>2. /\ "text" \in BufferText /\ "empty" \in BufferText /\ buffer \in BufferText
      /\ \A x \in Alphabet : push_back(buffer, x) \in BufferText
      /\ CanRead => push_back(buffer, c) \in BufferText
  BY Reading, PushBackText, CompileAssumption DEF IInv, BufferText
<1>3. {"illegal_escaped_character", "invalid_codepoint", "invalid_literal",
       "unexpected_end_of_input"} \subseteq Errors
  BY DEF Errors
<1>4. Literal \in Token
  BY TokensMade
<1>5. ASSUME CanRead, Top \in {"quoted_string", "raw_string"},
             Grandparent \in {"key_expr", "sub_expression"}
      PROVE  StatesOK(Front(Under) \o <<"val_expr">>)
  <2>1. StatesOK(Under) /\ Under # <<>>
    BY <1>1, <1>5
  <2>2. Len(Under) > 1 /\ Under \in Seq(path_state) /\ Under[1] \in Roots
    BY <1>5, <2>1 DEF StatesOK, Roots, Grandparent, Last
  <2>3. Len(Under) - 1 \in 1 .. Len(Under)
    BY <2>2
  <2>4. /\ Front(Under) \in Seq(path_state) /\ Front(Under)[1] = Under[1]
        /\ Len(Front(Under)) = Len(Under) - 1
    BY <2>2, <2>3, Prefix DEF Front
  <2>5. StatesOK(Front(Under)) /\ Front(Under) # <<>>
    BY <2>2, <2>3, <2>4 DEF StatesOK
  <2>6. <<"val_expr">> \in Seq(path_state)
    BY Tuples DEF path_state
  <2> QED BY <2>5, <2>6, Extended
<1>6. CASE quoted_string
  BY <1>1, <1>2, <1>4, <1>5, <1>6, GotoInv, CollectInv, TakeTextInv
     DEF quoted_string, EscapeStates
<1>7. CASE raw_string
  BY <1>1, <1>2, <1>5, <1>7, GotoInv, CollectInv DEF raw_string, EscapeStates
<1>8. CASE unquoted_string
  BY <1>1, <1>2, <1>8, Reading, GotoInv, CollectInv, PassSpaceInv DEF unquoted_string
<1>9. CASE raw_string_escape_char \/ quoted_string_escape_char
  BY <1>1, <1>2, <1>3, <1>9, GotoInv, CollectInv, FailInv
     DEF raw_string_escape_char, quoted_string_escape_char, EscapeStates
<1>10. CASE escape_digit
  BY <1>1, <1>3, <1>10, GotoInv, FailInv DEF escape_digit, AfterHexDigit, EscapeStates
<1>11. CASE escape_u4 \/ escape_u8
  BY <1>1, <1>2, <1>3, <1>11, GotoInv, CollectInv, FailInv
     DEF escape_u4, escape_u8, CollectCodepoint, EscapeStates
<1>12. CASE escape_expect_surrogate_pair1 \/ escape_expect_surrogate_pair2
  BY <1>1, <1>3, <1>12, GotoInv, FailInv
     DEF escape_expect_surrogate_pair1, escape_expect_surrogate_pair2, EscapeStates
<1>13. CASE literal
  BY <1>1, <1>2, <1>3, <1>4, <1>13, CollectInv, TakeTextInv, FailInv DEF literal
<1>14. CASE number \/ digit
  BY <1>1, <1>2, <1>14, GotoInv, CollectInv DEF number, digit
<1> QED BY <1>6, <1>7, <1>8, <1>9, <1>10, <1>11, <1>12, <1>13, <1>14 DEF ReadText

(* A pass that ends a slice. *)
LEMMA EndSliceInv ==
  ASSUME IInv, StatesOK(Under), EndSlice
  PROVE  IInv'
<1>1. Expression("projection_op") \in Token /\ "empty" \in BufferText
  BY TokensMade DEF Opers, ProjectionOpers, BufferText
<1>2. StacksOK(push_token(Expression("projection_op"), stacks))
  BY <1>1, PushKeepsStacks DEF IInv
<1>3. SliceOK(slic')
  BY DEF EndSlice, SliceOK, NoSlice
<1> QED BY <1>1, <1>2, <1>3, PushedInv DEF EndSlice

(* A pass that reads a bound of a slice. *)
LEMMA BoundInv ==
  ASSUME IInv, NEW states, StatesOK(states), Drop(1), state_stack' = states,
         SliceOK(slic'), buffer' = "empty", UNCHANGED <<stacks, status>>
  PROVE  IInv'
<1>1. InputOK'
  BY Dropped DEF IInv
<1> QED BY <1>1 DEF IInv, BufferText

LEMMA NumberThenCommaInv ==
  ASSUME IInv, StatesOK(On(<<"lhs_expression">>)),
         StatesOK(Replace(<<"multi_select_list", "lhs_expression">>)), NumberThenComma
  PROVE  IInv'
<1> DEFINE begun == push_token(Tok("begin_multi_select_list"), stacks)
           s == push_token(Tok("separator"), checkBuffer(begun))
<1>1. Tok("begin_multi_select_list") \in Token /\ Tok("separator") \in Token
  BY TokensMade DEF Stored, Openers
<1>2. StacksOK(begun)
  BY <1>1, PushKeepsStacks DEF IInv
<1>3. StacksOK(checkBuffer(begun)) /\ Unflushed \in BufferText
  BY <1>2, BufferChecked DEF IInv
<1>4. StacksOK(s)
  BY <1>1, <1>3, PushKeepsStacks
<1>5. CASE FlushPush(1, On(<<"lhs_expression">>), Tok("separator"))
  BY <1>1, <1>5, FlushPushInv
<1>6. CASE PushedFrom(s, 1, Replace(<<"multi_select_list", "lhs_expression">>), Unflushed)
           /\ UNCHANGED slic
  <2> HIDE DEF s
  <2>1. SliceOK(slic')
    BY <1>6 DEF IInv
  <2> QED BY <1>3, <1>4, <1>6, <2>1, PushedInv
<1> QED BY <1>5, <1>6 DEF NumberThenComma

LEMMA ReadBracketInv ==
  ASSUME IInv, ReadBracket
  PROVE  IInv'
<1> USE DEF At
<1> DEFINE Brackets == {"bracket_specifier", "bracket_specifier_or_multi_select_list",
                        "expect_multi_select_list", "expect_rbracket", "multi_select_list",
                        "filter"} \cup SliceStates
<1>1. ASSUME CanRead, Top \in Brackets
      PROVE  /\ StatesOK(Under) /\ StatesOK(state_stack)
             /\ StatesOK(On(<<"lhs_expression">>)) /\ StatesOK(On(<<"sub_expression">>))
             /\ StatesOK(On(<<"lhs_expression", "expect_pipe_or_or">>))
             /\ StatesOK(Replace(<<"expect_rbracket">>))
             /\ StatesOK(Replace(<<"bracket_specifier">>))
             /\ StatesOK(Replace(<<"filter", "rhs_expression", "lhs_expression">>))
             /\ StatesOK(Replace(<<"multi_select_list", "lhs_expression">>))
             /\ StatesOK(Replace(<<"multi_select_list", "number">>))
             /\ \A x \in SliceStates : StatesOK(Replace(<<x, "number">>))
  <2>1. Top \notin Roots
    BY <1>1 DEF Roots, SliceStates
  <2> QED BY <1>1, <2>1, Reading, OnOK, ReplaceOK DEF path_state
<1>2. /\ Expression("projection_op") \in Token /\ Expression("flatten_projection_op") \in Token
      /\ Selector \in Token /\ Tok("begin_filter") \in Token
      /\ Tok("begin_multi_select_list") \in Token /\ Tok("separator") \in Token
  BY TokensMade DEF Opers, ProjectionOpers, Stored, Openers
<1>3. Tok("end_filter") \in Token /\ Tok("end_multi_select_list") \in Token
  BY DEF Tok, Token, Closers, Opers
<1>4. {"expected_index_expression", "unexpected_end_of_input", "expected_multi_select_list",
       "expected_rbracket", "invalid_number", "step_cannot_be_zero"} \subseteq Errors
  BY DEF Errors
<1>5. CASE bracket_specifier
  BY <1>1, <1>2, <1>4, <1>5, PushInv, GotoInv, FailInv DEF bracket_specifier, SliceStates
<1>6. CASE bracket_specifier_or_multi_select_list
  BY <1>1, <1>2, <1>4, <1>6, PushInv, GotoInv, FailInv
     DEF bracket_specifier_or_multi_select_list, BeginMultiSelectList
<1>7. CASE expect_multi_select_list
  BY <1>1, <1>2, <1>4, <1>7, PushInv, GotoInv, FailInv
     DEF expect_multi_select_list, BeginMultiSelectList
<1>8. CASE expect_rbracket \/ filter
  BY <1>1, <1>3, <1>4, <1>8, AdvanceInv, PushInv, GotoInv, FailInv DEF expect_rbracket, filter
<1>9. CASE multi_select_list
  BY <1>1, <1>2, <1>3, <1>4, <1>9, AdvanceInv, FlushPushInv, GotoInv, FailInv
     DEF multi_select_list
<1>10. CASE index_or_slice_expression
  <2>1. CASE /\ Drop(1)
             /\ state_stack' = Replace(<<"rhs_slice_expression_stop", "number">>)
             /\ slic' = [slic EXCEPT !.start = @ \/ buffer # "empty"]
             /\ buffer' = "empty"
             /\ UNCHANGED <<stacks, status>>
    <3>1. SliceOK(slic')
      BY <2>1 DEF SliceOK, IInv
    <3> QED BY <1>1, <1>10, <2>1, <3>1, BoundInv DEF index_or_slice_expression, SliceStates
  <2> QED BY <1>1, <1>2, <1>4, <1>10, <2>1, PushInv, TakeTextInv, NumberThenCommaInv, FailInv
          DEF index_or_slice_expression, SliceStates
<1>11. CASE rhs_slice_expression_stop
  <2>1. CASE /\ Drop(1)
             /\ state_stack' = Replace(<<"rhs_slice_expression_step", "number">>)
             /\ slic' = [slic EXCEPT !.stop = @ \/ buffer # "empty"]
             /\ buffer' = "empty"
             /\ UNCHANGED <<stacks, status>>
    <3>1. SliceOK(slic')
      BY <2>1 DEF SliceOK, IInv
    <3> QED BY <1>1, <1>11, <2>1, <3>1, BoundInv DEF rhs_slice_expression_stop, SliceStates
  <2> QED BY <1>1, <1>4, <1>11, <2>1, EndSliceInv, FailInv
          DEF rhs_slice_expression_stop, SliceStates
<1>12. CASE rhs_slice_expression_step
  BY <1>1, <1>4, <1>12, EndSliceInv, FailInv DEF rhs_slice_expression_step, SliceStates
<1> QED BY <1>5, <1>6, <1>7, <1>8, <1>9, <1>10, <1>11, <1>12 DEF ReadBracket

LEMMA ReadHashInv ==
  ASSUME IInv, ReadHash
  PROVE  IInv'
<1> USE DEF At
<1>1. ASSUME CanRead, Top \in {"multi_select_hash", "key_val_expr", "expect_colon", "expect_rbrace"}
      PROVE  /\ StatesOK(Under) /\ StatesOK(state_stack)
             /\ StatesOK(On(<<"lhs_expression">>)) /\ StatesOK(On(<<"sub_expression">>))
             /\ StatesOK(On(<<"jf_expression">>))
             /\ StatesOK(Replace(<<"key_val_expr">>))
             /\ StatesOK(Replace(<<"expect_rbrace", "lhs_expression">>))
             /\ StatesOK(Replace(<<"expect_colon", "key_expr", "quoted_string">>))
             /\ StatesOK(Replace(<<"expect_colon", "key_expr", "raw_string">>))
             /\ StatesOK(Replace(<<"expect_colon", "key_expr", "unquoted_string">>))
  <2>1. Top \notin Roots
    BY <1>1 DEF Roots
  <2> QED BY <1>1, <2>1, Reading, OnOK, ReplaceOK DEF path_state
<1>2. Tok("separator") \in Token /\ Tok("end_multi_select_hash") \in Token
  BY TokensMade DEF Stored, Tok, Token, Closers, Opers
<1>3. {"expected_key", "expected_colon", "expected_rbrace"} \subseteq Errors
  BY DEF Errors
<1>4. CASE multi_select_hash
  <2>1. CASE UNCHANGED vars
    BY <2>1 DEF vars, IInv, InputOK
  <2> QED BY <1>1, <1>2, <1>4, <2>1, PushInv, GotoInv DEF multi_select_hash
<1>5. CASE key_val_expr
  <2>1. push_back(buffer, c) \in BufferText
    BY <1>5, Reading DEF key_val_expr
  <2> QED BY <1>1, <1>3, <1>5, <2>1, AdvanceInv, GotoInv, CollectInv, FailInv DEF key_val_expr
<1>6. CASE expect_colon
  BY <1>1, <1>3, <1>6, AdvanceInv, GotoInv, FailInv DEF expect_colon
<1>7. CASE expect_rbrace
  BY <1>1, <1>2, <1>3, <1>7, AdvanceInv, FlushPushInv, FlushGotoInv, FailInv DEF expect_rbrace
<1> QED BY <1>4, <1>5, <1>6, <1>7 DEF ReadHash

LEMMA ReadOperatorInv ==
  ASSUME IInv, ReadOperator
  PROVE  IInv'
<1> USE DEF At
<1>1. CanRead => StatesOK(Under)
  BY Reading
<1>2. Tok("pipe") \in Token /\ "expected_comparator" \in Errors
  BY TokensMade DEF Stored, Errors
<1>3. /\ {"lte_op", "ne_op", "lt_op", "gte_op", "gt_op", "eq_op", "or_op", "and_op",
          "concat_op"} \subseteq BinaryOpers
      /\ \A x \in OperatorStates : OperOfState[x] \in BinaryOpers
  BY DEF BinaryOpers, OperatorStates, OperOfState
<1>4. CASE arithmetic_operator
  BY <1>1, <1>3, <1>4, BinaryInv DEF arithmetic_operator
<1>5. CASE cmp_lt_or_lte \/ cmp_gt_or_gte \/ cmp_eq \/ cmp_ne
  BY <1>1, <1>2, <1>3, <1>5, BinaryInv, FailInv
     DEF cmp_lt_or_lte, cmp_gt_or_gte, cmp_eq, cmp_ne
<1>6. CASE expect_pipe_or_or \/ expect_and
  BY <1>1, <1>2, <1>3, <1>6, BinaryInv, PushInv DEF expect_pipe_or_or, expect_and
<1> QED BY <1>4, <1>5, <1>6 DEF ReadOperator

LEMMA EndOfInputInv ==
  ASSUME IInv, EndOfInput
  PROVE  IInv'
<1>1. state_stack # <<>> => StatesOK(Under)
  BY UnderOK DEF IInv
<1>2. Len(state_stack) > 1 \/ Len(state_stack) = 1 => state_stack # <<>>
  OBVIOUS
<1>3. Literal \in Token /\ Selector \in Token
  BY TokensMade
<1>4. {"invalid_literal", "unbalanced_quotes", "syntax_error", "unexpected_end_of_input",
       Undefined} \subseteq Errors
  BY DEF Errors
<1>5. CASE end_in_rhs_or_unquoted \/ end_in_number \/ end_in_identifier
  BY <1>1, <1>2, <1>3, <1>4, <1>5, GotoInv, TakeTextInv, PushInv, FailInv
     DEF end_in_rhs_or_unquoted, end_in_number, end_in_identifier, EndsIn
<1>6. CASE end_in_string \/ end_elsewhere \/ empty_state_stack
  BY <1>4, <1>6, FailInv DEF end_in_string, end_elsewhere, empty_state_stack
<1>7. CASE end_of_expression
  <2>1. CASE Fail("unexpected_end_of_input")
    BY <1>4, <2>1, FailInv
  <2>2. CASE /\ stacks' = EndOfExpression(stacks)
             /\ state_stack' = <<>>
             /\ status' = IF stacks'.ec = NoError THEN "compiled" ELSE StatusAfter(stacks'.ec)
             /\ UNCHANGED <<input, buffer, slic>>
    <3>1. StacksOK(stacks')
      BY <2>2, ExpressionEnded DEF IInv
    <3>2. stacks'.ec \in Errors
      BY <3>1, Parts
    <3>3. status' \in Statuses
      BY <2>2, <3>2, StatusSet DEF Statuses
    <3>4. StatesOK(<<>>)
      BY DEF StatesOK
    <3> QED BY <2>2, <3>1, <3>3, <3>4 DEF IInv, InputOK, input
  <2> QED BY <1>7, <2>1, <2>2 DEF end_of_expression
<1> QED BY <1>5, <1>6, <1>7 DEF EndOfInput

-----------------------------------------------------------------------------
LEMMA InitInv == Init => IInv
<1> SUFFICES ASSUME Init PROVE IInv
  OBVIOUS
<1>1. InputOK
  <2>1. rest \in Seq(STRING)
    BY CompileAssumption DEF Init
  <2>2. fed \in 0 .. MaxLength
    BY CompileAssumption DEF Init
  <2>3. finished \in BOOLEAN
    BY DEF Init
  <2> QED BY <2>1, <2>2, <2>3 DEF InputOK
<1>2. StatesOK(state_stack)
  <2>1. <<"start">> \in Seq(path_state)
    BY Tuples DEF path_state
  <2> QED BY <2>1 DEF Init, StatesOK, Roots
<1>3. StacksOK(stacks)
  <2>1. stacks = Record(<<CurrentNode>>, <<>>, NoError, {})
    <3>1. stacks = Put(EmptyStacks, CurrentNode)
      BY DEF Init, push_token, CurrentNode, Tok, Operators, Openers
    <3>2. Append(<<>>, CurrentNode) = <<CurrentNode>>
      OBVIOUS
    <3> QED BY <3>1, <3>2 DEF Put, EmptyStacks, Record
  <2>2. OutputOK(<<CurrentNode>>)
    <3>1. CurrentNode \in Token /\ CurrentNode.kind = "current_node"
      BY TokensMade DEF CurrentNode, Tok
    <3> QED BY <3>1 DEF OutputOK, Rooted
  <2>3. OperatorsOK(<<>>) /\ NoError \in Errors
    BY DEF OperatorsOK, SegmentsOrdered, Errors
  <2> QED BY <2>1, <2>2, <2>3, Whole
<1>4. buffer \in BufferText /\ SliceOK(slic) /\ status \in Statuses
  BY DEF Init, BufferText, SliceOK, NoSlice, Statuses
<1> QED BY <1>1, <1>2, <1>3, <1>4 DEF IInv

LEMMA NextInv == IInv /\ [Next]_vars => IInv'
<1> SUFFICES ASSUME IInv, [Next]_vars PROVE IInv'
  OBVIOUS
<1>1. CASE Feed
  <2>1. InputOK'
    <3>1. InputOK
      BY DEF IInv
    <3>2. PICK x \in Alphabet : rest' = Append(rest, x)
      BY <1>1 DEF Feed
    <3>3. x \in STRING
      BY CompileAssumption
    <3>4. rest' \in Seq(STRING)
      BY <3>1, <3>2, <3>3, Appended DEF InputOK
    <3>5. fed' \in 0 .. MaxLength /\ finished' \in BOOLEAN
      BY <1>1, <3>1, CompileAssumption DEF Feed, InputOK
    <3> QED BY <3>4, <3>5 DEF InputOK
  <2> QED BY <1>1, <2>1 DEF Feed, IInv
<1>2. CASE Finish
  <2>1. InputOK'
    BY <1>2 DEF Finish, IInv, InputOK
  <2> QED BY <1>2, <2>1 DEF Finish, IInv
<1>3. CASE Returned \/ UNCHANGED vars
  BY <1>3 DEF Returned, vars, IInv, InputOK
<1> QED BY <1>1, <1>2, <1>3, ReadExpressionInv, ReadFunctionInv, ReadTextInv, ReadBracketInv,
           ReadHashInv, ReadOperatorInv, EndOfInputInv DEF Next

LEMMA Invariant == Spec => []IInv
BY InitInv, NextInv, PTL DEF Spec

(* Every pass leaves the state of compile typed. *)
THEOREM TypeCorrect == Spec => []TypeOK
<1>1. IInv => TypeOK
  BY Parts DEF IInv, TypeOK, InputOK, StatesOK, SliceOK
<1> QED BY <1>1, Invariant, PTL

(* operator_stack_ is in order whenever push_token shunts an operator.     *)
THEOREM OperatorsStayOrdered == Spec => []OpsOrdered
<1>1. IInv => OpsOrdered
  BY DEF IInv, OpsOrdered, StacksOK, OperatorsOK
<1> QED BY <1>1, Invariant, PTL

(* output_stack_ is never empty and begins with the root of the expression. *)
THEOREM RootIsKept == Spec => []RootStays
<1>1. IInv => RootStays
  BY DEF IInv, RootStays, StacksOK, OutputOK
<1> QED BY <1>1, Invariant, PTL

(* The states that look at state_stack_[size()-2] are never alone on it.   *)
THEOREM GrandparentIsThere == Spec => []GrandparentExists
<1>1. IInv => GrandparentExists
  <2> SUFFICES ASSUME IInv, state_stack # <<>>,
                      Top \in {"quoted_string", "raw_string", "number"}
               PROVE  Len(state_stack) > 1
    BY DEF GrandparentExists
  <2>1. state_stack \in Seq(path_state) /\ state_stack[1] \in Roots
    BY DEF IInv, StatesOK
  <2>2. Top \notin Roots
    BY DEF Roots
  <2> QED BY <2>1, <2>2 DEF Top, Last
<1> QED BY <1>1, Invariant, PTL

-----------------------------------------------------------------------------
(***************************************************************************)
(* slic, which all slices of an expression share, holds a bound only while *)
(* the slice it belongs to is on top of state_stack_, or under the number  *)
(* that is its next bound.                                                 *)
(***************************************************************************)
Bounds  == {"rhs_slice_expression_stop", "rhs_slice_expression_step"}
Numbers == {"number", "digit"}

InSlice(states) ==
  \/ states # <<>> /\ Last(states) \in Bounds
  \/ /\ Len(states) > 1
     /\ Last(states) \in Numbers
     /\ states[Len(states) - 1] \in Bounds

SInv == status = "running" /\ slic # NoSlice => InSlice(state_stack)

-----------------------------------------------------------------------------
LEMMA GotoKeepsSlic ==
  ASSUME NEW n, NEW states, NEW text,
         Goto(n, states) \/ Collect(n, states, text) \/ FlushGoto(n, states)
  PROVE  UNCHANGED slic
BY DEF Goto, Collect, FlushGoto

LEMMA PushKeepsSlic ==
  ASSUME NEW n, NEW states, NEW tok,
         Push(n, states, tok) \/ FlushPush(n, states, tok) \/ TakeText(n, tok)
  PROVE  UNCHANGED slic
BY DEF Push, FlushPush, TakeText

LEMMA BinaryKeepsSlic ==
  ASSUME NEW n, NEW oper, PushBinary(n, oper) \/ FlushBinary(n, oper)
  PROVE  UNCHANGED slic
BY DEF PushBinary, FlushBinary

LEMMA FailKeepsSlic ==
  ASSUME NEW e, Fail(e)
  PROVE  UNCHANGED slic
BY DEF Fail

LEMMA AdvanceKeepsSlic ==
  /\ advance_past_space_character \/ FlushThenAdvance => UNCHANGED slic
  /\ LeaveOrFail \/ NumberThenComma => UNCHANGED slic
<1>1. ASSUME NEW s, AdvancePastSpaceFrom(s) PROVE UNCHANGED slic
  BY <1>1, FailKeepsSlic DEF AdvancePastSpaceFrom, PassSpace
<1>2. advance_past_space_character \/ FlushThenAdvance => UNCHANGED slic
  BY <1>1 DEF advance_past_space_character, FlushThenAdvance
<1>3. LeaveOrFail \/ NumberThenComma => UNCHANGED slic
  BY GotoKeepsSlic, FailKeepsSlic, PushKeepsSlic DEF LeaveOrFail, NumberThenComma
<1> QED BY <1>2, <1>3

(* The passes that have nothing to do with the bounds of a slice. *)
LEMMA OthersKeepSlic ==
  ASSUME \/ ReadExpression \/ ReadFunction \/ ReadHash \/ ReadOperator \/ ReadText
         \/ bracket_specifier \/ bracket_specifier_or_multi_select_list
         \/ expect_multi_select_list \/ expect_rbracket \/ multi_select_list \/ filter
  PROVE  UNCHANGED slic
<1> USE GotoKeepsSlic, PushKeepsSlic, BinaryKeepsSlic, FailKeepsSlic, AdvanceKeepsSlic
<1>1. CASE ReadExpression
  <2>1. Operand => UNCHANGED slic
    BY DEF Operand
  <2> QED BY <1>1, <2>1 DEF ReadExpression, start, rhs_expression, comparator_expression,
          jf_expression, lhs_expression, sub_expression, key_expr, val_expr, expect_rparen
<1>2. CASE ReadFunction
  BY <1>2 DEF ReadFunction, identifier_or_function_expr, expression_or_expression_type,
     function_expression, argument, expression_type
<1>3. CASE ReadHash
  BY <1>3 DEF ReadHash, multi_select_hash, key_val_expr, expect_colon, expect_rbrace, vars
<1>4. CASE ReadOperator
  BY <1>4 DEF ReadOperator, arithmetic_operator, cmp_lt_or_lte, cmp_gt_or_gte, cmp_eq, cmp_ne,
     expect_pipe_or_or, expect_and
<1>5. CASE ReadText
  <2>1. CASE quoted_string \/ raw_string \/ unquoted_string \/ literal \/ number \/ digit
    BY <2>1 DEF quoted_string, raw_string, unquoted_string, literal, number, digit, PassSpace
  <2>2. CASE \/ raw_string_escape_char \/ quoted_string_escape_char \/ escape_digit
             \/ escape_u4 \/ escape_u8
             \/ escape_expect_surrogate_pair1 \/ escape_expect_surrogate_pair2
    BY <2>2 DEF raw_string_escape_char, quoted_string_escape_char, escape_digit, escape_u4,
       CollectCodepoint, escape_u8, escape_expect_surrogate_pair1, escape_expect_surrogate_pair2
  <2> QED BY <1>5, <2>1, <2>2 DEF ReadText
<1>6. CASE bracket_specifier \/ bracket_specifier_or_multi_select_list
           \/ expect_multi_select_list \/ expect_rbracket \/ multi_select_list \/ filter
  BY <1>6 DEF bracket_specifier, bracket_specifier_or_multi_select_list, expect_multi_select_list,
     expect_rbracket, multi_select_list, filter, BeginMultiSelectList
<1> QED BY <1>1, <1>2, <1>3, <1>4, <1>5, <1>6

-----------------------------------------------------------------------------
(* state_stack_ with a slice on top of it. *)

LEMMA UnderSlice ==
  ASSUME state_stack \in Seq(path_state), Len(state_stack) > 1, Top \in Numbers,
         InSlice(state_stack)
  PROVE  /\ InSlice(Under) /\ InSlice(state_stack)
         /\ InSlice(Replace(<<"digit">>))
<1>1. Top = state_stack[Len(state_stack)] /\ Top \notin Bounds
  BY DEF Top, Last, Numbers, Bounds
<1>2. state_stack[Len(state_stack) - 1] \in Bounds
  BY <1>1 DEF InSlice, Top
<1>3. Len(state_stack) - 1 \in 0 .. Len(state_stack) /\ Len(state_stack) \in Nat
  OBVIOUS
<1>4. /\ Under \in Seq(path_state) /\ Len(Under) = Len(state_stack) - 1
      /\ Under[Len(state_stack) - 1] = state_stack[Len(state_stack) - 1]
  BY <1>3, Prefix DEF Under, Front
<1>5. InSlice(Under)
  BY <1>2, <1>3, <1>4 DEF InSlice, Last
<1>6. /\ Len(Under \o <<"digit">>) = Len(Under) + 1
      /\ (Under \o <<"digit">>)[Len(Under)] = Under[Len(Under)]
      /\ (Under \o <<"digit">>)[Len(Under) + 1] = "digit"
  BY <1>3, <1>4
<1>7. InSlice(Under \o <<"digit">>)
  BY <1>2, <1>3, <1>4, <1>6 DEF InSlice, Last, Numbers
<1> QED BY <1>5, <1>7 DEF Replace

LEMMA BoundFollows ==
  ASSUME StatesOK(state_stack), state_stack # <<>>, NEW x \in Bounds
  PROVE  InSlice(Replace(<<x, "number">>))
<1>1. Under \in Seq(path_state)
  BY UnderOK DEF StatesOK
<1>2. Len(Under) \in Nat
  BY <1>1
<1>3. /\ Len(Under \o <<x, "number">>) = Len(Under) + 2
      /\ (Under \o <<x, "number">>)[Len(Under) + 1] = x
      /\ (Under \o <<x, "number">>)[Len(Under) + 2] = "number"
  BY <1>1
<1> QED BY <1>2, <1>3 DEF InSlice, Replace, Last, Numbers

LEMMA ErrorsStop ==
  ASSUME NEW e, e # NoError, Fail(e)
  PROVE  status' # "running"
BY DEF Fail, StatusAfter, NoError, SetError

-----------------------------------------------------------------------------
LEMMA SNext == IInv /\ SInv /\ [Next]_vars => SInv'
<1> SUFFICES ASSUME IInv, SInv, Next, status' = "running", slic' # NoSlice
             PROVE  InSlice(state_stack')
  BY DEF SInv, vars
<1>0. state_stack \in Seq(path_state)
  BY DEF IInv, StatesOK
<1>1. CASE Feed \/ Finish
  BY <1>1 DEF Feed, Finish, NeedsInput, SInv
<1>2. CASE Returned
  BY <1>2 DEF Returned, vars
<1>3. ASSUME status = "running", Top \notin Bounds \cup Numbers, state_stack # <<>>
      PROVE  slic = NoSlice
  BY <1>3 DEF SInv, InSlice, Top
<1>4. CASE number \/ digit
  <2>1. CanRead /\ Top \in Numbers /\ state_stack # <<>> /\ slic # NoSlice
    BY <1>4, OthersKeepSlic DEF number, digit, At, ReadText, Numbers, CanRead
  <2>2. InSlice(state_stack)
    BY <2>1 DEF SInv, CanRead
  <2>3. Len(state_stack) > 1
    BY <2>1, <2>2 DEF InSlice, Top, Numbers, Bounds
  <2>4. InSlice(Under) /\ InSlice(Replace(<<"digit">>))
    BY <1>0, <2>1, <2>2, <2>3, UnderSlice
  <2> QED BY <1>4, <2>2, <2>4 DEF number, digit, Goto, Collect
<1>5. CASE rhs_slice_expression_stop
  <2>1. state_stack # <<>> /\ StatesOK(state_stack)
    BY <1>5 DEF rhs_slice_expression_stop, At, CanRead, IInv
  <2>2. "rhs_slice_expression_step" \in Bounds
    BY DEF Bounds
  <2>3. InSlice(Replace(<<"rhs_slice_expression_step", "number">>))
    BY <2>1, <2>2, BoundFollows
  <2>4. "invalid_number" # NoError /\ "expected_rbracket" # NoError
    BY DEF NoError
  <2> QED BY <1>5, <2>3, <2>4, ErrorsStop DEF rhs_slice_expression_stop, EndSlice
<1>6. CASE rhs_slice_expression_step
  <2>1. /\ "invalid_number" # NoError /\ "expected_rbracket" # NoError
        /\ "step_cannot_be_zero" # NoError
    BY DEF NoError
  <2> QED BY <1>6, <2>1, ErrorsStop DEF rhs_slice_expression_step, EndSlice
<1>7. CASE index_or_slice_expression
  <2>1. /\ state_stack # <<>> /\ StatesOK(state_stack) /\ status = "running"
        /\ Top \notin Bounds \cup Numbers
    BY <1>7 DEF index_or_slice_expression, At, CanRead, IInv, Bounds, Numbers
  <2>2. slic = NoSlice
    BY <1>3, <2>1
  <2>3. "rhs_slice_expression_stop" \in Bounds
    BY DEF Bounds
  <2>4. InSlice(Replace(<<"rhs_slice_expression_stop", "number">>))
    BY <2>1, <2>3, BoundFollows
  <2>5. slic' # slic
    BY <2>2
  <2> QED BY <1>7, <2>4, <2>5, PushKeepsSlic, FailKeepsSlic, AdvanceKeepsSlic
          DEF index_or_slice_expression
<1>8. ASSUME CanRead, Top \notin Bounds \cup Numbers, UNCHANGED slic
      PROVE  FALSE
  BY <1>3, <1>8 DEF CanRead
<1>9. CASE ReadExpression
  <2>1. CanRead /\ Top \notin Bounds \cup Numbers
    BY <1>9 DEF ReadExpression, At, start, rhs_expression, comparator_expression, jf_expression,
       lhs_expression, sub_expression, key_expr, val_expr, expect_rparen, Bounds, Numbers
  <2> QED BY <1>8, <1>9, <2>1, OthersKeepSlic
<1>10. CASE ReadFunction
  <2>1. CanRead /\ Top \notin Bounds \cup Numbers
    BY <1>10 DEF ReadFunction, At, identifier_or_function_expr, expression_or_expression_type,
       function_expression, argument, expression_type, Bounds, Numbers
  <2> QED BY <1>8, <1>10, <2>1, OthersKeepSlic
<1>11. CASE ReadHash
  <2>1. CanRead /\ Top \notin Bounds \cup Numbers
    BY <1>11 DEF ReadHash, At, multi_select_hash, key_val_expr, expect_colon, expect_rbrace,
       Bounds, Numbers
  <2> QED BY <1>8, <1>11, <2>1, OthersKeepSlic
<1>12. CASE ReadOperator
  <2>1. CanRead /\ Top \notin Bounds \cup Numbers
    BY <1>12 DEF ReadOperator, At, arithmetic_operator, OperatorStates, cmp_lt_or_lte,
       cmp_gt_or_gte, cmp_eq, cmp_ne, expect_pipe_or_or, expect_and, Bounds, Numbers
  <2> QED BY <1>8, <1>12, <2>1, OthersKeepSlic
<1>13. CASE /\ \/ quoted_string \/ raw_string \/ unquoted_string \/ literal
               \/ raw_string_escape_char \/ quoted_string_escape_char \/ escape_digit
               \/ escape_u4 \/ escape_u8
               \/ escape_expect_surrogate_pair1 \/ escape_expect_surrogate_pair2
  <2>1. CanRead /\ Top \notin Bounds \cup Numbers
    BY <1>13 DEF At, quoted_string, raw_string, unquoted_string, literal, raw_string_escape_char,
       quoted_string_escape_char, escape_digit, AfterHexDigit, escape_u4, escape_u8,
       escape_expect_surrogate_pair1, escape_expect_surrogate_pair2, Bounds, Numbers
  <2>2. ReadText
    BY <1>13 DEF ReadText
  <2> QED BY <1>8, <2>1, <2>2, OthersKeepSlic
<1>14. CASE \/ bracket_specifier \/ bracket_specifier_or_multi_select_list
            \/ expect_multi_select_list \/ expect_rbracket \/ multi_select_list \/ filter
  <2>1. CanRead /\ Top \notin Bounds \cup Numbers
    BY <1>14 DEF At, bracket_specifier, bracket_specifier_or_multi_select_list,
       expect_multi_select_list, expect_rbracket, multi_select_list, filter, Bounds, Numbers
  <2> QED BY <1>8, <1>14, <2>1, OthersKeepSlic
<1>15. CASE EndOfInput
  <2>1. /\ "invalid_literal" # NoError /\ "unbalanced_quotes" # NoError
        /\ "syntax_error" # NoError /\ "unexpected_end_of_input" # NoError
        /\ Undefined # NoError
    BY DEF NoError, Undefined
  <2>2. CASE end_in_number
    <3>1. CASE TakeText(0, Literal)
      <4>1. UNCHANGED slic /\ state_stack' = Under
        BY <3>1 DEF TakeText, PushedFrom
      <4>2. status = "running" /\ Len(state_stack) > 1 /\ Top \in Numbers
        BY <2>2 DEF end_in_number, EndsIn, Numbers
      <4>3. InSlice(state_stack)
        BY <4>1, <4>2 DEF SInv
      <4> QED BY <1>0, <4>1, <4>2, <4>3, UnderSlice
    <3> QED BY <2>1, <2>2, <3>1, ErrorsStop DEF end_in_number
  <2>3. CASE end_in_rhs_or_unquoted \/ end_in_identifier
    <3>1. status = "running" /\ state_stack # <<>> /\ Top \notin Bounds \cup Numbers
      BY <1>0, <2>3 DEF end_in_rhs_or_unquoted, end_in_identifier, EndsIn, Bounds, Numbers
    <3>2. UNCHANGED slic
      BY <2>3, GotoKeepsSlic, PushKeepsSlic DEF end_in_rhs_or_unquoted, end_in_identifier
    <3> QED BY <1>3, <3>1, <3>2
  <2>4. CASE end_in_string \/ end_elsewhere \/ empty_state_stack
    BY <2>1, <2>4, ErrorsStop DEF end_in_string, end_elsewhere, empty_state_stack
  <2>5. CASE end_of_expression
    <3>1. ASSUME status' = IF stacks'.ec = NoError THEN "compiled" ELSE StatusAfter(stacks'.ec)
          PROVE  FALSE
      BY <3>1 DEF StatusAfter
    <3> QED BY <2>1, <2>5, <3>1, ErrorsStop DEF end_of_expression
  <2> QED BY <1>15, <2>2, <2>3, <2>4, <2>5 DEF EndOfInput
<1> QED BY <1>1, <1>2, <1>4, <1>5, <1>6, <1>7, <1>9, <1>10, <1>11, <1>12, <1>13, <1>14, <1>15
        DEF Next, ReadText, ReadBracket

(***************************************************************************)
(* The slices of an expression, nested in filters or one after the other,  *)
(* never see each other's bounds in slic.                                  *)
(***************************************************************************)
THEOREM SlicesKeepApart == Spec => []SliceScratch
<1>1. Init => SInv
  BY DEF Init, SInv
<1>2. Spec => []SInv
  BY <1>1, SNext, Invariant, PTL DEF Spec
<1>3. IInv /\ SInv => SliceScratch
  <2> SUFFICES ASSUME IInv, InSlice(state_stack)
               PROVE  \E i \in {Len(state_stack), Len(state_stack) - 1} \cap DOMAIN state_stack :
                        state_stack[i] \in SliceStates
    BY DEF SliceScratch, SInv
  <2>1. state_stack \in Seq(path_state) /\ Bounds \subseteq SliceStates
    BY DEF IInv, StatesOK, Bounds, SliceStates
  <2>2. CASE state_stack # <<>> /\ Last(state_stack) \in Bounds
    <3>1. Len(state_stack) \in DOMAIN state_stack
      BY <2>1, <2>2
    <3> QED BY <2>1, <2>2, <3>1 DEF Last
  <2>3. CASE Len(state_stack) > 1 /\ state_stack[Len(state_stack) - 1] \in Bounds
    <3>1. Len(state_stack) - 1 \in DOMAIN state_stack
      BY <2>1, <2>3
    <3> QED BY <2>1, <2>3, <3>1
  <2> QED BY <2>2, <2>3 DEF InSlice
<1> QED BY <1>2, <1>3, Invariant, PTL

-----------------------------------------------------------------------------
(* Errors.  Only the fields of the stacks matter here, and not what tokens  *)
(* are on them.                                                             *)

Failed(s) == /\ s = Record(s.output, s.operators, s.ec, s.lists)
             /\ s.ec # NoError

-----------------------------------------------------------------------------
(* No change of the stacks clears ec. *)

LEMMA ChangedFails ==
  ASSUME NEW s, Failed(s), NEW q, NEW other
  PROVE  /\ Failed([s EXCEPT !.output = q]) /\ Failed([s EXCEPT !.operators = other])
         /\ Failed([s EXCEPT !.output = q, !.operators = other])
         /\ Failed([s EXCEPT !.output = q, !.lists = other])
<1>1. s = Record(s.output, s.operators, s.ec, s.lists) /\ s.ec # NoError
  BY DEF Failed
<1>2. [s EXCEPT !.output = q] = Record(q, s.operators, s.ec, s.lists)
  BY <1>1 DEF Record
<1>3. [s EXCEPT !.operators = other] = Record(s.output, other, s.ec, s.lists)
  BY <1>1 DEF Record
<1>4. [s EXCEPT !.output = q, !.operators = other] = Record(q, other, s.ec, s.lists)
  <2> DEFINE r == Record(q, s.operators, s.ec, s.lists)
  <2>1. [s EXCEPT !.output = q, !.operators = other] = [r EXCEPT !.operators = other]
    BY <1>2
  <2>2. [r EXCEPT !.operators = other] = Record(q, other, s.ec, s.lists)
    BY DEF Record
  <2> QED BY <2>1, <2>2
<1>5. [s EXCEPT !.output = q, !.lists = other] = Record(q, s.operators, s.ec, other)
  <2> DEFINE r == Record(q, s.operators, s.ec, s.lists)
  <2>1. [s EXCEPT !.output = q, !.lists = other] = [r EXCEPT !.lists = other]
    BY <1>2
  <2>2. [r EXCEPT !.lists = other] = Record(q, s.operators, s.ec, other)
    BY DEF Record
  <2> QED BY <2>1, <2>2
<1>6. \A a, b, d : Failed(Record(a, b, s.ec, d))
  BY <1>1 DEF Failed, Record
<1> QED BY <1>2, <1>3, <1>4, <1>5, <1>6

LEMMA PutFails ==
  ASSUME NEW s, Failed(s), NEW tok
  PROVE  Failed(Put(s, tok))
BY DEF Failed, Put, Record

LEMMA ErrorFails ==
  ASSUME NEW s, s = Record(s.output, s.operators, s.ec, s.lists), NEW e, e # NoError
  PROVE  Failed(SetError(s, e))
BY DEF Failed, SetError, Record

LEMMA UnwindFails ==
  ASSUME NEW s, Failed(s)
  PROVE  Failed(unwind_rparen(s))
<1> DEFINE p == LastAt("lparen", s.operators)
           q == s.output \o Reverse(After(p, s.operators))
           popped == [s EXCEPT !.output = q]
           ops == SubSeq(popped.operators, 1, p - 1)
<1>1. Failed(popped)
  <2> HIDE DEF q
  <2> QED BY ChangedFails
<1>2. Failed([popped EXCEPT !.operators = ops])
  <2> HIDE DEF popped, ops
  <2> QED BY <1>1, ChangedFails
<1>3. "unbalanced_parentheses" # NoError
  BY DEF NoError
<1>4. Failed(SetError(popped, "unbalanced_parentheses"))
  <2> HIDE DEF popped
  <2> QED BY <1>1, <1>3, ErrorFails DEF Failed
<1> QED BY <1>2, <1>4 DEF unwind_rparen

LEMMA AddFails ==
  ASSUME NEW s, Failed(s), NEW tok, NEW expr
  PROVE  Failed(AddExpression(s, tok, expr))
BY PutFails DEF AddExpression

LEMMA CaptureFails ==
  ASSUME NEW s, Failed(s), NEW from, NEW lists, NEW tok, NEW expr
  PROVE  Failed(Capture(s, from, lists, tok, expr))
<1> DEFINE q == SubSeq(s.output, 1, from - 1)
           ls == s.lists \cup {Prefixed(l) : l \in lists}
           taken == [s EXCEPT !.output = q, !.lists = ls]
<1>1. Failed(taken)
  <2> HIDE DEF q, ls
  <2> QED BY ChangedFails
<1>2. Undefined # NoError
  BY DEF NoError, Undefined
<1>3. Failed(AddExpression(taken, tok, expr))
  <2> HIDE DEF taken
  <2> QED BY <1>1, AddFails
<1>4. Failed(SetError(s, Undefined))
  BY <1>2, ErrorFails DEF Failed
<1> QED BY <1>3, <1>4 DEF Capture

LEMMA GroupFails ==
  ASSUME NEW s, Failed(s)
  PROVE  /\ Failed(EndFilter(s)) /\ Failed(EndMultiSelectList(s))
         /\ Failed(EndMultiSelectHash(s))
<1> DEFINE u == unwind_rparen(s)
<1>1. Failed(u)
  BY UnwindFails
<1>2. Undefined # NoError /\ "unbalanced_braces" # NoError
  BY DEF NoError, Undefined
<1>3. Failed(SetError(u, Undefined)) /\ Failed(SetError(u, "unbalanced_braces"))
  <2> HIDE DEF u
  <2> QED BY <1>1, <1>2, ErrorFails DEF Failed
<1>4. Failed(EndFilter(s))
  BY <1>1, <1>3, CaptureFails DEF EndFilter
<1>5. Failed(EndMultiSelectList(s))
  BY <1>1, <1>3, CaptureFails DEF EndMultiSelectList
<1>6. Failed(EndMultiSelectHash(s))
  BY <1>1, <1>3, CaptureFails DEF EndMultiSelectHash
<1> QED BY <1>4, <1>5, <1>6

LEMMA ExpressionTypeFails ==
  ASSUME NEW s, Failed(s)
  PROVE  Failed(EndExpressionType(s))
<1> DEFINE b == LastAt("begin_expression_type", s.output)
           toks == After(b, s.output)
           q == SubSeq(s.output, 1, b)
           ls == s.lists \cup {Prefixed(toks)}
           taken == [s EXCEPT !.output = q, !.lists = ls]
<1>1. Failed(taken)
  <2> HIDE DEF q, ls
  <2> QED BY ChangedFails
<1>2. Failed(Put(taken, Selector))
  <2> HIDE DEF taken
  <2> QED BY <1>1, PutFails
<1>3. Undefined # NoError /\ Throws # NoError
  BY DEF NoError, Undefined, Throws
<1>4. Failed(SetError(s, Undefined)) /\ Failed(SetError(s, Throws))
  BY <1>3, ErrorFails DEF Failed
<1> QED BY <1>2, <1>4 DEF EndExpressionType

LEMMA FunctionFails ==
  ASSUME NEW s, Failed(s)
  PROVE  Failed(EndFunction(s))
<1> DEFINE u == unwind_rparen(s)
           b == LastAt("function", u.output)
           f == u.output[b]
           toks == After(b, u.output)
           q == SubSeq(u.output, 1, b - 1)
           ls == u.lists \cup {Append(Prefixed(SwapArguments(toks)), f)}
           taken == [u EXCEPT !.output = q, !.lists = ls]
<1>1. Failed(u)
  BY UnwindFails
<1> HIDE DEF u
<1>2. Failed(taken)
  <2> HIDE DEF q, ls
  <2> QED BY <1>1, ChangedFails
<1>3. Failed(AddExpression(taken, Tok("end_function"), Selector))
  <2> HIDE DEF taken
  <2> QED BY <1>2, AddFails
<1>4. /\ Undefined # NoError /\ "unbalanced_parentheses" # NoError
      /\ "invalid_arity" # NoError
  BY DEF NoError, Undefined
<1>5. /\ Failed(SetError(u, Undefined)) /\ Failed(SetError(u, "invalid_arity"))
      /\ Failed(SetError(u, "unbalanced_parentheses"))
  BY <1>1, <1>4, ErrorFails DEF Failed
<1> QED BY <1>3, <1>5 DEF EndFunction, u

LEMMA LiteralFails ==
  ASSUME NEW s, Failed(s), NEW tok
  PROVE  Failed(PushLiteral(s, tok))
<1> DEFINE q == Append(Front(s.output), tok)
<1>1. Failed([s EXCEPT !.output = q])
  <2> HIDE DEF q
  <2> QED BY ChangedFails
<1> QED BY <1>1, PutFails DEF PushLiteral

LEMMA LparenFails ==
  ASSUME NEW s, Failed(s)
  PROVE  Failed(PushLparen(s))
BY DEF Failed, Record, PushLparen

LEMMA OperatorFails ==
  ASSUME NEW s, Failed(s), NEW tok
  PROVE  Failed(PushOperator(s, tok))
<1> DEFINE k == IF StacksOn(s.operators, tok) THEN Len(s.operators)
                ELSE KeptBelow(s.operators, tok)
           q == s.output \o Reverse(After(k, s.operators))
           ops == Append(SubSeq(s.operators, 1, k), tok)
<1>1. Failed([s EXCEPT !.output = q, !.operators = ops])
  <2> HIDE DEF q, ops
  <2> QED BY ChangedFails
<1> QED BY <1>1 DEF PushOperator

LEMMA EndFails ==
  ASSUME NEW s, Failed(s)
  PROVE  Failed(EndOfExpression(s))
<1> DEFINE q == s.output \o Reverse(s.operators)
<1>1. Failed([s EXCEPT !.output = q, !.operators = <<>>])
  <2> HIDE DEF q
  <2> QED BY ChangedFails
<1> QED BY <1>1 DEF EndOfExpression

(* push_token never clears the error it is called with. *)
LEMMA PushFails ==
  ASSUME NEW s, Failed(s), NEW tok
  PROVE  Failed(push_token(tok, s))
<1>1. Failed(PushLparen(Put(unwind_rparen(s), tok))) /\ Failed(PushLparen(Put(s, tok)))
  BY UnwindFails, PutFails, LparenFails
<1> QED BY <1>1, GroupFails, ExpressionTypeFails, FunctionFails, EndFails, UnwindFails,
           LparenFails, LiteralFails, AddFails, OperatorFails, PutFails DEF push_token

(* _checkBuffer sets ec or pushes a literal. *)
LEMMA CheckFails ==
  ASSUME NEW s, Failed(s)
  PROVE  /\ Failed(checkBuffer(s))
         /\ checkBuffer(s).operators = s.operators /\ checkBuffer(s).lists = s.lists
<1>1. "invalid_literal" # NoError
  BY DEF NoError
<1>2. CASE checkBuffer(s) = s
  BY <1>2
<1>3. CASE checkBuffer(s) = SetError(s, "invalid_literal")
  <2>1. Failed(SetError(s, "invalid_literal"))
    BY <1>1, ErrorFails DEF Failed
  <2>2. /\ SetError(s, "invalid_literal").operators = s.operators
        /\ SetError(s, "invalid_literal").lists = s.lists
    BY DEF Failed, Record, SetError
  <2> QED BY <1>3, <2>1, <2>2
<1>4. CASE checkBuffer(s) = PushLiteral(s, Literal)
  <2>1. Failed(PushLiteral(s, Literal))
    BY LiteralFails
  <2>2. /\ PushLiteral(s, Literal).operators = s.operators
        /\ PushLiteral(s, Literal).lists = s.lists
    BY DEF Failed, Record, PushLiteral, Put
  <2> QED BY <1>4, <2>1, <2>2
<1> QED BY <1>2, <1>3, <1>4 DEF checkBuffer

-----------------------------------------------------------------------------
(* What ErrorEndsTheCall says of one step. *)

Reported ==
  stacks.ec # NoError =>
    /\ stacks'.ec # NoError /\ status' # "compiled"
    /\ status' = "running" =>
         /\ stacks'.operators = stacks.operators
         /\ stacks'.lists = stacks.lists

(* A step of a call that has not returned. *)
Running == /\ stacks = Record(stacks.output, stacks.operators, stacks.ec, stacks.lists)
           /\ status = "running"

LEMMA ErrorIsFailed == Running /\ stacks.ec # NoError => Failed(stacks)
BY DEF Running, Failed

LEMMA StatusOfError == \A e : e # NoError => StatusAfter(e) \notin {"running", "compiled"}
BY DEF StatusAfter, NoError

LEMMA SameStacks ==
  ASSUME Running, UNCHANGED <<stacks, status>>
  PROVE  Reported
BY DEF Running, Reported

LEMMA GotoReports ==
  ASSUME Running, NEW n, NEW states, NEW text, Goto(n, states) \/ Collect(n, states, text)
  PROVE  Reported
BY SameStacks DEF Goto, Collect

LEMMA PushedReports ==
  ASSUME Running, NEW s, Failed(stacks) => Failed(s), NEW n, NEW states, NEW text,
         PushedFrom(s, n, states, text)
  PROVE  Reported
<1> SUFFICES ASSUME stacks.ec # NoError
             PROVE  stacks'.ec # NoError /\ status' \notin {"running", "compiled"}
  BY DEF Reported
<1>1. stacks' = s /\ s.ec # NoError /\ status' = StatusAfter(s.ec)
  BY ErrorIsFailed DEF PushedFrom, Failed
<1> QED BY <1>1, StatusOfError

LEMMA PushReports ==
  ASSUME Running, NEW n, NEW states, NEW tok,
         Push(n, states, tok) \/ FlushPush(n, states, tok) \/ TakeText(n, tok)
  PROVE  Reported
<1>1. /\ Failed(stacks) => Failed(push_token(tok, stacks))
      /\ Failed(stacks) => Failed(push_token(tok, checkBuffer(stacks)))
  BY PushFails, CheckFails
<1>2. CASE Push(n, states, tok)
  BY <1>1, <1>2, PushedReports DEF Push
<1>3. CASE FlushPush(n, states, tok)
  BY <1>1, <1>3, PushedReports DEF FlushPush
<1>4. CASE TakeText(n, tok)
  BY <1>1, <1>4, PushedReports DEF TakeText
<1> QED BY <1>2, <1>3, <1>4

LEMMA FailReports ==
  ASSUME Running, NEW e, e # NoError, Fail(e)
  PROVE  Reported
<1>1. Failed(SetError(stacks, e))
  BY ErrorFails DEF Running
<1>2. stacks'.ec # NoError /\ status' = StatusAfter(e)
  BY <1>1 DEF Fail, Failed
<1> QED BY <1>2, StatusOfError DEF Reported

LEMMA FlushGotoReports ==
  ASSUME Running, NEW n, NEW states, FlushGoto(n, states)
  PROVE  Reported
<1> SUFFICES ASSUME stacks.ec # NoError
             PROVE  /\ stacks'.ec # NoError /\ status' # "compiled"
                    /\ stacks'.operators = stacks.operators
                    /\ stacks'.lists = stacks.lists
  BY DEF Reported
<1>1. stacks' = checkBuffer(stacks) /\ status' = "running"
  BY DEF FlushGoto, Running
<1> QED BY <1>1, ErrorIsFailed, CheckFails DEF Failed

(* Nothing but ec, and a literal, may have changed when space is passed. *)
LEMMA PassSpaceReports ==
  ASSUME Running, NEW s, NEW states, NEW text, PassSpace(states, s, text),
         Failed(stacks) => /\ Failed(s) /\ s.operators = stacks.operators
                           /\ s.lists = stacks.lists
  PROVE  Reported
<1> SUFFICES ASSUME stacks.ec # NoError
             PROVE  /\ stacks'.ec # NoError /\ status' # "compiled"
                    /\ stacks'.operators = stacks.operators
                    /\ stacks'.lists = stacks.lists
  BY DEF Reported
<1>1. Failed(s) /\ s.operators = stacks.operators /\ s.lists = stacks.lists
  BY ErrorIsFailed
<1>2. status' = "running"
  BY DEF PassSpace, Running
<1>3. CASE stacks' = s
  BY <1>1, <1>2, <1>3 DEF Failed
<1>4. CASE stacks' = SetError(s, "unexpected_end_of_input")
  <2>1. "unexpected_end_of_input" # NoError
    BY DEF NoError
  <2>2. Failed(stacks')
    BY <1>1, <1>4, <2>1, ErrorFails DEF Failed
  <2>3. stacks'.operators = s.operators /\ stacks'.lists = s.lists
    BY <1>1, <1>4 DEF SetError, Failed, Record
  <2> QED BY <1>1, <1>2, <2>2, <2>3 DEF Failed
<1> QED BY <1>3, <1>4 DEF PassSpace

LEMMA AdvanceFromReports ==
  ASSUME Running, NEW s, AdvancePastSpaceFrom(s),
         Failed(stacks) => /\ Failed(s) /\ s.operators = stacks.operators
                           /\ s.lists = stacks.lists
  PROVE  Reported
<1>1. CASE PassSpace(state_stack, checkBuffer(s), Unflushed)
  <2>1. Failed(stacks) => /\ Failed(checkBuffer(s))
                          /\ checkBuffer(s).operators = stacks.operators
                          /\ checkBuffer(s).lists = stacks.lists
    BY CheckFails
  <2> HIDE DEF checkBuffer
  <2> QED BY <1>1, <2>1, PassSpaceReports
<1>2. CASE stacks' = s /\ UNCHANGED status
  BY <1>2, ErrorIsFailed DEF Running, Reported, Failed
<1>3. CASE Fail(Throws)
  <2>1. Throws # NoError
    BY DEF Throws, NoError
  <2> QED BY <1>3, <2>1, FailReports
<1> QED BY <1>1, <1>2, <1>3 DEF AdvancePastSpaceFrom

LEMMA AdvanceReports ==
  ASSUME Running, advance_past_space_character \/ FlushThenAdvance
  PROVE  Reported
<1> DEFINE s == SetError(stacks, "invalid_literal")
<1>1. Failed(s) /\ s.operators = stacks.operators /\ s.lists = stacks.lists
  <2>1. "invalid_literal" # NoError
    BY DEF NoError
  <2>2. Failed(s)
    BY <2>1, ErrorFails DEF Running
  <2>3. s.operators = stacks.operators /\ s.lists = stacks.lists
    BY DEF SetError, Running, Record
  <2> QED BY <2>2, <2>3
<1> HIDE DEF s
<1>2. AdvancePastSpaceFrom(stacks) => Reported
  BY AdvanceFromReports
<1>3. AdvancePastSpaceFrom(s) => Reported
  BY <1>1, AdvanceFromReports
<1> QED BY <1>2, <1>3 DEF advance_past_space_character, FlushThenAdvance, s

LEMMA BinaryReports ==
  ASSUME Running, NEW n, NEW oper, PushBinary(n, oper) \/ FlushBinary(n, oper)
  PROVE  Reported
<1>1. ASSUME NEW s, Failed(s) PROVE Failed(WithBinary(oper, s))
  BY <1>1, PushFails, PutFails DEF WithBinary
<1>2. /\ Failed(stacks) => Failed(WithBinary(oper, stacks))
      /\ Failed(stacks) => Failed(WithBinary(oper, checkBuffer(stacks)))
  BY <1>1, CheckFails
<1>3. CASE PushBinary(n, oper)
  BY <1>2, <1>3, PushedReports DEF PushBinary
<1>4. CASE FlushBinary(n, oper)
  BY <1>2, <1>4, PushedReports DEF FlushBinary
<1> QED BY <1>3, <1>4

LEMMA LeaveReports ==
  ASSUME Running, LeaveOrFail
  PROVE  Reported
<1>1. "syntax_error" # NoError
  BY DEF NoError
<1> QED BY <1>1, GotoReports, FailReports DEF LeaveOrFail

-----------------------------------------------------------------------------
(* The passes, by the part of the grammar they read. *)

LEMMA ReadExpressionReports ==
  ASSUME Running, ReadExpression
  PROVE  Reported
<1>1. "expected_identifier" # NoError /\ "expected_rparen" # NoError
  BY DEF NoError
<1>2. CASE start \/ rhs_expression
  BY <1>2, GotoReports, FlushGotoReports, AdvanceReports, LeaveReports DEF start, rhs_expression
<1>3. CASE comparator_expression \/ jf_expression
  BY <1>3, GotoReports, FlushGotoReports, AdvanceReports, LeaveReports
     DEF comparator_expression, jf_expression
<1>4. Operand => Reported
  BY GotoReports, PushReports, AdvanceReports DEF Operand
<1>5. CASE lhs_expression \/ sub_expression
  BY <1>1, <1>4, <1>5, GotoReports, PushReports, FailReports DEF lhs_expression, sub_expression
<1>6. CASE key_expr \/ val_expr \/ expect_rparen
  BY <1>1, <1>6, PushReports, AdvanceReports, FailReports DEF key_expr, val_expr, expect_rparen
<1> QED BY <1>2, <1>3, <1>5, <1>6 DEF ReadExpression

LEMMA ReadFunctionReports ==
  ASSUME Running, ReadFunction
  PROVE  Reported
<1>1. "unknown_function" # NoError
  BY DEF NoError
<1>2. CASE identifier_or_function_expr
  <2>1. Failed(stacks) => Failed(push_token(Function(buffer), stacks))
    BY PushFails
  <2> QED BY <1>1, <1>2, <2>1, PushedReports, PushReports, FailReports
          DEF identifier_or_function_expr
<1>3. CASE expression_or_expression_type \/ function_expression \/ argument
  BY <1>3, GotoReports, PushReports, FlushGotoReports, AdvanceReports
     DEF expression_or_expression_type, function_expression, argument
<1>4. CASE expression_type
  <2>1. Failed(stacks) => Failed(Put(EndExpressionType(stacks), Tok("argument")))
    BY ExpressionTypeFails, PutFails
  <2> QED BY <1>4, <2>1, PushedReports DEF expression_type
<1> QED BY <1>2, <1>3, <1>4 DEF ReadFunction

LEMMA ReadTextReports ==
  ASSUME Running, ReadText
  PROVE  Reported
<1>1. /\ "illegal_escaped_character" # NoError /\ "invalid_codepoint" # NoError
      /\ "invalid_literal" # NoError /\ "unexpected_end_of_input" # NoError
  BY DEF NoError
<1>2. CASE quoted_string \/ raw_string
  BY <1>2, GotoReports, PushReports DEF quoted_string, raw_string
<1>3. CASE unquoted_string
  BY <1>3, GotoReports, PassSpaceReports DEF unquoted_string
<1>4. CASE literal \/ number \/ digit
  BY <1>1, <1>4, GotoReports, PushReports, FailReports DEF literal, number, digit
<1>5. CASE raw_string_escape_char \/ quoted_string_escape_char \/ escape_digit
  BY <1>1, <1>5, GotoReports, FailReports
     DEF raw_string_escape_char, quoted_string_escape_char, escape_digit
<1>6. CASE \/ escape_u4 \/ escape_u8
           \/ escape_expect_surrogate_pair1 \/ escape_expect_surrogate_pair2
  BY <1>1, <1>6, GotoReports, FailReports
     DEF escape_u4, escape_u8, CollectCodepoint, escape_expect_surrogate_pair1,
         escape_expect_surrogate_pair2
<1> QED BY <1>2, <1>3, <1>4, <1>5, <1>6 DEF ReadText

LEMMA ReadBracketReports ==
  ASSUME Running, ReadBracket
  PROVE  Reported
<1>1. /\ "expected_index_expression" # NoError /\ "unexpected_end_of_input" # NoError
      /\ "expected_multi_select_list" # NoError /\ "expected_rbracket" # NoError
      /\ "invalid_number" # NoError /\ "step_cannot_be_zero" # NoError
  BY DEF NoError
<1>2. CASE bracket_specifier \/ expect_rbracket
  BY <1>1, <1>2, GotoReports, PushReports, FailReports DEF bracket_specifier, expect_rbracket
<1>3. CASE bracket_specifier_or_multi_select_list \/ expect_multi_select_list
  BY <1>1, <1>3, GotoReports, PushReports, FailReports
     DEF bracket_specifier_or_multi_select_list, expect_multi_select_list, BeginMultiSelectList
<1>4. CASE multi_select_list \/ filter
  BY <1>1, <1>4, GotoReports, PushReports, FailReports, AdvanceReports DEF multi_select_list, filter
<1>5. NumberThenComma => Reported
  <2> DEFINE s == push_token(Tok("separator"),
                             checkBuffer(push_token(Tok("begin_multi_select_list"), stacks)))
  <2>1. Failed(stacks) => Failed(s)
    BY PushFails, CheckFails
  <2>2. ASSUME PushedFrom(s, 1, Replace(<<"multi_select_list", "lhs_expression">>), Unflushed)
        PROVE  Reported
    <3> HIDE DEF s
    <3> QED BY <2>1, <2>2, PushedReports
  <2> QED BY <2>2, PushReports DEF NumberThenComma
<1>6. EndSlice => Reported
  <2>1. Failed(stacks) => Failed(push_token(Expression("projection_op"), stacks))
    BY PushFails
  <2> QED BY <2>1, PushedReports DEF EndSlice
<1>7. CASE index_or_slice_expression
  BY <1>1, <1>5, <1>7, SameStacks, PushReports, FailReports DEF index_or_slice_expression
<1>8. CASE rhs_slice_expression_stop \/ rhs_slice_expression_step
  BY <1>1, <1>6, <1>8, SameStacks, FailReports
     DEF rhs_slice_expression_stop, rhs_slice_expression_step
<1> QED BY <1>2, <1>3, <1>4, <1>7, <1>8 DEF ReadBracket

LEMMA ReadHashReports ==
  ASSUME Running, ReadHash
  PROVE  Reported
<1>1. /\ "expected_key" # NoError /\ "expected_colon" # NoError
      /\ "expected_rbrace" # NoError
  BY DEF NoError
<1>2. CASE multi_select_hash
  BY <1>2, SameStacks, GotoReports, PushReports DEF multi_select_hash, vars
<1>3. CASE key_val_expr \/ expect_colon
  BY <1>1, <1>3, GotoReports, FailReports, AdvanceReports DEF key_val_expr, expect_colon
<1>4. CASE expect_rbrace
  BY <1>1, <1>4, PushReports, FlushGotoReports, FailReports, AdvanceReports DEF expect_rbrace
<1> QED BY <1>2, <1>3, <1>4 DEF ReadHash

LEMMA ReadOperatorReports ==
  ASSUME Running, ReadOperator
  PROVE  Reported
<1>1. "expected_comparator" # NoError
  BY DEF NoError
<1>2. CASE arithmetic_operator
  BY <1>2, BinaryReports DEF arithmetic_operator
<1>3. CASE cmp_lt_or_lte \/ cmp_gt_or_gte \/ cmp_eq \/ cmp_ne
  BY <1>1, <1>3, BinaryReports, FailReports DEF cmp_lt_or_lte, cmp_gt_or_gte, cmp_eq, cmp_ne
<1>4. CASE expect_pipe_or_or \/ expect_and
  BY <1>4, BinaryReports, PushReports DEF expect_pipe_or_or, expect_and
<1> QED BY <1>2, <1>3, <1>4 DEF ReadOperator

LEMMA EndOfInputReports ==
  ASSUME Running, EndOfInput
  PROVE  Reported
<1>1. /\ "invalid_literal" # NoError /\ "unbalanced_quotes" # NoError
      /\ "syntax_error" # NoError /\ "unexpected_end_of_input" # NoError
      /\ Undefined # NoError
  BY DEF NoError, Undefined
<1>2. CASE end_in_rhs_or_unquoted \/ end_in_number \/ end_in_identifier
  BY <1>1, <1>2, GotoReports, PushReports, FailReports
     DEF end_in_rhs_or_unquoted, end_in_number, end_in_identifier
<1>3. CASE end_in_string \/ end_elsewhere \/ empty_state_stack
  BY <1>1, <1>3, FailReports DEF end_in_string, end_elsewhere, empty_state_stack
<1>4. CASE end_of_expression
  <2>1. CASE /\ stacks' = EndOfExpression(stacks)
             /\ status' = IF stacks'.ec = NoError THEN "compiled" ELSE StatusAfter(stacks'.ec)
    <3>1. stacks.ec # NoError => stacks'.ec # NoError
      BY <2>1, ErrorIsFailed, EndFails DEF Failed
    <3> QED BY <2>1, <3>1, StatusOfError DEF Reported
  <2> QED BY <1>1, <1>4, <2>1, FailReports DEF end_of_expression
<1> QED BY <1>2, <1>3, <1>4 DEF EndOfInput

(* A pass is a step of a call that has not returned. *)
LEMMA PassesAreRunning ==
  ASSUME \/ ReadExpression \/ ReadFunction \/ ReadText \/ ReadBracket \/ ReadHash
         \/ ReadOperator \/ EndOfInput
  PROVE  status = "running"
<1> USE DEF At, CanRead
<1>1. CASE ReadExpression
  BY <1>1 DEF ReadExpression, start, rhs_expression, comparator_expression, jf_expression,
     lhs_expression, sub_expression, key_expr, val_expr, expect_rparen
<1>2. CASE ReadFunction
  BY <1>2 DEF ReadFunction, identifier_or_function_expr, expression_or_expression_type,
     function_expression, argument, expression_type
<1>3. CASE ReadText
  BY <1>3 DEF ReadText, quoted_string, raw_string, unquoted_string, literal, number, digit,
     raw_string_escape_char, quoted_string_escape_char, escape_digit, escape_u4, escape_u8,
     escape_expect_surrogate_pair1, escape_expect_surrogate_pair2
<1>4. CASE ReadBracket
  BY <1>4 DEF ReadBracket, bracket_specifier, bracket_specifier_or_multi_select_list,
     expect_multi_select_list, expect_rbracket, multi_select_list, filter,
     index_or_slice_expression, rhs_slice_expression_stop, rhs_slice_expression_step
<1>5. CASE ReadHash
  BY <1>5 DEF ReadHash, multi_select_hash, key_val_expr, expect_colon, expect_rbrace
<1>6. CASE ReadOperator
  BY <1>6 DEF ReadOperator, arithmetic_operator, cmp_lt_or_lte, cmp_gt_or_gte, cmp_eq, cmp_ne,
     expect_pipe_or_or, expect_and
<1>7. CASE EndOfInput
  BY <1>7 DEF EndOfInput, EndsIn, end_in_rhs_or_unquoted, end_in_number, end_in_identifier,
     end_in_string, end_elsewhere, end_of_expression, empty_state_stack
<1> QED BY <1>1, <1>2, <1>3, <1>4, <1>5, <1>6, <1>7

LEMMA StepReports ==
  ASSUME IInv, Next
  PROVE  Reported \/ UNCHANGED vars
<1>1. status = "running" => Running
  BY Parts DEF IInv, Running
<1>2. CASE Feed \/ Finish
  BY <1>1, <1>2, SameStacks DEF Feed, Finish, NeedsInput
<1>3. CASE Returned
  BY <1>3 DEF Returned
<1>4. CASE ReadExpression \/ ReadFunction \/ ReadText \/ ReadBracket \/ ReadHash
           \/ ReadOperator \/ EndOfInput
  <2>1. status = "running"
    BY <1>4, PassesAreRunning
  <2> QED BY <1>1, <1>4, <2>1, ReadExpressionReports, ReadFunctionReports, ReadTextReports,
             ReadBracketReports, ReadHashReports, ReadOperatorReports, EndOfInputReports
<1> QED BY <1>2, <1>3, <1>4 DEF Next

(***************************************************************************)
(* An error that _checkBuffer or advance_past_space_character leaves in ec *)
(* is reported, and no operator, group or list is built before it is.      *)
(***************************************************************************)
THEOREM ErrorsAreReported == Spec => ErrorEndsTheCall
<1>1. IInv /\ [Next]_vars => [Reported]_vars
  BY StepReports
<1> QED BY <1>1, Invariant, PTL DEF Spec, ErrorEndsTheCall, Reported
=============================================================================
