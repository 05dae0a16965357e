---------------------------- MODULE ProgramProofs ----------------------------
(***************************************************************************)
(* For every path, projection, filter, multi-select, parenthesis and       *)
(* operator over every alphabet: the program that compile returns is one   *)
(* that the evaluator can run.  TokenLevelProofs says what the tokens make *)
(* of output_stack_ and operator_stack_; here it is shown that every pass  *)
(* pushes them where they belong.  The state on top tells whether an       *)
(* operand is complete, or a key is read next (Aligned); which states may  *)
(* lie on which (Shaped) keeps that true when states are taken off.        *)
(***************************************************************************)
EXTENDS TokenLevelProofs

(* The expression calls no function ... *)
NoCalls ==
  state_stack # <<>> /\ rest # <<>> /\ Top = "identifier_or_function_expr" => c # "("

(* ... and has no literal, quoted key or list of numbers in it. *)
NoLiterals ==
  state_stack # <<>> /\ rest # <<>> =>
    /\ Top = "lhs_expression" => c \notin {"quote", "tick", "-", "."} \cup Digits
    /\ Top = "key_val_expr" => c # "quote"
    /\ Top = "expect_multi_select_list" => c \notin NumberStart
    /\ Top = "index_or_slice_expression" => c # ","

-----------------------------------------------------------------------------
(* Which state lies on which on state_stack_. *)

(* Under these the tokens of an operand are complete ... *)
Carriers ==
  {"rhs_expression", "multi_select_list", "expect_rbrace", "filter", "expect_rparen",
   "lhs_expression"}

(* ... when one of these is taken off. *)
Free ==
  SliceStates \cup OperatorStates \cup
  {"lhs_expression", "rhs_expression", "sub_expression", "comparator_expression",
   "jf_expression", "val_expr", "identifier_or_function_expr", "bracket_specifier",
   "bracket_specifier_or_multi_select_list", "expect_multi_select_list", "expect_rbracket",
   "multi_select_list", "multi_select_hash", "key_val_expr", "expect_colon", "expect_rbrace",
   "expect_rparen", "filter", "cmp_lt_or_lte", "cmp_gt_or_gte", "cmp_eq", "cmp_ne",
   "expect_pipe_or_or", "expect_and"}

NumberTops == {"number", "digit"}
TextTops   == {"key_expr", "unquoted_string", "raw_string", "quoted_string"}

Lies(x, y) ==
  \/ x \in Carriers /\ y \in Free
  \/ x = "expect_colon" /\ y = "key_expr"
  \/ x \in {"identifier_or_function_expr", "key_expr"} /\ y = "unquoted_string"
  \/ x \in {"val_expr", "key_expr"} /\ y = "raw_string"
  \/ x = "sub_expression" /\ y = "quoted_string"
  \/ x \in {"raw_string", "quoted_string"} /\ y \in EscapeStates
  \/ x \in SliceStates /\ y \in NumberTops

Shaped(states) == \A j \in 2 .. Len(states) : Lies(states[j-1], states[j])

(* f may stand where e stands. *)
Stands(e, f) == \A x : Lies(x, e) => Lies(x, f)

LEMMA PutOn ==
  ASSUME NEW states \in Seq(path_state), NEW x \in path_state
  PROVE  /\ states \o <<x>> \in Seq(path_state) /\ states \o <<x>> # <<>>
         /\ Last(states \o <<x>>) = x /\ Front(states \o <<x>>) = states
         /\ Len(states \o <<x>>) = Len(states) + 1
         /\ (states \o <<x>>)[Len(states) + 1] = x
         /\ \A k \in 1 .. Len(states) : (states \o <<x>>)[k] = states[k]
<1> DEFINE n == Len(states)
           t == states \o <<x>>
<1>1. /\ n \in Nat /\ Len(t) = n + 1 /\ t \in Seq(path_state) /\ t[n + 1] = x
      /\ \A k \in 1 .. n : t[k] = states[k]
  BY DEF path_state
<1>2. t # <<>> /\ Last(t) = x
  BY <1>1 DEF Last
<1>3. Front(t) = states
  <2>1. t \in Seq(path_state) /\ t # <<>>
    BY <1>1, <1>2
  <2> HIDE DEF t
  <2>2. Front(t) \in Seq(path_state) /\ Len(Front(t)) = n
    BY <1>1, <2>1 DEF Front
  <2>3. \A k \in 1 .. n : Front(t)[k] = t[k]
    BY <1>1, <2>1 DEF Front
  <2> QED BY <1>1, <2>2, <2>3
<1> QED BY <1>1, <1>2, <1>3

LEMMA PutTwice ==
  ASSUME NEW states \in Seq(path_state), NEW x \in path_state, NEW y \in path_state
  PROVE  /\ states \o <<x, y>> = (states \o <<x>>) \o <<y>>
         /\ \A z \in path_state : states \o <<x, y, z>> = ((states \o <<x>>) \o <<y>>) \o <<z>>
<1> DEFINE n == Len(states)
           a == states \o <<x>>
           b == a \o <<y>>
<1>1. /\ n \in Nat /\ a \in Seq(path_state) /\ Len(a) = n + 1 /\ a[n + 1] = x
      /\ \A k \in 1 .. n : a[k] = states[k]
  BY PutOn
<1> HIDE DEF a
<1>2. /\ b \in Seq(path_state) /\ Len(b) = n + 2 /\ b[n + 1] = x /\ b[n + 2] = y
      /\ \A k \in 1 .. n : b[k] = states[k]
  BY <1>1, PutOn
<1> HIDE DEF b
<1>3. states \o <<x, y>> = b
  <2> DEFINE t == states \o <<x, y>>
  <2>1. /\ t \in Seq(path_state) /\ Len(t) = n + 2 /\ t[n + 1] = x /\ t[n + 2] = y
        /\ \A k \in 1 .. n : t[k] = states[k]
    BY DEF path_state
  <2> HIDE DEF t
  <2>2. \A k \in 1 .. n + 2 : t[k] = b[k]
    BY <1>1, <1>2, <2>1
  <2> QED BY <1>2, <2>1, <2>2 DEF t
<1>4. ASSUME NEW z \in path_state PROVE states \o <<x, y, z>> = b \o <<z>>
  <2> DEFINE t == states \o <<x, y, z>>
             d == b \o <<z>>
  <2>1. /\ t \in Seq(path_state) /\ Len(t) = n + 3 /\ t[n + 1] = x /\ t[n + 2] = y /\ t[n + 3] = z
        /\ \A k \in 1 .. n : t[k] = states[k]
    BY DEF path_state
  <2>2. /\ d \in Seq(path_state) /\ Len(d) = n + 3 /\ d[n + 1] = x /\ d[n + 2] = y /\ d[n + 3] = z
        /\ \A k \in 1 .. n : d[k] = states[k]
    BY <1>1, <1>2, PutOn
  <2>3. n \in Nat
    BY <1>1
  <2> HIDE DEF t, d, n
  <2>4. ASSUME NEW k \in 1 .. n + 3 PROVE t[k] = d[k]
    <3>1. k \in 1 .. n \/ k = n + 1 \/ k = n + 2 \/ k = n + 3
      BY <2>3
    <3> QED BY <2>1, <2>2, <3>1
  <2>5. t = d
    BY <2>1, <2>2, <2>3, <2>4
  <2> QED BY <2>5 DEF t, d
<1> QED BY <1>3, <1>4 DEF a, b

LEMMA ShapedPut ==
  ASSUME NEW states \in Seq(path_state), Shaped(states), NEW x \in path_state,
         states = <<>> \/ Lies(Last(states), x)
  PROVE  Shaped(states \o <<x>>)
<1> DEFINE n == Len(states)
           t == states \o <<x>>
<1>1. /\ n \in Nat /\ Len(t) = n + 1 /\ t[n + 1] = x
      /\ \A k \in 1 .. n : t[k] = states[k]
  BY PutOn
<1>2. n > 0 => Lies(states[n], x)
  BY DEF Last
<1> HIDE DEF t
<1>3. ASSUME NEW j \in 2 .. n + 1 PROVE Lies(t[j-1], t[j])
  <2>1. CASE j = n + 1
    <3>1. t[j-1] = states[n] /\ t[j] = x /\ n > 0
      BY <1>1, <2>1
    <3> QED BY <1>2, <3>1
  <2>2. CASE j \in 2 .. n
    <3>1. t[j-1] = states[j-1] /\ t[j] = states[j]
      BY <1>1, <2>2
    <3> QED BY <2>2, <3>1 DEF Shaped
  <2> QED BY <1>1, <2>1, <2>2
<1> QED BY <1>1, <1>3 DEF Shaped, t

LEMMA ShapedFront ==
  ASSUME NEW states \in Seq(path_state), states # <<>>, Shaped(states)
  PROVE  /\ Shaped(Front(states)) /\ Front(states) \in Seq(path_state)
         /\ Front(states) = <<>> \/ Lies(Last(Front(states)), Last(states))
         /\ Len(states) > 1 => Front(states) # <<>>
<1> DEFINE n == Len(states)
           t == Front(states)
<1>1. /\ n \in Nat \ {0} /\ t \in Seq(path_state) /\ DOMAIN t = 1 .. n - 1
      /\ \A k \in 1 .. n - 1 : t[k] = states[k]
      /\ Last(states) = states[n]
  BY FrontStates
<1>2. Len(t) = n - 1
  <2> HIDE DEF t
  <2> QED BY <1>1
<1> HIDE DEF t
<1>3. Shaped(t)
  <2> SUFFICES ASSUME NEW j \in 2 .. n - 1 PROVE Lies(t[j-1], t[j])
    BY <1>2 DEF Shaped
  <2>1. t[j-1] = states[j-1] /\ t[j] = states[j] /\ j \in 2 .. n
    BY <1>1
  <2> QED BY <2>1 DEF Shaped
<1>4. n > 1 => t # <<>> /\ Lies(Last(t), Last(states))
  <2> SUFFICES ASSUME n > 1 PROVE t # <<>> /\ Lies(Last(t), Last(states))
    OBVIOUS
  <2>1. t # <<>> /\ Last(t) = t[n - 1]
    BY <1>1, <1>2 DEF Last
  <2>2. n \in 2 .. n /\ n - 1 \in 1 .. n - 1
    BY <1>1
  <2>3. Lies(states[n - 1], states[n])
    BY <2>2 DEF Shaped
  <2> QED BY <1>1, <2>1, <2>2, <2>3
<1>5. ~(n > 1) => t = <<>>
  BY <1>1, <1>2
<1> QED BY <1>1, <1>3, <1>4, <1>5 DEF t

LEMMA ShapedInPlace ==
  ASSUME NEW states \in Seq(path_state), states # <<>>, Shaped(states), NEW f \in path_state,
         Stands(Last(states), f)
  PROVE  Shaped(Front(states) \o <<f>>)
BY ShapedFront, ShapedPut DEF Stands

(* The states a pass may leave behind. *)
LEMMA ShapedMoves ==
  ASSUME NEW states \in Seq(path_state), states # <<>>, Shaped(states)
  PROVE  /\ \A x \in path_state : Lies(Last(states), x) => Shaped(states \o <<x>>)
         /\ \A x, y \in path_state : Lies(Last(states), x) /\ Lies(x, y) =>
              Shaped(states \o <<x, y>>)
         /\ \A x \in path_state : Stands(Last(states), x) => Shaped(Front(states) \o <<x>>)
         /\ \A x, y \in path_state : Stands(Last(states), x) /\ Lies(x, y) =>
              Shaped(Front(states) \o <<x, y>>)
         /\ \A x, y, z \in path_state : Stands(Last(states), x) /\ Lies(x, y) /\ Lies(y, z) =>
              Shaped(Front(states) \o <<x, y, z>>)
<1>1. ASSUME NEW st \in Seq(path_state), NEW x \in path_state, Shaped(st \o <<x>>)
      PROVE  /\ \A y \in path_state : Lies(x, y) => Shaped(st \o <<x, y>>)
             /\ \A y, z \in path_state : Lies(x, y) /\ Lies(y, z) => Shaped(st \o <<x, y, z>>)
  <2> DEFINE sx == st \o <<x>>
  <2>1. sx \in Seq(path_state) /\ Last(sx) = x
    BY PutOn
  <2>2. Shaped(sx)
    BY <1>1
  <2>3. ASSUME NEW y \in path_state, Lies(x, y)
        PROVE  /\ Shaped(st \o <<x, y>>)
               /\ \A z \in path_state : Lies(y, z) => Shaped(st \o <<x, y, z>>)
    <3> DEFINE sy == sx \o <<y>>
    <3>1. st \o <<x, y>> = sy /\ \A z \in path_state : st \o <<x, y, z>> = sy \o <<z>>
      BY <1>1, <2>3, PutTwice
    <3> HIDE DEF sx
    <3>2. sy \in Seq(path_state) /\ Last(sy) = y
      BY <2>1, <2>3, PutOn
    <3>3. Shaped(sy)
      BY <2>1, <2>2, <2>3, ShapedPut
    <3> HIDE DEF sy
    <3>4. \A z \in path_state : Lies(y, z) => Shaped(sy \o <<z>>)
      BY <3>2, <3>3, ShapedPut
    <3> QED BY <3>1, <3>3, <3>4
  <2> QED BY <2>3
<1>2. \A x \in path_state : Lies(Last(states), x) => Shaped(states \o <<x>>)
  BY ShapedPut
<1>3. \A x \in path_state : Stands(Last(states), x) => Shaped(Front(states) \o <<x>>)
  BY ShapedInPlace
<1>4. Front(states) \in Seq(path_state)
  BY ShapedFront
<1> QED BY <1>1, <1>2, <1>3, <1>4

LEMMA LiesApart ==
  /\ Free \subseteq path_state /\ Carriers \subseteq Free /\ EscapeStates \subseteq path_state
  /\ \A x, y : Lies(x, y) /\ y \in Free => x \in Carriers
  /\ \A x, y : Lies(x, y) /\ y \in EscapeStates => x \in {"raw_string", "quoted_string"}
  /\ \A x, y : Lies(x, y) /\ y \in NumberTops => x \in SliceStates
  /\ \A x : Lies(x, "quoted_string") => x = "sub_expression"
  /\ \A x : Lies(x, "raw_string") => x \in {"val_expr", "key_expr"}
  /\ \A x : Lies(x, "unquoted_string") => x \in {"identifier_or_function_expr", "key_expr"}
  /\ \A x : Lies(x, "key_expr") => x = "expect_colon"
  /\ \A x, y : Lies(x, y) => y \in Free \cup TextTops \cup EscapeStates \cup NumberTops
<1> USE DEF Free, Carriers, EscapeStates, NumberTops, TextTops, SliceStates, OperatorStates
<1>1. /\ Free \subseteq path_state /\ Carriers \subseteq Free /\ EscapeStates \subseteq path_state
  BY DEF path_state
<1>2. \A y \in Free : y \notin {"key_expr", "unquoted_string", "raw_string", "quoted_string"}
        /\ y \notin EscapeStates /\ y \notin NumberTops
  OBVIOUS
<1>3. \A y \in EscapeStates : y \notin TextTops /\ y \notin NumberTops /\ y \notin Free
  OBVIOUS
<1>4. \A y \in NumberTops : y \notin TextTops /\ y \notin EscapeStates /\ y \notin Free
  OBVIOUS
<1>5. \A y \in TextTops : y \notin NumberTops /\ y \notin EscapeStates /\ y \notin Free
  OBVIOUS
<1>6. {"key_expr", "unquoted_string", "raw_string", "quoted_string"} = TextTops
  OBVIOUS
<1> HIDE DEF Free, Carriers, EscapeStates, NumberTops, TextTops, SliceStates, OperatorStates
<1>7. \A x, y : Lies(x, y) /\ y \in Free => x \in Carriers
  BY <1>2 DEF Lies
<1>8. \A x, y : Lies(x, y) /\ y \in EscapeStates => x \in {"raw_string", "quoted_string"}
  BY <1>3, <1>6 DEF Lies
<1>9. \A x, y : Lies(x, y) /\ y \in NumberTops => x \in SliceStates
  BY <1>4, <1>6 DEF Lies
<1>10. /\ \A x : Lies(x, "quoted_string") => x = "sub_expression"
       /\ \A x : Lies(x, "raw_string") => x \in {"val_expr", "key_expr"}
       /\ \A x : Lies(x, "unquoted_string") => x \in {"identifier_or_function_expr", "key_expr"}
       /\ \A x : Lies(x, "key_expr") => x = "expect_colon"
  BY <1>5, <1>6 DEF Lies
<1>11. \A x, y : Lies(x, y) => y \in Free \cup TextTops \cup EscapeStates \cup NumberTops
  BY <1>6 DEF Lies
<1> QED BY <1>1, <1>7, <1>8, <1>9, <1>10, <1>11

LEMMA MayStand ==
  /\ \A e, f \in Free : Stands(e, f)
  /\ \A e, f \in EscapeStates : Stands(e, f)
  /\ Stands("number", "digit")
  /\ \A f : Stands("start", f)
<1>1. \A e, f \in Free : Stands(e, f)
  BY LiesApart DEF Stands, Lies
<1>2. \A e, f \in EscapeStates : Stands(e, f)
  BY LiesApart DEF Stands, Lies
<1>3. Stands("number", "digit")
  <2>1. "number" \in NumberTops /\ "digit" \in NumberTops
    BY DEF NumberTops
  <2> QED BY <2>1, LiesApart DEF Stands, Lies
<1>4. \A f : Stands("start", f)
  <2>1. "start" \notin Free \cup TextTops \cup EscapeStates \cup NumberTops
    BY DEF Free, TextTops, EscapeStates, NumberTops, SliceStates, OperatorStates
  <2> QED BY <2>1, LiesApart DEF Stands
<1> QED BY <1>1, <1>2, <1>3, <1>4

Formed == StatesOK(state_stack) /\ state_stack # <<>> /\ Shaped(state_stack)

(* What a pass may make of state_stack_. *)
LEMMA Reshaped ==
  ASSUME Formed
  PROVE  /\ state_stack \in Seq(path_state) /\ state_stack # <<>>
         /\ Shaped(Under) /\ Under \in Seq(path_state)
         /\ Under # <<>> => Lies(Last(Under), Top)
         /\ Under = <<>> => Len(state_stack) = 1
         /\ \A x \in path_state : Lies(Top, x) => Shaped(On(<<x>>))
         /\ \A x, y \in path_state : Lies(Top, x) /\ Lies(x, y) => Shaped(On(<<x, y>>))
         /\ \A x \in path_state : Stands(Top, x) => Shaped(Replace(<<x>>))
         /\ \A x, y \in path_state : Stands(Top, x) /\ Lies(x, y) => Shaped(Replace(<<x, y>>))
         /\ \A x, y, z \in path_state : Stands(Top, x) /\ Lies(x, y) /\ Lies(y, z) =>
              Shaped(Replace(<<x, y, z>>))
<1>1. state_stack \in Seq(path_state) /\ state_stack # <<>> /\ Shaped(state_stack)
  BY DEF Formed, StatesOK
<1>2. /\ Shaped(Under) /\ Under \in Seq(path_state)
      /\ Under # <<>> => Lies(Last(Under), Top)
      /\ Under = <<>> => Len(state_stack) = 1
  <2>1. Len(state_stack) \in Nat \ {0}
    BY <1>1
  <2>2. /\ Shaped(Under) /\ Under \in Seq(path_state)
        /\ Under = <<>> \/ Lies(Last(Under), Top)
        /\ Len(state_stack) > 1 => Under # <<>>
    BY <1>1, ShapedFront DEF Under, Top
  <2>3. Under # <<>> => Lies(Last(Under), Top)
    BY <2>2
  <2>4. Under = <<>> => Len(state_stack) = 1
    <3> DEFINE n == Len(state_stack)
    <3> HIDE DEF n
    <3>1. n \in Nat \ {0} /\ (n > 1 => Under # <<>>)
      BY <2>1, <2>2 DEF n
    <3>2. n \in Nat /\ n # 0 /\ (Under = <<>> => ~(n > 1))
      BY <3>1
    <3>3. Under = <<>> => n = 1
      BY <3>2
    <3> QED BY <3>3 DEF n
  <2> QED BY <2>2, <2>3, <2>4
<1>3. /\ \A x \in path_state : Lies(Top, x) => Shaped(On(<<x>>))
      /\ \A x, y \in path_state : Lies(Top, x) /\ Lies(x, y) => Shaped(On(<<x, y>>))
  BY <1>1, ShapedMoves DEF On, Top
<1>4. \A x \in path_state : Stands(Top, x) => Shaped(Replace(<<x>>))
  BY <1>1, ShapedMoves DEF Replace, Top, Under
<1>5. \A x, y \in path_state : Stands(Top, x) /\ Lies(x, y) => Shaped(Replace(<<x, y>>))
  BY <1>1, ShapedMoves DEF Replace, Top, Under
<1>6. \A x, y, z \in path_state : Stands(Top, x) /\ Lies(x, y) /\ Lies(y, z) =>
        Shaped(Replace(<<x, y, z>>))
  BY <1>1, ShapedMoves DEF Replace, Top, Under
<1> QED BY <1>1, <1>2, <1>3, <1>4, <1>5, <1>6

(* The same for the states of expressions. *)
LEMMA FreeReshaped ==
  ASSUME Formed, Top \in Free
  PROVE  /\ \A f \in Free : Shaped(Replace(<<f>>))
         /\ \A f \in Free, x \in path_state : Lies(f, x) => Shaped(Replace(<<f, x>>))
         /\ \A f \in Free, x, y \in path_state : Lies(f, x) /\ Lies(x, y) => Shaped(Replace(<<f, x, y>>))
BY Reshaped, MayStand, LiesApart

LEMMA SameStates ==
  ASSUME \/ advance_past_space_character \/ FlushThenAdvance \/ UNCHANGED vars
         \/ \E e : Fail(e)
  PROVE  state_stack' = state_stack
<1>1. ASSUME NEW s, AdvancePastSpaceFrom(s) PROVE state_stack' = state_stack
  BY <1>1 DEF AdvancePastSpaceFrom, PassSpace, Fail
<1>2. FlushThenAdvance => \E s : AdvancePastSpaceFrom(s)
  BY DEF FlushThenAdvance, advance_past_space_character
<1> QED BY <1>1, <1>2 DEF advance_past_space_character, Fail, vars

(* Which states a pass makes. *)
Leaves(new) == state_stack' = new

LEMMA LeavesBy ==
  ASSUME NEW new
  PROVE  /\ \A n : Goto(n, new) => Leaves(new)
         /\ \A n, text : Collect(n, new, text) => Leaves(new)
         /\ \A s, n, text : PushedFrom(s, n, new, text) => Leaves(new)
         /\ \A n, tok : Push(n, new, tok) => Leaves(new)
         /\ \A n, tok : FlushPush(n, new, tok) => Leaves(new)
         /\ \A n : FlushGoto(n, new) => Leaves(new)
         /\ \A s, text : PassSpace(new, s, text) => Leaves(new)
         /\ \A n, tok : new = Under => (TakeText(n, tok) => Leaves(new))
         /\ \A n, oper : new = Under => (PushBinary(n, oper) \/ FlushBinary(n, oper) => Leaves(new))
BY DEF Goto, Collect, PushedFrom, Push, FlushPush, FlushGoto, PassSpace, TakeText, PushBinary,
       FlushBinary, Leaves

LEMMA FreeStates ==
  /\ {"lhs_expression", "rhs_expression", "sub_expression", "comparator_expression",
      "jf_expression", "val_expr", "identifier_or_function_expr", "bracket_specifier",
      "bracket_specifier_or_multi_select_list", "expect_multi_select_list", "expect_rbracket",
      "multi_select_list", "multi_select_hash", "key_val_expr", "expect_colon", "expect_rbrace",
      "expect_rparen", "filter", "cmp_lt_or_lte", "cmp_gt_or_gte", "cmp_eq", "cmp_ne",
      "expect_pipe_or_or", "expect_and"} \subseteq Free
  /\ SliceStates \subseteq Free /\ OperatorStates \subseteq Free
  /\ {"key_expr", "unquoted_string", "raw_string", "quoted_string", "number", "digit"}
       \subseteq path_state
  /\ \A x \in Carriers, y \in Free : Lies(x, y)
  /\ {"rhs_expression", "multi_select_list", "expect_rbrace", "filter", "expect_rparen",
      "lhs_expression"} = Carriers
  /\ Lies("val_expr", "raw_string") /\ Lies("identifier_or_function_expr", "unquoted_string")
  /\ Lies("expect_colon", "key_expr") /\ Lies("key_expr", "raw_string")
  /\ Lies("key_expr", "unquoted_string") /\ Lies("sub_expression", "quoted_string")
  /\ \A y \in EscapeStates : Lies("raw_string", y) /\ Lies("quoted_string", y)
  /\ \A x \in SliceStates : Lies(x, "number")
BY DEF Free, path_state, Carriers, Lies, NumberTops

LEMMA ReadExpressionShape ==
  ASSUME Formed, NoLiterals, ReadExpression
  PROVE  Shaped(state_stack')
<1> USE DEF At
<1>1. Shaped(state_stack) /\ Shaped(Under) /\ Free \subseteq path_state
  BY Reshaped, LiesApart DEF Formed
<1>2. CASE start
  <2>1. Top = "start"
    BY <1>2 DEF start
  <2>2. Shaped(Replace(<<"rhs_expression", "lhs_expression">>))
    BY <1>1, <2>1, Reshaped, MayStand, FreeStates
  <2> QED BY <1>2, <2>2 DEF start, Goto
<1>3. CASE rhs_expression
  <2>1. Top = "rhs_expression"
    BY <1>3 DEF rhs_expression
  <2>2. /\ Shaped(On(<<"sub_expression">>))
        /\ Shaped(On(<<"lhs_expression", "expect_pipe_or_or">>))
        /\ Shaped(On(<<"lhs_expression", "expect_and">>))
        /\ Shaped(On(<<"lhs_expression", "cmp_ne">>))
        /\ Shaped(On(<<"bracket_specifier">>))
        /\ Shaped(On(<<"comparator_expression">>))
        /\ Shaped(On(<<"jf_expression">>))
    BY <1>1, <2>1, Reshaped, FreeStates
  <2> QED BY <1>1, <1>3, <2>2, SameStates DEF rhs_expression, Goto, FlushGoto, LeaveOrFail
<1>4. CASE comparator_expression
  <2>1. Top = "comparator_expression"
    BY <1>4 DEF comparator_expression
  <2>2. \A x \in Comparator : CompareState[x] \in Free
    BY FreeStates DEF CompareState, Comparator
  <2>3. \A x \in Comparator : Shaped(Replace(<<"lhs_expression", CompareState[x]>>))
    BY <1>1, <2>1, <2>2, FreeReshaped, FreeStates
  <2> QED BY <1>1, <1>4, <2>3, SameStates DEF comparator_expression, Goto, LeaveOrFail
<1>5. CASE jf_expression
  <2>1. Top = "jf_expression"
    BY <1>5 DEF jf_expression
  <2>2. \A x \in Arithmetic : ArithmeticState[x] \in Free
    <3>1. \A x \in Arithmetic : ArithmeticState[x] \in OperatorStates
      BY DEF ArithmeticState, Arithmetic, OperatorStates
    <3> QED BY <3>1, FreeStates
  <2>3. \A x \in Arithmetic : Shaped(Replace(<<"lhs_expression", ArithmeticState[x]>>))
    BY <1>1, <2>1, <2>2, FreeReshaped, FreeStates
  <2> QED BY <1>1, <1>5, <2>3, SameStates DEF jf_expression, FlushGoto, LeaveOrFail, Goto
<1>6. ASSUME Top \in {"lhs_expression", "sub_expression"}, Operand PROVE Shaped(state_stack')
  <2>1. /\ Shaped(Replace(<<"val_expr", "raw_string">>))
        /\ Shaped(Replace(<<"multi_select_hash">>))
        /\ Shaped(Replace(<<"identifier_or_function_expr", "unquoted_string">>))
    BY <1>1, <1>6, FreeReshaped, FreeStates
  <2> QED BY <1>1, <1>6, <2>1, SameStates DEF Operand, Goto, Push, PushedFrom, Collect
<1>7. CASE lhs_expression
  <2>1. Top = "lhs_expression" /\ c \notin {"quote", "tick", "-", "."} \cup Digits
    BY <1>7 DEF lhs_expression, NoLiterals, CanRead
  <2>2. /\ Shaped(Replace(<<"bracket_specifier_or_multi_select_list">>))
        /\ Shaped(Replace(<<"expect_rparen", "rhs_expression", "lhs_expression">>))
    BY <1>1, <2>1, FreeReshaped, FreeStates
  <2> QED BY <1>1, <1>6, <1>7, <2>1, <2>2, SameStates DEF lhs_expression, Goto, Push, PushedFrom
<1>8. CASE sub_expression
  <2>1. Top = "sub_expression"
    BY <1>8 DEF sub_expression
  <2>2. Shaped(On(<<"quoted_string">>)) /\ Shaped(Replace(<<"expect_multi_select_list">>))
    BY <1>1, <2>1, Reshaped, FreeReshaped, FreeStates
  <2> QED BY <1>1, <1>6, <1>8, <2>1, <2>2, SameStates DEF sub_expression, Goto
<1>9. CASE key_expr \/ val_expr
  BY <1>1, <1>9 DEF key_expr, val_expr, TakeText, PushedFrom
<1>10. CASE expect_rparen
  <2>1. Shaped(Replace(<<"rhs_expression">>))
    BY <1>10, FreeReshaped, FreeStates DEF expect_rparen
  <2> QED BY <1>1, <1>10, <2>1, SameStates DEF expect_rparen, Push, PushedFrom
<1> QED BY <1>2, <1>3, <1>4, <1>5, <1>7, <1>8, <1>9, <1>10 DEF ReadExpression

(* Which state is on top. *)
LEMMA TopIs ==
  ASSUME Formed
  PROVE  /\ Top \in Roots \cup Free \cup TextTops \cup EscapeStates \cup NumberTops
         /\ Top \notin Roots => Under # <<>> /\ Lies(Last(Under), Top)
         /\ Top \notin {"argument", "expression_or_expression_type", "function_expression",
                        "expression_type", "literal"}
<1>1. Top \notin Roots => Under # <<>> /\ Lies(Last(Under), Top)
  BY Reshaped, UnderOK DEF Formed
<1>2. Top \in Roots \cup Free \cup TextTops \cup EscapeStates \cup NumberTops
  BY <1>1, LiesApart
<1>3. Top \notin {"argument", "expression_or_expression_type", "function_expression",
                  "expression_type", "literal"}
  BY <1>2 DEF Roots, Free, TextTops, EscapeStates, NumberTops, SliceStates, OperatorStates
<1> QED BY <1>1, <1>2, <1>3

(* No function is called. *)
LEMMA FunctionPasses ==
  ASSUME Formed, NoCalls, ReadFunction
  PROVE  /\ Top = "identifier_or_function_expr" /\ CanRead
         /\ TakeText(0, Selector)
<1>1. /\ ~At("expression_or_expression_type") /\ ~At("function_expression") /\ ~At("argument")
      /\ ~At("expression_type")
  BY TopIs DEF At
<1>2. identifier_or_function_expr
  BY <1>1 DEF ReadFunction, expression_or_expression_type, function_expression, argument,
              expression_type
<1>3. Top = "identifier_or_function_expr" /\ CanRead /\ state_stack # <<>> /\ rest # <<>>
  BY <1>2 DEF identifier_or_function_expr, At, CanRead
<1>4. c # "("
  BY <1>3 DEF NoCalls
<1> QED BY <1>2, <1>3, <1>4 DEF identifier_or_function_expr

LEMMA ReadFunctionShape ==
  ASSUME Formed, NoCalls, ReadFunction
  PROVE  Shaped(state_stack')
BY FunctionPasses, Reshaped DEF TakeText, PushedFrom

LEMMA ReadTextShape ==
  ASSUME Formed, ReadText
  PROVE  Shaped(state_stack')
<1> USE DEF At
<1>1. Shaped(state_stack) /\ Shaped(Under)
  BY Reshaped DEF Formed
<1>2. Top \in EscapeStates => \A x \in EscapeStates : Shaped(Replace(<<x>>))
  BY Reshaped, MayStand, LiesApart
<1>3. {"escape_u1", "escape_u2", "escape_u3", "escape_u4", "escape_u5", "escape_u6",
       "escape_u7", "escape_u8", "raw_string_escape_char", "quoted_string_escape_char",
       "escape_expect_surrogate_pair1", "escape_expect_surrogate_pair2"} = EscapeStates
  BY DEF EscapeStates
<1>4. CASE quoted_string
  <2>1. Top = "quoted_string" /\ Top \notin Roots
    BY <1>4 DEF quoted_string, Roots
  <2>2. Under # <<>> /\ Lies(Last(Under), "quoted_string") /\ Last(Under) = "sub_expression"
    BY <2>1, TopIs, LiesApart
  <2>3. Shaped(Front(Under) \o <<"val_expr">>)
    <3>1. Under \in Seq(path_state) /\ Shaped(Under)
      BY Reshaped
    <3>2. Stands("sub_expression", "val_expr") /\ "val_expr" \in path_state
      BY FreeStates, MayStand, LiesApart
    <3> QED BY <2>2, <3>1, <3>2, ShapedInPlace
  <2>4. Shaped(On(<<"quoted_string_escape_char">>))
    BY <1>3, <2>1, Reshaped, FreeStates, LiesApart
  <2> QED BY <1>1, <1>4, <2>3, <2>4 DEF quoted_string, Goto, Collect, TakeText, PushedFrom
<1>5. CASE raw_string
  <2>1. Top = "raw_string" /\ Top \notin Roots
    BY <1>5 DEF raw_string, Roots
  <2>2. Under # <<>> /\ Grandparent # "sub_expression"
    BY <2>1, TopIs, LiesApart DEF Grandparent
  <2>3. Shaped(On(<<"raw_string_escape_char">>))
    BY <1>3, <2>1, Reshaped, FreeStates, LiesApart
  <2> QED BY <1>1, <1>5, <2>2, <2>3 DEF raw_string, Goto, Collect
<1>6. CASE unquoted_string
  BY <1>1, <1>6 DEF unquoted_string, Goto, Collect, PassSpace
<1>7. CASE raw_string_escape_char
  BY <1>1, <1>2, <1>3, <1>7 DEF raw_string_escape_char, Goto, Collect
<1>8. CASE quoted_string_escape_char
  BY <1>1, <1>2, <1>3, <1>8, SameStates DEF quoted_string_escape_char, Goto, Collect
<1>9. CASE escape_digit
  <2>1. Top \in EscapeStates /\ AfterHexDigit[Top] \in EscapeStates
    <3>1. /\ DOMAIN AfterHexDigit \subseteq EscapeStates
          /\ \A x \in DOMAIN AfterHexDigit : AfterHexDigit[x] \in EscapeStates
      BY DEF AfterHexDigit, EscapeStates
    <3> QED BY <1>9, <3>1 DEF escape_digit
  <2> QED BY <1>1, <1>2, <1>9, <2>1, SameStates DEF escape_digit, Goto
<1>10. CASE escape_u4
  BY <1>1, <1>2, <1>3, <1>10, SameStates DEF escape_u4, CollectCodepoint, Goto, Collect
<1>11. CASE escape_u8
  BY <1>1, <1>11, SameStates DEF escape_u8, Collect
<1>12. CASE escape_expect_surrogate_pair1
  BY <1>1, <1>2, <1>3, <1>12, SameStates DEF escape_expect_surrogate_pair1, Goto
<1>13. CASE escape_expect_surrogate_pair2
  BY <1>1, <1>2, <1>3, <1>13, SameStates DEF escape_expect_surrogate_pair2, Goto
<1>14. CASE literal
  BY <1>14, TopIs DEF literal
<1>15. CASE number
  <2>1. Shaped(Replace(<<"digit">>))
    BY <1>15, Reshaped, MayStand, FreeStates DEF number
  <2> QED BY <1>1, <1>15, <2>1 DEF number, Goto, Collect
<1>16. CASE digit
  BY <1>1, <1>16 DEF digit, Goto, Collect
<1> QED BY <1>4, <1>5, <1>6, <1>7, <1>8, <1>9, <1>10, <1>11, <1>12, <1>13, <1>14, <1>15, <1>16
        DEF ReadText

LEMMA ReadBracketShape ==
  ASSUME Formed, NoLiterals, ReadBracket
  PROVE  Shaped(state_stack')
<1> USE DEF At
<1>1. Shaped(state_stack) /\ Shaped(Under) /\ Free \subseteq path_state
  BY Reshaped, LiesApart DEF Formed
<1>2. {"index_or_slice_expression", "rhs_slice_expression_stop",
       "rhs_slice_expression_step"} = SliceStates
  BY DEF SliceStates
<1>3. Top \in Free =>
        /\ Shaped(Replace(<<"expect_rbracket">>)) /\ Shaped(Replace(<<"bracket_specifier">>))
        /\ Shaped(Replace(<<"filter", "rhs_expression", "lhs_expression">>))
        /\ Shaped(Replace(<<"multi_select_list", "lhs_expression">>))
        /\ Shaped(Replace(<<"index_or_slice_expression", "number">>))
        /\ Shaped(Replace(<<"rhs_slice_expression_stop", "number">>))
        /\ Shaped(Replace(<<"rhs_slice_expression_step", "number">>))
  BY <1>1, <1>2, FreeReshaped, FreeStates
<1>4. BeginMultiSelectList("lhs_expression") =>
        state_stack' = Replace(<<"multi_select_list", "lhs_expression">>)
  BY DEF BeginMultiSelectList, Push, PushedFrom
<1>5. CASE bracket_specifier
  BY <1>1, <1>3, <1>5, SameStates, FreeStates DEF bracket_specifier, Goto, Push, PushedFrom
<1>6. CASE bracket_specifier_or_multi_select_list
  BY <1>1, <1>3, <1>4, <1>6, SameStates, FreeStates
     DEF bracket_specifier_or_multi_select_list, Goto
<1>7. CASE expect_multi_select_list
  <2>1. c \notin NumberStart
    BY <1>7 DEF expect_multi_select_list, NoLiterals, CanRead
  <2> QED BY <1>1, <1>3, <1>4, <1>7, <2>1, SameStates, FreeStates
          DEF expect_multi_select_list, Push, PushedFrom
<1>8. CASE expect_rbracket
  BY <1>1, <1>8, SameStates DEF expect_rbracket, Goto
<1>9. CASE multi_select_list
  <2>1. Top = "multi_select_list"
    BY <1>9 DEF multi_select_list
  <2>2. /\ Shaped(On(<<"lhs_expression">>)) /\ Shaped(On(<<"sub_expression">>))
        /\ Shaped(On(<<"lhs_expression", "expect_pipe_or_or">>))
    BY <1>1, <2>1, Reshaped, FreeStates
  <2> QED BY <1>1, <1>9, <2>2, SameStates DEF multi_select_list, Goto, FlushPush, PushedFrom
<1>10. CASE filter
  BY <1>1, <1>10, SameStates DEF filter, Push, PushedFrom
<1>11. CASE index_or_slice_expression
  <2>1. c # ","
    BY <1>11 DEF index_or_slice_expression, NoLiterals, CanRead
  <2> QED BY <1>1, <1>2, <1>3, <1>11, <2>1, SameStates, FreeStates
          DEF index_or_slice_expression, Push, PushedFrom, TakeText
<1>12. CASE rhs_slice_expression_stop
  BY <1>1, <1>2, <1>3, <1>12, SameStates, FreeStates
     DEF rhs_slice_expression_stop, EndSlice, PushedFrom
<1>13. CASE rhs_slice_expression_step
  BY <1>1, <1>13, SameStates DEF rhs_slice_expression_step, EndSlice, PushedFrom
<1> QED BY <1>5, <1>6, <1>7, <1>8, <1>9, <1>10, <1>11, <1>12, <1>13 DEF ReadBracket

LEMMA ReadHashShape ==
  ASSUME Formed, NoLiterals, ReadHash
  PROVE  Shaped(state_stack')
<1> USE DEF At
<1>1. Shaped(state_stack) /\ Shaped(Under) /\ Free \subseteq path_state
  BY Reshaped, LiesApart DEF Formed
<1>2. Top \in Free =>
        /\ Shaped(Replace(<<"key_val_expr">>))
        /\ Shaped(Replace(<<"expect_rbrace", "lhs_expression">>))
        /\ Shaped(Replace(<<"expect_colon", "key_expr", "raw_string">>))
        /\ Shaped(Replace(<<"expect_colon", "key_expr", "unquoted_string">>))
  BY <1>1, FreeReshaped, FreeStates
<1>3. CASE multi_select_hash
  BY <1>1, <1>2, <1>3, SameStates, FreeStates DEF multi_select_hash, Push, PushedFrom, Goto
<1>4. CASE key_val_expr
  <2>1. c # "quote"
    BY <1>4 DEF key_val_expr, NoLiterals, CanRead
  <2> QED BY <1>1, <1>2, <1>4, <2>1, SameStates, FreeStates DEF key_val_expr, Goto, Collect
<1>5. CASE expect_colon
  BY <1>1, <1>2, <1>5, SameStates, FreeStates DEF expect_colon, Goto
<1>6. CASE expect_rbrace
  <2>1. Top = "expect_rbrace"
    BY <1>6 DEF expect_rbrace
  <2>2. /\ Shaped(On(<<"lhs_expression">>)) /\ Shaped(On(<<"sub_expression">>))
        /\ Shaped(On(<<"jf_expression">>))
    BY <1>1, <2>1, Reshaped, FreeStates
  <2> QED BY <1>1, <1>2, <1>6, <2>2, SameStates, FreeStates
          DEF expect_rbrace, Goto, FlushGoto, FlushPush, PushedFrom
<1> QED BY <1>3, <1>4, <1>5, <1>6 DEF ReadHash

LEMMA ReadOperatorShape ==
  ASSUME Formed, ReadOperator
  PROVE  Shaped(state_stack')
<1>1. Shaped(state_stack) /\ Shaped(Under)
  BY Reshaped DEF Formed
<1>2. ASSUME NEW n, NEW oper, PushBinary(n, oper) \/ FlushBinary(n, oper)
      PROVE  state_stack' = Under
  BY <1>2 DEF PushBinary, FlushBinary, PushedFrom
<1> QED BY <1>1, <1>2, SameStates
        DEF ReadOperator, arithmetic_operator, cmp_lt_or_lte, cmp_gt_or_gte, cmp_eq, cmp_ne,
            expect_pipe_or_or, expect_and, Push, PushedFrom

LEMMA EndOfInputShape ==
  ASSUME Formed, EndOfInput
  PROVE  Shaped(state_stack')
<1>1. Shaped(state_stack) /\ Shaped(Under) /\ Shaped(<<>>)
  BY Reshaped DEF Formed, Shaped
<1>2. empty_state_stack => state_stack' = state_stack
  BY SameStates DEF empty_state_stack
<1> QED BY <1>1, <1>2, SameStates
        DEF EndOfInput, end_in_rhs_or_unquoted, end_in_number, end_in_identifier, end_in_string,
            end_elsewhere, end_of_expression, Goto, TakeText, Push, PushedFrom

-----------------------------------------------------------------------------
(* The buffer. *)

AtEnd == rest = <<>> /\ finished

(* The states that the text in the buffer is for. *)
Gathering ==
  {"raw_string", "unquoted_string", "quoted_string", "val_expr", "identifier_or_function_expr",
   "key_expr", "number", "digit"} \cup EscapeStates \cup SliceStates

(* No text is left over from an operand. *)
Clear == state_stack # <<>> /\ ~AtEnd => Top \in Gathering \/ buffer = "empty"

Cleared == state_stack' # <<>> => Last(state_stack') \in Gathering \/ buffer' = "empty"

LEMMA EmptyChecked ==
  ASSUME buffer = "empty"
  PROVE  Unflushed = "empty" /\ \A s : checkBuffer(s) = s
<1>1. buffer \notin JsonTexts
  BY DEF JsonTexts
<1> QED BY <1>1 DEF Unflushed, checkBuffer

LEMMA StaysEmpty ==
  ASSUME buffer = "empty",
         \/ advance_past_space_character \/ FlushThenAdvance \/ UNCHANGED vars
         \/ \E e : Fail(e)
         \/ \E n, new : Goto(n, new)
         \/ \E n, new, tok : Push(n, new, tok)
         \/ \E n, new, tok : FlushPush(n, new, tok)
         \/ \E n, new : FlushGoto(n, new)
         \/ \E n, oper : PushBinary(n, oper)
         \/ \E n, oper : FlushBinary(n, oper)
  PROVE  buffer' = "empty"
<1>1. Unflushed = "empty"
  BY EmptyChecked
<1>2. ASSUME NEW s, AdvancePastSpaceFrom(s) PROVE buffer' = "empty"
  BY <1>1, <1>2 DEF AdvancePastSpaceFrom, PassSpace, Fail
<1>3. FlushThenAdvance => \E s : AdvancePastSpaceFrom(s)
  BY DEF FlushThenAdvance, advance_past_space_character
<1>4. CASE advance_past_space_character \/ FlushThenAdvance
  BY <1>2, <1>3, <1>4 DEF advance_past_space_character
<1>5. CASE UNCHANGED vars \/ \E e : Fail(e)
  BY <1>5 DEF vars, Fail
<1>6. CASE (\E n, new : Goto(n, new)) \/ (\E n, new, tok : Push(n, new, tok))
  BY <1>6 DEF Goto, Push, PushedFrom
<1>7. CASE (\E n, new, tok : FlushPush(n, new, tok)) \/ (\E n, new : FlushGoto(n, new))
  BY <1>1, <1>7 DEF FlushGoto, FlushPush, PushedFrom
<1>8. CASE (\E n, oper : PushBinary(n, oper)) \/ (\E n, oper : FlushBinary(n, oper))
  BY <1>1, <1>8 DEF PushBinary, FlushBinary, PushedFrom
<1> QED BY <1>4, <1>5, <1>6, <1>7, <1>8

LEMMA LastPut ==
  ASSUME Formed
  PROVE  /\ \A x \in path_state : Last(On(<<x>>)) = x /\ Last(Replace(<<x>>)) = x
         /\ \A x, y \in path_state : Last(On(<<x, y>>)) = y /\ Last(Replace(<<x, y>>)) = y
         /\ \A x, y, z \in path_state : Last(Replace(<<x, y, z>>)) = z
<1>1. state_stack \in Seq(path_state) /\ Under \in Seq(path_state)
  BY Reshaped
<1>2. ASSUME NEW st \in Seq(path_state)
      PROVE  /\ \A x \in path_state : Last(st \o <<x>>) = x
             /\ \A x, y \in path_state : Last(st \o <<x, y>>) = y
             /\ \A x, y, z \in path_state : Last(st \o <<x, y, z>>) = z
  <2>1. \A x \in path_state : Last(st \o <<x>>) = x /\ st \o <<x>> \in Seq(path_state)
    BY PutOn
  <2>2. ASSUME NEW x \in path_state, NEW y \in path_state
        PROVE  /\ Last(st \o <<x, y>>) = y
               /\ \A z \in path_state : Last(st \o <<x, y, z>>) = z
    <3> DEFINE a == st \o <<x>>
               b == a \o <<y>>
    <3>1. st \o <<x, y>> = b /\ \A z \in path_state : st \o <<x, y, z>> = b \o <<z>>
      BY PutTwice
    <3>2. a \in Seq(path_state)
      BY <2>1
    <3> HIDE DEF a
    <3>3. b \in Seq(path_state) /\ Last(b) = y
      BY <3>2, PutOn
    <3> HIDE DEF b
    <3>4. \A z \in path_state : Last(b \o <<z>>) = z
      BY <3>3, PutOn
    <3> QED BY <3>1, <3>3, <3>4
  <2> QED BY <2>1, <2>2
<1> QED BY <1>1, <1>2 DEF On, Replace

LEMMA ReadExpressionClears ==
  ASSUME Formed, Clear, NoLiterals, ReadExpression
  PROVE  Cleared
<1> USE DEF At
<1>1. CASE key_expr \/ val_expr
  BY <1>1 DEF key_expr, val_expr, TakeText, PushedFrom, Cleared
<1>2. ASSUME Top \in {"start", "rhs_expression", "comparator_expression", "jf_expression",
                      "lhs_expression", "sub_expression", "expect_rparen"}, rest # <<>>
      PROVE  buffer = "empty"
  BY <1>2 DEF Clear, AtEnd, Gathering, EscapeStates, SliceStates, Formed
<1>3. Last(Replace(<<"identifier_or_function_expr", "unquoted_string">>)) \in Gathering
  BY LastPut, FreeStates, LiesApart DEF Gathering
<1>4. ASSUME buffer = "empty", Operand PROVE Cleared
  BY <1>3, <1>4, StaysEmpty DEF Operand, Collect, Cleared
<1>5. CASE start
  BY <1>2, <1>5, StaysEmpty DEF start, CanRead, Cleared
<1>6. CASE rhs_expression
  BY <1>2, <1>6, StaysEmpty DEF rhs_expression, CanRead, Cleared, LeaveOrFail
<1>7. CASE comparator_expression
  BY <1>2, <1>7, StaysEmpty DEF comparator_expression, CanRead, Cleared, LeaveOrFail
<1>8. CASE jf_expression
  BY <1>2, <1>8, StaysEmpty DEF jf_expression, CanRead, Cleared, LeaveOrFail
<1>9. CASE lhs_expression
  <2>1. c \notin {"quote", "tick", "-", "."} \cup Digits /\ buffer = "empty"
    BY <1>2, <1>9 DEF lhs_expression, NoLiterals, CanRead
  <2> QED BY <1>4, <1>9, <2>1, StaysEmpty DEF lhs_expression, Cleared
<1>10. CASE sub_expression
  <2>1. buffer = "empty"
    BY <1>2, <1>10 DEF sub_expression, CanRead
  <2> QED BY <1>4, <1>10, <2>1, StaysEmpty DEF sub_expression, Cleared
<1>11. CASE expect_rparen
  BY <1>2, <1>11, StaysEmpty DEF expect_rparen, CanRead, Cleared
<1> QED BY <1>1, <1>5, <1>6, <1>7, <1>8, <1>9, <1>10, <1>11 DEF ReadExpression

LEMMA ReadFunctionClears ==
  ASSUME Formed, NoCalls, ReadFunction
  PROVE  Cleared
BY FunctionPasses DEF TakeText, PushedFrom, Cleared

LEMMA GatheringStates ==
  /\ {"raw_string", "unquoted_string", "quoted_string", "val_expr",
      "identifier_or_function_expr", "key_expr", "number", "digit"} \subseteq Gathering
  /\ EscapeStates \subseteq Gathering /\ SliceStates \subseteq Gathering
  /\ Gathering \subseteq path_state
  /\ {"escape_u1", "escape_u2", "escape_u3", "escape_u4", "escape_u5", "escape_u6",
      "escape_u7", "escape_u8", "raw_string_escape_char", "quoted_string_escape_char",
      "escape_expect_surrogate_pair1", "escape_expect_surrogate_pair2"} = EscapeStates
  /\ {"index_or_slice_expression", "rhs_slice_expression_stop",
      "rhs_slice_expression_step"} = SliceStates
BY DEF Gathering, path_state, EscapeStates, SliceStates

LEMMA ReadTextClears ==
  ASSUME Formed, ReadText
  PROVE  Cleared
<1> USE DEF At
<1>1. Top \in {"raw_string", "unquoted_string", "quoted_string", "number", "digit"}
        \cup EscapeStates => Last(Under) \in Gathering \cup {"sub_expression"} /\ Under # <<>>
  <2>1. Top \in {"raw_string", "unquoted_string", "quoted_string", "number", "digit"}
          \cup EscapeStates => Top \notin Roots
    BY DEF EscapeStates, Roots
  <2>2. "number" \in NumberTops /\ "digit" \in NumberTops
    BY DEF NumberTops
  <2> QED BY <2>1, <2>2, TopIs, LiesApart, GatheringStates
<1>2. /\ \A x \in Gathering : Last(Replace(<<x>>)) \in Gathering
      /\ \A x \in Gathering : Last(On(<<x>>)) \in Gathering
  BY LastPut, GatheringStates
<1>3. Top \notin {"quoted_string"} /\ Top \in {"raw_string", "unquoted_string", "number", "digit"}
        \cup EscapeStates => Last(Under) \in Gathering
  <2>1. Top \in {"raw_string", "unquoted_string", "number", "digit"}
          \cup EscapeStates => Top \notin Roots
    BY DEF EscapeStates, Roots
  <2>2. "number" \in NumberTops /\ "digit" \in NumberTops
    BY DEF NumberTops
  <2> QED BY <2>1, <2>2, TopIs, LiesApart, GatheringStates
<1>4. Last(state_stack) = Top
  BY DEF Top
<1>5. CASE quoted_string
  <2>1. Last(Front(Under) \o <<"val_expr">>) \in Gathering
    <3>1. Under # <<>> /\ Under \in Seq(path_state)
      BY <1>1, <1>5, Reshaped DEF quoted_string
    <3>2. Front(Under) \in Seq(path_state) /\ "val_expr" \in path_state /\ "val_expr" \in Gathering
      BY <3>1, FrontStates, GatheringStates
    <3> QED BY <3>2, PutOn
  <2> QED BY <1>2, <1>4, <1>5, <2>1, GatheringStates
          DEF quoted_string, Goto, Collect, TakeText, PushedFrom, Cleared
<1>6. CASE raw_string
  <2>1. Grandparent # "sub_expression"
    <3>1. Top = "raw_string" /\ Top \notin Roots
      BY <1>6 DEF raw_string, Roots
    <3> QED BY <3>1, TopIs, LiesApart DEF Grandparent
  <2> QED BY <1>2, <1>3, <1>4, <1>6, <2>1, GatheringStates DEF raw_string, Goto, Collect, Cleared
<1>7. CASE unquoted_string
  BY <1>3, <1>4, <1>7, GatheringStates DEF unquoted_string, Goto, Collect, PassSpace, Cleared
<1>8. CASE raw_string_escape_char
  BY <1>2, <1>3, <1>4, <1>8, GatheringStates DEF raw_string_escape_char, Goto, Collect, Cleared
<1>9. CASE quoted_string_escape_char
  BY <1>2, <1>3, <1>4, <1>9, GatheringStates, SameStates
     DEF quoted_string_escape_char, Goto, Collect, Cleared
<1>10. CASE escape_digit
  <2>1. Top \in EscapeStates /\ AfterHexDigit[Top] \in EscapeStates
    <3>1. /\ DOMAIN AfterHexDigit \subseteq EscapeStates
          /\ \A x \in DOMAIN AfterHexDigit : AfterHexDigit[x] \in EscapeStates
      BY DEF AfterHexDigit, EscapeStates
    <3> QED BY <1>10, <3>1 DEF escape_digit
  <2> QED BY <1>2, <1>4, <1>10, <2>1, GatheringStates, SameStates DEF escape_digit, Goto, Cleared
<1>11. CASE escape_u4
  BY <1>2, <1>3, <1>4, <1>11, GatheringStates, SameStates
     DEF escape_u4, CollectCodepoint, Goto, Collect, Cleared
<1>12. CASE escape_u8
  BY <1>3, <1>4, <1>12, GatheringStates, SameStates DEF escape_u8, Collect, Cleared
<1>13. CASE escape_expect_surrogate_pair1
  BY <1>2, <1>4, <1>13, GatheringStates, SameStates
     DEF escape_expect_surrogate_pair1, Goto, Cleared
<1>14. CASE escape_expect_surrogate_pair2
  BY <1>2, <1>4, <1>14, GatheringStates, SameStates
     DEF escape_expect_surrogate_pair2, Goto, Cleared
<1>15. CASE literal
  BY <1>15, TopIs DEF literal
<1>16. CASE number
  BY <1>2, <1>3, <1>4, <1>16, GatheringStates DEF number, Goto, Collect, Cleared
<1>17. CASE digit
  BY <1>3, <1>4, <1>17, GatheringStates DEF digit, Goto, Collect, Cleared
<1> QED BY <1>5, <1>6, <1>7, <1>8, <1>9, <1>10, <1>11, <1>12, <1>13, <1>14, <1>15, <1>16, <1>17
        DEF ReadText

LEMMA ReadBracketClears ==
  ASSUME Formed, Clear, NoLiterals, ReadBracket
  PROVE  Cleared
<1> USE DEF At
<1>1. ASSUME Top \in {"bracket_specifier", "bracket_specifier_or_multi_select_list",
                      "expect_multi_select_list", "expect_rbracket", "multi_select_list",
                      "filter"}, rest # <<>>
      PROVE  buffer = "empty"
  BY <1>1 DEF Clear, AtEnd, Gathering, EscapeStates, SliceStates, Formed
<1>2. ASSUME Top \in SliceStates
      PROVE  /\ Last(state_stack) \in Gathering
             /\ \A e : Fail(e) => Last(state_stack') \in Gathering
  <2>1. Last(state_stack) \in Gathering
    BY <1>2, GatheringStates DEF Top
  <2> QED BY <2>1 DEF Fail
<1>3. ASSUME NEW x, BeginMultiSelectList(x), buffer = "empty" PROVE Cleared
  BY <1>3, StaysEmpty DEF BeginMultiSelectList, Cleared
<1>4. CASE bracket_specifier
  BY <1>1, <1>4, StaysEmpty DEF bracket_specifier, CanRead, Cleared
<1>5. CASE bracket_specifier_or_multi_select_list
  BY <1>1, <1>3, <1>5, StaysEmpty DEF bracket_specifier_or_multi_select_list, CanRead, Cleared
<1>6. CASE expect_multi_select_list
  BY <1>1, <1>3, <1>6, StaysEmpty DEF expect_multi_select_list, CanRead, Cleared
<1>7. CASE expect_rbracket
  BY <1>1, <1>7, StaysEmpty DEF expect_rbracket, CanRead, Cleared
<1>8. CASE multi_select_list
  BY <1>1, <1>8, StaysEmpty DEF multi_select_list, CanRead, Cleared
<1>9. CASE filter
  BY <1>1, <1>9, StaysEmpty DEF filter, CanRead, Cleared
<1>10. CASE index_or_slice_expression
  <2>1. c # "," /\ Top \in SliceStates
    BY <1>10, GatheringStates DEF index_or_slice_expression, NoLiterals, CanRead
  <2>2. CASE \E e : Fail(e)
    BY <1>2, <2>1, <2>2 DEF Cleared
  <2> QED BY <1>10, <2>1, <2>2, StaysEmpty
          DEF index_or_slice_expression, TakeText, PushedFrom, Cleared
<1>11. CASE rhs_slice_expression_stop \/ rhs_slice_expression_step
  <2>1. Top \in SliceStates
    BY <1>11, GatheringStates DEF rhs_slice_expression_stop, rhs_slice_expression_step
  <2>2. CASE \E e : Fail(e)
    BY <1>2, <2>1, <2>2 DEF Cleared
  <2> QED BY <1>11, <2>2
          DEF rhs_slice_expression_stop, rhs_slice_expression_step, EndSlice, PushedFrom, Cleared
<1> QED BY <1>4, <1>5, <1>6, <1>7, <1>8, <1>9, <1>10, <1>11 DEF ReadBracket

LEMMA ReadHashClears ==
  ASSUME Formed, Clear, NoLiterals, ReadHash
  PROVE  Cleared
<1> USE DEF At
<1>1. ASSUME Top \in {"multi_select_hash", "key_val_expr", "expect_colon", "expect_rbrace"},
             rest # <<>>
      PROVE  buffer = "empty"
  BY <1>1 DEF Clear, AtEnd, Gathering, EscapeStates, SliceStates, Formed
<1>2. Last(Replace(<<"expect_colon", "key_expr", "unquoted_string">>)) \in Gathering
  BY LastPut, FreeStates, LiesApart DEF Gathering
<1>3. CASE multi_select_hash
  BY <1>1, <1>3, StaysEmpty DEF multi_select_hash, CanRead, Cleared
<1>4. CASE key_val_expr
  <2>1. buffer = "empty"
    BY <1>1, <1>4 DEF key_val_expr, CanRead
  <2> QED BY <1>2, <1>4, <2>1, StaysEmpty DEF key_val_expr, Collect, Cleared
<1>5. CASE expect_colon
  BY <1>1, <1>5, StaysEmpty DEF expect_colon, CanRead, Cleared
<1>6. CASE expect_rbrace
  BY <1>1, <1>6, StaysEmpty DEF expect_rbrace, CanRead, Cleared
<1> QED BY <1>3, <1>4, <1>5, <1>6 DEF ReadHash

LEMMA ReadOperatorClears ==
  ASSUME Formed, Clear, ReadOperator
  PROVE  Cleared
<1> USE DEF At
<1>1. ASSUME Top \in OperatorStates \cup {"cmp_lt_or_lte", "cmp_gt_or_gte", "cmp_eq", "cmp_ne",
                                          "expect_pipe_or_or", "expect_and"}, rest # <<>>
      PROVE  buffer = "empty"
  BY <1>1 DEF Clear, AtEnd, Gathering, EscapeStates, SliceStates, OperatorStates, Formed
<1>2. CASE arithmetic_operator
  BY <1>1, <1>2, StaysEmpty DEF arithmetic_operator, CanRead, Cleared
<1>3. CASE cmp_lt_or_lte
  BY <1>1, <1>3, StaysEmpty DEF cmp_lt_or_lte, CanRead, Cleared
<1>4. CASE cmp_gt_or_gte
  BY <1>1, <1>4, StaysEmpty DEF cmp_gt_or_gte, CanRead, Cleared
<1>5. CASE cmp_eq
  BY <1>1, <1>5, StaysEmpty DEF cmp_eq, CanRead, Cleared
<1>6. CASE cmp_ne
  BY <1>1, <1>6, StaysEmpty DEF cmp_ne, CanRead, Cleared
<1>7. CASE expect_pipe_or_or
  BY <1>1, <1>7, StaysEmpty DEF expect_pipe_or_or, CanRead, Cleared
<1>8. CASE expect_and
  BY <1>1, <1>8, StaysEmpty DEF expect_and, CanRead, Cleared
<1> QED BY <1>2, <1>3, <1>4, <1>5, <1>6, <1>7, <1>8 DEF ReadOperator

-----------------------------------------------------------------------------
(* Where a key is read next, and where an operand is complete. *)

Complete ==
  {"rhs_expression", "multi_select_list", "expect_rbrace", "filter", "expect_rparen",
   "comparator_expression", "jf_expression", "expect_rbracket"}

HasKey(states) == \E j \in DOMAIN states : states[j] = "key_expr"
InKey(states)  == Last(states) \in {"multi_select_hash", "key_val_expr"} \/ HasKey(states)

LEMMA KeyPut ==
  ASSUME NEW states \in Seq(path_state), NEW x \in path_state
  PROVE  HasKey(states \o <<x>>) <=> HasKey(states) \/ x = "key_expr"
<1>1. /\ Len(states \o <<x>>) = Len(states) + 1 /\ (states \o <<x>>)[Len(states) + 1] = x
      /\ \A k \in 1 .. Len(states) : (states \o <<x>>)[k] = states[k]
      /\ states \o <<x>> \in Seq(path_state)
  BY PutOn
<1> DEFINE p == states \o <<x>>
           n == Len(states)
<1>2. /\ DOMAIN p = 1 .. n + 1 /\ DOMAIN states = 1 .. n /\ n \in Nat
      /\ p[n + 1] = x /\ \A k \in 1 .. n : p[k] = states[k]
  BY <1>1
<1> HIDE DEF p, n
<1> QED BY <1>2 DEF HasKey, p

LEMMA KeyFront ==
  ASSUME NEW states \in Seq(path_state), states # <<>>
  PROVE  HasKey(states) <=> HasKey(Front(states)) \/ Last(states) = "key_expr"
<1> DEFINE n == Len(states)
           p == Front(states)
<1>1. /\ n \in Nat /\ n # 0 /\ DOMAIN p = 1 .. n - 1 /\ DOMAIN states = 1 .. n
      /\ \A k \in 1 .. n - 1 : p[k] = states[k]
      /\ Last(states) = states[n]
  BY FrontStates
<1> HIDE DEF n, p
<1> QED BY <1>1 DEF HasKey, p

(* Above key_expr lies nothing but the text of the key. *)
LEMMA KeyOnTop ==
  ASSUME NEW states \in Seq(path_state), states # <<>>, Shaped(states), HasKey(states)
  PROVE  Last(states) \in {"key_expr"} \cup KeyTextStates
<1> DEFINE n == Len(states)
<1>1. n \in Nat /\ n # 0 /\ Last(states) = states[n] /\ DOMAIN states = 1 .. n
  BY FrontStates
<1>2. PICK j \in 1 .. n : states[j] = "key_expr"
  BY <1>1 DEF HasKey
<1> DEFINE T == {k \in j .. n : states[k] \notin {"key_expr"} \cup KeyTextStates}
<1>3. ASSUME T # {} PROVE FALSE
  <2>1. T \subseteq Nat
    BY <1>1, <1>2
  <2>2. PICK k \in T : \A m \in T : k <= m
    BY <1>3, <2>1, Least
  <2>3. k \in j .. n /\ k # j /\ k \in 2 .. n /\ k - 1 \in j .. n
    BY <1>1, <1>2, <2>2
  <2>4. k - 1 \notin T
    BY <2>2, <2>3
  <2>5. states[k - 1] \in {"key_expr"} \cup KeyTextStates
    BY <2>3, <2>4
  <2>6. Lies(states[k - 1], states[k])
    BY <2>3 DEF Shaped
  <2>7. states[k] \in KeyTextStates
    BY <2>5, <2>6 DEF Lies, KeyTextStates, Carriers, EscapeStates, SliceStates
  <2> QED BY <2>2, <2>7
<1>4. n \in j .. n
  BY <1>1, <1>2
<1> QED BY <1>1, <1>3, <1>4

LEMMA KeyMoves ==
  ASSUME Formed, Top # "key_expr"
  PROVE  /\ HasKey(Under) <=> HasKey(state_stack)
         /\ \A x \in path_state \ {"key_expr"} :
              /\ HasKey(On(<<x>>)) <=> HasKey(state_stack)
              /\ HasKey(Replace(<<x>>)) <=> HasKey(state_stack)
         /\ \A x, y \in path_state \ {"key_expr"} :
              /\ HasKey(On(<<x, y>>)) <=> HasKey(state_stack)
              /\ HasKey(Replace(<<x, y>>)) <=> HasKey(state_stack)
         /\ \A x, y, z \in path_state \ {"key_expr"} :
              HasKey(Replace(<<x, y, z>>)) <=> HasKey(state_stack)
<1>1. state_stack \in Seq(path_state) /\ Under \in Seq(path_state) /\ state_stack # <<>>
  BY Reshaped
<1>2. HasKey(Under) <=> HasKey(state_stack)
  BY <1>1, KeyFront DEF Under, Top
<1>3. ASSUME NEW st \in Seq(path_state)
      PROVE  /\ \A x \in path_state \ {"key_expr"} : HasKey(st \o <<x>>) <=> HasKey(st)
             /\ \A x, y \in path_state \ {"key_expr"} : HasKey(st \o <<x, y>>) <=> HasKey(st)
             /\ \A x, y, z \in path_state \ {"key_expr"} :
                  HasKey(st \o <<x, y, z>>) <=> HasKey(st)
  <2>1. \A x \in path_state \ {"key_expr"} : HasKey(st \o <<x>>) <=> HasKey(st)
    BY KeyPut
  <2>2. ASSUME NEW x \in path_state \ {"key_expr"}, NEW y \in path_state \ {"key_expr"}
        PROVE  /\ HasKey(st \o <<x, y>>) <=> HasKey(st)
               /\ \A z \in path_state \ {"key_expr"} : HasKey(st \o <<x, y, z>>) <=> HasKey(st)
    <3> DEFINE a == st \o <<x>>
               b == a \o <<y>>
    <3>1. st \o <<x, y>> = b /\ \A z \in path_state : st \o <<x, y, z>> = b \o <<z>>
      BY PutTwice
    <3>2. a \in Seq(path_state) /\ (HasKey(a) <=> HasKey(st))
      BY <2>1, PutOn
    <3> HIDE DEF a
    <3>3. b \in Seq(path_state) /\ (HasKey(b) <=> HasKey(a))
      BY <3>2, PutOn, KeyPut
    <3> HIDE DEF b
    <3>4. \A z \in path_state \ {"key_expr"} : HasKey(b \o <<z>>) <=> HasKey(b)
      BY <3>3, KeyPut
    <3> QED BY <3>1, <3>2, <3>3, <3>4
  <2> QED BY <2>1, <2>2
<1> QED BY <1>1, <1>2, <1>3 DEF On, Replace

(* What lies under the top, and what a state that no key is read in. *)
LEMMA NoKeyUnder ==
  ASSUME Formed
  PROVE  /\ Under # <<>> => Last(Under) \notin {"multi_select_hash", "key_val_expr"}
         /\ Top \notin {"key_expr"} \cup KeyTextStates => ~HasKey(state_stack)
         /\ Top \notin {"key_expr"} \cup KeyTextStates => ~HasKey(Under)
         /\ Top \notin KeyTops => ~InKey(state_stack)
         /\ Top = "key_expr" /\ Under # <<>> => ~InKey(Under) /\ Last(Under) = "expect_colon"
<1>1. state_stack \in Seq(path_state) /\ state_stack # <<>> /\ Shaped(state_stack)
      /\ Under \in Seq(path_state) /\ Shaped(Under)
      /\ (Under # <<>> => Lies(Last(Under), Top))
  BY Reshaped DEF Formed
<1>2. Under # <<>> => Last(Under) \notin {"multi_select_hash", "key_val_expr"}
  BY <1>1 DEF Lies, Carriers, SliceStates
<1>3. Top \notin {"key_expr"} \cup KeyTextStates => ~HasKey(state_stack)
  BY <1>1, KeyOnTop DEF Top
<1>4. Top \notin {"key_expr"} \cup KeyTextStates => ~HasKey(Under)
  BY <1>1, <1>3, KeyFront DEF Under, Top
<1>5. Top \notin KeyTops => ~InKey(state_stack)
  BY <1>3 DEF KeyTops, InKey, Top
<1>6. Top = "key_expr" /\ Under # <<>> => ~InKey(Under) /\ Last(Under) = "expect_colon"
  <2>1. SUFFICES ASSUME Top = "key_expr", Under # <<>>
                 PROVE  ~InKey(Under) /\ Last(Under) = "expect_colon"
    OBVIOUS
  <2>2. Last(Under) = "expect_colon"
    BY <1>1, <2>1, LiesApart
  <2>3. ~HasKey(Under)
    BY <1>1, <2>1, <2>2, KeyOnTop DEF KeyTextStates, EscapeStates
  <2> QED BY <2>2, <2>3 DEF InKey
<1> QED BY <1>2, <1>3, <1>4, <1>5, <1>6

-----------------------------------------------------------------------------
(* What holds of the program between two passes. *)

(* The tokens are where the state on top expects them. *)
Aligned(states, q) ==
  /\ InKey(states) <=> KeyNext(q)
  /\ Last(states) \in Complete => Settled(q)
  /\ Last(states) = "multi_select_hash" => Last(q).kind = "begin_multi_select_hash"

Good(states, s) ==
  /\ Program(states, s)
  /\ \A l \in s.lists : WellFormed(l)
  /\ Aligned(states, s.output)

Ready ==
  /\ Before /\ Shaped(state_stack) /\ Clear
  /\ stacks.ec = NoError /\ Good(state_stack, stacks)

(* A pass that sets no error and leaves a state to go on from. *)
Survives  == stacks'.ec = NoError /\ state_stack' # <<>>
GoodAfter == Good(state_stack', stacks')

(* The same groups are open, and a key is read next or is not, as before. *)
Keeps(new) ==
  /\ Quiet(new) /\ new # <<>>
  /\ InKey(new) <=> InKey(state_stack)
  /\ Last(new) # "multi_select_hash"

LEMMA ReadyIs ==
  ASSUME Ready
  PROVE  /\ Formed /\ Before /\ StacksOK(stacks) /\ state_stack \in Seq(path_state)
         /\ state_stack # <<>> /\ stacks.ec = NoError /\ Ledger(state_stack, stacks)
         /\ Program(state_stack, stacks) /\ Aligned(state_stack, stacks.output)
         /\ \A l \in stacks.lists : WellFormed(l)
         /\ stacks.output # <<>> /\ stacks.output \in Seq(Token)
<1>1. stacks.output # <<>> /\ stacks.output \in Seq(Token)
  BY OutputNotEmpty DEF Ready, Before
<1> QED BY <1>1 DEF Ready, Before, Formed, StatesOK, Balanced, Good

(* Nothing is pushed. *)
LEMMA StillGood ==
  ASSUME Ready, NEW new, Keeps(new), Last(new) \in Complete => Top \in Complete,
         state_stack' = new, stacks' = stacks
  PROVE  GoodAfter
<1>1. Program(new, stacks)
  <2>1. /\ new \in Seq(path_state) /\ SameFrames(state_stack, new)
        /\ state_stack \in Seq(path_state) /\ StacksOK(stacks) /\ Program(state_stack, stacks)
        /\ Kept(stacks, stacks) /\ \A G : StaysLevel(stacks, stacks, G)
    BY ReadyIs, KeptSelf, StaysSame DEF Keeps, Quiet
  <2> QED BY <2>1, SteadyProgram
<1>2. Aligned(new, stacks.output)
  BY ReadyIs DEF Aligned, Keeps, Top
<1> QED BY <1>1, <1>2, ReadyIs DEF Good, GoodAfter

LEMMA SameGood ==
  ASSUME Ready, state_stack' = state_stack, stacks' = stacks
  PROVE  GoodAfter
BY DEF Ready, GoodAfter

(* Tokens are pushed that leave an operand complete, or a place for one. *)
LEMMA SteadyGood ==
  ASSUME Ready, ~InKey(state_stack), NEW new, Keeps(new), NEW t, Neutral(stacks, t),
         t.ec = NoError, \A G : StaysLevel(stacks, t, G), t.lists = stacks.lists,
         ~KeyNext(t.output), Last(new) \in Complete => Settled(t.output)
  PROVE  Good(new, t)
<1>1. Program(new, t)
  <2>1. /\ new \in Seq(path_state) /\ SameFrames(state_stack, new)
        /\ state_stack \in Seq(path_state) /\ StacksOK(stacks) /\ Program(state_stack, stacks)
        /\ Kept(stacks, t)
    BY ReadyIs DEF Keeps, Quiet, Neutral
  <2> QED BY <2>1, SteadyProgram
<1>2. Aligned(new, t.output)
  BY DEF Aligned, Keeps
<1> QED BY <1>1, <1>2, ReadyIs DEF Good

LEMMA NotEmptied ==
  ASSUME Formed
  PROVE  /\ \A x \in path_state : On(<<x>>) # <<>> /\ Replace(<<x>>) # <<>>
         /\ \A x, y \in path_state : On(<<x, y>>) # <<>> /\ Replace(<<x, y>>) # <<>>
         /\ \A x, y, z \in path_state : Replace(<<x, y, z>>) # <<>>
<1>1. state_stack \in Seq(path_state) /\ Under \in Seq(path_state)
  BY Reshaped
<1>2. ASSUME NEW st \in Seq(path_state)
      PROVE  /\ \A x \in path_state : Len(st \o <<x>>) # 0
             /\ \A x, y \in path_state : Len(st \o <<x, y>>) # 0
             /\ \A x, y, z \in path_state : Len(st \o <<x, y, z>>) # 0
  <2>1. /\ \A x \in path_state : Len(<<x>>) = 1 /\ <<x>> \in Seq(path_state)
        /\ \A x, y \in path_state : Len(<<x, y>>) = 2 /\ <<x, y>> \in Seq(path_state)
        /\ \A x, y, z \in path_state : Len(<<x, y, z>>) = 3 /\ <<x, y, z>> \in Seq(path_state)
    OBVIOUS
  <2>2. \A xs \in Seq(path_state) : Len(st \o xs) = Len(st) + Len(xs)
    OBVIOUS
  <2>3. Len(st) \in Nat
    OBVIOUS
  <2>4. \A x \in path_state : Len(st \o <<x>>) = Len(st) + 1
    BY <2>1, <2>2
  <2>5. \A x, y \in path_state : Len(st \o <<x, y>>) = Len(st) + 2
    BY <2>1, <2>2
  <2>6. \A x, y, z \in path_state : Len(st \o <<x, y, z>>) = Len(st) + 3
    BY <2>1, <2>2
  <2> QED BY <2>3, <2>4, <2>5, <2>6
<1>3. \A xs : Len(xs) # 0 => xs # <<>>
  OBVIOUS
<1> QED BY <1>1, <1>2, <1>3 DEF On, Replace

(* The states that belong to no key and no group. *)
Moves == Ordinary \ {"key_expr"}

LEMMA OrdinaryKeeps ==
  ASSUME Ready, Top \notin Framing \cup KeyTops
  PROVE  /\ ~InKey(state_stack)
         /\ Under # <<>> => Keeps(Under)
         /\ \A x \in Moves : Keeps(On(<<x>>)) /\ Keeps(Replace(<<x>>))
         /\ \A x, y \in Moves : Keeps(On(<<x, y>>)) /\ Keeps(Replace(<<x, y>>))
         /\ \A x, y, z \in Moves : Keeps(Replace(<<x, y, z>>))
<1>1. Formed /\ Before
  BY ReadyIs
<1>2. ~InKey(state_stack) /\ ~HasKey(state_stack) /\ ~HasKey(Under) /\ Top # "key_expr"
  BY <1>1, NoKeyUnder DEF KeyTops, InKey
<1>3. \A x \in Moves : x \in path_state \ {"key_expr"} /\ x \in Ordinary
                       /\ x \notin {"multi_select_hash", "key_val_expr"}
  BY SpecialIs DEF Moves, Ordinary
<1>4. /\ Quiet(Under)
      /\ \A x \in Ordinary : Quiet(On(<<x>>)) /\ Quiet(Replace(<<x>>))
      /\ \A x, y \in Ordinary : Quiet(On(<<x, y>>)) /\ Quiet(Replace(<<x, y>>))
      /\ \A x, y, z \in Ordinary : Quiet(Replace(<<x, y, z>>))
  BY <1>1, AtOrdinary
<1>5. Under # <<>> => Keeps(Under)
  BY <1>1, <1>2, <1>4, NoKeyUnder DEF Keeps, InKey
<1>6. ASSUME NEW new, Quiet(new), NEW x \in Moves, Last(new) = x, ~HasKey(new), new # <<>>
      PROVE  Keeps(new)
  BY <1>2, <1>3, <1>6 DEF Keeps, InKey
<1>7. \A x \in Moves : /\ Last(On(<<x>>)) = x /\ ~HasKey(On(<<x>>)) /\ On(<<x>>) # <<>>
                       /\ Last(Replace(<<x>>)) = x /\ ~HasKey(Replace(<<x>>))
                       /\ Replace(<<x>>) # <<>>
  BY <1>1, <1>2, <1>3, LastPut, KeyMoves, NotEmptied
<1>8. \A x, y \in Moves : /\ Last(On(<<x, y>>)) = y /\ ~HasKey(On(<<x, y>>))
                          /\ On(<<x, y>>) # <<>>
                          /\ Last(Replace(<<x, y>>)) = y /\ ~HasKey(Replace(<<x, y>>))
                          /\ Replace(<<x, y>>) # <<>>
  BY <1>1, <1>2, <1>3, LastPut, KeyMoves, NotEmptied
<1>9. \A x, y, z \in Moves : /\ Last(Replace(<<x, y, z>>)) = z /\ ~HasKey(Replace(<<x, y, z>>))
                             /\ Replace(<<x, y, z>>) # <<>>
  BY <1>1, <1>2, <1>3, LastPut, KeyMoves, NotEmptied
<1>10. \A x \in Moves : Keeps(On(<<x>>)) /\ Keeps(Replace(<<x>>))
  BY <1>3, <1>4, <1>6, <1>7
<1>11. \A x, y \in Moves : Keeps(On(<<x, y>>)) /\ Keeps(Replace(<<x, y>>))
  BY <1>3, <1>4, <1>6, <1>8
<1>12. \A x, y, z \in Moves : Keeps(Replace(<<x, y, z>>))
  BY <1>3, <1>4, <1>6, <1>9
<1> QED BY <1>2, <1>5, <1>10, <1>11, <1>12

(* The same where a group goes on. *)
LEMMA FrameKeeps ==
  ASSUME Ready, Top \notin KeyTops
  PROVE  /\ ~InKey(state_stack)
         /\ \A x \in Moves : Keeps(On(<<x>>))
         /\ \A x, y \in Moves : Keeps(On(<<x, y>>))
<1>1. Formed /\ Before
  BY ReadyIs
<1>2. ~InKey(state_stack) /\ ~HasKey(state_stack) /\ Top # "key_expr"
  BY <1>1, NoKeyUnder DEF KeyTops, InKey
<1>3. \A x \in Moves : x \in path_state \ {"key_expr"} /\ x \in Ordinary
                       /\ x \notin {"multi_select_hash", "key_val_expr"}
  BY SpecialIs DEF Moves, Ordinary
<1>4. /\ \A x \in Ordinary : Quiet(On(<<x>>))
      /\ \A x, y \in Ordinary : Quiet(On(<<x, y>>))
  BY <1>1, AtFrame
<1>6. ASSUME NEW new, Quiet(new), NEW x \in Moves, Last(new) = x, ~HasKey(new), new # <<>>
      PROVE  Keeps(new)
  BY <1>2, <1>3, <1>6 DEF Keeps, InKey
<1>7. \A x \in Moves : Last(On(<<x>>)) = x /\ ~HasKey(On(<<x>>)) /\ On(<<x>>) # <<>>
  BY <1>1, <1>2, <1>3, LastPut, KeyMoves, NotEmptied
<1>8. \A x, y \in Moves : /\ Last(On(<<x, y>>)) = y /\ ~HasKey(On(<<x, y>>))
                          /\ On(<<x, y>>) # <<>>
  BY <1>1, <1>2, <1>3, LastPut, KeyMoves, NotEmptied
<1>10. \A x \in Moves : Keeps(On(<<x>>))
  BY <1>3, <1>4, <1>6, <1>7
<1>11. \A x, y \in Moves : Keeps(On(<<x, y>>))
  BY <1>3, <1>4, <1>6, <1>8
<1> QED BY <1>2, <1>10, <1>11

(* The same for the text of a key. *)
LEMMA TextKeeps ==
  ASSUME Ready, Top \in KeyTextStates
  PROVE  /\ Under # <<>> => Keeps(Under)
         /\ \A x \in KeyTextStates : Keeps(On(<<x>>)) /\ Keeps(Replace(<<x>>))
<1>1. Formed /\ Before
  BY ReadyIs
<1>2. Top \notin {"key_expr", "multi_select_hash", "key_val_expr"}
  BY DEF KeyTextStates, EscapeStates
<1>3. \A x \in KeyTextStates : x \in path_state \ {"key_expr"}
                               /\ x \notin {"multi_select_hash", "key_val_expr"}
  BY OrdinaryStates DEF KeyTextStates, EscapeStates, Ordinary
<1>4. /\ Quiet(Under) /\ \A x \in KeyTextStates : Quiet(On(<<x>>)) /\ Quiet(Replace(<<x>>))
  BY <1>1, AtKeyText DEF Carried
<1>5. InKey(state_stack) <=> HasKey(state_stack)
  BY <1>2 DEF InKey, Top
<1>6. Under # <<>> => Keeps(Under)
  BY <1>1, <1>2, <1>4, <1>5, NoKeyUnder, KeyMoves DEF Keeps, InKey
<1>7. ASSUME NEW new, Quiet(new), NEW x \in KeyTextStates, Last(new) = x, new # <<>>,
             HasKey(new) <=> HasKey(state_stack)
      PROVE  Keeps(new)
  BY <1>3, <1>5, <1>7 DEF Keeps, InKey
<1>8. \A x \in KeyTextStates :
        /\ Last(On(<<x>>)) = x /\ On(<<x>>) # <<>> /\ (HasKey(On(<<x>>)) <=> HasKey(state_stack))
        /\ Last(Replace(<<x>>)) = x /\ Replace(<<x>>) # <<>>
        /\ (HasKey(Replace(<<x>>)) <=> HasKey(state_stack))
  BY <1>1, <1>2, <1>3, LastPut, KeyMoves, NotEmptied
<1> QED BY <1>4, <1>6, <1>7, <1>8

-----------------------------------------------------------------------------
(* What the tokens make of it. *)

LEMMA PushedAs ==
  ASSUME NEW s, NEW tok
  PROVE  /\ tok.kind = "expression" => push_token(tok, s) = AddExpression(s, tok, tok)
         /\ tok.kind \in {"pipe", "key"} => push_token(tok, s) = Put(s, tok)
         /\ tok.kind = "unary_operator" => push_token(tok, s) = PushOperator(s, tok)
         /\ tok.kind = "lparen" => push_token(tok, s) = PushLparen(s)
         /\ tok.kind = "rparen" => push_token(tok, s) = unwind_rparen(s)
         /\ tok = Tok("separator") => push_token(tok, s) = SeparatedFrom(s)
         /\ tok.kind \in Separated \cup {"begin_filter"} =>
              push_token(tok, s) = PushLparen(Put(s, tok))
<1>1. tok.kind = "expression" => push_token(tok, s) = AddExpression(s, tok, tok)
  BY DEF push_token, Operators, Openers
<1>2. tok.kind \in {"pipe", "key"} => push_token(tok, s) = Put(s, tok)
  BY DEF push_token, Operators, Openers
<1>3. tok.kind = "unary_operator" => push_token(tok, s) = PushOperator(s, tok)
  BY DEF push_token, Operators, Openers
<1>4. tok.kind = "lparen" => push_token(tok, s) = PushLparen(s)
  BY DEF push_token, Operators, Openers
<1>5. tok.kind = "rparen" => push_token(tok, s) = unwind_rparen(s)
  BY DEF push_token, Operators, Openers
<1>6. tok.kind = "separator" => push_token(tok, s) = PushLparen(Put(unwind_rparen(s), tok))
  BY DEF push_token, Operators, Openers
<1>7. Tok("separator").kind = "separator"
  BY DEF Tok
<1>8. tok.kind \in Separated \cup {"begin_filter"} => push_token(tok, s) = PushLparen(Put(s, tok))
  BY DEF push_token, Operators, Openers, Separated
<1> QED BY <1>1, <1>2, <1>3, <1>4, <1>5, <1>6, <1>7, <1>8 DEF SeparatedFrom

(* An operand that is complete. *)
LEMMA ExpressionGood ==
  ASSUME Ready, ~InKey(state_stack), NEW tok \in Token, tok.kind = "expression",
         NEW new, Keeps(new), NEW t, t = push_token(tok, stacks), t.ec = NoError
  PROVE  Good(new, t)
<1>1. t = AddExpression(stacks, tok, tok)
  BY PushedAs
<1>2. StacksOK(stacks) /\ ~KeyNext(stacks.output)
  BY ReadyIs DEF Aligned
<1>3. (\A G : StaysLevel(stacks, t, G)) /\ Settled(t.output) /\ t.lists = stacks.lists
  BY <1>1, <1>2, AddStays
<1>4. Neutral(stacks, t)
  BY <1>2, PushNeutral DEF Plain
<1>5. ~KeyNext(t.output)
  BY <1>3, SettledWants
<1> QED BY <1>3, <1>4, <1>5, SteadyGood

(* A pipe, which is left on output_stack_. *)
LEMMA PipeGood ==
  ASSUME Ready, ~InKey(state_stack), NEW new, Keeps(new),
         NEW t, t = push_token(Tok("pipe"), stacks), t.ec = NoError
  PROVE  Good(new, t)
<1> DEFINE tok == Tok("pipe")
<1>1. tok \in Token /\ tok.kind = "pipe" /\ tok.kind \in Plain
  BY Pushable DEF Tok
<1> HIDE DEF tok
<1>2. t = Put(stacks, tok)
  BY <1>1, PushedAs DEF tok
<1>3. StacksOK(stacks) /\ ~KeyNext(stacks.output) /\ stacks.output \in Seq(Token)
  BY ReadyIs DEF Aligned
<1>4. \A G : StaysLevel(stacks, t, G)
  BY <1>1, <1>2, <1>3, PutStays
<1>5. t.output = Append(stacks.output, tok) /\ t.lists = stacks.lists
  BY <1>2, <1>3, PutFields DEF Fields4
<1>6. Settled(t.output)
  BY <1>1, <1>3, <1>5, AppendedLast DEF Boundary
<1>7. Neutral(stacks, t)
  BY <1>1, <1>3, PushNeutral DEF tok
<1>8. ~KeyNext(t.output)
  BY <1>6, SettledWants
<1> QED BY <1>4, <1>5, <1>6, <1>7, <1>8, SteadyGood

(* A prefix operator. *)
LEMMA UnaryGood ==
  ASSUME Ready, ~InKey(state_stack), NEW new, Keeps(new), Last(new) \notin Complete,
         NEW t, t = push_token(Unary("not_op"), stacks), t.ec = NoError
  PROVE  Good(new, t)
<1> DEFINE tok == Unary("not_op")
<1>1. tok \in Token /\ tok.kind \in Plain
  BY Pushable
<1>2. tok.kind = "unary_operator"
  BY DEF Unary
<1> HIDE DEF tok
<1>3. t = PushOperator(stacks, tok)
  BY <1>2, PushedAs DEF tok
<1>4. StacksOK(stacks) /\ ~KeyNext(stacks.output) /\ Program(state_stack, stacks)
  BY ReadyIs DEF Aligned
<1>5. \A G : StaysLevel(stacks, t, G)
  BY <1>1, <1>2, <1>3, <1>4, UnaryStays
<1>6. ~KeyNext(t.output) /\ t.lists = stacks.lists
  <2>1. \E v, w, G : Leveled(stacks, v, w, G)
    BY <1>4 DEF Program, ProgramBy
  <2> QED BY <1>1, <1>2, <1>3, <1>4, <2>1, UnaryOutput
<1>7. Neutral(stacks, t)
  BY <1>1, <1>4, PushNeutral DEF tok
<1> QED BY <1>5, <1>6, <1>7, SteadyGood

(* A binary operator, and the current_node of its right side. *)
LEMMA BinaryGood ==
  ASSUME Ready, ~InKey(state_stack), NEW new, Keeps(new), NEW oper \in BinaryOpers,
         NEW t, t = WithBinary(oper, stacks), t.ec = NoError
  PROVE  Good(new, t)
<1>1. StacksOK(stacks) /\ ~KeyNext(stacks.output) /\ Program(state_stack, stacks)
  BY ReadyIs DEF Aligned
<1>2. ASSUME NEW G PROVE StaysLevel(stacks, t, G)
  BY <1>1, BinaryStays DEF StaysLevel
<1>3. Settled(t.output) /\ t.lists = stacks.lists
  <2>1. \E v, w, G : Leveled(stacks, v, w, G)
    BY <1>1 DEF Program, ProgramBy
  <2> QED BY <1>1, <2>1, BinaryStays
<1>4. Neutral(stacks, t)
  BY <1>1, BinaryNeutral
<1>5. ~KeyNext(t.output)
  BY <1>3, SettledWants
<1> QED BY <1>2, <1>3, <1>4, <1>5, SteadyGood

(* A key. *)
LEMMA KeyGood ==
  ASSUME Ready, Top = "key_expr", Under # <<>>,
         NEW t, t = push_token(Tok("key"), stacks), t.ec = NoError
  PROVE  Good(Under, t)
<1> DEFINE tok == Tok("key")
<1>1. tok \in Token /\ tok.kind = "key" /\ tok.kind \in Plain
  BY Pushable DEF Tok
<1> HIDE DEF tok
<1>2. t = Put(stacks, tok)
  BY <1>1, PushedAs DEF tok
<1>3. InKey(state_stack)
  <2>1. Len(state_stack) \in DOMAIN state_stack /\ state_stack[Len(state_stack)] = Top
    BY ReadyIs DEF Top, Last
  <2> QED BY <2>1 DEF InKey, HasKey
<1>4. StacksOK(stacks) /\ KeyNext(stacks.output) /\ stacks.output \in Seq(Token)
      /\ Program(state_stack, stacks) /\ state_stack \in Seq(path_state)
  BY <1>3, ReadyIs DEF Aligned
<1>5. \A G : StaysLevel(stacks, t, G)
  BY <1>1, <1>2, <1>4, PutStays
<1>6. t.output = Append(stacks.output, tok) /\ t.lists = stacks.lists
  BY <1>2, <1>4, PutFields DEF Fields4
<1>7. Kept(stacks, t)
  BY <1>1, <1>4, PushNeutral DEF tok, Neutral
<1>8. Under \in Seq(path_state) /\ SameFrames(state_stack, Under)
  <2>1. Top \notin Framing
    BY KeyTopsAre
  <2> QED BY <2>1, ReadyIs, QuietUnder DEF Quiet, Formed
<1>9. Program(Under, t)
  BY <1>4, <1>5, <1>7, <1>8, SteadyProgram
<1>10. ~InKey(Under) /\ Last(Under) = "expect_colon"
  BY ReadyIs, NoKeyUnder
<1>11. Last(t.output) = tok /\ t.output[Len(t.output)] = tok
  <2>1. Last(Append(stacks.output, tok)) = tok
    BY <1>1, <1>4, AppendedLast
  <2> QED BY <1>6, <2>1 DEF Last
<1>12. ~KeyNext(t.output)
  BY <1>1, <1>11 DEF KeyNext, WantsKey
<1>13. Aligned(Under, t.output)
  BY <1>10, <1>12 DEF Aligned, Complete
<1> QED BY <1>6, <1>9, <1>13, ReadyIs DEF Good

(* A group, or a parenthesis, begins and ends. *)
LEMMA LparenTokenIs ==
  Tok("lparen") \in Token /\ Tok("lparen").kind = "lparen" /\ Tok("rparen").kind = "rparen"
BY DEF Token, Stored, Openers, Operators, Closers, Opers, Tok

LEMMA BeginGood ==
  ASSUME Ready, Top \notin Framing \cup KeyTops, NEW f \in DOMAIN GroupOpener,
         NEW new, Becomes(f, new), new # <<>>, ~HasKey(new), Last(new) \notin Complete,
         NEW tok \in Token, tok.kind \in Separated \cup {"begin_filter"},
         \/ Last(new) = "multi_select_hash" /\ tok.kind = "begin_multi_select_hash"
         \/ Last(new) \notin {"multi_select_hash", "key_val_expr"}
            /\ tok.kind # "begin_multi_select_hash",
         NEW t, t = push_token(tok, stacks)
  PROVE  Good(new, t)
<1>1. /\ StacksOK(stacks) /\ ~KeyNext(stacks.output) /\ stacks.output \in Seq(Token)
      /\ Program(state_stack, stacks) /\ state_stack \in Seq(path_state) /\ state_stack # <<>>
  BY ReadyIs, NoKeyUnder DEF Aligned
<1>2. /\ new \in Seq(path_state) /\ Replaces(state_stack, new, f)
      /\ Last(state_stack) \notin DOMAIN GroupOpener \cup {"expect_rparen"}
  BY DEF Becomes, Framing, Top
<1>3. /\ t.output = Append(stacks.output, tok) /\ t.lists = stacks.lists
      /\ t.operators = Append(stacks.operators, Tok("lparen"))
  <2> DEFINE p == Put(stacks, tok)
  <2>1. t = PushLparen(p)
    BY PushedAs
  <2>2. StacksOK(p)
    <3>1. tok.kind \in Boundary
      BY DEF Separated, Boundary
    <3> QED BY <1>1, TokenPut
  <2>3. Fields4(p, Append(stacks.output, tok), stacks.operators, stacks.ec, stacks.lists)
    BY <1>1, PutFields
  <2> HIDE DEF p
  <2>4. Fields4(PushLparen(p), p.output, Append(p.operators, Tok("lparen")), p.ec, p.lists)
    BY <2>2, LparenFields
  <2> QED BY <2>1, <2>3, <2>4 DEF Fields4
<1>4. Program(new, t)
  BY <1>1, <1>2, <1>3, OpenedProgram
<1>5. Last(t.output) = tok /\ t.output[Len(t.output)] = tok
  <2>1. Last(Append(stacks.output, tok)) = tok
    BY <1>1, AppendedLast
  <2> QED BY <1>3, <2>1 DEF Last
<1>6. KeyNext(t.output) <=> tok.kind = "begin_multi_select_hash"
  <2>1. tok.kind # "separator"
    BY DEF Separated
  <2> QED BY <1>5, <2>1 DEF KeyNext, WantsKey
<1>7. Aligned(new, t.output)
  BY <1>5, <1>6 DEF Aligned, InKey
<1> QED BY <1>3, <1>4, <1>7, ReadyIs DEF Good

LEMMA ParenthesisGood ==
  ASSUME Ready, Top \notin Framing \cup KeyTops, NEW new, Becomes("expect_rparen", new),
         new # <<>>, ~InKey(new), Last(new) \notin Complete, Last(new) # "multi_select_hash",
         NEW t, t = push_token(Tok("lparen"), stacks)
  PROVE  Good(new, t)
<1>1. /\ StacksOK(stacks) /\ ~KeyNext(stacks.output)
      /\ Program(state_stack, stacks) /\ state_stack \in Seq(path_state) /\ state_stack # <<>>
  BY ReadyIs, NoKeyUnder DEF Aligned
<1>2. /\ new \in Seq(path_state) /\ Replaces(state_stack, new, "expect_rparen")
      /\ Last(state_stack) \notin DOMAIN GroupOpener \cup {"expect_rparen"}
  BY DEF Becomes, Framing, Top
<1>3. /\ t.output = stacks.output /\ t.lists = stacks.lists
      /\ t.operators = Append(stacks.operators, Tok("lparen"))
  BY <1>1, LparenTokenIs, PushedAs, LparenFields DEF Fields4
<1>4. Program(new, t)
  BY <1>1, <1>2, <1>3, ParenthesisProgram
<1>5. Aligned(new, t.output)
  BY <1>1, <1>3 DEF Aligned
<1> QED BY <1>3, <1>4, <1>5, ReadyIs DEF Good

LEMMA RparenGood ==
  ASSUME Ready, Top = "expect_rparen", NEW new, Becomes("rhs_expression", new),
         new # <<>>, ~InKey(new), Last(new) = "rhs_expression",
         NEW t, t = push_token(Tok("rparen"), stacks), t.ec = NoError
  PROVE  Good(new, t)
<1>1. /\ StacksOK(stacks) /\ Settled(stacks.output) /\ Program(state_stack, stacks)
      /\ state_stack \in Seq(path_state) /\ state_stack # <<>>
  BY ReadyIs DEF Aligned, Complete, Top
<1>2. ~KeyNext(stacks.output)
  BY <1>1, SettledWants
<1>3. /\ new \in Seq(path_state) /\ Replaces(state_stack, new, "rhs_expression")
      /\ Last(state_stack) = "expect_rparen" /\ "rhs_expression" \notin Special
  BY SpecialIs DEF Becomes, Top
<1>4. t = unwind_rparen(stacks)
  BY LparenTokenIs, PushedAs
<1>5. Program(new, t)
  BY <1>1, <1>2, <1>3, <1>4, RparenProgram
<1>6. LparenOff(stacks, t, LastAt("lparen", stacks.operators))
  BY <1>1, <1>4, UnwoundFields
<1>7. t.lists = stacks.lists
  BY <1>6 DEF LparenOff, Fields4
<1>8. Onward(stacks.output, t.output)
  <2>1. \E v, w, G : Leveled(stacks, v, w, G)
    BY <1>1 DEF Program, ProgramBy
  <2> QED BY <1>1, <1>2, <1>6, <2>1, UnwoundLevels
<1>9. Settled(t.output) /\ ~KeyNext(t.output)
  BY <1>1, <1>8 DEF Onward
<1>10. Aligned(new, t.output)
  BY <1>9 DEF Aligned
<1> QED BY <1>5, <1>7, <1>10, ReadyIs DEF Good

LEMMA SeparatorGood ==
  ASSUME Ready, Top \in {"multi_select_list", "expect_rbrace"},
         NEW new, Quiet(new), new # <<>>, Last(new) \notin Complete,
         Last(new) # "multi_select_hash", InKey(new) <=> Top = "expect_rbrace",
         NEW t, t = push_token(Tok("separator"), stacks), t.ec = NoError
  PROVE  Good(new, t)
<1>1. /\ StacksOK(stacks) /\ Settled(stacks.output) /\ Program(state_stack, stacks)
      /\ state_stack \in Seq(path_state) /\ state_stack # <<>> /\ Ledger(state_stack, stacks)
  BY ReadyIs DEF Aligned, Complete, Top
<1>2. t = SeparatedFrom(stacks)
  BY PushedAs
<1>3. StacksOK(t)
  BY <1>1, Pushable, PushKeepsStacks
<1>4. /\ Last(state_stack) \in {"multi_select_list", "expect_rbrace"}
      /\ new \in Seq(path_state) /\ SameFrames(state_stack, new)
  BY DEF Top, Quiet
<1>5. /\ Program(new, t) /\ t.lists = stacks.lists
      /\ KeyNext(t.output) <=> Last(state_stack) = "expect_rbrace"
  BY <1>1, <1>2, <1>3, <1>4, SeparatorProgram
<1>6. Aligned(new, t.output)
  BY <1>5 DEF Aligned, Top
<1> QED BY <1>5, <1>6, ReadyIs DEF Good

LEMMA EndGood ==
  ASSUME Ready, NEW tok, Ends(tok.kind, Top), tok.kind # "end_function", Under # <<>>,
         NEW t, t = push_token(tok, stacks), t.ec = NoError
  PROVE  Good(Under, t)
<1>1. /\ StacksOK(stacks) /\ Program(state_stack, stacks) /\ state_stack # <<>>
      /\ state_stack \in Seq(path_state) /\ Ledger(state_stack, stacks) /\ Formed
  BY ReadyIs
<1>2. \/ Settled(stacks.output)
      \/ /\ tok.kind = "end_multi_select_hash"
         /\ Last(stacks.output).kind = "begin_multi_select_hash"
  <2>1. Top \in Complete \/ (Top = "multi_select_hash" /\ tok.kind = "end_multi_select_hash")
    BY DEF Ends, Complete
  <2> QED BY <2>1, ReadyIs DEF Aligned, Top
<1>3. /\ Program(Under, t) /\ Settled(t.output)
      /\ \A l \in t.lists : l \in stacks.lists \/ WellFormed(l)
  BY <1>1, <1>2, EndedProgram DEF Top, Under
<1>4. ~InKey(Under) /\ Last(Under) # "multi_select_hash"
  <2>1. Top \notin {"key_expr"} \cup KeyTextStates
    BY DEF Ends, KeyTextStates, EscapeStates
  <2> QED BY <1>1, <2>1, NoKeyUnder DEF InKey
<1>5. ~KeyNext(t.output)
  BY <1>3, SettledWants
<1>6. Aligned(Under, t.output)
  BY <1>3, <1>4, <1>5 DEF Aligned
<1> QED BY <1>3, <1>6, ReadyIs DEF Good

-----------------------------------------------------------------------------
(* What the passes make of it. *)

(* No operand becomes complete by it. *)
May(new)    == Keeps(new) /\ (Last(new) \in Complete => Top \in Complete)
GoesTo(new) == state_stack' = new /\ stacks' = stacks
Pushes(new, tok) == state_stack' = new /\ stacks' = push_token(tok, stacks)

LEMMA MovesAre ==
  /\ {"lhs_expression", "rhs_expression", "sub_expression", "comparator_expression",
      "jf_expression", "val_expr", "identifier_or_function_expr", "quoted_string",
      "unquoted_string", "raw_string", "number", "digit", "bracket_specifier",
      "bracket_specifier_or_multi_select_list", "expect_multi_select_list",
      "expect_rbracket", "cmp_lt_or_lte", "cmp_gt_or_gte", "cmp_eq", "cmp_ne",
      "expect_pipe_or_or", "expect_and"} \subseteq Moves
  /\ SliceStates \subseteq Moves /\ OperatorStates \subseteq Moves /\ EscapeStates \subseteq Moves
  /\ Moves \subseteq path_state
  /\ {"lhs_expression", "sub_expression", "val_expr", "identifier_or_function_expr",
      "quoted_string", "unquoted_string", "raw_string", "number", "digit", "bracket_specifier",
      "bracket_specifier_or_multi_select_list", "expect_multi_select_list",
      "cmp_lt_or_lte", "cmp_gt_or_gte", "cmp_eq", "cmp_ne",
      "expect_pipe_or_or", "expect_and", "multi_select_hash", "key_val_expr", "expect_colon",
      "key_expr"} \cap Complete = {}
  /\ SliceStates \cap Complete = {} /\ OperatorStates \cap Complete = {}
  /\ EscapeStates \cap Complete = {}
  /\ {"rhs_expression", "multi_select_list", "expect_rbrace", "filter", "expect_rparen",
      "comparator_expression", "jf_expression", "expect_rbracket"} = Complete
<1>1. "key_expr" \notin SliceStates \cup OperatorStates \cup EscapeStates
  BY DEF SliceStates, OperatorStates, EscapeStates
<1>2. /\ SliceStates \cap Complete = {} /\ OperatorStates \cap Complete = {}
      /\ EscapeStates \cap Complete = {}
  BY DEF SliceStates, OperatorStates, EscapeStates, Complete
<1> QED BY <1>1, <1>2, OrdinaryStates DEF Moves, Ordinary, Complete

LEMMA OrdinaryMay ==
  ASSUME Ready, Top \notin Framing \cup KeyTops
  PROVE  /\ Top \in Complete /\ Under # <<>> => May(Under)
         /\ \A x \in Moves :
              x \notin Complete \/ Top \in Complete => May(On(<<x>>)) /\ May(Replace(<<x>>))
         /\ \A x, y \in Moves :
              y \notin Complete \/ Top \in Complete => May(On(<<x, y>>)) /\ May(Replace(<<x, y>>))
         /\ \A x, y, z \in Moves :
              z \notin Complete \/ Top \in Complete => May(Replace(<<x, y, z>>))
<1>1. Formed /\ \A x \in Moves : x \in path_state
  BY ReadyIs, MovesAre
<1>2. \A x \in Moves : Last(On(<<x>>)) = x /\ Last(Replace(<<x>>)) = x
  BY <1>1, LastPut
<1>3. \A x, y \in Moves : Last(On(<<x, y>>)) = y /\ Last(Replace(<<x, y>>)) = y
  BY <1>1, LastPut
<1>4. \A x, y, z \in Moves : Last(Replace(<<x, y, z>>)) = z
  BY <1>1, LastPut
<1>5. Top \in Complete /\ Under # <<>> => May(Under)
  BY OrdinaryKeeps DEF May
<1>6. \A x \in Moves :
        x \notin Complete \/ Top \in Complete => May(On(<<x>>)) /\ May(Replace(<<x>>))
  BY <1>2, OrdinaryKeeps DEF May
<1>7. \A x, y \in Moves :
        y \notin Complete \/ Top \in Complete => May(On(<<x, y>>)) /\ May(Replace(<<x, y>>))
  BY <1>3, OrdinaryKeeps DEF May
<1>8. \A x, y, z \in Moves :
        z \notin Complete \/ Top \in Complete => May(Replace(<<x, y, z>>))
  BY <1>4, OrdinaryKeeps DEF May
<1> QED BY <1>5, <1>6, <1>7, <1>8

LEMMA FrameMay ==
  ASSUME Ready, Top \notin KeyTops
  PROVE  /\ \A x \in Moves : x \notin Complete => May(On(<<x>>))
         /\ \A x \in Moves : Top \in Complete => May(On(<<x>>))
         /\ \A x, y \in Moves : y \notin Complete => May(On(<<x, y>>))
<1>1. Formed
  BY ReadyIs
<1>2. \A x \in Moves : Last(On(<<x>>)) = x
  BY <1>1, LastPut, MovesAre
<1>3. \A x, y \in Moves : Last(On(<<x, y>>)) = y
  BY <1>1, LastPut, MovesAre
<1> QED BY <1>2, <1>3, FrameKeeps DEF May

LEMMA MayGood ==
  ASSUME Ready, NEW new, new = <<>> \/ May(new), GoesTo(new), Survives
  PROVE  GoodAfter
BY StillGood DEF May, GoesTo, Survives

(* The steps that leave the stacks alone, and the ones that push a token. *)
LEMMA GoesBy ==
  ASSUME Ready, NEW new
  PROVE  /\ \A n : Goto(n, new) => GoesTo(new)
         /\ \A n, text : Collect(n, new, text) => GoesTo(new)
         /\ \A n : FlushGoto(n, new) /\ buffer = "empty" => GoesTo(new)
         /\ \A text : PassSpace(new, stacks, text) /\ Survives => GoesTo(new)
<1>1. \A n : Goto(n, new) => GoesTo(new)
  BY DEF Goto, GoesTo
<1>2. \A n, text : Collect(n, new, text) => GoesTo(new)
  BY DEF Collect, GoesTo
<1>3. \A n : FlushGoto(n, new) /\ buffer = "empty" => GoesTo(new)
  BY EmptyChecked DEF FlushGoto, GoesTo
<1>4. "unexpected_end_of_input" # NoError
  BY DEF NoError
<1>5. SetError(stacks, "unexpected_end_of_input").ec # NoError
  BY <1>4, ReadyIs, ErrorParts
<1>6. \A text : PassSpace(new, stacks, text) /\ Survives => GoesTo(new)
  BY <1>5 DEF PassSpace, GoesTo, Survives
<1> QED BY <1>1, <1>2, <1>3, <1>6

LEMMA PushesBy ==
  ASSUME NEW new, NEW tok
  PROVE  /\ \A n : Push(n, new, tok) => Pushes(new, tok)
         /\ \A n, text : PushedFrom(push_token(tok, stacks), n, new, text) => Pushes(new, tok)
         /\ \A n : FlushPush(n, new, tok) /\ buffer = "empty" => Pushes(new, tok)
         /\ \A n : TakeText(n, tok) => Pushes(Under, tok)
         /\ \A t : Pushes(new, t) => state_stack' = new /\ stacks' = push_token(t, stacks)
<1>1. \A n : Push(n, new, tok) => Pushes(new, tok)
  BY DEF Push, PushedFrom, Pushes
<1>2. \A n, text : PushedFrom(push_token(tok, stacks), n, new, text) => Pushes(new, tok)
  BY DEF PushedFrom, Pushes
<1>3. \A n : FlushPush(n, new, tok) /\ buffer = "empty" => Pushes(new, tok)
  BY EmptyChecked DEF FlushPush, PushedFrom, Pushes
<1>4. \A n : TakeText(n, tok) => Pushes(Under, tok)
  BY DEF TakeText, PushedFrom, Pushes
<1> QED BY <1>1, <1>2, <1>3, <1>4 DEF Pushes

LEMMA FailsNot ==
  ASSUME Ready, NEW e, e # NoError, Fail(e)
  PROVE  ~Survives
BY ReadyIs, ErrorParts DEF Fail, Survives

LEMMA AdvanceGood ==
  ASSUME Ready, buffer = "empty", advance_past_space_character \/ FlushThenAdvance, Survives
  PROVE  GoodAfter
<1>1. buffer \in {"empty"} \cup JsonTexts /\ checkBuffer(stacks) = stacks
  BY EmptyChecked
<1>2. AdvancePastSpaceFrom(stacks)
  BY <1>1 DEF FlushThenAdvance, advance_past_space_character
<1>3. PassSpace(state_stack, stacks, Unflushed)
  BY <1>1, <1>2 DEF AdvancePastSpaceFrom
<1> QED BY <1>3, GoesBy, SameGood DEF GoesTo

LEMMA NoTextLeft ==
  ASSUME Ready, Top \notin Gathering, rest # <<>>
  PROVE  buffer = "empty"
BY DEF Ready, Clear, AtEnd, Before

LEMMA LeaveGood ==
  ASSUME Ready, Top \notin Framing \cup KeyTops, Top \in Complete, LeaveOrFail, Survives
  PROVE  GoodAfter
<1>1. "syntax_error" # NoError
  BY DEF NoError
<1> QED BY <1>1, OrdinaryMay, GoesBy, MayGood, FailsNot DEF LeaveOrFail

(* The stacks get the tokens of an operand that is complete. *)
LEMMA OperandPushed ==
  ASSUME Ready, Top \notin Framing \cup KeyTops, NEW tok,
         tok = Selector \/ tok = Expression("projection_op")
           \/ tok = Expression("flatten_projection_op"),
         NEW new, new = Under \/ (new = Replace(<<"expect_rbracket">>)), Pushes(new, tok), Survives
  PROVE  GoodAfter
<1>1. tok \in Token
  BY Pushable
<1>2. tok.kind = "expression"
  BY DEF Selector, Expression
<1>3. ~InKey(state_stack) /\ new # <<>> => Keeps(new)
  BY OrdinaryKeeps, MovesAre
<1>4. ~InKey(state_stack)
  BY OrdinaryKeeps
<1> QED BY <1>1, <1>2, <1>3, <1>4, ExpressionGood DEF Pushes, Survives, GoodAfter

(* The passes, by the part of the grammar they read. *)
LEMMA ErrorsSet ==
  NoError \notin {Undefined, Throws, "expected_identifier", "expected_index_expression",
     "expected_colon", "expected_comparator", "expected_key", "expected_multi_select_list",
     "expected_rbracket", "expected_rparen", "illegal_escaped_character", "invalid_codepoint",
     "invalid_literal", "invalid_number", "step_cannot_be_zero", "syntax_error",
     "unbalanced_quotes", "unexpected_end_of_input"}
BY DEF NoError, Undefined, Throws

(* The begin of a hash has its state, with nothing above it. *)
LEMMA HashBegins ==
  ASSUME Ready, Top \notin Framing \cup KeyTops,
         Pushes(Replace(<<"multi_select_hash">>), Tok("begin_multi_select_hash"))
  PROVE  GoodAfter
<1> DEFINE new == Replace(<<"multi_select_hash">>)
           tok == Tok("begin_multi_select_hash")
<1>1. Formed /\ StatesOK(state_stack) /\ state_stack # <<>>
  BY ReadyIs DEF Formed
<1>2. "multi_select_hash" \in path_state \ {"key_expr"} /\ "multi_select_hash" \in DOMAIN GroupOpener
  BY Openings DEF path_state
<1>3. Becomes("multi_select_hash", new)
  BY <1>1, <1>2, BecomesReplaced
<1>4. Last(new) = "multi_select_hash" /\ new # <<>>
  BY <1>1, <1>2, LastPut, NotEmptied
<1>5. ~HasKey(new)
  BY <1>1, <1>2, KeyMoves, NoKeyUnder DEF KeyTops
<1>6. tok \in Token /\ tok.kind = "begin_multi_select_hash" /\ tok.kind \in Separated
  BY DEF Token, Stored, Openers, Opers, Tok, Separated
<1>7. "multi_select_hash" \notin Complete
  BY DEF Complete
<1> HIDE DEF new, tok
<1>8. Good(new, push_token(tok, stacks))
  BY <1>2, <1>3, <1>4, <1>5, <1>6, <1>7, BeginGood
<1> QED BY <1>8 DEF Pushes, GoodAfter, new, tok

(* A list, a filter: an operand is read next. *)
LEMMA GroupBegins ==
  ASSUME Ready, Top \notin Framing \cup KeyTops, NEW new, NEW tok,
         \/ /\ tok = Tok("begin_filter")
            /\ new = Replace(<<"filter", "rhs_expression", "lhs_expression">>)
         \/ /\ tok = Tok("begin_multi_select_list")
            /\ new = Replace(<<"multi_select_list", "lhs_expression">>),
         Pushes(new, tok)
  PROVE  GoodAfter
<1>1. Formed /\ StatesOK(state_stack) /\ state_stack # <<>>
  BY ReadyIs DEF Formed
<1>2. /\ {"filter", "multi_select_list", "rhs_expression", "lhs_expression"}
            \subseteq path_state \ {"key_expr"}
      /\ {"filter", "multi_select_list"} \subseteq DOMAIN GroupOpener
      /\ {"rhs_expression", "lhs_expression"} \subseteq Ordinary
  BY Openings, OrdinaryStates DEF path_state
<1>3. \E f \in DOMAIN GroupOpener : Becomes(f, new)
  BY <1>1, <1>2, BecomesReplaced
<1>4. Last(new) = "lhs_expression" /\ new # <<>>
  BY <1>1, <1>2, LastPut, NotEmptied
<1>5. ~HasKey(new)
  BY <1>1, <1>2, KeyMoves, NoKeyUnder DEF KeyTops
<1>6. tok \in Token /\ tok.kind \in Separated \cup {"begin_filter"}
      /\ tok.kind # "begin_multi_select_hash"
  BY DEF Token, Stored, Openers, Opers, Tok, Separated
<1>7. "lhs_expression" \notin Complete
  BY DEF Complete
<1>8. Good(new, push_token(tok, stacks))
  BY <1>3, <1>4, <1>5, <1>6, <1>7, BeginGood
<1> QED BY <1>8 DEF Pushes, GoodAfter

LEMMA OperandGood ==
  ASSUME Ready, Top \in {"lhs_expression", "sub_expression"}, rest # <<>>, Operand, Survives
  PROVE  GoodAfter
<1>1. Top \notin Framing \cup KeyTops /\ Top \notin Gathering
  BY KeyTopsAre DEF EscapeStates, SliceStates, Gathering
<1>2. buffer = "empty"
  BY <1>1, NoTextLeft
<1>3. CASE advance_past_space_character
  BY <1>2, <1>3, AdvanceGood
<1>4. CASE c = "'" /\ Goto(1, Replace(<<"val_expr", "raw_string">>))
  <2>1. May(Replace(<<"val_expr", "raw_string">>))
    BY <1>1, OrdinaryMay, MovesAre
  <2> QED BY <1>4, <2>1, GoesBy, MayGood
<1>5. CASE c = "{" /\ Push(1, Replace(<<"multi_select_hash">>), Tok("begin_multi_select_hash"))
  BY <1>1, <1>5, PushesBy, HashBegins
<1>6. CASE c = "*" /\ Push(1, Under, Expression("projection_op"))
  BY <1>1, <1>6, PushesBy, OperandPushed
<1>7. CASE Collect(1, Replace(<<"identifier_or_function_expr", "unquoted_string">>),
                   push_back(buffer, c))
  <2>1. May(Replace(<<"identifier_or_function_expr", "unquoted_string">>))
    BY <1>1, OrdinaryMay, MovesAre
  <2> QED BY <1>7, <2>1, GoesBy, MayGood
<1> QED BY <1>3, <1>4, <1>5, <1>6, <1>7 DEF Operand

LEMMA RhsGood ==
  ASSUME Ready, rhs_expression, Survives
  PROVE  GoodAfter
<1>1. Top = "rhs_expression" /\ rest # <<>>
  BY DEF rhs_expression, At, CanRead
<1>2. Top \notin Framing \cup KeyTops /\ Top \notin Gathering /\ Top \in Complete
  BY <1>1, KeyTopsAre, MovesAre DEF EscapeStates, SliceStates, Gathering
<1>3. buffer = "empty"
  BY <1>1, <1>2, NoTextLeft
<1>4. \A x \in Moves : May(On(<<x>>))
  BY <1>2, OrdinaryMay
<1>5. \A x, y \in Moves : May(On(<<x, y>>))
  BY <1>2, OrdinaryMay
<1>6. ASSUME NEW n, NEW x \in Moves, Goto(n, On(<<x>>)) PROVE GoodAfter
  BY <1>4, <1>6, GoesBy, MayGood
<1>7. ASSUME NEW n, NEW x \in Moves, NEW y \in Moves, Goto(n, On(<<x, y>>)) PROVE GoodAfter
  BY <1>5, <1>7, GoesBy, MayGood
<1>8. ASSUME FlushGoto(0, Under) PROVE GoodAfter
  BY <1>2, <1>3, <1>8, OrdinaryMay, GoesBy, MayGood
<1> QED BY <1>2, <1>3, <1>6, <1>7, <1>8, MovesAre, AdvanceGood, LeaveGood DEF rhs_expression

LEMMA CompareGood ==
  ASSUME Ready, comparator_expression \/ jf_expression, Survives
  PROVE  GoodAfter
<1>1. Top \in {"comparator_expression", "jf_expression"} /\ rest # <<>>
  BY DEF comparator_expression, jf_expression, At, CanRead
<1>2. Top \notin Framing \cup KeyTops /\ Top \notin Gathering /\ Top \in Complete
  BY <1>1, KeyTopsAre, MovesAre DEF EscapeStates, SliceStates, Gathering
<1>3. buffer = "empty"
  BY <1>1, <1>2, NoTextLeft
<1>4. \A x, y \in Moves : May(Replace(<<x, y>>))
  BY <1>2, OrdinaryMay
<1>5. "lhs_expression" \in Moves /\ (c \in Comparator => CompareState[c] \in Moves)
      /\ (c \in Arithmetic => ArithmeticState[c] \in Moves)
  BY MovesAre DEF CompareState, ArithmeticState, Comparator, Arithmetic, OperatorStates
<1>6. ASSUME c \in Comparator, Goto(1, Replace(<<"lhs_expression", CompareState[c]>>))
      PROVE  GoodAfter
  BY <1>4, <1>5, <1>6, GoesBy, MayGood
<1>7. ASSUME c \in Arithmetic, FlushGoto(1, Replace(<<"lhs_expression", ArithmeticState[c]>>))
      PROVE  GoodAfter
  BY <1>3, <1>4, <1>5, <1>7, GoesBy, MayGood
<1>8. CASE comparator_expression
  BY <1>2, <1>3, <1>6, <1>8, AdvanceGood, LeaveGood DEF comparator_expression
<1>9. CASE jf_expression
  BY <1>2, <1>3, <1>7, <1>9, AdvanceGood, LeaveGood DEF jf_expression
<1> QED BY <1>8, <1>9

LEMMA LhsGood ==
  ASSUME Ready, NoLiterals, lhs_expression, Survives
  PROVE  GoodAfter
<1>1. Top = "lhs_expression" /\ rest # <<>>
      /\ c \notin {"quote", "tick", "-", "."} \cup Digits
  BY DEF lhs_expression, At, CanRead, NoLiterals
<1>2. Top \notin Framing \cup KeyTops /\ Top \notin Complete
  BY <1>1, KeyTopsAre, MovesAre DEF EscapeStates
<1>3. Formed /\ StatesOK(state_stack) /\ state_stack # <<>> /\ ~InKey(state_stack)
  BY <1>2, ReadyIs, OrdinaryKeeps DEF Formed
<1>4. CASE c = "[" /\ Goto(1, Replace(<<"bracket_specifier_or_multi_select_list">>))
  <2>1. May(Replace(<<"bracket_specifier_or_multi_select_list">>))
    BY <1>2, OrdinaryMay, MovesAre
  <2> QED BY <1>4, <2>1, GoesBy, MayGood
<1>5. CASE Push(1, Replace(<<"expect_rparen", "rhs_expression", "lhs_expression">>), Tok("lparen"))
  <2> DEFINE new == Replace(<<"expect_rparen", "rhs_expression", "lhs_expression">>)
  <2>1. /\ {"expect_rparen", "rhs_expression", "lhs_expression"} \subseteq path_state \ {"key_expr"}
        /\ {"rhs_expression", "lhs_expression"} \subseteq Ordinary
    BY OrdinaryStates DEF path_state
  <2>2. Becomes("expect_rparen", new)
    BY <1>3, <2>1, BecomesReplaced
  <2>3. new # <<>> /\ Last(new) = "lhs_expression" /\ ~HasKey(new)
    BY <1>2, <1>3, <2>1, LastPut, NotEmptied, KeyMoves, NoKeyUnder DEF KeyTops
  <2>4. ~InKey(new) /\ Last(new) \notin Complete /\ Last(new) # "multi_select_hash"
    BY <2>3 DEF InKey, Complete
  <2> HIDE DEF new
  <2>5. Good(new, push_token(Tok("lparen"), stacks))
    BY <1>2, <2>2, <2>3, <2>4, ParenthesisGood
  <2> QED BY <1>5, <2>5, PushesBy DEF Pushes, GoodAfter, new
<1>6. CASE Push(1, state_stack, Unary("not_op"))
  <2>1. Keeps(state_stack)
    BY <1>1, <1>2, ReadyIs, AtOrdinary DEF Keeps, Top
  <2>2. state_stack' = state_stack /\ stacks' = push_token(Unary("not_op"), stacks)
    BY <1>6, PushesBy
  <2> QED BY <1>2, <1>3, <2>1, <2>2, UnaryGood DEF Survives, GoodAfter, Top
<1>7. CASE Push(1, Under, Selector)
  BY <1>2, <1>7, PushesBy, OperandPushed
<1>8. CASE Operand
  BY <1>1, <1>8, OperandGood
<1>9. ~Fail("expected_identifier")
  BY ErrorsSet, FailsNot
<1> QED BY <1>1, <1>4, <1>5, <1>6, <1>7, <1>8, <1>9 DEF lhs_expression

LEMMA SubGood ==
  ASSUME Ready, sub_expression, Survives
  PROVE  GoodAfter
<1>1. Top = "sub_expression" /\ rest # <<>>
  BY DEF sub_expression, At, CanRead
<1>2. Top \notin Framing \cup KeyTops
  BY <1>1, KeyTopsAre DEF EscapeStates
<1>3. May(On(<<"quoted_string">>)) /\ May(Replace(<<"expect_multi_select_list">>))
  BY <1>2, OrdinaryMay, MovesAre
<1>4. CASE Goto(1, On(<<"quoted_string">>))
  BY <1>3, <1>4, GoesBy, MayGood
<1>5. CASE Goto(1, Replace(<<"expect_multi_select_list">>))
  BY <1>3, <1>5, GoesBy, MayGood
<1>6. ~Fail("expected_identifier")
  BY ErrorsSet, FailsNot
<1> QED BY <1>1, <1>4, <1>5, <1>6, OperandGood DEF sub_expression

LEMMA RparenPassGood ==
  ASSUME Ready, expect_rparen, Survives
  PROVE  GoodAfter
<1>1. Top = "expect_rparen" /\ rest # <<>>
  BY DEF expect_rparen, At, CanRead
<1>2. Top \notin KeyTops /\ Top \notin Gathering
  BY <1>1, KeyTopsAre DEF EscapeStates, SliceStates, Gathering
<1>3. buffer = "empty"
  BY <1>1, <1>2, NoTextLeft
<1>4. CASE Push(1, Replace(<<"rhs_expression">>), Tok("rparen"))
  <2> DEFINE new == Replace(<<"rhs_expression">>)
  <2>1. Formed /\ StatesOK(state_stack) /\ state_stack # <<>>
        /\ "rhs_expression" \in path_state \ {"key_expr"}
    BY ReadyIs DEF Formed, path_state
  <2>2. Becomes("rhs_expression", new)
    BY <2>1, BecomesReplaced
  <2>3. new # <<>> /\ Last(new) = "rhs_expression" /\ ~HasKey(new)
    BY <1>2, <2>1, LastPut, NotEmptied, KeyMoves, NoKeyUnder DEF KeyTops
  <2>4. ~InKey(new)
    BY <2>3 DEF InKey
  <2> HIDE DEF new
  <2>5. state_stack' = new /\ stacks' = push_token(Tok("rparen"), stacks)
    BY <1>4, PushesBy DEF new
  <2> QED BY <1>1, <2>2, <2>3, <2>4, <2>5, RparenGood DEF Survives, GoodAfter
<1>5. ~Fail("expected_rparen")
  BY ErrorsSet, FailsNot
<1> QED BY <1>3, <1>4, <1>5, AdvanceGood DEF expect_rparen

LEMMA ReadExpressionGood ==
  ASSUME Ready, NoLiterals, ReadExpression, Survives
  PROVE  GoodAfter
<1>1. CASE start
  <2>1. Top = "start"
    BY <1>1 DEF start, At
  <2>2. Top \notin Framing \cup KeyTops
    BY <2>1, KeyTopsAre DEF EscapeStates
  <2>3. May(Replace(<<"rhs_expression", "lhs_expression">>))
    BY <2>2, OrdinaryMay, MovesAre
  <2> QED BY <1>1, <2>3, GoesBy, MayGood DEF start
<1>2. CASE key_expr
  <2>1. Top = "key_expr" /\ TakeText(0, Tok("key"))
    BY <1>2 DEF key_expr, At
  <2>2. state_stack' = Under /\ stacks' = push_token(Tok("key"), stacks)
    BY <2>1, PushesBy
  <2> QED BY <2>1, <2>2, KeyGood DEF Survives, GoodAfter
<1>3. CASE val_expr
  <2>1. Top = "val_expr" /\ TakeText(0, Selector)
    BY <1>3 DEF val_expr, At
  <2>2. Top \notin Framing \cup KeyTops
    BY <2>1, KeyTopsAre DEF EscapeStates
  <2> QED BY <2>1, <2>2, PushesBy, OperandPushed
<1> QED BY <1>1, <1>2, <1>3, RhsGood, CompareGood, LhsGood, SubGood, RparenPassGood
        DEF ReadExpression

LEMMA ReadFunctionGood ==
  ASSUME Ready, NoCalls, ReadFunction, Survives
  PROVE  GoodAfter
<1>1. Top = "identifier_or_function_expr" /\ TakeText(0, Selector)
  BY ReadyIs, FunctionPasses
<1>2. Top \notin Framing \cup KeyTops
  BY <1>1, KeyTopsAre DEF EscapeStates
<1> QED BY <1>1, <1>2, PushesBy, OperandPushed

(* Text is read above a state that waits for it. *)
LEMMA TextMay ==
  ASSUME Ready, Top \in {"raw_string", "unquoted_string", "quoted_string"} \cup EscapeStates
                  \cup NumberTops
  PROVE  /\ Under # <<>> => May(Under)
         /\ Under # <<>>
         /\ Top \in NumberTops => Last(Under) \in SliceStates
         /\ Top = "quoted_string" => Last(Under) = "sub_expression"
         /\ Top = "raw_string" => Last(Under) # "sub_expression"
<1>1. Formed
  BY ReadyIs
<1>2. Under # <<>> /\ Lies(Last(Under), Top)
  <2>1. Top \notin Roots
    BY DEF Roots, EscapeStates, NumberTops
  <2> QED BY <1>1, <2>1, TopIs
<1>3. Last(Under) \notin Complete
  <2>1. CASE Top \in EscapeStates
    BY <1>2, <2>1, LiesApart DEF Complete
  <2>2. CASE Top \in NumberTops
    BY <1>2, <2>2, LiesApart, MovesAre
  <2>3. CASE Top \in {"raw_string", "unquoted_string", "quoted_string"}
    BY <1>2, <2>3, LiesApart DEF Complete
  <2> QED BY <2>1, <2>2, <2>3
<1>4. Keeps(Under)
  <2>1. CASE Top \in KeyTextStates
    BY <1>2, <2>1, TextKeeps
  <2>2. CASE Top \in {"quoted_string"} \cup NumberTops
    <3>1. Top \notin Framing \cup KeyTops
      BY <2>2, KeyTopsAre DEF EscapeStates, NumberTops
    <3> QED BY <1>2, <3>1, OrdinaryKeeps
  <2> QED BY <2>1, <2>2 DEF KeyTextStates
<1>5. /\ Top \in NumberTops => Last(Under) \in SliceStates
      /\ Top = "quoted_string" => Last(Under) = "sub_expression"
      /\ Top = "raw_string" => Last(Under) # "sub_expression"
  BY <1>2, LiesApart
<1> QED BY <1>2, <1>3, <1>4, <1>5 DEF May

LEMMA StringGood ==
  ASSUME Ready, quoted_string \/ raw_string \/ unquoted_string, Survives
  PROVE  GoodAfter
<1>1. May(Under) /\ Under # <<>>
  BY TextMay DEF quoted_string, raw_string, unquoted_string, At
<1>2. ASSUME NEW n, NEW text, Goto(n, state_stack) \/ Collect(n, state_stack, text) PROVE GoodAfter
  BY <1>2, GoesBy, SameGood DEF GoesTo
<1>3. ASSUME NEW n, NEW text, Goto(n, Under) \/ Collect(n, Under, text)
                              \/ PassSpace(Under, stacks, text)
      PROVE  GoodAfter
  BY <1>1, <1>3, GoesBy, MayGood
<1>4. CASE unquoted_string
  BY <1>2, <1>3, <1>4 DEF unquoted_string
<1>5. CASE raw_string
  <2>1. Top = "raw_string" /\ Grandparent # "sub_expression"
    BY <1>5, TextMay DEF raw_string, At, Grandparent
  <2>2. May(On(<<"raw_string_escape_char">>))
    <3>1. "raw_string_escape_char" \in KeyTextStates /\ "raw_string_escape_char" \in path_state
          /\ "raw_string_escape_char" \notin Complete
      BY DEF KeyTextStates, EscapeStates, path_state, Complete
    <3>2. Top \in KeyTextStates
      BY <2>1 DEF KeyTextStates
    <3> QED BY <3>1, <3>2, TextKeeps, ReadyIs, LastPut DEF May
  <2> QED BY <1>2, <1>3, <1>5, <2>1, <2>2, GoesBy, MayGood DEF raw_string
<1>6. CASE quoted_string
  <2>1. Top = "quoted_string" /\ Grandparent = "sub_expression"
    BY <1>6, TextMay DEF quoted_string, At, Grandparent
  <2>2. Top \notin Framing \cup KeyTops
    BY <2>1, KeyTopsAre DEF EscapeStates
  <2>3. May(On(<<"quoted_string_escape_char">>))
    <3>1. "quoted_string_escape_char" \in EscapeStates
      BY DEF EscapeStates
    <3> QED BY <2>2, <3>1, OrdinaryMay, MovesAre
  <2>4. May(Front(Under) \o <<"val_expr">>)
    <3> DEFINE p == Front(Under)
               new == p \o <<"val_expr">>
    <3>1. Formed /\ Before /\ Under \in Seq(path_state)
      BY ReadyIs, Reshaped
    <3>2. Quiet(new)
      BY <1>1, <2>1, <2>2, <3>1, AtSubString
    <3>3. ~HasKey(Under) /\ ~InKey(state_stack)
      BY <2>2, <3>1, NoKeyUnder DEF KeyTops
    <3>4. ~HasKey(p) /\ p \in Seq(path_state)
      BY <1>1, <3>1, <3>3, KeyFront, FrontStates
    <3>5. "val_expr" \in path_state
      BY MovesAre
    <3> HIDE DEF p
    <3>6. ~HasKey(new) /\ Last(new) = "val_expr" /\ new # <<>>
      BY <3>4, <3>5, KeyPut, PutOn
    <3> HIDE DEF new
    <3>7. May(new)
      BY <3>2, <3>3, <3>6 DEF May, Keeps, InKey, Complete
    <3> QED BY <3>7 DEF new, p
  <2> QED BY <1>2, <1>6, <2>1, <2>3, <2>4, GoesBy, MayGood DEF quoted_string
<1> QED BY <1>4, <1>5, <1>6

LEMMA EscapeGood ==
  ASSUME Ready,
         \/ raw_string_escape_char \/ quoted_string_escape_char \/ escape_digit \/ escape_u4
         \/ escape_u8 \/ escape_expect_surrogate_pair1 \/ escape_expect_surrogate_pair2,
         Survives
  PROVE  GoodAfter
<1>1. Top \in EscapeStates
  BY DEF raw_string_escape_char, quoted_string_escape_char, escape_digit, escape_u4, escape_u8,
     escape_expect_surrogate_pair1, escape_expect_surrogate_pair2, At, EscapeStates, AfterHexDigit
<1>2. May(Under)
  BY <1>1, TextMay
<1>3. ASSUME NEW x \in EscapeStates PROVE May(Replace(<<x>>))
  <2>1. x \in KeyTextStates /\ x \in path_state /\ x \notin Complete /\ Top \in KeyTextStates
    BY <1>1, MovesAre DEF KeyTextStates
  <2> QED BY <2>1, TextKeeps, ReadyIs, LastPut DEF May
<1>4. ASSUME NEW n, NEW text, Goto(n, Under) \/ Collect(n, Under, text) PROVE GoodAfter
  BY <1>2, <1>4, GoesBy, MayGood
<1>5. ASSUME NEW n, NEW x \in EscapeStates, Goto(n, Replace(<<x>>)) PROVE GoodAfter
  BY <1>3, <1>5, GoesBy, MayGood
<1>6. ~Fail("illegal_escaped_character") /\ ~Fail("invalid_codepoint")
  BY ErrorsSet, FailsNot
<1>7. /\ {"escape_u1", "escape_u5", "escape_expect_surrogate_pair1",
          "escape_expect_surrogate_pair2"} \subseteq EscapeStates
      /\ Top \in DOMAIN AfterHexDigit => AfterHexDigit[Top] \in EscapeStates
  BY DEF EscapeStates, AfterHexDigit
<1>8. CASE raw_string_escape_char \/ quoted_string_escape_char
  BY <1>4, <1>5, <1>6, <1>7, <1>8 DEF raw_string_escape_char, quoted_string_escape_char
<1>9. CASE escape_digit
  BY <1>5, <1>6, <1>7, <1>9 DEF escape_digit
<1>10. CASE escape_u4 \/ escape_u8
  BY <1>4, <1>5, <1>6, <1>7, <1>10 DEF escape_u4, escape_u8, CollectCodepoint
<1>11. CASE escape_expect_surrogate_pair1 \/ escape_expect_surrogate_pair2
  BY <1>5, <1>6, <1>7, <1>11 DEF escape_expect_surrogate_pair1, escape_expect_surrogate_pair2
<1> QED BY <1>8, <1>9, <1>10, <1>11

LEMMA NumberGood ==
  ASSUME Ready, number \/ digit, Survives
  PROVE  GoodAfter
<1>1. Top \in NumberTops
  BY DEF number, digit, At, NumberTops
<1>2. May(Under) /\ Top \notin Framing \cup KeyTops
  BY <1>1, TextMay, KeyTopsAre DEF NumberTops, EscapeStates
<1>3. May(Replace(<<"digit">>))
  BY <1>2, OrdinaryMay, MovesAre
<1>4. ASSUME NEW n, NEW text, Goto(n, state_stack) \/ Collect(n, state_stack, text) PROVE GoodAfter
  BY <1>4, GoesBy, SameGood DEF GoesTo
<1>5. ASSUME NEW n, NEW text, NEW new, new = Under \/ new = Replace(<<"digit">>),
             Goto(n, new) \/ Collect(n, new, text)
      PROVE  GoodAfter
  BY <1>2, <1>3, <1>5, GoesBy, MayGood
<1> QED BY <1>4, <1>5 DEF number, digit

LEMMA ReadTextGood ==
  ASSUME Ready, ReadText, Survives
  PROVE  GoodAfter
<1>1. ~literal
  BY ReadyIs, TopIs DEF literal, At
<1> QED BY <1>1, StringGood, EscapeGood, NumberGood DEF ReadText

LEMMA ReadOperatorGood ==
  ASSUME Ready, ReadOperator, Survives
  PROVE  GoodAfter
<1>1. Top \in OperatorStates \cup {"cmp_lt_or_lte", "cmp_gt_or_gte", "cmp_eq", "cmp_ne",
                                   "expect_pipe_or_or", "expect_and"} /\ rest # <<>>
  BY DEF ReadOperator, arithmetic_operator, cmp_lt_or_lte, cmp_gt_or_gte, cmp_eq, cmp_ne,
     expect_pipe_or_or, expect_and, At, CanRead
<1>2. Top \notin Framing \cup KeyTops /\ Top \notin Gathering
  BY <1>1, KeyTopsAre DEF EscapeStates, SliceStates, OperatorStates, Gathering
<1>3. buffer = "empty" /\ ~InKey(state_stack) /\ (Under # <<>> => Keeps(Under))
  BY <1>1, <1>2, NoTextLeft, OrdinaryKeeps
<1>4. ASSUME NEW n, NEW oper \in BinaryOpers, PushBinary(n, oper) \/ FlushBinary(n, oper)
      PROVE  GoodAfter
  <2>1. state_stack' = Under /\ stacks' = WithBinary(oper, stacks)
    BY <1>3, <1>4, EmptyChecked DEF PushBinary, FlushBinary, PushedFrom
  <2> QED BY <1>3, <2>1, BinaryGood DEF Survives, GoodAfter
<1>5. ASSUME NEW n, Push(n, Under, Tok("pipe")) PROVE GoodAfter
  <2>1. state_stack' = Under /\ stacks' = push_token(Tok("pipe"), stacks)
    BY <1>5, PushesBy
  <2> QED BY <1>3, <2>1, PipeGood DEF Survives, GoodAfter
<1>6. ~Fail("expected_comparator")
  BY ErrorsSet, FailsNot
<1>7. /\ {"lte_op", "ne_op", "lt_op", "gte_op", "gt_op", "eq_op", "or_op", "and_op",
          "concat_op"} \subseteq BinaryOpers
      /\ Top \in OperatorStates => OperOfState[Top] \in BinaryOpers
  BY DEF BinaryOpers, OperatorStates, OperOfState
<1>8. CASE arithmetic_operator
  BY <1>4, <1>7, <1>8 DEF arithmetic_operator
<1>9. CASE cmp_lt_or_lte \/ cmp_gt_or_gte
  BY <1>4, <1>7, <1>9 DEF cmp_lt_or_lte, cmp_gt_or_gte
<1>10. CASE cmp_eq \/ cmp_ne
  BY <1>4, <1>6, <1>7, <1>10 DEF cmp_eq, cmp_ne
<1>11. CASE expect_pipe_or_or \/ expect_and
  BY <1>4, <1>5, <1>7, <1>11 DEF expect_pipe_or_or, expect_and
<1> QED BY <1>8, <1>9, <1>10, <1>11 DEF ReadOperator

LEMMA ListsBegin ==
  ASSUME Ready, Top \notin Framing \cup KeyTops, BeginMultiSelectList("lhs_expression")
  PROVE  GoodAfter
BY PushesBy, GroupBegins DEF BeginMultiSelectList

LEMMA BracketGood ==
  ASSUME Ready, NoLiterals,
         \/ bracket_specifier \/ bracket_specifier_or_multi_select_list
         \/ expect_multi_select_list \/ expect_rbracket,
         Survives
  PROVE  GoodAfter
<1>1. Top \in {"bracket_specifier", "bracket_specifier_or_multi_select_list",
               "expect_multi_select_list", "expect_rbracket"} /\ rest # <<>>
  BY DEF bracket_specifier, bracket_specifier_or_multi_select_list, expect_multi_select_list,
     expect_rbracket, At, CanRead
<1>2. Top \notin Framing \cup KeyTops
  BY <1>1, KeyTopsAre DEF EscapeStates
<1>3. /\ ~Fail("expected_index_expression") /\ ~Fail("unexpected_end_of_input")
      /\ ~Fail("expected_multi_select_list") /\ ~Fail("expected_rbracket")
  BY ErrorsSet, FailsNot
<1>4. ASSUME NEW n, Push(n, Replace(<<"expect_rbracket">>), Expression("projection_op"))
      PROVE  GoodAfter
  BY <1>2, <1>4, PushesBy, OperandPushed
<1>5. ASSUME NEW n, Push(n, Under, Expression("flatten_projection_op")) PROVE GoodAfter
  BY <1>2, <1>5, PushesBy, OperandPushed
<1>6. CASE bracket_specifier
  <2>1. CASE Push(1, Replace(<<"filter", "rhs_expression", "lhs_expression">>), Tok("begin_filter"))
    BY <1>2, <2>1, PushesBy, GroupBegins
  <2>2. /\ May(Replace(<<"rhs_slice_expression_stop", "number">>))
        /\ May(Replace(<<"index_or_slice_expression", "number">>))
    BY <1>2, OrdinaryMay, MovesAre DEF SliceStates
  <2>3. CASE Goto(1, Replace(<<"rhs_slice_expression_stop", "number">>))
    BY <2>2, <2>3, GoesBy, MayGood
  <2>4. CASE Goto(0, Replace(<<"index_or_slice_expression", "number">>))
    BY <2>2, <2>4, GoesBy, MayGood
  <2> QED BY <1>3, <1>4, <1>5, <1>6, <2>1, <2>3, <2>4 DEF bracket_specifier
<1>7. CASE bracket_specifier_or_multi_select_list
  <2>1. May(Replace(<<"bracket_specifier">>))
    BY <1>2, OrdinaryMay, MovesAre
  <2>2. CASE Goto(0, Replace(<<"bracket_specifier">>))
    BY <2>1, <2>2, GoesBy, MayGood
  <2> QED BY <1>2, <1>3, <1>7, <2>2, ListsBegin DEF bracket_specifier_or_multi_select_list
<1>8. CASE expect_multi_select_list
  <2>1. c \notin NumberStart
    BY <1>8 DEF NoLiterals, expect_multi_select_list, At, CanRead
  <2> QED BY <1>2, <1>3, <1>4, <1>8, <2>1, ListsBegin DEF expect_multi_select_list
<1>9. CASE expect_rbracket
  <2>1. Top \in Complete
    BY <1>9, MovesAre DEF expect_rbracket, At
  <2>2. Under # <<>> => May(Under)
    BY <1>2, <2>1, OrdinaryMay
  <2>3. CASE Goto(1, Under)
    BY <2>2, <2>3, GoesBy, MayGood
  <2> QED BY <1>3, <1>9, <2>3 DEF expect_rbracket
<1> QED BY <1>6, <1>7, <1>8, <1>9

(* The token that ends the group on top. *)
LEMMA GroupEnds ==
  ASSUME Ready, NEW kind, Ends(kind, Top), kind # "end_function",
         Pushes(Under, Tok(kind)), Survives
  PROVE  GoodAfter
<1>1. Tok(kind).kind = kind
  BY DEF Tok
<1> QED BY <1>1, EndGood DEF Pushes, Survives, GoodAfter

LEMMA ListGood ==
  ASSUME Ready, multi_select_list \/ filter, Survives
  PROVE  GoodAfter
<1>1. Top \in {"multi_select_list", "filter"} /\ rest # <<>>
  BY DEF multi_select_list, filter, At, CanRead
<1>2. Top \notin KeyTops /\ Top \notin Gathering
  BY <1>1, KeyTopsAre DEF EscapeStates, SliceStates, Gathering
<1>3. buffer = "empty"
  BY <1>1, <1>2, NoTextLeft
<1>4. ~Fail("expected_rbracket")
  BY ErrorsSet, FailsNot
<1>5. CASE filter
  <2>1. CASE Push(1, Under, Tok("end_filter"))
    <3>1. Ends("end_filter", Top)
      BY <1>5 DEF filter, At, Ends
    <3> QED BY <2>1, <3>1, PushesBy, GroupEnds
  <2> QED BY <1>3, <1>4, <1>5, <2>1, AdvanceGood DEF filter
<1>6. CASE multi_select_list
  <2>1. Top = "multi_select_list"
    BY <1>6 DEF multi_select_list, At
  <2>2. CASE FlushPush(1, Under, Tok("end_multi_select_list"))
    <3>1. Ends("end_multi_select_list", Top)
      BY <2>1 DEF Ends
    <3> QED BY <1>3, <2>2, <3>1, PushesBy, GroupEnds
  <2>3. /\ May(On(<<"lhs_expression">>)) /\ May(On(<<"sub_expression">>))
        /\ May(On(<<"lhs_expression", "expect_pipe_or_or">>))
    BY <1>2, FrameMay, MovesAre
  <2>4. CASE FlushPush(1, On(<<"lhs_expression">>), Tok("separator"))
    <3> DEFINE new == On(<<"lhs_expression">>)
    <3>1. Keeps(new) /\ ~InKey(state_stack)
      BY <1>2, <2>3, FrameKeeps DEF May
    <3>2. Last(new) \notin Complete
      BY ReadyIs, LastPut, MovesAre
    <3>3. state_stack' = new /\ stacks' = push_token(Tok("separator"), stacks)
      BY <1>3, <2>4, PushesBy
    <3> HIDE DEF new
    <3> QED BY <2>1, <3>1, <3>2, <3>3, SeparatorGood DEF Keeps, Survives, GoodAfter
  <2>5. CASE Goto(0, On(<<"lhs_expression">>)) \/ Goto(1, On(<<"sub_expression">>))
             \/ Goto(1, On(<<"lhs_expression", "expect_pipe_or_or">>))
    BY <2>3, <2>5, GoesBy, MayGood
  <2> QED BY <1>3, <1>4, <1>6, <2>2, <2>4, <2>5, AdvanceGood DEF multi_select_list
<1> QED BY <1>5, <1>6

LEMMA SliceGood ==
  ASSUME Ready, NoLiterals,
         index_or_slice_expression \/ rhs_slice_expression_stop \/ rhs_slice_expression_step,
         Survives
  PROVE  GoodAfter
<1>1. Top \in SliceStates /\ rest # <<>>
  BY DEF index_or_slice_expression, rhs_slice_expression_stop, rhs_slice_expression_step, At,
     CanRead, SliceStates
<1>2. Top \notin Framing \cup KeyTops
  BY <1>1, KeyTopsAre DEF EscapeStates, SliceStates
<1>3. /\ ~Fail("invalid_number") /\ ~Fail("step_cannot_be_zero") /\ ~Fail("expected_rbracket")
  BY ErrorsSet, FailsNot
<1>4. /\ May(Replace(<<"rhs_slice_expression_stop", "number">>))
      /\ May(Replace(<<"rhs_slice_expression_step", "number">>))
  BY <1>2, OrdinaryMay, MovesAre DEF SliceStates
<1>5. ASSUME NEW new, new = Replace(<<"rhs_slice_expression_stop", "number">>)
                      \/ new = Replace(<<"rhs_slice_expression_step", "number">>),
             state_stack' = new, stacks' = stacks
      PROVE  GoodAfter
  BY <1>4, <1>5, MayGood DEF GoesTo
<1>6. EndSlice => GoodAfter
  BY <1>2, PushesBy, OperandPushed DEF EndSlice
<1>7. CASE index_or_slice_expression
  <2>1. c # ","
    BY <1>7 DEF NoLiterals, index_or_slice_expression, At, CanRead
  <2>2. CASE Push(1, Under, Expression("flatten_projection_op")) \/ TakeText(1, Selector)
    BY <1>2, <2>2, PushesBy, OperandPushed
  <2> QED BY <1>3, <1>5, <1>7, <2>1, <2>2 DEF index_or_slice_expression
<1>8. CASE rhs_slice_expression_stop
  BY <1>3, <1>5, <1>6, <1>8 DEF rhs_slice_expression_stop
<1>9. CASE rhs_slice_expression_step
  BY <1>3, <1>6, <1>9 DEF rhs_slice_expression_step
<1> QED BY <1>7, <1>8, <1>9

LEMMA ReadBracketGood ==
  ASSUME Ready, NoLiterals, ReadBracket, Survives
  PROVE  GoodAfter
BY BracketGood, ListGood, SliceGood DEF ReadBracket

(* The states of a hash. *)
LEMMA HashGood ==
  ASSUME Ready, NoLiterals, multi_select_hash \/ key_val_expr \/ expect_colon, Survives
  PROVE  GoodAfter
<1>1. Top \in {"multi_select_hash", "key_val_expr", "expect_colon"} /\ Top \in HashStates
      /\ rest # <<>>
  BY DEF multi_select_hash, key_val_expr, expect_colon, At, CanRead, HashStates
<1>2. Formed /\ Before /\ StatesOK(state_stack) /\ state_stack # <<>> /\ Top \notin Gathering
  BY <1>1, ReadyIs DEF Formed, EscapeStates, SliceStates, Gathering
<1>3. buffer = "empty"
  BY <1>1, <1>2, NoTextLeft
<1>4. ~Fail("expected_key") /\ ~Fail("expected_colon")
  BY ErrorsSet, FailsNot
<1>5. /\ {"key_val_expr", "expect_colon", "expect_rbrace"} \subseteq HashStates
      /\ {"key_val_expr", "expect_colon", "expect_rbrace", "key_expr", "raw_string",
          "unquoted_string", "lhs_expression"} \subseteq path_state
      /\ {"key_expr", "raw_string", "unquoted_string", "lhs_expression"} \subseteq Ordinary
  BY OrdinaryStates DEF HashStates, path_state
<1>6. ASSUME NEW new, Quiet(new), new # <<>>, InKey(new) <=> InKey(state_stack),
             Last(new) \in {"key_val_expr", "raw_string", "unquoted_string", "lhs_expression"}
      PROVE  May(new)
  BY <1>6 DEF May, Keeps, Complete
<1>7. CASE multi_select_hash
  <2>1. Top = "multi_select_hash"
    BY <1>7 DEF multi_select_hash, At
  <2>2. CASE UNCHANGED vars
    BY <2>2, SameGood DEF vars
  <2>3. CASE Push(1, Under, Tok("end_multi_select_hash"))
    <3>1. Ends("end_multi_select_hash", Top)
      BY <2>1 DEF Ends
    <3> QED BY <2>3, <3>1, PushesBy, GroupEnds
  <2>4. CASE Goto(0, Replace(<<"key_val_expr">>))
    <3> DEFINE new == Replace(<<"key_val_expr">>)
    <3>1. Quiet(new) /\ new # <<>> /\ Last(new) = "key_val_expr"
      BY <1>1, <1>2, <1>5, BecomesReplaced, HashQuiet, NotEmptied, LastPut
    <3>2. InKey(new) /\ InKey(state_stack)
      BY <2>1, <3>1 DEF InKey, Top
    <3> HIDE DEF new
    <3>3. May(new)
      BY <1>6, <3>1, <3>2
    <3> QED BY <2>4, <3>3, GoesBy, MayGood DEF new
  <2> QED BY <1>7, <2>2, <2>3, <2>4 DEF multi_select_hash
<1>8. CASE key_val_expr
  <2>1. Top = "key_val_expr" /\ c # "quote"
    BY <1>8 DEF key_val_expr, At, CanRead, NoLiterals
  <2>2. ASSUME NEW x \in {"raw_string", "unquoted_string"}
        PROVE  May(Replace(<<"expect_colon", "key_expr", x>>))
    <3> DEFINE a == Under \o <<"expect_colon">>
               b == a \o <<"key_expr">>
               new == Replace(<<"expect_colon", "key_expr", x>>)
    <3>1. Quiet(new) /\ new # <<>> /\ Last(new) = x
      BY <1>1, <1>2, <1>5, BecomesReplaced, HashQuiet, NotEmptied, LastPut
    <3>2. new = b \o <<x>> /\ Under \in Seq(path_state)
      <4>1. Under \in Seq(path_state)
        BY <1>2, Reshaped
      <4>2. x \in path_state /\ "expect_colon" \in path_state /\ "key_expr" \in path_state
        BY <1>5 DEF path_state
      <4>3. Under \o <<"expect_colon", "key_expr", x>>
              = ((Under \o <<"expect_colon">>) \o <<"key_expr">>) \o <<x>>
        BY <4>1, <4>2, PutTwice
      <4> QED BY <4>1, <4>3 DEF Replace
    <3> HIDE DEF new
    <3>3. a \in Seq(path_state)
      BY <1>5, <3>2, PutOn
    <3> HIDE DEF a
    <3>4. b \in Seq(path_state) /\ HasKey(b)
      BY <1>5, <3>3, PutOn, KeyPut
    <3> HIDE DEF b
    <3>5. HasKey(new)
      BY <1>5, <3>2, <3>4, KeyPut
    <3>6. InKey(new) /\ InKey(state_stack)
      BY <2>1, <3>5 DEF InKey, Top
    <3>7. May(new)
      BY <1>6, <3>1, <3>6
    <3> QED BY <3>7 DEF new
  <2>3. ASSUME NEW x \in {"raw_string", "unquoted_string"}, NEW n, NEW text,
               \/ Goto(n, Replace(<<"expect_colon", "key_expr", x>>))
               \/ Collect(n, Replace(<<"expect_colon", "key_expr", x>>), text)
        PROVE  GoodAfter
    BY <2>2, <2>3, GoesBy, MayGood
  <2> QED BY <1>3, <1>4, <1>8, <2>1, <2>3, AdvanceGood DEF key_val_expr
<1>9. CASE expect_colon
  <2>1. Top = "expect_colon" /\ Top \notin KeyTops
    BY <1>9, KeyTopsAre DEF expect_colon, At, EscapeStates
  <2> DEFINE new == Replace(<<"expect_rbrace", "lhs_expression">>)
  <2>2. Quiet(new) /\ new # <<>> /\ Last(new) = "lhs_expression"
    BY <1>1, <1>2, <1>5, BecomesReplaced, HashQuiet, NotEmptied, LastPut
  <2>3. ~HasKey(new) /\ ~InKey(state_stack)
    BY <1>2, <1>5, <2>1, KeyMoves, NoKeyUnder DEF KeyTops
  <2> HIDE DEF new
  <2>4. May(new)
    BY <1>6, <2>2, <2>3 DEF InKey
  <2>5. CASE Goto(1, new)
    BY <2>4, <2>5, GoesBy, MayGood
  <2> QED BY <1>3, <1>4, <1>9, <2>5, AdvanceGood DEF expect_colon, new
<1> QED BY <1>7, <1>8, <1>9

LEMMA RbraceGood ==
  ASSUME Ready, expect_rbrace, Survives
  PROVE  GoodAfter
<1>1. Top = "expect_rbrace" /\ rest # <<>> /\ Top \in HashStates
  BY DEF expect_rbrace, At, CanRead, HashStates
<1>2. /\ Formed /\ Before /\ StatesOK(state_stack) /\ state_stack # <<>>
      /\ Top \notin Gathering /\ Top \notin KeyTops /\ Top \in Complete
  BY <1>1, ReadyIs, KeyTopsAre, MovesAre DEF Formed, EscapeStates, SliceStates, Gathering
<1>3. buffer = "empty"
  BY <1>1, <1>2, NoTextLeft
<1>4. ~Fail("expected_rbrace")
  <2>1. "expected_rbrace" # NoError
    BY DEF NoError
  <2> QED BY <2>1, FailsNot
<1>5. CASE FlushPush(1, Replace(<<"key_val_expr">>), Tok("separator"))
  <2> DEFINE new == Replace(<<"key_val_expr">>)
  <2>1. "key_val_expr" \in HashStates /\ "key_val_expr" \in path_state
        /\ "key_val_expr" \notin Complete
    BY DEF HashStates, path_state, Complete
  <2>2. Quiet(new) /\ new # <<>> /\ Last(new) = "key_val_expr"
    BY <1>1, <1>2, <2>1, BecomesReplaced, HashQuiet, NotEmptied, LastPut
  <2>3. state_stack' = new /\ stacks' = push_token(Tok("separator"), stacks)
    BY <1>3, <1>5, PushesBy
  <2> HIDE DEF new
  <2>4. InKey(new)
    BY <2>2 DEF InKey
  <2> QED BY <1>1, <2>1, <2>2, <2>3, <2>4, SeparatorGood DEF Survives, GoodAfter
<1>6. CASE FlushPush(1, Under, Tok("end_multi_select_hash"))
  <2>1. Ends("end_multi_select_hash", Top)
    BY <1>1 DEF Ends
  <2> QED BY <1>3, <1>6, <2>1, PushesBy, GroupEnds
<1>7. \A x \in {"lhs_expression", "sub_expression", "jf_expression"} : May(On(<<x>>))
  BY <1>2, FrameMay, MovesAre
<1>8. ASSUME NEW x \in {"lhs_expression", "sub_expression", "jf_expression"}, NEW n,
             FlushGoto(n, On(<<x>>))
      PROVE  GoodAfter
  BY <1>3, <1>7, <1>8, GoesBy, MayGood
<1> QED BY <1>3, <1>4, <1>5, <1>6, <1>8, AdvanceGood DEF expect_rbrace

LEMMA ReadHashGood ==
  ASSUME Ready, NoLiterals, ReadHash, Survives
  PROVE  GoodAfter
BY HashGood, RbraceGood DEF ReadHash

(* The end of the expression. *)
LEMMA EndOfInputGood ==
  ASSUME Ready, EndOfInput, Survives, Last(state_stack') \notin SliceStates
  PROVE  GoodAfter
<1>1. /\ ~Fail("invalid_literal") /\ ~Fail("unbalanced_quotes") /\ ~Fail("syntax_error")
      /\ ~Fail("unexpected_end_of_input")
  BY ErrorsSet, FailsNot
<1>2. state_stack # <<>> /\ state_stack' # <<>> /\ Formed
  BY ReadyIs DEF Survives
<1>3. CASE end_in_rhs_or_unquoted
  <2>1. Top \in {"rhs_expression", "unquoted_string"} /\ Goto(0, Under)
    BY <1>3 DEF end_in_rhs_or_unquoted, EndsIn
  <2>2. GoesTo(Under)
    BY <2>1, GoesBy
  <2>3. Under # <<>>
    BY <1>2, <2>2 DEF GoesTo
  <2>4. CASE Top = "rhs_expression"
    <3>1. Top \notin Framing \cup KeyTops /\ Top \in Complete
      BY <2>4, KeyTopsAre DEF EscapeStates, Complete
    <3> QED BY <2>2, <2>3, <3>1, OrdinaryMay, MayGood
  <2>5. CASE Top = "unquoted_string"
    BY <2>2, <2>3, <2>5, TextMay, MayGood
  <2> QED BY <2>1, <2>4, <2>5
<1>4. CASE end_in_number
  <2>1. Top \in NumberTops
    BY <1>4 DEF end_in_number, EndsIn, NumberTops
  <2>2. Last(Under) \in SliceStates
    BY <2>1, TextMay
  <2>3. state_stack' = Under
    BY <1>1, <1>4 DEF end_in_number, TakeText, PushedFrom
  <2> QED BY <2>2, <2>3
<1>5. CASE end_in_identifier
  <2>1. Top \in {"val_expr", "identifier_or_function_expr"} /\ Push(0, Under, Selector)
    BY <1>5 DEF end_in_identifier, EndsIn
  <2>2. Top \notin Framing \cup KeyTops
    BY <2>1, KeyTopsAre DEF EscapeStates
  <2> QED BY <2>1, <2>2, PushesBy, OperandPushed
<1>6. CASE end_in_string \/ end_elsewhere \/ empty_state_stack
  BY <1>1, <1>2, <1>6 DEF end_in_string, end_elsewhere, empty_state_stack
<1>7. CASE end_of_expression
  BY <1>1, <1>2, <1>7 DEF end_of_expression
<1> QED BY <1>3, <1>4, <1>5, <1>6, <1>7 DEF EndOfInput

LEMMA EndLists ==
  ASSUME NEW s, s = Record(s.output, s.operators, s.ec, s.lists)
  PROVE  EndOfExpression(s).lists = s.lists
<1> DEFINE q == s.output \o Reverse(s.operators)
           r == [s EXCEPT !.output = q]
<1>1. EndOfExpression(s) = [r EXCEPT !.operators = <<>>]
  BY DEF EndOfExpression
<1> HIDE DEF q
<1>2. r = Record(q, s.operators, s.ec, s.lists)
  BY DEF Record
<1> HIDE DEF r
<1>3. [r EXCEPT !.operators = <<>>] = Record(q, <<>>, s.ec, s.lists)
  BY <1>2 DEF Record
<1>4. EndOfExpression(s).lists = Record(q, <<>>, s.ec, s.lists).lists
  BY <1>1, <1>3
<1> QED BY <1>4 DEF Record

(* The last pass: the whole program, and the token lists inside of it. *)
LEMMA LastProgram ==
  ASSUME Ready, Len(state_stack) = 1, Top = "rhs_expression"
  PROVE  \A l \in EndOfExpression(stacks).lists \cup {EndOfExpression(stacks).output} :
           WellFormed(l)
<1>1. /\ state_stack \in Seq(path_state) /\ StacksOK(stacks) /\ Program(state_stack, stacks)
      /\ \A l \in stacks.lists : WellFormed(l)
      /\ Aligned(state_stack, stacks.output) /\ Formed
  BY ReadyIs
<1>2. state_stack = <<"rhs_expression">>
  BY <1>1 DEF Top, Last
<1>3. /\ Groups(state_stack) = {} /\ Parentheses(state_stack) = {}
  BY <1>2, Openings DEF Groups, Parentheses
<1>4. PICK lparen \in [Frames(state_stack) -> Lparens(stacks.operators)],
           opener \in [Groups(state_stack) -> Opened(stacks.output)] :
             \E v, w : ProgramBy(state_stack, stacks, lparen, opener, v, w)
  BY <1>1 DEF Program
<1>5. PICK v, w : ProgramBy(state_stack, stacks, lparen, opener, v, w)
  BY <1>4
<1>6. Lparens(stacks.operators) = {} /\ Opened(stacks.output) = {}
  BY <1>3, <1>5 DEF ProgramBy, Pairs, Frames
<1>7. ~KeyNext(stacks.output)
  <2>1. Top \notin KeyTops
    BY KeyTopsAre DEF EscapeStates
  <2>2. ~InKey(state_stack)
    BY <1>1, <2>1, NoKeyUnder
  <2> QED BY <1>1, <2>2 DEF Aligned
<1>8. Leveled(stacks, v, w, HeldBy(lparen, state_stack))
  BY <1>5 DEF ProgramBy
<1>9. WellFormed(EndOfExpression(stacks).output)
  BY <1>1, <1>6, <1>7, <1>8, ProgramEnds
<1>10. EndOfExpression(stacks).lists = stacks.lists
  <2>1. stacks = Record(stacks.output, stacks.operators, stacks.ec, stacks.lists)
    BY <1>1, Parts
  <2> QED BY <2>1, EndLists
<1> QED BY <1>1, <1>9, <1>10

-----------------------------------------------------------------------------
(* Every pass. *)
Pass == \/ ReadExpression \/ ReadFunction \/ ReadText \/ ReadBracket \/ ReadHash
        \/ ReadOperator \/ EndOfInput

(* The last pass is the only one that returns a program. *)
Uncompiled == status' # "compiled"

LEMMA UncompiledBy ==
  ASSUME status = "running"
  PROVE  /\ \A n, new : Goto(n, new) => Uncompiled
         /\ \A n, new, text : Collect(n, new, text) => Uncompiled
         /\ \A s, n, new, text : PushedFrom(s, n, new, text) => Uncompiled
         /\ \A n, new, tok : Push(n, new, tok) \/ FlushPush(n, new, tok) => Uncompiled
         /\ \A n, tok : TakeText(n, tok) => Uncompiled
         /\ \A n, oper : PushBinary(n, oper) \/ FlushBinary(n, oper) => Uncompiled
         /\ \A n, new : FlushGoto(n, new) => Uncompiled
         /\ \A new, s, text : PassSpace(new, s, text) => Uncompiled
         /\ advance_past_space_character \/ FlushThenAdvance => Uncompiled
         /\ \A e : Fail(e) => Uncompiled
         /\ UNCHANGED status => Uncompiled
<1>1. \A e : StatusAfter(e) # "compiled"
  BY DEF StatusAfter
<1>2. /\ \A n, new : Goto(n, new) => Uncompiled
      /\ \A n, new, text : Collect(n, new, text) => Uncompiled
      /\ \A n, new : FlushGoto(n, new) => Uncompiled
      /\ \A new, s, text : PassSpace(new, s, text) => Uncompiled
      /\ UNCHANGED status => Uncompiled
  BY DEF Goto, Collect, FlushGoto, PassSpace, Uncompiled
<1>3. /\ \A s, n, new, text : PushedFrom(s, n, new, text) => Uncompiled
      /\ \A e : Fail(e) => Uncompiled
  BY <1>1 DEF PushedFrom, Fail, Uncompiled
<1>4. /\ \A n, new, tok : Push(n, new, tok) \/ FlushPush(n, new, tok) => Uncompiled
      /\ \A n, tok : TakeText(n, tok) => Uncompiled
      /\ \A n, oper : PushBinary(n, oper) \/ FlushBinary(n, oper) => Uncompiled
  BY <1>3 DEF Push, FlushPush, TakeText, PushBinary, FlushBinary
<1>5. \A s : AdvancePastSpaceFrom(s) => Uncompiled
  BY <1>2, <1>3 DEF AdvancePastSpaceFrom
<1>6. advance_past_space_character \/ FlushThenAdvance => Uncompiled
  BY <1>5 DEF advance_past_space_character, FlushThenAdvance
<1> QED BY <1>2, <1>3, <1>4, <1>6

LEMMA OnlyTheLastCompiles ==
  ASSUME Pass, status' = "compiled"
  PROVE  end_of_expression
<1>1. status = "running"
  BY PassesAreRunning DEF Pass
<1>2. CASE ReadExpression
  <2>1. Operand => Uncompiled
    BY <1>1, UncompiledBy DEF Operand
  <2>2. LeaveOrFail => Uncompiled
    BY <1>1, UncompiledBy DEF LeaveOrFail
  <2>3. start \/ rhs_expression => Uncompiled
    BY <1>1, <2>2, UncompiledBy DEF start, rhs_expression
  <2>4. comparator_expression \/ jf_expression => Uncompiled
    BY <1>1, <2>2, UncompiledBy DEF comparator_expression, jf_expression
  <2>5. lhs_expression \/ sub_expression => Uncompiled
    BY <1>1, <2>1, UncompiledBy DEF lhs_expression, sub_expression
  <2>6. key_expr \/ val_expr \/ expect_rparen => Uncompiled
    BY <1>1, UncompiledBy DEF key_expr, val_expr, expect_rparen
  <2> QED BY <1>2, <2>3, <2>4, <2>5, <2>6 DEF ReadExpression, Uncompiled
<1>3. CASE ReadFunction
  <2>1. identifier_or_function_expr => Uncompiled
    BY <1>1, UncompiledBy DEF identifier_or_function_expr
  <2>2. expression_or_expression_type \/ function_expression \/ argument \/ expression_type
          => Uncompiled
    BY <1>1, UncompiledBy DEF expression_or_expression_type, function_expression, argument,
       expression_type
  <2> QED BY <1>3, <2>1, <2>2 DEF ReadFunction, Uncompiled
<1>4. CASE ReadText
  <2>1. quoted_string \/ raw_string \/ unquoted_string => Uncompiled
    BY <1>1, UncompiledBy DEF quoted_string, raw_string, unquoted_string
  <2>2. literal \/ number \/ digit => Uncompiled
    BY <1>1, UncompiledBy DEF literal, number, digit
  <2>3. raw_string_escape_char \/ quoted_string_escape_char \/ escape_digit => Uncompiled
    BY <1>1, UncompiledBy DEF raw_string_escape_char, quoted_string_escape_char, escape_digit
  <2>4. \/ escape_u4 \/ escape_u8
        \/ escape_expect_surrogate_pair1 \/ escape_expect_surrogate_pair2
        => Uncompiled
    BY <1>1, UncompiledBy DEF escape_u4, escape_u8, CollectCodepoint,
       escape_expect_surrogate_pair1, escape_expect_surrogate_pair2
  <2> QED BY <1>4, <2>1, <2>2, <2>3, <2>4 DEF ReadText, Uncompiled
<1>5. CASE ReadBracket
  <2>1. bracket_specifier \/ expect_rbracket => Uncompiled
    BY <1>1, UncompiledBy DEF bracket_specifier, expect_rbracket
  <2>2. bracket_specifier_or_multi_select_list \/ expect_multi_select_list => Uncompiled
    BY <1>1, UncompiledBy DEF bracket_specifier_or_multi_select_list, expect_multi_select_list,
       BeginMultiSelectList
  <2>3. multi_select_list \/ filter => Uncompiled
    BY <1>1, UncompiledBy DEF multi_select_list, filter
  <2>4. NumberThenComma \/ EndSlice => Uncompiled
    BY <1>1, UncompiledBy DEF NumberThenComma, EndSlice
  <2>5. index_or_slice_expression => Uncompiled
    BY <1>1, <2>4, UncompiledBy DEF index_or_slice_expression
  <2>6. rhs_slice_expression_stop \/ rhs_slice_expression_step => Uncompiled
    BY <1>1, <2>4, UncompiledBy DEF rhs_slice_expression_stop, rhs_slice_expression_step
  <2> QED BY <1>5, <2>1, <2>2, <2>3, <2>5, <2>6 DEF ReadBracket, Uncompiled
<1>6. CASE ReadHash
  <2>1. multi_select_hash \/ key_val_expr => Uncompiled
    BY <1>1, UncompiledBy DEF multi_select_hash, key_val_expr, vars
  <2>2. expect_colon \/ expect_rbrace => Uncompiled
    BY <1>1, UncompiledBy DEF expect_colon, expect_rbrace
  <2> QED BY <1>6, <2>1, <2>2 DEF ReadHash, Uncompiled
<1>7. CASE ReadOperator
  <2>1. arithmetic_operator \/ cmp_lt_or_lte \/ cmp_gt_or_gte => Uncompiled
    BY <1>1, UncompiledBy DEF arithmetic_operator, cmp_lt_or_lte, cmp_gt_or_gte
  <2>2. cmp_eq \/ cmp_ne \/ expect_pipe_or_or \/ expect_and => Uncompiled
    BY <1>1, UncompiledBy DEF cmp_eq, cmp_ne, expect_pipe_or_or, expect_and
  <2> QED BY <1>7, <2>1, <2>2 DEF ReadOperator, Uncompiled
<1>8. CASE EndOfInput
  <2>1. end_in_rhs_or_unquoted \/ end_in_number \/ end_in_identifier => Uncompiled
    BY <1>1, UncompiledBy DEF end_in_rhs_or_unquoted, end_in_number, end_in_identifier
  <2>2. end_in_string \/ end_elsewhere \/ empty_state_stack => Uncompiled
    BY <1>1, UncompiledBy DEF end_in_string, end_elsewhere, empty_state_stack
  <2> QED BY <1>8, <2>1, <2>2 DEF EndOfInput, Uncompiled
<1> QED BY <1>2, <1>3, <1>4, <1>5, <1>6, <1>7, <1>8 DEF Pass

-----------------------------------------------------------------------------
(* The call goes on and no error is set.  A number at the end of an index   *)
(* or of a slice is pushed as a literal, on the way to an error.            *)
Live == /\ status = "running" /\ stacks.ec = NoError /\ state_stack # <<>>
        /\ ~(AtEnd /\ Top \in SliceStates)

PInv == /\ Shaped(state_stack) /\ Clear
        /\ Live => Good(state_stack, stacks)
        /\ ProgramsRun

LEMMA NamesFirst == Clear /\ NoLiterals => FirstKeysAreNames
<1> SUFFICES ASSUME Clear, NoLiterals, state_stack # <<>>, Top = "key_val_expr", rest # <<>>
             PROVE  c # "quote" /\ buffer = "empty"
  BY DEF FirstKeysAreNames
<1>1. Top \notin Gathering
  BY DEF Gathering, EscapeStates, SliceStates
<1> QED BY <1>1 DEF Clear, AtEnd, NoLiterals

LEMMA PassReads == Pass /\ ~EndOfInput => rest # <<>>
<1> USE DEF At, CanRead
<1>1. ReadExpression => rest # <<>>
  BY DEF ReadExpression, start, rhs_expression, comparator_expression, jf_expression,
     lhs_expression, sub_expression, key_expr, val_expr, expect_rparen
<1>2. ReadFunction => rest # <<>>
  BY DEF ReadFunction, identifier_or_function_expr, expression_or_expression_type,
     function_expression, argument, expression_type
<1>3. ReadText => rest # <<>>
  BY DEF ReadText, quoted_string, raw_string, unquoted_string, literal, number, digit,
     raw_string_escape_char, quoted_string_escape_char, escape_digit, escape_u4, escape_u8,
     escape_expect_surrogate_pair1, escape_expect_surrogate_pair2
<1>4. ReadBracket => rest # <<>>
  BY DEF ReadBracket, bracket_specifier, bracket_specifier_or_multi_select_list,
     expect_multi_select_list, expect_rbracket, multi_select_list, filter,
     index_or_slice_expression, rhs_slice_expression_stop, rhs_slice_expression_step
<1>5. ReadHash => rest # <<>>
  BY DEF ReadHash, multi_select_hash, key_val_expr, expect_colon, expect_rbrace
<1>6. ReadOperator => rest # <<>>
  BY DEF ReadOperator, arithmetic_operator, cmp_lt_or_lte, cmp_gt_or_gte, cmp_eq, cmp_ne,
     expect_pipe_or_or, expect_and
<1> QED BY <1>1, <1>2, <1>3, <1>4, <1>5, <1>6 DEF Pass

(* Nothing is read at the end. *)
LEMMA EndStays ==
  ASSUME EndOfInput, state_stack # <<>>
  PROVE  AtEnd /\ AtEnd'
<1>1. rest = <<>> /\ finished
  BY DEF EndOfInput, EndsIn, end_in_rhs_or_unquoted, end_in_number, end_in_identifier,
     end_in_string, end_elsewhere, end_of_expression, empty_state_stack
<1>2. SubSeq(rest, 1, Len(rest)) = <<>>
  BY <1>1
<1>3. Drop(0) => UNCHANGED <<rest, finished>>
  BY <1>1, <1>2 DEF Drop
<1>4. end_in_rhs_or_unquoted \/ end_in_number \/ end_in_identifier => UNCHANGED <<rest, finished>>
  BY <1>3 DEF end_in_rhs_or_unquoted, end_in_number, end_in_identifier, Goto, Push, TakeText,
     PushedFrom, Fail
<1>5. end_in_string \/ end_elsewhere \/ end_of_expression => UNCHANGED <<rest, finished>>
  BY DEF end_in_string, end_elsewhere, end_of_expression, Fail, input
<1> QED BY <1>1, <1>4, <1>5 DEF EndOfInput, empty_state_stack, AtEnd

LEMMA PassShape ==
  ASSUME Formed, NoCalls, NoLiterals, Pass
  PROVE  Shaped(state_stack')
BY ReadExpressionShape, ReadFunctionShape, ReadTextShape, ReadBracketShape, ReadHashShape,
   ReadOperatorShape, EndOfInputShape DEF Pass

LEMMA PassClears ==
  ASSUME Formed, Clear, NoCalls, NoLiterals, Pass
  PROVE  Clear'
<1>1. CASE EndOfInput
  BY <1>1, EndStays DEF Formed, Clear
<1>2. CASE ~EndOfInput
  <2>1. Cleared
    BY <1>2, ReadExpressionClears, ReadFunctionClears, ReadTextClears, ReadBracketClears,
       ReadHashClears, ReadOperatorClears DEF Pass
  <2> QED BY <2>1 DEF Cleared, Clear, Top
<1> QED BY <1>1, <1>2

(* What has failed, or is about to, goes on to an error. *)
LEMMA PassLives ==
  ASSUME Before, Pass, Reported, Live'
  PROVE  Live
<1>1. status = "running" /\ state_stack # <<>>
  BY PassesAreRunning DEF Pass, Before
<1>2. stacks.ec = NoError
  BY DEF Reported, Live
<1>3. ASSUME AtEnd, Top \in SliceStates PROVE FALSE
  <2>1. EndOfInput
    BY <1>3, PassReads DEF AtEnd
  <2>2. Top \notin {"rhs_expression", "unquoted_string", "number", "digit", "val_expr",
                    "identifier_or_function_expr", "quoted_string", "raw_string"}
    BY <1>3 DEF SliceStates
  <2>3. Fail("syntax_error") \/ Fail("unexpected_end_of_input")
    BY <1>1, <2>1, <2>2 DEF EndOfInput, EndsIn, end_in_rhs_or_unquoted, end_in_number,
       end_in_identifier, end_in_string, end_elsewhere, end_of_expression, empty_state_stack
  <2>4. "syntax_error" # NoError /\ "unexpected_end_of_input" # NoError
    BY DEF NoError
  <2>5. stacks'.ec # NoError
    BY <2>3, <2>4, ErrorParts DEF Fail, Before
  <2> QED BY <2>5 DEF Live
<1> QED BY <1>1, <1>2, <1>3 DEF Live

LEMMA PassGood ==
  ASSUME Ready, NoCalls, NoLiterals, Pass, Live'
  PROVE  GoodAfter
<1>1. Survives
  BY DEF Live, Survives
<1>2. CASE EndOfInput
  <2>1. AtEnd'
    BY <1>2, EndStays, ReadyIs
  <2>2. Last(state_stack') \notin SliceStates
    BY <2>1 DEF Live, Top
  <2> QED BY <1>1, <1>2, <2>2, EndOfInputGood
<1> QED BY <1>1, <1>2, ReadExpressionGood, ReadFunctionGood, ReadTextGood, ReadBracketGood,
           ReadHashGood, ReadOperatorGood DEF Pass

LEMMA PassRuns ==
  ASSUME Before, PInv, Pass, Reported
  PROVE  ProgramsRun'
<1> SUFFICES ASSUME status' = "compiled"
             PROVE  \A l \in stacks'.lists \cup {stacks'.output} : WellFormed(l)
  BY DEF ProgramsRun
<1>1. end_of_expression
  BY OnlyTheLastCompiles
<1>2. /\ status = "running" /\ Len(state_stack) = 1
  BY <1>1 DEF end_of_expression
<1>3. Top = "rhs_expression" /\ stacks' = EndOfExpression(stacks)
  <2>1. ~Fail("unexpected_end_of_input")
    BY <1>2, UncompiledBy DEF Uncompiled
  <2> QED BY <1>1, <2>1 DEF end_of_expression
<1>4. stacks.ec = NoError
  BY DEF Reported
<1>5. Ready
  <2>1. Top \notin SliceStates
    BY <1>3 DEF SliceStates
  <2> QED BY <1>2, <1>4, <2>1 DEF Live, PInv, Ready, Before
<1> QED BY <1>2, <1>3, <1>5, LastProgram

LEMMA InitPrograms == Init => PInv
<1> SUFFICES ASSUME Init PROVE PInv
  OBVIOUS
<1>1. /\ state_stack = <<"start">> /\ stacks = push_token(CurrentNode, EmptyStacks)
      /\ buffer = "empty" /\ status = "running"
  BY DEF Init
<1>2. CurrentNode.kind = "current_node" /\ Effect(CurrentNode) = 1
  <2>1. CurrentNode.kind = "current_node"
    BY DEF CurrentNode, Tok
  <2> QED BY <2>1, Effects
<1>3. push_token(CurrentNode, EmptyStacks) = Put(EmptyStacks, CurrentNode)
  BY DEF push_token, CurrentNode, Tok, Operators, Openers
<1>4. /\ stacks.output = <<CurrentNode>> /\ stacks.operators = <<>> /\ stacks.lists = {}
  <2>1. Append(<<>>, CurrentNode) = <<CurrentNode>>
    OBVIOUS
  <2>2. stacks = Record(<<CurrentNode>>, <<>>, NoError, {})
    BY <1>1, <1>3, <2>1 DEF Put, EmptyStacks, Record
  <2> QED BY <2>2 DEF Record
<1>5. Groups(state_stack) = {} /\ Parentheses(state_stack) = {}
  BY <1>1, Openings DEF Groups, Parentheses
<1>6. Opened(stacks.output) = {} /\ Lparens(stacks.operators) = {}
  <2>1. CurrentNode.kind \notin Openers
    BY <1>2 DEF Openers
  <2> QED BY <1>4, <2>1 DEF Opened, Lparens
<1> DEFINE v == [k \in 1 .. 1 |-> 1]
           w == [k \in 0 .. 0 |-> 1]
<1>7. \A G : Leveled(stacks, v, w, G)
  <2>1. /\ Len(stacks.output) = 1 /\ stacks.output[1] = CurrentNode /\ Len(stacks.operators) = 0
    BY <1>4
  <2>2. Tidy(stacks.output, v)
    <3>1. v \in [1 .. Len(stacks.output) -> Nat \ {0}] /\ v[1] = 1
      BY <2>1
    <3>2. CurrentNode.kind \in Inner /\ CurrentNode.kind # "separator"
      BY <1>2 DEF Inner
    <3> HIDE DEF v
    <3>3. Placed(stacks.output, v, 1)
      BY <1>2, <2>1, <3>1, <3>2 DEF Placed
    <3> QED BY <2>1, <3>1, <3>3 DEF Tidy
  <2>3. \A G : Weighs(stacks.operators, w, G)
    BY <2>1 DEF Weighs
  <2> QED BY <2>1, <2>2, <2>3 DEF Leveled
<1>8. Program(state_stack, stacks)
  <2>1. \A m, G : Leveled(stacks, v, w, G) => ProgramBy(state_stack, stacks, m, m, v, w)
    <3> HIDE DEF v, w
    <3> QED BY <1>5, <1>6, <1>7 DEF ProgramBy, Pairs, Frames
  <2>2. [i \in {} |-> 0] \in [{} -> {}]
    OBVIOUS
  <2> HIDE DEF v, w
  <2>3. \E m \in [{} -> {}] : ProgramBy(state_stack, stacks, m, m, v, w)
    BY <1>7, <2>1, <2>2
  <2> QED BY <1>5, <1>6, <2>3 DEF Program, Frames
<1>9. Aligned(state_stack, stacks.output)
  <2>1. Last(state_stack) = "start" /\ ~InKey(state_stack)
    BY <1>1 DEF Last, InKey, HasKey
  <2>2. Last(stacks.output) = CurrentNode /\ ~KeyNext(stacks.output)
    BY <1>2, <1>4 DEF Last, KeyNext, WantsKey
  <2> QED BY <2>1, <2>2 DEF Aligned, Complete
<1>10. Shaped(state_stack) /\ Clear
  BY <1>1 DEF Shaped, Clear
<1>11. Good(state_stack, stacks)
  BY <1>4, <1>8, <1>9 DEF Good
<1>12. ProgramsRun
  BY <1>1 DEF ProgramsRun
<1> QED BY <1>10, <1>11, <1>12 DEF PInv

LEMMA NextPrograms ==
  IInv /\ LedgerInv /\ PInv /\ NoCalls /\ NoLiterals /\ [Next]_vars => PInv'
<1> SUFFICES ASSUME IInv, LedgerInv, PInv, NoCalls, NoLiterals, [Next]_vars PROVE PInv'
  OBVIOUS
<1>1. CASE UNCHANGED <<state_stack, stacks, buffer, status>> /\ (AtEnd => AtEnd')
  BY <1>1 DEF PInv, Live, Clear, ProgramsRun, Top
<1>2. UNCHANGED vars \/ Returned => UNCHANGED <<state_stack, stacks, buffer, status>> /\ (AtEnd => AtEnd')
  BY DEF Returned, vars, AtEnd
<1>3. Feed \/ Finish => UNCHANGED <<state_stack, stacks, buffer, status>> /\ (AtEnd => AtEnd')
  BY DEF Feed, Finish, NeedsInput, AtEnd
<1>4. CASE Pass
  <2>1. Reported
    <3>1. Reported \/ UNCHANGED vars
      BY <1>4, StepReports DEF Next, Pass
    <3>2. CASE UNCHANGED vars
      <4>1. status = "running"
        BY <1>4, PassesAreRunning DEF Pass
      <4> QED BY <3>2, <4>1 DEF vars, Reported
    <3> QED BY <3>1, <3>2
  <2>2. CASE state_stack # <<>>
    <3>1. Before /\ Formed /\ Clear
      BY <2>2 DEF Before, Formed, IInv, LedgerInv, PInv
    <3>2. Shaped(state_stack') /\ Clear'
      BY <1>4, <3>1, PassShape, PassClears
    <3>3. ASSUME Live' PROVE Good(state_stack', stacks')
      <4>1. Live
        BY <1>4, <2>1, <3>1, <3>3, PassLives
      <4>2. Ready
        BY <3>1, <4>1 DEF Live, PInv, Ready
      <4> QED BY <1>4, <3>3, <4>2, PassGood DEF GoodAfter
    <3>4. ProgramsRun'
      BY <1>4, <2>1, <3>1, PassRuns
    <3> QED BY <3>2, <3>3, <3>4 DEF PInv
  <2>3. CASE state_stack = <<>>
    <3>1. empty_state_stack
      BY <1>4, <2>3, NothingLeft DEF Pass
    <3>2. Fail(Undefined) \/ Fail("syntax_error")
      BY <3>1 DEF empty_state_stack
    <3>3. state_stack' = <<>> /\ status' # "compiled"
      BY <2>3, <3>1, <3>2, UncompiledBy DEF empty_state_stack, Fail, Uncompiled
    <3> QED BY <3>3 DEF PInv, Live, Clear, ProgramsRun, Shaped
  <2> QED BY <2>2, <2>3
<1> QED BY <1>1, <1>2, <1>3, <1>4 DEF Next, Pass

(***************************************************************************)
(* A program that compile returns for an expression without function       *)
(* calls, literals, quoted keys and lists of numbers is one that the       *)
(* evaluator can run: no instruction of it, or of an expression inside of  *)
(* it, finds fewer parameters on the stack than it takes, and one result   *)
(* is left at the end.                                                     *)
(***************************************************************************)
THEOREM ProgramsOfPathsRun == Spec /\ [](NoCalls /\ NoLiterals) => []ProgramsRun
<1>1. Init => LedgerInv /\ PInv
  BY InitLedger, InitPrograms
<1>2. IInv /\ LedgerInv /\ PInv /\ NoCalls /\ NoLiterals /\ [Next]_vars => LedgerInv' /\ PInv'
  <2>1. PInv /\ NoLiterals => FirstKeysAreNames
    BY NamesFirst DEF PInv
  <2> QED BY <2>1, NextLedger, NextPrograms
<1>3. PInv => ProgramsRun
  BY DEF PInv
<1> QED BY <1>1, <1>2, <1>3, Invariant, PTL DEF Spec
==============================================================================
