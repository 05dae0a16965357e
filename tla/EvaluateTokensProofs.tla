------------------------ MODULE EvaluateTokensProofs ------------------------
(***************************************************************************)
(* For every set of programs: evaluate_tokens runs every well-formed token *)
(* list to the end, and if it gets a value out of a list without           *)
(* expression arguments, that list is well formed.                         *)
(***************************************************************************)
EXTENDS EvaluateTokens, TLAPS

d == StackDepth(toks)
a == ArgumentDepth(toks)

(***************************************************************************)
(* While a well-formed list runs, the stacks are as deep as d and a say,   *)
(* the token after a begin_expression_type is never read, and an           *)
(* expression is on top of stack only, for the argument that is next.      *)
(***************************************************************************)
Follows ==
  /\ Len(stack) = d[i-1]
  /\ Len(arg_stack) = a[i-1]
  /\ i <= Len(toks) => ~Skipped(toks, i)
  /\ \A k \in 1 .. Len(stack) :
       stack[k] = "expression" =>
         k = Len(stack) /\ i > 2 /\ toks[i-2].kind = "begin_expression_type"

Running == WellFormed(toks) /\ outcome = "running" => Follows

IInv == TypeOK /\ Running /\ NeverFails

(* The elements of a sequence, without the last ones, and with one more. *)
LEMMA Shorter ==
  ASSUME NEW S, NEW s \in Seq(S), NEW n \in 0 .. Len(s)
  PROVE  /\ SubSeq(s, 1, n) \in Seq(S)
         /\ Len(SubSeq(s, 1, n)) = n
         /\ \A k \in 1 .. n : SubSeq(s, 1, n)[k] = s[k]
OBVIOUS

LEMMA Element ==
  ASSUME NEW S, NEW s \in Seq(S), NEW n \in 1 .. Len(s)
  PROVE  s[n] \in S
OBVIOUS

LEMMA Longer ==
  ASSUME NEW S, NEW s \in Seq(S), NEW x \in S
  PROVE  /\ Append(s, x) \in Seq(S)
         /\ Len(Append(s, x)) = Len(s) + 1
         /\ \A k \in 1 .. Len(s) : Append(s, x)[k] = s[k]
         /\ Append(s, x)[Len(s) + 1] = x
OBVIOUS

LEMMA EmptyTypes == <<>> \in Seq(Token) /\ <<>> \in Seq(Parameters) /\ 1 \in 1 .. Len(<<>>) + 1
OBVIOUS

(* What a well-formed list says of the token that is next. *)
LEMMA NextToken ==
  ASSUME TypeOK, WellFormed(toks), Follows, i <= Len(toks)
  PROVE  /\ t \in Token
         /\ d[i] = d[i-1] + Effect(t)
         /\ Need(t) <= Len(stack)
         /\ a[i] = CASE t.kind = "argument" -> a[i-1] + 1
                     [] t.kind = "function" -> 0
                     [] OTHER -> a[i-1]
         /\ t.kind # "argument" => \A k \in 1 .. Len(stack) : stack[k] = "value"
<1>1. WellFormedBy(toks, d, a)
  BY DEF WellFormed, d, a
<1>2. i \in 1 .. Len(toks) /\ t \in Token /\ t = toks[i]
  BY DEF TypeOK, t
<1>3. ~Skipped(toks, i)
  BY DEF Follows
<1>4. d[i] = d[i-1] + Effect(t)
  BY <1>1, <1>2, <1>3 DEF WellFormedBy, DepthsOf
<1>5. Need(t) <= Len(stack)
  BY <1>1, <1>2, <1>3 DEF WellFormedBy, Follows
<1>6. a[i] = CASE t.kind = "argument" -> a[i-1] + 1
               [] t.kind = "function" -> 0
               [] OTHER -> a[i-1]
  BY <1>1, <1>2 DEF WellFormedBy, DepthsOf
<1>7. ASSUME t.kind # "argument", NEW k \in 1 .. Len(stack)
      PROVE  stack[k] = "value"
  <2>1. SUFFICES ASSUME stack[k] = "expression" PROVE FALSE
    BY DEF TypeOK, Parameters
  <2>2. i > 2 /\ toks[i-2].kind = "begin_expression_type"
    BY <2>1 DEF Follows
  <2>3. i - 2 \in 1 .. Len(toks)
    BY <1>2, <2>2 DEF TypeOK
  <2>4. toks[(i-2)+2].kind = "argument"
    BY <1>1, <2>2, <2>3 DEF WellFormedBy
  <2> QED BY <1>2, <1>7, <2>4 DEF TypeOK
<1> QED BY <1>2, <1>4, <1>5, <1>6, <1>7

LEMMA InitInv == Init => IInv
<1> SUFFICES ASSUME Init PROVE IInv
  OBVIOUS
<1>1. TypeOK
  BY EmptyTypes DEF Init, TypeOK, Outcomes
<1> QED BY <1>1 DEF Init, IInv, Running, NeverFails

(* The stacks are as deep as a list says at its beginning. *)
LEMMA CallStep == IInv /\ call => IInv'
<1> SUFFICES ASSUME IInv, call PROVE IInv'
  OBVIOUS
<1>1. TypeOK'
  <2>1. toks' \in Seq(Token)
    BY ProgramsAssumption DEF call
  <2>2. 1 \in 1 .. Len(toks') + 1
    BY <2>1
  <2> QED BY <2>1, <2>2, EmptyTypes DEF call, TypeOK, Outcomes
<1>2. ASSUME WellFormed(toks)' PROVE d'[0] = 0 /\ a'[0] = 0
  BY <1>2 DEF WellFormed, WellFormedBy, DepthsOf, d, a
<1>3. Running'
  BY <1>2 DEF call, Running, Follows, Skipped
<1> QED BY <1>1, <1>3 DEF call, IInv, NeverFails

LEMMA LeaveStep == leave => IInv'
<1> SUFFICES ASSUME leave PROVE IInv'
  OBVIOUS
<1>1. TypeOK'
  BY EmptyTypes DEF leave, TypeOK, Outcomes
<1> QED BY <1>1 DEF leave, IInv, Running, NeverFails

(* A token that leaves arg_stack alone, and values on stack. *)
LEMMA PassToken ==
  ASSUME TypeOK, TypeOK', WellFormed(toks), Follows, i <= Len(toks),
         toks' = toks, i' = i + 1, arg_stack' = arg_stack,
         t.kind \notin {"argument", "function", "begin_expression_type"},
         Len(stack') = Len(stack) + Effect(t),
         \A k \in 1 .. Len(stack') : stack'[k] = "value"
  PROVE  Follows'
<1>1. d' = d /\ a' = a
  BY DEF d, a
<1>2. d[i] = d[i-1] + Effect(t) /\ a[i] = a[i-1]
  BY NextToken
<1>3. ~Skipped(toks, i + 1)
  BY DEF Skipped, t, TypeOK
<1> QED BY <1>1, <1>2, <1>3 DEF Follows, TypeOK

(* A token that takes `size` values and leaves one. *)
LEMMA ApplyStep ==
  ASSUME NEW size \in {1, 2}, IInv, outcome = "running", i <= Len(toks),
         t.kind \in {"expression", "unary_operator", "binary_operator"},
         size = Need(t), Apply(size)
  PROVE  IInv'
<1> USE DEF IInv
<1>1. CASE ~Holds(size)
  <2>1. ~WellFormed(toks)
    BY <1>1, NextToken DEF Running, Holds, TypeOK
  <2>2. ~WellFormed(toks)'
    BY <1>1, <2>1 DEF Apply, EndWith
  <2> QED BY <1>1, <2>2 DEF Apply, EndWith, Running, NeverFails, TypeOK, Outcomes
<1>2. CASE Holds(size) /\ ~Values(size)
  <2>1. ~WellFormed(toks)
    BY <1>2, NextToken DEF Running, Holds, Values, TypeOK
  <2>2. ~WellFormed(toks)'
    BY <1>2, <2>1 DEF Apply, EndWith
  <2> QED BY <1>2, <2>2 DEF Apply, EndWith, Running, NeverFails, TypeOK, Outcomes
<1>3. CASE Holds(size) /\ Values(size) /\ MayThrow
  BY <1>3 DEF MayThrow, EndWith, Running, NeverFails, TypeOK, Outcomes
<1>4. CASE Holds(size) /\ Values(size) /\ ~MayThrow
  <2>1. /\ i' = i + 1 /\ toks' = toks /\ outcome' = outcome /\ arg_stack' = arg_stack
        /\ stack' = Append(SubSeq(stack, 1, Len(stack) - size), "value")
        /\ ec' \in BOOLEAN
    BY <1>4 DEF Apply, GoOn, MaySetEc, Below, TypeOK
  <2>2. /\ stack' \in Seq(Parameters)
        /\ Len(stack') = Len(stack) - size + 1
        /\ \A k \in 1 .. Len(stack') : k < Len(stack') => stack'[k] = stack[k]
        /\ stack'[Len(stack')] = "value"
    BY <1>4, <2>1 DEF TypeOK, Holds, Parameters
  <2>3. TypeOK'
    BY <2>1, <2>2 DEF TypeOK
  <2>4. ASSUME WellFormed(toks) PROVE Follows'
    <3>1. Follows
      BY <2>4 DEF Running
    <3>2. \A k \in 1 .. Len(stack) : stack[k] = "value"
      BY <3>1, <2>4, NextToken
    <3>3. ASSUME NEW k \in 1 .. Len(stack') PROVE stack'[k] = "value"
      <4>1. CASE k = Len(stack')
        BY <2>2, <4>1
      <4>2. CASE k # Len(stack')
        <5>1. k < Len(stack') /\ k \in 1 .. Len(stack)
          BY <2>2, <4>2 DEF TypeOK
        <5> QED BY <2>2, <3>2, <5>1
      <4> QED BY <4>1, <4>2
    <3>4. Len(stack') = Len(stack) + Effect(t)
      <4>1. Effect(t) = 1 - size
        BY DEF Need, Effect
      <4> QED BY <2>2, <4>1 DEF TypeOK
    <3>5. t.kind \notin {"argument", "function", "begin_expression_type"}
      OBVIOUS
    <3> QED BY <2>1, <2>3, <2>4, <3>1, <3>3, <3>4, <3>5, PassToken
  <2>5. Running' /\ NeverFails'
    BY <2>1, <2>4 DEF Running, NeverFails
  <2> QED BY <2>3, <2>5
<1> QED BY <1>1, <1>2, <1>3, <1>4

LEMMA NextInv == IInv /\ [Next]_vars => IInv'
<1> SUFFICES ASSUME IInv, [Next]_vars PROVE IInv'
  OBVIOUS
<1> USE DEF IInv
<1>1. ASSUME literal \/ current_node PROVE IInv'
  <2>1. /\ i' = i + 1 /\ toks' = toks /\ outcome' = outcome /\ arg_stack' = arg_stack
        /\ stack' = Append(stack, "value") /\ ec' = ec
        /\ outcome = "running" /\ i <= Len(toks)
        /\ t.kind \in {"literal", "current_node"}
    BY <1>1 DEF literal, current_node, At, GoOn, Quietly
  <2>2. TypeOK'
    BY <2>1 DEF TypeOK, Parameters
  <2>3. ASSUME WellFormed(toks) PROVE Follows'
    <3>1. Follows
      BY <2>1, <2>3 DEF Running
    <3>2. \A k \in 1 .. Len(stack) : stack[k] = "value"
      BY <2>1, <2>3, <3>1, NextToken
    <3>3. /\ Len(stack') = Len(stack) + Effect(t)
          /\ \A k \in 1 .. Len(stack') : stack'[k] = "value"
      BY <2>1, <3>2 DEF TypeOK, Effect
    <3> QED BY <2>1, <2>2, <2>3, <3>1, <3>3, PassToken DEF TypeOK
  <2> QED BY <2>1, <2>2, <2>3 DEF Running, NeverFails
<1>2. CASE begin_expression_type
  <2> USE <1>2 DEF begin_expression_type
  <2>1. outcome = "running" /\ i <= Len(toks) /\ t.kind = "begin_expression_type"
    BY DEF At
  <2>2. CASE EndWith("assertion")
    <3>1. ASSUME WellFormed(toks) PROVE FALSE
      <4>1. Follows
        BY <2>1, <3>1 DEF Running
      <4>2. Need(t) <= Len(stack) /\ Need(t) = 1
        BY <2>1, <3>1, <4>1, NextToken DEF Need
      <4>3. i + 1 <= Len(toks) /\ toks[i+1].kind = "expression"
        BY <2>1, <3>1 DEF WellFormed, WellFormedBy, TypeOK, t
      <4> QED BY <2>1, <2>2, <4>2, <4>3 DEF EndWith, GoOn, Holds
    <3> QED BY <2>2, <3>1 DEF EndWith, Running, NeverFails, TypeOK, Outcomes
  <2>3. CASE ~EndWith("assertion")
    <3>1. /\ i' = i + 2 /\ toks' = toks /\ outcome' = outcome /\ arg_stack' = arg_stack
          /\ ec' = ec /\ i + 1 <= Len(toks) /\ toks[i+1].kind = "expression"
          /\ Len(stack) >= 1
          /\ stack' = Append(SubSeq(stack, 1, Len(stack) - 1), "expression")
      BY <2>3 DEF GoOn, Quietly, Below, Holds
    <3>2. /\ stack' \in Seq(Parameters) /\ Len(stack') = Len(stack)
          /\ \A k \in 1 .. Len(stack') : k < Len(stack') => stack'[k] = stack[k]
      <4>1. /\ SubSeq(stack, 1, Len(stack) - 1) \in Seq(Parameters)
            /\ Len(SubSeq(stack, 1, Len(stack) - 1)) = Len(stack) - 1
            /\ \A k \in 1 .. Len(stack) - 1 :
                 SubSeq(stack, 1, Len(stack) - 1)[k] = stack[k]
        <5>1. stack \in Seq(Parameters) /\ Len(stack) - 1 \in 0 .. Len(stack)
          BY <3>1 DEF TypeOK
        <5> QED BY <5>1, Shorter
      <4>2. "expression" \in Parameters
        BY DEF Parameters
      <4> QED BY <3>1, <4>1, <4>2 DEF TypeOK
    <3>3. TypeOK'
      BY <3>1, <3>2 DEF TypeOK
    <3>4. ASSUME WellFormed(toks) PROVE Follows'
      <4>1. Follows
        BY <2>1, <3>4 DEF Running
      <4>2. \A k \in 1 .. Len(stack) : stack[k] = "value"
        BY <2>1, <3>4, <4>1, NextToken
      <4>3. d' = d /\ a' = a
        BY <3>1 DEF d, a
      <4>4. d[i] = d[i-1] /\ a[i] = a[i-1]
        <5>1. d[i-1] = Len(stack) /\ a[i-1] = Len(arg_stack)
          BY <4>1 DEF Follows
        <5> QED BY <2>1, <3>4, <4>1, <5>1, NextToken DEF Effect, TypeOK
      <4>5. d[i+1] = d[i] /\ a[i+1] = a[i]
        <5>1. DepthsOf(toks, d, a)
          BY <3>4 DEF WellFormed, WellFormedBy, d, a
        <5>2. i + 1 \in 1 .. Len(toks) /\ Skipped(toks, i + 1)
          BY <2>1, <3>1 DEF TypeOK, t, Skipped
        <5>3. i \in 0 .. Len(toks) /\ (i + 1) - 1 = i
          BY <2>1 DEF TypeOK
        <5>4. d[i+1] = d[i] + 0
          BY <5>1, <5>2, <5>3 DEF DepthsOf
        <5>5. a[i+1] = a[i]
          BY <3>1, <5>1, <5>2, <5>3 DEF DepthsOf
        <5> QED BY <5>1, <5>3, <5>4, <5>5 DEF DepthsOf
      <4>6. ~Skipped(toks, i + 2)
        BY <3>1 DEF Skipped, TypeOK
      <4>7. \A k \in 1 .. Len(stack') : stack'[k] = "expression" => k = Len(stack')
        BY <3>2, <4>2 DEF TypeOK
      <4> QED BY <2>1, <3>1, <3>2, <4>1, <4>3, <4>4, <4>5, <4>6, <4>7
              DEF Follows, TypeOK, t
    <3> QED BY <3>1, <3>3, <3>4 DEF Running, NeverFails
  <2> QED BY <2>2, <2>3
<1>3. CASE expression \/ unary_operator \/ binary_operator
  <2>1. outcome = "running" /\ i <= Len(toks)
    BY <1>3 DEF expression, unary_operator, binary_operator, At
  <2>2. CASE t.kind \in {"expression", "unary_operator"} /\ Apply(1)
    BY <2>1, <2>2, ApplyStep DEF Need
  <2>3. CASE t.kind = "binary_operator" /\ Apply(2)
    BY <2>1, <2>3, ApplyStep DEF Need
  <2> QED BY <1>3, <2>2, <2>3 DEF expression, unary_operator, binary_operator, At
<1>4. CASE pipe
  <2>1. outcome = "running" /\ i <= Len(toks) /\ t.kind = "pipe"
    BY <1>4 DEF pipe, At
  <2>2. ASSUME WellFormed(toks) PROVE Holds(1) /\ Values(1)
    BY <2>1, <2>2, NextToken DEF Running, Holds, Values, Need, TypeOK
  <2>3. CASE ~(Holds(1) /\ Values(1))
    BY <1>4, <2>2, <2>3
       DEF pipe, EndWith, Running, NeverFails, TypeOK, Outcomes
  <2>4. CASE Holds(1) /\ Values(1)
    <3>1. /\ i' = i + 1 /\ toks' = toks /\ outcome' = outcome /\ stack' = stack
          /\ arg_stack' = arg_stack /\ ec' = ec
      BY <1>4, <2>4 DEF pipe, GoOn, Quietly
    <3>2. TypeOK'
      BY <2>1, <3>1 DEF TypeOK
    <3>3. ASSUME WellFormed(toks) PROVE Follows'
      <4>1. Follows /\ Effect(t) = 0
        BY <2>1, <3>3 DEF Running, Effect
      <4>2. \A k \in 1 .. Len(stack) : stack[k] = "value"
        BY <2>1, <3>3, <4>1, NextToken
      <4> QED BY <2>1, <3>1, <3>2, <3>3, <4>1, <4>2, PassToken DEF TypeOK
    <3> QED BY <3>1, <3>2, <3>3 DEF Running, NeverFails
  <2> QED BY <2>3, <2>4
<1>5. CASE argument
  <2>1. outcome = "running" /\ i <= Len(toks) /\ t.kind = "argument"
    BY <1>5 DEF argument, At
  <2>2. CASE ~Holds(1)
    <3>1. ~WellFormed(toks)
      BY <2>1, <2>2, NextToken DEF Running, Holds, Need, TypeOK
    <3> QED BY <1>5, <2>2, <3>1
            DEF argument, EndWith, Running, NeverFails, TypeOK, Outcomes
  <2>3. CASE Holds(1)
    <3>1. /\ i' = i + 1 /\ toks' = toks /\ outcome' = outcome /\ ec' = ec
          /\ stack' = SubSeq(stack, 1, Len(stack) - 1)
          /\ arg_stack' = Append(arg_stack, Last(stack))
      BY <1>5, <2>3 DEF argument, GoOn, Below
    <3>2. /\ stack' \in Seq(Parameters) /\ Len(stack') = Len(stack) - 1
          /\ \A k \in 1 .. Len(stack') : stack'[k] = stack[k]
          /\ arg_stack' \in Seq(Parameters) /\ Len(arg_stack') = Len(arg_stack) + 1
      <4>1. Len(stack) >= 1 /\ Last(stack) \in Parameters
        BY <2>3 DEF TypeOK, Holds, Last
      <4>2. stack \in Seq(Parameters) /\ Len(stack) - 1 \in 0 .. Len(stack)
        BY <4>1 DEF TypeOK
      <4>3. /\ stack' \in Seq(Parameters) /\ Len(stack') = Len(stack) - 1
            /\ \A k \in 1 .. Len(stack') : stack'[k] = stack[k]
        BY <3>1, <4>2, Shorter
      <4>4. arg_stack' \in Seq(Parameters) /\ Len(arg_stack') = Len(arg_stack) + 1
        BY <3>1, <4>1, Longer DEF TypeOK
      <4> QED BY <4>3, <4>4
    <3>3. TypeOK'
      BY <2>1, <3>1, <3>2 DEF TypeOK
    <3>4. ASSUME WellFormed(toks) PROVE Follows'
      <4>1. Follows
        BY <2>1, <3>4 DEF Running
      <4>2. d' = d /\ a' = a
        BY <3>1 DEF d, a
      <4>3. d[i] = d[i-1] - 1 /\ a[i] = a[i-1] + 1
        <5>1. d[i-1] = Len(stack)
          BY <4>1 DEF Follows
        <5> QED BY <2>1, <3>4, <4>1, <5>1, NextToken DEF Effect, TypeOK
      <4>4. ~Skipped(toks, i + 1)
        BY <2>1 DEF Skipped, t, TypeOK
      <4>5. \A k \in 1 .. Len(stack') : stack'[k] # "expression"
        <5>1. \A k \in 1 .. Len(stack) : stack[k] = "expression" => k = Len(stack)
          BY <4>1 DEF Follows
        <5> QED BY <3>2, <5>1 DEF TypeOK
      <4> QED BY <3>1, <3>2, <4>1, <4>2, <4>3, <4>4, <4>5 DEF Follows, TypeOK
    <3> QED BY <3>1, <3>3, <3>4 DEF Running, NeverFails
  <2> QED BY <2>2, <2>3
<1>6. CASE function
  <2>1. outcome = "running" /\ i <= Len(toks) /\ t.kind = "function"
    BY <1>6 DEF function, At
  <2>2. CASE outcome' = "null" /\ ec' = TRUE /\ UNCHANGED <<toks, i, stack, arg_stack>>
    BY <2>2 DEF Running, NeverFails, TypeOK, Outcomes
  <2>3. CASE MayThrow
    BY <2>3 DEF MayThrow, EndWith, Running, NeverFails, TypeOK, Outcomes
  <2>4. CASE GoOn(1, Append(stack, "value")) /\ arg_stack' = <<>> /\ UNCHANGED ec
    <3>1. /\ i' = i + 1 /\ toks' = toks /\ outcome' = outcome
          /\ stack' = Append(stack, "value")
      BY <2>4 DEF GoOn
    <3>2. TypeOK'
      BY <2>1, <2>4, <3>1 DEF TypeOK, Parameters
    <3>3. ASSUME WellFormed(toks) PROVE Follows'
      <4>1. Follows
        BY <2>1, <3>3 DEF Running
      <4>2. d' = d /\ a' = a
        BY <3>1 DEF d, a
      <4>3. d[i] = d[i-1] + 1 /\ a[i] = 0
        BY <2>1, <3>3, <4>1, NextToken DEF Effect
      <4>4. ~Skipped(toks, i + 1)
        BY <2>1 DEF Skipped, t, TypeOK
      <4>5. \A k \in 1 .. Len(stack) : stack[k] = "value"
        BY <2>1, <3>3, <4>1, NextToken
      <4>6. \A k \in 1 .. Len(stack') : stack'[k] # "expression"
        BY <3>1, <4>5 DEF TypeOK
      <4> QED BY <2>4, <3>1, <4>1, <4>2, <4>3, <4>4, <4>6 DEF Follows, TypeOK
    <3> QED BY <3>1, <3>2, <3>3 DEF Running, NeverFails
  <2> QED BY <1>6, <2>2, <2>3, <2>4 DEF function
<1>7. CASE ignored
  <2>1. /\ outcome = "running" /\ i <= Len(toks)
        /\ t.kind \in {"separator", "key", "lparen"} \cup (Openers \ {"function"}) \cup Closers
        /\ i' = i + 1 /\ toks' = toks /\ outcome' = outcome /\ stack' = stack
        /\ arg_stack' = arg_stack /\ ec' = ec
    BY <1>7 DEF ignored, GoOn, Quietly
  <2>2. TypeOK'
    BY <2>1 DEF TypeOK
  <2>3. ASSUME WellFormed(toks) PROVE Follows'
    <3>1. Follows /\ Effect(t) = 0
      BY <2>1, <2>3 DEF Running, Effect, Openers, Closers
    <3>2. t.kind \notin {"argument", "function", "begin_expression_type"}
      BY <2>1 DEF Openers, Closers
    <3>3. \A k \in 1 .. Len(stack) : stack[k] = "value"
      BY <2>1, <2>3, <3>1, <3>2, NextToken
    <3> QED BY <2>1, <2>2, <2>3, <3>1, <3>2, <3>3, PassToken DEF TypeOK
  <2> QED BY <2>1, <2>2, <2>3 DEF Running, NeverFails
<1>8. CASE finish
  <2>1. outcome = "running" /\ i = Len(toks) + 1 /\ UNCHANGED <<toks, i, stack, arg_stack, ec>>
    BY <1>8 DEF finish, EndWith, TypeOK
  <2>2. ASSUME WellFormed(toks) PROVE Len(stack) = 1 /\ stack[1] = "value"
    <3>1. Follows
      BY <2>1, <2>2 DEF Running
    <3>2. WellFormedBy(toks, d, a)
      BY <2>2 DEF WellFormed, d, a
    <3>3. Len(stack) = 1
      BY <2>1, <3>1, <3>2 DEF Follows, WellFormedBy, TypeOK
    <3>4. stack[1] # "expression"
      <4>1. SUFFICES ASSUME stack[1] = "expression" PROVE FALSE
        OBVIOUS
      <4>2. i > 2 /\ toks[i-2].kind = "begin_expression_type"
        BY <3>1, <3>3, <4>1 DEF Follows
      <4>3. i - 2 \in 1 .. Len(toks)
        BY <2>1, <4>2 DEF TypeOK
      <4>4. (i - 2) + 2 <= Len(toks)
        BY <3>2, <4>2, <4>3 DEF WellFormedBy
      <4> QED BY <2>1, <4>4 DEF TypeOK
    <3>5. stack[1] \in Parameters
      <4>1. stack \in Seq(Parameters) /\ 1 \in 1 .. Len(stack)
        BY <3>3 DEF TypeOK
      <4> QED BY <4>1, Element
    <3> QED BY <3>3, <3>4, <3>5 DEF Parameters
  <2>3. outcome' \in {"value", "assertion", "undefined"} /\ (WellFormed(toks) => outcome' = "value")
    BY <1>8, <2>2 DEF finish, EndWith
  <2> QED BY <2>1, <2>3 DEF Running, NeverFails, TypeOK, Outcomes
<1>9. CASE UNCHANGED vars
  BY <1>9 DEF vars, TypeOK, Running, Follows, NeverFails, d, a
<1> QED BY CallStep, LeaveStep, <1>1, <1>2, <1>3, <1>4, <1>5, <1>6, <1>7, <1>8, <1>9 DEF Next

(* The stacks of parameters keep their types, whatever is run. *)
THEOREM TypeCorrect == Spec => []TypeOK
BY InitInv, NextInv, PTL DEF Spec, IInv

(***************************************************************************)
(* A well-formed token list never fails an assertion of evaluate_tokens    *)
(* and never has an expression taken for a value.                          *)
(***************************************************************************)
THEOREM WellFormedRuns == Spec => []NeverFails
BY InitInv, NextInv, PTL DEF Spec, IInv

(* Every function of a well-formed list finds just its own arguments.      *)
THEOREM ArgumentsFound == Spec => []FindsItsArguments
<1>1. IInv => FindsItsArguments
  BY DEF IInv, Running, Follows, FindsItsArguments, a
<1> QED BY InitInv, NextInv, <1>1, PTL DEF Spec

-----------------------------------------------------------------------------
(***************************************************************************)
(* The other way round.  StackDepth and ArgumentDepth are recursive        *)
(* functions.  That there are such functions, and only one of each, is     *)
(* shown along the run: the lengths of the stacks are a solution of their  *)
(* equations, up to i.                                                     *)
(***************************************************************************)

Expressionless(ts) ==
  ts \in Seq(Token) /\ \A k \in 1 .. Len(ts) : ts[k].kind # "begin_expression_type"

(* The equations of the two depths, at one position. *)
DepthAfter(ts, f, k) ==
  IF k = 0 THEN 0 ELSE f[k-1] + (IF Skipped(ts, k) THEN 0 ELSE Effect(ts[k]))

ArgumentsAfter(ts, f, k) ==
  IF k = 0 THEN 0
  ELSE CASE ts[k].kind = "argument" -> f[k-1] + 1
         [] ts[k].kind = "function" -> 0
         [] OTHER -> f[k-1]

IsDepth(ts, f)     == f = [k \in 0 .. Len(ts) |-> DepthAfter(ts, f, k)]
IsArguments(ts, f) == f = [k \in 0 .. Len(ts) |-> ArgumentsAfter(ts, f, k)]

(* The token at k finds what it needs. *)
Served(ts, dd, aa, k) ==
  /\ Need(ts[k]) <= dd[k-1]
  /\ ts[k].kind = "function" => FunctionArity[ts[k].oper] \in {AnyArity, aa[k-1]}

(***************************************************************************)
(* Up to n tokens, dd and aa are the depths, the only ones, and each token *)
(* found what it needs.                                                    *)
(***************************************************************************)
Solution(ts, dd, aa, n) ==
  /\ dd \in [0 .. n -> Nat] /\ aa \in [0 .. n -> Nat]
  /\ \A k \in 0 .. n : dd[k] = DepthAfter(ts, dd, k)
  /\ \A k \in 0 .. n : aa[k] = ArgumentsAfter(ts, aa, k)
  /\ \A f : IsDepth(ts, f) => \A k \in 0 .. n : f[k] = dd[k]
  /\ \A f : IsArguments(ts, f) => \A k \in 0 .. n : f[k] = aa[k]
  /\ \A k \in 1 .. n : Served(ts, dd, aa, k)

Traced(ts, n, depth, size) ==
  \E dd, aa : Solution(ts, dd, aa, n) /\ dd[n] = depth /\ aa[n] = size

LEMMA Numbers ==
  ASSUME NEW tok
  PROVE  Effect(tok) \in Int /\ Need(tok) \in Nat
BY DEF Effect, Need

LEMMA DepthExists ==
  ASSUME NEW ts, NEW f, IsDepth(ts, f)
  PROVE  IsDepth(ts, StackDepth(ts))
<1>1. StackDepth(ts) = CHOOSE g : g = [k \in 0 .. Len(ts) |-> DepthAfter(ts, g, k)]
  BY DEF StackDepth, DepthAfter
<1> QED BY <1>1 DEF IsDepth

LEMMA ArgumentsExist ==
  ASSUME NEW ts, NEW f, IsArguments(ts, f)
  PROVE  IsArguments(ts, ArgumentDepth(ts))
<1>1. ArgumentDepth(ts) = CHOOSE g : g = [k \in 0 .. Len(ts) |-> ArgumentsAfter(ts, g, k)]
  BY DEF ArgumentDepth, ArgumentsAfter
<1> QED BY <1>1 DEF IsArguments

(* A solution for the whole list makes it well formed. *)
LEMMA SolvedIsWellFormed ==
  ASSUME NEW ts, Expressionless(ts), NEW size, Traced(ts, Len(ts), 1, size)
  PROVE  WellFormed(ts)
<1>1. PICK dd, aa : Solution(ts, dd, aa, Len(ts)) /\ dd[Len(ts)] = 1
  BY DEF Traced
<1>2. IsDepth(ts, dd) /\ IsArguments(ts, aa)
  BY <1>1 DEF Solution, IsDepth, IsArguments
<1>3. IsDepth(ts, StackDepth(ts)) /\ IsArguments(ts, ArgumentDepth(ts))
  BY <1>2, DepthExists, ArgumentsExist
<1>4. StackDepth(ts) = dd /\ ArgumentDepth(ts) = aa
  <2>1. \A k \in 0 .. Len(ts) : StackDepth(ts)[k] = dd[k] /\ ArgumentDepth(ts)[k] = aa[k]
    BY <1>1, <1>3 DEF Solution
  <2>2. /\ StackDepth(ts) = [k \in 0 .. Len(ts) |-> StackDepth(ts)[k]]
        /\ ArgumentDepth(ts) = [k \in 0 .. Len(ts) |-> ArgumentDepth(ts)[k]]
    BY <1>3 DEF IsDepth, IsArguments
  <2>3. /\ dd = [k \in 0 .. Len(ts) |-> dd[k]]
        /\ aa = [k \in 0 .. Len(ts) |-> aa[k]]
    BY <1>1 DEF Solution
  <2> QED BY <2>1, <2>2, <2>3
<1>5. Len(ts) \in Nat
  BY DEF Expressionless
<1>6. DepthsOf(ts, dd, aa)
  <2>1. dd \in [0 .. Len(ts) -> Int] /\ aa \in [0 .. Len(ts) -> Nat]
    BY <1>1 DEF Solution
  <2>2. dd[0] = 0 /\ aa[0] = 0
    <3>1. 0 \in 0 .. Len(ts)
      BY <1>5
    <3>2. dd[0] = DepthAfter(ts, dd, 0) /\ aa[0] = ArgumentsAfter(ts, aa, 0)
      BY <1>1, <3>1 DEF Solution
    <3> QED BY <3>2 DEF DepthAfter, ArgumentsAfter
  <2>3. ASSUME NEW k \in 1 .. Len(ts)
        PROVE  dd[k] = DepthAfter(ts, dd, k) /\ aa[k] = ArgumentsAfter(ts, aa, k) /\ k # 0
    BY <1>1, <1>5 DEF Solution
  <2> QED BY <2>1, <2>2, <2>3 DEF DepthsOf, DepthAfter, ArgumentsAfter
<1>7. \A k \in 1 .. Len(ts) : Served(ts, dd, aa, k)
  BY <1>1 DEF Solution
<1>8. WellFormedBy(ts, dd, aa)
  BY <1>1, <1>6, <1>7 DEF WellFormedBy, Served, Expressionless
<1> QED BY <1>4, <1>8 DEF WellFormed

(* One more token. *)
LEMMA Extend ==
  ASSUME NEW ts, NEW n \in 1 .. Len(ts), Expressionless(ts),
         NEW depth \in Nat, NEW size \in Nat, Traced(ts, n - 1, depth, size),
         Need(ts[n]) <= depth,
         ts[n].kind = "function" => FunctionArity[ts[n].oper] \in {AnyArity, size},
         NEW deeper \in Nat, deeper = depth + Effect(ts[n]),
         NEW larger \in Nat, larger = CASE ts[n].kind = "argument" -> size + 1
                                        [] ts[n].kind = "function" -> 0
                                        [] OTHER -> size
  PROVE  Traced(ts, n, deeper, larger)
<1>1. PICK dd, aa : Solution(ts, dd, aa, n - 1) /\ dd[n-1] = depth /\ aa[n-1] = size
  BY DEF Traced
<1> DEFINE d2 == [k \in 0 .. n |-> IF k = n THEN deeper ELSE dd[k]]
           a2 == [k \in 0 .. n |-> IF k = n THEN larger ELSE aa[k]]
<1>2. n \in Nat /\ n # 0 /\ ~Skipped(ts, n)
  <2>1. Len(ts) \in Nat
    BY DEF Expressionless
  <2>2. n \in Nat /\ n # 0 /\ (n > 1 => n - 1 \in 1 .. Len(ts))
    BY <2>1
  <2>3. \A k \in 1 .. Len(ts) : ts[k].kind # "begin_expression_type"
    BY DEF Expressionless
  <2> HIDE DEF d2, a2
  <2> QED BY <2>2, <2>3 DEF Skipped
<1>3. /\ d2 \in [0 .. n -> Nat] /\ a2 \in [0 .. n -> Nat]
      /\ d2[n] = deeper /\ a2[n] = larger
      /\ \A k \in 0 .. n - 1 : d2[k] = dd[k] /\ a2[k] = aa[k]
  <2>1. dd \in [0 .. n - 1 -> Nat] /\ aa \in [0 .. n - 1 -> Nat]
    BY <1>1 DEF Solution
  <2>2. \A k \in 0 .. n : k # n => k \in 0 .. n - 1
    BY <1>2
  <2>3. d2 \in [0 .. n -> Nat] /\ a2 \in [0 .. n -> Nat]
    BY <2>1, <2>2
  <2> QED BY <1>2, <2>3
<1> HIDE DEF d2, a2
\* What one position says does not depend on the later ones.
<1>4. ASSUME NEW f, NEW g, NEW k \in 0 .. n, k # 0 => f[k-1] = g[k-1]
      PROVE  /\ DepthAfter(ts, f, k) = DepthAfter(ts, g, k)
             /\ ArgumentsAfter(ts, f, k) = ArgumentsAfter(ts, g, k)
  BY <1>4 DEF DepthAfter, ArgumentsAfter
\* At n it says deeper and larger.
<1>5. ASSUME NEW f, f[n-1] = depth PROVE DepthAfter(ts, f, n) = deeper
  BY <1>2, <1>5 DEF DepthAfter
<1>6. ASSUME NEW f, f[n-1] = size PROVE ArgumentsAfter(ts, f, n) = larger
  BY <1>2, <1>6 DEF ArgumentsAfter
<1>7. n - 1 \in 0 .. n - 1 /\ \A k \in 0 .. n : k = n \/ k \in 0 .. n - 1
  BY <1>2
<1>8. ASSUME NEW k \in 0 .. n PROVE d2[k] = DepthAfter(ts, d2, k)
  <2>1. CASE k = n
    BY <1>1, <1>3, <1>5, <1>7, <2>1
  <2>2. CASE k \in 0 .. n - 1
    <3>1. d2[k] = dd[k] /\ dd[k] = DepthAfter(ts, dd, k)
      BY <1>1, <1>3, <2>2 DEF Solution
    <3>2. k # 0 => k - 1 \in 0 .. n - 1
      BY <1>2, <2>2
    <3> QED BY <1>3, <1>4, <3>1, <3>2
  <2> QED BY <1>7, <2>1, <2>2
<1>9. ASSUME NEW k \in 0 .. n PROVE a2[k] = ArgumentsAfter(ts, a2, k)
  <2>1. CASE k = n
    BY <1>1, <1>3, <1>6, <1>7, <2>1
  <2>2. CASE k \in 0 .. n - 1
    <3>1. a2[k] = aa[k] /\ aa[k] = ArgumentsAfter(ts, aa, k)
      BY <1>1, <1>3, <2>2 DEF Solution
    <3>2. k # 0 => k - 1 \in 0 .. n - 1
      BY <1>2, <2>2
    <3> QED BY <1>3, <1>4, <3>1, <3>2
  <2> QED BY <1>7, <2>1, <2>2
<1>10. ASSUME NEW f, IsDepth(ts, f), NEW k \in 0 .. n PROVE f[k] = d2[k]
  <2>1. \A m \in 0 .. n - 1 : f[m] = dd[m]
    BY <1>1, <1>10 DEF Solution
  <2>2. n \in 0 .. Len(ts)
    OBVIOUS
  <2>3. f[n] = DepthAfter(ts, f, n)
    BY <1>10, <2>2 DEF IsDepth
  <2> QED BY <1>1, <1>3, <1>5, <1>7, <2>1, <2>3
<1>11. ASSUME NEW f, IsArguments(ts, f), NEW k \in 0 .. n PROVE f[k] = a2[k]
  <2>1. \A m \in 0 .. n - 1 : f[m] = aa[m]
    BY <1>1, <1>11 DEF Solution
  <2>2. n \in 0 .. Len(ts)
    OBVIOUS
  <2>3. f[n] = ArgumentsAfter(ts, f, n)
    BY <1>11, <2>2 DEF IsArguments
  <2> QED BY <1>1, <1>3, <1>6, <1>7, <2>1, <2>3
<1>12. ASSUME NEW k \in 1 .. n PROVE Served(ts, d2, a2, k)
  <2>1. k - 1 \in 0 .. n - 1
    BY <1>2
  <2>2. d2[k-1] = dd[k-1] /\ a2[k-1] = aa[k-1]
    BY <1>3, <2>1
  <2>3. CASE k = n
    BY <1>1, <2>2, <2>3 DEF Served
  <2>4. CASE k # n
    <3>1. k \in 1 .. n - 1
      BY <1>2, <2>4
    <3> QED BY <1>1, <2>2, <3>1 DEF Solution, Served
  <2> QED BY <2>3, <2>4
<1>13. Solution(ts, d2, a2, n)
  BY <1>3, <1>8, <1>9, <1>10, <1>11, <1>12 DEF Solution
<1> QED BY <1>3, <1>13 DEF Traced

(***************************************************************************)
(* The lengths of the stacks are the depths at i, and a call that has a    *)
(* value has passed all tokens and left one parameter.                     *)
(***************************************************************************)
WInv ==
  Expressionless(toks) =>
    /\ outcome \in {"running", "value"} => Traced(toks, i - 1, Len(stack), Len(arg_stack))
    /\ outcome = "value" => i = Len(toks) + 1 /\ Len(stack) = 1

(* Nothing has been passed. *)
LEMMA NothingPassed ==
  ASSUME NEW ts, Expressionless(ts)
  PROVE  Traced(ts, 0, 0, 0)
<1> DEFINE z == [k \in 0 .. 0 |-> 0]
<1>1. 0 \in 0 .. Len(ts)
  BY DEF Expressionless
<1>2. Solution(ts, z, z, 0)
  BY <1>1 DEF Solution, DepthAfter, ArgumentsAfter, IsDepth, IsArguments
<1> QED BY <1>2 DEF Traced

(* A step that passes one token, and leaves on the stacks what it says. *)
LEMMA PassKeepsTrace ==
  ASSUME TypeOK, TypeOK', WInv, outcome = "running", i <= Len(toks),
         i' = i + 1, toks' = toks, outcome' = outcome,
         Need(t) <= Len(stack),
         t.kind = "function" => FunctionArity[t.oper] \in {AnyArity, Len(arg_stack)},
         Len(stack') = Len(stack) + Effect(t),
         Len(arg_stack') = CASE t.kind = "argument" -> Len(arg_stack) + 1
                             [] t.kind = "function" -> 0
                             [] OTHER -> Len(arg_stack)
  PROVE  WInv'
<1>1. SUFFICES ASSUME Expressionless(toks)
               PROVE  Traced(toks, i, Len(stack'), Len(arg_stack'))
  BY DEF WInv, TypeOK
<1>2. Traced(toks, i - 1, Len(stack), Len(arg_stack))
  BY <1>1 DEF WInv
<1>3. /\ i \in 1 .. Len(toks) /\ t = toks[i]
      /\ Len(stack) \in Nat /\ Len(arg_stack) \in Nat
      /\ Len(stack') \in Nat /\ Len(arg_stack') \in Nat
  BY DEF TypeOK, t
<1> QED BY <1>1, <1>2, <1>3, Extend

(* A call that ends without a value. *)
LEMMA EndKeepsTrace ==
  ASSUME outcome' \notin {"running", "value"}
  PROVE  WInv'
BY DEF WInv

LEMMA NextWInv == IInv /\ WInv /\ [Next]_vars => WInv'
<1> SUFFICES ASSUME IInv, WInv, [Next]_vars PROVE WInv'
  OBVIOUS
<1>1. TypeOK /\ TypeOK'
  BY NextInv DEF IInv
<1>2. CASE call
  BY <1>2, NothingPassed DEF call, WInv
<1>3. CASE leave
  BY <1>3, EndKeepsTrace DEF leave
<1>4. CASE literal \/ current_node
  BY <1>1, <1>4, PassKeepsTrace
     DEF literal, current_node, At, GoOn, Quietly, TypeOK, Need, Effect
<1>5. CASE begin_expression_type
  <2>1. ~Expressionless(toks)
    BY <1>1, <1>5 DEF begin_expression_type, At, Expressionless, TypeOK, t
  <2>2. toks' = toks
    BY <1>5 DEF begin_expression_type, EndWith, GoOn
  <2> QED BY <2>1, <2>2 DEF WInv
<1>6. ASSUME NEW size \in {1, 2}, Apply(size), size = Need(t),
             outcome = "running", i <= Len(toks),
             t.kind \in {"expression", "unary_operator", "binary_operator"}
      PROVE  WInv'
  <2>1. CASE outcome' \in {"assertion", "undefined", "throws"}
    BY <2>1, EndKeepsTrace
  <2>2. CASE outcome' \notin {"assertion", "undefined", "throws"}
    <3>1. /\ Holds(size)
          /\ i' = i + 1 /\ toks' = toks /\ outcome' = outcome /\ arg_stack' = arg_stack
          /\ stack' = Append(SubSeq(stack, 1, Len(stack) - size), "value")
      BY <1>6, <2>2 DEF Apply, EndWith, MayThrow, GoOn, MaySetEc, Below
    <3>2. Len(stack) - size \in 0 .. Len(stack) /\ stack \in Seq(Parameters)
      BY <1>1, <3>1 DEF TypeOK, Holds
    <3>3. Len(stack') = Len(stack) - size + 1
      BY <3>1, <3>2, Shorter, Longer DEF Parameters
    <3>4. Effect(t) = 1 - size
      BY <1>6 DEF Need, Effect
    <3> QED BY <1>1, <1>6, <3>1, <3>2, <3>3, <3>4, PassKeepsTrace DEF Holds
  <2> QED BY <2>1, <2>2
<1>7. CASE expression \/ unary_operator \/ binary_operator
  <2>1. outcome = "running" /\ i <= Len(toks)
    BY <1>7 DEF expression, unary_operator, binary_operator, At
  <2>2. CASE t.kind \in {"expression", "unary_operator"} /\ Apply(1)
    BY <1>6, <2>1, <2>2 DEF Need
  <2>3. CASE t.kind = "binary_operator" /\ Apply(2)
    BY <1>6, <2>1, <2>3 DEF Need
  <2> QED BY <1>7, <2>2, <2>3 DEF expression, unary_operator, binary_operator, At
<1>8. CASE pipe
  <2>1. outcome = "running" /\ i <= Len(toks) /\ t.kind = "pipe"
    BY <1>8 DEF pipe, At
  <2>2. CASE outcome' \in {"assertion", "undefined"}
    BY <2>2, EndKeepsTrace
  <2>3. CASE outcome' \notin {"assertion", "undefined"}
    <3>1. Holds(1) /\ GoOn(1, stack) /\ Quietly
      BY <1>8, <2>3 DEF pipe, EndWith
    <3> QED BY <1>1, <2>1, <3>1, PassKeepsTrace
            DEF Holds, GoOn, Quietly, TypeOK, Need, Effect
  <2> QED BY <2>2, <2>3
<1>9. CASE argument
  <2>1. outcome = "running" /\ i <= Len(toks) /\ t.kind = "argument"
    BY <1>9 DEF argument, At
  <2>2. CASE outcome' = "assertion"
    BY <2>2, EndKeepsTrace
  <2>3. CASE outcome' # "assertion"
    <3>1. /\ Holds(1)
          /\ i' = i + 1 /\ toks' = toks /\ outcome' = outcome
          /\ stack' = SubSeq(stack, 1, Len(stack) - 1)
          /\ arg_stack' = Append(arg_stack, Last(stack))
      BY <1>9, <2>3 DEF argument, EndWith, GoOn, Below
    <3>2. Len(stack) - 1 \in 0 .. Len(stack) /\ stack \in Seq(Parameters)
      BY <1>1, <3>1 DEF TypeOK, Holds
    <3>3. Len(stack') = Len(stack) - 1
      BY <3>1, <3>2, Shorter
    <3>4. Len(arg_stack') = Len(arg_stack) + 1
      BY <1>1, <3>1 DEF TypeOK
    <3>5. Need(t) = 1 /\ Effect(t) = -1
      BY <2>1 DEF Need, Effect
    <3> QED BY <1>1, <2>1, <3>1, <3>2, <3>3, <3>4, <3>5, PassKeepsTrace DEF Holds
  <2> QED BY <2>2, <2>3
<1>10. CASE function
  <2>1. outcome = "running" /\ i <= Len(toks) /\ t.kind = "function"
    BY <1>10 DEF function, At
  <2>2. CASE outcome' \in {"null", "throws"}
    BY <2>2, EndKeepsTrace
  <2>3. CASE outcome' \notin {"null", "throws"}
    <3>1. /\ FunctionArity[t.oper] \in {AnyArity, Len(arg_stack)}
          /\ GoOn(1, Append(stack, "value"))
          /\ arg_stack' = <<>>
      BY <1>10, <2>3 DEF function, MayThrow, EndWith
    <3>2. Len(stack') = Len(stack) + 1 /\ Len(arg_stack') = 0
      BY <1>1, <3>1 DEF GoOn, TypeOK
    <3>3. Need(t) = 0 /\ Effect(t) = 1
      BY <2>1 DEF Need, Effect
    <3> QED BY <1>1, <2>1, <3>1, <3>2, <3>3, PassKeepsTrace DEF GoOn, TypeOK
  <2> QED BY <2>2, <2>3
<1>11. CASE ignored
  <2>1. /\ outcome = "running" /\ i <= Len(toks)
        /\ t.kind \in {"separator", "key", "lparen"} \cup (Openers \ {"function"}) \cup Closers
        /\ i' = i + 1 /\ toks' = toks /\ outcome' = outcome /\ stack' = stack
        /\ arg_stack' = arg_stack
    BY <1>11 DEF ignored, GoOn, Quietly
  <2>2. Need(t) = 0 /\ Effect(t) = 0 /\ t.kind \notin {"argument", "function"}
    BY <2>1 DEF Need, Effect, Openers, Closers
  <2> QED BY <1>1, <2>1, <2>2, PassKeepsTrace DEF TypeOK
<1>12. CASE finish
  BY <1>1, <1>12 DEF finish, EndWith, WInv, TypeOK
<1>13. CASE UNCHANGED vars
  BY <1>13 DEF vars, WInv
<1> QED BY <1>2, <1>3, <1>4, <1>5, <1>7, <1>8, <1>9, <1>10, <1>11, <1>12, <1>13 DEF Next

(***************************************************************************)
(* Well-formedness asks no more than evaluate_tokens does: a list without  *)
(* expression arguments, of any length, that yields a value is well        *)
(* formed.                                                                 *)
(***************************************************************************)
THEOREM OnlyWellFormedRuns == Spec => []OnlyWellFormedRun
<1>1. Init => WInv
  BY DEF Init, WInv
<1>2. ASSUME IInv, WInv PROVE OnlyWellFormedRun
  <2>1. SUFFICES ASSUME outcome = "value",
                        \A k \in 1 .. Len(toks) : toks[k].kind # "begin_expression_type"
                 PROVE  WellFormed(toks)
    BY DEF OnlyWellFormedRun
  <2>2. Expressionless(toks)
    BY <1>2, <2>1 DEF Expressionless, IInv, TypeOK
  <2>3. i - 1 = Len(toks) /\ Traced(toks, i - 1, 1, Len(arg_stack))
    <3>1. /\ Traced(toks, i - 1, Len(stack), Len(arg_stack))
          /\ i = Len(toks) + 1 /\ Len(stack) = 1
      BY <1>2, <2>1, <2>2 DEF WInv
    <3>2. (Len(toks) + 1) - 1 = Len(toks)
      BY <2>2 DEF Expressionless
    <3> QED BY <3>1, <3>2
  <2> QED BY <2>2, <2>3, SolvedIsWellFormed
<1> QED BY <1>1, <1>2, InitInv, NextInv, NextWInv, PTL DEF Spec
=============================================================================
