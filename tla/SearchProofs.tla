---------------------------- MODULE SearchProofs ----------------------------
(***************************************************************************)
(* Theorems about the entry points and the calls of evaluate_tokens inside *)
(* them: whatever the texts compile to, and whatever expression nodes,     *)
(* operators, functions and copies compute.                                *)
(*                                                                         *)
(* The frames of TokenMachine are records.  What becomes of their parts is *)
(* said by lemmas first, then what EvaluateTokens sees of each pass of the *)
(* loop, and of each call that begins, waits and ends.                     *)
(***************************************************************************)
EXTENDS Search, TLAPS

(* A list of anything. *)
LEMMA ListOf ==
  ASSUME NEW S, NEW s \in Seq(S)
  PROVE  IsList(s)
BY DEF IsList

LEMMA ListElements ==
  ASSUME NEW s, IsList(s)
  PROVE  /\ Len(s) \in Nat /\ DOMAIN s = 1 .. Len(s)
         /\ s \in Seq({s[k] : k \in 1 .. Len(s)})
BY DEF IsList

LEMMA ListAppend ==
  ASSUME NEW s, IsList(s), NEW x
  PROVE  /\ IsList(Append(s, x)) /\ Len(Append(s, x)) = Len(s) + 1
         /\ \A k \in 1 .. Len(s) : Append(s, x)[k] = s[k]
         /\ Append(s, x)[Len(s) + 1] = x
         /\ Append(s, x) # <<>>
<1> DEFINE S == {s[k] : k \in 1 .. Len(s)} \cup {x}
<1>1. s \in Seq(S)
  BY DEF IsList
<1>2. Append(s, x) \in Seq(S)
  BY <1>1
<1>3. IsList(Append(s, x))
  BY <1>2, ListOf
<1> QED BY <1>1, <1>2, <1>3

LEMMA ListCut ==
  ASSUME NEW s, IsList(s), NEW n \in 0 .. Len(s)
  PROVE  /\ IsList(SubSeq(s, 1, n)) /\ Len(SubSeq(s, 1, n)) = n
         /\ \A k \in 1 .. n : SubSeq(s, 1, n)[k] = s[k]
<1> DEFINE S == {s[k] : k \in 1 .. Len(s)}
<1>1. s \in Seq(S)
  BY ListElements
<1>2. SubSeq(s, 1, n) \in Seq(S)
  BY <1>1
<1>3. IsList(SubSeq(s, 1, n))
  BY <1>2, ListOf
<1> QED BY <1>1, <1>2, <1>3

LEMMA ListEqual ==
  ASSUME NEW s, NEW u, IsList(s), IsList(u), Len(s) = Len(u), \A k \in 1 .. Len(s) : s[k] = u[k]
  PROVE  s = u
BY DEF IsList

LEMMA EmptyList == IsList(<<>>) /\ Len(<<>>) = 0
<1>1. <<>> \in Seq({})
  OBVIOUS
<1> QED BY <1>1, ListOf

LEMMA NotEmpty == ASSUME NEW s, IsList(s), s # <<>> PROVE Len(s) \in Nat /\ Len(s) >= 1
<1>1. SUFFICES ASSUME Len(s) = 0 PROVE s = <<>>
  BY DEF IsList
<1> QED BY <1>1, EmptyList, ListEqual

(* The kinds of the parameters of a list. *)
Parameters == {"value", "expression"}

LEMMA Kinds ==
  ASSUME NEW s, IsList(s)
  PROVE  /\ KindsOf(s) \in Seq(Parameters) /\ IsList(KindsOf(s)) /\ Len(KindsOf(s)) = Len(s)
         /\ \A k \in 1 .. Len(s) : KindsOf(s)[k] = KindOf(s[k])
<1>1. DOMAIN s = 1 .. Len(s) /\ Len(s) \in Nat
  BY ListElements
<1>2. KindsOf(s) = [k \in 1 .. Len(s) |-> KindOf(s[k])]
  BY <1>1 DEF KindsOf
<1>3. \A k \in 1 .. Len(s) : KindOf(s[k]) \in Parameters
  BY DEF KindOf, Parameters
<1>4. KindsOf(s) \in Seq(Parameters) /\ Len(KindsOf(s)) = Len(s)
  BY <1>1, <1>2, <1>3
<1>5. IsList(KindsOf(s))
  BY <1>4, ListOf
<1> QED BY <1>1, <1>2, <1>4, <1>5

LEMMA KindsOfEmpty == KindsOf(<<>>) = <<>>
BY EmptyList, Kinds, ListEqual

LEMMA KindsOfAppend ==
  ASSUME NEW s, IsList(s), NEW x
  PROVE  KindsOf(Append(s, x)) = Append(KindsOf(s), KindOf(x))
<1> DEFINE u == Append(s, x)
           w == Append(KindsOf(s), KindOf(x))
<1>1. /\ IsList(u) /\ Len(u) = Len(s) + 1
      /\ \A k \in 1 .. Len(s) : u[k] = s[k]
      /\ u[Len(s) + 1] = x
  BY ListAppend
<1>2. /\ IsList(KindsOf(s)) /\ Len(KindsOf(s)) = Len(s)
      /\ \A k \in 1 .. Len(s) : KindsOf(s)[k] = KindOf(s[k])
  BY Kinds
<1>3. /\ IsList(w) /\ Len(w) = Len(s) + 1
      /\ \A k \in 1 .. Len(s) : w[k] = KindsOf(s)[k]
      /\ w[Len(s) + 1] = KindOf(x)
  BY <1>2, ListAppend
<1>4. /\ IsList(KindsOf(u)) /\ Len(KindsOf(u)) = Len(u)
      /\ \A k \in 1 .. Len(u) : KindsOf(u)[k] = KindOf(u[k])
  BY <1>1, Kinds
<1>5. Len(s) \in Nat
  BY DEF IsList
<1> HIDE DEF u, w
<1>6. \A k \in 1 .. Len(u) : KindsOf(u)[k] = w[k]
  BY <1>1, <1>2, <1>3, <1>4, <1>5
<1>7. KindsOf(u) = w
  BY <1>1, <1>3, <1>4, <1>6, ListEqual
<1> QED BY <1>7 DEF u, w

LEMMA KindsOfCut ==
  ASSUME NEW s, IsList(s), NEW n \in 0 .. Len(s)
  PROVE  KindsOf(SubSeq(s, 1, n)) = SubSeq(KindsOf(s), 1, n)
<1> DEFINE u == SubSeq(s, 1, n)
           w == SubSeq(KindsOf(s), 1, n)
<1>1. IsList(u) /\ Len(u) = n /\ \A k \in 1 .. n : u[k] = s[k]
  BY ListCut
<1>2. /\ IsList(KindsOf(s)) /\ Len(KindsOf(s)) = Len(s)
      /\ \A k \in 1 .. Len(s) : KindsOf(s)[k] = KindOf(s[k])
  BY Kinds
<1>3. IsList(w) /\ Len(w) = n /\ \A k \in 1 .. n : w[k] = KindsOf(s)[k]
  BY <1>2, ListCut
<1>4. /\ IsList(KindsOf(u)) /\ Len(KindsOf(u)) = Len(u)
      /\ \A k \in 1 .. Len(u) : KindsOf(u)[k] = KindOf(u[k])
  BY <1>1, Kinds
<1>5. Len(s) \in Nat
  BY DEF IsList
<1> HIDE DEF u, w
<1>6. \A k \in 1 .. Len(u) : KindsOf(u)[k] = w[k]
  BY <1>1, <1>2, <1>3, <1>4, <1>5
<1>7. KindsOf(u) = w
  BY <1>1, <1>3, <1>4, <1>6, ListEqual
<1> QED BY <1>7 DEF u, w

LEMMA LastOfList ==
  ASSUME NEW s, IsList(s), s # <<>>
  PROVE  /\ Last(s) = s[Len(s)] /\ Front(s) = SubSeq(s, 1, Len(s) - 1)
         /\ KindsOf(s)[Len(s)] = KindOf(Last(s))
<1>1. Len(s) \in 1 .. Len(s)
  BY NotEmpty
<1>2. Last(s) = s[Len(s)] /\ Front(s) = SubSeq(s, 1, Len(s) - 1)
  BY DEF Last, Front
<1>3. \A k \in 1 .. Len(s) : KindsOf(s)[k] = KindOf(s[k])
  BY Kinds
<1> QED BY <1>1, <1>2, <1>3

-----------------------------------------------------------------------------
(* Frames: what each pass of the loop leaves in them. *)
CallOutcomes == {"running", "value", "null", "throws", "assertion", "undefined"}

(* The state of a call of evaluate_tokens, part by part. *)
FrameOf(toks, i, root, stack, args, code, outcome, thrown) ==
  [toks |-> toks, i |-> i, root |-> root, stack |-> stack, args |-> args,
   ec |-> code, outcome |-> outcome, thrown |-> thrown]

IsFrame(m) == m = FrameOf(m.toks, m.i, m.root, m.stack, m.args, m.ec, m.outcome, m.thrown)

FrameOK(m) ==
  /\ IsFrame(m)
  /\ m.i \in Nat \ {0}
  /\ IsList(m.stack) /\ IsList(m.args)
  /\ m.outcome \in CallOutcomes

LEMMA PartsOf ==
  ASSUME NEW t, NEW n, NEW r, NEW s, NEW a, NEW c, NEW o, NEW x
  PROVE  LET f == FrameOf(t, n, r, s, a, c, o, x)
         IN /\ IsFrame(f)
            /\ f.toks = t /\ f.i = n /\ f.root = r /\ f.stack = s /\ f.args = a
            /\ f.ec = c /\ f.outcome = o /\ f.thrown = x
BY DEF FrameOf, IsFrame

(* A frame in which one part is another one. *)
LEMMA Updates ==
  \A t, n, r, s, a, c, o, x, v :
    LET f == FrameOf(t, n, r, s, a, c, o, x)
    IN /\ [f EXCEPT !.i = v] = FrameOf(t, v, r, s, a, c, o, x)
       /\ [f EXCEPT !.root = v] = FrameOf(t, n, v, s, a, c, o, x)
       /\ [f EXCEPT !.stack = v] = FrameOf(t, n, r, v, a, c, o, x)
       /\ [f EXCEPT !.args = v] = FrameOf(t, n, r, s, v, c, o, x)
       /\ [f EXCEPT !.ec = v] = FrameOf(t, n, r, s, a, v, o, x)
       /\ [f EXCEPT !.outcome = v] = FrameOf(t, n, r, s, a, c, v, x)
       /\ [f EXCEPT !.thrown = v] = FrameOf(t, n, r, s, a, c, o, v)
BY DEF FrameOf

LEMMA Update ==
  ASSUME NEW m, IsFrame(m), NEW v
  PROVE  /\ [m EXCEPT !.i = v] = FrameOf(m.toks, v, m.root, m.stack, m.args, m.ec, m.outcome, m.thrown)
         /\ [m EXCEPT !.root = v] = FrameOf(m.toks, m.i, v, m.stack, m.args, m.ec, m.outcome, m.thrown)
         /\ [m EXCEPT !.stack = v] = FrameOf(m.toks, m.i, m.root, v, m.args, m.ec, m.outcome, m.thrown)
         /\ [m EXCEPT !.args = v] = FrameOf(m.toks, m.i, m.root, m.stack, v, m.ec, m.outcome, m.thrown)
         /\ [m EXCEPT !.ec = v] = FrameOf(m.toks, m.i, m.root, m.stack, m.args, v, m.outcome, m.thrown)
         /\ [m EXCEPT !.outcome = v] = FrameOf(m.toks, m.i, m.root, m.stack, m.args, m.ec, v, m.thrown)
         /\ [m EXCEPT !.thrown = v] = FrameOf(m.toks, m.i, m.root, m.stack, m.args, m.ec, m.outcome, v)
BY Updates DEF IsFrame

LEMMA CalledFrame ==
  ASSUME NEW v, NEW toks, NEW code
  PROVE  /\ FrameOK(Called(v, toks, code))
         /\ Called(v, toks, code).toks = toks /\ Called(v, toks, code).i = 1
         /\ Called(v, toks, code).stack = <<>> /\ Called(v, toks, code).args = <<>>
         /\ Called(v, toks, code).ec = code /\ Called(v, toks, code).outcome = "running"
BY EmptyList, PartsOf DEF Called, FrameOK, FrameOf, IsFrame, CallOutcomes

LEMMA StoppedFrame ==
  ASSUME NEW m, FrameOK(m), NEW how \in CallOutcomes
  PROVE  /\ FrameOK(Stop(m, how))
         /\ Stop(m, how).toks = m.toks /\ Stop(m, how).i = m.i
         /\ Stop(m, how).stack = m.stack /\ Stop(m, how).args = m.args
         /\ Stop(m, how).ec = m.ec /\ Stop(m, how).outcome = how
<1>1. Stop(m, how) = FrameOf(m.toks, m.i, m.root, m.stack, m.args, m.ec, how, m.thrown)
  BY Update DEF Stop, FrameOK
<1> QED BY <1>1, PartsOf DEF FrameOK

(* A function that fails, or is called with too many or too few arguments. *)
LEMMA FailedFrame ==
  ASSUME NEW m, FrameOK(m), NEW code
  PROVE  LET n == [Stop(m, "null") EXCEPT !.ec = code]
         IN /\ FrameOK(n)
            /\ n.toks = m.toks /\ n.i = m.i /\ n.stack = m.stack /\ n.args = m.args
            /\ n.ec = code /\ n.outcome = "null"
<1> DEFINE n == [Stop(m, "null") EXCEPT !.ec = code]
<1>1. Stop(m, "null") = FrameOf(m.toks, m.i, m.root, m.stack, m.args, m.ec, "null", m.thrown)
  BY Update DEF Stop, FrameOK
<1>2. n = FrameOf(m.toks, m.i, m.root, m.stack, m.args, code, "null", m.thrown)
  BY <1>1, Updates
<1> HIDE DEF n
<1>3. /\ IsFrame(n)
      /\ n.toks = m.toks /\ n.i = m.i /\ n.stack = m.stack /\ n.args = m.args
      /\ n.ec = code /\ n.outcome = "null"
  BY <1>2, PartsOf
<1> QED BY <1>3 DEF FrameOK, CallOutcomes, n

LEMMA ThrowingFrame ==
  ASSUME NEW m, FrameOK(m), NEW v
  PROVE  /\ FrameOK(Rethrow(m, v))
         /\ Rethrow(m, v).toks = m.toks /\ Rethrow(m, v).i = m.i
         /\ Rethrow(m, v).stack = m.stack /\ Rethrow(m, v).args = m.args
         /\ Rethrow(m, v).ec = m.ec /\ Rethrow(m, v).outcome = "throws"
<1> DEFINE n == Rethrow(m, v)
<1>1. n = [[m EXCEPT !.outcome = "throws"] EXCEPT !.thrown = v[3]]
  BY DEF Rethrow
<1>2. n = FrameOf(m.toks, m.i, m.root, m.stack, m.args, m.ec, "throws", v[3])
  <2> DEFINE u == [m EXCEPT !.outcome = "throws"]
  <2>1. n = [u EXCEPT !.thrown = v[3]]
    BY <1>1
  <2>2. u = FrameOf(m.toks, m.i, m.root, m.stack, m.args, m.ec, "throws", m.thrown)
    BY Update DEF FrameOK
  <2> HIDE DEF u, n
  <2> QED BY <2>1, <2>2, Updates
<1> HIDE DEF n
<1>3. /\ IsFrame(n)
      /\ n.toks = m.toks /\ n.i = m.i /\ n.stack = m.stack /\ n.args = m.args
      /\ n.ec = m.ec /\ n.outcome = "throws"
  BY <1>2, PartsOf
<1> QED BY <1>3 DEF FrameOK, CallOutcomes, n

LEMMA PushedFrame ==
  ASSUME NEW m, FrameOK(m), NEW size \in 0 .. Len(m.stack), NEW p, NEW passed \in Nat
  PROVE  LET n == PushedTo(m, size, p, passed)
         IN /\ FrameOK(n)
            /\ n.toks = m.toks /\ n.i = m.i + passed
            /\ KindsOf(n.stack) = Append(SubSeq(KindsOf(m.stack), 1, Len(KindsOf(m.stack)) - size),
                                         KindOf(p))
            /\ n.args = m.args /\ n.ec = m.ec /\ n.outcome = m.outcome
<1> DEFINE n == PushedTo(m, size, p, passed)
           below == SubSeq(m.stack, 1, Len(m.stack) - size)
<1>1. IsList(m.stack) /\ Len(m.stack) \in Nat
  BY DEF FrameOK, IsList
<1>2. n = FrameOf(m.toks, m.i + passed, m.root, Append(below, p), m.args, m.ec, m.outcome, m.thrown)
  <2> DEFINE u == [m EXCEPT !.stack = Append(below, p)]
  <2>1. n = [u EXCEPT !.i = u.i + passed]
    BY DEF PushedTo
  <2>2. u = FrameOf(m.toks, m.i, m.root, Append(below, p), m.args, m.ec, m.outcome, m.thrown)
    BY Update DEF FrameOK
  <2> HIDE DEF u, n, below
  <2>3. u.i = m.i
    BY <2>2, PartsOf
  <2> QED BY <2>1, <2>2, <2>3, Updates
<1>3. Len(m.stack) - size \in 0 .. Len(m.stack)
  BY <1>1
<1>4. IsList(below)
  BY <1>1, <1>3, ListCut
<1>5. IsList(Append(below, p))
  BY <1>4, ListAppend
<1>6. KindsOf(Append(below, p)) = Append(KindsOf(below), KindOf(p))
  BY <1>4, KindsOfAppend
<1>7. KindsOf(below) = SubSeq(KindsOf(m.stack), 1, Len(m.stack) - size)
  BY <1>1, <1>3, KindsOfCut
<1>8. Len(KindsOf(m.stack)) = Len(m.stack)
  BY <1>1, Kinds
<1> HIDE DEF n, below
<1>9. m.i + passed \in Nat \ {0}
  BY DEF FrameOK
<1>10. /\ IsFrame(n) /\ n.toks = m.toks /\ n.i = m.i + passed /\ n.stack = Append(below, p)
       /\ n.args = m.args /\ n.ec = m.ec /\ n.outcome = m.outcome
  <2> DEFINE q == Append(below, p)
             k == m.i + passed
  <2>1. n = FrameOf(m.toks, k, m.root, q, m.args, m.ec, m.outcome, m.thrown)
    BY <1>2
  <2> HIDE DEF q, k
  <2>2. /\ IsFrame(n) /\ n.toks = m.toks /\ n.i = k /\ n.stack = q
        /\ n.args = m.args /\ n.ec = m.ec /\ n.outcome = m.outcome
    BY <2>1, PartsOf
  <2> QED BY <2>2 DEF q, k
<1>11. FrameOK(n)
  BY <1>10, <1>5, <1>9 DEF FrameOK
<1> QED BY <1>6, <1>7, <1>8, <1>10, <1>11 DEF n

LEMMA ValueKind == \A v : KindOf(ValueParameter(v)) = "value"
BY DEF KindOf, ValueParameter, IsExpressionArgument, Kind

LEMMA ArgumentKind == \A e : KindOf(ExpressionArgument(e)) = "expression"
BY DEF KindOf, ExpressionArgument, IsExpressionArgument, Kind

LEMMA NothingCut == ASSUME NEW s, IsList(s) PROVE SubSeq(s, 1, Len(s) - 0) = s
<1>1. Len(s) \in Nat /\ Len(s) - 0 = Len(s)
  BY DEF IsList
<1>2. Len(s) \in 0 .. Len(s)
  BY <1>1
<1> QED BY <1>1, <1>2, ListCut, ListEqual

(* What an operator and a function do in Search. *)
AppliedTo(m) == Applied(m, Compute(m.toks[m.i], Operands(m), m.ec))
CalledBy(m)  == TokenFunction(m, CallFunction(m.toks[m.i].oper, Passed(m.args), m.ec))

(* What the tokens do, kind by kind. *)
LEMMA StepByKind ==
  ASSUME NEW m, ~(m.i > Len(m.toks))
  PROVE  LET kind == m.toks[m.i].kind
         IN /\ kind = "literal" => Step(m) = PushedTo(m, 0, ValueParameter(m.toks[m.i].of), 1)
            /\ kind = "current_node" => Step(m) = PushedTo(m, 0, ValueParameter(m.root), 1)
            /\ kind = "begin_expression_type" => Step(m) = TokenExpressionType(m)
            /\ kind \in {"expression", "unary_operator", "binary_operator"} => Step(m) = AppliedTo(m)
            /\ kind = "pipe" => Step(m) = TokenPipe(m)
            /\ kind = "argument" => Step(m) = TokenArgument(m)
            /\ kind = "function" => Step(m) = CalledBy(m)
            /\ kind \notin {"literal", "current_node", "begin_expression_type", "expression",
                            "unary_operator", "binary_operator", "pipe", "argument", "function"} =>
                 Step(m) = [m EXCEPT !.i = @ + 1]
BY DEF Step, Pass, AppliedTo, CalledBy

(* A list without its last element. *)
LEMMA FrontOfList ==
  ASSUME NEW s, IsList(s), s # <<>>
  PROVE  IsList(Front(s)) /\ KindsOf(Front(s)) = SubSeq(KindsOf(s), 1, Len(KindsOf(s)) - 1)
<1>1. Len(s) - 1 \in 0 .. Len(s) /\ Len(KindsOf(s)) = Len(s)
  BY NotEmpty, Kinds
<1>2. Front(s) = SubSeq(s, 1, Len(s) - 1)
  BY LastOfList
<1> QED BY <1>1, <1>2, ListCut, KindsOfCut

LEMMA WrittenSets ==
  \A c, e : (Written(c, e) # NoCode) \in {c # NoCode, TRUE}
BY DEF Written, NoCode

(* The value of r in the place of `size` parameters. *)
LEMMA ReplacedFrame ==
  ASSUME NEW m, FrameOK(m), NEW size \in 1 .. Len(m.stack), NEW r, ~IsThrown(r.val)
  PROVE  LET n == Replaced(m, size, r)
         IN /\ FrameOK(n) /\ n.toks = m.toks /\ n.i = m.i + 1
            /\ KindsOf(n.stack) = Append(SubSeq(KindsOf(m.stack), 1, Len(KindsOf(m.stack)) - size), "value")
            /\ n.args = m.args /\ n.outcome = m.outcome
            /\ (n.ec # NoCode) \in {m.ec # NoCode, TRUE}
<1> DEFINE n == Replaced(m, size, r)
           u == PushedTo(m, size, ValueParameter(r.val), 1)
           c == Written(u.ec, r.ec)
<1>1. n = [u EXCEPT !.ec = c]
  BY DEF Replaced
<1>2. /\ FrameOK(u)
      /\ u.toks = m.toks /\ u.i = m.i + 1
      /\ KindsOf(u.stack) = Append(SubSeq(KindsOf(m.stack), 1, Len(KindsOf(m.stack)) - size), "value")
      /\ u.args = m.args /\ u.ec = m.ec /\ u.outcome = m.outcome
  <2>1. size \in 0 .. Len(m.stack)
    BY DEF FrameOK, IsList
  <2> QED BY <2>1, PushedFrame, ValueKind
<1>3. (c # NoCode) \in {m.ec # NoCode, TRUE}
  BY <1>2, WrittenSets
<1> HIDE DEF u, c, n
<1>4. n = FrameOf(u.toks, u.i, u.root, u.stack, u.args, c, u.outcome, u.thrown)
  BY <1>1, <1>2, Update DEF FrameOK
<1>5. /\ IsFrame(n) /\ n.toks = u.toks /\ n.i = u.i /\ n.stack = u.stack
      /\ n.args = u.args /\ n.ec = c /\ n.outcome = u.outcome
  BY <1>4, PartsOf
<1>6. FrameOK(n)
  BY <1>2, <1>5 DEF FrameOK
<1> QED BY <1>2, <1>3, <1>5, <1>6 DEF n

(* The value on top becomes the root. *)
LEMMA PipedFrame ==
  ASSUME NEW m, FrameOK(m), NEW v
  PROVE  LET n == [m EXCEPT !.root = v, !.i = @ + 1]
         IN /\ FrameOK(n) /\ n.toks = m.toks /\ n.i = m.i + 1 /\ n.stack = m.stack
            /\ n.args = m.args /\ n.ec = m.ec /\ n.outcome = m.outcome
<1> DEFINE u == [m EXCEPT !.root = v]
           n == [m EXCEPT !.root = v, !.i = @ + 1]
           k == m.i + 1
<1>1. n = [u EXCEPT !.i = u.i + 1]
  OBVIOUS
<1>2. u = FrameOf(m.toks, m.i, v, m.stack, m.args, m.ec, m.outcome, m.thrown)
  BY Update DEF FrameOK
<1>3. k \in Nat \ {0}
  BY DEF FrameOK
<1> HIDE DEF u, n
<1>4. u.i = m.i
  BY <1>2, PartsOf
<1>5. n = [u EXCEPT !.i = k]
  BY <1>1, <1>4
<1> HIDE DEF k
<1>6. n = FrameOf(m.toks, k, v, m.stack, m.args, m.ec, m.outcome, m.thrown)
  BY <1>2, <1>5, Updates
<1>7. /\ IsFrame(n) /\ n.toks = m.toks /\ n.i = k /\ n.stack = m.stack
      /\ n.args = m.args /\ n.ec = m.ec /\ n.outcome = m.outcome
  BY <1>6, PartsOf
<1>8. FrameOK(n)
  BY <1>3, <1>7 DEF FrameOK
<1> QED BY <1>7, <1>8 DEF n, k

(* The parameter on top becomes the last argument. *)
LEMMA TakenFrame ==
  ASSUME NEW m, FrameOK(m), m.stack # <<>>
  PROVE  LET n == TokenArgument(m)
         IN /\ FrameOK(n) /\ n.toks = m.toks /\ n.i = m.i + 1
            /\ KindsOf(n.stack) = SubSeq(KindsOf(m.stack), 1, Len(KindsOf(m.stack)) - 1)
            /\ KindsOf(n.args) = Append(KindsOf(m.args), KindOf(Last(m.stack)))
            /\ n.ec = m.ec /\ n.outcome = m.outcome
<1> DEFINE q == Append(m.args, Last(m.stack))
           f == Front(m.stack)
           k == m.i + 1
           u == [m EXCEPT !.args = q]
           w == [u EXCEPT !.stack = f]
           n == TokenArgument(m)
<1>1. IsList(m.stack) /\ IsList(m.args)
  BY DEF FrameOK
<1>2. n = [m EXCEPT !.args = Append(@, Last(m.stack)), !.stack = Front(@), !.i = @ + 1]
  BY DEF TokenArgument
<1>3. u = FrameOf(m.toks, m.i, m.root, m.stack, q, m.ec, m.outcome, m.thrown)
  BY Update DEF FrameOK
<1>4. u.stack = m.stack
  <2> HIDE DEF q, u
  <2> QED BY <1>3, PartsOf
<1>5. w = FrameOf(m.toks, m.i, m.root, f, q, m.ec, m.outcome, m.thrown)
  <2> HIDE DEF q, u, f
  <2> QED BY <1>3, Updates
<1>6. w.i = m.i
  <2> HIDE DEF q, w, f
  <2> QED BY <1>5, PartsOf
<1>7. n = [w EXCEPT !.i = k]
  <2>1. n = [[u EXCEPT !.stack = Front(u.stack)] EXCEPT !.i = @ + 1]
    BY <1>2
  <2> QED BY <1>4, <1>6, <2>1
<1>8. n = FrameOf(m.toks, k, m.root, f, q, m.ec, m.outcome, m.thrown)
  <2> HIDE DEF q, w, f, n, k
  <2> QED BY <1>5, <1>7, Updates
<1>9. /\ IsFrame(n) /\ n.toks = m.toks /\ n.i = k /\ n.stack = f
      /\ n.args = q /\ n.ec = m.ec /\ n.outcome = m.outcome
  <2> HIDE DEF q, w, f, n, k
  <2> QED BY <1>8, PartsOf
<1>10. IsList(f) /\ KindsOf(f) = SubSeq(KindsOf(m.stack), 1, Len(KindsOf(m.stack)) - 1)
  BY <1>1, FrontOfList
<1>11. IsList(q) /\ KindsOf(q) = Append(KindsOf(m.args), KindOf(Last(m.stack)))
  BY <1>1, ListAppend, KindsOfAppend
<1>12. k \in Nat \ {0}
  BY DEF FrameOK
<1> HIDE DEF q, u, w, f, n
<1>13. FrameOK(n)
  BY <1>9, <1>10, <1>11, <1>12 DEF FrameOK
<1> QED BY <1>9, <1>10, <1>11, <1>13 DEF n

(* What a function returns is pushed, and its arguments are gone. *)
LEMMA ReturnedFrame ==
  ASSUME NEW m, FrameOK(m), NEW v
  PROVE  LET n == [PushedTo(m, 0, ValueParameter(v), 1) EXCEPT !.args = <<>>]
         IN /\ FrameOK(n) /\ n.toks = m.toks /\ n.i = m.i + 1
            /\ KindsOf(n.stack) = Append(KindsOf(m.stack), "value")
            /\ n.args = <<>> /\ n.ec = m.ec /\ n.outcome = m.outcome
<1> DEFINE u == PushedTo(m, 0, ValueParameter(v), 1)
           n == [u EXCEPT !.args = <<>>]
<1>1. /\ FrameOK(u) /\ u.toks = m.toks /\ u.i = m.i + 1
      /\ KindsOf(u.stack) = Append(SubSeq(KindsOf(m.stack), 1, Len(KindsOf(m.stack)) - 0), "value")
      /\ u.args = m.args /\ u.ec = m.ec /\ u.outcome = m.outcome
  <2>1. 0 \in 0 .. Len(m.stack)
    BY DEF FrameOK, IsList
  <2> QED BY <2>1, PushedFrame, ValueKind
<1>2. SubSeq(KindsOf(m.stack), 1, Len(KindsOf(m.stack)) - 0) = KindsOf(m.stack)
  BY Kinds, NothingCut DEF FrameOK
<1> HIDE DEF u
<1>3. n = FrameOf(u.toks, u.i, u.root, u.stack, <<>>, u.ec, u.outcome, u.thrown)
  BY <1>1, Update DEF FrameOK
<1> HIDE DEF n
<1>4. /\ IsFrame(n) /\ n.toks = u.toks /\ n.i = u.i /\ n.stack = u.stack
      /\ n.args = <<>> /\ n.ec = u.ec /\ n.outcome = u.outcome
  BY <1>3, PartsOf
<1>5. FrameOK(n)
  BY <1>1, <1>4, EmptyList DEF FrameOK
<1> QED BY <1>1, <1>2, <1>4, <1>5 DEF n, u

(* A token is passed over. *)
LEMMA PassedFrame ==
  ASSUME NEW m, FrameOK(m)
  PROVE  LET n == [m EXCEPT !.i = @ + 1]
         IN /\ FrameOK(n) /\ n.toks = m.toks /\ n.i = m.i + 1 /\ n.stack = m.stack
            /\ n.args = m.args /\ n.ec = m.ec /\ n.outcome = m.outcome
<1> DEFINE k == m.i + 1
           n == [m EXCEPT !.i = k]
<1>1. k \in Nat \ {0}
  BY DEF FrameOK
<1> HIDE DEF k
<1>2. n = FrameOf(m.toks, k, m.root, m.stack, m.args, m.ec, m.outcome, m.thrown)
  BY Update DEF FrameOK
<1> HIDE DEF n
<1>3. /\ IsFrame(n) /\ n.toks = m.toks /\ n.i = k /\ n.stack = m.stack
      /\ n.args = m.args /\ n.ec = m.ec /\ n.outcome = m.outcome
  BY <1>2, PartsOf
<1>4. FrameOK(n)
  BY <1>1, <1>3 DEF FrameOK
<1> QED BY <1>3, <1>4 DEF n, k

-----------------------------------------------------------------------------
(* What EvaluateTokens sees of a frame, and of one pass of the loop. *)
(* What EvaluateTokens sees of a frame. *)
LEMMA Seen ==
  ASSUME NEW m, NEW n, Watched = m, Watched' = n
  PROVE  /\ TokensIn(Watched.toks) = TokensIn(m.toks) /\ TokensIn(Watched.toks)' = TokensIn(n.toks)
         /\ KindsOf(Watched.stack) = KindsOf(m.stack) /\ KindsOf(Watched.stack)' = KindsOf(n.stack)
         /\ KindsOf(Watched.args) = KindsOf(m.args) /\ KindsOf(Watched.args)' = KindsOf(n.args)
         /\ (Watched.ec # NoCode) = (m.ec # NoCode) /\ (Watched.ec # NoCode)' = (n.ec # NoCode)
         /\ Watched.i = m.i /\ (Watched.i)' = n.i
         /\ Watched.outcome = m.outcome /\ (Watched.outcome)' = n.outcome
OBVIOUS

(* The tokens of a list, as EvaluateTokens sees them. *)
LEMMA TokenSeen ==
  ASSUME NEW l, IsList(l), TokensIn(l) \in Seq(Token)
  PROVE  /\ Len(TokensIn(l)) = Len(l)
         /\ \A k \in 1 .. Len(l) :
              /\ TokensIn(l)[k] = [kind |-> l[k].kind, oper |-> l[k].oper]
              /\ TokensIn(l)[k].kind = l[k].kind /\ TokensIn(l)[k].oper = l[k].oper
              /\ l[k].kind \in Stored \cup Closers
              /\ l[k].oper \in Opers \cup Functions
<1>1. DOMAIN l = 1 .. Len(l) /\ Len(l) \in Nat
  BY ListElements
<1>2. TokensIn(l) = [k \in 1 .. Len(l) |-> [kind |-> l[k].kind, oper |-> l[k].oper]]
  BY <1>1 DEF TokensIn
<1>3. Len(TokensIn(l)) = Len(l)
  BY <1>1, <1>2
<1>4. ASSUME NEW k \in 1 .. Len(l)
      PROVE  /\ TokensIn(l)[k] = [kind |-> l[k].kind, oper |-> l[k].oper]
             /\ TokensIn(l)[k] \in Token
  BY <1>1, <1>2, <1>3
<1>5. ASSUME NEW k \in 1 .. Len(l)
      PROVE  /\ TokensIn(l)[k].kind = l[k].kind /\ TokensIn(l)[k].oper = l[k].oper
             /\ l[k].kind \in Stored \cup Closers
             /\ l[k].oper \in Opers \cup Functions
  <2>1. \A x, y : [kind |-> x, oper |-> y] \in Token =>
                    x \in Stored \cup Closers /\ y \in Opers \cup Functions
    BY DEF Token
  <2>2. TokensIn(l)[k] = [kind |-> l[k].kind, oper |-> l[k].oper] /\ TokensIn(l)[k] \in Token
    BY <1>4
  <2>3. l[k].kind \in Stored \cup Closers /\ l[k].oper \in Opers \cup Functions
    BY <2>1, <2>2
  <2> QED BY <2>2, <2>3
<1> QED BY <1>3, <1>4, <1>5

(* The innermost call, at a token. *)
AtToken(m) ==
  /\ FrameOK(m) /\ m.outcome = "running"
  /\ IsList(m.toks) /\ TokensIn(m.toks) \in Seq(Token)
  /\ m.i <= Len(m.toks)

LEMMA Reading ==
  ASSUME NEW m, Watched = m, AtToken(m)
  PROVE  /\ m.i \in 1 .. Len(m.toks) /\ ~(m.i > Len(m.toks))
         /\ Len(TokensIn(Watched.toks)) = Len(m.toks)
         /\ Evaluation!t.kind = m.toks[m.i].kind /\ Evaluation!t.oper = m.toks[m.i].oper
         /\ m.toks[m.i].kind \in Stored \cup Closers
         /\ \A kind : Evaluation!At(kind) <=> m.toks[m.i].kind = kind
         /\ Len(KindsOf(Watched.stack)) = Len(m.stack) /\ Len(m.stack) \in Nat
         /\ \A k \in 1 .. Len(m.stack) :
              /\ KindsOf(Watched.stack)[k] = KindOf(m.stack[k])
              /\ KindsOf(Watched.stack)[k] = "value" <=> ~IsExpressionArgument(m.stack[k])
         /\ Len(KindsOf(Watched.args)) = Len(m.args)
<1>1. IsList(m.toks) /\ TokensIn(m.toks) \in Seq(Token)
  BY DEF AtToken
<1>2. m.i \in 1 .. Len(m.toks)
  BY DEF AtToken, FrameOK, IsList
<1>3. Len(TokensIn(m.toks)) = Len(m.toks)
  BY <1>1, TokenSeen
<1>4. /\ TokensIn(m.toks)[m.i].kind = m.toks[m.i].kind
      /\ TokensIn(m.toks)[m.i].oper = m.toks[m.i].oper
      /\ m.toks[m.i].kind \in Stored \cup Closers
  BY <1>1, <1>2, TokenSeen
<1>5. /\ TokensIn(Watched.toks) = TokensIn(m.toks)
      /\ KindsOf(Watched.stack) = KindsOf(m.stack) /\ KindsOf(Watched.args) = KindsOf(m.args)
  OBVIOUS
<1>6. Evaluation!t.kind = m.toks[m.i].kind /\ Evaluation!t.oper = m.toks[m.i].oper
  BY <1>4, <1>5 DEF Evaluation!t
<1>7. ASSUME NEW kind PROVE Evaluation!At(kind) <=> m.toks[m.i].kind = kind
  BY <1>2, <1>3, <1>5, <1>6 DEF Evaluation!At, AtToken
<1>8. IsList(m.stack) /\ IsList(m.args)
  BY DEF AtToken, FrameOK
<1>9. /\ Len(KindsOf(Watched.stack)) = Len(m.stack) /\ Len(m.stack) \in Nat
      /\ \A k \in 1 .. Len(m.stack) : KindsOf(Watched.stack)[k] = KindOf(m.stack[k])
  BY <1>5, <1>8, Kinds DEF IsList
<1>10. Len(KindsOf(Watched.args)) = Len(m.args)
  BY <1>5, <1>8, Kinds
<1>11. ASSUME NEW k \in 1 .. Len(m.stack)
       PROVE  KindsOf(Watched.stack)[k] = "value" <=> ~IsExpressionArgument(m.stack[k])
  BY <1>9 DEF KindOf
<1>12. ~(m.i > Len(m.toks))
  BY <1>2
<1> QED BY <1>2, <1>3, <1>4, <1>5, <1>6, <1>7, <1>9, <1>10, <1>11, <1>12

(* A parameter is put on the stack, for `size` others. *)
LEMMA Puts ==
  ASSUME NEW m, Watched = m, AtToken(m), NEW size \in 0 .. Len(m.stack),
         NEW p, NEW passed \in Nat, NEW n, n = PushedTo(m, size, p, passed), Watched' = n
  PROVE  /\ Evaluation!GoOn(passed, Append(Evaluation!Below(size), KindOf(p)))
         /\ Evaluation!Quietly
<1>1. FrameOK(m)
  BY DEF AtToken
<1>2. /\ n.toks = m.toks /\ n.i = m.i + passed
      /\ KindsOf(n.stack) = Append(SubSeq(KindsOf(m.stack), 1, Len(KindsOf(m.stack)) - size), KindOf(p))
      /\ n.args = m.args /\ n.ec = m.ec /\ n.outcome = m.outcome
  BY <1>1, PushedFrame
<1> QED BY <1>2, Seen DEF Evaluation!GoOn, Evaluation!Below, Evaluation!Quietly

(* The call ends here. *)
LEMMA Ends ==
  ASSUME NEW m, Watched = m, AtToken(m), NEW how \in CallOutcomes,
         NEW n, n = Stop(m, how), Watched' = n
  PROVE  Evaluation!EndWith(how)
<1>1. FrameOK(m)
  BY DEF AtToken
<1>2. /\ FrameOK(n) /\ n.toks = m.toks /\ n.i = m.i
      /\ n.stack = m.stack /\ n.args = m.args /\ n.ec = m.ec /\ n.outcome = how
  BY <1>1, StoppedFrame
<1> QED BY <1>2, Seen DEF Evaluation!EndWith

LEMMA ThrowsHere ==
  ASSUME NEW m, Watched = m, AtToken(m), NEW v,
         NEW n, n = Rethrow(m, v), Watched' = n
  PROVE  Evaluation!EndWith("throws")
<1>1. FrameOK(m)
  BY DEF AtToken
<1>2. /\ FrameOK(n) /\ n.toks = m.toks /\ n.i = m.i
      /\ n.stack = m.stack /\ n.args = m.args /\ n.ec = m.ec /\ n.outcome = "throws"
  BY <1>1, ThrowingFrame
<1> QED BY <1>2, Seen DEF Evaluation!EndWith

LEMMA ValueStep ==
  ASSUME NEW m, Watched = m, AtToken(m), Watched' = Step(m),
         m.toks[m.i].kind \in {"literal", "current_node"}
  PROVE  (Evaluation!literal \/ Evaluation!current_node)
<1>1. PICK v : Step(m) = PushedTo(m, 0, ValueParameter(v), 1)
  BY Reading, StepByKind
<1>2. 0 \in 0 .. Len(m.stack) /\ IsList(KindsOf(Watched.stack))
  <2>1. IsList(m.stack)
    BY DEF AtToken, FrameOK
  <2> QED BY <2>1, Kinds DEF IsList
<1>3. /\ Evaluation!GoOn(1, Append(Evaluation!Below(0), KindOf(ValueParameter(v))))
      /\ Evaluation!Quietly
  BY <1>1, <1>2, Puts
<1>4. Evaluation!Below(0) = KindsOf(Watched.stack)
  BY <1>2, NothingCut DEF Evaluation!Below
<1>5. Evaluation!At("literal") \/ Evaluation!At("current_node")
  BY Reading
<1> QED BY <1>3, <1>4, <1>5, ValueKind DEF Evaluation!literal, Evaluation!current_node

LEMMA ArgumentStep ==
  ASSUME NEW m, Watched = m, AtToken(m), Watched' = Step(m),
         m.toks[m.i].kind = "begin_expression_type"
  PROVE  Evaluation!begin_expression_type
<1>1. Step(m) = TokenExpressionType(m)
  BY Reading, StepByKind
<1>2. Evaluation!At("begin_expression_type")
  BY Reading
<1>3. /\ IsList(m.toks) /\ m.i \in 1 .. Len(m.toks) /\ Len(m.toks) \in Nat
      /\ IsList(m.stack) /\ Len(m.stack) \in Nat
  BY Reading DEF AtToken, FrameOK, IsList
<1>4. Evaluation!Holds(1) <=> m.stack # <<>>
  BY <1>3, Reading, NotEmpty, EmptyList DEF Evaluation!Holds
<1>5. m.i + 1 <= Len(TokensIn(Watched.toks)) <=> m.i < Len(m.toks)
  BY <1>3, Reading
<1>8. m.i < Len(m.toks) => TokensIn(Watched.toks)[m.i + 1].kind = m.toks[m.i + 1].kind
  <2>1. TokensIn(m.toks) \in Seq(Token)
    BY DEF AtToken
  <2>2. m.i < Len(m.toks) => m.i + 1 \in 1 .. Len(m.toks)
    BY <1>3
  <2> QED BY <1>3, <2>1, <2>2, TokenSeen
<1>6. CASE m.i < Len(m.toks) /\ m.stack # <<>> /\ m.toks[m.i + 1].kind = "expression"
  <2>1. Step(m) = PushedTo(m, 1, ExpressionArgument(m.toks[m.i + 1].of), 2)
    BY <1>1, <1>6 DEF TokenExpressionType
  <2>2. 1 \in 0 .. Len(m.stack)
    BY <1>3, <1>6, NotEmpty
  <2>3. /\ Evaluation!GoOn(2, Append(Evaluation!Below(1), "expression"))
        /\ Evaluation!Quietly
      BY <2>1, <2>2, Puts, ArgumentKind
  <2>4. TokensIn(Watched.toks)[m.i + 1].kind = "expression"
    BY <1>6, <1>8
  <2> QED BY <1>2, <1>4, <1>5, <1>6, <2>3, <2>4 DEF Evaluation!begin_expression_type
<1>7. CASE ~(m.i < Len(m.toks) /\ m.stack # <<>> /\ m.toks[m.i + 1].kind = "expression")
  <2>1. Step(m) = Stop(m, "assertion")
    BY <1>1, <1>7 DEF TokenExpressionType
  <2>2. Evaluation!EndWith("assertion")
    BY <2>1, Ends DEF CallOutcomes
  <2> QED BY <1>2, <1>4, <1>5, <1>7, <1>8, <2>2 DEF Evaluation!begin_expression_type
<1> QED BY <1>6, <1>7

(* The value of what was evaluated, an exception, or a value with an ec. *)
LEMMA ReplacedStep ==
  ASSUME NEW m, Watched = m, AtToken(m), NEW size \in 1 .. Len(m.stack), NEW r,
         Watched' = Replaced(m, size, r), Evaluation!Holds(size), Evaluation!Values(size)
  PROVE  Evaluation!Apply(size)
<1> DEFINE n == Replaced(m, size, r)
<1>1. CASE IsThrown(r.val)
  <2>1. n = Rethrow(m, r.val)
    BY <1>1 DEF Replaced
  <2>2. Evaluation!EndWith("throws")
    BY <2>1, ThrowsHere
  <2> QED BY <2>2 DEF Evaluation!Apply, Evaluation!MayThrow
<1>2. CASE ~IsThrown(r.val)
  <2>1. /\ n.toks = m.toks /\ n.i = m.i + 1
        /\ KindsOf(n.stack) = Append(SubSeq(KindsOf(m.stack), 1, Len(KindsOf(m.stack)) - size), "value")
        /\ n.args = m.args /\ n.outcome = m.outcome
        /\ (n.ec # NoCode) \in {m.ec # NoCode, TRUE}
    BY <1>2, ReplacedFrame DEF AtToken
  <2>2. Watched' = n
    OBVIOUS
  <2> HIDE DEF n
  <2>3. Evaluation!GoOn(1, Append(Evaluation!Below(size), "value"))
    BY <2>1, <2>2, Seen DEF Evaluation!GoOn, Evaluation!Below
  <2>4. Evaluation!MaySetEc
    BY <2>1, <2>2, Seen DEF Evaluation!MaySetEc
  <2> QED BY <2>3, <2>4 DEF Evaluation!Apply
<1> QED BY <1>1, <1>2

LEMMA AppliedStep ==
  ASSUME NEW m, Watched = m, AtToken(m), Watched' = Step(m),
         m.toks[m.i].kind \in {"expression", "unary_operator", "binary_operator"}
  PROVE  Evaluation!expression \/ Evaluation!unary_operator \/ Evaluation!binary_operator
<1> DEFINE tok   == m.toks[m.i]
           size  == IF tok.kind = "binary_operator" THEN 2 ELSE 1
           below == Len(m.stack) - size
           r     == Compute(tok, [k \in 1 .. size |-> ValueOf(m.stack[below + k])], m.ec)
<1>1. Step(m) = AppliedTo(m)
  BY Reading, StepByKind
<1>2. Len(m.stack) \in Nat /\ Len(KindsOf(Watched.stack)) = Len(m.stack)
  BY Reading
<1>3. Evaluation!Holds(size) <=> ~(Len(m.stack) < size)
  BY <1>2 DEF Evaluation!Holds
<1>4. ASSUME ~(Len(m.stack) < size)
      PROVE  Evaluation!Values(size) <=> ~\E k \in 1 .. size : IsExpressionArgument(m.stack[below + k])
  <2>1. \A k \in 1 .. Len(m.stack) : KindsOf(Watched.stack)[k] = "value" <=> ~IsExpressionArgument(m.stack[k])
    BY Reading
  <2>0. size \in Nat /\ size <= Len(m.stack)
    BY <1>2, <1>4
  <2>6. below \in Nat /\ Len(m.stack) = below + size
    BY <1>2, <2>0
  <2> HIDE DEF size, below
  <2>2. ASSUME NEW k \in 1 .. size
        PROVE  below + k \in Len(m.stack) - size + 1 .. Len(m.stack) /\ below + k \in 1 .. Len(m.stack)
    BY <1>2, <2>0, <2>6
  <2>3. ASSUME NEW k \in Len(m.stack) - size + 1 .. Len(m.stack)
        PROVE  k - below \in 1 .. size /\ k = below + (k - below) /\ k \in 1 .. Len(m.stack)
    BY <1>2, <2>0, <2>6
  <2>4. ASSUME Evaluation!Values(size), NEW k \in 1 .. size
        PROVE  ~IsExpressionArgument(m.stack[below + k])
    BY <1>2, <2>1, <2>2, <2>4 DEF Evaluation!Values
  <2>5. ASSUME ~\E k \in 1 .. size : IsExpressionArgument(m.stack[below + k])
        PROVE  Evaluation!Values(size)
    <3>1. ASSUME NEW k \in Len(m.stack) - size + 1 .. Len(m.stack) PROVE KindsOf(Watched.stack)[k] = "value"
      <4>1. k - below \in 1 .. size /\ k = below + (k - below) /\ k \in 1 .. Len(m.stack)
        BY <2>3
      <4>2. ~IsExpressionArgument(m.stack[k])
        BY <2>5, <4>1
      <4> QED BY <2>1, <4>1, <4>2
    <3> QED BY <1>2, <3>1 DEF Evaluation!Values
  <2> QED BY <2>4, <2>5
<1>5. Evaluation!Apply(size)
  <2>1. CASE Len(m.stack) < size
    <3>1. Step(m) = Stop(m, "assertion")
      BY <1>1, <2>1 DEF AppliedTo, Applied, Operands, Taken
    <3>2. Evaluation!EndWith("assertion")
      BY <3>1, Ends DEF CallOutcomes
    <3> QED BY <1>3, <2>1, <3>2 DEF Evaluation!Apply
  <2>2. CASE ~(Len(m.stack) < size) /\ \E k \in 1 .. size : IsExpressionArgument(m.stack[below + k])
    <3>1. Step(m) = Stop(m, "undefined")
      BY <1>1, <2>2 DEF AppliedTo, Applied, Operands, Taken
    <3>2. Evaluation!EndWith("undefined")
      BY <3>1, Ends DEF CallOutcomes
    <3>3. Evaluation!Holds(size) /\ ~Evaluation!Values(size)
      BY <1>3, <1>4, <2>2
    <3> HIDE DEF size
    <3> QED BY <3>2, <3>3 DEF Evaluation!Apply
  <2>3. CASE ~(Len(m.stack) < size) /\ ~\E k \in 1 .. size : IsExpressionArgument(m.stack[below + k])
    <3>1. Step(m) = Replaced(m, size, r)
      BY <1>1, <2>3 DEF AppliedTo, Applied, Operands, Taken
    <3>2. Evaluation!Holds(size) /\ Evaluation!Values(size) /\ size \in 1 .. Len(m.stack)
      BY <1>2, <1>3, <1>4, <2>3
    <3> HIDE DEF size, r
    <3> QED BY <3>1, <3>2, ReplacedStep
  <2> QED BY <2>1, <2>2, <2>3
<1>6. /\ tok.kind = "expression" => Evaluation!At("expression") /\ size = 1
      /\ tok.kind = "unary_operator" => Evaluation!At("unary_operator") /\ size = 1
      /\ tok.kind = "binary_operator" => Evaluation!At("binary_operator") /\ size = 2
  BY Reading
<1> HIDE DEF size, below
<1> QED BY <1>5, <1>6 DEF Evaluation!expression, Evaluation!unary_operator, Evaluation!binary_operator

LEMMA PipeStep ==
  ASSUME NEW m, Watched = m, AtToken(m), Watched' = Step(m),
         m.toks[m.i].kind = "pipe"
  PROVE  Evaluation!pipe
<1>1. Step(m) = TokenPipe(m) /\ Evaluation!At("pipe")
  BY Reading, StepByKind
<1>2. IsList(m.stack) /\ FrameOK(m)
  BY DEF AtToken, FrameOK
<1>3. CASE m.stack = <<>>
  <2>1. Step(m) = Stop(m, "assertion")
    BY <1>1, <1>3 DEF TokenPipe
  <2>2. Evaluation!EndWith("assertion")
    BY <2>1, Ends DEF CallOutcomes
  <2>3. ~Evaluation!Holds(1)
    BY <1>3, Reading, EmptyList DEF Evaluation!Holds
  <2> QED BY <1>1, <2>2, <2>3 DEF Evaluation!pipe
<1>4. CASE m.stack # <<>>
  <2>1. /\ Evaluation!Holds(1)
        /\ Evaluation!Values(1) <=> ~IsExpressionArgument(Last(m.stack))
    <3>1. Len(m.stack) >= 1 /\ Len(m.stack) \in Nat /\ Last(m.stack) = m.stack[Len(m.stack)]
      BY <1>2, <1>4, NotEmpty, LastOfList
    <3>2. /\ Len(KindsOf(Watched.stack)) = Len(m.stack)
          /\ KindsOf(Watched.stack)[Len(m.stack)] = "value" <=> ~IsExpressionArgument(Last(m.stack))
      BY <3>1, Reading
    <3>3. Evaluation!Holds(1)
      BY <3>1, <3>2 DEF Evaluation!Holds
    <3>4. Evaluation!Values(1) <=> KindsOf(Watched.stack)[Len(m.stack)] = "value"
      BY <3>1, <3>2 DEF Evaluation!Values
    <3> QED BY <3>2, <3>3, <3>4
  <2>2. CASE IsExpressionArgument(Last(m.stack))
    <3>1. Step(m) = Stop(m, "undefined")
      BY <1>1, <1>4, <2>2 DEF TokenPipe
    <3>2. Evaluation!EndWith("undefined")
      BY <3>1, Ends DEF CallOutcomes
    <3> QED BY <1>1, <2>1, <2>2, <3>2 DEF Evaluation!pipe
  <2>3. CASE ~IsExpressionArgument(Last(m.stack))
    <3> DEFINE n == Step(m)
    <3>1. n = [m EXCEPT !.root = ValueOf(Last(m.stack)), !.i = @ + 1]
      BY <1>1, <1>4, <2>3 DEF TokenPipe
    <3>2. Watched' = n
      OBVIOUS
    <3> HIDE DEF n
    <3>3. /\ n.toks = m.toks /\ n.i = m.i + 1 /\ n.stack = m.stack
          /\ n.args = m.args /\ n.ec = m.ec /\ n.outcome = m.outcome
      <4> DEFINE v == ValueOf(Last(m.stack))
      <4>1. n = [m EXCEPT !.root = v, !.i = @ + 1]
        BY <3>1
      <4> HIDE DEF v
      <4> QED BY <1>2, <4>1, PipedFrame
    <3>4. Evaluation!GoOn(1, KindsOf(Watched.stack)) /\ Evaluation!Quietly
      BY <3>2, <3>3, Seen DEF Evaluation!GoOn, Evaluation!Quietly
    <3> QED BY <1>1, <2>1, <2>3, <3>4 DEF Evaluation!pipe
  <2> QED BY <2>2, <2>3
<1> QED BY <1>3, <1>4

LEMMA TakenStep ==
  ASSUME NEW m, Watched = m, AtToken(m), Watched' = Step(m),
         m.toks[m.i].kind = "argument"
  PROVE  Evaluation!argument
<1>1. Step(m) = TokenArgument(m) /\ Evaluation!At("argument")
  BY Reading, StepByKind
<1>2. IsList(m.stack) /\ IsList(m.args) /\ FrameOK(m)
  BY DEF AtToken, FrameOK
<1>3. CASE m.stack = <<>>
  <2>1. Step(m) = Stop(m, "assertion")
    BY <1>1, <1>3 DEF TokenArgument
  <2>2. Evaluation!EndWith("assertion")
    BY <2>1, Ends DEF CallOutcomes
  <2>3. ~Evaluation!Holds(1)
    BY <1>3, Reading, EmptyList DEF Evaluation!Holds
  <2> QED BY <1>1, <2>2, <2>3 DEF Evaluation!argument
<1>4. CASE m.stack # <<>>
  <2> DEFINE n == Step(m)
  <2>1. /\ n.toks = m.toks /\ n.i = m.i + 1
        /\ KindsOf(n.stack) = SubSeq(KindsOf(m.stack), 1, Len(KindsOf(m.stack)) - 1)
        /\ KindsOf(n.args) = Append(KindsOf(m.args), KindOf(Last(m.stack)))
        /\ n.ec = m.ec /\ n.outcome = m.outcome
    BY <1>1, <1>2, <1>4, TakenFrame
  <2>2. Evaluation!Holds(1) /\ Last(KindsOf(Watched.stack)) = KindOf(Last(m.stack))
    <3>1. Len(m.stack) >= 1 /\ Len(m.stack) \in Nat
      BY <1>2, <1>4, NotEmpty
    <3>2. KindsOf(m.stack)[Len(m.stack)] = KindOf(Last(m.stack)) /\ Len(KindsOf(m.stack)) = Len(m.stack)
      BY <1>2, <1>4, LastOfList, Kinds
    <3> QED BY <3>1, <3>2 DEF Evaluation!Holds, Last
  <2>3. Watched' = n
    OBVIOUS
  <2> HIDE DEF n
  <2>4. Evaluation!GoOn(1, Evaluation!Below(1))
    BY <2>1, <2>3, Seen DEF Evaluation!GoOn, Evaluation!Below
  <2>5. /\ KindsOf(Watched.args)' = Append(KindsOf(Watched.args), Last(KindsOf(Watched.stack)))
        /\ (Watched.ec # NoCode)' = (Watched.ec # NoCode)
    BY <2>1, <2>2, <2>3, Seen
  <2> QED BY <1>1, <2>2, <2>4, <2>5 DEF Evaluation!argument, Evaluation!Last, Last
<1> QED BY <1>3, <1>4

(* The call ends with null and an error. *)
LEMMA FailsHere ==
  ASSUME NEW m, Watched = m, AtToken(m), NEW code, code # NoCode,
         m.toks[m.i].kind = "function",
         NEW n, n = [Stop(m, "null") EXCEPT !.ec = code], Watched' = n
  PROVE  Evaluation!function
<1>1. FrameOK(m) /\ Evaluation!At("function")
  BY Reading DEF AtToken
<1>2. /\ FrameOK(n) /\ n.toks = m.toks /\ n.i = m.i
      /\ n.stack = m.stack /\ n.args = m.args /\ n.ec = code /\ n.outcome = "null"
  BY <1>1, FailedFrame
<1>3. /\ (Watched.outcome)' = "null" /\ (Watched.ec # NoCode)' = TRUE
      /\ TokensIn(Watched.toks)' = TokensIn(Watched.toks) /\ (Watched.i)' = Watched.i
      /\ KindsOf(Watched.stack)' = KindsOf(Watched.stack) /\ KindsOf(Watched.args)' = KindsOf(Watched.args)
  BY <1>2, Seen
<1> QED BY <1>1, <1>2, <1>3 DEF Evaluation!function

LEMMA FunctionStep ==
  ASSUME NEW m, Watched = m, AtToken(m), Watched' = Step(m),
         m.toks[m.i].kind = "function"
  PROVE  Evaluation!function
<1> DEFINE name == m.toks[m.i].oper
           r    == CallFunction(name, Passed(m.args), m.ec)
           n    == Step(m)
<1>1. n = CalledBy(m) /\ Evaluation!At("function") /\ Evaluation!t.oper = name
  BY Reading, StepByKind
<1>2. Len(KindsOf(Watched.args)) = Len(m.args) /\ FrameOK(m)
  BY Reading DEF AtToken
<1>3. CASE FunctionArity[name] \notin {AnyArity, Len(m.args)}
  <2>1. n = [Stop(m, "null") EXCEPT !.ec = "invalid_arity"]
    BY <1>1, <1>3 DEF CalledBy, TokenFunction
  <2>2. "invalid_arity" # NoCode
    BY DEF NoCode
  <2> QED BY <2>1, <2>2, FailsHere
<1>4. CASE FunctionArity[name] \in {AnyArity, Len(m.args)}
  <2>1. n = AfterCall(m, r)
    BY <1>1, <1>4 DEF CalledBy, TokenFunction
  <2>2. FunctionArity[Evaluation!t.oper] \in {Evaluation!AnyArity, Len(KindsOf(Watched.args))}
    BY <1>1, <1>2, <1>4 DEF Evaluation!AnyArity, AnyArity
  <2>3. Watched' = n
    OBVIOUS
  <2> HIDE DEF r, n
  <2>4. CASE IsThrown(r)
    <3>1. n = Rethrow(m, r)
      BY <2>1, <2>4 DEF AfterCall
    <3>2. Evaluation!EndWith("throws")
      BY <2>3, <3>1, ThrowsHere
    <3> QED BY <1>1, <2>2, <3>2 DEF Evaluation!function, Evaluation!MayThrow, n
  <2>5. CASE ~IsThrown(r) /\ ErrorAfter(m, r) # NoCode
    <3>1. n = [Stop(m, "null") EXCEPT !.ec = ErrorAfter(m, r)]
      BY <2>1, <2>5 DEF AfterCall
    <3>2. Evaluation!function
      BY <2>3, <2>5, <3>1, FailsHere
    <3> QED BY <3>2 DEF n
  <2>6. CASE ~IsThrown(r) /\ ErrorAfter(m, r) = NoCode
    <3>1. n = [PushedTo(m, 0, ValueParameter(r), 1) EXCEPT !.args = <<>>]
      BY <2>1, <2>6 DEF AfterCall
    <3>2. /\ n.toks = m.toks /\ n.i = m.i + 1
          /\ KindsOf(n.stack) = Append(KindsOf(m.stack), "value")
          /\ n.args = <<>> /\ n.ec = m.ec /\ n.outcome = m.outcome
      BY <1>2, <3>1, ReturnedFrame
    <3>3. m.ec = NoCode
      BY <2>6 DEF ErrorAfter, Written
    <3>4. Evaluation!GoOn(1, Append(KindsOf(Watched.stack), "value"))
      BY <2>3, <3>2, Seen DEF Evaluation!GoOn
    <3>5. /\ KindsOf(Watched.args)' = <<>> /\ ~(Watched.ec # NoCode)
          /\ (Watched.ec # NoCode)' = (Watched.ec # NoCode)
      BY <2>3, <3>2, <3>3, Seen, KindsOfEmpty
    <3> QED BY <1>1, <2>2, <3>4, <3>5 DEF Evaluation!function
  <2> QED BY <2>4, <2>5, <2>6
<1> QED BY <1>3, <1>4

LEMMA IgnoredStep ==
  ASSUME NEW m, Watched = m, AtToken(m), Watched' = Step(m),
         m.toks[m.i].kind \notin {"literal", "current_node", "begin_expression_type", "expression",
                                  "unary_operator", "binary_operator", "pipe", "argument", "function"}
  PROVE  Evaluation!ignored
<1> DEFINE n == Step(m)
<1>1. n = [m EXCEPT !.i = @ + 1]
  BY Reading, StepByKind
<1>2. FrameOK(m) /\ m.outcome = "running" /\ m.i <= Len(m.toks)
  BY DEF AtToken
<1>3. Watched' = n
  OBVIOUS
<1> HIDE DEF n
<1>4. /\ n.toks = m.toks /\ n.i = m.i + 1 /\ n.stack = m.stack
      /\ n.args = m.args /\ n.ec = m.ec /\ n.outcome = m.outcome
  BY <1>1, <1>2, PassedFrame
<1>8. Evaluation!GoOn(1, KindsOf(Watched.stack)) /\ Evaluation!Quietly
  BY <1>3, <1>4, Seen DEF Evaluation!GoOn, Evaluation!Quietly
<1>9. /\ Watched.outcome = "running" /\ Watched.i <= Len(TokensIn(Watched.toks))
      /\ Evaluation!t.kind = m.toks[m.i].kind /\ m.toks[m.i].kind \in Stored \cup Closers
  BY <1>2, Reading
<1>10. Evaluation!t.kind \in {"separator", "key", "lparen"}
                            \cup (Evaluation!Openers \ {"function"}) \cup Evaluation!Closers
  BY <1>9 DEF Stored, Openers, Closers, Evaluation!Openers, Evaluation!Closers
<1> QED BY <1>8, <1>9, <1>10 DEF Evaluation!ignored

LEMMA FinishedStep ==
  ASSUME NEW m, Watched = m, FrameOK(m), m.outcome = "running",
         IsList(m.toks), TokensIn(m.toks) \in Seq(Token), m.i > Len(m.toks),
         Watched' = Step(m)
  PROVE  Evaluation!finish
<1>1. Step(m) = Finished(m)
  BY DEF Step, Pass, AppliedTo, CalledBy
<1>2. IsList(m.stack) /\ Len(TokensIn(Watched.toks)) = Len(m.toks)
  BY TokenSeen DEF FrameOK
<1>3. /\ Len(KindsOf(Watched.stack)) = Len(m.stack)
      /\ Len(m.stack) = 1 => (KindsOf(Watched.stack)[1] = "value" <=> ~IsExpressionArgument(m.stack[1]))
  <2>1. KindsOf(Watched.stack) = KindsOf(m.stack)
    OBVIOUS
  <2> QED BY <1>2, <2>1, Kinds DEF KindOf
<1>4. ASSUME NEW how \in CallOutcomes, Step(m) = Stop(m, how)
      PROVE  Evaluation!EndWith(how)
  <2>1. /\ Step(m).toks = m.toks /\ Step(m).i = m.i
        /\ Step(m).stack = m.stack /\ Step(m).args = m.args /\ Step(m).ec = m.ec
        /\ Step(m).outcome = how
    BY <1>4, StoppedFrame
  <2> QED BY <2>1, Seen DEF Evaluation!EndWith
<1>5. CASE Len(m.stack) # 1
  <2>1. Step(m) = Stop(m, "assertion")
    BY <1>1, <1>5 DEF Finished
  <2>2. Evaluation!EndWith("assertion")
    BY <1>4, <2>1 DEF CallOutcomes
  <2> QED BY <1>2, <1>3, <1>5, <2>2 DEF Evaluation!finish
<1>6. CASE Len(m.stack) = 1 /\ IsExpressionArgument(m.stack[1])
  <2>1. Step(m) = Stop(m, "undefined")
    BY <1>1, <1>6 DEF Finished
  <2>2. Evaluation!EndWith("undefined")
    BY <1>4, <2>1 DEF CallOutcomes
  <2> QED BY <1>2, <1>3, <1>6, <2>2 DEF Evaluation!finish
<1>7. CASE Len(m.stack) = 1 /\ ~IsExpressionArgument(m.stack[1])
  <2>1. Step(m) = Stop(m, "value")
    BY <1>1, <1>7 DEF Finished
  <2>2. Evaluation!EndWith("value")
    BY <1>4, <2>1 DEF CallOutcomes
  <2> QED BY <1>2, <1>3, <1>7, <2>2 DEF Evaluation!finish
<1> QED BY <1>5, <1>6, <1>7

(* A pass of the loop does what EvaluateTokens says of its token. *)
LEMMA MachineStep ==
  ASSUME NEW m, Watched = m, FrameOK(m), m.outcome = "running",
         IsList(m.toks), TokensIn(m.toks) \in Seq(Token), Watched' = Step(m)
  PROVE  Evaluation!Next
<1>1. CASE m.i > Len(m.toks)
  BY <1>1, FinishedStep DEF Evaluation!Next
<1>2. CASE ~(m.i > Len(m.toks))
  <2>1. AtToken(m)
    BY <1>2 DEF AtToken, FrameOK, IsList
  <2>2. CASE m.toks[m.i].kind \in {"literal", "current_node"}
    BY <2>1, <2>2, ValueStep DEF Evaluation!Next
  <2>3. CASE m.toks[m.i].kind = "begin_expression_type"
    BY <2>1, <2>3, ArgumentStep DEF Evaluation!Next
  <2>4. CASE m.toks[m.i].kind \in {"expression", "unary_operator", "binary_operator"}
    BY <2>1, <2>4, AppliedStep DEF Evaluation!Next
  <2>5. CASE m.toks[m.i].kind = "pipe"
    BY <2>1, <2>5, PipeStep DEF Evaluation!Next
  <2>6. CASE m.toks[m.i].kind = "argument"
    BY <2>1, <2>6, TakenStep DEF Evaluation!Next
  <2>7. CASE m.toks[m.i].kind = "function"
    BY <2>1, <2>7, FunctionStep DEF Evaluation!Next
  <2>8. CASE m.toks[m.i].kind \notin {"literal", "current_node", "begin_expression_type", "expression",
                                      "unary_operator", "binary_operator", "pipe", "argument", "function"}
    BY <2>1, <2>8, IgnoredStep DEF Evaluation!Next
  <2> QED BY <2>2, <2>3, <2>4, <2>5, <2>6, <2>7, <2>8
<1> QED BY <1>1, <1>2

-----------------------------------------------------------------------------
(* The calls of evaluate_tokens, one inside the other. *)
LEMMA ReplacedIsFrame ==
  ASSUME NEW m, FrameOK(m), NEW size \in 1 .. Len(m.stack), NEW r
  PROVE  FrameOK(Replaced(m, size, r))
<1>1. CASE IsThrown(r.val)
  BY <1>1, ThrowingFrame DEF Replaced
<1>2. CASE ~IsThrown(r.val)
  BY <1>2, ReplacedFrame
<1> QED BY <1>1, <1>2

(* A pass of the loop leaves a frame, whatever the tokens are. *)
LEMMA StepIsFrame ==
  ASSUME NEW m, FrameOK(m)
  PROVE  FrameOK(Step(m))
<1> USE DEF CallOutcomes
<1>1. IsList(m.stack) /\ Len(m.stack) \in Nat
  BY DEF FrameOK, IsList
<1>2. CASE m.i > Len(m.toks)
  <2>1. Step(m) = Finished(m)
    BY <1>2 DEF Step, Pass, AppliedTo, CalledBy
  <2> QED BY <2>1, StoppedFrame DEF Finished
<1>3. CASE ~(m.i > Len(m.toks))
  <2> DEFINE kind == m.toks[m.i].kind
  <2>1. CASE kind = "literal"
    BY <1>1, <1>3, <2>1, StepByKind, PushedFrame
  <2>2. CASE kind = "current_node"
    BY <1>1, <1>3, <2>2, StepByKind, PushedFrame
  <2>3. CASE kind = "begin_expression_type"
    <3>1. Step(m) = TokenExpressionType(m)
      BY <1>3, <2>3, StepByKind
    <3>2. CASE m.i < Len(m.toks) /\ m.stack # <<>> /\ m.toks[m.i + 1].kind = "expression"
      <4>1. Step(m) = PushedTo(m, 1, ExpressionArgument(m.toks[m.i + 1].of), 2)
        BY <3>1, <3>2 DEF TokenExpressionType
      <4>2. 1 \in 0 .. Len(m.stack)
        BY <1>1, <3>2, NotEmpty
      <4> QED BY <4>1, <4>2, PushedFrame
    <3>3. CASE ~(m.i < Len(m.toks) /\ m.stack # <<>> /\ m.toks[m.i + 1].kind = "expression")
      BY <3>1, <3>3, StoppedFrame DEF TokenExpressionType
    <3> QED BY <3>2, <3>3
  <2>4. CASE kind \in {"expression", "unary_operator", "binary_operator"}
    <3> DEFINE size  == IF m.toks[m.i].kind = "binary_operator" THEN 2 ELSE 1
               below == Len(m.stack) - size
               r     == Compute(m.toks[m.i], [k \in 1 .. size |-> ValueOf(m.stack[below + k])], m.ec)
    <3>1. Step(m) = AppliedTo(m)
      BY <1>3, <2>4, StepByKind
    <3>2. CASE Len(m.stack) < size
      BY <3>1, <3>2, StoppedFrame DEF AppliedTo, Applied, Operands, Taken
    <3>3. CASE ~(Len(m.stack) < size) /\ \E k \in 1 .. size : IsExpressionArgument(m.stack[below + k])
      BY <3>1, <3>3, StoppedFrame DEF AppliedTo, Applied, Operands, Taken
    <3>4. CASE ~(Len(m.stack) < size) /\ ~\E k \in 1 .. size : IsExpressionArgument(m.stack[below + k])
      <4>1. Step(m) = Replaced(m, size, r)
        BY <3>1, <3>4 DEF AppliedTo, Applied, Operands, Taken
      <4>2. size \in 1 .. Len(m.stack)
        BY <1>1, <3>4
      <4> HIDE DEF size, r
      <4> QED BY <4>1, <4>2, ReplacedIsFrame
    <3> QED BY <3>2, <3>3, <3>4
  <2>5. CASE kind = "pipe"
    <3>1. Step(m) = TokenPipe(m)
      BY <1>3, <2>5, StepByKind
    <3>2. FrameOK([m EXCEPT !.root = ValueOf(Last(m.stack)), !.i = @ + 1])
      <4> DEFINE v == ValueOf(Last(m.stack))
      <4> HIDE DEF v
      <4>1. FrameOK([m EXCEPT !.root = v, !.i = @ + 1])
        BY PipedFrame
      <4> QED BY <4>1 DEF v
    <3> QED BY <3>1, <3>2, StoppedFrame DEF TokenPipe
  <2>6. CASE kind = "argument"
    <3>1. Step(m) = TokenArgument(m)
      BY <1>3, <2>6, StepByKind
    <3>2. CASE m.stack = <<>>
      BY <3>1, <3>2, StoppedFrame DEF TokenArgument
    <3>3. CASE m.stack # <<>>
      BY <3>1, <3>3, TakenFrame
    <3> QED BY <3>2, <3>3
  <2>7. CASE kind = "function"
    <3> DEFINE r == CallFunction(m.toks[m.i].oper, Passed(m.args), m.ec)
    <3>1. \/ Step(m) = [Stop(m, "null") EXCEPT !.ec = "invalid_arity"]
          \/ Step(m) = AfterCall(m, r)
      BY <1>3, <2>7, StepByKind DEF CalledBy, TokenFunction
    <3> HIDE DEF r
    <3>2. \/ Step(m) = [Stop(m, "null") EXCEPT !.ec = "invalid_arity"]
          \/ Step(m) = Rethrow(m, r)
          \/ Step(m) = [Stop(m, "null") EXCEPT !.ec = ErrorAfter(m, r)]
          \/ Step(m) = [PushedTo(m, 0, ValueParameter(r), 1) EXCEPT !.args = <<>>]
      BY <3>1 DEF AfterCall
    <3>3. FrameOK([Stop(m, "null") EXCEPT !.ec = "invalid_arity"])
      BY FailedFrame
    <3>4. FrameOK([Stop(m, "null") EXCEPT !.ec = ErrorAfter(m, r)])
      BY FailedFrame
    <3>5. FrameOK(Rethrow(m, r))
      BY ThrowingFrame
    <3>6. FrameOK([PushedTo(m, 0, ValueParameter(r), 1) EXCEPT !.args = <<>>])
      BY ReturnedFrame
    <3> QED BY <3>2, <3>3, <3>4, <3>5, <3>6
  <2>8. CASE kind \notin {"literal", "current_node", "begin_expression_type", "expression",
                          "unary_operator", "binary_operator", "pipe", "argument", "function"}
    BY <1>3, <2>8, StepByKind, PassedFrame
  <2> QED BY <2>1, <2>2, <2>3, <2>4, <2>5, <2>6, <2>7, <2>8
<1> QED BY <1>2, <1>3

-----------------------------------------------------------------------------
(* A call that waits for another one is at a function_expression. *)
Waits(m) ==
  /\ m.outcome = "running"
  /\ m.i <= Len(m.toks) /\ m.stack # <<>>
  /\ m.toks[m.i].kind = "expression"
  /\ ~IsExpressionArgument(Last(m.stack))

FramesOK ==
  /\ IsList(frames)
  /\ frames = <<>> <=> entry = "idle"
  /\ \A d \in 1 .. Len(frames) :
       /\ FrameOK(frames[d])
       /\ d < Len(frames) => Waits(frames[d])

IInv == TypeOK /\ FramesOK

LEMMA InitInv == Init => IInv
<1> SUFFICES ASSUME Init PROVE IInv
  OBVIOUS
<1>1. FramesOK
  BY EmptyList DEF Init, FramesOK
<1>2. Sources[source].calls \in Nat
  BY SearchAssumption DEF Init
<1>3. TypeOK
  BY <1>2 DEF Init, TypeOK, Unmade
<1> QED BY <1>1, <1>3 DEF IInv

LEMMA OneFrame ==
  ASSUME NEW m
  PROVE  IsList(<<m>>) /\ Len(<<m>>) = 1 /\ <<m>>[1] = m /\ <<m>> # <<>>
<1>1. <<m>> \in Seq({m})
  OBVIOUS
<1> QED BY <1>1, ListOf

(* The calls of evaluate_tokens, as a call of an entry point begins and    *)
(* ends, and between.                                                      *)
LEMMA BeginFrames ==
  ASSUME NEW v, NEW toks, NEW code, frames' = <<Called(v, toks, code)>>, entry' # "idle"
  PROVE  FramesOK'
<1> DEFINE m == Called(v, toks, code)
<1>1. FrameOK(m)
  BY CalledFrame
<1> HIDE DEF m
<1>2. frames' = <<m>>
  BY DEF m
<1>3. /\ IsList(frames') /\ frames' # <<>> /\ Len(frames') = 1 /\ frames'[1] = m
  BY <1>2, OneFrame
<1> QED BY <1>1, <1>3 DEF FramesOK

LEMMA EndFrames ==
  ASSUME frames' = <<>>, entry' = "idle"
  PROVE  FramesOK'
BY EmptyList DEF FramesOK

LEMMA InnerFrame ==
  ASSUME FramesOK, entry # "idle"
  PROVE  /\ Len(frames) \in Nat \ {0} /\ Inner = frames[Len(frames)] /\ FrameOK(Inner)
<1>1. frames # <<>> /\ IsList(frames)
  BY DEF FramesOK
<1>2. Len(frames) \in Nat \ {0}
  BY <1>1, NotEmpty
<1>3. Inner = frames[Len(frames)]
  BY <1>1, LastOfList DEF Inner
<1> QED BY <1>2, <1>3 DEF FramesOK

LEMMA StepFrames ==
  ASSUME FramesOK, step
  PROVE  /\ FramesOK'
         /\ Len(frames') = Len(frames) /\ frames'[Len(frames)] = Step(Inner)
         /\ \A d \in 1 .. Len(frames) : d # Len(frames) => frames'[d] = frames[d]
<1>1. /\ Len(frames) \in Nat \ {0} /\ Inner = frames[Len(frames)] /\ FrameOK(Inner)
      /\ IsList(frames) /\ entry' = entry /\ entry # "idle"
  BY InnerFrame DEF step, Running, Evaluates, FramesOK
<1> DEFINE m == Step(Inner)
<1>2. frames' = [frames EXCEPT ![Len(frames)] = m]
  BY <1>1 DEF step
<1>3. FrameOK(m)
  BY <1>1, StepIsFrame
<1> HIDE DEF m
<1>4. frames = [k \in 1 .. Len(frames) |-> frames[k]]
  BY <1>1 DEF IsList
<1>5. frames' = [k \in 1 .. Len(frames) |-> IF k = Len(frames) THEN m ELSE frames[k]]
  BY <1>2, <1>4
<1>6. Len(frames') = Len(frames) /\ IsList(frames')
  BY <1>1, <1>5 DEF IsList
<1>7. frames'[Len(frames)] = m /\ \A d \in 1 .. Len(frames) : d # Len(frames) => frames'[d] = frames[d]
  BY <1>1, <1>5
<1>8. frames' # <<>>
  BY <1>1, <1>6, EmptyList
<1>9. ASSUME NEW d \in 1 .. Len(frames')
      PROVE  FrameOK(frames'[d]) /\ (d < Len(frames') => Waits(frames'[d]))
  BY <1>1, <1>3, <1>6, <1>7, <1>9 DEF FramesOK
<1>10. FramesOK'
  BY <1>1, <1>6, <1>8, <1>9 DEF FramesOK
<1> QED BY <1>6, <1>7, <1>10 DEF m

LEMMA EnterFrames ==
  ASSUME FramesOK, enter
  PROVE  /\ FramesOK'
         /\ Len(frames') = Len(frames) + 1
         /\ frames'[Len(frames) + 1] =
              Called(ValueOf(Last(Inner.stack)), Inner.toks[Inner.i].of.arg, Inner.ec)
         /\ \A d \in 1 .. Len(frames) : frames'[d] = frames[d]
<1>1. /\ Len(frames) \in Nat \ {0} /\ Inner = frames[Len(frames)] /\ FrameOK(Inner)
      /\ IsList(frames) /\ entry' = entry /\ entry # "idle"
  BY InnerFrame DEF enter, Running, Evaluates, FramesOK
<1> DEFINE m == Called(ValueOf(Last(Inner.stack)), Inner.toks[Inner.i].of.arg, Inner.ec)
<1>2. frames' = Append(frames, m)
  BY DEF enter
<1>3. FrameOK(m)
  BY CalledFrame
<1>4. Waits(Inner)
  BY DEF enter, Running, AtFunction, Waits
<1> HIDE DEF m
<1>5. /\ IsList(frames') /\ Len(frames') = Len(frames) + 1
      /\ \A d \in 1 .. Len(frames) : frames'[d] = frames[d]
      /\ frames'[Len(frames) + 1] = m /\ frames' # <<>>
  BY <1>1, <1>2, ListAppend
<1>6. ASSUME NEW d \in 1 .. Len(frames')
      PROVE  FrameOK(frames'[d]) /\ (d < Len(frames') => Waits(frames'[d]))
  <2>1. CASE d = Len(frames) + 1
    BY <1>1, <1>3, <1>5, <2>1
  <2>2. CASE d = Len(frames)
    BY <1>1, <1>4, <1>5, <2>2
  <2>3. CASE d < Len(frames)
    BY <1>1, <1>5, <2>3 DEF FramesOK
  <2> QED BY <1>1, <1>5, <2>1, <2>2, <2>3
<1>7. FramesOK'
  BY <1>1, <1>5, <1>6 DEF FramesOK
<1> QED BY <1>5, <1>7 DEF m

LEMMA ResumeFrames ==
  ASSUME FramesOK, resume
  PROVE  /\ FramesOK'
         /\ Len(frames) >= 2 /\ Len(frames') = Len(frames) - 1
         /\ Outer = frames[Len(frames) - 1] /\ FrameOK(Outer) /\ Waits(Outer)
         /\ 1 \in 1 .. Len(Outer.stack)
         /\ \E r : frames'[Len(frames) - 1] = Replaced(Outer, 1, r)
         /\ \A d \in 1 .. Len(frames) - 2 : frames'[d] = frames[d]
<1>1. /\ Len(frames) \in Nat \ {0} /\ Len(frames) >= 2
      /\ IsList(frames) /\ entry' = entry /\ entry # "idle"
  BY InnerFrame DEF resume, Evaluates, FramesOK
<1>2. Outer = frames[Len(frames) - 1] /\ FrameOK(Outer) /\ Waits(Outer)
  BY <1>1 DEF Outer, FramesOK
<1>3. 1 \in 1 .. Len(Outer.stack)
  <2>1. IsList(Outer.stack) /\ Outer.stack # <<>>
    BY <1>2 DEF FrameOK, Waits
  <2> QED BY <2>1, NotEmpty
<1> DEFINE r == Result(Outcome(Inner), Inner.ec)
           m == Replaced(Outer, 1, r)
           below == SubSeq(frames, 1, Len(frames) - 2)
<1>4. frames' = Append(below, m)
  BY DEF resume
<1>5. FrameOK(m)
  BY <1>2, <1>3, ReplacedIsFrame
<1>6. Len(frames) - 2 \in 0 .. Len(frames)
  BY <1>1
<1>7. /\ IsList(below) /\ Len(below) = Len(frames) - 2
      /\ \A d \in 1 .. Len(frames) - 2 : below[d] = frames[d]
  BY <1>1, <1>6, ListCut
<1> HIDE DEF m, below
<1>8. /\ IsList(frames') /\ Len(frames') = (Len(frames) - 2) + 1
      /\ \A d \in 1 .. Len(frames) - 2 : frames'[d] = below[d]
      /\ frames'[(Len(frames) - 2) + 1] = m /\ frames' # <<>>
  BY <1>4, <1>7, ListAppend
<1>9. (Len(frames) - 2) + 1 = Len(frames) - 1
  BY <1>1
<1>10. ASSUME NEW d \in 1 .. Len(frames')
       PROVE  FrameOK(frames'[d]) /\ (d < Len(frames') => Waits(frames'[d]))
  <2>1. CASE d = Len(frames) - 1
    BY <1>1, <1>5, <1>8, <1>9, <2>1
  <2>2. CASE d < Len(frames) - 1
    <3>1. d \in 1 .. Len(frames) - 2 /\ d \in 1 .. Len(frames) /\ d < Len(frames)
      BY <1>1, <2>2
    <3>2. frames'[d] = frames[d]
      BY <1>7, <1>8, <3>1
    <3> QED BY <3>1, <3>2 DEF FramesOK
  <2> QED BY <1>1, <1>8, <1>9, <2>1, <2>2
<1>11. FramesOK'
  BY <1>1, <1>8, <1>10 DEF FramesOK
<1>12. \A d \in 1 .. Len(frames) - 2 : frames'[d] = frames[d]
  BY <1>7, <1>8
<1>13. frames'[Len(frames) - 1] = m
  BY <1>8, <1>9
<1> QED BY <1>1, <1>2, <1>3, <1>8, <1>9, <1>11, <1>12, <1>13 DEF m

-----------------------------------------------------------------------------
(* What the entry points do to the calls of evaluate_tokens and to entry. *)
LEMMA AnsweredFrames ==
  ASSUME NEW name, NEW how, NEW v, NEW code, Answered(name, how, v, code)
  PROVE  FramesOK' /\ frames' = <<>> /\ entry' = "idle"
BY EndFrames DEF Answered

LEMMA BegunFrames ==
  ASSUME NEW name \in EntryPoints, NEW toks, NEW code, Begin(name, toks, code)
  PROVE  /\ FramesOK' /\ frames' = <<Called(Documents[doc'], toks, code)>>
         /\ entry' = name /\ entry' # "idle"
<1>1. frames' = <<Called(Documents[doc'], toks, code)>> /\ entry' = name /\ entry' # "idle"
  BY DEF Begin, EntryPoints
<1> QED BY <1>1, BeginFrames

LEMMA CallingTypes ==
  ASSUME TypeOK, NEW name \in EntryPoints, NEW d \in Sources[source].docs, Calling(name, d),
         UNCHANGED expr, FramesOK', entry' \in {"idle", name}
  PROVE  TypeOK'
<1>1. source \in DOMAIN Sources /\ source' = source
  BY DEF TypeOK, Calling
<1>2. doc' = d /\ d \in DOMAIN Documents
  BY <1>1, SearchAssumption DEF Calling
<1>3. calls' \in 0 .. Sources[source].calls
  BY <1>1, SearchAssumption DEF TypeOK, Calling
<1>4. \A k \in 1 .. Len(frames') : FrameOK(frames'[k]) /\ (k < Len(frames') => Waits(frames'[k]))
  BY DEF FramesOK
<1>5. DOMAIN frames' = 1 .. Len(frames')
  BY ListElements DEF FramesOK
<1>6. \A k \in DOMAIN frames' :
        /\ frames'[k].outcome \in {"running", "value", "null", "throws", "assertion", "undefined"}
        /\ k < Len(frames') => frames'[k].outcome = "running"
  BY <1>4, <1>5 DEF FrameOK, Waits, CallOutcomes
<1>7. entry' \in {"idle"} \cup Throwing \cup WithEc
  BY DEF EntryPoints, Throwing, WithEc
<1>8. (frames' = <<>>) <=> (entry' = "idle")
  BY DEF FramesOK
<1> QED BY <1>1, <1>2, <1>3, <1>6, <1>7, <1>8 DEF TypeOK

LEMMA OtherTypes ==
  ASSUME TypeOK, UNCHANGED <<source, doc, calls>>, FramesOK', expr'.made \in BOOLEAN,
         entry' \in {"idle", entry}
  PROVE  TypeOK'
<1>1. DOMAIN frames' = 1 .. Len(frames')
  BY ListElements DEF FramesOK
<1>2. \A k \in 1 .. Len(frames') : FrameOK(frames'[k]) /\ (k < Len(frames') => Waits(frames'[k]))
  BY DEF FramesOK
<1>3. \A k \in DOMAIN frames' :
        /\ frames'[k].outcome \in {"running", "value", "null", "throws", "assertion", "undefined"}
        /\ k < Len(frames') => frames'[k].outcome = "running"
  BY <1>1, <1>2 DEF FrameOK, Waits, CallOutcomes
<1>4. (frames' = <<>>) <=> (entry' = "idle")
  BY DEF FramesOK
<1>5. entry' \in {"idle"} \cup Throwing \cup WithEc
  BY DEF TypeOK
<1> QED BY <1>3, <1>4, <1>5 DEF TypeOK

(* A call of an entry point is answered at once, or evaluate_tokens is      *)
(* called, with a list that was compiled.                                  *)
LEMMA CallStep ==
  ASSUME TypeOK, NEW d \in Sources[source].docs,
         search(d) \/ search_ec(d) \/ evaluate(d) \/ evaluate_ec(d)
  PROVE  \E name \in EntryPoints :
           /\ Calling(name, d) /\ UNCHANGED expr
           /\ \/ \E how, v, code : Answered(name, how, v, code)
              \/ \E toks, code : Begin(name, toks, code)
<1> USE DEF EntryPoints
<1>1. CASE search(d)
  BY <1>1 DEF search
<1>2. CASE search_ec(d)
  BY <1>2 DEF search_ec
<1>3. CASE evaluate(d)
  BY <1>3 DEF evaluate, Evaluating
<1>4. CASE evaluate_ec(d)
  BY <1>4 DEF evaluate_ec, Evaluating
<1> QED BY <1>1, <1>2, <1>3, <1>4

LEMMA FinishStep ==
  ASSUME finish
  PROVE  /\ UNCHANGED <<source, doc, expr, calls>>
         /\ \E how, v, code : Answered(entry, how, v, code)
BY DEF finish

LEMMA NextInv == IInv /\ [Next]_vars => IInv'
<1> SUFFICES ASSUME IInv, [Next]_vars PROVE IInv'
  OBVIOUS
<1> USE DEF IInv
<1>1. ASSUME NEW d \in Sources[source].docs,
             search(d) \/ search_ec(d) \/ evaluate(d) \/ evaluate_ec(d)
      PROVE  IInv'
  <2>1. PICK name \in EntryPoints :
          /\ Calling(name, d) /\ UNCHANGED expr
          /\ \/ \E how, v, code : Answered(name, how, v, code)
             \/ \E toks, code : Begin(name, toks, code)
    BY <1>1, CallStep
  <2>2. FramesOK' /\ entry' \in {"idle", name}
    BY <2>1, AnsweredFrames, BegunFrames
  <2> QED BY <2>1, <2>2, CallingTypes
<1>2. CASE make_expression \/ make_expression_ec
  <2>1. UNCHANGED <<source, entry, doc, frames, answer, calls>>
    BY <1>2 DEF make_expression, make_expression_ec, Making
  <2>2. expr'.made = TRUE
    <3>1. \E toks : expr' = [made |-> TRUE, toks |-> toks]
      BY <1>2 DEF make_expression, make_expression_ec
    <3> QED BY <3>1
  <2>3. FramesOK'
    BY <2>1 DEF FramesOK
  <2> QED BY <2>1, <2>2, <2>3, OtherTypes
<1>3. CASE step
  <2>1. FramesOK' /\ UNCHANGED <<source, entry, doc, ec, expr, answer, calls>>
    BY <1>3, StepFrames DEF step, Evaluates
  <2> QED BY <2>1, OtherTypes DEF TypeOK
<1>4. CASE enter
  <2>1. FramesOK' /\ UNCHANGED <<source, entry, doc, ec, expr, answer, calls>>
    BY <1>4, EnterFrames DEF enter, Evaluates
  <2> QED BY <2>1, OtherTypes DEF TypeOK
<1>5. CASE resume
  <2>1. FramesOK' /\ UNCHANGED <<source, entry, doc, ec, expr, answer, calls>>
    BY <1>5, ResumeFrames DEF resume, Evaluates
  <2> QED BY <2>1, OtherTypes DEF TypeOK
<1>6. CASE finish
  <2>1. FramesOK' /\ entry' = "idle" /\ UNCHANGED <<source, doc, expr, calls>>
    BY <1>6, FinishStep, AnsweredFrames
  <2> QED BY <2>1, OtherTypes DEF TypeOK
<1>7. CASE UNCHANGED vars
  BY <1>7 DEF vars, TypeOK, FramesOK
<1> QED BY <1>1, <1>2, <1>3, <1>4, <1>5, <1>6, <1>7 DEF Next, Rests

(***************************************************************************)
(* Whatever compile, expressions, operators and functions do, the calls    *)
(* of evaluate_tokens are nested, and all but the last one wait.           *)
(***************************************************************************)
THEOREM TypeCorrect == Spec => []TypeOK
<1>1. IInv => TypeOK
  BY DEF IInv
<1> QED BY <1>1, InitInv, NextInv, PTL DEF Spec

-----------------------------------------------------------------------------
(* A search with an ec that is set already has come to its end at once. *)
AnswersInv ==
  /\ WholeAnswers
  /\ entry \in {"idle"} \cup EntryPoints
  /\ entry = "search_ec" => ec = NoCode

(* What an answer that is not that of evaluate with an ec has to be. *)
LEMMA CompiledEc ==
  ASSUME NEW text, NEW code
  PROVE  /\ compiled(text, code).ec = NoCode => code = NoCode
         /\ code # NoCode => compiled(text, code).ec = code
BY DEF compiled

LEMMA AnswerStep ==
  ASSUME NEW name, NEW how, NEW v, NEW code, Answered(name, how, v, code)
  PROVE  /\ answer'.to = name /\ answer'.how = how /\ answer'.val = v
         /\ answer'.given = ec /\ answer'.ec = code
         /\ entry' = "idle"
BY DEF Answered

LEMMA WholeIfNull ==
  ASSUME NEW name, NEW how, NEW v, NEW code, Answered(name, how, v, code),
         how = "returned" /\ name # "evaluate_ec" => v = Null \/ code = NoCode,
         how = "returned" /\ name = "search_ec" /\ ec # NoCode => v = Null /\ code = ec
  PROVE  AnswersInv'
BY AnswerStep DEF AnswersInv, WholeAnswers, Returned

LEMMA AnswersNext == AnswersInv /\ [Next]_vars => AnswersInv'
<1> SUFFICES ASSUME AnswersInv, [Next]_vars PROVE AnswersInv'
  OBVIOUS
<1>0. ASSUME UNCHANGED <<entry, ec, answer>> PROVE AnswersInv'
  BY <1>0 DEF AnswersInv, WholeAnswers, Returned
<1>1. ASSUME NEW d, search(d) PROVE AnswersInv'
  <2> DEFINE c == compiled(Text, NoCode)
  <2> HIDE DEF c
  <2>1. CASE c.ec # NoCode
    <3>1. Answered("search", "threw", Null, c.ec)
      BY <1>1, <2>1 DEF search, c
    <3> QED BY <3>1, WholeIfNull
  <2>2. CASE c.ec = NoCode
    <3>1. entry' = "search" /\ UNCHANGED <<ec, answer>>
      BY <1>1, <2>2 DEF search, Begin, c
    <3> QED BY <3>1 DEF AnswersInv, WholeAnswers, Returned, EntryPoints
  <2> QED BY <2>1, <2>2
<1>2. ASSUME NEW d, search_ec(d) PROVE AnswersInv'
  <2> DEFINE c == compiled(Text, ec)
  <2>1. c.ec = NoCode => ec = NoCode
    BY CompiledEc
  <2>2. ec # NoCode => c.ec = ec
    BY CompiledEc
  <2> HIDE DEF c
  <2>3. CASE c.ec # NoCode
    <3>1. Answered("search_ec", "returned", Null, c.ec)
      BY <1>2, <2>3 DEF search_ec, c
    <3> QED BY <2>2, <3>1, WholeIfNull
  <2>4. CASE c.ec = NoCode
    <3>1. entry' = "search_ec" /\ UNCHANGED <<ec, answer>>
      BY <1>2, <2>4 DEF search_ec, Begin, c
    <3> QED BY <2>1, <2>4, <3>1 DEF AnswersInv, WholeAnswers, Returned, EntryPoints
  <2> QED BY <2>3, <2>4
<1>3. ASSUME NEW d, NEW name \in {"evaluate", "evaluate_ec"}, NEW code, Evaluating(name, d, code)
      PROVE  AnswersInv'
  <2>1. CASE expr.toks = <<>>
    <3>1. Answered(name, "returned", Null, code)
      BY <1>3, <2>1 DEF Evaluating
    <3> QED BY <3>1, WholeIfNull
  <2>2. CASE expr.toks # <<>>
    <3>1. entry' = name /\ UNCHANGED <<ec, answer>>
      BY <1>3, <2>2 DEF Evaluating, Begin
    <3> QED BY <3>1 DEF AnswersInv, WholeAnswers, Returned, EntryPoints
  <2> QED BY <2>1, <2>2
<1>4. CASE make_expression
  BY <1>0, <1>4 DEF make_expression, Making
<1>5. CASE make_expression_ec
  <2>1. entry = "idle" /\ UNCHANGED <<entry, answer>>
    BY <1>5 DEF make_expression_ec, Making
  <2> QED BY <2>1 DEF AnswersInv, WholeAnswers, Returned
<1>6. CASE step \/ enter \/ resume
  BY <1>0, <1>6 DEF step, enter, resume, Evaluates
<1>7. CASE finish
  <2> DEFINE v == Outcome(Inner)
             w == IF entry = "search_ec" /\ Inner.ec # NoCode THEN Null ELSE DeepCopy(v)
  <2>1. CASE IsThrown(v) \/ (entry \in Throwing /\ Inner.ec # NoCode)
    <3>1. Answered(entry, "threw", Null, Inner.ec)
      BY <1>7, <2>1 DEF finish
    <3> QED BY <3>1, WholeIfNull
  <2>2. CASE ~(IsThrown(v) \/ (entry \in Throwing /\ Inner.ec # NoCode))
    <3>1. Answered(entry, "returned", w, Inner.ec)
      BY <1>7, <2>2 DEF finish
    <3>2. entry # "evaluate_ec" => w = Null \/ Inner.ec = NoCode
      <4>1. entry \in {"search", "evaluate", "search_ec", "evaluate_ec"}
        BY <1>7 DEF finish, Ended, AnswersInv, EntryPoints
      <4> QED BY <2>2, <4>1 DEF Throwing
    <3>3. ~(entry = "search_ec" /\ ec # NoCode)
      BY DEF AnswersInv
    <3> HIDE DEF w
    <3> QED BY <3>1, <3>2, <3>3, WholeIfNull
  <2> QED BY <2>1, <2>2
<1>8. CASE UNCHANGED vars
  BY <1>0, <1>8 DEF vars
<1> QED BY <1>1, <1>2, <1>3, <1>4, <1>5, <1>6, <1>7, <1>8
        DEF Next, Rests, evaluate, evaluate_ec

(***************************************************************************)
(* No entry point but evaluate with an error_code returns what is left of  *)
(* an answer in which something failed.                                    *)
(***************************************************************************)
THEOREM AnswersAreWhole == Spec => []WholeAnswers
<1>1. Init => AnswersInv
  BY DEF Init, AnswersInv, WholeAnswers, Returned
<1>2. AnswersInv => WholeAnswers
  BY DEF AnswersInv
<1> QED BY <1>1, <1>2, AnswersNext, PTL DEF Spec

-----------------------------------------------------------------------------
(* What EvaluateTokens sees of the whole: of each step of a program. *)
(* The call that is watched: there is one, or there is none. *)
LEMMA WatchedCall ==
  ASSUME FramesOK
  PROVE  /\ Depth \in 1 .. Len(frames) => Watched = frames[Depth]
         /\ Depth \notin 1 .. Len(frames) => Watched = Idle
BY ListElements DEF FramesOK, Watched

LEMMA WatchedThen ==
  ASSUME FramesOK', UNCHANGED Depth
  PROVE  /\ Depth \in 1 .. Len(frames') => Watched' = frames'[Depth]
         /\ Depth \notin 1 .. Len(frames') => Watched' = Idle
BY ListElements DEF FramesOK, Watched, Depth, Idle

LEMMA SameDepth ==
  ASSUME TypeOK, UNCHANGED source
  PROVE  Depth \in Nat \ {0} /\ UNCHANGED Depth
BY SearchAssumption DEF TypeOK, Depth

LEMMA IdleFrame ==
  /\ Idle.toks = <<>> /\ Idle.i = 1 /\ Idle.stack = <<>> /\ Idle.args = <<>>
  /\ Idle.ec = NoCode /\ Idle.outcome = "idle"
<1> DEFINE m == Called(Null, <<>>, NoCode)
<1>1. /\ IsFrame(m) /\ m.toks = <<>> /\ m.i = 1 /\ m.stack = <<>> /\ m.args = <<>>
      /\ m.ec = NoCode
  BY CalledFrame DEF FrameOK
<1>2. Idle = [m EXCEPT !.outcome = "idle"]
  BY DEF Idle, Stop
<1> HIDE DEF m
<1>3. Idle = FrameOf(m.toks, m.i, m.root, m.stack, m.args, m.ec, "idle", m.thrown)
  BY <1>1, <1>2, Update
<1> QED BY <1>1, <1>3, PartsOf

LEMMA TokensInEmpty == TokensIn(<<>>) = <<>>
<1>1. DOMAIN <<>> = {}
  OBVIOUS
<1> QED BY <1>1 DEF TokensIn

(* What EvaluateTokens sees of a call that begins, of one that is over,    *)
(* and of a step that does not disturb the call.                           *)
LEMMA CallSeen ==
  ASSUME Watched = Idle, NEW v, NEW l, NEW code,
         Watched' = Called(v, l, code), TokensIn(l) \in Seq(Token)
  PROVE  Evaluation!call
<1> DEFINE n == Called(v, l, code)
<1>1. n.toks = l /\ n.i = 1 /\ n.stack = <<>> /\ n.args = <<>> /\ n.outcome = "running"
  BY CalledFrame
<1> HIDE DEF n
<1>2. Watched' = n
  BY DEF n
<1>3. /\ Watched.outcome = "idle" /\ (Watched.outcome)' = "running"
      /\ TokensIn(Watched.toks)' = TokensIn(l)
      /\ (Watched.i)' = 1 /\ KindsOf(Watched.stack)' = <<>> /\ KindsOf(Watched.args)' = <<>>
  BY <1>1, <1>2, Seen, IdleFrame, KindsOfEmpty
<1> QED BY <1>3 DEF Evaluation!call

LEMMA LeaveSeen ==
  ASSUME Watched.outcome \notin {"idle", "running"}, Watched' = Idle
  PROVE  Evaluation!leave
<1>1. /\ (Watched.outcome)' = "idle"
      /\ TokensIn(Watched.toks)' = <<>>
      /\ (Watched.i)' = 1 /\ KindsOf(Watched.stack)' = <<>> /\ KindsOf(Watched.args)' = <<>>
      /\ (Watched.ec # NoCode)' = FALSE
  BY Seen, IdleFrame, KindsOfEmpty, TokensInEmpty
<1> QED BY <1>1 DEF Evaluation!leave

LEMMA NothingSeen ==
  ASSUME Watched' = Watched
  PROVE  UNCHANGED Evaluation!vars
BY DEF Evaluation!vars

(* A function_expression, as the call that it has made is over. *)
LEMMA ResumeSeen ==
  ASSUME NEW m, Watched = m, FrameOK(m), Waits(m),
         IsList(m.toks), TokensIn(m.toks) \in Seq(Token),
         NEW r, Watched' = Replaced(m, 1, r)
  PROVE  Evaluation!expression
<1>1. AtToken(m)
  BY DEF AtToken, Waits
<1>2. /\ Len(KindsOf(Watched.stack)) = Len(m.stack) /\ Len(m.stack) \in Nat
      /\ \A k \in 1 .. Len(m.stack) :
           KindsOf(Watched.stack)[k] = "value" <=> ~IsExpressionArgument(m.stack[k])
      /\ Evaluation!At("expression")
  BY <1>1, Reading DEF Waits
<1>3. IsList(m.stack) /\ m.stack # <<>>
  BY DEF FrameOK, Waits
<1>4. Len(m.stack) >= 1 /\ Last(m.stack) = m.stack[Len(m.stack)]
  BY <1>3, NotEmpty, LastOfList
<1>5. 1 \in 1 .. Len(m.stack) /\ Len(m.stack) \in 1 .. Len(m.stack)
  BY <1>2, <1>4
<1>6. KindsOf(Watched.stack)[Len(m.stack)] = "value"
  BY <1>2, <1>4, <1>5 DEF Waits
<1>7. Evaluation!Holds(1)
  BY <1>2, <1>4 DEF Evaluation!Holds
<1>8. Evaluation!Values(1)
  <2>1. \A k \in Len(m.stack) - 1 + 1 .. Len(m.stack) : k = Len(m.stack)
    BY <1>2
  <2> QED BY <1>2, <1>6, <2>1 DEF Evaluation!Values
<1>9. Evaluation!Apply(1)
  BY <1>1, <1>5, <1>7, <1>8, ReplacedStep
<1> QED BY <1>2, <1>9 DEF Evaluation!expression

(* Every list of a call that is running, now and then. *)
LEMMA ListsThen ==
  ASSUME FramesOK', ListsOfTokens', NEW k \in 1 .. Len(frames')
  PROVE  IsList(frames'[k].toks) /\ TokensIn(frames'[k].toks) \in Seq(Token)
BY ListElements DEF FramesOK, ListsOfTokens

LEMMA ListsNow ==
  ASSUME FramesOK, ListsOfTokens, NEW k \in 1 .. Len(frames)
  PROVE  IsList(frames[k].toks) /\ TokensIn(frames[k].toks) \in Seq(Token)
BY ListElements DEF FramesOK, ListsOfTokens

Sees == Evaluation!Next \/ UNCHANGED Evaluation!vars

(* An entry point is called. *)
LEMMA BeginSeen ==
  ASSUME TypeOK, FramesOK, FramesOK', ListsOfTokens', entry = "idle", UNCHANGED source,
         NEW v, NEW l, NEW code, frames' = <<Called(v, l, code)>>
  PROVE  Sees
<1> DEFINE m == Called(v, l, code)
<1>1. frames = <<>> /\ Len(frames) = 0
  BY EmptyList DEF FramesOK
<1>2. m.toks = l
  BY CalledFrame
<1>3. frames' = <<m>>
  OBVIOUS
<1> HIDE DEF m
<1>4. Len(frames') = 1 /\ frames'[1] = m
  BY <1>3, OneFrame
<1>5. TokensIn(l) \in Seq(Token)
  BY <1>2, <1>4, ListsThen
<1>6. Depth \in Nat \ {0} /\ UNCHANGED Depth
  BY SameDepth
<1>7. Watched = Idle
  BY <1>1, <1>6, WatchedCall
<1>8. CASE Depth = 1
  <2>1. Watched' = m
    BY <1>4, <1>6, <1>8, WatchedThen
  <2>2. Evaluation!call
    BY <1>5, <1>7, <2>1, CallSeen DEF m
  <2> QED BY <2>2 DEF Sees, Evaluation!Next
<1>9. CASE Depth # 1
  <2>1. Watched' = Idle
    BY <1>4, <1>6, <1>9, WatchedThen
  <2> QED BY <1>7, <2>1, NothingSeen DEF Sees
<1> QED BY <1>8, <1>9

(* No call is running, before and after. *)
LEMMA IdleSeen ==
  ASSUME TypeOK, FramesOK, FramesOK', frames = <<>>, frames' = <<>>, UNCHANGED source
  PROVE  Sees
<1>1. Depth \in Nat \ {0} /\ UNCHANGED Depth
  BY SameDepth
<1>2. Watched = Idle /\ Watched' = Idle
  BY <1>1, EmptyList, WatchedCall, WatchedThen
<1> QED BY <1>2, NothingSeen DEF Sees

LEMMA StepSeen ==
  ASSUME TypeOK, FramesOK, ListsOfTokens, step
  PROVE  Sees
<1>1. UNCHANGED source /\ entry # "idle" /\ Inner.outcome = "running"
  BY DEF step, Running, Evaluates
<1>2. Depth \in Nat \ {0} /\ UNCHANGED Depth
  BY <1>1, SameDepth
<1>3. /\ FramesOK'
      /\ Len(frames') = Len(frames) /\ frames'[Len(frames)] = Step(Inner)
      /\ \A k \in 1 .. Len(frames) : k # Len(frames) => frames'[k] = frames[k]
  BY StepFrames
<1>4. Len(frames) \in Nat \ {0} /\ Inner = frames[Len(frames)] /\ FrameOK(Inner)
  BY <1>1, InnerFrame
<1>5. CASE Depth = Len(frames)
  <2>1. Watched = Inner /\ Watched' = Step(Inner)
    BY <1>2, <1>3, <1>4, <1>5, WatchedCall, WatchedThen
  <2>2. IsList(Inner.toks) /\ TokensIn(Inner.toks) \in Seq(Token)
    BY <1>4, ListsNow
  <2> QED BY <1>1, <1>4, <2>1, <2>2, MachineStep DEF Sees
<1>6. CASE Depth \in 1 .. Len(frames) /\ Depth # Len(frames)
  <2>1. Watched = frames[Depth] /\ Watched' = frames'[Depth]
    BY <1>2, <1>3, <1>6, WatchedCall, WatchedThen
  <2> QED BY <1>3, <1>6, <2>1, NothingSeen DEF Sees
<1>7. CASE Depth \notin 1 .. Len(frames)
  <2>1. Watched = Idle /\ Watched' = Idle
    BY <1>2, <1>3, <1>7, WatchedCall, WatchedThen
  <2> QED BY <2>1, NothingSeen DEF Sees
<1> QED BY <1>4, <1>5, <1>6, <1>7

LEMMA EnterSeen ==
  ASSUME TypeOK, FramesOK, ListsOfTokens', enter
  PROVE  Sees
<1>1. UNCHANGED source /\ entry # "idle"
  BY DEF enter, Running, Evaluates
<1>2. Depth \in Nat \ {0} /\ UNCHANGED Depth
  BY <1>1, SameDepth
<1> DEFINE v    == ValueOf(Last(Inner.stack))
           l    == Inner.toks[Inner.i].of.arg
           code == Inner.ec
           m    == Called(v, l, code)
<1> HIDE DEF v, l, code
<1>3. /\ FramesOK'
      /\ Len(frames') = Len(frames) + 1 /\ frames'[Len(frames) + 1] = m
      /\ \A k \in 1 .. Len(frames) : frames'[k] = frames[k]
  BY EnterFrames DEF v, l, code
<1>4. Len(frames) \in Nat \ {0}
  BY <1>1, InnerFrame
<1>5. m.toks = l
  BY CalledFrame
<1> HIDE DEF m
<1>6. CASE Depth = Len(frames) + 1
  <2>1. Watched = Idle /\ Watched' = m
    BY <1>2, <1>3, <1>4, <1>6, WatchedCall, WatchedThen
  <2>2. Len(frames) + 1 \in 1 .. Len(frames')
    BY <1>3, <1>4
  <2>3. TokensIn(l) \in Seq(Token)
    BY <1>3, <1>5, <2>2, ListsThen
  <2>4. Evaluation!call
    BY <2>1, <2>3, CallSeen DEF m
  <2> QED BY <2>4 DEF Sees, Evaluation!Next
<1>7. CASE Depth \in 1 .. Len(frames)
  <2>1. Depth \in 1 .. Len(frames')
    BY <1>3, <1>4, <1>7
  <2>2. Watched = frames[Depth] /\ Watched' = frames'[Depth]
    BY <1>2, <1>3, <1>7, <2>1, WatchedCall, WatchedThen
  <2> QED BY <1>3, <1>7, <2>2, NothingSeen DEF Sees
<1>8. CASE Depth > Len(frames) + 1
  <2>1. Depth \notin 1 .. Len(frames) /\ Depth \notin 1 .. Len(frames')
    BY <1>2, <1>3, <1>4, <1>8
  <2>2. Watched = Idle /\ Watched' = Idle
    BY <1>2, <1>3, <2>1, WatchedCall, WatchedThen
  <2> QED BY <2>2, NothingSeen DEF Sees
<1> QED BY <1>2, <1>4, <1>6, <1>7, <1>8

LEMMA ResumedSeen ==
  ASSUME TypeOK, FramesOK, ListsOfTokens, resume
  PROVE  Sees
<1>1. UNCHANGED source /\ entry # "idle" /\ Inner.outcome # "running"
  BY DEF resume, Evaluates
<1>2. Depth \in Nat \ {0} /\ UNCHANGED Depth
  BY <1>1, SameDepth
<1>3. /\ FramesOK'
      /\ Len(frames) >= 2 /\ Len(frames') = Len(frames) - 1
      /\ Outer = frames[Len(frames) - 1] /\ FrameOK(Outer) /\ Waits(Outer)
      /\ \A k \in 1 .. Len(frames) - 2 : frames'[k] = frames[k]
  BY ResumeFrames
<1>4. PICK r : frames'[Len(frames) - 1] = Replaced(Outer, 1, r)
  BY ResumeFrames
<1>5. Len(frames) \in Nat \ {0} /\ Inner = frames[Len(frames)] /\ FrameOK(Inner)
  BY <1>1, InnerFrame
<1>6. CASE Depth = Len(frames)
  <2>1. Depth \in 1 .. Len(frames) /\ Depth \notin 1 .. Len(frames')
    BY <1>2, <1>3, <1>5, <1>6
  <2>2. Watched = Inner /\ Watched' = Idle
    BY <1>2, <1>3, <1>5, <1>6, <2>1, WatchedCall, WatchedThen
  <2>3. Watched.outcome \notin {"idle", "running"}
    BY <1>1, <1>5, <2>2 DEF FrameOK, CallOutcomes
  <2> QED BY <2>2, <2>3, LeaveSeen DEF Sees, Evaluation!Next
<1>7. CASE Depth = Len(frames) - 1
  <2>1. Depth \in 1 .. Len(frames) /\ Depth \in 1 .. Len(frames')
    BY <1>2, <1>3, <1>5, <1>7
  <2>2. Watched = Outer /\ Watched' = Replaced(Outer, 1, r)
    BY <1>2, <1>3, <1>4, <1>7, <2>1, WatchedCall, WatchedThen
  <2>3. IsList(Outer.toks) /\ TokensIn(Outer.toks) \in Seq(Token)
    BY <1>3, <1>7, <2>1, ListsNow
  <2>4. Evaluation!expression
    BY <1>3, <2>2, <2>3, ResumeSeen
  <2> QED BY <2>4 DEF Sees, Evaluation!Next
<1>8. CASE Depth \in 1 .. Len(frames) - 2
  <2>1. Depth \in 1 .. Len(frames) /\ Depth \in 1 .. Len(frames')
    BY <1>2, <1>3, <1>5, <1>8
  <2>2. Watched = frames[Depth] /\ Watched' = frames'[Depth]
    BY <1>2, <1>3, <2>1, WatchedCall, WatchedThen
  <2> QED BY <1>3, <1>8, <2>2, NothingSeen DEF Sees
<1>9. CASE Depth > Len(frames)
  <2>1. Depth \notin 1 .. Len(frames) /\ Depth \notin 1 .. Len(frames')
    BY <1>2, <1>3, <1>5, <1>9
  <2>2. Watched = Idle /\ Watched' = Idle
    BY <1>2, <1>3, <2>1, WatchedCall, WatchedThen
  <2> QED BY <2>2, NothingSeen DEF Sees
<1>10. \/ Depth = Len(frames) \/ Depth = Len(frames) - 1
       \/ Depth \in 1 .. Len(frames) - 2 \/ Depth > Len(frames)
  BY <1>2, <1>5
<1> QED BY <1>6, <1>7, <1>8, <1>9, <1>10

LEMMA FinishSeen ==
  ASSUME TypeOK, FramesOK, finish
  PROVE  Sees
<1>1. entry # "idle" /\ Inner.outcome # "running" /\ Len(frames) = 1
  BY DEF finish, Ended
<1>2. UNCHANGED source /\ FramesOK' /\ frames' = <<>>
  BY FinishStep, AnsweredFrames
<1>3. Depth \in Nat \ {0} /\ UNCHANGED Depth
  BY <1>2, SameDepth
<1>4. Inner = frames[Len(frames)] /\ FrameOK(Inner)
  BY <1>1, InnerFrame
<1>5. Watched' = Idle
  BY <1>2, <1>3, EmptyList, WatchedThen
<1>6. CASE Depth = 1
  <2>1. Watched = Inner
    BY <1>1, <1>3, <1>4, <1>6, WatchedCall
  <2>2. Watched.outcome \notin {"idle", "running"}
    BY <1>1, <1>4, <2>1 DEF FrameOK, CallOutcomes
  <2> QED BY <1>5, <2>2, LeaveSeen DEF Sees, Evaluation!Next
<1>7. CASE Depth # 1
  <2>1. Watched = Idle
    BY <1>1, <1>3, <1>7, WatchedCall
  <2> QED BY <1>5, <2>1, NothingSeen DEF Sees
<1> QED BY <1>6, <1>7

(* Every step is one of the call that is watched, or none. *)
LEMMA NextSeen ==
  ASSUME IInv, IInv', ListsOfTokens, ListsOfTokens', [Next]_vars
  PROVE  [Evaluation!Next]_Evaluation!vars
<1> SUFFICES Sees
  BY DEF Sees
<1> USE DEF IInv
<1>1. ASSUME NEW d \in Sources[source].docs,
             search(d) \/ search_ec(d) \/ evaluate(d) \/ evaluate_ec(d)
      PROVE  Sees
  <2>1. PICK name \in EntryPoints :
          /\ Calling(name, d) /\ UNCHANGED expr
          /\ \/ \E how, v, code : Answered(name, how, v, code)
             \/ \E toks, code : Begin(name, toks, code)
    BY <1>1, CallStep
  <2>2. entry = "idle" /\ UNCHANGED source
    BY <2>1 DEF Calling
  <2>3. frames = <<>>
    BY <2>2 DEF FramesOK
  <2>4. CASE \E how, v, code : Answered(name, how, v, code)
    BY <2>2, <2>3, <2>4, AnsweredFrames, IdleSeen
  <2>5. CASE \E toks, code : Begin(name, toks, code)
    <3>1. PICK toks, code : Begin(name, toks, code)
      BY <2>5
    <3>2. frames' = <<Called(Documents[doc'], toks, code)>>
      BY <3>1, BegunFrames
    <3> QED BY <2>2, <3>2, BeginSeen
  <2> QED BY <2>1, <2>4, <2>5
<1>2. CASE make_expression \/ make_expression_ec
  <2>1. UNCHANGED <<source, frames>> /\ entry = "idle"
    BY <1>2 DEF make_expression, make_expression_ec, Making
  <2>2. frames = <<>> /\ frames' = <<>>
    BY <2>1 DEF FramesOK
  <2> QED BY <2>1, <2>2, IdleSeen
<1>3. CASE step
  BY <1>3, StepSeen
<1>4. CASE enter
  BY <1>4, EnterSeen
<1>5. CASE resume
  BY <1>5, ResumedSeen
<1>6. CASE finish
  BY <1>6, FinishSeen
<1>7. CASE UNCHANGED vars
  <2>1. Watched' = Watched
    BY <1>7 DEF vars, Watched, Depth, Idle
  <2> QED BY <2>1, NothingSeen DEF Sees
<1> QED BY <1>1, <1>2, <1>3, <1>4, <1>5, <1>6, <1>7 DEF Next, Rests

LEMMA InitSeen == Init => Evaluation!Init
<1> SUFFICES ASSUME Init PROVE Evaluation!Init
  OBVIOUS
<1>1. FramesOK
  BY InitInv DEF IInv
<1>2. Depth \in Nat \ {0} /\ Len(frames) = 0
  BY SearchAssumption, EmptyList DEF Init, Depth
<1>3. Watched = Idle
  BY <1>1, <1>2, WatchedCall
<1> QED BY <1>3, IdleFrame, KindsOfEmpty, TokensInEmpty DEF Evaluation!Init

(***************************************************************************)
(* evaluate_tokens with values does what EvaluateTokens says, at whatever  *)
(* depth, as long as the lists are lists of tokens.                        *)
(***************************************************************************)
THEOREM EvaluationImplements == Spec /\ []ListsOfTokens => Implements
<1>1. IInv /\ IInv' /\ ListsOfTokens /\ ListsOfTokens' /\ [Next]_vars
        => [Evaluation!Next]_Evaluation!vars
  BY NextSeen
<1> QED BY <1>1, InitInv, NextInv, InitSeen, PTL DEF Spec, Implements, Evaluation!Spec

-----------------------------------------------------------------------------
(* The theorems about EvaluateTokens hold of the call that is watched. *)
(* What is proved of EvaluateTokens, for the call that is watched. *)
Proofs == INSTANCE EvaluateTokensProofs WITH
  Programs  <- Seq(Token),
  toks      <- TokensIn(Watched.toks),
  i         <- Watched.i,
  stack     <- KindsOf(Watched.stack),
  arg_stack <- KindsOf(Watched.args),
  ec        <- Watched.ec # NoCode,
  outcome   <- Watched.outcome

LEMMA SameTokens == Proofs!Token = Token /\ Proofs!AnyArity = AnyArity
BY DEF Proofs!Token, Proofs!AnyArity, Token, AnyArity, Proofs!Opers, Proofs!Stored,
       Proofs!Closers, Proofs!Openers, Proofs!ProjectionOpers, Proofs!UnaryOpers,
       Proofs!BinaryOpers, Proofs!DefaultOper, Opers, Stored, Closers, Openers,
       ProjectionOpers, UnaryOpers, BinaryOpers, DefaultOper

LEMMA SameArity == Evaluation!AnyArity = Proofs!AnyArity
BY DEF Evaluation!AnyArity, Proofs!AnyArity

LEMMA SameLast == \A s : Evaluation!Last(s) = Proofs!Last(s)
BY DEF Evaluation!Last, Proofs!Last

LEMMA SameEnd == \A how : Evaluation!EndWith(how) <=> Proofs!EndWith(how)
BY DEF Evaluation!EndWith, Proofs!EndWith

LEMMA SameGoOn == \A n, params : Evaluation!GoOn(n, params) <=> Proofs!GoOn(n, params)
BY DEF Evaluation!GoOn, Proofs!GoOn

LEMMA SameAt == \A kind : Evaluation!At(kind) <=> Proofs!At(kind)
BY DEF Evaluation!At, Proofs!At, Evaluation!t, Proofs!t

LEMMA SameSizes ==
  \A n : /\ Evaluation!Holds(n) <=> Proofs!Holds(n)
         /\ Evaluation!Values(n) <=> Proofs!Values(n)
         /\ Evaluation!Below(n) = Proofs!Below(n)
BY DEF Evaluation!Holds, Proofs!Holds, Evaluation!Values, Proofs!Values, Evaluation!Below, Proofs!Below

LEMMA SameApply == \A n : Evaluation!Apply(n) <=> Proofs!Apply(n)
BY SameEnd, SameGoOn, SameSizes
   DEF Evaluation!Apply, Proofs!Apply, Evaluation!MayThrow, Proofs!MayThrow,
       Evaluation!MaySetEc, Proofs!MaySetEc

LEMMA SameActions ==
  ASSUME Evaluation!Next
  PROVE  Proofs!Next
<1>1. CASE Evaluation!call
  BY <1>1 DEF Evaluation!call, Proofs!call, Proofs!Next
<1>2. CASE Evaluation!leave
  BY <1>2 DEF Evaluation!leave, Proofs!leave, Proofs!Next
<1>3. CASE Evaluation!literal \/ Evaluation!current_node
  BY <1>3, SameAt, SameGoOn DEF Evaluation!literal, Proofs!literal, Evaluation!current_node,
     Proofs!current_node, Evaluation!Quietly, Proofs!Quietly, Proofs!Next
<1>4. CASE Evaluation!begin_expression_type
  BY <1>4, SameAt, SameGoOn, SameEnd, SameSizes
     DEF Evaluation!begin_expression_type, Proofs!begin_expression_type,
         Evaluation!Quietly, Proofs!Quietly, Proofs!Next
<1>5. CASE Evaluation!expression \/ Evaluation!unary_operator \/ Evaluation!binary_operator
  BY <1>5, SameAt, SameApply
     DEF Evaluation!expression, Evaluation!unary_operator, Evaluation!binary_operator,
         Proofs!expression, Proofs!unary_operator, Proofs!binary_operator, Proofs!Next
<1>6. CASE Evaluation!pipe
  BY <1>6, SameAt, SameGoOn, SameEnd, SameSizes
     DEF Evaluation!pipe, Proofs!pipe, Evaluation!Quietly, Proofs!Quietly, Proofs!Next
<1>7. CASE Evaluation!argument
  BY <1>7, SameAt, SameGoOn, SameEnd, SameSizes, SameLast
     DEF Evaluation!argument, Proofs!argument, Proofs!Next
<1>8. CASE Evaluation!function
  BY <1>8, SameAt, SameGoOn, SameEnd, SameArity
     DEF Evaluation!function, Proofs!function, Evaluation!t, Proofs!t,
         Evaluation!MayThrow, Proofs!MayThrow, Proofs!Next
<1>9. CASE Evaluation!ignored
  BY <1>9, SameGoOn DEF Evaluation!ignored, Proofs!ignored, Evaluation!t, Proofs!t,
     Evaluation!Quietly, Proofs!Quietly, Evaluation!Openers, Proofs!Openers,
     Evaluation!Closers, Proofs!Closers, Proofs!Next
<1>10. CASE Evaluation!finish
  BY <1>10, SameEnd DEF Evaluation!finish, Proofs!finish, Proofs!Next
<1> QED BY <1>1, <1>2, <1>3, <1>4, <1>5, <1>6, <1>7, <1>8, <1>9, <1>10 DEF Evaluation!Next

LEMMA SameInit == Evaluation!Init => Proofs!Init
BY DEF Evaluation!Init, Proofs!Init

LEMMA SameVars == UNCHANGED Evaluation!vars => UNCHANGED Proofs!vars
BY DEF Evaluation!vars, Proofs!vars

LEMMA ProvenInit == Proofs!Init => Proofs!IInv
BY Proofs!InitInv, SameTokens, FunctionAssumption

LEMMA ProvenNext == Proofs!IInv /\ [Proofs!Next]_Proofs!vars => Proofs!IInv'
BY Proofs!NextInv, SameTokens, FunctionAssumption

LEMMA SameWellFormed == \A l : WellFormed(l) => Proofs!WellFormed(l)
<1>1. \A l, k : Proofs!Skipped(l, k) <=> Skipped(l, k)
  BY DEF Proofs!Skipped, Skipped
<1>2. \A t : Proofs!Need(t) = Need(t) /\ Proofs!Effect(t) = Effect(t)
  BY DEF Proofs!Need, Need, Proofs!Effect, Effect
<1>3. ASSUME NEW l PROVE Proofs!StackDepth(l) = StackDepth(l)
  BY <1>1, <1>2 DEF Proofs!StackDepth, StackDepth
<1>4. ASSUME NEW l PROVE Proofs!ArgumentDepth(l) = ArgumentDepth(l)
  BY DEF Proofs!ArgumentDepth, ArgumentDepth
<1> QED BY <1>1, <1>2, <1>3, <1>4, SameTokens
        DEF WellFormed, Proofs!WellFormed, WellFormedBy, Proofs!WellFormedBy, DepthsOf, Proofs!DepthsOf

(* The call that is watched runs a well-formed list, or there is none. *)
LEMMA WatchedRuns ==
  ASSUME FramesOK, ListsRun, Proofs!IInv
  PROVE  CallRuns
<1>1. CASE Depth \in DOMAIN frames
  <2>1. WellFormed(TokensIn(Watched.toks))
    BY <1>1 DEF ListsRun, Watched
  <2>2. Proofs!WellFormed(TokensIn(Watched.toks))
    BY <2>1, SameWellFormed
  <2> QED BY <2>2 DEF Proofs!IInv, Proofs!NeverFails, CallRuns
<1>2. CASE Depth \notin DOMAIN frames
  BY <1>2, IdleFrame DEF Watched, CallRuns
<1> QED BY <1>1, <1>2

(***************************************************************************)
(* The list of a call never fails an assertion of evaluate_tokens, at      *)
(* whatever depth, whatever the nodes, operators and functions compute,    *)
(* and no expression is taken for a value: if the lists are well formed.   *)
(***************************************************************************)
THEOREM CallsRun == Spec /\ []ListsRun => []CallRuns
<1>1. Init => Proofs!IInv
  BY InitSeen, SameInit, ProvenInit
<1>2. /\ IInv /\ IInv' /\ ListsRun /\ ListsRun' /\ [Next]_vars
      /\ Proofs!IInv
      => Proofs!IInv'
  <2>1. SUFFICES ASSUME IInv, IInv', ListsRun, ListsRun', [Next]_vars, Proofs!IInv
                 PROVE  Proofs!IInv'
    OBVIOUS
  <2>2. ListsOfTokens /\ ListsOfTokens'
    BY <2>1 DEF ListsRun
  <2>3. [Evaluation!Next]_Evaluation!vars
    BY <2>1, <2>2, NextSeen
  <2>4. [Proofs!Next]_Proofs!vars
    BY <2>3, SameActions, SameVars
  <2> QED BY <2>1, <2>4, ProvenNext
<1>3. IInv /\ ListsRun /\ Proofs!IInv => CallRuns
  BY WatchedRuns DEF IInv
<1> QED BY <1>1, <1>2, <1>3, InitInv, NextInv, PTL DEF Spec
=============================================================================
