-------------------------- MODULE TokenLevelProofs --------------------------
(***************************************************************************)
(* What push_token builds, token by token.  To each token of output_stack_ *)
(* belongs the number of parameters that would be on stack after it,       *)
(* counted from the beginning of the innermost element, value or filter,   *)
(* and to each operator of operator_stack_ the number that would be there  *)
(* once it and the ones above it are moved (Leveled).  A group that ends   *)
(* leaves the count where it was when the group began (Program), and the   *)
(* lists that are taken from it are well formed.                           *)
(***************************************************************************)
EXTENDS LedgerProofs

-----------------------------------------------------------------------------
(* Token lists. *)

(* The tokens of such an expression: at a boundary the counting begins     *)
(* anew, the others are what the lists of a program consist of.            *)
Boundary == {"begin_filter", "begin_multi_select_list", "begin_multi_select_hash",
             "separator", "key"}

Inner == {"current_node", "expression", "unary_operator", "binary_operator", "pipe"}

(* f[k] parameters are on stack after k tokens, and one at the end. *)
Counts(l, f) ==
  /\ f \in [0 .. Len(l) -> Nat]
  /\ f[0] = 0 /\ f[Len(l)] = 1
  /\ \A k \in 1 .. Len(l) :
       /\ l[k].kind \in Inner
       /\ Need(l[k]) <= f[k-1]
       /\ f[k] = f[k-1] + Effect(l[k])

LEMMA Effects ==
  ASSUME NEW tok
  PROVE  /\ tok.kind = "current_node" => Effect(tok) = 1 /\ Need(tok) = 0
         /\ tok.kind = "binary_operator" => Effect(tok) = -1 /\ Need(tok) = 2
         /\ tok.kind \in {"expression", "unary_operator", "pipe"} =>
              Effect(tok) = 0 /\ Need(tok) = 1
BY DEF Effect, Need

SameSteps(n, f, g) == f[0] = g[0] /\ \A k \in 1 .. n : f[k-1] = g[k-1] => f[k] = g[k]

LEMMA SameFromStart ==
  ASSUME NEW n \in Nat, NEW f, NEW g, SameSteps(n, f, g)
  PROVE  \A k \in 0 .. n : f[k] = g[k]
<1> DEFINE D == {k \in 0 .. n : f[k] # g[k]}
<1> SUFFICES ASSUME D # {} PROVE FALSE
  OBVIOUS
<1>1. PICK k \in D : \A m \in D : k <= m
  <2>1. D \subseteq Nat
    OBVIOUS
  <2> HIDE DEF D
  <2> QED BY <2>1, Least
<1>2. k \in 1 .. n /\ k - 1 \in 0 .. n /\ ~(k <= k - 1)
  BY DEF SameSteps
<1>3. f[k-1] = g[k-1]
  BY <1>1, <1>2
<1> QED BY <1>2, <1>3 DEF SameSteps

LEMMA CountedRuns ==
  ASSUME NEW l \in Seq(Token), NEW f, Counts(l, f)
  PROVE  WellFormed(l)
<1> DEFINE n == Len(l)
           After1(g, i) == IF i = 0 THEN 0
                           ELSE g[i-1] + (IF Skipped(l, i) THEN 0 ELSE Effect(l[i]))
           After2(g, i) == IF i = 0 THEN 0
                           ELSE CASE l[i].kind = "argument" -> g[i-1] + 1
                                  [] l[i].kind = "function" -> 0
                                  [] OTHER -> g[i-1]
           z == [k \in 0 .. n |-> 0]
<1>1. /\ n \in Nat /\ f \in [0 .. n -> Nat] /\ f[0] = 0 /\ f[n] = 1
      /\ \A k \in 1 .. n : l[k].kind \in Inner /\ Need(l[k]) <= f[k-1]
                           /\ f[k] = f[k-1] + Effect(l[k])
  BY DEF Counts
<1>2. \A k \in 1 .. n : ~Skipped(l, k) /\ l[k].kind \notin {"argument", "function", "begin_expression_type"}
  <2>1. ASSUME NEW k \in 1 .. n PROVE l[k].kind \notin {"argument", "function", "begin_expression_type"}
    BY <1>1 DEF Inner
  <2>2. ASSUME NEW k \in 1 .. n PROVE ~Skipped(l, k)
    <3>1. k > 1 => k - 1 \in 1 .. n
      BY <1>1
    <3> QED BY <2>1, <3>1 DEF Skipped
  <2> QED BY <2>1, <2>2
<1>3. \A k \in 0 .. n : k # 0 => k \in 1 .. n /\ k - 1 \in 0 .. n
  BY <1>1
<1> HIDE DEF n
<1>4. \A g : \A i \in 1 .. n : After1(g, i) = g[i-1] + Effect(l[i]) /\ After2(g, i) = g[i-1]
  BY <1>2
<1>5. \A g : After1(g, 0) = 0 /\ After2(g, 0) = 0
  OBVIOUS
<1>6. StackDepth(l) = CHOOSE g : g = [i \in 0 .. n |-> After1(g, i)]
  BY DEF StackDepth, n
<1>7. ArgumentDepth(l) = CHOOSE g : g = [i \in 0 .. n |-> After2(g, i)]
  BY DEF ArgumentDepth, n
<1> HIDE DEF After1, After2
<1>8. f = [i \in 0 .. n |-> After1(f, i)]
  <2>1. \A i \in 0 .. n : f[i] = After1(f, i)
    BY <1>1, <1>3, <1>4, <1>5
  <2> QED BY <1>1, <2>1
<1>9. z = [i \in 0 .. n |-> After2(z, i)]
  <2>1. \A i \in 0 .. n : z[i] = After2(z, i)
    BY <1>1, <1>3, <1>4, <1>5
  <2> QED BY <2>1
<1>10. StackDepth(l) = f
  <2> DEFINE g == StackDepth(l)
  <2>1. g = [i \in 0 .. n |-> After1(g, i)]
    BY <1>6, <1>8
  <2> HIDE DEF g
  <2>2. \A i \in 0 .. n : g[i] = After1(g, i)
    BY <2>1
  <2>3. g[0] = f[0]
    BY <1>1, <1>5, <2>2
  <2>4. \A k \in 1 .. n : g[k-1] = f[k-1] => g[k] = f[k]
    BY <1>1, <1>4, <2>2
  <2>5. \A k \in 0 .. n : g[k] = f[k]
    <3>1. SameSteps(n, g, f)
      BY <2>3, <2>4 DEF SameSteps
    <3> QED BY <1>1, <3>1, SameFromStart
  <2>6. f = [k \in 0 .. n |-> f[k]]
    BY <1>1
  <2>7. g = [k \in 0 .. n |-> g[k]]
    BY <2>1
  <2>8. [k \in 0 .. n |-> g[k]] = [k \in 0 .. n |-> f[k]]
    BY <2>5
  <2> QED BY <2>6, <2>7, <2>8 DEF g
<1>11. ArgumentDepth(l) = z
  <2> DEFINE g == ArgumentDepth(l)
  <2>1. g = [i \in 0 .. n |-> After2(g, i)]
    BY <1>7, <1>9
  <2> HIDE DEF g
  <2>2. \A i \in 0 .. n : g[i] = After2(g, i)
    BY <2>1
  <2>3. g[0] = z[0]
    BY <1>1, <1>5, <2>2
  <2>4. \A k \in 1 .. n : g[k-1] = z[k-1] => g[k] = z[k]
    BY <1>1, <1>4, <2>2
  <2>5. \A k \in 0 .. n : g[k] = z[k]
    <3> HIDE DEF z
    <3>1. SameSteps(n, g, z)
      BY <2>3, <2>4 DEF SameSteps
    <3> QED BY <1>1, <3>1, SameFromStart
  <2>7. g = [k \in 0 .. n |-> g[k]]
    BY <2>1
  <2>8. [k \in 0 .. n |-> g[k]] = [k \in 0 .. n |-> z[k]]
    BY <2>5
  <2>9. z = [k \in 0 .. n |-> z[k]]
    OBVIOUS
  <2> QED BY <2>7, <2>8, <2>9 DEF g
<1>12. z \in [0 .. n -> Nat] /\ \A k \in 0 .. n : z[k] = 0
  OBVIOUS
<1>13. DepthsOf(l, f, z)
  <2>1. f \in [0 .. n -> Int]
    BY <1>1
  <2>2. f[0] = 0 /\ z[0] = 0
    BY <1>1, <1>12
  <2>3. ASSUME NEW i \in 1 .. n
        PROVE  /\ f[i] = f[i-1] + (IF Skipped(l, i) THEN 0 ELSE Effect(l[i]))
               /\ z[i] = CASE l[i].kind = "argument" -> z[i-1] + 1
                           [] l[i].kind = "function" -> 0
                           [] OTHER -> z[i-1]
    <3>1. f[i] = f[i-1] + Effect(l[i]) /\ ~Skipped(l, i)
      BY <1>1, <1>2
    <3>2. l[i].kind # "argument" /\ l[i].kind # "function"
      BY <1>2
    <3>3. z[i] = z[i-1]
      BY <1>1, <1>12
    <3> HIDE DEF z
    <3>4. z[i] = CASE l[i].kind = "argument" -> z[i-1] + 1
                   [] l[i].kind = "function" -> 0
                   [] OTHER -> z[i-1]
      BY <3>2, <3>3
    <3> QED BY <3>1, <3>4
  <2> HIDE DEF z
  <2> QED BY <1>12, <2>1, <2>2, <2>3 DEF DepthsOf, n
<1> HIDE DEF z
<1>14. WellFormedBy(l, f, z)
  <2>1. \A i \in 1 .. n : l[i].kind # "begin_expression_type" /\ l[i].kind # "function"
    BY <1>2
  <2> QED BY <1>1, <1>13, <2>1 DEF WellFormedBy, n
<1> QED BY <1>10, <1>11, <1>14 DEF WellFormed

(* The innermost group at k, in the sense of output_stack_, is of one of kinds. *)
Within(q, k, kinds) ==
  \E b \in 1 .. k - 1 : q[b].kind \in kinds /\ \A j \in b + 1 .. k - 1 : q[j].kind \notin Openers

(* The token at k is where a key is read next. *)
WantsKey(q, k) ==
  \/ q[k].kind = "begin_multi_select_hash"
  \/ q[k].kind = "separator" /\ Within(q, k, {"begin_multi_select_hash"})

(* v[k] parameters would be on stack after the token at k, counted from the *)
(* last boundary.                                                           *)
Placed(q, v, k) ==
  /\ q[k].kind \in Boundary \cup Inner
  /\ k = 1 => q[k].kind = "current_node" /\ v[k] = 1
  /\ k > 1 => /\ v[k] = IF q[k].kind \in Boundary THEN 1 ELSE v[k-1] + Effect(q[k])
              /\ q[k].kind = "key" <=> WantsKey(q, k - 1)
  /\ q[k].kind = "separator" =>
       /\ k > 1 /\ q[k-1].kind \notin Boundary /\ v[k-1] = 1
       /\ Within(q, k, {"begin_multi_select_list", "begin_multi_select_hash"})

Tidy(q, v) ==
  /\ v \in [1 .. Len(q) -> Nat \ {0}]
  /\ \A k \in 1 .. Len(q) : Placed(q, v, k)

(* w[k] parameters would be on stack once the operators above k are moved   *)
(* to output_stack_.  G are the lparens of groups: a group starts from one. *)
Weighs(ops, w, G) ==
  /\ w \in [0 .. Len(ops) -> Nat \ {0}]
  /\ w[0] = 1
  /\ \A k \in 1 .. Len(ops) :
       /\ ops[k].kind = "binary_operator" => w[k] = w[k-1] + 1
       /\ ops[k].kind = "unary_operator" => w[k] = w[k-1]
       /\ ops[k].kind = "lparen" => w[k] = IF k \in G THEN 1 ELSE w[k-1]

Leveled(s, v, w, G) ==
  /\ Tidy(s.output, v) /\ Weighs(s.operators, w, G)
  /\ v[Len(s.output)] = w[Len(s.operators)]

Agree(f, g, n) == \A k \in 1 .. n : f[k] = g[k]

Grows(q, v, p, u) == Tidy(p, u) /\ Agree(u, v, Len(q))

LEMMA KindsApart ==
  /\ Boundary \cap Inner = {} /\ Operators \subseteq Inner /\ Openers \cap Inner = {}
  /\ Operators \cap Boundary = {}
BY DEF Boundary, Inner, Operators, Openers

LEMMA WithinSame ==
  ASSUME NEW q, NEW p, NEW k \in Nat, Agree(p, q, k)
  PROVE  /\ \A kinds : Within(p, k + 1, kinds) <=> Within(q, k + 1, kinds)
         /\ \A kinds : Within(p, k, kinds) <=> Within(q, k, kinds)
         /\ k > 0 => (WantsKey(p, k) <=> WantsKey(q, k))
<1>1. ASSUME NEW kinds, NEW m \in {k, k + 1}
      PROVE  Within(p, m, kinds) <=> Within(q, m, kinds)
  <2>1. \A b \in 1 .. m - 1 : p[b] = q[b] /\ \A j \in b + 1 .. m - 1 : p[j] = q[j]
    BY DEF Agree
  <2> QED BY <2>1 DEF Within
<1>2. k > 0 => p[k] = q[k]
  BY DEF Agree
<1> QED BY <1>1, <1>2 DEF WantsKey

LEMMA PlacedSame ==
  ASSUME NEW q, NEW p, NEW v, NEW u, NEW k \in Nat \ {0},
         Agree(p, q, k), Agree(u, v, k), Placed(q, v, k)
  PROVE  Placed(p, u, k)
<1>1. p[k] = q[k] /\ u[k] = v[k]
  BY DEF Agree
<1>2. \A kinds : Within(p, k, kinds) <=> Within(q, k, kinds)
  BY WithinSame
<1>3. k > 1 => /\ p[k-1] = q[k-1] /\ u[k-1] = v[k-1]
               /\ WantsKey(p, k - 1) <=> WantsKey(q, k - 1)
  <2> HAVE k > 1
  <2>1. k - 1 \in Nat /\ k - 1 > 0 /\ k - 1 \in 1 .. k /\ Agree(p, q, k - 1)
    BY DEF Agree
  <2>2. WantsKey(p, k - 1) <=> WantsKey(q, k - 1)
    <3> DEFINE m == k - 1
    <3>1. m \in Nat /\ m > 0 /\ Agree(p, q, m)
      BY <2>1
    <3> HIDE DEF m
    <3>2. WantsKey(p, m) <=> WantsKey(q, m)
      BY <3>1, WithinSame
    <3> QED BY <3>2 DEF m
  <2> QED BY <2>1, <2>2 DEF Agree
<1> QED BY <1>1, <1>2, <1>3 DEF Placed

PlacedAbove(q, v, n) == \A k \in 1 .. Len(q) : k > n => Placed(q, v, k)

LEMMA TidyExtended ==
  ASSUME NEW q \in Seq(Token), NEW v, Tidy(q, v), NEW p \in Seq(Token), Len(q) <= Len(p),
         Agree(p, q, Len(q)),
         NEW u \in [1 .. Len(p) -> Nat \ {0}], Agree(u, v, Len(q)),
         PlacedAbove(p, u, Len(q))
  PROVE  Grows(q, v, p, u)
<1>1. ASSUME NEW k \in 1 .. Len(q) PROVE Placed(p, u, k)
  <2>1. Placed(q, v, k) /\ k \in Nat \ {0}
    BY DEF Tidy
  <2>2. Agree(p, q, k) /\ Agree(u, v, k)
    <3>1. \A j \in 1 .. k : j \in 1 .. Len(q)
      OBVIOUS
    <3> QED BY <3>1 DEF Agree
  <2> QED BY <2>1, <2>2, PlacedSame
<1>2. \A k \in 1 .. Len(p) : k \in 1 .. Len(q) \/ k > Len(q)
  OBVIOUS
<1> QED BY <1>1, <1>2 DEF Tidy, Grows, PlacedAbove

LEMMA TidyCut ==
  ASSUME NEW q \in Seq(Token), NEW v, Tidy(q, v), NEW n \in 0 .. Len(q)
  PROVE  Tidy(SubSeq(q, 1, n), [k \in 1 .. n |-> v[k]])
<1> DEFINE p == SubSeq(q, 1, n)
           u == [k \in 1 .. n |-> v[k]]
<1>1. p \in Seq(Token) /\ Len(p) = n /\ \A k \in 1 .. n : p[k] = q[k]
  BY Prefix
<1>2. u \in [1 .. n -> Nat \ {0}] /\ \A k \in 1 .. n : u[k] = v[k]
  BY DEF Tidy
<1> HIDE DEF p, u
<1>3. ASSUME NEW k \in 1 .. n PROVE Placed(p, u, k)
  <2>1. Placed(q, v, k) /\ k \in Nat \ {0}
    BY DEF Tidy
  <2>2. Agree(p, q, k) /\ Agree(u, v, k)
    BY <1>1, <1>2 DEF Agree
  <2> QED BY <2>1, <2>2, PlacedSame
<1>4. Tidy(p, u)
  BY <1>1, <1>2, <1>3 DEF Tidy
<1> QED BY <1>4 DEF p, u

(* What a token has to satisfy to be put on output_stack_. *)
Fits(q, v, tok, x) ==
  /\ tok.kind \in Boundary \cup Inner
  /\ x = IF tok.kind \in Boundary THEN 1 ELSE v[Len(q)] + Effect(tok)
  /\ tok.kind = "key" <=> WantsKey(q, Len(q))
  /\ tok.kind = "separator" =>
       /\ q[Len(q)].kind \notin Boundary /\ v[Len(q)] = 1
       /\ Within(q, Len(q) + 1, {"begin_multi_select_list", "begin_multi_select_hash"})

LEMMA TokenPlaced ==
  ASSUME NEW q \in Seq(Token), q # <<>>, NEW v, Tidy(q, v), NEW tok \in Token,
         NEW x \in Nat \ {0}, Fits(q, v, tok, x)
  PROVE  \E u : Grows(q, v, Append(q, tok), u) /\ u[Len(q) + 1] = x
<1> DEFINE n == Len(q)
           p == Append(q, tok)
           u == [k \in 1 .. n + 1 |-> IF k = n + 1 THEN x ELSE v[k]]
<1>1. /\ n \in Nat \ {0} /\ p \in Seq(Token) /\ Len(p) = n + 1
      /\ p[n + 1] = tok /\ \A k \in 1 .. n : p[k] = q[k]
  OBVIOUS
<1>2. v \in [1 .. n -> Nat \ {0}]
  BY DEF Tidy
<1>3. /\ u \in [1 .. n + 1 -> Nat \ {0}] /\ u[n + 1] = x
      /\ \A k \in 1 .. n : u[k] = v[k]
  BY <1>1, <1>2
<1> HIDE DEF n, p, u
<1>4. Placed(p, u, n + 1)
  <2>1. /\ \A kinds : Within(p, n + 1, kinds) <=> Within(q, n + 1, kinds)
        /\ WantsKey(p, n) <=> WantsKey(q, n)
    <3>1. Agree(p, q, n) /\ n \in Nat /\ n > 0
      BY <1>1 DEF Agree
    <3> QED BY <3>1, WithinSame
  <2>2. /\ tok.kind \in Boundary \cup Inner
        /\ x = IF tok.kind \in Boundary THEN 1 ELSE v[n] + Effect(tok)
        /\ tok.kind = "key" <=> WantsKey(q, n)
        /\ tok.kind = "separator" =>
             /\ q[n].kind \notin Boundary /\ v[n] = 1
             /\ Within(q, n + 1, {"begin_multi_select_list", "begin_multi_select_hash"})
    BY DEF Fits, n
  <2>3. /\ (n + 1) - 1 = n /\ n + 1 > 1 /\ n + 1 # 1 /\ n \in 1 .. n
    BY <1>1
  <2>4. p[n] = q[n] /\ u[n] = v[n]
    BY <1>1, <1>3, <2>3
  <2> QED BY <1>1, <1>3, <2>1, <2>2, <2>3, <2>4 DEF Placed
<1>5. Grows(q, v, p, u)
  <2>1. PlacedAbove(p, u, n)
    <3>1. \A k \in 1 .. Len(p) : k > n => k = n + 1
      BY <1>1
    <3> QED BY <1>4, <3>1 DEF PlacedAbove
  <2>2. Agree(p, q, n) /\ Agree(u, v, n) /\ n <= Len(p) /\ u \in [1 .. Len(p) -> Nat \ {0}]
    BY <1>1, <1>3 DEF Agree
  <2> QED BY <1>1, <2>1, <2>2, TidyExtended DEF n
<1> QED BY <1>3, <1>5 DEF n, p

-----------------------------------------------------------------------------
(* The operators above n, moved to output_stack_. *)

Settled(q) == q # <<>> /\ Last(q).kind \notin Boundary
KeyNext(q) == WantsKey(q, Len(q))

Reaches(q, v, p, x) == \E u : Grows(q, v, p, u) /\ u[Len(p)] = x

OperatorsAbove(p, n) == \A k \in 1 .. Len(p) : k > n => p[k].kind \in Operators

Onward(q, p) ==
  /\ p \in Seq(Token) /\ p # <<>> /\ ~KeyNext(p)
  /\ Settled(q) => Settled(p)
  /\ Len(q) <= Len(p) /\ Agree(p, q, Len(q)) /\ OperatorsAbove(p, Len(q))

OnlyOperators(ops, k) == \A i \in k + 1 .. Len(ops) : ops[i].kind \in Operators

LEMMA MovedTidy ==
  ASSUME NEW q \in Seq(Token), q # <<>>, NEW v, Tidy(q, v), ~WantsKey(q, Len(q)),
         NEW ops \in Seq(OperatorToken), NEW w, NEW G, Weighs(ops, w, G),
         v[Len(q)] = w[Len(ops)],
         NEW n \in 0 .. Len(ops), OnlyOperators(ops, n),
         NEW p, p = q \o Reverse(After(n, ops))
  PROVE  Reaches(q, v, p, w[n]) /\ Onward(q, p)
<1> DEFINE moved == Reverse(After(n, ops))
           m == Len(q)
           l == Len(ops)
           u == [k \in 1 .. m + (l - n) |-> IF k <= m THEN v[k] ELSE w[l - (k - m)]]
<1>1. /\ moved \in Seq(OperatorToken) /\ Len(moved) = l - n
      /\ \A k \in 1 .. l - n : (l + 1) - k \in n + 1 .. l /\ moved[k] = ops[(l + 1) - k]
  BY MovedTokens
<1>2. OperatorToken \subseteq Token
  BY DEF OperatorToken
<1>3. m \in Nat \ {0} /\ l \in Nat /\ n \in Nat /\ n <= l /\ l - n \in Nat
  OBVIOUS
<1>4. /\ v \in [1 .. m -> Nat \ {0}] /\ w \in [0 .. l -> Nat \ {0}] /\ v[m] = w[l]
      /\ \A k \in 1 .. l :
           /\ ops[k].kind = "binary_operator" => w[k] = w[k-1] + 1
           /\ ops[k].kind = "unary_operator" => w[k] = w[k-1]
  BY DEF Tidy, Weighs
<1>5. u \in [1 .. m + (l - n) -> Nat \ {0}]
  <2> SUFFICES ASSUME NEW k \in 1 .. m + (l - n)
               PROVE  (IF k <= m THEN v[k] ELSE w[l - (k - m)]) \in Nat \ {0}
    OBVIOUS
  <2>1. k <= m => k \in 1 .. m
    OBVIOUS
  <2>2. ~(k <= m) => l - (k - m) \in 0 .. l
    BY <1>3
  <2> QED BY <1>4, <2>1, <2>2
<1>6. /\ \A k \in 1 .. m : u[k] = v[k]
      /\ \A j \in 1 .. l - n : u[m + j] = w[l - j]
  <2>1. \A k \in 1 .. m : k \in 1 .. m + (l - n) /\ k <= m
    BY <1>3
  <2>2. \A j \in 1 .. l - n : m + j \in 1 .. m + (l - n) /\ ~(m + j <= m) /\ l - ((m + j) - m) = l - j
    BY <1>3
  <2> QED BY <2>1, <2>2
<1>0. p = q \o moved
  OBVIOUS
<1> HIDE DEF moved, u, m, l
<1>7. /\ p \in Seq(Token) /\ Len(p) = m + (l - n)
      /\ \A k \in 1 .. m : p[k] = q[k]
      /\ \A j \in 1 .. l - n : p[m + j] = moved[j]
  <2>1. moved \in Seq(Token)
    BY <1>1, <1>2
  <2>2. /\ p \in Seq(Token) /\ Len(p) = Len(q) + Len(moved)
        /\ \A k \in 1 .. Len(q) : p[k] = q[k]
        /\ \A j \in 1 .. Len(moved) : p[Len(q) + j] = moved[j]
    BY <1>0, <2>1
  <2> QED BY <1>1, <2>2 DEF m
<1>8. \A j \in 1 .. l - n : p[m + j].kind \in Operators
  BY <1>1, <1>7 DEF l, OnlyOperators
<1>9. \A k \in 1 .. Len(p) : k > m => k - m \in 1 .. l - n /\ m + (k - m) = k
  BY <1>3, <1>7
<1>10. \A k \in 1 .. Len(p) : k > m => p[k].kind \in Operators
  BY <1>8, <1>9
<1>11. \A k \in 1 .. Len(p) : k >= m => ~WantsKey(p, k)
  <2> TAKE k \in 1 .. Len(p)
  <2> HAVE k >= m
  <2>1. CASE k = m
    <3>1. Agree(p, q, m) /\ m \in Nat /\ m > 0
      BY <1>3, <1>7 DEF Agree
    <3>2. WantsKey(p, m) <=> WantsKey(q, m)
      BY <3>1, WithinSame
    <3> QED BY <2>1, <3>2 DEF m
  <2>2. CASE k > m
    BY <1>10, <2>2 DEF WantsKey, Operators
  <2> QED BY <1>3, <2>1, <2>2
<1>12. ASSUME NEW k \in 1 .. Len(p), k > m PROVE Placed(p, u, k)
  <2> DEFINE j == k - m
  <2>1. /\ j \in 1 .. l - n /\ k = m + j /\ k > 1 /\ k # 1 /\ k - 1 >= m /\ k - 1 \in 1 .. Len(p)
    BY <1>3, <1>9, <1>12
  <2>2. u[k] = w[l - j] /\ p[k] = moved[j] /\ moved[j] = ops[(l + 1) - j]
    BY <1>1, <1>6, <1>7, <2>1
  <2>3. u[k - 1] = w[(l + 1) - j]
    <3>1. CASE j = 1
      <4>1. k - 1 = m /\ m \in 1 .. m /\ (l + 1) - j = l
        BY <1>3, <2>1, <3>1
      <4> QED BY <1>4, <1>6, <4>1
    <3>2. CASE j # 1
      <4>1. j - 1 \in 1 .. l - n /\ m + (j - 1) = k - 1 /\ l - (j - 1) = (l + 1) - j
        BY <1>3, <2>1, <3>2
      <4> QED BY <1>6, <4>1
    <3> QED BY <3>1, <3>2
  <2> DEFINE i == (l + 1) - j
  <2>4. i \in 1 .. l /\ i - 1 = l - j /\ i - 1 \in 0 .. l
    BY <1>3, <2>1
  <2>5. p[k] = ops[i] /\ ops[i].kind \in Operators /\ p[k].kind \in Operators
    BY <1>10, <1>12, <2>2
  <2> HIDE DEF i, j
  <2>6. u[k] = w[i - 1] /\ u[k - 1] = w[i] /\ w[i] \in Nat /\ w[i-1] \in Nat
    BY <1>4, <2>2, <2>3, <2>4 DEF i
  <2>7. u[k] = u[k - 1] + Effect(p[k])
    <3>1. CASE ops[i].kind = "binary_operator"
      <4>1. Effect(p[k]) = -1
        BY <2>5, <3>1, Effects
      <4>2. w[i] = w[i-1] + 1
        BY <1>4, <2>4, <3>1
      <4> QED BY <2>6, <4>1, <4>2
    <3>2. CASE ops[i].kind = "unary_operator"
      <4>1. Effect(p[k]) = 0
        BY <2>5, <3>2, Effects
      <4>2. w[i] = w[i-1]
        BY <1>4, <2>4, <3>2
      <4> QED BY <2>6, <4>1, <4>2
    <3> QED BY <2>5, <3>1, <3>2 DEF Operators
  <2>8. p[k].kind \notin Boundary /\ p[k].kind \in Inner
        /\ p[k].kind # "key" /\ p[k].kind # "separator"
    BY <2>5, KindsApart DEF Operators
  <2>9. ~WantsKey(p, k - 1)
    BY <1>11, <2>1
  <2>10. u[k] = IF p[k].kind \in Boundary THEN 1 ELSE u[k - 1] + Effect(p[k])
    BY <2>7, <2>8
  <2> QED BY <2>1, <2>8, <2>9, <2>10 DEF Placed
<1>13. Grows(q, v, p, u)
  <2>1. PlacedAbove(p, u, m)
    BY <1>12 DEF PlacedAbove
  <2>2. Agree(p, q, m) /\ Agree(u, v, m) /\ m <= Len(p) /\ u \in [1 .. Len(p) -> Nat \ {0}]
    BY <1>3, <1>5, <1>6, <1>7 DEF Agree
  <2> QED BY <1>7, <2>1, <2>2, TidyExtended DEF m
<1>14. u[Len(p)] = w[n]
  <2>1. CASE l = n
    BY <1>3, <1>4, <1>6, <1>7, <2>1
  <2>2. CASE l # n
    <3>1. l - n \in 1 .. l - n /\ l - (l - n) = n
      BY <1>3, <2>2
    <3> QED BY <1>6, <1>7, <3>1
  <2> QED BY <2>1, <2>2
<1>15. Len(p) \in 1 .. Len(p) /\ Len(p) >= m /\ p # <<>>
  BY <1>3, <1>7
<1>16. Last(q).kind \notin Boundary => Last(p).kind \notin Boundary
  <2>1. CASE Len(p) = m
    <3>1. m \in 1 .. m
      BY <1>3
    <3>2. p[m] = q[m]
      BY <1>7, <3>1
    <3> QED BY <2>1, <3>2 DEF Last, m
  <2>2. CASE Len(p) > m
    <3>1. p[Len(p)].kind \in Operators
      BY <1>10, <1>15, <2>2
    <3> QED BY <3>1, KindsApart DEF Last
  <2> QED BY <1>3, <1>7, <2>1, <2>2
<1>17. Len(q) <= Len(p) /\ Agree(p, q, Len(q))
  BY <1>7, <1>15 DEF Agree, m
<1>18. Reaches(q, v, p, w[n])
  BY <1>13, <1>14 DEF Reaches
<1>19. OperatorsAbove(p, Len(q)) /\ ~KeyNext(p) /\ (Settled(q) => Settled(p))
  BY <1>10, <1>11, <1>15, <1>16 DEF OperatorsAbove, KeyNext, Settled, m
<1> QED BY <1>7, <1>15, <1>17, <1>18, <1>19 DEF Onward

SameTo(x, w, n) == \A k \in 0 .. n : x[k] = w[k]

SameBelow(H, G, n) == \A k \in 1 .. n : k \in H <=> k \in G

LEMMA WeighsCut ==
  ASSUME NEW ops \in Seq(OperatorToken), NEW w, NEW G, Weighs(ops, w, G), NEW n \in 0 .. Len(ops),
         NEW H, SameBelow(H, G, n)
  PROVE  \E x : Weighs(SubSeq(ops, 1, n), x, H) /\ SameTo(x, w, n)
<1> DEFINE p == SubSeq(ops, 1, n)
           x == [k \in 0 .. n |-> w[k]]
<1>1. Len(p) = n /\ (\A k \in 1 .. n : p[k] = ops[k]) /\ n \in Nat
  BY Prefix
<1>2. w \in [0 .. Len(ops) -> Nat \ {0}] /\ w[0] = 1
  BY DEF Weighs
<1>3. x \in [0 .. n -> Nat \ {0}] /\ \A k \in 0 .. n : x[k] = w[k]
  BY <1>2
<1> HIDE DEF p, x
<1>4. ASSUME NEW k \in 1 .. n
      PROVE  /\ p[k].kind = "binary_operator" => x[k] = x[k-1] + 1
             /\ p[k].kind = "unary_operator" => x[k] = x[k-1]
             /\ p[k].kind = "lparen" => x[k] = IF k \in H THEN 1 ELSE x[k-1]
  <2>1. k \in 1 .. Len(ops) /\ k \in 0 .. n /\ k - 1 \in 0 .. n
    BY <1>1
  <2>2. p[k] = ops[k] /\ x[k] = w[k] /\ x[k-1] = w[k-1] /\ (k \in H <=> k \in G)
    BY <1>1, <1>3, <2>1 DEF SameBelow
  <2> QED BY <2>1, <2>2 DEF Weighs
<1>5. x[0] = 1
  BY <1>1, <1>2, <1>3
<1>6. Weighs(p, x, H)
  BY <1>1, <1>3, <1>4, <1>5 DEF Weighs
<1> QED BY <1>3, <1>6 DEF SameTo, p

Weight(tok, n, H, below) ==
  CASE tok.kind = "binary_operator" -> below + 1
    [] tok.kind = "unary_operator" -> below
    [] OTHER -> IF n \in H THEN 1 ELSE below

LEMMA WeighsPut ==
  ASSUME NEW ops \in Seq(OperatorToken), NEW w, NEW G, Weighs(ops, w, G), NEW n \in 0 .. Len(ops),
         NEW H, SameBelow(H, G, n), NEW tok \in OperatorToken
  PROVE  LET p == Append(SubSeq(ops, 1, n), tok)
         IN /\ Len(p) = n + 1
            /\ \E x : /\ Weighs(p, x, H) /\ SameTo(x, w, n)
                      /\ x[n + 1] = Weight(tok, n + 1, H, w[n])
<1> DEFINE r == SubSeq(ops, 1, n)
           p == Append(r, tok)
           top == Weight(tok, n + 1, H, w[n])
<1>1. PICK y : Weighs(r, y, H) /\ SameTo(y, w, n)
  BY WeighsCut
<1>2. r \in Seq(OperatorToken) /\ Len(r) = n /\ n \in Nat
  BY Prefix
<1>3. Len(p) = n + 1 /\ p[n + 1] = tok /\ \A k \in 1 .. n : p[k] = r[k]
  BY <1>2
<1>4. y \in [0 .. n -> Nat \ {0}] /\ y[0] = 1 /\ y[n] = w[n]
  BY <1>1, <1>2 DEF Weighs, SameTo
<1>5. tok.kind \in {"binary_operator", "unary_operator", "lparen"}
  BY DEF OperatorToken, Operators
<1>6. /\ tok.kind = "binary_operator" => top = w[n] + 1
      /\ tok.kind = "unary_operator" => top = w[n]
      /\ tok.kind = "lparen" => top = IF n + 1 \in H THEN 1 ELSE w[n]
  <2>1. ASSUME tok.kind = "binary_operator" PROVE top = w[n] + 1
    BY <2>1 DEF Weight
  <2>2. ASSUME tok.kind = "unary_operator" PROVE top = w[n]
    BY <2>2 DEF Weight
  <2>3. ASSUME tok.kind = "lparen" PROVE top = IF n + 1 \in H THEN 1 ELSE w[n]
    <3>1. tok.kind # "binary_operator" /\ tok.kind # "unary_operator"
      BY <2>3
    <3> QED BY <3>1 DEF Weight
  <2> QED BY <2>1, <2>2, <2>3
<1> DEFINE x == [k \in 0 .. n + 1 |-> IF k = n + 1 THEN top ELSE y[k]]
<1> HIDE DEF r, p, top
<1>7. top \in Nat \ {0}
  <2>1. w[n] \in Nat \ {0}
    BY <1>2, <1>4
  <2> QED BY <1>5, <1>6, <2>1
<1>8. /\ x \in [0 .. n + 1 -> Nat \ {0}] /\ x[n + 1] = top
      /\ \A k \in 0 .. n : x[k] = y[k]
  BY <1>2, <1>4, <1>7
<1> HIDE DEF x
<1>9. ASSUME NEW k \in 1 .. n + 1
      PROVE  /\ p[k].kind = "binary_operator" => x[k] = x[k-1] + 1
             /\ p[k].kind = "unary_operator" => x[k] = x[k-1]
             /\ p[k].kind = "lparen" => x[k] = IF k \in H THEN 1 ELSE x[k-1]
  <2>1. CASE k = n + 1
    <3>1. (n + 1) - 1 = n /\ n \in 0 .. n
      BY <1>2
    <3>2. p[k] = tok /\ x[k] = top /\ x[k-1] = w[n]
      BY <1>3, <1>4, <1>8, <2>1, <3>1
    <3> QED BY <1>6, <2>1, <3>2
  <2>2. CASE k # n + 1
    <3>1. k \in 1 .. n /\ k \in 0 .. n /\ k - 1 \in 0 .. n
      BY <1>2, <2>2
    <3>2. p[k] = r[k] /\ x[k] = y[k] /\ x[k-1] = y[k-1]
      BY <1>3, <1>8, <3>1
    <3> QED BY <1>1, <1>2, <3>1, <3>2 DEF Weighs
  <2> QED BY <2>1, <2>2
<1>10. x[0] = 1
  BY <1>2, <1>4, <1>8
<1>11. Weighs(p, x, H)
  BY <1>3, <1>8, <1>9, <1>10 DEF Weighs
<1>12. SameTo(x, w, n)
  BY <1>1, <1>8 DEF SameTo
<1> QED BY <1>3, <1>8, <1>11, <1>12 DEF p, r, top

-----------------------------------------------------------------------------
(* The fields of the stacks after the functions push_token consists of. *)

LEMMA PutIs ==
  ASSUME NEW s, StacksOK(s), NEW tok
  PROVE  Put(s, tok) = Record(Append(s.output, tok), s.operators, s.ec, s.lists)
<1>1. s = Record(s.output, s.operators, s.ec, s.lists)
  BY Parts
<1> QED BY <1>1 DEF Put, Record

LEMMA LparenIs ==
  ASSUME NEW s, StacksOK(s)
  PROVE  PushLparen(s) = Record(s.output, Append(s.operators, Tok("lparen")), s.ec, s.lists)
<1>1. s = Record(s.output, s.operators, s.ec, s.lists)
  BY Parts
<1> QED BY <1>1 DEF PushLparen, Record

LEMMA UnwoundIs ==
  ASSUME NEW s, StacksOK(s), unwind_rparen(s).ec = NoError
  PROVE  LET p == LastAt("lparen", s.operators)
         IN /\ p \in 1 .. Len(s.operators) /\ IsLastAt("lparen", s.operators, p)
            /\ unwind_rparen(s) = Record(s.output \o Reverse(After(p, s.operators)),
                                         SubSeq(s.operators, 1, p - 1), s.ec, s.lists)
<1> DEFINE p == LastAt("lparen", s.operators)
           q == s.output \o Reverse(After(p, s.operators))
           ops == SubSeq(s.operators, 1, p - 1)
<1>0. s = Record(s.output, s.operators, s.ec, s.lists)
  BY Parts
<1>1. p # 0
  BY UnwindParts
<1>2. p \in 1 .. Len(s.operators) /\ IsLastAt("lparen", s.operators, p)
  BY <1>1, LastAtIs
<1>3. unwind_rparen(s) = Record(q, ops, s.ec, s.lists)
  BY <1>0, <1>1 DEF unwind_rparen, Record
<1> QED BY <1>2, <1>3

Fields4(t, q, ops, e, ls) == t.output = q /\ t.operators = ops /\ t.ec = e /\ t.lists = ls

LEMMA RecordFields ==
  ASSUME NEW q, NEW ops, NEW e, NEW ls
  PROVE  Fields4(Record(q, ops, e, ls), q, ops, e, ls)
BY DEF Record, Fields4

LEMMA PutFields ==
  ASSUME NEW s, StacksOK(s), NEW tok
  PROVE  Fields4(Put(s, tok), Append(s.output, tok), s.operators, s.ec, s.lists)
<1> DEFINE q == Append(s.output, tok)
<1>1. Put(s, tok) = Record(q, s.operators, s.ec, s.lists)
  BY PutIs
<1> HIDE DEF q
<1>2. Fields4(Put(s, tok), q, s.operators, s.ec, s.lists)
  BY <1>1, RecordFields
<1> QED BY <1>2 DEF q

LEMMA LparenFields ==
  ASSUME NEW s, StacksOK(s)
  PROVE  Fields4(PushLparen(s), s.output, Append(s.operators, Tok("lparen")), s.ec, s.lists)
<1> DEFINE ops == Append(s.operators, Tok("lparen"))
<1>1. PushLparen(s) = Record(s.output, ops, s.ec, s.lists)
  BY LparenIs
<1> HIDE DEF ops
<1>2. Fields4(PushLparen(s), s.output, ops, s.ec, s.lists)
  BY <1>1, RecordFields
<1> QED BY <1>2 DEF ops

LparenOff(s, u, p) ==
  /\ p \in 1 .. Len(s.operators) /\ IsLastAt("lparen", s.operators, p)
  /\ Fields4(u, s.output \o Reverse(After(p, s.operators)), SubSeq(s.operators, 1, p - 1),
             s.ec, s.lists)

LEMMA UnwoundFields ==
  ASSUME NEW s, StacksOK(s), unwind_rparen(s).ec = NoError
  PROVE  LparenOff(s, unwind_rparen(s), LastAt("lparen", s.operators))
<1> DEFINE p == LastAt("lparen", s.operators)
           q == s.output \o Reverse(After(p, s.operators))
           ops == SubSeq(s.operators, 1, p - 1)
<1>1. /\ p \in 1 .. Len(s.operators) /\ IsLastAt("lparen", s.operators, p)
      /\ unwind_rparen(s) = Record(q, ops, s.ec, s.lists)
  BY UnwoundIs
<1> HIDE DEF q, ops
<1>2. Fields4(unwind_rparen(s), q, ops, s.ec, s.lists)
  BY <1>1, RecordFields
<1> QED BY <1>1, <1>2 DEF LparenOff, q, ops

LEMMA OperatorFields ==
  ASSUME NEW s, StacksOK(s), NEW tok \in Token, tok.kind \in Operators
  PROVE  \E k \in 0 .. Len(s.operators) :
           /\ OnlyOperators(s.operators, k)
           /\ Fields4(PushOperator(s, tok), s.output \o Reverse(After(k, s.operators)),
                      Append(SubSeq(s.operators, 1, k), tok), s.ec, s.lists)
<1> DEFINE ops == s.operators
           k == IF StacksOn(ops, tok) THEN Len(ops) ELSE KeptBelow(ops, tok)
           q == s.output \o Reverse(After(k, ops))
           grown == Append(SubSeq(ops, 1, k), tok)
<1>1. ops \in Seq(OperatorToken) /\ s.output \in Seq(Token)
  BY Parts DEF OperatorsOK
<1>2. /\ k \in 0 .. Len(ops)
      /\ \A i \in k + 1 .. Len(ops) : ops[i].kind # "lparen"
  <2>1. CASE StacksOn(ops, tok)
    BY <1>1, <2>1
  <2>2. CASE ~StacksOn(ops, tok)
    <3>1. k \in 0 .. Len(ops) /\ IsKept(ops, tok, k)
      BY <1>1, <2>2, KeptBelowIs
    <3> QED BY <3>1, LparensNeverYield DEF IsKept
  <2> QED BY <2>1, <2>2
<1>3. OnlyOperators(ops, k)
  <2>1. \A i \in k + 1 .. Len(ops) : i \in 1 .. Len(ops)
    BY <1>1, <1>2
  <2>2. \A i \in 1 .. Len(ops) : ops[i].kind \in Operators \cup {"lparen"}
    BY <1>1 DEF OperatorToken
  <2> HIDE DEF k, ops
  <2> QED BY <1>2, <2>1, <2>2 DEF OnlyOperators
<1>4. PushOperator(s, tok) = [s EXCEPT !.output = q, !.operators = grown]
  BY DEF PushOperator
<1>5. s = Record(s.output, s.operators, s.ec, s.lists)
  BY Parts
<1> HIDE DEF q, grown, k
<1>6. PushOperator(s, tok) = Record(q, grown, s.ec, s.lists)
  <2> DEFINE r == [s EXCEPT !.output = q]
  <2>1. [s EXCEPT !.output = q, !.operators = grown] = [r EXCEPT !.operators = grown]
    OBVIOUS
  <2>2. r = Record(q, s.operators, s.ec, s.lists)
    BY <1>5 DEF Record
  <2> HIDE DEF r
  <2>3. [r EXCEPT !.operators = grown] = Record(q, grown, s.ec, s.lists)
    BY <2>2 DEF Record
  <2> QED BY <1>4, <2>1, <2>3
<1>7. Fields4(PushOperator(s, tok), q, grown, s.ec, s.lists)
  BY <1>6, RecordFields
<1> QED BY <1>2, <1>3, <1>7 DEF q, grown

(* The levels of t follow from those of s, with the same groups open. *)
Steadily(s, v, w, t, u, x, G) ==
  /\ Leveled(t, u, x, G)
  /\ Agree(u, v, Len(s.output))
  /\ \A l \in Lparens(s.operators) : x[l-1] = w[l-1]

StaysLevel(s, t, G) ==
  \A v, w : Leveled(s, v, w, G) => \E u, x : Steadily(s, v, w, t, u, x, G)

LEMMA SettledWants ==
  ASSUME NEW q, Settled(q)
  PROVE  ~KeyNext(q)
BY DEF Settled, KeyNext, WantsKey, Last, Boundary

LEMMA OutputNotEmpty ==
  ASSUME NEW s, StacksOK(s)
  PROVE  s.output \in Seq(Token) /\ s.output # <<>> /\ s.operators \in Seq(OperatorToken)
BY Parts DEF OutputOK, Rooted, OperatorsOK

LEMMA AppendedLast ==
  ASSUME NEW q \in Seq(Token), NEW tok \in Token
  PROVE  /\ Len(Append(q, tok)) = Len(q) + 1 /\ Last(Append(q, tok)) = tok
         /\ Append(q, tok)[Len(q) + 1] = tok /\ Append(q, tok) # <<>>
         /\ Agree(Append(q, tok), q, Len(q))
         /\ tok.kind \notin Boundary => Settled(Append(q, tok))
<1> DEFINE p == Append(q, tok)
<1>1. Len(p) = Len(q) + 1 /\ p[Len(q) + 1] = tok /\ p # <<>> /\ \A k \in 1 .. Len(q) : p[k] = q[k]
  OBVIOUS
<1> HIDE DEF p
<1> QED BY <1>1 DEF p, Last, Agree, Settled

(* A token is put on output_stack_. *)
LEMMA PutStays ==
  ASSUME NEW s, StacksOK(s), NEW tok \in Token, NEW G,
         \/ tok.kind \in {"expression", "pipe"} /\ ~KeyNext(s.output)
         \/ tok.kind = "key" /\ KeyNext(s.output)
  PROVE  StaysLevel(s, Put(s, tok), G)
<1> DEFINE q == s.output
           n == Len(q)
           t == Put(s, tok)
<1> SUFFICES ASSUME NEW v, NEW w, Leveled(s, v, w, G)
             PROVE  \E u, x : Steadily(s, v, w, t, u, x, G)
  BY DEF StaysLevel
<1>1. q \in Seq(Token) /\ q # <<>> /\ n \in Nat \ {0}
  BY OutputNotEmpty
<1>2. t.output = Append(q, tok) /\ t.operators = s.operators
  BY PutFields DEF Fields4
<1>3. Tidy(q, v) /\ Weighs(s.operators, w, G) /\ v[n] = w[Len(s.operators)]
  BY DEF Leveled
<1> HIDE DEF q, n, t
<1>4. v[n] \in Nat \ {0} /\ Placed(q, v, n)
  <2>1. n \in 1 .. n
    BY <1>1
  <2> QED BY <1>3, <2>1 DEF Tidy, n
<1>5. Fits(q, v, tok, v[n])
  <2>1. CASE tok.kind \in {"expression", "pipe"} /\ ~KeyNext(q)
    <3>1. Effect(tok) = 0 /\ tok.kind \in Inner /\ tok.kind \notin Boundary
      BY <2>1, Effects, KindsApart DEF Inner
    <3>2. v[n] = v[n] + Effect(tok)
      BY <1>4, <3>1
    <3>3. ~WantsKey(q, n)
      BY <2>1 DEF KeyNext, n
    <3> QED BY <2>1, <3>1, <3>2, <3>3 DEF Fits, n
  <2>2. CASE tok.kind = "key" /\ KeyNext(q)
    <3>1. WantsKey(q, n)
      BY <2>2 DEF KeyNext, n
    <3>2. q[n].kind \in Boundary /\ q[n].kind # "current_node"
      BY <3>1 DEF WantsKey, Boundary
    <3>3. v[n] = 1
      BY <1>1, <1>4, <3>2 DEF Placed
    <3>4. tok.kind \in Boundary
      BY <2>2 DEF Boundary
    <3> QED BY <2>2, <3>1, <3>3, <3>4 DEF Fits, n
  <2> QED BY <2>1, <2>2 DEF q
<1>6. PICK u : Grows(q, v, Append(q, tok), u) /\ u[n + 1] = v[n]
  BY <1>1, <1>3, <1>4, <1>5, TokenPlaced DEF n
<1>7. Len(Append(q, tok)) = n + 1
  BY <1>1, AppendedLast DEF n
<1>8. Leveled(t, u, w, G)
  BY <1>2, <1>3, <1>6, <1>7 DEF Leveled, Grows
<1>9. Steadily(s, v, w, t, u, w, G)
  BY <1>6, <1>8 DEF Steadily, Grows, q
<1> QED BY <1>9

LEMMA StaysSame ==
  ASSUME NEW s, NEW G PROVE StaysLevel(s, s, G)
<1> SUFFICES ASSUME NEW v, NEW w, Leveled(s, v, w, G)
             PROVE  \E u, x : Steadily(s, v, w, s, u, x, G)
  BY DEF StaysLevel
<1>1. Steadily(s, v, w, s, v, w, G)
  BY DEF Steadily, Agree
<1> QED BY <1>1

LEMMA AddStays ==
  ASSUME NEW s, StacksOK(s), NEW tok, NEW expr \in Token, expr.kind = "expression", NEW G,
         ~KeyNext(s.output)
  PROVE  /\ StaysLevel(s, AddExpression(s, tok, expr), G)
         /\ Settled(AddExpression(s, tok, expr).output)
         /\ AddExpression(s, tok, expr).lists = s.lists
<1>1. CASE JoinsProjection(s.output, tok)
  <2>1. AddExpression(s, tok, expr) = s
    BY <1>1 DEF AddExpression
  <2>2. Last(s.output).kind = "expression" /\ s.output # <<>>
    BY <1>1 DEF JoinsProjection, IsProjection
  <2>3. Settled(s.output)
    BY <2>2 DEF Settled, Boundary
  <2> QED BY <2>1, <2>3, StaysSame
<1>2. CASE ~JoinsProjection(s.output, tok)
  <2>1. AddExpression(s, tok, expr) = Put(s, expr)
    BY <1>2 DEF AddExpression
  <2>2. StaysLevel(s, Put(s, expr), G)
    BY PutStays
  <2>3. Put(s, expr).output = Append(s.output, expr) /\ Put(s, expr).lists = s.lists
    BY PutFields DEF Fields4
  <2>4. expr.kind \notin Boundary
    BY DEF Boundary
  <2>5. Settled(Append(s.output, expr))
    BY <2>4, OutputNotEmpty, AppendedLast
  <2> QED BY <2>1, <2>2, <2>3, <2>5
<1> QED BY <1>1, <1>2

-----------------------------------------------------------------------------
(* An operator is put on operator_stack_. *)

LEMMA LparensBelow ==
  ASSUME NEW ops \in Seq(OperatorToken), NEW k \in 0 .. Len(ops), OnlyOperators(ops, k),
         NEW x, NEW w, SameTo(x, w, k)
  PROVE  \A l \in Lparens(ops) : l \in 1 .. k /\ x[l-1] = w[l-1]
<1> TAKE l \in Lparens(ops)
<1>1. l \in 1 .. Len(ops) /\ ops[l].kind = "lparen"
  BY DEF Lparens
<1>2. ~(l \in k + 1 .. Len(ops))
  BY <1>1 DEF OnlyOperators, Operators
<1>3. l \in 1 .. k /\ l - 1 \in 0 .. k
  BY <1>1, <1>2
<1> QED BY <1>3 DEF SameTo

Shunted(s, v, w, t, u, x, G, more) ==
  /\ Grows(s.output, v, t.output, u) /\ Weighs(t.operators, x, G)
  /\ x[Len(t.operators)] = u[Len(t.output)] + more
  /\ \A l \in Lparens(s.operators) : x[l-1] = w[l-1]

LEMMA OperatorShunted ==
  ASSUME NEW s, StacksOK(s), NEW v, NEW w, NEW G, Leveled(s, v, w, G), ~KeyNext(s.output),
         NEW tok \in Token, tok.kind \in Operators
  PROVE  LET t == PushOperator(s, tok)
         IN /\ \E u, x : Shunted(s, v, w, t, u, x, G,
                                 IF tok.kind = "binary_operator" THEN 1 ELSE 0)
            /\ t.output \in Seq(Token) /\ t.output # <<>> /\ ~KeyNext(t.output)
            /\ t.lists = s.lists /\ Len(s.output) <= Len(t.output)
<1> DEFINE ops == s.operators
           q == s.output
           t == PushOperator(s, tok)
<1>1. q \in Seq(Token) /\ q # <<>> /\ ops \in Seq(OperatorToken)
  BY OutputNotEmpty
<1>2. PICK k \in 0 .. Len(ops) :
        /\ OnlyOperators(ops, k)
        /\ Fields4(t, q \o Reverse(After(k, ops)), Append(SubSeq(ops, 1, k), tok), s.ec, s.lists)
  BY OperatorFields
<1> DEFINE p == q \o Reverse(After(k, ops))
           g == Append(SubSeq(ops, 1, k), tok)
<1>3. t.output = p /\ t.operators = g /\ t.lists = s.lists
  BY <1>2 DEF Fields4
<1>4. Tidy(q, v) /\ Weighs(ops, w, G) /\ v[Len(q)] = w[Len(ops)] /\ ~WantsKey(q, Len(q))
  BY DEF Leveled, KeyNext
<1> HIDE DEF ops, q, t
<1>6. /\ \E u : Grows(q, v, p, u) /\ u[Len(p)] = w[k]
      /\ p \in Seq(Token) /\ p # <<>> /\ ~WantsKey(p, Len(p)) /\ Len(q) <= Len(p)
  <2> HIDE DEF p
  <2>1. p = q \o Reverse(After(k, ops))
    BY DEF p
  <2>2. OnlyOperators(ops, k)
    BY <1>2
  <2>3. Reaches(q, v, p, w[k]) /\ Onward(q, p)
    BY <1>1, <1>4, <2>1, <2>2, MovedTidy
  <2>4. \E u : Grows(q, v, p, u) /\ u[Len(p)] = w[k]
    BY <2>3 DEF Reaches
  <2> QED BY <2>3, <2>4 DEF Onward, KeyNext
<1>7. tok \in OperatorToken
  BY DEF OperatorToken
<1>8. /\ Len(g) = k + 1
      /\ \E x : Weighs(g, x, G) /\ SameTo(x, w, k) /\ x[k + 1] = Weight(tok, k + 1, G, w[k])
  <2>1. SameBelow(G, G, k)
    BY DEF SameBelow
  <2> QED BY <1>1, <1>4, <1>7, <2>1, WeighsPut
<1>9. PICK u : Grows(q, v, p, u) /\ u[Len(p)] = w[k]
  BY <1>6
<1>10. PICK x : Weighs(g, x, G) /\ SameTo(x, w, k) /\ x[k + 1] = Weight(tok, k + 1, G, w[k])
  BY <1>8
<1>11. x[k + 1] = w[k] + (IF tok.kind = "binary_operator" THEN 1 ELSE 0)
  <2>0. w[k] \in Nat
    BY <1>4 DEF Weighs
  <2>1. CASE tok.kind = "binary_operator"
    BY <1>10, <2>1 DEF Weight
  <2>2. CASE tok.kind = "unary_operator"
    <3>1. x[k + 1] = w[k]
      BY <1>10, <2>2 DEF Weight
    <3> QED BY <2>0, <2>2, <3>1
  <2> QED BY <2>1, <2>2 DEF Operators
<1>12. \A l \in Lparens(ops) : x[l-1] = w[l-1]
  BY <1>1, <1>2, <1>10, LparensBelow
<1> HIDE DEF p, g
<1>13. Shunted(s, v, w, t, u, x, G, IF tok.kind = "binary_operator" THEN 1 ELSE 0)
  BY <1>3, <1>8, <1>9, <1>10, <1>11, <1>12 DEF Shunted, q, ops
<1> QED BY <1>3, <1>6, <1>13 DEF t, q, KeyNext

LEMMA UnaryStays ==
  ASSUME NEW s, StacksOK(s), NEW tok \in Token, tok.kind = "unary_operator", NEW G,
         ~KeyNext(s.output)
  PROVE  StaysLevel(s, PushOperator(s, tok), G)
<1> DEFINE t == PushOperator(s, tok)
<1> SUFFICES ASSUME NEW v, NEW w, Leveled(s, v, w, G)
             PROVE  \E u, x : Steadily(s, v, w, t, u, x, G)
  BY DEF StaysLevel
<1>1. tok.kind \in Operators /\ tok.kind # "binary_operator"
  BY DEF Operators
<1>2. PICK u, x : Shunted(s, v, w, t, u, x, G, 0)
  BY <1>1, OperatorShunted
<1>3. t.output \in Seq(Token) /\ t.output # <<>>
  BY <1>1, OperatorShunted
<1> HIDE DEF t
<1>4. u[Len(t.output)] \in Nat
  <2>1. Len(t.output) \in 1 .. Len(t.output)
    BY <1>3
  <2> QED BY <1>2, <2>1 DEF Shunted, Grows, Tidy
<1>5. Leveled(t, u, x, G)
  BY <1>2, <1>4 DEF Shunted, Leveled, Grows
<1>6. Steadily(s, v, w, t, u, x, G)
  BY <1>2, <1>5 DEF Shunted, Steadily, Grows
<1> QED BY <1>6

LEMMA UnaryOutput ==
  ASSUME NEW s, StacksOK(s), NEW tok \in Token, tok.kind = "unary_operator", NEW v, NEW w, NEW G,
         Leveled(s, v, w, G), ~KeyNext(s.output)
  PROVE  ~KeyNext(PushOperator(s, tok).output) /\ PushOperator(s, tok).lists = s.lists
<1>1. tok.kind \in Operators
  BY DEF Operators
<1> QED BY <1>1, OperatorShunted

LEMMA BinaryStays ==
  ASSUME NEW s, StacksOK(s), NEW oper \in BinaryOpers, NEW v, NEW w, NEW G, Leveled(s, v, w, G),
         ~KeyNext(s.output)
  PROVE  LET t == WithBinary(oper, s)
         IN /\ \E u, x : Steadily(s, v, w, t, u, x, G)
            /\ Settled(t.output) /\ t.lists = s.lists
<1> DEFINE tok == Binary(oper)
           t == PushOperator(s, tok)
           z == Put(t, CurrentNode)
<1>1. tok \in Token /\ tok.kind = "binary_operator" /\ tok.kind \in Operators
  BY DEF Binary, Token, Stored, Opers, Operators
<1>2. push_token(tok, s) = t
  BY <1>1 DEF push_token, Operators, Openers
<1>3. StacksOK(t)
  BY <1>1, OperatorPushed
<1>4. CurrentNode \in Token /\ CurrentNode.kind = "current_node"
  BY TokensMade DEF CurrentNode, Tok
<1>5. PICK u, x : Shunted(s, v, w, t, u, x, G, 1)
  BY <1>1, OperatorShunted
<1>6. /\ t.output \in Seq(Token) /\ t.output # <<>> /\ ~KeyNext(t.output) /\ t.lists = s.lists
      /\ Len(s.output) <= Len(t.output) /\ Len(s.output) \in Nat
  BY <1>1, OperatorShunted, OutputNotEmpty
<1>7. z.output = Append(t.output, CurrentNode) /\ z.operators = t.operators /\ z.lists = t.lists
  BY <1>3, PutFields DEF Fields4
<1>8. WithBinary(oper, s) = z
  BY <1>2 DEF WithBinary
<1> DEFINE n == Len(t.output)
<1> HIDE DEF t, z, tok
<1>9. n \in Nat \ {0} /\ u[n] \in Nat \ {0}
  <2>1. n \in 1 .. n
    BY <1>6
  <2> QED BY <1>5, <2>1 DEF Shunted, Grows, Tidy
<1>10. Fits(t.output, u, CurrentNode, u[n] + 1)
  <2>1. Effect(CurrentNode) = 1 /\ CurrentNode.kind \in Inner /\ CurrentNode.kind \notin Boundary
    BY <1>4, Effects, KindsApart DEF Inner
  <2> QED BY <1>4, <1>6, <2>1 DEF Fits, KeyNext
<1>11. Tidy(t.output, u)
  BY <1>5 DEF Shunted, Grows
<1>12. PICK y : Grows(t.output, u, Append(t.output, CurrentNode), y) /\ y[n + 1] = u[n] + 1
  <2>1. u[n] + 1 \in Nat \ {0}
    BY <1>9
  <2> QED BY <1>4, <1>6, <1>10, <1>11, <2>1, TokenPlaced
<1>13. Len(z.output) = n + 1 /\ Settled(z.output)
  <2>1. CurrentNode.kind \notin Boundary
    BY <1>4 DEF Boundary
  <2> QED BY <1>4, <1>6, <1>7, <2>1, AppendedLast
<1>14. Leveled(z, y, x, G)
  BY <1>5, <1>7, <1>12, <1>13 DEF Leveled, Shunted, Grows
<1>15. Agree(y, v, Len(s.output))
  <2>1. Agree(y, u, n) /\ Agree(u, v, Len(s.output))
    BY <1>5, <1>12 DEF Shunted, Grows
  <2> QED BY <1>6, <2>1 DEF Agree
<1>16. Steadily(s, v, w, z, y, x, G)
  BY <1>5, <1>14, <1>15 DEF Steadily, Shunted
<1> QED BY <1>6, <1>7, <1>8, <1>13, <1>16

-----------------------------------------------------------------------------
(* An lparen is taken off operator_stack_. *)

LEMMA UnwoundLevels ==
  ASSUME NEW s, StacksOK(s), NEW v, NEW w, NEW G, Leveled(s, v, w, G), ~KeyNext(s.output),
         NEW u, NEW p, LparenOff(s, u, p)
  PROVE  Reaches(s.output, v, u.output, w[p]) /\ Onward(s.output, u.output)
<1> DEFINE ops == s.operators
           q == s.output
<1>1. q \in Seq(Token) /\ q # <<>> /\ ops \in Seq(OperatorToken)
  BY OutputNotEmpty
<1>2. /\ p \in 1 .. Len(ops) /\ IsLastAt("lparen", ops, p)
      /\ u.output = q \o Reverse(After(p, ops))
  BY DEF LparenOff, Fields4
<1>3. OnlyOperators(ops, p)
  <2>1. \A k \in p + 1 .. Len(ops) : k \in 1 .. Len(ops) /\ ops[k].kind # "lparen"
    BY <1>1, <1>2 DEF IsLastAt
  <2>2. \A k \in 1 .. Len(ops) : ops[k].kind \in Operators \cup {"lparen"}
    BY <1>1 DEF OperatorToken
  <2> HIDE DEF ops
  <2> QED BY <2>1, <2>2 DEF OnlyOperators
<1>4. Tidy(q, v) /\ Weighs(ops, w, G) /\ v[Len(q)] = w[Len(ops)] /\ ~WantsKey(q, Len(q))
  BY DEF Leveled, KeyNext
<1>5. p \in 0 .. Len(ops)
  BY <1>2
<1> HIDE DEF ops, q
<1>6. Reaches(q, v, u.output, w[p]) /\ Onward(q, u.output)
  BY <1>1, <1>2, <1>3, <1>4, <1>5, MovedTidy
<1> QED BY <1>6 DEF q

LEMMA UnwoundWeight ==
  ASSUME NEW s, StacksOK(s), NEW v, NEW w, NEW G, Leveled(s, v, w, G),
         NEW u, NEW p, LparenOff(s, u, p)
  PROVE  w[p] = IF p \in G THEN 1 ELSE w[p-1]
BY DEF Leveled, Weighs, LparenOff, IsLastAt

LEMMA RparenLevels ==
  ASSUME NEW s, StacksOK(s), NEW v, NEW w, NEW G, Leveled(s, v, w, G), ~KeyNext(s.output),
         NEW u, NEW p, LparenOff(s, u, p), p \notin G
  PROVE  \E y, x : /\ Leveled(u, y, x, G) /\ Agree(y, v, Len(s.output)) /\ SameTo(x, w, p - 1)
<1>1. /\ p \in 1 .. Len(s.operators)
      /\ u.operators = SubSeq(s.operators, 1, p - 1)
      /\ s.operators \in Seq(OperatorToken) /\ Weighs(s.operators, w, G)
  BY OutputNotEmpty DEF LparenOff, Fields4, Leveled
<1>2. p - 1 \in 0 .. Len(s.operators) /\ p - 1 \in Nat
  BY <1>1
<1>3. PICK x : Weighs(u.operators, x, G) /\ SameTo(x, w, p - 1)
  <2>1. SameBelow(G, G, p - 1)
    BY DEF SameBelow
  <2> DEFINE n == p - 1
  <2>2. n \in 0 .. Len(s.operators) /\ SameBelow(G, G, n) /\ u.operators = SubSeq(s.operators, 1, n)
    BY <1>1, <1>2, <2>1
  <2> HIDE DEF n
  <2>3. \E x : Weighs(SubSeq(s.operators, 1, n), x, G) /\ SameTo(x, w, n)
    BY <1>1, <2>2, WeighsCut
  <2> QED BY <2>2, <2>3 DEF n
<1>4. PICK y : Grows(s.output, v, u.output, y) /\ y[Len(u.output)] = w[p]
  BY UnwoundLevels DEF Reaches
<1>5. w[p] = w[p-1]
  BY UnwoundWeight
<1>6. Len(u.operators) = p - 1
  BY <1>1, <1>2, Prefix
<1>7. x[p-1] = w[p-1]
  BY <1>2, <1>3 DEF SameTo
<1>8. Leveled(u, y, x, G)
  BY <1>3, <1>4, <1>5, <1>6, <1>7 DEF Leveled, Grows
<1> QED BY <1>3, <1>4, <1>8 DEF Grows

Separated == {"begin_multi_select_list", "begin_multi_select_hash"}

LEMMA WithinOnward ==
  ASSUME NEW q \in Seq(Token), NEW p, Onward(q, p), NEW kinds,
         Within(q, Len(q) + 1, kinds)
  PROVE  Within(p, Len(p) + 1, kinds)
<1>1. PICK b \in 1 .. (Len(q) + 1) - 1 :
        q[b].kind \in kinds /\ \A j \in b + 1 .. (Len(q) + 1) - 1 : q[j].kind \notin Openers
  BY DEF Within
<1>2. /\ Len(q) <= Len(p) /\ p \in Seq(Token) /\ \A k \in 1 .. Len(q) : p[k] = q[k]
      /\ \A k \in 1 .. Len(p) : k > Len(q) => p[k].kind \in Operators
  BY DEF Onward, Agree, OperatorsAbove
<1>3. b \in 1 .. Len(q) /\ b \in 1 .. (Len(p) + 1) - 1 /\ p[b] = q[b]
  BY <1>1, <1>2
<1>4. ASSUME NEW j \in b + 1 .. (Len(p) + 1) - 1 PROVE p[j].kind \notin Openers
  <2>1. CASE j <= Len(q)
    <3>1. j \in b + 1 .. (Len(q) + 1) - 1 /\ j \in 1 .. Len(q)
      BY <1>3, <2>1
    <3> QED BY <1>1, <1>2, <3>1
  <2>2. CASE ~(j <= Len(q))
    <3>1. j \in 1 .. Len(p) /\ j > Len(q)
      BY <1>2, <1>3, <2>2
    <3> QED BY <1>2, <3>1, OperatorsAreNoOpeners
  <2> QED BY <2>1, <2>2
<1> QED BY <1>1, <1>3, <1>4 DEF Within

(* A separator: the lparen of the group is renewed. *)
SeparatedFrom(s) == PushLparen(Put(unwind_rparen(s), Tok("separator")))

LEMMA SeparatorFields ==
  ASSUME NEW s, StacksOK(s), SeparatedFrom(s).ec = NoError
  PROVE  LET u == unwind_rparen(s)
             p == LastAt("lparen", s.operators)
         IN /\ LparenOff(s, u, p)
            /\ Fields4(SeparatedFrom(s), Append(u.output, Tok("separator")),
                       Append(u.operators, Tok("lparen")), s.ec, s.lists)
<1> DEFINE u == unwind_rparen(s)
           z == Put(u, Tok("separator"))
           t == PushLparen(z)
<1>1. StacksOK(u)
  BY Unwound
<1>2. StacksOK(z)
  <2>1. Tok("separator") \in Token
    BY Pushable
  <2> QED BY <1>1, <2>1, TokenPut
<1>3. Fields4(z, Append(u.output, Tok("separator")), u.operators, u.ec, u.lists)
  BY <1>1, PutFields
<1>4. Fields4(t, z.output, Append(z.operators, Tok("lparen")), z.ec, z.lists)
  BY <1>2, LparenFields
<1>5. u.ec = NoError
  BY <1>3, <1>4 DEF Fields4, SeparatedFrom
<1>6. LparenOff(s, u, LastAt("lparen", s.operators))
  BY <1>5, UnwoundFields
<1> HIDE DEF u, z, t
<1>7. Fields4(t, Append(u.output, Tok("separator")), Append(u.operators, Tok("lparen")), s.ec, s.lists)
  BY <1>3, <1>4, <1>6 DEF Fields4, LparenOff
<1> QED BY <1>6, <1>7 DEF u, z, t, SeparatedFrom

(* A boundary is put on output_stack_ and the lparen of a group on          *)
(* operator_stack_, above n operators.                                      *)
LEMMA LevelBegun ==
  ASSUME NEW q \in Seq(Token), q # <<>>, NEW y, Tidy(q, y), NEW tok \in Token,
         Fits(q, y, tok, 1),
         NEW ops \in Seq(OperatorToken), NEW w, NEW G, Weighs(ops, w, G),
         NEW n \in 0 .. Len(ops), NEW H, SameBelow(H, G, n), n + 1 \in H,
         NEW t, t.output = Append(q, tok),
         t.operators = Append(SubSeq(ops, 1, n), Tok("lparen"))
  PROVE  \E u, x : Leveled(t, u, x, H) /\ Agree(u, y, Len(q)) /\ SameTo(x, w, n)
<1>1. PICK u : Grows(q, y, Append(q, tok), u) /\ u[Len(q) + 1] = 1
  BY TokenPlaced
<1>2. Tok("lparen") \in OperatorToken /\ Tok("lparen").kind = "lparen"
  BY TokensMade DEF OperatorToken, Stored
<1>3. /\ Len(t.operators) = n + 1
      /\ \E x : /\ Weighs(t.operators, x, H) /\ SameTo(x, w, n)
               /\ x[n + 1] = Weight(Tok("lparen"), n + 1, H, w[n])
  BY <1>2, WeighsPut
<1>4. PICK x : /\ Weighs(t.operators, x, H) /\ SameTo(x, w, n)
               /\ x[n + 1] = Weight(Tok("lparen"), n + 1, H, w[n])
  BY <1>3
<1>5. x[n + 1] = 1
  <2>1. Tok("lparen").kind # "binary_operator" /\ Tok("lparen").kind # "unary_operator"
    BY <1>2
  <2> QED BY <1>4, <2>1 DEF Weight
<1>6. Len(t.output) = Len(q) + 1
  BY AppendedLast
<1>7. Leveled(t, u, x, H)
  BY <1>1, <1>3, <1>4, <1>5, <1>6 DEF Leveled, Grows
<1> QED BY <1>1, <1>4, <1>7 DEF Grows

LEMMA SeparatorStays ==
  ASSUME NEW s, StacksOK(s), NEW v, NEW w, NEW G, Leveled(s, v, w, G), Settled(s.output),
         SeparatedFrom(s).ec = NoError, LastAt("lparen", s.operators) \in G,
         Within(s.output, Len(s.output) + 1, Separated)
  PROVE  LET t == SeparatedFrom(s)
         IN /\ \E y, x : Steadily(s, v, w, t, y, x, G)
            /\ t.lists = s.lists /\ Onward(s.output, Front(t.output))
            /\ t.output = Append(Front(t.output), Tok("separator"))
<1> DEFINE t == SeparatedFrom(s)
           u == unwind_rparen(s)
           p == LastAt("lparen", s.operators)
           q == u.output
           n == p - 1
           sep == Tok("separator")
<1>1. /\ LparenOff(s, u, p)
      /\ Fields4(t, Append(q, sep), Append(u.operators, Tok("lparen")), s.ec, s.lists)
  BY SeparatorFields
<1>2. ~KeyNext(s.output)
  BY SettledWants
<1>3. Reaches(s.output, v, q, w[p]) /\ Onward(s.output, q)
  BY <1>1, <1>2, UnwoundLevels
<1>4. w[p] = 1
  BY <1>1, UnwoundWeight
<1>5. PICK y : Grows(s.output, v, q, y) /\ y[Len(q)] = 1
  BY <1>3, <1>4 DEF Reaches
<1>6. sep \in Token /\ sep.kind = "separator"
  BY Pushable DEF Tok
<1> HIDE DEF t, u, q, sep
<1>7. q \in Seq(Token) /\ q # <<>> /\ ~KeyNext(q) /\ Settled(q)
  BY <1>3 DEF Onward
<1>8. Within(q, Len(q) + 1, Separated)
  <2>1. s.output \in Seq(Token)
    BY OutputNotEmpty
  <2> QED BY <1>3, <2>1, WithinOnward
<1>9. Fits(q, y, sep, 1)
  <2>1. sep.kind \in Boundary /\ sep.kind # "key" /\ ~WantsKey(q, Len(q))
    BY <1>6, <1>7 DEF Boundary, KeyNext
  <2>2. q[Len(q)].kind \notin Boundary
    BY <1>7 DEF Settled, Last
  <2> QED BY <1>5, <1>8, <2>1, <2>2 DEF Fits, Separated
<1>10. /\ p \in 1 .. Len(s.operators) /\ s.operators \in Seq(OperatorToken)
       /\ u.operators = SubSeq(s.operators, 1, n) /\ Weighs(s.operators, w, G)
       /\ IsLastAt("lparen", s.operators, p)
  BY <1>1, OutputNotEmpty DEF LparenOff, Fields4, Leveled
<1>11. n \in 0 .. Len(s.operators) /\ n + 1 \in G /\ SameBelow(G, G, n)
  BY <1>10 DEF SameBelow
<1>12. t.output = Append(q, sep) /\ t.operators = Append(SubSeq(s.operators, 1, n), Tok("lparen"))
       /\ t.lists = s.lists
  BY <1>1, <1>10 DEF Fields4
<1>13. Tidy(q, y)
  BY <1>5 DEF Grows
<1> HIDE DEF n
<1>14. PICK z, x : Leveled(t, z, x, G) /\ Agree(z, y, Len(q)) /\ SameTo(x, w, n)
  BY <1>6, <1>7, <1>9, <1>10, <1>11, <1>12, <1>13, LevelBegun
<1>15. Agree(z, v, Len(s.output))
  <2>1. Len(s.output) <= Len(q) /\ Len(s.output) \in Nat /\ Len(q) \in Nat
    BY <1>3, <1>7, OutputNotEmpty DEF Onward
  <2> QED BY <1>5, <1>14, <2>1 DEF Agree, Grows
<1>16. \A l \in Lparens(s.operators) : x[l-1] = w[l-1]
  <2> TAKE l \in Lparens(s.operators)
  <2>1. l \in 1 .. Len(s.operators) /\ s.operators[l].kind = "lparen"
    BY <1>10 DEF Lparens
  <2>2. ~(l \in p + 1 .. Len(s.operators))
    BY <1>10, <2>1 DEF IsLastAt
  <2>3. l - 1 \in 0 .. n
    BY <1>10, <2>1, <2>2 DEF n
  <2> QED BY <1>14, <2>3 DEF SameTo
<1>17. Steadily(s, v, w, t, z, x, G)
  BY <1>14, <1>15, <1>16 DEF Steadily
<1>18. Front(t.output) = q
  <2>1. Front(Append(q, sep)) = q
    BY <1>6, <1>7 DEF Front
  <2> QED BY <1>12, <2>1
<1> QED BY <1>3, <1>12, <1>17, <1>18 DEF t, sep

-----------------------------------------------------------------------------
(* Groups and parentheses begin and end. *)

LEMMA WholePart ==
  ASSUME NEW S, NEW q \in Seq(S)
  PROVE  SubSeq(q, 1, Len(q)) = q
OBVIOUS

LEMMA BegunLevels ==
  ASSUME NEW s, StacksOK(s), NEW v, NEW w, NEW G, Leveled(s, v, w, G), ~KeyNext(s.output),
         NEW tok \in Token, tok.kind \in Separated \cup {"begin_filter"},
         NEW t, t.output = Append(s.output, tok),
         t.operators = Append(s.operators, Tok("lparen")),
         NEW H, SameBelow(H, G, Len(s.operators)), Len(s.operators) + 1 \in H
  PROVE  \E u, x : /\ Leveled(t, u, x, H) /\ Agree(u, v, Len(s.output))
                   /\ SameTo(x, w, Len(s.operators))
<1> DEFINE n == Len(s.operators)
<1>1. /\ s.output \in Seq(Token) /\ s.output # <<>> /\ s.operators \in Seq(OperatorToken)
      /\ n \in 0 .. Len(s.operators)
  BY OutputNotEmpty
<1>2. SubSeq(s.operators, 1, n) = s.operators
  BY <1>1, WholePart
<1>3. Fits(s.output, v, tok, 1)
  <2>1. tok.kind \in Boundary /\ tok.kind # "key" /\ tok.kind # "separator"
    BY DEF Boundary, Separated
  <2> QED BY <2>1 DEF Fits, KeyNext
<1>4. Tidy(s.output, v) /\ Weighs(s.operators, w, G)
  BY DEF Leveled
<1>5. t.operators = Append(SubSeq(s.operators, 1, n), Tok("lparen"))
      /\ SameBelow(H, G, n) /\ n + 1 \in H
  BY <1>2
<1> HIDE DEF n
<1>6. \E u, x : Leveled(t, u, x, H) /\ Agree(u, v, Len(s.output)) /\ SameTo(x, w, n)
  BY <1>1, <1>3, <1>4, <1>5, LevelBegun
<1> QED BY <1>6 DEF n

LEMMA ParenthesisLevels ==
  ASSUME NEW s, StacksOK(s), NEW v, NEW w, NEW G, Leveled(s, v, w, G),
         NEW t, t.output = s.output, t.operators = Append(s.operators, Tok("lparen")),
         Len(s.operators) + 1 \notin G
  PROVE  \E x : Leveled(t, v, x, G) /\ SameTo(x, w, Len(s.operators))
<1> DEFINE n == Len(s.operators)
           lparen == Tok("lparen")
<1>1. s.operators \in Seq(OperatorToken) /\ n \in 0 .. Len(s.operators)
  BY OutputNotEmpty
<1>2. SubSeq(s.operators, 1, n) = s.operators
  BY <1>1, WholePart
<1>3. lparen \in OperatorToken /\ lparen.kind = "lparen"
  BY TokensMade DEF OperatorToken, Stored
<1>4. Weighs(s.operators, w, G) /\ SameBelow(G, G, n) /\ n + 1 \notin G
  BY DEF Leveled, SameBelow
<1>5. t.operators = Append(SubSeq(s.operators, 1, n), lparen)
  BY <1>2
<1> HIDE DEF n, lparen
<1>6. /\ Len(t.operators) = n + 1
      /\ \E x : /\ Weighs(t.operators, x, G) /\ SameTo(x, w, n)
                /\ x[n + 1] = Weight(lparen, n + 1, G, w[n])
  <2> DEFINE ops == s.operators
             g == Append(SubSeq(ops, 1, n), lparen)
  <2>0. ops \in Seq(OperatorToken) /\ n \in 0 .. Len(ops) /\ Weighs(ops, w, G)
        /\ SameBelow(G, G, n) /\ lparen \in OperatorToken
    BY <1>1, <1>3, <1>4
  <2> HIDE DEF ops
  <2>1. /\ Len(g) = n + 1
        /\ \E x : /\ Weighs(g, x, G) /\ SameTo(x, w, n)
                 /\ x[n + 1] = Weight(lparen, n + 1, G, w[n])
    BY <2>0, WeighsPut
  <2> QED BY <1>5, <2>1 DEF ops
<1>7. PICK x : /\ Weighs(t.operators, x, G) /\ SameTo(x, w, n)
               /\ x[n + 1] = Weight(lparen, n + 1, G, w[n])
  BY <1>6
<1>8. x[n + 1] = w[n]
  <2>1. lparen.kind # "binary_operator" /\ lparen.kind # "unary_operator"
    BY <1>3
  <2> QED BY <1>4, <1>7, <2>1 DEF Weight
<1>9. Leveled(t, v, x, G)
  BY <1>6, <1>7, <1>8 DEF Leveled, n
<1> QED BY <1>7, <1>9 DEF n

LEMMA CutLevels ==
  ASSUME NEW s, StacksOK(s), NEW v, NEW w, NEW G, Leveled(s, v, w, G),
         NEW p \in 1 .. Len(s.operators), NEW b \in 2 .. Len(s.output), v[b-1] = w[p-1],
         NEW H, SameBelow(H, G, p - 1),
         NEW r, r.output = SubSeq(s.output, 1, b - 1), r.operators = SubSeq(s.operators, 1, p - 1)
  PROVE  \E u, x : Leveled(r, u, x, H) /\ Agree(u, v, b - 1) /\ SameTo(x, w, p - 1)
<1> DEFINE n == p - 1
           m == b - 1
           u == [k \in 1 .. m |-> v[k]]
<1>1. /\ s.output \in Seq(Token) /\ s.operators \in Seq(OperatorToken)
      /\ n \in 0 .. Len(s.operators) /\ m \in 0 .. Len(s.output) /\ m \in 1 .. m
  BY OutputNotEmpty
<1>2. Tidy(s.output, v) /\ Weighs(s.operators, w, G)
  BY DEF Leveled
<1>3. \A k \in 1 .. m : u[k] = v[k]
  OBVIOUS
<1>4. r.output = SubSeq(s.output, 1, m) /\ r.operators = SubSeq(s.operators, 1, n)
      /\ SameBelow(H, G, n) /\ v[m] = w[n]
  OBVIOUS
<1>5. Tidy(SubSeq(s.output, 1, m), u)
  <2> HIDE DEF m
  <2> QED BY <1>1, <1>2, TidyCut
<1> HIDE DEF n, m, u
<1>6. PICK x : Weighs(SubSeq(s.operators, 1, n), x, H) /\ SameTo(x, w, n)
  BY <1>1, <1>2, <1>4, WeighsCut
<1>7. Len(r.output) = m /\ Len(r.operators) = n
  BY <1>1, <1>4, Prefix
<1>8. u[m] = v[m] /\ x[n] = w[n]
  <2>1. n \in 0 .. n
    BY <1>1
  <2> QED BY <1>1, <1>3, <1>6, <2>1 DEF SameTo
<1>9. Leveled(r, u, x, H)
  BY <1>4, <1>5, <1>6, <1>7, <1>8 DEF Leveled
<1>10. Agree(u, v, m)
  BY <1>3 DEF Agree
<1> QED BY <1>6, <1>9, <1>10 DEF n, m

LEMMA OpenersPlaced ==
  ASSUME NEW q \in Seq(Token), NEW v, Tidy(q, v), NEW b \in 1 .. Len(q), q[b].kind \in Openers
  PROVE  b \in 2 .. Len(q) /\ ~KeyNext(SubSeq(q, 1, b - 1))
<1>1. Placed(q, v, b)
  BY DEF Tidy
<1>2. b # 1
  BY <1>1 DEF Placed, Openers
<1>3. b \in 2 .. Len(q)
  BY <1>2
<1> DEFINE m == b - 1
           p == SubSeq(q, 1, m)
<1>4. m \in 0 .. Len(q) /\ m \in Nat /\ m > 0
  BY <1>3
<1>5. ~WantsKey(q, m)
  <2>1. q[b].kind # "key"
    BY DEF Openers
  <2> QED BY <1>1, <1>3, <2>1 DEF Placed
<1> HIDE DEF m
<1>6. Len(p) = m /\ Agree(p, q, m)
  BY <1>4, Prefix DEF Agree
<1> HIDE DEF p
<1>7. ~WantsKey(p, m)
  BY <1>4, <1>5, <1>6, WithinSame
<1>8. ~KeyNext(p)
  BY <1>6, <1>7 DEF KeyNext
<1> QED BY <1>3, <1>8 DEF m, p

Nested(x, w, ops, p) == \A l \in Lparens(SubSeq(ops, 1, p - 1)) : x[l-1] = w[l-1]

LEMMA ClosedLevels ==
  ASSUME NEW s, StacksOK(s), NEW v, NEW w, NEW G, Leveled(s, v, w, G),
         NEW u, StacksOK(u), NEW p, LparenOff(s, u, p),
         NEW b \in 1 .. Len(s.output), s.output[b].kind \in Openers, v[b-1] = w[p-1],
         NEW H, SameBelow(H, G, p - 1),
         NEW ls, NEW tok, NEW expr \in Token, expr.kind = "expression"
  PROVE  LET t == AddExpression(CutBelow(u, b, ls), tok, expr)
         IN /\ \E y, x : /\ Leveled(t, y, x, H) /\ Agree(y, v, b - 1)
                         /\ Nested(x, w, s.operators, p)
            /\ Settled(t.output) /\ t.lists = ls
<1> DEFINE q == SubSeq(u.output, 1, b - 1)
           r == CutBelow(u, b, ls)
           t == AddExpression(r, tok, expr)
<1>1. /\ p \in 1 .. Len(s.operators)
      /\ u.output = s.output \o Reverse(After(p, s.operators))
      /\ u.operators = SubSeq(s.operators, 1, p - 1)
      /\ s.output \in Seq(Token) /\ s.operators \in Seq(OperatorToken) /\ u.output \in Seq(Token)
      /\ Tidy(s.output, v)
  BY OutputNotEmpty DEF LparenOff, Fields4, Leveled
<1>2. /\ b \in 2 .. Len(s.output) /\ ~KeyNext(SubSeq(s.output, 1, b - 1))
  BY <1>1, OpenersPlaced
<1> DEFINE moved == Reverse(After(p, s.operators))
<1>3. moved \in Seq(OperatorToken)
  <2>1. p \in 0 .. Len(s.operators)
    BY <1>1
  <2> QED BY <1>1, <2>1, MovedTokens
<1>4. b \in 1 .. Len(u.output) /\ u.output[b] = s.output[b] /\ q = SubSeq(s.output, 1, b - 1)
  <2>0. u.output = s.output \o moved
    BY <1>1
  <2> HIDE DEF moved
  <2>1. /\ Len(u.output) = Len(s.output) + Len(moved) /\ Len(moved) \in Nat
        /\ \A k \in 1 .. Len(s.output) : u.output[k] = s.output[k]
    BY <1>1, <1>3, <2>0
  <2>2. b - 1 \in 0 .. Len(s.output) /\ b - 1 \in 0 .. Len(u.output)
    BY <1>1, <2>1
  <2> DEFINE m == b - 1
             a == SubSeq(s.output, 1, m)
             d == SubSeq(u.output, 1, m)
  <2>3. m \in 0 .. Len(s.output) /\ m \in 0 .. Len(u.output)
    BY <2>2
  <2> HIDE DEF m
  <2>4. /\ a \in Seq(Token) /\ d \in Seq(Token) /\ Len(a) = m /\ Len(d) = m
        /\ \A k \in 1 .. m : a[k] = s.output[k]
        /\ \A k \in 1 .. m : d[k] = u.output[k]
    BY <1>1, <2>3, Prefix
  <2>5. \A k \in 1 .. m : k \in 1 .. Len(s.output)
    BY <2>3
  <2> HIDE DEF a, d
  <2>6. \A k \in 1 .. m : a[k] = d[k]
    BY <2>1, <2>4, <2>5
  <2>7. a = d
    BY <2>4, <2>6
  <2>8. q = SubSeq(s.output, 1, b - 1)
    BY <2>7 DEF a, d, m
  <2>9. b \in 1 .. Len(u.output) /\ u.output[b] = s.output[b]
    <3>1. Len(s.output) \in Nat /\ Len(s.output) <= Len(u.output) /\ Len(u.output) \in Nat
      BY <1>1, <2>1
    <3> QED BY <2>1, <3>1
  <2> QED BY <2>8, <2>9
<1>5. StacksOK(r)
  BY <1>4, CutIs
<1>6. Fields4(r, q, u.operators, u.ec, ls)
  <2> HIDE DEF q
  <2>1. r = Record(q, u.operators, u.ec, ls)
    BY DEF CutBelow, q
  <2> HIDE DEF r
  <2> QED BY <2>1, RecordFields
<1> HIDE DEF q, r
<1>7. /\ r.output = SubSeq(s.output, 1, b - 1) /\ r.operators = SubSeq(s.operators, 1, p - 1)
      /\ r.lists = ls
  BY <1>1, <1>4, <1>6 DEF Fields4
<1>8. PICK y, x : Leveled(r, y, x, H) /\ Agree(y, v, b - 1) /\ SameTo(x, w, p - 1)
  BY <1>1, <1>2, <1>7, CutLevels
<1>9. ~KeyNext(r.output)
  BY <1>2, <1>7
<1>10. StaysLevel(r, t, H) /\ Settled(t.output) /\ t.lists = r.lists
  BY <1>5, <1>9, AddStays
<1> HIDE DEF t
<1>11. PICK y1, x1 : Steadily(r, y, x, t, y1, x1, H)
  BY <1>8, <1>10 DEF StaysLevel
<1>12. Agree(y1, v, b - 1)
  <2>1. Len(r.output) = b - 1
    <3>1. b - 1 \in 0 .. Len(s.output)
      BY <1>1, <1>2
    <3> QED BY <1>1, <1>7, <3>1, Prefix
  <2> QED BY <1>8, <1>11, <2>1 DEF Agree, Steadily
<1>13. Nested(x1, w, s.operators, p)
  <2> SUFFICES ASSUME NEW l \in Lparens(SubSeq(s.operators, 1, p - 1)) PROVE x1[l-1] = w[l-1]
    BY DEF Nested
  <2>1. p - 1 \in 0 .. Len(s.operators)
    BY <1>1
  <2>2. l \in 1 .. p - 1
    <3>1. Len(SubSeq(s.operators, 1, p - 1)) = p - 1
      BY <1>1, <2>1, Prefix
    <3>2. SubSeq(s.operators, 1, p - 1) \in Seq(OperatorToken)
      BY <1>1, <2>1, Prefix
    <3> QED BY <3>1, <3>2 DEF Lparens
  <2>3. x1[l-1] = x[l-1]
    BY <1>7, <1>11 DEF Steadily
  <2>4. l - 1 \in 0 .. p - 1
    BY <2>1, <2>2
  <2> QED BY <1>8, <2>3, <2>4 DEF SameTo
<1>14. Leveled(t, y1, x1, H)
  BY <1>11 DEF Steadily
<1> QED BY <1>7, <1>10, <1>12, <1>13, <1>14 DEF t, r

-----------------------------------------------------------------------------
(* The token lists of a group. *)

LEMMA SegmentRuns ==
  ASSUME NEW q \in Seq(Token), NEW v, Tidy(q, v), NEW a \in 1 .. Len(q), q[a].kind \in Boundary,
         NEW e \in a + 1 .. Len(q), v[e] = 1,
         NEW r, r = SubSeq(q, a + 1, e), \A i \in a + 1 .. e : q[i].kind \in Inner
  PROVE  WellFormed(Prefixed(r))
<1> DEFINE m == e - a
           l == <<CurrentNode>> \o r
           f == [k \in 0 .. m + 1 |-> IF k = 0 THEN 0 ELSE v[a + (k - 1)]]
<1>1. /\ a \in Nat /\ e \in Nat /\ m \in Nat /\ m > 0 /\ a + m = e
      /\ v \in [1 .. Len(q) -> Nat \ {0}]
  BY DEF Tidy
<1>2. /\ r \in Seq(Token) /\ Len(r) = m /\ \A k \in 1 .. m : r[k] = q[a + k]
  <2> HIDE DEF l, f
  <2>1. a + 1 \in 1 .. Len(q) /\ e \in 1 .. Len(q) /\ q \in Seq(Token)
    BY <1>1
  <2>2. Len(SubSeq(q, a + 1, e)) = m
    BY <1>1, <2>1
  <2>3. SubSeq(q, a + 1, e) \in Seq(Token)
    BY <2>1
  <2>4. ASSUME NEW k \in 1 .. m PROVE SubSeq(q, a + 1, e)[k] = q[a + k]
    BY <1>1, <2>1
  <2> QED BY <2>2, <2>3, <2>4
<1>3. CurrentNode \in Token /\ CurrentNode.kind = "current_node"
  BY TokensMade DEF CurrentNode, Tok
<1>4. /\ l \in Seq(Token) /\ Len(l) = m + 1 /\ l[1] = CurrentNode
      /\ \A k \in 2 .. m + 1 : l[k] = q[a + (k - 1)]
  <2>1. l \in Seq(Token) /\ Len(l) = m + 1 /\ l[1] = CurrentNode
    BY <1>1, <1>2, <1>3
  <2>2. ASSUME NEW k \in 2 .. m + 1 PROVE l[k] = q[a + (k - 1)]
    <3>1. k - 1 \in 1 .. m
      BY <1>1
    <3>2. l[k] = r[k - 1]
      BY <1>1, <1>2, <1>3, <3>1
    <3> QED BY <1>2, <3>1, <3>2
  <2> QED BY <2>1, <2>2
<1>5. Prefixed(r) = l
  <2>1. r[1] = q[a + 1] /\ a + 1 \in a + 1 .. e
    BY <1>1, <1>2
  <2>2. r[1].kind # "literal"
    BY <2>1 DEF Inner
  <2> QED BY <2>2 DEF Prefixed
<1> HIDE DEF l
<1>6. /\ f \in [0 .. m + 1 -> Nat] /\ f[0] = 0
      /\ \A k \in 1 .. m + 1 : f[k] = v[a + (k - 1)] /\ v[a + (k - 1)] \in Nat \ {0}
  <2>1. \A k \in 1 .. m + 1 : a + (k - 1) \in 1 .. Len(q) /\ k # 0 /\ k \in 0 .. m + 1
    BY <1>1
  <2>2. \A k \in 1 .. m + 1 : v[a + (k - 1)] \in Nat \ {0}
    BY <1>1, <2>1
  <2>3. \A k \in 0 .. m + 1 : k # 0 => k \in 1 .. m + 1
    BY <1>1
  <2>4. \A k \in 0 .. m + 1 : (IF k = 0 THEN 0 ELSE v[a + (k - 1)]) \in Nat
    BY <2>2, <2>3
  <2>5. 0 \in 0 .. m + 1
    BY <1>1
  <2> HIDE DEF m
  <2>6. f \in [0 .. m + 1 -> Nat]
    BY <2>4
  <2>7. f[0] = 0 /\ \A k \in 1 .. m + 1 : f[k] = v[a + (k - 1)]
    BY <2>1, <2>5
  <2> QED BY <2>2, <2>6, <2>7
<1> HIDE DEF f
<1>7. v[a] = 1
  <2>1. Placed(q, v, a)
    BY DEF Tidy
  <2> QED BY <2>1 DEF Placed
<1>8. f[1] = 1 /\ f[m + 1] = 1
  <2>1. 1 \in 1 .. m + 1 /\ m + 1 \in 1 .. m + 1 /\ a + (1 - 1) = a /\ a + ((m + 1) - 1) = e
    BY <1>1
  <2> QED BY <1>6, <1>7, <2>1
<1>9. ASSUME NEW k \in 1 .. m + 1
      PROVE  l[k].kind \in Inner /\ Need(l[k]) <= f[k-1] /\ f[k] = f[k-1] + Effect(l[k])
  <2>1. CASE k = 1
    <3>1. l[k].kind \in Inner /\ Need(l[k]) = 0 /\ Effect(l[k]) = 1
      BY <1>3, <1>4, <2>1, Effects DEF Inner
    <3> QED BY <1>6, <1>8, <2>1, <3>1
  <2>2. CASE k # 1
    <3> DEFINE i == a + (k - 1)
    <3>1. /\ k \in 2 .. m + 1 /\ k - 1 \in 1 .. m + 1 /\ i \in a + 1 .. e /\ i \in 1 .. Len(q)
          /\ i > 1 /\ i - 1 = a + ((k - 1) - 1)
      BY <1>1, <2>2
    <3>2. l[k] = q[i] /\ f[k] = v[i] /\ f[k-1] = v[i-1] /\ v[i] \in Nat \ {0} /\ v[i-1] \in Nat \ {0}
      BY <1>4, <1>6, <3>1
    <3> HIDE DEF i
    <3>3. q[i].kind \in Inner /\ q[i].kind \notin Boundary
      BY <3>1, KindsApart
    <3>4. Placed(q, v, i)
      BY <3>1 DEF Tidy
    <3>5. v[i] = v[i-1] + Effect(q[i])
      BY <3>1, <3>3, <3>4 DEF Placed
    <3>6. Need(q[i]) <= v[i-1]
      <4>1. CASE q[i].kind = "binary_operator"
        <5>1. Effect(q[i]) = -1 /\ Need(q[i]) = 2
          BY <4>1, Effects
        <5> QED BY <3>2, <3>5, <5>1
      <4>2. CASE q[i].kind = "current_node"
        <5>1. Need(q[i]) = 0
          BY <4>2, Effects
        <5> QED BY <3>2, <5>1
      <4>3. CASE q[i].kind \in {"expression", "unary_operator", "pipe"}
        <5>1. Need(q[i]) = 1
          BY <4>3, Effects
        <5> QED BY <3>2, <5>1
      <4> QED BY <3>3, <4>1, <4>2, <4>3 DEF Inner
    <3> QED BY <3>2, <3>3, <3>5, <3>6
  <2> QED BY <2>1, <2>2
<1>10. Counts(l, f)
  BY <1>4, <1>6, <1>8, <1>9 DEF Counts
<1>11. WellFormed(l)
  BY <1>4, <1>10, CountedRuns
<1> QED BY <1>5, <1>11

(* The innermost group at the end of q begins at b. *)
Group(q, v, b) ==
  /\ q \in Seq(Token) /\ Tidy(q, v) /\ Settled(q) /\ v[Len(q)] = 1
  /\ b \in 1 .. Len(q) /\ q[b].kind \in Openers
  /\ \A k \in b + 1 .. Len(q) : q[k].kind \notin Openers

LEMMA WithinGroup ==
  ASSUME NEW q, NEW v, NEW b, Group(q, v, b), NEW k \in b + 1 .. Len(q),
         NEW kinds, kinds \subseteq Openers, Within(q, k, kinds)
  PROVE  q[b].kind \in kinds
<1>1. PICK d \in 1 .. k - 1 : q[d].kind \in kinds /\ \A j \in d + 1 .. k - 1 : q[j].kind \notin Openers
  BY DEF Within
<1>2. b \in 1 .. Len(q) /\ q \in Seq(Token) /\ Len(q) \in Nat
  BY DEF Group
<1>3. ~(d < b)
  <2> SUFFICES ASSUME d < b PROVE FALSE
    OBVIOUS
  <2>1. b \in d + 1 .. k - 1
    BY <1>1, <1>2
  <2> QED BY <1>1, <2>1 DEF Group
<1>4. ~(d > b)
  <2> SUFFICES ASSUME d > b PROVE FALSE
    OBVIOUS
  <2>1. d \in b + 1 .. Len(q)
    BY <1>1, <1>2
  <2> QED BY <1>1, <2>1 DEF Group
<1>5. d = b
  BY <1>1, <1>2, <1>3, <1>4
<1> QED BY <1>1, <1>5

AtSeparator(q, v, b, k) ==
  /\ q[b].kind \in Separated
  /\ k - 1 \in b + 1 .. Len(q) /\ q[k-1].kind \notin Boundary /\ v[k-1] = 1
  /\ k + 1 \in b + 1 .. Len(q) /\ q[k+1].kind # "separator"
  /\ q[b].kind = "begin_multi_select_hash" => q[k+1].kind = "key"

AtKey(q, b, k) ==
  /\ q[b].kind = "begin_multi_select_hash"
  /\ k - 1 = b \/ (k - 1 \in b + 1 .. Len(q) /\ q[k-1].kind = "separator")

LEMMA GroupTokens ==
  ASSUME NEW q, NEW v, NEW b, Group(q, v, b), NEW k \in b + 1 .. Len(q)
  PROVE  /\ q[k].kind \in Inner \cup {"separator", "key"}
         /\ q[k].kind = "separator" => AtSeparator(q, v, b, k)
         /\ q[k].kind = "key" => AtKey(q, b, k)
<1> DEFINE n == Len(q)
<1>1. /\ b \in 1 .. n /\ n \in Nat /\ q \in Seq(Token) /\ q[b].kind \in Openers
      /\ \A j \in b + 1 .. n : q[j].kind \notin Openers
      /\ \A j \in 1 .. n : Placed(q, v, j)
      /\ q[n].kind \notin Boundary
  BY DEF Group, Tidy, Settled, Last
<1>2. k \in 1 .. n /\ k > 1 /\ k - 1 \in 1 .. n /\ k \in Nat
  BY <1>1
<1>3. Placed(q, v, k)
  BY <1>1, <1>2
<1>4. q[k].kind \in Inner \cup {"separator", "key"}
  <2>1. q[k].kind \in Boundary \cup Inner /\ q[k].kind \notin Openers
    BY <1>1, <1>3 DEF Placed
  <2> QED BY <2>1 DEF Boundary, Openers
<1>5. Separated \subseteq Openers /\ {"begin_multi_select_hash"} \subseteq Openers
  BY DEF Separated, Openers
<1>6. ASSUME NEW j \in b + 1 .. n, WantsKey(q, j)
      PROVE  q[j].kind = "separator" /\ q[b].kind = "begin_multi_select_hash"
  <2>1. q[j].kind # "begin_multi_select_hash"
    BY <1>1 DEF Openers
  <2>2. q[j].kind = "separator" /\ Within(q, j, {"begin_multi_select_hash"})
    BY <1>6, <2>1 DEF WantsKey
  <2>3. q[b].kind \in {"begin_multi_select_hash"}
    BY <1>5, <2>2, WithinGroup
  <2> QED BY <2>2, <2>3
<1>7. ASSUME q[k].kind = "separator" PROVE AtSeparator(q, v, b, k)
  <2>1. /\ q[k-1].kind \notin Boundary /\ v[k-1] = 1
        /\ Within(q, k, Separated)
    BY <1>3, <1>7 DEF Placed, Separated
  <2>2. q[b].kind \in Separated
    BY <1>5, <2>1, WithinGroup
  <2>3. k - 1 # b
    BY <2>1, <2>2 DEF Separated, Boundary
  <2>4. k - 1 \in b + 1 .. n
    BY <1>1, <1>2, <2>3
  <2>5. k # n
    BY <1>1, <1>7 DEF Boundary
  <2>6. k + 1 \in b + 1 .. n /\ k + 1 \in 1 .. n /\ k + 1 > 1 /\ (k + 1) - 1 = k
    BY <1>1, <1>2, <2>5
  <2>7. Placed(q, v, k + 1)
    BY <1>1, <2>6
  <2>8. q[k+1].kind # "separator"
    <3> SUFFICES ASSUME q[k+1].kind = "separator" PROVE FALSE
      OBVIOUS
    <3>1. q[k].kind \notin Boundary
      BY <2>6, <2>7 DEF Placed
    <3> QED BY <1>7, <3>1 DEF Boundary
  <2>9. ASSUME q[b].kind = "begin_multi_select_hash" PROVE q[k+1].kind = "key"
    <3>1. Within(q, k, {"begin_multi_select_hash"})
      <4>1. b \in 1 .. k - 1 /\ \A j \in b + 1 .. k - 1 : j \in b + 1 .. n
        BY <1>1, <1>2
      <4> QED BY <1>1, <2>9, <4>1 DEF Within
    <3>2. WantsKey(q, k)
      BY <1>7, <3>1 DEF WantsKey
    <3> QED BY <2>6, <2>7, <3>2 DEF Placed
  <2> QED BY <2>1, <2>2, <2>4, <2>6, <2>8, <2>9 DEF AtSeparator
<1>8. ASSUME q[k].kind = "key" PROVE AtKey(q, b, k)
  <2>1. WantsKey(q, k - 1)
    BY <1>2, <1>3, <1>8 DEF Placed
  <2>2. CASE k - 1 = b
    <3>1. WantsKey(q, b)
      BY <2>1, <2>2
    <3>2. q[b].kind = "begin_multi_select_hash"
      BY <1>1, <3>1 DEF WantsKey, Openers
    <3> QED BY <2>2, <3>2 DEF AtKey
  <2>3. CASE k - 1 # b
    <3>1. k - 1 \in b + 1 .. n
      BY <1>1, <1>2, <2>3
    <3>2. q[k-1].kind = "separator" /\ q[b].kind = "begin_multi_select_hash"
      BY <1>6, <2>1, <3>1
    <3> QED BY <3>1, <3>2 DEF AtKey
  <2> QED BY <2>2, <2>3
<1> QED BY <1>4, <1>7, <1>8

WellFormedLists(ls) == \A l \in ls : WellFormed(Prefixed(l))

LEMMA FilterRuns ==
  ASSUME NEW q, NEW v, NEW b, Group(q, v, b), q[b].kind = "begin_filter"
  PROVE  WellFormedLists({After(b, q)})
<1>1. /\ q \in Seq(Token) /\ Tidy(q, v) /\ b \in 1 .. Len(q) /\ v[Len(q)] = 1
      /\ q[b].kind \in Boundary /\ Len(q) # b
  BY DEF Group, Boundary, Settled, Last
<1>2. Len(q) \in b + 1 .. Len(q)
  BY <1>1
<1>3. \A k \in b + 1 .. Len(q) : q[k].kind \in Inner
  BY GroupTokens DEF AtSeparator, AtKey, Separated
<1>4. WellFormed(Prefixed(After(b, q)))
  <2>1. After(b, q) = SubSeq(q, b + 1, Len(q))
    BY DEF After
  <2> QED BY <1>1, <1>2, <1>3, <2>1, SegmentRuns
<1> QED BY <1>4 DEF WellFormedLists

Greatest(T, n) == n \in T /\ \A m \in T : m <= n

LEMMA GreatestExists ==
  ASSUME NEW T, T # {}, NEW n \in Nat, T \subseteq 0 .. n
  PROVE  \E m : Greatest(T, m)
<1> DEFINE D == {n - m : m \in T}
<1>1. D \subseteq Nat /\ D # {}
  <2>1. \A m \in T : n - m \in Nat
    OBVIOUS
  <2>2. PICK m \in T : TRUE
    OBVIOUS
  <2>3. n - m \in D
    OBVIOUS
  <2> QED BY <2>1, <2>3
<1>2. PICK d \in D : \A e \in D : d <= e
  <2> HIDE DEF D
  <2> QED BY <1>1, Least
<1>3. PICK m \in T : d = n - m
  OBVIOUS
<1>4. \A k \in T : k \in 0 .. n /\ n - m <= n - k
  BY <1>2, <1>3
<1>5. \A k \in T : k <= m
  BY <1>4
<1> QED BY <1>3, <1>5 DEF Greatest

Cuts(r) == {i \in 1 .. Len(r) - 1 : r[i].kind = "separator" /\ r[i+1].kind # "separator"}
PartEnds(r) == {i - 1 : i \in Cuts(r)} \cup {Len(r)}
IsStart(r, e, d) == /\ d - 1 \in Cuts(r) \cup {0}
                    /\ \A i \in Cuts(r) : i < e => i < d
PartStart(r, e) == CHOOSE d \in 1 .. e + 1 : IsStart(r, e, d)

LEMMA ElementsAre ==
  ASSUME NEW r
  PROVE  Elements(r) = {SubSeq(r, PartStart(r, e), e) : e \in PartEnds(r) \ {0}}
BY DEF Elements, PartEnds, PartStart, IsStart, Cuts

LEMMA StartIs ==
  ASSUME NEW r \in Seq(Token), NEW e \in 1 .. Len(r)
  PROVE  PartStart(r, e) \in 1 .. e + 1 /\ IsStart(r, e, PartStart(r, e))
<1> DEFINE T == {i \in Cuts(r) \cup {0} : i < e}
<1>1. Cuts(r) \subseteq 1 .. Len(r) /\ Len(r) \in Nat
  BY DEF Cuts
<1>2. T # {} /\ T \subseteq 0 .. Len(r)
  BY <1>1
<1>3. PICK m : Greatest(T, m)
  BY <1>1, <1>2, GreatestExists
<1>4. m \in Cuts(r) \cup {0} /\ m < e /\ m \in Nat
  BY <1>1, <1>2, <1>3 DEF Greatest
<1>5. m + 1 \in 1 .. e + 1 /\ (m + 1) - 1 = m
  BY <1>4
<1>6. \A i \in Cuts(r) : i < e => i \in T /\ i \in Nat
  BY <1>1
<1>7. \A i \in Cuts(r) : i < e => i < m + 1
  BY <1>3, <1>4, <1>6 DEF Greatest
<1>8. IsStart(r, e, m + 1)
  BY <1>4, <1>5, <1>7 DEF IsStart
<1> QED BY <1>5, <1>8 DEF PartStart

LEMMA ListRuns ==
  ASSUME NEW q, NEW v, NEW b, Group(q, v, b), q[b].kind = "begin_multi_select_list"
  PROVE  WellFormedLists(Elements(After(b, q)))
<1> DEFINE n == Len(q)
           r == After(b, q)
           m == n - b
<1>1. /\ q \in Seq(Token) /\ Tidy(q, v) /\ b \in 1 .. n /\ v[n] = 1 /\ n \in Nat
      /\ q[b].kind \in Boundary /\ q[n].kind \notin Boundary /\ n # b
  BY DEF Group, Boundary, Settled, Last
<1>2. /\ r \in Seq(Token) /\ Len(r) = m /\ \A k \in 1 .. m : r[k] = q[b + k]
  BY <1>1 DEF After
<1>3. m \in Nat /\ m > 0 /\ b + m = n
  BY <1>1
<1>4. \A k \in b + 1 .. n : /\ q[k].kind \in Inner \cup {"separator"}
                            /\ q[k].kind = "separator" => AtSeparator(q, v, b, k)
  <2>1. \A k \in b + 1 .. n : ~AtKey(q, b, k)
    BY DEF AtKey
  <2> QED BY <2>1, GroupTokens
<1> HIDE DEF r, m, n
<1>5. ASSUME NEW k \in 1 .. m, r[k].kind = "separator"
      PROVE  /\ k \in Cuts(r) /\ k - 1 \in 1 .. m /\ r[k-1].kind # "separator"
             /\ v[b + (k - 1)] = 1 /\ k # m
  <2>1. b + k \in b + 1 .. n /\ q[b + k].kind = "separator"
    BY <1>1, <1>2, <1>3, <1>5
  <2>2. AtSeparator(q, v, b, b + k)
    BY <1>4, <2>1
  <2>3. /\ (b + k) - 1 \in b + 1 .. n /\ q[(b + k) - 1].kind \notin Boundary /\ v[(b + k) - 1] = 1
        /\ (b + k) + 1 \in b + 1 .. n /\ q[(b + k) + 1].kind # "separator"
    BY <2>2 DEF AtSeparator, n
  <2>4. /\ k - 1 \in 1 .. m /\ k + 1 \in 1 .. m /\ (b + k) - 1 = b + (k - 1)
        /\ (b + k) + 1 = b + (k + 1) /\ k \in 1 .. m - 1 /\ k # m
    BY <1>1, <1>3, <2>3
  <2>5. r[k-1] = q[b + (k - 1)] /\ r[k+1] = q[b + (k + 1)]
    BY <1>2, <2>4
  <2>6. r[k-1].kind # "separator" /\ r[k+1].kind # "separator" /\ v[b + (k - 1)] = 1
    BY <2>3, <2>4, <2>5 DEF Boundary
  <2> QED BY <1>2, <1>5, <2>4, <2>6 DEF Cuts
<1>6. ASSUME NEW k \in Cuts(r) PROVE k \in 1 .. m /\ r[k].kind = "separator"
  BY <1>2, <1>3 DEF Cuts
<1>7. ASSUME NEW e \in PartEnds(r) \ {0}
      PROVE  WellFormed(Prefixed(SubSeq(r, PartStart(r, e), e)))
  <2>1. /\ e \in 1 .. m /\ v[b + e] = 1 /\ r[e].kind # "separator"
        /\ e = m \/ e + 1 \in Cuts(r)
    <3>1. CASE e = m
      <4>1. m \in 1 .. m /\ r[m] = q[n]
        BY <1>2, <1>3
      <4>2. r[m].kind # "separator"
        BY <1>1, <4>1 DEF Boundary
      <4> QED BY <1>1, <1>3, <3>1, <4>1, <4>2
    <3>2. CASE e # m
      <4>1. PICK i \in Cuts(r) : e = i - 1
        BY <1>2, <3>2 DEF PartEnds
      <4>2. i \in 1 .. m /\ r[i].kind = "separator"
        BY <1>6
      <4>3. i - 1 \in 1 .. m /\ r[i-1].kind # "separator" /\ v[b + (i - 1)] = 1
        BY <1>5, <4>2
      <4>4. e + 1 = i
        BY <4>1, <4>2
      <4> QED BY <4>1, <4>3, <4>4
    <3> QED BY <3>1, <3>2
  <2> DEFINE d == PartStart(r, e)
             a == b + (d - 1)
             f == b + e
  <2>2. d \in 1 .. e + 1 /\ IsStart(r, e, d)
    <3>1. e \in 1 .. Len(r)
      BY <1>2, <2>1
    <3> QED BY <1>2, <3>1, StartIs
  <2> HIDE DEF d
  <2>3. d - 1 # e
    <3> SUFFICES ASSUME d - 1 = e PROVE FALSE
      OBVIOUS
    <3>1. e \in Cuts(r)
      BY <2>1, <2>2 DEF IsStart
    <3> QED BY <1>6, <2>1, <3>1
  <2>4. d \in 1 .. e /\ e \in 1 .. m /\ d - 1 \in 0 .. m
    BY <1>3, <2>1, <2>2, <2>3
  <2>5. /\ a \in 1 .. n /\ f \in a + 1 .. n /\ a + 1 = b + d /\ f \in 1 .. n
    BY <1>1, <1>3, <2>4
  <2>6. q[a].kind \in Boundary
    <3>1. CASE d - 1 = 0
      BY <1>1, <2>4, <3>1
    <3>2. CASE d - 1 # 0
      <4>1. d - 1 \in Cuts(r)
        BY <2>2, <3>2 DEF IsStart
      <4>2. d - 1 \in 1 .. m /\ r[d-1].kind = "separator"
        BY <1>6, <4>1
      <4>3. q[a].kind = "separator"
        BY <1>2, <4>2
      <4> QED BY <4>3 DEF Boundary
    <3> QED BY <3>1, <3>2
  <2>7. ASSUME NEW k \in a + 1 .. f PROVE q[k].kind \in Inner
    <3> DEFINE i == k - b
    <3>1. i \in d .. e /\ i \in 1 .. m /\ k \in b + 1 .. n /\ b + i = k
      BY <1>1, <1>3, <2>4, <2>5
    <3> HIDE DEF i
    <3>2. r[i].kind # "separator"
      <4> SUFFICES ASSUME r[i].kind = "separator" PROVE FALSE
        OBVIOUS
      <4>1. i \in Cuts(r)
        BY <1>5, <3>1
      <4>2. CASE i < e
        <5>1. i < d
          BY <2>2, <4>1, <4>2 DEF IsStart
        <5> QED BY <2>4, <3>1, <5>1
      <4>3. CASE ~(i < e)
        <5>1. i = e
          BY <2>4, <3>1, <4>3
        <5> QED BY <2>1, <5>1
      <4> QED BY <4>2, <4>3
    <3>3. q[k].kind # "separator"
      BY <1>2, <3>1, <3>2
    <3> QED BY <1>4, <3>1, <3>3
  <2>8. SubSeq(r, d, e) = SubSeq(q, a + 1, f)
    <3> DEFINE x == SubSeq(r, d, e)
               y == SubSeq(q, a + 1, f)
    <3>1. d \in 1 .. Len(r) /\ e \in 1 .. Len(r)
      BY <1>2, <2>1, <2>4
    <3>2. x \in Seq(Token) /\ Len(x) = (e - d) + 1 /\ \A k \in 1 .. (e - d) + 1 : x[k] = r[(d + k) - 1]
      BY <1>2, <2>4, <3>1
    <3>3. y \in Seq(Token) /\ Len(y) = (f - (a + 1)) + 1
          /\ \A k \in 1 .. (f - (a + 1)) + 1 : y[k] = q[((a + 1) + k) - 1]
      <4>1. a + 1 \in 1 .. Len(q) /\ f \in 1 .. Len(q)
        BY <2>5 DEF n
      <4>2. f \in a + 1 .. n /\ a \in Nat
        BY <2>5
      <4> HIDE DEF a, f
      <4> QED BY <1>1, <4>1, <4>2
    <3>4. (f - (a + 1)) + 1 = (e - d) + 1
      BY <1>1, <2>4
    <3>5. \A k \in 1 .. (e - d) + 1 :
            (d + k) - 1 \in 1 .. m /\ ((a + 1) + k) - 1 = b + ((d + k) - 1)
      BY <1>1, <1>3, <2>4
    <3> HIDE DEF x, y, a, f
    <3>6. \A k \in 1 .. (e - d) + 1 : x[k] = y[k]
      BY <1>2, <3>2, <3>3, <3>4, <3>5
    <3>7. x = y
      BY <3>2, <3>3, <3>4, <3>6
    <3> QED BY <3>7 DEF x, y
  <2>9. v[f] = 1
    BY <2>1
  <2> DEFINE z == SubSeq(r, d, e)
  <2>10. z = SubSeq(q, a + 1, f)
    BY <2>8
  <2> HIDE DEF z, a, f
  <2>11. WellFormed(Prefixed(z))
    BY <1>1, <2>5, <2>6, <2>7, <2>9, <2>10, SegmentRuns DEF n
  <2> QED BY <2>11 DEF z, d
<1>8. Elements(r) = {SubSeq(r, PartStart(r, e), e) : e \in PartEnds(r) \ {0}}
  BY ElementsAre
<1>9. WellFormedLists(Elements(r))
  BY <1>7, <1>8 DEF WellFormedLists
<1> QED BY <1>9 DEF r

(* The keys of a hash that begins at b, and where the value of one ends. *)
Keys(q, b) == {k \in b + 1 .. Len(q) : q[k].kind = "key"}
IsNextKey(q, b, k, n) == n > k /\ \A m \in Keys(q, b) : m > k => n <= m
NextKey(q, b, k) == CHOOSE n \in Keys(q, b) : IsNextKey(q, b, k, n)
ValueEnd(q, b, k) ==
  IF \E n \in Keys(q, b) : n > k
  THEN IF q[NextKey(q, b, k) - 1].kind = "separator" THEN NextKey(q, b, k) - 2
       ELSE NextKey(q, b, k) - 1
  ELSE Len(q)

LEMMA ValuesAre ==
  ASSUME NEW q, NEW b
  PROVE  HashValues(q, b) = {SubSeq(q, k + 1, ValueEnd(q, b, k)) : k \in Keys(q, b)}
BY DEF HashValues, ValueEnd, NextKey, IsNextKey, Keys

LEMMA NextKeyIs ==
  ASSUME NEW q \in Seq(Token), NEW b \in Nat, NEW k \in Keys(q, b), \E n \in Keys(q, b) : n > k
  PROVE  NextKey(q, b, k) \in Keys(q, b) /\ IsNextKey(q, b, k, NextKey(q, b, k))
<1> DEFINE T == {n \in Keys(q, b) : n > k}
<1>1. T \subseteq Nat /\ T # {}
  BY DEF Keys
<1>2. PICK n \in T : \A m \in T : n <= m
  BY <1>1, Least
<1>3. n \in Keys(q, b) /\ IsNextKey(q, b, k, n)
  BY <1>2 DEF IsNextKey
<1> QED BY <1>3 DEF NextKey

LEMMA ValueTokens ==
  ASSUME NEW q, NEW v, NEW b, Group(q, v, b), q[b].kind = "begin_multi_select_hash",
         NEW k \in Keys(q, b), NEW e \in 0 .. Len(q),
         \A m \in Keys(q, b) : m > k => e + 1 < m,
         e = Len(q) \/ e + 1 \in 1 .. Len(q)
  PROVE  \A i \in k + 1 .. e : q[i].kind \in Inner
<1> TAKE i \in k + 1 .. e
<1>1. q \in Seq(Token) /\ b \in 1 .. Len(q) /\ k \in b + 1 .. Len(q) /\ Len(q) \in Nat
  BY DEF Group, Keys
<1>2. i \in b + 1 .. Len(q) /\ i > k
  BY <1>1
<1>3. q[i].kind # "key"
  <2> SUFFICES ASSUME q[i].kind = "key" PROVE FALSE
    OBVIOUS
  <2>1. i \in Keys(q, b)
    BY <1>2 DEF Keys
  <2>2. e + 1 < i
    BY <1>2, <2>1
  <2> QED BY <1>1, <2>2
<1>4. q[i].kind # "separator"
  <2> SUFFICES ASSUME q[i].kind = "separator" PROVE FALSE
    OBVIOUS
  <2>1. i + 1 \in b + 1 .. Len(q) /\ q[i+1].kind = "key"
    BY <1>2, GroupTokens DEF AtSeparator
  <2>2. i + 1 \in Keys(q, b) /\ i + 1 > k
    BY <1>1, <1>2, <2>1 DEF Keys
  <2>3. e + 1 < i + 1
    BY <2>2
  <2> QED BY <1>1, <2>3
<1> QED BY <1>2, <1>3, <1>4, GroupTokens

LEMMA ValueEndIs ==
  ASSUME NEW q, NEW v, NEW b, Group(q, v, b), q[b].kind = "begin_multi_select_hash",
         NEW k \in Keys(q, b)
  PROVE  LET e == ValueEnd(q, b, k)
         IN /\ e \in k + 1 .. Len(q) /\ v[e] = 1
            /\ \A i \in k + 1 .. e : q[i].kind \in Inner
<1>1. /\ q \in Seq(Token) /\ b \in 1 .. Len(q) /\ b \in Nat /\ Len(q) \in Nat
      /\ k \in b + 1 .. Len(q) /\ q[k].kind = "key" /\ v[Len(q)] = 1
      /\ q[Len(q)].kind \notin Boundary
  BY DEF Group, Keys, Settled, Last
<1>2. ASSUME \E n \in Keys(q, b) : n > k
      PROVE  LET e == ValueEnd(q, b, k)
             IN /\ e \in k + 1 .. Len(q) /\ v[e] = 1 /\ e + 1 \in 1 .. Len(q)
                /\ \A m \in Keys(q, b) : m > k => e + 1 < m
  <2> DEFINE n == NextKey(q, b, k)
  <2>1. n \in Keys(q, b) /\ n > k /\ \A m \in Keys(q, b) : m > k => n <= m
    BY <1>1, <1>2, NextKeyIs DEF IsNextKey
  <2>2. n \in b + 1 .. Len(q) /\ q[n].kind = "key"
    BY <2>1 DEF Keys
  <2>3. ValueEnd(q, b, k) = IF q[n-1].kind = "separator" THEN n - 2 ELSE n - 1
    BY <1>2 DEF ValueEnd
  <2> HIDE DEF n
  <2>4. n - 1 \in b + 1 .. Len(q) /\ q[n-1].kind = "separator"
    <3>1. AtKey(q, b, n)
      BY <2>2, GroupTokens
    <3>2. n - 1 # b
      BY <1>1, <2>1, <2>2
    <3> QED BY <3>1, <3>2 DEF AtKey
  <2> DEFINE j == n - 1
  <2>5. j - 1 \in b + 1 .. Len(q) /\ q[j-1].kind \notin Boundary /\ v[j-1] = 1
    BY <2>4, GroupTokens DEF AtSeparator
  <2>6. j - 1 = n - 2
    BY <2>2
  <2>7. n - 1 # k /\ n - 2 # k
    BY <1>1, <2>4, <2>5, <2>6 DEF Boundary
  <2>8. n - 2 \in k + 1 .. Len(q) /\ (n - 2) + 1 \in 1 .. Len(q) /\ (n - 2) + 1 < n /\ (n - 2) + 1 \in Nat /\ n \in Nat
    BY <1>1, <2>1, <2>2, <2>7
  <2>9. ValueEnd(q, b, k) = n - 2
    BY <2>3, <2>4
  <2>10. \A m \in Keys(q, b) : m > k => (n - 2) + 1 < m
    <3> TAKE m \in Keys(q, b)
    <3> HAVE m > k
    <3>1. m \in Nat /\ n <= m
      BY <1>1, <2>1 DEF Keys
    <3> HIDE DEF j
    <3> QED BY <2>8, <3>1
  <2> QED BY <2>5, <2>6, <2>8, <2>9, <2>10
<1>3. ASSUME ~ \E n \in Keys(q, b) : n > k
      PROVE  LET e == ValueEnd(q, b, k)
             IN e = Len(q) /\ e \in k + 1 .. Len(q) /\ v[e] = 1
  <2>1. Len(q) # k
    BY <1>1 DEF Boundary
  <2>2. Len(q) \in k + 1 .. Len(q)
    BY <1>1, <2>1
  <2> QED BY <1>1, <1>3, <2>2 DEF ValueEnd
<1> DEFINE e == ValueEnd(q, b, k)
<1>4. /\ e \in k + 1 .. Len(q) /\ v[e] = 1 /\ (e = Len(q) \/ e + 1 \in 1 .. Len(q))
      /\ \A m \in Keys(q, b) : m > k => e + 1 < m
  <2>1. CASE \E n \in Keys(q, b) : n > k
    <3> HIDE DEF e
    <3>1. /\ e \in k + 1 .. Len(q) /\ v[e] = 1 /\ e + 1 \in 1 .. Len(q)
          /\ \A m \in Keys(q, b) : m > k => e + 1 < m
      BY <1>2, <2>1 DEF e
    <3> QED BY <3>1
  <2>2. CASE ~ \E n \in Keys(q, b) : n > k
    <3> HIDE DEF e
    <3>1. e = Len(q) /\ e \in k + 1 .. Len(q) /\ v[e] = 1
      BY <1>3, <2>2 DEF e
    <3> QED BY <2>2, <3>1
  <2> QED BY <2>1, <2>2
<1> HIDE DEF e
<1>5. e \in 0 .. Len(q)
  BY <1>1, <1>4
<1>6. \A i \in k + 1 .. e : q[i].kind \in Inner
  BY <1>4, <1>5, ValueTokens
<1> QED BY <1>4, <1>6 DEF e

LEMMA HashRuns ==
  ASSUME NEW q, NEW v, NEW b, Group(q, v, b), q[b].kind = "begin_multi_select_hash"
  PROVE  WellFormedLists(HashValues(q, b))
<1> SUFFICES ASSUME NEW k \in Keys(q, b)
             PROVE  WellFormed(Prefixed(SubSeq(q, k + 1, ValueEnd(q, b, k))))
  BY ValuesAre DEF WellFormedLists
<1> DEFINE e == ValueEnd(q, b, k)
           r == SubSeq(q, k + 1, e)
<1>1. q \in Seq(Token) /\ Tidy(q, v) /\ k \in 1 .. Len(q) /\ q[k].kind \in Boundary
  BY DEF Group, Keys, Boundary
<1>2. e \in k + 1 .. Len(q) /\ v[e] = 1 /\ \A i \in k + 1 .. e : q[i].kind \in Inner
  BY ValueEndIs
<1> HIDE DEF e
<1>3. WellFormed(Prefixed(r))
  BY <1>1, <1>2, SegmentRuns
<1> QED BY <1>3 DEF e

(* Nothing is taken from a hash without a key. *)
LEMMA EmptyHash ==
  ASSUME NEW q \in Seq(Token)
  PROVE  HashValues(q, Len(q)) = {}
<1>1. Keys(q, Len(q)) = {}
  BY DEF Keys
<1> QED BY <1>1, ValuesAre

-----------------------------------------------------------------------------
(* The innermost group, begun at b, is closed: t instead of s. *)
Closed(s, v, w, t, b, p, H) ==
  /\ \E y, x : /\ Leveled(t, y, x, H) /\ Agree(y, v, b - 1)
               /\ Nested(x, w, s.operators, p)
  /\ Settled(t.output)
  /\ \A l \in t.lists : l \in s.lists \/ WellFormed(l)

(* What is needed for that. *)
Closable(s, v, w, G, b, p, H) ==
  /\ Leveled(s, v, w, G) /\ LastOpened(s.output, b)
  /\ p = LastAt("lparen", s.operators) /\ p \in G
  /\ v[b-1] = w[p-1] /\ SameBelow(H, G, p - 1)

LEMMA GroupUnwound ==
  ASSUME NEW s, StacksOK(s), NEW v, NEW w, NEW G, NEW b, NEW p, NEW H,
         Closable(s, v, w, G, b, p, H), Settled(s.output), unwind_rparen(s).ec = NoError
  PROVE  \E y : Group(unwind_rparen(s).output, y, b)
<1> DEFINE u == unwind_rparen(s)
           q == u.output
<1>1. LparenOff(s, u, p)
  BY UnwoundFields DEF Closable
<1>2. ~KeyNext(s.output) /\ Leveled(s, v, w, G) /\ p \in G
  BY SettledWants DEF Closable
<1>3. Reaches(s.output, v, q, w[p]) /\ Onward(s.output, q)
  BY <1>1, <1>2, UnwoundLevels
<1>4. w[p] = 1
  BY <1>1, <1>2, UnwoundWeight
<1>5. PICK y : Grows(s.output, v, q, y) /\ y[Len(q)] = 1
  BY <1>3, <1>4 DEF Reaches
<1> HIDE DEF q, u
<1>6. /\ q \in Seq(Token) /\ Settled(q) /\ Len(s.output) <= Len(q) /\ Len(q) \in Nat
      /\ \A k \in 1 .. Len(s.output) : q[k] = s.output[k]
      /\ \A k \in 1 .. Len(q) : k > Len(s.output) => q[k].kind \in Operators
  BY <1>3 DEF Onward, Agree, OperatorsAbove
<1>7. /\ b \in 1 .. Len(s.output) /\ s.output[b].kind \in Openers
      /\ \A k \in 1 .. Len(s.output) : s.output[k].kind \in Openers => k <= b
      /\ s.output \in Seq(Token) /\ Len(s.output) \in Nat
  BY OutputNotEmpty DEF Closable, LastOpened, Opened
<1>8. b \in 1 .. Len(q) /\ q[b].kind \in Openers
  BY <1>6, <1>7
<1>9. ASSUME NEW k \in b + 1 .. Len(q) PROVE q[k].kind \notin Openers
  <2>1. k \in 1 .. Len(q) /\ k > b
    BY <1>7
  <2>2. CASE k > Len(s.output)
    <3>1. q[k].kind \in Operators
      BY <1>6, <2>1, <2>2
    <3> QED BY <3>1, OperatorsAreNoOpeners
  <2>3. CASE ~(k > Len(s.output))
    <3>1. k \in 1 .. Len(s.output) /\ ~(k <= b)
      BY <1>7, <2>1, <2>3
    <3> QED BY <1>6, <1>7, <3>1
  <2> QED BY <2>2, <2>3
<1>10. Group(q, y, b)
  BY <1>5, <1>6, <1>8, <1>9 DEF Group, Grows
<1> QED BY <1>10 DEF q, u

LEMMA CaptureEnds ==
  ASSUME NEW s, StacksOK(s), NEW v, NEW w, NEW G, NEW b, NEW p, NEW H,
         Closable(s, v, w, G, b, p, H), unwind_rparen(s).ec = NoError,
         NEW ls, WellFormedLists(ls), NEW tok, NEW expr \in Token, expr.kind = "expression",
         NEW t, t = Capture(unwind_rparen(s), b, ls, tok, expr), t.ec = NoError
  PROVE  Closed(s, v, w, t, b, p, H)
<1> DEFINE u == unwind_rparen(s)
           all == u.lists \cup {Prefixed(l) : l \in ls}
<1>1. LparenOff(s, u, p)
  BY UnwoundFields DEF Closable
<1>2. StacksOK(u) /\ Unwinding(s, u)
  BY Unwound, Unwinds
<1>3. b \in 1 .. Len(u.output) /\ u.output[b].kind \in Openers
      /\ b \in 1 .. Len(s.output) /\ s.output[b].kind \in Openers
  <2> HIDE DEF u
  <2>1. LastOpened(s.output, b)
    BY DEF Closable
  <2>2. b \in 1 .. Len(s.output) /\ s.output[b].kind \in Openers
    BY <2>1, OutputNotEmpty DEF LastOpened, Opened
  <2> QED BY <1>2, <2>1, <2>2, BeginningFound
<1>4. t = Capture(u, b, ls, tok, expr) /\ u.lists = s.lists
  BY <1>1 DEF LparenOff, Fields4
<1> HIDE DEF u
<1>5. t = AddExpression(CutBelow(u, b, all), tok, expr)
  BY <1>2, <1>3, <1>4, CaptureIs
<1> HIDE DEF all
<1>6. Leveled(s, v, w, G) /\ v[b-1] = w[p-1] /\ SameBelow(H, G, p - 1)
  BY DEF Closable
<1>7. /\ \E y, x : /\ Leveled(t, y, x, H) /\ Agree(y, v, b - 1)
                   /\ Nested(x, w, s.operators, p)
      /\ Settled(t.output) /\ t.lists = all
  BY <1>1, <1>2, <1>3, <1>5, <1>6, ClosedLevels
<1>8. \A l \in all : l \in s.lists \/ WellFormed(l)
  BY <1>4 DEF all, WellFormedLists
<1> QED BY <1>7, <1>8 DEF Closed

LEMMA FilterEnds ==
  ASSUME NEW s, StacksOK(s), NEW v, NEW w, NEW G, NEW b, NEW p, NEW H,
         Closable(s, v, w, G, b, p, H), Settled(s.output),
         s.output[b].kind = "begin_filter", EndFilter(s).ec = NoError
  PROVE  Closed(s, v, w, EndFilter(s), b, p, H)
<1>1. LastOpened(s.output, b)
  BY DEF Closable
<1> DEFINE u == unwind_rparen(s)
<1>2. /\ u.ec = NoError
      /\ EndFilter(s) =
           Capture(u, b, {After(b, u.output)}, Tok("end_filter"), Expression("projection_op"))
  BY <1>1, FilterTakes
<1>3. PICK y : Group(u.output, y, b)
  BY <1>2, GroupUnwound
<1>4. u.output[b].kind = "begin_filter"
  BY <1>1, <1>2, Unwinds, BeginningFound
<1>5. WellFormedLists({After(b, u.output)})
  <2> HIDE DEF u
  <2> QED BY <1>3, <1>4, FilterRuns
<1>6. Expression("projection_op") \in Token /\ Expression("projection_op").kind = "expression"
  BY TokensMade DEF Opers, ProjectionOpers, Expression
<1> QED BY <1>2, <1>5, <1>6, CaptureEnds

LEMMA ListEnds ==
  ASSUME NEW s, StacksOK(s), NEW v, NEW w, NEW G, NEW b, NEW p, NEW H,
         Closable(s, v, w, G, b, p, H), Settled(s.output),
         s.output[b].kind = "begin_multi_select_list", EndMultiSelectList(s).ec = NoError
  PROVE  Closed(s, v, w, EndMultiSelectList(s), b, p, H)
<1>1. LastOpened(s.output, b)
  BY DEF Closable
<1> DEFINE u == unwind_rparen(s)
<1>2. /\ u.ec = NoError
      /\ EndMultiSelectList(s) =
           Capture(u, b, Elements(After(b, u.output)), Tok("end_multi_select_list"), Selector)
  BY <1>1, ListTakes
<1>3. PICK y : Group(u.output, y, b)
  BY <1>2, GroupUnwound
<1>4. u.output[b].kind = "begin_multi_select_list"
  BY <1>1, <1>2, Unwinds, BeginningFound
<1>5. WellFormedLists(Elements(After(b, u.output)))
  <2> HIDE DEF u
  <2> QED BY <1>3, <1>4, ListRuns
<1>6. Selector \in Token /\ Selector.kind = "expression"
  BY TokensMade DEF Selector, Expression
<1> QED BY <1>2, <1>5, <1>6, CaptureEnds

(* The values of a hash, which may have none. *)
LEMMA HashEnds ==
  ASSUME NEW s, StacksOK(s), NEW v, NEW w, NEW G, NEW b, NEW p, NEW H,
         Closable(s, v, w, G, b, p, H), s.output[b].kind = "begin_multi_select_hash",
         KeyFollows(s.output, b) \/ OnTop(s, b), OnTop(s, b) \/ Settled(s.output),
         EndMultiSelectHash(s).ec = NoError
  PROVE  Closed(s, v, w, EndMultiSelectHash(s), b, p, H)
<1>1. LastOpened(s.output, b)
  BY DEF Closable
<1> DEFINE u == unwind_rparen(s)
<1>2. /\ u.ec = NoError
      /\ EndMultiSelectHash(s) =
           Capture(u, b, HashValues(u.output, b), Tok("end_multi_select_hash"), Selector)
  BY <1>1, HashTakes
<1>3. u.output[b].kind = "begin_multi_select_hash"
  BY <1>1, <1>2, Unwinds, BeginningFound
<1>4. WellFormedLists(HashValues(u.output, b))
  <2>1. CASE Settled(s.output)
    <3>1. PICK y : Group(u.output, y, b)
      BY <1>2, <2>1, GroupUnwound
    <3> HIDE DEF u
    <3> QED BY <1>3, <3>1, HashRuns
  <2>2. CASE OnTop(s, b)
    <3>1. LastAt("lparen", s.operators) = Len(s.operators)
      <4>1. s.operators \in Seq(OperatorToken) /\ OperatorToken \subseteq Token
        BY OutputNotEmpty DEF OperatorToken
      <4>2. Len(s.operators) \in 1 .. Len(s.operators) /\ s.operators[Len(s.operators)].kind = "lparen"
        BY <2>2, <4>1 DEF OnTop, Last
      <4>3. s.operators \in Seq(Token)
        BY <4>1
      <4> QED BY <4>2, <4>3, LastAtUnique
    <3>2. PICK moved \in Seq(Token) : u.output = s.output \o moved /\ moved = <<>>
      BY <1>2, <3>1, Unwinds DEF Unwinding
    <3>3. u.output = s.output /\ s.output \in Seq(Token)
      BY <3>2, OutputNotEmpty
    <3>4. HashValues(u.output, b) = {}
      BY <2>2, <3>3, EmptyHash DEF OnTop
    <3> QED BY <3>4 DEF WellFormedLists
  <2> QED BY <2>1, <2>2
<1>5. Selector \in Token /\ Selector.kind = "expression"
  BY TokensMade DEF Selector, Expression
<1> QED BY <1>2, <1>4, <1>5, CaptureEnds

-----------------------------------------------------------------------------
(* The whole program: no group is open. *)
LEMMA WholeRuns ==
  ASSUME NEW q \in Seq(Token), q # <<>>, NEW v, Tidy(q, v), v[Len(q)] = 1, Opened(q) = {}
  PROVE  WellFormed(q)
<1> DEFINE n == Len(q)
           f == [k \in 0 .. n |-> IF k = 0 THEN 0 ELSE v[k]]
<1>1. n \in Nat \ {0} /\ v \in [1 .. n -> Nat \ {0}] /\ \A k \in 1 .. n : Placed(q, v, k)
  BY DEF Tidy
<1>2. /\ f \in [0 .. n -> Nat] /\ f[0] = 0
      /\ \A k \in 1 .. n : f[k] = v[k]
  <2>1. \A k \in 0 .. n : k # 0 => k \in 1 .. n
    OBVIOUS
  <2>2. \A k \in 1 .. n : k # 0 /\ k \in 0 .. n
    OBVIOUS
  <2>3. 0 \in 0 .. n
    BY <1>1
  <2> HIDE DEF n
  <2> QED BY <1>1, <2>1, <2>2, <2>3
<1> HIDE DEF f
<1>3. \A k \in 1 .. n : q[k].kind \notin Openers
  BY DEF Opened
<1>4. ASSUME NEW k \in 1 .. n PROVE ~WantsKey(q, k)
  <2>1. \A j \in 1 .. k - 1 : j \in 1 .. n
    BY <1>1
  <2> QED BY <1>3, <2>1 DEF WantsKey, Within, Openers
<1>5. ASSUME NEW k \in 1 .. n PROVE q[k].kind \in Inner
  <2>1. Placed(q, v, k)
    BY <1>1
  <2>2. q[k].kind # "separator"
    <3>1. ~Within(q, k, Separated)
      <4>1. \A j \in 1 .. k - 1 : j \in 1 .. n
        BY <1>1
      <4> QED BY <1>3, <4>1 DEF Within, Separated, Openers
    <3> QED BY <2>1, <3>1 DEF Placed, Separated
  <2>3. q[k].kind # "key"
    <3>1. CASE k = 1
      BY <2>1, <3>1 DEF Placed
    <3>2. CASE k # 1
      <4>1. k > 1 /\ k - 1 \in 1 .. n
        BY <1>1, <3>2
      <4> QED BY <1>4, <2>1, <4>1 DEF Placed
    <3> QED BY <3>1, <3>2
  <2> QED BY <1>3, <2>1, <2>2, <2>3 DEF Placed, Boundary, Openers
<1>6. ASSUME NEW k \in 1 .. n
      PROVE  q[k].kind \in Inner /\ Need(q[k]) <= f[k-1] /\ f[k] = f[k-1] + Effect(q[k])
  <2>0. q[k].kind \in Inner /\ q[k].kind \notin Boundary /\ Placed(q, v, k)
    BY <1>1, <1>5, KindsApart
  <2>1. CASE k = 1
    <3>1. q[k].kind = "current_node" /\ v[k] = 1
      BY <2>0, <2>1 DEF Placed
    <3>2. Effect(q[k]) = 1 /\ Need(q[k]) = 0
      BY <3>1, Effects
    <3>3. f[k] = 1 /\ f[k-1] = 0
      BY <1>2, <2>1, <3>1
    <3> QED BY <2>0, <3>2, <3>3
  <2>2. CASE k # 1
    <3>1. k > 1 /\ k - 1 \in 1 .. n
      BY <1>1, <2>2
    <3>2. f[k] = v[k] /\ f[k-1] = v[k-1] /\ v[k] \in Nat \ {0} /\ v[k-1] \in Nat \ {0}
      BY <1>1, <1>2, <3>1
    <3>3. v[k] = v[k-1] + Effect(q[k])
      BY <2>0, <3>1 DEF Placed
    <3>4. Need(q[k]) <= v[k-1]
      <4>1. CASE q[k].kind = "binary_operator"
        <5>1. Effect(q[k]) = -1 /\ Need(q[k]) = 2
          BY <4>1, Effects
        <5> QED BY <3>2, <3>3, <5>1
      <4>2. CASE q[k].kind = "current_node"
        <5>1. Need(q[k]) = 0
          BY <4>2, Effects
        <5> QED BY <3>2, <5>1
      <4>3. CASE q[k].kind \in {"expression", "unary_operator", "pipe"}
        <5>1. Need(q[k]) = 1
          BY <4>3, Effects
        <5> QED BY <3>2, <5>1
      <4> QED BY <2>0, <4>1, <4>2, <4>3 DEF Inner
    <3> QED BY <2>0, <3>2, <3>3, <3>4
  <2> QED BY <2>1, <2>2
<1>7. f[n] = 1
  BY <1>1, <1>2
<1>8. Counts(q, f)
  BY <1>2, <1>6, <1>7 DEF Counts, n
<1> QED BY <1>8, CountedRuns

LEMMA ProgramEnds ==
  ASSUME NEW s, StacksOK(s), NEW v, NEW w, NEW G, Leveled(s, v, w, G), ~KeyNext(s.output),
         Opened(s.output) = {}, Lparens(s.operators) = {}
  PROVE  WellFormed(EndOfExpression(s).output)
<1> DEFINE ops == s.operators
           q == s.output
           p == q \o Reverse(After(0, ops))
<1>1. q \in Seq(Token) /\ q # <<>> /\ ops \in Seq(OperatorToken) /\ 0 \in 0 .. Len(ops)
  BY OutputNotEmpty
<1>2. OnlyOperators(ops, 0)
  <2>1. \A i \in 1 .. Len(ops) : ops[i] \in OperatorToken /\ ops[i].kind # "lparen"
    BY <1>1 DEF Lparens
  <2> QED BY <2>1 DEF OnlyOperators, OperatorToken
<1>3. Tidy(q, v) /\ Weighs(ops, w, G) /\ v[Len(q)] = w[Len(ops)] /\ ~WantsKey(q, Len(q)) /\ w[0] = 1
  BY DEF Leveled, KeyNext, Weighs
<1>4. EndOfExpression(s).output = p
  <2>1. After(0, ops) = ops
    BY <1>1, WholePart DEF After
  <2> QED BY <2>1, EndParts
<1> HIDE DEF ops, p
<1>5. Reaches(q, v, p, w[0]) /\ Onward(q, p)
  <2> HIDE DEF q
  <2> QED BY <1>1, <1>2, <1>3, MovedTidy DEF p
<1>6. PICK u : Grows(q, v, p, u) /\ u[Len(p)] = 1
  BY <1>3, <1>5 DEF Reaches
<1>7. p \in Seq(Token) /\ p # <<>> /\ Tidy(p, u)
  BY <1>5, <1>6 DEF Onward, Grows
<1>8. Opened(p) = {}
  <2> SUFFICES ASSUME NEW k \in 1 .. Len(p), p[k].kind \in Openers PROVE FALSE
    BY <1>7 DEF Opened
  <2>1. ~(k > Len(q))
    BY <1>5, OperatorsAreNoOpeners DEF Onward, OperatorsAbove
  <2>2. k \in 1 .. Len(q)
    BY <1>1, <2>1
  <2>3. p[k] = q[k]
    BY <1>5, <2>2 DEF Onward, Agree
  <2> QED BY <2>2, <2>3 DEF Opened
<1>9. WellFormed(p)
  BY <1>6, <1>7, <1>8, WholeRuns
<1> QED BY <1>4, <1>9

-----------------------------------------------------------------------------
(* The levels, and the groups and parentheses that state_stack_ holds. *)

(* The lparens of groups. *)
HeldBy(lparen, states) == {lparen[i] : i \in Groups(states)}

(* As many parameters are on stack before the beginning of a group as there *)
(* are once the operators under its lparen are moved.                       *)
ProgramBy(states, s, lparen, opener, v, w) ==
  /\ Pairs(lparen, Frames(states), Lparens(s.operators))
  /\ Pairs(opener, Groups(states), Opened(s.output))
  /\ Leveled(s, v, w, HeldBy(lparen, states))
  /\ \A i \in Groups(states) : v[opener[i] - 1] = w[lparen[i] - 1]

Program(states, s) ==
  \E lparen \in [Frames(states) -> Lparens(s.operators)],
     opener \in [Groups(states) -> Opened(s.output)] :
    \E v, w : ProgramBy(states, s, lparen, opener, v, w)

LEMMA StackSets ==
  ASSUME NEW s, StacksOK(s)
  PROVE  /\ s.output \in Seq(Token) /\ s.output # <<>>
         /\ s.operators \in Seq(OperatorToken) /\ s.operators \in Seq(Token)
         /\ Opened(s.output) \subseteq 1 .. Len(s.output)
         /\ Lparens(s.operators) \subseteq 1 .. Len(s.operators)
         /\ Opened(s.output) \subseteq Nat /\ Lparens(s.operators) \subseteq Nat
         /\ Len(s.output) \in Nat /\ Len(s.operators) \in Nat
<1>1. /\ s.output \in Seq(Token) /\ s.output # <<>>
      /\ s.operators \in Seq(OperatorToken) /\ s.operators \in Seq(Token)
  BY OutputNotEmpty, Parts
<1>2. /\ Opened(s.output) \subseteq 1 .. Len(s.output)
      /\ Lparens(s.operators) \subseteq 1 .. Len(s.operators)
  BY <1>1 DEF Opened, Lparens
<1> QED BY <1>1, <1>2

LEMMA OpenedAt ==
  ASSUME NEW s, StacksOK(s), NEW v, NEW w, NEW G, Leveled(s, v, w, G), NEW k \in Opened(s.output)
  PROVE  k - 1 \in 1 .. Len(s.output) /\ k \in 1 .. Len(s.output) /\ s.output[k].kind \in Openers
<1>1. s.output \in Seq(Token) /\ Tidy(s.output, v) /\ k \in 1 .. Len(s.output)
  BY StackSets DEF Leveled
<1>2. s.output[k].kind \in Openers
  BY DEF Opened
<1>3. k \in 2 .. Len(s.output)
  BY <1>1, <1>2, OpenersPlaced
<1> QED BY <1>1, <1>2, <1>3

(* No group begins or ends. *)
LEMMA SteadyBy ==
  ASSUME NEW states \in Seq(path_state), NEW new \in Seq(path_state), SameFrames(states, new),
         NEW s, StacksOK(s), NEW t, Kept(s, t),
         NEW lparen \in [Frames(states) -> Lparens(s.operators)],
         NEW opener \in [Groups(states) -> Opened(s.output)],
         NEW v, NEW w, ProgramBy(states, s, lparen, opener, v, w),
         NEW u, NEW x, Steadily(s, v, w, t, u, x, HeldBy(lparen, states))
  PROVE  Program(new, t)
<1>1. /\ Frames(new) = Frames(states) /\ Groups(new) = Groups(states)
      /\ Lparens(t.operators) = Lparens(s.operators) /\ Opened(t.output) = Opened(s.output)
  BY DEF SameFrames, Frames, Kept, KeptOutput
<1>2. HeldBy(lparen, new) = HeldBy(lparen, states)
  BY <1>1 DEF HeldBy
<1>3. Leveled(t, u, x, HeldBy(lparen, new))
  BY <1>2 DEF Steadily
<1>4. ASSUME NEW i \in Groups(states) PROVE u[opener[i] - 1] = x[lparen[i] - 1]
  <2>1. opener[i] \in Opened(s.output) /\ lparen[i] \in Lparens(s.operators)
    BY DEF Frames
  <2>2. Leveled(s, v, w, HeldBy(lparen, states)) /\ v[opener[i] - 1] = w[lparen[i] - 1]
    BY DEF ProgramBy
  <2>3. opener[i] - 1 \in 1 .. Len(s.output)
    BY <2>1, <2>2, OpenedAt
  <2>4. u[opener[i] - 1] = v[opener[i] - 1]
    BY <2>3 DEF Steadily, Agree
  <2>5. x[lparen[i] - 1] = w[lparen[i] - 1]
    BY <2>1 DEF Steadily
  <2> QED BY <2>2, <2>4, <2>5
<1>5. Pairs(lparen, Frames(new), Lparens(t.operators)) /\ Pairs(opener, Groups(new), Opened(t.output))
  BY <1>1 DEF ProgramBy
<1>6. ProgramBy(new, t, lparen, opener, u, x)
  BY <1>1, <1>3, <1>4, <1>5 DEF ProgramBy
<1> QED BY <1>1, <1>6 DEF Program

LEMMA SteadyProgram ==
  ASSUME NEW states \in Seq(path_state), NEW new \in Seq(path_state), SameFrames(states, new),
         NEW s, StacksOK(s), NEW t, Kept(s, t), Program(states, s),
         \A G : StaysLevel(s, t, G)
  PROVE  Program(new, t)
<1>1. PICK lparen \in [Frames(states) -> Lparens(s.operators)],
           opener \in [Groups(states) -> Opened(s.output)] :
        \E v, w : ProgramBy(states, s, lparen, opener, v, w)
  BY DEF Program
<1>2. PICK v, w : ProgramBy(states, s, lparen, opener, v, w)
  BY <1>1
<1>3. Leveled(s, v, w, HeldBy(lparen, states))
  BY <1>2 DEF ProgramBy
<1>4. \E u, x : Steadily(s, v, w, t, u, x, HeldBy(lparen, states))
  BY <1>3 DEF StaysLevel
<1>5. PICK u, x : Steadily(s, v, w, t, u, x, HeldBy(lparen, states))
  BY <1>4
<1> QED BY <1>2, <1>5, SteadyBy

(* A group begins. *)
LEMMA OpenedProgram ==
  ASSUME NEW states \in Seq(path_state), states # <<>>, NEW new \in Seq(path_state),
         NEW f \in DOMAIN GroupOpener, Replaces(states, new, f),
         Last(states) \notin DOMAIN GroupOpener \cup {"expect_rparen"},
         NEW s, StacksOK(s), Program(states, s), ~KeyNext(s.output),
         NEW tok \in Token, tok.kind \in Separated \cup {"begin_filter"},
         NEW t, t.output = Append(s.output, tok),
         t.operators = Append(s.operators, Tok("lparen"))
  PROVE  Program(new, t)
<1> DEFINE n == Len(states)
           b == Len(s.output) + 1
           l == Len(s.operators) + 1
           G == Groups(states)
           F == Frames(states)
           O == Opened(s.output)
           L == Lparens(s.operators)
<1>1. PICK lparen \in [F -> L], opener \in [G -> O] :
        \E v, w : ProgramBy(states, s, lparen, opener, v, w)
  BY DEF Program
<1>2. PICK v, w : ProgramBy(states, s, lparen, opener, v, w)
  BY <1>1
<1>3. /\ s.output \in Seq(Token) /\ s.operators \in Seq(Token) /\ tok.kind \in Openers
      /\ O \subseteq 1 .. Len(s.output) /\ L \subseteq 1 .. Len(s.operators)
      /\ Len(s.output) \in Nat /\ Len(s.operators) \in Nat
  BY StackSets DEF Openers, Separated
<1>4. /\ Opened(t.output) = O \cup {b} /\ b \in Nat /\ O \subseteq Nat /\ \A k \in O : k < b
  BY <1>3, OpenerAdded
<1>5. /\ Lparens(t.operators) = L \cup {l} /\ l \in Nat
      /\ L \subseteq Nat /\ \A k \in L : k < l
  BY <1>3, LparenAdded
<1>6. /\ Groups(new) = G \cup {n} /\ Frames(new) = F \cup {n}
      /\ \A i \in F : i < n
  BY GroupBegun
<1>7. n \in Nat /\ G \subseteq Nat /\ F \subseteq Nat /\ G \subseteq F
  BY Positions DEF Frames
<1>8. /\ Pairs(lparen, F, L) /\ Pairs(opener, G, O) /\ Leveled(s, v, w, HeldBy(lparen, states))
      /\ \A i \in G : v[opener[i] - 1] = w[lparen[i] - 1]
  BY <1>2 DEF ProgramBy
<1>9. \A i \in G : opener[i] \in O /\ lparen[i] \in L
  BY <1>7
<1>10. HeldBy(lparen, states) = {lparen[i] : i \in G}
  BY DEF HeldBy
<1> HIDE DEF n, G, F, O, L
<1>11. PICK lparen1 : Grown(lparen1, lparen, F, L, n, l)
  BY <1>5, <1>6, <1>7, <1>8, PairAdded
<1>12. PICK opener1 : Grown(opener1, opener, G, O, n, b)
  <2>1. \A i \in G : i < n
    BY <1>6, <1>7
  <2>2. opener \in [G -> O] /\ G \subseteq Nat /\ O \subseteq Nat /\ n \in Nat
    BY <1>4, <1>7
  <2> QED BY <1>4, <1>8, <2>1, <2>2, PairAdded
<1>13. /\ lparen1 \in [F \cup {n} -> L \cup {l}] /\ Pairs(lparen1, F \cup {n}, L \cup {l})
       /\ \A i \in F : lparen1[i] = lparen[i]
       /\ lparen1[n] = l
  BY <1>11 DEF Grown
<1>14. /\ opener1 \in [G \cup {n} -> O \cup {b}] /\ Pairs(opener1, G \cup {n}, O \cup {b})
       /\ \A i \in G : opener1[i] = opener[i]
       /\ opener1[n] = b
  BY <1>12 DEF Grown
<1> DEFINE H == HeldBy(lparen1, new)
<1>15. l \in H
  BY <1>6, <1>13 DEF HeldBy
<1>22. H = {lparen1[i] : i \in G \cup {n}}
  BY <1>6 DEF HeldBy
<1>23. /\ \A i \in G : lparen1[i] = lparen[i]
       /\ lparen1[n] = l
  BY <1>7, <1>13
<1> HIDE DEF H
<1>16. \A k \in H : k = l \/ k \in HeldBy(lparen, states)
  <2> SUFFICES ASSUME NEW i \in G \cup {n}
               PROVE  lparen1[i] = l \/ lparen1[i] \in HeldBy(lparen, states)
    BY <1>22
  <2> QED BY <1>10, <1>23
<1>17. \A k \in HeldBy(lparen, states) : k \in H
  <2> SUFFICES ASSUME NEW i \in G PROVE lparen[i] \in H
    BY <1>10
  <2>1. lparen1[i] \in H
    BY <1>22
  <2> QED BY <1>23, <2>1
<1>18. SameBelow(H, HeldBy(lparen, states), Len(s.operators))
  BY <1>3, <1>16, <1>17 DEF SameBelow
<1>19. PICK u, x : /\ Leveled(t, u, x, H) /\ Agree(u, v, Len(s.output))
                   /\ SameTo(x, w, Len(s.operators))
  BY <1>8, <1>15, <1>18, BegunLevels
<1>20. ASSUME NEW i \in Groups(new) PROVE u[opener1[i] - 1] = x[lparen1[i] - 1]
  <2>1. CASE i = n
    <3>1. opener1[i] - 1 = Len(s.output) /\ lparen1[i] - 1 = Len(s.operators)
      BY <1>3, <1>13, <1>14, <2>1
    <3>2. v[Len(s.output)] = w[Len(s.operators)]
      BY <1>8 DEF Leveled
    <3>3. Len(s.output) >= 1
      <4>1. s.output # <<>>
        BY StackSets
      <4> QED BY <1>3, <4>1
    <3>4. u[Len(s.output)] = v[Len(s.output)] /\ x[Len(s.operators)] = w[Len(s.operators)]
      <4>1. Len(s.output) \in 1 .. Len(s.output) /\ Len(s.operators) \in 0 .. Len(s.operators)
        BY <1>3, <3>3
      <4> HIDE DEF b, l
      <4> QED BY <1>19, <4>1 DEF Agree, SameTo
    <3> QED BY <3>1, <3>2, <3>4
  <2>2. CASE i \in G
    <3>1. opener[i] \in O /\ lparen[i] \in L /\ v[opener[i] - 1] = w[lparen[i] - 1]
      BY <1>8, <1>9, <2>2
    <3>2. opener1[i] = opener[i] /\ lparen1[i] = lparen[i]
      BY <1>7, <1>13, <1>14, <2>2
    <3>3. opener[i] - 1 \in 1 .. Len(s.output)
      BY <1>8, <3>1, OpenedAt DEF O
    <3>4. lparen[i] - 1 \in 0 .. Len(s.operators)
      BY <1>3, <3>1
    <3>5. u[opener[i] - 1] = v[opener[i] - 1] /\ x[lparen[i] - 1] = w[lparen[i] - 1]
      BY <1>19, <3>3, <3>4 DEF Agree, SameTo
    <3> QED BY <3>1, <3>2, <3>5
  <2> QED BY <1>6, <2>1, <2>2
<1>21. ProgramBy(new, t, lparen1, opener1, u, x)
  BY <1>4, <1>5, <1>6, <1>13, <1>14, <1>19, <1>20 DEF ProgramBy, H
<1> QED BY <1>4, <1>5, <1>6, <1>13, <1>14, <1>21 DEF Program

(* A parenthesis is opened. *)
LEMMA ParenthesisProgram ==
  ASSUME NEW states \in Seq(path_state), states # <<>>, NEW new \in Seq(path_state),
         Replaces(states, new, "expect_rparen"),
         Last(states) \notin DOMAIN GroupOpener \cup {"expect_rparen"},
         NEW s, StacksOK(s), Program(states, s),
         NEW t, t.output = s.output, t.operators = Append(s.operators, Tok("lparen"))
  PROVE  Program(new, t)
<1> DEFINE n == Len(states)
           l == Len(s.operators) + 1
           G == Groups(states)
           F == Frames(states)
           O == Opened(s.output)
           L == Lparens(s.operators)
<1>1. PICK lparen \in [F -> L], opener \in [G -> O] :
        \E v, w : ProgramBy(states, s, lparen, opener, v, w)
  BY DEF Program
<1>2. PICK v, w : ProgramBy(states, s, lparen, opener, v, w)
  BY <1>1
<1>3. /\ s.output \in Seq(Token) /\ s.operators \in Seq(Token)
      /\ L \subseteq 1 .. Len(s.operators) /\ Len(s.operators) \in Nat
  BY StackSets
<1>5. /\ Lparens(t.operators) = L \cup {l} /\ l \in Nat
      /\ L \subseteq Nat /\ \A k \in L : k < l
  BY <1>3, LparenAdded
<1>6. /\ Groups(new) = G /\ Frames(new) = F \cup {n}
      /\ \A i \in F : i < n
  BY ParenthesisBegun
<1>7. n \in Nat /\ F \subseteq Nat /\ G \subseteq F
  BY Positions DEF Frames
<1>8. /\ Pairs(lparen, F, L) /\ Pairs(opener, G, O) /\ Leveled(s, v, w, HeldBy(lparen, states))
      /\ \A i \in G : v[opener[i] - 1] = w[lparen[i] - 1]
  BY <1>2 DEF ProgramBy
<1>9. \A i \in G : opener[i] \in O /\ lparen[i] \in L
  BY <1>7
<1>10. HeldBy(lparen, states) = {lparen[i] : i \in G}
  BY DEF HeldBy
<1>20. Opened(t.output) = O
  OBVIOUS
<1> HIDE DEF n, G, F, O, L
<1>11. PICK lparen1 : Grown(lparen1, lparen, F, L, n, l)
  BY <1>5, <1>6, <1>7, <1>8, PairAdded
<1>13. /\ lparen1 \in [F \cup {n} -> L \cup {l}] /\ Pairs(lparen1, F \cup {n}, L \cup {l})
       /\ \A i \in F : lparen1[i] = lparen[i]
  BY <1>11 DEF Grown
<1>14. \A i \in G : lparen1[i] = lparen[i]
  BY <1>7, <1>13
<1>15. HeldBy(lparen1, new) = HeldBy(lparen, states)
  BY <1>6, <1>10, <1>14 DEF HeldBy
<1>16. Len(s.operators) + 1 \notin HeldBy(lparen, states)
  BY <1>3, <1>9, <1>10
<1>17. PICK x : Leveled(t, v, x, HeldBy(lparen, states)) /\ SameTo(x, w, Len(s.operators))
  BY <1>8, <1>16, ParenthesisLevels
<1>18. ASSUME NEW i \in Groups(new) PROVE v[opener[i] - 1] = x[lparen1[i] - 1]
  <2>1. i \in G
    BY <1>6
  <2>2. lparen[i] - 1 \in 0 .. Len(s.operators)
    BY <1>3, <1>9, <2>1
  <2>3. x[lparen[i] - 1] = w[lparen[i] - 1]
    BY <1>17, <2>2 DEF SameTo
  <2> QED BY <1>8, <1>14, <2>1, <2>3
<1>19. ProgramBy(new, t, lparen1, opener, v, x)
  BY <1>5, <1>6, <1>8, <1>13, <1>15, <1>17, <1>18, <1>20 DEF ProgramBy
<1> QED BY <1>5, <1>6, <1>13, <1>19, <1>20 DEF Program

LEMMA LastOpenedOnce ==
  ASSUME NEW s, StacksOK(s), NEW b, LastOpened(s.output, b), NEW d, LastOpened(s.output, d)
  PROVE  b = d /\ b \in 1 .. Len(s.output) /\ s.output[b].kind \in Openers
<1>1. Opened(s.output) \subseteq 1 .. Len(s.output)
  BY StackSets
<1>2. /\ b \in Opened(s.output) /\ d \in Opened(s.output)
      /\ \A k \in Opened(s.output) : k <= b /\ k <= d
  BY DEF LastOpened
<1>3. b = d
  BY <1>1, <1>2
<1> QED BY <1>1, <1>2, <1>3 DEF Opened

(* The frame on top of state_stack_ has the innermost lparen. *)
LEMMA InnermostLparen ==
  ASSUME NEW states \in Seq(path_state), states # <<>>, Last(states) \in Framing,
         NEW s, StacksOK(s),
         NEW lparen \in [Frames(states) -> Lparens(s.operators)],
         Pairs(lparen, Frames(states), Lparens(s.operators))
  PROVE  LET n == Len(states)
             p == lparen[n]
         IN /\ n \in Frames(states) /\ p = LastAt("lparen", s.operators)
            /\ p \in 1 .. Len(s.operators) /\ IsLastAt("lparen", s.operators, p)
            /\ \A i \in Frames(states) \ {n} : lparen[i] < p
            /\ \E g : Shrunk(g, lparen, Frames(states), Lparens(s.operators), n)
<1> DEFINE n == Len(states)
           F == Frames(states)
           L == Lparens(s.operators)
<1>1. n \in F
  <2>1. n \in 1 .. Len(states) /\ states[n] = Last(states) /\ DOMAIN states = 1 .. Len(states)
    <3>1. Len(states) \in Nat \ {0} /\ Last(states) = states[Len(states)]
      BY FrontStates
    <3> QED BY <3>1
  <2> QED BY <2>1 DEF Frames, Groups, Parentheses, Framing
<1>2. /\ F \subseteq Nat /\ \A i \in F : i <= n
  BY Positions
<1>3. /\ s.operators \in Seq(Token) /\ L \subseteq 1 .. Len(s.operators) /\ Len(s.operators) \in Nat
      /\ \A k \in L : s.operators[k].kind = "lparen"
      /\ \A k \in 1 .. Len(s.operators) : s.operators[k].kind = "lparen" => k \in L
  BY StackSets DEF Lparens
<1>7. L \subseteq Nat
  BY <1>3
<1> HIDE DEF F, L, n
<1>4. lparen[n] \in L /\ (\A k \in L : k <= lparen[n]) /\ \E g : Shrunk(g, lparen, F, L, n)
  <2>1. Pairs(lparen, F, L) /\ lparen \in [F -> L]
    BY DEF F, L
  <2> QED BY <1>1, <1>2, <1>7, <2>1, PairRemoved
<1>5. \A i \in F \ {n} : lparen[i] < lparen[n]
  <2>1. \A i, j \in F : i < j => lparen[i] < lparen[j]
    BY DEF Pairs, F
  <2>2. \A i \in F \ {n} : i < n
    BY <1>1, <1>2
  <2> QED BY <1>1, <2>1, <2>2
<1> DEFINE p == lparen[n]
<1>6. p \in 1 .. Len(s.operators) /\ LastAt("lparen", s.operators) = p
  <2>1. p \in 1 .. Len(s.operators) /\ s.operators[p].kind = "lparen"
    BY <1>3, <1>4
  <2>2. \A k \in 1 .. Len(s.operators) : k > p => s.operators[k].kind # "lparen"
    BY <1>3, <1>4, <2>1
  <2> HIDE DEF p
  <2> QED BY <1>3, <2>1, <2>2, LastAtUnique
<1>8. IsLastAt("lparen", s.operators, p)
  <2> HIDE DEF p
  <2>1. LastAt("lparen", s.operators) # 0
    BY <1>6
  <2> QED BY <1>6, <2>1, LastAtIs
<1> QED BY <1>1, <1>4, <1>5, <1>6, <1>8 DEF n, F, L

(* What is known of the innermost group. *)
LEMMA InnermostClosable ==
  ASSUME NEW states \in Seq(path_state), states # <<>>, Last(states) \in DOMAIN GroupOpener,
         NEW s, StacksOK(s),
         NEW lparen \in [Frames(states) -> Lparens(s.operators)],
         NEW opener \in [Groups(states) -> Opened(s.output)],
         NEW v, NEW w, ProgramBy(states, s, lparen, opener, v, w)
  PROVE  Closable(s, v, w, HeldBy(lparen, states), opener[Len(states)], lparen[Len(states)],
                  HeldBy(lparen, Front(states)))
<1> DEFINE n == Len(states)
           G == Groups(states)
           O == Opened(s.output)
           F == Frames(states)
<1>1. /\ Pairs(lparen, F, Lparens(s.operators)) /\ Pairs(opener, G, O)
      /\ Leveled(s, v, w, HeldBy(lparen, states))
      /\ \A i \in G : v[opener[i] - 1] = w[lparen[i] - 1]
  BY DEF ProgramBy
<1>2. /\ lparen[n] = LastAt("lparen", s.operators) /\ lparen[n] \in Nat
      /\ \A i \in F \ {n} : lparen[i] < lparen[n]
  <2>1. Last(states) \in Framing
    BY DEF Framing
  <2>2. LET p == lparen[n]
        IN /\ n \in Frames(states) /\ p = LastAt("lparen", s.operators)
            /\ p \in 1 .. Len(s.operators) /\ IsLastAt("lparen", s.operators, p)
            /\ \A i \in Frames(states) \ {n} : lparen[i] < p
    BY <1>1, <2>1, InnermostLparen
  <2>3. Len(s.operators) \in Nat
    BY StackSets
  <2> QED BY <2>2, <2>3
<1>3. /\ n \in G /\ G \subseteq Nat /\ \A i \in G : i <= n
      /\ Groups(Front(states)) = G \ {n} /\ G \subseteq F
  BY GroupLeft, Positions DEF Frames
<1>4. O \subseteq Nat
  BY StackSets
<1> HIDE DEF n, G, O
<1>5. opener \in [G -> O]
  BY DEF G, O
<1> DEFINE b == opener[n]
<1>6. b \in O /\ \A k \in O : k <= b
  BY <1>1, <1>3, <1>4, <1>5, PairRemoved
<1>7. LastOpened(s.output, b)
  BY <1>6 DEF LastOpened, O
<1>8. HeldBy(lparen, states) = {lparen[i] : i \in G}
  BY DEF HeldBy, G
<1>9. HeldBy(lparen, Front(states)) = {lparen[i] : i \in G \ {n}}
  BY <1>3 DEF HeldBy
<1>10. lparen[n] \in HeldBy(lparen, states)
  BY <1>3, <1>8
<1>11. \A k \in HeldBy(lparen, states) : k = lparen[n] \/ k \in HeldBy(lparen, Front(states))
  BY <1>8, <1>9
<1>12. \A k \in HeldBy(lparen, Front(states)) : k \in HeldBy(lparen, states)
  BY <1>8, <1>9
<1>13. SameBelow(HeldBy(lparen, Front(states)), HeldBy(lparen, states), lparen[n] - 1)
  <2>1. ASSUME NEW k \in 1 .. lparen[n] - 1 PROVE k # lparen[n]
    BY <1>2
  <2> QED BY <1>11, <1>12, <2>1 DEF SameBelow
<1>14. v[b - 1] = w[lparen[n] - 1]
  BY <1>1, <1>3
<1> QED BY <1>1, <1>2, <1>7, <1>10, <1>13, <1>14 DEF Closable, n

(* The innermost group ends. *)
LEMMA ClosedProgram ==
  ASSUME NEW states \in Seq(path_state), states # <<>>, Last(states) \in DOMAIN GroupOpener,
         NEW s, StacksOK(s),
         NEW lparen \in [Frames(states) -> Lparens(s.operators)],
         NEW opener \in [Groups(states) -> Opened(s.output)],
         NEW v, NEW w, ProgramBy(states, s, lparen, opener, v, w),
         NEW t, Closing(s, t, opener[Len(states)]),
         Closed(s, v, w, t, opener[Len(states)], lparen[Len(states)],
                HeldBy(lparen, Front(states)))
  PROVE  Program(Front(states), t)
<1> DEFINE n == Len(states)
           G == Groups(states)
           F == Frames(states)
           O == Opened(s.output)
           L == Lparens(s.operators)
           new == Front(states)
<1>1. /\ Groups(new) = G \ {n} /\ Frames(new) = F \ {n} /\ n \in G /\ n \in F /\ G \subseteq F
  BY GroupLeft DEF Frames
<1>2. /\ n \in Nat /\ G \subseteq Nat /\ F \subseteq Nat
      /\ \A i \in G : i <= n
  BY FrontStates, Positions
<1>3. /\ O \subseteq Nat /\ L \subseteq Nat /\ O \subseteq 1 .. Len(s.output)
      /\ Len(s.output) \in Nat
  BY StackSets
<1>4. /\ Pairs(lparen, F, L) /\ Pairs(opener, G, O) /\ Leveled(s, v, w, HeldBy(lparen, states))
      /\ \A i \in G : v[opener[i] - 1] = w[lparen[i] - 1]
  BY DEF ProgramBy
<1>5. Last(states) \in Framing
  BY DEF Framing
<1>6. /\ lparen[n] \in 1 .. Len(s.operators) /\ IsLastAt("lparen", s.operators, lparen[n])
      /\ \A i \in F \ {n} : lparen[i] < lparen[n]
      /\ \E g : Shrunk(g, lparen, F, L, n)
  BY <1>4, <1>5, InnermostLparen
<1>7. s.operators \in Seq(OperatorToken)
  BY StackSets
<1> DEFINE p == lparen[n]
           b == opener[n]
<1>8. Lparens(SubSeq(s.operators, 1, p - 1)) = L \ {p} /\ p \in L /\ \A k \in L : k <= p
  BY <1>6, <1>7, LparenTaken
<1>9. Opened(t.output) = O \ {b}
  BY DEF Closing
<1>10. Lparens(t.operators) = L \ {p}
  <2>1. PICK l \in L : (\A k \in L : k <= l) /\ Lparens(t.operators) = L \ {l}
    BY DEF Closing
  <2>2. l = p
    BY <1>3, <1>8, <2>1
  <2> QED BY <2>1, <2>2
<1>11. PICK y, x : /\ Leveled(t, y, x, HeldBy(lparen, new)) /\ Agree(y, v, b - 1)
                   /\ Nested(x, w, s.operators, p)
  BY DEF Closed
<1>12. lparen \in [F -> L] /\ opener \in [G -> O]
  OBVIOUS
<1>13. \A k \in O : k - 1 \in 1 .. Len(s.output)
  BY <1>4, OpenedAt
<1>25. HeldBy(lparen, new) = {lparen[i] : i \in G \ {n}}
  BY <1>1 DEF HeldBy
<1> HIDE DEF n, G, F, O, L, new
<1>14. PICK lparen1 : Shrunk(lparen1, lparen, F, L, n)
  BY <1>6
<1>15. /\ lparen1 \in [F \ {n} -> L \ {p}] /\ Pairs(lparen1, F \ {n}, L \ {p})
       /\ \A i \in F \ {n} : lparen1[i] = lparen[i] /\ lparen[i] < p
  BY <1>14 DEF Shrunk
<1>16. PICK opener1 : Shrunk(opener1, opener, G, O, n)
  BY <1>1, <1>2, <1>3, <1>4, <1>12, PairRemoved
<1>17. /\ opener1 \in [G \ {n} -> O \ {b}]
       /\ Pairs(opener1, G \ {n}, O \ {b})
       /\ \A i \in G \ {n} : opener1[i] = opener[i] /\ opener[i] < b
  BY <1>16 DEF Shrunk
<1>18. \A i \in G \ {n} : lparen1[i] = lparen[i]
  BY <1>1, <1>15
<1>19. HeldBy(lparen1, new) = HeldBy(lparen, new)
  <2>1. HeldBy(lparen1, new) = {lparen1[i] : i \in G \ {n}}
    BY <1>1 DEF HeldBy
  <2> QED BY <1>18, <1>25, <2>1
<1>20. ASSUME NEW i \in Groups(new) PROVE y[opener1[i] - 1] = x[lparen1[i] - 1]
  <2>1. i \in G \ {n} /\ i \in F \ {n}
    BY <1>1
  <2>2. opener1[i] = opener[i] /\ lparen1[i] = lparen[i] /\ opener[i] < b
    BY <1>15, <1>17, <2>1
  <2>3. v[opener[i] - 1] = w[lparen[i] - 1]
    BY <1>4, <2>1
  <2>4. opener[i] \in O /\ b \in O /\ lparen[i] \in L
    BY <1>1, <1>12, <2>1
  <2>5. opener[i] - 1 \in 1 .. b - 1
    <3>0. opener[i] - 1 \in 1 .. Len(s.output)
      BY <1>13, <2>4
    <3> DEFINE k == opener[i]
    <3>1. k \in Nat /\ b \in Nat /\ k < b
      BY <1>3, <2>2, <2>4
    <3> HIDE DEF b, k
    <3>2. k - 1 \in 1 .. Len(s.output)
      BY <3>0 DEF k
    <3>3. k - 1 \in 1 .. b - 1
      BY <1>3, <3>1, <3>2
    <3> QED BY <3>3 DEF k
  <2>6. y[opener[i] - 1] = v[opener[i] - 1]
    BY <1>11, <2>5 DEF Agree
  <2>7. lparen[i] \in L \ {p}
    BY <1>3, <1>8, <1>15, <2>1, <2>4
  <2>8. x[lparen[i] - 1] = w[lparen[i] - 1]
    BY <1>8, <1>11, <2>7 DEF Nested
  <2> QED BY <2>2, <2>3, <2>6, <2>8
<1>21. ProgramBy(new, t, lparen1, opener1, y, x)
  BY <1>1, <1>9, <1>10, <1>11, <1>15, <1>17, <1>19, <1>20 DEF ProgramBy
<1>22. /\ lparen1 \in [Frames(new) -> Lparens(t.operators)]
       /\ opener1 \in [Groups(new) -> Opened(t.output)]
  BY <1>1, <1>9, <1>10, <1>15, <1>17
<1> QED BY <1>21, <1>22 DEF Program, new

(* A parenthesis is closed. *)
LEMMA RparenProgram ==
  ASSUME NEW states \in Seq(path_state), states # <<>>, Last(states) = "expect_rparen",
         NEW new \in Seq(path_state), NEW f, f \notin Special, Replaces(states, new, f),
         NEW s, StacksOK(s), Program(states, s), ~KeyNext(s.output),
         NEW t, t = unwind_rparen(s), t.ec = NoError
  PROVE  Program(new, t)
<1> DEFINE n == Len(states)
           G == Groups(states)
           F == Frames(states)
           O == Opened(s.output)
           L == Lparens(s.operators)
<1>1. PICK lparen \in [F -> L], opener \in [G -> O] :
        \E v, w : ProgramBy(states, s, lparen, opener, v, w)
  BY DEF Program
<1>2. PICK v, w : ProgramBy(states, s, lparen, opener, v, w)
  BY <1>1
<1>3. /\ Groups(new) = G /\ Frames(new) = F \ {n} /\ n \in F
  BY ParenthesisLeft
<1>4. /\ Pairs(lparen, F, L) /\ Pairs(opener, G, O) /\ Leveled(s, v, w, HeldBy(lparen, states))
      /\ \A i \in G : v[opener[i] - 1] = w[lparen[i] - 1]
  BY <1>2 DEF ProgramBy
<1> DEFINE p == lparen[n]
<1>5. /\ p = LastAt("lparen", s.operators) /\ p \in 1 .. Len(s.operators)
      /\ \A i \in F \ {n} : lparen[i] < p
      /\ \E g : Shrunk(g, lparen, F, L, n)
  <2>1. Last(states) \in Framing
    BY DEF Framing
  <2> QED BY <1>4, <2>1, InnermostLparen
<1>6. LparenOff(s, t, p)
  BY <1>5, UnwoundFields
<1>7. Opened(t.output) = O /\ Lparens(t.operators) = L \ {p}
  <2>1. Unwinding(s, t)
    BY Unwinds
  <2> QED BY <1>5, <2>1 DEF Unwinding, KeptOutput
<1>8. n \notin G /\ G \subseteq F
  <2>1. states[n] = Last(states)
    BY FrontStates
  <2>2. "expect_rparen" \notin DOMAIN GroupOpener
    BY SpecialSets
  <2> QED BY <2>1, <2>2 DEF Frames, Groups
<1>9. L \subseteq Nat
  BY StackSets
<1>10. HeldBy(lparen, states) = {lparen[i] : i \in G}
  BY DEF HeldBy
<1>11. \A k \in O : k - 1 \in 1 .. Len(s.output)
  BY <1>4, OpenedAt
<1>12. Len(s.operators) \in Nat
  BY StackSets
<1> HIDE DEF n, G, F, O, L
<1>13. p \notin HeldBy(lparen, states)
  <2>1. ASSUME NEW i \in G PROVE lparen[i] # p
    <3>1. i \in F \ {n}
      BY <1>8
    <3>2. lparen[i] < p /\ lparen[i] \in Nat
      BY <1>5, <1>9, <3>1
    <3> QED BY <1>5, <3>2
  <2> QED BY <1>10, <2>1
<1>14. PICK y, x : /\ Leveled(t, y, x, HeldBy(lparen, states)) /\ Agree(y, v, Len(s.output))
                   /\ SameTo(x, w, p - 1)
  BY <1>4, <1>6, <1>13, RparenLevels
<1>15. PICK lparen1 : Shrunk(lparen1, lparen, F, L, n)
  BY <1>5
<1>16. /\ lparen1 \in [F \ {n} -> L \ {p}] /\ Pairs(lparen1, F \ {n}, L \ {p})
       /\ \A i \in F \ {n} : lparen1[i] = lparen[i] /\ lparen[i] < p
  BY <1>15 DEF Shrunk
<1>17. \A i \in G : lparen1[i] = lparen[i] /\ lparen[i] < p /\ lparen[i] \in L /\ opener[i] \in O
  BY <1>8, <1>16
<1>18. HeldBy(lparen1, new) = HeldBy(lparen, states)
  <2>1. HeldBy(lparen1, new) = {lparen1[i] : i \in G}
    BY <1>3 DEF HeldBy
  <2> QED BY <1>10, <1>17, <2>1
<1>19. ASSUME NEW i \in Groups(new) PROVE y[opener[i] - 1] = x[lparen1[i] - 1]
  <2>1. i \in G
    BY <1>3
  <2>2. y[opener[i] - 1] = v[opener[i] - 1]
    BY <1>11, <1>14, <1>17, <2>1 DEF Agree
  <2>3. lparen[i] - 1 \in 0 .. p - 1
    <3> DEFINE l == lparen[i]
    <3>1. l < p /\ l \in 1 .. Len(s.operators)
      <4>1. L \subseteq 1 .. Len(s.operators)
        BY StackSets DEF L
      <4> QED BY <1>17, <2>1, <4>1
    <3> HIDE DEF l, p
    <3>2. l - 1 \in 0 .. p - 1
      BY <1>5, <1>12, <3>1
    <3> QED BY <3>2 DEF l
  <2>4. x[lparen[i] - 1] = w[lparen[i] - 1]
    BY <1>14, <2>3 DEF SameTo
  <2> QED BY <1>4, <1>17, <2>1, <2>2, <2>4
<1>20. ProgramBy(new, t, lparen1, opener, y, x)
  BY <1>3, <1>4, <1>7, <1>14, <1>16, <1>18, <1>19 DEF ProgramBy
<1> QED BY <1>3, <1>7, <1>16, <1>20 DEF Program

(* The beginning of the innermost group. *)
LEMMA InnermostKind ==
  ASSUME NEW states \in Seq(path_state), states # <<>>, Last(states) \in DOMAIN GroupOpener,
         NEW s, StacksOK(s), Ledger(states, s), NEW b, LastOpened(s.output, b)
  PROVE  /\ s.output[b].kind = GroupOpener[Last(states)]
         /\ s.output[b].kind = "begin_multi_select_hash" => KeyFollows(s.output, b) \/ OnTop(s, b)
<1> DEFINE n == Len(states)
<1>1. PICK lparen \in [Frames(states) -> Lparens(s.operators)],
           opener \in [Groups(states) -> Opened(s.output)] : LedgerBy(states, s, opener, lparen)
  BY DEF Ledger
<1>2. n \in Groups(states) /\ states[n] = Last(states)
  BY GroupLeft DEF Last
<1> DEFINE d == opener[n]
<1>3. LastOpened(s.output, d) /\ s.output[d].kind = GroupOpener[Last(states)]
  BY <1>1, <1>2, InnermostOpened
<1>4. GroupOpener[Last(states)] = "begin_multi_select_hash" =>
        KeyFollows(s.output, d) \/ OnTop(s, d)
  BY <1>1, <1>2 DEF LedgerBy, Hashes
<1> HIDE DEF d
<1>5. b = d
  BY <1>3, LastOpenedOnce
<1> QED BY <1>3, <1>4, <1>5

(* After a separator a key is read in a hash only. *)
LEMMA SeparatorWants ==
  ASSUME NEW q \in Seq(Token), q # <<>>, Last(q).kind = "separator", NEW b, LastOpened(q, b)
  PROVE  KeyNext(q) <=> q[b].kind = "begin_multi_select_hash"
<1> DEFINE n == Len(q)
<1>1. n \in Nat \ {0} /\ q[n].kind = "separator" /\ DOMAIN q = 1 .. n
  BY DEF Last
<1>2. b \in 1 .. n /\ q[b].kind \in Openers /\ \A k \in 1 .. n : q[k].kind \in Openers => k <= b
  BY <1>1 DEF LastOpened, Opened
<1>3. "separator" \notin Openers /\ "begin_multi_select_hash" \in Openers
  BY DEF Openers
<1>4. b \in 1 .. n - 1
  <2>1. b # n
    BY <1>1, <1>2, <1>3
  <2> HIDE DEF n
  <2> QED BY <1>1, <1>2, <2>1
<1>5. KeyNext(q) <=> Within(q, n, {"begin_multi_select_hash"})
  BY <1>1 DEF KeyNext, WantsKey
<1> HIDE DEF n
<1>6. ASSUME q[b].kind = "begin_multi_select_hash"
      PROVE  Within(q, n, {"begin_multi_select_hash"})
  <2>1. \A j \in b + 1 .. n - 1 : q[j].kind \notin Openers
    BY <1>1, <1>2
  <2> QED BY <1>4, <1>6, <2>1 DEF Within
<1>7. ASSUME Within(q, n, {"begin_multi_select_hash"})
      PROVE  q[b].kind = "begin_multi_select_hash"
  <2>1. PICK d \in 1 .. n - 1 : /\ q[d].kind = "begin_multi_select_hash"
                                /\ \A j \in d + 1 .. n - 1 : q[j].kind \notin Openers
    BY <1>7 DEF Within
  <2>2. d <= b
    BY <1>1, <1>2, <1>3, <2>1
  <2>3. ~(d < b)
    BY <1>1, <1>2, <1>4, <2>1
  <2>4. d = b
    BY <1>1, <1>4, <2>1, <2>2, <2>3
  <2> QED BY <2>1, <2>4
<1> QED BY <1>5, <1>6, <1>7

(* The next element of a list, or the next key of a hash, follows. *)
LEMMA SeparatorProgram ==
  ASSUME NEW states \in Seq(path_state), states # <<>>,
         Last(states) \in {"multi_select_list", "expect_rbrace"},
         NEW new \in Seq(path_state), SameFrames(states, new),
         NEW s, StacksOK(s), Ledger(states, s), Program(states, s), Settled(s.output),
         NEW t, t = SeparatedFrom(s), StacksOK(t), t.ec = NoError
  PROVE  /\ Program(new, t) /\ t.lists = s.lists
         /\ KeyNext(t.output) <=> Last(states) = "expect_rbrace"
         /\ Last(t.output).kind = "separator"
<1> DEFINE n == Len(states)
<1>1. PICK lparen \in [Frames(states) -> Lparens(s.operators)],
           opener \in [Groups(states) -> Opened(s.output)] :
        \E v, w : ProgramBy(states, s, lparen, opener, v, w)
  BY DEF Program
<1>2. PICK v, w : ProgramBy(states, s, lparen, opener, v, w)
  BY <1>1
<1>3. /\ Last(states) \in DOMAIN GroupOpener
      /\ GroupOpener[Last(states)] =
           IF Last(states) = "expect_rbrace" THEN "begin_multi_select_hash"
           ELSE "begin_multi_select_list"
  BY Openings
<1> DEFINE b == opener[n]
           p == lparen[n]
           G == HeldBy(lparen, states)
<1>4. Closable(s, v, w, G, b, p, HeldBy(lparen, Front(states)))
  BY <1>2, <1>3, InnermostClosable
<1>5. /\ Leveled(s, v, w, G) /\ LastOpened(s.output, b)
      /\ LastAt("lparen", s.operators) \in G
  BY <1>4 DEF Closable
<1> HIDE DEF b, p, G
<1>6. s.output[b].kind = GroupOpener[Last(states)]
  BY <1>3, <1>5, InnermostKind
<1>7. s.output \in Seq(Token) /\ s.output # <<>> /\ t.output \in Seq(Token) /\ t.output # <<>>
  BY StackSets
<1>8. Within(s.output, Len(s.output) + 1, Separated)
  <2>1. /\ b \in 1 .. Len(s.output) /\ Len(s.output) \in Nat
        /\ \A k \in 1 .. Len(s.output) : s.output[k].kind \in Openers => k <= b
    BY <1>5, <1>7 DEF LastOpened, Opened
  <2>2. s.output[b].kind \in Separated
    BY <1>3, <1>6 DEF Separated
  <2>3. \A j \in b + 1 .. Len(s.output) : s.output[j].kind \notin Openers
    BY <2>1
  <2>4. Len(s.output) + 1 - 1 = Len(s.output)
    BY <2>1
  <2> QED BY <2>1, <2>2, <2>3, <2>4 DEF Within
<1>9. /\ \E y, x : Steadily(s, v, w, t, y, x, G)
      /\ t.lists = s.lists /\ t.output = Append(Front(t.output), Tok("separator"))
  BY <1>5, <1>8, SeparatorStays
<1>10. PICK y, x : Steadily(s, v, w, t, y, x, G)
  BY <1>9
<1>11. Kept(s, t)
  <2>1. Tok("separator") \in Token /\ Tok("separator").kind = "separator"
    BY Pushable DEF Tok
  <2>2. Tok("separator").kind \notin Openers
    BY <2>1 DEF Openers
  <2> QED BY <2>1, <2>2, SeparatorNeutral DEF Neutral, SeparatedFrom
<1>12. Program(new, t)
  BY <1>2, <1>10, <1>11, SteadyBy DEF G
<1>13. Last(t.output).kind = "separator"
  <2>1. Tok("separator").kind = "separator"
    BY DEF Tok
  <2>2. Last(t.output) = t.output[Len(t.output)]
    BY DEF Last
  <2>3. Front(t.output) \in Seq(Token)
    BY <1>7 DEF Front
  <2>4. Tok("separator") \in Token
    BY Pushable
  <2>5. Last(Append(Front(t.output), Tok("separator"))) = Tok("separator")
    BY <2>3, <2>4, AppendedLast
  <2> QED BY <1>9, <2>1, <2>5
<1>14. LastOpened(t.output, b) /\ t.output[b] = s.output[b]
  BY <1>5, <1>11 DEF Kept, KeptOutput, LastOpened
<1>15. KeyNext(t.output) <=> t.output[b].kind = "begin_multi_select_hash"
  BY <1>7, <1>13, <1>14, SeparatorWants
<1> QED BY <1>3, <1>6, <1>9, <1>12, <1>13, <1>14, <1>15

(* A group ends. *)
LEMMA EndedProgram ==
  ASSUME NEW states \in Seq(path_state), states # <<>>, NEW s, StacksOK(s), Ledger(states, s),
         Program(states, s), NEW tok, Ends(tok.kind, Last(states)), tok.kind # "end_function",
         NEW t, t = push_token(tok, s), t.ec = NoError,
         \/ Settled(s.output)
         \/ tok.kind = "end_multi_select_hash" /\ Last(s.output).kind = "begin_multi_select_hash"
  PROVE  /\ Program(Front(states), t) /\ Settled(t.output)
         /\ \A l \in t.lists : l \in s.lists \/ WellFormed(l)
<1> DEFINE n == Len(states)
<1>1. PICK lparen \in [Frames(states) -> Lparens(s.operators)],
           opener \in [Groups(states) -> Opened(s.output)] :
        \E v, w : ProgramBy(states, s, lparen, opener, v, w)
  BY DEF Program
<1>2. PICK v, w : ProgramBy(states, s, lparen, opener, v, w)
  BY <1>1
<1>3. Last(states) \in DOMAIN GroupOpener
  BY Openings DEF Ends
<1> DEFINE b == opener[n]
           p == lparen[n]
           G == HeldBy(lparen, states)
           H == HeldBy(lparen, Front(states))
<1>4. Closable(s, v, w, G, b, p, H)
  BY <1>2, <1>3, InnermostClosable
<1> HIDE DEF b, p, G, H
<1>5. LastOpened(s.output, b)
  BY <1>4 DEF Closable
<1>6. /\ s.output[b].kind = GroupOpener[Last(states)]
      /\ s.output[b].kind = "begin_multi_select_hash" => KeyFollows(s.output, b) \/ OnTop(s, b)
  BY <1>3, <1>5, InnermostKind
<1>7. Closing(s, t, b) /\ Closed(s, v, w, t, b, p, H)
  <2>1. CASE tok.kind = "end_filter" /\ Last(states) = "filter"
    <3>1. s.output[b].kind = "begin_filter" /\ Settled(s.output)
      BY <1>6, <2>1, Openings
    <3>2. t = EndFilter(s)
      BY <2>1 DEF push_token, Operators, Openers
    <3> QED BY <1>4, <1>5, <3>1, <3>2, FilterCloses, FilterEnds
  <2>2. CASE tok.kind = "end_multi_select_list" /\ Last(states) = "multi_select_list"
    <3>1. s.output[b].kind = "begin_multi_select_list" /\ Settled(s.output)
      BY <1>6, <2>2, Openings
    <3>2. t = EndMultiSelectList(s)
      BY <2>2 DEF push_token, Operators, Openers
    <3> QED BY <1>4, <1>5, <3>1, <3>2, ListCloses, ListEnds
  <2>3. CASE tok.kind = "end_multi_select_hash"
             /\ Last(states) \in {"multi_select_hash", "expect_rbrace"}
    <3>1. s.output[b].kind = "begin_multi_select_hash"
      BY <1>6, <2>3, Openings
    <3>2. t = EndMultiSelectHash(s)
      BY <2>3 DEF push_token, Operators, Openers
    <3>3. KeyFollows(s.output, b) \/ OnTop(s, b)
      BY <1>6, <3>1
    <3>4. OnTop(s, b) \/ Settled(s.output)
      <4>1. CASE Settled(s.output)
        BY <4>1
      <4>2. CASE Last(s.output).kind = "begin_multi_select_hash"
        <5> DEFINE m == Len(s.output)
        <5>1. s.output \in Seq(Token) /\ s.output # <<>>
          BY StackSets
        <5>2. m \in Nat \ {0} /\ DOMAIN s.output = 1 .. m /\ s.output[m].kind \in Openers
          BY <4>2, <5>1 DEF Last, Openers
        <5>3. b = m
          <6>1. m \in Opened(s.output) /\ Opened(s.output) \subseteq 1 .. m
            BY <5>2 DEF Opened
          <6>2. b \in Opened(s.output) /\ m <= b
            BY <1>5, <6>1 DEF LastOpened
          <6> HIDE DEF m
          <6> QED BY <5>2, <6>1, <6>2
        <5>4. ~KeyFollows(s.output, b)
          <6>1. ~(m + 1 \in 1 .. m)
            BY <5>2
          <6> HIDE DEF m
          <6> QED BY <5>2, <5>3, <6>1 DEF KeyFollows
        <5> QED BY <3>3, <5>4
      <4> QED BY <4>1, <4>2
    <3>5. Closing(s, t, b)
      BY <1>5, <3>1, <3>2, <3>3, HashCloses
    <3>6. Closed(s, v, w, t, b, p, H)
      BY <1>4, <3>1, <3>2, <3>3, <3>4, HashEnds
    <3> QED BY <3>5, <3>6
  <2> QED BY <2>1, <2>2, <2>3 DEF Ends
<1>8. Program(Front(states), t)
  BY <1>2, <1>3, <1>7, ClosedProgram DEF b, p, H
<1> QED BY <1>7, <1>8 DEF Closed
==============================================================================
