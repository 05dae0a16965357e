----------------------------- MODULE LedgerProofs -----------------------------
(***************************************************************************)
(* For every expression over every alphabet: the groups that state_stack_  *)
(* says are open are the ones that output_stack_ and operator_stack_ hold, *)
(* as long as the first key of every multi-select hash is read as a key.   *)
(***************************************************************************)
EXTENDS CompileProofs, WellFoundedInduction

(***************************************************************************)
(* The condition.  A quoted first key becomes a value, and a number that   *)
(* is left in the buffer becomes a literal when white space follows the    *)
(* brace: end_multi_select_hash then finds no key after its beginning.     *)
(***************************************************************************)
FirstKeysAreNames ==
  /\ state_stack # <<>> /\ Top = "key_val_expr"
  /\ rest # <<>> /\ Last(stacks.output).kind = "begin_multi_select_hash"
  => c # "quote" /\ (c \in Spaces => buffer = "empty")

ExpressionTypes(states) == {i \in DOMAIN states : states[i] = "expression_type"}

Frames(states) == Groups(states) \cup Parentheses(states)

Hashes(states) == {i \in Groups(states) : GroupOpener[states[i]] = "begin_multi_select_hash"}

(* The states in which the text of a key is read. *)
KeyTextStates == {"raw_string", "unquoted_string"} \cup EscapeStates

(* The hash at position i waits for its first key. *)
InFirstKey(states, i) ==
  \/ i = Len(states) /\ states[i] \in {"multi_select_hash", "key_val_expr"}
  \/ /\ states[i] = "expect_colon"
     /\ i + 1 \in DOMAIN states /\ states[i+1] = "key_expr"
     /\ \A j \in DOMAIN states : j > i + 1 => states[j] \in KeyTextStates

KeyFollows(q, k) == k + 1 \in DOMAIN q /\ q[k+1].kind = "key"

(* Nothing lies above the beginning of a group on either stack. *)
OnTop(s, k) ==
  /\ k = Len(s.output)
  /\ s.operators # <<>> /\ Last(s.operators).kind = "lparen"

(***************************************************************************)
(* What makes GroupLedger inductive.  end_multi_select_hash looks for the  *)
(* last begin_multi_select_hash that a key follows: one does, or the first *)
(* key is being read and nothing has been pushed since.                    *)
(* end_expression_type cuts output_stack_ at the last                      *)
(* begin_expression_type: the one of the innermost expression_type lies    *)
(* above every group that was open when it was pushed.                     *)
(***************************************************************************)
LedgerBy(states, s, opener, lparen) ==
  /\ Pairs(lparen, Frames(states), Lparens(s.operators))
  /\ Pairs(opener, Groups(states), Opened(s.output))
  /\ \A i \in Groups(states) : s.output[opener[i]].kind = GroupOpener[states[i]]
  /\ \A i \in Hashes(states) :
       \/ KeyFollows(s.output, opener[i])
       \/ InFirstKey(states, i) /\ OnTop(s, opener[i])
  /\ \A e \in ExpressionTypes(states) :
       \E k \in DOMAIN s.output :
         /\ s.output[k].kind = "begin_expression_type"
         /\ \A i \in Groups(states) : (i < e => opener[i] < k) /\ (e < i => k < opener[i])

Ledger(states, s) ==
  \E lparen \in [Frames(states) -> Lparens(s.operators)],
     opener \in [Groups(states) -> Opened(s.output)] : LedgerBy(states, s, opener, lparen)

(* While no error is set, the ledger is as it should be. *)
Balanced(states, s) == s.ec = NoError => Ledger(states, s)

LedgerInv == Balanced(state_stack, stacks)

-----------------------------------------------------------------------------
(* Pairs. *)

(* A pair is added above the others, or the last pair is taken away. *)
Grown(g, m, S, T, n, l) ==
  /\ g \in [S \cup {n} -> T \cup {l}]
  /\ Pairs(g, S \cup {n}, T \cup {l})
  /\ \A i \in S : g[i] = m[i]
  /\ g[n] = l

Shrunk(g, m, S, T, n) ==
  /\ g \in [S \ {n} -> T \ {m[n]}]
  /\ Pairs(g, S \ {n}, T \ {m[n]})
  /\ \A i \in S \ {n} : g[i] = m[i] /\ m[i] < m[n]

LEMMA PairAdded ==
  ASSUME NEW S, S \subseteq Nat, NEW T, T \subseteq Nat, NEW m \in [S -> T], Pairs(m, S, T),
         NEW n \in Nat, \A i \in S : i < n, NEW l \in Nat, \A k \in T : k < l
  PROVE  \E g : Grown(g, m, S, T, n, l)
<1> DEFINE grown == [i \in S \cup {n} |-> IF i = n THEN l ELSE m[i]]
<1>1. n \notin S
  OBVIOUS
<1>2. /\ grown \in [S \cup {n} -> T \cup {l}]
      /\ \A i \in S : grown[i] = m[i]
      /\ grown[n] = l
  BY <1>1
<1> HIDE DEF grown
<1>3. \A i, j \in S \cup {n} : i < j => grown[i] < grown[j]
  <2> TAKE i, j \in S \cup {n}
  <2> HAVE i < j
  <2>1. i \in S
    OBVIOUS
  <2>2. m[i] \in T
    BY <2>1
  <2> QED BY <1>2, <2>1, <2>2 DEF Pairs
<1>4. \A k \in T \cup {l} : \E i \in S \cup {n} : grown[i] = k
  BY <1>2 DEF Pairs
<1> QED BY <1>2, <1>3, <1>4 DEF Pairs, Grown

LEMMA PairRemoved ==
  ASSUME NEW S, S \subseteq Nat, NEW T, T \subseteq Nat, NEW m \in [S -> T], Pairs(m, S, T),
         NEW n \in S, \A i \in S : i <= n
  PROVE  /\ m[n] \in T /\ \A k \in T : k <= m[n]
         /\ \E g : Shrunk(g, m, S, T, n)
<1> DEFINE less == [i \in S \ {n} |-> m[i]]
<1>1. \A i \in S : m[i] \in T /\ m[i] \in Nat /\ i \in Nat
  OBVIOUS
<1>2. \A i \in S \ {n} : m[i] < m[n] /\ m[i] # m[n]
  <2> TAKE i \in S \ {n}
  <2>1. i < n
    BY <1>1
  <2> QED BY <1>1, <2>1 DEF Pairs
<1>3. \A k \in T : k <= m[n]
  <2> TAKE k \in T
  <2>1. PICK i \in S : m[i] = k
    BY DEF Pairs
  <2> QED BY <1>1, <1>2, <2>1
<1>4. less \in [S \ {n} -> T \ {m[n]}] /\ \A i \in S \ {n} : less[i] = m[i]
  BY <1>1, <1>2
<1> HIDE DEF less
<1>5. Pairs(less, S \ {n}, T \ {m[n]})
  <2>1. \A i, j \in S \ {n} : i < j => less[i] < less[j]
    BY <1>4 DEF Pairs
  <2>2. \A k \in T \ {m[n]} : \E i \in S \ {n} : less[i] = k
    <3> TAKE k \in T \ {m[n]}
    <3>1. PICK i \in S : m[i] = k
      BY DEF Pairs
    <3>2. i \in S \ {n}
      BY <3>1
    <3> QED BY <1>4, <3>1, <3>2
  <2> QED BY <2>1, <2>2 DEF Pairs
<1> QED BY <1>1, <1>2, <1>3, <1>4, <1>5 DEF Shrunk

-----------------------------------------------------------------------------
(* state_stack_. *)

LEMMA Openings ==
  /\ DOMAIN GroupOpener = {"multi_select_list", "filter", "function_expression",
                           "multi_select_hash", "key_val_expr", "expect_colon", "expect_rbrace"}
  /\ GroupOpener["multi_select_list"] = "begin_multi_select_list"
  /\ GroupOpener["filter"] = "begin_filter"
  /\ GroupOpener["function_expression"] = "function"
  /\ \A x \in {"multi_select_hash", "key_val_expr", "expect_colon", "expect_rbrace"} :
       GroupOpener[x] = "begin_multi_select_hash"
BY DEF GroupOpener

(* The states whose positions the ledger is about. *)
Special == DOMAIN GroupOpener \cup {"expect_rparen", "expression_type"}

(* The frames of two state stacks are the same. *)
SameFrames(states, new) ==
  /\ Groups(new) = Groups(states) /\ Parentheses(new) = Parentheses(states)
  /\ \A i \in Groups(states) : GroupOpener[new[i]] = GroupOpener[states[i]]
  /\ ExpressionTypes(new) \subseteq ExpressionTypes(states)

(* new is states with f, and then states that are not special, for its top. *)
Replaces(states, new, f) ==
  LET n == Len(states)
  IN /\ n \in DOMAIN new /\ new[n] = f
     /\ \A i \in 1 .. n - 1 : new[i] = states[i]
     /\ \A i \in DOMAIN new : i > n => new[i] \notin Special

LEMMA ReplacedAt ==
  ASSUME NEW states \in Seq(path_state), states # <<>>
  PROVE  /\ \A f : Replaces(states, Front(states) \o <<f>>, f)
         /\ \A f, x : x \notin Special => Replaces(states, Front(states) \o <<f, x>>, f)
         /\ \A f, x, y : x \notin Special /\ y \notin Special =>
              Replaces(states, Front(states) \o <<f, x, y>>, f)
<1> DEFINE u == Front(states)
           n == Len(states)
<1>1. n \in Nat \ {0} /\ n - 1 \in 0 .. n
  OBVIOUS
<1>2. u \in Seq(path_state) /\ Len(u) = n - 1 /\ \A k \in 1 .. n - 1 : u[k] = states[k]
  BY <1>1, Prefix DEF Front
<1> HIDE DEF u, n
<1>3. \A f : Replaces(states, u \o <<f>>, f)
  BY <1>1, <1>2 DEF Replaces, n
<1>4. \A f, x : x \notin Special => Replaces(states, u \o <<f, x>>, f)
  BY <1>1, <1>2 DEF Replaces, n
<1>5. \A f, x, y : x \notin Special /\ y \notin Special =>
        Replaces(states, u \o <<f, x, y>>, f)
  BY <1>1, <1>2 DEF Replaces, n
<1> QED BY <1>3, <1>4, <1>5 DEF u

LEMMA SameAbove ==
  ASSUME NEW states \in Seq(path_state)
  PROVE  /\ SameFrames(states, states)
         /\ \A x : x \notin Special => SameFrames(states, states \o <<x>>)
         /\ \A x, y : x \notin Special /\ y \notin Special =>
              SameFrames(states, states \o <<x, y>>)
<1>1. \A x : x \notin Special => SameFrames(states, states \o <<x>>)
  BY DEF SameFrames, Groups, Parentheses, ExpressionTypes, Special
<1>2. \A x, y : x \notin Special /\ y \notin Special => SameFrames(states, states \o <<x, y>>)
  BY DEF SameFrames, Groups, Parentheses, ExpressionTypes, Special
<1>3. SameFrames(states, states)
  BY DEF SameFrames
<1> QED BY <1>1, <1>2, <1>3

LEMMA FrontStates ==
  ASSUME NEW states \in Seq(path_state), states # <<>>
  PROVE  /\ Front(states) \in Seq(path_state) /\ Len(states) \in Nat \ {0}
         /\ DOMAIN Front(states) = 1 .. Len(states) - 1
         /\ \A k \in 1 .. Len(states) - 1 : Front(states)[k] = states[k]
         /\ Last(states) = states[Len(states)]
<1>1. Len(states) \in Nat \ {0} /\ Len(states) - 1 \in 0 .. Len(states)
  OBVIOUS
<1> QED BY <1>1, Prefix DEF Front, Last

(* The position of every frame and expression_type is one of state_stack_. *)
LEMMA Positions ==
  ASSUME NEW states \in Seq(path_state)
  PROVE  /\ Groups(states) \subseteq 1 .. Len(states)
         /\ Parentheses(states) \subseteq 1 .. Len(states)
         /\ Frames(states) \subseteq 1 .. Len(states)
         /\ ExpressionTypes(states) \subseteq 1 .. Len(states)
         /\ Groups(states) \cap Parentheses(states) = {}
         /\ Groups(states) \cap ExpressionTypes(states) = {}
         /\ Frames(states) \cap ExpressionTypes(states) = {}
         /\ Len(states) \in Nat
BY Openings DEF Groups, Parentheses, Frames, ExpressionTypes

(* The positions of the states of a set X. *)
Where(states, X) == {i \in DOMAIN states : states[i] \in X}

LEMMA WhereThings ==
  ASSUME NEW states
  PROVE  /\ Groups(states) = Where(states, DOMAIN GroupOpener)
         /\ Parentheses(states) = Where(states, {"expect_rparen"})
         /\ ExpressionTypes(states) = Where(states, {"expression_type"})
BY DEF Groups, Parentheses, ExpressionTypes, Where

LEMMA WhereReplaced ==
  ASSUME NEW states \in Seq(path_state), states # <<>>, NEW new \in Seq(path_state),
         NEW f, Replaces(states, new, f), NEW X, X \subseteq Special
  PROVE  /\ Where(new, X) = (Where(states, X) \ {Len(states)})
                             \cup (IF f \in X THEN {Len(states)} ELSE {})
         /\ \A i \in Where(states, X) \ {Len(states)} : i < Len(states) /\ new[i] = states[i]
         /\ Len(states) \in Where(states, X) <=> Last(states) \in X
         /\ new[Len(states)] = f
<1> DEFINE n == Len(states)
<1>1. n \in Nat \ {0} /\ DOMAIN states = 1 .. n /\ Last(states) = states[n]
  BY DEF Last
<1>2. /\ DOMAIN new = 1 .. Len(new) /\ Len(new) \in Nat /\ n <= Len(new) /\ new[n] = f
      /\ \A i \in 1 .. n - 1 : new[i] = states[i]
      /\ \A i \in DOMAIN new : i > n => new[i] \notin Special
  BY <1>1 DEF Replaces
<1> HIDE DEF n
<1>3. ASSUME NEW i \in Where(new, X) PROVE i \in Where(states, X) \ {n} \/ (i = n /\ f \in X)
  <2>1. i \in 1 .. Len(new) /\ new[i] \in X /\ ~(i > n)
    BY <1>1, <1>2, <1>3 DEF Where
  <2>2. CASE i = n
    BY <1>2, <2>1, <2>2
  <2>3. CASE i < n
    <3>1. i \in 1 .. n - 1 /\ i \in 1 .. n /\ i # n
      BY <1>1, <2>1, <2>3
    <3>2. states[i] \in X
      BY <1>2, <2>1, <3>1
    <3>3. i \in DOMAIN states
      BY <1>1, <3>1
    <3>4. i \in Where(states, X)
      BY <3>2, <3>3 DEF Where
    <3> QED BY <3>1, <3>4
  <2> QED BY <1>1, <2>1, <2>2, <2>3
<1>4. ASSUME NEW i \in Where(states, X) \ {n}
      PROVE  i < n /\ new[i] = states[i] /\ i \in Where(new, X)
  <2>1. i \in 1 .. n - 1 /\ i \in 1 .. Len(new) /\ states[i] \in X
    BY <1>1, <1>2, <1>4 DEF Where
  <2> QED BY <1>1, <1>2, <2>1 DEF Where
<1>5. f \in X => n \in Where(new, X)
  BY <1>1, <1>2 DEF Where
<1>6. n \in Where(states, X) <=> Last(states) \in X
  BY <1>1 DEF Where
<1>7. CASE f \in X
  BY <1>2, <1>3, <1>4, <1>5, <1>6, <1>7 DEF n
<1>8. CASE f \notin X
  <2>1. \A i : i \in Where(new, X) <=> i \in Where(states, X) \ {n}
    BY <1>3, <1>4, <1>8
  <2>2. Where(new, X) = Where(states, X) \ {n}
    BY <2>1
  <2> QED BY <1>2, <1>4, <1>6, <1>8, <2>2 DEF n
<1> QED BY <1>7, <1>8

LEMMA WhereLeft ==
  ASSUME NEW states \in Seq(path_state), states # <<>>, NEW X
  PROVE  /\ Where(Front(states), X) = Where(states, X) \ {Len(states)}
         /\ Len(states) \in Where(states, X) <=> Last(states) \in X
         /\ \A i \in Where(Front(states), X) : Front(states)[i] = states[i]
<1> DEFINE n == Len(states)
           u == Front(states)
<1>1. n \in Nat \ {0} /\ DOMAIN states = 1 .. n /\ Last(states) = states[n]
  BY DEF Last
<1>2. DOMAIN u = 1 .. n - 1 /\ \A k \in 1 .. n - 1 : u[k] = states[k]
  BY FrontStates
<1> HIDE DEF n, u
<1>3. \A i : i \in Where(u, X) <=> i \in Where(states, X) \ {n}
  BY <1>1, <1>2 DEF Where
<1>4. n \in Where(states, X) <=> Last(states) \in X
  BY <1>1 DEF Where
<1>5. \A i \in Where(u, X) : u[i] = states[i]
  BY <1>2 DEF Where
<1> QED BY <1>3, <1>4, <1>5 DEF n, u

LEMMA SpecialSets ==
  /\ DOMAIN GroupOpener \subseteq Special /\ {"expect_rparen"} \subseteq Special
  /\ {"expression_type"} \subseteq Special
  /\ "expect_rparen" \notin DOMAIN GroupOpener /\ "expression_type" \notin DOMAIN GroupOpener
BY Openings DEF Special

(* The frames after the top is replaced by f. *)
FramesAfter(states, new, f, n) ==
  /\ Groups(new) = (Groups(states) \ {n}) \cup (IF f \in DOMAIN GroupOpener THEN {n} ELSE {})
  /\ \A i \in Groups(states) \ {n} : i < n /\ new[i] = states[i]
  /\ n \in Groups(states) <=> Last(states) \in DOMAIN GroupOpener
  /\ Parentheses(new) = (Parentheses(states) \ {n}) \cup (IF f = "expect_rparen" THEN {n} ELSE {})
  /\ \A i \in Parentheses(states) \ {n} : i < n
  /\ n \in Parentheses(states) <=> Last(states) = "expect_rparen"
  /\ ExpressionTypes(new) = (ExpressionTypes(states) \ {n})
                             \cup (IF f = "expression_type" THEN {n} ELSE {})
  /\ \A i \in ExpressionTypes(states) \ {n} : i < n
  /\ new[n] = f /\ states[n] = Last(states)

LEMMA FramesReplaced ==
  ASSUME NEW states \in Seq(path_state), states # <<>>, NEW new \in Seq(path_state),
         NEW f, Replaces(states, new, f)
  PROVE  FramesAfter(states, new, f, Len(states))
<1> DEFINE n == Len(states)
<1>1. /\ Groups(new) = (Groups(states) \ {n})
                         \cup (IF f \in DOMAIN GroupOpener THEN {n} ELSE {})
      /\ \A i \in Groups(states) \ {n} : i < n /\ new[i] = states[i]
      /\ n \in Groups(states) <=> Last(states) \in DOMAIN GroupOpener
      /\ new[n] = f
  BY SpecialSets, WhereThings, WhereReplaced
<1>2. /\ Parentheses(new) = (Parentheses(states) \ {n})
                              \cup (IF f \in {"expect_rparen"} THEN {n} ELSE {})
      /\ \A i \in Parentheses(states) \ {n} : i < n
      /\ n \in Parentheses(states) <=> Last(states) \in {"expect_rparen"}
  BY SpecialSets, WhereThings, WhereReplaced
<1>3. /\ ExpressionTypes(new) = (ExpressionTypes(states) \ {n})
                                  \cup (IF f \in {"expression_type"} THEN {n} ELSE {})
      /\ \A i \in ExpressionTypes(states) \ {n} : i < n
  BY SpecialSets, WhereThings, WhereReplaced
<1>4. states[n] = Last(states)
  BY DEF Last
<1> QED BY <1>1, <1>2, <1>3, <1>4 DEF FramesAfter

(* The top is left, or replaced by a state that is not special, when it is no frame. *)
LEMMA SameUnder ==
  ASSUME NEW states \in Seq(path_state), states # <<>>,
         Last(states) \notin DOMAIN GroupOpener \cup {"expect_rparen"}
  PROVE  /\ SameFrames(states, Front(states))
         /\ \A f : \A new \in Seq(path_state) :
              f \notin Special /\ Replaces(states, new, f) => SameFrames(states, new)
<1>1. SameFrames(states, Front(states))
  <2>1. /\ Groups(Front(states)) = Groups(states)
        /\ Parentheses(Front(states)) = Parentheses(states)
        /\ ExpressionTypes(Front(states)) \subseteq ExpressionTypes(states)
        /\ \A i \in Groups(states) : Front(states)[i] = states[i]
    <3>1. ASSUME NEW X, Last(states) \notin X
          PROVE  /\ Where(Front(states), X) = Where(states, X)
                 /\ \A i \in Where(states, X) : Front(states)[i] = states[i]
      <4>1. Len(states) \notin Where(states, X)
        BY <3>1, WhereLeft
      <4>2. Where(Front(states), X) = Where(states, X)
        <5>1. Where(states, X) \ {Len(states)} = Where(states, X)
          BY <4>1
        <5> QED BY <5>1, WhereLeft
      <4>3. \A i \in Where(Front(states), X) : Front(states)[i] = states[i]
        <5>1. /\ DOMAIN Front(states) = 1 .. Len(states) - 1
              /\ \A k \in 1 .. Len(states) - 1 : Front(states)[k] = states[k]
          BY FrontStates
        <5> QED BY <5>1 DEF Where
      <4> QED BY <4>2, <4>3
    <3>2. Last(states) \notin DOMAIN GroupOpener /\ Last(states) \notin {"expect_rparen"}
      OBVIOUS
    <3>3. ExpressionTypes(Front(states)) \subseteq ExpressionTypes(states)
      BY WhereLeft, WhereThings
    <3>4. /\ Groups(Front(states)) = Groups(states)
          /\ \A i \in Groups(states) : Front(states)[i] = states[i]
      BY <3>1, <3>2, WhereThings
    <3>5. Parentheses(Front(states)) = Parentheses(states)
      BY <3>1, <3>2, WhereThings
    <3> QED BY <3>3, <3>4, <3>5
  <2> QED BY <2>1 DEF SameFrames
<1>2. ASSUME NEW f, NEW new \in Seq(path_state), f \notin Special, Replaces(states, new, f)
      PROVE  SameFrames(states, new)
  <2>1. /\ f \notin DOMAIN GroupOpener /\ f # "expect_rparen" /\ f # "expression_type"
        /\ FramesAfter(states, new, f, Len(states))
    BY <1>2, FramesReplaced DEF Special
  <2>2. /\ Groups(new) = Groups(states)
        /\ \A i \in Groups(states) : new[i] = states[i]
    BY <1>2, <2>1, SpecialSets DEF FramesAfter
  <2>3. Parentheses(new) = Parentheses(states)
    BY <1>2, <2>1, SpecialSets DEF FramesAfter
  <2>4. ExpressionTypes(new) \subseteq ExpressionTypes(states)
    BY <1>2, <2>1, SpecialSets DEF FramesAfter
  <2> QED BY <2>2, <2>3, <2>4 DEF SameFrames
<1> QED BY <1>1, <1>2

(* A state of a hash is replaced by another. *)
LEMMA SameTop ==
  ASSUME NEW states \in Seq(path_state), states # <<>>, NEW new \in Seq(path_state),
         NEW f \in DOMAIN GroupOpener, Last(states) \in DOMAIN GroupOpener,
         GroupOpener[f] = GroupOpener[Last(states)], Replaces(states, new, f)
  PROVE  SameFrames(states, new)
<1>0. FramesAfter(states, new, f, Len(states))
  BY FramesReplaced
<1>1. /\ Groups(new) = Groups(states) /\ new[Len(states)] = f
      /\ \A i \in Groups(states) \ {Len(states)} : new[i] = states[i]
  BY <1>0, SpecialSets DEF FramesAfter
<1>2. Parentheses(new) = Parentheses(states)
  BY <1>0, SpecialSets DEF FramesAfter
<1>3. ExpressionTypes(new) \subseteq ExpressionTypes(states)
  BY <1>0, SpecialSets DEF FramesAfter
<1>4. \A i \in Groups(states) : GroupOpener[new[i]] = GroupOpener[states[i]]
  BY <1>1 DEF Last
<1> QED BY <1>1, <1>2, <1>3, <1>4 DEF SameFrames

LEMMA GroupBegun ==
  ASSUME NEW states \in Seq(path_state), states # <<>>, NEW new \in Seq(path_state),
         NEW f \in DOMAIN GroupOpener,
         Last(states) \notin DOMAIN GroupOpener \cup {"expect_rparen"},
         Replaces(states, new, f)
  PROVE  /\ Groups(new) = Groups(states) \cup {Len(states)} /\ new[Len(states)] = f
         /\ Frames(new) = Frames(states) \cup {Len(states)}
         /\ \A i \in Groups(states) : new[i] = states[i]
         /\ \A i \in Frames(states) : i < Len(states)
         /\ \A e \in ExpressionTypes(new) : e \in ExpressionTypes(states) /\ e < Len(states)
<1>0. FramesAfter(states, new, f, Len(states))
  BY FramesReplaced
<1>1. /\ Groups(new) = Groups(states) \cup {Len(states)} /\ new[Len(states)] = f
      /\ \A i \in Groups(states) : i < Len(states) /\ new[i] = states[i]
  BY <1>0, SpecialSets DEF FramesAfter
<1>2. /\ Parentheses(new) = Parentheses(states)
      /\ \A i \in Parentheses(states) : i < Len(states)
  BY <1>0, SpecialSets DEF FramesAfter
<1>3. \A e \in ExpressionTypes(new) : e \in ExpressionTypes(states) /\ e < Len(states)
  BY <1>0, SpecialSets DEF FramesAfter
<1> QED BY <1>1, <1>2, <1>3 DEF Frames

LEMMA ParenthesisBegun ==
  ASSUME NEW states \in Seq(path_state), states # <<>>, NEW new \in Seq(path_state),
         Last(states) \notin DOMAIN GroupOpener \cup {"expect_rparen"},
         Replaces(states, new, "expect_rparen")
  PROVE  /\ Groups(new) = Groups(states)
         /\ Frames(new) = Frames(states) \cup {Len(states)}
         /\ \A i \in Groups(states) : new[i] = states[i]
         /\ \A i \in Frames(states) : i < Len(states)
         /\ ExpressionTypes(new) \subseteq ExpressionTypes(states)
<1>0. FramesAfter(states, new, "expect_rparen", Len(states))
  BY FramesReplaced
<1>1. /\ Groups(new) = Groups(states)
      /\ \A i \in Groups(states) : i < Len(states) /\ new[i] = states[i]
  BY <1>0, SpecialSets DEF FramesAfter
<1>2. /\ Parentheses(new) = Parentheses(states) \cup {Len(states)}
      /\ \A i \in Parentheses(states) : i < Len(states)
  BY <1>0, SpecialSets DEF FramesAfter
<1>3. ExpressionTypes(new) \subseteq ExpressionTypes(states)
  BY <1>0, SpecialSets DEF FramesAfter
<1> QED BY <1>1, <1>2, <1>3 DEF Frames

LEMMA ExpressionTypeBegun ==
  ASSUME NEW states \in Seq(path_state), states # <<>>, NEW new \in Seq(path_state),
         Last(states) \notin DOMAIN GroupOpener \cup {"expect_rparen"},
         Replaces(states, new, "expression_type")
  PROVE  /\ Groups(new) = Groups(states)
         /\ Frames(new) = Frames(states)
         /\ \A i \in Groups(states) : i < Len(states) /\ new[i] = states[i]
         /\ \A e \in ExpressionTypes(new) : e \in ExpressionTypes(states) \/ e = Len(states)
<1>0. FramesAfter(states, new, "expression_type", Len(states))
  BY FramesReplaced
<1>1. /\ Groups(new) = Groups(states)
      /\ \A i \in Groups(states) : i < Len(states) /\ new[i] = states[i]
  BY <1>0, SpecialSets DEF FramesAfter
<1>2. Parentheses(new) = Parentheses(states)
  BY <1>0, SpecialSets DEF FramesAfter
<1>3. \A e \in ExpressionTypes(new) : e \in ExpressionTypes(states) \/ e = Len(states)
  BY <1>0, SpecialSets DEF FramesAfter
<1> QED BY <1>1, <1>2, <1>3 DEF Frames

LEMMA GroupLeft ==
  ASSUME NEW states \in Seq(path_state), states # <<>>,
         Last(states) \in DOMAIN GroupOpener
  PROVE  /\ Groups(Front(states)) = Groups(states) \ {Len(states)}
         /\ Frames(Front(states)) = Frames(states) \ {Len(states)}
         /\ Len(states) \in Groups(states)
         /\ \A i \in Groups(Front(states)) : Front(states)[i] = states[i]
         /\ ExpressionTypes(Front(states)) \subseteq ExpressionTypes(states)
<1>1. /\ Groups(Front(states)) = Groups(states) \ {Len(states)}
      /\ Len(states) \in Groups(states)
      /\ \A i \in Groups(Front(states)) : Front(states)[i] = states[i]
  BY WhereLeft, WhereThings
<1>2. Parentheses(Front(states)) = Parentheses(states) \ {Len(states)}
  BY WhereLeft, WhereThings
<1>3. ExpressionTypes(Front(states)) \subseteq ExpressionTypes(states)
  BY WhereLeft, WhereThings
<1> QED BY <1>1, <1>2, <1>3 DEF Frames

LEMMA ParenthesisLeft ==
  ASSUME NEW states \in Seq(path_state), states # <<>>, NEW new \in Seq(path_state),
         Last(states) = "expect_rparen", NEW f, f \notin Special, Replaces(states, new, f)
  PROVE  /\ Groups(new) = Groups(states)
         /\ Frames(new) = Frames(states) \ {Len(states)}
         /\ Len(states) \in Frames(states)
         /\ \A i \in Groups(states) : new[i] = states[i]
         /\ ExpressionTypes(new) \subseteq ExpressionTypes(states)
<1>0. /\ f \notin DOMAIN GroupOpener /\ f # "expect_rparen" /\ f # "expression_type"
      /\ FramesAfter(states, new, f, Len(states))
  BY FramesReplaced DEF Special
<1>1. /\ Groups(new) = Groups(states)
      /\ \A i \in Groups(states) : new[i] = states[i]
      /\ Len(states) \notin Groups(states)
  BY <1>0, SpecialSets DEF FramesAfter
<1>2. Parentheses(new) = Parentheses(states) \ {Len(states)} /\ Len(states) \in Parentheses(states)
  BY <1>0, SpecialSets DEF FramesAfter
<1>3. ExpressionTypes(new) \subseteq ExpressionTypes(states)
  BY <1>0, SpecialSets DEF FramesAfter
<1> QED BY <1>1, <1>2, <1>3 DEF Frames
-----------------------------------------------------------------------------
(* What leaves the ledger as it is on output_stack_ and operator_stack_. *)

KeptOutput(q, r) ==
  /\ Opened(r) = Opened(q)
  /\ \A k \in Opened(q) : r[k] = q[k] /\ (KeyFollows(q, k) => KeyFollows(r, k))
  /\ \A k \in DOMAIN q : q[k].kind = "begin_expression_type" =>
       k \in DOMAIN r /\ r[k].kind = "begin_expression_type"

Kept(s, t) ==
  /\ KeptOutput(s.output, t.output)
  /\ Lparens(t.operators) = Lparens(s.operators)

LEMMA OutputTwice ==
  ASSUME NEW p, NEW q, NEW r, KeptOutput(p, q), KeptOutput(q, r)
  PROVE  KeptOutput(p, r)
BY DEF KeptOutput

LEMMA KeptTwice ==
  ASSUME NEW s, NEW t, NEW u, Kept(s, t), Kept(t, u)
  PROVE  Kept(s, u)
BY OutputTwice DEF Kept

LEMMA OutputExtended ==
  ASSUME NEW q \in Seq(Token), NEW r \in Seq(Token),
         \A k \in 1 .. Len(r) : r[k].kind \notin Openers
  PROVE  KeptOutput(q, q \o r)
<1> DEFINE w == q \o r
<1>1. /\ DOMAIN q = 1 .. Len(q) /\ DOMAIN w = 1 .. Len(q) + Len(r)
      /\ Len(q) \in Nat /\ Len(r) \in Nat
      /\ \A k \in 1 .. Len(q) : w[k] = q[k]
      /\ \A k \in Len(q) + 1 .. Len(q) + Len(r) : w[k] = r[k - Len(q)]
  OBVIOUS
<1> HIDE DEF w
<1>2. Opened(w) = Opened(q)
  <2>1. ASSUME NEW k \in Opened(w) PROVE k \in Opened(q)
    <3>1. k \in 1 .. Len(q) + Len(r) /\ w[k].kind \in Openers
      BY <1>1, <2>1 DEF Opened
    <3>2. CASE k > Len(q)
      <4>1. k - Len(q) \in 1 .. Len(r) /\ w[k] = r[k - Len(q)]
        BY <1>1, <3>1, <3>2
      <4> QED BY <3>1, <4>1
    <3>3. CASE k <= Len(q)
      BY <1>1, <3>1, <3>3 DEF Opened
    <3> QED BY <1>1, <3>1, <3>2, <3>3
  <2>2. ASSUME NEW k \in Opened(q) PROVE k \in Opened(w)
    BY <1>1, <2>2 DEF Opened
  <2> QED BY <2>1, <2>2
<1>3. \A k \in Opened(q) : w[k] = q[k] /\ (KeyFollows(q, k) => KeyFollows(w, k))
  BY <1>1 DEF Opened, KeyFollows
<1>4. \A k \in DOMAIN q : q[k].kind = "begin_expression_type" =>
        k \in DOMAIN w /\ w[k].kind = "begin_expression_type"
  BY <1>1
<1> QED BY <1>2, <1>3, <1>4 DEF KeptOutput, w

LEMMA OutputPut ==
  ASSUME NEW q \in Seq(Token), NEW tok \in Token, tok.kind \notin Openers
  PROVE  KeptOutput(q, Append(q, tok))
<1>1. <<tok>> \in Seq(Token) /\ \A k \in 1 .. Len(<<tok>>) : <<tok>>[k].kind \notin Openers
  OBVIOUS
<1>2. Append(q, tok) = q \o <<tok>>
  OBVIOUS
<1> QED BY <1>1, <1>2, OutputExtended

(* A current_node on top is replaced. *)
LEMMA OutputReplaced ==
  ASSUME NEW q \in Seq(Token), q # <<>>, Last(q).kind = "current_node",
         NEW tok \in Token, tok.kind = "literal"
  PROVE  KeptOutput(q, Append(Front(q), tok))
<1> DEFINE w == Append(Front(q), tok)
<1>1. /\ Len(q) \in Nat \ {0} /\ Len(q) - 1 \in 0 .. Len(q) /\ DOMAIN q = 1 .. Len(q)
      /\ q[Len(q)].kind = "current_node"
  BY DEF Last
<1>2. /\ Front(q) \in Seq(Token) /\ Len(Front(q)) = Len(q) - 1
      /\ \A k \in 1 .. Len(q) - 1 : Front(q)[k] = q[k]
  BY <1>1, Prefix DEF Front
<1>3. /\ DOMAIN w = 1 .. Len(q) /\ w[Len(q)] = tok
      /\ \A k \in 1 .. Len(q) - 1 : w[k] = q[k]
  <2> DEFINE f == Front(q)
             n == Len(q)
  <2> HIDE DEF f, n
  <2>1. f \in Seq(Token) /\ Len(f) = n - 1 /\ n \in Nat \ {0} /\ n - 1 \in Nat
    BY <1>1, <1>2 DEF f, n
  <2>2. /\ Append(f, tok) \in Seq(Token) /\ Len(Append(f, tok)) = n
        /\ Append(f, tok)[n] = tok /\ \A k \in 1 .. n - 1 : Append(f, tok)[k] = f[k]
    BY <2>1
  <2>3. \A k \in 1 .. n - 1 : f[k] = q[k]
    BY <1>2 DEF f, n
  <2> QED BY <2>2, <2>3 DEF f, n
<1> HIDE DEF w
<1>4. \A k \in 1 .. Len(q) : k = Len(q) \/ k \in 1 .. Len(q) - 1
  <2> DEFINE n == Len(q)
  <2> HIDE DEF n
  <2>1. n \in Nat
    BY <1>1 DEF n
  <2>2. \A k \in 1 .. n : k = n \/ k \in 1 .. n - 1
    BY <2>1
  <2> QED BY <2>2 DEF n
<1>5. Opened(w) = Opened(q)
  BY <1>1, <1>3, <1>4 DEF Opened, Openers
<1>6. \A k \in Opened(q) : w[k] = q[k] /\ (KeyFollows(q, k) => KeyFollows(w, k))
  BY <1>1, <1>3, <1>4 DEF Opened, Openers, KeyFollows
<1>7. \A k \in DOMAIN q : q[k].kind = "begin_expression_type" =>
        k \in DOMAIN w /\ w[k].kind = "begin_expression_type"
  BY <1>1, <1>3, <1>4
<1> QED BY <1>5, <1>6, <1>7 DEF KeptOutput, w

(* Everything above the last begin_expression_type is taken off, where no  *)
(* group begins above it.                                                  *)
LEMMA OutputCutAt ==
  ASSUME NEW q \in Seq(Token), NEW b \in 1 .. Len(q), IsLastAt("begin_expression_type", q, b),
         \A k \in Opened(q) : k < b
  PROVE  KeptOutput(q, SubSeq(q, 1, b))
<1> DEFINE w == SubSeq(q, 1, b)
<1>1. /\ DOMAIN q = 1 .. Len(q) /\ Len(q) \in Nat /\ b \in Nat
      /\ DOMAIN w = 1 .. b /\ \A k \in 1 .. b : w[k] = q[k]
  <2>1. b \in 0 .. Len(q)
    OBVIOUS
  <2> QED BY <2>1, Prefix
<1> HIDE DEF w
<1>2. Opened(w) = Opened(q)
  BY <1>1 DEF Opened
<1>3. \A k \in Opened(q) : w[k] = q[k] /\ (KeyFollows(q, k) => KeyFollows(w, k))
  BY <1>1 DEF Opened, KeyFollows
<1>4. \A k \in DOMAIN q : q[k].kind = "begin_expression_type" =>
        k \in DOMAIN w /\ w[k].kind = "begin_expression_type"
  BY <1>1 DEF IsLastAt
<1> QED BY <1>2, <1>3, <1>4 DEF KeptOutput, w

-----------------------------------------------------------------------------
(* operator_stack_. *)

LEMMA MovedTokens ==
  ASSUME NEW S, NEW ops \in Seq(S), NEW n \in 0 .. Len(ops)
  PROVE  LET moved == Reverse(After(n, ops))
         IN /\ moved \in Seq(S) /\ Len(moved) = Len(ops) - n
            /\ \A k \in 1 .. Len(moved) :
                 /\ (Len(ops) + 1) - k \in n + 1 .. Len(ops)
                 /\ moved[k] = ops[(Len(ops) + 1) - k]
<1> DEFINE a == After(n, ops)
           l == Len(ops)
<1>1. /\ a \in Seq(S) /\ Len(a) = l - n /\ l \in Nat /\ n \in 0 .. l
      /\ \A k \in 1 .. Len(a) : a[k] = ops[n + k]
  BY DEF After
<1> HIDE DEF a, l
<1>2. /\ Reverse(a) \in Seq(S) /\ Len(Reverse(a)) = Len(a)
      /\ \A k \in 1 .. Len(a) : Reverse(a)[k] = a[(Len(a) - k) + 1]
  BY <1>1, Reversed DEF Reverse
<1>3. ASSUME NEW k \in 1 .. Len(a)
      PROVE  (l + 1) - k \in n + 1 .. l /\ Reverse(a)[k] = ops[(l + 1) - k]
  <2>1. /\ (Len(a) - k) + 1 \in 1 .. Len(a) /\ n + ((Len(a) - k) + 1) = (l + 1) - k
        /\ (l + 1) - k \in n + 1 .. l
    BY <1>1
  <2> QED BY <1>1, <1>2, <2>1
<1> QED BY <1>1, <1>2, <1>3 DEF a, l

LEMMA LastAtIs ==
  ASSUME NEW kind, NEW q, LastAt(kind, q) # 0
  PROVE  LastAt(kind, q) \in 1 .. Len(q) /\ IsLastAt(kind, q, LastAt(kind, q))
BY DEF LastAt

(* The operators above the innermost lparen are moved; it is taken off. *)
LEMMA LparenTaken ==
  ASSUME NEW ops \in Seq(OperatorToken), NEW p \in 1 .. Len(ops), IsLastAt("lparen", ops, p)
  PROVE  /\ p \in Lparens(ops) /\ \A k \in Lparens(ops) : k <= p
         /\ Lparens(SubSeq(ops, 1, p - 1)) = Lparens(ops) \ {p}
         /\ \A k \in 1 .. Len(Reverse(After(p, ops))) :
              Reverse(After(p, ops))[k].kind \in Operators
         /\ Reverse(After(p, ops)) \in Seq(Token)
<1>1. /\ DOMAIN ops = 1 .. Len(ops) /\ Len(ops) \in Nat /\ p - 1 \in 0 .. Len(ops)
      /\ ops[p].kind = "lparen" /\ \A j \in p + 1 .. Len(ops) : ops[j].kind # "lparen"
  BY DEF IsLastAt
<1>2. p \in Lparens(ops) /\ \A k \in Lparens(ops) : k <= p
  BY <1>1 DEF Lparens
<1>3. Lparens(SubSeq(ops, 1, p - 1)) = Lparens(ops) \ {p}
  <2> DEFINE w == SubSeq(ops, 1, p - 1)
  <2>1. DOMAIN w = 1 .. p - 1 /\ \A k \in 1 .. p - 1 : w[k] = ops[k]
    BY <1>1, Prefix
  <2> HIDE DEF w
  <2>2. \A k : k \in Lparens(w) <=> k \in Lparens(ops) \ {p}
    BY <1>1, <1>2, <2>1 DEF Lparens
  <2> QED BY <2>2 DEF w
<1>4. /\ Reverse(After(p, ops)) \in Seq(OperatorToken)
      /\ \A k \in 1 .. Len(Reverse(After(p, ops))) :
           \E j \in p + 1 .. Len(ops) : Reverse(After(p, ops))[k] = ops[j]
  BY <1>1, MovedTokens
<1>5. \A j \in p + 1 .. Len(ops) : ops[j].kind \in Operators
  BY <1>1 DEF OperatorToken
<1>6. Reverse(After(p, ops)) \in Seq(Token)
  <2>1. OperatorToken \subseteq Token
    BY DEF OperatorToken
  <2> QED BY <1>4, <2>1
<1> QED BY <1>2, <1>3, <1>4, <1>5, <1>6

LEMMA OperatorsAreNoOpeners == Operators \cap Openers = {}
BY DEF Operators, Openers

LEMMA Least ==
  ASSUME NEW T, T \subseteq Nat, T # {}
  PROVE  \E n \in T : \A m \in T : n <= m
<1>1. PICK n \in T : \A m \in T : ~(<<m, n>> \in OpToRel(<, Nat))
  BY NatLessThanWellFounded, WFMin
<1>2. \A m \in T : ~(m < n)
  BY <1>1 DEF OpToRel
<1> QED BY <1>2

(* The operators that yield to tok end at some position. *)
LEMMA KeptBelowIs ==
  ASSUME NEW ops \in Seq(OperatorToken), NEW tok
  PROVE  KeptBelow(ops, tok) \in 0 .. Len(ops) /\ IsKept(ops, tok, KeptBelow(ops, tok))
<1> DEFINE n == Len(ops)
           T == {k \in 0 .. n : \A i \in k + 1 .. n : Yields(ops[i], tok)}
<1>1. n \in Nat
  OBVIOUS
<1> HIDE DEF n
<1>2. n \in T /\ T \subseteq Nat
  BY <1>1
<1>3. PICK k \in T : \A m \in T : k <= m
  BY <1>2, Least
<1>4. k = 0 \/ ~Yields(ops[k], tok)
  <2> SUFFICES ASSUME k # 0, Yields(ops[k], tok) PROVE FALSE
    OBVIOUS
  <2>1. k - 1 \in 0 .. n /\ k \in 0 .. n /\ ~(k <= k - 1)
    BY <1>1, <1>2
  <2>2. \A i \in (k - 1) + 1 .. n : i = k \/ i \in k + 1 .. n
    BY <1>1, <2>1
  <2>3. k - 1 \in T
    BY <2>1, <2>2
  <2> QED BY <1>3, <2>1, <2>3
<1>5. k \in 0 .. Len(ops) /\ IsKept(ops, tok, k)
  BY <1>4 DEF IsKept, n
<1> QED BY <1>5 DEF KeptBelow

LEMMA LparensNeverYield ==
  ASSUME NEW op, op.kind = "lparen", NEW tok
  PROVE  ~Yields(op, tok)
BY DEF Yields, IsOperator, Operators

(* Neither stack loses the beginning of a group, and no error is forgotten. *)
Neutral(s, t) == t.ec = NoError => s.ec = NoError /\ Kept(s, t)

LEMMA NeutralTwice ==
  ASSUME NEW s, NEW t, NEW u, Neutral(s, t), Neutral(t, u)
  PROVE  Neutral(s, u)
BY KeptTwice DEF Neutral

LEMMA KeptSelf ==
  ASSUME NEW s PROVE Kept(s, s) /\ Neutral(s, s)
BY DEF Kept, KeptOutput, Neutral

LEMMA PutParts ==
  ASSUME NEW s, StacksOK(s), NEW tok
  PROVE  /\ Put(s, tok).output = Append(s.output, tok)
         /\ Put(s, tok).operators = s.operators /\ Put(s, tok).ec = s.ec
<1>1. s = Record(s.output, s.operators, s.ec, s.lists)
  BY Parts
<1>2. Put(s, tok) = Record(Append(s.output, tok), s.operators, s.ec, s.lists)
  BY <1>1 DEF Put, Record
<1> QED BY <1>2 DEF Record

LEMMA LparenParts ==
  ASSUME NEW s, StacksOK(s)
  PROVE  /\ PushLparen(s).operators = Append(s.operators, Tok("lparen"))
         /\ PushLparen(s).output = s.output /\ PushLparen(s).ec = s.ec
<1>1. s = Record(s.output, s.operators, s.ec, s.lists)
  BY Parts
<1>2. PushLparen(s) = Record(s.output, Append(s.operators, Tok("lparen")), s.ec, s.lists)
  BY <1>1 DEF PushLparen, Record
<1> QED BY <1>2 DEF Record

LEMMA ErrorParts ==
  ASSUME NEW s, StacksOK(s), NEW e
  PROVE  SetError(s, e).ec = e
<1>1. s = Record(s.output, s.operators, s.ec, s.lists)
  BY Parts
<1>2. SetError(s, e) = Record(s.output, s.operators, e, s.lists)
  BY <1>1 DEF SetError, Record
<1> QED BY <1>2 DEF Record

LEMMA RecordParts ==
  ASSUME NEW q, NEW ops, NEW e, NEW ls
  PROVE  /\ Record(q, ops, e, ls).output = q /\ Record(q, ops, e, ls).operators = ops
         /\ Record(q, ops, e, ls).ec = e
BY DEF Record

LEMMA UnwindParts ==
  ASSUME NEW s, StacksOK(s)
  PROVE  LET p == LastAt("lparen", s.operators)
             u == unwind_rparen(s)
         IN /\ p = 0 => u.ec # NoError
            /\ p # 0 => /\ u.output = s.output \o Reverse(After(p, s.operators))
                        /\ u.operators = SubSeq(s.operators, 1, p - 1)
                        /\ u.ec = s.ec
<1> DEFINE p == LastAt("lparen", s.operators)
           q == s.output \o Reverse(After(p, s.operators))
           ops == SubSeq(s.operators, 1, p - 1)
           u == unwind_rparen(s)
<1>0. s = Record(s.output, s.operators, s.ec, s.lists)
  BY Parts
<1>1. p = 0 => u = Record(q, s.operators, "unbalanced_parentheses", s.lists)
  BY <1>0 DEF unwind_rparen, SetError, Record
<1>2. p # 0 => u = Record(q, ops, s.ec, s.lists)
  BY <1>0 DEF unwind_rparen, Record
<1> HIDE DEF u, q, ops
<1>3. "unbalanced_parentheses" # NoError
  BY DEF NoError
<1>4. p = 0 => u.ec # NoError
  BY <1>1, <1>3, RecordParts
<1>5. p # 0 => u.output = q /\ u.operators = ops /\ u.ec = s.ec
  BY <1>2, RecordParts
<1> QED BY <1>4, <1>5 DEF u, q, ops

(* A token that begins no group is put on output_stack_. *)
LEMMA PutNeutral ==
  ASSUME NEW s, StacksOK(s), NEW tok \in Token, tok.kind \notin Openers
  PROVE  Neutral(s, Put(s, tok))
<1>1. s.output \in Seq(Token)
  BY Parts
<1>2. KeptOutput(s.output, Append(s.output, tok))
  BY <1>1, OutputPut
<1> QED BY <1>2, PutParts DEF Neutral, Kept

LEMMA AddNeutral ==
  ASSUME NEW s, StacksOK(s), NEW tok, NEW expr \in Token, expr.kind \notin Openers
  PROVE  Neutral(s, AddExpression(s, tok, expr))
BY PutNeutral, KeptSelf DEF AddExpression

LEMMA LiteralNeutral ==
  ASSUME NEW s, StacksOK(s), NEW tok \in Token, tok.kind = "literal"
  PROVE  Neutral(s, PushLiteral(s, tok))
<1>0. s.output \in Seq(Token) /\ s = Record(s.output, s.operators, s.ec, s.lists)
  BY Parts
<1>1. CASE s.output # <<>> /\ Last(s.output).kind = "current_node"
  <2> DEFINE q == Append(Front(s.output), tok)
  <2>1. KeptOutput(s.output, q)
    BY <1>0, <1>1, OutputReplaced
  <2>2. PushLiteral(s, tok) = [s EXCEPT !.output = q]
    BY <1>1 DEF PushLiteral
  <2> HIDE DEF q
  <2>3. PushLiteral(s, tok) = Record(q, s.operators, s.ec, s.lists)
    BY <1>0, <2>2 DEF Record
  <2> QED BY <2>1, <2>3 DEF Neutral, Kept, Record
<1>2. CASE ~(s.output # <<>> /\ Last(s.output).kind = "current_node")
  <2>1. PushLiteral(s, tok) = Put(s, tok)
    BY <1>2 DEF PushLiteral
  <2> QED BY <2>1, PutNeutral DEF Openers
<1> QED BY <1>1, <1>2

(* The shunting of an operator stops at an lparen. *)
LEMMA OperatorNeutral ==
  ASSUME NEW s, StacksOK(s), NEW tok \in Token, tok.kind \in Operators
  PROVE  Neutral(s, PushOperator(s, tok))
<1> DEFINE ops == s.operators
           k == IF StacksOn(ops, tok) THEN Len(ops) ELSE KeptBelow(ops, tok)
           moved == Reverse(After(k, ops))
           q == s.output \o moved
           grown == Append(SubSeq(ops, 1, k), tok)
<1>1. ops \in Seq(OperatorToken) /\ s.output \in Seq(Token)
  BY Parts DEF OperatorsOK
<1>2. /\ k \in 0 .. Len(ops)
      /\ \A i \in k + 1 .. Len(ops) : ops[i].kind # "lparen"
  <2>1. CASE StacksOn(ops, tok)
    BY <1>1, <2>1
  <2>2. CASE ~StacksOn(ops, tok)
    <3>1. k \in 0 .. Len(ops) /\ IsKept(ops, tok, k)
      BY <1>1, <2>2, KeptBelowIs
    <3> QED BY <3>1, LparensNeverYield DEF IsKept
  <2> QED BY <2>1, <2>2
<1> HIDE DEF k
<1>3. KeptOutput(s.output, q)
  <2>1. /\ moved \in Seq(OperatorToken)
        /\ \A j \in 1 .. Len(moved) : \E i \in k + 1 .. Len(ops) : moved[j] = ops[i]
    BY <1>1, <1>2, MovedTokens
  <2>2. \A i \in 1 .. Len(ops) : ops[i].kind \in Operators \cup {"lparen"}
    BY <1>1 DEF OperatorToken
  <2>3. \A i \in k + 1 .. Len(ops) : i \in 1 .. Len(ops)
    BY <1>1, <1>2
  <2>4. moved \in Seq(Token)
    <3>1. OperatorToken \subseteq Token
      BY DEF OperatorToken
    <3> QED BY <2>1, <3>1
  <2>5. \A j \in 1 .. Len(moved) : moved[j].kind \notin Openers
    BY <1>2, <2>1, <2>2, <2>3, OperatorsAreNoOpeners
  <2> QED BY <1>1, <2>4, <2>5, OutputExtended
<1>4. Lparens(grown) = Lparens(ops)
  <2> DEFINE w == SubSeq(ops, 1, k)
  <2>1. w \in Seq(OperatorToken) /\ Len(w) = k /\ \A i \in 1 .. k : w[i] = ops[i]
    BY <1>1, <1>2, Prefix
  <2> HIDE DEF w
  <2>2. tok \in OperatorToken /\ tok.kind # "lparen"
    BY DEF OperatorToken, Operators
  <2>3. /\ DOMAIN Append(w, tok) = 1 .. k + 1 /\ k \in Nat
        /\ \A i \in 1 .. k : Append(w, tok)[i] = ops[i]
        /\ Append(w, tok)[k + 1] = tok
    BY <1>2, <2>1, <2>2
  <2> DEFINE g == Append(w, tok)
  <2> HIDE DEF g
  <2>4. \A i : i \in Lparens(g) <=> i \in Lparens(ops)
    <3>1. DOMAIN ops = 1 .. Len(ops) /\ Len(ops) \in Nat
      BY <1>1
    <3> QED BY <1>2, <2>2, <2>3, <3>1 DEF Lparens, g
  <2> QED BY <2>4 DEF g, w
<1>5. s = Record(s.output, s.operators, s.ec, s.lists)
  BY Parts
<1>6. PushOperator(s, tok) = [s EXCEPT !.output = q, !.operators = grown]
  BY DEF PushOperator, k
<1> HIDE DEF q, grown
<1>7. [s EXCEPT !.output = q, !.operators = grown] = Record(q, grown, s.ec, s.lists)
  <2> DEFINE r == [s EXCEPT !.output = q]
  <2>1. [s EXCEPT !.output = q, !.operators = grown] = [r EXCEPT !.operators = grown]
    OBVIOUS
  <2>2. r = Record(q, s.operators, s.ec, s.lists)
    BY <1>5 DEF Record
  <2> HIDE DEF r
  <2>3. [r EXCEPT !.operators = grown] = Record(q, grown, s.ec, s.lists)
    BY <2>2 DEF Record
  <2> QED BY <2>1, <2>3
<1> QED BY <1>3, <1>4, <1>6, <1>7 DEF Neutral, Kept, Record

(* operator_stack_ grows by an lparen. *)
LEMMA LparenAdded ==
  ASSUME NEW ops \in Seq(Token)
  PROVE  /\ Lparens(Append(ops, Tok("lparen"))) = Lparens(ops) \cup {Len(ops) + 1}
         /\ \A k \in Lparens(ops) : k \in Nat /\ k < Len(ops) + 1
         /\ Lparens(ops) \subseteq Nat /\ Len(ops) + 1 \in Nat
         /\ Append(ops, Tok("lparen")) # <<>> /\ Last(Append(ops, Tok("lparen"))).kind = "lparen"
<1> DEFINE l == Tok("lparen")
           g == Append(ops, l)
           n == Len(ops)
<1>1. l \in Token /\ l.kind = "lparen"
  BY TokensMade DEF Stored
<1> HIDE DEF l
<1>2. /\ n \in Nat /\ DOMAIN ops = 1 .. n /\ DOMAIN g = 1 .. n + 1 /\ g[n + 1] = l
      /\ \A k \in 1 .. n : g[k] = ops[k]
      /\ g # <<>> /\ Len(g) = n + 1
  BY <1>1
<1> HIDE DEF g, n
<1>3. \A k : k \in Lparens(g) <=> k \in Lparens(ops) \cup {n + 1}
  BY <1>1, <1>2 DEF Lparens
<1>4. \A k \in Lparens(ops) : k \in Nat /\ k < n + 1
  BY <1>2 DEF Lparens
<1>5. g # <<>> /\ Last(g).kind = "lparen"
  BY <1>1, <1>2 DEF Last
<1> QED BY <1>2, <1>3, <1>4, <1>5 DEF g, n, l

(* unwind_rparen takes the innermost lparen off, and moves operators only. *)
Unwinding(s, u) ==
  LET p == LastAt("lparen", s.operators)
  IN /\ KeptOutput(s.output, u.output) /\ u.ec = s.ec
     /\ p \in Lparens(s.operators) /\ \A k \in Lparens(s.operators) : k <= p
     /\ Lparens(u.operators) = Lparens(s.operators) \ {p}
     /\ Len(u.operators) = p - 1
     /\ \E moved \in Seq(Token) :
          /\ u.output = s.output \o moved
          /\ \A k \in 1 .. Len(moved) : moved[k].kind \in Operators
          /\ p = Len(s.operators) => moved = <<>>

LEMMA Unwinds ==
  ASSUME NEW s, StacksOK(s), unwind_rparen(s).ec = NoError
  PROVE  Unwinding(s, unwind_rparen(s))
<1> DEFINE p == LastAt("lparen", s.operators)
           u == unwind_rparen(s)
           moved == Reverse(After(p, s.operators))
<1>1. p # 0 /\ s.operators \in Seq(OperatorToken) /\ s.output \in Seq(Token)
  BY UnwindParts, Parts DEF OperatorsOK
<1>2. p \in 1 .. Len(s.operators) /\ IsLastAt("lparen", s.operators, p)
  BY <1>1, LastAtIs
<1>3. /\ p \in Lparens(s.operators) /\ \A k \in Lparens(s.operators) : k <= p
      /\ Lparens(SubSeq(s.operators, 1, p - 1)) = Lparens(s.operators) \ {p}
      /\ moved \in Seq(Token) /\ \A k \in 1 .. Len(moved) : moved[k].kind \in Operators
  BY <1>1, <1>2, LparenTaken
<1>4. /\ u.output = s.output \o moved /\ u.ec = s.ec
      /\ u.operators = SubSeq(s.operators, 1, p - 1)
  BY <1>1, UnwindParts
<1>5. KeptOutput(s.output, s.output \o moved)
  BY <1>1, <1>3, OutputExtended, OperatorsAreNoOpeners
<1>6. Len(u.operators) = p - 1
  BY <1>1, <1>2, <1>4
<1>7. p = Len(s.operators) => moved = <<>>
  <2>1. p \in 0 .. Len(s.operators) /\ Len(s.operators) \in Nat
    BY <1>1, <1>2
  <2>2. Len(moved) = Len(s.operators) - p
    BY <1>1, <2>1, MovedTokens
  <2> HIDE DEF moved, p
  <2>3. p = Len(s.operators) => Len(moved) = 0
    BY <2>1, <2>2
  <2> QED BY <1>3, <2>3
<1> HIDE DEF moved, u
<1> QED BY <1>3, <1>4, <1>5, <1>6, <1>7 DEF Unwinding, u

(* The separator of two elements puts the lparen back in its place. *)
LEMMA SeparatorNeutral ==
  ASSUME NEW s, StacksOK(s), NEW tok \in Token, tok.kind \notin Openers
  PROVE  Neutral(s, PushLparen(Put(unwind_rparen(s), tok)))
<1> DEFINE u == unwind_rparen(s)
           w == Put(u, tok)
           t == PushLparen(w)
           p == LastAt("lparen", s.operators)
<1>1. StacksOK(u) /\ StacksOK(w)
  BY Unwound, TokenPut
<1>2. /\ w.output = Append(u.output, tok) /\ w.operators = u.operators /\ w.ec = u.ec
      /\ t.output = w.output /\ t.operators = Append(w.operators, Tok("lparen")) /\ t.ec = w.ec
  BY <1>1, PutParts, LparenParts
<1> SUFFICES ASSUME t.ec = NoError PROVE s.ec = NoError /\ Kept(s, t)
  BY DEF Neutral
<1>3. Unwinding(s, u)
  BY <1>2, Unwinds
<1>4. KeptOutput(s.output, t.output)
  <2>1. KeptOutput(u.output, Append(u.output, tok))
    BY <1>1, Parts, OutputPut
  <2> QED BY <1>2, <1>3, <2>1, OutputTwice DEF Unwinding
<1>5. Lparens(t.operators) = Lparens(s.operators)
  <2>1. u.operators \in Seq(Token) /\ Len(u.operators) = p - 1 /\ p \in Lparens(s.operators)
    BY <1>1, <1>3, Parts DEF Unwinding
  <2>2. Lparens(Append(u.operators, Tok("lparen"))) = Lparens(u.operators) \cup {p}
    <3>1. p \in Nat
      BY <2>1, Parts DEF Lparens
    <3>2. Len(u.operators) + 1 = p
      BY <2>1, <3>1
    <3> QED BY <2>1, <3>2, LparenAdded
  <2>3. Lparens(u.operators) \cup {p} = Lparens(s.operators)
    BY <1>3, <2>1 DEF Unwinding
  <2> QED BY <1>2, <2>2, <2>3
<1>6. s.ec = NoError
  BY <1>2, <1>3 DEF Unwinding
<1> QED BY <1>4, <1>5, <1>6 DEF Kept

LEMMA CheckNeutral ==
  ASSUME NEW s, StacksOK(s)
  PROVE  Neutral(s, checkBuffer(s))
<1>1. Neutral(s, SetError(s, "invalid_literal"))
  <2>1. SetError(s, "invalid_literal").ec = "invalid_literal" /\ "invalid_literal" # NoError
    BY ErrorParts DEF NoError
  <2> QED BY <2>1 DEF Neutral
<1>2. Neutral(s, PushLiteral(s, Literal))
  BY TokensMade, LiteralNeutral DEF Literal, Tok
<1> QED BY <1>1, <1>2, KeptSelf DEF checkBuffer

Plain == {"literal", "expression", "unary_operator", "binary_operator", "separator",
          "current_node", "pipe", "key", "argument"}

(* The tokens that begin and end no group. *)
LEMMA PushNeutral ==
  ASSUME NEW s, StacksOK(s), NEW tok \in Token, tok.kind \in Plain
  PROVE  Neutral(s, push_token(tok, s))
<1>0. tok.kind \notin Openers
  BY DEF Plain, Openers
<1>1. CASE tok.kind = "literal"
  <2>1. push_token(tok, s) = PushLiteral(s, tok)
    BY <1>1 DEF push_token, Operators, Openers
  <2> QED BY <1>1, <2>1, LiteralNeutral
<1>2. CASE tok.kind = "expression"
  <2>1. push_token(tok, s) = AddExpression(s, tok, tok)
    BY <1>2 DEF push_token, Operators, Openers
  <2> QED BY <1>0, <2>1, AddNeutral
<1>3. CASE tok.kind \in Operators
  <2>1. push_token(tok, s) = PushOperator(s, tok)
    BY <1>3 DEF push_token, Operators, Openers
  <2> QED BY <1>3, <2>1, OperatorNeutral
<1>4. CASE tok.kind = "separator"
  <2>1. push_token(tok, s) = PushLparen(Put(unwind_rparen(s), tok))
    BY <1>4 DEF push_token, Operators, Openers
  <2> QED BY <1>0, <2>1, SeparatorNeutral
<1>5. CASE tok.kind \in {"current_node", "pipe", "key", "argument"}
  <2>1. push_token(tok, s) = Put(s, tok)
    BY <1>5 DEF push_token, Operators, Openers
  <2> QED BY <1>0, <2>1, PutNeutral
<1> QED BY <1>1, <1>2, <1>3, <1>4, <1>5 DEF Plain, Operators

LEMMA BinaryNeutral ==
  ASSUME NEW s, StacksOK(s), NEW oper \in BinaryOpers
  PROVE  Neutral(s, WithBinary(oper, s))
<1>1. Binary(oper) \in Token /\ Binary(oper).kind \in Plain /\ CurrentNode \in Token
      /\ CurrentNode.kind \notin Openers
  BY TokensMade DEF Binary, Token, Stored, Opers, Plain, CurrentNode, Tok, Openers
<1>2. StacksOK(push_token(Binary(oper), s))
  BY <1>1, PushKeepsStacks
<1> QED BY <1>1, <1>2, PushNeutral, PutNeutral, NeutralTwice DEF WithBinary

-----------------------------------------------------------------------------
(* What each kind of pass makes of the ledger. *)

KeyTops == {"multi_select_hash", "key_val_expr", "key_expr"} \cup KeyTextStates

LEMMA NoFirstKey ==
  ASSUME NEW states \in Seq(path_state), states # <<>>, Last(states) \notin KeyTops
  PROVE  \A i \in Hashes(states) : ~InFirstKey(states, i)
<1> SUFFICES ASSUME NEW i \in Hashes(states), InFirstKey(states, i)
             PROVE  Last(states) \in KeyTops
  OBVIOUS
<1>1. Len(states) \in DOMAIN states /\ Last(states) = states[Len(states)] /\ i \in DOMAIN states
  BY DEF Last, Hashes, Groups
<1>2. CASE i = Len(states) /\ states[i] \in {"multi_select_hash", "key_val_expr"}
  BY <1>1, <1>2 DEF KeyTops
<1>3. CASE /\ i + 1 \in DOMAIN states /\ states[i+1] = "key_expr"
           /\ \A j \in DOMAIN states : j > i + 1 => states[j] \in KeyTextStates
  <2>1. Len(states) = i + 1 \/ Len(states) > i + 1
    BY <1>1, <1>3
  <2> QED BY <1>1, <1>3, <2>1 DEF KeyTops
<1> QED BY <1>2, <1>3 DEF InFirstKey

(* No group begins or ends. *)
LEMMA SteadyLedger ==
  ASSUME NEW states \in Seq(path_state), NEW new \in Seq(path_state), SameFrames(states, new),
         NEW s, NEW t, Kept(s, t), Ledger(states, s),
         \A i \in Hashes(states), k \in Opened(s.output) :
           InFirstKey(states, i) /\ OnTop(s, k) =>
             KeyFollows(t.output, k) \/ (InFirstKey(new, i) /\ OnTop(t, k))
  PROVE  Ledger(new, t)
<1>1. PICK lparen \in [Frames(states) -> Lparens(s.operators)],
           opener \in [Groups(states) -> Opened(s.output)] : LedgerBy(states, s, opener, lparen)
  BY DEF Ledger
<1>2. /\ Frames(new) = Frames(states) /\ Groups(new) = Groups(states)
      /\ Lparens(t.operators) = Lparens(s.operators) /\ Opened(t.output) = Opened(s.output)
  BY DEF SameFrames, Frames, Kept, KeptOutput
<1>3. \A i \in Groups(states) : opener[i] \in Opened(s.output)
  OBVIOUS
<1>4. /\ Pairs(lparen, Frames(new), Lparens(t.operators))
      /\ Pairs(opener, Groups(new), Opened(t.output))
  BY <1>1, <1>2 DEF LedgerBy
<1>5. \A i \in Groups(new) : t.output[opener[i]].kind = GroupOpener[new[i]]
  BY <1>1, <1>2, <1>3 DEF LedgerBy, SameFrames, Kept, KeptOutput
<1>6. ASSUME NEW i \in Hashes(new)
      PROVE  KeyFollows(t.output, opener[i]) \/ (InFirstKey(new, i) /\ OnTop(t, opener[i]))
  <2>1. i \in Groups(states) /\ i \in Hashes(states)
    BY <1>2, <1>6 DEF Hashes, SameFrames
  <2>2. KeyFollows(s.output, opener[i]) \/ (InFirstKey(states, i) /\ OnTop(s, opener[i]))
    BY <1>1, <2>1 DEF LedgerBy
  <2> QED BY <1>3, <2>1, <2>2 DEF Kept, KeptOutput
<1>7. ASSUME NEW e \in ExpressionTypes(new)
      PROVE  \E k \in DOMAIN t.output :
               /\ t.output[k].kind = "begin_expression_type"
               /\ \A i \in Groups(new) : (i < e => opener[i] < k) /\ (e < i => k < opener[i])
  <2>1. e \in ExpressionTypes(states)
    BY <1>7 DEF SameFrames
  <2>2. PICK k \in DOMAIN s.output :
          /\ s.output[k].kind = "begin_expression_type"
          /\ \A i \in Groups(states) : (i < e => opener[i] < k) /\ (e < i => k < opener[i])
    BY <1>1, <2>1 DEF LedgerBy
  <2>3. k \in DOMAIN t.output /\ t.output[k].kind = "begin_expression_type"
    BY <2>2 DEF Kept, KeptOutput
  <2> QED BY <1>2, <2>2, <2>3
<1>8. LedgerBy(new, t, opener, lparen)
  BY <1>4, <1>5, <1>6, <1>7 DEF LedgerBy
<1> QED BY <1>2, <1>8 DEF Ledger

(* No first key is being read. *)
LEMMA KeptLedger ==
  ASSUME NEW states \in Seq(path_state), states # <<>>, Last(states) \notin KeyTops,
         NEW new \in Seq(path_state), SameFrames(states, new),
         NEW s, NEW t, Kept(s, t), Ledger(states, s)
  PROVE  Ledger(new, t)
BY NoFirstKey, SteadyLedger

(* A first key may be being read, and nothing is pushed. *)
LEMMA CarriedLedger ==
  ASSUME NEW states \in Seq(path_state), NEW new \in Seq(path_state), SameFrames(states, new),
         NEW s, Ledger(states, s), NEW t, t.output = s.output, t.operators = s.operators,
         \A i \in Hashes(states) : InFirstKey(states, i) => InFirstKey(new, i)
  PROVE  Ledger(new, t)
<1>1. Kept(s, t)
  BY DEF Kept, KeptOutput
<1>2. \A k : OnTop(s, k) => OnTop(t, k)
  BY DEF OnTop
<1> QED BY <1>1, <1>2, SteadyLedger

(* output_stack_ grows by the beginning of a group. *)
LEMMA OpenerAdded ==
  ASSUME NEW q \in Seq(Token), NEW tok \in Token, tok.kind \in Openers
  PROVE  LET g == Append(q, tok)
             b == Len(q) + 1
         IN /\ Opened(g) = Opened(q) \cup {b} /\ g[b] = tok /\ b = Len(g) /\ b \in Nat
            /\ \A k \in Opened(q) : k < b
            /\ Opened(q) \subseteq Nat
            /\ \A k \in DOMAIN q : k \in DOMAIN g /\ g[k] = q[k] /\ k < b
<1> DEFINE g == Append(q, tok)
           n == Len(q)
<1>1. /\ n \in Nat /\ DOMAIN q = 1 .. n /\ DOMAIN g = 1 .. n + 1 /\ g[n + 1] = tok
      /\ \A k \in 1 .. n : g[k] = q[k] /\ Len(g) = n + 1
  OBVIOUS
<1>2. Len(g) = n + 1
  OBVIOUS
<1> HIDE DEF g, n
<1>3. \A k : k \in Opened(g) <=> k \in Opened(q) \cup {n + 1}
  BY <1>1 DEF Opened
<1>4. \A k \in Opened(q) : k \in Nat /\ k < n + 1
  BY <1>1 DEF Opened
<1> QED BY <1>1, <1>2, <1>3, <1>4 DEF g, n

(* A group begins. *)
LEMMA OpenedLedger ==
  ASSUME NEW states \in Seq(path_state), states # <<>>, NEW new \in Seq(path_state),
         NEW f \in DOMAIN GroupOpener, Replaces(states, new, f),
         Last(states) \notin DOMAIN GroupOpener \cup {"expect_rparen"} \cup KeyTops,
         f \in {"multi_select_list", "filter", "function_expression"}
           \/ (f = "multi_select_hash" /\ Len(new) = Len(states)),
         NEW s, StacksOK(s), Ledger(states, s), NEW tok \in Token, tok.kind = GroupOpener[f],
         NEW t, t.output = Append(s.output, tok),
         t.operators = Append(s.operators, Tok("lparen"))
  PROVE  Ledger(new, t)
<1> DEFINE n == Len(states)
           b == Len(s.output) + 1
           l == Len(s.operators) + 1
           G == Groups(states)
           F == Frames(states)
           O == Opened(s.output)
           L == Lparens(s.operators)
<1>1. PICK lparen \in [F -> L], opener \in [G -> O] : LedgerBy(states, s, opener, lparen)
  BY DEF Ledger
<1>2. s.output \in Seq(Token) /\ s.operators \in Seq(Token) /\ tok.kind \in Openers
  BY Parts, Openings DEF Openers
<1>3. /\ Opened(t.output) = O \cup {b} /\ t.output[b] = tok /\ b = Len(t.output) /\ b \in Nat
      /\ O \subseteq Nat /\ \A k \in O : k < b
      /\ \A k \in DOMAIN s.output : k \in DOMAIN t.output /\ t.output[k] = s.output[k] /\ k < b
  BY <1>2, OpenerAdded
<1>4. /\ Lparens(t.operators) = L \cup {l} /\ l \in Nat
      /\ L \subseteq Nat /\ \A k \in L : k < l
  BY <1>2, LparenAdded
<1>5. /\ Groups(new) = G \cup {n} /\ new[n] = f
      /\ Frames(new) = F \cup {n}
      /\ \A i \in G : new[i] = states[i]
      /\ \A i \in F : i < n
      /\ \A e \in ExpressionTypes(new) : e \in ExpressionTypes(states) /\ e < n
  BY GroupBegun
<1>6. n \in Nat /\ G \subseteq Nat /\ F \subseteq Nat /\ G \subseteq F
  BY Positions DEF Frames
<1>7. \A i \in G : opener[i] \in O
  OBVIOUS
<1>14. Pairs(lparen, F, L) /\ Pairs(opener, G, O)
  BY <1>1 DEF LedgerBy
<1> HIDE DEF n, b, l, G, F, O, L
<1>15. PICK lparen1 : Grown(lparen1, lparen, F, L, n, l)
  BY <1>4, <1>5, <1>6, <1>14, PairAdded
<1>8. lparen1 \in [F \cup {n} -> L \cup {l}] /\ Pairs(lparen1, F \cup {n}, L \cup {l})
  BY <1>15 DEF Grown
<1>16. PICK opener1 : Grown(opener1, opener, G, O, n, b)
  <2>1. \A i \in G : i < n
    BY <1>5, <1>6
  <2>2. O \subseteq Nat /\ b \in Nat /\ \A k \in O : k < b
    BY <1>3
  <2>3. G \subseteq Nat /\ n \in Nat
    BY <1>6
  <2> QED BY <1>14, <2>1, <2>2, <2>3, PairAdded
<1>9. /\ opener1 \in [G \cup {n} -> O \cup {b}]
      /\ Pairs(opener1, G \cup {n}, O \cup {b})
      /\ \A i \in G : opener1[i] = opener[i]
      /\ opener1[n] = b
  BY <1>16 DEF Grown
<1>10. ASSUME NEW i \in Groups(new) PROVE t.output[opener1[i]].kind = GroupOpener[new[i]]
  <2>1. CASE i = n
    BY <1>3, <1>5, <1>9, <2>1
  <2>2. CASE i \in G
    <3>1. opener[i] \in DOMAIN s.output /\ s.output[opener[i]].kind = GroupOpener[states[i]]
      BY <1>1, <1>7, <2>2 DEF LedgerBy, Opened, O, G
    <3> QED BY <1>3, <1>5, <1>9, <2>2, <3>1
  <2> QED BY <1>5, <2>1, <2>2
<1>11. ASSUME NEW i \in Hashes(new)
       PROVE  KeyFollows(t.output, opener1[i]) \/ (InFirstKey(new, i) /\ OnTop(t, opener1[i]))
  <2>1. i \in G \cup {n} /\ GroupOpener[new[i]] = "begin_multi_select_hash"
    BY <1>5 DEF Hashes
  <2>2. CASE i = n
    <3>1. f = "multi_select_hash" /\ n = Len(new)
      BY <1>5, <2>1, <2>2, Openings DEF n
    <3>2. InFirstKey(new, n)
      BY <1>5, <3>1 DEF InFirstKey
    <3>3. t.operators # <<>> /\ Last(t.operators).kind = "lparen"
      BY <1>2, LparenAdded
    <3> QED BY <1>3, <1>9, <2>2, <3>2, <3>3 DEF OnTop
  <2>3. CASE i \in G
    <3>1. i \in Hashes(states)
      BY <1>5, <2>1, <2>3 DEF Hashes, G
    <3>2. KeyFollows(s.output, opener[i])
      BY <1>1, <3>1, NoFirstKey DEF LedgerBy
    <3> QED BY <1>3, <1>9, <2>3, <3>2 DEF KeyFollows
  <2> QED BY <2>1, <2>2, <2>3
<1>12. ASSUME NEW e \in ExpressionTypes(new)
       PROVE  \E k \in DOMAIN t.output :
                /\ t.output[k].kind = "begin_expression_type"
                /\ \A i \in Groups(new) : (i < e => opener1[i] < k) /\ (e < i => k < opener1[i])
  <2>1. e \in ExpressionTypes(states) /\ e < n /\ e \in Nat
    BY <1>5, Positions
  <2>2. PICK k \in DOMAIN s.output :
          /\ s.output[k].kind = "begin_expression_type"
          /\ \A i \in G : (i < e => opener[i] < k) /\ (e < i => k < opener[i])
    BY <1>1, <2>1 DEF LedgerBy, G
  <2>3. ASSUME NEW i \in G \cup {n} PROVE (i < e => opener1[i] < k) /\ (e < i => k < opener1[i])
    <3>1. CASE i = n
      BY <1>3, <1>6, <1>9, <2>1, <2>2, <3>1
    <3>2. CASE i \in G
      BY <1>9, <2>2, <3>2
    <3> QED BY <3>1, <3>2
  <2> QED BY <1>3, <1>5, <2>2, <2>3
<1>13. LedgerBy(new, t, opener1, lparen1)
  BY <1>3, <1>4, <1>5, <1>8, <1>9, <1>10, <1>11, <1>12 DEF LedgerBy
<1> QED BY <1>3, <1>4, <1>5, <1>8, <1>9, <1>13 DEF Ledger

(* A parenthesis is opened. *)
LEMMA ParenthesisLedger ==
  ASSUME NEW states \in Seq(path_state), states # <<>>, NEW new \in Seq(path_state),
         Replaces(states, new, "expect_rparen"),
         Last(states) \notin DOMAIN GroupOpener \cup {"expect_rparen"} \cup KeyTops,
         NEW s, StacksOK(s), Ledger(states, s),
         NEW t, t.output = s.output, t.operators = Append(s.operators, Tok("lparen"))
  PROVE  Ledger(new, t)
<1> DEFINE n == Len(states)
           l == Len(s.operators) + 1
           F == Frames(states)
           L == Lparens(s.operators)
<1>1. PICK lparen \in [F -> L], opener \in [Groups(states) -> Opened(s.output)] :
        LedgerBy(states, s, opener, lparen)
  BY DEF Ledger
<1>2. /\ Lparens(t.operators) = L \cup {l} /\ l \in Nat
      /\ L \subseteq Nat /\ \A k \in L : k < l
  BY Parts, LparenAdded
<1>3. /\ Groups(new) = Groups(states) /\ Frames(new) = F \cup {n}
      /\ \A i \in Groups(states) : new[i] = states[i]
      /\ \A i \in F : i < n
      /\ ExpressionTypes(new) \subseteq ExpressionTypes(states)
  BY ParenthesisBegun
<1>4. n \in Nat /\ F \subseteq Nat
  BY Positions
<1>9. Pairs(lparen, F, L)
  BY <1>1 DEF LedgerBy
<1> HIDE DEF n, l, F, L
<1>10. PICK lparen1 : Grown(lparen1, lparen, F, L, n, l)
  BY <1>2, <1>3, <1>4, <1>9, PairAdded
<1>5. lparen1 \in [F \cup {n} -> L \cup {l}] /\ Pairs(lparen1, F \cup {n}, L \cup {l})
  BY <1>10 DEF Grown
<1>6. /\ Pairs(opener, Groups(new), Opened(t.output))
      /\ \A i \in Groups(new) : t.output[opener[i]].kind = GroupOpener[new[i]]
  BY <1>1, <1>3 DEF LedgerBy
<1>7. \A i \in Hashes(new) : KeyFollows(t.output, opener[i])
  <2>1. \A i \in Hashes(new) : i \in Hashes(states)
    BY <1>3 DEF Hashes
  <2> QED BY <1>1, <2>1, NoFirstKey DEF LedgerBy
<1>8. LedgerBy(new, t, opener, lparen1)
  BY <1>1, <1>2, <1>3, <1>5, <1>6, <1>7 DEF LedgerBy
<1> QED BY <1>2, <1>3, <1>5, <1>8 DEF Ledger

(* The expression of an expression type begins. *)
LEMMA ExpressionTypeLedger ==
  ASSUME NEW states \in Seq(path_state), states # <<>>, NEW new \in Seq(path_state),
         Replaces(states, new, "expression_type"),
         Last(states) \notin DOMAIN GroupOpener \cup {"expect_rparen"} \cup KeyTops,
         NEW s, StacksOK(s), Ledger(states, s),
         NEW tok \in Token, tok.kind = "begin_expression_type",
         NEW t, t.output = Append(s.output, tok), t.operators = s.operators
  PROVE  Ledger(new, t)
<1> DEFINE n == Len(states)
           b == Len(s.output) + 1
<1>1. PICK lparen \in [Frames(states) -> Lparens(s.operators)],
           opener \in [Groups(states) -> Opened(s.output)] : LedgerBy(states, s, opener, lparen)
  BY DEF Ledger
<1>2. KeptOutput(s.output, t.output)
  <2>1. s.output \in Seq(Token) /\ tok.kind \notin Openers
    BY Parts DEF Openers
  <2> QED BY <2>1, OutputPut
<1>3. /\ b \in DOMAIN t.output /\ t.output[b] = tok
      /\ \A k \in DOMAIN s.output : k < b
      /\ Opened(s.output) \subseteq DOMAIN s.output
  <2>1. s.output \in Seq(Token)
    BY Parts
  <2> QED BY <2>1 DEF Opened
<1>4. /\ Groups(new) = Groups(states) /\ Frames(new) = Frames(states)
      /\ \A i \in Groups(states) : i < n /\ new[i] = states[i]
      /\ \A e \in ExpressionTypes(new) : e \in ExpressionTypes(states) \/ e = n
  BY ExpressionTypeBegun
<1>5. n \in Nat /\ Groups(states) \subseteq Nat
  BY Positions
<1> HIDE DEF n, b
<1>6. \A i \in Groups(states) : opener[i] \in Opened(s.output)
  OBVIOUS
<1>7. /\ Pairs(opener, Groups(new), Opened(t.output))
      /\ \A i \in Groups(new) : t.output[opener[i]].kind = GroupOpener[new[i]]
  BY <1>1, <1>2, <1>4, <1>6 DEF LedgerBy, KeptOutput
<1>8. \A i \in Hashes(new) : KeyFollows(t.output, opener[i])
  <2>1. \A i \in Hashes(new) : i \in Hashes(states) /\ i \in Groups(states)
    BY <1>4 DEF Hashes
  <2>2. \A i \in Hashes(new) : KeyFollows(s.output, opener[i])
    BY <1>1, <2>1, NoFirstKey DEF LedgerBy
  <2> QED BY <1>2, <1>6, <2>1, <2>2 DEF KeptOutput
<1>9. ASSUME NEW e \in ExpressionTypes(new)
      PROVE  \E k \in DOMAIN t.output :
               /\ t.output[k].kind = "begin_expression_type"
               /\ \A i \in Groups(new) : (i < e => opener[i] < k) /\ (e < i => k < opener[i])
  <2>1. CASE e = n
    <3>1. \A i \in Groups(new) : opener[i] < b /\ ~(n < i)
      BY <1>3, <1>4, <1>5, <1>6
    <3> QED BY <1>3, <2>1, <3>1
  <2>2. CASE e \in ExpressionTypes(states)
    <3>1. PICK k \in DOMAIN s.output :
            /\ s.output[k].kind = "begin_expression_type"
            /\ \A i \in Groups(states) : (i < e => opener[i] < k) /\ (e < i => k < opener[i])
      BY <1>1, <2>2 DEF LedgerBy
    <3>2. k \in DOMAIN t.output /\ t.output[k].kind = "begin_expression_type"
      BY <1>2, <3>1 DEF KeptOutput
    <3> QED BY <1>4, <3>1, <3>2
  <2> QED BY <1>4, <2>1, <2>2
<1>10. LedgerBy(new, t, opener, lparen)
  BY <1>1, <1>4, <1>7, <1>8, <1>9 DEF LedgerBy
<1> QED BY <1>2, <1>4, <1>10 DEF Ledger, KeptOutput

LEMMA LastAtUnique ==
  ASSUME NEW kind, NEW q \in Seq(Token), NEW b \in 1 .. Len(q), q[b].kind = kind,
         \A k \in 1 .. Len(q) : k > b => q[k].kind # kind
  PROVE  LastAt(kind, q) = b
<1>1. IsLastAt(kind, q, b)
  BY DEF IsLastAt
<1>2. \A i \in 1 .. Len(q) : IsLastAt(kind, q, i) => i = b
  BY DEF IsLastAt
<1> QED BY <1>1, <1>2 DEF LastAt

(* What closing the group whose beginning is at b takes off the two stacks. *)
Closing(s, t, b) ==
  /\ Opened(t.output) = Opened(s.output) \ {b}
  /\ \A k \in Opened(s.output) : k < b =>
       t.output[k] = s.output[k] /\ (KeyFollows(s.output, k) => KeyFollows(t.output, k))
  /\ \A k \in DOMAIN s.output : k < b /\ s.output[k].kind = "begin_expression_type" =>
       k \in DOMAIN t.output /\ t.output[k].kind = "begin_expression_type"
  /\ \E p \in Lparens(s.operators) :
       /\ \A k \in Lparens(s.operators) : k <= p
       /\ Lparens(t.operators) = Lparens(s.operators) \ {p}

LEMMA HashesOf ==
  ASSUME NEW states \in Seq(path_state), states # <<>>, Last(states) \in DOMAIN GroupOpener
  PROVE  \A i \in Hashes(states) \ {Len(states)} : ~InFirstKey(states, i)
<1> SUFFICES ASSUME NEW i \in Hashes(states), i # Len(states), InFirstKey(states, i)
             PROVE  FALSE
  OBVIOUS
<1>1. /\ Len(states) \in DOMAIN states /\ Last(states) = states[Len(states)]
      /\ i \in DOMAIN states /\ Len(states) \in Nat /\ DOMAIN states = 1 .. Len(states)
  BY DEF Last, Hashes, Groups
<1>2. /\ i + 1 \in DOMAIN states /\ states[i+1] = "key_expr"
      /\ \A j \in DOMAIN states : j > i + 1 => states[j] \in KeyTextStates
  BY DEF InFirstKey
<1>3. Last(states) \in {"key_expr"} \cup KeyTextStates
  <2>1. Len(states) = i + 1 \/ Len(states) > i + 1
    BY <1>1, <1>2
  <2> QED BY <1>1, <1>2, <2>1
<1>4. DOMAIN GroupOpener \cap ({"key_expr"} \cup KeyTextStates) = {}
  BY Openings DEF KeyTextStates, EscapeStates
<1> QED BY <1>3, <1>4

(* The innermost group ends. *)
LEMMA ClosedLedger ==
  ASSUME NEW states \in Seq(path_state), states # <<>>, Last(states) \in DOMAIN GroupOpener,
         NEW s, StacksOK(s),
         NEW lparen \in [Frames(states) -> Lparens(s.operators)],
         NEW opener \in [Groups(states) -> Opened(s.output)], LedgerBy(states, s, opener, lparen),
         NEW t, Closing(s, t, opener[Len(states)])
  PROVE  Ledger(Front(states), t)
<1> DEFINE n == Len(states)
           b == opener[n]
           G == Groups(states)
           F == Frames(states)
           O == Opened(s.output)
           L == Lparens(s.operators)
           new == Front(states)
<1>1. /\ Groups(new) = G \ {n} /\ Frames(new) = F \ {n}
      /\ n \in G /\ n \in F
      /\ \A i \in Groups(new) : new[i] = states[i]
      /\ ExpressionTypes(new) \subseteq ExpressionTypes(states)
  BY GroupLeft DEF Frames
<1>2. /\ n \in Nat /\ G \subseteq Nat /\ F \subseteq Nat
      /\ \A i \in G : i <= n
      /\ \A i \in F : i <= n
      /\ \A e \in ExpressionTypes(new) : e < n /\ e \in Nat
  <2>1. new \in Seq(path_state) /\ Len(new) = n - 1 /\ n \in Nat
    <3>1. n \in Nat \ {0} /\ DOMAIN new = 1 .. n - 1 /\ new \in Seq(path_state)
      BY FrontStates
    <3> QED BY <3>1
  <2>2. ExpressionTypes(new) \subseteq 1 .. n - 1
    BY <2>1, Positions
  <2> QED BY <2>1, <2>2, Positions
<1>3. O \subseteq Nat /\ L \subseteq Nat
  <2>1. s.output \in Seq(Token) /\ s.operators \in Seq(Token)
    BY Parts
  <2> QED BY <2>1 DEF Opened, Lparens
<1>4. Pairs(lparen, F, L) /\ Pairs(opener, G, O)
  BY DEF LedgerBy
<1>5. /\ Opened(t.output) = O \ {b}
      /\ \A k \in O : k < b =>
           t.output[k] = s.output[k] /\ (KeyFollows(s.output, k) => KeyFollows(t.output, k))
      /\ \A k \in DOMAIN s.output : k < b /\ s.output[k].kind = "begin_expression_type" =>
           k \in DOMAIN t.output /\ t.output[k].kind = "begin_expression_type"
  BY DEF Closing
<1>6. PICK p \in L : (\A k \in L : k <= p) /\ Lparens(t.operators) = L \ {p}
  BY DEF Closing
<1>7. \A i \in G : opener[i] \in O
  OBVIOUS
<1>15. \A i \in F : lparen[i] \in L
  OBVIOUS
<1>16. lparen \in [F -> L] /\ opener \in [G -> O]
  OBVIOUS
<1>17. \A i \in G : s.output[opener[i]].kind = GroupOpener[states[i]]
  BY DEF LedgerBy
<1>18. \A i \in Hashes(states) :
         KeyFollows(s.output, opener[i]) \/ (InFirstKey(states, i) /\ OnTop(s, opener[i]))
  BY DEF LedgerBy
<1>19. \A e \in ExpressionTypes(states) :
         \E k \in DOMAIN s.output :
           /\ s.output[k].kind = "begin_expression_type"
           /\ \A i \in G : (i < e => opener[i] < k) /\ (e < i => k < opener[i])
  BY DEF LedgerBy
<1>20. \A i \in Hashes(states) \ {n} : ~InFirstKey(states, i)
  BY HashesOf
<1> HIDE DEF n, G, F, O, L, new
<1>9. lparen[n] = p /\ \E g : Shrunk(g, lparen, F, L, n)
  <2>0. /\ F \subseteq Nat /\ L \subseteq Nat /\ lparen \in [F -> L] /\ Pairs(lparen, F, L)
        /\ n \in F /\ \A i \in F : i <= n
    BY <1>1, <1>2, <1>3, <1>4, <1>16
  <2> DEFINE l == lparen[n]
  <2>1. l \in L /\ (\A k \in L : k <= l) /\ \E g : Shrunk(g, lparen, F, L, n)
    BY <2>0, PairRemoved
  <2> HIDE DEF l
  <2>2. l = p
    BY <1>3, <1>6, <2>1
  <2> QED BY <2>1, <2>2 DEF l
<1>22. PICK lparen1 : Shrunk(lparen1, lparen, F, L, n)
  BY <1>9
<1>8. lparen1 \in [F \ {n} -> L \ {lparen[n]}] /\ Pairs(lparen1, F \ {n}, L \ {lparen[n]})
  BY <1>22 DEF Shrunk
<1>23. PICK opener1 : Shrunk(opener1, opener, G, O, n)
  <2>1. /\ G \subseteq Nat /\ O \subseteq Nat /\ opener \in [G -> O] /\ Pairs(opener, G, O)
        /\ n \in G /\ \A i \in G : i <= n
    BY <1>1, <1>2, <1>3, <1>4, <1>16
  <2> QED BY <2>1, PairRemoved
<1>10. /\ opener1 \in [G \ {n} -> O \ {b}]
       /\ Pairs(opener1, G \ {n}, O \ {b})
       /\ \A i \in G \ {n} : opener1[i] = opener[i] /\ opener[i] < b
  BY <1>23 DEF Shrunk
<1>11. ASSUME NEW i \in Groups(new) PROVE t.output[opener1[i]].kind = GroupOpener[new[i]]
  <2>1. i \in G /\ opener1[i] = opener[i] /\ opener[i] < b /\ opener[i] \in O
    BY <1>1, <1>7, <1>10
  <2> QED BY <1>1, <1>5, <1>17, <2>1
<1>12. ASSUME NEW i \in Hashes(new) PROVE KeyFollows(t.output, opener1[i])
  <2>1. i \in Groups(new) /\ GroupOpener[new[i]] = "begin_multi_select_hash"
    BY DEF Hashes
  <2>2. i \in G /\ i # n /\ opener1[i] = opener[i] /\ opener[i] < b /\ opener[i] \in O
    BY <1>1, <1>7, <1>10, <2>1
  <2>3. i \in Hashes(states) \ {n}
    BY <1>1, <2>1, <2>2 DEF Hashes, G
  <2>4. KeyFollows(s.output, opener[i])
    BY <1>18, <1>20, <2>3
  <2> QED BY <1>5, <2>2, <2>4
<1>13. ASSUME NEW e \in ExpressionTypes(new)
       PROVE  \E k \in DOMAIN t.output :
                /\ t.output[k].kind = "begin_expression_type"
                /\ \A i \in Groups(new) : (i < e => opener1[i] < k) /\ (e < i => k < opener1[i])
  <2>1. PICK k \in DOMAIN s.output :
          /\ s.output[k].kind = "begin_expression_type"
          /\ \A i \in G : (i < e => opener[i] < k) /\ (e < i => k < opener[i])
    BY <1>1, <1>19
  <2>2. k < b
    BY <1>1, <1>2, <2>1
  <2> QED BY <1>1, <1>5, <1>10, <2>1, <2>2
<1>14. LedgerBy(new, t, opener1, lparen1)
  BY <1>1, <1>5, <1>6, <1>8, <1>9, <1>10, <1>11, <1>12, <1>13 DEF LedgerBy
<1>21. /\ lparen1 \in [Frames(new) -> Lparens(t.operators)]
       /\ opener1 \in [Groups(new) -> Opened(t.output)]
  BY <1>1, <1>5, <1>6, <1>8, <1>9, <1>10
<1> QED BY <1>14, <1>21 DEF Ledger, new

(* The innermost parenthesis is closed. *)
LEMMA ClosedParenthesis ==
  ASSUME NEW states \in Seq(path_state), states # <<>>, Last(states) = "expect_rparen",
         NEW new \in Seq(path_state), NEW f, f \notin Special, Replaces(states, new, f),
         NEW s, StacksOK(s), Ledger(states, s), NEW t, Unwinding(s, t)
  PROVE  Ledger(new, t)
<1> DEFINE n == Len(states)
           F == Frames(states)
           L == Lparens(s.operators)
           p == LastAt("lparen", s.operators)
<1>1. PICK lparen \in [F -> L], opener \in [Groups(states) -> Opened(s.output)] :
        LedgerBy(states, s, opener, lparen)
  BY DEF Ledger
<1>2. /\ Groups(new) = Groups(states) /\ Frames(new) = F \ {n} /\ n \in F
      /\ \A i \in Groups(states) : new[i] = states[i]
      /\ ExpressionTypes(new) \subseteq ExpressionTypes(states)
  BY ParenthesisLeft
<1>3. /\ F \subseteq Nat /\ \A i \in F : i <= n
  BY Positions
<1>4. L \subseteq Nat
  <2>1. s.operators \in Seq(Token)
    BY Parts
  <2> QED BY <2>1 DEF Lparens
<1>5. /\ KeptOutput(s.output, t.output)
      /\ p \in L /\ \A k \in L : k <= p
      /\ Lparens(t.operators) = L \ {p}
  BY DEF Unwinding
<1>6. Last(states) \notin KeyTops
  BY DEF KeyTops, KeyTextStates, EscapeStates
<1>7. Pairs(lparen, F, L)
  BY <1>1 DEF LedgerBy
<1>8. \A i \in Groups(states) : opener[i] \in Opened(s.output)
  OBVIOUS
<1> HIDE DEF n, F, L, p
<1>9. lparen[n] = p /\ \E g : Shrunk(g, lparen, F, L, n)
  <2>0. F \subseteq Nat /\ L \subseteq Nat /\ lparen \in [F -> L] /\ n \in F
    BY <1>2, <1>3, <1>4
  <2> DEFINE l == lparen[n]
  <2>1. l \in L /\ (\A k \in L : k <= l) /\ \E g : Shrunk(g, lparen, F, L, n)
    BY <1>3, <1>7, <2>0, PairRemoved
  <2> HIDE DEF l
  <2>2. l = p
    BY <1>4, <1>5, <2>1
  <2> QED BY <2>1, <2>2 DEF l
<1>10. PICK lparen1 : Shrunk(lparen1, lparen, F, L, n)
  BY <1>9
<1>11. /\ lparen1 \in [F \ {n} -> L \ {lparen[n]}] /\ Pairs(lparen1, F \ {n}, L \ {lparen[n]})
  BY <1>10 DEF Shrunk
<1>12. /\ Pairs(opener, Groups(new), Opened(t.output))
       /\ \A i \in Groups(new) : t.output[opener[i]].kind = GroupOpener[new[i]]
  BY <1>1, <1>2, <1>5, <1>8 DEF LedgerBy, KeptOutput
<1>13. \A i \in Hashes(new) : KeyFollows(t.output, opener[i])
  <2>1. \A i \in Hashes(new) : i \in Hashes(states) /\ i \in Groups(states)
    BY <1>2 DEF Hashes
  <2>2. \A i \in Hashes(new) : KeyFollows(s.output, opener[i])
    BY <1>1, <1>6, <2>1, NoFirstKey DEF LedgerBy
  <2> QED BY <1>5, <1>8, <2>1, <2>2 DEF KeptOutput
<1>14. ASSUME NEW e \in ExpressionTypes(new)
       PROVE  \E k \in DOMAIN t.output :
                /\ t.output[k].kind = "begin_expression_type"
                /\ \A i \in Groups(new) : (i < e => opener[i] < k) /\ (e < i => k < opener[i])
  <2>1. PICK k \in DOMAIN s.output :
          /\ s.output[k].kind = "begin_expression_type"
          /\ \A i \in Groups(states) : (i < e => opener[i] < k) /\ (e < i => k < opener[i])
    BY <1>1, <1>2 DEF LedgerBy
  <2>2. k \in DOMAIN t.output /\ t.output[k].kind = "begin_expression_type"
    BY <1>5, <2>1 DEF KeptOutput
  <2> QED BY <1>2, <2>1, <2>2
<1>15. LedgerBy(new, t, opener, lparen1)
  BY <1>2, <1>5, <1>9, <1>11, <1>12, <1>13, <1>14 DEF LedgerBy
<1>16. /\ lparen1 \in [Frames(new) -> Lparens(t.operators)]
       /\ opener \in [Groups(new) -> Opened(t.output)]
  BY <1>2, <1>5, <1>9, <1>11 DEF KeptOutput
<1> QED BY <1>15, <1>16 DEF Ledger

-----------------------------------------------------------------------------
(* The tokens that end a group find its beginning. *)

(* b is where the last group on output_stack_ begins. *)
LastOpened(q, b) == b \in Opened(q) /\ \A k \in Opened(q) : k <= b

LEMMA InnermostOpened ==
  ASSUME NEW states \in Seq(path_state), states # <<>>, Last(states) \in DOMAIN GroupOpener,
         NEW s, StacksOK(s),
         NEW lparen \in [Frames(states) -> Lparens(s.operators)],
         NEW opener \in [Groups(states) -> Opened(s.output)], LedgerBy(states, s, opener, lparen)
  PROVE  /\ LastOpened(s.output, opener[Len(states)])
         /\ s.output[opener[Len(states)]].kind = GroupOpener[Last(states)]
<1> DEFINE G == Groups(states)
           O == Opened(s.output)
           n == Len(states)
<1>1. n \in G /\ G \subseteq Nat /\ \A i \in G : i <= n
  BY GroupLeft, Positions
<1>2. O \subseteq Nat
  <2>1. s.output \in Seq(Token)
    BY Parts
  <2> QED BY <2>1 DEF Opened
<1>3. Pairs(opener, G, O) /\ s.output[opener[n]].kind = GroupOpener[states[n]]
  BY <1>1 DEF LedgerBy
<1>4. states[n] = Last(states)
  BY DEF Last
<1> HIDE DEF G, O, n
<1>5. opener \in [G -> O]
  BY DEF G, O
<1> DEFINE b == opener[n]
<1>6. b \in O /\ \A k \in O : k <= b
  BY <1>1, <1>2, <1>3, <1>5, PairRemoved
<1> QED BY <1>3, <1>4, <1>6 DEF LastOpened, O, n

(* What follows the last beginning are no beginnings, operators included. *)
LEMMA OpenedStays ==
  ASSUME NEW q \in Seq(Token), NEW b, LastOpened(q, b), NEW moved \in Seq(Token),
         \A k \in 1 .. Len(moved) : moved[k].kind \in Operators
  PROVE  LET w == q \o moved
         IN /\ w \in Seq(Token) /\ b \in 1 .. Len(w) /\ w[b] = q[b] /\ b \in 1 .. Len(q)
            /\ \A k \in 1 .. Len(w) : k > b => w[k].kind \notin Openers
            /\ \A k \in 1 .. Len(q) : k \in 1 .. Len(w) /\ w[k] = q[k]
            /\ q[b].kind \in Openers
<1> DEFINE w == q \o moved
<1>1. /\ DOMAIN q = 1 .. Len(q) /\ w \in Seq(Token) /\ Len(w) = Len(q) + Len(moved)
      /\ Len(q) \in Nat /\ Len(moved) \in Nat
      /\ \A k \in 1 .. Len(q) : w[k] = q[k]
      /\ \A k \in Len(q) + 1 .. Len(q) + Len(moved) : w[k] = moved[k - Len(q)]
  OBVIOUS
<1> HIDE DEF w
<1>2. b \in 1 .. Len(q) /\ \A k \in 1 .. Len(q) : k > b => q[k].kind \notin Openers
  BY <1>1 DEF LastOpened, Opened
<1>3. ASSUME NEW k \in 1 .. Len(w), k > b PROVE w[k].kind \notin Openers
  <2>1. CASE k <= Len(q)
    BY <1>1, <1>2, <1>3, <2>1
  <2>2. CASE k > Len(q)
    <3>1. k - Len(q) \in 1 .. Len(moved) /\ w[k] = moved[k - Len(q)]
      BY <1>1, <2>2
    <3> QED BY <3>1, OperatorsAreNoOpeners
  <2> QED BY <1>1, <2>1, <2>2
<1>4. q[b].kind \in Openers
  BY DEF LastOpened, Opened
<1> QED BY <1>1, <1>2, <1>3, <1>4 DEF w

LEMMA BeginningFound ==
  ASSUME NEW s, StacksOK(s), NEW u, Unwinding(s, u), NEW b, LastOpened(s.output, b)
  PROVE  /\ LastAt(s.output[b].kind, u.output) = b
         /\ u.output[b] = s.output[b] /\ b \in 1 .. Len(u.output)
<1>1. PICK moved \in Seq(Token) :
        /\ u.output = s.output \o moved
        /\ \A k \in 1 .. Len(moved) : moved[k].kind \in Operators
  BY DEF Unwinding
<1>2. s.output \in Seq(Token)
  BY Parts
<1>3. /\ u.output \in Seq(Token) /\ b \in 1 .. Len(u.output) /\ u.output[b] = s.output[b]
      /\ \A k \in 1 .. Len(u.output) : k > b => u.output[k].kind \notin Openers
      /\ s.output[b].kind \in Openers
  BY <1>1, <1>2, OpenedStays
<1> QED BY <1>3, LastAtUnique

LEMMA HashFound ==
  ASSUME NEW s, StacksOK(s), NEW u, Unwinding(s, u), NEW b, LastOpened(s.output, b),
         s.output[b].kind = "begin_multi_select_hash",
         KeyFollows(s.output, b) \/ OnTop(s, b)
  PROVE  HashBegin(u.output) = b
<1>1. PICK moved \in Seq(Token) :
        /\ u.output = s.output \o moved
        /\ \A k \in 1 .. Len(moved) : moved[k].kind \in Operators
        /\ LastAt("lparen", s.operators) = Len(s.operators) => moved = <<>>
  BY DEF Unwinding
<1>2. s.output \in Seq(Token)
  BY Parts
<1>3. /\ u.output \in Seq(Token) /\ b \in 1 .. Len(u.output) /\ u.output[b] = s.output[b]
      /\ \A k \in 1 .. Len(u.output) : k > b => u.output[k].kind \notin Openers
      /\ \A k \in 1 .. Len(s.output) : k \in 1 .. Len(u.output) /\ u.output[k] = s.output[k]
  BY <1>1, <1>2, OpenedStays
<1>4. IsHashBegin(u.output, b)
  <2>1. CASE KeyFollows(s.output, b)
    <3>1. b + 1 \in 1 .. Len(s.output) /\ s.output[b+1].kind = "key"
      BY <1>2, <2>1 DEF KeyFollows
    <3> QED BY <1>3, <3>1 DEF IsHashBegin
  <2>2. CASE OnTop(s, b)
    <3>1. LastAt("lparen", s.operators) = Len(s.operators)
      <4>1. /\ s.operators \in Seq(Token) /\ Len(s.operators) \in 1 .. Len(s.operators)
            /\ s.operators[Len(s.operators)].kind = "lparen"
        BY <2>2, Parts DEF OnTop, Last
      <4> QED BY <4>1, LastAtUnique
    <3>2. u.output = s.output
      BY <1>1, <1>2, <3>1
    <3> QED BY <1>3, <2>2, <3>2 DEF IsHashBegin, OnTop
  <2> QED BY <2>1, <2>2
<1>5. \A k \in 1 .. Len(u.output) : k > b => ~IsHashBegin(u.output, k)
  BY <1>3 DEF IsHashBegin, Openers
<1>6. IsLastHashBegin(u.output, b)
  BY <1>3, <1>4, <1>5 DEF IsLastHashBegin
<1>7. \A k \in 1 .. Len(u.output) : IsLastHashBegin(u.output, k) => k = b
  BY <1>3, <1>4, <1>5 DEF IsLastHashBegin
<1> QED BY <1>3, <1>6, <1>7 DEF HashBegin

(* The tokens from the last beginning on are taken off after an unwinding. *)
LEMMA TakenOff ==
  ASSUME NEW s, StacksOK(s), NEW u, StacksOK(u), Unwinding(s, u),
         NEW b, LastOpened(s.output, b), b \in 1 .. Len(u.output),
         NEW t, KeptOutput(SubSeq(u.output, 1, b - 1), t.output),
         Lparens(t.operators) = Lparens(u.operators)
  PROVE  Closing(s, t, b)
<1> DEFINE q == s.output
           w == SubSeq(u.output, 1, b - 1)
           r == t.output
<1>1. PICK moved \in Seq(Token) :
        /\ u.output = q \o moved
        /\ \A k \in 1 .. Len(moved) : moved[k].kind \in Operators
  BY DEF Unwinding
<1>2. q \in Seq(Token) /\ u.output \in Seq(Token) /\ b - 1 \in 0 .. Len(u.output)
  BY Parts
<1>3. /\ \A k \in 1 .. Len(q) : k \in 1 .. Len(u.output) /\ u.output[k] = q[k]
      /\ b \in 1 .. Len(q) /\ q[b].kind \in Openers
      /\ DOMAIN q = 1 .. Len(q) /\ Len(q) \in Nat
  <2> DEFINE v == q \o moved
  <2>1. v = u.output
    BY <1>1
  <2>2. /\ \A k \in 1 .. Len(q) : k \in 1 .. Len(v) /\ v[k] = q[k]
        /\ b \in 1 .. Len(q) /\ q[b].kind \in Openers
    BY <1>1, <1>2, OpenedStays
  <2> HIDE DEF v
  <2> QED BY <1>2, <2>1, <2>2
<1>4. /\ DOMAIN w = 1 .. b - 1
      /\ \A k \in 1 .. b - 1 : w[k] = u.output[k]
  BY <1>2, Prefix
<1>5. LastOpened(q, b) /\ KeptOutput(w, r)
  OBVIOUS
<1> HIDE DEF q, w, r
<1>6. \A k \in 1 .. Len(q) : k < b => k \in DOMAIN w /\ w[k] = q[k]
  BY <1>3, <1>4
<1>7. \A k \in DOMAIN w : k \in 1 .. Len(q) /\ k < b
  BY <1>3, <1>4
<1>8. \A k : k \in Opened(w) <=> k \in Opened(q) \ {b}
  <2>1. \A k \in Opened(q) \ {b} : k \in 1 .. Len(q) /\ k < b
    BY <1>3, <1>5 DEF LastOpened, Opened
  <2> QED BY <1>3, <1>6, <1>7, <2>1 DEF Opened
<1>9. Opened(r) = Opened(q) \ {b}
  BY <1>5, <1>8 DEF KeptOutput
<1>10. ASSUME NEW k \in Opened(q), k < b
       PROVE  r[k] = q[k] /\ (KeyFollows(q, k) => KeyFollows(r, k))
  <2>1. k \in 1 .. Len(q) /\ k \in Opened(w)
    BY <1>3, <1>8, <1>10 DEF Opened
  <2>2. r[k] = w[k] /\ w[k] = q[k] /\ (KeyFollows(w, k) => KeyFollows(r, k))
    BY <1>5, <1>6, <1>10, <2>1 DEF KeptOutput
  <2>3. ASSUME KeyFollows(q, k) PROVE KeyFollows(w, k)
    <3>1. k + 1 \in 1 .. Len(q) /\ q[k+1].kind = "key" /\ k + 1 # b
      BY <1>3, <2>3 DEF KeyFollows, Openers
    <3>2. k + 1 < b
      BY <1>3, <1>10, <2>1, <3>1
    <3> QED BY <1>6, <3>1, <3>2 DEF KeyFollows
  <2> QED BY <2>2, <2>3
<1>11. \A k \in DOMAIN q : k < b /\ q[k].kind = "begin_expression_type" =>
         k \in DOMAIN r /\ r[k].kind = "begin_expression_type"
  BY <1>3, <1>5, <1>6 DEF KeptOutput
<1>12. \E p \in Lparens(s.operators) :
         /\ \A k \in Lparens(s.operators) : k <= p
         /\ Lparens(t.operators) = Lparens(s.operators) \ {p}
  BY DEF Unwinding
<1> QED BY <1>9, <1>10, <1>11, <1>12 DEF Closing, q, r

(* output_stack_ cut below b. *)
CutBelow(u, b, ls) == Record(SubSeq(u.output, 1, b - 1), u.operators, u.ec, ls)

LEMMA CutIs ==
  ASSUME NEW u, StacksOK(u), NEW b \in 1 .. Len(u.output), u.output[b].kind \in Openers, NEW ls
  PROVE  /\ [u EXCEPT !.output = SubSeq(@, 1, b - 1), !.lists = ls] = CutBelow(u, b, ls)
         /\ StacksOK(CutBelow(u, b, ls))
<1> DEFINE r == [u EXCEPT !.output = SubSeq(@, 1, b - 1), !.lists = ls]
           q == SubSeq(u.output, 1, b - 1)
<1>1. StacksOK(r)
  BY GroupTaken
<1>2. r = Record(q, u.operators, u.ec, ls)
  <2>1. u = Record(u.output, u.operators, u.ec, u.lists)
    BY Parts
  <2> DEFINE v == [u EXCEPT !.output = q]
  <2> HIDE DEF q
  <2>2. [u EXCEPT !.output = q, !.lists = ls] = [v EXCEPT !.lists = ls]
    OBVIOUS
  <2>3. v = Record(q, u.operators, u.ec, u.lists)
    BY <2>1 DEF Record
  <2> HIDE DEF v
  <2>4. [v EXCEPT !.lists = ls] = Record(q, u.operators, u.ec, ls)
    BY <2>3 DEF Record
  <2> QED BY <2>2, <2>4 DEF q
<1> HIDE DEF r
<1>3. StacksOK(Record(q, u.operators, u.ec, ls))
  BY <1>1, <1>2
<1> QED BY <1>2, <1>3 DEF CutBelow, r

(* What is put on it then. *)
LEMMA CutThenAdd ==
  ASSUME NEW u, StacksOK(u), NEW b \in 1 .. Len(u.output), u.output[b].kind \in Openers,
         NEW ls, NEW tok, NEW expr \in Token, expr.kind = "expression",
         AddExpression(CutBelow(u, b, ls), tok, expr).ec = NoError
  PROVE  /\ KeptOutput(SubSeq(u.output, 1, b - 1), AddExpression(CutBelow(u, b, ls), tok, expr).output)
         /\ Lparens(AddExpression(CutBelow(u, b, ls), tok, expr).operators) = Lparens(u.operators)
         /\ u.ec = NoError
<1> DEFINE r == CutBelow(u, b, ls)
           q == SubSeq(u.output, 1, b - 1)
<1>1. StacksOK(r)
  BY CutIs
<1>2. r.output = q /\ r.operators = u.operators /\ r.ec = u.ec
  BY DEF CutBelow, Record
<1> HIDE DEF r, q
<1>3. Neutral(r, AddExpression(r, tok, expr))
  BY <1>1, AddNeutral DEF Openers
<1>4. AddExpression(r, tok, expr).ec = NoError
  BY DEF r
<1>5. r.ec = NoError /\ Kept(r, AddExpression(r, tok, expr))
  BY <1>3, <1>4 DEF Neutral
<1> QED BY <1>2, <1>5 DEF Kept, q, r

(* The groups whose tokens are captured. *)
LEMMA CaptureIs ==
  ASSUME NEW u, StacksOK(u), NEW b \in 1 .. Len(u.output), u.output[b].kind \in Openers,
         NEW ls, NEW tok, NEW expr, Capture(u, b, ls, tok, expr).ec = NoError
  PROVE  Capture(u, b, ls, tok, expr) =
           AddExpression(CutBelow(u, b, u.lists \cup {Prefixed(l) : l \in ls}), tok, expr)
<1> DEFINE ls1 == u.lists \cup {Prefixed(l) : l \in ls}
           r == [u EXCEPT !.output = SubSeq(@, 1, b - 1), !.lists = ls1]
<1>1. SetError(u, Undefined).ec # NoError
  BY ErrorParts DEF Undefined, NoError
<1>2. Capture(u, b, ls, tok, expr) = AddExpression(r, tok, expr)
  BY <1>1 DEF Capture
<1> HIDE DEF ls1
<1>3. r = CutBelow(u, b, ls1)
  BY CutIs
<1> QED BY <1>2, <1>3 DEF ls1

LEMMA CaptureCloses ==
  ASSUME NEW s, StacksOK(s), NEW b, LastOpened(s.output, b),
         NEW ls, NEW tok, NEW expr \in Token, expr.kind = "expression",
         Capture(unwind_rparen(s), b, ls, tok, expr).ec = NoError,
         unwind_rparen(s).ec = NoError
  PROVE  Closing(s, Capture(unwind_rparen(s), b, ls, tok, expr), b)
<1> DEFINE u == unwind_rparen(s)
           t == Capture(u, b, ls, tok, expr)
<1>1. StacksOK(u) /\ Unwinding(s, u)
  BY Unwound, Unwinds
<1>2. b \in 1 .. Len(u.output) /\ u.output[b].kind \in Openers
  <2>1. s.output[b].kind \in Openers
    BY DEF LastOpened, Opened
  <2> QED BY <1>1, <2>1, BeginningFound
<1>3. t.ec = NoError
  OBVIOUS
<1> HIDE DEF u
<1> DEFINE all == u.lists \cup {Prefixed(l) : l \in ls}
<1>4. t = AddExpression(CutBelow(u, b, all), tok, expr)
  BY <1>1, <1>2, <1>3, CaptureIs
<1> HIDE DEF t, all
<1>5. /\ KeptOutput(SubSeq(u.output, 1, b - 1), t.output)
      /\ Lparens(t.operators) = Lparens(u.operators)
  BY <1>1, <1>2, <1>3, <1>4, CutThenAdd
<1>6. Closing(s, t, b)
  BY <1>1, <1>2, <1>5, TakenOff
<1> QED BY <1>6 DEF t, u

LEMMA CaptureSound ==
  ASSUME NEW u, StacksOK(u), NEW b \in 1 .. Len(u.output), u.output[b].kind \in Openers,
         NEW ls, NEW tok, NEW expr \in Token, expr.kind = "expression",
         Capture(u, b, ls, tok, expr).ec = NoError
  PROVE  u.ec = NoError
<1> DEFINE t == Capture(u, b, ls, tok, expr)
           all == u.lists \cup {Prefixed(l) : l \in ls}
<1>1. t = AddExpression(CutBelow(u, b, all), tok, expr)
  BY CaptureIs
<1>2. t.ec = NoError
  OBVIOUS
<1> HIDE DEF t, all
<1> QED BY <1>1, <1>2, CutThenAdd

LEMMA FilterTakes ==
  ASSUME NEW s, StacksOK(s), NEW b, LastOpened(s.output, b),
         s.output[b].kind = "begin_filter", EndFilter(s).ec = NoError
  PROVE  LET u == unwind_rparen(s)
         IN /\ u.ec = NoError
            /\ EndFilter(s) =
                 Capture(u, b, {After(b, u.output)}, Tok("end_filter"), Expression("projection_op"))
<1> DEFINE u == unwind_rparen(s)
           a == LastAt("begin_filter", u.output)
           ls == {After(a, u.output)}
           t == Capture(u, a, ls, Tok("end_filter"), Expression("projection_op"))
<1>1. StacksOK(u) /\ EndFilter(s).ec = NoError
  BY Unwound
<1>2. Expression("projection_op") \in Token /\ Expression("projection_op").kind = "expression"
  BY TokensMade DEF Opers, ProjectionOpers, Expression
<1>3. SetError(u, "unbalanced_braces").ec # NoError
  <2> HIDE DEF u
  <2>1. SetError(u, "unbalanced_braces").ec = "unbalanced_braces"
    BY <1>1, ErrorParts
  <2> QED BY <2>1 DEF NoError
<1>4. a # 0 /\ EndFilter(s) = t
  BY <1>1, <1>3 DEF EndFilter
<1> HIDE DEF u, ls
<1>5. a \in 1 .. Len(u.output) /\ u.output[a].kind \in Openers
  <2>1. a \in 0 .. Len(u.output) /\ u.output[a].kind = "begin_filter" /\ u.output \in Seq(Token)
    BY <1>1, <1>4, LastAtIndex, Parts
  <2> HIDE DEF a
  <2> QED BY <1>4, <2>1 DEF Openers
<1>6. t.ec = NoError
  BY <1>1, <1>4
<1> HIDE DEF a
<1>7. u.ec = NoError
  BY <1>1, <1>2, <1>5, <1>6, CaptureSound
<1>8. a = b
  BY <1>7, Unwinds, BeginningFound DEF u, a
<1> QED BY <1>4, <1>7, <1>8 DEF u, ls

LEMMA FilterCloses ==
  ASSUME NEW s, StacksOK(s), NEW b, LastOpened(s.output, b),
         s.output[b].kind = "begin_filter", EndFilter(s).ec = NoError
  PROVE  Closing(s, EndFilter(s), b)
<1>1. Expression("projection_op") \in Token /\ Expression("projection_op").kind = "expression"
  BY TokensMade DEF Opers, ProjectionOpers, Expression
<1>2. PICK ls : /\ unwind_rparen(s).ec = NoError
                /\ EndFilter(s) = Capture(unwind_rparen(s), b, ls, Tok("end_filter"),
                                          Expression("projection_op"))
  BY FilterTakes
<1> QED BY <1>1, <1>2, CaptureCloses

LEMMA ListTakes ==
  ASSUME NEW s, StacksOK(s), NEW b, LastOpened(s.output, b),
         s.output[b].kind = "begin_multi_select_list", EndMultiSelectList(s).ec = NoError
  PROVE  LET u == unwind_rparen(s)
         IN /\ u.ec = NoError
            /\ EndMultiSelectList(s) =
                 Capture(u, b, Elements(After(b, u.output)), Tok("end_multi_select_list"), Selector)
<1> DEFINE u == unwind_rparen(s)
           a == LastAt("begin_multi_select_list", u.output)
           ls == Elements(After(a, u.output))
           t == Capture(u, a, ls, Tok("end_multi_select_list"), Selector)
<1>1. StacksOK(u) /\ EndMultiSelectList(s).ec = NoError
  BY Unwound
<1>2. Selector \in Token /\ Selector.kind = "expression"
  BY TokensMade DEF Selector, Expression
<1>3. SetError(u, Undefined).ec # NoError
  <2> HIDE DEF u
  <2>1. SetError(u, Undefined).ec = Undefined
    BY <1>1, ErrorParts
  <2> QED BY <2>1 DEF NoError, Undefined
<1>4. a # 0 /\ EndMultiSelectList(s) = t
  BY <1>1, <1>3 DEF EndMultiSelectList
<1> HIDE DEF u, ls
<1>5. a \in 1 .. Len(u.output) /\ u.output[a].kind \in Openers
  <2>1. a \in 0 .. Len(u.output) /\ u.output[a].kind = "begin_multi_select_list"
        /\ u.output \in Seq(Token)
    BY <1>1, <1>4, LastAtIndex, Parts
  <2> HIDE DEF a
  <2> QED BY <1>4, <2>1 DEF Openers
<1>6. t.ec = NoError
  BY <1>1, <1>4
<1> HIDE DEF a
<1>7. u.ec = NoError
  BY <1>1, <1>2, <1>5, <1>6, CaptureSound
<1>8. a = b
  BY <1>7, Unwinds, BeginningFound DEF u, a
<1> QED BY <1>4, <1>7, <1>8 DEF u, ls

LEMMA ListCloses ==
  ASSUME NEW s, StacksOK(s), NEW b, LastOpened(s.output, b),
         s.output[b].kind = "begin_multi_select_list", EndMultiSelectList(s).ec = NoError
  PROVE  Closing(s, EndMultiSelectList(s), b)
<1>1. Selector \in Token /\ Selector.kind = "expression"
  BY TokensMade DEF Selector, Expression
<1> QED BY <1>1, ListTakes, CaptureCloses

LEMMA HashTakes ==
  ASSUME NEW s, StacksOK(s), NEW b, LastOpened(s.output, b),
         s.output[b].kind = "begin_multi_select_hash",
         KeyFollows(s.output, b) \/ OnTop(s, b), EndMultiSelectHash(s).ec = NoError
  PROVE  LET u == unwind_rparen(s)
         IN /\ u.ec = NoError
            /\ EndMultiSelectHash(s) =
                 Capture(u, b, HashValues(u.output, b), Tok("end_multi_select_hash"), Selector)
<1> DEFINE u == unwind_rparen(s)
           a == HashBegin(u.output)
           ls == HashValues(u.output, a)
           t == Capture(u, a, ls, Tok("end_multi_select_hash"), Selector)
<1>1. StacksOK(u) /\ EndMultiSelectHash(s).ec = NoError
  BY Unwound
<1>2. Selector \in Token /\ Selector.kind = "expression"
  BY TokensMade DEF Selector, Expression
<1>3. SetError(u, Undefined).ec # NoError
  <2> HIDE DEF u
  <2>1. SetError(u, Undefined).ec = Undefined
    BY <1>1, ErrorParts
  <2> QED BY <2>1 DEF NoError, Undefined
<1>4. a # 0 /\ EndMultiSelectHash(s) = t
  BY <1>1, <1>3 DEF EndMultiSelectHash
<1> HIDE DEF u, ls
<1>5. a \in 1 .. Len(u.output) /\ u.output[a].kind \in Openers
  <2>1. a \in 0 .. Len(u.output) /\ u.output[a].kind = "begin_multi_select_hash"
        /\ u.output \in Seq(Token)
    BY <1>1, <1>4, HashBeginIndex, Parts
  <2> HIDE DEF a
  <2> QED BY <1>4, <2>1 DEF Openers
<1>6. t.ec = NoError
  BY <1>1, <1>4
<1> HIDE DEF a
<1>7. u.ec = NoError
  BY <1>1, <1>2, <1>5, <1>6, CaptureSound
<1>8. a = b
  BY <1>7, Unwinds, HashFound DEF u, a
<1> QED BY <1>4, <1>7, <1>8 DEF u, ls

LEMMA HashCloses ==
  ASSUME NEW s, StacksOK(s), NEW b, LastOpened(s.output, b),
         s.output[b].kind = "begin_multi_select_hash",
         KeyFollows(s.output, b) \/ OnTop(s, b), EndMultiSelectHash(s).ec = NoError
  PROVE  Closing(s, EndMultiSelectHash(s), b)
<1>1. Selector \in Token /\ Selector.kind = "expression"
  BY TokensMade DEF Selector, Expression
<1> QED BY <1>1, HashTakes, CaptureCloses

LEMMA FunctionCloses ==
  ASSUME NEW s, StacksOK(s), NEW b, LastOpened(s.output, b),
         s.output[b].kind = "function", EndFunction(s).ec = NoError
  PROVE  Closing(s, EndFunction(s), b)
<1> DEFINE u == unwind_rparen(s)
           a == LastAt("function", u.output)
           f == u.output[a]
           toks == After(a, u.output)
           ls == u.lists \cup {Append(Prefixed(SwapArguments(toks)), f)}
           r == [u EXCEPT !.output = SubSeq(@, 1, a - 1), !.lists = ls]
           t == AddExpression(r, Tok("end_function"), Selector)
<1>1. StacksOK(u) /\ EndFunction(s).ec = NoError
  BY Unwound
<1>2. Selector \in Token /\ Selector.kind = "expression"
  BY TokensMade DEF Selector, Expression
<1>3. /\ SetError(u, Undefined).ec # NoError
      /\ SetError(u, "unbalanced_parentheses").ec # NoError
      /\ SetError(u, "invalid_arity").ec # NoError
  <2> HIDE DEF u
  <2>1. \A e : SetError(u, e).ec = e
    BY <1>1, ErrorParts
  <2> QED BY <2>1 DEF NoError, Undefined
<1>4. a # 0 /\ EndFunction(s) = t
  BY <1>1, <1>3 DEF EndFunction
<1>9. t.ec = NoError
  BY <1>1, <1>4
<1> HIDE DEF u, ls
<1>5. a \in 1 .. Len(u.output) /\ u.output[a].kind \in Openers
  <2>1. a \in 0 .. Len(u.output) /\ u.output[a].kind = "function" /\ u.output \in Seq(Token)
    BY <1>1, <1>4, LastAtIndex, Parts
  <2> HIDE DEF a
  <2> QED BY <1>4, <2>1 DEF Openers
<1> HIDE DEF a
<1>6. t = AddExpression(CutBelow(u, a, ls), Tok("end_function"), Selector)
  <2>1. r = CutBelow(u, a, ls)
    BY <1>1, <1>5, CutIs
  <2> QED BY <2>1
<1> HIDE DEF t
<1>7. /\ KeptOutput(SubSeq(u.output, 1, a - 1), t.output)
      /\ Lparens(t.operators) = Lparens(u.operators)
      /\ u.ec = NoError
  BY <1>1, <1>2, <1>5, <1>6, <1>9, CutThenAdd
<1>8. a = b /\ Unwinding(s, u)
  BY <1>7, Unwinds, BeginningFound DEF u, a
<1>10. Closing(s, t, b)
  BY <1>1, <1>5, <1>7, <1>8, TakenOff
<1> QED BY <1>4, <1>10

(* The token that ends the group of a state. *)
Ends(kind, state) ==
  \/ kind = "end_filter" /\ state = "filter"
  \/ kind = "end_multi_select_list" /\ state = "multi_select_list"
  \/ kind = "end_multi_select_hash" /\ state \in {"multi_select_hash", "expect_rbrace"}
  \/ kind = "end_function" /\ state = "function_expression"

LEMMA EndedLedger ==
  ASSUME NEW states \in Seq(path_state), states # <<>>, NEW s, StacksOK(s), Ledger(states, s),
         NEW tok, Ends(tok.kind, Last(states)), push_token(tok, s).ec = NoError
  PROVE  Ledger(Front(states), push_token(tok, s))
<1> DEFINE n == Len(states)
<1>1. PICK lparen \in [Frames(states) -> Lparens(s.operators)],
           opener \in [Groups(states) -> Opened(s.output)] : LedgerBy(states, s, opener, lparen)
  BY DEF Ledger
<1>2. Last(states) \in DOMAIN GroupOpener /\ n \in Groups(states) /\ states[n] = Last(states)
  BY Openings, GroupLeft DEF Ends, Last
<1> DEFINE b == opener[n]
<1>3. LastOpened(s.output, b) /\ s.output[b].kind = GroupOpener[Last(states)]
  BY <1>1, <1>2, InnermostOpened
<1>4. GroupOpener[Last(states)] = "begin_multi_select_hash" =>
        KeyFollows(s.output, b) \/ OnTop(s, b)
  BY <1>1, <1>2 DEF LedgerBy, Hashes
<1> HIDE DEF b
<1> DEFINE t == push_token(tok, s)
<1>6. t.ec = NoError
  OBVIOUS
<1>5. Closing(s, t, b)
  <2>1. CASE tok.kind = "end_filter" /\ Last(states) = "filter"
    <3>0. s.output[b].kind = "begin_filter"
      BY <1>3, <2>1, Openings
    <3>1. t = EndFilter(s)
      BY <2>1 DEF push_token, Operators, Openers
    <3> QED BY <1>3, <1>6, <3>0, <3>1, FilterCloses
  <2>2. CASE tok.kind = "end_multi_select_list" /\ Last(states) = "multi_select_list"
    <3>0. s.output[b].kind = "begin_multi_select_list"
      BY <1>3, <2>2, Openings
    <3>1. t = EndMultiSelectList(s)
      BY <2>2 DEF push_token, Operators, Openers
    <3> QED BY <1>3, <1>6, <3>0, <3>1, ListCloses
  <2>3. CASE tok.kind = "end_multi_select_hash"
             /\ Last(states) \in {"multi_select_hash", "expect_rbrace"}
    <3>0. s.output[b].kind = "begin_multi_select_hash"
      BY <1>3, <2>3, Openings
    <3>1. t = EndMultiSelectHash(s)
      BY <2>3 DEF push_token, Operators, Openers
    <3>2. KeyFollows(s.output, b) \/ OnTop(s, b)
      BY <1>3, <1>4, <3>0
    <3> QED BY <1>3, <1>6, <3>0, <3>1, <3>2, HashCloses
  <2>4. CASE tok.kind = "end_function" /\ Last(states) = "function_expression"
    <3>0. s.output[b].kind = "function"
      BY <1>3, <2>4, Openings
    <3>1. t = EndFunction(s)
      BY <2>4 DEF push_token, Operators, Openers
    <3> QED BY <1>3, <1>6, <3>0, <3>1, FunctionCloses
  <2> QED BY <2>1, <2>2, <2>3, <2>4 DEF Ends
<1> HIDE DEF t
<1>7. Ledger(Front(states), t)
  BY <1>1, <1>2, <1>5, ClosedLedger DEF b
<1> QED BY <1>7 DEF t

(* end_expression_type cuts output_stack_ above every group that is open. *)
LEMMA ExpressionTypeTaken ==
  ASSUME NEW s, StacksOK(s), EndExpressionType(s).ec = NoError,
         NEW k \in DOMAIN s.output, s.output[k].kind = "begin_expression_type",
         \A i \in Opened(s.output) : i < k
  PROVE  s.ec = NoError /\ Kept(s, EndExpressionType(s))
<1> DEFINE b == LastAt("begin_expression_type", s.output)
           toks == After(b, s.output)
           q == SubSeq(s.output, 1, b)
           ls == s.lists \cup {Prefixed(toks)}
           r == [s EXCEPT !.output = SubSeq(@, 1, b), !.lists = @ \cup {Prefixed(toks)}]
<1>1. s.output \in Seq(Token) /\ s = Record(s.output, s.operators, s.ec, s.lists)
  BY Parts
<1>2. SetError(s, Undefined).ec # NoError /\ SetError(s, Throws).ec # NoError
  BY ErrorParts DEF NoError, Undefined, Throws
<1>3. b # 0 /\ EndExpressionType(s) = Put(r, Selector)
  BY <1>2 DEF EndExpressionType
<1>4. b \in 1 .. Len(s.output) /\ IsLastAt("begin_expression_type", s.output, b)
  BY <1>3, LastAtIs
<1>5. r = Record(q, s.operators, s.ec, ls)
  <2> DEFINE v == [s EXCEPT !.output = q]
  <2>1. r = [v EXCEPT !.lists = ls]
    <3> HIDE DEF b, toks
    <3> QED OBVIOUS
  <2> HIDE DEF q, ls, r
  <2>3. v = Record(q, s.operators, s.ec, s.lists)
    BY <1>1 DEF Record
  <2> HIDE DEF v
  <2>4. [v EXCEPT !.lists = ls] = Record(q, s.operators, s.ec, ls)
    BY <2>3 DEF Record
  <2> QED BY <2>1, <2>4
<1>6. q \in Seq(Token) /\ KeptOutput(s.output, q)
  <2>1. k <= b /\ b \in Nat /\ \A i \in Opened(s.output) : i \in Nat
    <3> HIDE DEF b
    <3>1. DOMAIN s.output = 1 .. Len(s.output) /\ Len(s.output) \in Nat
      BY <1>1
    <3>2. ~(k \in b + 1 .. Len(s.output))
      BY <1>4 DEF IsLastAt
    <3>3. \A i \in Opened(s.output) : i \in 1 .. Len(s.output)
      BY <3>1 DEF Opened
    <3> DEFINE m == Len(s.output)
    <3> HIDE DEF m
    <3>4. m \in Nat /\ k \in 1 .. m /\ ~(k \in b + 1 .. m) /\ b \in 1 .. m
      BY <1>4, <3>1, <3>2 DEF m
    <3>5. k <= b /\ b \in Nat
      BY <3>4
    <3> QED BY <3>3, <3>5
  <2>2. \A i \in Opened(s.output) : i < b
    <3> HIDE DEF b
    <3>1. DOMAIN s.output = 1 .. Len(s.output) /\ Len(s.output) \in Nat
      BY <1>1
    <3> QED BY <2>1, <3>1
  <2>3. b \in 0 .. Len(s.output)
    <3> HIDE DEF b
    <3>1. Len(s.output) \in Nat
      BY <1>1
    <3> QED BY <1>4, <3>1
  <2> HIDE DEF b
  <2> QED BY <1>1, <1>4, <2>2, <2>3, OutputCutAt, Prefix
<1> HIDE DEF q, ls, r
<1>7. /\ Put(r, Selector).output = Append(q, Selector)
      /\ Put(r, Selector).operators = s.operators /\ Put(r, Selector).ec = s.ec
  <2>1. Put(r, Selector) = Record(Append(q, Selector), s.operators, s.ec, ls)
    BY <1>5 DEF Put, Record
  <2> QED BY <2>1 DEF Record
<1>8. KeptOutput(s.output, Append(q, Selector))
  <2>1. Selector \in Token /\ Selector.kind \notin Openers
    BY TokensMade DEF Selector, Expression, Openers
  <2> QED BY <1>6, <2>1, OutputPut, OutputTwice
<1> QED BY <1>3, <1>7, <1>8 DEF Kept

LEMMA ExpressionTypeEndedLedger ==
  ASSUME NEW states \in Seq(path_state), states # <<>>, Last(states) = "expression_type",
         NEW s, StacksOK(s), Ledger(states, s),
         Put(EndExpressionType(s), Tok("argument")).ec = NoError
  PROVE  s.ec = NoError /\ Ledger(Front(states), Put(EndExpressionType(s), Tok("argument")))
<1> DEFINE n == Len(states)
           u == EndExpressionType(s)
           t == Put(u, Tok("argument"))
<1>1. PICK lparen \in [Frames(states) -> Lparens(s.operators)],
           opener \in [Groups(states) -> Opened(s.output)] : LedgerBy(states, s, opener, lparen)
  BY DEF Ledger
<1>2. n \in ExpressionTypes(states) /\ \A i \in Groups(states) : i < n
  <2>1. n \in Nat \ {0} /\ states[n] = "expression_type" /\ DOMAIN states = 1 .. n
    BY DEF Last
  <2>2. "expression_type" \notin DOMAIN GroupOpener
    BY SpecialSets
  <2> HIDE DEF n
  <2> QED BY <2>1, <2>2 DEF ExpressionTypes, Groups
<1>3. PICK k \in DOMAIN s.output :
        /\ s.output[k].kind = "begin_expression_type"
        /\ \A i \in Groups(states) : i < n => opener[i] < k
  BY <1>1, <1>2 DEF LedgerBy
<1>4. \A j \in Opened(s.output) : j < k
  BY <1>1, <1>2, <1>3 DEF LedgerBy, Pairs
<1>5. StacksOK(u)
  BY ExpressionTypeEnded
<1>6. Tok("argument") \in Token /\ Tok("argument").kind \notin Openers
  BY TokensMade DEF Stored, Tok, Openers
<1> HIDE DEF u
<1>7. Neutral(u, t) /\ u.ec = NoError
  BY <1>5, <1>6, PutNeutral, PutParts DEF u
<1>8. s.ec = NoError /\ Kept(s, u)
  BY <1>3, <1>4, <1>7, ExpressionTypeTaken DEF u
<1>9. Kept(s, t)
  <2>1. t.ec = NoError
    BY DEF u
  <2> QED BY <1>7, <1>8, <2>1, KeptTwice DEF Neutral
<1>10. SameFrames(states, Front(states)) /\ Last(states) \notin KeyTops
       /\ Front(states) \in Seq(path_state)
  <2>1. Last(states) \notin DOMAIN GroupOpener \cup {"expect_rparen"}
    BY SpecialSets
  <2> QED BY <2>1, SameUnder, FrontStates DEF KeyTops, KeyTextStates, EscapeStates
<1>11. Ledger(Front(states), t)
  BY <1>9, <1>10, KeptLedger
<1> QED BY <1>8, <1>11 DEF u

LEMMA PushSound ==
  ASSUME NEW s, StacksOK(s), NEW tok, push_token(tok, s).ec = NoError
  PROVE  s.ec = NoError
<1> SUFFICES ASSUME s.ec # NoError PROVE FALSE
  OBVIOUS
<1>1. Failed(s)
  BY Parts DEF Failed
<1>2. Failed(push_token(tok, s))
  BY <1>1, PushFails
<1> QED BY <1>2 DEF Failed

LEMMA NeutralBalanced ==
  ASSUME NEW states \in Seq(path_state), states # <<>>, Last(states) \notin KeyTops,
         NEW new \in Seq(path_state), SameFrames(states, new),
         NEW s, NEW t, Neutral(s, t), Balanced(states, s)
  PROVE  Balanced(new, t)
BY KeptLedger DEF Balanced, Neutral

(* The tokens that begin a group or a parenthesis. *)
LEMMA BeginningPushed ==
  ASSUME NEW s, StacksOK(s), NEW tok \in Token
  PROVE  /\ tok.kind \in Openers =>
              /\ push_token(tok, s).output = Append(s.output, tok)
              /\ push_token(tok, s).operators = Append(s.operators, Tok("lparen"))
         /\ tok.kind = "lparen" =>
              /\ push_token(tok, s).output = s.output
              /\ push_token(tok, s).operators = Append(s.operators, Tok("lparen"))
         /\ tok.kind = "begin_expression_type" =>
              /\ push_token(tok, s).output = Append(s.output, tok)
              /\ push_token(tok, s).operators = s.operators
<1>1. ASSUME tok.kind \in Openers
      PROVE  /\ push_token(tok, s).output = Append(s.output, tok)
             /\ push_token(tok, s).operators = Append(s.operators, Tok("lparen"))
  <2>1. push_token(tok, s) = PushLparen(Put(s, tok))
    BY <1>1 DEF push_token, Operators, Openers
  <2>2. StacksOK(Put(s, tok))
    BY TokenPut
  <2> QED BY <2>1, <2>2, PutParts, LparenParts
<1>2. ASSUME tok.kind = "lparen"
      PROVE  /\ push_token(tok, s).output = s.output
             /\ push_token(tok, s).operators = Append(s.operators, Tok("lparen"))
  <2>1. push_token(tok, s) = PushLparen(s)
    BY <1>2 DEF push_token, Operators, Openers
  <2> QED BY <2>1, LparenParts
<1>3. ASSUME tok.kind = "begin_expression_type"
      PROVE  /\ push_token(tok, s).output = Append(s.output, tok)
             /\ push_token(tok, s).operators = s.operators
  <2>1. push_token(tok, s) = Put(s, tok)
    BY <1>3 DEF push_token, Operators, Openers
  <2> QED BY <2>1, PutParts
<1> QED BY <1>1, <1>2, <1>3

LEMMA BeginBalanced ==
  ASSUME NEW states \in Seq(path_state), states # <<>>, NEW new \in Seq(path_state),
         NEW f \in DOMAIN GroupOpener, Replaces(states, new, f),
         Last(states) \notin DOMAIN GroupOpener \cup {"expect_rparen"} \cup KeyTops,
         f \in {"multi_select_list", "filter", "function_expression"}
           \/ (f = "multi_select_hash" /\ Len(new) = Len(states)),
         NEW s, StacksOK(s), Balanced(states, s), NEW tok \in Token, tok.kind = GroupOpener[f]
  PROVE  Balanced(new, push_token(tok, s))
<1> DEFINE t == push_token(tok, s)
<1>1. tok.kind \in Openers
  BY Openings DEF Openers
<1>2. t.output = Append(s.output, tok) /\ t.operators = Append(s.operators, Tok("lparen"))
  BY <1>1, BeginningPushed
<1>3. t.ec = NoError => Ledger(states, s)
  BY PushSound DEF Balanced
<1> HIDE DEF t
<1>4. t.ec = NoError => Ledger(new, t)
  <2> SUFFICES ASSUME t.ec = NoError PROVE Ledger(new, t)
    OBVIOUS
  <2>1. Ledger(states, s)
    BY <1>3
  <2> QED BY <1>2, <2>1, OpenedLedger
<1> QED BY <1>4 DEF Balanced, t

LEMMA ParenthesisBalanced ==
  ASSUME NEW states \in Seq(path_state), states # <<>>, NEW new \in Seq(path_state),
         Replaces(states, new, "expect_rparen"),
         Last(states) \notin DOMAIN GroupOpener \cup {"expect_rparen"} \cup KeyTops,
         NEW s, StacksOK(s), Balanced(states, s), NEW tok \in Token, tok.kind = "lparen"
  PROVE  Balanced(new, push_token(tok, s))
<1> DEFINE t == push_token(tok, s)
<1>1. t.output = s.output /\ t.operators = Append(s.operators, Tok("lparen"))
  BY BeginningPushed
<1>2. t.ec = NoError => Ledger(states, s)
  BY PushSound DEF Balanced
<1> HIDE DEF t
<1> QED BY <1>1, <1>2, ParenthesisLedger DEF Balanced, t

LEMMA ExpressionTypeBalanced ==
  ASSUME NEW states \in Seq(path_state), states # <<>>, NEW new \in Seq(path_state),
         Replaces(states, new, "expression_type"),
         Last(states) \notin DOMAIN GroupOpener \cup {"expect_rparen"} \cup KeyTops,
         NEW s, StacksOK(s), Balanced(states, s),
         NEW tok \in Token, tok.kind = "begin_expression_type"
  PROVE  Balanced(new, push_token(tok, s))
<1> DEFINE t == push_token(tok, s)
<1>1. t.output = Append(s.output, tok) /\ t.operators = s.operators
  BY BeginningPushed
<1>2. t.ec = NoError => Ledger(states, s)
  BY PushSound DEF Balanced
<1> HIDE DEF t
<1> QED BY <1>1, <1>2, ExpressionTypeLedger DEF Balanced, t

(* The tokens that end one. *)
LEMMA EndBalanced ==
  ASSUME NEW states \in Seq(path_state), states # <<>>, NEW s, StacksOK(s), Balanced(states, s),
         NEW tok, Ends(tok.kind, Last(states))
  PROVE  Balanced(Front(states), push_token(tok, s))
BY PushSound, EndedLedger DEF Balanced

LEMMA RparenBalanced ==
  ASSUME NEW states \in Seq(path_state), states # <<>>, Last(states) = "expect_rparen",
         NEW new \in Seq(path_state), NEW f, f \notin Special, Replaces(states, new, f),
         NEW s, StacksOK(s), Balanced(states, s), NEW tok, tok.kind = "rparen"
  PROVE  Balanced(new, push_token(tok, s))
<1> SUFFICES ASSUME push_token(tok, s).ec = NoError PROVE Ledger(new, push_token(tok, s))
  BY DEF Balanced
<1>1. push_token(tok, s) = unwind_rparen(s)
  BY DEF push_token, Operators, Openers
<1>2. Ledger(states, s)
  BY PushSound DEF Balanced
<1>3. Unwinding(s, unwind_rparen(s))
  BY <1>1, Unwinds
<1>4. Ledger(new, unwind_rparen(s))
  BY <1>2, <1>3, ClosedParenthesis
<1> QED BY <1>1, <1>4

-----------------------------------------------------------------------------
(* What the passes make of state_stack_. *)

Ordinary == path_state \ Special

(* The same groups and parentheses are open. *)
Quiet(new) == new \in Seq(path_state) /\ SameFrames(state_stack, new)

(* The top has become f, with nothing special above it. *)
Becomes(f, new) == new \in Seq(path_state) /\ Replaces(state_stack, new, f)

Framing == DOMAIN GroupOpener \cup {"expect_rparen"}

LEMMA SpecialIs ==
  Special = {"multi_select_list", "filter", "function_expression", "multi_select_hash",
             "key_val_expr", "expect_colon", "expect_rbrace", "expect_rparen",
             "expression_type"}
BY Openings DEF Special

LEMMA OrdinaryStates ==
  /\ {"lhs_expression", "rhs_expression", "sub_expression", "comparator_expression",
      "jf_expression", "val_expr", "key_expr", "expression_or_expression_type",
      "identifier_or_function_expr", "argument", "quoted_string", "unquoted_string",
      "raw_string", "literal", "number", "digit", "bracket_specifier",
      "bracket_specifier_or_multi_select_list", "expect_multi_select_list",
      "expect_rbracket", "cmp_lt_or_lte", "cmp_gt_or_gte", "cmp_eq", "cmp_ne",
      "expect_pipe_or_or", "expect_and"} \subseteq Ordinary
  /\ SliceStates \subseteq Ordinary /\ OperatorStates \subseteq Ordinary
  /\ EscapeStates \subseteq Ordinary /\ KeyTextStates \subseteq Ordinary
  /\ Special \subseteq path_state
<1>1. /\ {"lhs_expression", "rhs_expression", "sub_expression", "comparator_expression",
          "jf_expression", "val_expr", "key_expr", "expression_or_expression_type",
          "identifier_or_function_expr", "argument", "quoted_string", "unquoted_string",
          "raw_string", "literal", "number", "digit", "bracket_specifier",
          "bracket_specifier_or_multi_select_list", "expect_multi_select_list",
          "expect_rbracket", "cmp_lt_or_lte", "cmp_gt_or_gte", "cmp_eq", "cmp_ne",
          "expect_pipe_or_or", "expect_and"} \subseteq path_state
      /\ SliceStates \subseteq path_state /\ OperatorStates \subseteq path_state
      /\ EscapeStates \subseteq path_state
  BY DEF path_state
<1>2. Special \subseteq path_state
  BY SpecialIs DEF path_state
<1>3. SliceStates \cap Special = {} /\ OperatorStates \cap Special = {}
  BY SpecialIs DEF SliceStates, OperatorStates
<1>4. EscapeStates \cap Special = {}
  BY SpecialIs DEF EscapeStates
<1>5. /\ {"lhs_expression", "rhs_expression", "sub_expression", "comparator_expression",
          "jf_expression", "val_expr", "key_expr", "expression_or_expression_type",
          "identifier_or_function_expr", "argument", "quoted_string", "unquoted_string",
          "raw_string", "literal", "number", "digit", "bracket_specifier",
          "bracket_specifier_or_multi_select_list", "expect_multi_select_list",
          "expect_rbracket", "cmp_lt_or_lte", "cmp_gt_or_gte", "cmp_eq", "cmp_ne",
          "expect_pipe_or_or", "expect_and"} \cap Special = {}
  BY SpecialIs
<1>6. SliceStates \subseteq Ordinary /\ OperatorStates \subseteq Ordinary /\ EscapeStates \subseteq Ordinary
  BY <1>1, <1>3, <1>4 DEF Ordinary
<1>7. {"raw_string", "unquoted_string"} \subseteq Ordinary
  BY <1>1, <1>5 DEF Ordinary
<1> QED BY <1>1, <1>2, <1>5, <1>6, <1>7 DEF Ordinary, KeyTextStates

LEMMA QuietOn ==
  ASSUME StatesOK(state_stack), state_stack # <<>>
  PROVE  /\ Quiet(state_stack)
         /\ \A x \in Ordinary : Quiet(On(<<x>>))
         /\ \A x, y \in Ordinary : Quiet(On(<<x, y>>))
<1>1. state_stack \in Seq(path_state) /\ Ordinary \subseteq path_state
  BY DEF StatesOK, Ordinary
<1>2. \A x \in Ordinary : x \notin Special
  BY DEF Ordinary
<1>3. /\ \A x \in Ordinary : On(<<x>>) \in Seq(path_state)
      /\ \A x, y \in Ordinary : On(<<x, y>>) \in Seq(path_state)
  BY <1>1, Tuples DEF On
<1>4. /\ \A x \in Ordinary : SameFrames(state_stack, On(<<x>>))
      /\ \A x, y \in Ordinary : SameFrames(state_stack, On(<<x, y>>))
      /\ SameFrames(state_stack, state_stack)
  BY <1>1, <1>2, SameAbove DEF On
<1> QED BY <1>1, <1>3, <1>4 DEF Quiet

LEMMA BecomesReplaced ==
  ASSUME StatesOK(state_stack), state_stack # <<>>
  PROVE  /\ \A f \in path_state : Becomes(f, Replace(<<f>>))
         /\ \A f \in path_state, x \in Ordinary : Becomes(f, Replace(<<f, x>>))
         /\ \A f \in path_state, x, y \in Ordinary : Becomes(f, Replace(<<f, x, y>>))
<1>1. state_stack \in Seq(path_state) /\ Ordinary \subseteq path_state /\ Under \in Seq(path_state)
  BY FrontStates DEF StatesOK, Ordinary, Under
<1>2. \A x \in Ordinary : x \notin Special
  BY DEF Ordinary
<1>3. /\ \A f \in path_state : Replace(<<f>>) \in Seq(path_state)
      /\ \A f \in path_state, x \in Ordinary : Replace(<<f, x>>) \in Seq(path_state)
      /\ \A f \in path_state, x, y \in Ordinary : Replace(<<f, x, y>>) \in Seq(path_state)
  BY <1>1, Tuples DEF Replace
<1>4. /\ \A f \in path_state : Replaces(state_stack, Replace(<<f>>), f)
      /\ \A f \in path_state, x \in Ordinary : Replaces(state_stack, Replace(<<f, x>>), f)
      /\ \A f \in path_state, x, y \in Ordinary : Replaces(state_stack, Replace(<<f, x, y>>), f)
  BY <1>1, <1>2, ReplacedAt DEF Replace, Under
<1> QED BY <1>3, <1>4 DEF Becomes

LEMMA QuietUnder ==
  ASSUME StatesOK(state_stack), state_stack # <<>>, Top \notin Framing
  PROVE  /\ Quiet(Under)
         /\ \A f \in Ordinary : \A new : Becomes(f, new) => Quiet(new)
<1>1. state_stack \in Seq(path_state) /\ Last(state_stack) \notin DOMAIN GroupOpener \cup {"expect_rparen"}
  BY DEF StatesOK, Top, Framing
<1>2. Quiet(Under)
  BY <1>1, SameUnder, FrontStates DEF Quiet, Under
<1>3. ASSUME NEW f \in Ordinary, NEW new, Becomes(f, new) PROVE Quiet(new)
  <2>1. f \notin Special /\ new \in Seq(path_state) /\ Replaces(state_stack, new, f)
    BY <1>3 DEF Ordinary, Becomes
  <2> QED BY <1>1, <2>1, SameUnder DEF Quiet
<1> QED BY <1>2, <1>3

-----------------------------------------------------------------------------
(* The steps that the passes are made of, where no first key is read. *)

(* What holds before every pass, and is to hold after it. *)
Before == /\ StatesOK(state_stack) /\ state_stack # <<>>
          /\ StacksOK(stacks) /\ buffer \in BufferText
          /\ Balanced(state_stack, stacks)

StaysBalanced == Balanced(state_stack', stacks')

NoKeyTop == Before /\ Top \notin KeyTops

LEMMA SteadyStep ==
  ASSUME NoKeyTop, NEW new, Quiet(new), NEW t, Neutral(stacks, t),
         state_stack' = new, stacks' = t
  PROVE  StaysBalanced
BY NeutralBalanced DEF NoKeyTop, Before, StaysBalanced, Quiet, StatesOK, Top

LEMMA GotoStep ==
  ASSUME NoKeyTop, NEW new, Quiet(new), NEW n, NEW text, Goto(n, new) \/ Collect(n, new, text)
  PROVE  StaysBalanced
BY KeptSelf, SteadyStep DEF Goto, Collect

LEMMA PushedStep ==
  ASSUME NoKeyTop, NEW new, Quiet(new), NEW n, NEW text, NEW t, Neutral(stacks, t),
         PushedFrom(t, n, new, text)
  PROVE  StaysBalanced
BY SteadyStep DEF PushedFrom

LEMMA FlushedNeutral ==
  ASSUME Before
  PROVE  StacksOK(checkBuffer(stacks)) /\ Neutral(stacks, checkBuffer(stacks))
BY BufferChecked, CheckNeutral DEF Before

LEMMA PushStep ==
  ASSUME NoKeyTop, NEW tok \in Token, tok.kind \in Plain, NEW n, NEW new, Quiet(new),
         Push(n, new, tok) \/ FlushPush(n, new, tok)
  PROVE  StaysBalanced
<1>1. StacksOK(stacks) /\ StacksOK(checkBuffer(stacks)) /\ Neutral(stacks, checkBuffer(stacks))
  BY FlushedNeutral DEF NoKeyTop, Before
<1>2. Neutral(stacks, push_token(tok, stacks))
  BY <1>1, PushNeutral
<1>3. Neutral(stacks, push_token(tok, checkBuffer(stacks)))
  <2>1. Neutral(checkBuffer(stacks), push_token(tok, checkBuffer(stacks)))
    BY <1>1, PushNeutral
  <2> QED BY <1>1, <2>1, NeutralTwice
<1> QED BY <1>2, <1>3, PushedStep DEF Push, FlushPush

LEMMA TakeTextStep ==
  ASSUME NoKeyTop, Quiet(Under), NEW tok \in Token, tok.kind \in Plain, NEW n, TakeText(n, tok)
  PROVE  StaysBalanced
<1>1. Neutral(stacks, push_token(tok, stacks))
  BY PushNeutral DEF NoKeyTop, Before
<1> QED BY <1>1, PushedStep DEF TakeText

LEMMA BinaryStep ==
  ASSUME NoKeyTop, Quiet(Under), NEW n, NEW oper \in BinaryOpers,
         PushBinary(n, oper) \/ FlushBinary(n, oper)
  PROVE  StaysBalanced
<1>1. StacksOK(stacks) /\ StacksOK(checkBuffer(stacks)) /\ Neutral(stacks, checkBuffer(stacks))
  BY FlushedNeutral DEF NoKeyTop, Before
<1>2. Neutral(stacks, WithBinary(oper, stacks))
  BY <1>1, BinaryNeutral
<1>3. Neutral(stacks, WithBinary(oper, checkBuffer(stacks)))
  <2>1. Neutral(checkBuffer(stacks), WithBinary(oper, checkBuffer(stacks)))
    BY <1>1, BinaryNeutral
  <2> QED BY <1>1, <2>1, NeutralTwice
<1> QED BY <1>2, <1>3, PushedStep DEF PushBinary, FlushBinary

LEMMA FlushGotoStep ==
  ASSUME NoKeyTop, NEW n, NEW new, Quiet(new), FlushGoto(n, new)
  PROVE  StaysBalanced
BY FlushedNeutral, SteadyStep DEF FlushGoto, NoKeyTop

LEMMA FailStep ==
  ASSUME Before, NEW e, e # NoError, Fail(e)
  PROVE  StaysBalanced
BY ErrorParts DEF Before, StaysBalanced, Balanced, Fail

(* An error, in a pass that goes on from it. *)
LEMMA ErrorBalanced ==
  ASSUME NEW s, StacksOK(s), NEW e, e # NoError
  PROVE  SetError(s, e).ec # NoError /\ \A states : Balanced(states, SetError(s, e))
BY ErrorParts DEF Balanced

LEMMA PassSpaceStep ==
  ASSUME NEW new, NEW s, StacksOK(s), Balanced(new, s), NEW text, PassSpace(new, s, text)
  PROVE  StaysBalanced
<1>1. "unexpected_end_of_input" # NoError
  BY DEF NoError
<1> QED BY <1>1, ErrorBalanced DEF PassSpace, StaysBalanced

(* White space is passed after s, which _checkBuffer leaves balanced. *)
LEMMA AdvanceFromStep ==
  ASSUME Before, NEW s, StacksOK(s), Balanced(state_stack, s),
         Balanced(state_stack, checkBuffer(s)), AdvancePastSpaceFrom(s)
  PROVE  StaysBalanced
<1>1. StacksOK(checkBuffer(s))
  BY BufferChecked DEF Before
<1>2. CASE PassSpace(state_stack, checkBuffer(s), Unflushed)
  BY <1>1, <1>2, PassSpaceStep
<1>3. CASE stacks' = s /\ UNCHANGED <<input, state_stack, slic, status>>
  BY <1>3 DEF StaysBalanced
<1>4. CASE Fail(Throws)
  BY <1>4, FailStep DEF Throws, NoError
<1> QED BY <1>2, <1>3, <1>4 DEF AdvancePastSpaceFrom

LEMMA AdvanceStep ==
  ASSUME NoKeyTop, advance_past_space_character \/ FlushThenAdvance
  PROVE  StaysBalanced
<1> DEFINE s == SetError(stacks, "invalid_literal")
<1>1. /\ Before /\ StacksOK(stacks) /\ Balanced(state_stack, stacks) /\ buffer \in BufferText
      /\ state_stack \in Seq(path_state) /\ state_stack # <<>> /\ Last(state_stack) \notin KeyTops
  BY DEF NoKeyTop, Before, StatesOK, Top
<1>2. Balanced(state_stack, checkBuffer(stacks))
  <2>1. SameFrames(state_stack, state_stack)
    BY <1>1, SameAbove
  <2> QED BY <1>1, <2>1, FlushedNeutral, NeutralBalanced
<1>3. StacksOK(s) /\ Balanced(state_stack, s)
  BY <1>1, ErrorSet, ErrorBalanced DEF Errors, NoError
<1>4. Balanced(state_stack, checkBuffer(s))
  <2>1. Failed(s)
    <3>1. "invalid_literal" # NoError
      BY DEF NoError
    <3> QED BY <1>1, <3>1, Parts, ErrorFails
  <2> HIDE DEF s
  <2>2. checkBuffer(s).ec # NoError
    BY <2>1, CheckFails DEF Failed
  <2> QED BY <2>2 DEF Balanced
<1>5. AdvancePastSpaceFrom(stacks) => StaysBalanced
  BY <1>1, <1>2, AdvanceFromStep
<1>6. AdvancePastSpaceFrom(s) => StaysBalanced
  <2> HIDE DEF s
  <2> QED BY <1>1, <1>3, <1>4, AdvanceFromStep
<1> QED BY <1>5, <1>6 DEF advance_past_space_character, FlushThenAdvance

(* A group begins, and ends. *)
LEMMA BeginStep ==
  ASSUME Before, Top \notin Framing \cup KeyTops, NEW f \in DOMAIN GroupOpener,
         NEW new, Becomes(f, new),
         f \in {"multi_select_list", "filter", "function_expression"}
           \/ (f = "multi_select_hash" /\ Len(new) = Len(state_stack)),
         NEW tok \in Token, tok.kind = GroupOpener[f], NEW n, NEW text,
         PushedFrom(push_token(tok, stacks), n, new, text)
  PROVE  StaysBalanced
<1>1. /\ state_stack \in Seq(path_state) /\ state_stack # <<>> /\ new \in Seq(path_state)
      /\ Replaces(state_stack, new, f) /\ StacksOK(stacks) /\ Balanced(state_stack, stacks)
      /\ Last(state_stack) \notin DOMAIN GroupOpener \cup {"expect_rparen"} \cup KeyTops
  BY DEF Before, Becomes, StatesOK, Top, Framing
<1>2. Balanced(new, push_token(tok, stacks))
  BY <1>1, BeginBalanced
<1> QED BY <1>2 DEF PushedFrom, StaysBalanced

LEMMA EndStep ==
  ASSUME Before, NEW tok, Ends(tok.kind, Top), NEW n,
         Push(n, Under, tok) \/ (FlushPush(n, Under, tok) /\ Top \notin KeyTops)
  PROVE  StaysBalanced
<1>1. /\ state_stack \in Seq(path_state) /\ state_stack # <<>>
      /\ StacksOK(stacks) /\ Balanced(state_stack, stacks) /\ Ends(tok.kind, Last(state_stack))
  BY DEF Before, StatesOK, Top
<1>2. CASE Push(n, Under, tok)
  <2>1. Balanced(Under, push_token(tok, stacks))
    BY <1>1, EndBalanced DEF Under
  <2> QED BY <1>2, <2>1 DEF Push, PushedFrom, StaysBalanced
<1>3. CASE FlushPush(n, Under, tok) /\ Top \notin KeyTops
  <2> DEFINE s == checkBuffer(stacks)
  <2>1. StacksOK(s) /\ Balanced(state_stack, s)
    <3>1. SameFrames(state_stack, state_stack)
      BY <1>1, SameAbove
    <3> QED BY <1>1, <1>3, <3>1, FlushedNeutral, NeutralBalanced DEF Top
  <2>2. FlushPush(n, Under, tok) => state_stack' = Under /\ stacks' = push_token(tok, s)
    BY DEF FlushPush, PushedFrom
  <2> HIDE DEF s
  <2>3. Balanced(Under, push_token(tok, s))
    BY <1>1, <2>1, EndBalanced DEF Under
  <2> QED BY <1>3, <2>2, <2>3 DEF StaysBalanced
<1> QED BY <1>2, <1>3

(* What a pass may put on state_stack_ without touching a group. *)
LEMMA AtOrdinary ==
  ASSUME Before, Top \notin Framing \cup KeyTops
  PROVE  /\ NoKeyTop /\ Quiet(state_stack) /\ Quiet(Under)
         /\ \A x \in Ordinary : Quiet(On(<<x>>)) /\ Quiet(Replace(<<x>>))
         /\ \A x, y \in Ordinary : Quiet(On(<<x, y>>)) /\ Quiet(Replace(<<x, y>>))
         /\ \A x, y, z \in Ordinary : Quiet(Replace(<<x, y, z>>))
<1>1. StatesOK(state_stack) /\ state_stack # <<>> /\ Top \notin Framing /\ Ordinary \subseteq path_state
  BY DEF Before, Ordinary
<1>2. NoKeyTop
  BY DEF NoKeyTop
<1>3. /\ \A x \in Ordinary : Quiet(Replace(<<x>>))
      /\ \A x, y \in Ordinary : Quiet(Replace(<<x, y>>))
      /\ \A x, y, z \in Ordinary : Quiet(Replace(<<x, y, z>>))
  BY <1>1, BecomesReplaced, QuietUnder
<1> QED BY <1>1, <1>2, <1>3, QuietOn, QuietUnder

LEMMA AtFrame ==
  ASSUME Before, Top \notin KeyTops
  PROVE  /\ NoKeyTop /\ Quiet(state_stack)
         /\ \A x \in Ordinary : Quiet(On(<<x>>))
         /\ \A x, y \in Ordinary : Quiet(On(<<x, y>>))
BY QuietOn DEF Before, NoKeyTop

LEMMA KeyTopsAre ==
  /\ KeyTops = {"multi_select_hash", "key_val_expr", "key_expr", "raw_string",
                "unquoted_string"} \cup EscapeStates
  /\ Framing = {"multi_select_list", "filter", "function_expression", "multi_select_hash",
                "key_val_expr", "expect_colon", "expect_rbrace", "expect_rparen"}
BY Openings DEF KeyTops, KeyTextStates, Framing

LEMMA Pushable ==
  /\ \A oper \in {"projection_op", "flatten_projection_op"} :
       Expression(oper) \in Token /\ Expression(oper).kind \in Plain
  /\ \A kind \in {"pipe", "separator", "key", "argument"} :
       Tok(kind) \in Token /\ Tok(kind).kind \in Plain
  /\ Selector \in Token /\ Selector.kind \in Plain
  /\ Literal \in Token /\ Literal.kind \in Plain
  /\ CurrentNode \in Token /\ CurrentNode.kind \in Plain
  /\ Unary("not_op") \in Token /\ Unary("not_op").kind \in Plain
<1>1. \A oper \in {"projection_op", "flatten_projection_op"} :
        Expression(oper) \in Token /\ Expression(oper).kind \in Plain
  BY TokensMade DEF Opers, ProjectionOpers, Expression, Plain
<1>2. \A kind \in {"pipe", "separator", "key", "argument"} :
        Tok(kind) \in Token /\ Tok(kind).kind \in Plain
  BY TokensMade DEF Stored, Plain
<1>3. /\ Selector \in Token /\ Selector.kind \in Plain
      /\ Literal \in Token /\ Literal.kind \in Plain
      /\ CurrentNode \in Token /\ CurrentNode.kind \in Plain
  BY TokensMade DEF Selector, Expression, Literal, CurrentNode, Tok, Plain
<1>4. Unary("not_op") \in Token /\ Unary("not_op").kind \in Plain
  BY DEF Unary, Token, Stored, Opers, UnaryOpers, Plain
<1> QED BY <1>1, <1>2, <1>3, <1>4

LEMMA LeaveStep ==
  ASSUME Before, Top \notin Framing \cup KeyTops, LeaveOrFail
  PROVE  StaysBalanced
<1>1. "syntax_error" # NoError
  BY DEF NoError
<1> QED BY <1>1, AtOrdinary, GotoStep, FailStep DEF LeaveOrFail

-----------------------------------------------------------------------------
(* The passes, by the part of the grammar they read. *)

LEMMA OperandStep ==
  ASSUME Before, Top \in {"lhs_expression", "sub_expression"}, Operand
  PROVE  StaysBalanced
<1>1. Top \notin Framing \cup KeyTops
  BY KeyTopsAre DEF EscapeStates
<1>2. /\ NoKeyTop /\ Quiet(Under)
      /\ Quiet(Replace(<<"val_expr", "raw_string">>))
      /\ Quiet(Replace(<<"identifier_or_function_expr", "unquoted_string">>))
  BY <1>1, AtOrdinary, OrdinaryStates
<1>3. CASE advance_past_space_character
  BY <1>2, <1>3, AdvanceStep
<1>4. CASE Goto(1, Replace(<<"val_expr", "raw_string">>))
  BY <1>2, <1>4, GotoStep
<1>5. CASE Push(1, Replace(<<"multi_select_hash">>), Tok("begin_multi_select_hash"))
  <2> DEFINE new == Replace(<<"multi_select_hash">>)
             tok == Tok("begin_multi_select_hash")
  <2>1. Becomes("multi_select_hash", new) /\ Len(new) = Len(state_stack)
    <3>1. Becomes("multi_select_hash", new)
      BY BecomesReplaced DEF Before, path_state
    <3>2. Len(new) = Len(state_stack)
      <4>1. state_stack \in Seq(path_state) /\ state_stack # <<>>
        BY DEF Before, StatesOK
      <4>2. Len(state_stack) \in Nat \ {0} /\ Len(state_stack) - 1 \in 0 .. Len(state_stack)
        BY <4>1
      <4>3. Under \in Seq(path_state) /\ Len(Under) = Len(state_stack) - 1
        BY <4>1, <4>2, Prefix DEF Under, Front
      <4>4. Len(Under \o <<"multi_select_hash">>) = Len(Under) + 1
        BY <4>3
      <4> QED BY <4>2, <4>3, <4>4 DEF Replace
    <3> QED BY <3>1, <3>2
  <2>2. tok \in Token /\ tok.kind = GroupOpener["multi_select_hash"]
        /\ "multi_select_hash" \in DOMAIN GroupOpener
    BY TokensMade, Openings DEF Stored, Openers
  <2>3. PushedFrom(push_token(tok, stacks), 1, new, buffer)
    BY <1>5 DEF Push
  <2> HIDE DEF new, tok
  <2> QED BY <1>1, <2>1, <2>2, <2>3, BeginStep
<1>6. CASE Push(1, Under, Expression("projection_op"))
  BY <1>2, <1>6, Pushable, PushStep
<1>7. CASE Collect(1, Replace(<<"identifier_or_function_expr", "unquoted_string">>),
                   push_back(buffer, c))
  BY <1>2, <1>7, GotoStep
<1> QED BY <1>3, <1>4, <1>5, <1>6, <1>7 DEF Operand

LEMMA KeyStep ==
  ASSUME Before, key_expr
  PROVE  StaysBalanced
<1> DEFINE t == push_token(Tok("key"), stacks)
<1>1. /\ Top = "key_expr" /\ state_stack' = Under /\ stacks' = t
  BY DEF key_expr, At, TakeText, PushedFrom
<1>2. Top \notin Framing
  BY <1>1, KeyTopsAre
<1>3. Quiet(Under) /\ StacksOK(stacks) /\ state_stack \in Seq(path_state)
  BY <1>2, QuietUnder DEF Before, StatesOK
<1>4. Neutral(stacks, t)
  BY <1>3, Pushable, PushNeutral
<1>5. t.output = Append(stacks.output, Tok("key"))
  <2>1. t = Put(stacks, Tok("key"))
    BY DEF push_token, Tok, Operators, Openers
  <2> QED BY <1>3, <2>1, PutParts
<1>6. \A k : OnTop(stacks, k) => KeyFollows(t.output, k)
  <2>1. stacks.output \in Seq(Token) /\ Tok("key") \in Token /\ Tok("key").kind = "key"
    BY <1>3, Parts, TokensMade DEF Stored
  <2> DEFINE key == Tok("key")
             q == stacks.output
  <2> HIDE DEF key, q, t
  <2>2. q \in Seq(Token) /\ key \in Token /\ key.kind = "key" /\ t.output = Append(q, key)
    BY <1>5, <2>1 DEF key, q
  <2>3. Len(q) + 1 \in DOMAIN t.output /\ t.output[Len(q) + 1] = key
    BY <2>2
  <2> QED BY <2>2, <2>3 DEF OnTop, KeyFollows, q
<1> HIDE DEF t
<1>7. ASSUME t.ec = NoError PROVE Ledger(Under, t)
  <2>1. Ledger(state_stack, stacks) /\ Kept(stacks, t)
    BY <1>4, <1>7 DEF Neutral, Before, Balanced
  <2> QED BY <1>3, <1>6, <2>1, SteadyLedger DEF Quiet
<1> QED BY <1>1, <1>7 DEF StaysBalanced, Balanced

LEMMA ReadExpressionStep ==
  ASSUME Before, ReadExpression
  PROVE  StaysBalanced
<1> USE DEF At
<1>1. "expected_identifier" # NoError /\ "expected_rparen" # NoError
  BY DEF NoError
<1>2. CASE start
  <2>1. Top \notin Framing \cup KeyTops
    BY <1>2, KeyTopsAre DEF start, EscapeStates
  <2>2. NoKeyTop /\ Quiet(Replace(<<"rhs_expression", "lhs_expression">>))
    BY <2>1, AtOrdinary, OrdinaryStates
  <2> QED BY <1>2, <2>2, GotoStep DEF start
<1>3. CASE rhs_expression
  <2>1. Top \notin Framing \cup KeyTops
    BY <1>3, KeyTopsAre DEF rhs_expression, EscapeStates
  <2>2. /\ NoKeyTop /\ Quiet(Under)
        /\ Quiet(On(<<"sub_expression">>))
        /\ Quiet(On(<<"lhs_expression", "expect_pipe_or_or">>))
        /\ Quiet(On(<<"lhs_expression", "expect_and">>))
        /\ Quiet(On(<<"lhs_expression", "cmp_ne">>))
        /\ Quiet(On(<<"bracket_specifier">>))
        /\ Quiet(On(<<"comparator_expression">>))
        /\ Quiet(On(<<"jf_expression">>))
    BY <2>1, AtOrdinary, OrdinaryStates
  <2> QED BY <1>3, <2>1, <2>2, AdvanceStep, GotoStep, FlushGotoStep, LeaveStep DEF rhs_expression
<1>4. CASE comparator_expression
  <2>1. Top \notin Framing \cup KeyTops
    BY <1>4, KeyTopsAre DEF comparator_expression, EscapeStates
  <2>2. \A x \in Comparator : CompareState[x] \in Ordinary
    BY OrdinaryStates DEF CompareState, Comparator
  <2>3. NoKeyTop /\ \A x \in Comparator : Quiet(Replace(<<"lhs_expression", CompareState[x]>>))
    BY <2>1, <2>2, AtOrdinary, OrdinaryStates
  <2> QED BY <1>4, <2>1, <2>3, AdvanceStep, GotoStep, LeaveStep DEF comparator_expression
<1>5. CASE jf_expression
  <2>1. Top \notin Framing \cup KeyTops
    BY <1>5, KeyTopsAre DEF jf_expression, EscapeStates
  <2>2. \A x \in Arithmetic : ArithmeticState[x] \in Ordinary
    <3>1. \A x \in Arithmetic : ArithmeticState[x] \in OperatorStates
      BY DEF ArithmeticState, Arithmetic, OperatorStates
    <3> QED BY <3>1, OrdinaryStates
  <2>3. NoKeyTop /\ \A x \in Arithmetic : Quiet(Replace(<<"lhs_expression", ArithmeticState[x]>>))
    BY <2>1, <2>2, AtOrdinary, OrdinaryStates
  <2> QED BY <1>5, <2>1, <2>3, AdvanceStep, FlushGotoStep, LeaveStep DEF jf_expression
<1>6. CASE lhs_expression
  <2>1. Top = "lhs_expression" /\ Top \notin Framing \cup KeyTops
    BY <1>6, KeyTopsAre DEF lhs_expression, EscapeStates
  <2>2. /\ NoKeyTop /\ Quiet(Under) /\ Quiet(state_stack)
        /\ Quiet(Replace(<<"quoted_string">>)) /\ Quiet(Replace(<<"literal">>))
        /\ Quiet(Replace(<<"bracket_specifier_or_multi_select_list">>))
        /\ Quiet(Replace(<<"number">>))
    BY <2>1, AtOrdinary, OrdinaryStates
  <2>3. CASE Push(1, Replace(<<"expect_rparen", "rhs_expression", "lhs_expression">>),
                  Tok("lparen"))
    <3> DEFINE new == Replace(<<"expect_rparen", "rhs_expression", "lhs_expression">>)
               tok == Tok("lparen")
    <3>1. Becomes("expect_rparen", new)
      BY BecomesReplaced, OrdinaryStates DEF Before, path_state
    <3>2. tok \in Token /\ tok.kind = "lparen"
      BY TokensMade DEF Stored
    <3>3. state_stack' = new /\ stacks' = push_token(tok, stacks)
      BY <2>3 DEF Push, PushedFrom
    <3> HIDE DEF new, tok
    <3>4. Balanced(new, push_token(tok, stacks))
      BY <2>1, <3>1, <3>2, ParenthesisBalanced DEF Before, StatesOK, Becomes, Top, Framing
    <3> QED BY <3>3, <3>4 DEF StaysBalanced
  <2>4. CASE Push(1, Under, Selector) \/ Push(1, state_stack, Unary("not_op"))
    BY <2>2, <2>4, Pushable, PushStep
  <2> QED BY <1>1, <1>6, <2>1, <2>2, <2>3, <2>4, OperandStep, GotoStep, FailStep
          DEF lhs_expression
<1>7. CASE sub_expression
  <2>1. Top = "sub_expression" /\ Top \notin Framing \cup KeyTops
    BY <1>7, KeyTopsAre DEF sub_expression, EscapeStates
  <2>2. /\ NoKeyTop /\ Quiet(On(<<"quoted_string">>))
        /\ Quiet(Replace(<<"expect_multi_select_list">>))
    BY <2>1, AtOrdinary, OrdinaryStates
  <2> QED BY <1>1, <1>7, <2>1, <2>2, OperandStep, GotoStep, FailStep DEF sub_expression
<1>8. CASE val_expr
  <2>1. Top \notin Framing \cup KeyTops
    BY <1>8, KeyTopsAre DEF val_expr, EscapeStates
  <2>2. NoKeyTop /\ Quiet(Under)
    BY <2>1, AtOrdinary
  <2> QED BY <1>8, <2>2, Pushable, TakeTextStep DEF val_expr
<1>9. CASE expect_rparen
  <2>1. Top = "expect_rparen" /\ Top \notin KeyTops
    BY <1>9, KeyTopsAre DEF expect_rparen, EscapeStates
  <2>2. NoKeyTop
    BY <2>1 DEF NoKeyTop
  <2>3. CASE Push(1, Replace(<<"rhs_expression">>), Tok("rparen"))
    <3> DEFINE new == Replace(<<"rhs_expression">>)
               tok == Tok("rparen")
    <3>1. Becomes("rhs_expression", new) /\ "rhs_expression" \notin Special
      BY BecomesReplaced, OrdinaryStates DEF Before, Ordinary
    <3>2. tok.kind = "rparen"
      BY DEF Tok
    <3>3. state_stack' = new /\ stacks' = push_token(tok, stacks)
      BY <2>3 DEF Push, PushedFrom
    <3> HIDE DEF new, tok
    <3>4. Balanced(new, push_token(tok, stacks))
      BY <2>1, <3>1, <3>2, RparenBalanced DEF Before, StatesOK, Becomes, Top
    <3> QED BY <3>3, <3>4 DEF StaysBalanced
  <2> QED BY <1>1, <1>9, <2>2, <2>3, AdvanceStep, FailStep DEF expect_rparen
<1> QED BY <1>2, <1>3, <1>4, <1>5, <1>6, <1>7, <1>8, <1>9, KeyStep DEF ReadExpression

LEMMA FunctionsMade ==
  \A f \in Functions : Function(f) \in Token /\ Function(f).kind = "function"
BY DEF Function, Token, Stored, Openers

LEMMA ExpressionTypeSound ==
  ASSUME NEW s, StacksOK(s), Put(EndExpressionType(s), Tok("argument")).ec = NoError
  PROVE  s.ec = NoError
<1> SUFFICES ASSUME s.ec # NoError PROVE FALSE
  OBVIOUS
<1>1. Failed(s)
  BY Parts DEF Failed
<1>2. Failed(Put(EndExpressionType(s), Tok("argument")))
  BY <1>1, ExpressionTypeFails, PutFails
<1> QED BY <1>2 DEF Failed

LEMMA ReadFunctionStep ==
  ASSUME Before, ReadFunction
  PROVE  StaysBalanced
<1> USE DEF At
<1>1. "unknown_function" # NoError
  BY DEF NoError
<1>2. CASE identifier_or_function_expr
  <2>1. Top \notin Framing \cup KeyTops
    BY <1>2, KeyTopsAre DEF identifier_or_function_expr, EscapeStates
  <2>2. NoKeyTop /\ Quiet(Under)
    BY <2>1, AtOrdinary
  <2>3. CASE /\ buffer \in Functions
             /\ PushedFrom(push_token(Function(buffer), stacks), 1,
                           Replace(<<"function_expression", "expression_or_expression_type">>),
                           "empty")
    <3> DEFINE new == Replace(<<"function_expression", "expression_or_expression_type">>)
               tok == Function(buffer)
    <3>1. Becomes("function_expression", new)
      BY BecomesReplaced, OrdinaryStates DEF Before, path_state
    <3>2. tok \in Token /\ tok.kind = GroupOpener["function_expression"]
          /\ "function_expression" \in DOMAIN GroupOpener
      BY <2>3, FunctionsMade, Openings
    <3>3. PushedFrom(push_token(tok, stacks), 1, new, "empty")
      BY <2>3
    <3> HIDE DEF new, tok
    <3> QED BY <2>1, <3>1, <3>2, <3>3, BeginStep
  <2> QED BY <1>1, <1>2, <2>2, <2>3, Pushable, TakeTextStep, FailStep
          DEF identifier_or_function_expr
<1>3. CASE expression_or_expression_type
  <2>1. Top \notin Framing \cup KeyTops
    BY <1>3, KeyTopsAre DEF expression_or_expression_type, EscapeStates
  <2>2. /\ NoKeyTop
        /\ Quiet(Replace(<<"argument", "rhs_expression", "number">>))
        /\ Quiet(Replace(<<"argument", "rhs_expression", "lhs_expression">>))
    BY <2>1, AtOrdinary, OrdinaryStates
  <2>3. CASE Push(1, Replace(<<"expression_type", "rhs_expression", "lhs_expression">>),
                  Tok("begin_expression_type"))
    <3> DEFINE new == Replace(<<"expression_type", "rhs_expression", "lhs_expression">>)
               tok == Tok("begin_expression_type")
    <3>1. Becomes("expression_type", new)
      BY BecomesReplaced, OrdinaryStates DEF Before, path_state
    <3>2. tok \in Token /\ tok.kind = "begin_expression_type"
      BY TokensMade DEF Stored
    <3>3. state_stack' = new /\ stacks' = push_token(tok, stacks)
      BY <2>3 DEF Push, PushedFrom
    <3> HIDE DEF new, tok
    <3>4. Balanced(new, push_token(tok, stacks))
      BY <2>1, <3>1, <3>2, ExpressionTypeBalanced DEF Before, StatesOK, Becomes, Top, Framing
    <3> QED BY <3>3, <3>4 DEF StaysBalanced
  <2> QED BY <1>3, <2>2, <2>3, AdvanceStep, GotoStep DEF expression_or_expression_type
<1>4. CASE function_expression
  <2>1. Top = "function_expression" /\ Top \notin KeyTops
    BY <1>4, KeyTopsAre DEF function_expression, EscapeStates
  <2>2. NoKeyTop /\ Quiet(state_stack) /\ Quiet(On(<<"expression_or_expression_type">>))
    BY <2>1, AtFrame, OrdinaryStates
  <2>3. Ends(Tok("end_function").kind, Top)
    BY <2>1 DEF Tok, Ends
  <2> QED BY <1>4, <2>1, <2>2, <2>3, Pushable, AdvanceStep, PushStep, EndStep, FlushGotoStep
          DEF function_expression
<1>5. CASE argument
  <2>1. Top \notin Framing \cup KeyTops
    BY <1>5, KeyTopsAre DEF argument, EscapeStates
  <2>2. NoKeyTop /\ Quiet(Under)
    BY <2>1, AtOrdinary
  <2> QED BY <1>5, <2>2, Pushable, PushStep DEF argument
<1>6. CASE expression_type
  <2> DEFINE t == Put(EndExpressionType(stacks), Tok("argument"))
  <2>1. Top = "expression_type" /\ state_stack' = Under /\ stacks' = t
    BY <1>6 DEF expression_type, PushedFrom
  <2>2. /\ state_stack \in Seq(path_state) /\ state_stack # <<>> /\ StacksOK(stacks)
        /\ Last(state_stack) = "expression_type" /\ Balanced(state_stack, stacks)
    BY <2>1 DEF Before, StatesOK, Top
  <2>3. ASSUME t.ec = NoError PROVE Ledger(Front(state_stack), t)
    <3>1. stacks.ec = NoError => Ledger(state_stack, stacks)
      BY <2>2 DEF Balanced
    <3>2. stacks.ec = NoError
      BY <2>2, <2>3, ExpressionTypeSound
    <3> QED BY <2>2, <2>3, <3>1, <3>2, ExpressionTypeEndedLedger
  <2> HIDE DEF t
  <2> QED BY <2>1, <2>3 DEF StaysBalanced, Balanced, Under
<1> QED BY <1>2, <1>3, <1>4, <1>5, <1>6 DEF ReadFunction

LEMMA ReadOperatorStep ==
  ASSUME Before, ReadOperator
  PROVE  StaysBalanced
<1> USE DEF At
<1>1. "expected_comparator" # NoError
  BY DEF NoError
<1>2. {"lte_op", "ne_op", "lt_op", "gte_op", "gt_op", "eq_op", "or_op", "and_op",
       "concat_op"} \subseteq BinaryOpers
      /\ \A state \in OperatorStates : OperOfState[state] \in BinaryOpers
  BY DEF BinaryOpers, OperatorStates, OperOfState
<1>3. ASSUME Top \in OperatorStates \cup {"cmp_lt_or_lte", "cmp_gt_or_gte", "cmp_eq", "cmp_ne",
                                          "expect_pipe_or_or", "expect_and"}
      PROVE  NoKeyTop /\ Quiet(Under)
  <2>1. Top \notin Framing \cup KeyTops
    BY <1>3, KeyTopsAre DEF OperatorStates, EscapeStates
  <2> QED BY <2>1, AtOrdinary
<1>4. CASE arithmetic_operator
  BY <1>2, <1>3, <1>4, BinaryStep DEF arithmetic_operator
<1>5. CASE cmp_lt_or_lte
  BY <1>2, <1>3, <1>5, BinaryStep DEF cmp_lt_or_lte
<1>6. CASE cmp_gt_or_gte
  BY <1>2, <1>3, <1>6, BinaryStep DEF cmp_gt_or_gte
<1>7. CASE cmp_eq
  BY <1>2, <1>3, <1>7, BinaryStep DEF cmp_eq
<1>8. CASE cmp_ne
  BY <1>1, <1>2, <1>3, <1>8, BinaryStep, FailStep DEF cmp_ne
<1>9. CASE expect_pipe_or_or
  BY <1>2, <1>3, <1>9, BinaryStep, PushStep, Pushable DEF expect_pipe_or_or
<1>10. CASE expect_and
  BY <1>2, <1>3, <1>10, BinaryStep DEF expect_and
<1> QED BY <1>4, <1>5, <1>6, <1>7, <1>8, <1>9, <1>10 DEF ReadOperator

LEMMA BeginListStep ==
  ASSUME Before, Top \notin Framing \cup KeyTops, NEW x \in Ordinary, BeginMultiSelectList(x)
  PROVE  StaysBalanced
<1> DEFINE new == Replace(<<"multi_select_list", x>>)
           tok == Tok("begin_multi_select_list")
<1>1. Becomes("multi_select_list", new)
  BY BecomesReplaced DEF Before, path_state
<1>2. tok \in Token /\ tok.kind = GroupOpener["multi_select_list"]
      /\ "multi_select_list" \in DOMAIN GroupOpener
  BY TokensMade, Openings DEF Stored, Openers
<1>3. PushedFrom(push_token(tok, stacks), 0, new, buffer)
  BY DEF BeginMultiSelectList, Push
<1> HIDE DEF new, tok
<1> QED BY <1>1, <1>2, <1>3, BeginStep

(* A list begins with the number that has been read as an index. *)
LEMMA NumberThenCommaStep ==
  ASSUME Before, Top \notin Framing \cup KeyTops, NumberThenComma
  PROVE  StaysBalanced
<1>1. /\ NoKeyTop /\ Quiet(On(<<"lhs_expression">>))
      /\ Tok("separator") \in Token /\ Tok("separator").kind \in Plain
  BY AtOrdinary, OrdinaryStates, Pushable
<1>2. CASE FlushPush(1, On(<<"lhs_expression">>), Tok("separator"))
  BY <1>1, <1>2, PushStep
<1> DEFINE begun == push_token(Tok("begin_multi_select_list"), stacks)
           t == push_token(Tok("separator"), checkBuffer(begun))
           new == Replace(<<"multi_select_list", "lhs_expression">>)
<1>3. CASE PushedFrom(t, 1, new, Unflushed)
  <2>1. state_stack' = new /\ stacks' = t
    BY <1>3 DEF PushedFrom
  <2>2. /\ Becomes("multi_select_list", new)
        /\ new # <<>> /\ Last(new) = "lhs_expression"
    <3>1. Becomes("multi_select_list", new)
      BY BecomesReplaced, OrdinaryStates DEF Before, path_state
    <3>2. Under \in Seq(path_state)
      BY FrontStates DEF Before, StatesOK, Under
    <3>3. new # <<>> /\ Last(new) = "lhs_expression"
      BY <3>2 DEF Replace, Last
    <3> QED BY <3>1, <3>3
  <2>3. /\ Tok("begin_multi_select_list") \in Token
        /\ Tok("begin_multi_select_list").kind = GroupOpener["multi_select_list"]
        /\ "multi_select_list" \in DOMAIN GroupOpener
    BY TokensMade, Openings DEF Stored, Openers
  <2>4. StacksOK(stacks) /\ StacksOK(begun) /\ buffer \in BufferText
    BY <2>3, PushKeepsStacks DEF Before
  <2> HIDE DEF new
  <2>5. Balanced(new, begun)
    <3>1. /\ state_stack \in Seq(path_state) /\ state_stack # <<>> /\ new \in Seq(path_state)
          /\ Replaces(state_stack, new, "multi_select_list") /\ Balanced(state_stack, stacks)
          /\ Last(state_stack) \notin DOMAIN GroupOpener \cup {"expect_rparen"} \cup KeyTops
      BY <2>2 DEF Before, Becomes, StatesOK, Top, Framing
    <3> QED BY <2>3, <2>4, <3>1, BeginBalanced
  <2> HIDE DEF begun
  <2>6. Neutral(begun, t)
    <3>1. StacksOK(checkBuffer(begun)) /\ Neutral(begun, checkBuffer(begun))
      BY <2>4, BufferChecked, CheckNeutral
    <3>2. Neutral(checkBuffer(begun), t)
      BY <1>1, <3>1, PushNeutral
    <3> QED BY <3>1, <3>2, NeutralTwice
  <2> HIDE DEF t
  <2>7. new \in Seq(path_state) /\ SameFrames(new, new) /\ Last(new) \notin KeyTops
    BY <2>2, SameAbove, KeyTopsAre DEF Becomes, EscapeStates
  <2> QED BY <2>1, <2>2, <2>5, <2>6, <2>7, NeutralBalanced DEF StaysBalanced
<1> QED BY <1>2, <1>3 DEF NumberThenComma

LEMMA EndSliceStep ==
  ASSUME NoKeyTop, Quiet(Under), EndSlice
  PROVE  StaysBalanced
<1>1. Neutral(stacks, push_token(Expression("projection_op"), stacks))
  BY Pushable, PushNeutral DEF NoKeyTop, Before
<1> QED BY <1>1, PushedStep DEF EndSlice

LEMMA SliceStep ==
  ASSUME NoKeyTop, NEW new, Quiet(new), state_stack' = new, UNCHANGED <<stacks, status>>
  PROVE  StaysBalanced
BY KeptSelf, SteadyStep

LEMMA ReadBracketStep ==
  ASSUME Before, ReadBracket
  PROVE  StaysBalanced
<1> USE DEF At
<1>1. /\ "expected_index_expression" # NoError /\ "expected_rbracket" # NoError
      /\ "unexpected_end_of_input" # NoError /\ "expected_multi_select_list" # NoError
      /\ "invalid_number" # NoError /\ "step_cannot_be_zero" # NoError
  BY DEF NoError
<1>2. ASSUME Top \in {"bracket_specifier", "bracket_specifier_or_multi_select_list",
                      "expect_multi_select_list", "expect_rbracket"} \cup SliceStates
      PROVE  /\ Top \notin Framing \cup KeyTops /\ NoKeyTop /\ Quiet(Under)
             /\ Quiet(Replace(<<"expect_rbracket">>))
             /\ Quiet(Replace(<<"bracket_specifier">>))
             /\ \A x \in SliceStates : Quiet(Replace(<<x, "number">>))
  <2>1. Top \notin Framing \cup KeyTops
    BY <1>2, KeyTopsAre DEF SliceStates, EscapeStates
  <2> QED BY <2>1, AtOrdinary, OrdinaryStates
<1>3. /\ "index_or_slice_expression" \in SliceStates
      /\ "rhs_slice_expression_stop" \in SliceStates
      /\ "rhs_slice_expression_step" \in SliceStates
      /\ "number" \in Ordinary /\ "lhs_expression" \in Ordinary
  BY OrdinaryStates DEF SliceStates
<1>4. CASE bracket_specifier
  <2>1. CASE Push(1, Replace(<<"filter", "rhs_expression", "lhs_expression">>),
                  Tok("begin_filter"))
    <3> DEFINE new == Replace(<<"filter", "rhs_expression", "lhs_expression">>)
               tok == Tok("begin_filter")
    <3>1. Becomes("filter", new)
      BY BecomesReplaced, OrdinaryStates DEF Before, path_state
    <3>2. tok \in Token /\ tok.kind = GroupOpener["filter"] /\ "filter" \in DOMAIN GroupOpener
      BY TokensMade, Openings DEF Stored, Openers
    <3>3. PushedFrom(push_token(tok, stacks), 1, new, buffer)
      BY <2>1 DEF Push
    <3>4. Top \notin Framing \cup KeyTops
      BY <1>2, <1>4 DEF bracket_specifier
    <3> HIDE DEF new, tok
    <3> QED BY <3>1, <3>2, <3>3, <3>4, BeginStep
  <2> QED BY <1>1, <1>2, <1>3, <1>4, <2>1, Pushable, PushStep, GotoStep, FailStep
          DEF bracket_specifier
<1>5. CASE bracket_specifier_or_multi_select_list
  BY <1>1, <1>2, <1>3, <1>5, BeginListStep, GotoStep, FailStep
     DEF bracket_specifier_or_multi_select_list
<1>6. CASE expect_multi_select_list
  BY <1>1, <1>2, <1>3, <1>6, Pushable, PushStep, BeginListStep, FailStep
     DEF expect_multi_select_list
<1>7. CASE expect_rbracket
  BY <1>1, <1>2, <1>7, GotoStep, FailStep DEF expect_rbracket
<1>8. CASE multi_select_list
  <2>1. Top = "multi_select_list" /\ Top \notin KeyTops
    BY <1>8, KeyTopsAre DEF multi_select_list, EscapeStates
  <2>2. /\ NoKeyTop /\ Quiet(On(<<"lhs_expression">>)) /\ Quiet(On(<<"sub_expression">>))
        /\ Quiet(On(<<"lhs_expression", "expect_pipe_or_or">>))
    BY <2>1, AtFrame, OrdinaryStates
  <2>3. Ends(Tok("end_multi_select_list").kind, Top)
    BY <2>1 DEF Tok, Ends
  <2> QED BY <1>1, <1>8, <2>1, <2>2, <2>3, Pushable, AdvanceStep, PushStep, EndStep, GotoStep,
             FailStep DEF multi_select_list
<1>9. CASE filter
  <2>1. Top = "filter" /\ Top \notin KeyTops
    BY <1>9, KeyTopsAre DEF filter, EscapeStates
  <2>2. NoKeyTop /\ Ends(Tok("end_filter").kind, Top)
    BY <2>1, AtFrame DEF Tok, Ends
  <2> QED BY <1>1, <1>9, <2>2, AdvanceStep, EndStep, FailStep DEF filter
<1>10. CASE index_or_slice_expression
  <2>1. Top \in SliceStates
    BY <1>3, <1>10 DEF index_or_slice_expression
  <2> QED BY <1>1, <1>2, <1>3, <1>10, <2>1, Pushable, PushStep, TakeTextStep, SliceStep,
             NumberThenCommaStep, FailStep DEF index_or_slice_expression
<1>11. CASE rhs_slice_expression_stop
  <2>1. Top \in SliceStates
    BY <1>3, <1>11 DEF rhs_slice_expression_stop
  <2> QED BY <1>1, <1>2, <1>3, <1>11, <2>1, EndSliceStep, SliceStep, FailStep
          DEF rhs_slice_expression_stop
<1>12. CASE rhs_slice_expression_step
  <2>1. Top \in SliceStates
    BY <1>3, <1>12 DEF rhs_slice_expression_step
  <2> QED BY <1>1, <1>2, <1>12, <2>1, EndSliceStep, FailStep DEF rhs_slice_expression_step
<1> QED BY <1>4, <1>5, <1>6, <1>7, <1>8, <1>9, <1>10, <1>11, <1>12 DEF ReadBracket

-----------------------------------------------------------------------------
(* Text, which may be the first key of a hash. *)

LEMMA SameFramesTwice ==
  ASSUME NEW a, NEW b, NEW d, SameFrames(a, b), SameFrames(b, d)
  PROVE  SameFrames(a, d)
BY DEF SameFrames

(* While a key is read the hash keeps waiting for it. *)
LEMMA KeyTextCarried ==
  ASSUME NEW states \in Seq(path_state), states # <<>>, Last(states) \in KeyTextStates
  PROVE  /\ SameFrames(states, Front(states)) /\ Front(states) \in Seq(path_state)
         /\ \A i \in Hashes(states) : InFirstKey(states, i) => InFirstKey(Front(states), i)
         /\ \A x \in KeyTextStates :
              /\ \A i \in Hashes(states) : InFirstKey(states, i) => InFirstKey(states \o <<x>>, i)
              /\ \A i \in Hashes(states) :
                   InFirstKey(states, i) => InFirstKey(Front(states) \o <<x>>, i)
<1> DEFINE n == Len(states)
           u == Front(states)
<1>1. /\ n \in Nat \ {0} /\ DOMAIN states = 1 .. n /\ states[n] \in KeyTextStates
      /\ u \in Seq(path_state) /\ DOMAIN u = 1 .. n - 1
      /\ \A k \in 1 .. n - 1 : u[k] = states[k]
      /\ Len(u) = n - 1
  BY FrontStates DEF Last
<1>2. \A x \in {"multi_select_hash", "key_val_expr", "expect_colon", "key_expr"} :
        x \notin KeyTextStates
  BY DEF KeyTextStates, EscapeStates
<1>3. SameFrames(states, Front(states))
  <2>1. Last(states) \notin DOMAIN GroupOpener \cup {"expect_rparen"}
    BY Openings DEF KeyTextStates, EscapeStates
  <2> QED BY <2>1, SameUnder
<1> HIDE DEF n, u
<1>4. ASSUME NEW i \in Hashes(states), InFirstKey(states, i)
      PROVE  /\ i \in 1 .. n /\ states[i] = "expect_colon"
             /\ i + 1 \in 1 .. n - 1 /\ states[i+1] = "key_expr"
             /\ \A j \in 1 .. n : j > i + 1 => states[j] \in KeyTextStates
  <2>1. i \in 1 .. n /\ ~(states[i] \in {"multi_select_hash", "key_val_expr"} /\ i = n)
    BY <1>1, <1>2 DEF Hashes, Groups
  <2>2. /\ states[i] = "expect_colon" /\ i + 1 \in 1 .. n /\ states[i+1] = "key_expr"
        /\ \A j \in 1 .. n : j > i + 1 => states[j] \in KeyTextStates
    BY <1>1, <1>4, <2>1 DEF InFirstKey, n
  <2>3. i + 1 # n
    BY <1>1, <1>2, <2>2
  <2> QED BY <1>1, <2>1, <2>2, <2>3
<1>5. ASSUME NEW i \in Hashes(states), InFirstKey(states, i)
      PROVE  InFirstKey(u, i)
  <2>1. u[i] = "expect_colon" /\ i + 1 \in DOMAIN u /\ u[i+1] = "key_expr"
    BY <1>1, <1>4, <1>5
  <2>2. \A j \in DOMAIN u : j > i + 1 => u[j] \in KeyTextStates
    BY <1>1, <1>4, <1>5
  <2> QED BY <2>1, <2>2 DEF InFirstKey
<1>6. ASSUME NEW x \in KeyTextStates, NEW q \in Seq(path_state), NEW m \in Nat,
             DOMAIN q = 1 .. m, m = n \/ m = n - 1, \A k \in 1 .. m : q[k] = states[k],
             NEW i \in Hashes(states), InFirstKey(states, i)
      PROVE  InFirstKey(q \o <<x>>, i)
  <2>1. /\ DOMAIN (q \o <<x>>) = 1 .. m + 1 /\ (q \o <<x>>)[m + 1] = x
        /\ \A k \in 1 .. m : (q \o <<x>>)[k] = states[k]
    BY <1>6
  <2> DEFINE r == q \o <<x>>
  <2>2. DOMAIN r = 1 .. m + 1 /\ r[m + 1] = x /\ \A k \in 1 .. m : r[k] = states[k]
    BY <2>1
  <2> HIDE DEF r
  <2>3. r[i] = "expect_colon" /\ i + 1 \in DOMAIN r /\ r[i+1] = "key_expr"
    BY <1>1, <1>4, <1>6, <2>2
  <2>4. \A j \in DOMAIN r : j > i + 1 => r[j] \in KeyTextStates
    BY <1>1, <1>4, <1>6, <2>2
  <2>5. InFirstKey(r, i)
    BY <2>3, <2>4 DEF InFirstKey
  <2> QED BY <2>5 DEF r
<1>7. \A x \in KeyTextStates, i \in Hashes(states) :
        InFirstKey(states, i) => InFirstKey(states \o <<x>>, i)
  BY <1>1, <1>6
<1>8. \A x \in KeyTextStates, i \in Hashes(states) :
        InFirstKey(states, i) => InFirstKey(u \o <<x>>, i)
  BY <1>1, <1>6
<1> QED BY <1>1, <1>3, <1>5, <1>7, <1>8 DEF u

(* A state stack that waits for every first key that state_stack_ waits for. *)
Carried(new) ==
  /\ Quiet(new)
  /\ \A i \in Hashes(state_stack) : InFirstKey(state_stack, i) => InFirstKey(new, i)

LEMMA CarriedBalanced ==
  ASSUME Before, NEW new, Carried(new),
         NEW t, t.output = stacks.output, t.operators = stacks.operators, t.ec = stacks.ec
  PROVE  Balanced(new, t)
BY CarriedLedger DEF Before, StatesOK, Carried, Quiet, Balanced

LEMMA CarriedStep ==
  ASSUME Before, NEW new, Carried(new), NEW n, NEW text,
         \/ Goto(n, new) \/ Collect(n, new, text) \/ PassSpace(new, stacks, text)
  PROVE  StaysBalanced
<1>1. Balanced(new, stacks) /\ StacksOK(stacks)
  BY CarriedBalanced DEF Before
<1> QED BY <1>1, PassSpaceStep DEF Goto, Collect, StaysBalanced

LEMMA AtKeyText ==
  ASSUME Before, Top \in KeyTextStates
  PROVE  /\ Carried(state_stack) /\ Carried(Under)
         /\ \A x \in KeyTextStates : Carried(On(<<x>>)) /\ Carried(Replace(<<x>>))
<1>1. /\ state_stack \in Seq(path_state) /\ state_stack # <<>>
      /\ Last(state_stack) \in KeyTextStates
  BY DEF Before, StatesOK, Top
<1>2. Top \notin Framing
  BY KeyTopsAre DEF KeyTextStates, EscapeStates
<1>3. StatesOK(state_stack) /\ KeyTextStates \subseteq Ordinary /\ Ordinary \subseteq path_state
  BY OrdinaryStates DEF Before, Ordinary
<1>4. /\ Quiet(state_stack) /\ Quiet(Under)
      /\ \A x \in KeyTextStates : Quiet(On(<<x>>)) /\ Quiet(Replace(<<x>>))
  BY <1>1, <1>2, <1>3, QuietOn, QuietUnder, BecomesReplaced
<1> QED BY <1>1, <1>4, KeyTextCarried DEF Carried, Under, On, Replace

(* A string that follows a dot becomes a value. *)
LEMMA AtSubString ==
  ASSUME Before, Top \notin Framing, Under # <<>>, Grandparent \in {"key_expr", "sub_expression"}
  PROVE  Quiet(Front(Under) \o <<"val_expr">>)
<1>1. /\ StatesOK(state_stack) /\ state_stack # <<>> /\ state_stack \in Seq(path_state)
  BY DEF Before, StatesOK
<1>2. Under \in Seq(path_state) /\ SameFrames(state_stack, Under)
  BY <1>1, QuietUnder DEF Quiet
<1>3. Last(Under) \notin DOMAIN GroupOpener \cup {"expect_rparen"}
  BY Openings DEF Grandparent
<1>4. "val_expr" \notin Special /\ "val_expr" \in path_state
  BY OrdinaryStates DEF Ordinary
<1> DEFINE u == Under
           new == Front(u) \o <<"val_expr">>
<1>5. Replaces(u, new, "val_expr")
  BY <1>2, ReplacedAt
<1>6. new \in Seq(path_state)
  <2>1. Front(u) \in Seq(path_state)
    BY <1>2, FrontStates
  <2> QED BY <1>4, <2>1, Tuples
<1> HIDE DEF new, u
<1>7. SameFrames(u, new)
  BY <1>2, <1>3, <1>4, <1>5, <1>6, SameUnder DEF u
<1>8. SameFrames(state_stack, new)
  BY <1>2, <1>7, SameFramesTwice DEF u
<1> QED BY <1>6, <1>8 DEF Quiet, new, u

(* No hash waits for a string that follows a dot. *)
LEMMA SubStringIsNoKey ==
  ASSUME Before, Top \in KeyTextStates, Under # <<>>, Grandparent = "sub_expression"
  PROVE  Carried(Front(Under) \o <<"val_expr">>)
<1>1. /\ state_stack \in Seq(path_state) /\ state_stack # <<>>
      /\ Last(state_stack) \in KeyTextStates
  BY DEF Before, StatesOK, Top
<1>2. Top \notin Framing
  BY KeyTopsAre DEF KeyTextStates, EscapeStates
<1>3. Quiet(Front(Under) \o <<"val_expr">>)
  BY <1>2, AtSubString
<1>4. ASSUME NEW i \in Hashes(state_stack) PROVE ~InFirstKey(state_stack, i)
  <2>1. /\ SameFrames(state_stack, Under) /\ Under \in Seq(path_state)
        /\ InFirstKey(state_stack, i) => InFirstKey(Under, i)
    BY <1>1, KeyTextCarried DEF Under
  <2>2. i \in Hashes(Under)
    BY <2>1 DEF Hashes, SameFrames
  <2>3. Last(Under) \notin KeyTops
    BY KeyTopsAre DEF Grandparent, EscapeStates
  <2> QED BY <2>1, <2>2, <2>3, NoFirstKey
<1> QED BY <1>3, <1>4 DEF Carried

LEMMA KeyTextStep ==
  ASSUME Before, \/ raw_string \/ unquoted_string \/ raw_string_escape_char
                 \/ quoted_string_escape_char \/ escape_digit \/ escape_u4 \/ escape_u8
                 \/ escape_expect_surrogate_pair1 \/ escape_expect_surrogate_pair2
  PROVE  StaysBalanced
<1> USE DEF At
<1>1. /\ "illegal_escaped_character" # NoError /\ "invalid_codepoint" # NoError
  BY DEF NoError
<1>2. /\ "raw_string" \in KeyTextStates /\ "unquoted_string" \in KeyTextStates
      /\ EscapeStates \subseteq KeyTextStates
      /\ {"escape_u1", "escape_u2", "escape_u3", "escape_u4", "escape_u5", "escape_u6",
          "escape_u7", "escape_u8", "raw_string_escape_char", "quoted_string_escape_char",
          "escape_expect_surrogate_pair1", "escape_expect_surrogate_pair2"} \subseteq EscapeStates
  BY DEF KeyTextStates, EscapeStates
<1>3. CASE raw_string
  <2>1. Top \in KeyTextStates
    BY <1>2, <1>3 DEF raw_string
  <2>2. Under # <<>>
    BY <1>3, UnderOK DEF raw_string, Before, Roots
  <2>3. CASE Goto(1, IF Grandparent = "sub_expression"
                     THEN Front(Under) \o <<"val_expr">> ELSE Under)
    <3>1. CASE Grandparent = "sub_expression"
      BY <2>1, <2>2, <2>3, <3>1, SubStringIsNoKey, CarriedStep
    <3>2. CASE Grandparent # "sub_expression"
      BY <2>1, <2>3, <3>2, AtKeyText, CarriedStep
    <3> QED BY <3>1, <3>2
  <2>4. CASE Goto(1, On(<<"raw_string_escape_char">>))
    BY <1>2, <2>1, <2>4, AtKeyText, CarriedStep
  <2>5. CASE Collect(1, state_stack, push_back(buffer, c))
    BY <2>1, <2>5, AtKeyText, CarriedStep
  <2> QED BY <1>3, <2>3, <2>4, <2>5 DEF raw_string
<1>4. CASE unquoted_string
  <2>1. Carried(Under) /\ Carried(state_stack)
    BY <1>2, <1>4, AtKeyText DEF unquoted_string
  <2> QED BY <1>4, <2>1, CarriedStep DEF unquoted_string
<1>5. CASE raw_string_escape_char
  <2>1. Carried(Under) /\ Carried(Replace(<<"escape_u1">>))
    BY <1>2, <1>5, AtKeyText DEF raw_string_escape_char
  <2> QED BY <1>5, <2>1, CarriedStep DEF raw_string_escape_char
<1>6. CASE quoted_string_escape_char
  <2>1. Carried(Under) /\ Carried(Replace(<<"escape_u1">>))
    BY <1>2, <1>6, AtKeyText DEF quoted_string_escape_char
  <2> QED BY <1>1, <1>6, <2>1, CarriedStep, FailStep DEF quoted_string_escape_char
<1>7. CASE escape_digit
  <2>1. /\ DOMAIN AfterHexDigit \subseteq EscapeStates
        /\ \A x \in DOMAIN AfterHexDigit : AfterHexDigit[x] \in EscapeStates
    BY DEF AfterHexDigit, EscapeStates
  <2>2. Carried(Replace(<<AfterHexDigit[Top]>>))
    BY <1>2, <1>7, <2>1, AtKeyText DEF escape_digit
  <2> QED BY <1>1, <1>7, <2>2, CarriedStep, FailStep DEF escape_digit
<1>8. CASE escape_u4
  <2>1. Carried(Under) /\ Carried(Replace(<<"escape_expect_surrogate_pair1">>))
    BY <1>2, <1>8, AtKeyText DEF escape_u4
  <2> QED BY <1>1, <1>8, <2>1, CarriedStep, FailStep DEF escape_u4, CollectCodepoint
<1>9. CASE escape_u8
  <2>1. Carried(Under)
    BY <1>2, <1>9, AtKeyText DEF escape_u8
  <2> QED BY <1>1, <1>9, <2>1, CarriedStep, FailStep DEF escape_u8
<1>10. CASE escape_expect_surrogate_pair1
  <2>1. Carried(Replace(<<"escape_expect_surrogate_pair2">>))
    BY <1>2, <1>10, AtKeyText DEF escape_expect_surrogate_pair1
  <2> QED BY <1>1, <1>10, <2>1, CarriedStep, FailStep DEF escape_expect_surrogate_pair1
<1>11. CASE escape_expect_surrogate_pair2
  <2>1. Carried(Replace(<<"escape_u5">>))
    BY <1>2, <1>11, AtKeyText DEF escape_expect_surrogate_pair2
  <2> QED BY <1>1, <1>11, <2>1, CarriedStep, FailStep DEF escape_expect_surrogate_pair2
<1> QED BY <1>3, <1>4, <1>5, <1>6, <1>7, <1>8, <1>9, <1>10, <1>11

LEMMA ReadTextStep ==
  ASSUME Before, ReadText
  PROVE  StaysBalanced
<1> USE DEF At
<1>1. "invalid_literal" # NoError /\ "unexpected_end_of_input" # NoError
  BY DEF NoError
<1>2. ASSUME Top \in {"quoted_string", "literal", "number", "digit"}
      PROVE  /\ NoKeyTop /\ Quiet(state_stack) /\ Quiet(Under) /\ Quiet(Replace(<<"digit">>))
             /\ Quiet(On(<<"quoted_string_escape_char">>))
             /\ Top \notin Framing
  <2>1. Top \notin Framing \cup KeyTops
    BY <1>2, KeyTopsAre DEF EscapeStates
  <2>2. "quoted_string_escape_char" \in Ordinary /\ "digit" \in Ordinary
    BY OrdinaryStates DEF EscapeStates
  <2> QED BY <2>1, <2>2, AtOrdinary
<1>3. CASE quoted_string
  <2>1. Under # <<>>
    BY <1>3, UnderOK DEF quoted_string, Before, Roots
  <2>2. Grandparent \in {"key_expr", "sub_expression"} => Quiet(Front(Under) \o <<"val_expr">>)
    BY <1>2, <1>3, <2>1, AtSubString DEF quoted_string
  <2> QED BY <1>2, <1>3, <2>2, Pushable, GotoStep, TakeTextStep DEF quoted_string
<1>4. CASE literal
  BY <1>1, <1>2, <1>4, Pushable, GotoStep, TakeTextStep, FailStep DEF literal
<1>5. CASE number
  BY <1>2, <1>5, GotoStep DEF number
<1>6. CASE digit
  BY <1>2, <1>6, GotoStep DEF digit
<1> QED BY <1>3, <1>4, <1>5, <1>6, KeyTextStep DEF ReadText

-----------------------------------------------------------------------------
(* Multi-select hashes. *)

HashStates == {"multi_select_hash", "key_val_expr", "expect_colon", "expect_rbrace"}

LEMMA HashQuiet ==
  ASSUME Before, Top \in HashStates, NEW f \in HashStates, NEW new, Becomes(f, new)
  PROVE  Quiet(new)
<1>1. /\ state_stack \in Seq(path_state) /\ state_stack # <<>>
      /\ new \in Seq(path_state) /\ Replaces(state_stack, new, f)
  BY DEF Before, StatesOK, Becomes
<1>2. /\ f \in DOMAIN GroupOpener /\ Last(state_stack) \in DOMAIN GroupOpener
      /\ GroupOpener[f] = GroupOpener[Last(state_stack)]
  BY Openings DEF HashStates, Top
<1>3. SameFrames(state_stack, new)
  BY <1>1, <1>2, SameTop
<1> QED BY <1>1, <1>3 DEF Quiet

(* The hash on top may wait for its first key, and no other does. *)
LEMMA HashCarried ==
  ASSUME Before, Top \in HashStates, NEW f \in HashStates, NEW new, Becomes(f, new),
         InFirstKey(new, Len(state_stack))
  PROVE  Carried(new)
<1>1. /\ state_stack \in Seq(path_state) /\ state_stack # <<>>
      /\ Last(state_stack) \in DOMAIN GroupOpener
  BY Openings DEF Before, StatesOK, HashStates, Top
<1>2. \A i \in Hashes(state_stack) : InFirstKey(state_stack, i) => i = Len(state_stack)
  BY <1>1, HashesOf
<1> QED BY <1>2, HashQuiet DEF Carried

LEMMA FirstKeyBegins ==
  ASSUME StatesOK(state_stack), state_stack # <<>>
  PROVE  /\ InFirstKey(Replace(<<"key_val_expr">>), Len(state_stack))
         /\ \A x \in KeyTextStates :
              InFirstKey(Replace(<<"expect_colon", "key_expr", x>>), Len(state_stack))
<1> DEFINE n == Len(state_stack)
           u == Under
<1>1. n \in Nat \ {0} /\ u \in Seq(path_state) /\ Len(u) = n - 1
  <2>1. state_stack \in Seq(path_state)
    BY DEF StatesOK
  <2>2. n \in Nat \ {0} /\ Front(state_stack) \in Seq(path_state)
        /\ DOMAIN Front(state_stack) = 1 .. n - 1
    BY <2>1, FrontStates
  <2> QED BY <2>2 DEF Under
<1> HIDE DEF n, u
<1>2. InFirstKey(u \o <<"key_val_expr">>, n)
  <2> DEFINE r == u \o <<"key_val_expr">>
  <2>1. Len(r) = n /\ r[n] = "key_val_expr"
    BY <1>1
  <2> HIDE DEF r
  <2> QED BY <2>1 DEF InFirstKey, r
<1>3. ASSUME NEW x \in KeyTextStates
      PROVE  InFirstKey(u \o <<"expect_colon", "key_expr", x>>, n)
  <2> DEFINE r == u \o <<"expect_colon", "key_expr", x>>
  <2>1. /\ DOMAIN r = 1 .. n + 2 /\ r[n] = "expect_colon" /\ r[n+1] = "key_expr" /\ r[n+2] = x
    BY <1>1
  <2> HIDE DEF r
  <2>2. n + 1 \in DOMAIN r /\ \A j \in DOMAIN r : j > n + 1 => r[j] \in KeyTextStates
    BY <1>1, <2>1
  <2> QED BY <2>1, <2>2 DEF InFirstKey, r
<1> QED BY <1>2, <1>3 DEF Replace, n, u

(* The beginning of the hash is what lies on top while its first key is awaited. *)
LEMMA HashOnTop ==
  ASSUME NEW states \in Seq(path_state), states # <<>>, Last(states) \in HashStates,
         NEW s, StacksOK(s), Ledger(states, s), NEW k \in Opened(s.output), OnTop(s, k)
  PROVE  Last(s.output).kind = "begin_multi_select_hash"
<1>1. /\ Last(states) \in DOMAIN GroupOpener
      /\ GroupOpener[Last(states)] = "begin_multi_select_hash"
  BY Openings DEF HashStates
<1>2. PICK lparen \in [Frames(states) -> Lparens(s.operators)],
           opener \in [Groups(states) -> Opened(s.output)] : LedgerBy(states, s, opener, lparen)
  BY DEF Ledger
<1>3. /\ LastOpened(s.output, opener[Len(states)])
      /\ s.output[opener[Len(states)]].kind = GroupOpener[Last(states)]
  BY <1>1, <1>2, InnermostOpened
<1>4. s.output \in Seq(Token) /\ k = Len(s.output)
  BY Parts DEF OnTop
<1> DEFINE b == opener[Len(states)]
<1>5. b \in DOMAIN s.output /\ k <= b /\ k \in Nat /\ s.output[b].kind = "begin_multi_select_hash"
  BY <1>1, <1>3, <1>4 DEF LastOpened, Opened
<1> HIDE DEF b
<1>6. b = Len(s.output)
  BY <1>4, <1>5
<1> QED BY <1>5, <1>6 DEF Last

LEMMA KeySpaceStep ==
  ASSUME Before, Top = "key_val_expr", rest # <<>>, FirstKeysAreNames,
         advance_past_space_character
  PROVE  StaysBalanced
<1> DEFINE t == checkBuffer(stacks)
<1>1. /\ state_stack \in Seq(path_state) /\ state_stack # <<>> /\ StacksOK(stacks)
      /\ Balanced(state_stack, stacks) /\ Last(state_stack) \in HashStates
      /\ c \in Spaces
  BY DEF Before, StatesOK, Top, HashStates, advance_past_space_character, AdvancePastSpaceFrom
<1>2. ASSUME t.ec = NoError PROVE Ledger(state_stack, t)
  <2>1. stacks.ec = NoError /\ Kept(stacks, t)
    BY <1>2, FlushedNeutral DEF Neutral
  <2>2. Ledger(state_stack, stacks) /\ SameFrames(state_stack, state_stack)
    BY <1>1, <2>1, SameAbove DEF Balanced
  <2>3. CASE Last(stacks.output).kind = "begin_multi_select_hash"
    <3>1. buffer = "empty" /\ buffer \notin JsonTexts
      BY <1>1, <2>3 DEF FirstKeysAreNames, JsonTexts
    <3>2. t = stacks
      BY <3>1 DEF checkBuffer
    <3> QED BY <2>2, <3>2
  <2>4. CASE Last(stacks.output).kind # "begin_multi_select_hash"
    <3>1. \A k \in Opened(stacks.output) : ~OnTop(stacks, k)
      BY <1>1, <2>2, <2>4, HashOnTop
    <3> HIDE DEF t
    <3> QED BY <1>1, <2>1, <2>2, <3>1, SteadyLedger
  <2> QED BY <2>3, <2>4
<1> QED BY <1>1, <1>2, AdvanceFromStep DEF Balanced, advance_past_space_character

(* A key that is not the first, or a quoted one, which may not be the first. *)
LEMMA QuotedKeyStep ==
  ASSUME Before, Top = "key_val_expr", rest # <<>>, FirstKeysAreNames, c = "quote",
         Goto(1, Replace(<<"expect_colon", "key_expr", "quoted_string">>))
  PROVE  StaysBalanced
<1> DEFINE new == Replace(<<"expect_colon", "key_expr", "quoted_string">>)
<1>1. /\ state_stack \in Seq(path_state) /\ state_stack # <<>> /\ StacksOK(stacks)
      /\ Balanced(state_stack, stacks) /\ Last(state_stack) \in HashStates
      /\ Top \in HashStates
  BY DEF Before, StatesOK, Top, HashStates
<1>2. Quiet(new)
  <2>1. Becomes("expect_colon", new) /\ "expect_colon" \in HashStates
    BY BecomesReplaced, OrdinaryStates DEF Before, path_state, HashStates
  <2> QED BY <1>1, <2>1, HashQuiet
<1>3. Last(stacks.output).kind # "begin_multi_select_hash"
  BY DEF FirstKeysAreNames, Before
<1>4. state_stack' = new /\ stacks' = stacks
  BY DEF Goto
<1> HIDE DEF new
<1>5. ASSUME stacks.ec = NoError PROVE Ledger(new, stacks)
  <2>1. Ledger(state_stack, stacks)
    BY <1>1, <1>5 DEF Balanced
  <2>2. \A k \in Opened(stacks.output) : ~OnTop(stacks, k)
    BY <1>1, <1>3, <2>1, HashOnTop
  <2> QED BY <1>1, <1>2, <2>1, <2>2, KeptSelf, SteadyLedger DEF Quiet
<1> QED BY <1>4, <1>5 DEF StaysBalanced, Balanced

LEMMA ReadHashStep ==
  ASSUME Before, FirstKeysAreNames, ReadHash
  PROVE  StaysBalanced
<1> USE DEF At
<1>1. "expected_key" # NoError /\ "expected_colon" # NoError /\ "expected_rbrace" # NoError
  BY DEF NoError
<1>2. /\ \A f \in HashStates : Becomes(f, Replace(<<f>>))
      /\ Becomes("expect_rbrace", Replace(<<"expect_rbrace", "lhs_expression">>))
      /\ \A x \in KeyTextStates :
           Becomes("expect_colon", Replace(<<"expect_colon", "key_expr", x>>))
  <2>1. HashStates \subseteq path_state
    BY DEF HashStates, path_state
  <2>2. "expect_rbrace" \in HashStates /\ "expect_colon" \in HashStates
    BY DEF HashStates
  <2> QED BY <2>1, <2>2, BecomesReplaced, OrdinaryStates DEF Before
<1>3. {"multi_select_hash", "key_val_expr", "expect_colon", "expect_rbrace"} \subseteq HashStates
      /\ "raw_string" \in KeyTextStates /\ "unquoted_string" \in KeyTextStates
  BY DEF HashStates, KeyTextStates
<1>4. CASE multi_select_hash
  <2>1. Top = "multi_select_hash"
    BY <1>4 DEF multi_select_hash
  <2>2. CASE Push(1, Under, Tok("end_multi_select_hash"))
    <3>1. Ends(Tok("end_multi_select_hash").kind, Top)
      BY <2>1 DEF Tok, Ends
    <3> QED BY <2>2, <3>1, EndStep
  <2>3. CASE Goto(0, Replace(<<"key_val_expr">>))
    <3>1. Carried(Replace(<<"key_val_expr">>))
      BY <1>2, <1>3, <2>1, FirstKeyBegins, HashCarried DEF Before
    <3> QED BY <2>3, <3>1, CarriedStep
  <2>4. CASE UNCHANGED vars
    BY <2>4 DEF vars, StaysBalanced, Before
  <2> QED BY <1>4, <2>2, <2>3, <2>4 DEF multi_select_hash
<1>5. CASE key_val_expr
  <2>1. Top = "key_val_expr" /\ rest # <<>>
    BY <1>5 DEF key_val_expr, CanRead
  <2>2. \A x \in KeyTextStates : Carried(Replace(<<"expect_colon", "key_expr", x>>))
    BY <1>2, <1>3, <2>1, FirstKeyBegins, HashCarried DEF Before
  <2>3. /\ Carried(Replace(<<"expect_colon", "key_expr", "raw_string">>))
        /\ Carried(Replace(<<"expect_colon", "key_expr", "unquoted_string">>))
    BY <1>3, <2>2
  <2> QED BY <1>1, <1>5, <2>1, <2>3, KeySpaceStep, QuotedKeyStep, CarriedStep, FailStep
          DEF key_val_expr
<1>6. CASE expect_colon
  <2>1. Top = "expect_colon" /\ Top \notin KeyTops
    BY <1>6, KeyTopsAre DEF expect_colon, EscapeStates
  <2>2. NoKeyTop /\ Quiet(Replace(<<"expect_rbrace", "lhs_expression">>))
    BY <1>2, <1>3, <2>1, HashQuiet, AtFrame
  <2> QED BY <1>1, <1>6, <2>2, AdvanceStep, GotoStep, FailStep DEF expect_colon
<1>7. CASE expect_rbrace
  <2>1. Top = "expect_rbrace" /\ Top \notin KeyTops
    BY <1>7, KeyTopsAre DEF expect_rbrace, EscapeStates
  <2>2. NoKeyTop /\ Quiet(Replace(<<"key_val_expr">>))
    BY <1>2, <1>3, <2>1, HashQuiet, AtFrame
  <2>3. /\ Quiet(On(<<"lhs_expression">>)) /\ Quiet(On(<<"sub_expression">>))
        /\ Quiet(On(<<"jf_expression">>))
    BY <2>1, AtFrame, OrdinaryStates
  <2>4. Ends(Tok("end_multi_select_hash").kind, Top)
    BY <2>1 DEF Tok, Ends
  <2> QED BY <1>1, <1>7, <2>1, <2>2, <2>3, <2>4, Pushable, AdvanceStep, PushStep, EndStep,
             FlushGotoStep, FailStep DEF expect_rbrace
<1> QED BY <1>4, <1>5, <1>6, <1>7 DEF ReadHash

-----------------------------------------------------------------------------
(* The end of the expression. *)

LEMMA EndParts ==
  ASSUME NEW s, StacksOK(s)
  PROVE  /\ EndOfExpression(s).output = s.output \o Reverse(s.operators)
         /\ EndOfExpression(s).operators = <<>> /\ EndOfExpression(s).ec = s.ec
<1> DEFINE q == s.output \o Reverse(s.operators)
<1>1. s = Record(s.output, s.operators, s.ec, s.lists)
  BY Parts
<1> HIDE DEF q
<1>2. EndOfExpression(s) = Record(q, <<>>, s.ec, s.lists)
  <2> DEFINE r == [s EXCEPT !.output = q]
  <2>1. [s EXCEPT !.output = q, !.operators = <<>>] = [r EXCEPT !.operators = <<>>]
    OBVIOUS
  <2>2. r = Record(q, s.operators, s.ec, s.lists)
    BY <1>1 DEF Record
  <2> HIDE DEF r
  <2>3. [r EXCEPT !.operators = <<>>] = Record(q, <<>>, s.ec, s.lists)
    BY <2>2 DEF Record
  <2> QED BY <2>1, <2>3 DEF EndOfExpression, q, r
<1>3. EndOfExpression(s).output = q /\ EndOfExpression(s).operators = <<>>
      /\ EndOfExpression(s).ec = s.ec
  BY <1>2 DEF Record
<1> QED BY <1>3 DEF q

(* No group is open, so that every operator is moved to output_stack_. *)
LEMMA LastLedger ==
  ASSUME NEW s, StacksOK(s), Ledger(<<"rhs_expression">>, s)
  PROVE  Ledger(<<>>, EndOfExpression(s))
<1> DEFINE states == <<"rhs_expression">>
           t == EndOfExpression(s)
<1>1. /\ states \in Seq(path_state) /\ states # <<>> /\ <<>> \in Seq(path_state)
      /\ Last(states) = "rhs_expression"
  BY DEF Last, path_state
<1>2. /\ Groups(states) = {} /\ Parentheses(states) = {} /\ ExpressionTypes(states) = {}
      /\ Groups(<<>>) = {} /\ Parentheses(<<>>) = {} /\ ExpressionTypes(<<>>) = {}
  BY Openings DEF Groups, Parentheses, ExpressionTypes
<1> HIDE DEF states, t
<1>3. SameFrames(states, <<>>) /\ Last(states) \notin KeyTops
  BY <1>1, <1>2, KeyTopsAre DEF SameFrames, EscapeStates
<1>4. Lparens(s.operators) = {}
  <2>1. \E lparen \in [Frames(states) -> Lparens(s.operators)] :
           Pairs(lparen, Frames(states), Lparens(s.operators))
    BY DEF Ledger, LedgerBy, states
  <2> QED BY <1>2, <2>1 DEF Frames, Pairs
<1>5. /\ s.output \in Seq(Token) /\ s.operators \in Seq(OperatorToken)
      /\ t.output = s.output \o Reverse(s.operators) /\ t.operators = <<>>
  BY EndParts, Parts DEF t, OperatorsOK
<1>6. KeptOutput(s.output, t.output)
  <2> DEFINE r == Reverse(s.operators)
  <2>1. r \in Seq(OperatorToken)
    BY <1>5, Reversed
  <2>2. \A x \in OperatorToken : x \in Token /\ x.kind \notin Openers
    BY DEF OperatorToken, Openers, Operators
  <2> HIDE DEF r
  <2>3. r \in Seq(Token) /\ \A k \in 1 .. Len(r) : r[k].kind \notin Openers
    BY <2>1, <2>2
  <2> QED BY <1>5, <2>3, OutputExtended DEF r
<1>7. Kept(s, t)
  BY <1>4, <1>5, <1>6 DEF Kept, Lparens
<1> QED BY <1>1, <1>3, <1>7, KeptLedger DEF states, t

LEMMA EndOfInputStep ==
  ASSUME Before, EndOfInput
  PROVE  StaysBalanced
<1> USE DEF EndsIn
<1>1. /\ "invalid_literal" # NoError /\ "unbalanced_quotes" # NoError
      /\ "syntax_error" # NoError /\ "unexpected_end_of_input" # NoError
  BY DEF NoError
<1>2. ASSUME Top \in {"rhs_expression", "number", "digit", "val_expr",
                      "identifier_or_function_expr"}
      PROVE  NoKeyTop /\ Quiet(Under)
  <2>1. Top \notin Framing \cup KeyTops
    BY <1>2, KeyTopsAre DEF EscapeStates
  <2> QED BY <2>1, AtOrdinary
<1>3. CASE end_in_rhs_or_unquoted
  <2>1. CASE Top = "unquoted_string"
    <3>1. Carried(Under)
      BY <2>1, AtKeyText DEF KeyTextStates
    <3> QED BY <1>3, <3>1, CarriedStep DEF end_in_rhs_or_unquoted
  <2>2. CASE Top = "rhs_expression"
    BY <1>2, <1>3, <2>2, GotoStep DEF end_in_rhs_or_unquoted
  <2> QED BY <1>3, <2>1, <2>2 DEF end_in_rhs_or_unquoted
<1>4. CASE end_in_number
  BY <1>1, <1>2, <1>4, Pushable, TakeTextStep, FailStep DEF end_in_number
<1>5. CASE end_in_identifier
  BY <1>2, <1>5, Pushable, PushStep DEF end_in_identifier
<1>6. CASE end_in_string \/ end_elsewhere
  BY <1>1, <1>6, FailStep DEF end_in_string, end_elsewhere
<1>7. CASE end_of_expression
  <2>1. CASE Fail("unexpected_end_of_input")
    BY <1>1, <2>1, FailStep
  <2>2. CASE Top = "rhs_expression" /\ stacks' = EndOfExpression(stacks) /\ state_stack' = <<>>
    <3>1. /\ Len(state_stack) = 1 /\ state_stack \in Seq(path_state)
          /\ StacksOK(stacks) /\ Balanced(state_stack, stacks)
      BY <1>7 DEF end_of_expression, Before, StatesOK
    <3>2. state_stack = <<"rhs_expression">>
      BY <2>2, <3>1 DEF Top, Last
    <3>3. EndOfExpression(stacks).ec = stacks.ec
      BY <3>1, EndParts
    <3> QED BY <2>2, <3>1, <3>2, <3>3, LastLedger DEF StaysBalanced, Balanced
  <2> QED BY <1>7, <2>1, <2>2 DEF end_of_expression
<1>8. CASE empty_state_stack
  BY <1>8 DEF empty_state_stack, Before
<1> QED BY <1>3, <1>4, <1>5, <1>6, <1>7, <1>8 DEF EndOfInput

-----------------------------------------------------------------------------
LEMMA InitLedger == Init => LedgerInv
<1> SUFFICES ASSUME Init PROVE LedgerInv
  OBVIOUS
<1>1. state_stack = <<"start">> /\ stacks = push_token(CurrentNode, EmptyStacks)
  BY DEF Init
<1>2. push_token(CurrentNode, EmptyStacks) = Put(EmptyStacks, CurrentNode)
  BY DEF push_token, CurrentNode, Tok, Operators, Openers
<1>3. stacks.output = <<CurrentNode>> /\ stacks.operators = <<>>
  <2>1. Append(<<>>, CurrentNode) = <<CurrentNode>>
    OBVIOUS
  <2>2. stacks = Record(<<CurrentNode>>, <<>>, NoError, {})
    BY <1>1, <1>2, <2>1 DEF Put, EmptyStacks, Record
  <2> QED BY <2>2 DEF Record
<1>4. /\ Groups(state_stack) = {} /\ Parentheses(state_stack) = {}
      /\ ExpressionTypes(state_stack) = {}
  BY <1>1, Openings DEF Groups, Parentheses, ExpressionTypes
<1>5. Opened(stacks.output) = {}
  <2>1. CurrentNode.kind \notin Openers
    BY DEF CurrentNode, Tok, Openers
  <2> QED BY <1>3, <2>1 DEF Opened
<1>6. Lparens(stacks.operators) = {}
  BY <1>3 DEF Lparens
<1>7. \A m : LedgerBy(state_stack, stacks, m, m)
  BY <1>4, <1>5, <1>6 DEF LedgerBy, Pairs, Frames, Hashes
<1>8. \E m : m \in [{} -> {}]
  <2>1. [i \in {} |-> 0] \in [{} -> {}]
    OBVIOUS
  <2> QED BY <2>1
<1> QED BY <1>4, <1>5, <1>6, <1>7, <1>8 DEF LedgerInv, Balanced, Ledger, Frames

(* An empty state_stack_ is an error, at the next pass. *)
LEMMA NothingLeft ==
  ASSUME state_stack = <<>>,
         \/ ReadExpression \/ ReadFunction \/ ReadText \/ ReadBracket \/ ReadHash
         \/ ReadOperator \/ EndOfInput
  PROVE  empty_state_stack
<1> USE DEF At, CanRead, EndsIn
<1>1. ~(ReadExpression \/ ReadFunction \/ ReadText)
  BY DEF ReadExpression, start, rhs_expression, comparator_expression, jf_expression,
     lhs_expression, sub_expression, key_expr, val_expr, expect_rparen, ReadFunction,
     identifier_or_function_expr, expression_or_expression_type, function_expression,
     argument, expression_type, ReadText, quoted_string, raw_string, unquoted_string, literal,
     number, digit, raw_string_escape_char, quoted_string_escape_char, escape_digit, escape_u4,
     escape_u8, escape_expect_surrogate_pair1, escape_expect_surrogate_pair2
<1>2. ~(ReadBracket \/ ReadHash \/ ReadOperator)
  BY DEF ReadBracket, bracket_specifier, bracket_specifier_or_multi_select_list,
     expect_multi_select_list, expect_rbracket, multi_select_list, filter,
     index_or_slice_expression, rhs_slice_expression_stop, rhs_slice_expression_step,
     ReadHash, multi_select_hash, key_val_expr, expect_colon, expect_rbrace, ReadOperator,
     arithmetic_operator, cmp_lt_or_lte, cmp_gt_or_gte, cmp_eq, cmp_ne, expect_pipe_or_or,
     expect_and
<1>3. EndOfInput => empty_state_stack
  BY DEF EndOfInput, end_in_rhs_or_unquoted, end_in_number, end_in_identifier,
     end_in_string, end_elsewhere, end_of_expression
<1> QED BY <1>1, <1>2, <1>3

LEMMA NextLedger == IInv /\ LedgerInv /\ FirstKeysAreNames /\ [Next]_vars => LedgerInv'
<1> SUFFICES ASSUME IInv, LedgerInv, FirstKeysAreNames, [Next]_vars PROVE LedgerInv'
  OBVIOUS
<1>1. CASE Feed \/ Finish \/ Returned \/ UNCHANGED vars
  BY <1>1 DEF Feed, Finish, Returned, vars, LedgerInv, Balanced
<1>2. CASE empty_state_stack
  <2>1. Undefined # NoError /\ "syntax_error" # NoError
    BY DEF Undefined, NoError
  <2> QED BY <1>2, <2>1, ErrorParts DEF empty_state_stack, Fail, IInv, LedgerInv, Balanced
<1>3. CASE state_stack # <<>>
  <2>1. Before
    BY <1>3 DEF Before, IInv, LedgerInv
  <2>2. StaysBalanced => LedgerInv'
    BY DEF StaysBalanced, LedgerInv, Balanced
  <2> QED BY <1>1, <2>1, <2>2, ReadExpressionStep, ReadFunctionStep, ReadTextStep, ReadBracketStep,
             ReadHashStep, ReadOperatorStep, EndOfInputStep DEF Next
<1>4. CASE state_stack = <<>> /\ ~empty_state_stack
  BY <1>1, <1>4, NothingLeft DEF Next
<1> QED BY <1>2, <1>3, <1>4

(* The ledger pairs the groups and the parentheses. *)
LEMMA LedgerPairs == LedgerInv => GroupLedger
<1> SUFFICES ASSUME LedgerInv, Sound PROVE GroupLedger
  BY DEF GroupLedger
<1>1. Ledger(state_stack, stacks)
  BY DEF LedgerInv, Balanced, Sound
<1>2. PICK lparen \in [Frames(state_stack) -> Lparens(stacks.operators)],
           opener \in [Groups(state_stack) -> Opened(stacks.output)] :
             LedgerBy(state_stack, stacks, opener, lparen)
  BY <1>1 DEF Ledger
<1>3. /\ Pairs(lparen, Frames(state_stack), Lparens(stacks.operators))
      /\ Pairs(opener, Groups(state_stack), Opened(stacks.output))
      /\ \A i \in Groups(state_stack) :
           stacks.output[opener[i]].kind = GroupOpener[state_stack[i]]
  BY <1>2 DEF LedgerBy
<1> QED BY <1>3 DEF GroupLedger, Frames

(***************************************************************************)
(* As long as the first key of every hash is a name, what state_stack_     *)
(* says is open is what output_stack_ and operator_stack_ hold: every      *)
(* token that closes a group finds the beginning it looks for.             *)
(***************************************************************************)
THEOREM GroupsStayPaired == Spec /\ []FirstKeysAreNames => []GroupLedger
<1>1. Init => LedgerInv
  BY InitLedger
<1>2. IInv /\ LedgerInv /\ FirstKeysAreNames /\ [Next]_vars => LedgerInv'
  BY NextLedger
<1>3. LedgerInv => GroupLedger
  BY LedgerPairs
<1> QED BY <1>1, <1>2, <1>3, Invariant, PTL DEF Spec
=============================================================================
