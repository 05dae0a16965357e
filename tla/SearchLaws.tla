----------------------------- MODULE SearchLaws ------------------------------
(***************************************************************************)
(* What the answers of search and evaluate have to be: references and laws *)
(* that are stated without the expression nodes and the token lists.       *)
(***************************************************************************)
EXTENDS Search, SourceTexts

(* The call began with an error_code that was clear. *)
CleanCall == answer.to \in Throwing \/ answer.given = NoCode

(* A value was computed, of a text of this form. *)
Computes(form) ==
  /\ Text.form = form
  /\ Returned /\ CleanCall /\ answer.ec = NoCode
  /\ answer.to \in {"evaluate", "evaluate_ec"} => expr.toks # <<>>

-----------------------------------------------------------------------------
(***************************************************************************)
(* The meaning of a path, from left to right.  A pipe ends all projections *)
(* before it, and a flatten those before it but not itself.  The first     *)
(* projection of what is left maps the rest of the path over its elements. *)
(*                                                                         *)
(* What a list projection makes of null is a parameter, `nulls`: the tests *)
(* of the repository and its code disagree (PathsMean).                    *)
(***************************************************************************)
RECURSIVE PathMeaning(_, _, _), Meaning(_, _, _)

StepMeaning(s, v, nulls) ==
  CASE s.node = "identifier_selector" ->
         IF IsObject(v) /\ s.arg \in DOMAIN Elements(v) THEN Elements(v)[s.arg] ELSE Null
    [] s.node = "index_selector" ->
         LET k == IF s.arg >= 0 THEN s.arg + 1 ELSE Len(Elements(v)) + s.arg + 1
         IN IF IsArray(v) THEN IF k \in DOMAIN Elements(v) THEN Elements(v)[k] ELSE Null
            ELSE Null
    [] s.node = "current_node" -> v
    [] s.node = "multi_select_list" ->
         Array([k \in DOMAIN s.arg |-> Meaning(s.arg[k], v, nulls)])
    [] s.node = "multi_select_hash" ->
         Object([key \in {s.arg[k].key : k \in DOMAIN s.arg} |->
                   Meaning(s.arg[SelectInSeq(s.arg, LAMBDA h : h.key = key)].text, v, nulls)])

(* The elements that a projection goes over, or <<>> with no array to show. *)
Projectable(s, v) == IF s.node = "object_projection" THEN IsObject(v) ELSE IsArray(v)

ProjectionElements(s, v, nulls) ==
  CASE s.node = "object_projection"  -> Members(v)
    [] s.node = "list_projection"    -> Elements(v)
    [] s.node = "slice_projection"   -> SliceElements(s.arg, Elements(v))
    [] s.node = "filter_expression"  ->
         SelectSeq(Elements(v), LAMBDA x : is_true(Meaning(s.arg, x, nulls)))
    [] s.node = "flatten_projection" ->
         FoldLeft(LAMBDA r, x : IF IsArray(x) THEN r \o Elements(x) ELSE Append(r, x),
                  <<>>, Elements(v))

Projection(s, rest, v, nulls) ==
  LET elements == ProjectionElements(s, v, nulls)
  IN IF Projectable(s, v)
     THEN Array([k \in DOMAIN elements |-> PathMeaning(rest, elements[k], nulls)])
     ELSE IF s.node = "list_projection" /\ IsNull(v) THEN nulls ELSE Null

PathMeaning(steps, v, nulls) ==
  LET Before(k) == SubSeq(steps, 1, k - 1)
      After(k)  == SubSeq(steps, k + 1, Len(steps))
      pipe      == SelectLastInSeq(steps, LAMBDA s : s.node = "pipe")
      flatten   == SelectLastInSeq(steps, LAMBDA s : s.node = "flatten_projection")
      first     == SelectInSeq(steps, LAMBDA s : s.node \in Projections)
      Of(k)     == PathMeaning(Before(k), v, nulls)
      Project(k) == Projection(steps[k], After(k), Of(k), nulls)
  IN IF pipe # 0 THEN PathMeaning(After(pipe), Of(pipe), nulls)
     ELSE IF flatten # 0 THEN Project(flatten)
     ELSE IF first # 0 THEN Project(first)
     ELSE FoldLeft(LAMBDA w, s : StepMeaning(s, w, nulls), v, steps)

Meaning(text, v, nulls) ==
  CASE text.form = "path"    -> PathMeaning(text.of, v, nulls)
    [] text.form = "literal" -> text.of
    [] text.form = "not"     -> Bool(is_false(Meaning(text.of, v, nulls)))
    [] text.form = "binary"  ->
         binary_operator(text.oper, Meaning(text.of[1], v, nulls), Meaning(text.of[2], v, nulls))

(* The laws are about texts that have a meaning: not about calls. *)
RECURSIVE Callless(_)
Callless(text) ==
  /\ text.form # "call"
  /\ text.form = "path" =>
       \A k \in DOMAIN text.of :
         LET s == text.of[k]
         IN CASE s.node = "filter_expression" -> Callless(s.arg)
              [] s.node = "multi_select_list" -> \A n \in DOMAIN s.arg : Callless(s.arg[n])
              [] s.node = "multi_select_hash" -> \A n \in DOMAIN s.arg : Callless(s.arg[n].text)
              [] OTHER -> TRUE
  /\ text.form = "binary" => Callless(text.of[1]) /\ Callless(text.of[2])
  /\ text.form = "not" => Callless(text.of)

AnswerMeans(nulls) == answer.val = Meaning(Text, Documents[answer.doc], nulls)

(***************************************************************************)
(* A path means what its steps mean, whichever projections add_expression  *)
(* put into which, and through whichever entry point.  Which of two things *)
(* a list projection of null is, is left open: `[null]`, as the code has   *)
(* it ("return an array of null", json-formula.hpp:3552), or null, which   *)
(* tests/wildcard.json:370-375 and 396-421 expect of `bar[*]` and of       *)
(* `nullvalue[*].foo[*].bar`.                                              *)
(***************************************************************************)
PathsMean ==
  Computes("path") /\ Callless(Text) => AnswerMeans(Array(<<Null>>)) \/ AnswerMeans(Null)

-----------------------------------------------------------------------------
(***************************************************************************)
(* Binary operators between literals.  The laws get `here`, what every     *)
(* operator makes of the operands, and `turned`, what it makes of them the *)
(* other way round.                                                        *)
(***************************************************************************)
Oper  == Text.oper
Left  == Text.of[1].of
Right == Text.of[2].of

Ordering_    == {"lt_op", "lte_op", "gt_op", "gte_op"}
Comparing    == {"eq_op", "ne_op"} \cup Ordering_
Arithmetic_  == {"plus_op", "minus_op", "mult_op", "div_op"}
AllOperators == Comparing \cup Arithmetic_ \cup {"or_op", "and_op", "concat_op", "union_op"}

(* As an answer shows it. *)
Shown(r) == IF r = Throws THEN Throws ELSE deep_copy(r)

Results(v, w) == [o \in AllOperators |-> Shown(binary_operator(o, v, w))]

BothAre(Test(_)) == Test(Left) /\ Test(Right)
IsScalar(v) == IsNumber(v) \/ IsString(v)

(* Exactly one of <, == and > holds of two numbers or two strings; <= and   *)
(* >= are the negations of > and <; what is neither number nor string has  *)
(* no order.  Of a boolean and a string that is left open: it is so in the *)
(* code, but tests/specSamples.json:891-904 expects `foo[?a < b]` to       *)
(* select {"a": false, "b": "1"}.                                          *)
OrderLaw(here, turned) ==
  /\ BothAre(IsNumber) \/ BothAre(IsString) =>
       /\ Cardinality({o \in {"lt_op", "eq_op", "gt_op"} : here[o] = True}) = 1
       /\ turned["gt_op"] = here["lt_op"]
  /\ BothAre(IsScalar) =>
       /\ Oper = "lte_op" => answer.val = Bool(here["gt_op"] # True)
       /\ Oper = "gte_op" => answer.val = Bool(here["lt_op"] # True)
  /\ /\ Oper \in Ordering_ /\ ~BothAre(IsScalar)
     /\ ~({Kind(Left), Kind(Right)} = {"bool", "string"})
     => answer.val = False

(* Equality does not depend on the side, and != is its negation. *)
EqualityLaw(turned) ==
  /\ Oper \in {"eq_op", "ne_op"} => answer.val = turned[Oper]
  /\ Oper = "ne_op" => answer.val = Bool(~Equal(Left, Right))
  /\ Oper = "eq_op" /\ Left = Right => answer.val = True

(* + and * do not depend on the side. *)
CommutativeLaw(turned) == Oper \in {"plus_op", "mult_op"} => answer.val = turned[Oper]

IsNumeric(v) ==
  \/ IsNumber(v)
  \/ IsArray(v) /\ AreNumbers(v[2])

(* - undoes +, and * undoes / where the divisor is not zero: `back` is what *)
(* they make of the answer and the right operand.  Of arrays the left one   *)
(* may have been filled up with zeros.  What a division by zero is, is left *)
(* open: null in the code ("divide by zero is bad", json-formula.hpp:3101), *)
(* but tests/tests.json:2567-2582 expects an error of `null/0` and `4/0`.  *)
InverseLaw(back) ==
  /\ Oper = "plus_op" /\ BothAre(IsNumeric) =>
       IF IsArray(back) /\ IsArray(Left)
       THEN \A k \in DOMAIN back[2] :
              Equal(back[2][k], IF k <= Len(Left[2]) THEN Left[2][k] ELSE Int_(0))
       ELSE IF IsArray(back) THEN \A k \in DOMAIN back[2] : Equal(back[2][k], Left)
       ELSE Equal(back, Left)
  /\ Oper = "div_op" /\ BothAre(IsNumber) /\ Number(Right)[1] # 0 => Equal(back, Left)

(* The array of the answer is as long as the longer operand, and an array   *)
(* with a number is calculated element by element.                         *)
ArrayLaw ==
  LET size(v) == IF IsArray(v) THEN Len(v[2]) ELSE 0
  IN /\ Oper \in Arithmetic_ \cup {"concat_op"} /\ IsArray(answer.val) =>
          /\ size(Left) <= size(answer.val) /\ size(Right) <= size(answer.val)
          /\ size(answer.val) \in {size(Left), size(Right)}
     /\ Oper \in Arithmetic_ \ {"div_op"} /\ IsArray(Left) /\ BothAre(IsNumeric) /\ IsNumber(Right) =>
          \A k \in DOMAIN Left[2] :
            answer.val[2][k] = Shown(binary_operator(Oper, Left[2][k], Right))

(* A union has what its sides have, with no regard to the side. *)
UnionLaw(turned) ==
  LET Count(v, x) == IF IsArray(v) THEN Cardinality({k \in DOMAIN v[2] : v[2][k] = x}) ELSE 0
  IN Oper = "union_op" /\ IsArray(answer.val) =>
       /\ Len(answer.val[2]) = Len(turned[Oper][2])
       /\ \A x \in ToSet(answer.val[2]) : Count(answer.val, x) = Count(turned[Oper], x)

(* || and && choose one of their operands, and are duals of each other. *)
ChoiceLaw ==
  /\ Oper \in {"or_op", "and_op"} => answer.val \in {Left, Right}
  /\ Oper = "or_op"  => (is_true(answer.val) <=> ~(is_false(Left) /\ is_false(Right)))
  /\ Oper = "and_op" => (is_true(answer.val) <=> is_true(Left) /\ is_true(Right))

LawsOfOperators(here, turned) ==
  /\ OrderLaw(here, turned)
  /\ EqualityLaw(turned)
  /\ CommutativeLaw(turned)
  /\ ArrayLaw
  /\ UnionLaw(turned)
  /\ ChoiceLaw

(***************************************************************************)
(* The laws of the operators, over operands of all kinds.  Comparisons of  *)
(* a number with a string are left out of the symmetric ones: a number is  *)
(* read from a string on the right, and printed for one on the left.       *)
(***************************************************************************)
OperatorLaws ==
  Computes("binary") /\ (\A k \in {1, 2} : Text.of[k].form = "literal") =>
    /\ LawsOfOperators(Results(Left, Right), Results(Right, Left))
    /\ Oper \in {"plus_op", "div_op"} =>
         InverseLaw(Shown(binary_operator(IF Oper = "plus_op" THEN "minus_op" ELSE "mult_op",
                                          answer.val, Right)))

-----------------------------------------------------------------------------
(* Functions, of literals and of one expression. *)
Name   == Text.name
Arg(k) == Text.of[k].of

Positions(v, x) == {k \in DOMAIN v[2] : v[2][k] = x}

(* Every element is there as often as in the argument. *)
Permutes(v, w) ==
  /\ Len(v[2]) = Len(w[2])
  /\ \A x \in ToSet(v[2]) : Cardinality(Positions(v, x)) = Cardinality(Positions(w, x))

(* What a function goes by, element for element; no key in the runs is a   *)
(* list projection of null.                                                *)
EachMeaning(text, elements) == [k \in DOMAIN elements |-> Meaning(text, elements[k], Null)]

Elementary == Name \in {"sort", "max", "min"}
Ordering   == Name \in {"sort", "sort_by"}
Extremes   == Name \in {"max", "max_by", "min", "min_by"}
KeysOf(list) == IF Elementary THEN list ELSE EachMeaning(Arg(IF Name = "map" THEN 1 ELSE 2), list)

(* sort and sort_by put the elements in order, and leave those with equal  *)
(* keys in the order they had; `sorted` are the keys of the answer.        *)
SortLaw(sorted) ==
  LET First(v, x) == SelectInSeq(v[2], LAMBDA y : y = x)
  IN /\ Permutes(answer.val, Arg(1))
     /\ \A p, q \in DOMAIN sorted : p < q =>
          /\ Compare(sorted[p], sorted[q]) <= 0
          /\ Compare(sorted[q], sorted[p]) <= 0 =>
               First(Arg(1), answer.val[2][p]) <= First(Arg(1), answer.val[2][q])

(* max, max_by, min and min_by give the first element that no other passes. *)
ExtremeLaw(keys_of) ==
  LET sign == IF Name \in {"max", "max_by"} THEN 1 ELSE -1
      best == {k \in DOMAIN keys_of :
                 \A n \in DOMAIN keys_of : Compare(keys_of[n], keys_of[k]) # sign}
  IN keys_of # <<>> =>
       \E k \in best : answer.val = Arg(1)[2][k] /\ \A n \in best : k <= n

(* What goes by an expression or by the order of the elements; map is the   *)
(* expression, element by element.                                         *)
KeyLaw(key_list) ==
  /\ Ordering => SortLaw(key_list)
  /\ Extremes => ExtremeLaw(key_list)
  /\ Name = "map" => answer.val = Array(key_list)

(* A text is the same position for value as it is a number for to_number,   *)
(* in whatever base it is written.                                         *)
PositionLaw ==
  Name = "value" /\ IsArray(Arg(1)) /\ IsString(Arg(2)) =>
    LET position == to_number(<<Arg(2)>>)
    IN Kind(position) = "int" /\ position[2] >= 0 => answer.val = Arg(1)[2][position[2] + 1]

(* A text ends with another iff, reversed, it starts with that reversed,   *)
(* and contains it iff one of its ends starts with it.  An array contains  *)
(* a value iff == finds it.                                                *)
TextLaw ==
  /\ Name = "ends_with" =>
       answer.val = starts_with([k \in 1 .. 2 |-> reverse(<<Arg(k)>>)])
  /\ Name = "contains" /\ IsArray(Arg(1)) =>
       answer.val = Bool(\E k \in DOMAIN Arg(1)[2] : eq_operator(Arg(1)[2][k], Arg(2)) = True)
  /\ Name = "contains" /\ IsString(Arg(1)) /\ IsString(Arg(2)) =>
       answer.val = Bool(\E t \in Suffixes(Arg(1)[2]) :
                           starts_with(<<String(t), Arg(2)>>) = True)
  /\ Name = "reverse" => reverse(<<answer.val>>) = Arg(1)

(* join puts a separator between every two texts, if the first has one.    *)
JoinLaw ==
  Name = "join" /\ Arg(2)[2] # <<>> /\ Arg(2)[2][1] # String(<<>>) =>
    Len(answer.val[2]) = FoldLeft(LAMBDA n, t : n + Len(t[2]), 0, Arg(2)[2])
                         + (Len(Arg(2)[2]) - 1) * Len(Arg(1)[2])

(* floor is the whole number below, ceil that above; an average, as often  *)
(* as there are elements, is their sum; the text of an integer is read     *)
(* back as the same.                                                       *)
NumberLaw ==
  /\ Name = "floor" =>
       /\ gt_operator(answer.val, Arg(1)) = False
       /\ gt_operator(plus_operator(answer.val, Int_(1)), Arg(1)) = True
  /\ Name = "ceil" =>
       Equal(answer.val, minus_operator(Int_(0), floor(<<minus_operator(Int_(0), Arg(1))>>)))
  /\ Name = "avg" /\ answer.val # Null =>
       Equal(mult_operator(answer.val, Int_(Len(Arg(1)[2]))), sum(<<Arg(1)>>))
  /\ Name = "to_string" /\ Kind(Arg(1)) = "int" => to_number(<<answer.val>>) = Arg(1)

(* keys and values are in the same order; of objects merged the last one    *)
(* that has a key gives its value.                                         *)
ObjectLaw ==
  /\ Name = "values" =>
       \A k \in DOMAIN answer.val[2] :
         answer.val[2][k] = Arg(1)[2][keys(<<Arg(1)>>)[2][k][2]]
  /\ Name = "merge" =>
       LET Having(key) == {k \in DOMAIN Text.of : key \in DOMAIN Arg(k)[2]}
       IN \A key \in DOMAIN answer.val[2] :
            \E k \in Having(key) : /\ \A n \in Having(key) : n <= k
                                   /\ answer.val[2][key] = Arg(k)[2][key]

(***************************************************************************)
(* The laws of the functions: each relates the answer to what another      *)
(* function, operator or path gives for the same arguments.                *)
(***************************************************************************)
FunctionLaws ==
  /\ Computes("call")
  /\ \A k \in DOMAIN Text.of :
       \/ Text.of[k].form = "literal"
       \/ Text.of[k].form = "expression" /\ Callless(Text.of[k].of)
  =>
    /\ Ordering \/ Extremes \/ Name = "map" =>
         KeyLaw(KeysOf(IF Ordering THEN answer.val[2] ELSE Arg(IF Extremes THEN 1 ELSE 2)[2]))
    /\ PositionLaw
    /\ TextLaw
    /\ JoinLaw
    /\ NumberLaw
    /\ ObjectLaw

(***************************************************************************)
(* No assertion of evaluate_tokens fails, in the list of a program or in    *)
(* one of its expressions, and no expression is taken for a value.         *)
(***************************************************************************)
NoAssertionFails ==
  \A d \in DOMAIN frames :
    {frames[d].outcome, frames[d].thrown} \cap {"assertion", "undefined"} = {}

RECURSIVE Plain(_)
Plain(v) ==
  CASE IsNull(v)   -> v = Null
    [] IsArray(v)  -> \A k \in DOMAIN v[2] : Plain(v[2][k])
    [] IsObject(v) -> \A k \in DOMAIN v[2] : Plain(v[2][k])
    [] OTHER       -> TRUE

(***************************************************************************)
(* No const pointer into the temporaries of an evaluation is in an answer: *)
(* they are gone with its dynamic_resources.                               *)
(***************************************************************************)
NothingDangles == Returned => Plain(answer.val)

(* Every call comes to an end. *)
CallsReturn == entry # "idle" ~> entry = "idle"

=============================================================================
