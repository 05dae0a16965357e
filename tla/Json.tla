-------------------------------- MODULE Json --------------------------------
(***************************************************************************)
(* JSON values as the evaluator reads them: basic_json of the vendored     *)
(* jsoncons library, as far as json-formula.hpp uses it.                   *)
(*                                                                         *)
(* A value is a pair of its kind and its content.  Two things of basic_json *)
(* show through:                                                           *)
(*  - a null that was put into an array or an object as a const pointer    *)
(*    (json_const_pointer_arg) is not equal to a plain null on its left,   *)
(*    so a null carries the number of pointers in front of it;             *)
(*  - a double is not an integer: it is written, and converted, otherwise. *)
(* int64 and uint64 are one kind.  A double is an exact quotient <<p, q>>;  *)
(* q is 0 for what is not finite.                                          *)
(***************************************************************************)
EXTENDS Values, Integers, SequencesExt

CONSTANTS
  Characters,    \* the characters, in the order of their codes
  IntModulus     \* how many values an int has: static_cast<int> wraps by it

ASSUME JsonAssumption ==
  /\ Characters \in Seq(STRING)
  /\ IntModulus \in Nat \ {0}

CopiesTheTop(v) ==   \* mutant: what is inside an object stays a pointer
  IF IsNull(v) THEN Null ELSE v

RECURSIVE deep_copy(_)
deep_copy(v) ==
  CASE IsNull(v)   -> Null
    [] IsArray(v)  -> Array([k \in DOMAIN v[2] |-> deep_copy(v[2][k])])
    [] IsObject(v) -> Object([k \in DOMAIN v[2] |-> deep_copy(v[2][k])])
    [] OTHER       -> v

-----------------------------------------------------------------------------
(* Numbers. *)
RECURSIVE Gcd(_, _)
Gcd(m, n) == IF n = 0 THEN m ELSE Gcd(n, m % n)

Magnitude(n) == IF n < 0 THEN -n ELSE n
Sign(n) == IF n < 0 THEN -1 ELSE IF n > 0 THEN 1 ELSE 0

Ratio(p, q) ==
  IF q = 0 THEN <<Sign(p), 0>>
  ELSE LET g == Gcd(Magnitude(p), Magnitude(q))
       IN <<Sign(q) * (p \div g), Magnitude(q) \div g>>

Double(r) == <<"double", r>>

(* The quotient a number stands for. *)
Number(v) == IF Kind(v) = "int" THEN <<v[2], 1>> ELSE v[2]

Plus(x, y)  == Ratio(x[1] * y[2] + y[1] * x[2], x[2] * y[2])
Minus(x, y) == Ratio(x[1] * y[2] - y[1] * x[2], x[2] * y[2])
Times(x, y) == Ratio(x[1] * y[1], x[2] * y[2])
Over(x, y)  == Ratio(x[1] * y[2], x[2] * y[1])

CompareNumbers(x, y) == Sign(x[1] * y[2] - y[1] * x[2])

Truncated(r) == Sign(r[1]) * (Magnitude(r[1]) \div r[2])
Floor(r)     == <<r[1] \div r[2], 1>>
Ceiling(r)   == <<-((-r[1]) \div r[2]), 1>>

-----------------------------------------------------------------------------
(* Texts: sequences of characters. *)
Digits == <<"0", "1", "2", "3", "4", "5", "6", "7", "8", "9">>

(* Letters are digits in hexadecimal. *)
SmallLetters == <<"a", "b", "c", "d", "e", "f">>
LargeLetters == <<"A", "B", "C", "D", "E", "F">>

PositionsIn(s) == [c \in ToSet(s) |-> SelectInSeq(s, LAMBDA d : d = c) - 1]

DigitValue == PositionsIn(Digits \o SmallLetters) @@ PositionsIn(Digits \o LargeLetters)
Code == [c \in ToSet(Characters) |-> SelectInSeq(Characters, LAMBDA d : d = c)]

LessText(s, t) ==
  \E n \in 1 .. Len(t) :
    /\ n <= Len(s) + 1
    /\ \A k \in 1 .. n - 1 : s[k] = t[k]
    /\ n > Len(s) \/ Code[s[n]] < Code[t[n]]

CompareTexts(s, t) == IF s = t THEN 0 ELSE IF LessText(s, t) THEN -1 ELSE 1

Occurs(s, t) == \E n \in 0 .. Len(t) - Len(s) : SubSeq(t, n + 1, n + Len(s)) = s

RECURSIVE Decimal(_)
Decimal(n) ==
  IF n < 0 THEN <<"-">> \o Decimal(-n)
  ELSE IF n < 10 THEN <<Digits[n + 1]>>
  ELSE Append(Decimal(n \div 10), Digits[(n % 10) + 1])

(* std::to_string of a double: six digits after the point. *)
Million == 1000000
SixDigits(r) ==
  LET m     == Magnitude(r[1])
      rest  == (2 * (m % r[2]) * Million + r[2]) \div (2 * r[2])
      whole == (m \div r[2]) + (rest \div Million)
  IN (IF r[1] < 0 THEN <<"-">> ELSE <<>>) \o Decimal(whole) \o <<".">>
       \o Tail(Decimal(Million + (rest % Million)))

Unsigned(s) == IF s # <<>> /\ s[1] = "-" THEN Tail(s) ELSE s

(* to_integer takes a leading 0 as a prefix: 0x, 0b, or that of an octal   *)
(* number.  Nothing need follow 0x and 0b.                                 *)
Marked(s, marks) == Len(s) > 1 /\ s[1] = "0" /\ s[2] \in marks

Base(s) ==
  CASE Marked(s, {"x", "X"})     -> 16
    [] Marked(s, {"b", "B"})     -> 2
    [] Marked(s, ToSet(Digits))  -> 8
    [] OTHER                     -> 10

Figures(s) == IF Base(s) \in {2, 16} THEN SubSeq(s, 3, Len(s)) ELSE s

IsInteger(s) ==
  LET body == Unsigned(s)
  IN body # <<>> /\ \A c \in ToSet(Figures(body)) :
                      c \in DOMAIN DigitValue /\ DigitValue[c] < Base(body)

to_integer(s) ==
  LET body == Unsigned(s)
      n    == FoldLeft(LAMBDA m, c : Base(body) * m + DigitValue[c], 0, Figures(body))
  IN IF body = s THEN n ELSE -n

(* Numerals: decimal ones, without exponents, and hexadecimal ones, without *)
(* a fraction.                                                             *)
IsHexadecimal(s) == Base(Unsigned(s)) = 16 /\ Figures(Unsigned(s)) # <<>> /\ IsInteger(s)

IsDecimal(s) ==
  LET body == Unsigned(s)
  IN /\ ToSet(body) \subseteq ToSet(Digits) \cup {"."}
     /\ Len(SelectSeq(body, LAMBDA c : c = ".")) <= 1
     /\ \E k \in DOMAIN body : body[k] # "."

IsNumeral(s) == IsDecimal(s) \/ IsHexadecimal(s)

(* What a text begins with. *)
NumeralPrefixes(s) == {p \in Prefixes(s) : IsNumeral(p)}

LongestOf(texts) == CHOOSE p \in texts : \A q \in texts : Len(q) <= Len(p)

DecimalValue(s) ==
  LET body    == Unsigned(s)
      dot     == SelectInSeq(body, LAMBDA c : c = ".")
      places  == IF dot = 0 THEN 0 ELSE Len(body) - dot
      figures == FoldLeft(LAMBDA n, c : IF c = "." THEN n ELSE 10 * n + DigitValue[c],
                          0, body)
  IN Ratio(IF body = s THEN figures ELSE -figures, 10 ^ places)

NumeralValue(s) == IF IsDecimal(s) THEN DecimalValue(s) ELSE <<to_integer(s), 1>>

-----------------------------------------------------------------------------
(* Conversions to a number; each may throw. *)
NumberAmong(numerals) ==
  IF numerals = {} THEN Throws ELSE NumeralValue(LongestOf(numerals))

stod(s) == NumberAmong(NumeralPrefixes(s))   \* std::stod, and strtod in chars_to

as_double(v) ==
  CASE IsNumber(v) -> Number(v)
    [] IsString(v) -> stod(v[2])
    [] OTHER       -> Throws

as_integer(v) == IF IsNumber(v) THEN <<Truncated(Number(v)), 1>> ELSE Throws

(* as<int>, on numbers only. *)
as_int(v) == Truncated(Number(v)) % IntModulus

(* The order of the keys of an object. *)
Keys(v) == SetToSortSeq(DOMAIN v[2], LessText)

Members(v) == [k \in DOMAIN Keys(v) |-> v[2][Keys(v)[k]]]

-----------------------------------------------------------------------------
(* basic_json::compare as operator== uses it. *)
RECURSIVE Equal(_, _)
Equal(v, w) ==
  \/ IsNull(v) /\ IsNull(w) /\ v[2] >= w[2]
  \/ IsNumber(v) /\ IsNumber(w) /\ CompareNumbers(Number(v), Number(w)) = 0
  \/ Kind(v) = Kind(w) /\ Kind(v) \in {"bool", "string"} /\ v[2] = w[2]
  \/ /\ Kind(v) = Kind(w) /\ Kind(v) \in {"array", "object"}
     /\ DOMAIN v[2] = DOMAIN w[2]
     /\ \A k \in DOMAIN v[2] : Equal(v[2][k], w[2][k])

(* And as < and > use it, between two numbers or two strings. *)
Compare(v, w) ==
  IF IsNumber(v) THEN CompareNumbers(Number(v), Number(w))
  ELSE CompareTexts(v[2], w[2])
=============================================================================
