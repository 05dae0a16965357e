-------------------------- MODULE FunctionLibrary ---------------------------
(***************************************************************************)
(* The functions of json-formula that do not call back into an expression. *)
(* Each takes the sequence of its arguments, as evaluate(args, ...) does,  *)
(* and returns a value, Error(code) where the code sets ec and returns     *)
(* null, or Throws.                                                        *)
(*                                                                         *)
(* An argument is a value or an expression.  The number of arguments was   *)
(* compared with the arity by evaluate_tokens.                             *)
(***************************************************************************)
EXTENDS Operators

AllValues(args) == \A k \in DOMAIN args : ~IsExpressionArgument(args[k])

AreNumbers(s) == \A k \in DOMAIN s : IsNumber(s[k])
AreStrings(s) == \A k \in DOMAIN s : IsString(s[k])

-----------------------------------------------------------------------------
abs(args) ==
  LET v == args[1]
  IN CASE Kind(v) = "int"    -> Int_(Magnitude(v[2]))
       [] Kind(v) = "double" -> Double(<<Magnitude(v[2][1]), v[2][2]>>)
       [] OTHER              -> InvalidType

Total(s) == FoldLeft(LAMBDA x, v : Plus(x, Number(v)), <<0, 1>>, s)

(* An average of zero is null. *)
avg(args) ==
  LET v == args[1]
  IN CASE ~IsArray(v)                      -> InvalidType
       [] IsArray(v) /\ v[2] = <<>>        -> Null
       [] IsArray(v) /\ ~AreNumbers(v[2])  -> InvalidType
       [] OTHER -> IF Total(v[2])[1] = 0 THEN Null
                   ELSE Double(Over(Total(v[2]), <<Len(v[2]), 1>>))

ceil(args) ==
  IF IsNumber(args[1]) THEN Double(Ceiling(Number(args[1]))) ELSE InvalidType

floor(args) ==
  IF IsNumber(args[1]) THEN Double(Floor(Number(args[1]))) ELSE InvalidType

contains(args) ==
  LET v == args[1]
      w == args[2]
  IN CASE IsArray(v) -> Bool(\E k \in DOMAIN v[2] : Equal(v[2][k], w))
       [] IsString(v) /\ IsString(w) -> Bool(Occurs(w[2], v[2]))
       [] IsString(v) /\ IsNumber(w) -> Bool(Occurs(SixDigits(Number(w)), v[2]))
       [] OTHER -> InvalidType

starts_with(args) ==
  IF AreStrings(args) THEN Bool(IsPrefix(args[2][2], args[1][2])) ELSE InvalidType

ends_with(args) ==
  IF AreStrings(args) THEN Bool(IsSuffix(args[2][2], args[1][2])) ELSE InvalidType

(* There is no separator before a text when all texts so far were empty. *)
join(args) ==
  LET sep == args[1]
      v   == args[2]
      Put(buf, s) == IF buf = <<>> THEN s[2] ELSE buf \o sep[2] \o s[2]
  IN IF IsString(sep) /\ IsArray(v)
     THEN IF AreStrings(v[2]) THEN String(FoldLeft(Put, <<>>, v[2])) ELSE InvalidType
     ELSE InvalidType

length(args) ==
  LET v == args[1]
  IN CASE Kind(v) \in {"array", "string"} -> Int_(Len(v[2]))
       [] IsObject(v)                     -> Int_(Len(Keys(v)))
       [] OTHER                           -> InvalidType

(***************************************************************************)
(* The position of the greatest (sign 1) or least (sign -1) of some keys:  *)
(* the first of several, as the comparison is strict.  The keys have to be *)
(* all numbers or all strings.                                             *)
(***************************************************************************)
Extreme(keys, sign) ==
  FoldLeft(LAMBDA k, n : IF Compare(keys[n], keys[k]) = sign THEN n ELSE k,
           1, [n \in DOMAIN keys |-> n])

OfOneKind(s) == AreNumbers(s) \/ AreStrings(s)

ExtremeOf(v, sign) ==
  CASE ~IsArray(v)                     -> InvalidType
    [] IsArray(v) /\ v[2] = <<>>       -> Null
    [] IsArray(v) /\ ~OfOneKind(v[2])  -> InvalidType
    [] OTHER                           -> v[2][Extreme(v[2], sign)]

max(args) == ExtremeOf(args[1], 1)
min(args) == ExtremeOf(args[1], -1)

(* Later objects win. *)
merge(args) ==
  LET Over_(f, v) == [k \in DOMAIN f \cup DOMAIN v[2] |->
                        IF k \in DOMAIN v[2] THEN v[2][k] ELSE f[k]]
  IN CASE args = <<>> -> InvalidArity
       [] \E k \in DOMAIN args : ~IsObject(args[k]) -> InvalidType
       [] OTHER -> Object(FoldLeft(Over_, args[1][2], Tail(args)))

(* std::stable_sort: an element goes after those that are less, and after   *)
(* its equals that were before it.  No comparison of equal keys is strict.  *)
SortUnstably(s, keys) ==   \* mutant: equals are put in reverse
  LET Before(m, n) == \/ Compare(keys[m], keys[n]) = -1
                      \/ Compare(keys[m], keys[n]) = 0 /\ m > n
      place(n) == 1 + Cardinality({m \in DOMAIN s : Before(m, n)})
  IN [p \in DOMAIN s |-> s[CHOOSE n \in DOMAIN s : place(n) = p]]

StableSort(s, keys) ==
  LET Before(m, n) == \/ Compare(keys[m], keys[n]) = -1
                      \/ Compare(keys[m], keys[n]) = 0 /\ m < n
      place(n) == 1 + Cardinality({m \in DOMAIN s : Before(m, n)})
  IN [p \in DOMAIN s |-> s[CHOOSE n \in DOMAIN s : place(n) = p]]

sort(args) ==
  LET v == args[1]
  IN CASE ~IsArray(v)                     -> InvalidType
       [] IsArray(v) /\ Len(v[2]) <= 1    -> v
       [] IsArray(v) /\ Len(v[2]) > 1 /\ ~OfOneKind(v[2]) -> InvalidType
       [] OTHER                           -> Array(StableSort(v[2], v[2]))

keys(args) ==
  IF IsObject(args[1])
  THEN Array([k \in DOMAIN Keys(args[1]) |-> String(Keys(args[1])[k])])
  ELSE InvalidType

values(args) == IF IsObject(args[1]) THEN Array(Members(args[1])) ELSE InvalidType

reverse(args) ==
  LET v == args[1]
  IN IF Kind(v) \in {"array", "string"} THEN <<Kind(v), Reverse(v[2])>> ELSE InvalidType

sum(args) ==
  LET v == args[1]
  IN IF IsArray(v)
     THEN IF AreNumbers(v[2]) THEN Double(Total(v[2])) ELSE InvalidType
     ELSE InvalidType

to_array(args) == IF IsArray(args[1]) THEN args[1] ELSE Array(<<args[1]>>)

(* An integer if all of the text is one, else what strtod reads. *)
to_number(args) ==
  LET v == args[1]
  IN CASE IsNumber(v) -> v
       [] IsString(v) -> IF IsInteger(v[2]) THEN Int_(to_integer(v[2]))
                         ELSE IF stod(v[2]) = Throws THEN Null ELSE Double(stod(v[2]))
       [] IsNull(v)   -> Int_(0)
       [] OTHER       -> Null

(* A value as JSON: a double with the digits it needs, up to six. *)
RECURSIVE WithoutZeros(_), JsonText(_)

WithoutZeros(s) ==
  IF Last(s) = "0" /\ s[Len(s) - 1] # "." THEN WithoutZeros(Front(s)) ELSE s

Commas(texts) == FoldLeft(LAMBDA r, t : IF r = <<>> THEN t ELSE r \o <<",">> \o t, <<>>, texts)

JsonText(v) ==
  LET Quoted(s) == <<"\"">> \o s \o <<"\"">>
  IN CASE Kind(v) = "double" -> WithoutZeros(SixDigits(v[2]))
       [] IsString(v) -> Quoted(v[2])
       [] IsNull(v)   -> <<"n", "u", "l", "l">>
       [] IsArray(v)  -> <<"[">> \o Commas([k \in DOMAIN v[2] |-> JsonText(v[2][k])]) \o <<"]">>
       [] IsObject(v) -> <<"{">> \o Commas([k \in DOMAIN Keys(v) |->
                                             Quoted(Keys(v)[k]) \o <<":">> \o JsonText(Members(v)[k])])
                         \o <<"}">>
       [] OTHER       -> TextOf(v)

to_string(args) == IF IsString(args[1]) THEN args[1] ELSE String(JsonText(args[1]))

TypeName(v) ==
  CASE IsNumber(v)      -> <<"n", "u", "m", "b", "e", "r">>
    [] Kind(v) = "bool" -> <<"b", "o", "o", "l", "e", "a", "n">>
    [] IsString(v)      -> <<"s", "t", "r", "i", "n", "g">>
    [] IsObject(v)      -> <<"o", "b", "j", "e", "c", "t">>
    [] IsArray(v)       -> <<"a", "r", "r", "a", "y">>
    [] OTHER            -> <<"n", "u", "l", "l">>

type(args) == String(TypeName(args[1]))

(* The first argument that is a value and not null. *)
not_null(args) ==
  LET found == SelectSeq(args, LAMBDA p : ~IsExpressionArgument(p) /\ ~IsNull(p))
  IN IF found = <<>> THEN Null ELSE found[1]

(***************************************************************************)
(* The element at a position or under a key.  to_integer makes 0 of a text *)
(* that is not an integer.  Past the end, and for an absent key, at()      *)
(* throws.                                                                 *)
(***************************************************************************)
value(args) ==
  LET v == args[1]
      w == args[2]
      idx == CASE IsNumber(w) -> Truncated(Number(w))
               [] IsString(w) -> IF IsInteger(w[2]) THEN to_integer(w[2]) ELSE 0
               [] OTHER       -> -1
  IN CASE IsArray(v) -> IF idx < 0 THEN Null
                        ELSE IF idx < Len(v[2]) THEN v[2][idx + 1] ELSE Throws
       [] IsObject(v) -> IF ~IsString(w) THEN Null
                         ELSE IF w[2] \in DOMAIN v[2] THEN v[2][w[2]] ELSE Throws
       [] OTHER -> InvalidType

(* merge and not_null look at the kinds of their arguments themselves. *)
library_function(name, args) ==
  CASE name = "not_null" -> not_null(args)
    [] name = "merge" /\ args = <<>> -> InvalidArity
    [] name # "not_null" /\ ~AllValues(args) -> InvalidType
    [] OTHER ->
       CASE name = "abs"         -> abs(args)
         [] name = "avg"         -> avg(args)
         [] name = "ceil"        -> ceil(args)
         [] name = "contains"    -> contains(args)
         [] name = "ends_with"   -> ends_with(args)
         [] name = "floor"       -> floor(args)
         [] name = "join"        -> join(args)
         [] name = "keys"        -> keys(args)
         [] name = "length"      -> length(args)
         [] name = "max"         -> max(args)
         [] name = "merge"       -> merge(args)
         [] name = "min"         -> min(args)
         [] name = "reverse"     -> reverse(args)
         [] name = "sort"        -> sort(args)
         [] name = "starts_with" -> starts_with(args)
         [] name = "sum"         -> sum(args)
         [] name = "to_array"    -> to_array(args)
         [] name = "to_number"   -> to_number(args)
         [] name = "to_string"   -> to_string(args)
         [] name = "type"        -> type(args)
         [] name = "value"       -> value(args)
         [] name = "values"      -> values(args)
=============================================================================
