----------------------------- MODULE TextBuffer -----------------------------
(***************************************************************************)
(* The string buffer of compile, up to what the code can tell of it: which *)
(* of basic_json_reader, to_integer and std::stod accept it, whether the   *)
(* integer is zero, whether its last character is an exponent mark, and    *)
(* which function it names.                                                *)
(*                                                                         *)
(* "0" stands for the digit zero and "1" for the digits from 1 to 7: 8 and *)
(* 9, which to_integer refuses after a leading zero, are left out, and so  *)
(* is the magnitude of a number.  The letter "e" is the exponent mark, in  *)
(* either case.  A known function name is one letter, the name itself.     *)
(***************************************************************************)
EXTENDS Tokens

Digits == {"0", "1"}
Signs  == {"+", "-"}
HexLetters == {"a", "b", "e"}
Letters == {"e", "a", "b", "u"} \cup Functions
Alnum  == Letters \cup Digits

NumberTexts ==
  {"minus",    \* -            stod throws
   "point",    \* . or -.      stod throws
   "zero",     \* 0 or -0      an integer and JSON
   "int",      \* 1..          an integer and JSON
   "octal0",   \* 00           an integer only
   "octal",    \* 01           an integer only
   "dot",      \* 1.           stod only
   "frac",     \* 1.5          JSON
   "exp",      \* 1e           stod only
   "expsign",  \* 1e-          stod only
   "expint",   \* 1e-5         JSON
   "prefix",   \* .5 or 1.2.3  stod only
   "prefixexp"}   \* 1.2.3e    stod only

BufferText == {"empty", "text", "textexp"} \cup NumberTexts \cup Functions

JsonTexts    == {"zero", "int", "frac", "expint"}
IntegerTexts == {"zero", "int", "octal0", "octal"}
ZeroTexts    == {"zero", "octal0"}
StodTexts    == JsonTexts \cup IntegerTexts \cup
                {"dot", "exp", "expsign", "prefix", "prefixexp"}
ExponentTexts == {"exp", "prefixexp", "textexp"}   \* end in e or E
NormalisedAsWritten == "dot"   \* mutant: 1. is rewritten as 1.
NormalisedText == "frac"   \* what std::to_string(double) writes

AppendDigit(b, c) ==
  CASE b \in {"empty", "minus"} -> IF c = "0" THEN "zero" ELSE "int"
    [] b = "zero"    -> IF c = "0" THEN "octal0" ELSE "octal"
    [] b = "octal0"  -> IF c = "0" THEN "octal0" ELSE "octal"
    [] b \in {"dot", "frac"} -> "frac"
    [] b \in {"exp", "expsign", "expint"} -> "expint"
    [] b \in {"point", "prefix", "prefixexp"} -> "prefix"
    [] b \in {"int", "octal"} -> b
    [] OTHER -> "text"

AppendPoint(b) ==
  CASE b \in {"empty", "minus"} -> "point"
    [] b \in {"zero", "int"} -> "dot"
    [] b \in StodTexts -> "prefix"
    [] OTHER -> "text"

AppendExponent(b) ==
  CASE b \in {"zero", "int", "frac"} -> "exp"
    [] b \in StodTexts -> "prefixexp"
    [] OTHER -> "textexp"

AppendSign(b, c) ==
  CASE b = "empty" /\ c = "-" -> "minus"
    [] b = "exp" -> "expsign"
    [] b \in StodTexts -> "prefix"
    [] OTHER -> "text"

(* buffer.push_back(c) *)
push_back(b, c) ==
  CASE c \in Digits -> AppendDigit(b, c)
    [] c = "." -> AppendPoint(b)
    [] c = "e" -> AppendExponent(b)
    [] c \in Signs -> AppendSign(b, c)
    [] b = "empty" /\ c \in Functions -> c
    [] OTHER -> "text"
=============================================================================
