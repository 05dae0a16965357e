----------------------------- MODULE CompileMC ------------------------------
(* Values for the constants of Compile: fragments of the language. *)
EXTENDS Compile

Empty == <<>>

(* Paths, projections, filters, multi-select lists and hashes. *)
StructureAlphabet == {"a", ".", "[", "]", "*", ":", "|", "?", "{", "}", ","}
StructureStarts == {Empty, <<"[", "a", ",">>, <<"{", "a", ":", "a">>,
                    <<"a", "[", "?", "a">>, <<"{", "a", ":", "[">>}

(* Operators and parentheses. *)
OperatorAlphabet == {"a", "+", "=", "<", ">", "&", "(", ")", "!", "|"}
OperatorStarts == {Empty, <<"a", "+", "a", "=", "a">>, <<"(", "a", "&", "&", "a">>,
                   <<"!", "a", "|", "|">>}

(* Functions of two arguments and of one, and expression arguments. *)
FunctionAlphabet == {"f", "g", "(", ")", ",", "@", " "}
FunctionStarts == {Empty, <<"f", "(", "@", ",">>, <<"f", "(", "@", ",", "@", "+">>,
                   <<"f", "(", "@", ",", "&">>, <<"f", "(", "&">>,
                   <<"f", "(", "g", "(">>, <<"g", "(", "(", "@", "=", "@", ")", "+">>}

(* Strings, escapes, literals, numbers, slices and white space. *)
TextAlphabet == {"a", "u", "e", "quote", "backslash", "'", "tick",
                 "1", "0", "-", ".", "[", ":", "]", " ", "\r"}
TextStarts == {Empty,
               <<"quote", "backslash", "u", "1", "1">>,
               <<"quote", "backslash", "u", "1", "1", "1", "1", "backslash", "u", "1", "1">>,
               <<"'", "backslash">>, <<"[", "1", ":", "-">>, <<"[", "1", ":", "1", ":">>,
               <<"tick", "1">>, <<"1", "e">>, <<"0", "1">>}

(* For the documents the program does not agree with. *)
MinusAlphabet  == {"a", "-"}
FilterAlphabet == {"a", "=", "1", "]"}
FilterStart == {<<"[", "?", "a", "=", "=">>}
NumbersAlphabet == {"1", ",", ")"}
CallStart  == {<<"f", "(">>}
ExpressionAlphabet == {"-", "@", ")"}
ExpressionStart == {<<"f", "(", "@", ",", "&", "@">>}
OnlyEmpty  == {Empty}

TwoFunctions == {"f", "g"}
Arities == [f |-> 2, g |-> 1]
=============================================================================
