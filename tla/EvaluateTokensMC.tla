-------------------------- MODULE EvaluateTokensMC --------------------------
(* Values for the constants of EvaluateTokens: every list of the tokens below *)
(* up to five long, and a sample of longer ones.                              *)
EXTENDS EvaluateTokens

SomeTokens == {CurrentNode, Selector, Binary("plus_op"), Tok("pipe"),
               Tok("argument"), Tok("begin_expression_type"), Function("f")}

OtherTokens == {Literal, Unary("not_op"), Tok("separator"), Function("g"), Selector}

ListsUpTo(n, S) == UNION {[1 .. k -> S] : k \in 0 .. n}

CallOfTwo == <<CurrentNode, Tok("argument"), CurrentNode, Selector, Tok("argument"),
               Function("f")>>

AllPrograms == ListsUpTo(5, SomeTokens) \cup ListsUpTo(3, OtherTokens)
               \cup {CallOfTwo \o l : l \in ListsUpTo(3, SomeTokens)}

TwoFunctions == {"f", "g"}
Arities == [f |-> 2, g |-> AnyArity]
=============================================================================
