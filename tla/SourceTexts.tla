----------------------------- MODULE SourceTexts -----------------------------
(***************************************************************************)
(* What compile makes of a text.  A text is what was written, not its      *)
(* characters: a path of steps, a literal, the call of a function, an      *)
(* operator and its operands, or text that does not compile.  Its tokens   *)
(* are those that the module Compile is about, with what they own.         *)
(***************************************************************************)
EXTENDS Expressions

RootNode == Bare(CurrentNode)

(* A list has a current node in front, unless it starts with a literal. *)
PrefixedBy(toks) ==
  IF toks # <<>> /\ toks[1].kind \in {"literal", "current_node"} THEN toks
  ELSE <<RootNode>> \o toks

RECURSIVE output_tokens(_)

(* The node of a step.  What stands between brackets or braces is a text.  *)
StepNode(step) ==
  CASE step.node = "filter_expression" -> Node(step.node, output_tokens(step.arg))
    [] step.node = "multi_select_list" ->
         Node(step.node, [k \in DOMAIN step.arg |-> output_tokens(step.arg[k])])
    [] step.node = "multi_select_hash" ->
         Node(step.node, [k \in DOMAIN step.arg |->
                            [key |-> step.arg[k].key, toks |-> output_tokens(step.arg[k].text)]])
    [] OTHER -> Node(step.node, step.arg)

path_tokens(steps) ==
  FoldLeft(LAMBDA q, step : IF step.node = "pipe" THEN Append(q, Bare(Tok("pipe")))
                            ELSE push_expression(q, StepNode(step)),
           <<RootNode>>, steps)

ArgumentsUntaken(p) ==   \* mutant: no argument token after an argument
  IF p.form = "expression"
  THEN <<RootNode, Bare(Tok("begin_expression_type")),
         ExpressionToken(Node("function_expression", output_tokens(p.of)))>>
  ELSE output_tokens(p)

ArgumentTokens(p) ==
  (IF p.form = "expression"
   THEN <<RootNode, Bare(Tok("begin_expression_type")),
          ExpressionToken(Node("function_expression", output_tokens(p.of)))>>
   ELSE output_tokens(p)) \o <<Bare(Tok("argument"))>>

call_tokens(name, args) ==
  LET toks == Append(FlattenSeq([k \in DOMAIN args |-> ArgumentTokens(args[k])]),
                     Bare(Function(name)))
  IN <<RootNode, ExpressionToken(Node("function_expression", PrefixedBy(toks)))>>

output_tokens(text) ==
  CASE text.form = "path"    -> path_tokens(text.of)
    [] text.form = "literal" -> <<LiteralToken(text.of)>>
    [] text.form = "call"    -> call_tokens(text.name, text.of)
    [] text.form = "not"     -> Append(output_tokens(text.of), Bare(Unary("not_op")))
    [] text.form = "binary"  -> output_tokens(text.of[1]) \o output_tokens(text.of[2])
                                \o <<Bare(Binary(text.oper))>>
=============================================================================
