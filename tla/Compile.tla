------------------------------- MODULE Compile -------------------------------
(***************************************************************************)
(* jsonformula_evaluator::compile: the pushdown automaton that reads an    *)
(* expression one character at a time, keeps its position in the grammar   *)
(* on state_stack_ and hands tokens to push_token.                         *)
(*                                                                         *)
(* One action models one pass of the loop in one path_state.  The          *)
(* expression is not fixed in the initial state: Feed and Finish reveal it *)
(* as far as the automaton is about to look: after one of Starts, up to    *)
(* MaxLength characters from Alphabet.                                     *)
(***************************************************************************)
EXTENDS TokenStacks, TokenLists, TextBuffer

CONSTANTS
  Alphabet,    \* the characters of an expression
  Starts,      \* the beginnings of the expressions
  MaxLength    \* bound: the characters that follow

ASSUME CompileAssumption ==
  /\ Alphabet \subseteq STRING
  /\ Starts \subseteq Seq(STRING)
  /\ MaxLength \in Nat

VARIABLES
  rest,         \* the characters from p_ on that have been revealed
  fed,          \* how many characters have been revealed after the start
  finished,     \* the expression ends after rest
  state_stack,  \* state_stack_, the top last
  stacks,       \* output_stack_, operator_stack_ and ec (TokenStacks)
  buffer,       \* buffer, as a BufferText
  slic,         \* which members of slic have been set
  status        \* how the call of compile stands

input == <<rest, fed, finished>>
vars  == <<rest, fed, finished, state_stack, stacks, buffer, slic, status>>

Statuses == {"running", "compiled", "error", "throws", "undefined"}

EscapeStates ==
  {"raw_string_escape_char", "quoted_string_escape_char",
   "escape_u1", "escape_u2", "escape_u3", "escape_u4",
   "escape_expect_surrogate_pair1", "escape_expect_surrogate_pair2",
   "escape_u5", "escape_u6", "escape_u7", "escape_u8"}

OperatorStates == {"plus_operator", "minus_operator", "mult_operator",
                   "div_operator", "union_operator"}

SliceStates == {"index_or_slice_expression", "rhs_slice_expression_stop",
                "rhs_slice_expression_step"}

(* The states of enum path_state that some pass pushes: nothing pushes     *)
(* expect_dot or concat_operator.                                          *)
path_state ==
  {"start", "lhs_expression", "rhs_expression", "sub_expression",
   "comparator_expression", "jf_expression", "expression_type", "key_expr",
   "val_expr", "expression_or_expression_type", "identifier_or_function_expr",
   "function_expression", "argument", "quoted_string", "unquoted_string",
   "raw_string", "literal", "number", "digit", "bracket_specifier",
   "bracket_specifier_or_multi_select_list", "expect_multi_select_list",
   "multi_select_list", "multi_select_hash", "expect_rbracket", "expect_rparen",
   "filter", "key_val_expr", "expect_colon", "expect_rbrace", "cmp_lt_or_lte",
   "cmp_gt_or_gte", "cmp_eq", "cmp_ne", "expect_pipe_or_or", "expect_and"}
  \cup SliceStates \cup OperatorStates \cup EscapeStates

(* step_ is set and reset in one pass, and is left out. *)
NoSlice == [start |-> FALSE, stop |-> FALSE]

-----------------------------------------------------------------------------
(* Reading and stack helpers.  c is *p_, and Under the states below the top. *)
c     == rest[1]
Top   == Last(state_stack)
Under == Front(state_stack)

Spaces     == {" ", "\r", "\n"}
Comparator == {"<", ">", "="}
Arithmetic == {"+", "-", "*", "/", "~"}

LooksAhead ==   \* the passes that read *(p_+1)
  \/ c = "*" /\ Top = "bracket_specifier_or_multi_select_list"
  \/ c = "backslash" /\ Top = "literal"
  \/ c = "\r"

Drop(n) == /\ rest' = SubSeq(rest, n + 1, Len(rest))
           /\ UNCHANGED <<fed, finished>>

StatusAfter(ec) == CASE ec = NoError   -> "running"
                     [] ec = Undefined -> "undefined"
                     [] ec = Throws    -> "throws"
                     [] OTHER          -> "error"

(* Move n characters on and make `states` the state stack; no token. *)
Goto(n, states) ==
  /\ Drop(n)
  /\ state_stack' = states
  /\ UNCHANGED <<stacks, buffer, slic, status>>

(* The same, leaving text in the buffer. *)
Collect(n, states, text) ==
  /\ Drop(n)
  /\ state_stack' = states
  /\ buffer' = text
  /\ UNCHANGED <<stacks, slic, status>>

PushedUnchecked(s, n, states, text) ==   \* mutant: ec is not looked at
  /\ Drop(n)
  /\ state_stack' = states
  /\ buffer' = text
  /\ stacks' = s
  /\ UNCHANGED status

(* The same, after changing the stacks to s and looking at ec. *)
PushedFrom(s, n, states, text) ==
  /\ Drop(n)
  /\ state_stack' = states
  /\ buffer' = text
  /\ stacks' = s
  /\ status' = StatusAfter(stacks'.ec)

(* The same, after pushing a token. *)
Push(n, states, tok) ==
  PushedFrom(push_token(tok, stacks), n, states, buffer) /\ UNCHANGED slic

Fail(e) ==
  /\ stacks' = SetError(stacks, e)
  /\ status' = StatusAfter(e)
  /\ UNCHANGED <<rest, fed, finished, state_stack, buffer, slic>>

(***************************************************************************)
(* _checkBuffer: text that is left in the buffer becomes a literal.        *)
(***************************************************************************)
Unflushed == IF buffer \in JsonTexts THEN "empty" ELSE buffer

checkBuffer(s) ==
  CASE buffer = "empty"     -> s
    [] buffer \in JsonTexts -> PushLiteral(s, Literal)
    [] OTHER                -> SetError(s, "invalid_literal")

(* A pass that calls _checkBuffer first: pushing, or without looking at ec. *)
FlushPush(n, states, tok) ==
  PushedFrom(push_token(tok, checkBuffer(stacks)), n, states, Unflushed) /\ UNCHANGED slic

FlushGoto(n, states) ==
  /\ Drop(n)
  /\ state_stack' = states
  /\ stacks' = checkBuffer(stacks)
  /\ buffer' = Unflushed
  /\ UNCHANGED <<slic, status>>

(***************************************************************************)
(* advance_past_space_character(ec, buffer) after s and text.  Its callers *)
(* do not look at ec.  A \r that ends the expression is not passed.        *)
(***************************************************************************)
SpaceLength == CASE c # "\r"      -> 1
                 [] Len(rest) = 1 -> 0
                 [] OTHER         -> IF rest[2] = "\n" THEN 2 ELSE 1

PassSpace(states, s, text) ==
  /\ Drop(SpaceLength)
  /\ state_stack' = states
  /\ stacks' = IF SpaceLength = 0 THEN SetError(s, "unexpected_end_of_input") ELSE s
  /\ buffer' = text
  /\ UNCHANGED <<slic, status>>

(* Text that is not JSON is rewritten as the number it begins with, and the *)
(* character is left for the next pass.                                     *)
AdvancePastSpaceFrom(s) ==
  /\ c \in Spaces
  /\ IF buffer \in {"empty"} \cup JsonTexts
     THEN PassSpace(state_stack, checkBuffer(s), Unflushed)
     ELSE IF buffer \in StodTexts
     THEN /\ stacks' = s
          /\ buffer' = NormalisedText
          /\ UNCHANGED <<input, state_stack, slic, status>>
     ELSE Fail(Throws)

advance_past_space_character == AdvancePastSpaceFrom(stacks)

(* The same in the states that call _checkBuffer first. *)
FlushThenAdvance ==
  IF buffer \in {"empty"} \cup JsonTexts THEN advance_past_space_character
  ELSE AdvancePastSpaceFrom(SetError(stacks, "invalid_literal"))

(* The next pass of the loop is in this state and sees what it looks at. *)
CanRead == /\ status = "running"
           /\ state_stack # <<>>
           /\ rest # <<>>
           /\ finished \/ Len(rest) > 1 \/ ~LooksAhead

At(state) == CanRead /\ Top = state

On(states)      == state_stack \o states
Replace(states) == Under \o states

-----------------------------------------------------------------------------
(* Expressions. *)

StartAlone ==   \* mutant: nothing stays under the first operand
  At("start") /\ Goto(0, Replace(<<"lhs_expression">>))

start == At("start") /\ Goto(0, Replace(<<"rhs_expression", "lhs_expression">>))

LeaveOrStay ==   \* mutant: no error at the bottom of state_stack_
  IF Len(state_stack) > 1 THEN Goto(0, Under) ELSE Goto(0, state_stack)

LeaveOrFail ==
  IF Len(state_stack) > 1 THEN Goto(0, Under) ELSE Fail("syntax_error")

rhs_expression ==
  /\ At("rhs_expression")
  /\ \/ advance_past_space_character
     \/ c = "." /\ Goto(1, On(<<"sub_expression">>))
     \/ c = "|" /\ Goto(1, On(<<"lhs_expression", "expect_pipe_or_or">>))
     \/ c = "&" /\ Goto(1, On(<<"lhs_expression", "expect_and">>))
     \/ c = "!" /\ Goto(1, On(<<"lhs_expression", "cmp_ne">>))
     \/ c = "[" /\ Goto(1, On(<<"bracket_specifier">>))
     \/ c = ")" /\ FlushGoto(0, Under)
     \/ c \in Comparator /\ Goto(0, On(<<"comparator_expression">>))
     \/ c \in Arithmetic /\ Goto(0, On(<<"jf_expression">>))
     \/ /\ c \notin Spaces \cup Comparator \cup Arithmetic \cup {".", "|", "&", "!", "[", ")"}
        /\ LeaveOrFail

CompareState == [x \in Comparator |-> CASE x = "<" -> "cmp_lt_or_lte"
                                       [] x = ">" -> "cmp_gt_or_gte"
                                       [] x = "=" -> "cmp_eq"]

comparator_expression ==
  /\ At("comparator_expression")
  /\ \/ c \in Comparator /\ Goto(1, Replace(<<"lhs_expression", CompareState[c]>>))
     \/ advance_past_space_character
     \/ c \notin Comparator \cup Spaces /\ LeaveOrFail

ArithmeticState == [x \in Arithmetic |-> CASE x = "+" -> "plus_operator"
                                          [] x = "-" -> "minus_operator"
                                          [] x = "*" -> "mult_operator"
                                          [] x = "/" -> "div_operator"
                                          [] x = "~" -> "union_operator"]

jf_expression ==
  /\ At("jf_expression")
  /\ \/ c \in Arithmetic /\ FlushGoto(1, Replace(<<"lhs_expression", ArithmeticState[c]>>))
     \/ FlushThenAdvance
     \/ c \notin Arithmetic \cup Spaces /\ LeaveOrFail

(* What both lhs_expression and sub_expression accept. *)
Operand ==
  \/ advance_past_space_character
  \/ c = "'" /\ Goto(1, Replace(<<"val_expr", "raw_string">>))
  \/ c = "{" /\ Push(1, Replace(<<"multi_select_hash">>), Tok("begin_multi_select_hash"))
  \/ c = "*" /\ Push(1, Under, Expression("projection_op"))
  \/ /\ c \in Letters
     /\ Collect(1, Replace(<<"identifier_or_function_expr", "unquoted_string">>),
                push_back(buffer, c))

OperandStart == Spaces \cup Letters \cup {"quote", "'", "{", "*", "["}

lhs_expression ==
  /\ At("lhs_expression")
  /\ \/ Operand
     \/ c = "quote" /\ Goto(1, Replace(<<"quoted_string">>))
     \/ c = "tick" /\ Goto(1, Replace(<<"literal">>))
     \/ c = "[" /\ Goto(1, Replace(<<"bracket_specifier_or_multi_select_list">>))
     \/ /\ c = "("
        /\ Push(1, Replace(<<"expect_rparen", "rhs_expression", "lhs_expression">>),
                Tok("lparen"))
     \/ c = "!" /\ Push(1, state_stack, Unary("not_op"))
     \/ c = "@" /\ Push(1, Under, Selector)
     \/ c \in Digits \cup {"-", "."} /\ Collect(1, Replace(<<"number">>), push_back(buffer, c))
     \/ /\ c \notin OperandStart \cup Digits \cup {"tick", "(", "!", "@", "-", "."}
        /\ Fail("expected_identifier")

sub_expression ==
  /\ At("sub_expression")
  /\ \/ Operand
     \/ c = "quote" /\ Goto(1, On(<<"quoted_string">>))
     \/ c = "[" /\ Goto(1, Replace(<<"expect_multi_select_list">>))
     \/ c \notin OperandStart /\ Fail("expected_identifier")

(* The text of a key or an identifier is complete. *)
TakeText(n, tok) ==
  PushedFrom(push_token(tok, stacks), n, Under, "empty") /\ UNCHANGED slic

key_expr == At("key_expr") /\ TakeText(0, Tok("key"))

val_expr == At("val_expr") /\ TakeText(0, Selector)

RparenNotPushed ==   \* mutant: the parenthesis is not closed
  /\ At("expect_rparen")
  /\ \/ advance_past_space_character
     \/ c = ")" /\ Goto(1, Replace(<<"rhs_expression">>))
     \/ c \notin Spaces \cup {")"} /\ Fail("expected_rparen")

expect_rparen ==
  /\ At("expect_rparen")
  /\ \/ advance_past_space_character
     \/ c = ")" /\ Push(1, Replace(<<"rhs_expression">>), Tok("rparen"))
     \/ c \notin Spaces \cup {")"} /\ Fail("expected_rparen")

-----------------------------------------------------------------------------
(* Functions. *)

identifier_or_function_expr ==
  /\ At("identifier_or_function_expr")
  /\ \/ /\ c = "("
        /\ IF buffer \in Functions
           THEN /\ PushedFrom(push_token(Function(buffer), stacks), 1,
                              Replace(<<"function_expression", "expression_or_expression_type">>),
                              "empty")
                /\ UNCHANGED slic
           ELSE Fail("unknown_function")
     \/ c # "(" /\ TakeText(0, Selector)

expression_or_expression_type ==
  LET argument_states == <<"argument", "rhs_expression", "lhs_expression">>
  IN /\ At("expression_or_expression_type")
     /\ \/ advance_past_space_character
        \/ /\ c = "&"
           /\ Push(1, Replace(<<"expression_type", "rhs_expression", "lhs_expression">>),
                   Tok("begin_expression_type"))
        \/ /\ c \in Digits \cup {".", "-"}
           /\ Collect(1, Replace(<<"argument", "rhs_expression", "number">>),
                      push_back(buffer, c))
        \/ /\ c \notin Spaces \cup Digits \cup {"&", ".", "-"}
           /\ Goto(0, Replace(argument_states))

function_expression ==
  /\ At("function_expression")
  /\ \/ FlushThenAdvance
     \/ c = "," /\ FlushPush(1, On(<<"expression_or_expression_type">>), CurrentNode)
     \/ c = ")" /\ FlushPush(1, Under, Tok("end_function"))
     \/ c \notin Spaces \cup {",", ")"} /\ FlushGoto(0, state_stack)

argument == At("argument") /\ Push(0, Under, Tok("argument"))

expression_type ==
  /\ At("expression_type")
  /\ PushedFrom(Put(EndExpressionType(stacks), Tok("argument")), 0, Under, buffer)
  /\ UNCHANGED slic

-----------------------------------------------------------------------------
(* Strings, literals and numbers. *)

Grandparent == Last(Under)   \* state_stack_[state_stack_.size()-2]

(* A closing quote; the text is a literal unless it names a member. *)
quoted_string ==
  /\ At("quoted_string")
  /\ \/ /\ c = "quote"
        /\ IF Grandparent \in {"key_expr", "sub_expression"}
           THEN Goto(1, Front(Under) \o <<"val_expr">>)
           ELSE TakeText(1, Literal)
     \/ c = "backslash" /\ Goto(1, On(<<"quoted_string_escape_char">>))
     \/ c \notin {"quote", "backslash"} /\ Collect(1, state_stack, push_back(buffer, c))

raw_string ==
  /\ At("raw_string")
  /\ \/ /\ c = "'"
        /\ Goto(1, IF Grandparent = "sub_expression"
                   THEN Front(Under) \o <<"val_expr">> ELSE Under)
     \/ c = "backslash" /\ Goto(1, On(<<"raw_string_escape_char">>))
     \/ c \notin {"'", "backslash"} /\ Collect(1, state_stack, push_back(buffer, c))

unquoted_string ==
  /\ At("unquoted_string")
  /\ \/ c \in Spaces /\ PassSpace(Under, stacks, buffer)
     \/ c \in Alnum /\ Collect(1, state_stack, push_back(buffer, c))
     \/ c \notin Spaces \cup Alnum /\ Goto(0, Under)

(* Every escape but \u stands for one character, which is not a digit. *)
raw_string_escape_char ==
  /\ At("raw_string_escape_char")
  /\ \/ c = "u" /\ Goto(1, Replace(<<"escape_u1">>))
     \/ c # "u" /\ Collect(1, Under, "text")

quoted_string_escape_char ==
  /\ At("quoted_string_escape_char")
  /\ \/ c = "u" /\ Goto(1, Replace(<<"escape_u1">>))
     \/ c \in {"quote", "backslash", "/", "b"} /\ Collect(1, Under, "text")
     \/ /\ c \notin {"u", "quote", "backslash", "/", "b"}
        /\ Fail("illegal_escaped_character")

(***************************************************************************)
(* The digits of a code point, which is left out: it is a high surrogate   *)
(* or not, and stands for any character, or none when it is a lone low     *)
(* surrogate.                                                              *)
(***************************************************************************)
HexDigits == Digits \cup HexLetters

AfterHexDigit == [escape_u1 |-> "escape_u2", escape_u2 |-> "escape_u3",
                  escape_u3 |-> "escape_u4", escape_u5 |-> "escape_u6",
                  escape_u6 |-> "escape_u7", escape_u7 |-> "escape_u8"]

escape_digit ==
  /\ CanRead
  /\ Top \in DOMAIN AfterHexDigit
  /\ IF c \in HexDigits THEN Goto(1, Replace(<<AfterHexDigit[Top]>>))
     ELSE Fail("invalid_codepoint")

CollectCodepoint ==
  \E text \in {buffer, "text"} \cup {push_back(buffer, x) : x \in Alphabet} :
    Collect(1, Under, text)

escape_u4 ==
  /\ At("escape_u4")
  /\ \/ c \in HexDigits /\ Goto(1, Replace(<<"escape_expect_surrogate_pair1">>))
     \/ c \in HexDigits /\ CollectCodepoint
     \/ c \notin HexDigits /\ Fail("invalid_codepoint")

escape_u8 ==
  /\ At("escape_u8")
  /\ IF c \in HexDigits THEN Collect(1, Under, "text") ELSE Fail("invalid_codepoint")

escape_expect_surrogate_pair1 ==
  /\ At("escape_expect_surrogate_pair1")
  /\ IF c = "backslash" THEN Goto(1, Replace(<<"escape_expect_surrogate_pair2">>))
     ELSE Fail("invalid_codepoint")

escape_expect_surrogate_pair2 ==
  /\ At("escape_expect_surrogate_pair2")
  /\ IF c = "u" THEN Goto(1, Replace(<<"escape_u5">>)) ELSE Fail("invalid_codepoint")

(* Text between backquotes may be JSON without being a number. *)
literal ==
  /\ At("literal")
  /\ \/ /\ c = "tick"
        /\ buffer \in JsonTexts \cup {"text", "textexp"}
        /\ TakeText(1, Literal)
     \/ c = "tick" /\ buffer \notin JsonTexts /\ Fail("invalid_literal")
     \/ /\ c = "backslash"
        /\ IF Len(rest) > 1 THEN Collect(2, state_stack, "text")
           ELSE Fail("unexpected_end_of_input")
     \/ c \notin {"tick", "backslash"} /\ Collect(1, state_stack, push_back(buffer, c))

(***************************************************************************)
(* A sign belongs to the number after an exponent mark and in a slice.     *)
(* The mark is looked for in buffer[buffer.length()-1], which is outside   *)
(* an empty buffer.                                                        *)
(***************************************************************************)
SignFollows == buffer \in ExponentTexts \cup {"empty"} \/ Grandparent \in SliceStates
SignEnds    == buffer \notin ExponentTexts /\ Grandparent \notin SliceStates

number ==
  /\ At("number")
  /\ \/ c \in Signs /\ SignFollows /\ Collect(1, Replace(<<"digit">>), push_back(buffer, c))
     \/ c \in Signs /\ SignEnds /\ Goto(0, Under)
     \/ c = "." /\ Collect(1, Replace(<<"digit">>), push_back(buffer, c))
     \/ c = "e" /\ Collect(1, state_stack, push_back(buffer, c))
     \/ c \notin Signs \cup {".", "e"} /\ Goto(0, Replace(<<"digit">>))

digit ==
  /\ At("digit")
  /\ IF c \in Digits \cup {"."} THEN Collect(1, state_stack, push_back(buffer, c))
     ELSE Goto(0, Under)

-----------------------------------------------------------------------------
(* Brackets: indices, slices, projections, filters and multi-select lists. *)

NumberStart == Digits \cup {"-"}

bracket_specifier ==
  /\ At("bracket_specifier")
  /\ \/ c = "*" /\ Push(1, Replace(<<"expect_rbracket">>), Expression("projection_op"))
     \/ c = "]" /\ Push(1, Under, Expression("flatten_projection_op"))
     \/ /\ c = "?"
        /\ Push(1, Replace(<<"filter", "rhs_expression", "lhs_expression">>),
                Tok("begin_filter"))
     \/ c = ":" /\ Goto(1, Replace(<<"rhs_slice_expression_stop", "number">>))
     \/ c \in NumberStart /\ Goto(0, Replace(<<"index_or_slice_expression", "number">>))
     \/ /\ c \notin NumberStart \cup {"*", "]", "?", ":"}
        /\ Fail("expected_index_expression")

BeginMultiSelectList(operand) ==
  Push(0, Replace(<<"multi_select_list", operand>>), Tok("begin_multi_select_list"))

bracket_specifier_or_multi_select_list ==
  /\ At("bracket_specifier_or_multi_select_list")
  /\ \/ c = "*" /\ Len(rest) = 1 /\ Fail("unexpected_end_of_input")
     \/ /\ c = "*" /\ Len(rest) > 1
        /\ IF rest[2] = "]" THEN Goto(0, Replace(<<"bracket_specifier">>))
           ELSE BeginMultiSelectList("lhs_expression")
     \/ c \in NumberStart \cup {"]", "?", ":"} /\ Goto(0, Replace(<<"bracket_specifier">>))
     \/ /\ c \notin NumberStart \cup {"*", "]", "?", ":"}
        /\ BeginMultiSelectList("lhs_expression")

expect_multi_select_list ==
  /\ At("expect_multi_select_list")
  /\ \/ c \in {"]", "?", ":"} /\ Fail("expected_multi_select_list")
     \/ c \in NumberStart /\ BeginMultiSelectList("number")
     \/ c = "*" /\ Push(1, Replace(<<"expect_rbracket">>), Expression("projection_op"))
     \/ /\ c \notin NumberStart \cup {"*", "]", "?", ":"}
        /\ BeginMultiSelectList("lhs_expression")

ExpectDotAfterBracket ==   \* mutant: a projection has to go on
  /\ At("expect_rbracket")
  /\ IF c = "]" THEN Goto(1, Replace(<<"expect_dot">>)) ELSE Fail("expected_rbracket")

expect_rbracket ==
  /\ At("expect_rbracket")
  /\ IF c = "]" THEN Goto(1, Under) ELSE Fail("expected_rbracket")

multi_select_list ==
  /\ At("multi_select_list")
  /\ \/ advance_past_space_character
     \/ c = "," /\ FlushPush(1, On(<<"lhs_expression">>), Tok("separator"))
     \/ c = "[" /\ Goto(0, On(<<"lhs_expression">>))
     \/ c = "." /\ Goto(1, On(<<"sub_expression">>))
     \/ c = "|" /\ Goto(1, On(<<"lhs_expression", "expect_pipe_or_or">>))
     \/ c = "]" /\ FlushPush(1, Under, Tok("end_multi_select_list"))
     \/ c \notin Spaces \cup {",", "[", ".", "|", "]"} /\ Fail("expected_rbracket")

filter ==
  /\ At("filter")
  /\ \/ advance_past_space_character
     \/ c = "]" /\ Push(1, Under, Tok("end_filter"))
     \/ c \notin Spaces \cup {"]"} /\ Fail("expected_rbracket")

NotAnInteger == buffer \notin {"empty"} \cup IntegerTexts

(* A raw list of numbers begins as an index does. *)
NumberThenComma ==
  IF Last(stacks.output).kind = "expression"
  THEN FlushPush(1, On(<<"lhs_expression">>), Tok("separator"))
  ELSE LET begun == push_token(Tok("begin_multi_select_list"), stacks)
       IN /\ PushedFrom(push_token(Tok("separator"), checkBuffer(begun)), 1,
                        Replace(<<"multi_select_list", "lhs_expression">>), Unflushed)
          /\ UNCHANGED slic

index_or_slice_expression ==
  /\ At("index_or_slice_expression")
  /\ \/ /\ c = "]" /\ buffer = "empty"
        /\ Push(1, Under, Expression("flatten_projection_op"))
     \/ /\ c = "]" /\ buffer \in IntegerTexts
        /\ TakeText(1, Selector)
     \/ /\ c = ":" /\ ~NotAnInteger
        /\ Drop(1)
        /\ state_stack' = Replace(<<"rhs_slice_expression_stop", "number">>)
        /\ slic' = [slic EXCEPT !.start = @ \/ buffer # "empty"]
        /\ buffer' = "empty"
        /\ UNCHANGED <<stacks, status>>
     \/ c \in {"]", ":"} /\ NotAnInteger /\ Fail("invalid_number")
     \/ c = "," /\ NumberThenComma
     \/ c \notin {"]", ":", ","} /\ Fail("expected_rbracket")

(* The slice is pushed, and slic made ready for the next one. *)
SliceKeepsScratch ==   \* mutant: slic is not reset
  PushedFrom(push_token(Expression("projection_op"), stacks), 1, Under, "empty") /\ UNCHANGED slic

EndSlice ==
  PushedFrom(push_token(Expression("projection_op"), stacks), 1, Under, "empty") /\ slic' = NoSlice

rhs_slice_expression_stop ==
  /\ At("rhs_slice_expression_stop")
  /\ \/ NotAnInteger /\ Fail("invalid_number")
     \/ ~NotAnInteger /\ c = "]" /\ EndSlice
     \/ /\ ~NotAnInteger /\ c = ":"
        /\ Drop(1)
        /\ state_stack' = Replace(<<"rhs_slice_expression_step", "number">>)
        /\ slic' = [slic EXCEPT !.stop = @ \/ buffer # "empty"]
        /\ buffer' = "empty"
        /\ UNCHANGED <<stacks, status>>
     \/ ~NotAnInteger /\ c \notin {"]", ":"} /\ Fail("expected_rbracket")

rhs_slice_expression_step ==
  /\ At("rhs_slice_expression_step")
  /\ \/ NotAnInteger /\ Fail("invalid_number")
     \/ buffer \in ZeroTexts /\ Fail("step_cannot_be_zero")
     \/ ~NotAnInteger /\ buffer \notin ZeroTexts /\ c = "]" /\ EndSlice
     \/ ~NotAnInteger /\ buffer \notin ZeroTexts /\ c # "]" /\ Fail("expected_rbracket")

-----------------------------------------------------------------------------
(* Multi-select hashes. *)

multi_select_hash ==
  /\ At("multi_select_hash")
  /\ \/ c \in NumberStart \cup {"*", "]", "?", ":"} /\ UNCHANGED vars
     \/ c = "}" /\ Push(1, Under, Tok("end_multi_select_hash"))
     \/ /\ c \notin NumberStart \cup {"*", "]", "?", ":", "}"}
        /\ Goto(0, Replace(<<"key_val_expr">>))

key_val_expr ==
  /\ At("key_val_expr")
  /\ \/ advance_past_space_character
     \/ c = "quote" /\ Goto(1, Replace(<<"expect_colon", "key_expr", "quoted_string">>))
     \/ c = "'" /\ Goto(1, Replace(<<"expect_colon", "key_expr", "raw_string">>))
     \/ /\ c \in Letters
        /\ Collect(1, Replace(<<"expect_colon", "key_expr", "unquoted_string">>),
                   push_back(buffer, c))
     \/ c \notin Spaces \cup Letters \cup {"quote", "'"} /\ Fail("expected_key")

expect_colon ==
  /\ At("expect_colon")
  /\ \/ advance_past_space_character
     \/ c = ":" /\ Goto(1, Replace(<<"expect_rbrace", "lhs_expression">>))
     \/ c \notin Spaces \cup {":"} /\ Fail("expected_colon")

expect_rbrace ==
  /\ At("expect_rbrace")
  /\ \/ FlushThenAdvance
     \/ c = "," /\ FlushPush(1, Replace(<<"key_val_expr">>), Tok("separator"))
     \/ c \in {"[", "{"} /\ FlushGoto(0, On(<<"lhs_expression">>))
     \/ c = "." /\ FlushGoto(1, On(<<"sub_expression">>))
     \/ c = "}" /\ FlushPush(1, Under, Tok("end_multi_select_hash"))
     \/ c \in Arithmetic \ {"~"} /\ FlushGoto(0, On(<<"jf_expression">>))
     \/ c \notin Spaces \cup {",", "[", "{", ".", "}"} \cup (Arithmetic \ {"~"})
        /\ Fail("expected_rbrace")

-----------------------------------------------------------------------------
(* Operators: the operator, and a current_node that begins its right side. *)

WithoutRoot(oper, s) == push_token(Binary(oper), s)   \* mutant: no current_node

WithBinary(oper, s) == Put(push_token(Binary(oper), s), CurrentNode)

PushBinary(n, oper) ==
  PushedFrom(WithBinary(oper, stacks), n, Under, buffer) /\ UNCHANGED slic

FlushBinary(n, oper) ==
  PushedFrom(WithBinary(oper, checkBuffer(stacks)), n, Under, Unflushed) /\ UNCHANGED slic

OperOfState == [plus_operator  |-> "plus_op",  minus_operator |-> "minus_op",
                mult_operator  |-> "mult_op",  div_operator   |-> "div_op",
                union_operator |-> "union_op"]

arithmetic_operator ==
  CanRead /\ Top \in OperatorStates /\ PushBinary(0, OperOfState[Top])

cmp_lt_or_lte ==
  /\ At("cmp_lt_or_lte")
  /\ \/ c = "=" /\ FlushBinary(1, "lte_op")
     \/ c = ">" /\ FlushBinary(1, "ne_op")
     \/ c \notin {"=", ">"} /\ FlushBinary(0, "lt_op")

cmp_gt_or_gte ==
  /\ At("cmp_gt_or_gte")
  /\ IF c = "=" THEN FlushBinary(1, "gte_op") ELSE FlushBinary(0, "gt_op")

cmp_eq ==
  /\ At("cmp_eq")
  /\ FlushBinary(IF c = "=" THEN 1 ELSE 0, "eq_op")

cmp_ne ==
  /\ At("cmp_ne")
  /\ IF c = "=" THEN FlushBinary(1, "ne_op") ELSE Fail("expected_comparator")

expect_pipe_or_or ==
  /\ At("expect_pipe_or_or")
  /\ IF c = "|" THEN PushBinary(1, "or_op") ELSE Push(0, Under, Tok("pipe"))

(* The character after a & is passed over, whatever it is. *)
expect_and ==
  /\ At("expect_and")
  /\ PushBinary(1, IF c = "&" THEN "and_op" ELSE "concat_op")

-----------------------------------------------------------------------------
(* The end of the expression: what is left on state_stack_ is taken down.  *)

EndsIn(states) == /\ status = "running"
                  /\ rest = <<>> /\ finished
                  /\ Len(state_stack) > 1
                  /\ Top \in states

end_in_rhs_or_unquoted ==
  EndsIn({"rhs_expression", "unquoted_string"}) /\ Goto(0, Under)

end_in_number ==
  /\ EndsIn({"number", "digit"})
  /\ IF buffer \in JsonTexts THEN TakeText(0, Literal) ELSE Fail("invalid_literal")

end_in_identifier ==
  EndsIn({"val_expr", "identifier_or_function_expr"}) /\ Push(0, Under, Selector)

end_in_string ==
  EndsIn({"quoted_string", "raw_string"}) /\ Fail("unbalanced_quotes")

end_elsewhere ==
  /\ EndsIn(path_state \ {"rhs_expression", "unquoted_string", "number", "digit",
                          "val_expr", "identifier_or_function_expr",
                          "quoted_string", "raw_string"})
  /\ Fail("syntax_error")

end_of_expression ==
  /\ status = "running"
  /\ rest = <<>> /\ finished
  /\ Len(state_stack) = 1
  /\ IF Top = "rhs_expression"
     THEN /\ stacks' = EndOfExpression(stacks)
          /\ state_stack' = <<>>
          /\ status' = IF stacks'.ec = NoError THEN "compiled" ELSE StatusAfter(stacks'.ec)
          /\ UNCHANGED <<input, buffer, slic>>
     ELSE Fail("unexpected_end_of_input")

(* state_stack_.back() of an empty stack, and its test after the loop. *)
empty_state_stack ==
  /\ status = "running"
  /\ state_stack = <<>>
  /\ \/ rest # <<>> /\ Fail(Undefined)
     \/ rest = <<>> /\ finished /\ Fail("syntax_error")

-----------------------------------------------------------------------------
(* The expression is revealed when the next pass, or the test of the loop, *)
(* needs to see more of it.                                                *)
NeedsInput ==
  /\ status = "running" /\ ~finished
  /\ \/ rest = <<>>
     \/ Len(rest) = 1 /\ state_stack # <<>> /\ LooksAhead

Feed ==
  /\ NeedsInput
  /\ fed < MaxLength
  /\ \E x \in Alphabet : rest' = Append(rest, x)
  /\ fed' = fed + 1
  /\ UNCHANGED <<finished, state_stack, stacks, buffer, slic, status>>

Finish ==
  /\ NeedsInput
  /\ finished' = TRUE
  /\ UNCHANGED <<rest, fed, state_stack, stacks, buffer, slic, status>>

Init ==
  /\ rest \in Starts /\ fed = 0 /\ finished = FALSE
  /\ state_stack = <<"start">>
  /\ stacks = push_token(CurrentNode, EmptyStacks)
  /\ buffer = "empty" /\ slic = NoSlice
  /\ status = "running"

ReadExpression ==
  \/ start \/ rhs_expression \/ comparator_expression \/ jf_expression
  \/ lhs_expression \/ sub_expression \/ key_expr \/ val_expr \/ expect_rparen

ReadFunction ==
  \/ identifier_or_function_expr \/ expression_or_expression_type
  \/ function_expression \/ argument \/ expression_type

ReadText ==
  \/ quoted_string \/ raw_string \/ unquoted_string \/ literal \/ number \/ digit
  \/ raw_string_escape_char \/ quoted_string_escape_char \/ escape_digit
  \/ escape_u4 \/ escape_u8
  \/ escape_expect_surrogate_pair1 \/ escape_expect_surrogate_pair2

ReadBracket ==
  \/ bracket_specifier \/ bracket_specifier_or_multi_select_list
  \/ expect_multi_select_list \/ expect_rbracket \/ multi_select_list \/ filter
  \/ index_or_slice_expression \/ rhs_slice_expression_stop
  \/ rhs_slice_expression_step

ReadHash ==
  multi_select_hash \/ key_val_expr \/ expect_colon \/ expect_rbrace

ReadOperator ==
  \/ arithmetic_operator \/ cmp_lt_or_lte \/ cmp_gt_or_gte \/ cmp_eq \/ cmp_ne
  \/ expect_pipe_or_or \/ expect_and

EndOfInput ==
  \/ end_in_rhs_or_unquoted \/ end_in_number \/ end_in_identifier
  \/ end_in_string \/ end_elsewhere \/ end_of_expression \/ empty_state_stack

(* The call has returned. *)
Returned == status # "running" /\ UNCHANGED vars

Next == \/ Feed \/ Finish \/ Returned
        \/ ReadExpression \/ ReadFunction \/ ReadText \/ ReadBracket
        \/ ReadHash \/ ReadOperator \/ EndOfInput

(* compile runs on one thread without waiting: it keeps taking passes. *)
Spec == Init /\ [][Next]_vars /\ WF_vars(Next)

-----------------------------------------------------------------------------
(* Type correctness of the automaton's state. *)
TypeOK ==
  /\ rest \in Seq(STRING)
  /\ fed \in 0 .. MaxLength
  /\ finished \in BOOLEAN
  /\ state_stack \in Seq(path_state)
  /\ stacks.output \in Seq(Token)
  /\ stacks.operators \in Seq(Token)
  /\ stacks.ec \in Errors
  /\ buffer \in BufferText
  /\ slic \in [start : BOOLEAN, stop : BOOLEAN]
  /\ status \in Statuses

(* The call is in progress, or has succeeded, and no error has been set. *)
Sound == status \in {"running", "compiled"} /\ stacks.ec = NoError

(* Tighter operators are applied first: the shunting keeps its order.       *)
OpsOrdered == SegmentsOrdered(stacks.operators)

(***************************************************************************)
(* The groups that state_stack_ says are open are the ones whose beginning *)
(* is on output_stack_, in the same order, and each of them, and each      *)
(* parenthesis, has its lparen on operator_stack_.  So every closing token *)
(* of compile finds the beginning it looks for.                            *)
(***************************************************************************)
GroupOpener == [multi_select_list   |-> "begin_multi_select_list",
                filter              |-> "begin_filter",
                function_expression |-> "function",
                multi_select_hash   |-> "begin_multi_select_hash",
                key_val_expr        |-> "begin_multi_select_hash",
                expect_colon        |-> "begin_multi_select_hash",
                expect_rbrace       |-> "begin_multi_select_hash"]

Groups(states)      == {i \in DOMAIN states : states[i] \in DOMAIN GroupOpener}
Parentheses(states) == {i \in DOMAIN states : states[i] = "expect_rparen"}
Opened(q)           == {k \in DOMAIN q : q[k].kind \in Openers}
Lparens(ops)        == {k \in DOMAIN ops : ops[k].kind = "lparen"}

(* m pairs the members of S with those of T, in order. *)
Pairs(m, S, T) ==
  /\ \A i, j \in S : i < j => m[i] < m[j]
  /\ \A k \in T : \E i \in S : m[i] = k

GroupLedger ==
  Sound =>
    LET groups == Groups(state_stack)
        frames == groups \cup Parentheses(state_stack)
        opened == Opened(stacks.output)
        lparens == Lparens(stacks.operators)
    IN /\ \E opener \in [groups -> opened] :
            /\ Pairs(opener, groups, opened)
            /\ \A i \in groups :
                 stacks.output[opener[i]].kind = GroupOpener[state_stack[i]]
       /\ \E lparen \in [frames -> lparens] : Pairs(lparen, frames, lparens)

(***************************************************************************)
(* Every token list that a successful call hands to evaluate_tokens, the   *)
(* program itself and those inside expressions, is one it can run.         *)
(***************************************************************************)
ProgramsRun ==
  status = "compiled" => \A l \in stacks.lists \cup {stacks.output} : WellFormed(l)

(***************************************************************************)
(* The bounds of a slice are kept only until it is pushed: slic, which is  *)
(* one variable for the whole call, is clear whenever the automaton is not *)
(* inside a slice.                                                         *)
(***************************************************************************)
SliceScratch ==
  status = "running" /\ slic # NoSlice =>
    \E i \in {Len(state_stack), Len(state_stack) - 1} \cap DOMAIN state_stack :
      state_stack[i] \in SliceStates

(***************************************************************************)
(* state_stack_[state_stack_.size()-2], which the states that read a       *)
(* string or a number look at, is there: a rhs_expression stays at the     *)
(* bottom of state_stack_, whatever is read.                               *)
(***************************************************************************)
GrandparentExists ==
  status = "running" /\ state_stack # <<>> /\ Top \in {"quoted_string", "raw_string", "number"}
    => Len(state_stack) > 1

(***************************************************************************)
(* output_stack_ begins with the root of the expression, which is never    *)
(* taken as part of a group.  So output_stack_[output_stack_.size()-1] is  *)
(* there, and evaluate_tokens starts with a value.                         *)
(***************************************************************************)
RootStays == Rooted(stacks.output)

(***************************************************************************)
(* Some passes set ec and go on without looking at it.  The error is still *)
(* reported: ec is never cleared and the call does not succeed, and until  *)
(* it returns nothing is built on the error but a literal that was left in *)
(* the buffer: no operator is shunted, no group begun or ended.            *)
(***************************************************************************)
ErrorEndsTheCall ==
  [][stacks.ec # NoError =>
       /\ stacks'.ec # NoError /\ status' # "compiled"
       /\ status' = "running" =>
            /\ stacks'.operators = stacks.operators
            /\ stacks'.lists = stacks.lists]_vars

(* The numbers in the condition of a filter are tokens when it is closed. *)
FilterNumbersRead ==
  Sound /\ state_stack # <<>> /\ rest # <<>> /\ Top = "filter" /\ c = "]" =>
    buffer \notin NumberTexts

(***************************************************************************)
(* Operators of one level are applied from left to right, unless they are  *)
(* right associative.                                                      *)
(***************************************************************************)
LeftToRight ==
  \A j \in 2 .. Len(stacks.operators) :
    LET op == stacks.operators[j]
        under == stacks.operators[j-1]
    IN op.kind # "lparen" /\ under.kind # "lparen" /\
       precedence_level(op) = precedence_level(under) => is_right_associative(op)

(***************************************************************************)
(* The call returns, except where the automaton stalls: in a multi-select  *)
(* hash and in an argument list on characters that the pass leaves, and on *)
(* a carriage return that ends the expression.                             *)
(***************************************************************************)
Stalled ==
  /\ status = "running" /\ rest # <<>> /\ state_stack # <<>>
  /\ \/ Top = "multi_select_hash" /\ c \in NumberStart \cup {"*", "]", "?", ":"}
     \/ Top = "function_expression" /\ c \notin Spaces \cup {",", ")"}
     \/ rest = <<"\r">> /\ finished

Terminates == <>(status # "running" \/ Stalled)
=============================================================================
