# A verification project for json-formula

json-formula (`src/json-formula/json-formula.hpp`) is a header-only C++ library
that compiles an expression over JSON (JMESPath with spreadsheet operators and
functions) and evaluates it. This project models its compiler, the tokens it
moves, the machine that runs what it compiles, the expression nodes, the
operators, the functions and the entry points in TLA+, checks them with TLC on
small instances, and proves the main invariants of the compiler, of the machine,
of slices and of the token union with TLAPS for every value of the constants.

All line numbers below are of `src/json-formula/json-formula.hpp`.

## 1. Inventory

The library is single threaded. Between two calls it keeps nothing but what the
caller holds: an error code that no call clears, and the expressions that
`make_expression` gave. Most of what is hard about it lies inside one call, in
the order in which a few mutable structures are changed and read.

| Component | State | Operations | What makes it correct |
|---|---|---|---|
| Entry points, 4149-4229, 6463-6527 | the caller's `ec` and expression | `search`, `debug_search`, `make_expression`, `evaluate`, each with `ec` or throwing | every call ends; an error is the end of the answer; no answer holds a pointer into the evaluation |
| Compiler automaton, 4244-6014 | `p_`, `state_stack_`, `buffer`, `slic`, `ec` | one pass of the loop for each `path_state`, the drain after the loop | it ends; it reads inside its stacks; groups are closed by what opened them; no text is lost or left over |
| Token stacks, 6065-6433 | `output_stack_`, `operator_stack_` | `push_token`, `unwind_rparen` | operators are applied by precedence; a group captures its own tokens only; the root stays |
| Token list evaluator, 2410-2503 | `stack`, `arg_stack`, `root_ptr`, `ec` | one step for each `token_kind` | no assertion fails; each function gets its own arguments |
| Slices, 246-329, 3596-3667 | `start_`, `stop_`, `step_`; `i`, `end` | `get_start`, `get_stop`, the loop | reads inside the array; selects what a slice means; ends |
| Expression nodes, 3330-3957 | `expressions_`, token lists | `evaluate`, `add_expression` | a path means what its steps mean, whichever node went into which |
| Operators, 2507-3329 | none | `evaluate` for each operator | the laws of comparison and of arithmetic, over operands of all kinds |
| Function library, 740-2040 | none | `evaluate` for each function | each agrees with the other functions and operators, or sets `ec` |
| Static resources, 3959-4138 | stored literals | `get_function`, operators | unknown names are errors |
| Dynamic resources, 401-486 | `temp_storage_` | `create_json` | temporaries outlive the references to them |
| Token union, 2042-2408 | `type_` and a union | construct, move, destroy | the member destroyed is the one constructed; what it owns has one owner |
| Error category, `json-formula_error.hpp` | none | messages | |
| Test driver, `main.cpp`, `jfHelpers.h` | none | runs the JSON test files | |
| Vendored: `jsoncons`, `popl`, `utest.h` | | | third party |

How they interact. `search` creates an evaluator, calls `compile`, and calls
`evaluate` on the result. `compile` reads characters; what it has read so far is
the position in the grammar (`state_stack_`), text that is not a token yet
(`buffer`), and tokens, which it hands to `push_token`. `push_token` is a
shunting yard: it moves operators between its two stacks, and when a group
closes it takes the tokens of the group off `output_stack_` and puts them, as a
token list of its own, inside one expression token. `end_of_expression` leaves
the program on `output_stack_`. `evaluate_tokens` runs a token list on a stack of
values; an expression token hands the value to its node, and nodes and functions
call back into `evaluate_tokens` for the lists they hold. What they make are
temporaries, which `evaluate` copies before they go.

The hard behaviours, each listed at its line in `PROJECT.json` under `hazards`:

- the automaton and the token stacks keep two records of the same nesting, in
  different code, and nothing but the code's discipline keeps them in step;
- the buffer is flushed lazily, by whichever state notices, so a number may
  become a token late, in another order, or never;
- `ec` is set in places where nobody looks at it until the next push;
- some states do not advance and rely on the next one to do so;
- `slic`, `arg_stack` and `ec` are shared by things that follow each other;
- `evaluate_tokens` relies on assertions about lists built far from it;
- `add_expression` puts an expression into the last projection, or the last one
  of that, or behind it: what a path selects depends on a chain of such choices;
- an error in the middle of a projection does not stop it: the rest is computed,
  with nulls for what failed, and somebody has to throw that away;
- arrays hold const pointers to values that others made, and a null behind a
  pointer is not equal to a null;
- the operators convert texts to numbers on one side and numbers to texts on the
  other;
- a token is a hand-written union that is moved, swapped, and cut out of vectors.

## 2. Modules

| Module | Models | Uses |
|---|---|---|
| `Tokens` | tokens, `operator_table` | |
| `TokenStacks` | `push_token`, `unwind_rparen` | `Tokens` |
| `TextBuffer` | `buffer`, and which numbers the readers accept | `Tokens` |
| `TokenLists` | what each token needs and leaves; `WellFormed` | `Tokens` |
| `Compile` | `compile` and `advance_past_space_character` | the four above |
| `EvaluateTokens` | `evaluate_tokens`, with kinds for values | `TokenLists` |
| `SliceBounds`, `Slice` | `slice`, `slice_projection::evaluate` | |
| `Values` | what evaluations hand on: values, exceptions, errors, parameters | |
| `TokenMachine` | `evaluate_tokens` with values; what tokens compute are parameters | `Tokens`, `Values` |
| `Json` | numbers, texts, conversions, `compare`, `deep_copy` | `Values` |
| `Operators` | the unary and binary operators | `Json` |
| `FunctionLibrary` | the functions without callbacks | `Operators` |
| `Expressions` | nodes, `add_expression`, the functions with callbacks; what tokens compute | `TokenMachine`, `FunctionLibrary`, `SliceBounds`; `TokenStacks` |
| `SourceTexts` | the list that a text compiles to | `Expressions` |
| `Search` | the entry points; calls in calls; the refinement to `EvaluateTokens` | `TokenMachine`, `TokenLists`; `EvaluateTokens` |
| `SearchLaws` | what answers have to be | `Search`, `SourceTexts` |
| `TokenValues` | abstract: a token is a value with one owner | |
| `TokenUnion` | the union inside a token, and its moves | `TokenValues` |
| `CompileMC`, `EvaluateTokensMC`, `SliceMC`, `SearchMC`, `TokenUnionMC` | the constants of the runs | |
| `CompileProofs`, `LedgerProofs`, `TokenLevelProofs`, `ProgramProofs`, `EvaluateTokensProofs`, `SearchProofs`, `SliceProofs`, `TokenUnionProofs` | theorems | |

The detailed modules and their abstractions:

    TokenUnion  -- implements (proved) -->  TokenValues
    Compile  works on tokens that are such values, and
             makes lists that are WellFormed (ProgramsRun: checked, and
             proved for expressions without calls and literals)
    EvaluateTokens  runs every WellFormed list (proved: NeverFails)
    Search  -- implements (proved, at each depth of calls) -->  EvaluateTokens
             as long as it runs lists of tokens (ListsRun: checked)

`TokenLists` is where the two halves meet: `WellFormed` is the contract between
the compiler and the evaluator. `Compile` is checked to produce well-formed lists
(`ProgramsRun`), and proved to where there are no calls and no literals;
`EvaluateTokens` is proved to run every well-formed list without a failing assertion
(`NeverFails`), and, of lists without expression arguments, to get a value out of no
other one (`OnlyWellFormedRun`). `Search` puts the second half to use: its calls of
`evaluate_tokens` compute values, call each other and hand on errors, and each of
them is one of `EvaluateTokens`.

### Compile

One action is one pass of the loop in one `path_state`, with the same name; the
disjuncts of an action are the cases of its `switch`. `Goto`, `Collect`, `Push`
and `Fail` are the four things a pass does: move on, add to the buffer, push a
token and test `ec`, or return an error. `FlushPush` and `FlushGoto` are passes
that call `_checkBuffer` first; `FlushGoto` keeps `ec` set and goes on, as the
code does. The `end_` actions are the drain after the loop. `path_state` leaves
out `expect_dot` and `concat_operator`, which no pass pushes: `TypeOK` says so.

The expression is not chosen in `Init`. `Feed` and `Finish` reveal the next
character, or the end, when the automaton is about to look at it. This gives the
behaviours of all expressions of the chosen length without listing them, and
those that share a prefix share its states.

Data is abstracted to what the code branches on. A character stands for its
class: `" "` for blank and tab, `"a"` and `"b"` for letters that are hexadecimal
digits, `"e"` for the exponent mark, `"1"` for the digits 1 to 7, `"quote"`,
`"tick"` and `"backslash"` for the characters of these names. `buffer` is the
class of its text (`TextBuffer`). Values of literals and names of keys are left
out. So are `line_`, `column_` and the debug output.

Undefined behaviour is explicit. A read outside a stack ends in status
`undefined`. A read of `buffer[buffer.length()-1]` of an empty buffer (5088)
may give either answer.

`stacks.lists` is a history variable: the token lists that went inside
expressions. It grows with the program, and is there for `ProgramsRun`.

### EvaluateTokens

One action for each `token_kind`. A parameter is a `"value"` or an
`"expression"`. What operators, expressions and functions compute is left out,
and each may set `ec` or not. `ignored` is the `default` of the switch. Ending in
`assertion` is a failing `JSONCONS_ASSERT`; `undefined` is `value()` of a
parameter that holds an expression. `call` and `leave` begin and end the run of
another list: `toks` changes, everything else starts anew. `MayThrow` ends a run in
the middle, as an exception of a conversion does.

### Slice

`int64_t` is `MinInt .. MaxInt` for any `MaxInt`. The step that passes either end
ends in status `undefined` (signed overflow). `visited` records the positions
handed to `val.at`.

### Values, Json, Operators, FunctionLibrary, Expressions

A value is a pair of a kind and a content; a function of the library is an
operator on the sequence of its arguments, with the name it has in the source; a
conversion is a function on texts and exact quotients (`SixDigits` is
`std::to_string` of a double, `stod` reads the longest numeral a text begins with,
decimal or hexadecimal; `to_integer`, which `to_number` and `value` try first, also
reads a leading `0` as the mark of an octal number, and `0x` and `0b`).
An exception is a value, `Thrown`, which every caller passes on; an error code
travels next to the value, in the order in which the code's reference `ec` would
be written: `Result(v, ec)`.

A const pointer to a value is told from the value only where it is null, because
`compare` tells them apart only there: a null carries the number of pointers in
front of it (`Pointed`), and `deep_copy` takes them away.

An expression is its node, what it was constructed with, and `expressions_`.
`push_expression` is the `AddExpression` of `TokenStacks` with the expression that
`TokenStacks` leaves out; both decide by `JoinsProjection`.

### TokenMachine

A frame is the state of one call of `evaluate_tokens`: its locals, `ec`, and how it
stands. `Pass` is one pass of the loop. What an expression, an operator or a function
makes of its operands is a parameter, and the machine is used twice: `Expressions`
passes it `compute` and `call_function`, and runs it for the lists inside nodes; `Search`
passes it constants (`Step`), so that what is said there of frames holds of whatever
tokens compute. In the code the machine and the nodes are one recursion; its recursive
operators stay in `Expressions`, out of the modules that theorems are about.

### Search

A program holds an error code and at most one compiled expression, and makes one
call after the other, on different documents and through different entry points.
`frames` is the C++ stack: a `function_expression` is a call of `evaluate_tokens`
inside one, and `enter`, `step`, `resume` and `finish` interleave as the program
does. The calls that the other nodes make (filters, multi-selects) are one step
of the call they are in: they are the operator `evaluate_tokens`, which makes
such passes until it ends.

`Search` does not say what texts compile to, what tokens compute and how answers are
copied: these are its constants `OutputTokens`, `Compute`, `CallFunction` and `DeepCopy`.
`search.cfg` gives them the definitions of `SourceTexts`, `Expressions` and `Json`.
Each program also has a `depth`: `Watched` is the call at that depth, if there is one,
and `Implements` says that the calls that follow one another there are those of
`EvaluateTokens`. A call of a deeper one is then its `expression` step, and
`call` and `leave` are steps of the call around it. No bound is put on `depth`, so
the theorems are about each call, however deep.

What is compiled is not read character by character again: a source is a path of
steps, a literal, a call, a negation, an operator and its operands, or text that
does not compile, and `output_tokens` (`SourceTexts`) is the list that `compile` makes of it.
Whether it makes that list is the subject of `Compile`.

7520 programs of the kinds in `SearchMC` were also evaluated by the compiled
library and compared with what the model computes. They agree, with the
exception of 11 in which the text of a program, as it was printed for the
comparison, did not mean the program.

### TokenUnion

A place is a variable, an argument or an element of a vector. `type_` is the kind
of its token, `member` the member of the union that is alive and needs a
destructor, `owns` what that member owns and `heap` what is allocated. `token`,
`move_construct`, `move_assign` (to the same token, to one of the same kind, to one
of another) and `destructor` are the special members of the class; `add_expression`
and `make_expression` are what `push_token` moves out of tokens. Any place may be moved to
any other at any time, which is more than the vectors, `std::swap` and
`std::reverse` of the compiler do.

## 3. Runs

| Run | Question | Bounds |
|---|---|---|
| `compile_structure` | groups, projections, filters, slices | 11 characters, 5 after one of 5 starts |
| `compile_operators` | operators, parentheses, pipes | 10 characters, 5 after one of 4 starts |
| `compile_functions` | calls, nested calls, expression arguments | 7 characters, 6 after one of 7 starts |
| `compile_text` | strings, escapes, numbers, white space, slices | 16 characters, 4 after one of 9 starts |
| `evaluate` | token lists, well formed or not | 7 kinds of token up to 5 long, 5 others up to 3, and calls followed by up to 3 |
| `slice` | start, stop, step, size | a four-bit integer, every bound it has, arrays of up to 4 |
| `search` | what calls answer | every path of up to 3 of 10 steps, and of up to 5 of fewer; 14 operators between 14 operands each; 27 functions; calls nested three deep; two calls after each other; 4 documents |
| `token_union` | tokens moved about | 3 places, 3 objects, every kind with a member and one without |
| `left_to_right`, `filter_numbers`, `number_arguments`, `expression_arguments` | disagreements with the tests, section 6 | the shortest alphabets that show them |

Why the bounds are enough. The automaton has a finite control and a stack; each
of its interesting steps needs a nesting of two, a group inside a group or an
operator inside a group, and the starts put the automaton inside one or two
groups so that five or six more characters open, fill and close another. The
alphabets are split so that each run covers one family of states whole. Between
them the passing runs take every action and every disjunct. For `slice` four
bits leave room for bounds well outside arrays of four elements and for a step
that overflows. For `search`, three steps are a projection, what goes into it, and
what goes into that or behind it, and the longer paths repeat this; the operands
have every kind, both signs, a fraction, texts that are and are not numbers, and
arrays of lengths 0, 2 and 3. Three places are enough for `token_union`: no
operation touches more than a target, a source and what is captured with it, and
the theorems do not depend on the bound.

What each property says:

- `GroupLedger`: the groups open on `state_stack_` are the openers on
  `output_stack_`, in order, and each has its lparen. A closing token thus finds
  its own opener.
- `ProgramsRun`: every list of a successful compilation is well formed. It holds
  on the fragments of the three runs that check it. It does not hold for numbers
  before a comma in a call, nor for operators inside an expression argument, nor
  for operators in an argument that another argument with an operator follows
  (`f(a+b,c+d)` fails an assertion of the evaluator); these are outside the
  alphabets of the passing runs, and the first two are the runs `number_arguments`
  and `expression_arguments`.
- `RootStays`: the bottom of `output_stack_` is never captured, so line 5337 reads
  a token that is there.
- `OpsOrdered`: between two lparens operators are in order of precedence.
- `SliceScratch`: no bound of one slice is left for the next.
- `GrandparentExists`: the reads of `state_stack_[size()-2]` are in bounds.
- `Terminates`: the call returns, except where it is known to stall: in
  `multi_select_hash` and `function_expression` on characters those passes leave
  alone, and on a final `\r`. `Stalled` lists exactly these, so the property says
  that there are no others.
- `NeverFails`, `FindsItsArguments`, `OnlyWellFormedRun`: section 2.
- `VisitedInBounds`, `SelectsTheSlice`, `EndsInTime`: the loop reads inside the
  array, selects the positions of the usual definition of a slice, in order, and
  takes no more passes than there are elements.
- `ErrorEndsTheCall`: once `ec` is set, the call does not succeed, `ec` stays set,
  and until it returns no operator is shunted and no group begun or ended. The
  pushes that follow a failed `_checkBuffer` go no further than a return.
- `PathsMean`: the answer of a path is what its steps mean from left to right,
  by a definition without token lists, `add_expression` or const pointers
  (`PathMeaning`): a pipe ends all projections, a flatten those before it, and the
  first projection left maps the rest over its elements. What a list projection
  makes of null is left open: the code makes `[null]` of it, and the tests expect
  null (`bar[*]`, `tests/wildcard.json:370-375`; section 6). It has to be one of the
  two, throughout the path.
- `OperatorLaws`: trichotomy and negation of comparisons, symmetry of `==`, `+` and
  `*`, `-` undoes `+` and `*` undoes `/`, the lengths of arrays, unions do not
  depend on the side, `&&` and `||` choose an operand. Two things are left open,
  because a test says something else than the code: the order of a boolean and a
  text (`foo[?a < b]`, `tests/specSamples.json:891-904`), and what a division by zero
  is (`4/0`, `tests/tests.json:2567-2582`). Section 6 has both.
- `FunctionLaws`: a sort is an ordered stable permutation; `max_by` and its like
  give the first extreme; `map` is the expression element by element; `contains`,
  `starts_with`, `ends_with` and `reverse` agree; `floor`, `ceil`, `avg` and `sum` agree
  with arithmetic; `keys`, `values` and `merge` agree; `value` and `to_number` read a
  text as the same number, whatever its base.
- `WholeAnswers`: `search`, and an `evaluate` that throws, never return what is left
  of an answer after an error in it. `evaluate(doc, ec)` is left out, because it
  does: `[{},a]` gives `[null,1]` and `invalid_object`.
- `NothingDangles`: no answer has a const pointer in it: what it pointed to went
  with the evaluation's `dynamic_resources`.
- `NoAssertionFails`: of no program does a list, at any depth, end in a failed
  assertion or take an expression for a value.
- `ListsRun`: every list that `evaluate_tokens` is called with is one of well-formed
  tokens, the lists inside of expressions included. It is `ProgramsRun` from the side
  of the evaluator, and what `EvaluationImplements` and `CallsRun` ask for.
- `CallsReturn`: every call ends.
- `Implements` of `Search`: the calls of `evaluate_tokens` at the depth that is watched
  are a behaviour of `EvaluateTokens`, under the mapping that forgets the values
  (`KindsOf`). The programs of the run watch depths 1, 2 and 3, which is as deep as
  they go.
- `OneOwner`: an object on the heap has exactly one member that owns it, and every
  member's object is on the heap: nothing is freed twice, lost, or used after it
  was freed. `Implements` of `TokenUnion`: what the compiler sees are values.

Fairness. `compile` runs on one thread, without waiting and without being
interrupted: weak fairness of the whole next-state relation says
that the program keeps taking steps, and no more. `Feed` and `Finish` are part of
it because the expression exists in full before the call. `Finish` is always
possible where `Feed` is, and `MaxLength` bounds `Feed`. `EvaluateTokens` has no
liveness property: it is a `for` loop that moves on in every case. That the loop
of `Slice` ends is a bound on its passes, which is proved. `GoesOn` of `Search` is
the same assumption for a call that has begun: weak fairness of `step`, `enter`,
`resume` and `finish` together, written out, because TLC is slow at finding out
where these are enabled. Nothing is assumed of the program between calls: it may
make no further one.

Deadlock is checked in all runs: a call that has returned stutters (`Returned`).

## 4. Theorems

| Module | Theorem | Property |
|---|---|---|
| `CompileProofs` | `PushKeepsStacks` | `push_token` keeps types, `SegmentsOrdered` and `Rooted` |
| | `TypeCorrect` | `TypeOK` |
| | `OperatorsStayOrdered` | `OpsOrdered` |
| | `RootIsKept` | `RootStays` |
| | `GrandparentIsThere` | `GrandparentExists` |
| | `SlicesKeepApart` | `SliceScratch` |
| | `ErrorsAreReported` | `ErrorEndsTheCall` |
| `LedgerProofs` | `GroupsStayPaired` | `GroupLedger`, under `FirstKeysAreNames` |
| `ProgramProofs` | `ProgramsOfPathsRun` | `ProgramsRun`, under `NoCalls` and `NoLiterals` |
| `EvaluateTokensProofs` | `TypeCorrect` | `TypeOK` |
| | `WellFormedRuns` | `NeverFails` |
| | `ArgumentsFound` | `FindsItsArguments` |
| | `OnlyWellFormedRuns` | `OnlyWellFormedRun` |
| `SearchProofs` | `TypeCorrect` | `TypeOK` |
| | `AnswersAreWhole` | `WholeAnswers` |
| | `EvaluationImplements` | `Implements`: the refinement to `EvaluateTokens`, under `ListsOfTokens` |
| | `CallsRun` | no call fails an assertion or mistakes an expression for a value, under `ListsRun` |
| `SliceProofs` | `TypeCorrect` | `TypeOK` |
| | `StaysInArray` | `VisitedInBounds` |
| | `LoopEndsInTime` | `EndsInTime` |
| | `SliceIsCorrect` | `SelectsTheSlice` |
| `TokenUnionProofs` | `TypeCorrect` | `TypeOK` |
| | `Ownership` | `OneOwner` |
| | `TokensAreValues` | `Implements`: the refinement to `TokenValues` |

They hold for every set of functions and arities, every alphabet, start and
length of expression, every token list, every width of integer and size of
array, and every set of places, kinds and objects. The assumptions are the `ASSUME`s of the modules: they give the constants
their types, and in `Slice` say that a size fits an `int64_t`.

**Compile.** `TypeOK` is not inductive. The invariant `IInv` adds:

- the bottom of `state_stack_` is `start` or `rhs_expression`, and a pass that
  replaces the top never replaces one of these two except in `start` itself. That
  is what `GrandparentExists` needs: a string or number state is never alone.
- the first token of `output_stack_` is a current node or a literal. So an
  opener is never at the bottom, and a capture begins at the second
  token or later. Only a literal can replace the first token, and it is as good a
  root.
- `operator_stack_` holds lparens and operators only, in order of precedence
  between lparens.

The stack part is proved of `push_token` first, one lemma for each token kind,
without the automaton; the rest of `CompileProofs` has one step for each action and
cites `PushKeepsStacks`. The argument for the order: a token goes on
top of an operator only if that one is at most as tight, and otherwise removes
exactly the tighter ones above the first that is not (`KeptBelow`).

`ErrorsAreReported` is a property of every step, with no invariant but the types
of the four fields of the stacks. No helper of `push_token` clears `ec` (the lemmas
on `Failed`); a pass that tests `ec` returns; a pass that does not changes only
the state, the buffer, or the top of `output_stack_` (`Reported`, one step for each
action). `SlicesKeepApart` follows the states of a slice (`SInv`): `slic` differs
from its default only while a state for its bounds is on top, or the state of a
number above one; every pass that leaves these states takes `slic` or returns.

`GroupsStayPaired` has a condition, `FirstKeysAreNames`: no white space follows a
number in the place of the first key of a hash, and no quote begins that key. In both
cases the code pushes a value where `end_multi_select_hash` looks for a key, its scan
runs through the beginning of its own hash, and the two records of the nesting part
for good. The condition is about what the next character may be in one situation,
not about the stacks; every expression without `{` meets it, and so does each one
whose hash keys are bare names. `LedgerInv` is the inductive invariant. It says that there
are two pairings in order, of the states of groups with the beginnings on
`output_stack_`, and of these and the parentheses with the lparens, and adds what the
two captures that look for something else than an opener need:

- the beginning of a hash has a key right after it, so that the scan for a key stops
  there at the latest; or the first key is still being read, and then the hash is the
  last thing on both stacks;
- for each `expression_type` on `state_stack_`, a `begin_expression_type` lies
  between the beginnings of the groups below and above it, so `end_expression_type`
  takes no beginning of a group with it.

A push adds an ordinary token, opens or closes a group or a parenthesis, or captures
an expression. The lemmas on the stacks say what each of these does to any pairings
(`LedgerProofs`, first half), and the steps of the automaton, one lemma for each family
of states, say which one goes with which change of `state_stack_`.

`ProgramsOfPathsRun` is `ProgramsRun` for expressions without function calls,
literals, quoted keys and lists of numbers: paths, projections, slices, filters,
multi-select lists and hashes, parentheses, and all operators, in any nesting. The
two conditions, `NoCalls` and `NoLiterals`, say which next character is not read in
five states. `ProgramsRun` is false without them, as the end of this section says.
They imply `FirstKeysAreNames`, so `LedgerInv` holds. `PInv` adds four
things:

- `Shaped`: which state may lie on which. An operand is complete on the states that
  wait for one; the states of texts, numbers and escapes lie on the state that the
  text is for. This is what a pass finds when it takes the top off.
- `Clear`: text is in the buffer only while a state that collects it is on top. So
  no pass that flushes the buffer pushes a literal.
- `Program`: an amount `v[k]` at each token of `output_stack_`, and `w[k]` at each
  operator. `v[k]` is how many parameters are on `stack` of the evaluator after token
  `k`, counted anew at the beginning of each filter, element and value; `w[k]` is how
  many there would be once the operators from `k` up are moved, and is 1 at an lparen of a group.
  They meet at the top (`Leveled`), and at the beginning of each open group
  `v` is what `w` is under its lparen. So a group can be cut off and one
  expression put in its place, and moving operators changes nothing (`MovedTidy`).
- `Aligned`: a key is read next on `output_stack_` if and only if the automaton is about
  to read one, and an operand is complete where a state needs one that is.

`TokenLevelProofs` shows what each kind of token makes of `Program` and that what a group
encloses are well-formed lists (`FilterRuns`, `ListRuns`, `HashRuns`: the values that
`Elements` and `HashValues` cut out between separators and keys).
`ProgramProofs` has one lemma for each family of states, as before. At the
end no group is open, `w` is 1 at the bottom, and the whole list is well formed
(`ProgramEnds`). `v` and `w` are not history variables: `Program` says that there are such
functions, and each lemma says how to change them. One state breaks `Program`: the
end of the expression after a number in brackets pushes a literal, and the
next pass is an error (`Live`).

**EvaluateTokens.** The invariant says that, in a well-formed list, the lengths
of `stack` and `arg_stack` are the depths `d` and `a` that `TokenLists` computes
for the position, and that all of `stack` are values except that an expression
is on top just before the argument token that takes it. `d` and `a` are
functions with equations at each position (`DepthsOf`), so nothing has to be
proved of recursion.

The converse, `OnlyWellFormedRuns`, cannot start from a well-formed list. Its invariant
`WInv` says that the lengths of the stacks at `i` belong to a solution of the
equations up to `i - 1`, that every function that solves them for the whole list
agrees with it so far, and that each token passed found what it needed. Each step
makes the solution one position longer (`Extend`). At the end it is one for the whole
list, so `StackDepth` and `ArgumentDepth`, which choose such a function, are it.

**Search.** The theorems are about every program: any text, document and sequence of
calls, any list that a text compiles to, and anything that nodes, operators and
functions compute, whether a value, an error or an exception. `FramesOK` is what
`TypeOK` lacks to be inductive: a frame has the parts of a frame, `i` is a position, and
each call but the last waits at a `function_expression` for a value that is on top of its
`stack` (`Waits`); this is what the call needs when it goes on. `StepIsFrame` and the lemmas
before it say what each pass leaves in a frame.

`AnswersAreWhole` follows `ec` from the call to the answer. `AnswersInv` adds
that a `search` that has come as far as an evaluation began with a clear `ec`.

`EvaluationImplements` has a step for each thing that can happen to the call that is
watched. It makes a pass: then `MachineStep` finds the action of `EvaluateTokens`, by the
kind of the token. It begins or is over: `call` or `leave`. It goes on after a call
inside it: `expression` (`ResumeSeen`). Or the pass is one of another call, and what
is watched stays as it is. The lists are the hypothesis: in `EvaluateTokens` a list is
a sequence of tokens, and here it is what `OutputTokens` and the expressions of tokens
give, which are arbitrary. That they give lists of tokens (`ListsOfTokens`) is a
part of `ListsRun`, which the run checks.

`CallsRun` puts the two halves together. The invariant of `EvaluateTokensProofs` is an
instance, `Proofs`, for the call that is watched, kept by each of its steps because of
the refinement; and so `WellFormedRuns` holds for it, with values, nested calls, errors
and exceptions. What is left to `ListsRun` is the contract that `ProgramsRun` is
about: the lists are well formed.

**Slice.** After `n` passes `i` is at least `n` when it goes up and at most
`size - 1 - n` when it goes down, and `end` is inside the array or next to it.
For `SliceIsCorrect`, positions are measured from the beginning of the slice in its
direction (`Distance`), which grows by the size of the step (`Stride`) with each
pass. The invariant (`VisitedSoFar`): what has been visited is what the reference
selects before `i`, in order, and `i` is a whole number of strides into the slice;
or `i` is negative and nothing is selected. A pass leaves nothing out, because
between two multiples of the stride there is no third (`NextMultiple`).

**TokenUnion.** `OneOwner` is inductive together with `TypeOK`: each operation moves
what a member owns and leaves nothing behind, or leaves what the target had when
two tokens of one kind are assigned. The refinement maps `type_` and `owns` of a
place to the token in it (`ValueOf`) and `heap` to `live`; every operation is one
step of `TokenValues`, because what is on the heap is exactly what is owned.

Only model-checked: `ProgramsRun` of expressions with calls and literals; of `search`,
`PathsMean`, `OperatorLaws`, `FunctionLaws`, `NothingDangles`, `ListsRun` and the part of
`NoAssertionFails` that is about what a node or a function throws; and `Terminates` and
`CallsReturn`, which as liveness properties are out of the prover's reach. `ProgramsRun` holds on the alphabets of its runs and not on all: arguments that are
numbers, operators in expression arguments, more than one operator in the last
argument of a call, and a literal after a pipe make lists that cannot be run. `Expressions`, `SourceTexts` and
`SearchLaws` are recursive, and no theorem is stated about them: the meaning of a path
and the evaluation of a node recurse over the same trees, and that they agree is an
induction over these, as is `ListsRun` over texts. The depths of `TokenLists` are the only recursive functions
that theorems speak of: the proofs use their equations, and `EvaluateTokensProofs`
shows for a list that runs that these have one solution.

## 5. Not modelled

- Doubles beyond exact quotients: rounding, infinities, the zero with a sign, the
  digits of `to_string` after the sixth.
- Exponents, hexadecimal fractions and the names of infinity in texts: no text in
  the runs has one.
- The magnitude of a number: `to_integer` and `std::stod` may also fail because a
  number is too large.
- The arity branch of `evaluate_tokens` (2482) is in the model, but `compile`
  compares the number of arguments first (6314), so no program reaches it.
- `line_` and `column_`, messages, debug output.
- Where literals and temporaries are stored: `Json` has what can be seen of it.
- Moved-from tokens on `operator_stack_` after a failed `unwind_rparen`: only a
  call that has failed has them.
- The depth of the C++ stack.
- The rest of `jsoncons`, `popl` and `utest.h`, and the test driver: third-party code
  and I/O. They are most of the files of the repository. Of `jsoncons`, the number
  readers, `compare`, `deep_copy` and the conversions are modelled as
  `json-formula.hpp` uses them.

## 6. Disagreements found

All were reproduced on the compiled library; the first four are runs.

- `left_to_right`: operators of one level are stacked on each other, and applied
  from right to left. `right - left - 10` (`tests/specSamples.json:187`) gives 14
  and not -6.
- `filter_numbers`: `]` of a filter does not flush the buffer, so
  `family[?age == 23]` (`tests/specSamples.json:1003`) compares with nothing. With
  a space before `]` it works.
- `number_arguments`: ``notNull(1, 2, 3, 4, `null`)``
  (`tests/docSamples.json:243`) fails an assertion: the argument token of a number
  is pushed before the number.
- `expression_arguments`: `map(@, &@ - 1)` (`tests/tests.json:2612`) fails an
  assertion: the operator stays outside the expression it belongs to.

In three more cases the code computes one thing and the tests expect another. No run
shows them: the model does what the code does, and the properties leave open which
of the two is right.

- `list_projection` makes `[null]` of null (3550-3555), so an absent `bar` gives it
  for `bar[*]` and `bar[*].baz[*]` (`tests/wildcard.json:370-375`), and a null one for
  `nullvalue[*]`, `nullvalue[*].foo` and `nullvalue[*].foo[*].bar` (`396-421`). The
  tests expect null. `foo.[*]` of null compiles to the same node, and its test
  (`tests/syntax.json:368-369`) does expect `[null]`: to meet both, the compiler would
  have to tell the two apart. Left open by `PathsMean`.
- `<` and its like read a text on the right of a number as a number, but print the
  number where the text is on the left (2710-2715), so `"23" > 111`
  (`tests/specSamples.json:35-40`) gives true and not false. `OperatorLaws` asks of a
  number and a text only that `<=` is the negation of `>`. A boolean and a text have no
  order, so `foo[?a < b]` (`tests/specSamples.json:891-904`) leaves out
  `{"a": false, "b": "1"}`, which the test selects. Left open by `OrderLaw`.
- `4/0` and `null/0` (`tests/tests.json:2567-2582`) give null (3100-3102), and
  `` `[100,100]` / `[50]` `` (`2634-2639`) divides 100 by a zero it fills in. The tests
  expect an error, and of the first two record that null was the answer before. Left
  open by `InverseLaw`.

The tests of the repository also call functions that the library does not have, and
expect conversions that it does not make (`toNumber("10f")`, `abs("-2")`); these are
not modelled.

## 7. Plan

Done: the compiler (`Tokens`, `TokenStacks`, `TextBuffer`, `TokenLists`, `Compile`),
the evaluator without and with values (`EvaluateTokens`, `Slice`, `Json`,
`Operators`, `FunctionLibrary`, `Expressions`), the composition (`Search`), the
token union and its abstraction, their runs, and the theorems above.

Left, in this order:

1. `ProgramsOfPathsRun` with literals where an operand begins after an operator or a
   separator, and with calls whose arguments have no operators.
2. Doubles with rounding, in place of exact quotients, and the infinities.
3. The composition of `Compile` and `Search` over one text: that `output_tokens` is
   what `compile` makes of it.
