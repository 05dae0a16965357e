------------------------------- MODULE Search -------------------------------
(***************************************************************************)
(* The entry points: search, search with an error_code (debug_search is    *)
(* the same with output), make_expression and evaluate, each in a form     *)
(* that throws and in one that takes the caller's error_code.              *)
(*                                                                         *)
(* A program uses one source.  It searches, or makes an expression of the  *)
(* source and evaluates it, on one document after the other.  The          *)
(* error_code that it passes may be set already: nothing clears it.        *)
(*                                                                         *)
(* The calls of evaluate_tokens inside a call are the frames of            *)
(* TokenMachine.  What compile makes of a text, what the tokens compute    *)
(* and how an answer is copied is given by SourceTexts, Expressions and    *)
(* Json: what is said here holds whatever they are.                        *)
(***************************************************************************)
EXTENDS TokenMachine, TokenLists

CONSTANTS
  Compute(_, _, _),      \* the Result of a token for its operands, and an ec
  CallFunction(_, _, _), \* what a function returns for its arguments, and an ec
  Sources,     \* the programs: a sequence of records [text, docs, uses, calls, depth]
  Documents,   \* the documents: a sequence of values
  Stale,       \* what an earlier call may have left in the caller's error_code
  OutputTokens(_),   \* the token list of a text that compiles
  DeepCopy(_)        \* a value without const pointers

(* The bounds of a program are the documents and the entry points it uses, *)
(* and how many calls it makes.  `depth` says which calls of               *)
(* evaluate_tokens Implements is about.                                    *)
EntryPoints == {"search", "search_ec", "evaluate", "evaluate_ec"}

ASSUME SearchAssumption ==
  /\ \A s \in DOMAIN Sources : /\ Sources[s].docs \subseteq DOMAIN Documents
                              /\ Sources[s].uses \subseteq EntryPoints
                              /\ Sources[s].calls \in Nat
                              /\ Sources[s].depth \in Nat \ {0}
  /\ NoCode \notin Stale

VARIABLES
  source,    \* the source of this program, an index of Sources
  entry,     \* the entry point that is running, or "idle"
  doc,       \* the document of the last call, an index of Documents
  ec,        \* the caller's error_code
  expr,      \* the jsonformula_expression that the program holds
  frames,    \* the calls of evaluate_tokens that are running, the inner last
  answer,    \* what the last call returned or threw
  calls      \* how many calls there were

vars == <<source, entry, doc, ec, expr, frames, answer, calls>>

Text == Sources[source].text

Unmade == [made |-> FALSE, toks |-> <<>>]

Throwing == {"search", "evaluate"}
WithEc   == {"search_ec", "evaluate_ec"}

-----------------------------------------------------------------------------
(* The first push finds an ec that is set already, and compile returns. *)
compiled(text, code) ==
  CASE code # NoCode -> [toks |-> <<>>, ec |-> code]
    [] code = NoCode /\ text.form = "bad" -> [toks |-> <<>>, ec |-> text.of]
    [] OTHER -> [toks |-> OutputTokens(text), ec |-> NoCode]

-----------------------------------------------------------------------------
Init ==
  /\ source \in DOMAIN Sources
  /\ entry = "idle" /\ doc = 0
  /\ ec \in {NoCode} \cup Stale
  /\ expr = Unmade
  /\ frames = <<>>
  /\ answer = [to |-> "nothing"]
  /\ calls = 0

Calling(name, d) ==
  /\ entry = "idle" /\ calls < Sources[source].calls
  /\ name \in Sources[source].uses
  /\ calls' = calls + 1 /\ doc' = d
  /\ UNCHANGED source

(* evaluate_tokens is called with an error_code that holds `code`. *)
Begin(name, toks, code) ==
  /\ entry' = name
  /\ frames' = <<Called(Documents[doc'], toks, code)>>
  /\ UNCHANGED <<ec, answer>>

KeepsMachine(name, how, v, code) ==   \* mutant: the next call finds the old frames
  /\ answer' = [to |-> name, doc |-> doc', how |-> how, val |-> v, given |-> ec, ec |-> code]
  /\ entry' = "idle" /\ UNCHANGED frames
  /\ ec' = IF name \in WithEc THEN code ELSE ec

(***************************************************************************)
(* The call ends: it returns a value, or it throws.  `code` is what the    *)
(* error_code it worked with holds; that of the caller is it, or is not.   *)
(***************************************************************************)
Answered(name, how, v, code) ==
  /\ answer' = [to |-> name, doc |-> doc', how |-> how, val |-> v, given |-> ec, ec |-> code]
  /\ entry' = "idle" /\ frames' = <<>>
  /\ ec' = IF name \in WithEc THEN code ELSE ec

search(d) ==
  LET c == compiled(Text, NoCode)
  IN /\ Calling("search", d)
     /\ IF c.ec # NoCode THEN Answered("search", "threw", Null, c.ec)
        ELSE Begin("search", c.toks, c.ec)
     /\ UNCHANGED expr

search_ec(d) ==
  LET c == compiled(Text, ec)
  IN /\ Calling("search_ec", d)
     /\ IF c.ec # NoCode THEN Answered("search_ec", "returned", Null, c.ec)
        ELSE Begin("search_ec", c.toks, c.ec)
     /\ UNCHANGED expr

Making ==
  /\ entry = "idle" /\ ~expr.made
  /\ Sources[source].uses \cap {"evaluate", "evaluate_ec"} # {}
  /\ UNCHANGED <<source, entry, doc, frames, answer, calls>>

make_expression ==
  LET c == compiled(Text, NoCode)
  IN /\ Making
     /\ c.ec = NoCode   \* it throws otherwise, and nothing is made
     /\ expr' = [made |-> TRUE, toks |-> c.toks]
     /\ UNCHANGED ec

(* An expression is made even of what does not compile: an empty one. *)
make_expression_ec ==
  LET c == compiled(Text, ec)
  IN /\ Making
     /\ expr' = [made |-> TRUE, toks |-> c.toks]
     /\ ec' = c.ec

Evaluating(name, d, code) ==
  /\ Calling(name, d) /\ expr.made
  /\ IF expr.toks = <<>> THEN Answered(name, "returned", Null, code)
     ELSE Begin(name, expr.toks, code)
  /\ UNCHANGED expr

evaluate(d)    == Evaluating("evaluate", d, NoCode)
evaluate_ec(d) == Evaluating("evaluate_ec", d, ec)

-----------------------------------------------------------------------------
(***************************************************************************)
(* Between the beginning of a call and its end: the innermost call of      *)
(* evaluate_tokens makes a pass of its loop; it comes to a                 *)
(* function_expression, which calls evaluate_tokens for its own tokens; or *)
(* that call is over, and the one around it takes what it returned.  What  *)
(* the other nodes evaluate is one step of the call that they are in.      *)
(***************************************************************************)
Step(m) == Pass(m, Compute, CallFunction)

Inner == Last(frames)
Outer == frames[Len(frames) - 1]

Running == entry # "idle" /\ Inner.outcome = "running"

AtFunction ==
  /\ Inner.i <= Len(Inner.toks) /\ Inner.stack # <<>>
  /\ Inner.toks[Inner.i].kind = "expression"
  /\ Inner.toks[Inner.i].of.node = "function_expression"
  /\ ~IsExpressionArgument(Last(Inner.stack))

Evaluates == UNCHANGED <<source, entry, doc, ec, expr, answer, calls>>

step ==
  /\ Running /\ ~AtFunction
  /\ frames' = [frames EXCEPT ![Len(frames)] = Step(@)]
  /\ Evaluates

enter ==
  /\ Running /\ AtFunction
  /\ frames' = Append(frames, Called(ValueOf(Last(Inner.stack)), Inner.toks[Inner.i].of.arg, Inner.ec))
  /\ Evaluates

resume ==
  /\ entry # "idle" /\ Inner.outcome # "running" /\ Len(frames) > 1
  /\ frames' = Append(SubSeq(frames, 1, Len(frames) - 2),
                      Replaced(Outer, 1, Result(Outcome(Inner), Inner.ec)))
  /\ Evaluates

Ended == entry # "idle" /\ Inner.outcome # "running" /\ Len(frames) = 1

ReturnsParts ==   \* mutant: search does not look at ec after the evaluation
  /\ Ended
  /\ UNCHANGED <<source, doc, expr, calls>>
  /\ LET v == Outcome(Inner)
     IN IF IsThrown(v) \/ (entry \in Throwing /\ Inner.ec # NoCode)
        THEN Answered(entry, "threw", Null, Inner.ec)
        ELSE Answered(entry, "returned", DeepCopy(v), Inner.ec)

finish ==
  /\ Ended
  /\ UNCHANGED <<source, doc, expr, calls>>
  /\ LET v == Outcome(Inner)
     IN IF IsThrown(v) \/ (entry \in Throwing /\ Inner.ec # NoCode)
        THEN Answered(entry, "threw", Null, Inner.ec)
        ELSE Answered(entry, "returned",
                      IF entry = "search_ec" /\ Inner.ec # NoCode THEN Null ELSE DeepCopy(v),
                      Inner.ec)

(* The program makes no further call. *)
Rests == entry = "idle" /\ UNCHANGED vars

Next ==
  \/ \E d \in Sources[source].docs : search(d) \/ search_ec(d) \/ evaluate(d) \/ evaluate_ec(d)
  \/ make_expression \/ make_expression_ec
  \/ step \/ enter \/ resume \/ finish \/ Rests

(***************************************************************************)
(* A call that has begun goes on; whether another one is made is open.     *)
(* This is the weak fairness of the four actions together, written out:    *)
(* TLC takes very long to find from them where they are enabled.           *)
(***************************************************************************)
CanGoOn == entry # "idle" /\ (Running /\ ~AtFunction => Step(Inner) # Inner)

GoesOn == []<>~CanGoOn \/ []<><<step \/ enter \/ resume \/ finish>>_vars

Spec == Init /\ [][Next]_vars /\ GoesOn

-----------------------------------------------------------------------------
(* Type correctness. *)
TypeOK ==
  /\ source \in DOMAIN Sources
  /\ entry \in {"idle"} \cup Throwing \cup WithEc
  /\ doc \in {0} \cup DOMAIN Documents
  /\ expr.made \in BOOLEAN
  /\ frames = <<>> <=> entry = "idle"
  /\ \A d \in DOMAIN frames :
       /\ frames[d].outcome \in {"running", "value", "null", "throws", "assertion", "undefined"}
       /\ d < Len(frames) => frames[d].outcome = "running"
  /\ calls \in 0 .. Sources[source].calls

Returned == answer.to # "nothing" /\ answer.how = "returned"

(***************************************************************************)
(* An error anywhere in an evaluation is the end of it for search, and for *)
(* an evaluate that throws: neither returns the rest of an answer, in      *)
(* which what failed is null.  A search with an ec that was set returns    *)
(* null and the same ec.                                                   *)
(***************************************************************************)
WholeAnswers ==
  /\ Returned /\ answer.to # "evaluate_ec" /\ answer.val # Null => answer.ec = NoCode
  /\ Returned /\ answer.to = "search_ec" /\ answer.given # NoCode =>
       answer.val = Null /\ answer.ec = answer.given

-----------------------------------------------------------------------------
(* EvaluateTokens, which knows the kinds of the parameters only, for the    *)
(* calls of the depth that is watched: they follow one another.            *)
KindOf(p)   == IF IsExpressionArgument(p) THEN "expression" ELSE "value"
KindsOf(s)  == [k \in DOMAIN s |-> KindOf(s[k])]
TokensIn(l) == [k \in DOMAIN l |-> [kind |-> l[k].kind, oper |-> l[k].oper]]

Depth   == Sources[source].depth
Idle    == Stop(Called(Null, <<>>, NoCode), "idle")
Watched == IF Depth \in DOMAIN frames THEN frames[Depth] ELSE Idle

Evaluation == INSTANCE EvaluateTokens WITH
  Programs  <- Seq(Token),
  toks      <- TokensIn(Watched.toks),
  i         <- Watched.i,
  stack     <- KindsOf(Watched.stack),
  arg_stack <- KindsOf(Watched.args),
  ec        <- Watched.ec # NoCode,
  outcome   <- Watched.outcome

(***************************************************************************)
(* Evaluation with values is evaluation: whatever the nesting, each token  *)
(* of a call of evaluate_tokens does to its stacks, to ec and to the call  *)
(* what EvaluateTokens says, and no call disturbs the one around it.       *)
(***************************************************************************)
Implements == Evaluation!Spec

(***************************************************************************)
(* What evaluate_tokens is called with, by the entry points and by the     *)
(* expressions of a list, are lists of tokens that it can run.             *)
(***************************************************************************)
IsList(s) == Len(s) \in Nat /\ s = [k \in 1 .. Len(s) |-> s[k]]

ListsOfTokens ==
  \A d \in DOMAIN frames : IsList(frames[d].toks) /\ TokensIn(frames[d].toks) \in Seq(Token)

ListsRun == ListsOfTokens /\ \A d \in DOMAIN frames : WellFormed(TokensIn(frames[d].toks))

(***************************************************************************)
(* No assertion of evaluate_tokens fails in the call that is watched, and   *)
(* no expression is taken for a value.                                     *)
(***************************************************************************)
CallRuns == Watched.outcome \notin {"assertion", "undefined"}
=============================================================================
