------------------------------ MODULE SearchMC -------------------------------
(***************************************************************************)
(* Values for the constants of Search: every path of up to three steps and *)
(* some of four; every operator between two literals of every kind; every  *)
(* function; calls that fail, throw, and are made with an ec that is set.  *)
(***************************************************************************)
EXTENDS SearchLaws

AllCharacters == <<"\"", ",", "-", ".">> \o Digits \o <<":", "[", "]", "a", "b", "c", "e", "f", "l", "n", "r", "s", "t", "u", "x", "{", "}">>

(* The functions of static_resources and their arities. *)
LibraryArity ==
  [f \in {"abs", "avg", "ceil", "floor", "keys", "length", "max", "min", "reverse", "sort",
          "sum", "to_array", "to_number", "to_string", "type", "values"} |-> 1]
  @@ [f \in {"contains", "ends_with", "join", "map", "max_by", "min_by", "sort_by",
             "starts_with", "value"} |-> 2]
  @@ [f \in {"merge", "not_null"} |-> AnyArity]

Library == DOMAIN LibraryArity

LeftOver == {"unknown_function"}

-----------------------------------------------------------------------------
(* Texts. *)
A == <<"a">>
B == <<"b">>

Lit(v)        == [form |-> "literal", of |-> v]
Path(steps)   == [form |-> "path", of |-> steps]
Expr(text)    == [form |-> "expression", of |-> text]
Not(text)     == [form |-> "not", of |-> text]
Call(f, args) == [form |-> "call", name |-> f, of |-> args]
BinaryOf(o, lhs, rhs) == [form |-> "binary", oper |-> o, of |-> <<lhs, rhs>>]
Bad(code)     == [form |-> "bad", of |-> code]

Step_(node, arg) == [node |-> node, arg |-> arg]
Field(key)   == Step_("identifier_selector", key)
Index(n)     == Step_("index_selector", n)
Here         == Step_("current_node", 0)
List         == Step_("list_projection", 0)
Values_      == Step_("object_projection", 0)
Flatten      == Step_("flatten_projection", 0)
Filter(text) == Step_("filter_expression", text)
SliceStep(start, stop, step_) ==
  Step_("slice_projection", [start |-> start, stop |-> stop, step |-> step_])
Both  == Step_("multi_select_list", <<Path(<<Field(A)>>), Path(<<Index(0)>>)>>)
Named == Step_("multi_select_hash", <<[key |-> B, text |-> Path(<<Field(A)>>)],
                                      [key |-> A, text |-> Path(<<List>>)]>>)
PipeStep == Step_("pipe", 0)

-----------------------------------------------------------------------------
(* Documents. *)
Obj(v)      == Object([k \in {A} |-> v])
ObjAB(v, w) == Object([k \in {A, B} |-> IF k = A THEN v ELSE w])
Ints(s)     == Array([k \in DOMAIN s |-> Int_(s[k])])
Half        == Double(<<1, 2>>)
Text_(s)    == String(s)

Leaf    == ObjAB(Ints(<<1, 2>>), Int_(3))
Nested  == ObjAB(Array(<<Obj(Array(<<Leaf, Null>>)), Leaf, Int_(5)>>), Leaf)
Grid    == Array(<<Array(<<Obj(Ints(<<1>>)), Ints(<<7, 8>>)>>), Array(<<>>), Nested, Null>>)
Rows    == Array(<<ObjAB(Int_(2), Int_(1)), ObjAB(Int_(1), Int_(2)),
                   ObjAB(Int_(2), Int_(3)), ObjAB(Int_(1), Int_(4))>>)

AllDocuments == <<Nested, Grid, Rows, Null>>

-----------------------------------------------------------------------------
(* Sequences of texts: TLC does not compare records of different shapes. *)
PathsOf(len, steps) ==
  LET base == Len(steps)
  IN SelectSeq([n \in 1 .. base ^ len |->
                  [k \in 1 .. len |-> steps[(((n - 1) \div base ^ (k - 1)) % base) + 1]]],
               LAMBDA p : /\ p # <<>> => p[len] # PipeStep
                          /\ \A k \in 1 .. len : p[k] = PipeStep =>
                               k > 1 /\ p[k - 1] # PipeStep)

AllSteps == <<Field(A), Index(-1), List, Flatten, Values_, PipeStep, Both, Named,
              Filter(Path(<<Field(A)>>)), SliceStep(1, Absent, 1)>>
Shapes   == <<Field(A), List, Flatten, PipeStep, Index(0)>>
Bounds_  == <<Index(MaxInt), Index(-MaxInt - 1), Index(1), Index(-3), Here,
              SliceStep(Absent, Absent, -2), SliceStep(-2, 1, 1),
              Filter(BinaryOf("gt_op", Path(<<Field(A)>>), Lit(Int_(1)))),
              Filter(Not(Path(<<Field(A)>>)))>>

PathTexts ==
  LET paths == PathsOf(1, AllSteps) \o PathsOf(2, AllSteps) \o PathsOf(3, AllSteps)
               \o PathsOf(4, Shapes) \o PathsOf(5, <<Field(A), List, Flatten>>)
               \o PathsOf(1, Bounds_) \o PathsOf(2, Bounds_)
  IN [n \in DOMAIN paths |-> Path(paths[n])]

OperandValues ==
  <<Null, True, False, Int_(0), Int_(2), Int_(-3), Half, Text_(<<>>), Text_(<<"2", "b">>),
    Text_(<<"b">>), Ints(<<>>), Ints(<<4, 1>>), Array(<<Half, Text_(<<"3">>), Int_(1)>>),
    Obj(Int_(1))>>

OperatorKinds == <<"or_op", "and_op", "eq_op", "ne_op", "lt_op", "lte_op", "gt_op", "gte_op",
     "plus_op", "minus_op", "mult_op", "div_op", "concat_op", "union_op">>

Product(S, T, Make(_, _)) ==
  [n \in 1 .. Len(S) * Len(T) |->
     Make(S[((n - 1) \div Len(T)) + 1], T[((n - 1) % Len(T)) + 1])]

BinaryTexts ==
  Product(OperatorKinds, Product(OperandValues, OperandValues, LAMBDA v, w : <<v, w>>),
          LAMBDA o, p : BinaryOf(o, Lit(p[1]), Lit(p[2])))

Lists3 ==
  LET some == <<Int_(2), Half, Int_(1)>>
      of(len) == [n \in 1 .. 3 ^ len |->
                    Array([k \in 1 .. len |-> some[(((n - 1) \div 3 ^ (k - 1)) % 3) + 1]])]
  IN of(0) \o of(1) \o of(2) \o of(3)
     \o <<Array(<<Text_(B), Text_(A), Text_(<<>>)>>), Array(<<Text_(B), Text_(<<"b", "a">>)>>),
          Array(<<Int_(1), Text_(A)>>), Ints(<<1, -1>>), Null, Obj(Int_(2)),
          ObjAB(Int_(1), Text_(B)), Text_(<<"a", "b">>), Text_(<<"-", "7">>),
          Text_(<<"0", "1", "0">>), Text_(<<"-", "0", "x", "1", "f">>), Text_(<<"0", "b", "1", "1">>),
          Text_(<<"0", "8">>), Text_(<<"0", "x">>), Text_(<<"0", "x", "1", "r">>), Text_(<<"0", "b", "2">>),
          Text_(<<"2", ".", "5">>), Int_(-2), Double(<<-5, 2>>), True>>

OneArgument ==
  Product(<<"abs", "avg", "ceil", "floor", "keys", "length", "max", "min", "reverse",
            "sort", "sum", "to_array", "to_number", "to_string", "type", "values", "merge",
            "not_null">>,
          Lists3, LAMBDA f, v : Call(f, <<Lit(v)>>))

TwoArguments ==
  Product(<<"contains", "ends_with", "join", "starts_with", "value", "merge", "not_null">>,
          Product(<<Text_(<<"a", "b", "a">>), Text_(<<>>), Array(<<Text_(A), Text_(B)>>),
                    ObjAB(Int_(1), Int_(2)), Array(<<Null, Int_(2)>>), Null, Text_(<<"1">>)>>,
                  <<Text_(<<"b", "a">>), Text_(<<"a">>), Int_(1), Int_(4), Null, Half,
                    Text_(<<"0", "b", "1">>), Text_(<<"0", "x">>),
                    Obj(Text_(B)), Array(<<Text_(A), Text_(B), Text_(A)>>),
                    Array(<<Text_(<<>>), Text_(B)>>)>>,
                  LAMBDA v, w : <<v, w>>),
          LAMBDA f, p : Call(f, <<Lit(p[1]), Lit(p[2])>>))

CallBacks ==
  LET e == <<Expr(Path(<<Field(A)>>)), Expr(Path(<<Field(B)>>)), Expr(Path(<<Here>>)),
             Expr(Call("abs", <<Path(<<Field(A)>>)>>)), Lit(Int_(1))>>
      v == <<Rows, Ints(<<2, 1, 3>>), Ints(<<>>), Int_(1), Array(<<Rows[2][1]>>),
             Array(<<Rows[2][1], Obj(Text_(B))>>)>>
  IN Product(<<"max_by", "min_by", "sort_by">>, Product(v, e, LAMBDA x, y : <<Lit(x), y>>), Call)
     \o Product(<<"map">>, Product(v, e, LAMBDA x, y : <<y, Lit(x)>>), Call)

(* Errors: of one function in a list, of `{}`, in a projection; a           *)
(* function that throws, and one below it; and nested calls.               *)
Fails == Call("abs", <<Lit(True)>>)
Empty == Step_("multi_select_hash", <<>>)
Troubles ==
  <<Path(<<Step_("multi_select_list", <<Fails, Path(<<Field(B)>>)>>)>>),
    Path(<<Field(A), List, Step_("multi_select_list", <<Call("keys", <<Path(<<Here>>)>>)>>)>>),
    Path(<<Step_("multi_select_hash", <<[key |-> A, text |-> Fails],
                                        [key |-> B, text |-> Path(<<Values_>>)]>>)>>),
    Path(<<Empty>>), Path(<<Step_("multi_select_list", <<Path(<<Empty>>), Path(<<Field(A)>>)>>)>>),
    Path(<<Field(A), Filter(Call("abs", <<Path(<<Here>>)>>))>>),
    Call("abs", <<Call("sum", <<Lit(Ints(<<-4, 1>>))>>)>>),
    Call("length", <<Call("keys", <<Path(<<Here>>)>>)>>),
    Call("value", <<Lit(Ints(<<1>>)), Lit(Int_(4))>>),
    BinaryOf("eq_op", Path(<<Field(A), Index(0)>>), Lit(Null)),
    BinaryOf("plus_op", Path(<<Field(B), Field(B)>>), Lit(Int_(2))),
    Not(Path(<<Field(B)>>)), Lit(Null), Path(<<Values_, Named>>), Path(<<List, Both>>),
    Bad("unexpected_end_of_input"), Bad("invalid_arity")>>

Programs(texts, docs, uses, max_calls, depth) ==
  [n \in DOMAIN texts |->
     [text |-> texts[n], docs |-> docs, uses |-> uses, calls |-> max_calls, depth |-> depth]]

FunctionTexts == OneArgument \o TwoArguments \o CallBacks

(* The calls of evaluate_tokens are watched at each depth that they come to. *)
ProgramsInTurn ==
  Programs(PathTexts, {1, 2}, {"search"}, 1, 1)
  \o Programs(BinaryTexts, {4}, {"search"}, 1, 1)
  \o Programs(FunctionTexts, {4}, {"search"}, 1, 2)
  \o Programs(Troubles, {1, 3, 4}, EntryPoints, 2, 1)
  \o Programs(Troubles, {4}, EntryPoints, 2, 2)
  \o Programs(Troubles, {4}, {"search", "evaluate_ec"}, 2, 3)
(* `\o` makes TLC write the sequence out, once. *)
AllSources == <<>> \o ProgramsInTurn
=============================================================================
