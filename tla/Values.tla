------------------------------- MODULE Values -------------------------------
(***************************************************************************)
(* What an evaluation hands on: JSON values, exceptions, errors, and the   *)
(* results of expressions.  A value is a pair of its kind and its content; *)
(* what is in an array, an object or a text is a matter of Json.           *)
(***************************************************************************)
EXTENDS Integers, Sequences

Null        == <<"null", 0>>
Bool(b)     == <<"bool", b>>
True        == Bool(TRUE)
False       == Bool(FALSE)
Int_(n)     == <<"int", n>>
String(s)   == <<"string", s>>
Array(s)    == <<"array", s>>
Object(f)   == <<"object", f>>

(* No value and no quotient: an exception on its way out, and its origin.  *)
Thrown(from) == <<"throws", "from", from>>
Throws == Thrown("conversion")

Kind(v)     == v[1]
IsThrown(v) == Kind(v) = "throws"
IsNull(v)   == Kind(v) = "null"
IsNumber(v) == Kind(v) \in {"int", "double"}
IsString(v) == Kind(v) = "string"
IsArray(v)  == Kind(v) = "array"
IsObject(v) == Kind(v) = "object"
Elements(v) == v[2]

(* A value is not told from a const pointer to it, unless it is null. *)
Pointed(v) == IF IsNull(v) THEN <<"null", v[2] + 1>> ELSE v

-----------------------------------------------------------------------------
(* What a function returns when it sets ec. *)
Error(code)  == <<"error", code>>
InvalidType  == Error("invalid_type")
InvalidArity == Error("invalid_arity")
IsError(r)   == Kind(r) = "error"

(* What an expression returns, and what it leaves in ec. *)
NoCode == "none"   \* ec is clear

Result(v, ec) == [val |-> v, ec |-> ec]

(* The class parameter: a value, or the expression of an argument. *)
ValueParameter(v)       == <<"value", v>>
ExpressionArgument(e)   == <<"expression", e>>
IsExpressionArgument(p) == Kind(p) = "expression"
ValueOf(p)              == p[2]   \* value()
=============================================================================
