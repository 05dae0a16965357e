----------------------------- MODULE TokenUnion -----------------------------
(***************************************************************************)
(* The token of the compiler as it is in memory: type_ and a union, whose  *)
(* members the class constructs and destroys itself.                       *)
(*                                                                         *)
(* A place is where a token may be: a variable, an argument, an element    *)
(* of a vector.  Any token may be moved to any place in any order: the     *)
(* vectors of the compiler, std::swap and std::reverse only move tokens    *)
(* and end them.  An object is what a member owns, an expression with all  *)
(* that hangs on it, or the contents of a text or a JSON value.            *)
(***************************************************************************)
CONSTANTS
  Places,
  Kinds,      \* the token_kinds
  Objects,
  Nothing     \* no token, no member, a null pointer, or nothing on the heap

Owning == {"expression", "key", "literal"}

ASSUME UnionAssumption ==
  /\ Owning \subseteq Kinds
  /\ Nothing \notin Kinds \cup Objects \cup {"expression_", "key_", "value_"}

VARIABLES
  type_,     \* Nothing where there is no token
  member,    \* the member of the union that is alive, if it has a destructor
  owns,      \* what that member owns
  heap       \* the objects that are allocated

vars == <<type_, member, owns, heap>>

MemberOf(kind) ==
  CASE kind = "expression" -> "expression_"
    [] kind = "key"        -> "key_"
    [] kind = "literal"    -> "value_"
    [] OTHER               -> Nothing

IsToken(p) == type_[p] # Nothing

Init ==
  /\ type_  = [p \in Places |-> Nothing]
  /\ member = [p \in Places |-> Nothing]
  /\ owns   = [p \in Places |-> Nothing]
  /\ heap   = {}

-----------------------------------------------------------------------------
(* The constructors from a tag, a pointer, a text, a value, an expression.  *)
(* A small text or value owns nothing, an expression is never null.        *)
Fresh(kind) ==
  CASE kind = "expression"       -> Objects \ heap
    [] kind \in {"key", "literal"} -> (Objects \ heap) \cup {Nothing}
    [] OTHER                     -> {Nothing}

token(p, kind) ==
  /\ ~IsToken(p)
  /\ \E o \in Fresh(kind) :
       /\ owns' = [owns EXCEPT ![p] = o]
       /\ heap' = heap \cup ({o} \ {Nothing})
  /\ type_'  = [type_ EXCEPT ![p] = kind]
  /\ member' = [member EXCEPT ![p] = MemberOf(kind)]

KeepsType(p, q, kept) ==   \* mutant: type_ is not taken over
  /\ type_'  = [type_ EXCEPT ![p] = IF IsToken(p) THEN @ ELSE "current_node"]
  /\ member' = [member EXCEPT ![p] = MemberOf(type_[q])]
  /\ owns'   = [owns EXCEPT ![p] = owns[q], ![q] = Nothing]
  /\ heap'   = heap \ kept

(***************************************************************************)
(* construct: the union at p is raw memory.  A member is alive afterwards  *)
(* if the other token has one, and has taken what that owned.  `freed` is  *)
(* what a call of destroy before it has freed.                             *)
(***************************************************************************)
construct(p, q, freed) ==
  /\ type_'  = [type_ EXCEPT ![p] = type_[q]]
  /\ member' = [member EXCEPT ![p] = MemberOf(type_[q])]
  /\ owns'   = [owns EXCEPT ![p] = owns[q], ![q] = Nothing]
  /\ heap'   = heap \ freed

(* destroy: what the destructor of the member that type_ names frees. *)
destroyed(p) == {owns[p]}

move_construct(p, q) ==
  /\ ~IsToken(p) /\ IsToken(q)
  /\ construct(p, q, {})

(***************************************************************************)
(* The members of two tokens of one kind are assigned.  A unique_ptr       *)
(* deletes what it had; a text or a JSON value may as well hand it to the  *)
(* other, depending on the library and on what both are.                   *)
(***************************************************************************)
assign_member(p, q) ==
  /\ \/ owns' = [owns EXCEPT ![p] = owns[q], ![q] = Nothing] /\ heap' = heap \ destroyed(p)
     \/ /\ type_[p] \in {"key", "literal"}
        /\ owns' = [owns EXCEPT ![p] = owns[q], ![q] = owns[p]] /\ heap' = heap
  /\ UNCHANGED <<type_, member>>

NeverDestroys(p, q) ==   \* mutant: what p was is overwritten
  /\ IsToken(p) /\ IsToken(q)
  /\ IF p = q THEN UNCHANGED vars
     ELSE IF type_[p] = type_[q] THEN assign_member(p, q)
     ELSE construct(p, q, {})

ConstructsFirst(p, q) ==   \* mutant: destroys what it has just constructed
  /\ IsToken(p) /\ IsToken(q)
  /\ IF p = q THEN UNCHANGED vars
     ELSE IF type_[p] = type_[q] THEN assign_member(p, q)
     ELSE construct(p, q, destroyed(q))

move_assign(p, q) ==
  /\ IsToken(p) /\ IsToken(q)
  /\ IF p = q THEN UNCHANGED vars
     ELSE IF type_[p] = type_[q] THEN assign_member(p, q)
     ELSE construct(p, q, destroyed(p))

destructor(p) ==
  /\ IsToken(p)
  /\ type_'  = [type_ EXCEPT ![p] = Nothing]
  /\ member' = [member EXCEPT ![p] = Nothing]
  /\ owns'   = [owns EXCEPT ![p] = Nothing]
  /\ heap'   = heap \ destroyed(p)

-----------------------------------------------------------------------------
(* What push_token does with the expressions of tokens.                    *)
HasExpression(p) == type_[p] = "expression" /\ owns[p] # Nothing

(* The expression of a token goes into the projection of another. *)
add_expression(p, q) ==
  /\ p # q /\ HasExpression(p) /\ HasExpression(q)
  /\ owns' = [owns EXCEPT ![q] = Nothing]
  /\ heap' = heap \ {owns[q]}
  /\ UNCHANGED <<type_, member>>

(* make_unique of a node for the tokens in qs: the node owns their vector. *)
make_expression(p, qs) ==
  /\ ~IsToken(p) /\ p \notin qs /\ \A q \in qs : IsToken(q)
  /\ \E o \in Objects \ heap :
       /\ owns' = [r \in Places |-> IF r = p THEN o ELSE IF r \in qs THEN Nothing ELSE owns[r]]
       /\ heap' = (heap \ {owns[q] : q \in qs}) \cup {o}
  /\ type_'  = [r \in Places |-> IF r = p THEN "expression"
                                 ELSE IF r \in qs THEN Nothing ELSE type_[r]]
  /\ member' = [r \in Places |-> IF r = p THEN "expression_"
                                 ELSE IF r \in qs THEN Nothing ELSE member[r]]

Next ==
  \/ \E p \in Places, kind \in Kinds : token(p, kind)
  \/ \E p, q \in Places : move_construct(p, q) \/ move_assign(p, q)
  \/ \E p \in Places : destructor(p)
  \/ \E p, q \in Places : add_expression(p, q)
  \/ \E p \in Places, qs \in SUBSET Places : make_expression(p, qs)

Spec == Init /\ [][Next]_vars

-----------------------------------------------------------------------------
(***************************************************************************)
(* Type correctness, and what makes reading the union safe: the member     *)
(* that is alive is the one that type_ names.                              *)
(***************************************************************************)
TypeOK ==
  /\ type_ \in [Places -> Kinds \cup {Nothing}]
  /\ owns \in [Places -> Objects \cup {Nothing}]
  /\ heap \subseteq Objects
  /\ member = [p \in Places |-> MemberOf(type_[p])]

(***************************************************************************)
(* Nothing is freed twice, used after it is freed, or lost: no two tokens  *)
(* own the same, what a token owns is allocated and all that is allocated  *)
(* is owned.                                                               *)
(***************************************************************************)
OneOwner ==
  /\ \A p, q \in Places : owns[p] = owns[q] /\ owns[p] # Nothing => p = q
  /\ heap = {owns[p] : p \in Places} \ {Nothing}
  /\ \A p \in Places : owns[p] # Nothing => type_[p] \in Owning

(* Tokens in memory are tokens as values. *)
Values == INSTANCE TokenValues WITH
  value <- [p \in Places |-> [kind |-> type_[p], owns |-> owns[p]]],
  live  <- heap

(***************************************************************************)
(* Whatever is moved where, with moves onto itself and onto another kind,  *)
(* the tokens are the values that TokenStacks takes them for.              *)
(***************************************************************************)
Implements == Values!Spec
=============================================================================
