---------------------------- MODULE TokenValues -----------------------------
(***************************************************************************)
(* What the compiler relies on: a token is a value.  A place holds no      *)
(* token, or one, which is its kind and what it owns.  What a token owns   *)
(* goes where it is moved to, and exists as long as a token owns it.       *)
(***************************************************************************)
CONSTANTS
  Places,     \* where a token may be: variables and elements of vectors
  Kinds,      \* the token_kinds
  Objects,    \* what a token may own: expressions, texts, JSON values
  Nothing     \* what is left in a token that was moved from, or owns nothing

VARIABLES
  value,      \* the token in each place
  live        \* the objects that exist

vars == <<value, live>>

NoToken == [kind |-> Nothing, owns |-> Nothing]

Tokens == {NoToken} \cup [kind : Kinds, owns : Objects \cup {Nothing}]

Owned(contents) == {contents[p].owns : p \in Places} \ {Nothing}

(* The tokens of the places in ps become others; what is left ownerless is *)
(* destroyed.                                                              *)
Become(ps, contents) ==
  /\ value' \in [Places -> Tokens]
  /\ \A p \in Places \ ps : value'[p] = value[p]
  /\ contents
  /\ live' = Owned(value')

Init == value = [p \in Places |-> NoToken] /\ live = {}

create(p) ==
  /\ value[p] = NoToken
  /\ Become({p}, value'[p] # NoToken /\ value'[p].owns \notin live)

(* The source keeps its kind and, unless it is assigned to a token of that *)
(* kind, nothing else.                                                     *)
move(p, q) ==
  /\ p # q /\ value[q] # NoToken
  /\ Become({p, q}, /\ value'[p] = value[q]
                    /\ value'[q].kind = value[q].kind
                    /\ value'[q].owns \in
                         IF value[p].kind = value[q].kind THEN {Nothing, value[p].owns}
                         ELSE {Nothing})

end(p) == value[p] # NoToken /\ Become({p}, value'[p] = NoToken)

(* What the token in q owns becomes a part of what that in p owns. *)
give(p, q) ==
  /\ p # q /\ Nothing \notin {value[p].owns, value[q].owns}
  /\ Become({q}, value'[q] = [kind |-> value[q].kind, owns |-> Nothing])

(* The tokens in qs become part of something new, which a token in p owns. *)
capture(p, qs) ==
  /\ p \notin qs /\ value[p] = NoToken
  /\ Become({p} \cup qs, /\ value'[p].owns \notin live \cup {Nothing}
                         /\ \A q \in qs : value'[q] = NoToken)

Next ==
  \/ \E p \in Places : create(p) \/ end(p)
  \/ \E p, q \in Places : move(p, q) \/ give(p, q)
  \/ \E p \in Places, qs \in SUBSET Places : capture(p, qs)

Spec == Init /\ [][Next]_vars
=============================================================================
