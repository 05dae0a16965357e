-------------------------- MODULE TokenUnionProofs ---------------------------
(***************************************************************************)
(* TokenUnion for any places, objects and token kinds: a token always has  *)
(* the member that type_ names, every object has one owner, and tokens in  *)
(* memory are values.                                                      *)
(*                                                                         *)
(* TypeOK /\ OneOwner is inductive.  OneOwner needs TypeOK: a place with   *)
(* no token owns nothing, because what owns something has a kind that is   *)
(* Owning.                                                                 *)
(***************************************************************************)
EXTENDS TokenUnion, TLAPS

USE UnionAssumption

(* Only tokens of the owning kinds have a member with a destructor. *)
LEMMA MemberIsOfKind == MemberOf(Nothing) = Nothing
  BY DEF MemberOf, Owning

(* What a constructor takes for a kind is an object that is not allocated,  *)
(* or nothing.                                                             *)
LEMMA FreshObjects ==
  ASSUME NEW kind \in Kinds, NEW o \in Fresh(kind)
  PROVE  /\ o \in Objects \cup {Nothing}
         /\ o # Nothing => o \notin heap /\ kind \in Owning
         /\ kind = "expression" => o # Nothing
  BY DEF Fresh, Owning

LEMMA InitSound == Init => TypeOK /\ OneOwner
  <1> SUFFICES ASSUME Init PROVE TypeOK /\ OneOwner  OBVIOUS
  <1>1. TypeOK  BY MemberIsOfKind DEF Init, TypeOK
  <1>2. OneOwner  BY DEF Init, OneOwner
  <1> QED BY <1>1, <1>2

(***************************************************************************)
(* Each member function keeps the invariant.                               *)
(***************************************************************************)
LEMMA TokenStep ==
  ASSUME TypeOK, OneOwner, NEW p \in Places, NEW kind \in Kinds, token(p, kind)
  PROVE  TypeOK' /\ OneOwner'
  <1>1. PICK o \in Fresh(kind) : /\ owns' = [owns EXCEPT ![p] = o]
                                 /\ heap' = heap \cup ({o} \ {Nothing})
    BY DEF token
  <1>2. /\ type_' = [type_ EXCEPT ![p] = kind]
        /\ member' = [member EXCEPT ![p] = MemberOf(kind)]
        /\ type_[p] = Nothing
    BY DEF token, IsToken
  <1>3. owns[p] = Nothing  BY <1>2 DEF OneOwner, Owning
  <1>4. TypeOK'  BY <1>1, <1>2, FreshObjects DEF TypeOK
  <1>5. OneOwner'  BY <1>1, <1>2, <1>3, FreshObjects DEF TypeOK, OneOwner
  <1> QED BY <1>4, <1>5

(* construct where there was no token, or where destroy has freed what the  *)
(* token owned.                                                            *)
LEMMA ConstructStep ==
  ASSUME TypeOK, OneOwner, NEW p \in Places, NEW q \in Places, p # q, IsToken(q),
         construct(p, q, destroyed(p))
  PROVE  TypeOK' /\ OneOwner'
  <1>1. TypeOK'  BY DEF construct, destroyed, TypeOK, IsToken
  <1>2. OneOwner'  BY DEF construct, destroyed, TypeOK, OneOwner, IsToken, Owning
  <1> QED BY <1>1, <1>2

(* A raw place owns nothing, so that nothing had to be destroyed there. *)
LEMMA RawConstruct ==
  ASSUME TypeOK, OneOwner, NEW p \in Places, NEW q \in Places, move_construct(p, q)
  PROVE  p # q /\ IsToken(q) /\ construct(p, q, destroyed(p))
  <1>1. type_[p] = Nothing /\ type_[q] # Nothing  BY DEF move_construct, IsToken
  <1>2. owns[p] = Nothing  BY <1>1 DEF OneOwner, Owning
  <1>3. heap \ {} = heap \ destroyed(p)  BY <1>2 DEF destroyed, TypeOK
  <1> QED BY <1>1, <1>3 DEF move_construct, construct, IsToken

LEMMA AssignMemberStep ==
  ASSUME TypeOK, OneOwner, NEW p \in Places, NEW q \in Places, p # q,
         type_[p] = type_[q], assign_member(p, q)
  PROVE  TypeOK' /\ OneOwner'
  <1>1. TypeOK'  BY DEF assign_member, destroyed, TypeOK
  <1>2. OneOwner'  BY DEF assign_member, destroyed, TypeOK, OneOwner
  <1> QED BY <1>1, <1>2

LEMMA MoveAssignStep ==
  ASSUME TypeOK, OneOwner, NEW p \in Places, NEW q \in Places, move_assign(p, q)
  PROVE  TypeOK' /\ OneOwner'
  <1>1. CASE p = q
    BY <1>1 DEF move_assign, vars, TypeOK, OneOwner
  <1>2. CASE p # q /\ type_[p] = type_[q]
    BY <1>2, AssignMemberStep DEF move_assign
  <1>3. CASE p # q /\ type_[p] # type_[q]
    BY <1>3, ConstructStep DEF move_assign
  <1> QED BY <1>1, <1>2, <1>3

LEMMA DestructorStep ==
  ASSUME TypeOK, OneOwner, NEW p \in Places, destructor(p)
  PROVE  TypeOK' /\ OneOwner'
  <1>1. TypeOK'  BY MemberIsOfKind DEF destructor, destroyed, TypeOK
  <1>2. OneOwner'  BY DEF destructor, destroyed, TypeOK, OneOwner
  <1> QED BY <1>1, <1>2

LEMMA AddExpressionStep ==
  ASSUME TypeOK, OneOwner, NEW p \in Places, NEW q \in Places, add_expression(p, q)
  PROVE  TypeOK' /\ OneOwner'
  <1>1. TypeOK'  BY DEF add_expression, TypeOK
  <1>2. OneOwner'  BY DEF add_expression, TypeOK, OneOwner
  <1> QED BY <1>1, <1>2

LEMMA MakeExpressionStep ==
  ASSUME TypeOK, OneOwner, NEW p \in Places, NEW qs \in SUBSET Places,
         make_expression(p, qs)
  PROVE  TypeOK' /\ OneOwner'
  <1>1. PICK o \in Objects \ heap :
          /\ owns' = [r \in Places |-> IF r = p THEN o ELSE IF r \in qs THEN Nothing ELSE owns[r]]
          /\ heap' = (heap \ {owns[q] : q \in qs}) \cup {o}
    BY DEF make_expression
  <1>2. /\ type_' = [r \in Places |-> IF r = p THEN "expression"
                                     ELSE IF r \in qs THEN Nothing ELSE type_[r]]
        /\ member' = [r \in Places |-> IF r = p THEN "expression_"
                                      ELSE IF r \in qs THEN Nothing ELSE member[r]]
        /\ p \notin qs /\ type_[p] = Nothing
    BY DEF make_expression, IsToken
  <1>3. TypeOK'
    <2>1. "expression" \in Kinds /\ MemberOf("expression") = "expression_"
      BY DEF Owning, MemberOf
    <2>2. member' = [r \in Places |-> MemberOf(type_'[r])]
      BY <1>2, <2>1, MemberIsOfKind DEF TypeOK
    <2> QED BY <1>1, <1>2, <2>1, <2>2 DEF TypeOK
  <1>4. OneOwner'
    <2>1. \A r \in Places : owns'[r] # Nothing => type_'[r] \in Owning
      BY <1>1, <1>2 DEF OneOwner, TypeOK, Owning
    <2>2. owns[p] = Nothing  BY <1>2 DEF OneOwner, Owning
    <2>3. \A r, s \in Places : owns'[r] = owns'[s] /\ owns'[r] # Nothing => r = s
      BY <1>1 DEF OneOwner, TypeOK
    <2>4. heap' = {owns'[r] : r \in Places} \ {Nothing}
      BY <1>1, <1>2, <2>2 DEF OneOwner, TypeOK
    <2> QED BY <2>1, <2>3, <2>4 DEF OneOwner
  <1> QED BY <1>3, <1>4

LEMMA NextSound == TypeOK /\ OneOwner /\ [Next]_vars => TypeOK' /\ OneOwner'
  <1> SUFFICES ASSUME TypeOK, OneOwner, [Next]_vars PROVE TypeOK' /\ OneOwner'
    OBVIOUS
  <1>1. ASSUME NEW p \in Places, NEW kind \in Kinds, token(p, kind)
        PROVE TypeOK' /\ OneOwner'
    BY <1>1, TokenStep
  <1>2. ASSUME NEW p \in Places, NEW q \in Places, move_construct(p, q)
        PROVE TypeOK' /\ OneOwner'
    BY <1>2, RawConstruct, ConstructStep
  <1>3. ASSUME NEW p \in Places, NEW q \in Places, move_assign(p, q)
        PROVE TypeOK' /\ OneOwner'
    BY <1>3, MoveAssignStep
  <1>4. ASSUME NEW p \in Places, destructor(p)
        PROVE TypeOK' /\ OneOwner'
    BY <1>4, DestructorStep
  <1>5. ASSUME NEW p \in Places, NEW q \in Places, add_expression(p, q)
        PROVE TypeOK' /\ OneOwner'
    BY <1>5, AddExpressionStep
  <1>6. ASSUME NEW p \in Places, NEW qs \in SUBSET Places, make_expression(p, qs)
        PROVE TypeOK' /\ OneOwner'
    BY <1>6, MakeExpressionStep
  <1>7. CASE UNCHANGED vars
    BY <1>7 DEF vars, TypeOK, OneOwner
  <1> QED BY <1>1, <1>2, <1>3, <1>4, <1>5, <1>6, <1>7 DEF Next

(***************************************************************************)
(* type_ always names the member that is alive: no member function reads   *)
(* or destroys another.                                                    *)
(***************************************************************************)
THEOREM TypeCorrect == Spec => []TypeOK
  <1>1. Spec => [](TypeOK /\ OneOwner)
    BY InitSound, NextSound, PTL DEF Spec
  <1> QED BY <1>1, PTL

(***************************************************************************)
(* However tokens are moved, assigned and ended, what they own has exactly *)
(* one owner: it is freed once, and when its owner ends.                   *)
(***************************************************************************)
THEOREM Ownership == Spec => []OneOwner
  <1>1. Spec => [](TypeOK /\ OneOwner)
    BY InitSound, NextSound, PTL DEF Spec
  <1> QED BY <1>1, PTL

-----------------------------------------------------------------------------
(***************************************************************************)
(* The refinement.  Places other than those that a member function works   *)
(* on keep their values, and the invariant of the next state says that     *)
(* what exists is what is owned: what is left is what the function does to *)
(* its own places.                                                         *)
(***************************************************************************)
ValueOf(p) == [kind |-> type_[p], owns |-> owns[p]]

Contents == [p \in Places |-> ValueOf(p)]

(* What has to be shown of a step that changes the places in ps. *)
LEMMA BecomeByPlaces ==
  ASSUME TypeOK', OneOwner', NEW ps \in SUBSET Places,
         \A r \in Places \ ps : type_'[r] = type_[r] /\ owns'[r] = owns[r]
  PROVE  /\ Contents' \in [Places -> Values!Tokens]
         /\ \A r \in Places \ ps : Contents'[r] = Contents[r]
         /\ heap' = Values!Owned(Contents')
  <1>1. ASSUME NEW p \in Places PROVE ValueOf(p)' \in Values!Tokens
    <2>1. CASE type_'[p] = Nothing
      BY <2>1 DEF OneOwner, Owning, ValueOf, Values!Tokens, Values!NoToken
    <2>2. CASE type_'[p] # Nothing
      BY <2>2 DEF TypeOK, ValueOf, Values!Tokens
    <2> QED BY <2>1, <2>2
  <1>2. Contents' \in [Places -> Values!Tokens]
    BY <1>1 DEF Contents
  <1>3. \A r \in Places \ ps : Contents'[r] = Contents[r]
    BY DEF Contents, ValueOf
  <1>4. heap' = Values!Owned(Contents')
    BY DEF OneOwner, Contents, ValueOf, Values!Owned
  <1> QED BY <1>2, <1>3, <1>4

LEMMA InitMaps == Init => Values!Init
  BY DEF Init, Values!Init, Values!NoToken

(* A new token. *)
LEMMA TokenMaps ==
  ASSUME TypeOK, OneOwner, TypeOK', OneOwner',
         NEW p \in Places, NEW kind \in Kinds, token(p, kind)
  PROVE  Values!create(p)
  <1>1. PICK o \in Fresh(kind) : owns' = [owns EXCEPT ![p] = o]
    BY DEF token
  <1>2. type_' = [type_ EXCEPT ![p] = kind] /\ type_[p] = Nothing
    BY DEF token, IsToken
  <1>3. \A r \in Places \ {p} : type_'[r] = type_[r] /\ owns'[r] = owns[r]
    BY <1>1, <1>2 DEF TypeOK
  <1>4. Contents[p] = Values!NoToken
    BY <1>2 DEF OneOwner, Owning, Contents, ValueOf, Values!NoToken
  <1>5. Contents'[p] = [kind |-> kind, owns |-> o]
    BY <1>1, <1>2 DEF TypeOK, Contents, ValueOf
  <1>6. Contents'[p] # Values!NoToken /\ Contents'[p].owns \notin heap
    BY <1>5, FreshObjects DEF Values!NoToken, TypeOK
  <1> QED BY <1>3, <1>4, <1>6, BecomeByPlaces
          DEF Values!create, Values!Become, Contents, ValueOf

(***************************************************************************)
(* A token taken by another: q keeps its kind, and what p had is freed, or  *)
(* handed to q where both are of one kind.                                 *)
(***************************************************************************)
LEMMA TakenMaps ==
  ASSUME TypeOK, OneOwner, TypeOK', OneOwner',
         NEW p \in Places, NEW q \in Places, p # q, IsToken(q),
         type_' = [type_ EXCEPT ![p] = type_[q]],
         NEW left \in Objects \cup {Nothing},
         owns' = [owns EXCEPT ![p] = owns[q], ![q] = left],
         left = Nothing \/ (left = owns[p] /\ type_[p] = type_[q])
  PROVE  Values!move(p, q)
  <1>1. \A r \in Places \ {p, q} : type_'[r] = type_[r] /\ owns'[r] = owns[r]
    BY DEF TypeOK
  <1>2. Contents[q] # Values!NoToken
    BY DEF IsToken, TypeOK, Contents, ValueOf, Values!NoToken
  <1>3. Contents'[p] = Contents[q]
    BY DEF TypeOK, Contents, ValueOf
  <1>4. /\ Contents'[q].kind = Contents[q].kind
        /\ Contents'[q].owns = left
        /\ Contents[p].kind = type_[p] /\ Contents[p].owns = owns[p]
        /\ Contents[q].kind = type_[q]
    BY DEF TypeOK, Contents, ValueOf
  <1>5. Contents'[q].owns \in IF Contents[p].kind = Contents[q].kind
                              THEN {Nothing, Contents[p].owns} ELSE {Nothing}
    BY <1>4
  <1>6. Values!Become({p, q}, TRUE)
    BY <1>1, BecomeByPlaces DEF Values!Become, Contents, ValueOf
  <1> QED BY <1>2, <1>3, <1>4, <1>5, <1>6
          DEF Values!move, Values!Become, Contents, ValueOf

LEMMA ConstructMaps ==
  ASSUME TypeOK, OneOwner, TypeOK', OneOwner',
         NEW p \in Places, NEW q \in Places, p # q, IsToken(q),
         construct(p, q, destroyed(p))
  PROVE  Values!move(p, q)
  BY TakenMaps DEF construct

LEMMA MoveAssignMaps ==
  ASSUME TypeOK, OneOwner, TypeOK', OneOwner',
         NEW p \in Places, NEW q \in Places, move_assign(p, q)
  PROVE  Values!move(p, q) \/ UNCHANGED vars
  <1>1. CASE p = q
    BY <1>1 DEF move_assign
  <1>2. CASE p # q /\ type_[p] # type_[q]
    BY <1>2, ConstructMaps DEF move_assign
  <1>3. CASE p # q /\ type_[p] = type_[q]
    <2>1. /\ assign_member(p, q) /\ IsToken(q)
          /\ type_' = [type_ EXCEPT ![p] = type_[q]]
      BY <1>3 DEF move_assign, assign_member, TypeOK
    <2>2. owns[p] \in Objects \cup {Nothing}
      BY DEF TypeOK
    <2>3. CASE owns' = [owns EXCEPT ![p] = owns[q], ![q] = Nothing]
      BY <1>3, <2>1, <2>3, TakenMaps
    <2>4. CASE owns' = [owns EXCEPT ![p] = owns[q], ![q] = owns[p]]
      BY <1>3, <2>1, <2>2, <2>4, TakenMaps
    <2> QED BY <2>1, <2>3, <2>4 DEF assign_member
  <1> QED BY <1>1, <1>2, <1>3

LEMMA DestructorMaps ==
  ASSUME TypeOK, OneOwner, TypeOK', OneOwner',
         NEW p \in Places, destructor(p)
  PROVE  Values!end(p)
  <1>1. \A r \in Places \ {p} : type_'[r] = type_[r] /\ owns'[r] = owns[r]
    BY DEF destructor, TypeOK
  <1>2. Contents[p] # Values!NoToken
    BY DEF destructor, IsToken, Contents, ValueOf, Values!NoToken
  <1>3. Contents'[p] = Values!NoToken
    BY DEF destructor, TypeOK, Contents, ValueOf, Values!NoToken
  <1> QED BY <1>1, <1>2, <1>3, BecomeByPlaces
          DEF Values!end, Values!Become, Contents, ValueOf

LEMMA AddExpressionMaps ==
  ASSUME TypeOK, OneOwner, TypeOK', OneOwner',
         NEW p \in Places, NEW q \in Places, add_expression(p, q)
  PROVE  Values!give(p, q)
  <1>1. \A r \in Places \ {q} : type_'[r] = type_[r] /\ owns'[r] = owns[r]
    BY DEF add_expression, TypeOK
  <1>2. p # q /\ Nothing \notin {Contents[p].owns, Contents[q].owns}
    BY DEF add_expression, HasExpression, Contents, ValueOf
  <1>3. Contents'[q] = [kind |-> Contents[q].kind, owns |-> Nothing]
    BY DEF add_expression, TypeOK, Contents, ValueOf
  <1> QED BY <1>1, <1>2, <1>3, BecomeByPlaces
          DEF Values!give, Values!Become, Contents, ValueOf

LEMMA MakeExpressionMaps ==
  ASSUME TypeOK, OneOwner, TypeOK', OneOwner',
         NEW p \in Places, NEW qs \in SUBSET Places, make_expression(p, qs)
  PROVE  Values!capture(p, qs)
  <1>1. PICK o \in Objects \ heap :
          owns' = [r \in Places |-> IF r = p THEN o ELSE IF r \in qs THEN Nothing ELSE owns[r]]
    BY DEF make_expression
  <1>2. /\ type_' = [r \in Places |-> IF r = p THEN "expression"
                                     ELSE IF r \in qs THEN Nothing ELSE type_[r]]
        /\ p \notin qs /\ type_[p] = Nothing
    BY DEF make_expression, IsToken
  <1>3. \A r \in Places \ ({p} \cup qs) : type_'[r] = type_[r] /\ owns'[r] = owns[r]
    BY <1>1, <1>2
  <1>4. Contents[p] = Values!NoToken
    BY <1>2 DEF OneOwner, Owning, Contents, ValueOf, Values!NoToken
  <1>5. Contents'[p].owns = o
    BY <1>1 DEF Contents, ValueOf
  <1>6. \A q \in qs : Contents'[q] = Values!NoToken
    BY <1>1, <1>2 DEF Contents, ValueOf, Values!NoToken
  <1> QED BY <1>2, <1>3, <1>4, <1>5, <1>6, BecomeByPlaces
          DEF Values!capture, Values!Become, Contents, ValueOf

LEMMA StepMaps ==
  TypeOK /\ OneOwner /\ TypeOK' /\ OneOwner' /\ [Next]_vars => [Values!Next]_(Values!vars)
  <1> SUFFICES ASSUME TypeOK, OneOwner, TypeOK', OneOwner', [Next]_vars
               PROVE  Values!Next \/ UNCHANGED Values!vars
    OBVIOUS
  <1>0. UNCHANGED vars => UNCHANGED Values!vars
    BY DEF vars, Values!vars
  <1>1. ASSUME NEW p \in Places, NEW kind \in Kinds, token(p, kind)
        PROVE Values!Next
    BY <1>1, TokenMaps DEF Values!Next
  <1>2. ASSUME NEW p \in Places, NEW q \in Places, move_construct(p, q)
        PROVE Values!Next
    BY <1>2, RawConstruct, ConstructMaps DEF Values!Next
  <1>3. ASSUME NEW p \in Places, NEW q \in Places, move_assign(p, q)
        PROVE Values!Next \/ UNCHANGED Values!vars
    BY <1>0, <1>3, MoveAssignMaps DEF Values!Next
  <1>4. ASSUME NEW p \in Places, destructor(p)
        PROVE Values!Next
    BY <1>4, DestructorMaps DEF Values!Next
  <1>5. ASSUME NEW p \in Places, NEW q \in Places, add_expression(p, q)
        PROVE Values!Next
    BY <1>5, AddExpressionMaps DEF Values!Next
  <1>6. ASSUME NEW p \in Places, NEW qs \in SUBSET Places, make_expression(p, qs)
        PROVE Values!Next
    BY <1>6, MakeExpressionMaps DEF Values!Next
  <1> QED BY <1>0, <1>1, <1>2, <1>3, <1>4, <1>5, <1>6 DEF Next

(***************************************************************************)
(* Tokens in memory are values: each member function, and each use of the  *)
(* class in push_token, is a step of TokenValues or changes no value.      *)
(***************************************************************************)
THEOREM TokensAreValues == Spec => Implements
  <1>1. Spec => [](TypeOK /\ OneOwner)
    BY InitSound, NextSound, PTL DEF Spec
  <1> QED BY <1>1, InitMaps, StepMaps, PTL DEF Spec, Implements, Values!Spec
=============================================================================
