---------------------------- MODULE TokenUnionMC ----------------------------
(***************************************************************************)
(* Values for the constants of TokenUnion: the three kinds that own        *)
(* something, and two that stand for all that do not.                      *)
(***************************************************************************)
EXTENDS TokenUnion

SomeKinds == Owning \cup {"current_node", "binary_operator"}
=============================================================================
