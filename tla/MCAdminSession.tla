---------------------------- MODULE MCAdminSession ----------------------------
(***************************************************************************)
(* AdminSession with tokens and requests that are interchangeable.         *)
(***************************************************************************)
EXTENDS AdminSession, TLC

Symmetry == Permutations(Token) \cup Permutations(Request)
=============================================================================
