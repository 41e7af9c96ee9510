---------------------------- MODULE MCSessionManager ----------------------------
(***************************************************************************)
(* SessionManager on small sets for TLC.                                   *)
(***************************************************************************)
EXTENDS SessionManager, TLC

Symmetry == Permutations(UserId) \cup Permutations(Token)

=============================================================================
