------------------------------- MODULE MCRecovery -------------------------------
(***************************************************************************)
(* Recovery on small sets of identifiers for TLC.                          *)
(***************************************************************************)
EXTENDS Recovery, TLC

Symmetry == Permutations(UserId) \cup Permutations(NoticeId)

=============================================================================
