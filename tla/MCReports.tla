------------------------------- MODULE MCReports -------------------------------
(***************************************************************************)
(* Reports on small sets of identifiers for TLC.                           *)
(***************************************************************************)
EXTENDS Reports

TextsAreNumbers == [t \in Text |-> t]

Symmetry ==
    Permutations(UserId) \cup Permutations(NoticeId)
        \cup Permutations(ReadId) \cup Permutations(Username)

=============================================================================
