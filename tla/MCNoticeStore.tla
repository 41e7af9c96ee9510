----------------------------- MODULE MCNoticeStore -----------------------------
(***************************************************************************)
(* NoticeStore on small sets of identifiers for TLC.                       *)
(***************************************************************************)
EXTENDS NoticeStore, TLC

Symmetry ==
    Permutations(UserId) \cup Permutations(NoticeId) \cup Permutations(ReadId)
        \cup Permutations(Username) \cup Permutations(Text)

=============================================================================
