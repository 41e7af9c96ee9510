---------------------------- MODULE MCNoticeService ----------------------------
(***************************************************************************)
(* NoticeService on small sets of identifiers for TLC.                     *)
(***************************************************************************)
EXTENDS NoticeService, Canonical

IdleHandlers == {h \in Handler : job[h] = Idle}
FreeNames == Username \ DOMAIN username

\* Names free again leave no trace, and until the first notice texts do not.
Ordered ==
    /\ UsedInOrder(<<"u1", "u2">>, issued')
    /\ UsedInOrder(<<"r1", "r2">>, issued')
    /\ FirstIdleTakesIt(<<"alice", "bob">>, FreeNames, FreeNames')
    /\ FirstIdleTakesIt(<<"h1", "h2">>, IdleHandlers, IdleHandlers')
    /\ \A n \in DOMAIN notices' : issued \cap NoticeId = {} => notices'[n].text = "x"

=============================================================================
