----------------------------- MODULE MCAuthService -----------------------------
(***************************************************************************)
(* AuthService on small sets for TLC.  The store has no notices here.      *)
(***************************************************************************)
EXTENDS AuthService, Canonical

IdleHandlers == {h \in Handler : job[h] = Idle}

Ordered ==
    /\ UsedInOrder(<<"u1", "u2", "u3">>, issued')
    /\ UsedInOrder(<<"t1", "t2", "t3">>, minted')
    /\ FirstIdleTakesIt(<<"h1", "h2", "h3">>, IdleHandlers, IdleHandlers')

=============================================================================
