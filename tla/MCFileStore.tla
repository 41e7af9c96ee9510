------------------------------ MODULE MCFileStore ------------------------------
(***************************************************************************)
(* FileStore with two handlers for TLC.                                    *)
(***************************************************************************)
EXTENDS FileStore, Canonical

IdleHandlers == {h \in Handler : At(h, "idle")}

Ordered == FirstIdleTakesIt(<<"h1", "h2">>, IdleHandlers, IdleHandlers')

=============================================================================
