-------------------------------- MODULE Canonical --------------------------------
(***************************************************************************)
(* Choosing one behaviour of many that differ in names only, for TLC.      *)
(* Identifiers, tokens and handlers are alike, so that any behaviour is    *)
(* the renaming of one in which they are used in a fixed order, and what   *)
(* holds of that one, liveness included, holds of the other.  (A SYMMETRY  *)
(* set would do for safety only.)                                          *)
(***************************************************************************)
EXTENDS Naturals, Sequences

\* Of order, a sequence of names, the set used holds a first part.
UsedInOrder(order, used) ==
    \A i \in 1 .. Len(order) - 1 : order[i + 1] \in used => order[i] \in used

\* Of the names that are idle the first is the first to stop being so.
FirstIdleTakesIt(order, idle, idleNext) ==
    \A i, j \in 1 .. Len(order) :
        i < j /\ order[i] \in idle /\ order[j] \in idle => order[j] \in idleNext

=============================================================================
