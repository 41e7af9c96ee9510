------------------------------ MODULE DurableStore ------------------------------
(***************************************************************************)
(* What persistence promises, whatever locks, copies and files it takes:   *)
(* a data file that only gains writes, never more of them than memory has, *)
(* and that holds the whole of every write acknowledged, so that the death *)
(* of the process takes memory back to a state with all of these in it.    *)
(*                                                                         *)
(* A write is a number and the set of tables it changes; a table is the    *)
(* set of writes it shows.  FileStore implements this specification.       *)
(***************************************************************************)
EXTENDS Naturals, Sequences

CONSTANTS
    Table,
    Effects        \* the sets of tables a write may change

VARIABLES
    touched,       \* write -> the tables it changed
    mem,           \* what a reader finds, now or after the next start
    disk,          \* what the death of the process leaves
    acked          \* the writes acknowledged as saved

durableVars == <<touched, mem, disk, acked>>

Nothing == [t \in Table |-> {}]

DurableInit ==
    /\ touched = <<>>
    /\ mem = Nothing /\ disk = Nothing
    /\ acked = {}

Within(small, large) == \A t \in Table : small[t] \subseteq large[t]

Holds(tables, w) == \A t \in touched[w] : w \in tables[t]

\* A write shows in memory at once, in all the tables it changes.
Record(tables) ==
    /\ touched' = Append(touched, tables)
    /\ mem' = [t \in Table |-> IF t \in tables THEN mem[t] \cup {Len(touched')} ELSE mem[t]]
    /\ UNCHANGED <<disk, acked>>

\* A save may leave writes out, or part of one, but none it has acknowledged.
\* The one that stops the process leaves readers with what the file holds.
Save ==
    /\ UNCHANGED touched
    /\ Within(disk, disk') /\ Within(disk', mem)
    /\ acked \subseteq acked' /\ acked' \subseteq DOMAIN touched
    /\ \A w \in acked' : Holds(disk', w)
    /\ mem' \in {mem, disk'}

\* The process ends, in good order or not.
Crash ==
    /\ mem' = disk
    /\ UNCHANGED <<touched, disk, acked>>

DurableNext == (\E tables \in Effects : Record(tables)) \/ Save \/ Crash

DurableSpec == DurableInit /\ [][DurableNext]_durableVars

=============================================================================
