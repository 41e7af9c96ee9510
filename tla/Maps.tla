---------------------------------- MODULE Maps ----------------------------------
(***************************************************************************)
(* Go maps: a map is a function whose DOMAIN is the set of its keys.       *)
(***************************************************************************)
EXTENDS Functions

EmptyMap == [x \in {} |-> x]

\* The map m after m[k] = v.
Put(m, k, v) == [x \in DOMAIN m \cup {k} |-> IF x = k THEN v ELSE m[x]]

\* The map m after delete(m, k) for every k in gone.
Drop(m, gone) == Restrict(m, DOMAIN m \ gone)

=============================================================================
