----------------------------- MODULE MCPostSync -----------------------------
(* Small instances of PostSync for TLC.                                    *)
EXTENDS PostSync, TLC
CONSTANTS a, b

OnePage == [k \in Kinds |-> 1]
TwoPages == [k \in Kinds |-> IF k \in {"awin", "campaign"} THEN 2 ELSE 1]
Symmetry == Permutations(Workers)
Backfill == [units |-> {<<"campaign", "n", 1>>}, crew |-> Workers, faults |-> 1]
Fetch == [units |-> {<<"network", n, 1>> : n \in Networks}, crew |-> {a}, faults |-> 3]

\* Two workers on a run planned with a campaign walk, and one on a run that fetches first.
Both == {Backfill, Fetch}
OnlyBackfill == {[Backfill EXCEPT !.faults = 0]}
=============================================================================
