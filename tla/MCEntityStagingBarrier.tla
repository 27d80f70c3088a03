----------------------- MODULE MCEntityStagingBarrier -----------------------
(* A small instance of EntityStagingBarrier for TLC.                       *)
EXTENDS EntityStagingBarrier
CONSTANTS s1, g1, g2, r1, r2

TwoRuns == [g \in {g1, g2} |-> IF g = g1 THEN r1 ELSE r2]
=============================================================================
