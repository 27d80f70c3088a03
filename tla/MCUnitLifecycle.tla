--------------------------- MODULE MCUnitLifecycle ---------------------------
(* Small instances of UnitLifecycle for TLC.                               *)
EXTENDS UnitLifecycle
CONSTANTS a, b

OneAccount == [u \in Units |-> "account"]
NoFollow == [u \in Units |-> 0]
PagedFollow == [u \in Units |-> IF u = 1 THEN 2 ELSE 0]
=============================================================================
