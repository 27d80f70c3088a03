------------------------- MODULE MCDeferredSources -------------------------
(* Small instances of DeferredSources for TLC.                             *)
EXTENDS DeferredSources
CONSTANTS a, b, c

\* a has a paged walk and two chunks, b one slice and no eligible campaign, c defers nothing.
Walks == [x \in Accounts |-> IF x = b THEN 1 ELSE 2]
Eligible == [x \in Deferring |-> IF x = a THEN {1, 2} ELSE {}]
=============================================================================
