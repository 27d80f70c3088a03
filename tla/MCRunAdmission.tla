--------------------------- MODULE MCRunAdmission ---------------------------
(* Small instances of RunAdmission for TLC.                                *)
EXTENDS RunAdmission, TLC
CONSTANTS a, b, c, AwinOffers

Full == [fast |-> FALSE, promote |-> TRUE, scope |-> Estate]

Scoped == [Full EXCEPT !.scope = AwinOffers]
Fast == [Full EXCEPT !.fast = TRUE]

\* a and b ask for the same, c for something else: two requests for one source of one network
\* beside one for everything, and two for everything beside a fast one.
Beside == {[r \in Requests |-> IF r = c THEN Full ELSE Scoped],
           [r \in Requests |-> IF r = c THEN Fast ELSE Full]}

\* Requests that ask for the same and may be killed alike are interchangeable.
Alike == Permutations({a, b})
=============================================================================
