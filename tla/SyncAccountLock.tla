--------------------------- MODULE SyncAccountLock ---------------------------
(***************************************************************************)
(* One account's lock key (jobs/syncAccountLock.service.js): explicit lock *)
(* rows taken by acquire, unit rows taken by claimUnit, and their leases.  *)
(* A row is stamped before it is written, and the earliest live stamp is   *)
(* the winner.  One step is one statement, or the reading of the clock.    *)
(***************************************************************************)
EXTENDS Naturals, Sequences, FiniteSets

CONSTANTS
    Callers,    \* invocations that want the key, reused one after the other
    Claimers,   \* those among them that claim a unit instead of a lock row
    Renewers,   \* explicit holders that renew their lease
    Capped      \* hosting ends an invocation before its lease can lapse

ASSUME LockAssumption ==
    /\ Claimers \subseteq Callers /\ Renewers \subseteq Callers \ Claimers
    /\ Capped \in BOOLEAN

VARIABLES
    pc,     \* where each caller is
    order,  \* the callers with a stamp, earliest first
    row,    \* callers whose row is RUNNING in its lease
    raced   \* history: who was between its look and its write when a caller looked

vars == <<pc, order, row, raced>>

\* The steps of a caller whose row is written.
Written == {"written", "losing", "holding", "dead"}

TypeOK ==
    /\ pc \in [Callers -> {"idle", "looked", "stamped"} \cup Written]
    /\ order \in Seq(Callers) /\ (\A i, j \in 1 .. Len(order) : order[i] = order[j] => i = j)
    /\ row \subseteq Callers
    /\ raced \in [Callers -> SUBSET Callers]

Init ==
    /\ pc = [c \in Callers |-> "idle"] /\ order = <<>> /\ row = {}
    /\ raced = [c \in Callers |-> {}]

Without(s, c) == SelectSeq(s, LAMBDA d : d # c)

\* #liveWhere: the rows that every look at the key finds.
Live == row

\* Mutant: the re-read leaves the caller's own row out.
WinsAlone(c) == Live \subseteq {c}

\* findHolder after the write: no live row is earlier than the caller's.
Wins(c) ==
    \A d \in Live \ {c} : \E i, j \in 1 .. Len(order) : i < j /\ order[i] = c /\ order[j] = d

\* Mutant: acquire does not look before it writes.
LookBlindly(c) ==
    /\ pc[c] = "idle"
    /\ pc' = [pc EXCEPT ![c] = "looked"]
    /\ raced' = [raced EXCEPT ![c] = {d \in Callers : pc[d] \in {"looked", "stamped"}}]
    /\ UNCHANGED <<order, row>>

\* acquire, claimUnit: a key with a live holder is refused.
Look(c) ==
    /\ pc[c] = "idle" /\ Live = {}
    /\ pc' = [pc EXCEPT ![c] = "looked"]
    /\ raced' = [raced EXCEPT ![c] = {d \in Callers : pc[d] \in {"looked", "stamped"}}]
    /\ UNCHANGED <<order, row>>

Stamp(c) ==
    /\ pc[c] = "looked"
    /\ pc' = [pc EXCEPT ![c] = "stamped"]
    /\ order' = Append(order, c)
    /\ UNCHANGED <<row, raced>>

\* acquire creates its row and re-reads; claimUnit's update is its last statement.
Write(c) ==
    /\ pc[c] = "stamped"
    /\ pc' = [pc EXCEPT ![c] = IF c \in Claimers THEN "holding" ELSE "written"]
    /\ row' = row \cup {c}
    /\ UNCHANGED <<order, raced>>

Verify(c) ==
    /\ pc[c] = "written"
    /\ pc' = [pc EXCEPT ![c] = IF Wins(c) THEN "holding" ELSE "losing"]
    /\ UNCHANGED <<order, row, raced>>

\* Mutant: a renewed row keeps its old stamp as well.
RenewTwice(c) ==
    /\ pc[c] = "holding" /\ c \in Renewers
    /\ order' = Append(order, c)
    /\ row' = row \cup {c}
    /\ UNCHANGED <<pc, raced>>

\* renew: the row is stamped anew.
Renew(c) ==
    /\ pc[c] = "holding" /\ c \in Renewers
    /\ order' = Append(Without(order, c), c)
    /\ row' = row \cup {c}
    /\ UNCHANGED <<pc, raced>>

\* Nothing is left of the caller's attempt.
Over(c) ==
    /\ pc' = [pc EXCEPT ![c] = "idle"]
    /\ order' = Without(order, c)
    /\ row' = row \ {c}
    /\ raced' = [d \in Callers |-> IF d = c THEN {} ELSE raced[d] \ {c}]

\* release: the loser's row is cancelled, the holder's completed or failed.
Release(c) == pc[c] \in {"losing", "holding"} /\ Over(c)

\* The invocation is killed; a row that it wrote stays.
Die(c) ==
    /\ pc[c] \notin {"idle", "dead"}
    /\ IF c \in row THEN pc' = [pc EXCEPT ![c] = "dead"] /\ UNCHANGED <<order, row, raced>>
       ELSE Over(c)

\* The lease of a row runs out: with capped hosting, only after its caller is gone.
Lapse(c) ==
    /\ c \in row /\ (Capped => pc[c] = "dead")
    /\ IF pc[c] = "dead" THEN Over(c)
       ELSE row' = row \ {c} /\ UNCHANGED <<pc, order, raced>>

CallerStep(c) ==
    Look(c) \/ Stamp(c) \/ Write(c) \/ Verify(c) \/ Renew(c) \/ Release(c)

Next == \E c \in Callers : CallerStep(c) \/ Die(c) \/ Lapse(c)

Spec == Init /\ [][Next]_vars

(* Explicit callers come back for ever; units are claimed only as long as there are some. *)
(* Whoever has started goes on unless it is killed; the lease of a row nobody renews runs *)
(* out.  A caller that finds the key free again and again takes it.                       *)
FairSpec ==
    /\ Spec
    /\ \A c \in Callers \ Claimers : SF_vars(Look(c))
    /\ \A c \in Callers :
        /\ WF_vars(Stamp(c)) /\ WF_vars(Write(c)) /\ WF_vars(Verify(c))
        /\ WF_vars(Release(c)) /\ WF_vars(pc[c] = "dead" /\ Lapse(c))

-----------------------------------------------------------------------------
(* Properties.                                                             *)

Holding(c) == pc[c] = "holding"

\* "A live claim is never stolen" (the lease, findHolder): two callers hold the key at once
\* only if one of them looked while the other was between its own look and its write.
NeverStolen ==
    \A c, d \in Callers :
        c # d /\ Holding(c) /\ Holding(d) => c \in raced[d] \/ d \in raced[c]

\* A refusal is another caller's turn (acquire's re-read, "a crashed or frozen holder is
\* reclaimable"): once callers are no longer killed and no units are claimed, one explicit
\* caller after the other gets the key.
KeyIsTaken ==
    <>[][\A c \in Callers : ~Die(c) /\ ~(c \in Claimers /\ Look(c))]_vars =>
        []<>(\E c \in Callers \ Claimers : Holding(c))
=============================================================================
