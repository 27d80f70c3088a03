---------------------------- MODULE UnitLifecycle ----------------------------
(***************************************************************************)
(* The life of the units of one durable sync run: workers that select,     *)
(* claim, execute and settle units (triggerSyncWorker and the primitives   *)
(* of jobs/syncOrchestration.service.js), leases that lapse, and the       *)
(* administrative cancellation of the run.  The run asks for no post-sync  *)
(* stage, so it is finished when its units are.                            *)
(*                                                                         *)
(* One step is one database statement; the findUnique of claimUnit is      *)
(* taken together with its lock check.                                     *)
(***************************************************************************)
EXTENDS Naturals, FiniteSets

CONSTANTS
    Units,        \* unit identities, numbered by their sequence
    Planned,      \* the units createRun plans
    Follow,       \* the continuation a unit's success unlocks, 0 when there is none
    Key,          \* the lock key of each unit
    Workers,      \* worker invocations, reused one after the other
    MaxAttempts,
    Bounded,      \* hosting ends an invocation before its lease can lapse
    Freezable,    \* units whose staging another run's walk may refuse
    MayCancel     \* whether an operator may cancel the run

ASSUME UnitsAssumption ==
    /\ Units \subseteq Nat \ {0}
    /\ Planned \subseteq Units /\ Planned # {}
    /\ Follow \in [Units -> Units \cup {0}]
    /\ \A u \in Units : Follow[u] # 0 => Follow[u] > u
    /\ MaxAttempts \in Nat \ {0}
    /\ Bounded \in BOOLEAN /\ MayCancel \in BOOLEAN

VARIABLES
    run,      \* status of the parent row
    unit,     \* status of each unit row
    attempt,  \* its attempt counter
    owner,    \* result.claim.workerId: who claimed it last
    lapsed,   \* units whose startedAt is older than the lease
    pc,       \* where each worker is
    target,   \* the unit it works on
    memo,     \* what it read and will act on: a status it is about to write
    seen,     \* the attempt counter deferUnit read
    back,     \* where refreshRun returns to
    cutoff,   \* claimers whose staleBefore is later than the target's startedAt
    refreshLost \* history: an invocation was killed between an outcome and its refreshRun

unitVars == <<unit, attempt, owner, lapsed>>
localVars == <<target, memo, seen, back>>
vars == <<run, unitVars, pc, localVars, cutoff, refreshLost>>

Terminal == {"COMPLETED", "DEAD_LETTER", "CANCELLED"}
UnitStatus == {"absent", "PENDING", "RUNNING"} \cup Terminal
RefreshSteps == {"refresh", "refreshing", "refreshed"}
ExecuteSteps == {"working", "append", "create", "complete", "completing",
                 "fail", "failing", "defer", "deferring"}

TypeOK ==
    /\ run \in {"RUNNING", "COMPLETED", "FAILED", "CANCELLED"}
    /\ unit \in [Units -> UnitStatus]
    /\ attempt \in [Units -> Nat]
    /\ owner \in [Units -> Workers \cup {"nobody"}]
    /\ lapsed \subseteq Units
    /\ pc \in [Workers -> {"idle", "picked", "claiming", "abandoning"}
                            \cup ExecuteSteps \cup RefreshSteps]
    /\ target \in [Workers -> Units \cup {0}]
    /\ memo \in [Workers -> {"none", "active", "PENDING", "COMPLETED", "FAILED", "DEAD_LETTER"}]
    /\ seen \in [Workers -> Nat]
    /\ back \in [Workers -> {"idle", "complete"}]
    /\ cutoff \subseteq Workers
    /\ refreshLost \in BOOLEAN
    /\ \A w \in Workers : pc[w] # "idle" => target[w] \in Units

\* createRun: one transaction writes the parent and the planned units.
Init ==
    /\ run = "RUNNING"
    /\ unit = [u \in Units |-> IF u \in Planned THEN "PENDING" ELSE "absent"]
    /\ attempt = [u \in Units |-> 0]
    /\ owner = [u \in Units |-> "nobody"]
    /\ lapsed = {}
    /\ pc = [w \in Workers |-> "idle"]
    /\ target = [w \in Workers |-> 0]
    /\ memo = [w \in Workers |-> "none"]
    /\ seen = [w \in Workers |-> 0]
    /\ back = [w \in Workers |-> "idle"]
    /\ cutoff = {}
    /\ refreshLost = FALSE

-----------------------------------------------------------------------------

\* From the claim to the outcome's write.
Executing(w) ==
    pc[w] \in ExecuteSteps \/ (pc[w] \in RefreshSteps /\ back[w] = "complete")

\* Mutant: nextUnit does not offer units whose lease expired.
OfferedPendingOnly == {u \in Units : unit[u] = "PENDING"}

\* nextUnit: what the run has to offer.
Offered ==
    {u \in Units : unit[u] = "PENDING" \/ (unit[u] = "RUNNING" /\ u \in lapsed)}

\* lockHolder: another unit under the same key, RUNNING in its lease.
Holders(u) ==
    {v \in Units \ {u} : Key[v] = Key[u] /\ unit[v] = "RUNNING" /\ v \notin lapsed}

\* Mutant: summarizeUnits counts only the pending units as outstanding.
NonePending == \A u \in Units : unit[u] # "PENDING"

\* summarizeUnits: every unit that exists is settled.
Settled == \A u \in Units : unit[u] \in Terminal \cup {"absent"}
ProjectedStatus == IF \E u \in Units : unit[u] = "DEAD_LETTER" THEN "FAILED" ELSE "COMPLETED"

Goto(w, step) == pc' = [pc EXCEPT ![w] = step]

\* The invocation is over and forgets what it knew.
Return(w) ==
    /\ Goto(w, "idle")
    /\ target' = [target EXCEPT ![w] = 0]
    /\ memo' = [memo EXCEPT ![w] = "none"]
    /\ seen' = [seen EXCEPT ![w] = 0]
    /\ back' = [back EXCEPT ![w] = "idle"]
    /\ cutoff' = cutoff \ {w}

\* An outcome is on its row; the parent is refreshed next.
Refresh(w, then) ==
    /\ Goto(w, "refresh")
    /\ back' = [back EXCEPT ![w] = then]
    /\ memo' = [memo EXCEPT ![w] = "none"]
    /\ seen' = [seen EXCEPT ![w] = 0]
    /\ UNCHANGED target

\* startedAt of the unit changes: no cutoff taken before is later than it.
Restamp(u) ==
    /\ lapsed' = lapsed \ {u}
    /\ cutoff' = {w \in cutoff : target[w] # u}

-----------------------------------------------------------------------------
(* Selecting and claiming.                                                 *)

\* nextWorkableUnit: the lowest unit on offer of an active run.
Select(w) ==
    /\ pc[w] = "idle" /\ run = "RUNNING"
    /\ \E u \in Offered :
        /\ \A v \in Offered : u <= v
        /\ target' = [target EXCEPT ![w] = u]
    /\ Goto(w, "picked")
    /\ UNCHANGED <<run, refreshLost, unitVars, memo, seen, back, cutoff>>

\* Mutant: claimUnit does not enforce maxAttempts on an expired claim.
CheckWithoutAttempts(w) ==
    /\ pc[w] = "picked"
    /\ IF Holders(target[w]) # {} THEN Return(w)
       ELSE /\ Goto(w, "claiming")
            /\ cutoff' = IF target[w] \in lapsed THEN cutoff \cup {w} ELSE cutoff
            /\ UNCHANGED localVars
    /\ UNCHANGED <<run, refreshLost, unitVars>>

\* claimUnit up to the stamping of "now": lock check, lease check, attempts check.
Check(w) ==
    LET u == target[w] IN
    /\ pc[w] = "picked"
    /\ IF Holders(u) # {} THEN Return(w)
       ELSE /\ Goto(w, IF unit[u] = "RUNNING" /\ u \in lapsed /\ attempt[u] >= MaxAttempts
                       THEN "abandoning" ELSE "claiming")
            /\ cutoff' = IF u \in lapsed THEN cutoff \cup {w} ELSE cutoff
            /\ UNCHANGED localVars
    /\ UNCHANGED <<run, refreshLost, unitVars>>

\* Mutants: the claim is an update by id; the reclaim does not look at the lease.
ClaimUnder(w, condition) ==
    LET u == target[w] IN
    /\ pc[w] = "claiming"
    /\ IF condition
       THEN /\ Goto(w, "working")
            /\ unit' = [unit EXCEPT ![u] = "RUNNING"]
            /\ attempt' = [attempt EXCEPT ![u] = @ + 1]
            /\ owner' = [owner EXCEPT ![u] = w]
            /\ Restamp(u)
            /\ UNCHANGED localVars
       ELSE Return(w) /\ UNCHANGED unitVars
    /\ UNCHANGED <<run, refreshLost>>
ClaimById(w) == ClaimUnder(w, TRUE)
ClaimLiveLease(w) == ClaimUnder(w, unit[target[w]] \in {"PENDING", "RUNNING"})

\* claimUnit's conditional updates: PENDING, or RUNNING since before the cutoff.
Claim(w) ==
    LET u == target[w] IN
    /\ pc[w] = "claiming"
    /\ IF unit[u] = "PENDING" \/ (unit[u] = "RUNNING" /\ w \in cutoff)
       THEN /\ Goto(w, "working")
            /\ unit' = [unit EXCEPT ![u] = "RUNNING"]
            /\ attempt' = [attempt EXCEPT ![u] = @ + 1]
            /\ owner' = [owner EXCEPT ![u] = w]
            /\ Restamp(u)
            /\ UNCHANGED localVars
       ELSE Return(w) /\ UNCHANGED unitVars
    /\ UNCHANGED <<run, refreshLost>>

\* abandonStaleUnit: the same condition, the row becomes terminal.
Abandon(w) ==
    LET u == target[w] IN
    /\ pc[w] = "abandoning"
    /\ IF unit[u] = "RUNNING" /\ w \in cutoff
       THEN /\ unit' = [unit EXCEPT ![u] = "DEAD_LETTER"]
            /\ Refresh(w, "idle")
            /\ cutoff' = cutoff \ {w}
       ELSE Return(w) /\ UNCHANGED unit
    /\ UNCHANGED <<run, refreshLost, attempt, owner, lapsed>>

-----------------------------------------------------------------------------
(* Executing.                                                              *)

\* Mutant: the worker completes a unit without materialising its continuation.
SucceedWithoutFollowOn(w) ==
    /\ pc[w] = "working"
    /\ Goto(w, "complete")
    /\ UNCHANGED <<run, refreshLost, unitVars, localVars, cutoff>>

\* executeUnit returns, throws, or throws the barrier's refusal.
Succeed(w) ==
    /\ pc[w] = "working"
    /\ Goto(w, IF Follow[target[w]] = 0 THEN "complete" ELSE "append")
    /\ UNCHANGED <<run, refreshLost, unitVars, localVars, cutoff>>

Throw(w) ==
    /\ pc[w] = "working"
    /\ Goto(w, "fail")
    /\ UNCHANGED <<run, refreshLost, unitVars, localVars, cutoff>>

Freeze(w) ==
    /\ pc[w] = "working" /\ target[w] \in Freezable
    /\ Goto(w, "defer")
    /\ UNCHANGED <<run, refreshLost, unitVars, localVars, cutoff>>

\* appendUnits, the reads: a terminal run refuses, an identity that exists is skipped.
AppendRead(w) ==
    /\ pc[w] = "append"
    /\ Goto(w, IF run = "RUNNING" /\ unit[Follow[target[w]]] = "absent"
               THEN "create" ELSE "complete")
    /\ UNCHANGED <<run, refreshLost, unitVars, localVars, cutoff>>

\* appendUnits, the create (a duplicate is collapsed into the row that exists).
AppendCreate(w) ==
    LET f == Follow[target[w]] IN
    /\ pc[w] = "create"
    /\ unit' = [unit EXCEPT ![f] = IF @ = "absent" THEN "PENDING" ELSE @]
    /\ Refresh(w, "complete")
    /\ UNCHANGED <<run, refreshLost, attempt, owner, lapsed, cutoff>>

-----------------------------------------------------------------------------
(* Settling: read, then a conditional write, then the parent.              *)

CompleteRead(w) ==
    /\ pc[w] = "complete"
    /\ IF run = "RUNNING"
       THEN Goto(w, "completing") /\ UNCHANGED <<localVars, cutoff>>
       ELSE Return(w)
    /\ UNCHANGED <<run, refreshLost, unitVars>>

\* Mutant: completeUnit leaves the parent alone.
CompleteWithoutRefresh(w) ==
    LET u == target[w] IN
    /\ pc[w] = "completing"
    /\ unit' = [unit EXCEPT ![u] = IF @ = "RUNNING" THEN "COMPLETED" ELSE @]
    /\ Return(w)
    /\ UNCHANGED <<run, refreshLost, attempt, owner, lapsed>>

CompleteWrite(w) ==
    LET u == target[w] IN
    /\ pc[w] = "completing"
    /\ IF unit[u] = "RUNNING"
       THEN /\ unit' = [unit EXCEPT ![u] = "COMPLETED"]
            /\ Refresh(w, "idle") /\ UNCHANGED cutoff
       ELSE Return(w) /\ UNCHANGED unit
    /\ UNCHANGED <<run, refreshLost, attempt, owner, lapsed>>

FailRead(w) ==
    /\ pc[w] = "fail"
    /\ IF run = "RUNNING"
       THEN /\ Goto(w, "failing")
            /\ memo' = [memo EXCEPT ![w] =
                          IF attempt[target[w]] < MaxAttempts THEN "PENDING" ELSE "DEAD_LETTER"]
            /\ UNCHANGED <<target, seen, back, cutoff>>
       ELSE Return(w)
    /\ UNCHANGED <<run, refreshLost, unitVars>>

FailWrite(w) ==
    LET u == target[w] IN
    /\ pc[w] = "failing"
    /\ IF unit[u] = "RUNNING"
       THEN /\ unit' = [unit EXCEPT ![u] = memo[w]]
            /\ Refresh(w, "idle") /\ UNCHANGED cutoff
       ELSE Return(w) /\ UNCHANGED unit
    /\ UNCHANGED <<run, refreshLost, attempt, owner, lapsed>>

DeferRead(w) ==
    LET u == target[w] IN
    /\ pc[w] = "defer"
    /\ IF unit[u] = "RUNNING" /\ owner[u] = w /\ attempt[u] > 0
       THEN /\ Goto(w, "deferring")
            /\ seen' = [seen EXCEPT ![w] = attempt[u]]
            /\ UNCHANGED <<target, memo, back, cutoff>>
       ELSE Return(w)
    /\ UNCHANGED <<run, refreshLost, unitVars>>

\* Mutant: deferUnit does not give the attempt back.
DeferKeepsAttempt(w) ==
    LET u == target[w] IN
    /\ pc[w] = "deferring"
    /\ IF unit[u] = "RUNNING"
       THEN unit' = [unit EXCEPT ![u] = "PENDING"] /\ Restamp(u) /\ Refresh(w, "idle")
       ELSE Return(w) /\ UNCHANGED <<unit, lapsed>>
    /\ UNCHANGED <<run, refreshLost, attempt, owner>>

DeferWrite(w) ==
    LET u == target[w] IN
    /\ pc[w] = "deferring"
    /\ IF unit[u] = "RUNNING"
       THEN /\ unit' = [unit EXCEPT ![u] = "PENDING"]
            /\ attempt' = [attempt EXCEPT ![u] = seen[w] - 1]
            /\ Restamp(u)
            /\ Refresh(w, "idle")
       ELSE Return(w) /\ UNCHANGED <<unit, attempt, lapsed>>
    /\ UNCHANGED <<run, refreshLost, owner>>

-----------------------------------------------------------------------------
(* refreshRun: the two reads (issued together, answered one by one) and    *)
(* the write.  Counters and progress are left out, so a refresh that does  *)
(* not finish the run ends with its reads.                                 *)

RefreshParent(w) ==
    /\ pc[w] = "refresh"
    /\ Goto(w, "refreshing")
    /\ memo' = [memo EXCEPT ![w] = IF run = "RUNNING" THEN "active" ELSE "none"]
    /\ UNCHANGED <<run, refreshLost, unitVars, target, seen, back, cutoff>>

\* Mutant: refreshRun writes the projected status whether or not the run is finished.
RefreshUnguarded(w) ==
    /\ pc[w] = "refreshing"
    /\ Goto(w, "refreshed")
    /\ memo' = [memo EXCEPT ![w] = IF Settled THEN ProjectedStatus ELSE @]
    /\ UNCHANGED <<run, refreshLost, unitVars, target, seen, back, cutoff>>

RefreshUnits(w) ==
    /\ pc[w] = "refreshing"
    /\ IF memo[w] = "active" /\ Settled
       THEN /\ Goto(w, "refreshed")
            /\ memo' = [memo EXCEPT ![w] = ProjectedStatus]
            /\ UNCHANGED <<target, seen, back, cutoff>>
       ELSE IF back[w] = "idle" THEN Return(w)
       ELSE /\ Goto(w, "complete")
            /\ memo' = [memo EXCEPT ![w] = "none"]
            /\ back' = [back EXCEPT ![w] = "idle"]
            /\ UNCHANGED <<target, seen, cutoff>>
    /\ UNCHANGED <<run, refreshLost, unitVars>>

RefreshWrite(w) ==
    /\ pc[w] = "refreshed"
    /\ run' = memo[w]
    /\ IF back[w] = "idle" THEN Return(w)
       ELSE /\ Goto(w, "complete")
            /\ memo' = [memo EXCEPT ![w] = "none"]
            /\ back' = [back EXCEPT ![w] = "idle"]
            /\ UNCHANGED <<target, seen, cutoff>>
    /\ UNCHANGED <<unitVars, refreshLost>>

-----------------------------------------------------------------------------
(* The environment.                                                        *)

\* The invocation is killed; the rows it wrote stay.
Die(w) ==
    /\ pc[w] # "idle"
    /\ Return(w)
    /\ refreshLost' = (refreshLost \/ (pc[w] \in RefreshSteps /\ back[w] = "idle"))
    /\ UNCHANGED <<run, unitVars>>

\* A claim's lease runs out: with bounded hosting, only after its worker is gone.
Lapse(u) ==
    /\ unit[u] = "RUNNING" /\ u \notin lapsed
    /\ Bounded => \A w \in Workers : ~(Executing(w) /\ target[w] = u /\ owner[u] = w)
    /\ lapsed' = lapsed \cup {u}
    /\ UNCHANGED <<run, refreshLost, unit, attempt, owner, pc, localVars, cutoff>>

\* cancelRun's transaction: the parent if it is active, and its PENDING units.
Cancel ==
    /\ MayCancel /\ run = "RUNNING"
    /\ run' = "CANCELLED"
    /\ unit' = [u \in Units |-> IF unit[u] = "PENDING" THEN "CANCELLED" ELSE unit[u]]
    /\ UNCHANGED <<refreshLost, attempt, owner, lapsed, pc, localVars, cutoff>>

Step(w) ==
    \/ Select(w) \/ Check(w) \/ Claim(w) \/ Abandon(w)
    \/ Succeed(w) \/ Throw(w) \/ Freeze(w) \/ AppendRead(w) \/ AppendCreate(w)
    \/ CompleteRead(w) \/ CompleteWrite(w) \/ FailRead(w) \/ FailWrite(w)
    \/ DeferRead(w) \/ DeferWrite(w)
    \/ RefreshParent(w) \/ RefreshUnits(w) \/ RefreshWrite(w)

Next ==
    \/ \E w \in Workers : Step(w) \/ Die(w)
    \/ \E u \in Units : Lapse(u)
    \/ Cancel

Spec == Init /\ [][Next]_vars

(* The scheduler calls the worker for ever and a claim nobody renews lapses.  An           *)
(* invocation goes on unless it is killed.  Before a claim, and on a row nobody else will  *)
(* settle, it is not killed at the same statement every time.                              *)
Fairness ==
    /\ \A u \in Units : WF_vars(Lapse(u))
    /\ \A w \in Workers :
        /\ SF_vars(Select(w)) /\ SF_vars(Check(w)) /\ SF_vars(Claim(w)) /\ SF_vars(Abandon(w))
        /\ WF_vars(Succeed(w) \/ Throw(w) \/ Freeze(w))
        /\ WF_vars(AppendRead(w)) /\ WF_vars(AppendCreate(w))
        /\ WF_vars(CompleteRead(w)) /\ WF_vars(CompleteWrite(w))
        /\ WF_vars(FailRead(w)) /\ WF_vars(FailWrite(w))
        /\ WF_vars(DeferRead(w)) /\ WF_vars(DeferWrite(w))
        /\ WF_vars(RefreshParent(w)) /\ WF_vars(RefreshUnits(w)) /\ WF_vars(RefreshWrite(w))

FairSpec == Spec /\ Fairness

-----------------------------------------------------------------------------
(* Properties.                                                             *)

\* "Exactly one of concurrent claimers wins" (claimUnit), and it wins for as long as it
\* works: no two invocations ever execute the same unit at the same time.
ExclusiveExecution ==
    \A w, x \in Workers : w # x /\ Executing(w) /\ Executing(x) => target[w] # target[x]

\* maxAttempts is enforced on every path, failures and lost workers alike (claimUnit,
\* failUnit, deferUnit): no unit is ever claimed more often, deferrals not counted.
AttemptsBounded == \A u \in Units : attempt[u] <= MaxAttempts

\* A run never ends silently short (the order of append and complete in
\* triggerSyncWorker): unless units were cancelled, a COMPLETED run has completed every
\* unit it planned and every continuation that its units unlocked.
NotSilentlyShort ==
    run = "COMPLETED" /\ (\A u \in Units : unit[u] # "CANCELLED") =>
        /\ \A u \in Planned : unit[u] = "COMPLETED"
        /\ \A u \in Units : unit[u] = "COMPLETED" /\ Follow[u] # 0 => unit[Follow[u]] = "COMPLETED"

\* A finished run is really over (refreshRun): nobody is executing one of its units.
FinishedIsQuiet ==
    run \in {"COMPLETED", "FAILED"} => \A w \in Workers : ~Executing(w)

\* Concurrent refreshes never each leave the end of the run to the other (refreshRun's
\* read and write are two steps): while the last outcome is in and the run is still open,
\* some invocation is on its way to close it, unless one was killed there.
SomeoneClosesTheRun ==
    run = "RUNNING" /\ Settled /\ ~refreshLost =>
        \E w \in Workers :
            \/ pc[w] \in {"refresh", "refreshed"}
            \/ pc[w] = "refreshing" /\ memo[w] = "active"

\* Late workers never resurrect settled work (completeUnit, failUnit, deferUnit,
\* claimUnit): a unit row that is terminal stays as it is.
TerminalUnitsStay ==
    [][\A u \in Units : unit[u] \in Terminal => unit'[u] = unit[u]]_vars

\* "Whichever writer lands first wins and the other reports terminal" (cancelRun): a run
\* that an operator cancelled stays CANCELLED.
CancelIsFinal == [][run = "CANCELLED" => run' = "CANCELLED"]_vars

\* Deferrals come to an end: the walk that freezes staging is over.
ThawsForGood == <>[][\A w \in Workers : ~Freeze(w)]_vars

\* Every unit is settled in the end, whichever workers are lost, unless the run is
\* cancelled first (claimUnit's lease, abandonStaleUnit).
UnitsSettle == ThawsForGood => <>(Settled \/ run = "CANCELLED")

\* And the run itself ends, unless an invocation was killed just before refreshRun.
RunTerminatesUnlessRefreshLost == ThawsForGood => <>(run # "RUNNING" \/ refreshLost)

-----------------------------------------------------------------------------
(* What the rows promise to the run.                                       *)

AsItem(status) ==
    CASE status = "absent" -> "locked"
      [] status = "PENDING" -> "ready"
      [] status = "RUNNING" -> "taken"
      [] status = "COMPLETED" -> "done"
      [] status = "DEAD_LETTER" -> "dead"
      [] status = "CANCELLED" -> "dropped"

ItemOf == [u \in Units |-> AsItem(unit[u])]

Queue == INSTANCE UnitQueue WITH
    Items <- Units, Starting <- Planned, Then <- Follow, MaxTakes <- MaxAttempts,
    item <- ItemOf, takes <- attempt, over <- (run # "RUNNING")

\* Reads, conditional writes, leases and deaths together behave as one at-least-once
\* queue (claimUnit, completeUnit, failUnit, deferUnit, appendUnits, cancelRun,
\* refreshRun): each attempt is counted, a unit is dead only when its attempts are used
\* up, done only after its continuation exists, and the run ends only when nothing is left.
ImplementsQueue == Queue!Spec
=============================================================================
