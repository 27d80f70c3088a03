------------------------ MODULE UnitLifecycleEffects ------------------------
(***************************************************************************)
(* The inductive invariant of UnitLifecycle, what each statement changes,  *)
(* and that types and the memory of the workers are kept.                  *)
(***************************************************************************)
EXTENDS UnitLifecycle, TLAPS

\* What a worker remembers fits the step it is at.
LocalsFit ==
    \A w \in Workers :
        /\ pc[w] = "failing" => memo[w] \in {"PENDING", "DEAD_LETTER"}
        /\ pc[w] = "refreshed" => memo[w] \in {"COMPLETED", "FAILED"}
        /\ pc[w] \in {"append", "create"} => Follow[target[w]] # 0
        /\ back[w] = "complete" => pc[w] \in RefreshSteps
        /\ w \in cutoff => pc[w] \in {"claiming", "abandoning"} /\ target[w] \in lapsed

\* The claim of a worker that executes is on its row and in its lease.
ClaimsHeld ==
    /\ \A w \in Workers :
        Executing(w) => /\ unit[target[w]] = "RUNNING"
                        /\ owner[target[w]] = w
                        /\ target[w] \notin lapsed
    /\ \A u \in lapsed : unit[u] \in Terminal \cup {"RUNNING"}

\* Attempts, and what workers that are about to act know of them.
AttemptsOf(w) ==
    LET u == target[w] IN
    /\ pc[w] = "failing" /\ memo[w] = "PENDING" => attempt[u] < MaxAttempts
    /\ pc[w] = "failing" /\ memo[w] = "DEAD_LETTER" => attempt[u] = MaxAttempts
    /\ pc[w] = "deferring" => seen[w] = attempt[u] /\ seen[w] > 0
    /\ w \in cutoff /\ unit[u] = "RUNNING" /\ pc[w] = "claiming" => attempt[u] < MaxAttempts
    /\ w \in cutoff /\ unit[u] = "RUNNING" /\ pc[w] = "abandoning" => attempt[u] = MaxAttempts

AttemptsFit ==
    /\ \A u \in Units :
        /\ attempt[u] <= MaxAttempts
        /\ unit[u] = "PENDING" => attempt[u] < MaxAttempts
        /\ unit[u] = "absent" => attempt[u] = 0
    /\ \A w \in Workers : AttemptsOf(w)

\* A verdict on the run is only ever formed over settled units, and stays true.
VerdictsFit ==
    /\ run \in {"COMPLETED", "FAILED"} => Settled
    /\ run = "COMPLETED" => \A u \in Units : unit[u] # "DEAD_LETTER"
    /\ \A w \in Workers :
        pc[w] = "refreshed" =>
            /\ Settled
            /\ memo[w] = "COMPLETED" => \A u \in Units : unit[u] # "DEAD_LETTER"

\* A continuation exists before the unit that unlocked it is completed.
FollowOnOf(w) ==
    Follow[target[w]] # 0 =>
        ((\/ pc[w] = "complete" /\ run = "RUNNING"
          \/ pc[w] = "completing"
          \/ back[w] = "complete") => unit[Follow[target[w]]] # "absent")

FollowOnsExist ==
    /\ \A u \in Planned : unit[u] # "absent"
    /\ \A u \in Units :
        unit[u] = "COMPLETED" /\ Follow[u] # 0 => unit[Follow[u]] # "absent"
    /\ \A w \in Workers : FollowOnOf(w)

IInv ==
    /\ TypeOK /\ LocalsFit /\ ClaimsHeld /\ AttemptsFit /\ VerdictsFit /\ FollowOnsExist
    /\ SomeoneClosesTheRun

-----------------------------------------------------------------------------
(* The statements that write rows, pointwise: what a matched conditional   *)
(* update changes, and that an unmatched one only ends the invocation.     *)

\* A worker's step leaves what the other workers know alone.
OthersKeep(w) ==
    \A x \in Workers \ {w} :
        /\ pc'[x] = pc[x] /\ target'[x] = target[x] /\ memo'[x] = memo[x]
        /\ seen'[x] = seen[x] /\ back'[x] = back[x]

Gone(w) ==
    /\ pc'[w] = "idle" /\ target'[w] = 0 /\ memo'[w] = "none" /\ seen'[w] = 0
    /\ back'[w] = "idle" /\ cutoff' = cutoff \ {w}
    /\ UNCHANGED unitVars

\* The row of u becomes s; every other row stays.
Becomes(u, s) ==
    /\ unit'[u] = s
    /\ \A v \in Units \ {u} : unit'[v] = unit[v] /\ attempt'[v] = attempt[v] /\ owner'[v] = owner[v]

\* w wrote s on its RUNNING unit and refreshes the parent next.
Outcome(w, s) ==
    /\ unit[target[w]] = "RUNNING" /\ Becomes(target[w], s) /\ owner' = owner
    /\ pc'[w] = "refresh" /\ target'[w] = target[w] /\ memo'[w] = "none"
    /\ seen'[w] = 0 /\ back'[w] = "idle"

LEMMA OnlyItself ==
    ASSUME TypeOK, NEW w \in Workers, Step(w) \/ Die(w)
    PROVE  OthersKeep(w)
  <1> USE DEF TypeOK, OthersKeep, localVars, Goto
  <1>1. CASE Select(w) \/ Check(w) \/ Claim(w) \/ Abandon(w)
    BY <1>1 DEF Select, Check, Claim, Abandon, Return, Refresh
  <1>2. CASE Succeed(w) \/ Throw(w) \/ Freeze(w) \/ AppendRead(w) \/ AppendCreate(w)
    BY <1>2 DEF Succeed, Throw, Freeze, AppendRead, AppendCreate, Refresh
  <1>3. CASE CompleteRead(w) \/ CompleteWrite(w) \/ FailRead(w) \/ FailWrite(w)
    BY <1>3 DEF CompleteRead, CompleteWrite, FailRead, FailWrite, Return, Refresh
  <1>4. CASE DeferRead(w) \/ DeferWrite(w) \/ Die(w)
    BY <1>4 DEF DeferRead, DeferWrite, Die, Return, Refresh
  <1>5. CASE RefreshParent(w) \/ RefreshUnits(w) \/ RefreshWrite(w)
    BY <1>5 DEF RefreshParent, RefreshUnits, RefreshWrite, Return
  <1> QED BY <1>1, <1>2, <1>3, <1>4, <1>5 DEF Step

LEMMA ClaimEffect ==
    ASSUME TypeOK, NEW w \in Workers, Claim(w)
    PROVE  LET u == target[w] IN
           /\ pc[w] = "claiming" /\ u \in Units /\ run' = run /\ refreshLost' = refreshLost
           /\ \/ Gone(w)
              \/ /\ unit[u] = "PENDING" \/ (unit[u] = "RUNNING" /\ w \in cutoff)
                 /\ Becomes(u, "RUNNING") /\ attempt'[u] = attempt[u] + 1 /\ owner'[u] = w
                 /\ lapsed' = lapsed \ {u} /\ cutoff' = {x \in cutoff : target[x] # u}
                 /\ pc'[w] = "working" /\ localVars' = localVars
  BY DEF TypeOK, Claim, Return, Restamp, Goto, Gone, Becomes, unitVars, localVars

LEMMA AbandonEffect ==
    ASSUME TypeOK, NEW w \in Workers, Abandon(w)
    PROVE  /\ pc[w] = "abandoning" /\ target[w] \in Units
           /\ run' = run /\ refreshLost' = refreshLost
           /\ Gone(w) \/ (/\ Outcome(w, "DEAD_LETTER") /\ w \in cutoff
                          /\ attempt' = attempt /\ lapsed' = lapsed /\ cutoff' = cutoff \ {w})
  BY DEF TypeOK, Abandon, Return, Refresh, Goto, Gone, Outcome, Becomes, unitVars

LEMMA CompleteEffect ==
    ASSUME TypeOK, NEW w \in Workers, CompleteWrite(w)
    PROVE  /\ pc[w] = "completing" /\ target[w] \in Units
           /\ run' = run /\ refreshLost' = refreshLost
           /\ Gone(w) \/ (/\ Outcome(w, "COMPLETED")
                          /\ attempt' = attempt /\ lapsed' = lapsed /\ cutoff' = cutoff)
  BY DEF TypeOK, CompleteWrite, Return, Refresh, Goto, Gone, Outcome, Becomes, unitVars

LEMMA FailEffect ==
    ASSUME TypeOK, NEW w \in Workers, FailWrite(w)
    PROVE  /\ pc[w] = "failing" /\ target[w] \in Units
           /\ run' = run /\ refreshLost' = refreshLost
           /\ Gone(w) \/ (/\ Outcome(w, memo[w])
                          /\ attempt' = attempt /\ lapsed' = lapsed /\ cutoff' = cutoff)
  BY DEF TypeOK, FailWrite, Return, Refresh, Goto, Gone, Outcome, Becomes, unitVars

LEMMA DeferEffect ==
    ASSUME TypeOK, NEW w \in Workers, DeferWrite(w)
    PROVE  LET u == target[w] IN
           /\ pc[w] = "deferring" /\ u \in Units /\ run' = run /\ refreshLost' = refreshLost
           /\ Gone(w) \/ (/\ Outcome(w, "PENDING") /\ attempt'[u] = seen[w] - 1
                          /\ lapsed' = lapsed \ {u} /\ cutoff' = {x \in cutoff : target[x] # u})
  BY DEF TypeOK, DeferWrite, Return, Refresh, Restamp, Goto, Gone, Outcome, Becomes, unitVars

-----------------------------------------------------------------------------
(* Types and what workers remember: one step per action.                  *)

LEMMA TypeStep ==
    ASSUME TypeOK, LocalsFit, AttemptsFit, [Next]_vars
    PROVE  TypeOK'
  <1> USE UnitsAssumption DEF TypeOK, Terminal, UnitStatus, RefreshSteps, ExecuteSteps,
        unitVars, localVars, Goto
  <1>1. ASSUME NEW w \in Workers, Select(w) PROVE TypeOK'
    BY <1>1 DEF Select, Offered
  <1>2. ASSUME NEW w \in Workers, Check(w) PROVE TypeOK'
    BY <1>2 DEF Check, Return
  <1>3. ASSUME NEW w \in Workers, Claim(w) PROVE TypeOK'
    <2>1. attempt' \in [Units -> Nat]
      BY <1>3 DEF Claim
    <2>2. unit' \in [Units -> UnitStatus] /\ owner' \in [Units -> Workers \cup {"nobody"}]
      BY <1>3 DEF Claim
    <2>3. pc' \in [Workers -> {"idle", "picked", "claiming", "abandoning"}
                              \cup ExecuteSteps \cup RefreshSteps]
      BY <1>3 DEF Claim, Return
    <2>4. /\ target' \in [Workers -> Units \cup {0}] /\ seen' \in [Workers -> Nat]
          /\ memo' \in [Workers -> {"none", "active", "PENDING", "COMPLETED", "FAILED", "DEAD_LETTER"}]
          /\ back' \in [Workers -> {"idle", "complete"}]
      BY <1>3 DEF Claim, Return
    <2>5. lapsed' \subseteq Units /\ cutoff' \subseteq Workers
      <3>1. \/ lapsed' = lapsed /\ cutoff' = cutoff \ {w}
            \/ lapsed' = lapsed \ {target[w]} /\ cutoff' = {x \in cutoff : target[x] # target[w]}
        BY <1>3, ClaimEffect DEF Gone
      <3> QED BY <3>1
    <2>6. \A x \in Workers : pc'[x] # "idle" => target'[x] \in Units
      BY <1>3, ClaimEffect, OnlyItself DEF Gone, OthersKeep, Step
    <2> QED
      BY <1>3, <2>1, <2>2, <2>3, <2>4, <2>5, <2>6 DEF Claim
  <1>4. ASSUME NEW w \in Workers, Abandon(w) PROVE TypeOK'
    BY <1>4 DEF Abandon, Return, Refresh
  <1>5. ASSUME NEW w \in Workers, Succeed(w) PROVE TypeOK'
    BY <1>5 DEF Succeed
  <1>6. ASSUME NEW w \in Workers, Throw(w) PROVE TypeOK'
    BY <1>6 DEF Throw
  <1>7. ASSUME NEW w \in Workers, Freeze(w) PROVE TypeOK'
    BY <1>7 DEF Freeze
  <1>8. ASSUME NEW w \in Workers, AppendRead(w) PROVE TypeOK'
    BY <1>8 DEF AppendRead
  <1>9. ASSUME NEW w \in Workers, AppendCreate(w) PROVE TypeOK'
    <2>1. unit' \in [Units -> UnitStatus]
      BY <1>9 DEF AppendCreate
    <2> QED
      BY <1>9, <2>1 DEF AppendCreate, Refresh
  <1>10. ASSUME NEW w \in Workers, CompleteRead(w) PROVE TypeOK'
    BY <1>10 DEF CompleteRead, Return
  <1>11. ASSUME NEW w \in Workers, CompleteWrite(w) PROVE TypeOK'
    BY <1>11 DEF CompleteWrite, Return, Refresh
  <1>12. ASSUME NEW w \in Workers, FailRead(w) PROVE TypeOK'
    BY <1>12 DEF FailRead, Return
  <1>13. ASSUME NEW w \in Workers, FailWrite(w) PROVE TypeOK'
    BY <1>13 DEF FailWrite, Return, Refresh, LocalsFit
  <1>14. ASSUME NEW w \in Workers, DeferRead(w) PROVE TypeOK'
    <2>1. attempt[target[w]] \in Nat
      BY <1>14 DEF DeferRead
    <2> QED
      BY <1>14, <2>1 DEF DeferRead, Return
  <1>15. ASSUME NEW w \in Workers, DeferWrite(w) PROVE TypeOK'
    <2>1. attempt' \in [Units -> Nat] /\ unit' \in [Units -> UnitStatus]
      <3>1. seen[w] \in Nat /\ (pc[w] = "deferring" => seen[w] > 0)
        BY DEF AttemptsFit, AttemptsOf
      <3> QED BY <1>15, <3>1 DEF DeferWrite
    <2>2. pc' \in [Workers -> {"idle", "picked", "claiming", "abandoning"}
                              \cup ExecuteSteps \cup RefreshSteps]
      BY <1>15 DEF DeferWrite, Return, Refresh
    <2>3. /\ target' \in [Workers -> Units \cup {0}] /\ seen' \in [Workers -> Nat]
          /\ memo' \in [Workers -> {"none", "active", "PENDING", "COMPLETED", "FAILED", "DEAD_LETTER"}]
          /\ back' \in [Workers -> {"idle", "complete"}]
      BY <1>15 DEF DeferWrite, Return, Refresh
    <2>4. lapsed' \subseteq Units /\ cutoff' \subseteq Workers
      <3>1. \/ lapsed' = lapsed /\ cutoff' = cutoff \ {w}
            \/ lapsed' = lapsed \ {target[w]} /\ cutoff' = {x \in cutoff : target[x] # target[w]}
        BY <1>15, DeferEffect DEF Gone
      <3> QED BY <3>1
    <2>5. \A x \in Workers : pc'[x] # "idle" => target'[x] \in Units
      BY <1>15, DeferEffect, OnlyItself DEF Gone, Outcome, OthersKeep, Step
    <2> QED
      BY <1>15, <2>1, <2>2, <2>3, <2>4, <2>5 DEF DeferWrite
  <1>16. ASSUME NEW w \in Workers, RefreshParent(w) PROVE TypeOK'
    BY <1>16 DEF RefreshParent
  <1>17. ASSUME NEW w \in Workers, RefreshUnits(w) PROVE TypeOK'
    BY <1>17 DEF RefreshUnits, Return, ProjectedStatus
  <1>18. ASSUME NEW w \in Workers, RefreshWrite(w) PROVE TypeOK'
    BY <1>18 DEF RefreshWrite, Return, LocalsFit
  <1>19. ASSUME NEW w \in Workers, Die(w) PROVE TypeOK'
    BY <1>19 DEF Die, Return
  <1>20. ASSUME NEW u \in Units, Lapse(u) PROVE TypeOK'
    BY <1>20 DEF Lapse
  <1>21. CASE Cancel
    BY <1>21 DEF Cancel
  <1>22. CASE UNCHANGED vars
    BY <1>22 DEF vars
  <1> QED
    BY <1>1, <1>2, <1>3, <1>4, <1>5, <1>6, <1>7, <1>8, <1>9, <1>10, <1>11,
       <1>12, <1>13, <1>14, <1>15, <1>16, <1>17, <1>18, <1>19, <1>20, <1>21, <1>22 DEF Next, Step

LEMMA LocalsStep ==
    ASSUME TypeOK, LocalsFit, [Next]_vars
    PROVE  LocalsFit'
  <1> USE DEF TypeOK, LocalsFit, RefreshSteps, ExecuteSteps, unitVars, localVars, Goto
  <1>1. ASSUME NEW w \in Workers, Select(w) PROVE LocalsFit'
    BY <1>1 DEF Select, Offered
  <1>2. ASSUME NEW w \in Workers, Check(w) PROVE LocalsFit'
    BY <1>2 DEF Check, Return
  <1>3. ASSUME NEW w \in Workers, Claim(w) PROVE LocalsFit'
    BY <1>3 DEF Claim, Return, Restamp
  <1>4. ASSUME NEW w \in Workers, Abandon(w) PROVE LocalsFit'
    BY <1>4 DEF Abandon, Return, Refresh
  <1>5. ASSUME NEW w \in Workers, Succeed(w) PROVE LocalsFit'
    BY <1>5 DEF Succeed
  <1>6. ASSUME NEW w \in Workers, Throw(w) PROVE LocalsFit'
    BY <1>6 DEF Throw
  <1>7. ASSUME NEW w \in Workers, Freeze(w) PROVE LocalsFit'
    BY <1>7 DEF Freeze
  <1>8. ASSUME NEW w \in Workers, AppendRead(w) PROVE LocalsFit'
    BY <1>8 DEF AppendRead
  <1>9. ASSUME NEW w \in Workers, AppendCreate(w) PROVE LocalsFit'
    BY <1>9 DEF AppendCreate, Refresh
  <1>10. ASSUME NEW w \in Workers, CompleteRead(w) PROVE LocalsFit'
    BY <1>10 DEF CompleteRead, Return
  <1>11. ASSUME NEW w \in Workers, CompleteWrite(w) PROVE LocalsFit'
    BY <1>11 DEF CompleteWrite, Return, Refresh
  <1>12. ASSUME NEW w \in Workers, FailRead(w) PROVE LocalsFit'
    BY <1>12 DEF FailRead, Return
  <1>13. ASSUME NEW w \in Workers, FailWrite(w) PROVE LocalsFit'
    BY <1>13 DEF FailWrite, Return, Refresh
  <1>14. ASSUME NEW w \in Workers, DeferRead(w) PROVE LocalsFit'
    BY <1>14 DEF DeferRead, Return
  <1>15. ASSUME NEW w \in Workers, DeferWrite(w) PROVE LocalsFit'
    BY <1>15 DEF DeferWrite, Return, Refresh, Restamp
  <1>16. ASSUME NEW w \in Workers, RefreshParent(w) PROVE LocalsFit'
    BY <1>16 DEF RefreshParent
  <1>17. ASSUME NEW w \in Workers, RefreshUnits(w) PROVE LocalsFit'
    BY <1>17 DEF RefreshUnits, Return, ProjectedStatus
  <1>18. ASSUME NEW w \in Workers, RefreshWrite(w) PROVE LocalsFit'
    BY <1>18 DEF RefreshWrite, Return
  <1>19. ASSUME NEW w \in Workers, Die(w) PROVE LocalsFit'
    BY <1>19 DEF Die, Return
  <1>20. ASSUME NEW u \in Units, Lapse(u) PROVE LocalsFit'
    BY <1>20 DEF Lapse
  <1>21. CASE Cancel
    BY <1>21 DEF Cancel
  <1>22. CASE UNCHANGED vars
    BY <1>22 DEF vars
  <1> QED
    BY <1>1, <1>2, <1>3, <1>4, <1>5, <1>6, <1>7, <1>8, <1>9, <1>10, <1>11,
       <1>12, <1>13, <1>14, <1>15, <1>16, <1>17, <1>18, <1>19, <1>20, <1>21, <1>22 DEF Next, Step

-----------------------------------------------------------------------------
(* The steps of a worker that leave the rows alone.                        *)

Moves(w) ==
    \/ Select(w) \/ Check(w) \/ Succeed(w) \/ Throw(w) \/ Freeze(w) \/ AppendRead(w)
    \/ CompleteRead(w) \/ FailRead(w) \/ DeferRead(w)
    \/ RefreshParent(w) \/ RefreshUnits(w) \/ RefreshWrite(w) \/ Die(w)

\* What w knows of its unit after such a step.
Informed(w) ==
    LET u == target[w] IN
    /\ Executing(w)' => Executing(w) /\ target'[w] = u
    /\ pc'[w] = "failing" =>
          memo'[w] = IF attempt[u] < MaxAttempts THEN "PENDING" ELSE "DEAD_LETTER"
    /\ pc'[w] = "deferring" => seen'[w] = attempt[u] /\ attempt[u] > 0
    /\ w \in cutoff' =>
          /\ target'[w] = u /\ u \in lapsed
          /\ pc'[w] = "claiming" => unit[u] # "RUNNING" \/ attempt[u] < MaxAttempts
          /\ pc'[w] = "abandoning" => attempt[u] >= MaxAttempts

\* What w knows of the continuation.
Unlocked(w) ==
    /\ back'[w] = "complete" => back[w] = "complete" /\ target'[w] = target[w]
    /\ pc'[w] = "completing" => pc[w] = "complete" /\ run = "RUNNING"
    /\ pc'[w] = "complete" => \/ back[w] = "complete" \/ Follow[target[w]] = 0
                              \/ run # "RUNNING" \/ unit[Follow[target[w]]] # "absent"

\* How far w is with the parent, unless it was killed over a settled unit.
Refreshing(w) ==
    /\ run' = run \/ (pc[w] = "refreshed" /\ run' = memo[w])
    /\ refreshLost => refreshLost'
    /\ pc'[w] = "refreshed" => Settled /\ memo'[w] = ProjectedStatus
    /\ \/ refreshLost' \/ back[w] = "complete"
       \/ /\ pc[w] = "refresh" /\ run = "RUNNING" => pc'[w] = "refreshing" /\ memo'[w] = "active"
          /\ pc[w] = "refreshing" /\ memo[w] = "active" /\ Settled => pc'[w] = "refreshed"
          /\ pc[w] = "refreshed" => run' = memo[w]

LEMMA MovesKeepRows ==
    ASSUME NEW w \in Workers, Moves(w)
    PROVE  unit' = unit /\ attempt' = attempt /\ owner' = owner /\ lapsed' = lapsed
  BY DEF Moves, unitVars, Select, Check, Succeed, Throw, Freeze, AppendRead, CompleteRead,
         FailRead, DeferRead, RefreshParent, RefreshUnits, RefreshWrite, Die

LEMMA MovesLocally ==
    ASSUME TypeOK, LocalsFit, NEW w \in Workers, Moves(w)
    PROVE  /\ Informed(w) /\ Unlocked(w) /\ Refreshing(w)
           /\ OthersKeep(w) /\ cutoff' \subseteq cutoff \cup {w}
  <1> USE DEF Informed, Unlocked, Refreshing, localVars, Goto
  <1>0. /\ w \in DOMAIN pc /\ w \in DOMAIN target /\ w \in DOMAIN memo
        /\ w \in DOMAIN seen /\ w \in DOMAIN back /\ back[w] \in {"idle", "complete"}
    BY DEF TypeOK
  <1>1. w \in cutoff => pc[w] \in {"claiming", "abandoning"} /\ target[w] \in lapsed
    BY DEF LocalsFit
  <1>2. back[w] = "complete" => pc[w] \in RefreshSteps
    BY DEF LocalsFit
  <1>3. OthersKeep(w)
    BY OnlyItself DEF Moves, Step
  <1>4. CASE Select(w)
    BY <1>0, <1>1, <1>2, <1>3, <1>4 DEF Select, Executing, ExecuteSteps, RefreshSteps
  <1>5. CASE Check(w)
    BY <1>0, <1>1, <1>2, <1>3, <1>5, UnitsAssumption
       DEF Check, Return, Executing, ExecuteSteps, RefreshSteps, TypeOK
  <1>6. CASE Succeed(w) \/ Throw(w) \/ Freeze(w) \/ AppendRead(w)
    BY <1>0, <1>1, <1>2, <1>3, <1>6
       DEF Succeed, Throw, Freeze, AppendRead, Executing, ExecuteSteps, RefreshSteps
  <1>7. CASE CompleteRead(w)
    BY <1>0, <1>1, <1>2, <1>3, <1>7
       DEF CompleteRead, Return, Executing, ExecuteSteps, RefreshSteps
  <1>8. CASE FailRead(w)
    BY <1>0, <1>1, <1>2, <1>3, <1>8
       DEF FailRead, Return, Executing, ExecuteSteps, RefreshSteps
  <1>9. CASE DeferRead(w)
    BY <1>0, <1>1, <1>2, <1>3, <1>9
       DEF DeferRead, Return, Executing, ExecuteSteps, RefreshSteps
  <1>10. CASE RefreshParent(w)
    BY <1>0, <1>1, <1>2, <1>3, <1>10
       DEF RefreshParent, Executing, ExecuteSteps, RefreshSteps
  <1>11. CASE RefreshUnits(w)
    BY <1>0, <1>1, <1>2, <1>3, <1>11
       DEF RefreshUnits, Return, Executing, ExecuteSteps, RefreshSteps
  <1>12. CASE RefreshWrite(w)
    BY <1>0, <1>1, <1>2, <1>3, <1>12
       DEF RefreshWrite, Return, Executing, ExecuteSteps, RefreshSteps
  <1>13. CASE Die(w)
    BY <1>0, <1>1, <1>2, <1>3, <1>13
       DEF Die, Return, Executing, ExecuteSteps, RefreshSteps
  <1> QED
    BY <1>4, <1>5, <1>6, <1>7, <1>8, <1>9, <1>10, <1>11, <1>12, <1>13 DEF Moves
=============================================================================
