--------------------------- MODULE UnitQueueProofs ---------------------------
(***************************************************************************)
(* The statements on the unit rows implement the queue of UnitQueue, and   *)
(* settled rows stay settled.                                              *)
(***************************************************************************)
EXTENDS UnitLifecycleProofs

LEMMA Items ==
    \A u \in Units : ItemOf[u] = AsItem(unit[u])
  BY DEF ItemOf

\* Writing a status on a row writes the corresponding item.
LEMMA ItemWritten ==
    ASSUME TypeOK, NEW u \in Units, NEW s, unit' = [unit EXCEPT ![u] = s]
    PROVE  ItemOf' = [ItemOf EXCEPT ![u] = AsItem(s)]
  <1>1. \A v \in Units : unit'[v] = IF v = u THEN s ELSE unit[v]
    BY DEF TypeOK
  <1>2. \A v \in Units : AsItem(unit[v])' = IF v = u THEN AsItem(s) ELSE AsItem(unit[v])
    BY <1>1
  <1> QED
    BY <1>2 DEF ItemOf

LEMMA Names ==
    /\ AsItem("absent") = "locked" /\ AsItem("PENDING") = "ready"
    /\ AsItem("RUNNING") = "taken" /\ AsItem("COMPLETED") = "done"
    /\ AsItem("DEAD_LETTER") = "dead" /\ AsItem("CANCELLED") = "dropped"
  BY DEF AsItem

\* A step that writes neither the run nor a status nor an attempt is invisible.
LEMMA Invisible ==
    ASSUME run' = run, unit' = unit, attempt' = attempt
    PROVE  UNCHANGED Queue!queueVars
  BY DEF Queue!queueVars, ItemOf, AsItem

LEMMA ClaimTakes ==
    ASSUME IInv, NEW w \in Workers, Claim(w)
    PROVE  [Queue!QueueNext]_(Queue!queueVars)
  <1> DEFINE u == target[w]
  <1>1. CASE unit[u] = "PENDING" \/ (unit[u] = "RUNNING" /\ w \in cutoff)
    <2>1. u \in Units /\ unit' = [unit EXCEPT ![u] = "RUNNING"]
          /\ attempt' = [attempt EXCEPT ![u] = @ + 1] /\ run' = run
      BY <1>1 DEF Claim, IInv, TypeOK
    <2>2. ItemOf' = [ItemOf EXCEPT ![u] = "taken"]
      <3>1. ItemOf' = [ItemOf EXCEPT ![u] = AsItem("RUNNING")]
        BY <2>1, ItemWritten DEF IInv
      <3> QED BY <3>1, Names
    <2>3. attempt[u] < MaxAttempts
      BY <1>1, <2>1 DEF IInv, AttemptsFit, AttemptsOf, LocalsFit, Claim
    <2>4. ItemOf[u] \in {"ready", "taken"}
      BY <1>1, <2>1, Items, Names
    <2>5. Queue!Take(u)
      BY <2>1, <2>2, <2>3, <2>4 DEF Queue!Take
    <2> QED
      BY <2>1, <2>5 DEF Queue!QueueNext
  <1>2. CASE ~(unit[u] = "PENDING" \/ (unit[u] = "RUNNING" /\ w \in cutoff))
    BY <1>2, Invisible DEF Claim, unitVars
  <1> QED BY <1>1, <1>2

LEMMA AbandonFails ==
    ASSUME IInv, NEW w \in Workers, Abandon(w)
    PROVE  [Queue!QueueNext]_(Queue!queueVars)
  <1> DEFINE u == target[w]
  <1>1. CASE unit[u] = "RUNNING" /\ w \in cutoff
    <2>1. /\ u \in Units /\ unit' = [unit EXCEPT ![u] = "DEAD_LETTER"]
          /\ attempt' = attempt /\ run' = run
      BY <1>1 DEF Abandon, IInv, TypeOK
    <2>2. ItemOf' = [ItemOf EXCEPT ![u] = "dead"]
      <3>1. ItemOf' = [ItemOf EXCEPT ![u] = AsItem("DEAD_LETTER")]
        BY <2>1, ItemWritten DEF IInv
      <3> QED BY <3>1, Names
    <2>3. ItemOf[u] = "taken"
      BY <1>1, <2>1, Items, Names
    <2>4. ~(attempt[u] < MaxAttempts)
      BY <1>1, UnitsAssumption DEF IInv, AttemptsFit, AttemptsOf, Abandon
    <2>5. Queue!Fail(u)
      BY <2>1, <2>2, <2>4, <2>3 DEF Queue!Fail
    <2> QED
      BY <2>1, <2>5 DEF Queue!QueueNext
  <1>2. CASE ~(unit[u] = "RUNNING" /\ w \in cutoff)
    BY <1>2, Invisible DEF Abandon
  <1> QED BY <1>1, <1>2

LEMMA CompleteFinishes ==
    ASSUME IInv, NEW w \in Workers, CompleteWrite(w)
    PROVE  [Queue!QueueNext]_(Queue!queueVars)
  <1> DEFINE u == target[w]
  <1>1. CASE unit[u] = "RUNNING"
    <2>1. /\ u \in Units /\ unit' = [unit EXCEPT ![u] = "COMPLETED"]
          /\ attempt' = attempt /\ run' = run
      BY <1>1 DEF CompleteWrite, IInv, TypeOK
    <2>2. ItemOf' = [ItemOf EXCEPT ![u] = "done"]
      <3>1. ItemOf' = [ItemOf EXCEPT ![u] = AsItem("COMPLETED")]
        BY <2>1, ItemWritten DEF IInv
      <3> QED BY <3>1, Names
    <2>3. ItemOf[u] = "taken"
      BY <1>1, <2>1, Items, Names
    <2>4. ASSUME Follow[u] # 0 PROVE ItemOf[Follow[u]] # "locked"
      <3>1. Follow[u] \in Units /\ unit[Follow[u]] \in UnitStatus \ {"absent"}
        BY <2>1, <2>4, FollowsAreUnits DEF IInv, TypeOK, FollowOnsExist, FollowOnOf, CompleteWrite
      <3> QED
        BY <3>1, Items, Names DEF UnitStatus, Terminal
    <2>5. Queue!Finish(u)
      BY <2>1, <2>2, <2>4, <2>3 DEF Queue!Finish
    <2> QED
      BY <2>1, <2>5 DEF Queue!QueueNext
  <1>2. CASE unit[u] # "RUNNING"
    BY <1>2, Invisible DEF CompleteWrite
  <1> QED BY <1>1, <1>2

LEMMA FailFails ==
    ASSUME IInv, NEW w \in Workers, FailWrite(w)
    PROVE  [Queue!QueueNext]_(Queue!queueVars)
  <1> DEFINE u == target[w]
  <1>1. CASE unit[u] = "RUNNING"
    <2>1. /\ u \in Units /\ unit' = [unit EXCEPT ![u] = memo[w]]
          /\ attempt' = attempt /\ run' = run
      BY <1>1 DEF FailWrite, IInv, TypeOK
    <2>2. ItemOf' = [ItemOf EXCEPT ![u] = AsItem(memo[w])]
      BY <2>1, ItemWritten DEF IInv
    <2>3. ItemOf[u] = "taken"
      BY <1>1, <2>1, Items, Names
    <2>4. AsItem(memo[w]) = IF attempt[u] < MaxAttempts THEN "ready" ELSE "dead"
      <3>1. \/ memo[w] = "PENDING" /\ attempt[u] < MaxAttempts
            \/ memo[w] = "DEAD_LETTER" /\ ~(attempt[u] < MaxAttempts)
        BY UnitsAssumption DEF IInv, LocalsFit, AttemptsFit, AttemptsOf, FailWrite
      <3> QED BY <3>1, Names
    <2>5. Queue!Fail(u)
      BY <2>1, <2>2, <2>3, <2>4 DEF Queue!Fail
    <2> QED
      BY <2>1, <2>5 DEF Queue!QueueNext
  <1>2. CASE unit[u] # "RUNNING"
    BY <1>2, Invisible DEF FailWrite
  <1> QED BY <1>1, <1>2

LEMMA DeferPutsBack ==
    ASSUME IInv, NEW w \in Workers, DeferWrite(w)
    PROVE  [Queue!QueueNext]_(Queue!queueVars)
  <1> DEFINE u == target[w]
  <1>1. CASE unit[u] = "RUNNING"
    <2>1. /\ u \in Units /\ unit' = [unit EXCEPT ![u] = "PENDING"]
          /\ attempt' = [attempt EXCEPT ![u] = seen[w] - 1] /\ run' = run
      BY <1>1 DEF DeferWrite, IInv, TypeOK
    <2>2. ItemOf' = [ItemOf EXCEPT ![u] = "ready"]
      <3>1. ItemOf' = [ItemOf EXCEPT ![u] = AsItem("PENDING")]
        BY <2>1, ItemWritten DEF IInv
      <3> QED BY <3>1, Names
    <2>3. ItemOf[u] = "taken"
      BY <1>1, <2>1, Items, Names
    <2>4. seen[w] = attempt[u]
      BY DEF IInv, AttemptsFit, AttemptsOf, DeferWrite
    <2>5. Queue!PutBack(u)
      BY <2>1, <2>2, <2>3, <2>4 DEF Queue!PutBack
    <2> QED
      BY <2>1, <2>5 DEF Queue!QueueNext
  <1>2. CASE unit[u] # "RUNNING"
    BY <1>2, Invisible DEF DeferWrite
  <1> QED BY <1>1, <1>2

LEMMA AppendUnlocks ==
    ASSUME IInv, NEW w \in Workers, AppendCreate(w)
    PROVE  [Queue!QueueNext]_(Queue!queueVars)
  <1> DEFINE u == target[w]
             f == Follow[u]
  <1>1. /\ u \in Units /\ f # 0 /\ unit[u] = "RUNNING"
        /\ attempt' = attempt /\ run' = run
    BY DEF AppendCreate, IInv, TypeOK, LocalsFit, ClaimsHeld, Executing, ExecuteSteps
  <1>2. f \in Units
    BY <1>1, FollowsAreUnits
  <1>3. CASE unit[f] = "absent"
    <2>1. unit' = [unit EXCEPT ![f] = "PENDING"]
      BY <1>3 DEF AppendCreate
    <2>2. ItemOf' = [ItemOf EXCEPT ![f] = "ready"]
      <3>1. ItemOf' = [ItemOf EXCEPT ![f] = AsItem("PENDING")]
        BY <1>2, <2>1, ItemWritten DEF IInv
      <3> QED BY <3>1, Names
    <2>3. ItemOf[u] = "taken" /\ ItemOf[f] = "locked"
      BY <1>1, <1>2, <1>3, Items, Names
    <2>4. Queue!Unlock(u)
      BY <1>1, <2>2, <2>3 DEF Queue!Unlock
    <2> QED
      BY <1>1, <2>4 DEF Queue!QueueNext
  <1>4. CASE unit[f] # "absent"
    <2>1. unit' = unit
      BY <1>2, <1>4 DEF AppendCreate, IInv, TypeOK
    <2> QED
      BY <1>1, <2>1, Invisible
  <1> QED BY <1>3, <1>4

LEMMA RefreshCloses ==
    ASSUME IInv, NEW w \in Workers, RefreshWrite(w)
    PROVE  [Queue!QueueNext]_(Queue!queueVars)
  <1>1. /\ unit' = unit /\ attempt' = attempt /\ Settled
        /\ run' \in {"COMPLETED", "FAILED"}
    BY DEF RefreshWrite, unitVars, IInv, VerdictsFit, LocalsFit
  <1>2. ItemOf' = ItemOf
    BY <1>1 DEF ItemOf, AsItem
  <1>3. CASE run = "RUNNING"
    <2>1. \A v \in Units : ItemOf[v] \notin {"ready", "taken"}
      BY <1>1, Items, Names DEF Settled, Terminal
    <2>2. Queue!Close
      BY <1>1, <1>2, <1>3, <2>1 DEF Queue!Close
    <2> QED
      BY <2>2 DEF Queue!QueueNext
  <1>4. CASE run # "RUNNING"
    BY <1>1, <1>2, <1>4 DEF Queue!queueVars
  <1> QED BY <1>3, <1>4

LEMMA CancelStops ==
    ASSUME IInv, Cancel
    PROVE  [Queue!QueueNext]_(Queue!queueVars)
  <1>1. \A v \in Units : unit'[v] = IF unit[v] = "PENDING" THEN "CANCELLED" ELSE unit[v]
    BY DEF Cancel
  <1>2. \A v \in Units : unit[v] \in UnitStatus
    BY DEF IInv, TypeOK
  <1>3. \A v \in Units : AsItem(unit[v]) = "ready" <=> unit[v] = "PENDING"
    BY <1>2, Names DEF UnitStatus, Terminal
  <1>4. \A v \in Units : AsItem(unit[v])' =
            IF ItemOf[v] = "ready" THEN "dropped" ELSE ItemOf[v]
    BY <1>1, <1>3, Items, Names
  <1>5. ItemOf' = [v \in Units |-> IF ItemOf[v] = "ready" THEN "dropped" ELSE ItemOf[v]]
    BY <1>4 DEF ItemOf
  <1>6. Queue!Stop
    BY <1>5 DEF Queue!Stop, Cancel
  <1> QED
    BY <1>6 DEF Queue!QueueNext

LEMMA QueueStep ==
    ASSUME IInv, [Next]_vars
    PROVE  [Queue!QueueNext]_(Queue!queueVars)
  <1>1. ASSUME NEW w \in Workers,
               \/ Select(w) \/ Check(w) \/ Succeed(w) \/ Throw(w) \/ Freeze(w)
               \/ AppendRead(w) \/ CompleteRead(w) \/ FailRead(w) \/ DeferRead(w)
               \/ RefreshParent(w) \/ RefreshUnits(w) \/ Die(w)
        PROVE  UNCHANGED Queue!queueVars
    BY <1>1, Invisible DEF Select, Check, Succeed, Throw, Freeze, AppendRead, CompleteRead,
       FailRead, DeferRead, RefreshParent, RefreshUnits, Die, unitVars
  <1>2. ASSUME NEW u \in Units, Lapse(u) PROVE UNCHANGED Queue!queueVars
    BY <1>2, Invisible DEF Lapse
  <1>3. CASE UNCHANGED vars
    BY <1>3, Invisible DEF vars, unitVars
  <1> QED
    BY <1>1, <1>2, <1>3, ClaimTakes, AbandonFails, CompleteFinishes, FailFails, DeferPutsBack,
       AppendUnlocks, RefreshCloses, CancelStops DEF Next, Step

LEMMA QueueInit == ASSUME Init PROVE Queue!Init
  <1>1. \A u \in Units : AsItem(unit[u]) = IF u \in Planned THEN "ready" ELSE "locked"
    BY Names DEF Init
  <1>2. ItemOf = [u \in Units |-> IF u \in Planned THEN "ready" ELSE "locked"]
    BY <1>1 DEF ItemOf
  <1> QED
    BY <1>2 DEF Init, Queue!Init

\* With bounded hosting the rows implement the at-least-once queue, for any units and any
\* number of workers (claimUnit, completeUnit, failUnit, deferUnit, appendUnits,
\* abandonStaleUnit, cancelRun, refreshRun).
THEOREM Implements == ASSUME Bounded PROVE Spec => ImplementsQueue
  <1>1. Init => Queue!Init
    BY QueueInit
  <1>2. IInv /\ [Next]_vars => [Queue!QueueNext]_(Queue!queueVars)
    BY QueueStep
  <1> QED
    BY <1>1, <1>2, Inductive, PTL DEF Spec, ImplementsQueue, Queue!Spec

-----------------------------------------------------------------------------

LEMMA TerminalStep ==
    ASSUME IInv, [Next]_vars, NEW u \in Units, unit[u] \in Terminal
    PROVE  unit'[u] = unit[u]
  <1> USE DEF IInv, TypeOK, Terminal, unitVars
  <1>1. ASSUME NEW w \in Workers,
               Abandon(w) \/ CompleteWrite(w) \/ FailWrite(w) \/ DeferWrite(w) \/ Claim(w)
        PROVE  unit'[u] = unit[u]
    BY <1>1 DEF Abandon, CompleteWrite, FailWrite, DeferWrite, Claim
  <1>2. ASSUME NEW w \in Workers, AppendCreate(w) PROVE unit'[u] = unit[u]
    BY <1>2 DEF AppendCreate
  <1>3. ASSUME NEW w \in Workers,
               \/ Select(w) \/ Check(w) \/ Succeed(w) \/ Throw(w) \/ Freeze(w)
               \/ AppendRead(w) \/ CompleteRead(w) \/ FailRead(w) \/ DeferRead(w)
               \/ RefreshParent(w) \/ RefreshUnits(w) \/ RefreshWrite(w) \/ Die(w)
        PROVE  unit' = unit
    BY <1>3 DEF Select, Check, Succeed, Throw, Freeze, AppendRead, CompleteRead,
       FailRead, DeferRead, RefreshParent, RefreshUnits, RefreshWrite, Die
  <1>4. CASE Cancel \/ (\E v \in Units : Lapse(v)) \/ UNCHANGED vars
    BY <1>4 DEF Cancel, Lapse, vars
  <1> QED
    BY <1>1, <1>2, <1>3, <1>4 DEF Next, Step

\* Late workers never resurrect settled work (claimUnit, completeUnit, failUnit, deferUnit).
THEOREM SettledForGood == ASSUME Bounded PROVE Spec => TerminalUnitsStay
  <1>1. IInv /\ [Next]_vars =>
            [\A u \in Units : unit[u] \in Terminal => unit'[u] = unit[u]]_vars
    BY TerminalStep
  <1> QED
    BY <1>1, Inductive, PTL DEF Spec, TerminalUnitsStay
=============================================================================
