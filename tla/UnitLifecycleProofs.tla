------------------------- MODULE UnitLifecycleProofs -------------------------
(***************************************************************************)
(* What bounded hosting guarantees for any set of units and workers.       *)
(***************************************************************************)
EXTENDS UnitLifecycleEffects

-----------------------------------------------------------------------------
(* The conjuncts that a written row can disturb.                           *)

\* A row that is reclaimed, abandoned or settled by w is no other executor's row.
NotElsewhere(w) ==
    \A x \in Workers \ {w} : Executing(x) => target[x] # target[w]

LEMMA Elsewhere ==
    ASSUME ClaimsHeld, NEW w \in Workers,
           Executing(w) \/ unit[target[w]] = "PENDING" \/ target[w] \in lapsed
    PROVE  NotElsewhere(w)
  BY DEF ClaimsHeld, NotElsewhere

LEMMA OutcomeKeepsClaims ==
    ASSUME TypeOK, ClaimsHeld, NEW w \in Workers, NEW s, OthersKeep(w), NotElsewhere(w),
           Outcome(w, s), target[w] \in Units,
           lapsed' \subseteq lapsed, s \in Terminal \/ target[w] \notin lapsed'
    PROVE  ClaimsHeld'
  <1>1. ASSUME NEW x \in Workers, Executing(x)'
        PROVE  /\ unit'[target'[x]] = "RUNNING"
               /\ owner'[target'[x]] = x
               /\ target'[x] \notin lapsed'
    <2>1. x # w
      BY <1>1 DEF Outcome, Executing, ExecuteSteps, RefreshSteps
    <2>2. Executing(x) /\ target'[x] = target[x] /\ target[x] # target[w]
      BY <1>1, <2>1 DEF OthersKeep, NotElsewhere, Executing
    <2>3. target[x] \in Units
      BY <2>2 DEF TypeOK, Executing, ExecuteSteps, RefreshSteps
    <2> QED
      BY <2>2, <2>3 DEF Outcome, Becomes, ClaimsHeld
  <1>2. ASSUME NEW v \in lapsed' PROVE unit'[v] \in Terminal \cup {"RUNNING"}
    BY <1>2 DEF Outcome, Becomes, ClaimsHeld, TypeOK
  <1> QED
    BY <1>1, <1>2 DEF ClaimsHeld

LEMMA ClaimKeepsClaims ==
    ASSUME TypeOK, LocalsFit, ClaimsHeld, NEW w \in Workers, Claim(w), ~Gone(w)
    PROVE  ClaimsHeld'
  <1> DEFINE u == target[w]
  <1>1. NotElsewhere(w) /\ OthersKeep(w)
    BY Elsewhere, ClaimEffect, OnlyItself DEF LocalsFit, Step
  <1>2. ASSUME NEW x \in Workers, Executing(x)'
        PROVE  /\ unit'[target'[x]] = "RUNNING"
               /\ owner'[target'[x]] = x
               /\ target'[x] \notin lapsed'
    <2>1. CASE x = w
      BY <2>1, ClaimEffect DEF Becomes, localVars
    <2>2. CASE x # w
      <3>1. Executing(x) /\ target'[x] = target[x] /\ target[x] # u
        BY <1>1, <1>2, <2>2 DEF OthersKeep, NotElsewhere, Executing
      <3>2. target[x] \in Units
        BY <3>1 DEF TypeOK, Executing, ExecuteSteps, RefreshSteps
      <3> QED
        BY <3>1, <3>2, ClaimEffect DEF Becomes, ClaimsHeld
    <2> QED BY <2>1, <2>2
  <1>3. ASSUME NEW v \in lapsed' PROVE unit'[v] \in Terminal \cup {"RUNNING"}
    BY <1>3, ClaimEffect DEF Becomes, ClaimsHeld, TypeOK
  <1> QED
    BY <1>2, <1>3 DEF ClaimsHeld

LEMMA OutcomeKeepsAttempts ==
    ASSUME TypeOK, AttemptsFit, NEW w \in Workers, NEW s \in {"PENDING"} \cup Terminal,
           OthersKeep(w), NotElsewhere(w), Outcome(w, s), target[w] \in Units,
           cutoff' \subseteq cutoff, w \notin cutoff',
           attempt'[target[w]] <= MaxAttempts,
           s = "PENDING" => attempt'[target[w]] < MaxAttempts
    PROVE  AttemptsFit'
  <1> DEFINE u == target[w]
  <1>1. \A v \in Units : /\ attempt'[v] <= MaxAttempts
                         /\ unit'[v] = "PENDING" => attempt'[v] < MaxAttempts
                         /\ unit'[v] = "absent" => attempt'[v] = 0
    BY DEF Outcome, Becomes, AttemptsFit, AttemptsOf, Terminal
  <1>2. ASSUME NEW x \in Workers, pc'[x] \in {"failing", "deferring"}
        PROVE  /\ x # w /\ pc'[x] = pc[x] /\ memo'[x] = memo[x] /\ seen'[x] = seen[x]
               /\ target'[x] = target[x] /\ attempt'[target[x]] = attempt[target[x]]
    <2>1. x # w /\ Executing(x)
      BY <1>2 DEF Outcome, OthersKeep, Executing, ExecuteSteps
    <2> QED
      BY <2>1 DEF OthersKeep, NotElsewhere, Outcome, Becomes, TypeOK, Executing,
                  ExecuteSteps, RefreshSteps
  <1>3. ASSUME NEW x \in Workers, x \in cutoff', pc'[x] \in {"claiming", "abandoning"},
               unit'[target'[x]] = "RUNNING"
        PROVE  /\ x # w /\ pc'[x] = pc[x] /\ target'[x] = target[x] /\ x \in cutoff
               /\ attempt'[target[x]] = attempt[target[x]] /\ unit[target[x]] = "RUNNING"
    BY <1>3 DEF OthersKeep, Outcome, Becomes, TypeOK, Terminal
  <1> QED
    BY <1>1, <1>2, <1>3 DEF AttemptsFit, AttemptsOf

LEMMA ClaimKeepsAttempts ==
    ASSUME TypeOK, LocalsFit, ClaimsHeld, AttemptsFit, NEW w \in Workers, Claim(w), ~Gone(w)
    PROVE  AttemptsFit'
  <1> DEFINE u == target[w]
  <1>1. NotElsewhere(w) /\ OthersKeep(w)
    BY Elsewhere, ClaimEffect, OnlyItself DEF LocalsFit, Step
  <1>2. attempt[u] \in Nat /\ attempt[u] < MaxAttempts /\ MaxAttempts \in Nat
    <2>1. u \in Units
      BY ClaimEffect
    <2>2. attempt[u] < MaxAttempts
      BY ClaimEffect DEF AttemptsFit, AttemptsOf
    <2>3. attempt[u] \in Nat
      BY <2>1 DEF TypeOK
    <2>4. MaxAttempts \in Nat
      BY UnitsAssumption
    <2> QED BY <2>2, <2>3, <2>4
  <1>3. \A v \in Units : /\ attempt'[v] <= MaxAttempts
                         /\ unit'[v] = "PENDING" => attempt'[v] < MaxAttempts
                         /\ unit'[v] = "absent" => attempt'[v] = 0
    BY <1>2, ClaimEffect DEF Becomes, AttemptsFit, AttemptsOf
  <1>4. ASSUME NEW x \in Workers, pc'[x] \in {"failing", "deferring"}
        PROVE  /\ x # w /\ pc'[x] = pc[x] /\ memo'[x] = memo[x] /\ seen'[x] = seen[x]
               /\ target'[x] = target[x] /\ attempt'[target[x]] = attempt[target[x]]
    <2>1. x # w
      BY <1>4, ClaimEffect
    <2>2. Executing(x) /\ pc[x] # "idle"
      BY <1>1, <1>4, <2>1 DEF OthersKeep, Executing, ExecuteSteps
    <2>3. target[x] \in Units /\ target[x] # u
      BY <1>1, <2>1, <2>2 DEF NotElsewhere, TypeOK
    <2> QED
      BY <1>1, <2>1, <2>3, ClaimEffect DEF OthersKeep, Becomes
  <1>5. ASSUME NEW x \in Workers, x \in cutoff', pc'[x] \in {"claiming", "abandoning"},
               unit'[target'[x]] = "RUNNING"
        PROVE  /\ x # w /\ pc'[x] = pc[x] /\ target'[x] = target[x] /\ x \in cutoff
               /\ attempt'[target[x]] = attempt[target[x]] /\ unit[target[x]] = "RUNNING"
    <2>1. x # w /\ x \in cutoff /\ target[x] # u
      BY <1>5, ClaimEffect
    <2>2. target'[x] = target[x] /\ pc'[x] = pc[x] /\ target[x] \in Units
      BY <1>1, <1>5, <2>1 DEF OthersKeep, TypeOK
    <2> QED
      BY <1>5, <2>1, <2>2, ClaimEffect DEF Becomes
  <1> QED
    BY <1>3, <1>4, <1>5 DEF AttemptsFit, AttemptsOf

LEMMA FollowsAreUnits ==
    \A v \in Units : Follow[v] # 0 => Follow[v] \in Units
  BY UnitsAssumption

LEMMA FollowOnsCarry ==
    ASSUME TypeOK, LocalsFit, FollowOnsExist, NEW w \in Workers, OthersKeep(w),
           run' = "RUNNING" => run = "RUNNING",
           \A v \in Units : unit[v] # "absent" => unit'[v] # "absent",
           \A v \in Units : unit'[v] = "COMPLETED" =>
               unit[v] = "COMPLETED" \/ (v = target[w] /\ pc[w] = "completing"),
           FollowOnOf(w)'
    PROVE  FollowOnsExist'
  <1>1. \A v \in Units : Follow[v] # 0 => Follow[v] \in Units
    BY FollowsAreUnits
  <1>2. ASSUME NEW v \in Units, unit'[v] = "COMPLETED", Follow[v] # 0
        PROVE  unit'[Follow[v]] # "absent"
    <2>1. unit[Follow[v]] # "absent"
      BY <1>2 DEF FollowOnsExist, FollowOnOf
    <2> QED BY <1>1, <1>2, <2>1
  <1>3. ASSUME NEW x \in Workers, x # w, Follow[target'[x]] # 0,
               \/ pc'[x] = "complete" /\ run' = "RUNNING"
               \/ pc'[x] = "completing" \/ back'[x] = "complete"
        PROVE  unit'[Follow[target'[x]]] # "absent"
    <2>1. target'[x] = target[x] /\ target[x] \in Units
      BY <1>3 DEF OthersKeep, TypeOK, LocalsFit, RefreshSteps
    <2>2. unit[Follow[target[x]]] # "absent"
      BY <1>3, <2>1 DEF OthersKeep, FollowOnsExist, FollowOnOf
    <2> QED BY <1>1, <1>3, <2>1, <2>2
  <1>4. \A v \in Planned : unit'[v] # "absent"
    BY UnitsAssumption DEF FollowOnsExist
  <1> QED
    BY <1>2, <1>3, <1>4 DEF FollowOnsExist, FollowOnOf

LEMMA OutcomeKeepsFollowOns ==
    ASSUME TypeOK, LocalsFit, FollowOnsExist, NEW w \in Workers, NEW s, OthersKeep(w),
           Outcome(w, s), target[w] \in Units, run' = run, s # "absent",
           s = "COMPLETED" => pc[w] = "completing"
    PROVE  FollowOnsExist'
  <1>1. \A v \in Units : unit[v] # "absent" => unit'[v] # "absent"
    BY DEF Outcome, Becomes
  <1>2. \A v \in Units : unit'[v] = "COMPLETED" =>
            unit[v] = "COMPLETED" \/ (v = target[w] /\ pc[w] = "completing")
    BY DEF Outcome, Becomes
  <1>3. FollowOnOf(w)'
    BY DEF Outcome, FollowOnOf
  <1> QED
    BY <1>1, <1>2, <1>3, FollowOnsCarry

LEMMA ClaimKeepsFollowOns ==
    ASSUME TypeOK, LocalsFit, FollowOnsExist, NEW w \in Workers, Claim(w), ~Gone(w)
    PROVE  FollowOnsExist'
  <1>1. /\ \A v \in Units : unit[v] # "absent" => unit'[v] # "absent"
        /\ \A v \in Units : unit'[v] = "COMPLETED" => unit[v] = "COMPLETED"
    BY ClaimEffect DEF Becomes
  <1>2. pc[w] = "claiming" /\ pc'[w] = "working" /\ back'[w] = back[w] /\ run' = run
    BY ClaimEffect DEF localVars
  <1>3. FollowOnOf(w)'
    BY <1>2 DEF LocalsFit, RefreshSteps, FollowOnOf
  <1> QED
    BY <1>1, <1>2, <1>3, OnlyItself, FollowOnsCarry DEF Step

LEMMA GoneKeeps ==
    ASSUME TypeOK, LocalsFit, ClaimsHeld, AttemptsFit, FollowOnsExist,
           NEW w \in Workers, OthersKeep(w), Gone(w), run' = run
    PROVE  ClaimsHeld' /\ AttemptsFit' /\ FollowOnsExist'
  <1>1. /\ unit' = unit /\ owner' = owner /\ attempt' = attempt /\ lapsed' = lapsed
        /\ pc'[w] = "idle" /\ back'[w] = "idle" /\ cutoff' = cutoff \ {w}
    BY DEF Gone, unitVars
  <1>2. ClaimsHeld'
    BY <1>1 DEF ClaimsHeld, OthersKeep, Executing, ExecuteSteps, RefreshSteps
  <1>3. AttemptsFit'
    <2>1. \A x \in Workers : x # w => AttemptsOf(x)'
      BY <1>1 DEF AttemptsFit, AttemptsOf, OthersKeep
    <2>2. AttemptsOf(w)'
      BY <1>1 DEF AttemptsOf
    <2> QED BY <1>1, <2>1, <2>2 DEF AttemptsFit
  <1>4. FollowOnOf(w)'
    BY <1>1 DEF FollowOnOf
  <1>5. FollowOnsExist'
    BY <1>1, <1>4, FollowOnsCarry
  <1> QED
    BY <1>2, <1>3, <1>5

\* The conditional updates of a row, matched or not.
Writes(w) ==
    Claim(w) \/ Abandon(w) \/ CompleteWrite(w) \/ FailWrite(w) \/ DeferWrite(w)

LEMMA WritesKeep ==
    ASSUME IInv, NEW w \in Workers, Writes(w)
    PROVE  ClaimsHeld' /\ AttemptsFit' /\ FollowOnsExist'
  <1> DEFINE u == target[w]
  <1> USE DEF IInv
  <1>1. OthersKeep(w) /\ u \in Units /\ run' = run
    BY OnlyItself, ClaimEffect, AbandonEffect, CompleteEffect, FailEffect, DeferEffect
       DEF Writes, Step
  <1>2. CASE Gone(w)
    BY <1>1, <1>2, GoneKeeps
  <1>3. CASE ~Gone(w) /\ Claim(w)
    BY <1>3, ClaimKeepsClaims, ClaimKeepsAttempts, ClaimKeepsFollowOns
  <1>4. CASE ~Gone(w) /\ Abandon(w)
    <2>1. /\ Outcome(w, "DEAD_LETTER") /\ w \in cutoff /\ attempt' = attempt
          /\ lapsed' = lapsed /\ cutoff' = cutoff \ {w}
      BY <1>4, AbandonEffect
    <2>2. NotElsewhere(w)
      BY <2>1, Elsewhere DEF LocalsFit
    <2>3. "DEAD_LETTER" \in Terminal /\ attempt'[u] <= MaxAttempts
      BY <1>1, <2>1 DEF Terminal, AttemptsFit, AttemptsOf
    <2> QED
      BY <1>1, <2>1, <2>2, <2>3, OutcomeKeepsClaims, OutcomeKeepsAttempts, OutcomeKeepsFollowOns
  <1>5. CASE ~Gone(w) /\ CompleteWrite(w)
    <2>1. /\ pc[w] = "completing" /\ Outcome(w, "COMPLETED") /\ attempt' = attempt
          /\ lapsed' = lapsed /\ cutoff' = cutoff
      BY <1>5, CompleteEffect
    <2>2. NotElsewhere(w) /\ w \notin cutoff
      BY <2>1, Elsewhere DEF LocalsFit, Executing, ExecuteSteps
    <2>3. "COMPLETED" \in Terminal /\ attempt'[u] <= MaxAttempts
      BY <1>1, <2>1 DEF Terminal, AttemptsFit, AttemptsOf
    <2> QED
      BY <1>1, <2>1, <2>2, <2>3, OutcomeKeepsClaims, OutcomeKeepsAttempts, OutcomeKeepsFollowOns
  <1>6. CASE ~Gone(w) /\ FailWrite(w)
    <2>1. /\ pc[w] = "failing" /\ Outcome(w, memo[w]) /\ attempt' = attempt
          /\ lapsed' = lapsed /\ cutoff' = cutoff
      BY <1>6, FailEffect
    <2>2. NotElsewhere(w) /\ w \notin cutoff /\ u \notin lapsed
      BY <2>1, Elsewhere DEF LocalsFit, ClaimsHeld, Executing, ExecuteSteps
    <2>3. memo[w] \in {"PENDING", "DEAD_LETTER"} /\ "DEAD_LETTER" \in Terminal
      BY <2>1 DEF LocalsFit, Terminal
    <2>4. /\ attempt'[u] <= MaxAttempts
          /\ memo[w] = "PENDING" => attempt'[u] < MaxAttempts
      BY <1>1, <2>1 DEF AttemptsFit, AttemptsOf
    <2> QED
      BY <1>1, <2>1, <2>2, <2>3, <2>4,
         OutcomeKeepsClaims, OutcomeKeepsAttempts, OutcomeKeepsFollowOns
  <1>7. CASE ~Gone(w) /\ DeferWrite(w)
    <2>1. /\ pc[w] = "deferring" /\ Outcome(w, "PENDING") /\ attempt'[u] = seen[w] - 1
          /\ lapsed' = lapsed \ {u} /\ cutoff' \subseteq cutoff
      BY <1>7, DeferEffect
    <2>2. NotElsewhere(w) /\ w \notin cutoff
      BY <2>1, Elsewhere DEF LocalsFit, Executing, ExecuteSteps
    <2>3. seen[w] = attempt[u] /\ attempt[u] \in Nat /\ attempt[u] <= MaxAttempts
      BY <1>1, <2>1 DEF AttemptsFit, AttemptsOf, TypeOK
    <2>4. attempt'[u] < MaxAttempts /\ attempt'[u] <= MaxAttempts
      BY <2>1, <2>3, UnitsAssumption
    <2> QED
      BY <1>1, <2>1, <2>2, <2>4,
         OutcomeKeepsClaims, OutcomeKeepsAttempts, OutcomeKeepsFollowOns
  <1> QED
    BY <1>2, <1>3, <1>4, <1>5, <1>6, <1>7 DEF Writes

LEMMA Unsettled ==
    ASSUME VerdictsFit, ~Settled, NEW w \in Workers, OthersKeep(w), run' = run,
           pc'[w] # "refreshed"
    PROVE  VerdictsFit'
  <1>1. run' \notin {"COMPLETED", "FAILED"}
    BY DEF VerdictsFit
  <1>2. \A x \in Workers : pc'[x] # "refreshed"
    BY DEF VerdictsFit, OthersKeep
  <1> QED
    BY <1>1, <1>2 DEF VerdictsFit

LEMMA WritesClose ==
    ASSUME IInv, NEW w \in Workers, Writes(w)
    PROVE  VerdictsFit' /\ SomeoneClosesTheRun'
  <1> USE DEF IInv
  <1>1. /\ OthersKeep(w) /\ target[w] \in Units /\ run' = run /\ refreshLost' = refreshLost
        /\ pc[w] \in {"claiming", "abandoning", "completing", "failing", "deferring"}
    BY OnlyItself, ClaimEffect, AbandonEffect, CompleteEffect, FailEffect, DeferEffect
       DEF Writes, Step
  <1>2. CASE Gone(w)
    <2>1. unit' = unit /\ pc'[w] = "idle"
      BY <1>2 DEF Gone, unitVars
    <2>2. VerdictsFit'
      BY <1>1, <2>1 DEF VerdictsFit, OthersKeep, Settled
    <2>3. SomeoneClosesTheRun'
      BY <1>1, <2>1 DEF SomeoneClosesTheRun, OthersKeep, Settled
    <2> QED BY <2>2, <2>3
  <1>3. CASE ~Gone(w) /\ Claim(w)
    <2>1. /\ unit[target[w]] \in {"PENDING", "RUNNING"}
          /\ pc'[w] = "working" /\ unit'[target[w]] = "RUNNING"
      BY <1>3, ClaimEffect DEF Becomes
    <2>2. ~Settled /\ ~Settled'
      BY <1>1, <2>1 DEF Settled, Terminal
    <2> QED
      BY <1>1, <2>1, <2>2, Unsettled DEF SomeoneClosesTheRun
  <1>4. CASE ~Gone(w) /\ ~Claim(w)
    <2>1. unit[target[w]] = "RUNNING" /\ pc'[w] = "refresh"
      BY <1>4, AbandonEffect, CompleteEffect, FailEffect, DeferEffect DEF Writes, Outcome
    <2>2. ~Settled
      BY <1>1, <2>1 DEF Settled, Terminal
    <2> QED
      BY <1>1, <2>1, <2>2, Unsettled DEF SomeoneClosesTheRun
  <1> QED
    BY <1>2, <1>3, <1>4

-----------------------------------------------------------------------------
(* Steps that leave the rows alone disturb nothing.                        *)

LEMMA MovesKeep ==
    ASSUME IInv, NEW w \in Workers, Moves(w)
    PROVE  ClaimsHeld' /\ AttemptsFit' /\ FollowOnsExist' /\ VerdictsFit' /\ SomeoneClosesTheRun'
  <1> USE DEF IInv
  <1>1. /\ Informed(w) /\ Unlocked(w) /\ Refreshing(w)
        /\ OthersKeep(w) /\ cutoff' \subseteq cutoff \cup {w}
    BY MovesLocally
  <1>2. unit' = unit /\ attempt' = attempt /\ owner' = owner /\ lapsed' = lapsed
    BY MovesKeepRows
  <1>3. run' = run \/ (Settled /\ pc[w] = "refreshed" /\ run' = memo[w] /\ run' \in {"COMPLETED", "FAILED"})
    BY <1>1 DEF Refreshing, LocalsFit, VerdictsFit
  <1>4. ClaimsHeld'
    <2>1. \A x \in Workers : Executing(x)' => Executing(x) /\ target'[x] = target[x]
      BY <1>1 DEF Informed, OthersKeep, Executing
    <2> QED BY <1>2, <2>1 DEF ClaimsHeld
  <1>5. AttemptsFit'
    <2>1. ASSUME NEW x \in Workers, x # w
          PROVE  /\ pc'[x] = pc[x] /\ memo'[x] = memo[x] /\ seen'[x] = seen[x]
                 /\ target'[x] = target[x] /\ (x \in cutoff' => x \in cutoff)
      BY <1>1, <2>1 DEF OthersKeep
    <2>2. pc'[w] \in {"failing", "deferring"} => target'[w] = target[w] /\ target[w] \in Units
      BY <1>1 DEF Informed, Executing, ExecuteSteps, RefreshSteps, TypeOK
    <2>3. w \in cutoff' => target[w] \in Units
      BY <1>1 DEF Informed, TypeOK
    <2>4. \A u \in Units : attempt[u] \in Nat /\ attempt[u] <= MaxAttempts /\ MaxAttempts \in Nat
      BY UnitsAssumption DEF TypeOK, AttemptsFit, AttemptsOf
    <2>5. LET u == target'[w] IN
          /\ pc'[w] = "failing" /\ memo'[w] = "PENDING" => attempt[u] < MaxAttempts
          /\ pc'[w] = "failing" /\ memo'[w] = "DEAD_LETTER" => attempt[u] = MaxAttempts
          /\ pc'[w] = "deferring" => seen'[w] = attempt[u] /\ seen'[w] > 0
      <3>1. CASE pc'[w] \notin {"failing", "deferring"}
        BY <3>1
      <3>2. CASE pc'[w] \in {"failing", "deferring"}
        <4>1. /\ target'[w] = target[w] /\ attempt[target[w]] \in Nat /\ MaxAttempts \in Nat
              /\ attempt[target[w]] <= MaxAttempts
          BY <2>2, <2>4, <3>2
        <4>2. /\ pc'[w] = "failing" => memo'[w] = IF attempt[target[w]] < MaxAttempts
                                                   THEN "PENDING" ELSE "DEAD_LETTER"
              /\ pc'[w] = "deferring" =>
                    seen'[w] = attempt[target[w]] /\ attempt[target[w]] > 0
          BY <1>1 DEF Informed
        <4> QED BY <4>1, <4>2
      <3> QED BY <3>1, <3>2
    <2>6. LET u == target'[w] IN
          /\ w \in cutoff' /\ unit[u] = "RUNNING" /\ pc'[w] = "claiming" => attempt[u] < MaxAttempts
          /\ w \in cutoff' /\ unit[u] = "RUNNING" /\ pc'[w] = "abandoning" => attempt[u] = MaxAttempts
      <3>1. SUFFICES ASSUME w \in cutoff', unit[target[w]] = "RUNNING"
                     PROVE  /\ pc'[w] = "claiming" => attempt[target[w]] < MaxAttempts
                            /\ pc'[w] = "abandoning" => attempt[target[w]] = MaxAttempts
        BY <1>1 DEF Informed
      <3>2. /\ attempt[target[w]] \in Nat /\ MaxAttempts \in Nat
            /\ attempt[target[w]] <= MaxAttempts
        BY <2>3, <2>4, <3>1
      <3>3. /\ pc'[w] = "claiming" => attempt[target[w]] < MaxAttempts
            /\ pc'[w] = "abandoning" => attempt[target[w]] >= MaxAttempts
        BY <1>1, <3>1 DEF Informed
      <3> QED BY <3>2, <3>3
    <2>7. \A x \in Workers : x # w => AttemptsOf(x)'
      BY <1>2, <2>1 DEF AttemptsFit, AttemptsOf
    <2>8. AttemptsOf(w)'
      BY <1>2, <2>5, <2>6 DEF AttemptsOf
    <2> QED
      BY <1>2, <2>7, <2>8 DEF AttemptsFit
  <1>6. FollowOnsExist'
    <2>1. target'[w] = target[w] \/ pc'[w] \notin {"complete", "completing"}
      BY <1>1 DEF Informed, Executing, ExecuteSteps
    <2>2. back'[w] = "complete" => target'[w] = target[w]
      BY <1>1 DEF Unlocked
    <2>3. FollowOnOf(w)'
      BY <1>1, <1>2, <1>3, <2>1, <2>2 DEF Unlocked, FollowOnOf, FollowOnsExist
    <2>4. run' = "RUNNING" => run = "RUNNING"
      BY <1>3
    <2> QED
      BY <1>1, <1>2, <2>3, <2>4, FollowOnsCarry
  <1>7. VerdictsFit'
    <2>1. Settled' = Settled
      BY <1>2 DEF Settled
    <2>2. pc'[w] = "refreshed" /\ memo'[w] = "COMPLETED" => \A u \in Units : unit[u] # "DEAD_LETTER"
      BY <1>1 DEF Refreshing, ProjectedStatus
    <2>3. pc'[w] = "refreshed" => Settled
      BY <1>1 DEF Refreshing
    <2> QED
      BY <1>1, <1>2, <1>3, <2>1, <2>2, <2>3 DEF VerdictsFit, OthersKeep
  <1>8. SomeoneClosesTheRun'
    <2> SUFFICES ASSUME run' = "RUNNING", Settled, ~refreshLost'
                 PROVE  \E x \in Workers : \/ pc'[x] \in {"refresh", "refreshed"}
                                           \/ pc'[x] = "refreshing" /\ memo'[x] = "active"
      BY <1>2 DEF SomeoneClosesTheRun, Settled
    <2>1. run = "RUNNING" /\ ~refreshLost
      BY <1>1, <1>3 DEF Refreshing
    <2>2. PICK x \in Workers : \/ pc[x] \in {"refresh", "refreshed"}
                               \/ pc[x] = "refreshing" /\ memo[x] = "active"
      BY <2>1 DEF SomeoneClosesTheRun
    <2>3. CASE x # w
      BY <1>1, <2>2, <2>3 DEF OthersKeep
    <2>4. CASE x = w
      <3>1. ~Executing(w)
        BY <2>2, <2>4 DEF ClaimsHeld, Settled, Terminal, TypeOK
      <3>2. back[w] # "complete"
        BY <2>2, <2>4, <3>1 DEF Executing, RefreshSteps
      <3>3. pc[w] # "refreshed"
        BY <1>1, <3>2 DEF Refreshing, LocalsFit
      <3> QED
        BY <1>1, <2>1, <2>2, <2>4, <3>2, <3>3 DEF Refreshing
    <2> QED BY <2>3, <2>4
  <1> QED
    BY <1>4, <1>5, <1>6, <1>7, <1>8

-----------------------------------------------------------------------------
(* The other steps that change rows: a continuation appears, a lease       *)
(* lapses, the run is cancelled.                                           *)

LEMMA AppendKeeps ==
    ASSUME IInv, NEW w \in Workers, AppendCreate(w)
    PROVE  ClaimsHeld' /\ AttemptsFit' /\ FollowOnsExist' /\ VerdictsFit' /\ SomeoneClosesTheRun'
  <1> DEFINE f == Follow[target[w]]
  <1> USE DEF IInv
  <1>1. pc[w] = "create" /\ target[w] \in Units /\ f \in Units
    BY FollowsAreUnits DEF AppendCreate, TypeOK, LocalsFit
  <1>2. /\ pc'[w] = "refresh" /\ back'[w] = "complete" /\ target' = target /\ run' = run
        /\ attempt' = attempt /\ owner' = owner /\ lapsed' = lapsed /\ cutoff' = cutoff
    BY DEF AppendCreate, Refresh, Goto, TypeOK
  <1>3. /\ unit'[f] # "absent"
        /\ \A v \in Units : unit[v] # "absent" => unit'[v] = unit[v]
        /\ \A v \in Units : unit[v] = "absent" => unit'[v] \in {"absent", "PENDING"}
    BY <1>1 DEF AppendCreate, TypeOK
  <1>4. OthersKeep(w)
    BY OnlyItself DEF Step
  <1>5. Executing(w) /\ unit[target[w]] = "RUNNING"
    BY <1>1 DEF ClaimsHeld, Executing, ExecuteSteps
  <1>6. \A x \in Workers : Executing(x)' => Executing(x) /\ target[x] \in Units
    BY <1>1, <1>4, <1>5 DEF OthersKeep, Executing, ExecuteSteps, RefreshSteps, TypeOK
  <1>7. ClaimsHeld'
    BY <1>2, <1>3, <1>6 DEF ClaimsHeld, TypeOK, Terminal
  <1>8. AttemptsFit'
    <2>1. \A v \in Units : /\ attempt[v] <= MaxAttempts
                           /\ unit'[v] = "PENDING" => attempt[v] < MaxAttempts
                           /\ unit'[v] = "absent" => attempt[v] = 0
      <3>1. 0 < MaxAttempts
        BY UnitsAssumption
      <3> QED BY <1>3, <3>1 DEF AttemptsFit
    <2>2. \A x \in Workers : x # w /\ pc[x] # "idle" => target[x] \in Units
      BY DEF TypeOK
    <2>3. \A v \in Units : unit'[v] = "RUNNING" => unit[v] = "RUNNING"
      BY <1>3
    <2> QED
      BY <1>2, <1>4, <2>1, <2>2, <2>3 DEF AttemptsFit, AttemptsOf, OthersKeep
  <1>9. FollowOnsExist'
    <2>1. FollowOnOf(w)'
      BY <1>2, <1>3 DEF FollowOnOf
    <2> QED
      BY <1>2, <1>3, <1>4, <2>1, FollowOnsCarry
  <1>10. VerdictsFit'
    <2>1. ~Settled
      BY <1>1, <1>5 DEF Settled, Terminal
    <2> QED BY <1>2, <1>4, <2>1, Unsettled
  <1>11. SomeoneClosesTheRun'
    BY <1>2 DEF SomeoneClosesTheRun
  <1> QED
    BY <1>7, <1>8, <1>9, <1>10, <1>11

LEMMA LapseKeeps ==
    ASSUME Bounded, IInv, NEW u \in Units, Lapse(u)
    PROVE  ClaimsHeld' /\ AttemptsFit' /\ FollowOnsExist' /\ VerdictsFit' /\ SomeoneClosesTheRun'
  <1> USE DEF IInv
  <1>1. /\ unit[u] = "RUNNING" /\ lapsed' = lapsed \cup {u}
        /\ \A w \in Workers : ~(Executing(w) /\ target[w] = u /\ owner[u] = w)
    BY DEF Lapse
  <1>2. /\ run' = run /\ refreshLost' = refreshLost /\ unit' = unit /\ attempt' = attempt
        /\ owner' = owner /\ pc' = pc /\ target' = target /\ memo' = memo /\ seen' = seen
        /\ back' = back /\ cutoff' = cutoff
    BY DEF Lapse, localVars
  <1>3. ClaimsHeld'
    BY <1>1, <1>2 DEF ClaimsHeld, Executing
  <1>4. AttemptsFit'
    BY <1>2 DEF AttemptsFit, AttemptsOf
  <1>5. FollowOnsExist'
    BY <1>2 DEF FollowOnsExist, FollowOnOf
  <1>6. VerdictsFit' /\ SomeoneClosesTheRun'
    BY <1>2 DEF VerdictsFit, SomeoneClosesTheRun, Settled
  <1> QED
    BY <1>3, <1>4, <1>5, <1>6

LEMMA CancelKeeps ==
    ASSUME IInv, Cancel
    PROVE  ClaimsHeld' /\ AttemptsFit' /\ FollowOnsExist' /\ VerdictsFit' /\ SomeoneClosesTheRun'
  <1> USE DEF IInv
  <1>1. \A v \in Units : unit'[v] = IF unit[v] = "PENDING" THEN "CANCELLED" ELSE unit[v]
    BY DEF Cancel
  <1>2. /\ run' = "CANCELLED" /\ attempt' = attempt /\ owner' = owner /\ lapsed' = lapsed
        /\ pc' = pc /\ target' = target /\ memo' = memo /\ seen' = seen
        /\ back' = back /\ cutoff' = cutoff
    BY DEF Cancel, localVars
  <1>3. \A x \in Workers : pc[x] # "idle" => target[x] \in Units
    BY DEF TypeOK
  <1>4. ClaimsHeld'
    <2>1. \A x \in Workers : Executing(x)' => Executing(x) /\ target[x] \in Units
      BY <1>2, <1>3 DEF Executing, ExecuteSteps, RefreshSteps
    <2>2. \A v \in lapsed : v \in Units
      BY DEF TypeOK
    <2> QED BY <1>1, <1>2, <2>1, <2>2 DEF ClaimsHeld, Terminal
  <1>5. AttemptsFit'
    BY <1>1, <1>2, <1>3 DEF AttemptsFit, AttemptsOf
  <1>6. FollowOnsExist'
    <2>1. \A v \in Units : /\ unit[v] # "absent" => unit'[v] # "absent"
                           /\ unit'[v] = "COMPLETED" => unit[v] = "COMPLETED"
      BY <1>1
    <2>2. \A x \in Workers : back[x] = "complete" => pc[x] # "idle"
      BY DEF LocalsFit, RefreshSteps
    <2>3. \A x \in Workers : FollowOnOf(x)'
      BY <1>2, <1>3, <2>1, <2>2, FollowsAreUnits DEF FollowOnsExist, FollowOnOf
    <2> QED
      BY <2>1, <2>3, FollowsAreUnits, UnitsAssumption DEF FollowOnsExist
  <1>7. VerdictsFit'
    BY <1>1, <1>2 DEF VerdictsFit, Settled, Terminal
  <1>8. SomeoneClosesTheRun'
    BY <1>2 DEF SomeoneClosesTheRun
  <1> QED
    BY <1>4, <1>5, <1>6, <1>7, <1>8

LEMMA RowsStep ==
    ASSUME Bounded, IInv, [Next]_vars
    PROVE  ClaimsHeld' /\ AttemptsFit' /\ FollowOnsExist' /\ VerdictsFit' /\ SomeoneClosesTheRun'
  <1>1. ASSUME NEW w \in Workers, Step(w) \/ Die(w)
        PROVE  Writes(w) \/ Moves(w) \/ AppendCreate(w)
    BY <1>1 DEF Step, Writes, Moves
  <1>2. CASE UNCHANGED vars
    <2>1. /\ run' = run /\ refreshLost' = refreshLost /\ unit' = unit /\ attempt' = attempt
          /\ owner' = owner /\ lapsed' = lapsed /\ pc' = pc /\ target' = target
          /\ memo' = memo /\ seen' = seen /\ back' = back /\ cutoff' = cutoff
      BY <1>2 DEF vars, unitVars, localVars
    <2>2. ClaimsHeld' = ClaimsHeld
      BY <2>1 DEF ClaimsHeld, Executing
    <2>3. AttemptsFit' = AttemptsFit
      BY <2>1 DEF AttemptsFit, AttemptsOf
    <2>4. FollowOnsExist' = FollowOnsExist
      BY <2>1 DEF FollowOnsExist, FollowOnOf
    <2>5. VerdictsFit' = VerdictsFit /\ SomeoneClosesTheRun' = SomeoneClosesTheRun
      BY <2>1 DEF VerdictsFit, SomeoneClosesTheRun, Settled
    <2> QED BY <2>2, <2>3, <2>4, <2>5 DEF IInv
  <1> QED
    BY <1>1, <1>2, WritesKeep, WritesClose, MovesKeep, AppendKeeps, LapseKeeps, CancelKeeps DEF Next

-----------------------------------------------------------------------------
(* The inductive invariant.                                                *)

LEMMA InitIInv == ASSUME Init PROVE IInv
  <1>1. TypeOK
    BY UnitsAssumption DEF Init, TypeOK, UnitStatus, ExecuteSteps, RefreshSteps
  <1>2. LocalsFit /\ ClaimsHeld
    BY DEF Init, LocalsFit, ClaimsHeld, Executing, ExecuteSteps, RefreshSteps
  <1>3. AttemptsFit
    BY UnitsAssumption DEF Init, AttemptsFit, AttemptsOf
  <1>4. VerdictsFit
    BY DEF Init, VerdictsFit
  <1>5. FollowOnsExist
    BY UnitsAssumption DEF Init, FollowOnsExist, FollowOnOf
  <1>6. ~Settled
    BY UnitsAssumption DEF Init, Settled, Terminal
  <1> QED
    BY <1>1, <1>2, <1>3, <1>4, <1>5, <1>6 DEF IInv, SomeoneClosesTheRun

LEMMA NextIInv == ASSUME Bounded, IInv, [Next]_vars PROVE IInv'
  BY TypeStep, LocalsStep, RowsStep DEF IInv

\* With bounded hosting the inductive invariant holds throughout: claims, attempts,
\* verdicts and continuations fit together however workers interleave and die.
THEOREM Inductive == ASSUME Bounded PROVE Spec => []IInv
  <1>1. Init => IInv
    BY InitIInv
  <1>2. IInv /\ [Next]_vars => IInv'
    BY NextIInv
  <1> QED
    BY <1>1, <1>2, PTL DEF Spec

-----------------------------------------------------------------------------
(* What follows.                                                           *)

\* "Exactly one of concurrent claimers wins", for as long as it works (claimUnit): no two
\* invocations execute one unit at the same time, for any number of them.
THEOREM Exclusive == ASSUME Bounded PROVE Spec => []ExclusiveExecution
  <1>1. IInv => ExclusiveExecution
    BY DEF IInv, ClaimsHeld, ExclusiveExecution
  <1> QED
    BY <1>1, Inductive, PTL

\* No unit uses more than its maxAttempts (claimUnit, failUnit, deferUnit).
THEOREM Attempts == ASSUME Bounded PROVE Spec => []AttemptsBounded
  <1>1. IInv => AttemptsBounded
    BY DEF IInv, AttemptsFit, AttemptsOf, AttemptsBounded
  <1> QED
    BY <1>1, Inductive, PTL

\* A run that is COMPLETED has completed every planned unit and every continuation they
\* unlocked (triggerSyncWorker appends before it completes; refreshRun).
THEOREM NeverShort == ASSUME Bounded PROVE Spec => []NotSilentlyShort
  <1>1. ASSUME IInv PROVE NotSilentlyShort
    <2> SUFFICES ASSUME run = "COMPLETED", \A u \in Units : unit[u] # "CANCELLED"
                 PROVE  /\ \A u \in Planned : unit[u] = "COMPLETED"
                        /\ \A u \in Units : unit[u] = "COMPLETED" /\ Follow[u] # 0
                                              => unit[Follow[u]] = "COMPLETED"
      BY DEF NotSilentlyShort
    <2>1. \A u \in Units : unit[u] \in {"COMPLETED", "absent"}
      BY <1>1 DEF IInv, VerdictsFit, Settled, Terminal
    <2> QED
      BY <1>1, <2>1, FollowsAreUnits, UnitsAssumption DEF IInv, FollowOnsExist
  <1> QED
    BY <1>1, Inductive, PTL

\* A run that is COMPLETED or FAILED has no invocation at work on it (refreshRun).
THEOREM Quiet == ASSUME Bounded PROVE Spec => []FinishedIsQuiet
  <1>1. ASSUME IInv PROVE FinishedIsQuiet
    BY <1>1 DEF IInv, TypeOK, ClaimsHeld, VerdictsFit, FinishedIsQuiet, Settled, Terminal,
                Executing, ExecuteSteps, RefreshSteps
  <1> QED
    BY <1>1, Inductive, PTL

\* Concurrent refreshes never leave the end of the run to each other (refreshRun).
THEOREM Closes == ASSUME Bounded PROVE Spec => []SomeoneClosesTheRun
  <1>1. IInv => SomeoneClosesTheRun
    BY DEF IInv
  <1> QED
    BY <1>1, Inductive, PTL
=============================================================================
