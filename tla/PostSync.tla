------------------------------ MODULE PostSync ------------------------------
(***************************************************************************)
(* The post-sync stages of one durable run: the gate that reads the unit   *)
(* rows and seeds the next stage (jobs/postSyncStages.js, advancePostSync),*)
(* appendUnits with its row-by-row creates and its collapse of duplicates, *)
(* and workers that run the walks page by page.                            *)
(*                                                                         *)
(* Claims and leases are those of UnitLifecycle: here a row that nobody is *)
(* on is on offer.  The staging handshake is that of EntityStagingBarrier. *)
(* Consecutive reads are taken together, and so are the read and the write *)
(* of refreshRun.  The run has no deferred source; DeferredSources models  *)
(* those, and what they do to this gate.                                   *)
(***************************************************************************)
EXTENDS Naturals, Sequences, FiniteSets

CONSTANTS
    Networks,   \* platforms of the run
    Awin,       \* those whose campaign parents are materialised from offers
    Rakuten,    \* those with an offer walk
    Days,       \* the days of the pinned aggregation window
    Pages,      \* how many pages the walks of each kind have
    Workers,
    Plans       \* the units createRun plans, the workers that come to the run, and a bound on
                \* the invocations killed and the units failed

Kinds == {"network", "awin", "campaign", "coupon", "offer", "conversion", "aggregation"}
Promotion == {"campaign", "coupon", "offer"}

\* unitIdentity: the kind, the network or day, and the page of a piece of work.
Identities == Kinds \X (Networks \cup Days) \X (1 .. 2)

ASSUME StagesAssumption ==
    /\ Awin \subseteq Networks /\ Rakuten \subseteq Networks
    /\ Pages \in [Kinds -> 1 .. 2]
    /\ \A plan \in Plans : /\ plan.units \subseteq Identities /\ plan.units # {}
                            /\ plan.crew \subseteq Workers /\ plan.faults \in Nat

VARIABLES
    crew,    \* the workers that come to this run
    run,     \* status of the parent
    rows,    \* unit rows in creation order: identity, status, priority and tie-break
    pc,      \* where each worker is
    target,  \* the row it works on, 0 when none
    seeds,   \* identities it still has to append
    top,     \* the highest priority it has seen or used
    dups,    \* rows it still has to delete
    then,    \* what it does when appendUnits or refreshRun returns
    faults   \* invocations that may still be killed and units that may still fail

locals == <<target, seeds, top, dups, then>>
vars == <<crew, run, rows, pc, locals, faults>>

Status == {"PENDING", "RUNNING", "COMPLETED", "DEAD_LETTER", "deleted"}

TypeOK ==
    /\ crew \subseteq Workers
    /\ run \in {"RUNNING", "COMPLETED", "FAILED"}
    /\ rows \in Seq([id : Identities, status : Status, priority : Nat, coin : {0, 1}])
    /\ pc \in [Workers -> {"idle", "working", "append", "create", "collapse", "delete",
                           "refresh", "complete", "plan"}]
    /\ target \in [Workers -> 0 .. Len(rows)]
    /\ seeds \in [Workers -> SUBSET Identities] /\ top \in [Workers -> Nat]
    /\ dups \in [Workers -> SUBSET (1 .. Len(rows))]
    /\ then \in [Workers -> {"idle", "complete", "plan"}]
    /\ faults \in Nat

\* Mutant: the row is created with a status no reader of rows knows.
RowOfQueued(id, priority, coin) ==
    [id |-> id, status |-> "QUEUED", priority |-> priority, coin |-> coin]

RowOf(id, priority, coin) ==
    [id |-> id, status |-> "PENDING", priority |-> priority, coin |-> coin]

\* createRun: the planned units, in some order.
Init ==
    /\ run = "RUNNING"
    /\ \E plan \in Plans : \E order \in [1 .. Cardinality(plan.units) -> plan.units] :
        /\ \A id \in plan.units : \E i \in DOMAIN order : order[i] = id
        /\ rows = [i \in DOMAIN order |-> RowOf(order[i], i, 0)]
        /\ crew = plan.crew /\ faults = plan.faults
    /\ pc = [w \in Workers |-> "idle"]
    /\ target = [w \in Workers |-> 0]
    /\ seeds = [w \in Workers |-> {}]
    /\ top = [w \in Workers |-> 0]
    /\ dups = [w \in Workers |-> {}]
    /\ then = [w \in Workers |-> "idle"]

-----------------------------------------------------------------------------
(* What the rows say.                                                      *)

Kind(id) == id[1]
Scope(id) == id[2]
Standing == {i \in DOMAIN rows : rows[i].status # "deleted"}
Of(kinds) == {i \in Standing : Kind(rows[i].id) \in kinds}
Walk(kind, scope) == {i \in Of({kind}) : Scope(rows[i].id) = scope}

\* walkState, stageState.
StateOf(S) ==
    IF S = {} THEN "absent"
    ELSE IF \E i \in S : rows[i].status = "DEAD_LETTER" THEN "failed"
    ELSE IF \E i \in S : rows[i].status \in {"PENDING", "RUNNING"} THEN "outstanding"
    ELSE "resolved"

Failed == \E i \in Standing : rows[i].status = "DEAD_LETTER"

\* networkPhaseState of a run without deferred sources: without network units, the run was created with post-sync units.
NetworkComplete ==
    IF Of({"network"}) = {} THEN Of(Kinds) # {}
    ELSE \A i \in Of({"network"}) : rows[i].status = "COMPLETED"

postSyncNetworks ==
    LET fetched == {Scope(rows[i].id) : i \in {j \in Of({"network"}) : rows[j].status = "COMPLETED"}}
        named == {Scope(rows[i].id) : i \in Of(Kinds \ {"network", "aggregation"})}
    IN  IF fetched # {} THEN fetched ELSE named

\* awinParentMaterializationRequired
AwinRequired == postSyncNetworks \cap Awin # {} \/ Of({"awin"}) # {}

AwinOutstanding == AwinRequired /\ StateOf(Of({"awin"})) # "resolved"

promotionNetworksSeeded == {Scope(rows[i].id) : i \in Of(Promotion)}

Following(n) == {"coupon"} \cup (IF n \in Rakuten THEN {"offer"} ELSE {})

\* promotionStageState
PromotionResolved ==
    /\ StateOf(Of(Promotion)) = "resolved"
    /\ \A n \in promotionNetworksSeeded : \A kind \in {"campaign"} \cup Following(n) :
          StateOf(Walk(kind, n)) = "resolved"

\* planPostSyncTransition: at most one stage's first pages.
Transition ==
    CASE Failed \/ ~NetworkComplete -> {}
      [] OTHER ->
    CASE AwinOutstanding ->
            IF Of({"awin"}) = {} THEN {<<"awin", n, 1>> : n \in Awin} ELSE {}
      [] OTHER ->
    CASE Of(Promotion) = {} -> {<<"campaign", n, 1>> : n \in postSyncNetworks}
      [] Of(Promotion) # {} /\ ~PromotionResolved ->
            UNION {{<<kind, n, 1>> : kind \in {k \in Following(n) : Walk(k, n) = {}}} :
                   n \in {m \in promotionNetworksSeeded : StateOf(Walk("campaign", m)) = "resolved"}}
      [] OTHER ->
    CASE Of({"conversion"}) = {} -> {<<"conversion", n, 1>> : n \in postSyncNetworks}
      [] StateOf(Of({"conversion"})) = "outstanding" -> {}
      [] OTHER ->
    IF Of({"aggregation"}) = {} THEN {<<"aggregation", d, 1>> : d \in Days} ELSE {}

\* postSyncMayAppendUnits, summarizeUnits
Finished ==
    /\ \A i \in Standing : rows[i].status \in {"COMPLETED", "DEAD_LETTER"}
    /\ Failed \/ Of({"aggregation"}) # {}

-----------------------------------------------------------------------------
(* A worker.                                                               *)

Goto(w, step) == pc' = [pc EXCEPT ![w] = step]

Return(w) ==
    /\ Goto(w, "idle")
    /\ target' = [target EXCEPT ![w] = 0]
    /\ seeds' = [seeds EXCEPT ![w] = {}]
    /\ top' = [top EXCEPT ![w] = 0]
    /\ dups' = [dups EXCEPT ![w] = {}]
    /\ then' = [then EXCEPT ![w] = "idle"]

\* The invocation goes on with what it was about to do.
Resume(w) ==
    IF then[w] = "idle" THEN Return(w)
    ELSE /\ Goto(w, then[w])
         /\ seeds' = [seeds EXCEPT ![w] = {}]
         /\ top' = [top EXCEPT ![w] = 0]
         /\ dups' = [dups EXCEPT ![w] = {}]
         /\ then' = [then EXCEPT ![w] = "idle"]
         /\ UNCHANGED target

Offered ==
    {i \in Standing : \/ rows[i].status = "PENDING"
                      \/ rows[i].status = "RUNNING" /\ \A w \in Workers : target[w] # i}

\* nextWorkableUnit, claimUnit
Take(w) ==
    /\ w \in crew /\ pc[w] = "idle" /\ run = "RUNNING"
    /\ \E i \in Offered :
        /\ \A j \in Offered : rows[i].priority <= rows[j].priority
        /\ rows' = [rows EXCEPT ![i].status = "RUNNING"]
        /\ target' = [target EXCEPT ![w] = i]
    /\ Goto(w, "working")
    /\ UNCHANGED <<run, seeds, top, dups, then>>

\* Mutant: nextWorkableUnit leaves a run without a unit on offer alone.
NeverOpenGate(w) == pc[w] = "idle" /\ FALSE /\ UNCHANGED <<run, rows, pc, locals>>

\* nextWorkableUnit: nothing on offer, so a stage may be ready to open.
OpenGate(w) ==
    /\ w \in crew /\ pc[w] = "idle" /\ run = "RUNNING" /\ Offered = {}
    /\ Goto(w, "plan")
    /\ UNCHANGED <<run, rows, locals>>

\* Mutant: the page is completed before its continuation is appended.
SucceedAlone(w) ==
    /\ pc[w] = "working"
    /\ Goto(w, "complete")
    /\ UNCHANGED <<run, rows, locals>>

\* executeUnit returns; a page that was full has a successor.
Succeed(w) ==
    LET id == rows[target[w]].id IN
    /\ pc[w] = "working"
    /\ IF id[3] < Pages[Kind(id)]
       THEN /\ Goto(w, "append")
            /\ seeds' = [seeds EXCEPT ![w] = {<<id[1], id[2], id[3] + 1>>}]
            /\ then' = [then EXCEPT ![w] = "complete"]
            /\ UNCHANGED <<target, top, dups>>
       ELSE Goto(w, "complete") /\ UNCHANGED locals
    /\ UNCHANGED <<run, rows>>

\* executeUnit throws: failUnit, for which the unit may have no attempts left.
Fail(w, status) ==
    /\ pc[w] = "working"
    /\ faults > 0 /\ faults' = faults - 1
    /\ IF run = "RUNNING"
       THEN /\ rows' = [rows EXCEPT ![target[w]].status = status]
            /\ Goto(w, "refresh")
            /\ target' = [target EXCEPT ![w] = 0]
            /\ UNCHANGED <<seeds, top, dups, then>>
       ELSE rows' = rows /\ Return(w)
    /\ UNCHANGED <<crew, run>>

\* completeUnit; the gate is asked next.
Complete(w) ==
    /\ pc[w] = "complete"
    /\ IF run = "RUNNING"
       THEN /\ rows' = [rows EXCEPT ![target[w]].status = "COMPLETED"]
            /\ Goto(w, "refresh")
       ELSE rows' = rows /\ Goto(w, "plan")
    /\ target' = [target EXCEPT ![w] = 0]
    /\ then' = [then EXCEPT ![w] = IF run = "RUNNING" THEN "plan" ELSE "idle"]
    /\ UNCHANGED <<run, seeds, top, dups>>

\* advancePostSync, up to the append.
Plan(w) ==
    /\ pc[w] = "plan"
    /\ IF run = "RUNNING" /\ Transition # {}
       THEN /\ Goto(w, "append")
            /\ seeds' = [seeds EXCEPT ![w] = Transition]
            /\ UNCHANGED <<target, top, dups, then>>
       ELSE Return(w)
    /\ UNCHANGED <<run, rows>>

\* appendUnits: a terminal run refuses, identities on the run are skipped.
AppendRead(w) ==
    LET new == seeds[w] \ {rows[i].id : i \in Standing} IN
    /\ pc[w] = "append"
    /\ IF run = "RUNNING" /\ new # {}
       THEN /\ Goto(w, "create")
            /\ seeds' = [seeds EXCEPT ![w] = new]
            /\ top' = [top EXCEPT ![w] = CHOOSE p \in {rows[i].priority : i \in Standing} :
                                            \A i \in Standing : rows[i].priority <= p]
            /\ UNCHANGED <<target, dups, then>>
       ELSE Resume(w)
    /\ UNCHANGED <<run, rows>>

\* One create per identity; the row's id, which breaks ties of priority, is random.
Create(w) ==
    /\ pc[w] = "create"
    /\ \E id \in seeds[w], coin \in {0, 1} :
        /\ coin = 1 => \E i \in Standing : rows[i].priority = top[w] + 1
        /\ rows' = Append(rows, RowOf(id, top[w] + 1, coin))
        /\ seeds' = [seeds EXCEPT ![w] = @ \ {id}]
        /\ Goto(w, IF seeds[w] = {id} THEN "collapse" ELSE "create")
    /\ top' = [top EXCEPT ![w] = @ + 1]
    /\ UNCHANGED <<run, target, dups, then>>

Before(i, j) ==
    LET key(k) == <<rows[k].priority, 1 - rows[k].coin, k>> IN
    \E n \in 1 .. 3 : key(i)[n] < key(j)[n] /\ \A m \in 1 .. n - 1 : key(i)[m] = key(j)[m]

\* Mutant: every row of an identity that stands twice is a duplicate.
CollapseBoth(w) ==
    LET found == {i \in Standing : \E j \in Standing \ {i} : rows[j].id = rows[i].id} IN
    /\ pc[w] = "collapse"
    /\ dups' = [dups EXCEPT ![w] = found]
    /\ Goto(w, IF found = {} THEN "refresh" ELSE "delete")
    /\ UNCHANGED <<run, rows, target, seeds, top, then>>

\* #collapseDuplicateUnits, the read: every row but the earliest of its identity.
Collapse(w) ==
    LET found == {i \in Standing : \E j \in Standing : rows[j].id = rows[i].id /\ Before(j, i)} IN
    /\ pc[w] = "collapse"
    /\ dups' = [dups EXCEPT ![w] = found]
    /\ Goto(w, IF found = {} THEN "refresh" ELSE "delete")
    /\ UNCHANGED <<run, rows, target, seeds, top, then>>

\* Mutant: the delete is by id alone.
DeleteAny(w) ==
    /\ pc[w] = "delete"
    /\ \E i \in dups[w] :
        /\ rows' = [rows EXCEPT ![i].status = "deleted"]
        /\ dups' = [dups EXCEPT ![w] = @ \ {i}]
        /\ Goto(w, IF dups[w] = {i} THEN "refresh" ELSE "delete")
    /\ UNCHANGED <<run, target, seeds, top, then>>

\* #collapseDuplicateUnits, the deletes: a row that was claimed stays.
Delete(w) ==
    /\ pc[w] = "delete"
    /\ \E i \in dups[w] :
        /\ rows' = [rows EXCEPT ![i].status = IF @ = "PENDING" THEN "deleted" ELSE @]
        /\ dups' = [dups EXCEPT ![w] = @ \ {i}]
        /\ Goto(w, IF dups[w] = {i} THEN "refresh" ELSE "delete")
    /\ UNCHANGED <<run, target, seeds, top, then>>

\* refreshRun
Refresh(w) ==
    /\ pc[w] = "refresh"
    /\ run' = IF run = "RUNNING" /\ Finished THEN (IF Failed THEN "FAILED" ELSE "COMPLETED") ELSE run
    /\ Resume(w)
    /\ UNCHANGED rows

\* The invocation is killed.
Die(w) ==
    /\ pc[w] # "idle" /\ Return(w)
    /\ faults > 0 /\ faults' = faults - 1
    /\ UNCHANGED <<crew, run, rows>>

Step(w) ==
    /\ \/ Take(w) \/ OpenGate(w) \/ Succeed(w) \/ Complete(w) \/ Plan(w)
       \/ AppendRead(w) \/ Create(w) \/ Collapse(w) \/ Delete(w) \/ Refresh(w)
    /\ UNCHANGED <<crew, faults>>

Next ==
    \E w \in Workers :
        \/ Step(w) \/ Die(w)
        \/ \E status \in {"PENDING", "DEAD_LETTER"} : Fail(w, status)

Spec == Init /\ [][Next]_vars

(* The scheduler calls the worker for ever, and an invocation goes on unless it is killed. *)
FairSpec == Spec /\ \A w \in Workers : WF_vars(Step(w))

-----------------------------------------------------------------------------
(* Properties.                                                             *)

Ran(kind, scope) ==
    \A page \in 1 .. Pages[kind] :
        \E i \in Standing : rows[i].id = <<kind, scope, page>> /\ rows[i].status = "COMPLETED"

\* "Coupon promotion connects to its parent campaign", offers to the advertiser's campaign,
\* and an Awin campaign walk needs its parents (planPostSyncTransition): a walk exists only
\* once the walk it depends on has run to its last page, whoever died or raced on the way.
WalksInOrder ==
    \A i \in Standing :
        LET n == Scope(rows[i].id) IN
        /\ Kind(rows[i].id) \in {"coupon", "offer"} => Ran("campaign", n)
        /\ Kind(rows[i].id) \in Promotion /\ n \in Awin => Ran("awin", n)

\* Collapsing duplicates never loses a piece of work (#collapseDuplicateUnits): once it has
\* a row it has one, although racers collapse from different reads.
WorkIsKept ==
    [][\A i \in Standing : \E j \in Standing' : rows'[j].id = rows[i].id]_vars

\* "A unit another worker has already claimed is never pulled out from under it"
\* (#collapseDuplicateUnits).
NeverPulledAway ==
    \A w \in Workers : target[w] # 0 => rows[target[w]].status # "deleted"

\* "Every requested unit completed and the parent finalises" (summarizeUnits): a run that is
\* COMPLETED has rebuilt every day of its aggregation window.
EveryDayRebuilt == run = "COMPLETED" => \A d \in Days : Ran("aggregation", d)

\* The gate is found again by whoever comes next (nextWorkableUnit): once workers are no longer
\* killed and units no longer fail, the run (one without a deferred source) reaches its
\* aggregation, or a unit is dead.
GateReopens == <>(Of({"aggregation"}) # {} \/ Failed)
=============================================================================
