---------------------------- MODULE RunAdmission ----------------------------
(***************************************************************************)
(* getOrCreateRun: how concurrent requests to sync end up with one active  *)
(* parent run for the same work.  A request looks for a run it may reuse,  *)
(* refuses beside an incompatible one, and otherwise creates, re-reads and *)
(* collapses duplicates, all without a lock.                               *)
(*                                                                         *)
(* One step is one database statement or one transaction; the two reads    *)
(* with which collapseDuplicateRun decides are taken together.  A request  *)
(* creates at most one run, so runs are named after the request.  Runs of  *)
(* another planner version match no query and are left out.                *)
(***************************************************************************)
EXTENDS Naturals, FiniteSets

CONSTANTS
    Requests,
    Asks,          \* what the requests may ask for: fast, promote, scope of each
    Estate,        \* the scope of a request for everything (no scopeKey)
    None,          \* no run
    Working,       \* workers claim units and runs end meanwhile
    Killed         \* requests whose invocation may be killed

ASSUME AdmissionAssumption ==
    /\ \A w \in Asks : \A r \in Requests : w[r].fast \in BOOLEAN /\ w[r].promote \in BOOLEAN
    /\ Working \in BOOLEAN
    /\ IsFiniteSet(Requests) /\ Killed \subseteq Requests
    /\ None \notin Requests /\ "refused" \notin Requests

VARIABLES
    ask,        \* what each request asks for
    status,     \* of each request's run: none, ACTIVE, CANCELLED (as a duplicate), ENDED
    createdAt,  \* its createdAt, 0 before it has one
    started,    \* runs with a unit that has left PENDING
    pc,
    canonical,  \* the run each request settled on
    victims,    \* duplicates it has still to look at
    victim,     \* the one it is about to cancel
    reply,      \* the run its caller was told, None, or "refused"
    overtaken,  \* history: runs that became visible after one for the same work with a later createdAt
    keptFor     \* history: the run for which each collapsed run was collapsed

locals == <<canonical, victims, victim, reply>>
history == <<overtaken, keptFor>>
vars == <<ask, status, createdAt, started, pc, locals, history>>

Steps == {"lookup", "blocker", "stamp", "commit", "reread", "own", "ownCancel",
          "list", "sweep", "cancel", "done"}

TypeOK ==
    /\ ask \in Asks
    /\ status \in [Requests -> {"none", "ACTIVE", "CANCELLED", "ENDED"}]
    /\ createdAt \in [Requests -> 0 .. Cardinality(Requests)]
    /\ started \subseteq Requests
    /\ pc \in [Requests -> Steps]
    /\ canonical \in [Requests -> Requests \cup {None}]
    /\ victims \in [Requests -> SUBSET Requests]
    /\ victim \in [Requests -> Requests \cup {None}]
    /\ reply \in [Requests -> Requests \cup {None, "refused"}]
    /\ overtaken \subseteq Requests
    /\ keptFor \in [Requests -> Requests \cup {None}]

Init ==
    /\ ask \in Asks
    /\ status = [r \in Requests |-> "none"]
    /\ createdAt = [r \in Requests |-> 0]
    /\ started = {}
    /\ pc = [r \in Requests |-> "lookup"]
    /\ canonical = [r \in Requests |-> None]
    /\ victims = [r \in Requests |-> {}]
    /\ victim = [r \in Requests |-> None]
    /\ reply = [r \in Requests |-> None]
    /\ overtaken = {}
    /\ keptFor = [r \in Requests |-> None]

-----------------------------------------------------------------------------
(* The queries.                                                            *)

Active == {x \in Requests : status[x] = "ACTIVE"}

\* identityConditions: the same breadth and options; the scope is not looked at.
SameWork(x, y) == ask[x].fast = ask[y].fast /\ ask[x].promote = ask[y].promote

\* compatibilityConditions: run x is broad enough for request r.
Satisfies(x, r) == (ask[x].fast => ask[r].fast) /\ ask[x].promote = ask[r].promote

First(x, S) == \A y \in S : createdAt[x] <= createdAt[y]

\* orderBy createdAt; None when no run matches.
Earliest(S) == IF \E x \in S : First(x, S) THEN CHOOSE x \in S : First(x, S) ELSE None

\* Mutant: an estate request adopts whatever findActiveRun finds.
ReusableAnyScope(r) ==
    IF ask[r].scope # Estate
    THEN Earliest({x \in Active : SameWork(x, r) /\ ask[x].scope = ask[r].scope})
    ELSE Earliest({x \in Active : Satisfies(x, r)})

\* What a request may adopt: #unscopedActiveRun, or the scoped search of getOrCreateRun.
Reusable(r) ==
    IF ask[r].scope # Estate
    THEN Earliest({x \in Active : SameWork(x, r) /\ ask[x].scope = ask[r].scope})
    ELSE LET oldest == Earliest({x \in Active : Satisfies(x, r)}) IN
         IF oldest # None /\ ask[oldest].scope = Estate THEN oldest ELSE None

-----------------------------------------------------------------------------
(* A request.                                                              *)

Goto(r, step) == pc' = [pc EXCEPT ![r] = step]

\* The invocation is over, and what it had read is forgotten.
Answer(r, x) ==
    /\ Goto(r, "done")
    /\ reply' = [reply EXCEPT ![r] = x]
    /\ canonical' = [canonical EXCEPT ![r] = None]
    /\ victims' = [victims EXCEPT ![r] = {}]
    /\ victim' = [victim EXCEPT ![r] = None]

Lookup(r) ==
    /\ pc[r] = "lookup"
    /\ canonical' = [canonical EXCEPT ![r] = Reusable(r)]
    /\ Goto(r, IF Reusable(r) = None THEN "blocker" ELSE "list")
    /\ UNCHANGED <<ask, status, createdAt, started, victims, victim, reply, history>>

\* #activeIncompatibleRun
Blocker(r) ==
    /\ pc[r] = "blocker"
    /\ IF Active # {} THEN Answer(r, "refused") ELSE Goto(r, "stamp") /\ UNCHANGED locals
    /\ UNCHANGED <<ask, status, createdAt, started, history>>

Now == Cardinality({x \in Requests : createdAt[x] # 0}) + 1

\* createRun, up to the commit of its transaction: createdAt is the time the transaction starts.
Stamp(r) ==
    /\ pc[r] = "stamp"
    /\ createdAt' = [createdAt EXCEPT ![r] = Now]
    /\ Goto(r, "commit")
    /\ UNCHANGED <<ask, status, started, locals, history>>

\* Mutant: the run is created without looking for a racer's.
CommitAndAnswer(r) ==
    /\ pc[r] = "commit"
    /\ status' = [status EXCEPT ![r] = "ACTIVE"]
    /\ Answer(r, r)
    /\ UNCHANGED <<ask, createdAt, started, history>>

\* createRun commits the parent and its units together.
Commit(r) ==
    /\ pc[r] = "commit"
    /\ status' = [status EXCEPT ![r] = "ACTIVE"]
    /\ overtaken' = IF \E x \in Requests : status[x] # "none" /\ SameWork(x, r) /\ createdAt[x] > createdAt[r]
                    THEN overtaken \cup {r} ELSE overtaken
    /\ Goto(r, "reread")
    /\ UNCHANGED <<ask, createdAt, started, locals, keptFor>>

\* Mutant: the request keeps its own run without looking for an earlier one.
RereadOwn(r) ==
    /\ pc[r] = "reread"
    /\ canonical' = [canonical EXCEPT ![r] = r]
    /\ Goto(r, "list")
    /\ UNCHANGED <<ask, status, createdAt, started, victims, victim, reply, history>>

\* The canonical run, the request's own unless a racer's is earlier.
Reread(r) ==
    LET first == Earliest({x \in Active : SameWork(x, r)})
        own == first \in {None, r}
    IN
    /\ pc[r] = "reread"
    /\ canonical' = [canonical EXCEPT ![r] = IF own THEN r ELSE first]
    /\ Goto(r, IF own THEN "list" ELSE "own")
    /\ UNCHANGED <<ask, status, createdAt, started, victims, victim, reply, history>>

Collapsible(x) == status[x] = "ACTIVE" /\ x \notin started

\* The transaction of collapseDuplicateRun, guarded by the parent's status alone.
Collapse(x, kept) ==
    /\ status' = [status EXCEPT ![x] = IF @ = "ACTIVE" THEN "CANCELLED" ELSE @]
    /\ keptFor' = [keptFor EXCEPT ![x] = IF status[x] = "ACTIVE" THEN kept ELSE @]

\* collapseDuplicateRun of the request's own run: the decision, then the transaction.
Own(r) ==
    /\ pc[r] = "own"
    /\ IF Collapsible(r) THEN Goto(r, "ownCancel") /\ UNCHANGED locals ELSE Answer(r, r)
    /\ UNCHANGED <<ask, status, createdAt, started, history>>

\* Mutant: the caller is handed the outcome of the collapse instead of a run.
OwnCancelOutcome(r) ==
    /\ pc[r] = "ownCancel"
    /\ Collapse(r, canonical[r])
    /\ Answer(r, status[r])
    /\ UNCHANGED <<ask, createdAt, started, overtaken>>

OwnCancel(r) ==
    /\ pc[r] = "ownCancel"
    /\ Collapse(r, canonical[r])
    /\ Answer(r, IF status[r] = "ACTIVE" THEN canonical[r] ELSE r)
    /\ UNCHANGED <<ask, createdAt, started, overtaken>>

\* #collapseDuplicatesOf: the active runs of the canonical run's kind of work, scope ignored.
List(r) ==
    /\ pc[r] = "list"
    /\ victims' = [victims EXCEPT ![r] = {x \in Active : SameWork(x, canonical[r])} \ {canonical[r]}]
    /\ Goto(r, "sweep")
    /\ UNCHANGED <<ask, status, createdAt, started, canonical, victim, reply, history>>

Sweep(r) ==
    /\ pc[r] = "sweep" /\ victims[r] # {}
    /\ LET x == Earliest(victims[r]) IN
        /\ victims' = [victims EXCEPT ![r] = @ \ {x}]
        /\ IF Collapsible(x)
           THEN victim' = [victim EXCEPT ![r] = x] /\ Goto(r, "cancel")
           ELSE UNCHANGED <<victim, pc>>
    /\ UNCHANGED <<ask, status, createdAt, started, canonical, reply, history>>

Cancel(r) ==
    /\ pc[r] = "cancel"
    /\ Collapse(victim[r], canonical[r])
    /\ victim' = [victim EXCEPT ![r] = None]
    /\ Goto(r, "sweep")
    /\ UNCHANGED <<ask, createdAt, started, canonical, victims, reply, overtaken>>

Swept(r) ==
    /\ pc[r] = "sweep" /\ victims[r] = {}
    /\ Answer(r, canonical[r])
    /\ UNCHANGED <<ask, status, createdAt, started, history>>

\* The invocation of a request is killed; its caller learns nothing.
Die(r) ==
    /\ r \in Killed /\ pc[r] # "done"
    /\ Answer(r, None)
    /\ UNCHANGED <<ask, status, createdAt, started, history>>

\* A worker claims the first unit of a run.
Start(x) ==
    /\ Working /\ Collapsible(x)
    /\ started' = started \cup {x}
    /\ UNCHANGED <<ask, status, createdAt, pc, locals, history>>

\* A run finishes (refreshRun), or an operator cancels it, started or not (cancelRun).
End(x) ==
    /\ Working /\ status[x] = "ACTIVE"
    /\ status' = [status EXCEPT ![x] = "ENDED"]
    /\ UNCHANGED <<ask, createdAt, started, pc, locals, history>>

Next ==
    \E r \in Requests :
        \/ Lookup(r) \/ Blocker(r) \/ Stamp(r) \/ Commit(r) \/ Reread(r)
        \/ Own(r) \/ OwnCancel(r) \/ List(r) \/ Sweep(r) \/ Cancel(r) \/ Swept(r)
        \/ Die(r) \/ Start(r) \/ End(r)

Spec == Init /\ [][Next]_vars

-----------------------------------------------------------------------------
(* Properties.                                                             *)

Settled == \A r \in Requests : pc[r] = "done"

\* "reuse must match it EXACTLY in both directions" (getOrCreateRun) and a non-fast request is
\* not satisfied by a fast run (compatibilityConditions): whatever is created, collapsed, started
\* or killed meanwhile, a request is answered with a run that is broad enough and of its own
\* scope.  Excepted is the request that had found nothing, created a run of its own and gave it
\* up for a racer's: there only breadth and options are compared (ScopeExact).
AnsweredAsAsked ==
    \A r \in Requests : reply[r] \in Requests =>
        /\ Satisfies(reply[r], r)
        /\ ask[reply[r]].scope = ask[r].scope \/ (createdAt[r] # 0 /\ SameWork(reply[r], r))

\* "A run that plans ONE source object is not the estate's run, and the estate's run is not its"
\* (getOrCreateRun): nobody is answered with a run of another scope.
ScopeExact ==
    \A r \in Requests : reply[r] \in Requests => ask[reply[r]].scope = ask[r].scope

Duplicates(x, y) == x # y /\ SameWork(x, y) /\ ask[x].scope = ask[y].scope

\* Concurrent creations leave no duplicate behind (getOrCreateRun): once every request is over,
\* two runs that do the same work stand side by side only if one of them has started or an
\* invocation was killed: the later run's, before it could give way, or the earlier run's, which
\* had become visible only after the later one.
OneRunSurvives ==
    Settled =>
        \A x, y \in Active \ started : Duplicates(x, y) /\ createdAt[x] < createdAt[y] =>
            reply[y] = None \/ (reply[x] = None /\ x \in overtaken)

\* Racers do not collapse each other's runs until none is left ("a total order both compute
\* identically", getOrCreateRun): of any runs that were all collapsed for one another, one became
\* visible only after a later one of them, or was collapsed for a run of another scope.
SomeRunSurvives ==
    \A S \in SUBSET Requests :
        S # {} /\ (\A x \in S : status[x] = "CANCELLED" /\ keptFor[x] \in S) =>
            \E x \in S : x \in overtaken \/ ask[x].scope # ask[keptFor[x]].scope

=============================================================================
