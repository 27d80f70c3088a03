------------------------ MODULE EntityStagingBarrier ------------------------
(***************************************************************************)
(* The announce-then-verify handshake that keeps Entity staging and the    *)
(* Entity cursor walks apart (jobs/entityStagingBarrier.js), together with *)
(* the post-sync gate that opens the walks (advancePostSync) and the       *)
(* administrative cancellation of a run (cancelRun), which both touch the  *)
(* shared intent marker.                                                   *)
(*                                                                         *)
(* One step is one database statement.  A process that dies leaves its     *)
(* rows behind; they stop counting when their lease lapses.                *)
(***************************************************************************)
EXTENDS Naturals, FiniteSets

CONSTANTS
    Stagers,      \* callers of withStaging: supplier syncs that stage Entity rows
    Gates,        \* invocations of advancePostSync
    Runs,         \* orchestration runs
    RunOf,        \* the run each gate advances
    Cancellable,  \* runs an operator may cancel
    Uncapped,     \* processes on hosting without an invocation limit
    MarkerMayLapse  \* whether a marker nobody refreshes reaches the end of its lease

ASSUME ProcessesAssumption ==
    /\ Stagers \cap Gates = {}
    /\ RunOf \in [Gates -> Runs]
    /\ Cancellable \subseteq Runs
    /\ Uncapped \subseteq Stagers \cup Gates
    /\ MarkerMayLapse \in BOOLEAN

VARIABLES
    spc,        \* where each stager is in enterStaging / withStaging
    ticket,     \* its participant row: "none", "live" (RUNNING, in lease)
    gpc,        \* where each gate is in advancePostSync
    held,       \* the marker row a gate found or wrote (its own name by default)
    marker,     \* the marker row each gate may have written: "none", "live", "lapsed"
    walk,       \* the run's walks: "unseeded", "walking", "over"
    cancelled,  \* runs whose parent row is CANCELLED
    clearing,   \* cancelRun calls between their transaction and clearFreezeIntent
    disturbed,  \* history: processes whose window saw clearFreezeIntent run
    loose       \* history: runs whose walk was seeded by a disturbed or uncapped gate

vars == <<spc, ticket, gpc, held, marker, walk, cancelled,
          clearing, disturbed, loose>>

StagerStates == {"idle", "ticketed", "noWalk", "refused", "staging", "dead"}
GateStates ==
    {"idle", "planned", "refresh", "create", "announced", "verified", "seeded"}

TypeOK ==
    /\ spc \in [Stagers -> StagerStates]
    /\ ticket \in [Stagers -> {"none", "live"}]
    /\ gpc \in [Gates -> GateStates]
    /\ held \in [Gates -> Gates]
    /\ marker \in [Gates -> {"none", "live", "lapsed"}]
    /\ walk \in [Runs -> {"unseeded", "walking", "over"}]
    /\ cancelled \subseteq Runs
    /\ clearing \subseteq cancelled
    /\ disturbed \subseteq Stagers \cup Gates
    /\ loose \subseteq Runs

Init ==
    /\ spc = [s \in Stagers |-> "idle"]
    /\ ticket = [s \in Stagers |-> "none"]
    /\ gpc = [g \in Gates |-> "idle"]
    /\ held = [g \in Gates |-> g]
    /\ marker = [g \in Gates |-> "none"]
    /\ walk = [r \in Runs |-> "unseeded"]
    /\ cancelled = {}
    /\ clearing = {}
    /\ disturbed = {}
    /\ loose = {}

-----------------------------------------------------------------------------
(* What the two sides read.                                                *)

\* An active run whose rows put it in promoting or conversion_promoting.
Walking(r) == r \notin cancelled /\ walk[r] = "walking"
derivedFreeze == \E r \in Runs : Walking(r)
freezeIntent == {m \in Gates : marker[m] = "live"}
activeParticipants == {s \in Stagers : ticket[s] = "live"}

\* The stretches of a handler in which it relies on the marker standing.
StagerWindow == {s \in Stagers : spc[s] \in {"ticketed", "noWalk"}}
GateWindow == {g \in Gates : gpc[g] \in {"refresh", "announced", "verified"}}

-----------------------------------------------------------------------------
(* Stagers.                                                                *)

stagerVars == <<spc, ticket>>
gateVars == <<gpc, held, marker>>
runVars == <<walk, cancelled, clearing, loose>>

\* enterStaging, first half: the participant row is written before anything is read.
Announce(s) ==
    /\ spc[s] = "idle"
    /\ spc' = [spc EXCEPT ![s] = "ticketed"]
    /\ ticket' = [ticket EXCEPT ![s] = "live"]
    /\ disturbed' = disturbed \ {s}
    /\ UNCHANGED <<gateVars, runVars>>

\* freezeState, first read: the derived freeze.
ReadDerived(s) ==
    /\ spc[s] = "ticketed"
    /\ spc' = [spc EXCEPT ![s] = IF derivedFreeze THEN "refused" ELSE "noWalk"]
    /\ UNCHANGED <<ticket, gateVars, runVars, disturbed>>

\* Mutant: freezeState stops after the derived freeze.
ReadIntentSkipped(s) ==
    /\ spc[s] = "noWalk"
    /\ spc' = [spc EXCEPT ![s] = "staging"]
    /\ UNCHANGED <<ticket, gateVars, runVars, disturbed>>

\* freezeState, second read: a pending transition.
ReadIntent(s) ==
    /\ spc[s] = "noWalk"
    /\ spc' = [spc EXCEPT ![s] = IF freezeIntent # {} THEN "refused" ELSE "staging"]
    /\ UNCHANGED <<ticket, gateVars, runVars, disturbed>>

\* leaveStaging: after the work (withStaging's finally) or after a refusal.
leaveStaging(s) ==
    /\ spc[s] \in {"refused", "staging"}
    /\ spc' = [spc EXCEPT ![s] = "idle"]
    /\ ticket' = [ticket EXCEPT ![s] = "none"]
    /\ UNCHANGED <<gateVars, runVars, disturbed>>

\* The process is killed: its ticket stays RUNNING.
StagerDies(s) ==
    /\ spc[s] \notin {"idle", "dead"}
    /\ spc' = [spc EXCEPT ![s] = "dead"]
    /\ UNCHANGED <<ticket, gateVars, runVars, disturbed>>

\* Mutant: the participant query of a dead stager is not bounded by the lease.
TicketOfTheDeadStays(s) ==
    /\ ticket[s] = "live" /\ s \in Uncapped
    /\ ticket' = [ticket EXCEPT ![s] = "none"]
    /\ UNCHANGED <<spc, gateVars, runVars, disturbed>>

\* The participant lease runs out.  It is six times the invocation limit, so the
\* stager is gone by then unless its hosting has no limit.
TicketLapses(s) ==
    /\ ticket[s] = "live"
    /\ spc[s] = "dead" \/ s \in Uncapped
    /\ ticket' = [ticket EXCEPT ![s] = "none"]
    /\ spc' = [spc EXCEPT ![s] = IF spc[s] = "dead" THEN "idle" ELSE spc[s]]
    /\ UNCHANGED <<gateVars, runVars, disturbed>>

-----------------------------------------------------------------------------
(* The gate.                                                               *)

\* advancePostSync plans promotion_campaign_seeded: an active run, promotion absent.
Plan(g) ==
    /\ gpc[g] = "idle"
    /\ RunOf[g] \notin cancelled
    /\ walk[RunOf[g]] = "unseeded"
    /\ gpc' = [gpc EXCEPT ![g] = "planned"]
    /\ disturbed' = disturbed \ {g}
    /\ UNCHANGED <<held, marker, stagerVars, runVars>>

\* announceFreezeIntent, first statement: is there a live marker already?
LookForMarker(g) ==
    /\ gpc[g] = "planned"
    /\ \/ /\ freezeIntent = {}
          /\ gpc' = [gpc EXCEPT ![g] = "create"]
          /\ held' = [held EXCEPT ![g] = g]
       \/ \E m \in freezeIntent :
          /\ gpc' = [gpc EXCEPT ![g] = "refresh"]
          /\ held' = [held EXCEPT ![g] = m]
    /\ UNCHANGED <<marker, stagerVars, runVars, disturbed>>

\* announceFreezeIntent, second statement: a new startedAt on the row found, whatever
\* its status is by now, or a new row.
WriteMarker(g) ==
    /\ \/ /\ gpc[g] = "refresh"
          /\ marker' = [marker EXCEPT ![held[g]] = IF @ = "lapsed" THEN "live" ELSE @]
       \/ /\ gpc[g] = "create"
          /\ marker' = [marker EXCEPT ![g] = "live"]
    /\ gpc' = [gpc EXCEPT ![g] = "announced"]
    /\ UNCHANGED <<held, stagerVars, runVars, disturbed>>

\* Mutant: the gate announces but does not verify.
ParticipantsIgnored(g) ==
    /\ gpc[g] = "announced"
    /\ gpc' = [gpc EXCEPT ![g] = "verified"]
    /\ UNCHANGED <<held, marker, stagerVars, runVars, disturbed>>

\* activeParticipants: any at all, and the gate returns staging_in_flight with the marker up.
LookForParticipants(g) ==
    /\ gpc[g] = "announced"
    /\ gpc' = [gpc EXCEPT ![g] = IF activeParticipants = {} THEN "verified" ELSE "idle"]
    /\ UNCHANGED <<held, marker, stagerVars, runVars, disturbed>>

\* appendUnits: a terminal run refuses the seeds, rows that exist are not repeated.
Seed(g) ==
    LET r == RunOf[g] IN
    /\ gpc[g] = "verified"
    /\ gpc' = [gpc EXCEPT ![g] = "seeded"]
    /\ IF r \notin cancelled /\ walk[r] = "unseeded"
       THEN /\ walk' = [walk EXCEPT ![r] = "walking"]
            /\ loose' = IF g \in disturbed \cup Uncapped THEN loose \cup {r} ELSE loose
       ELSE UNCHANGED <<walk, loose>>
    /\ UNCHANGED <<held, marker, stagerVars, cancelled, clearing, disturbed>>

\* clearFreezeIntent: every live marker, whichever run announced it.
ClearMarkers ==
    /\ marker' = [m \in Gates |-> IF marker[m] = "live" THEN "none" ELSE marker[m]]
    /\ disturbed' = disturbed \cup StagerWindow \cup GateWindow

ClearAfterSeeding(g) ==
    /\ gpc[g] = "seeded"
    /\ gpc' = [gpc EXCEPT ![g] = "idle"]
    /\ ClearMarkers
    /\ UNCHANGED <<held, stagerVars, runVars>>

\* The gate's process is killed; its marker stays.
GateDies(g) ==
    /\ gpc[g] # "idle"
    /\ gpc' = [gpc EXCEPT ![g] = "idle"]
    /\ UNCHANGED <<held, marker, stagerVars, runVars, disturbed>>

\* The marker's lease is twice the invocation limit.  So it outlives the invocation that
\* wrote or refreshed it, and, when that invocation seeded a walk, also every stager that
\* had looked for a walk before the seeding.
MarkerLapses(m) ==
    /\ MarkerMayLapse
    /\ marker[m] = "live"
    /\ \A g \in Gates \ Uncapped :
          held[g] = m =>
            /\ gpc[g] \notin {"announced", "verified", "seeded"}
            /\ Walking(RunOf[g]) => \A s \in Stagers \ Uncapped : spc[s] # "noWalk"
    /\ marker' = [marker EXCEPT ![m] = "lapsed"]
    /\ UNCHANGED <<gpc, held, stagerVars, runVars, disturbed>>

-----------------------------------------------------------------------------
(* Runs.                                                                   *)

\* The last promotion and conversion pages settle (or one of them dead-letters): the
\* run's stage is neither promoting nor conversion_promoting any more.
WalkEnds(r) ==
    /\ Walking(r)
    /\ walk' = [walk EXCEPT ![r] = "over"]
    /\ UNCHANGED <<stagerVars, gateVars, cancelled, clearing, loose, disturbed>>

\* Mutant: the marker is dropped whether or not the parent could be cancelled.
CancelClearsAnyway(r) ==
    /\ r \in Cancellable \ cancelled
    /\ clearing' = clearing \cup {r}
    /\ UNCHANGED <<stagerVars, gateVars, walk, cancelled, loose, disturbed>>

\* cancelRun, the transaction: the parent becomes CANCELLED.
Cancel(r) ==
    /\ r \in Cancellable \ cancelled
    /\ cancelled' = cancelled \cup {r}
    /\ clearing' = clearing \cup {r}
    /\ UNCHANGED <<stagerVars, gateVars, walk, loose, disturbed>>

\* cancelRun, the statement after it: the shared marker is dropped.
CancelClears(r) ==
    /\ r \in clearing
    /\ clearing' = clearing \ {r}
    /\ ClearMarkers
    /\ UNCHANGED <<gpc, held, stagerVars, walk, cancelled, loose>>

-----------------------------------------------------------------------------

Next ==
    \/ \E s \in Stagers :
        \/ Announce(s) \/ ReadDerived(s) \/ ReadIntent(s)
        \/ leaveStaging(s) \/ StagerDies(s) \/ TicketLapses(s)
    \/ \E g \in Gates :
        \/ Plan(g) \/ LookForMarker(g) \/ WriteMarker(g) \/ LookForParticipants(g)
        \/ Seed(g) \/ ClearAfterSeeding(g) \/ GateDies(g) \/ MarkerLapses(g)
    \/ \E r \in Runs : WalkEnds(r) \/ Cancel(r) \/ CancelClears(r)

Spec == Init /\ [][Next]_vars

(* A stager finishes what it started and its rows lapse when it is dead; the scheduler     *)
(* calls the worker again and again, and no statement of the gate is the one at which      *)
(* every invocation is killed, or the one at which a stager is always in the way.          *)
Fairness ==
    /\ \A s \in Stagers :
        /\ WF_vars(ReadDerived(s)) /\ WF_vars(ReadIntent(s))
        /\ WF_vars(leaveStaging(s)) /\ WF_vars(TicketLapses(s))
    /\ \A g \in Gates :
        /\ WF_vars(Plan(g)) /\ SF_vars(LookForMarker(g)) /\ SF_vars(WriteMarker(g))
        /\ SF_vars(LookForParticipants(g) /\ activeParticipants = {})
        /\ SF_vars(Seed(g))

FairSpec == Spec /\ Fairness

-----------------------------------------------------------------------------
(* Properties.                                                             *)

Staging(s) == spc[s] = "staging"

\* What the handshake does guarantee: a stager is inside an open walk only if
\* clearFreezeIntent ran while that stager was between its reads, or while the gate that
\* seeded the walk was in its handshake, or one of the two outlived its lease.
ExclusionUnlessDisturbed ==
    \A s \in Stagers, r \in Runs :
        Staging(s) /\ Walking(r) => s \in disturbed \cup Uncapped \/ r \in loose

\* The gate's look at the participants is never out of date in the dangerous direction:
\* when appendUnits opens a walk at the end of an undisturbed handshake, nobody is inside
\* staging, whoever announced itself between that look and the seeding (advancePostSync).
SeedFindsNobodyInside ==
    [][\A r \in Runs :
        ~Walking(r) /\ Walking(r)' /\ r \notin loose' =>
            \A s \in Stagers \ Uncapped : ~Staging(s)]_vars

\* "The gate seeds on a later invocation": a run that is not cancelled gets its walk,
\* however often a stager comes back (advancePostSync under a scheduler that retries).
GateEventuallySeeds ==
    \A r \in Runs : <>(walk[r] # "unseeded" \/ r \in cancelled)

\* What the sticky marker does give (advancePostSync, enterStaging): once stagers stop
\* coming, the tickets of those that died lapse and the gate of every run that is not
\* cancelled gets through, however often its invocations are killed on the way.
GateSeedsOnceQuiet ==
    <>[][\A s \in Stagers : ~Announce(s)]_vars => GateEventuallySeeds
=============================================================================
