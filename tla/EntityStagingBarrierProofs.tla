--------------------- MODULE EntityStagingBarrierProofs ---------------------
(***************************************************************************)
(* The guarantees of the staging barrier for every number of stagers,      *)
(* gates and runs, and every choice of the processes without a limit.      *)
(***************************************************************************)
EXTENDS EntityStagingBarrier, TLAPS

Capped == Stagers \ Uncapped

\* A gate whose handshake the marker still protects.
Clean(g) == g \in Gates \ (disturbed \cup Uncapped)

\* A stager within its lease holds a live ticket from before its reads to its last write.
TicketsHeld ==
    \A s \in Capped :
        spc[s] \in {"ticketed", "noWalk", "refused", "staging"} => ticket[s] = "live"

\* A clean gate's marker stands from the write on.
MarkersStand ==
    \A g \in Gates :
        /\ gpc[g] = "create" => held[g] = g
        /\ Clean(g) /\ gpc[g] = "refresh" => marker[held[g]] # "none"
        /\ Clean(g) /\ gpc[g] \in {"announced", "verified"} => marker[held[g]] = "live"

\* Between a clean gate's look and its seeding nobody is inside.
VerifiedIsEmpty ==
    \A g \in Gates, s \in Capped :
        Clean(g) /\ gpc[g] = "verified" => spc[s] # "staging"

\* Once a clean gate has seeded, whoever is inside was let in by a clearing, and whoever
\* has missed the walk will still meet the marker of the gate that seeded it.
WalkIsGuarded ==
    \A r \in Runs, s \in Capped :
        Walking(r) /\ r \notin loose /\ s \notin disturbed =>
            /\ spc[s] # "staging"
            /\ spc[s] = "noWalk" =>
                 \E g \in Gates \ Uncapped :
                    /\ RunOf[g] = r
                    /\ gpc[g] \in {"seeded", "idle"}
                    /\ marker[held[g]] = "live"

IInv == TypeOK /\ TicketsHeld /\ MarkersStand /\ VerifiedIsEmpty /\ WalkIsGuarded

-----------------------------------------------------------------------------
\* Every initial state satisfies the inductive invariant (no row exists yet).
LEMMA InitIInv == Init => IInv
  BY ProcessesAssumption
     DEF Init, IInv, TypeOK, TicketsHeld, MarkersStand, VerifiedIsEmpty, WalkIsGuarded,
         Walking, Capped, Clean, StagerStates, GateStates

\* The statements of a stager (enterStaging, freezeState, leaveStaging) preserve it.
LEMMA StagerStep ==
    ASSUME IInv, NEW s \in Stagers,
           \/ Announce(s) \/ ReadDerived(s) \/ ReadIntent(s)
           \/ leaveStaging(s) \/ StagerDies(s) \/ TicketLapses(s)
    PROVE  IInv'
  <1> USE ProcessesAssumption
  <1>0. UNCHANGED <<gateVars, runVars>>
    BY DEF Announce, ReadDerived, ReadIntent, leaveStaging, StagerDies, TicketLapses
  <1>1. TypeOK'
    BY DEF IInv, TypeOK, StagerStates, Announce, ReadDerived, ReadIntent, leaveStaging,
           StagerDies, TicketLapses, gateVars, runVars
  <1>2. TicketsHeld'
    BY DEF IInv, TypeOK, TicketsHeld, Capped, Announce, ReadDerived, ReadIntent,
           leaveStaging, StagerDies, TicketLapses
  <1>3. MarkersStand'
    BY <1>0 DEF IInv, TypeOK, MarkersStand, Clean, Announce, ReadDerived, ReadIntent,
           leaveStaging, StagerDies, TicketLapses, gateVars
  <1>4. VerifiedIsEmpty'
    BY <1>0 DEF IInv, TypeOK, VerifiedIsEmpty, MarkersStand, Clean, Capped, freezeIntent,
           Announce, ReadDerived, ReadIntent, leaveStaging, StagerDies, TicketLapses,
           gateVars
  <1>5. WalkIsGuarded'
    <2> SUFFICES ASSUME NEW r \in Runs, NEW t \in Capped,
                        Walking(r), r \notin loose, t \notin disturbed'
                 PROVE  /\ spc'[t] # "staging"
                        /\ spc'[t] = "noWalk" =>
                             \E g \in Gates \ Uncapped :
                                /\ RunOf[g] = r
                                /\ gpc[g] \in {"seeded", "idle"}
                                /\ marker[held[g]] = "live"
      BY <1>0 DEF WalkIsGuarded, Walking, gateVars, runVars
    <2>1. CASE spc'[t] \notin {"noWalk", "staging"}
      BY <2>1
    <2>2. CASE spc'[t] = "noWalk" \/ spc'[t] = "staging"
      <3>1. t \notin disturbed
        BY <2>2 DEF IInv, TypeOK, Capped, Announce, ReadDerived, ReadIntent,
               leaveStaging, StagerDies, TicketLapses
      <3>2. CASE spc'[t] = spc[t]
        BY <2>2, <3>1, <3>2 DEF IInv, WalkIsGuarded
      <3>3. CASE spc'[t] # spc[t]
        <4>1. t = s /\ (ReadDerived(s) \/ ReadIntent(s))
          BY <2>2, <3>3 DEF IInv, TypeOK, Capped, Announce, ReadDerived, ReadIntent,
                 leaveStaging, StagerDies, TicketLapses
        <4>2. ~ReadDerived(s)
          BY <2>2, <4>1 DEF IInv, TypeOK, ReadDerived, derivedFreeze
        <4>3. \E g \in Gates : marker[held[g]] = "live"
          BY <3>1, <4>1, <4>2 DEF IInv, WalkIsGuarded, ReadIntent, Capped
        <4>4. FALSE
          BY <4>1, <4>2, <4>3, <2>2 DEF IInv, TypeOK, ReadIntent, freezeIntent
        <4> QED BY <4>4
      <3> QED BY <3>2, <3>3
    <2> QED BY <2>1, <2>2
  <1> QED BY <1>1, <1>2, <1>3, <1>4, <1>5 DEF IInv
\* clearFreezeIntent, whoever calls it, preserves what the marker protects: every process
\* that relied on a marker it drops becomes disturbed.
LEMMA ClearStep ==
    ASSUME IInv, ClearMarkers,
           gpc' \in [Gates -> GateStates],
           \A g \in Gates : gpc'[g] # gpc[g] => gpc[g] = "seeded" /\ gpc'[g] = "idle",
           UNCHANGED <<held, spc, ticket, walk, loose>>,
           cancelled \subseteq cancelled'
    PROVE  TicketsHeld' /\ MarkersStand' /\ VerifiedIsEmpty' /\ WalkIsGuarded'
  <1> USE ProcessesAssumption
  <1>1. TicketsHeld'
    BY DEF IInv, TicketsHeld, Capped
  <1>2. MarkersStand'
    BY DEF IInv, TypeOK, GateStates, MarkersStand, Clean, ClearMarkers, GateWindow
  <1>3. VerifiedIsEmpty'
    BY DEF IInv, TypeOK, GateStates, VerifiedIsEmpty, Clean, Capped, ClearMarkers,
           GateWindow
  <1>4. WalkIsGuarded'
    BY DEF IInv, TypeOK, WalkIsGuarded, Walking, Capped, ClearMarkers, StagerWindow
  <1> QED BY <1>1, <1>2, <1>3, <1>4

\* The statements of a gate (advancePostSync, announceFreezeIntent) preserve it.
LEMMA GateStep ==
    ASSUME IInv, NEW g \in Gates,
           \/ Plan(g) \/ LookForMarker(g) \/ WriteMarker(g) \/ LookForParticipants(g)
           \/ Seed(g) \/ GateDies(g) \/ MarkerLapses(g)
    PROVE  IInv'
  <1> USE ProcessesAssumption
  <1>0. UNCHANGED <<stagerVars, cancelled, clearing>>
    BY DEF Plan, LookForMarker, WriteMarker, LookForParticipants, Seed, GateDies,
           MarkerLapses, runVars
  <1>1. TypeOK'
    BY DEF IInv, TypeOK, GateStates, Plan, LookForMarker, WriteMarker, Seed, GateDies,
           LookForParticipants, MarkerLapses, stagerVars, runVars, freezeIntent
  <1>2. TicketsHeld'
    BY <1>0 DEF IInv, TicketsHeld, stagerVars
  <1>3. MarkersStand'
    <2>1. CASE Plan(g) \/ LookForMarker(g) \/ GateDies(g) \/ Seed(g) \/ LookForParticipants(g)
      BY <2>1 DEF IInv, TypeOK, GateStates, MarkersStand, Clean, Plan, LookForMarker,
             GateDies, Seed, LookForParticipants, freezeIntent
    <2>2. CASE WriteMarker(g)
      BY <2>2 DEF IInv, TypeOK, GateStates, MarkersStand, Clean, WriteMarker
    <2>3. CASE MarkerLapses(g)
      BY <2>3 DEF IInv, TypeOK, GateStates, MarkersStand, Clean, MarkerLapses
    <2> QED BY <2>1, <2>2, <2>3
  <1>4. VerifiedIsEmpty'
    <2>1. CASE LookForParticipants(g)
      BY <2>1 DEF IInv, TypeOK, GateStates, VerifiedIsEmpty, TicketsHeld, Clean, Capped,
             LookForParticipants, activeParticipants, stagerVars
    <2>2. CASE Plan(g)
      BY <2>2 DEF IInv, TypeOK, VerifiedIsEmpty, Clean, Capped, Plan, stagerVars
    <2>3. CASE LookForMarker(g) \/ WriteMarker(g) \/ Seed(g) \/ GateDies(g) \/ MarkerLapses(g)
      BY <2>3 DEF IInv, TypeOK, VerifiedIsEmpty, Clean, Capped, LookForMarker,
             WriteMarker, Seed, GateDies, MarkerLapses, stagerVars
    <2> QED BY <2>1, <2>2, <2>3
  <1>5. WalkIsGuarded'
    <2> SUFFICES ASSUME NEW r \in Runs, NEW t \in Capped,
                        Walking(r)', r \notin loose', t \notin disturbed'
                 PROVE  /\ spc[t] # "staging"
                        /\ spc[t] = "noWalk" =>
                             \E h \in Gates \ Uncapped :
                                /\ RunOf[h] = r
                                /\ gpc'[h] \in {"seeded", "idle"}
                                /\ marker'[held'[h]] = "live"
      BY <1>0 DEF WalkIsGuarded, stagerVars
    <2>1. t \notin disturbed /\ r \notin loose
      BY DEF IInv, TypeOK, Capped, Plan, LookForMarker, WriteMarker, Seed, GateDies,
             LookForParticipants, MarkerLapses, stagerVars, runVars
    <2>2. CASE ~Walking(r)
      <3>1. Seed(g) /\ RunOf[g] = r /\ g \notin disturbed \cup Uncapped
        BY <2>2, <1>0 DEF IInv, TypeOK, Walking, Plan, LookForMarker, WriteMarker, Seed,
               GateDies, LookForParticipants, MarkerLapses, runVars
      <3> QED
        BY <3>1 DEF IInv, TypeOK, GateStates, VerifiedIsEmpty, MarkersStand, Clean,
               Capped, Seed
    <2>3. CASE Walking(r)
      <3>1. spc[t] # "staging"
        BY <2>1, <2>3 DEF IInv, WalkIsGuarded
      <3>2. ASSUME spc[t] = "noWalk"
            PROVE  \E h \in Gates \ Uncapped :
                        /\ RunOf[h] = r
                        /\ gpc'[h] \in {"seeded", "idle"}
                        /\ marker'[held'[h]] = "live"
        <4>1. PICK h \in Gates \ Uncapped :
                        /\ RunOf[h] = r
                        /\ gpc[h] \in {"seeded", "idle"}
                        /\ marker[held[h]] = "live"
          BY <2>1, <2>3, <3>2 DEF IInv, WalkIsGuarded
        <4>2. gpc'[h] \in {"seeded", "idle"} /\ held'[h] = held[h]
          BY <4>1, <2>3 DEF IInv, TypeOK, GateStates, Walking, Plan, LookForMarker,
                 WriteMarker, Seed, GateDies, LookForParticipants, MarkerLapses
        <4>3. marker'[held[h]] = "live"
          <5>1. held[h] \in Gates
            BY <4>1 DEF IInv, TypeOK
          <5>2. CASE MarkerLapses(g)
            BY <5>1, <5>2, <4>1, <2>3, <3>2 DEF IInv, TypeOK, MarkerLapses, Capped
          <5>3. CASE ~MarkerLapses(g)
            BY <5>1, <5>3, <4>1 DEF IInv, TypeOK, Plan, LookForMarker, WriteMarker, Seed,
                   GateDies, LookForParticipants
          <5> QED BY <5>2, <5>3
        <4> QED BY <4>1, <4>2, <4>3
      <3> QED BY <3>1, <3>2
    <2> QED BY <2>2, <2>3
  <1> QED BY <1>1, <1>2, <1>3, <1>4, <1>5 DEF IInv
\* The steps of a run (its walks end, cancelRun) preserve it.
LEMMA RunStep ==
    ASSUME IInv, NEW r \in Runs, WalkEnds(r) \/ Cancel(r)
    PROVE  IInv'
  <1> USE ProcessesAssumption
  <1>1. TypeOK'
    BY DEF IInv, TypeOK, WalkEnds, Cancel, stagerVars, gateVars
  <1>2. TicketsHeld' /\ MarkersStand' /\ VerifiedIsEmpty'
    BY DEF IInv, TicketsHeld, MarkersStand, VerifiedIsEmpty, Clean, WalkEnds, Cancel,
           stagerVars, gateVars
  <1>3. WalkIsGuarded'
    BY DEF IInv, TypeOK, WalkIsGuarded, Walking, WalkEnds, Cancel, stagerVars, gateVars
  <1> QED BY <1>1, <1>2, <1>3 DEF IInv

\* The two callers of clearFreezeIntent preserve it.
LEMMA ClearingStep ==
    ASSUME IInv,
           \/ \E g \in Gates : ClearAfterSeeding(g)
           \/ \E r \in Runs : CancelClears(r)
    PROVE  IInv'
  <1>1. TypeOK'
    BY DEF IInv, TypeOK, GateStates, ClearAfterSeeding, CancelClears, ClearMarkers,
           StagerWindow, GateWindow, stagerVars, runVars
  <1>2. TicketsHeld' /\ MarkersStand' /\ VerifiedIsEmpty' /\ WalkIsGuarded'
    BY <1>1, ClearStep
       DEF IInv, TypeOK, GateStates, ClearAfterSeeding, CancelClears, stagerVars, runVars
  <1> QED BY <1>1, <1>2 DEF IInv

\* Every statement of every process preserves the inductive invariant.
LEMMA NextIInv == IInv /\ [Next]_vars => IInv'
  <1> SUFFICES ASSUME IInv, [Next]_vars PROVE IInv'
    OBVIOUS
  <1>1. CASE UNCHANGED vars
    BY <1>1 DEF vars, IInv, TypeOK, TicketsHeld, MarkersStand, VerifiedIsEmpty,
           WalkIsGuarded, Walking, Clean
  <1>2. CASE Next
    BY <1>2, StagerStep, GateStep, RunStep, ClearingStep DEF Next
  <1> QED BY <1>1, <1>2

\* The inductive invariant holds in every reachable state.
THEOREM Inductive == Spec => []IInv
  <1>1. Init => IInv
    BY InitIInv
  <1>2. IInv /\ [Next]_vars => IInv'
    BY NextIInv
  <1> QED BY <1>1, <1>2, PTL DEF Spec

\* The rows of the barrier are always well formed, and only a cancelled run is between
\* its transaction and its clearFreezeIntent.
THEOREM TypeCorrect == Spec => []TypeOK
  <1>1. IInv => TypeOK
    BY DEF IInv
  <1> QED BY <1>1, Inductive, PTL

\* The guarantee of enterStaging and advancePostSync together: a stager is inside an open
\* walk only if clearFreezeIntent ran in one of the two handshakes, or a process outlived
\* its lease.
THEOREM Exclusion == Spec => []ExclusionUnlessDisturbed
  <1>1. IInv => ExclusionUnlessDisturbed
    BY DEF IInv, WalkIsGuarded, ExclusionUnlessDisturbed, Staging, Capped
  <1> QED BY <1>1, Inductive, PTL

\* An undisturbed handshake opens a walk only when nobody is inside (advancePostSync).
THEOREM SeedsEmpty == Spec => SeedFindsNobodyInside
  <1>1. IInv /\ IInv' /\ [Next]_vars =>
            [\A r \in Runs :
                ~Walking(r) /\ Walking(r)' /\ r \notin loose' =>
                    \A s \in Stagers \ Uncapped : ~Staging(s)]_vars
    <2> SUFFICES ASSUME IInv, IInv', Next, NEW r \in Runs, ~Walking(r), Walking(r)',
                        r \notin loose', NEW s \in Stagers \ Uncapped
                 PROVE  ~Staging(s)
      BY DEF vars
    <2>1. \A q \in Runs : ~WalkEnds(q) /\ ~Cancel(q)
      <3>1. ASSUME NEW q \in Runs, WalkEnds(q) PROVE FALSE
        BY <3>1 DEF IInv, TypeOK, Walking, WalkEnds
      <3>2. ASSUME NEW q \in Runs, Cancel(q) PROVE FALSE
        BY <3>2 DEF Walking, Cancel
      <3> QED BY <3>1, <3>2
    <2>2. \E g \in Gates : Seed(g)
      <3> SUFFICES ASSUME \A g \in Gates : ~Seed(g) PROVE UNCHANGED <<walk, cancelled>>
        BY DEF Walking
      <3>1. ASSUME NEW q \in Stagers,
                   \/ Announce(q) \/ ReadDerived(q) \/ ReadIntent(q)
                   \/ leaveStaging(q) \/ StagerDies(q) \/ TicketLapses(q)
            PROVE  UNCHANGED <<walk, cancelled>>
        BY <3>1 DEF Announce, ReadDerived, ReadIntent, leaveStaging, StagerDies, TicketLapses, runVars
      <3>2. ASSUME NEW g \in Gates,
                   \/ Plan(g) \/ LookForMarker(g) \/ WriteMarker(g) \/ LookForParticipants(g)
                   \/ ClearAfterSeeding(g) \/ GateDies(g) \/ MarkerLapses(g)
            PROVE  UNCHANGED <<walk, cancelled>>
        BY <3>2 DEF Plan, LookForMarker, WriteMarker, LookForParticipants, ClearAfterSeeding,
                    GateDies, MarkerLapses, runVars
      <3>3. ASSUME NEW q \in Runs, CancelClears(q) PROVE UNCHANGED <<walk, cancelled>>
        BY <3>3 DEF CancelClears
      <3> QED
        BY <2>1, <3>1, <3>2, <3>3 DEF Next
    <2>3. PICK g \in Gates : Seed(g)
      BY <2>2
    <2>4. RunOf[g] = r /\ g \notin disturbed \cup Uncapped
      <3>1. \/ walk' = walk /\ cancelled' = cancelled
            \/ /\ walk' = [walk EXCEPT ![RunOf[g]] = "walking"] /\ cancelled' = cancelled
               /\ g \in disturbed \cup Uncapped => RunOf[g] \in loose'
        BY <2>3 DEF Seed
      <3>2. walk \in [Runs -> {"unseeded", "walking", "over"}]
        BY DEF IInv, TypeOK
      <3> QED BY <3>1, <3>2 DEF Walking
    <2> QED BY <2>3, <2>4 DEF IInv, VerifiedIsEmpty, Clean, Capped, Seed, Staging
  <1> QED BY <1>1, Inductive, PTL DEF Spec, SeedFindsNobodyInside
=============================================================================
