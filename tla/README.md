# Verification of the durable sync of MBO Rewards

TLA+ models, TLC runs and TLAPS proofs for the backend in `src/`. The backend aggregates
affiliate networks: it fetches campaigns, coupons, conversions and payments of nine networks,
stages them as `Entity` rows, promotes those into business tables, aggregates them, and serves
clients, finance and operations from the result.

This part covers the **durable sync orchestration** (`src/src/jobs`): the code that cuts a sync
into units, hands them to short-lived serverless invocations, survives their deaths and runs the
post-sync stages in order. It keeps all its state in `JobRun` rows, takes no database locks, and
its correctness rests on the order of single statements. That is where tests reach least.

## 1. Inventory

| Part | State | Operations | Talks to |
|---|---|---|---|
| Run admission (`getOrCreateRun`) | parent rows, `createdAt`, scope, fast | find reusable, refuse beside a blocker, create, re-read, collapse duplicates | callers, workers |
| Planner (`syncSourcePlan.js`) | `lastSuccessfulSync` per account | span, date windows, units per source | admission, executors |
| Unit lifecycle (`syncOrchestration.service.js`, worker in `sync.controller.js`) | unit rows: status, attempt, `startedAt`; parent status | select, claim, abandon, complete, fail, defer, append, refresh, cancel | scheduler, executors |
| Account lock (`syncAccountLock.service.js`) | `sync:lock` rows | acquire, renew, release, withLock | manual syncs, unit claims |
| Deferred sources | parent payload (one JSON column) | materialise, append, resolve | unit lifecycle, gate |
| Post-sync stages (`postSyncStages.js`, `advancePostSync`) | unit rows by kind and page | gate, seed, walk, finalise | unit lifecycle, barrier |
| Staging barrier (`entityStagingBarrier.js`) | participant rows, intent marker, derived freeze | enter, leave, announce, look, seed, clear | stagers, gate, cancel |
| Executors (`sync.job.js`, `*SupplierSync.js`) | staged rows, account timestamps | fetch, stage, stamp | networks |
| Promotion, conversion, aggregation walks | business tables | one page per unit | `Entity` rows |
| Domain modules | orders, finance, commercial rules, clients, catalog, integrations, auth | CRUD with lifecycles | HTTP layer |

What makes it hard: invocations killed at any statement; leases that run out; reads that are stale
when their result is written (parent status, parent payload, units, lock holders); several
invocations at every step; row-by-row seeding; one JSON column written back whole; a clock read
before a commit; cancellation at any point. `PROJECT.json` lists the hazards with their lines.

## 2. Modules

| Module | Models | Remarks |
|---|---|---|
| `UnitLifecycle` | units of one run under several workers, and the parent's status | one action per database statement |
| `UnitQueue` | abstract: an at-least-once queue with bounded attempts and continuations | what `UnitLifecycle` implements |
| `UnitLifecycleEffects`, `UnitLifecycleProofs`, `UnitQueueProofs` | proofs for these | |
| `EntityStagingBarrier`, `EntityStagingBarrierProofs` | announce-then-verify between stagers and gates | |
| `SyncAccountLock`, `SyncAccountLockProofs` | one lock key, explicit callers and unit claimers | |
| `RunAdmission`, `RunAdmissionProofs` | racing requests, creation and collapse | |
| `DeferredSources` | the payload column, slices and chunks | |
| `PostSync` | gate, `appendUnits`, collapse of duplicate rows, walks | |
| `SyncWindows` | spans, windows, the watermark | |
| `MC...` | constants of the runs | |

Conventions shared by the modules:

- **Granularity.** A step is one database statement or one `$transaction`. Reads that follow each
  other without a write between them are taken together only where a module's header says so.
- **Processes.** A worker, stager, gate or caller is an invocation slot; after `Return`, or after
  being killed, the slot is used by the next invocation.
- **Leases without a clock.** A row may lapse at any time once its owner is dead. Whether it may
  lapse under a *live* owner is a constant (`Bounded`, `Capped`, `Uncapped`): serverless hosting
  caps an invocation at 300 s, below the 600 s unit lease and the 30 min participant lease
  (`entityStagingBarrier.js:55-58`); the container path has no cap.
- **History variables** (`disturbed`, `loose`, `raced`, `refreshLost`, `overtaken`, `keptFor`, `since`,
  `ahead`) record what happened for the properties; no guard of a modelled statement reads them.
- Operators marked *Mutant* are wrong variants of the definition after them, used to see that a
  property notices.

How state corresponds: `unit[u]`, `attempt[u]` and `lapsed` are `status`, `attempt` and the age of
`startedAt` of a unit row (`absent` = not created yet); `run` is the parent's status; `pc`,
`target`, `memo`, `seen` are the local variables of an invocation between two awaits. In the
barrier `ticket` and `marker` are `sync:lock` rows and `walk` stands for the promotion units from
which `derivedFreeze` is computed. In `PostSync` `rows` are the unit rows in creation order.
`PROJECT.json` maps every definition to its lines.

Composition: the modules meet in the unit rows. `PostSync` takes claims and leases from
`UnitLifecycle` in simplified form and leaves the staging handshake to `EntityStagingBarrier`,
which in turn sees a walk as one of three states. `SyncAccountLock` contains the part of
`claimUnit` that shares its key. A module that joins `PostSync` and the barrier is planned.

## 3. Runs

Passing runs:

| Run | Instance | Shows |
|---|---|---|
| `units` | 2 workers, a unit and its continuation on one account, 2 attempts, deferral, cancel, fair | one executor per unit; bounded attempts; no silently short run; a finished run is quiet; concurrent refreshes never leave the closing to each other; settled rows stay; `UnitLifecycle` implements `UnitQueue`; every unit settles, and the run ends unless a worker died between outcome and refresh |
| `barrier` | 1 stager, the gates of 2 runs, a cancel, deaths, fair | exclusion unless disturbed, nobody inside at seeding, seeding once stagers stop coming |
| `lock` | 2 callers (one renews), 2 claimers, fair | a held key is never taken by someone who came later; callers do not refuse each other for ever |
| `admission` | 2 scoped requests and an estate one, or 2 estate requests and a fast one; the 2 may be killed; workers, runs that end or are cancelled | nobody is given a run narrower than asked for, or of another scope unless the re-read chose it; duplicates do not survive; racers do not collapse each other's runs until none is left |
| `deferred` | 3 accounts, 3 deaths, a cancellation | a deferral is materialised only once all its units exist, also when the cancelled run refuses an append |
| `postsync` | two plans: a campaign walk of 2 pages with 2 workers and 1 fault; 2 networks (Awin, Rakuten) through all stages with 1 worker and 3 faults; fair | every walk waits for the last page of what it depends on; the collapse of duplicates loses no work and takes no row from under a worker; an interrupted stage is opened again |
| `windows` | 6 days, windows of 2, overlap 1, stamps up to 2 days ahead of the clock | no day is skipped if only whole-account runs stamp; windows tile the span, and the span is never inverted |

Runs that refute what a comment of the code says (quoted in the findings of `PROJECT.json`):

| Run | What happens |
|---|---|
| `units_cancel_overwritten` | `refreshRun` writes COMPLETED or FAILED over CANCELLED |
| `deferred_lost` | the payload is overwritten and a resolved deferral is pending again, for ever |
| `postsync_short` | half-written aggregation days let the run complete short |
| `windows_units` | a unit's stamp moves the watermark past a window that failed for good |
| `admission_scope` | an estate and a scoped request race; one is answered with the run of the other |

Several properties name an exception. Each exception is a behaviour of the code that the models
exhibit, and each was seen in a counterexample before it was named:

- `RunTerminatesUnlessRefreshLost`: a worker killed after the last outcome and before `refreshRun`
  leaves a run that nothing offers and nobody closes (`syncOrchestration.service.js:1533`).
- `ExclusionUnlessDisturbed`: `freezeState` reads the derived freeze, then the marker; the gate
  seeds, then clears. A stager can read around both (`entityStagingBarrier.js:182`).
- `GateSeedsOnceQuiet`: a refused stager is a participant when the gate looks, so stagers that keep
  returning can turn the gate away at every attempt.
- `NeverStolen`: a caller that stamped first and wrote last keeps the key beside one that has
  verified already (`syncAccountLock.service.js:93`); likewise two claimers that both look before
  they claim.
- `AnsweredAsAsked`: the lookup before creating compares scopes, the re-read after it does not
  (`syncOrchestration.service.js:1126`); `admission_scope` shows what follows.
- `OneRunSurvives`: the request that would have given way, or swept, was killed. The exception for
  the earlier run's request counts only if its run became visible late.
- `SomeRunSurvives`: `createdAt` is the start of a transaction and not the order of commits. A run
  that becomes visible after a later one (`overtaken`) was not in that one's re-read, so each request
  holds its own run for the earliest and collapses the other's; no run is left although the code
  says "exactly one active run survives" (`syncOrchestration.service.js:1066-1067`). Runs of
  different scopes can collapse each other for the same reason as in `admission_scope`.
- `NoDaySkipped`: a stamp from a host whose clock is ahead (`ahead`) starts the next span too late.

**Bounds.** Two workers are enough for every race found here, since a stale read needs one reader
and one writer; admission has two requests for the same work, which can be duplicates, and a third
whose scope or breadth is different. Two attempts distinguish retry from exhaustion; two pages or
slices, first from last. `faults` of a plan and `MaxDeaths` bound kills. Six days with windows of
two contain spans that are and are not multiples of the size; with stamps ahead of the clock
(`MaxAhead`) also a span of one day. Symmetry is used in safety runs only. Deadlock is not checked:
a run that has ended is a legitimate final state of most modules. For the safety properties of
`units`, `barrier`, `lock` and `admission` the bounds do not matter: they are proved.

**Fairness.** `.github/workflows/sync-drain.yml` calls the worker every five minutes for ever, so a
slot is used again and again and an invocation proceeds unless it is killed (weak fairness on each
statement). Strong fairness is assumed where weak fairness would let every single invocation be
killed at the same statement, or a key be free only when nobody looks: selecting and claiming,
an explicit caller's look at the lock, the gate's statements. Leases run out (weak fairness on lapsing).
Nothing is assumed about stagers arriving or about cancellation.

## 4. Proofs

All theorems hold for arbitrary constants; `Bounded` and `Capped` say that no lease lapses under a
live invocation.

- **`UnitLifecycleProofs`** (assuming `Bounded`): `Exclusive`, `Attempts`, `NeverShort`, `Quiet`,
  `Closes`. None of these is inductive. `IInv` adds: a worker that executes owns its row within its
  lease (`ClaimsHeld`); what it remembers of attempts is still true (`AttemptsFit`, which also
  covers the cutoff a claimer read earlier); a verdict formed over the units stays true
  (`VerdictsFit`); a continuation exists before its unit completes (`FollowOnsExist`). `UnitLifecycleEffects`
  says pointwise what each statement changes; then the steps fall into those that write a row under
  a condition (`Writes`), those that only inform a worker (`Moves`), the creation of a continuation,
  lapsing and cancelling, and one lemma per kind shows that all conjuncts survive it.
- **`UnitQueueProofs`**: `Implements` (each statement is a step of `UnitQueue` or invisible under
  the mapping from status to item) and `SettledForGood`.
- **`EntityStagingBarrierProofs`**: `Exclusion`, `SeedsEmpty`, `TypeCorrect`. The
  invariant follows a handshake: tickets stand while a stager reads and stages, a clean gate's
  marker stands from its write on, nobody is inside between a clean look and the seeding, and
  whoever missed the walk still meets the marker. No assumption on hosting; processes without a cap
  are excepted by name.
- **`SyncAccountLockProofs`** (assuming `Capped`): `Unstolen`. Everybody engaged with the key at
  the same time met between look and write.
- **`RunAdmissionProofs`** (for a finite set of requests with any options and scopes): `Answers`,
  `NoDuplicate`, `OneIsLeft`. `AdmissionInv` adds: stamps are distinct and none is ahead of the clock
  (`Clock`); where a request stands says whether its run has a row (`Course`); the run it settled on
  fits it (`Fitting`); whatever it is about to collapse is later than the run it keeps, became
  visible late, or has another scope (`Leading`); and of two duplicates one is still going to be
  collapsed (`Racing`). `NoDuplicate` is `Racing` once nobody is at work any more. For `OneIsLeft`
  take the earliest of the runs that were collapsed for one another: it was not later than the one
  it was collapsed for, so one of the exceptions holds.

Only model-checked: all liveness; `PostSync`, `DeferredSources` and `SyncWindows`. The subject of
`WindowsTile` is a recursive function, for which the prover has no usable induction.

## 5. Not modelled

Network adapters and executors (I/O and renaming of fields), reporting and operations views (reads),
HTTP layer, logging, metrics, configuration. In the modelled parts: progress counters, the run views,
wording of errors, the table of source objects per network, networks that pull a fixed trailing
window, runs of older planner versions. `PostSync`, and with it `GateReopens`, is about runs without
a deferred source: with one, the gate may stay shut for ever (`deferred_lost`). `DeferredSources`
leaves out the check for other unsettled slices of a walk: slices of one account run one after the
other, so that check finds none. That explicit lock callers give the key back is the meaning of
`withLock`'s `finally` and assumed of their work. Domain modules are not modelled yet.

## 6. Plan

1. Join `PostSync` with `EntityStagingBarrier`; a cursor walk over `Entity` rows with random ids.
2. Executors: outcomes per source object, paging until exhausted, TTL stamps; scheduler and sync
   state of the container path.
3. Job runner, domain events, permits, rate limiter.
4. Orders and conversions; finance (transaction states, wallets, payouts); client allocation and
   assignment; commercial rules; coupons and products; certification, connections and token
   refresh; sessions; reprocessing.
5. Proofs: `WalksInOrder`, `ResolvedIsPlanned`, `NoDaySkipped`, then the
   invariants of the domain modules.
