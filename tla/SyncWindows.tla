----------------------------- MODULE SyncWindows -----------------------------
(***************************************************************************)
(* Which days of an incremental source are fetched: the span a plan covers *)
(* (resolvePlanSpan), its windows (buildDateWindows), and the watermark    *)
(* lastSuccessfulSync, from which the next span starts.                    *)
(*                                                                         *)
(* One account with a catalog source and a windowed one.  Its days are     *)
(* fetched by the units of durable runs, one window each, and by runs over *)
(* the whole account; the account lock keeps the two apart.  Days are      *)
(* numbers.  What a network reports of the current day is incomplete, so a *)
(* day counts as fetched when a fetch made after it included it.  The      *)
(* clock of the host that stamps the watermark may run ahead.              *)
(***************************************************************************)
EXTENDS Integers, FiniteSets

CONSTANTS
    WindowDays,     \* the size of a window
    InitialDays,    \* lookback when there is no watermark
    OverlapDays,    \* SYNC_OVERLAP_DAYS
    UnitsAdvance,   \* a unit of one source moves the watermark
    MaxAhead,       \* bound on the days a stamping host's clock is ahead
    MaxDay          \* bound on the days that pass

ASSUME WindowsAssumption ==
    /\ WindowDays \in Nat \ {0} /\ InitialDays \in Nat \ {0} /\ OverlapDays \in Nat
    /\ UnitsAdvance \in BOOLEAN /\ MaxDay \in Nat /\ MaxAhead \in Nat

VARIABLES
    today,
    watermark,  \* lastSuccessfulSync, None when there is none
    ahead,      \* history: a stamp was ahead of the clock
    since,      \* where the history behind the watermark starts
    span,       \* the span of the plan in progress
    catalog,    \* its catalog unit is outstanding
    windows,    \* its outstanding windows
    account,    \* the span of the whole-account run in progress, {} when there is none
    fetched     \* days fetched

vars == <<today, watermark, ahead, since, span, catalog, windows, account, fetched>>

None == -1000
Day == (-InitialDays - OverlapDays) .. MaxDay

TypeOK ==
    /\ today \in 0 .. MaxDay
    /\ watermark \in Day \cup (MaxDay .. MaxDay + MaxAhead) \cup {None} /\ ahead \in BOOLEAN
    /\ since \in Day \cup {None}
    /\ span \in Day \X Day
    /\ catalog \in BOOLEAN
    /\ windows \subseteq Day \X Day
    /\ account \subseteq Day \X Day /\ Cardinality(account) <= 1
    /\ fetched \subseteq Day

Init ==
    /\ today = 0
    /\ watermark = None /\ ahead = FALSE /\ since = None
    /\ span = <<0, 0>> /\ catalog = FALSE /\ windows = {}
    /\ account = {} /\ fetched = {}

-----------------------------------------------------------------------------

Least(x, y) == IF x < y THEN x ELSE y

\* Mutant: the span starts at the watermark.
SpanWithoutOverlap ==
    <<IF watermark # None THEN Least(watermark, today) ELSE today - InitialDays, today>>

\* Mutant: the span starts at the watermark less the overlap wherever that is.
SpanUnclamped ==
    IF watermark # None THEN <<watermark - OverlapDays, today>> ELSE <<today - InitialDays, today>>

\* resolvePlanSpan; getOptimiseDateRange and its siblings compute the same span.
PlanSpan ==
    IF watermark # None THEN <<Least(watermark - OverlapDays, today), today>>
    ELSE <<today - InitialDays, today>>

\* Mutant: the last window is not cut off.
WindowsUncut(from, to) ==
    LET W[cursor \in from .. to + WindowDays] ==
            IF cursor > to THEN {}
            ELSE {<<cursor, cursor + WindowDays - 1>>} \cup W[cursor + WindowDays]
    IN  W[from]

\* buildDateWindows
Windows(from, to) ==
    LET W[cursor \in from .. to + 1] ==
            IF cursor > to THEN {}
            ELSE LET end == Least(cursor + WindowDays - 1, to) IN {<<cursor, end>>} \cup W[end + 1]
    IN  W[from]

\* An invocation is shorter than a day: a run over the whole account meets one midnight at most.
NextDay ==
    /\ today < MaxDay /\ \A run \in account : run[2] = today
    /\ today' = today + 1
    /\ UNCHANGED <<watermark, ahead, since, span, catalog, windows, account, fetched>>

\* createRun, once the run before has settled.
Plan ==
    /\ ~catalog /\ windows = {}
    /\ span' = PlanSpan
    /\ catalog' = TRUE
    /\ windows' = Windows(span'[1], span'[2])
    /\ UNCHANGED <<today, watermark, ahead, since, account, fetched>>

Fetch(from, to) == fetched' = fetched \cup {day \in from .. to : day < today}

\* markAccountSyncSuccess, stampAdmitadSync, stampRakutenSync
Stamp(from) ==
    /\ \E skew \in 0 .. MaxAhead : watermark' = today + skew /\ ahead' = (ahead \/ skew > 0)
    /\ since' = IF since = None THEN from ELSE since

UnitStamp == IF UnitsAdvance THEN Stamp(span[1]) ELSE UNCHANGED <<watermark, ahead, since>>

\* The catalog unit completes, or fails for good.
Catalog(ok) ==
    /\ catalog /\ account = {}
    /\ catalog' = FALSE
    /\ IF ok THEN UnitStamp ELSE UNCHANGED <<watermark, ahead, since>>
    /\ UNCHANGED <<today, span, windows, account, fetched>>

\* The unit of a window completes, or fails for good.
Window(w, ok) ==
    /\ account = {}
    /\ windows' = windows \ {w}
    /\ IF ok THEN UnitStamp /\ Fetch(w[1], w[2]) ELSE UNCHANGED <<watermark, ahead, since, fetched>>
    /\ UNCHANGED <<today, span, catalog, account>>

\* A run over the whole account reads the watermark and fetches.
AccountStart == account = {} /\ account' = {PlanSpan} /\ UNCHANGED <<today, watermark, ahead, since, span, catalog, windows, fetched>>

\* It stores what it fetched and stamps the account; on partial success the watermark stays.
\* The fetches were made on the day the run started.
AccountEnd(run, failed) ==
    /\ account' = {}
    /\ IF "windowed" \in failed THEN UNCHANGED fetched ELSE Fetch(run[1], run[2] - 1)
    /\ IF failed = {} THEN Stamp(run[1]) ELSE UNCHANGED <<watermark, ahead, since>>
    /\ UNCHANGED <<today, span, catalog, windows>>

Next ==
    \/ NextDay \/ Plan \/ AccountStart
    \/ \E ok \in BOOLEAN : Catalog(ok) \/ \E w \in windows : Window(w, ok)
    \/ \E run \in account, failed \in SUBSET {"catalog", "windowed"} : AccountEnd(run, failed)

Spec == Init /\ [][Next]_vars

-----------------------------------------------------------------------------
(* Properties.                                                             *)

\* "re-reading an overlapping window is safe, skipping one is not" (optimiseAdvanceWatermark):
\* every day behind the start of the next span was fetched after it had ended, or is in a window
\* of the plan in progress that has not failed, as long as no stamp was ahead of the clock.
NoDaySkipped ==
    watermark # None /\ ~ahead =>
        \A day \in since .. watermark - OverlapDays - 1 :
            day \in fetched \/ \E w \in windows : day \in w[1] .. w[2]

\* "no overlap, no gap, no invented day" (buildDateWindows): right after a plan its windows
\* hold every day of the span once, none is longer than allowed and none leaves the span; and "a
\* future timestamp must never produce an inverted span" (resolvePlanSpan): today is one of them.
WindowsTile ==
    [][Plan => /\ today \in span'[1] .. span'[2]
               /\ \A day \in span'[1] .. span'[2] :
                     Cardinality({w \in windows' : day \in w[1] .. w[2]}) = 1
               /\ \A w \in windows' : /\ w[1] <= w[2] /\ w[2] - w[1] < WindowDays
                                      /\ span'[1] <= w[1] /\ w[2] <= span'[2]]_vars
=============================================================================
