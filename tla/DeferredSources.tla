--------------------------- MODULE DeferredSources ---------------------------
(***************************************************************************)
(* The deferred sources of a run.  Commission groups cannot be planned     *)
(* until an account's campaign list has been walked; the parent's payload  *)
(* records the source as pending until its units exist, and the post-sync  *)
(* gate stays shut meanwhile (networkPhaseState).                          *)
(*                                                                         *)
(* The payload is one JSON column that appendUnits, #resolveDeferredSource *)
(* and cancelRun read and write back whole, in separate statements.        *)
(* Workers on the same account exclude each other by its lock              *)
(* (UnitLifecycle), so there is one at a time per account.                 *)
(*                                                                         *)
(* Left out: the check for other slices of the walk that have not settled  *)
(* (waitingOnUnits).  A slice is appended by the one before it, and a      *)
(* killed one comes first again: it keeps the account until its lease ends *)
(* and nextUnit then offers the lowest sequence.  So when the last slice   *)
(* has run, the others have settled and the check finds none.  A slice is  *)
(* retried until it succeeds; dead letters are UnitLifecycle's.            *)
(***************************************************************************)
EXTENDS Naturals, FiniteSets

CONSTANTS
    Accounts,   \* accounts whose campaign walk is planned
    Deferring,  \* those with a deferred source
    Slices,     \* how many slices the walk of each account has
    Chunks,     \* the campaign chunks each deferring account turns out to have
    MaxDeaths,  \* bound on the invocations killed
    MayCancel   \* whether an operator may cancel the run

ASSUME DeferredAssumption ==
    /\ Deferring \subseteq Accounts
    /\ Slices \in [Accounts -> Nat \ {0}]
    /\ MaxDeaths \in Nat /\ MayCancel \in BOOLEAN

VARIABLES
    deferred,  \* status of each deferred source in the payload
    units,     \* the units of each account that exist: slices and chunks
    done,      \* slices completed
    pc, seeds,
    parent,    \* the payload each worker has read
    run,       \* active, CANCELLED, or cancelling: cancelRun has read the parent
    read,      \* the payload cancelRun has read
    deaths

operator == <<run, read>>
vars == <<deferred, units, done, pc, seeds, parent, operator, deaths>>

Statuses == [Deferring -> {"pending", "materialised"}]

AllUnits(a) == {<<"slice", n>> : n \in 1 .. Slices[a]} \cup
    (IF a \in Deferring THEN {<<"chunk", c>> : c \in Chunks[a]} ELSE {})

TypeOK ==
    /\ deferred \in Statuses
    /\ \A a \in Accounts : units[a] \subseteq AllUnits(a) /\ seeds[a] \subseteq AllUnits(a)
    /\ done \in [Accounts -> Nat]
    /\ pc \in [Accounts -> {"idle", "ran", "append", "create", "write", "resolve", "record", "complete"}]
    /\ parent \in [Accounts -> Statuses]
    /\ run \in {"active", "cancelling", "CANCELLED"} /\ read \in Statuses
    /\ deaths \in 0 .. MaxDeaths

\* createRun: the first slice of every walk, the deferred sources as pending.
Init ==
    /\ deferred = [a \in Deferring |-> "pending"]
    /\ units = [a \in Accounts |-> {<<"slice", 1>>}]
    /\ done = [a \in Accounts |-> 0]
    /\ pc = [a \in Accounts |-> "idle"]
    /\ seeds = [a \in Accounts |-> {}]
    /\ parent = [a \in Accounts |-> [d \in Deferring |-> "pending"]]
    /\ run = "active" /\ read = deferred
    /\ deaths = 0

Goto(a, step) == pc' = [pc EXCEPT ![a] = step]

Slice(a) == done[a] + 1
LastSlice(a) == Slice(a) = Slices[a]

\* A worker claims the next slice (nextWorkableUnit offers none of a terminal run) and runs it.
Claim(a) ==
    /\ pc[a] = "idle" /\ run # "CANCELLED" /\ <<"slice", Slice(a)>> \in units[a]
    /\ Goto(a, "ran")
    /\ UNCHANGED <<deferred, units, done, seeds, parent, operator, deaths>>

\* Where materialiseFollowOnUnits goes when appendUnits returns and has not refused.
AfterAppend(a) == IF LastSlice(a) THEN "resolve" ELSE "complete"

\* Mutant: the last slice of a walk unlocks a next slice like the others.
MaterialiseOnward(a) ==
    /\ pc[a] = "ran"
    /\ seeds' = [seeds EXCEPT ![a] = {<<"slice", Slice(a) + 1>>}]
    /\ Goto(a, "append")
    /\ UNCHANGED <<deferred, units, done, parent, operator, deaths>>

\* A slice has run; materialiseFollowOnUnits decides what it unlocks.
Materialise(a) ==
    /\ pc[a] = "ran"
    /\ seeds' = [seeds EXCEPT ![a] =
          IF ~LastSlice(a) THEN {<<"slice", Slice(a) + 1>>}
          ELSE {u \in AllUnits(a) : u[1] = "chunk"}]
    /\ Goto(a, CASE seeds'[a] # {} -> "append"
                 [] seeds'[a] = {} /\ a \in Deferring -> "resolve"
                 [] OTHER -> "complete")
    /\ UNCHANGED <<deferred, units, done, parent, operator, deaths>>

\* Mutant: the deferral counts as resolved although the append was refused.
AppendReadRefusedAlike(a) ==
    LET new == IF run = "CANCELLED" THEN {} ELSE seeds[a] \ units[a] IN
    /\ pc[a] = "append"
    /\ parent' = [parent EXCEPT ![a] = deferred]
    /\ seeds' = [seeds EXCEPT ![a] = new]
    /\ Goto(a, IF new = {} THEN AfterAppend(a) ELSE "create")
    /\ UNCHANGED <<deferred, units, done, operator, deaths>>

\* appendUnits reads the parent and the units, refuses a terminal run, and skips what exists.
\* What is refused (run_terminal) leaves the deferral pending.
AppendRead(a) ==
    LET refused == run = "CANCELLED"
        new == IF refused THEN {} ELSE seeds[a] \ units[a]
    IN
    /\ pc[a] = "append"
    /\ parent' = [parent EXCEPT ![a] = deferred]
    /\ seeds' = [seeds EXCEPT ![a] = new]
    /\ Goto(a, CASE refused -> "complete" [] ~refused /\ new = {} -> AfterAppend(a) [] OTHER -> "create")
    /\ UNCHANGED <<deferred, units, done, operator, deaths>>

Create(a) ==
    /\ pc[a] = "create"
    /\ \E u \in seeds[a] :
        /\ units' = [units EXCEPT ![a] = @ \cup {u}]
        /\ seeds' = [seeds EXCEPT ![a] = @ \ {u}]
        /\ Goto(a, IF seeds[a] = {u} THEN "write" ELSE "create")
    /\ UNCHANGED <<deferred, done, parent, operator, deaths>>

\* appendUnits writes the payload it read back, with the new total.
AppendWrite(a) ==
    /\ pc[a] = "write"
    /\ deferred' = parent[a]
    /\ Goto(a, AfterAppend(a))
    /\ UNCHANGED <<units, done, seeds, parent, operator, deaths>>

\* #resolveDeferredSource
ResolveRead(a) ==
    /\ pc[a] = "resolve"
    /\ parent' = [parent EXCEPT ![a] = deferred]
    /\ Goto(a, IF a \in Deferring THEN "record" ELSE "complete")
    /\ UNCHANGED <<deferred, units, done, seeds, operator, deaths>>

ResolveWrite(a) ==
    /\ pc[a] = "record"
    /\ deferred' = [parent[a] EXCEPT ![a] = "materialised"]
    /\ Goto(a, "complete")
    /\ UNCHANGED <<units, done, seeds, parent, operator, deaths>>

\* The invocation is killed; the slice is run again.
Die(a) ==
    /\ pc[a] # "idle" /\ deaths < MaxDeaths
    /\ Goto(a, "idle")
    /\ seeds' = [seeds EXCEPT ![a] = {}]
    /\ deaths' = deaths + 1
    /\ UNCHANGED <<deferred, units, done, parent, operator>>

\* completeUnit: under a terminal parent the unit stays as it is.
Complete(a) ==
    /\ pc[a] = "complete"
    /\ done' = [done EXCEPT ![a] = IF run = "CANCELLED" THEN @ ELSE @ + 1]
    /\ Goto(a, "idle")
    /\ seeds' = [seeds EXCEPT ![a] = {}]
    /\ UNCHANGED <<deferred, units, parent, operator, deaths>>

\* cancelRun reads the parent, then writes its payload back with the cancellation.
CancelRead ==
    /\ MayCancel /\ run = "active"
    /\ run' = "cancelling" /\ read' = deferred
    /\ UNCHANGED <<deferred, units, done, pc, seeds, parent, deaths>>

CancelWrite ==
    /\ run = "cancelling"
    /\ run' = "CANCELLED" /\ deferred' = read
    /\ UNCHANGED <<units, done, pc, seeds, parent, read, deaths>>

Next ==
    \/ CancelRead \/ CancelWrite
    \/ \E a \in Accounts :
        \/ Claim(a) \/ Materialise(a) \/ AppendRead(a) \/ Create(a) \/ AppendWrite(a)
        \/ ResolveRead(a) \/ ResolveWrite(a) \/ Complete(a) \/ Die(a)

Spec == Init /\ [][Next]_vars

-----------------------------------------------------------------------------
(* Properties.                                                             *)

\* "The deferral is only resolved once the rows exist" (materialiseFollowOnUnits): whoever is
\* killed while creating the chunks, and whatever stale payload is written back.
ResolvedIsPlanned ==
    \A a \in Deferring : deferred[a] = "materialised" => AllUnits(a) \subseteq units[a]

\* A walk that has run to its end has resolved its deferral, also when the account had no
\* eligible campaign; "Without this a run would keep reporting work that is never coming"
\* (#resolveDeferredSource), and its post-sync gate would stay shut.
WalkedIsResolved ==
    \A a \in Deferring : done[a] = Slices[a] => deferred[a] = "materialised"
=============================================================================
