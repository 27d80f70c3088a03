------------------------------ MODULE UnitQueue ------------------------------
(***************************************************************************)
(* What the unit rows of a run promise, with no worker, lease or statement *)
(* in sight: an at-least-once queue of items that is drained until it is   *)
(* over.  An item is taken at most MaxTakes times, is dead only when those *)
(* are used up, and is done only when the item that its success unlocks is *)
(* on the queue.                                                           *)
(***************************************************************************)
EXTENDS Naturals

CONSTANTS Items, Starting, Then, MaxTakes

VARIABLES item, takes, over

queueVars == <<item, takes, over>>

Init ==
    /\ item = [i \in Items |-> IF i \in Starting THEN "ready" ELSE "locked"]
    /\ takes = [i \in Items |-> 0]
    /\ over = FALSE

\* An item is delivered, or delivered again because whoever took it is gone.
Take(i) ==
    /\ item[i] \in {"ready", "taken"} /\ takes[i] < MaxTakes
    /\ item' = [item EXCEPT ![i] = "taken"]
    /\ takes' = [takes EXCEPT ![i] = @ + 1]
    /\ UNCHANGED over

Finish(i) ==
    /\ item[i] = "taken"
    /\ Then[i] # 0 => item[Then[i]] # "locked"
    /\ item' = [item EXCEPT ![i] = "done"]
    /\ UNCHANGED <<takes, over>>

\* The attempt failed, or was abandoned: there is another one or there is none left.
Fail(i) ==
    /\ item[i] = "taken"
    /\ item' = [item EXCEPT ![i] = IF takes[i] < MaxTakes THEN "ready" ELSE "dead"]
    /\ UNCHANGED <<takes, over>>

\* The attempt could not be made: it does not count.
PutBack(i) ==
    /\ item[i] = "taken"
    /\ item' = [item EXCEPT ![i] = "ready"]
    /\ takes' = [takes EXCEPT ![i] = @ - 1]
    /\ UNCHANGED over

Unlock(i) ==
    /\ item[i] = "taken" /\ Then[i] # 0 /\ item[Then[i]] = "locked"
    /\ item' = [item EXCEPT ![Then[i]] = "ready"]
    /\ UNCHANGED <<takes, over>>

\* The queue is stopped: what nobody has taken is dropped.
Stop ==
    /\ ~over /\ over' = TRUE
    /\ item' = [i \in Items |-> IF item[i] = "ready" THEN "dropped" ELSE item[i]]
    /\ UNCHANGED takes

\* Or it is over because nothing is left to do.
Close ==
    /\ ~over /\ over' = TRUE
    /\ \A i \in Items : item[i] \notin {"ready", "taken"}
    /\ UNCHANGED <<item, takes>>

QueueNext ==
    \/ \E i \in Items : Take(i) \/ Finish(i) \/ Fail(i) \/ PutBack(i) \/ Unlock(i)
    \/ Stop \/ Close

Spec == Init /\ [][QueueNext]_queueVars
=============================================================================
