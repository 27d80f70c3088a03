------------------------- MODULE RunAdmissionProofs -------------------------
(***************************************************************************)
(* For every finite set of requests and whatever they ask: a request is    *)
(* answered with a run of the breadth and scope it asked for, racers leave *)
(* no duplicate, and they do not collapse all of their runs, each with the *)
(* exceptions its property names.                                          *)
(***************************************************************************)
EXTENDS RunAdmission, FiniteSetTheorems, WellFoundedInduction, TLAPS

Typed ==
    /\ ask \in Asks
    /\ status \in [Requests -> {"none", "ACTIVE", "CANCELLED", "ENDED"}]
    /\ createdAt \in [Requests -> Nat]
    /\ started \subseteq Requests
    /\ pc \in [Requests -> Steps]
    /\ canonical \in [Requests -> Requests \cup {None}]
    /\ victims \in [Requests -> SUBSET Requests]
    /\ victim \in [Requests -> Requests \cup {None}]
    /\ reply \in [Requests -> Requests \cup {None, "refused"}]
    /\ overtaken \subseteq Requests
    /\ keptFor \in [Requests -> Requests \cup {None}]

Stamped == {x \in Requests : createdAt[x] # 0}

\* Every stamp is of a time of its own, and none is ahead of the clock.
Clock ==
    \A x \in Requests :
        /\ createdAt[x] <= Cardinality(Stamped)
        /\ \A y \in Requests : x # y /\ createdAt[x] # 0 => createdAt[x] # createdAt[y]

\* Where a request stands says whether its run has a createdAt and a row.
Course(r) ==
    /\ pc[r] \in {"lookup", "blocker", "stamp"} => createdAt[r] = 0
    /\ pc[r] \in {"lookup", "blocker", "stamp", "commit"} => status[r] = "none"
    /\ pc[r] \in {"commit", "reread"} => createdAt[r] # 0
    /\ pc[r] \in {"reread", "own", "ownCancel"} => status[r] # "none"
    /\ status[r] # "none" => createdAt[r] # 0
    /\ pc[r] \in {"list", "sweep", "cancel"} /\ status[r] # "none" => canonical[r] = r

Fits(x, r) ==
    /\ Satisfies(x, r)
    /\ ask[x].scope = ask[r].scope \/ (createdAt[r] # 0 /\ SameWork(x, r))

\* The run a request has settled on, and the one it was told, is as it asked.
Fitting(r) ==
    /\ canonical[r] \in Requests => Fits(canonical[r], r)
    /\ reply[r] \in Requests => Fits(reply[r], r)

\* Why run x may be collapsed for run k.
Behind(x, k) == createdAt[k] < createdAt[x] \/ x \in overtaken \/ ask[x].scope # ask[k].scope

\* What a request is about to collapse is behind the run it keeps.
Leading(r) ==
    /\ pc[r] \in {"own", "ownCancel", "list", "sweep", "cancel"} =>
          canonical[r] \in Requests /\ status[canonical[r]] # "none"
    /\ pc[r] \in {"own", "ownCancel"} /\ status[r] = "ACTIVE" => Behind(r, canonical[r])
    /\ pc[r] \in {"list", "sweep", "cancel"} =>
          \A x \in Active : SameWork(x, canonical[r]) /\ x # canonical[r] => Behind(x, canonical[r])
    /\ pc[r] \in {"sweep", "cancel"} =>
          \A x \in victims[r] : SameWork(x, canonical[r]) /\ x # canonical[r]
    /\ pc[r] = "cancel" =>
          victim[r] \in Requests /\ SameWork(victim[r], canonical[r]) /\ victim[r] # canonical[r]

Collapsed(x) ==
    status[x] = "CANCELLED" =>
        keptFor[x] \in Requests /\ status[keptFor[x]] # "none" /\ Behind(x, keptFor[x])

\* The request of x will withdraw x or look at y.
InHand(x, y) ==
    \/ pc[x] \in {"reread", "own", "ownCancel", "list"}
    \/ pc[x] \in {"sweep", "cancel"} /\ y \in victims[x]
    \/ pc[x] = "cancel" /\ y = victim[x]

Dead(x) == pc[x] = "done" /\ reply[x] = None

\* Of two duplicates one is still going to be collapsed, unless an invocation was killed.
Racing ==
    \A x, y \in Active \ started :
        SameWork(x, y) /\ createdAt[x] < createdAt[y] =>
            \/ pc[y] \in {"reread", "own", "ownCancel"} \/ Dead(y)
            \/ x \in overtaken /\ (InHand(x, y) \/ Dead(x))

AdmissionInv ==
    /\ Typed /\ Clock /\ Racing
    /\ \A r \in Requests : Course(r) /\ Fitting(r) /\ Leading(r) /\ Collapsed(r)

Act(r) ==
    /\ UNCHANGED ask
    /\ \/ Lookup(r) \/ Blocker(r) \/ Stamp(r) \/ Commit(r) \/ Reread(r)
       \/ Own(r) \/ OwnCancel(r) \/ List(r) \/ Sweep(r) \/ Cancel(r) \/ Swept(r)
       \/ Die(r) \/ Start(r) \/ End(r)

-----------------------------------------------------------------------------
(* The queries.                                                            *)

LEMMA SomeIsFirst ==
    ASSUME NEW S \in SUBSET Requests, S # {}, createdAt \in [Requests -> Nat]
    PROVE  \E x \in S : First(x, S)
<1> DEFINE T == {createdAt[x] : x \in S}
           R == OpToRel(<, Nat)
<1>1. T \subseteq Nat /\ T # {} OBVIOUS
<1>2. IsWellFoundedOn(R, Nat) BY NatLessThanWellFounded
<1> HIDE DEF R
<1>3. PICK m \in T : \A n \in T : ~(<<n, m>> \in R) BY <1>1, <1>2, WFMin
<1>4. \A n \in T : ~(n < m) BY <1>1, <1>3 DEF R, OpToRel
<1>5. PICK x \in S : m = createdAt[x] OBVIOUS
<1>6. \A y \in S : createdAt[x] <= createdAt[y] BY <1>4, <1>5
<1> QED BY <1>6 DEF First

\* A query returns the earliest run of the set it searches, or none when that is empty.
LEMMA EarliestIsFirst ==
    ASSUME NEW S \in SUBSET Requests, createdAt \in [Requests -> Nat]
    PROVE  /\ S = {} => Earliest(S) = None
           /\ S # {} => Earliest(S) \in S /\ First(Earliest(S), S)
BY SomeIsFirst DEF Earliest

\* What a request adopts is active, as it asked, and ahead of the runs of the same work and scope.
LEMMA ReusableLeads ==
    ASSUME Typed, NEW r \in Requests, Reusable(r) # None
    PROVE  /\ Reusable(r) \in Active /\ Satisfies(Reusable(r), r)
           /\ ask[Reusable(r)].scope = ask[r].scope
           /\ \A x \in Active : SameWork(x, Reusable(r)) /\ ask[x].scope = ask[Reusable(r)].scope =>
                createdAt[Reusable(r)] <= createdAt[x]
<1> DEFINE Scoped == {x \in Active : SameWork(x, r) /\ ask[x].scope = ask[r].scope}
           Broad == {x \in Active : Satisfies(x, r)}
<1>0. createdAt \in [Requests -> Nat] /\ Active \subseteq Requests BY DEF Typed, Active
<1>1. Earliest(Scoped) = None \/ (Earliest(Scoped) \in Scoped /\ First(Earliest(Scoped), Scoped))
  BY <1>0, EarliestIsFirst
<1>2. Earliest(Broad) = None \/ (Earliest(Broad) \in Broad /\ First(Earliest(Broad), Broad))
  BY <1>0, EarliestIsFirst
<1>3. CASE ask[r].scope # Estate
  <2>1. Reusable(r) = Earliest(Scoped) BY <1>3 DEF Reusable
  <2> DEFINE k == Earliest(Scoped)
  <2>2. k \in Scoped /\ First(k, Scoped) BY <1>1, <2>1
  <2>3. k \in Active /\ SameWork(k, r) /\ ask[k].scope = ask[r].scope BY <2>2
  <2>4. Satisfies(k, r) BY <2>3 DEF SameWork, Satisfies
  <2>5. ASSUME NEW x \in Active, SameWork(x, k), ask[x].scope = ask[k].scope
        PROVE  createdAt[k] <= createdAt[x]
    <3>1. x \in Scoped BY <2>3, <2>5 DEF SameWork
    <3> QED BY <2>2, <3>1 DEF First
  <2> HIDE DEF k
  <2>6. Reusable(r) = k BY <2>1 DEF k
  <2> QED BY <2>3, <2>4, <2>5, <2>6
<1>4. CASE ask[r].scope = Estate
  <2> DEFINE k == Earliest(Broad)
  <2>1. Reusable(r) = k /\ ask[k].scope = Estate BY <1>4 DEF Reusable
  <2>2. k \in Broad /\ First(k, Broad) BY <1>2, <2>1
  <2>3. k \in Active /\ Satisfies(k, r) BY <2>2
  <2>4. ASSUME NEW x \in Active, SameWork(x, k)
        PROVE  createdAt[k] <= createdAt[x]
    <3>1. x \in Broad BY <2>3, <2>4 DEF SameWork, Satisfies
    <3> QED BY <2>2, <3>1 DEF First
  <2> HIDE DEF k
  <2> QED BY <1>4, <2>1, <2>3, <2>4
<1> QED BY <1>3, <1>4

-----------------------------------------------------------------------------
(* What a step of one request leaves alone.                                *)

LEMMA TypedStep ==
    ASSUME AdmissionInv, NEW r \in Requests, Act(r) PROVE Typed'
<1> USE AdmissionAssumption DEF Typed, Goto, Answer, locals, history, Steps
<1>0. Typed /\ Leading(r) /\ ask' = ask BY DEF AdmissionInv, Act
<1>1. CASE Lookup(r)
  <2>1. Reusable(r) \in Requests \cup {None} BY <1>0, ReusableLeads DEF Active
  <2> HIDE DEF Typed
  <2> QED BY <1>0, <1>1, <2>1 DEF Lookup, Typed
<1>2. CASE Blocker(r) BY <1>0, <1>2 DEF Blocker
<1>3. CASE Stamp(r)
  <2>1. IsFiniteSet({x \in Requests : createdAt[x] # 0}) BY FS_Subset
  <2>2. Now \in Nat BY <2>1, FS_CardinalityType DEF Now
  <2> QED BY <1>0, <1>3, <2>2 DEF Stamp
<1>4. CASE Commit(r) BY <1>0, <1>4 DEF Commit
<1>5. CASE Reread(r)
  <2> DEFINE Same == {x \in Active : SameWork(x, r)}
  <2>1. Same \in SUBSET Requests BY DEF Active
  <2>2. Earliest(Same) \in Requests \cup {None} BY <2>1, <1>0, EarliestIsFirst
  <2>3. \E c \in Requests : canonical' = [canonical EXCEPT ![r] = c] BY <1>5, <2>2 DEF Reread
  <2>4. pc' \in [Requests -> Steps] BY <1>0, <1>5 DEF Reread
  <2> QED BY <1>0, <1>5, <2>3, <2>4 DEF Reread
<1>6. CASE Own(r) BY <1>0, <1>6 DEF Own
<1>7. CASE OwnCancel(r) BY <1>0, <1>7 DEF OwnCancel, Collapse
<1>8. CASE List(r)
  <2>1. victims' \in [Requests -> SUBSET Requests] BY <1>0, <1>8 DEF List, Active
  <2> QED BY <1>0, <1>8, <2>1 DEF List
<1>9. CASE Sweep(r)
  <2>1. victims[r] \in SUBSET Requests /\ victims[r] # {} BY <1>0, <1>9 DEF Sweep
  <2>2. Earliest(victims[r]) \in Requests BY <2>1, <1>0, EarliestIsFirst
  <2>3. victims' \in [Requests -> SUBSET Requests] BY <1>0, <1>9 DEF Sweep
  <2>4. victim' \in [Requests -> Requests \cup {None}] /\ pc' \in [Requests -> Steps]
    BY <1>0, <1>9, <2>2 DEF Sweep
  <2> QED BY <1>0, <1>9, <2>3, <2>4 DEF Sweep
<1>10. CASE Cancel(r) BY <1>0, <1>10 DEF Cancel, Collapse
<1>11. CASE Swept(r) BY <1>0, <1>11 DEF Swept
<1>12. CASE Die(r) BY <1>0, <1>12 DEF Die
<1>13. CASE Start(r) \/ End(r) BY <1>0, <1>13 DEF Start, End
<1> QED BY <1>1, <1>2, <1>3, <1>4, <1>5, <1>6, <1>7, <1>8, <1>9, <1>10, <1>11, <1>12, <1>13 DEF Act

\* A step of one request, of a worker or of an operator leaves the other requests where they are.
LEMMA OthersStay ==
    ASSUME Typed, NEW r \in Requests, Act(r), NEW q \in Requests, q # r
    PROVE  /\ pc'[q] = pc[q] /\ canonical'[q] = canonical[q] /\ victims'[q] = victims[q]
           /\ victim'[q] = victim[q] /\ reply'[q] = reply[q] /\ createdAt'[q] = createdAt[q]
<1> USE DEF Typed, Goto, Answer, locals
<1>1. CASE Lookup(r) \/ Blocker(r) BY <1>1 DEF Lookup, Blocker
<1>2. CASE Stamp(r) \/ Commit(r) \/ Reread(r) BY <1>2 DEF Stamp, Commit, Reread
<1>3. CASE Own(r) \/ OwnCancel(r) BY <1>3 DEF Own, OwnCancel
<1>4. CASE List(r) \/ Cancel(r) BY <1>4 DEF List, Cancel
<1>5. CASE Sweep(r) BY <1>5 DEF Sweep
<1>6. CASE Swept(r) \/ Die(r) BY <1>6 DEF Swept, Die
<1>7. CASE Start(r) \/ End(r) BY <1>7 DEF Start, End
<1> QED BY <1>1, <1>2, <1>3, <1>4, <1>5, <1>6, <1>7 DEF Act

\* What a step does to the runs: only a commit makes one active, a row and its createdAt stay,
\* and a run is collapsed by its own request or as the victim of another.
LEMMA RunsKeep ==
    ASSUME AdmissionInv, NEW r \in Requests, Act(r)
    PROVE  /\ ask' = ask /\ overtaken \subseteq overtaken' /\ started \subseteq started'
           /\ \A x \in Requests :
                /\ status[x] # "none" => status'[x] # "none" /\ createdAt'[x] = createdAt[x]
                /\ createdAt[x] # 0 => createdAt'[x] = createdAt[x]
                /\ status'[x] = "ACTIVE" => status[x] = "ACTIVE" \/ (x = r /\ Commit(r))
                /\ status'[x] # "none" => status[x] # "none" \/ (x = r /\ Commit(r))
                /\ status'[x] = "CANCELLED" =>
                     \/ status[x] = "CANCELLED" /\ keptFor'[x] = keptFor[x]
                     \/ /\ status[x] = "ACTIVE" /\ keptFor'[x] = canonical[r]
                        /\ (OwnCancel(r) /\ x = r) \/ (Cancel(r) /\ x = victim[r])
<1>0. Typed /\ ask' = ask BY DEF AdmissionInv, Act
<1>t. /\ status \in [Requests -> {"none", "ACTIVE", "CANCELLED", "ENDED"}]
      /\ createdAt \in [Requests -> Nat] /\ keptFor \in [Requests -> Requests \cup {None}]
  BY <1>0 DEF Typed
<1>1. CASE Lookup(r) \/ Blocker(r) \/ Reread(r) \/ Own(r)
  BY <1>0, <1>t, <1>1 DEF Lookup, Blocker, Reread, Own, history
<1>2. CASE List(r) \/ Sweep(r) \/ Swept(r) \/ Die(r) \/ Start(r)
  BY <1>0, <1>t, <1>2 DEF List, Sweep, Swept, Die, Start, history
<1>3. CASE Stamp(r)
  <2>1. status[r] = "none" /\ createdAt[r] = 0 BY <1>3 DEF AdmissionInv, Course, Stamp
  <2>2. \A x \in Requests : x # r => createdAt'[x] = createdAt[x] BY <1>3, <1>t DEF Stamp
  <2> QED BY <1>0, <1>t, <1>3, <2>1, <2>2 DEF Stamp, history
<1>4. CASE Commit(r)
  <2>1. status[r] = "none" BY <1>4 DEF AdmissionInv, Course, Commit
  <2>2. \A x \in Requests : status'[x] = IF x = r THEN "ACTIVE" ELSE status[x] BY <1>4, <1>t DEF Commit
  <2>3. overtaken \subseteq overtaken' BY <1>4 DEF Commit
  <2> QED BY <1>0, <1>4, <2>1, <2>2, <2>3 DEF Commit
<1>5. CASE OwnCancel(r)
  <2>1. \A x \in Requests :
          /\ status'[x] = IF x = r /\ status[x] = "ACTIVE" THEN "CANCELLED" ELSE status[x]
          /\ keptFor'[x] = IF x = r /\ status[x] = "ACTIVE" THEN canonical[r] ELSE keptFor[x]
    BY <1>5, <1>t DEF OwnCancel, Collapse
  <2>2. createdAt' = createdAt /\ started' = started /\ overtaken' = overtaken BY <1>5 DEF OwnCancel
  <2> QED BY <1>0, <1>5, <2>1, <2>2
<1>6. CASE Cancel(r)
  <2>1. \A x \in Requests :
          /\ status'[x] = IF x = victim[r] /\ status[x] = "ACTIVE" THEN "CANCELLED" ELSE status[x]
          /\ keptFor'[x] = IF x = victim[r] /\ status[x] = "ACTIVE" THEN canonical[r] ELSE keptFor[x]
    BY <1>6, <1>t DEF Cancel, Collapse
  <2>2. createdAt' = createdAt /\ started' = started /\ overtaken' = overtaken BY <1>6 DEF Cancel
  <2> QED BY <1>0, <1>6, <2>1, <2>2
<1>7. CASE End(r) BY <1>0, <1>t, <1>7 DEF End, history
<1> QED BY <1>1, <1>2, <1>3, <1>4, <1>5, <1>6, <1>7 DEF Act
-----------------------------------------------------------------------------
(* The invariant.                                                          *)

LEMMA ClockStep ==
    ASSUME AdmissionInv, NEW r \in Requests, Act(r) PROVE Clock'
<1>0. Typed /\ Clock /\ createdAt \in [Requests -> Nat] BY DEF AdmissionInv, Typed
<1>1. CASE Stamp(r)
  <2>1. createdAt[r] = 0 /\ createdAt' = [createdAt EXCEPT ![r] = Now]
    BY <1>1 DEF Stamp, AdmissionInv, Course
  <2>2. IsFiniteSet(Stamped) BY AdmissionAssumption, FS_Subset DEF Stamped
  <2>3. Cardinality(Stamped) \in Nat /\ Now = Cardinality(Stamped) + 1
    BY <2>2, FS_CardinalityType DEF Now, Stamped
  <2>4. \A x \in Requests : createdAt'[x] = IF x = r THEN Cardinality(Stamped) + 1 ELSE createdAt[x]
    BY <1>0, <2>1, <2>3
  <2>5. Stamped' = Stamped \cup {r} BY <2>3, <2>4 DEF Stamped
  <2>6. r \notin Stamped BY <2>1 DEF Stamped
  <2>7. Cardinality(Stamped') = Cardinality(Stamped) + 1 BY <2>2, <2>5, <2>6, FS_AddElement
  <2>8. \A x \in Requests : createdAt[x] \in Nat /\ createdAt[x] <= Cardinality(Stamped)
    BY <1>0 DEF Clock
  <2>9. \A x \in Requests : createdAt'[x] <= Cardinality(Stamped') BY <2>3, <2>4, <2>7, <2>8
  <2>10. \A x, y \in Requests : x # y /\ createdAt'[x] # 0 => createdAt'[x] # createdAt'[y]
    BY <1>0, <2>3, <2>4, <2>8 DEF Clock
  <2> QED BY <2>9, <2>10 DEF Clock
<1>2. CASE createdAt' = createdAt BY <1>0, <1>2 DEF Clock, Stamped
<1>3. Stamp(r) \/ createdAt' = createdAt
  BY DEF Act, Lookup, Blocker, Commit, Reread, Own, OwnCancel, List, Sweep, Cancel, Swept, Die, Start, End
<1> QED BY <1>1, <1>2, <1>3

LEMMA CourseStep ==
    ASSUME AdmissionInv, NEW r \in Requests, Act(r), NEW q \in Requests PROVE Course(q)'
<1>0. Typed /\ Course(q) /\ Leading(q) BY DEF AdmissionInv
<1>t. /\ pc \in [Requests -> Steps] /\ status \in [Requests -> {"none", "ACTIVE", "CANCELLED", "ENDED"}]
      /\ createdAt \in [Requests -> Nat] /\ canonical \in [Requests -> Requests \cup {None}]
  BY <1>0 DEF Typed
<1>k. /\ status[q] # "none" => status'[q] # "none" /\ createdAt'[q] = createdAt[q]
      /\ createdAt[q] # 0 => createdAt'[q] = createdAt[q]
      /\ status'[q] # "none" => status[q] # "none" \/ (q = r /\ Commit(r))
  BY RunsKeep
<1>1. CASE q # r
  <2>1. pc'[q] = pc[q] /\ canonical'[q] = canonical[q] /\ createdAt'[q] = createdAt[q]
    BY <1>0, <1>1, OthersStay
  <2> QED BY <1>0, <1>1, <1>k, <2>1 DEF Course
<1>2. CASE q = r
  <2> USE <1>2, <1>0, <1>t, <1>k DEF Course, Goto, Answer
  <2>1. CASE Lookup(r)
    <3>1. pc'[r] \in {"blocker", "list"} /\ status'[r] = status[r] /\ createdAt'[r] = createdAt[r] /\ pc[r] = "lookup"
      BY <2>1 DEF Lookup
    <3> QED BY <3>1
  <2>2. CASE Blocker(r)
    <3>1. pc'[r] \in {"stamp", "done"} /\ status'[r] = status[r] /\ createdAt'[r] = createdAt[r] /\ pc[r] = "blocker"
      BY <2>2 DEF Blocker
    <3> QED BY <3>1
  <2>3. CASE Stamp(r)
    <3>1. Now # 0
      <4>1. IsFiniteSet({x \in Requests : createdAt[x] # 0}) BY AdmissionAssumption, FS_Subset
      <4> QED BY <4>1, FS_CardinalityType DEF Now
    <3>2. pc'[r] = "commit" /\ status'[r] = status[r] /\ createdAt'[r] = Now /\ pc[r] = "stamp"
      BY <2>3 DEF Stamp
    <3> QED BY <3>1, <3>2
  <2>4. CASE Commit(r)
    <3>1. pc'[r] = "reread" /\ status'[r] = "ACTIVE" /\ createdAt'[r] = createdAt[r] /\ pc[r] = "commit"
      BY <2>4 DEF Commit
    <3> QED BY <3>1
  <2>5. CASE Reread(r)
    <3>1. /\ pc'[r] \in {"list", "own"} /\ (pc'[r] = "list" => canonical'[r] = r) /\ pc[r] = "reread"
          /\ status'[r] = status[r] /\ createdAt'[r] = createdAt[r]
      BY <2>5 DEF Reread
    <3> QED BY <3>1
  <2>6. CASE Own(r)
    <3>1. pc'[r] \in {"ownCancel", "done"} /\ pc[r] = "own" BY <2>6 DEF Own
    <3> QED BY <3>1, <2>6 DEF Commit
  <2>7. CASE OwnCancel(r) \/ Swept(r) \/ Die(r)
    <3>1. (pc'[r] = "done" /\ ~Commit(r)) \/ (Die(r) /\ pc'[r] = "done" /\ status' = status)
      BY <2>7 DEF OwnCancel, Swept, Die, Commit
    <3> QED BY <3>1
  <2>8. CASE List(r) \/ Sweep(r) \/ Cancel(r)
    <3>1. /\ pc[r] \in {"list", "sweep", "cancel"} /\ pc'[r] \in {"sweep", "cancel"} /\ canonical'[r] = canonical[r]
          /\ ~Commit(r)
      BY <2>8 DEF List, Sweep, Cancel, Commit
    <3> QED BY <3>1
  <2>9. CASE Start(r) \/ End(r)
    <3>1. /\ pc'[r] = pc[r] /\ canonical'[r] = canonical[r] /\ createdAt'[r] = createdAt[r]
          /\ status[r] # "none" /\ status'[r] # "none"
      BY <2>9 DEF Start, End, locals, Collapsible
    <3> QED BY <3>1
  <2> QED BY <2>1, <2>2, <2>3, <2>4, <2>5, <2>6, <2>7, <2>8, <2>9 DEF Act
<1> QED BY <1>1, <1>2

LEMMA FitsKept ==
    ASSUME ask' = ask, NEW x, NEW r \in Requests, createdAt[r] # 0 => createdAt'[r] = createdAt[r],
           Fits(x, r)
    PROVE  Fits(x, r)'
BY DEF Fits, Satisfies, SameWork

LEMMA FittingStep ==
    ASSUME AdmissionInv, NEW r \in Requests, Act(r), NEW q \in Requests PROVE Fitting(q)'
<1>0. Typed /\ Fitting(q) /\ Course(q) BY DEF AdmissionInv
<1>t. /\ canonical \in [Requests -> Requests \cup {None}]
      /\ reply \in [Requests -> Requests \cup {None, "refused"}]
  BY <1>0 DEF Typed
<1>k. ask' = ask /\ (createdAt[q] # 0 => createdAt'[q] = createdAt[q]) BY RunsKeep
<1>n. None \notin Requests /\ "refused" \notin Requests BY AdmissionAssumption
<1>own. Fits(q, q) BY DEF Fits, Satisfies
<1>1. SUFFICES /\ canonical'[q] \in Requests => Fits(canonical'[q], q)
               /\ reply'[q] \in Requests => Fits(reply'[q], q)
  BY <1>k, FitsKept DEF Fitting
<1>2. CASE q # r
  <2>1. canonical'[q] = canonical[q] /\ reply'[q] = reply[q] BY <1>0, <1>2, OthersStay
  <2> QED BY <1>0, <2>1 DEF Fitting
<1>3. CASE q = r
  <2>f. /\ canonical[r] \in Requests => Fits(canonical[r], r)
        /\ reply[r] \in Requests => Fits(reply[r], r)
        /\ Fits(r, r)
    BY <1>0, <1>3, <1>own DEF Fitting
  <2>1. CASE Lookup(r)
    <3>1. canonical'[r] = Reusable(r) /\ reply'[r] = reply[r] BY <2>1, <1>t DEF Lookup
    <3>2. Reusable(r) # None => Fits(Reusable(r), r) BY <1>0, ReusableLeads DEF Fits
    <3> QED BY <1>3, <1>n, <2>f, <3>1, <3>2
  <2>2. CASE Reread(r)
    <3> DEFINE Same == {x \in Active : SameWork(x, r)}
    <3>1. Same \in SUBSET Requests BY DEF Active
    <3>2. Earliest(Same) = None \/ Earliest(Same) \in Same BY <1>0, <3>1, EarliestIsFirst DEF Typed
    <3>3. \A x \in Same : Fits(x, r)
      <4>1. createdAt[r] # 0 BY <1>0, <1>3, <2>2 DEF Course, Reread
      <4> QED BY <4>1 DEF Fits, SameWork, Satisfies
    <3>4. canonical'[r] \in {r, Earliest(Same)} /\ reply'[r] = reply[r] BY <2>2, <1>t DEF Reread
    <3> HIDE DEF Same
    <3> QED BY <1>3, <1>n, <2>f, <3>2, <3>3, <3>4
  <2>3. CASE Blocker(r) \/ Own(r) \/ OwnCancel(r) \/ Swept(r) \/ Die(r)
    <3>1. /\ canonical'[r] \in {canonical[r], None}
          /\ reply'[r] \in {reply[r], None, "refused", r, canonical[r]}
      BY <2>3, <1>t DEF Blocker, Own, OwnCancel, Swept, Die, Answer, locals
    <3> QED BY <1>3, <1>n, <2>f, <3>1
  <2>4. CASE Stamp(r) \/ Commit(r) \/ List(r) \/ Sweep(r) \/ Cancel(r) \/ Start(r) \/ End(r)
    <3>1. canonical' = canonical /\ reply' = reply
      BY <2>4 DEF Stamp, Commit, List, Sweep, Cancel, Start, End, locals
    <3> QED BY <1>3, <2>f, <3>1
  <2> QED BY <2>1, <2>2, <2>3, <2>4 DEF Act
<1> QED BY <1>2, <1>3
LEMMA BehindKept ==
    ASSUME AdmissionInv, NEW r \in Requests, Act(r), NEW x \in Requests, NEW k \in Requests,
           status[x] # "none", status[k] # "none", Behind(x, k)
    PROVE  Behind(x, k)'
<1>1. /\ ask' = ask /\ overtaken \subseteq overtaken'
      /\ createdAt'[x] = createdAt[x] /\ createdAt'[k] = createdAt[k]
  BY RunsKeep
<1> QED BY <1>1 DEF Behind

\* A run that becomes visible is behind the visible runs of its work: it has the later createdAt,
\* or it was overtaken.
LEMMA CommitIsBehind ==
    ASSUME AdmissionInv, NEW r \in Requests, Act(r), Commit(r),
           NEW k \in Requests, status[k] # "none", SameWork(r, k)
    PROVE  Behind(r, k)'
<1>1. Typed /\ Clock /\ Course(r) BY DEF AdmissionInv
<1>2. createdAt[r] # 0 /\ status[r] = "none" BY <1>1 DEF Course, Commit
<1>3. createdAt[r] # createdAt[k] BY <1>1, <1>2 DEF Clock
<1>4. createdAt' = createdAt BY DEF Commit
<1>5. createdAt[k] \in Nat /\ createdAt[r] \in Nat BY <1>1 DEF Typed
<1>6. createdAt[k] > createdAt[r] => r \in overtaken' BY DEF Commit, SameWork
<1> QED BY <1>3, <1>4, <1>5, <1>6 DEF Behind

\* The earliest run of a set is ahead of the others.
LEMMA FirstIsAhead ==
    ASSUME AdmissionInv, NEW S \in SUBSET Active, NEW k \in S, First(k, S), NEW x \in S, x # k
    PROVE  createdAt[k] < createdAt[x]
<1>1. Typed /\ Clock /\ k \in Requests /\ x \in Requests /\ status[k] = "ACTIVE" BY DEF AdmissionInv, Active
<1>2. createdAt[k] # 0 BY <1>1 DEF AdmissionInv, Course
<1>3. createdAt[k] # createdAt[x] BY <1>1, <1>2 DEF Clock
<1> QED BY <1>1, <1>3 DEF First, Typed

LEMMA LeadingStep ==
    ASSUME AdmissionInv, NEW r \in Requests, Act(r), NEW q \in Requests PROVE Leading(q)'
<1>0. Typed /\ Clock /\ Course(q) /\ Leading(q) BY DEF AdmissionInv
<1>t. /\ canonical \in [Requests -> Requests \cup {None}] /\ pc \in [Requests -> Steps]
      /\ victims \in [Requests -> SUBSET Requests] /\ victim \in [Requests -> Requests \cup {None}]
      /\ status \in [Requests -> {"none", "ACTIVE", "CANCELLED", "ENDED"}]
      /\ createdAt \in [Requests -> Nat]
  BY <1>0 DEF Typed
<1>k. /\ ask' = ask
      /\ \A x \in Requests :
           /\ status[x] # "none" => status'[x] # "none"
           /\ status'[x] = "ACTIVE" => status[x] = "ACTIVE" \/ (x = r /\ Commit(r))
  BY RunsKeep
<1>n. None \notin Requests BY AdmissionAssumption
\* What the runs may do to a request that keeps run k.
<1>1. ASSUME NEW k \in Requests, status[k] # "none",
             \A x \in Active : SameWork(x, k) /\ x # k => Behind(x, k)
      PROVE  \A x \in Active' : SameWork(x, k) /\ x # k => Behind(x, k)'
  <2> SUFFICES ASSUME NEW x \in Active', SameWork(x, k), x # k PROVE Behind(x, k)'
    OBVIOUS
  <2>1. x \in Requests /\ status'[x] = "ACTIVE" BY DEF Active
  <2>2. CASE status[x] = "ACTIVE"
    <3>1. x \in Active BY <2>1, <2>2 DEF Active
    <3>2. Behind(x, k) BY <1>1, <3>1
    <3> QED BY <1>1, <2>1, <2>2, <3>2, BehindKept
  <2>3. CASE x = r /\ Commit(r) BY <1>1, <2>3, CommitIsBehind
  <2> QED BY <1>k, <2>1, <2>2, <2>3
\* The state of the request, put together.
<1>2. ASSUME pc'[q] \in {"own", "ownCancel", "list", "sweep", "cancel"} =>
               canonical'[q] \in Requests /\ status[canonical'[q]] # "none",
             pc'[q] \in {"own", "ownCancel"} /\ status[q] = "ACTIVE" => Behind(q, canonical'[q]),
             pc'[q] \in {"own", "ownCancel"} => ~(q = r /\ Commit(r)),
             pc'[q] \in {"list", "sweep", "cancel"} =>
               \A x \in Active : SameWork(x, canonical'[q]) /\ x # canonical'[q] => Behind(x, canonical'[q]),
             pc'[q] \in {"sweep", "cancel"} =>
               \A x \in victims'[q] : SameWork(x, canonical'[q]) /\ x # canonical'[q],
             pc'[q] = "cancel" =>
               victim'[q] \in Requests /\ SameWork(victim'[q], canonical'[q]) /\ victim'[q] # canonical'[q]
      PROVE  Leading(q)'
  <2>1. pc'[q] \in {"own", "ownCancel", "list", "sweep", "cancel"} =>
          canonical'[q] \in Requests /\ status'[canonical'[q]] # "none"
    BY <1>2, <1>k
  <2>2. ASSUME pc'[q] \in {"own", "ownCancel"}, status'[q] = "ACTIVE" PROVE Behind(q, canonical[q])'
    <3>1. status[q] = "ACTIVE" BY <1>2, <1>k, <2>2
    <3>2. PICK k \in Requests : k = canonical'[q] /\ status[k] # "none" /\ Behind(q, k)
      BY <1>2, <2>2, <3>1
    <3>3. Behind(q, k)' BY <3>1, <3>2, BehindKept
    <3> QED BY <3>2, <3>3 DEF Behind
  <2>3. ASSUME pc'[q] \in {"list", "sweep", "cancel"},
               NEW x \in Active', SameWork(x, canonical[q])', x # canonical'[q]
        PROVE  Behind(x, canonical[q])'
    <3>1. PICK k \in Requests : /\ k = canonical'[q] /\ status[k] # "none"
                                /\ \A y \in Active : SameWork(y, k) /\ y # k => Behind(y, k)
      BY <1>2, <2>3
    <3>2. SameWork(x, k) BY <1>k, <2>3, <3>1 DEF SameWork
    <3>3. Behind(x, k)' BY <1>1, <2>3, <3>1, <3>2
    <3> QED BY <3>1, <3>3 DEF Behind
  <2>4. /\ pc'[q] \in {"sweep", "cancel"} =>
             \A x \in victims'[q] : SameWork(x, canonical[q])' /\ x # canonical'[q]
        /\ pc'[q] = "cancel" =>
             victim'[q] \in Requests /\ SameWork(victim[q], canonical[q])' /\ victim'[q] # canonical'[q]
    BY <1>2, <1>k DEF SameWork
  <2> QED BY <2>1, <2>2, <2>3, <2>4 DEF Leading
<1>l. /\ pc[q] \in {"own", "ownCancel", "list", "sweep", "cancel"} =>
           canonical[q] \in Requests /\ status[canonical[q]] # "none"
      /\ pc[q] \in {"own", "ownCancel"} /\ status[q] = "ACTIVE" => Behind(q, canonical[q])
      /\ pc[q] \in {"list", "sweep", "cancel"} =>
           \A x \in Active : SameWork(x, canonical[q]) /\ x # canonical[q] => Behind(x, canonical[q])
      /\ pc[q] \in {"sweep", "cancel"} =>
           \A x \in victims[q] : SameWork(x, canonical[q]) /\ x # canonical[q]
      /\ pc[q] = "cancel" =>
           victim[q] \in Requests /\ SameWork(victim[q], canonical[q]) /\ victim[q] # canonical[q]
  BY <1>0 DEF Leading
<1>3. CASE q # r
  <2>1. /\ pc'[q] = pc[q] /\ canonical'[q] = canonical[q] /\ victims'[q] = victims[q] /\ victim'[q] = victim[q]
    BY <1>0, <1>3, OthersStay
  <2> QED BY <1>2, <1>3, <1>l, <2>1
<1>4. CASE q = r
  <2>1. CASE Lookup(r)
    <3>1. /\ pc'[q] \in {"blocker", "list"} /\ canonical'[q] = Reusable(q)
          /\ pc'[q] = "list" => Reusable(q) # None
      BY <1>4, <2>1, <1>t DEF Lookup, Goto
    <3>2. CASE pc'[q] = "blocker" BY <1>2, <3>2
    <3>3. CASE pc'[q] = "list"
      <4> DEFINE k == Reusable(q)
      <4>1. k # None BY <3>1, <3>3
      <4>2. k \in Active /\ \A x \in Active :
              SameWork(x, k) /\ ask[x].scope = ask[k].scope => createdAt[k] <= createdAt[x]
        BY <1>0, <4>1, ReusableLeads
      <4> HIDE DEF k
      <4>3. k \in Requests /\ status[k] = "ACTIVE" BY <4>2 DEF Active
      <4>4. createdAt[k] # 0 BY <4>3 DEF AdmissionInv, Course
      <4>5. ASSUME NEW x \in Active, SameWork(x, k), x # k PROVE Behind(x, k)
        <5>1. x \in Requests BY DEF Active
        <5>2. createdAt[k] # createdAt[x] BY <1>0, <4>3, <4>4, <4>5, <5>1 DEF Clock
        <5>3. createdAt[k] \in Nat /\ createdAt[x] \in Nat BY <1>t, <4>3, <5>1
        <5>4. ask[x].scope = ask[k].scope => createdAt[k] <= createdAt[x] BY <4>2, <4>5
        <5>5. ask[x].scope = ask[k].scope => createdAt[k] < createdAt[x] BY <5>2, <5>3, <5>4
        <5> QED BY <5>5 DEF Behind
      <4>6. canonical'[q] = k BY <3>1 DEF k
      <4> QED BY <1>2, <3>3, <4>3, <4>5, <4>6
    <3> QED BY <3>1, <3>2, <3>3
  <2>2. CASE Reread(r)
    <3> DEFINE Same == {x \in Active : SameWork(x, r)}
               first == Earliest(Same)
    <3>1. Same \in SUBSET Requests /\ Same \in SUBSET Active BY DEF Active
    <3>2. (Same = {} => first = None) /\ (Same # {} => first \in Same /\ First(first, Same))
      BY <1>0, <1>t, <3>1, EarliestIsFirst
    <3>3. /\ first \in {None, r} => pc'[r] = "list" /\ canonical'[r] = r
          /\ first \notin {None, r} => pc'[r] = "own" /\ canonical'[r] = first
          /\ pc[r] = "reread"
      BY <2>2, <1>t DEF Reread, Goto
    <3>4. status[r] # "none" /\ ~Commit(r) BY <1>0, <1>4, <3>3 DEF Course, Commit
    <3>5. \A x \in Active : SameWork(x, r) => x \in Same OBVIOUS
    <3>6. \A x \in Same : x \in Requests /\ status[x] = "ACTIVE" /\ SameWork(x, r) BY DEF Active
    <3>7. status[r] = "ACTIVE" => r \in Same BY DEF Active, SameWork
    <3>8. SameWork(r, r) BY DEF SameWork
    <3> HIDE DEF Same, first
    <3>9. \A x \in Same : first \in Same /\ x # first => createdAt[first] < createdAt[x]
      BY <3>1, <3>2, FirstIsAhead
    <3>10. CASE first \in {None, r}
      <4>1. \A x \in Active : SameWork(x, r) /\ x # r => Behind(x, r) BY <3>2, <3>5, <3>9, <3>10, <1>n, <3>1 DEF Behind
      <4> QED BY <1>2, <1>4, <3>3, <3>4, <3>10, <4>1
    <3>11. CASE first \notin {None, r}
      <4>1. first \in Same BY <3>2, <3>11
      <4>2. status[r] = "ACTIVE" => Behind(r, first) BY <3>7, <3>9, <3>11, <4>1 DEF Behind
      <4>3. first \in Requests /\ status[first] # "none" BY <3>6, <4>1
      <4> QED BY <1>2, <1>4, <3>3, <3>4, <3>11, <4>2, <4>3
    <3> QED BY <3>10, <3>11
  <2>3. CASE Own(r)
    <3>1. /\ pc'[q] = "done" \/ (pc'[q] = "ownCancel" /\ canonical'[q] = canonical[q])
          /\ pc[q] = "own" /\ ~Commit(r)
      BY <1>4, <2>3, <1>t DEF Own, Goto, Answer, locals, Commit
    <3> QED BY <1>2, <1>l, <3>1
  <2>4. CASE Blocker(r) \/ Stamp(r) \/ Commit(r) \/ OwnCancel(r) \/ Swept(r) \/ Die(r)
    <3>1. pc'[q] \in {"stamp", "commit", "reread", "done"}
      BY <1>4, <2>4, <1>t DEF Blocker, Stamp, Commit, OwnCancel, Swept, Die, Goto, Answer
    <3> QED BY <1>2, <3>1
  <2>5. CASE List(r)
    <3>1. /\ pc[q] = "list" /\ pc'[q] = "sweep" /\ canonical'[q] = canonical[q]
          /\ victims'[q] = {x \in Active : SameWork(x, canonical[q])} \ {canonical[q]}
      BY <1>4, <2>5, <1>t DEF List, Goto
    <3> QED BY <1>2, <1>l, <3>1
  <2>6. CASE Sweep(r)
    <3> DEFINE e == Earliest(victims[q])
    <3>1. victims[q] \in SUBSET Requests /\ victims[q] # {} BY <1>4, <2>6, <1>t DEF Sweep
    <3>2. e \in victims[q] BY <3>1, <1>t, EarliestIsFirst
    <3>3. /\ pc[q] = "sweep" /\ canonical'[q] = canonical[q] /\ victims'[q] = victims[q] \ {e}
          /\ pc'[q] = "sweep" \/ (pc'[q] = "cancel" /\ victim'[q] = e)
      BY <1>4, <2>6, <1>t DEF Sweep, Goto
    <3> HIDE DEF e
    <3>4. e \in Requests BY <3>1, <3>2
    <3> QED BY <1>2, <1>l, <3>2, <3>3, <3>4
  <2>7. CASE Cancel(r)
    <3>1. pc[q] = "cancel" /\ pc'[q] = "sweep" /\ canonical'[q] = canonical[q] /\ victims'[q] = victims[q]
      BY <1>4, <2>7, <1>t DEF Cancel, Goto
    <3> QED BY <1>2, <1>l, <3>1
  <2>8. CASE Start(r) \/ End(r)
    <3>1. /\ pc'[q] = pc[q] /\ canonical'[q] = canonical[q] /\ victims'[q] = victims[q]
          /\ victim'[q] = victim[q] /\ status[r] = "ACTIVE"
      BY <2>8 DEF Start, End, locals, Collapsible
    <3>2. ~(q = r /\ pc[r] = "commit") BY <1>0, <1>4, <3>1 DEF Course
    <3>3. ~(q = r /\ Commit(r)) BY <3>2 DEF Commit
    <3> QED BY <1>2, <1>l, <3>1, <3>3
  <2> QED BY <2>1, <2>2, <2>3, <2>4, <2>5, <2>6, <2>7, <2>8 DEF Act
<1> QED BY <1>3, <1>4

LEMMA CollapsedStep ==
    ASSUME AdmissionInv, NEW r \in Requests, Act(r), NEW x \in Requests PROVE Collapsed(x)'
<1> SUFFICES ASSUME status'[x] = "CANCELLED"
             PROVE  /\ keptFor'[x] \in Requests /\ status'[keptFor'[x]] # "none"
                    /\ Behind(x, keptFor[x])'
  BY DEF Collapsed
<1>0. Typed /\ Leading(r) /\ Collapsed(x) BY DEF AdmissionInv
<1>1. PICK k \in Requests : k = keptFor'[x] /\ status[k] # "none" /\ status[x] # "none" /\ Behind(x, k)
  <2>1. \/ status[x] = "CANCELLED" /\ keptFor'[x] = keptFor[x]
        \/ /\ status[x] = "ACTIVE" /\ keptFor'[x] = canonical[r]
           /\ (OwnCancel(r) /\ x = r) \/ (Cancel(r) /\ x = victim[r])
    <3> HIDE DEF AdmissionInv, Act, OwnCancel, Cancel
    <3> QED BY RunsKeep
  <2>2. CASE status[x] = "CANCELLED" /\ keptFor'[x] = keptFor[x] BY <1>0, <2>2 DEF Collapsed
  <2>3. CASE status[x] = "ACTIVE" /\ keptFor'[x] = canonical[r] /\ OwnCancel(r) /\ x = r
    BY <1>0, <2>3 DEF Leading, OwnCancel
  <2>4. CASE status[x] = "ACTIVE" /\ keptFor'[x] = canonical[r] /\ Cancel(r) /\ x = victim[r]
    <3>1. pc[r] = "cancel" /\ x \in Active BY <2>4 DEF Cancel, Active
    <3> QED BY <1>0, <2>4, <3>1 DEF Leading
  <2> QED BY <2>1, <2>2, <2>3, <2>4
<1>2. Behind(x, k)' /\ status'[k] # "none" BY <1>1, BehindKept, RunsKeep
<1> QED BY <1>1, <1>2 DEF Behind
\* Two duplicates that wait stay in the hands of one of their requests: a step of neither keeps
\* that, a step of one of them hands the pair on, ends a wait or kills the request.
LEMMA RacingStep ==
    ASSUME AdmissionInv, NEW r \in Requests, Act(r) PROVE Racing'
<1>0. Typed /\ Racing /\ \A q \in Requests : Course(q) /\ Leading(q) BY DEF AdmissionInv
<1>t. /\ canonical \in [Requests -> Requests \cup {None}] /\ pc \in [Requests -> Steps]
      /\ victims \in [Requests -> SUBSET Requests] /\ victim \in [Requests -> Requests \cup {None}]
      /\ status \in [Requests -> {"none", "ACTIVE", "CANCELLED", "ENDED"}]
      /\ createdAt \in [Requests -> Nat] /\ reply \in [Requests -> Requests \cup {None, "refused"}]
  BY <1>0 DEF Typed
<1>k. /\ ask' = ask /\ overtaken \subseteq overtaken' /\ started \subseteq started'
      /\ \A x \in Requests :
           /\ status[x] # "none" => createdAt'[x] = createdAt[x]
           /\ status'[x] = "ACTIVE" => status[x] = "ACTIVE" \/ (x = r /\ Commit(r))
  BY RunsKeep
<1> DEFINE Open(x, y) ==
             \/ pc[y] \in {"reread", "own", "ownCancel"} \/ Dead(y)
             \/ x \in overtaken /\ (InHand(x, y) \/ Dead(x))
<1> SUFFICES ASSUME NEW x \in Requests, NEW y \in Requests,
                    status'[x] = "ACTIVE", status'[y] = "ACTIVE", x \notin started', y \notin started',
                    SameWork(x, y), createdAt'[x] < createdAt'[y]
             PROVE  Open(x, y)'
  BY <1>k DEF Racing, Active, SameWork
<1>1. CASE Commit(r)
  <2>1. /\ pc[r] = "commit" /\ pc'[r] = "reread" /\ createdAt' = createdAt
        /\ (\E z \in Requests : status[z] # "none" /\ SameWork(z, r) /\ createdAt[z] > createdAt[r]) => r \in overtaken'
    BY <1>1, <1>t DEF Commit, Goto
  <2>2. CASE y = r BY <2>1, <2>2
  <2>3. CASE x = r /\ y # r
    <3>1. status[y] # "none" BY <1>k, <2>3
    <3>2. createdAt[y] > createdAt[r] BY <1>t, <2>1, <2>3
    <3>3. r \in overtaken' BY <2>1, <2>3, <3>1, <3>2 DEF SameWork
    <3> QED BY <2>1, <2>3, <3>3 DEF InHand
  <2>4. CASE x # r /\ y # r
    <3>1. status[x] = "ACTIVE" /\ status[y] = "ACTIVE" BY <1>k, <2>4
    <3>2. Open(x, y) BY <1>0, <1>k, <2>1, <3>1 DEF Racing, Active
    <3>3. /\ pc'[x] = pc[x] /\ pc'[y] = pc[y] /\ reply'[x] = reply[x] /\ reply'[y] = reply[y]
          /\ victims'[x] = victims[x] /\ victim'[x] = victim[x]
      BY <1>0, <2>4, OthersStay
    <3> QED BY <1>k, <3>2, <3>3 DEF InHand, Dead
  <2> QED BY <2>2, <2>3, <2>4
<1>2. CASE ~Commit(r)
  <2>1. /\ status[x] = "ACTIVE" /\ status[y] = "ACTIVE" /\ x \notin started /\ y \notin started
        /\ createdAt'[x] = createdAt[x] /\ createdAt'[y] = createdAt[y] /\ createdAt[x] < createdAt[y]
        /\ x # y
    BY <1>2, <1>k, <1>t
  <2>2. Open(x, y) BY <1>0, <2>1 DEF Racing, Active
  <2>c. /\ pc[x] \notin {"lookup", "blocker", "stamp", "commit"}
        /\ pc[y] \notin {"lookup", "blocker", "stamp", "commit"}
        /\ pc[x] \in {"list", "sweep", "cancel"} => canonical[x] = x
    BY <1>0, <2>1 DEF Course
  <2>3. CASE r \notin {x, y}
    <3>1. /\ pc'[x] = pc[x] /\ pc'[y] = pc[y] /\ reply'[x] = reply[x] /\ reply'[y] = reply[y]
          /\ victims'[x] = victims[x] /\ victim'[x] = victim[x]
      BY <1>0, <2>3, OthersStay
    <3> QED BY <1>k, <2>2, <3>1 DEF InHand, Dead
  <2>4. CASE r = y
    <3>0. /\ pc'[x] = pc[x] /\ reply'[x] = reply[x] /\ victims'[x] = victims[x] /\ victim'[x] = victim[x]
      BY <1>0, <2>1, <2>4, OthersStay
    <3>1. CASE x \in overtaken /\ (InHand(x, y) \/ Dead(x)) BY <1>k, <3>0, <3>1 DEF InHand, Dead
    <3>2. CASE Dead(y)
      <4>1. Start(y) \/ End(y)
        BY <1>2, <2>4, <3>2 DEF Act, Dead, Lookup, Blocker, Stamp, Commit, Reread, Own, OwnCancel, List, Sweep, Cancel, Swept, Die
      <4>2. pc' = pc /\ reply' = reply BY <4>1 DEF Start, End, locals
      <4> QED BY <3>2, <4>2 DEF Dead
    <3>3. CASE pc[y] = "reread"
      <4>1. Reread(y) \/ Die(y) \/ Start(y) \/ End(y)
        BY <1>2, <2>4, <3>3 DEF Act, Lookup, Blocker, Stamp, Commit, Own, OwnCancel, List, Sweep, Cancel, Swept
      <4>2. CASE Reread(y)
        <5> DEFINE Same == {z \in Active : SameWork(z, y)}
                   first == Earliest(Same)
        <5>1. Same \in SUBSET Requests /\ x \in Same BY <2>1 DEF Active
        <5>2. first \in Same /\ First(first, Same) BY <1>t, <5>1, EarliestIsFirst
        <5>3. createdAt[first] <= createdAt[x] /\ first \in Requests BY <5>1, <5>2 DEF First
        <5> HIDE DEF Same, first
        <5>n. None \notin Requests BY AdmissionAssumption
        <5>a. createdAt[first] \in Nat /\ createdAt[x] \in Nat /\ createdAt[y] \in Nat BY <1>t, <5>3
        <5>4. first \notin {None, y} BY <2>1, <5>3, <5>n, <5>a
        <5>5. pc'[y] = "own" BY <1>t, <4>2, <5>4 DEF Reread, Goto, Same, first
        <5> QED BY <5>5
      <4>3. CASE Die(y)
        <5>1. pc'[y] = "done" /\ reply'[y] = None BY <1>t, <4>3 DEF Die, Answer, Goto
        <5> QED BY <5>1 DEF Dead
      <4>4. CASE Start(y) \/ End(y)
        <5>1. pc' = pc BY <4>4 DEF Start, End
        <5> QED BY <3>3, <5>1
      <4> QED BY <4>1, <4>2, <4>3, <4>4
    <3>4. CASE pc[y] \in {"own", "ownCancel"}
      <4>1. Own(y) \/ OwnCancel(y) \/ Die(y) \/ Start(y) \/ End(y)
        BY <1>2, <2>4, <3>4 DEF Act, Lookup, Blocker, Stamp, Commit, Reread, List, Sweep, Cancel, Swept
      <4>2. CASE Own(y)
        <5>1. Collapsible(y) BY <2>1 DEF Collapsible
        <5>2. pc'[y] = "ownCancel" BY <1>t, <4>2, <5>1 DEF Own, Goto
        <5> QED BY <5>2
      <4>3. CASE OwnCancel(y)
        <5>1. status'[y] = "CANCELLED" BY <1>t, <2>1, <4>3 DEF OwnCancel, Collapse
        <5> QED BY <5>1
      <4>4. CASE Die(y)
        <5>1. pc'[y] = "done" /\ reply'[y] = None BY <1>t, <4>4 DEF Die, Answer, Goto
        <5> QED BY <5>1 DEF Dead
      <4>5. CASE Start(y) \/ End(y)
        <5>1. pc' = pc BY <4>5 DEF Start, End
        <5> QED BY <3>4, <5>1
      <4> QED BY <4>1, <4>2, <4>3, <4>4, <4>5
    <3> QED BY <2>2, <3>1, <3>2, <3>3, <3>4
  <2>5. CASE r = x
    <3>0. pc'[y] = pc[y] /\ reply'[y] = reply[y] BY <1>0, <2>1, <2>5, OthersStay
    <3>1. CASE pc[y] \in {"reread", "own", "ownCancel"} \/ Dead(y) BY <3>0, <3>1 DEF Dead
    <3>2. CASE x \in overtaken /\ (InHand(x, y) \/ Dead(x))
      <4>0. SUFFICES InHand(x, y)' \/ Dead(x)' BY <1>k, <3>2
      <4>1. CASE Reread(x)
        <5>1. pc'[x] \in {"list", "own"} BY <1>t, <4>1 DEF Reread, Goto
        <5> QED BY <5>1 DEF InHand
      <4>2. CASE Own(x)
        <5>1. Collapsible(x) BY <2>1 DEF Collapsible
        <5>2. pc'[x] = "ownCancel" BY <1>t, <4>2, <5>1 DEF Own, Goto
        <5> QED BY <5>2 DEF InHand
      <4>3. CASE OwnCancel(x)
        <5>1. status'[x] = "CANCELLED" BY <1>t, <2>1, <4>3 DEF OwnCancel, Collapse
        <5> QED BY <5>1
      <4>4. CASE List(x)
        <5>1. canonical[x] = x BY <2>c, <4>4 DEF List
        <5>2. y \in Active /\ SameWork(y, x) BY <2>1 DEF Active, SameWork
        <5>3. pc'[x] = "sweep" /\ victims'[x] = {z \in Active : SameWork(z, x)} \ {x}
          BY <1>t, <4>4, <5>1 DEF List, Goto
        <5> QED BY <2>1, <5>2, <5>3 DEF InHand
      <4>5. CASE Sweep(x)
        <5> DEFINE e == Earliest(victims[x])
        <5>1. pc[x] = "sweep" /\ y \in victims[x] BY <3>2, <4>5 DEF Sweep, InHand, Dead
        <5>2. victims'[x] = victims[x] \ {e} /\ pc'[x] \in {"sweep", "cancel"} BY <1>t, <4>5, <5>1 DEF Sweep, Goto
        <5>3. e = y => pc'[x] = "cancel" /\ victim'[x] = y
          <6>1. Collapsible(y) BY <2>1 DEF Collapsible
          <6> QED BY <1>t, <4>5, <6>1 DEF Sweep, Goto
        <5> HIDE DEF e
        <5> QED BY <5>1, <5>2, <5>3 DEF InHand
      <4>6. CASE Cancel(x)
        <5>1. pc[x] = "cancel" /\ pc'[x] = "sweep" /\ victims'[x] = victims[x] BY <1>t, <4>6 DEF Cancel, Goto
        <5>2. y # victim[x]
          <6>1. y = victim[x] => status'[y] = "CANCELLED" BY <1>t, <2>1, <4>6 DEF Cancel, Collapse
          <6> QED BY <6>1
        <5>3. y \in victims[x] BY <3>2, <5>1, <5>2 DEF InHand, Dead
        <5> QED BY <5>1, <5>3 DEF InHand
      <4>7. CASE Swept(x)
        <5>1. pc[x] = "sweep" /\ victims[x] = {} BY <4>7 DEF Swept
        <5> QED BY <3>2, <5>1 DEF InHand, Dead
      <4>8. CASE Die(x)
        <5>1. pc'[x] = "done" /\ reply'[x] = None BY <1>t, <4>8 DEF Die, Answer, Goto
        <5> QED BY <5>1 DEF Dead
      <4>9. CASE Start(x) \/ End(x)
        <5>1. pc' = pc /\ reply' = reply /\ victims' = victims /\ victim' = victim BY <4>9 DEF Start, End, locals
        <5> QED BY <3>2, <5>1 DEF InHand, Dead
      <4>10. ~Lookup(x) /\ ~Blocker(x) /\ ~Stamp(x) /\ ~Commit(x)
        BY <2>c DEF Lookup, Blocker, Stamp, Commit
      <4> QED BY <2>5, <4>1, <4>2, <4>3, <4>4, <4>5, <4>6, <4>7, <4>8, <4>9, <4>10 DEF Act
    <3> QED BY <2>2, <3>1, <3>2
  <2> QED BY <2>3, <2>4, <2>5
<1> QED BY <1>1, <1>2

LEMMA AdmissionInvariant == Spec => []AdmissionInv
<1>1. Init => AdmissionInv
  <2> SUFFICES ASSUME Init PROVE AdmissionInv OBVIOUS
  <2> USE AdmissionAssumption
  <2>1. Typed BY DEF Init, Typed, Steps
  <2>2. Clock
    <3>1. Stamped = {} BY DEF Init, Stamped
    <3>2. Cardinality(Stamped) = 0 BY <3>1, FS_EmptySet
    <3> QED BY <3>2 DEF Init, Clock
  <2>3. Racing BY DEF Init, Racing, Active
  <2>4. \A r \in Requests : Course(r) /\ Fitting(r) /\ Leading(r) /\ Collapsed(r)
    BY DEF Init, Course, Fitting, Leading, Collapsed
  <2> QED BY <2>1, <2>2, <2>3, <2>4 DEF AdmissionInv
<1>2. AdmissionInv /\ [Next]_vars => AdmissionInv'
  <2> SUFFICES ASSUME AdmissionInv, [Next]_vars PROVE AdmissionInv' OBVIOUS
  <2>1. ASSUME NEW r \in Requests, Act(r) PROVE AdmissionInv'
    BY <2>1, TypedStep, ClockStep, RacingStep, CourseStep, FittingStep, LeadingStep, CollapsedStep
    DEF AdmissionInv
  <2>2. CASE UNCHANGED vars
    <3>0. createdAt' = createdAt BY <2>2 DEF vars
    <3>1. Clock' BY <3>0 DEF AdmissionInv, Clock, Stamped
    <3>5. Typed' BY <2>2 DEF AdmissionInv, vars, locals, history, Typed
    <3>2. Racing'
      <4>1. Racing BY DEF AdmissionInv
      <4>2. /\ ask' = ask /\ status' = status /\ createdAt' = createdAt /\ pc' = pc /\ started' = started
            /\ reply' = reply /\ victims' = victims /\ victim' = victim /\ overtaken' = overtaken
        BY <2>2 DEF vars, locals, history
      <4> QED BY <4>1, <4>2 DEF Racing, Active, SameWork, InHand, Dead
    <3>3. ASSUME NEW r \in Requests PROVE Course(r)' /\ Fitting(r)'
      BY <2>2 DEF AdmissionInv, vars, locals, history, Course, Fitting, Fits, Satisfies, SameWork
    <3>4. ASSUME NEW r \in Requests PROVE Leading(r)' /\ Collapsed(r)'
      <4>1. Leading(r) /\ Collapsed(r) BY <3>4 DEF AdmissionInv
      <4>2. /\ ask' = ask /\ status' = status /\ createdAt' = createdAt /\ pc' = pc /\ keptFor' = keptFor
            /\ canonical' = canonical /\ victims' = victims /\ victim' = victim /\ overtaken' = overtaken
        BY <2>2 DEF vars, locals, history
      <4>3. Leading(r)' BY <4>1, <4>2 DEF Leading, Behind, Active, SameWork
      <4>4. Collapsed(r)' BY <4>1, <4>2 DEF Collapsed, Behind
      <4> QED BY <4>3, <4>4
    <3> QED BY <3>1, <3>2, <3>3, <3>4, <3>5 DEF AdmissionInv
  <2>3. (\E r \in Requests : Act(r)) \/ UNCHANGED vars
    <3>1. ASSUME NEW r \in Requests PROVE Lookup(r) \/ Blocker(r) \/ Stamp(r) \/ Commit(r) \/ Reread(r) => ask' = ask
      BY DEF Lookup, Blocker, Stamp, Commit, Reread
    <3>2. ASSUME NEW r \in Requests PROVE Own(r) \/ OwnCancel(r) \/ List(r) \/ Sweep(r) \/ Cancel(r) => ask' = ask
      BY DEF Own, OwnCancel, List, Sweep, Cancel
    <3>3. ASSUME NEW r \in Requests PROVE Swept(r) \/ Die(r) \/ Start(r) \/ End(r) => ask' = ask
      BY DEF Swept, Die, Start, End
    <3> QED BY <3>1, <3>2, <3>3 DEF Next, Act
  <2> QED BY <2>1, <2>2, <2>3
<1> QED BY <1>1, <1>2, PTL DEF Spec

-----------------------------------------------------------------------------
(* The properties.                                                         *)

\* For any requests, no interleaving of getOrCreateRun's lookups, creations and collapses,
\* whatever is killed or worked on meanwhile, answers a request with a narrower run, or with one
\* of another scope unless it gave up its own run for a racer's (AnsweredAsAsked).
THEOREM Answers == Spec => []AnsweredAsAsked
<1>1. AdmissionInv => AnsweredAsAsked BY DEF AdmissionInv, Fitting, Fits, AnsweredAsAsked
<1> QED BY <1>1, AdmissionInvariant, PTL

\* For any requests, getOrCreateRun leaves two waiting duplicates side by side only where an
\* invocation was killed between its commit and its collapse (OneRunSurvives).
THEOREM NoDuplicate == Spec => []OneRunSurvives
<1>1. ASSUME AdmissionInv PROVE OneRunSurvives
  <2> SUFFICES ASSUME Settled, NEW x \in Active \ started, NEW y \in Active \ started,
                      Duplicates(x, y), createdAt[x] < createdAt[y]
               PROVE  reply[y] = None \/ (reply[x] = None /\ x \in overtaken)
    BY DEF OneRunSurvives
  <2>1. pc[x] = "done" /\ pc[y] = "done" /\ SameWork(x, y) BY DEF Settled, Active, Duplicates
  <2>2. \/ pc[y] \in {"reread", "own", "ownCancel"} \/ Dead(y)
        \/ x \in overtaken /\ (InHand(x, y) \/ Dead(x))
    BY <1>1, <2>1 DEF AdmissionInv, Racing
  <2> QED BY <2>1, <2>2 DEF InHand, Dead
<1> QED BY <1>1, AdmissionInvariant, PTL

\* For any requests, collapseDuplicateRun never takes all of a set of racing runs, each for
\* another of them, unless one became visible late or for a run of another scope (SomeRunSurvives).
THEOREM OneIsLeft == Spec => []SomeRunSurvives
<1>1. ASSUME AdmissionInv PROVE SomeRunSurvives
  <2> SUFFICES ASSUME NEW S \in SUBSET Requests, S # {},
                      \A x \in S : status[x] = "CANCELLED" /\ keptFor[x] \in S
               PROVE  \E x \in S : x \in overtaken \/ ask[x].scope # ask[keptFor[x]].scope
    BY DEF SomeRunSurvives
  <2>1. createdAt \in [Requests -> Nat] BY <1>1 DEF AdmissionInv, Typed
  <2>2. PICK x \in S : First(x, S) BY <2>1, SomeIsFirst
  <2>3. createdAt[x] <= createdAt[keptFor[x]] /\ x \in Requests /\ keptFor[x] \in Requests BY <2>2 DEF First
  <2>4. Behind(x, keptFor[x]) BY <1>1, <2>3 DEF AdmissionInv, Collapsed
  <2> QED BY <2>1, <2>3, <2>4 DEF Behind
<1> QED BY <1>1, AdmissionInvariant, PTL
=============================================================================
