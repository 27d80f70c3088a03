------------------------ MODULE SyncAccountLockProofs ------------------------
(***************************************************************************)
(* The account lock under capped hosting, for any number of callers.       *)
(***************************************************************************)
EXTENDS SyncAccountLock, TLAPS

\* A caller past its write has its row, until it is over or the row lapses.
RowsWritten ==
    /\ pc \in [Callers -> {"idle", "looked", "stamped"} \cup Written]
    /\ raced \in [Callers -> SUBSET Callers]
    /\ \A c \in Callers : pc[c] \in Written => c \in row

\* Whoever is engaged with the key at the same time met between look and write.
EngagedMet ==
    \A c, d \in Callers :
        c # d /\ pc[c] # "idle" /\ pc[d] # "idle" => c \in raced[d] \/ d \in raced[c]

IInv == RowsWritten /\ EngagedMet

LEMMA OverStep ==
    ASSUME IInv, NEW c \in Callers, Over(c)
    PROVE  IInv'
  <1>1. RowsWritten'
    BY DEF IInv, RowsWritten, Over, Written
  <1>2. EngagedMet'
    BY DEF IInv, RowsWritten, EngagedMet, Over
  <1> QED BY <1>1, <1>2 DEF IInv

LEMMA LookStep ==
    ASSUME IInv, NEW c \in Callers, Look(c)
    PROVE  IInv'
  <1>1. \A d \in Callers : pc[d] \in {"idle", "looked", "stamped"}
    BY DEF IInv, RowsWritten, Look, Live
  <1>2. RowsWritten'
    BY DEF IInv, RowsWritten, Look, Written
  <1>3. EngagedMet'
    BY <1>1 DEF IInv, RowsWritten, EngagedMet, Look
  <1> QED BY <1>2, <1>3 DEF IInv

LEMMA NextIInv ==
    ASSUME Capped, IInv, [Next]_vars
    PROVE  IInv'
  <1>1. ASSUME NEW c \in Callers, Stamp(c) \/ Write(c) \/ Verify(c) \/ Renew(c) PROVE IInv'
    <2>1. RowsWritten'
      BY <1>1 DEF IInv, RowsWritten, Stamp, Write, Verify, Renew, Written
    <2>2. EngagedMet'
      BY <1>1 DEF IInv, RowsWritten, EngagedMet, Stamp, Write, Verify, Renew
    <2> QED BY <2>1, <2>2 DEF IInv
  <1>2. ASSUME NEW c \in Callers, Die(c) PROVE IInv'
    <2>1. CASE c \in row
      BY <1>2, <2>1 DEF IInv, RowsWritten, EngagedMet, Die, Written
    <2>2. CASE c \notin row
      BY <1>2, <2>2, OverStep DEF Die
    <2> QED BY <2>1, <2>2
  <1>3. ASSUME NEW c \in Callers, Release(c) \/ Lapse(c) PROVE IInv'
    BY <1>3, OverStep DEF Release, Lapse
  <1>4. CASE UNCHANGED vars
    BY <1>4 DEF IInv, RowsWritten, EngagedMet, vars
  <1> QED
    BY <1>1, <1>2, <1>3, <1>4, LookStep DEF Next, CallerStep

\* "A live claim is never stolen" (findHolder, the lease) under capped hosting: callers hold
\* the key together only if they met between look and write, however many they are.
THEOREM Unstolen == ASSUME Capped PROVE Spec => []NeverStolen
  <1>1. Init => IInv
    BY DEF Init, IInv, RowsWritten, EngagedMet, Written
  <1>2. IInv /\ [Next]_vars => IInv'
    BY NextIInv
  <1>3. IInv => NeverStolen
    BY DEF IInv, EngagedMet, NeverStolen, Holding
  <1> QED
    BY <1>1, <1>2, <1>3, PTL DEF Spec
=============================================================================
