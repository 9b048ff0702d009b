--------------------------- MODULE FileLockProofs ---------------------------
(***************************************************************************)
(* Proofs about FileLock.  Types hold in every regime.  Mutual exclusion   *)
(* and atomic updates hold in SafeRegime, through the inductive invariant  *)
(* SafeInv: the creator of the lock file is its only holder, and no waiter *)
(* has seen an age at which a live holder's file can be judged stale.      *)
(***************************************************************************)
EXTENDS FileLock, TLAPS

LEMMA AgeFacts == DeadAge = 1 /\ UnreadableAge = 2 /\ StaleAge = 3 /\ AgeClass = 0..3
BY DEF DeadAge, UnreadableAge, StaleAge, AgeClass

LEMMA NoLockIsNoFile == \A l \in LockFile : l # NoLock
BY FileLockAssumption

LEMMA InitType == Init => TypeOK
BY FileLockAssumption, AgeFacts DEF Init, TypeOK, Holding, Waiting

LEMMA StepType == TypeOK /\ [Next]_vars => TypeOK'
<1> SUFFICES ASSUME TypeOK, [Next]_vars PROVE TypeOK'
  OBVIOUS
<1> USE AgeFacts DEF TypeOK, LockFile, Holding, Waiting, Goto
<1>1. ASSUME NEW p \in Proc, Begin(p) PROVE TypeOK'
  BY <1>1 DEF Begin
<1>2. ASSUME NEW p \in Proc, TryCreate(p) PROVE TypeOK'
  BY <1>2 DEF TryCreate
<1>3. ASSUME NEW p \in Proc, FindExisting(p) PROVE TypeOK'
  BY <1>3 DEF FindExisting
<1>4. ASSUME NEW p \in Proc, Stat(p) PROVE TypeOK'
  BY <1>4 DEF Stat
<1>5. ASSUME NEW p \in Proc, ReadPayload(p) PROVE TypeOK'
  BY <1>5 DEF ReadPayload
<1>6. ASSUME NEW p \in Proc, UnlinkStale(p) PROVE TypeOK'
  BY <1>6 DEF UnlinkStale
<1>7. ASSUME NEW p \in Proc, Retry(p) PROVE TypeOK'
  BY <1>7 DEF Retry
<1>8. ASSUME NEW p \in Proc, TimeOut(p) PROVE TypeOK'
  BY <1>8 DEF TimeOut
<1>9. ASSUME NEW p \in Proc, WritePayload(p) PROVE TypeOK'
  <2>1. lock' \in LockFile \union {NoLock}
    <3>1. CASE lock # NoLock /\ lock.owner = p
      BY <1>9, <3>1 DEF WritePayload
    <3>2. CASE ~(lock # NoLock /\ lock.owner = p)
      BY <1>9, <3>2 DEF WritePayload
    <3>3. QED
      BY <3>1, <3>2
  <2>2. pc' \in [Proc -> Holding \union Waiting \union {"idle", "dead"}]
    BY <1>9 DEF WritePayload
  <2>3. QED
    BY <1>9, <2>1, <2>2 DEF WritePayload
<1>10. ASSUME NEW p \in Proc, ReadFile(p) PROVE TypeOK'
  BY <1>10 DEF ReadFile
<1>11. ASSUME NEW p \in Proc, Replace(p) PROVE TypeOK'
  BY <1>11 DEF Replace
<1>12. ASSUME NEW p \in Proc, Release(p) PROVE TypeOK'
  BY <1>12 DEF Release
<1>13. ASSUME NEW p \in Proc, Crash(p) PROVE TypeOK'
  BY <1>13 DEF Crash
<1>14. CASE Age
  BY <1>14, FileLockAssumption DEF Age
<1>15. CASE UNCHANGED vars
  BY <1>15 DEF vars
<1>16. QED
  BY <1>1, <1>2, <1>3, <1>4, <1>5, <1>6, <1>7, <1>8, <1>9, <1>10, <1>11, <1>12,
     <1>13, <1>14, <1>15 DEF Next, Acquire, Section

(* Every reachable state of the lock protocol is well typed, with any faults. *)
THEOREM TypeCorrect == Spec => []TypeOK
<1>1. QED
  BY InitType, StepType, PTL DEF Spec

----------------------------------------------------------------------------

LEMMA InitSafe == Init => SafeInv
BY InitType, FileLockAssumption, AgeFacts
   DEF Init, SafeInv, HolderOwnsLock, NeverStale, CopyIsCurrent, Holding

LEMMA StepSafe == SafeRegime /\ SafeInv /\ [Next]_vars => SafeInv'
<1> SUFFICES ASSUME SafeRegime, SafeInv, [Next]_vars PROVE SafeInv'
  OBVIOUS
<1>t. TypeOK /\ TypeOK'
  BY StepType DEF SafeInv
<1> DEFINE Rest == HolderOwnsLock /\ NeverStale /\ CopyIsCurrent
<1> SUFFICES Rest'
  BY <1>t DEF SafeInv
<1> USE <1>t, AgeFacts DEF SafeInv, HolderOwnsLock, NeverStale, CopyIsCurrent,
      TypeOK, LockFile, Holding, Waiting, Goto
<1>1. ASSUME NEW p \in Proc, Begin(p) PROVE Rest'
  BY <1>1 DEF Begin
<1>2. ASSUME NEW p \in Proc, TryCreate(p) PROVE Rest'
  <2> DEFINE new == [owner |-> p, written |-> FALSE, age |-> 0]
  <2>1. lock' # NoLock /\ lock'.owner = p /\ lock'.age = 0
    <3>1. new \in LockFile /\ new.owner = p /\ new.age = 0
      OBVIOUS
    <3>2. lock' = new
      BY <1>2 DEF TryCreate
    <3>3. QED
      BY <3>1, <3>2, NoLockIsNoFile
  <2>2. \A q \in Proc : pc[q] \notin Holding
    BY <1>2 DEF TryCreate
  <2>3. QED
    BY <1>2, <2>1, <2>2 DEF TryCreate
<1>3. ASSUME NEW p \in Proc, FindExisting(p) PROVE Rest'
  BY <1>3 DEF FindExisting
<1>4. ASSUME NEW p \in Proc, Stat(p) PROVE Rest'
  BY <1>4 DEF Stat
<1>5. ASSUME NEW p \in Proc, ReadPayload(p) PROVE Rest'
  BY <1>5 DEF ReadPayload, JudgedStale, Readable
<1>6. ASSUME NEW p \in Proc, UnlinkStale(p) PROVE Rest'
  BY <1>6 DEF UnlinkStale
<1>7. ASSUME NEW p \in Proc, Retry(p) PROVE Rest'
  BY <1>7 DEF Retry
<1>8. ASSUME NEW p \in Proc, TimeOut(p) PROVE Rest'
  BY <1>8 DEF TimeOut
<1>9. ASSUME NEW p \in Proc, WritePayload(p) PROVE Rest'
  <2>1. lock # NoLock /\ lock.owner = p /\ lock \in LockFile
    BY <1>9 DEF WritePayload
  <2> DEFINE new == [owner |-> p, written |-> TRUE, age |-> 0]
  <2>2. new \in LockFile /\ new.owner = p /\ new.age = 0
    OBVIOUS
  <2>3. lock' = new
    BY <1>9, <2>1 DEF WritePayload
  <2>4. lock' # NoLock /\ lock'.owner = p /\ lock'.age = 0
    BY <2>2, <2>3, NoLockIsNoFile
  <2>5. QED
    BY <1>9, <2>1, <2>4 DEF WritePayload
<1>10. ASSUME NEW p \in Proc, ReadFile(p) PROVE Rest'
  BY <1>10 DEF ReadFile
<1>11. ASSUME NEW p \in Proc, Replace(p) PROVE Rest'
  BY <1>11 DEF Replace
<1>12. ASSUME NEW p \in Proc, Release(p) PROVE Rest'
  BY <1>12 DEF Release, SafeRegime
<1>13. ASSUME NEW p \in Proc, Crash(p) PROVE Rest'
  BY <1>13 DEF Crash, SafeRegime
<1>14. CASE Age
  BY <1>14, FileLockAssumption DEF Age, SafeRegime
<1>15. CASE UNCHANGED vars
  BY <1>15 DEF vars
<1>16. QED
  BY <1>1, <1>2, <1>3, <1>4, <1>5, <1>6, <1>7, <1>8, <1>9, <1>10, <1>11, <1>12,
     <1>13, <1>14, <1>15 DEF Next, Acquire, Section

LEMMA SafeInvariant == ASSUME SafeRegime PROVE Spec => []SafeInv
<1>1. SafeInv /\ [Next]_vars => SafeInv'
  BY StepSafe
<1>2. QED
  BY InitSafe, <1>1, PTL DEF Spec

(* In the safe regime interprocess_file_lock admits one process at a time. *)
THEOREM LockExcludes == ASSUME SafeRegime PROVE Spec => []MutualExclusion
<1>1. SafeInv => MutualExclusion
  BY DEF SafeInv, HolderOwnsLock, MutualExclusion
<1>2. QED
  BY <1>1, SafeInvariant, PTL

(* In the safe regime a holder's unlink removes the file it created.       *)
THEOREM LockReleasedByOwner == ASSUME SafeRegime PROVE Spec => ReleasesOwnLock
<1>1. SafeInv => \A p \in Proc : pc[p] = "release" => lock.owner = p
  BY DEF SafeInv, HolderOwnsLock, Holding
<1>2. SafeInv /\ [Next]_vars
        => [\A p \in Proc : pc[p] = "release" /\ lock' = NoLock /\ lock # NoLock
              => lock.owner = p]_vars
  BY <1>1
<1>3. QED
  BY <1>2, SafeInvariant, PTL DEF Spec, ReleasesOwnLock

(* In the safe regime update_json_file implements the atomic shared record: *)
(* no update overwrites another one.                                        *)
THEOREM AtomicUpdates == ASSUME SafeRegime PROVE Spec => UpdatesAreAtomic
<1>1. Init => Record!Init
  BY DEF Init, Record!Init
<1>2. SafeInv /\ [Next]_vars => [Record!Next]_file
  <2> SUFFICES ASSUME SafeInv, [Next]_vars PROVE [Record!Next]_file
    OBVIOUS
  <2>1. ASSUME NEW p \in Proc, Replace(p) PROVE Record!Next
    <3>1. copy[p] = file
      BY <2>1 DEF Replace, SafeInv, CopyIsCurrent
    <3>2. QED
      BY <2>1, <3>1 DEF Replace, Record!Next, Record!Update
  <2>2. ASSUME NEW p \in Proc, Acquire(p) PROVE file' = file
    BY <2>2 DEF Acquire, Begin, TryCreate, FindExisting, Stat, ReadPayload,
       UnlinkStale, Retry, TimeOut
  <2>3. ASSUME NEW p \in Proc, Section(p), ~Replace(p) PROVE file' = file
    BY <2>3 DEF Section, WritePayload, ReadFile, Release
  <2>4. ASSUME NEW p \in Proc, Crash(p) PROVE file' = file
    BY <2>4 DEF Crash
  <2>5. CASE Age
    BY <2>5 DEF Age
  <2>6. CASE UNCHANGED vars
    BY <2>6 DEF vars
  <2>7. QED
    BY <2>1, <2>2, <2>3, <2>4, <2>5, <2>6 DEF Next
<1>3. QED
  BY <1>1, <1>2, SafeInvariant, PTL DEF Spec, UpdatesAreAtomic, Record!Spec
=============================================================================
