------------------------------ MODULE FileLock ------------------------------
(***************************************************************************)
(* interprocess_file_lock and update_json_file of marketlm/fileio.py: the  *)
(* lock file that serialises the read-modify-write of status.json between  *)
(* the API process and the workers.                                        *)
(*                                                                         *)
(* A process that finds the lock file judges whether it is stale in two    *)
(* steps (stat, then read the payload), and unlinks it by name in a third: *)
(* the file it unlinks need not be the one it judged.  Time appears as the *)
(* age class of the lock file: 0 is younger than one second, 1 at least    *)
(* one second, 2 at least two, 3 at least stale_after_seconds.             *)
(***************************************************************************)
EXTENDS Naturals

CONSTANTS
  Proc,        \* processes that update one JSON file
  MaxUpdates,  \* bound: updates each process performs
  MaxHold,     \* the oldest age class a live holder's lock file reaches
  Faults,      \* subset of {"crash", "unlink", "release"}: what may go wrong
  NoLock       \* the lock file does not exist

DeadAge       == 1   \* 1.0 s, and the recorded pid is not alive
UnreadableAge == 2   \* 2.0 s, and the payload cannot be read
StaleAge      == 3   \* stale_after_seconds
AgeClass      == 0..StaleAge

LockFile == [owner : Proc, written : BOOLEAN, age : AgeClass]

ASSUME FileLockAssumption ==
  /\ MaxUpdates \in Nat
  /\ MaxHold \in AgeClass
  /\ Faults \subseteq {"crash", "unlink", "release"}
  /\ NoLock \notin LockFile

VARIABLES
  lock,   \* the lock file, or NoLock
  pc,     \* what each process does next
  seen,   \* the age a waiting process saw when it called stat
  copy,   \* the record as each holder last read it
  file,   \* the JSON record: file[p] counts p's updates
  done    \* updates that returned to their caller

vars == <<lock, pc, seen, copy, file, done>>

Holding == {"created", "read", "replace", "release"}
Waiting == {"open", "stat", "payload", "unlink", "wait"}

Init ==
  /\ lock = NoLock
  /\ pc   = [p \in Proc |-> "idle"]
  /\ seen = [p \in Proc |-> 0]
  /\ copy = [p \in Proc |-> [q \in Proc |-> 0]]
  /\ file = [p \in Proc |-> 0]
  /\ done = [p \in Proc |-> 0]

Goto(p, step) == pc' = [pc EXCEPT ![p] = step]

----------------------------------------------------------------------------
(* Acquisition: the loop of interprocess_file_lock.                         *)

Begin(p) ==
  /\ pc[p] = "idle"
  /\ done[p] < MaxUpdates
  /\ Goto(p, "open")
  /\ UNCHANGED <<lock, seen, copy, file, done>>

\* Mutant: os.open without O_EXCL also succeeds on an existing file.
TryCreateShared(p) ==
  /\ pc[p] = "open"
  /\ lock' = [owner |-> p, written |-> FALSE, age |-> 0]
  /\ Goto(p, "created")
  /\ UNCHANGED <<seen, copy, file, done>>

\* os.open(lock_path, O_CREAT | O_EXCL | O_WRONLY) succeeds.
TryCreate(p) ==
  /\ pc[p] = "open"
  /\ lock = NoLock
  /\ lock' = [owner |-> p, written |-> FALSE, age |-> 0]
  /\ Goto(p, "created")
  /\ UNCHANGED <<seen, copy, file, done>>

\* os.open raises FileExistsError.
FindExisting(p) ==
  /\ pc[p] = "open"
  /\ lock # NoLock
  /\ Goto(p, "stat")
  /\ UNCHANGED <<lock, seen, copy, file, done>>

\* _lock_is_stale, first half: the file's age.  A file that is gone is not stale.
Stat(p) ==
  /\ pc[p] = "stat"
  /\ \/ /\ lock = NoLock
        /\ Goto(p, "wait")
        /\ UNCHANGED seen
     \/ /\ lock # NoLock
        /\ seen' = [seen EXCEPT ![p] = lock.age]
        /\ Goto(p, IF lock.age >= StaleAge THEN "unlink" ELSE "payload")
  /\ UNCHANGED <<lock, copy, file, done>>

Readable == lock # NoLock /\ lock.written

\* Mutant: the age alone decides, whether or not the recorded pid is alive.
JudgedStaleByAge(p) == seen[p] >= DeadAge

\* _lock_is_stale, second half: the payload, read after the stat, against the
\* age seen at the stat.  A file that has gone or has no payload yet is unreadable.
JudgedStale(p) ==
  \/ ~Readable /\ seen[p] >= UnreadableAge
  \/ Readable /\ seen[p] >= DeadAge /\ pc[lock.owner] = "dead"

ReadPayload(p) ==
  /\ pc[p] = "payload"
  /\ Goto(p, IF JudgedStale(p) THEN "unlink" ELSE "wait")
  /\ UNCHANGED <<lock, seen, copy, file, done>>

\* Mutant: the reclaimer goes round the loop without unlinking anything.
UnlinkNothing(p) ==
  /\ pc[p] = "unlink"
  /\ Goto(p, "open")
  /\ UNCHANGED <<lock, seen, copy, file, done>>

\* lock_path.unlink() of a file judged stale, then `continue`: no deadline check.
\* A sharing violation is passed over and leaves the file where it is.
UnlinkStale(p) ==
  /\ pc[p] = "unlink"
  /\ lock' \in {NoLock} \union (IF "unlink" \in Faults THEN {lock} ELSE {})
  /\ Goto(p, "open")
  /\ UNCHANGED <<seen, copy, file, done>>

\* The deadline has not passed: sleep and try again.
Retry(p) ==
  /\ pc[p] = "wait"
  /\ Goto(p, "open")
  /\ UNCHANGED <<lock, seen, copy, file, done>>

\* TimeoutError: the update is not made.
TimeOut(p) ==
  /\ pc[p] = "wait"
  /\ Goto(p, "idle")
  /\ UNCHANGED <<lock, seen, copy, file, done>>

----------------------------------------------------------------------------
(* The critical section: update_json_file under the lock.                   *)

\* os.write and fsync of the owner record, through the descriptor: a lock
\* file that was unlinked meanwhile is not touched.  Writing renews its mtime.
WritePayload(p) ==
  /\ pc[p] = "created"
  /\ lock' = IF lock # NoLock /\ lock.owner = p
             THEN [owner |-> p, written |-> TRUE, age |-> 0]
             ELSE lock
  /\ Goto(p, "read")
  /\ UNCHANGED <<seen, copy, file, done>>

ReadFile(p) ==
  /\ pc[p] = "read"
  /\ copy' = [copy EXCEPT ![p] = file]
  /\ Goto(p, "replace")
  /\ UNCHANGED <<lock, seen, file, done>>

\* Mutant: the changes are written instead of the record they were merged into.
ReplaceWithChanges(p) ==
  /\ pc[p] = "replace"
  /\ file' = [q \in {p} |-> copy[p][p] + 1]
  /\ Goto(p, "release")
  /\ UNCHANGED <<lock, seen, copy, done>>

\* current.update(changes), then os.replace of the whole file.  A read or write
\* that fails for good changes nothing and goes straight to the release; it is
\* left out, as is an unlink of a stale file that fails with another error.
Replace(p) ==
  /\ pc[p] = "replace"
  /\ file' = [copy[p] EXCEPT ![p] = @ + 1]
  /\ Goto(p, "release")
  /\ UNCHANGED <<lock, seen, copy, done>>

\* The finally clause: unlink by name, whoever created the file.  After twenty
\* sharing violations in a row the file is left behind.
Release(p) ==
  /\ pc[p] = "release"
  /\ lock' \in {NoLock} \union (IF "release" \in Faults THEN {lock} ELSE {})
  /\ done' = [done EXCEPT ![p] = @ + 1]
  /\ Goto(p, "idle")
  /\ UNCHANGED <<seen, copy, file>>

----------------------------------------------------------------------------
(* The environment: a killed process, and time.                             *)

Crash(p) ==
  /\ "crash" \in Faults
  /\ pc[p] \notin {"idle", "dead"}
  /\ Goto(p, "dead")
  /\ UNCHANGED <<lock, seen, copy, file, done>>

\* Time passes.  A live holder is quick: its file stays at most MaxHold old.
Age ==
  /\ lock # NoLock
  /\ lock.age < IF pc[lock.owner] \in Holding THEN MaxHold ELSE StaleAge
  /\ lock' = [lock EXCEPT !.age = @ + 1]
  /\ UNCHANGED <<pc, seen, copy, file, done>>

Acquire(p) ==
  \/ Begin(p) \/ TryCreate(p) \/ FindExisting(p) \/ Stat(p) \/ ReadPayload(p)
  \/ UnlinkStale(p) \/ Retry(p) \/ TimeOut(p)

Section(p) ==
  \/ WritePayload(p) \/ ReadFile(p) \/ Replace(p) \/ Release(p)

Next ==
  \/ \E p \in Proc : Acquire(p) \/ Section(p) \/ Crash(p)
  \/ Age

Spec == Init /\ [][Next]_vars

(* A process that is not killed keeps running, and time.monotonic() passes  *)
(* every deadline: a process that keeps reaching the deadline check leaves  *)
(* it by TimeoutError at some point.  Sharing violations are transient.     *)
Fairness ==
  \A p \in Proc :
    /\ WF_vars(TryCreate(p) \/ FindExisting(p) \/ Stat(p) \/ ReadPayload(p)
               \/ UnlinkStale(p) \/ Retry(p) \/ Section(p))
    /\ SF_vars(TimeOut(p))
    /\ SF_vars(UnlinkStale(p) /\ lock' = NoLock)

FairSpec == Spec /\ Fairness

----------------------------------------------------------------------------
(* Properties.                                                              *)

\* Every variable has its type.
TypeOK ==
  /\ lock \in LockFile \union {NoLock}
  /\ pc \in [Proc -> Holding \union Waiting \union {"idle", "dead"}]
  /\ seen \in [Proc -> AgeClass]
  /\ copy \in [Proc -> [Proc -> Nat]]
  /\ file \in [Proc -> Nat]
  /\ done \in [Proc -> Nat]

\* "Cross-process lock based on exclusive lock-file creation" (fileio.py:93):
\* no two processes are inside the critical section together.
MutualExclusion ==
  \A p, q \in Proc : pc[p] \in Holding /\ pc[q] \in Holding => p = q

\* A process that releases the lock removes the file it created itself, never
\* the file of a process that took the lock after it.
ReleasesOwnLock ==
  [][\A p \in Proc : pc[p] = "release" /\ lock' = NoLock /\ lock # NoLock
       => lock.owner = p]_vars

\* Every update reaches its end: it is made, it times out, or its process is
\* killed.  No waiter spins for ever on a lock file nobody will remove.
UpdateEnds ==
  \A p \in Proc : pc[p] = "open" ~> pc[p] \in {"idle", "dead"}

Record == INSTANCE SharedRecord

\* No update is lost: the record changes as if every update_json_file were one
\* atomic step, although it reads, merges and replaces (fileio.py:213-218).
UpdatesAreAtomic == Record!Spec

----------------------------------------------------------------------------
(* The regime in which the lock is a lock: no process is killed while it    *)
(* holds it, releasing works, and a holder is done within two seconds.      *)

SafeRegime == Faults \subseteq {"unlink"} /\ MaxHold < UnreadableAge

\* The holder and the creator of the lock file are the same process.
HolderOwnsLock ==
  /\ lock # NoLock => pc[lock.owner] \in Holding
  /\ \A p \in Proc : pc[p] \in Holding => lock # NoLock /\ lock.owner = p

\* Nobody ever sees the file of a live holder old enough to be judged stale.
NeverStale ==
  /\ lock # NoLock => lock.age < UnreadableAge
  /\ \A p \in Proc : seen[p] < UnreadableAge /\ pc[p] \notin {"unlink", "dead"}

\* What the holder is about to write back is what the file holds now.
CopyIsCurrent == \A p \in Proc : pc[p] = "replace" => copy[p] = file

SafeInv == TypeOK /\ HolderOwnsLock /\ NeverStale /\ CopyIsCurrent
=============================================================================
