---------------------------- MODULE PreparedCache ----------------------------
(***************************************************************************)
(* prepare_training_data of marketlm/dataset.py: several workers prepare   *)
(* the tensors of one fingerprint.  Each builds in a temporary directory   *)
(* of its own and publishes it by a rename, under an inter-process lock    *)
(* that is not held while the tensors are built.  A directory left by a    *)
(* worker that died is published by the next one.                          *)
(*                                                                         *)
(* The lock is the one of module FileLock, here with what a dead holder    *)
(* does to it: its file stays, a waiter judges it stale in one step and    *)
(* unlinks it by name in a later one, and by then the name can belong to   *)
(* a worker that is alive.  From then on two workers can hold the lock.    *)
(*                                                                         *)
(* A directory is abstracted to whether load_prepared_metadata accepts it  *)
(* and to the number of rows it holds.  What rows a build finds differs:   *)
(* the source is scanned after the fingerprint was computed.               *)
(***************************************************************************)
EXTENDS Splits

CONSTANTS
  Workers,        \* processes that prepare this fingerprint
  RowCounts,      \* finite rows a scan of the source may yield
  MaxAttempts,    \* bound: temporary directories one worker creates
  MaxMishaps,     \* bound: kills, lock waits that time out, files that stay denied
  NoWorker,
  Orphan          \* creator of a lock file whose process was killed

ASSUME PreparedAssumption ==
  /\ RowCounts \subseteq Nat
  /\ MaxAttempts \in Nat /\ MaxMishaps \in Nat
  /\ NoWorker \notin Workers /\ Orphan \notin Workers \cup {NoWorker}

VARIABLES
  dest,      \* the directory named by the fingerprint
  temps,     \* the temporary directories, <<w, n>> for w's n-th attempt
  attempt,   \* attempts each worker has started
  source,    \* the temporary directory each worker builds or publishes
  commit,    \* who created the commit lock's file that is there
  inside,    \* workers that go on removing the directory that is now at dest
  stale,     \* waiters that judged the lock stale and are about to unlink it
  pc,        \* where each worker is
  mishaps,   \* lock waits that timed out, reads and removals that stayed denied
  stolen,    \* history: a waiter has unlinked the lock of a live worker
  kills      \* workers killed while they prepare

dirs     == <<dest, inside, temps>>
lock     == <<commit, stale, stolen>>
prepVars == <<dirs, lock, attempt, source, pc, mishaps, kills>>

Absent      == [state |-> "absent", rows |-> 0]
Partial     == [state |-> "partial", rows |-> 0]
Complete(n) == [state |-> "complete", rows |-> n]
Directory   == {Absent, Partial} \cup {Complete(n) : n \in RowCounts}

\* A uuid names each attempt: no two share a directory.
Temporary == Workers \X (1..MaxAttempts)

\* load_prepared_metadata: metadata.json, which is written last, and all tensors
Loads(d) == d.state = "complete"

Waiting  == {"lookup", "commit"}
Removing == {"clear", "room", "replace"}   \* what is at dest, before a rename
Holding  == {"looking", "searching", "committing", "publish", "republish", "copy"}
              \cup Removing
Locations == {"idle", "build", "writing", "discard", "removing", "ready", "failed"}
               \cup Waiting \cup Holding

PrepTypeOK ==
  /\ dest \in Directory
  /\ inside \subseteq Workers
  /\ temps \in [Temporary -> Directory]
  /\ attempt \in [Workers -> 0..MaxAttempts]
  /\ source \in [Workers -> Workers \X (0..MaxAttempts)]
  /\ commit \in Workers \cup {NoWorker, Orphan}
  /\ stale \subseteq Workers
  /\ pc \in [Workers -> Locations]
  /\ mishaps \in 0..MaxMishaps
  /\ stolen \in BOOLEAN
  /\ kills \in 0..MaxMishaps

PrepInit ==
  /\ dest = Absent
  /\ inside = {}
  /\ temps = [t \in Temporary |-> Absent]
  /\ attempt = [w \in Workers |-> 0]
  /\ source = [w \in Workers |-> <<w, 0>>]
  /\ commit = NoWorker
  /\ stale = {}
  /\ pc = [w \in Workers |-> "idle"]
  /\ mishaps = 0
  /\ stolen = FALSE
  /\ kills = 0

Goto(w, where) == pc' = [pc EXCEPT ![w] = where]

\* Put a directory in the place of a temporary one.
SetTemp(t, d) == temps' = [temps EXCEPT ![t] = d]

\* One more thing that goes wrong and does not go away in time.
Mishap ==
  /\ mishaps + kills < MaxMishaps
  /\ mishaps' = mishaps + 1

----------------------------------------------------------------------------
(* The commit lock.                                                         *)

Prepare(w) ==
  /\ pc[w] = "idle"
  /\ Goto(w, "lookup")
  /\ UNCHANGED <<dirs, lock, attempt, source, mishaps, kills>>

\* os.open with O_EXCL
Acquire(w) ==
  /\ pc[w] \in Waiting /\ w \notin stale
  /\ commit = NoWorker
  /\ commit' = w
  /\ Goto(w, IF pc[w] = "lookup" THEN "looking" ELSE "committing")
  /\ UNCHANGED <<dirs, stale, stolen, attempt, source, mishaps, kills>>

\* _lock_is_stale finds the pid of a process that is gone.
FindStale(w) ==
  /\ pc[w] \in Waiting /\ w \notin stale
  /\ commit = Orphan
  /\ stale' = stale \cup {w}
  /\ UNCHANGED <<dirs, commit, stolen, attempt, source, pc, mishaps, kills>>

\* lock_path.unlink() of the file judged stale, by name: whoever's it is now.
Unlink(w) ==
  /\ w \in stale
  /\ stale' = stale \ {w}
  /\ stolen' = (stolen \/ commit \in Workers)
  /\ commit' = NoWorker
  /\ UNCHANGED <<dirs, attempt, source, pc, mishaps, kills>>

\* TimeoutError after 300 s; at the commit it is raised inside the try block.
GiveUp(w) ==
  /\ pc[w] \in Waiting /\ w \notin stale
  /\ commit # NoWorker
  /\ Mishap
  /\ Goto(w, IF pc[w] = "lookup" THEN "failed" ELSE "discard")
  /\ UNCHANGED <<dirs, lock, attempt, source, kills>>

\* The finally clause of the lock, by name too, and where the worker goes on.
Release(w, where) ==
  /\ commit' = NoWorker
  /\ Goto(w, where)
  /\ UNCHANGED <<stale, stolen>>

----------------------------------------------------------------------------
(* The first look at the cache, under the lock.                             *)

Reuse(w) ==
  /\ pc[w] = "looking"
  /\ Loads(dest)
  /\ Release(w, "ready")
  /\ UNCHANGED <<dirs, attempt, source, mishaps, kills>>

\* A directory with a metadata.json that cannot be loaded is removed at once.
\* An OSError of the load counts as that, a denied read included.
NotReusable(w) ==
  /\ pc[w] = "looking"
  /\ \/ ~Loads(dest) /\ Goto(w, "searching") /\ UNCHANGED mishaps
     \/ dest = Partial /\ Goto(w, "clear") /\ UNCHANGED mishaps
     \/ Loads(dest) /\ Goto(w, "clear") /\ Mishap
  /\ UNCHANGED <<dirs, lock, attempt, source, kills>>

\* Mutant: a temporary directory is recovered without a look at its metadata.
AnyTemporary ==
  {t \in Temporary : temps[t].state # "absent"}

Candidates == {t \in Temporary : Loads(temps[t])}

\* Choose the complete temporary directory of a worker that failed, or that
\* has not yet come to its own commit.
Recover(w) ==
  /\ pc[w] = "searching"
  /\ \E c \in Candidates : source' = [source EXCEPT ![w] = c]
  /\ Goto(w, "room")
  /\ UNCHANGED <<dirs, lock, attempt, mishaps, kills>>

\* A candidate whose read is denied is passed over.
NothingToReuse(w) ==
  /\ pc[w] = "searching"
  /\ IF Candidates = {} THEN UNCHANGED mishaps ELSE Mishap
  /\ Release(w, "build")
  /\ UNCHANGED <<dirs, attempt, source, kills>>

\* stat() of a candidate that its owner, or a second holder of the lock, takes
\* away between the glob and the sort
CandidateGone(w) ==
  /\ pc[w] = "searching"
  /\ stolen \/ \E x \in Workers : pc[x] = "removing"
  /\ Release(w, "failed")
  /\ UNCHANGED <<dirs, attempt, source, mishaps, kills>>

----------------------------------------------------------------------------
(* Building, without the lock.                                              *)

MakeTemporary(w) ==
  /\ pc[w] = "build"
  /\ attempt[w] < MaxAttempts
  /\ attempt' = [attempt EXCEPT ![w] = @ + 1]
  /\ SetTemp(<<w, attempt[w] + 1>>, Partial)
  /\ source' = [source EXCEPT ![w] = <<w, attempt[w] + 1>>]
  /\ Goto(w, "writing")
  /\ UNCHANGED <<dest, inside, lock, mishaps, kills>>

\* Tensors, then metadata.json; a ValueError when the rows cannot be split.
Write(w) ==
  /\ pc[w] = "writing"
  /\ \E n \in RowCounts :
       IF Usable(n)
         THEN SetTemp(source[w], Complete(n)) /\ Goto(w, "commit")
         ELSE UNCHANGED temps /\ Goto(w, "discard")
  /\ UNCHANGED <<dest, inside, lock, attempt, source, mishaps, kills>>

----------------------------------------------------------------------------
(* The commit, under the lock.                                              *)

\* Another worker published first: prefer its directory.
Prefer(w) ==
  /\ pc[w] = "committing"
  /\ Loads(dest)
  /\ SetTemp(source[w], Absent)
  /\ Release(w, "ready")
  /\ UNCHANGED <<dest, inside, attempt, source, mishaps, kills>>

\* Mutant: whatever is there is replaced.
MakeRoomAnyway(w) ==
  /\ pc[w] = "committing"
  /\ Goto(w, IF dest = Absent THEN "publish" ELSE "replace")
  /\ UNCHANGED <<dirs, lock, attempt, source, mishaps, kills>>

MakeRoom(w) ==
  /\ pc[w] = "committing"
  /\ ~Loads(dest)
  /\ Goto(w, IF dest = Absent THEN "publish" ELSE "replace")
  /\ UNCHANGED <<dirs, lock, attempt, source, mishaps, kills>>

\* Here a denied read is an error: OSError is not in the except clause.
ReadDenied(w) ==
  /\ pc[w] = "committing"
  /\ Loads(dest)
  /\ Mishap
  /\ Release(w, "discard")
  /\ UNCHANGED <<dirs, attempt, source, kills>>

----------------------------------------------------------------------------
(* Removing what is at the published name, and publishing.                  *)

NextAfter(where) ==
  CASE where = "clear" -> "searching" [] where = "room" -> "republish"
    [] OTHER -> "publish"

\* _rmtree_with_retry(destination): file by file, and nothing if it is not there
RemoveOld(w) ==
  /\ pc[w] \in Removing
  /\ IF Loads(dest) THEN dest' = Partial /\ UNCHANGED pc
                    ELSE dest' = Absent /\ Goto(w, NextAfter(pc[w]))
  /\ inside' = IF dest' = Absent THEN {} ELSE inside
  /\ UNCHANGED <<temps, lock, attempt, source, mishaps, kills>>

\* A handle stays open on it, or a second holder removes it too.
RemovalFails(w) ==
  /\ pc[w] \in Removing
  /\ dest # Absent
  /\ (stolen /\ UNCHANGED mishaps) \/ Mishap
  /\ Release(w, IF pc[w] = "replace" THEN "discard" ELSE "failed")
  /\ UNCHANGED <<dirs, attempt, source, kills>>

Publishing(w) == pc[w] \in {"publish", "republish"}

\* os.replace: the directory moves as it is; what is there does not give way to
\* it unless it is empty.
Publish(w) ==
  /\ Publishing(w)
  /\ temps[source[w]] # Absent /\ ~Loads(dest)
  /\ dest' = temps[source[w]]
  /\ inside' = {x \in Workers : pc[x] = "removing" /\ source[x] = source[w]}
  /\ SetTemp(source[w], Absent)
  /\ Release(w, "ready")
  /\ UNCHANGED <<attempt, source, mishaps, kills>>

\* OSError: a second holder of the lock has put a directory there.
Occupied(w) ==
  /\ Publishing(w)
  /\ temps[source[w]] # Absent /\ dest # Absent
  /\ Release(w, IF pc[w] = "publish" THEN "discard" ELSE "failed")
  /\ UNCHANGED <<dirs, attempt, source, mishaps, kills>>

\* Mutant: a publication that fails leaves the lock behind.
SourceGoneLocked(w) ==
  /\ Publishing(w) \/ pc[w] = "copy"
  /\ temps[source[w]] = Absent
  /\ Goto(w, "failed")
  /\ UNCHANGED <<dirs, lock, attempt, source, mishaps, kills>>

\* FileNotFoundError: another worker removed or published it in between.
SourceGone(w) ==
  /\ Publishing(w) \/ pc[w] = "copy"
  /\ temps[source[w]] = Absent
  /\ Release(w, "failed")
  /\ UNCHANGED <<dirs, attempt, source, mishaps, kills>>

\* The rename stays denied: copy into a directory of another name instead.
Denied(w) ==
  /\ Publishing(w)
  /\ Goto(w, "copy")
  /\ UNCHANGED <<dirs, lock, attempt, source, mishaps, kills>>

\* The copy is validated before it is renamed, which may be denied again; the
\* source is removed in any case.
PublishCopy(w) ==
  /\ pc[w] = "copy"
  /\ temps[source[w]] # Absent
  /\ \/ /\ Loads(temps[source[w]]) /\ ~Loads(dest)
        /\ dest' = temps[source[w]] /\ inside' = {}
        /\ Release(w, "ready")
     \/ Release(w, "failed") /\ UNCHANGED <<dest, inside>>
  /\ SetTemp(source[w], Absent)
  /\ UNCHANGED <<attempt, source, mishaps, kills>>

----------------------------------------------------------------------------
(* Failing and dying.                                                       *)

\* The except clause opens the temporary directory to remove it, and it does
\* not take the lock.
Discard(w) ==
  /\ pc[w] = "discard"
  /\ Goto(w, IF temps[source[w]] = Absent THEN "failed" ELSE "removing")
  /\ UNCHANGED <<dirs, lock, attempt, source, mishaps, kills>>

\* File by file.  A directory that is renamed meanwhile loses its files at its
\* new place, until the removal misses the old name.
RemoveOwn(w) ==
  /\ pc[w] = "removing"
  /\ \/ /\ Loads(temps[source[w]])
        /\ SetTemp(source[w], Partial)
        /\ UNCHANGED <<dest, pc>>
     \/ /\ temps[source[w]] = Partial
        /\ SetTemp(source[w], Absent)
        /\ Goto(w, "failed")
        /\ UNCHANGED dest
     \/ /\ temps[source[w]] = Absent
        /\ \/ UNCHANGED dest
           \/ w \in inside /\ Loads(dest) /\ dest' = Partial
        /\ Goto(w, "failed")
        /\ UNCHANGED temps
  /\ inside' = inside \ {w}
  /\ UNCHANGED <<lock, attempt, source, mishaps, kills>>

\* SIGKILL, SIGTERM or Ctrl-C: nothing is cleaned up, the lock's file included.
Kill(w) ==
  /\ pc[w] \notin {"idle", "ready", "failed"}
  /\ mishaps + kills < MaxMishaps
  /\ kills' = kills + 1
  /\ commit' = IF commit = w THEN Orphan ELSE commit
  /\ stale' = stale \ {w}
  /\ inside' = inside \ {w}
  /\ Goto(w, "failed")
  /\ UNCHANGED <<dest, temps, stolen, attempt, source, mishaps>>

----------------------------------------------------------------------------
PrepareStep(w) ==
  \/ Prepare(w) \/ Acquire(w) \/ FindStale(w) \/ Unlink(w) \/ GiveUp(w)
  \/ Reuse(w) \/ NotReusable(w) \/ Recover(w) \/ NothingToReuse(w)
  \/ CandidateGone(w) \/ MakeTemporary(w) \/ Write(w) \/ Prefer(w)
  \/ MakeRoom(w) \/ ReadDenied(w) \/ RemoveOld(w) \/ RemovalFails(w)
  \/ Publish(w) \/ Occupied(w) \/ SourceGone(w) \/ Denied(w)
  \/ PublishCopy(w) \/ Discard(w) \/ RemoveOwn(w) \/ Kill(w)

----------------------------------------------------------------------------
(* What the cache promises.                                                 *)

\* The lock has kept to one holder, and nothing stayed denied: what both
\* promises below rest on.  A second holder replaces what the first published,
\* and a worker that fails with complete tensors removes them without the lock.
Undisturbed == mishaps = 0 /\ ~stolen

\* A worker that returns with a prepared directory finds it complete there,
\* whoever built it and whoever died half way, as long as no live worker lost
\* the lock to a waiter and no wait, read or removal failed for good.
ReadyIsComplete ==
  Undisturbed => \A w \in Workers : pc[w] = "ready" => Loads(dest)

\* "Publish a complete immutable tensor directory": once complete, the
\* directory under the fingerprint is never replaced or removed, so that a
\* run that maps its tensors keeps the data it started with, under the same
\* conditions.
PublishedIsImmutable == [][Undisturbed /\ Loads(dest) => dest' = dest]_dest
=============================================================================
