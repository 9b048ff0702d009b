------------------------------- MODULE Caches -------------------------------
(***************************************************************************)
(* The canonical dataset (datasets.py) and the signal cache built from it  *)
(* (engine.py), used by requests that run in worker threads of the API and *)
(* in training processes, with no lock between them.                       *)
(*                                                                         *)
(* A request prepares the dataset, or it is a backtest: it prepares the    *)
(* dataset, then the signals, and the engine reads these.  The CSV files   *)
(* may be replaced at any time; a version of them stands for what they     *)
(* hold and for their signature (path, size, mtime).  A file is an inode:  *)
(* it keeps its contents when its name is unlinked or taken by another.    *)
(* Writing the two files of a cache key is one step.                       *)
(***************************************************************************)
EXTENDS Naturals, Sequences, FiniteSets

CONSTANTS
  Thread,
  BadRaw,   \* versions of the CSV files with fewer than two valid bars
  MaxRaw,   \* bound: versions of the CSV files
  MaxFiles, \* bound: canonical files begun
  MaxCrash  \* bound: threads that end with their process

ASSUME CachesAssumption ==
  /\ MaxRaw \in Nat \ {0} /\ {MaxFiles, MaxCrash} \subseteq Nat
  /\ BadRaw \subseteq Nat

VARIABLES
  raw,        \* version of the CSV files
  file,       \* the inodes: the version written, and whether it can be read
  temp,       \* inode named btcusdt_1s.parquet.tmp, 0 for none
  canonical,  \* inode named btcusdt_1s.parquet, 0 for none
  meta,       \* metadata.json: source_signature and updated_at, or NoMeta
  stamps,     \* updated_at values handed out
  signals,    \* the signal cache: raw version a key's signals come from, or 0
  req,        \* the request of each thread and where it is
  overlapped, \* history: two threads have prepared the dataset at once
  crashes

names == <<temp, canonical, meta, stamps>>
vars  == <<raw, file, names, signals, req, overlapped, crashes>>

NoMeta == [sig |-> 0, stamp |-> 0]

\* since: version of the CSV files when it began; had: there was metadata when
\* it began to build; mine: the inode it writes; sig: the signature it took;
\* key: updated_at in its cache key; data: version it built or was served.
NoRequest == [pc |-> "idle", kind |-> "none", force |-> FALSE, since |-> 0, had |-> FALSE,
              mine |-> 0, sig |-> 0, key |-> 0, data |-> 0]

Init ==
  /\ raw = 1 /\ file = <<>> /\ temp = 0 /\ canonical = 0
  /\ meta = NoMeta /\ stamps = 0
  /\ signals = [k \in 0 .. MaxFiles |-> 0]
  /\ req = [t \in Thread |-> NoRequest]
  /\ overlapped = FALSE /\ crashes = 0

At(t, step) == req[t].pc = step
Go(t, step) == req' = [req EXCEPT ![t].pc = step]

\* The request is over, answered or failed; nothing of it is kept.
End(t) == req' = [req EXCEPT ![t] = NoRequest]

\* prepare returned: a backtest goes on to its signals.
PrepareReturns(t) == IF req[t].kind = "backtest" THEN Go(t, "key") ELSE End(t)

\* The CSV files are replaced.
EditRaw ==
  /\ raw < MaxRaw
  /\ raw' = raw + 1
  /\ UNCHANGED <<file, names, signals, req, overlapped, crashes>>

Begin(t) ==
  /\ At(t, "idle")
  /\ \E kind \in {"prepare", "backtest"}, force \in BOOLEAN :
       req' = [req EXCEPT ![t] = [NoRequest EXCEPT !.pc = "check", !.kind = kind,
                                                   !.force = force, !.since = raw]]
  /\ UNCHANGED <<raw, file, names, signals, overlapped, crashes>>

----------------------------------------------------------------------------
(* DatasetCatalog.prepare.                                                  *)

Building == {"unlink", "sink", "writing", "stats", "replace", "meta"}

\* Mutant: what is prepared is taken for current.
AnyMetadata == canonical # 0 /\ meta # NoMeta

\* The canonical file and its metadata exist and carry the files' signature.
UpToDate == canonical # 0 /\ meta # NoMeta /\ meta.sig = raw

\* Only a prepare request passes its force on to the dataset.
Forced(t) == req[t].kind = "prepare" /\ req[t].force

Hit(t) ==
  /\ At(t, "check") /\ UpToDate /\ ~Forced(t)
  /\ PrepareReturns(t)
  /\ UNCHANGED <<raw, file, names, signals, overlapped, crashes>>

Miss(t) ==
  /\ At(t, "check") /\ (~UpToDate \/ Forced(t))
  /\ req' = [req EXCEPT ![t].pc = "unlink", ![t].sig = raw, ![t].had = meta # NoMeta]
  /\ overlapped' = (overlapped \/ \E u \in Thread : req[u].pc \in Building)
  /\ UNCHANGED <<raw, file, names, signals, crashes>>

Unlink(t) ==
  /\ At(t, "unlink")
  /\ temp' = 0
  /\ Go(t, "sink")
  /\ UNCHANGED <<raw, file, canonical, meta, stamps, signals, overlapped, crashes>>

\* Mutant: a thread takes the file it opens for a new one.
SinkNew(t) ==
  /\ At(t, "sink")
  /\ IF temp = 0
     THEN /\ Len(file) < MaxFiles
          /\ file' = Append(file, [raw |-> raw, state |-> "open"])
          /\ temp' = Len(file) + 1
     ELSE file' = [file EXCEPT ![temp].state = "torn"] /\ UNCHANGED temp
  /\ req' = [req EXCEPT ![t].pc = "writing", ![t].mine = Len(file) + 1]
  /\ UNCHANGED <<raw, canonical, meta, stamps, signals, overlapped, crashes>>

\* sink_parquet opens the temporary name: a new inode, or one that another
\* thread has opened since and that two of them write now.
Sink(t) ==
  /\ At(t, "sink")
  /\ IF temp = 0
     THEN /\ Len(file) < MaxFiles
          /\ file' = Append(file, [raw |-> raw, state |-> "open"])
          /\ temp' = Len(file) + 1
     ELSE file' = [file EXCEPT ![temp].state = "torn"] /\ UNCHANGED temp
  /\ req' = [req EXCEPT ![t].pc = "writing", ![t].mine = temp']
  /\ UNCHANGED <<raw, canonical, meta, stamps, signals, overlapped, crashes>>

\* Mutant: the file goes on to be published while it is written.
WriteUnfinished(t) ==
  /\ At(t, "writing")
  /\ Go(t, "replace")
  /\ UNCHANGED <<raw, file, names, signals, overlapped, crashes>>

Write(t) ==
  /\ At(t, "writing")
  /\ file' = [file EXCEPT ![req[t].mine].state = IF @ = "open" THEN "whole" ELSE @]
  /\ Go(t, "stats")
  /\ UNCHANGED <<raw, names, signals, overlapped, crashes>>

\* A Parquet file whose writer is not done has no footer and cannot be read.
Readable(f) == f # 0 /\ file[f].state = "whole"

\* The statistics are read from the name, whoever wrote that file; without two
\* valid bars the old dataset is kept if it had metadata.
Stats(t) ==
  /\ At(t, "stats")
  /\ IF ~Readable(temp)
     THEN End(t) /\ UNCHANGED <<temp, canonical, meta>>
     ELSE IF file[temp].raw \in BadRaw
     THEN /\ End(t)
          /\ temp' = 0
          /\ IF req[t].had THEN UNCHANGED <<canonical, meta>>
             ELSE canonical' = 0 /\ meta' = NoMeta
     ELSE Go(t, "replace") /\ UNCHANGED <<temp, canonical, meta>>
  /\ UNCHANGED <<raw, file, stamps, signals, overlapped, crashes>>

Replace(t) ==
  /\ At(t, "replace")
  /\ IF temp = 0
     THEN End(t) /\ UNCHANGED <<temp, canonical>>
     ELSE Go(t, "meta") /\ canonical' = temp /\ temp' = 0
  /\ UNCHANGED <<raw, file, meta, stamps, signals, overlapped, crashes>>

\* Mutant: the signature is taken after the build.
SignLate(t) ==
  /\ At(t, "meta")
  /\ stamps' = stamps + 1
  /\ meta' = [sig |-> raw, stamp |-> stamps + 1]
  /\ PrepareReturns(t)
  /\ UNCHANGED <<raw, file, temp, canonical, signals, overlapped, crashes>>

\* The signature taken before the build, and a new updated_at.  One step: that
\* two threads may write and rename one temporary file of the metadata, and one
\* of them fail, is left out.
WriteMeta(t) ==
  /\ At(t, "meta")
  /\ stamps' = stamps + 1
  /\ meta' = [sig |-> req[t].sig, stamp |-> stamps + 1]
  /\ PrepareReturns(t)
  /\ UNCHANGED <<raw, file, temp, canonical, signals, overlapped, crashes>>

----------------------------------------------------------------------------
(* prepare_signals and the engine.                                          *)

\* describe reads the metadata again; updated_at goes into the cache key.
Key(t) ==
  /\ At(t, "key")
  /\ LET hit == signals[meta.stamp] # 0 /\ ~req[t].force
     IN req' = [req EXCEPT ![t].pc = IF hit THEN "run" ELSE "scan", ![t].key = meta.stamp]
  /\ UNCHANGED <<raw, file, names, signals, overlapped, crashes>>

\* scan and build_signals over whatever the canonical name holds now, or over
\* the CSV files when nothing is prepared.
Scan(t) ==
  /\ At(t, "scan")
  /\ LET build(version) == req' = [req EXCEPT ![t].pc = "publish", ![t].data = version]
     IN IF canonical = 0 \/ meta = NoMeta THEN build(raw)
        ELSE IF Readable(canonical) THEN build(file[canonical].raw) ELSE End(t)
  /\ UNCHANGED <<raw, file, names, signals, overlapped, crashes>>

\* The signal file and then its metadata, under the key; signals of fewer than
\* two bars are refused.
Publish(t) ==
  /\ At(t, "publish")
  /\ IF req[t].data \in BadRaw
     THEN End(t) /\ UNCHANGED signals
     ELSE Go(t, "run") /\ signals' = [signals EXCEPT ![req[t].key] = req[t].data]
  /\ UNCHANGED <<raw, file, names, overlapped, crashes>>

\* The engine reads the prepared signals.
Run(t) ==
  /\ At(t, "run")
  /\ req' = [req EXCEPT ![t].pc = "served", ![t].data = signals[req[t].key]]
  /\ UNCHANGED <<raw, file, names, signals, overlapped, crashes>>

Answer(t) ==
  /\ At(t, "served")
  /\ End(t)
  /\ UNCHANGED <<raw, file, names, signals, overlapped, crashes>>

\* A thread ends where it is; the names and what they hold stay.
Crash(t) ==
  /\ ~At(t, "idle") /\ ~At(t, "served")
  /\ crashes < MaxCrash
  /\ crashes' = crashes + 1
  /\ End(t)
  /\ UNCHANGED <<raw, file, names, signals, overlapped>>

Next ==
  \/ EditRaw
  \/ \E t \in Thread :
       \/ Begin(t) \/ Hit(t) \/ Miss(t) \/ Unlink(t) \/ Sink(t) \/ Write(t) \/ Stats(t)
       \/ Replace(t) \/ WriteMeta(t) \/ Key(t) \/ Scan(t) \/ Publish(t) \/ Run(t)
       \/ Answer(t) \/ Crash(t)

Spec == Init /\ [][Next]_vars

----------------------------------------------------------------------------
(* Properties.                                                              *)

Steps == {"idle", "check", "key", "scan", "publish", "run", "served"} \union Building

\* Every variable has its type.
TypeOK ==
  /\ raw \in 1 .. MaxRaw
  /\ file \in Seq([raw : 1 .. MaxRaw, state : {"open", "whole", "torn"}])
  /\ Len(file) <= MaxFiles
  /\ {temp, canonical} \subseteq 0 .. Len(file)
  /\ meta \in [sig : 0 .. MaxRaw, stamp : 0 .. stamps]
  /\ stamps \in Nat
  /\ signals \in [0 .. MaxFiles -> 0 .. MaxRaw]
  /\ req \in [Thread -> [pc : Steps, kind : {"none", "prepare", "backtest"},
                         force : BOOLEAN, since : 0 .. MaxRaw, had : BOOLEAN,
                         mine : 0 .. Len(file), sig : 0 .. MaxRaw,
                         key : 0 .. stamps, data : 0 .. MaxRaw]]
  /\ overlapped \in BOOLEAN /\ crashes \in 0 .. MaxCrash

\* The answer to a backtest comes from CSV files no older than the request,
\* whichever of the caches it went through and whoever filled them.  Excepted is
\* the cache key without updated_at: of a request whose metadata was removed
\* under it by the failing build of another.
AnswersAreCurrent ==
  \A t \in Thread : At(t, "served") /\ req[t].key # 0 => req[t].data >= req[t].since

\* What is taken for prepared can be read, also after a crash, as long as no two
\* threads have prepared the dataset at once.
PreparedIsReadable ==
  ~overlapped /\ canonical # 0 /\ meta # NoMeta => Readable(canonical)

\* "The source signature prevents stale canonical data after either CSV changes"
\* (docs/ARCHITECTURE.md:80): a file taken for current is not older than the
\* signature beside it, although its name is shared by all who build it.
SignatureIsCurrent == UpToDate => file[canonical].raw >= meta.sig
=============================================================================
