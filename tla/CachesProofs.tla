---------------------------- MODULE CachesProofs ----------------------------
(***************************************************************************)
(* The data set and the signal cache: types, current answers, readable     *)
(* data and current signatures, for every set of threads, every number of  *)
(* versions, files and crashes, and every schedule.                        *)
(***************************************************************************)
EXTENDS Caches, FiniteSetTheorems, TLAPS

----------------------------------------------------------------------------
(* The inductive invariant.                                                 *)

\* The named files hold at least version v.
HoldsAtLeast(v) == \A f \in {temp, canonical} : f # 0 => file[f].raw >= v

\* So does all that is kept or about to be published under cache key k.
Current(k, v) ==
  /\ HoldsAtLeast(v)
  /\ signals[k] # 0 => signals[k] >= v
  /\ \A u \in Thread : At(u, "publish") /\ req[u].key = k => req[u].data >= v

\* Requests and signatures are of the past.
OfThePast ==
  /\ meta.sig <= raw
  /\ \A t \in Thread :
       /\ req[t].since <= raw /\ req[t].sig <= raw
       /\ req[t].pc \in Building => req[t].since <= req[t].sig

\* Whoever has unlinked the temporary name finds only newer files there, and
\* whoever has renamed it finds only newer files at both names.
Built ==
  \A t \in Thread :
    /\ req[t].pc \in {"sink", "writing", "stats", "replace"} /\ temp # 0 =>
         file[temp].raw >= req[t].sig
    /\ At(t, "meta") => HoldsAtLeast(req[t].sig)

\* What the metadata promises.
Signed == meta # NoMeta => meta.stamp > 0 /\ Current(meta.stamp, meta.sig)

\* What a request may rely on once the data set is prepared.
Relied ==
  \A t \in Thread :
    /\ At(t, "key") => /\ HoldsAtLeast(req[t].since)
                       /\ meta # NoMeta => Current(meta.stamp, req[t].since)
    /\ req[t].pc \in {"scan", "publish", "run"} /\ req[t].key # 0 =>
         Current(req[t].key, req[t].since)
    /\ At(t, "publish") => req[t].data # 0
    /\ At(t, "run") => signals[req[t].key] # 0

\* Nothing is kept under a key that does not exist yet.
Unborn == \A k \in 0 .. MaxFiles : k > stamps => signals[k] = 0

\* Every updated_at stands for a file that was begun.
Publishing == {t \in Thread : At(t, "meta")}

Counted ==
  /\ IsFiniteSet(Publishing)
  /\ stamps + Cardinality(Publishing) + (IF temp = 0 THEN 0 ELSE 1) <= Len(file)

\* A thread that is alone builds a file that nobody else touches.
Alone ==
  ~overlapped =>
    /\ \A t, u \in Thread : req[t].pc \in Building /\ req[u].pc \in Building => t = u
    /\ \A t \in Thread : /\ At(t, "sink") => temp = 0
                         /\ At(t, "replace") => Readable(temp)
    /\ canonical # 0 => Readable(canonical)

CachesInv ==
  /\ TypeOK /\ OfThePast /\ Built /\ Signed /\ Relied /\ Unborn /\ Counted /\ Alone
  /\ AnswersAreCurrent

----------------------------------------------------------------------------
(* Types.                                                                   *)

File == [raw : 1 .. MaxRaw, state : {"open", "whole", "torn"}]

\* What a request may be while there are n inodes and s stamps.
Request(n, s) ==
  [pc : Steps, kind : {"none", "prepare", "backtest"}, force : BOOLEAN,
   since : 0 .. MaxRaw, had : BOOLEAN, mine : 0 .. n, sig : 0 .. MaxRaw,
   key : 0 .. s, data : 0 .. MaxRaw]

\* The type of the variables, put together from its parts.
LEMMA TypeParts ==
  TypeOK <=>
    /\ raw \in 1 .. MaxRaw
    /\ file \in Seq(File) /\ Len(file) <= MaxFiles
    /\ temp \in 0 .. Len(file) /\ canonical \in 0 .. Len(file)
    /\ meta \in [sig : 0 .. MaxRaw, stamp : 0 .. stamps]
    /\ stamps \in Nat
    /\ signals \in [0 .. MaxFiles -> 0 .. MaxRaw]
    /\ req \in [Thread -> Request(Len(file), stamps)]
    /\ overlapped \in BOOLEAN /\ crashes \in 0 .. MaxCrash
BY DEF TypeOK, File, Request

\* The initial state has the types.
LEMMA TypesStart == Init => TypeOK
BY CachesAssumption DEF Init, TypeOK, NoMeta, NoRequest, Steps

\* A request has its type as long as files and stamps only become more.
LEMMA RequestKept ==
  ASSUME NEW n \in Nat, NEW s \in Nat, NEW m \in Nat, NEW r \in Nat, n <= m, s <= r,
         NEW q \in Request(n, s)
  PROVE  q \in Request(m, r)
BY DEF Request

\* A request that ends keeps the types,
LEMMA EndTypes ==
  ASSUME TypeOK, NEW t \in Thread, End(t)
  PROVE  req' \in [Thread -> Request(Len(file), stamps)]
<1>1. NoRequest \in Request(Len(file), stamps)
  BY CachesAssumption, TypeParts DEF NoRequest, Request, Steps
<1> QED
  BY <1>1, TypeParts DEF End

\* so does one that goes on,
LEMMA GoTypes ==
  ASSUME TypeOK, NEW t \in Thread, NEW s \in Steps, Go(t, s)
  PROVE  req' \in [Thread -> Request(Len(file), stamps)]
<1>1. [req[t] EXCEPT !.pc = s] \in Request(Len(file), stamps)
  BY TypeParts, ZenonT(30) DEF Request
<1>2. req' = [req EXCEPT ![t] = [req[t] EXCEPT !.pc = s]]
  BY DEF Go
<1> QED
  BY <1>1, <1>2, TypeParts

\* and one that returns from preparing.
LEMMA ReturnTypes ==
  ASSUME TypeOK, NEW t \in Thread, PrepareReturns(t)
  PROVE  req' \in [Thread -> Request(Len(file), stamps)]
BY EndTypes, GoTypes DEF PrepareReturns, Steps

\* Every action keeps the types.
LEMMA TypesKept == TypeOK /\ Counted /\ [Next]_vars => TypeOK'
<1> SUFFICES ASSUME TypeOK, Counted, [Next]_vars PROVE TypeOK'
  OBVIOUS
<1> USE CachesAssumption
<1> DEFINE Requests == [Thread -> Request(Len(file), stamps)]
<1>1. CASE UNCHANGED vars
  BY <1>1 DEF vars, names, TypeOK
<1>2. CASE EditRaw
  BY <1>2 DEF EditRaw, names, TypeOK
<1> SUFFICES ASSUME NEW t \in Thread,
                    \/ Begin(t) \/ Hit(t) \/ Miss(t) \/ Unlink(t) \/ Sink(t) \/ Write(t)
                    \/ Stats(t) \/ Replace(t) \/ WriteMeta(t) \/ Key(t) \/ Scan(t)
                    \/ Publish(t) \/ Run(t) \/ Answer(t) \/ Crash(t)
             PROVE  TypeOK'
  BY <1>1, <1>2 DEF Next
<1>a. /\ raw \in 1 .. MaxRaw /\ raw \in 0 .. MaxRaw
      /\ file \in Seq(File) /\ Len(file) \in Nat /\ stamps \in Nat
      /\ req \in Requests /\ req[t] \in Request(Len(file), stamps)
  BY TypeParts
<1>3. CASE Begin(t)
  <2>1. PICK kind \in {"prepare", "backtest"}, force \in BOOLEAN :
          req' = [req EXCEPT ![t] = [NoRequest EXCEPT !.pc = "check", !.kind = kind,
                                                      !.force = force, !.since = raw]]
    BY <1>3 DEF Begin
  <2>2. [NoRequest EXCEPT !.pc = "check", !.kind = kind, !.force = force, !.since = raw]
          \in Request(Len(file), stamps)
    <3>1. NoRequest \in Request(Len(file), stamps)
      BY <1>a DEF NoRequest, Request, Steps
    <3> QED
      BY <3>1, <1>a DEF Request, Steps
  <2>3. req' \in Requests
    BY <2>1, <2>2, <1>a
  <2> QED
    BY <2>3, <1>3, TypeParts DEF Begin, names, TypeOK, Request
<1>4. CASE Hit(t)
  BY <1>4, ReturnTypes, TypeParts DEF Hit, names, TypeOK, Request
<1>5. CASE Miss(t)
  <2>1. [req[t] EXCEPT !.pc = "unlink", !.sig = raw, !.had = meta # NoMeta]
          \in Request(Len(file), stamps)
    <3>1. (meta # NoMeta) \in BOOLEAN
      OBVIOUS
    <3> QED
      BY <3>1, <1>a DEF Request, Steps, Building
  <2>2. req' = [req EXCEPT ![t] = [req[t] EXCEPT !.pc = "unlink", !.sig = raw,
                                                 !.had = meta # NoMeta]]
    BY <1>5, <1>a DEF Miss
  <2>3. req' \in Requests
    BY <2>1, <2>2, <1>a
  <2> QED
    BY <2>3, <1>5 DEF Miss, names, TypeOK, Request
<1>6. CASE Unlink(t)
  <2>1. req' \in Requests
    BY <1>6, GoTypes DEF Unlink, Steps, Building
  <2>2. {temp', canonical'} \subseteq 0 .. Len(file)
    BY <1>6, <1>a, TypeParts DEF Unlink
  <2> QED
    BY <2>1, <2>2, <1>6 DEF Unlink, TypeOK, Request
<1>7. CASE Sink(t)
  <2>1. file' \in Seq(File) /\ Len(file') <= MaxFiles /\ Len(file') \in Nat
        /\ Len(file') >= Len(file) /\ temp' \in 0 .. Len(file')
    <3>1. CASE temp = 0
      <4>1. [raw |-> raw, state |-> "open"] \in File
        BY <1>a DEF File
      <4>2. /\ file' = Append(file, [raw |-> raw, state |-> "open"])
            /\ temp' = Len(file) + 1 /\ Len(file) < MaxFiles
        BY <3>1, <1>7 DEF Sink
      <4> QED
        BY <4>1, <4>2, <1>a
    <3>2. CASE temp # 0
      <4>1. temp \in 1 .. Len(file) /\ file[temp] \in File
        BY <3>2, TypeParts
      <4>2. file' = [file EXCEPT ![temp] = [file[temp] EXCEPT !.state = "torn"]]
            /\ temp' = temp
        BY <3>2, <1>7 DEF Sink
      <4>3. [file[temp] EXCEPT !.state = "torn"] \in File
        BY <4>1 DEF File
      <4> QED
        BY <4>1, <4>2, <4>3, TypeParts
    <3> QED
      BY <3>1, <3>2
  <2>2. [req[t] EXCEPT !.pc = "writing", !.mine = temp'] \in Request(Len(file'), stamps)
    BY <2>1, <1>a DEF Request, Steps, Building
  <2>3. req' = [req EXCEPT ![t] = [req[t] EXCEPT !.pc = "writing", !.mine = temp']]
    BY <1>7, <1>a DEF Sink
  <2>4. \A u \in Thread : req[u] \in Request(Len(file'), stamps)
    BY <2>1, <1>a, RequestKept
  <2>5. req' \in [Thread -> Request(Len(file'), stamps)]
    BY <2>2, <2>3, <2>4, <1>a
  <2>6. canonical \in 0 .. Len(file')
    BY <2>1, TypeParts
  <2> QED
    BY <2>1, <2>5, <2>6, <1>7, TypeParts DEF Sink, TypeOK, File, Request
<1>8. CASE Write(t)
  <2>1. req' \in Requests
    BY <1>8, GoTypes DEF Write, Steps, Building
  <2>2. file' \in Seq(File) /\ Len(file') = Len(file)
    <3> DEFINE f == req[t].mine
               done(s) == IF s = "open" THEN "whole" ELSE s
    <3>1. CASE f \in 1 .. Len(file)
      <4>1. file[f] \in File
        BY <3>1, <1>a
      <4>2. file' = [file EXCEPT ![f] = [file[f] EXCEPT !.state = done(file[f].state)]]
        BY <1>8, <3>1, <1>a DEF Write
      <4>3. [file[f] EXCEPT !.state = done(file[f].state)] \in File
        BY <4>1 DEF File
      <4> QED
        BY <3>1, <4>2, <4>3, <1>a
    <3>2. CASE f \notin 1 .. Len(file)
      <4>1. file' = file
        BY <3>2, <1>8, <1>a DEF Write
      <4> QED
        BY <4>1, <1>a
    <3> QED
      BY <3>1, <3>2
  <2> QED
    BY <2>1, <2>2, <1>8, TypeParts DEF Write, names, TypeOK, File, Request
<1>9. CASE Stats(t)
  <2>1. req' \in Requests
    BY <1>9, EndTypes, GoTypes DEF Stats, Steps, Building
  <2>2. temp' \in 0 .. Len(file) /\ canonical' \in 0 .. Len(file)
        /\ meta' \in [sig : 0 .. MaxRaw, stamp : 0 .. stamps]
    BY <1>9, TypeParts DEF Stats, NoMeta
  <2> QED
    BY <2>1, <2>2, <1>9, TypeParts DEF Stats, TypeOK, Request
<1>10. CASE Replace(t)
  <2>1. req' \in Requests
    BY <1>10, EndTypes, GoTypes DEF Replace, Steps, Building
  <2>2. temp' \in 0 .. Len(file) /\ canonical' \in 0 .. Len(file)
    BY <1>10, TypeParts DEF Replace
  <2> QED
    BY <2>1, <2>2, <1>10, TypeParts DEF Replace, TypeOK, Request
<1>11. CASE WriteMeta(t)
  <2>1. req' \in Requests
    BY <1>11, ReturnTypes DEF WriteMeta
  <2>2. stamps' = stamps + 1 /\ req[t].sig \in 0 .. MaxRaw
    BY <1>11, <1>a DEF WriteMeta, Request
  <2>3. req' \in [Thread -> Request(Len(file), stamps')]
    BY <2>1, <2>2, <1>a, RequestKept
  <2>4. meta' \in [sig : 0 .. MaxRaw, stamp : 0 .. stamps']
    BY <1>11, <2>2, <1>a DEF WriteMeta
  <2>5. stamps' \in Nat
    BY <2>2, <1>a
  <2> QED
    BY <2>3, <2>4, <2>5, <1>11 DEF WriteMeta, TypeOK, Request
<1>12. CASE Key(t)
  <2> DEFINE hit == signals[meta.stamp] # 0 /\ ~req[t].force
             q == [req[t] EXCEPT !.pc = IF hit THEN "run" ELSE "scan", !.key = meta.stamp]
  <2>1. q \in Request(Len(file), stamps)
    BY <1>a, TypeParts DEF Request, Steps
  <2>2. req' = [req EXCEPT ![t] = q]
    BY <1>12, <1>a DEF Key
  <2>3. req' \in Requests
    BY <2>1, <2>2, <1>a
  <2> QED
    BY <2>3, <1>12 DEF Key, names, TypeOK, Request
<1>13. CASE Scan(t)
  <2>1. ASSUME NEW v \in 0 .. MaxRaw,
               req' = [req EXCEPT ![t].pc = "publish", ![t].data = v]
        PROVE  req' \in Requests
    <3>1. [req[t] EXCEPT !.pc = "publish", !.data = v] \in Request(Len(file), stamps)
      BY <1>a DEF Request, Steps
    <3>2. req' = [req EXCEPT ![t] = [req[t] EXCEPT !.pc = "publish", !.data = v]]
      BY <2>1, <1>a
    <3> QED
      BY <3>1, <3>2, <1>a
  <2>2. canonical # 0 => file[canonical].raw \in 0 .. MaxRaw
    <3>1. canonical # 0 => file[canonical] \in File
      BY <1>a, TypeParts
    <3> QED
      BY <3>1, <1>a DEF File
  <2>3. req' \in Requests
    <3>1. CASE canonical = 0 \/ meta = NoMeta
      BY <3>1, <1>13, <2>1, <1>a DEF Scan
    <3>2. CASE ~(canonical = 0 \/ meta = NoMeta) /\ Readable(canonical)
      BY <3>2, <1>13, <2>1, <2>2 DEF Scan
    <3>3. CASE ~(canonical = 0 \/ meta = NoMeta) /\ ~Readable(canonical)
      BY <3>3, <1>13, EndTypes DEF Scan
    <3> QED
      BY <3>1, <3>2, <3>3
  <2> QED
    BY <2>3, <1>13 DEF Scan, names, TypeOK, Request
<1>14. CASE Publish(t)
  <2>1. req' \in Requests
    BY <1>14, EndTypes, GoTypes DEF Publish, Steps
  <2>2. signals' \in [0 .. MaxFiles -> 0 .. MaxRaw]
    BY <1>14, <1>a, TypeParts DEF Publish, Request
  <2> QED
    BY <2>1, <2>2, <1>14 DEF Publish, names, TypeOK, Request
<1>15. CASE Run(t)
  <2>1. signals[req[t].key] \in 0 .. MaxRaw
    <3>1. Cardinality(Publishing) \in Nat
      BY FS_CardinalityType DEF Counted
    <3>2. stamps <= MaxFiles
      BY <3>1, <1>a, TypeParts DEF Counted
    <3>3. req[t].key \in 0 .. MaxFiles
      BY <3>2, <1>a DEF Request
    <3> QED
      BY <3>3, TypeParts
  <2>2. [req[t] EXCEPT !.pc = "served", !.data = signals[req[t].key]]
          \in Request(Len(file), stamps)
    BY <2>1, <1>a DEF Request, Steps
  <2>3. req' = [req EXCEPT ![t] = [req[t] EXCEPT !.pc = "served",
                                                 !.data = signals[req[t].key]]]
    BY <1>15, <1>a DEF Run
  <2>4. req' \in Requests
    BY <2>2, <2>3, <1>a
  <2> QED
    BY <2>4, <1>15 DEF Run, names, TypeOK, Request
<1>16. CASE Answer(t)
  BY <1>16, EndTypes DEF Answer, names, TypeOK, Request
<1>17. CASE Crash(t)
  <2>1. req' \in Requests /\ crashes' \in 0 .. MaxCrash
    BY <1>17, EndTypes, TypeParts DEF Crash
  <2> QED
    BY <2>1, <1>17 DEF Crash, names, TypeOK, Request
<1> QED
  BY <1>3, <1>4, <1>5, <1>6, <1>7, <1>8, <1>9, <1>10, <1>11, <1>12, <1>13, <1>14, <1>15,
     <1>16, <1>17

----------------------------------------------------------------------------
(* How a step moves names, versions and requests.                           *)

Step(t) ==
  \/ Begin(t) \/ Hit(t) \/ Miss(t) \/ Unlink(t) \/ Sink(t) \/ Write(t) \/ Stats(t)
  \/ Replace(t) \/ WriteMeta(t) \/ Key(t) \/ Scan(t) \/ Publish(t) \/ Run(t)
  \/ Answer(t) \/ Crash(t)

\* Every step is an edit of the raw data, of one request, or changes nothing.
LEMMA ByThread == [Next]_vars => UNCHANGED vars \/ EditRaw \/ \E t \in Thread : Step(t)
BY DEF Next, Step

\* A step is of one thread.
LEMMA OthersWait ==
  ASSUME TypeOK, NEW t \in Thread, Step(t)
  PROVE  \A u \in Thread \ {t} : req'[u] = req[u]
<1>1. req \in [Thread -> Request(Len(file), stamps)]
  BY TypeParts
<1>2. ASSUME End(t) \/ \E s \in Steps : Go(t, s) PROVE \A u \in Thread \ {t} : req'[u] = req[u]
  BY <1>1, <1>2 DEF End, Go
<1>3. CASE Begin(t) \/ Miss(t) \/ Sink(t) \/ Key(t) \/ Run(t)
  BY <1>1, <1>3 DEF Begin, Miss, Sink, Key, Run
<1>4. CASE Hit(t) \/ Unlink(t) \/ Write(t) \/ Stats(t) \/ Replace(t) \/ WriteMeta(t)
           \/ Publish(t) \/ Answer(t) \/ Crash(t)
  BY <1>2, <1>4 DEF Hit, Unlink, Write, Stats, Replace, WriteMeta, Publish, Answer, Crash,
     PrepareReturns, Steps, Building
<1>5. CASE Scan(t)
  BY <1>1, <1>2, <1>5 DEF Scan
<1> QED
  BY <1>3, <1>4, <1>5 DEF Step

\* What a step makes of its request.
Keeps(t) ==
  /\ req'[t].since = req[t].since /\ req'[t].sig = req[t].sig
  /\ req'[t].key = req[t].key /\ req'[t].data = req[t].data

\* Where each kind of step takes its request: to its end,
LEMMA EndMoves ==
  ASSUME TypeOK, NEW t \in Thread, End(t) PROVE req'[t] = NoRequest
<1>1. req \in [Thread -> Request(Len(file), stamps)]
  BY TypeParts
<1> QED
  BY <1>1 DEF End

\* to another place,
LEMMA GoMoves ==
  ASSUME TypeOK, NEW t \in Thread, NEW s, Go(t, s) PROVE req'[t].pc = s /\ Keeps(t)
<1>1. req \in [Thread -> Request(Len(file), stamps)]
  BY TypeParts
<1>2. req'[t] = [req[t] EXCEPT !.pc = s] /\ req[t] \in Request(Len(file), stamps)
  BY <1>1 DEF Go
<1> QED
  BY <1>2 DEF Keeps, Request

\* back from preparing,
LEMMA ReturnMoves ==
  ASSUME TypeOK, NEW t \in Thread, PrepareReturns(t)
  PROVE  req'[t] = NoRequest \/ (req'[t].pc = "key" /\ Keeps(t))
BY EndMoves, GoMoves DEF PrepareReturns

\* to its start, where it notes the version of the raw data,
LEMMA BeginMoves ==
  ASSUME TypeOK, NEW t \in Thread, Begin(t)
  PROVE  req'[t].pc = "check" /\ req'[t].since = raw /\ req'[t].sig = 0
<1>1. req \in [Thread -> Request(Len(file), stamps)]
  BY TypeParts
<1>2. PICK kind \in {"prepare", "backtest"}, force \in BOOLEAN :
        req'[t] = [NoRequest EXCEPT !.pc = "check", !.kind = kind, !.force = force,
                                    !.since = raw]
  BY <1>1 DEF Begin
<1> QED
  BY <1>2 DEF NoRequest

\* into a build, with the signature of the raw data,
LEMMA MissMoves ==
  ASSUME TypeOK, NEW t \in Thread, Miss(t)
  PROVE  req'[t].pc = "unlink" /\ req'[t].since = req[t].since /\ req'[t].sig = raw
<1>1. req \in [Thread -> Request(Len(file), stamps)]
  BY TypeParts
<1>2. req'[t] = [req[t] EXCEPT !.pc = "unlink", !.sig = raw, !.had = meta # NoMeta]
      /\ req[t] \in Request(Len(file), stamps)
  BY <1>1 DEF Miss
<1> QED
  BY <1>2 DEF Request

\* to the temporary file it opened,
LEMMA SinkMoves ==
  ASSUME TypeOK, NEW t \in Thread, Sink(t)
  PROVE  req'[t].pc = "writing" /\ Keeps(t)
<1>1. req \in [Thread -> Request(Len(file), stamps)]
  BY TypeParts
<1>2. req'[t] = [req[t] EXCEPT !.pc = "writing", !.mine = temp']
      /\ req[t] \in Request(Len(file), stamps)
  BY <1>1 DEF Sink
<1> QED
  BY <1>2 DEF Request, Keeps

\* to a cache key,
LEMMA KeyMoves ==
  ASSUME TypeOK, NEW t \in Thread, Key(t)
  PROVE  /\ req'[t].pc = "scan" \/ (req'[t].pc = "run" /\ signals[meta.stamp] # 0)
         /\ req'[t].since = req[t].since /\ req'[t].sig = req[t].sig
         /\ req'[t].key = meta.stamp
<1>1. req \in [Thread -> Request(Len(file), stamps)]
  BY TypeParts
<1> DEFINE hit == signals[meta.stamp] # 0 /\ ~req[t].force
<1>2. req'[t] = [req[t] EXCEPT !.pc = IF hit THEN "run" ELSE "scan", !.key = meta.stamp]
      /\ req[t] \in Request(Len(file), stamps)
  BY <1>1 DEF Key
<1> QED
  BY <1>2 DEF Request

\* to the version it scanned,
LEMMA ScanMoves ==
  ASSUME TypeOK, NEW t \in Thread, Scan(t)
  PROVE  \/ req'[t] = NoRequest
         \/ /\ req'[t].pc = "publish"
            /\ req'[t].since = req[t].since /\ req'[t].sig = req[t].sig
            /\ req'[t].key = req[t].key
            /\ \/ req'[t].data = raw
               \/ canonical # 0 /\ req'[t].data = file[canonical].raw
<1>1. req \in [Thread -> Request(Len(file), stamps)]
  BY TypeParts
<1>2. ASSUME NEW v, req' = [req EXCEPT ![t].pc = "publish", ![t].data = v]
      PROVE  /\ req'[t].pc = "publish"
             /\ req'[t].since = req[t].since /\ req'[t].sig = req[t].sig
             /\ req'[t].key = req[t].key /\ req'[t].data = v
  <2>1. req'[t] = [req[t] EXCEPT !.pc = "publish", !.data = v]
        /\ req[t] \in Request(Len(file), stamps)
    BY <1>1, <1>2
  <2> QED
    BY <2>1 DEF Request
<1>3. CASE canonical = 0 \/ meta = NoMeta
  BY <1>3, <1>2 DEF Scan
<1>4. CASE ~(canonical = 0 \/ meta = NoMeta) /\ Readable(canonical)
  BY <1>4, <1>2 DEF Scan
<1>5. CASE ~(canonical = 0 \/ meta = NoMeta) /\ ~Readable(canonical)
  BY <1>5, EndMoves DEF Scan
<1> QED
  BY <1>3, <1>4, <1>5

\* to the published signals,
LEMMA PublishMoves ==
  ASSUME TypeOK, NEW t \in Thread, Publish(t)
  PROVE  \/ req'[t] = NoRequest /\ signals' = signals
         \/ /\ req'[t].pc = "run" /\ Keeps(t)
            /\ signals' = [signals EXCEPT ![req[t].key] = req[t].data]
BY EndMoves, GoMoves DEF Publish

\* and to what it is served.
LEMMA RunMoves ==
  ASSUME TypeOK, NEW t \in Thread, Run(t)
  PROVE  /\ req'[t].pc = "served" /\ req'[t].since = req[t].since
         /\ req'[t].sig = req[t].sig /\ req'[t].key = req[t].key
         /\ req'[t].data = signals[req[t].key]
<1>1. req \in [Thread -> Request(Len(file), stamps)]
  BY TypeParts
<1>2. req'[t] = [req[t] EXCEPT !.pc = "served", !.data = signals[req[t].key]]
      /\ req[t] \in Request(Len(file), stamps)
  BY <1>1 DEF Run
<1> QED
  BY <1>2 DEF Request

\* Inodes keep their version, and a version of the CSV files or an updated_at
\* is never taken back.
LEMMA VersionsStay ==
  ASSUME TypeOK, [Next]_vars
  PROVE  /\ raw' >= raw /\ stamps' >= stamps /\ Len(file') >= Len(file)
         /\ \A i \in 1 .. Len(file) : file'[i].raw = file[i].raw
<1>1. /\ raw \in Nat /\ stamps \in Nat /\ Len(file) \in Nat
      /\ file \in Seq(File) /\ temp \in 0 .. Len(file)
  BY TypeParts
<1>2. CASE UNCHANGED file
  <2>1. raw' >= raw /\ stamps' >= stamps
    <3>1. CASE EditRaw \/ \E t \in Thread : WriteMeta(t)
      BY <1>1, <3>1 DEF EditRaw, names, WriteMeta
    <3>2. CASE ~(EditRaw \/ \E t \in Thread : WriteMeta(t))
      <4>1. raw' = raw /\ stamps' = stamps
        BY <3>2, ByThread DEF Step, vars, names, Begin, Hit, Miss, Unlink, Sink, Write,
           Stats, Replace, Key, Scan, Publish, Run, Answer, Crash
      <4> QED
        BY <1>1, <4>1
    <3> QED
      BY <3>1, <3>2
  <2> QED
    BY <1>1, <1>2, <2>1
<1>3. CASE \E t \in Thread : Write(t)
  BY <1>1, <1>3 DEF Write, names, File
<1>4. CASE \E t \in Thread : Sink(t)
  <2> PICK t \in Thread : Sink(t)
    BY <1>4
  <2>1. CASE temp = 0
    BY <1>1, <2>1 DEF Sink, File
  <2>2. CASE temp # 0
    <3>1. temp \in 1 .. Len(file) /\ file[temp] \in File
      BY <1>1, <2>2
    <3>2. /\ file' = [file EXCEPT ![temp] = [file[temp] EXCEPT !.state = "torn"]]
          /\ raw' = raw /\ stamps' = stamps
      BY <2>2 DEF Sink
    <3> QED
      BY <1>1, <3>1, <3>2 DEF File
  <2> QED
    BY <2>1, <2>2
<1> QED
  BY <1>2, <1>3, <1>4, ByThread DEF Step, vars, names, EditRaw, Begin, Hit, Miss, Unlink,
     Stats, Replace, WriteMeta, Key, Scan, Publish, Run, Answer, Crash

\* A name is moved to what another had or to a new file of the current version.
LEMMA NamesMove ==
  ASSUME TypeOK, [Next]_vars
  PROVE  /\ temp' \in {0, temp} \/ (temp' = Len(file) + 1 /\ file'[temp'].raw = raw)
         /\ canonical' \in {0, canonical, temp}
<1>1. raw \in Nat /\ Len(file) \in Nat /\ file \in Seq(File)
  BY TypeParts
<1>2. CASE \E t \in Thread : Sink(t)
  BY <1>1, <1>2 DEF Sink, File
<1>3. CASE ~\E t \in Thread : Sink(t)
  BY <1>3, ByThread DEF Step, vars, names, EditRaw, Begin, Hit, Miss, Unlink, Write,
     Stats, Replace, WriteMeta, Key, Scan, Publish, Run, Answer, Crash
<1> QED
  BY <1>2, <1>3

\* What the temporary name holds becomes no older.
LEMMA TempStays ==
  ASSUME TypeOK, [Next]_vars, NEW v \in Nat, v <= raw, temp # 0 => file[temp].raw >= v
  PROVE  temp' # 0 => file'[temp'].raw >= v
<1>1. raw \in Nat /\ temp \in 0 .. Len(file) /\ file \in Seq(File)
  BY TypeParts
<1>2. CASE temp' \in {0, temp}
  BY <1>1, <1>2, VersionsStay
<1> QED
  BY <1>1, <1>2, NamesMove

\* Neither does what both names hold.
LEMMA HoldsStays ==
  ASSUME TypeOK, [Next]_vars, NEW v \in Nat, v <= raw, HoldsAtLeast(v)
  PROVE  HoldsAtLeast(v)'
<1>1. temp \in 0 .. Len(file) /\ canonical \in 0 .. Len(file) /\ file \in Seq(File)
  BY TypeParts
<1>2. canonical' # 0 => file'[canonical'].raw >= v
  BY <1>1, VersionsStay, NamesMove DEF HoldsAtLeast
<1>3. temp' # 0 => file'[temp'].raw >= v
  BY TempStays DEF HoldsAtLeast
<1> QED
  BY <1>2, <1>3 DEF HoldsAtLeast

\* Nor what is kept or about to be published under a key.
LEMMA CurrentStays ==
  ASSUME TypeOK, [Next]_vars, NEW k, NEW v \in Nat, v <= raw, Current(k, v)
  PROVE  Current(k, v)'
<1>1. HoldsAtLeast(v)'
  BY HoldsStays DEF Current
<1>2. /\ raw \in Nat /\ canonical \in 0 .. Len(file) /\ file \in Seq(File)
      /\ req \in [Thread -> Request(Len(file), stamps)]
      /\ signals \in [0 .. MaxFiles -> 0 .. MaxRaw]
  BY TypeParts
<1>3. CASE \E t \in Thread : Publish(t)
  <2> PICK t \in Thread : Publish(t)
    BY <1>3
  <2>1. signals'[k] # 0 => signals'[k] >= v
    <3>1. CASE signals' = signals
      BY <3>1 DEF Current
    <3>2. CASE signals' = [signals EXCEPT ![req[t].key] = req[t].data]
      BY <3>2, <1>2 DEF Publish, Current, At
    <3> QED
      BY <3>1, <3>2, PublishMoves
  <2>2. \A u \in Thread : At(u, "publish")' => u # t /\ req'[u] = req[u]
    BY PublishMoves, OthersWait DEF Step, At, NoRequest
  <2> QED
    BY <1>1, <2>1, <2>2 DEF Current, At
<1>4. CASE \E t \in Thread : Scan(t)
  <2> PICK t \in Thread : Scan(t)
    BY <1>4
  <2>1. \A u \in Thread \ {t} : req'[u] = req[u]
    BY OthersWait DEF Step
  <2>2. At(t, "publish")' => req'[t].data >= v
    BY ScanMoves DEF At, NoRequest, Current, HoldsAtLeast
  <2> QED
    BY <1>1, <2>1, <2>2 DEF Current, At, Scan
<1>5. CASE ~\E t \in Thread : Publish(t) \/ Scan(t)
  <2>1. UNCHANGED signals
    BY <1>5, ByThread DEF Step, vars, names, EditRaw, Begin, Hit, Miss, Unlink, Sink, Write,
       Stats, Replace, WriteMeta, Key, Run, Answer, Crash
  <2>2. \A u \in Thread : At(u, "publish")' => req'[u] = req[u]
    <3>1. CASE UNCHANGED vars \/ EditRaw
      BY <3>1 DEF vars, EditRaw
    <3>2. ASSUME NEW t \in Thread, Step(t) PROVE ~At(t, "publish")'
      <4>1. CASE Begin(t) \/ Miss(t) \/ Sink(t) \/ Key(t) \/ Run(t)
        BY <4>1, BeginMoves, MissMoves, SinkMoves, KeyMoves, RunMoves DEF At
      <4>2. CASE Hit(t) \/ Unlink(t) \/ Write(t) \/ Stats(t) \/ Replace(t) \/ WriteMeta(t)
                 \/ Answer(t) \/ Crash(t)
        BY <4>2, EndMoves, GoMoves, ReturnMoves DEF Hit, Unlink, Write, Stats, Replace,
           WriteMeta, Answer, Crash, NoRequest, At
      <4> QED
        BY <1>5, <3>2, <4>1, <4>2 DEF Step
    <3> QED
      BY <3>1, <3>2, ByThread, OthersWait
  <2> QED
    BY <1>1, <2>1, <2>2 DEF Current, At
<1> QED
  BY <1>3, <1>4, <1>5

----------------------------------------------------------------------------
(* How the actions keep the invariant.                                      *)

\* The fields the invariant compares are numbers.
LEMMA Numbers ==
  ASSUME TypeOK
  PROVE  /\ raw \in Nat \ {0} /\ stamps \in Nat /\ Len(file) \in Nat
         /\ temp \in Nat /\ canonical \in Nat
         /\ meta.sig \in Nat /\ meta.stamp \in 0 .. stamps
         /\ \A t \in Thread : /\ req[t].since \in Nat /\ req[t].sig \in Nat
                              /\ req[t].key \in 0 .. stamps /\ req[t].data \in Nat
BY CachesAssumption, TypeParts, SMTT(30) DEF Request

\* Requests and signatures stay of the past.
LEMMA PastKept == TypeOK /\ OfThePast /\ [Next]_vars => OfThePast'
<1> SUFFICES ASSUME TypeOK, OfThePast, [Next]_vars PROVE OfThePast'
  OBVIOUS
<1>1. /\ raw \in Nat /\ raw' \in Nat /\ raw' >= raw /\ meta.sig \in Nat
      /\ \A u \in Thread : req[u].since \in Nat /\ req[u].sig \in Nat
  <2>1. raw' \in {raw, raw + 1}
    BY ByThread DEF vars, names, Step, EditRaw, Begin, Hit, Miss, Unlink, Sink, Write,
      Stats,
       Replace, WriteMeta, Key, Scan, Publish, Run, Answer, Crash
  <2> QED
    BY <2>1, Numbers, VersionsStay
<1>2. meta'.sig <= raw'
  <2>1. CASE \E t \in Thread : WriteMeta(t)
    BY <1>1, <2>1 DEF WriteMeta, OfThePast
  <2>2. CASE \E t \in Thread : Stats(t)
    BY <1>1, <2>2 DEF Stats, OfThePast, NoMeta
  <2>3. CASE ~\E t \in Thread : WriteMeta(t) \/ Stats(t)
    <3>1. meta' = meta
      BY <2>3, ByThread
        DEF vars, names, Step, EditRaw, Begin, Hit, Miss, Unlink, Sink, Write,
         Replace, Key, Scan, Publish, Run, Answer, Crash
    <3> QED
      BY <1>1, <3>1 DEF OfThePast
  <2> QED
    BY <2>1, <2>2, <2>3
<1> DEFINE Past(q, r) == /\ q.since <= r /\ q.sig <= r
                         /\ q.pc \in Building => q.since <= q.sig
<1>3. ASSUME NEW u \in Thread PROVE Past(req[u], raw')
  BY <1>1 DEF OfThePast
<1>4. ASSUME NEW t \in Thread, Step(t) PROVE Past(req'[t], raw')
  <2> USE <1>1, <1>3 DEF Building
  <2>1. CASE req'[t] = NoRequest
    BY <2>1 DEF NoRequest
  <2>2. CASE Keeps(t) /\ (req'[t].pc \in Building => req[t].pc \in Building)
    BY <2>2 DEF Keeps
  <2>3. CASE Begin(t) \/ Miss(t)
    BY <2>3, BeginMoves, MissMoves DEF OfThePast
  <2>4. CASE Key(t) \/ Scan(t) \/ Run(t)
    BY <2>1, <2>4, KeyMoves, ScanMoves, RunMoves
  <2>5. CASE Sink(t)
    BY <2>2, <2>5, SinkMoves DEF Sink, At
  <2>6. CASE Hit(t) \/ WriteMeta(t) \/ Publish(t)
    BY <2>1, <2>2, <2>6, ReturnMoves, PublishMoves DEF Hit, WriteMeta
  <2>7. CASE Unlink(t) \/ Write(t) \/ Stats(t) \/ Replace(t) \/ Answer(t) \/ Crash(t)
    BY <2>1, <2>2, <2>7, EndMoves, GoMoves
      DEF Unlink, Write, Stats, Replace, Answer, Crash, At
  <2> QED
    BY <1>4, <2>3, <2>4, <2>5, <2>6, <2>7 DEF Step
<1>5. ASSUME NEW u \in Thread PROVE Past(req'[u], raw')
  <2>1. CASE UNCHANGED vars \/ EditRaw
    BY <1>3, <2>1 DEF vars, EditRaw
  <2>2. ASSUME NEW t \in Thread, Step(t) PROVE Past(req'[u], raw')
    BY <1>3, <1>4, <2>2, OthersWait
  <2> QED
    BY <2>1, <2>2, ByThread
<1> QED
  BY <1>2, <1>5 DEF OfThePast

\* A builder's place is left by its own steps only, in the order of the code.
LEMMA Places ==
  ASSUME TypeOK, NEW t \in Thread, Step(t)
  PROVE  /\ At(t, "unlink")' => Miss(t)
         /\ At(t, "sink")' => Unlink(t)
         /\ At(t, "writing")' => Sink(t)
         /\ At(t, "stats")' => Write(t)
         /\ At(t, "replace")' => Stats(t) /\ Go(t, "replace")
         /\ At(t, "meta")' => Replace(t) /\ Go(t, "meta")
         /\ At(t, "key")' => Hit(t) \/ WriteMeta(t)
         /\ At(t, "scan")' => Key(t)
         /\ At(t, "publish")' => Scan(t)
         /\ At(t, "run")' => Key(t) \/ Publish(t)
         /\ At(t, "served")' => Run(t)
<1>1. CASE req'[t] = NoRequest
  BY <1>1 DEF NoRequest, At
<1>2. CASE Begin(t) \/ Miss(t) \/ Sink(t) \/ Key(t) \/ Scan(t) \/ Run(t)
  BY <1>1, <1>2, BeginMoves, MissMoves, SinkMoves, KeyMoves, ScanMoves, RunMoves DEF At
<1>3. CASE Hit(t) \/ WriteMeta(t) \/ Publish(t)
  BY <1>1, <1>3, ReturnMoves, PublishMoves DEF Hit, WriteMeta, At
<1>4. CASE Unlink(t) \/ Write(t) \/ Answer(t) \/ Crash(t)
  BY <1>1, <1>4, EndMoves, GoMoves DEF Unlink, Write, Answer, Crash, At
<1>5. CASE Stats(t)
  <2>1. Go(t, "replace") \/ req'[t] = NoRequest
    BY <1>5, EndMoves DEF Stats
  <2> QED
    BY <1>1, <1>5, <2>1, GoMoves DEF At
<1>6. CASE Replace(t)
  <2>1. Go(t, "meta") \/ req'[t] = NoRequest
    BY <1>6, EndMoves DEF Replace
  <2> QED
    BY <1>1, <1>6, <2>1, GoMoves DEF At
<1> QED
  BY <1>2, <1>3, <1>4, <1>5, <1>6 DEF Step

\* What a builder finds at the names stays as new as its signature.
LEMMA BuiltKept == TypeOK /\ OfThePast /\ Built /\ [Next]_vars => Built'
<1> SUFFICES ASSUME TypeOK, OfThePast, Built, [Next]_vars, NEW u \in Thread
             PROVE  /\ req'[u].pc \in {"sink", "writing", "stats", "replace"} /\ temp' # 0 =>
                         file'[temp'].raw >= req'[u].sig
                    /\ At(u, "meta")' => HoldsAtLeast(req[u].sig)'
  BY DEF Built
<1>1. req[u].sig \in Nat /\ req[u].sig <= raw
  BY Numbers DEF OfThePast
<1>2. req[u].pc \in {"sink", "writing", "stats", "replace"} /\ temp' # 0 =>
        file'[temp'].raw >= req[u].sig
  BY <1>1, TempStays DEF Built
<1>3. \A v \in Nat : At(u, "meta") /\ v = req[u].sig => HoldsAtLeast(v)'
  BY <1>1, HoldsStays DEF Built
<1>4. CASE req'[u] = req[u]
  <2>1. At(u, "meta") => HoldsAtLeast(req[u].sig)'
    BY <1>1, <1>3, <1>4 DEF HoldsAtLeast
  <2> QED
    BY <1>2, <1>4, <2>1 DEF At
<1>5. CASE Step(u)
  <2>1. CASE At(u, "sink")'
    BY <1>5, <2>1, Places DEF Unlink, At
  <2>2. CASE At(u, "writing")'
    BY <1>2, <1>5, <2>2, Places, SinkMoves DEF Sink, At, Keeps
  <2>3. CASE At(u, "stats")'
    BY <1>2, <1>5, <2>3, Places, GoMoves DEF Write, At, Keeps
  <2>4. CASE At(u, "replace")'
    BY <1>2, <1>5, <2>4, Places, GoMoves DEF Stats, At, Keeps
  <2>5. CASE At(u, "meta")'
    <3>1. Replace(u) /\ req'[u].sig = req[u].sig
      BY <1>5, <2>5, Places, GoMoves DEF Keeps
    <3>2. canonical' = temp /\ temp' = 0 /\ file' = file
      BY <3>1, <1>5, <2>5, EndMoves DEF Replace, At, NoRequest
    <3>3. temp # 0 => file[temp].raw >= req[u].sig
      BY <3>1 DEF Replace, At, Built
    <3> QED
      BY <2>5, <3>1, <3>2, <3>3 DEF HoldsAtLeast, At
  <2> QED
    BY <2>1, <2>2, <2>3, <2>4, <2>5 DEF At
<1> QED
  BY <1>4, <1>5, ByThread, OthersWait DEF vars, EditRaw

\* There is a key for every updated_at.
LEMMA StampsBounded ==
  ASSUME TypeOK, Counted
  PROVE  /\ Cardinality(Publishing) \in Nat /\ stamps <= MaxFiles
         /\ \A t \in Publishing : stamps + 1 <= MaxFiles
<1>1. Cardinality(Publishing) \in Nat
  BY FS_CardinalityType DEF Counted
<1>2. stamps + Cardinality(Publishing) <= MaxFiles
  BY CachesAssumption, <1>1, Numbers, TypeParts DEF Counted
<1>3. ASSUME NEW t \in Publishing PROVE Cardinality(Publishing) >= 1
  BY <1>1, FS_EmptySet DEF Counted
<1> QED
  BY CachesAssumption, <1>1, <1>2, <1>3, Numbers

\* Nothing is kept under the key that comes next.
LEMMA Newborn ==
  ASSUME TypeOK, Unborn, Counted, NEW t \in Thread, At(t, "meta"), NEW v \in Nat,
         HoldsAtLeast(v)
  PROVE  Current(stamps + 1, v)
<1>1. signals[stamps + 1] = 0
  <2>1. stamps + 1 \in 0 .. MaxFiles
    BY CachesAssumption, StampsBounded, Numbers DEF Publishing
  <2> QED
    BY <2>1, Numbers DEF Unborn
<1>2. \A u \in Thread : req[u].key # stamps + 1
  BY Numbers
<1> QED
  BY <1>1, <1>2 DEF Current

\* What is current for a version is current for an older one.
LEMMA CurrentForOlder ==
  ASSUME TypeOK, NEW k \in 0 .. MaxFiles, NEW w \in Nat, NEW v \in Nat, v <= w, Current(k, w)
  PROVE  Current(k, v)
<1>1. /\ signals[k] \in Nat /\ \A u \in Thread : req[u].data \in Nat
      /\ \A f \in {temp, canonical} : f # 0 => file[f].raw \in Nat
  <2>1. \A f \in {temp, canonical} : f # 0 => file[f] \in File
    BY Numbers, TypeParts
  <2> QED
    <3>1. signals[k] \in Nat
      BY CachesAssumption, TypeParts
    <3> QED
      BY CachesAssumption, <2>1, <3>1, Numbers, SMTT(30) DEF File
<1> QED
  BY <1>1 DEF Current, HoldsAtLeast

\* How the metadata changes.
LEMMA MetaMoves ==
  ASSUME [Next]_vars
  PROVE  \/ meta' = meta
         \/ meta' = NoMeta
         \/ \E t \in Thread : WriteMeta(t)
BY ByThread DEF vars, names, Step, EditRaw, Begin, Hit, Miss, Unlink, Sink, Write, Stats,
   Replace, Key, Scan, Publish, Run, Answer, Crash

\* The metadata keeps what it promises.
LEMMA SignedKept ==
  TypeOK /\ OfThePast /\ Built /\ Signed /\ Unborn /\ Counted /\ [Next]_vars => Signed'
<1> SUFFICES ASSUME TypeOK, OfThePast, Built, Signed, Unborn, Counted, [Next]_vars,
                    meta' # NoMeta
             PROVE  meta'.stamp > 0 /\ Current(meta.stamp, meta.sig)'
  BY DEF Signed
<1>1. \A k \in Nat, v \in Nat : v <= raw /\ Current(k, v) => Current(k, v)'
  BY CurrentStays
<1>2. ASSUME NEW k \in Nat, NEW v \in Nat, Current(k, v)', meta'.stamp = k, meta'.sig = v
      PROVE  Current(meta.stamp, meta.sig)'
  BY <1>2 DEF Current, HoldsAtLeast
<1>3. CASE meta' = meta
  <2>1. Current(meta.stamp, meta.sig) /\ meta.stamp > 0
    BY <1>3 DEF Signed
  <2>2. meta.stamp \in Nat /\ meta.sig \in Nat /\ meta.sig <= raw
    BY Numbers DEF OfThePast
  <2> QED
    BY <1>1, <1>2, <1>3, <2>1, <2>2
<1>4. CASE \E t \in Thread : WriteMeta(t)
  <2> PICK t \in Thread : WriteMeta(t)
    BY <1>4
  <2>1. meta'.stamp = stamps + 1 /\ meta'.sig = req[t].sig /\ At(t, "meta")
    BY DEF WriteMeta
  <2>2. req[t].sig \in Nat /\ req[t].sig <= raw /\ stamps + 1 \in Nat /\ stamps + 1 > 0
    BY Numbers DEF OfThePast
  <2>3. Current(stamps + 1, req[t].sig)
    BY <2>1, <2>2, Newborn DEF Built
  <2> QED
    BY <1>1, <1>2, <2>1, <2>2, <2>3
<1> QED
  BY <1>3, <1>4, MetaMoves

\* Signals are published under keys handed out, and are never of no version.
LEMMA UnbornKept == TypeOK /\ Unborn /\ [Next]_vars => Unborn'
<1> SUFFICES ASSUME TypeOK, Unborn, [Next]_vars, NEW k \in 0 .. MaxFiles, k > stamps'
             PROVE  signals'[k] = 0
  BY DEF Unborn
<1>1. k > stamps
  <2>1. stamps' \in {stamps, stamps + 1}
    BY ByThread DEF vars, names, Step, EditRaw, Begin, Hit, Miss, Unlink, Sink, Write,
      Stats,
       Replace, WriteMeta, Key, Scan, Publish, Run, Answer, Crash
  <2> QED
    BY <2>1, Numbers
<1>2. CASE \E t \in Thread : Publish(t)
  <2> PICK t \in Thread : Publish(t)
    BY <1>2
  <2>1. k # req[t].key
    BY <1>1, Numbers
  <2> QED
    BY <1>1, <2>1, PublishMoves, TypeParts DEF Unborn
<1>3. CASE ~\E t \in Thread : Publish(t)
  <2>1. signals' = signals
    BY <1>3, ByThread DEF vars, names, Step, EditRaw, Begin, Hit, Miss, Unlink, Sink, Write,
       Stats, Replace, WriteMeta, Key, Scan, Run, Answer, Crash
  <2> QED
    BY <1>1, <2>1 DEF Unborn
<1> QED
  BY <1>2, <1>3

\* A version kept under a key stays a version.
LEMMA KeptStays ==
  ASSUME TypeOK, Relied, [Next]_vars, NEW k \in 0 .. MaxFiles, signals[k] # 0
  PROVE  signals'[k] # 0
<1>1. CASE \E t \in Thread : Publish(t)
  BY <1>1, PublishMoves, TypeParts DEF Relied, Publish
<1>2. CASE ~\E t \in Thread : Publish(t)
  BY <1>2, ByThread DEF vars, names, Step, EditRaw, Begin, Hit, Miss, Unlink, Sink, Write,
     Stats, Replace, WriteMeta, Key, Scan, Run, Answer, Crash
<1> QED
  BY <1>1, <1>2

\* A request keeps what it relies on.
LEMMA ReliedKept == CachesInv /\ [Next]_vars => Relied'
<1> SUFFICES ASSUME CachesInv, [Next]_vars, NEW u \in Thread
             PROVE  /\ At(u, "key")' => /\ HoldsAtLeast(req[u].since)'
                                        /\ meta' # NoMeta => Current(meta.stamp, req[u].since)'
                    /\ req'[u].pc \in {"scan", "publish", "run"} /\ req'[u].key # 0 =>
                         Current(req[u].key, req[u].since)'
                    /\ At(u, "publish")' => req'[u].data # 0
                    /\ At(u, "run")' => signals'[req'[u].key] # 0
  BY DEF Relied
<1> USE DEF CachesInv
<1>1. \A k \in Nat, v \in Nat : v <= raw /\ Current(k, v) => Current(k, v)'
  BY CurrentStays
<1>2. ASSUME NEW v \in Nat, HoldsAtLeast(v)', req'[u].since = v
      PROVE  HoldsAtLeast(req[u].since)'
  BY <1>2 DEF HoldsAtLeast
<1>3. ASSUME NEW k \in Nat, NEW v \in Nat, Current(k, v)', req'[u].since = v
      PROVE  /\ meta'.stamp = k => Current(meta.stamp, req[u].since)'
             /\ req'[u].key = k => Current(req[u].key, req[u].since)'
  BY <1>3 DEF Current, HoldsAtLeast
<1>4. /\ req[u].since \in Nat /\ req[u].since <= raw /\ raw \in Nat \ {0}
      /\ req[u].key \in Nat /\ meta.stamp \in Nat /\ stamps + 1 \in Nat
      /\ req[u].key \in 0 .. MaxFiles /\ meta.stamp \in 0 .. MaxFiles
  BY CachesAssumption, Numbers, StampsBounded, SMTT(30) DEF OfThePast
<1>5. /\ At(u, "key") => /\ \A v \in Nat : v = req[u].since => HoldsAtLeast(v)'
                         /\ meta # NoMeta =>
                              \A k, v \in Nat : k = meta.stamp /\ v = req[u].since => Current(k, v)'
                         /\ \A t \in Thread : WriteMeta(t) =>
                              \A k, v \in Nat : k = stamps + 1 /\ v = req[u].since => Current(k, v)'
      /\ req[u].pc \in {"scan", "publish", "run"} /\ req[u].key # 0 =>
           \A k, v \in Nat : k = req[u].key /\ v = req[u].since => Current(k, v)'
  <2>1. ASSUME At(u, "key"), NEW t \in Thread, WriteMeta(t)
        PROVE  Current(stamps + 1, req[u].since)
    BY <1>4, <2>1, Newborn DEF Relied, WriteMeta
  <2>2. At(u, "key") => \A v \in Nat : v = req[u].since => HoldsAtLeast(v)'
    BY <1>4, HoldsStays DEF Relied
  <2> QED
    BY <1>1, <1>4, <2>1, <2>2 DEF Relied
<1>6. CASE req'[u] = req[u]
  <2>1. At(u, "key") => /\ HoldsAtLeast(req[u].since)'
                        /\ meta' # NoMeta => Current(meta.stamp, req[u].since)'
    <3>1. ASSUME At(u, "key"), meta' # NoMeta PROVE Current(meta.stamp, req[u].since)'
      <4>1. CASE meta' = meta
        BY <1>3, <1>4, <1>5, <1>6, <3>1, <4>1
      <4>2. CASE \E t \in Thread : WriteMeta(t)
        BY <1>3, <1>4, <1>5, <1>6, <3>1, <4>2 DEF WriteMeta
      <4> QED
        BY <3>1, <4>1, <4>2, MetaMoves
    <3> QED
      BY <1>2, <1>4, <1>5, <1>6, <3>1
  <2>2. req[u].pc \in {"scan", "publish", "run"} /\ req[u].key # 0 =>
          Current(req[u].key, req[u].since)'
    BY <1>3, <1>4, <1>5, <1>6
  <2>3. At(u, "run") => signals'[req[u].key] # 0
    BY <1>4, KeptStays DEF Relied
  <2> QED
    BY <1>6, <2>1, <2>2, <2>3 DEF At, Relied
<1>7. CASE Step(u)
  <2>1. CASE At(u, "key")'
    <3>1. CASE Hit(u)
      <4>1. meta' = meta /\ req'[u].since = req[u].since
        BY <2>1, <3>1, ReturnMoves DEF Hit, names, At, NoRequest, Keeps
      <4>2. Current(meta.stamp, meta.sig) /\ meta.sig = raw
        BY <3>1 DEF Hit, UpToDate, Signed
      <4>3. Current(meta.stamp, req[u].since)
        BY <1>4, <4>2, CurrentForOlder
      <4>4. \A k, v \in Nat : k = meta.stamp /\ v = req[u].since => Current(k, v)'
        BY <1>1, <1>4, <4>3
      <4>5. \A k, v \in Nat : Current(k, v)' => HoldsAtLeast(v)'
        BY DEF Current
      <4> QED
        BY <1>2, <1>3, <1>4, <2>1, <4>1, <4>4, <4>5 DEF At
    <3>2. CASE WriteMeta(u)
      <4>1. meta'.stamp = stamps + 1 /\ req'[u].since = req[u].since /\ At(u, "meta")
        BY <2>1, <3>2, ReturnMoves DEF WriteMeta, At, NoRequest, Keeps
      <4>2. HoldsAtLeast(req[u].sig) /\ req[u].since <= req[u].sig /\ req[u].sig \in Nat
        BY <4>1, Numbers DEF Built, OfThePast, At, Building
      <4>3. Current(stamps + 1, req[u].sig) /\ stamps + 1 \in 0 .. MaxFiles
        BY CachesAssumption, <1>4, <4>1, <4>2, Newborn, StampsBounded DEF Publishing
      <4>4. Current(stamps + 1, req[u].since)
        BY <1>4, <4>2, <4>3, CurrentForOlder
      <4>5. \A k, v \in Nat : k = stamps + 1 /\ v = req[u].since => Current(k, v)'
        BY <1>1, <1>4, <4>4
      <4>6. \A k, v \in Nat : Current(k, v)' => HoldsAtLeast(v)'
        BY DEF Current
      <4> QED
        BY <1>2, <1>3, <1>4, <2>1, <4>1, <4>5, <4>6 DEF At
    <3> QED
      BY <1>7, <2>1, <3>1, <3>2, Places
  <2>2. CASE At(u, "scan")' \/ (At(u, "run")' /\ Key(u))
    <3>1. Key(u) /\ req'[u].since = req[u].since /\ req'[u].key = meta.stamp
      BY <1>7, <2>2, Places, KeyMoves
    <3>2. meta.stamp # 0 => meta # NoMeta
      BY DEF NoMeta
    <3>3. req'[u].key # 0 => Current(req[u].key, req[u].since)'
      BY <1>3, <1>4, <1>5, <3>1, <3>2 DEF Key
    <3>4. At(u, "run")' => signals'[req'[u].key] # 0
      BY <1>4, <3>1, KeyMoves, KeptStays DEF At
    <3> QED
      BY <2>2, <3>3, <3>4 DEF At
  <2>3. CASE At(u, "publish")'
    <3>1. Scan(u) /\ req'[u].since = req[u].since /\ req'[u].key = req[u].key
      BY <1>7, <2>3, Places, ScanMoves DEF At, NoRequest
    <3>2. req'[u].key # 0 => Current(req[u].key, req[u].since)'
      BY <1>3, <1>4, <1>5, <3>1 DEF Scan, At
    <3>3. canonical # 0 => file[canonical].raw # 0
      <4>1. canonical # 0 => file[canonical] \in File
        BY Numbers, TypeParts
      <4> QED
        BY CachesAssumption, <4>1 DEF File
    <3>4. req'[u].data # 0
      BY <1>4, <2>3, <3>1, <3>3, ScanMoves DEF At, NoRequest
    <3> QED
      BY <2>3, <3>2, <3>4 DEF At
  <2>4. CASE At(u, "run")' /\ Publish(u)
    <3>1. /\ Keeps(u) /\ At(u, "publish")
          /\ signals' = [signals EXCEPT ![req[u].key] = req[u].data]
      BY <2>4, PublishMoves DEF At, NoRequest, Publish
    <3>2. req'[u].key # 0 => Current(req[u].key, req[u].since)'
      BY <1>3, <1>4, <1>5, <3>1 DEF Keeps, At
    <3>3. signals'[req'[u].key] # 0
      BY <1>4, <3>1, TypeParts DEF Keeps, Relied
    <3> QED
      BY <2>4, <3>2, <3>3 DEF At
  <2> QED
    BY <1>7, <2>1, <2>2, <2>3, <2>4, Places DEF At
<1> QED
  BY <1>6, <1>7, ByThread, OthersWait DEF vars, EditRaw

\* Every updated_at keeps standing for a file of its own.
LEMMA CountedKept == TypeOK /\ Counted /\ [Next]_vars => Counted'
<1> SUFFICES ASSUME TypeOK, Counted, [Next]_vars PROVE Counted'
  OBVIOUS
<1> DEFINE named(f) == IF f = 0 THEN 0 ELSE 1
<1>1. /\ IsFiniteSet(Publishing) /\ Cardinality(Publishing) \in Nat
      /\ stamps \in Nat /\ temp \in Nat /\ Len(file) \in Nat
      /\ stamps + Cardinality(Publishing) + named(temp) <= Len(file)
  BY StampsBounded, Numbers DEF Counted
<1>2. ASSUME Publishing' = Publishing, stamps' = stamps, Len(file') \in Nat,
             named(temp') - named(temp) <= Len(file') - Len(file)
      PROVE  Counted'
  BY <1>1, <1>2 DEF Counted
<1>3. CASE UNCHANGED vars \/ EditRaw
  BY <1>1, <1>2, <1>3 DEF vars, names, EditRaw, Publishing, At
<1> SUFFICES ASSUME NEW t \in Thread, Step(t) PROVE Counted'
  BY <1>3, ByThread
<1>4. \A u \in Thread \ {t} : u \in Publishing' <=> u \in Publishing
  BY OthersWait DEF Publishing, At
<1>5. CASE Replace(t) /\ temp # 0
  <2>1. At(t, "meta")' /\ ~At(t, "meta")
    BY <1>5, GoMoves DEF Replace, At
  <2>2. Publishing' = Publishing \union {t} /\ t \notin Publishing
    BY <1>4, <2>1 DEF Publishing
  <2>3. Cardinality(Publishing') = Cardinality(Publishing) + 1 /\ IsFiniteSet(Publishing')
    BY <1>1, <2>2, FS_AddElement
  <2>4. stamps' = stamps /\ temp' = 0 /\ file' = file
    BY <1>5 DEF Replace
  <2> QED
    BY <1>1, <1>5, <2>3, <2>4 DEF Counted
<1>6. CASE WriteMeta(t) \/ (Crash(t) /\ At(t, "meta"))
  <2>1. ~At(t, "meta")' /\ At(t, "meta")
    BY <1>6, ReturnMoves, EndMoves DEF WriteMeta, Crash, At, NoRequest
  <2>2. Publishing' = Publishing \ {t} /\ t \in Publishing
    BY <1>4, <2>1 DEF Publishing
  <2>3. Cardinality(Publishing') = Cardinality(Publishing) - 1 /\ IsFiniteSet(Publishing')
    BY <1>1, <2>2, FS_RemoveElement
  <2>4. stamps' \in {stamps, stamps + 1} /\ temp' = temp /\ file' = file
    BY <1>6 DEF WriteMeta, Crash, names
  <2> QED
    BY <1>1, <2>3, <2>4 DEF Counted
<1>7. CASE ~(Replace(t) /\ temp # 0) /\ ~WriteMeta(t) /\ ~(Crash(t) /\ At(t, "meta"))
  <2>1. ~At(t, "meta")
    BY <1>7 DEF Step, At, Begin, Hit, Miss, Unlink, Sink, Write, Stats, Replace, Key, Scan,
       Publish, Run, Answer
  <2>2. ~At(t, "meta")'
    BY <1>7, Places, EndMoves DEF Replace, At, NoRequest
  <2>3. Publishing' = Publishing
    BY <1>4, <2>1, <2>2 DEF Publishing
  <2>4. stamps' = stamps
    BY <1>7 DEF Step, names, Begin, Hit, Miss, Unlink, Sink, Write, Stats, Replace, Key,
      Scan,
       Publish, Run, Answer, Crash
  <2>5. Len(file') \in Nat /\ named(temp') - named(temp) <= Len(file') - Len(file)
    <3>1. CASE Sink(t)
      <4>1. CASE temp = 0
        BY <3>1, <4>1, <1>1, TypeParts DEF Sink
      <4>2. CASE temp # 0
        BY <3>1, <4>2, <1>1, TypeParts DEF Sink
      <4> QED
        BY <4>1, <4>2
    <3>2. CASE Write(t)
      BY <3>2, <1>1, TypeParts DEF Write, names
    <3>3. CASE ~Sink(t) /\ ~Write(t)
      <4>1. file' = file /\ temp' \in {0, temp}
        BY <3>3 DEF Step, names, Begin, Hit, Miss, Unlink, Stats, Replace, WriteMeta, Key,
           Scan, Publish, Run, Answer, Crash
      <4> QED
        BY <4>1, <1>1
    <3> QED
      BY <3>1, <3>2, <3>3
  <2> QED
    BY <1>2, <2>3, <2>4, <2>5
<1> QED
  BY <1>5, <1>6, <1>7

\* Nobody else touches the files of a thread that builds alone.
LEMMA AloneKept == TypeOK /\ Alone /\ [Next]_vars => Alone'
<1> SUFFICES ASSUME TypeOK, Alone, [Next]_vars, ~overlapped' PROVE Alone'
  BY DEF Alone
<1> DEFINE Builds(t) == req[t].pc \in Building
<1>1. ~overlapped
  BY ByThread DEF vars, names, Step, EditRaw, Begin, Hit, Miss, Unlink, Sink, Write, Stats,
     Replace, WriteMeta, Key, Scan, Publish, Run, Answer, Crash
<1>2. /\ \A t, u \in Thread : Builds(t) /\ Builds(u) => t = u
      /\ \A t \in Thread : /\ At(t, "sink") => temp = 0
                           /\ At(t, "replace") => Readable(temp)
      /\ canonical # 0 => Readable(canonical)
  BY <1>1 DEF Alone
<1>3. /\ file \in Seq(File) /\ temp \in 0 .. Len(file) /\ canonical \in 0 .. Len(file)
      /\ Len(file) \in Nat
  BY TypeParts
<1>4. CASE UNCHANGED vars \/ EditRaw
  <2>1. UNCHANGED <<file, temp, canonical, req, overlapped>>
    BY <1>4 DEF vars, names, EditRaw
  <2> QED
    BY <1>2, <2>1 DEF Alone, At, Readable
<1> SUFFICES ASSUME NEW t \in Thread, Step(t) PROVE Alone'
  BY <1>4, ByThread
<1>5. \A u \in Thread \ {t} : req'[u] = req[u]
  BY OthersWait
<1>6. (req'[t].pc \in Building) => Builds(t) \/ Miss(t)
  <2>1. At(t, "replace")' => At(t, "stats")
    BY Places DEF Stats
  <2>2. At(t, "meta")' => At(t, "replace")
    BY Places DEF Replace
  <2> QED
    BY <2>1, <2>2, Places DEF Building, At, Unlink, Sink, Write
<1>7. Miss(t) => \A u \in Thread : ~Builds(u)
  BY DEF Miss
<1>8. \A r, u \in Thread : req'[r].pc \in Building /\ req'[u].pc \in Building => r = u
  BY <1>2, <1>5, <1>6, <1>7
<1>9. ~Builds(t) => UNCHANGED <<file, temp, canonical>>
  BY DEF Builds, Building, At, Step, names, Begin, Hit, Miss, Unlink, Sink, Write, Stats,
     Replace, WriteMeta, Key, Scan, Publish, Run, Answer, Crash
<1>10. ASSUME NEW u \in Thread
       PROVE  /\ At(u, "sink")' => temp' = 0
              /\ At(u, "replace")' => Readable(temp)'
  <2>1. CASE u = t
    <3>1. At(t, "sink")' => temp' = 0
      BY Places DEF Unlink
    <3>2. ASSUME At(t, "replace")' PROVE Readable(temp)'
      <4>1. Stats(t) /\ Go(t, "replace")
        BY <3>2, Places
      <4>2. req'[t] # NoRequest
        BY <3>2 DEF At, NoRequest
      <4>3. Readable(temp) /\ temp' = temp /\ file' = file
        BY <4>1, <4>2, EndMoves DEF Stats
      <4> QED
        BY <4>3 DEF Readable
    <3> QED
      BY <2>1, <3>1, <3>2
  <2>2. CASE u # t /\ req[u].pc \in {"sink", "replace"}
    <3>1. ~Builds(t)
      BY <1>2, <2>2 DEF Building
    <3> QED
      BY <1>2, <1>5, <1>9, <2>2, <3>1 DEF At, Readable
  <2> QED
    BY <1>5, <2>1, <2>2 DEF At
<1>11. canonical' # 0 => Readable(canonical)'
  <2>1. CASE Sink(t)
    <3>1. temp = 0
      BY <1>2, <2>1 DEF Sink
    <3>2. canonical' = canonical /\ \A i \in 1 .. Len(file) : file'[i] = file[i]
      BY <1>3, <2>1, <3>1 DEF Sink
    <3> QED
      BY <1>2, <1>3, <3>2 DEF Readable
  <2>2. CASE Write(t)
    <3>1. canonical' = canonical
      BY <2>2 DEF Write, names
    <3>2. \A i \in 1 .. Len(file) : file[i].state = "whole" => file'[i].state = "whole"
      <4> SUFFICES ASSUME NEW i \in 1 .. Len(file), file[i].state = "whole"
                   PROVE  file'[i].state = "whole"
        OBVIOUS
      <4>1. file[i] \in File
        BY <1>3
      <4> QED
        BY <1>3, <2>2, <4>1 DEF Write, File
    <3> QED
      BY <1>2, <1>3, <3>1, <3>2 DEF Readable
  <2>3. CASE Replace(t)
    <3>1. file' = file /\ (canonical' = canonical \/ canonical' = temp) /\ Readable(temp)
      BY <1>2, <2>3 DEF Replace
    <3> QED
      BY <1>2, <3>1 DEF Readable
  <2>4. CASE ~Sink(t) /\ ~Write(t) /\ ~Replace(t)
    <3>1. file' = file /\ canonical' \in {0, canonical}
      BY <2>4 DEF Step, names, Begin, Hit, Miss, Unlink, Stats, WriteMeta, Key, Scan,
        Publish,
         Run, Answer, Crash
    <3> QED
      BY <1>2, <3>1 DEF Readable
  <2> QED
    BY <2>1, <2>2, <2>3, <2>4
<1> QED
  BY <1>8, <1>10, <1>11 DEF Alone

\* What a request is answered with was current for it.
LEMMA AnswersKept == CachesInv /\ [Next]_vars => AnswersAreCurrent'
<1> SUFFICES ASSUME CachesInv, [Next]_vars, NEW u \in Thread, At(u, "served")',
                    req'[u].key # 0
             PROVE  req'[u].data >= req'[u].since
  BY DEF AnswersAreCurrent
<1> USE DEF CachesInv
<1>1. CASE req'[u] = req[u]
  BY <1>1 DEF AnswersAreCurrent, At
<1>2. CASE Step(u)
  <2>1. Run(u)
    BY <1>2, Places
  <2> QED
    BY <2>1, RunMoves DEF Run, Relied, Current, At
<1> QED
  BY <1>1, <1>2, ByThread, OthersWait DEF vars, EditRaw

\* The initial state has the invariant.
LEMMA CachesStart == Init => CachesInv
<1> SUFFICES ASSUME Init PROVE CachesInv
  OBVIOUS
<1>1. TypeOK
  BY TypesStart
<1>2. Publishing = {} /\ \A t \in Thread : req[t] = NoRequest
  BY DEF Init, Publishing, At, NoRequest
<1>3. Counted
  BY <1>2, FS_EmptySet DEF Init, Counted
<1> QED
  BY <1>1, <1>2, <1>3
    DEF Init, CachesInv, NoRequest, NoMeta, Building, OfThePast, Built, Signed,
     Relied, Unborn, Alone, AnswersAreCurrent, At

\* It is an invariant.
LEMMA CachesAlways == Spec => []CachesInv
<1>1. CachesInv /\ [Next]_vars => CachesInv'
  BY TypesKept, PastKept, BuiltKept, SignedKept, ReliedKept, UnbornKept, CountedKept,
     AloneKept, AnswersKept DEF CachesInv
<1> QED
  BY CachesStart, <1>1, PTL DEF Spec

----------------------------------------------------------------------------
(* The theorems.                                                            *)

\* The data set, the caches and the requests have their types.
THEOREM CachesTyped == Spec => []TypeOK
<1>1. CachesInv => TypeOK
  BY DEF CachesInv
<1> QED
  BY CachesAlways, <1>1, PTL

\* prepare, prepare_signals and the engine answer from CSV files no older than
\* the request, through whichever caches and whoever else fills them.
THEOREM BacktestsAreCurrent == Spec => []AnswersAreCurrent
<1>1. CachesInv => AnswersAreCurrent
  BY DEF CachesInv
<1> QED
  BY CachesAlways, <1>1, PTL

\* As long as no two threads build at once, what is taken for prepared can be
\* read, whichever of them were killed.
THEOREM PreparedCanBeRead == Spec => []PreparedIsReadable
<1>1. CachesInv => PreparedIsReadable
  BY DEF CachesInv, Alone, PreparedIsReadable
<1> QED
  BY CachesAlways, <1>1, PTL

\* A canonical file taken for current is never older than the signature that
\* its metadata carries.
THEOREM SignaturesAreCurrent == Spec => []SignatureIsCurrent
<1>1. CachesInv => SignatureIsCurrent
  BY DEF CachesInv, Signed, Current, HoldsAtLeast, UpToDate, SignatureIsCurrent
<1> QED
  BY CachesAlways, <1>1, PTL
=============================================================================
