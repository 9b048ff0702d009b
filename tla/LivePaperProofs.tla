-------------------------- MODULE LivePaperProofs --------------------------
(***************************************************************************)
(* A paper session: types, the tape of its bars, trades counted once and   *)
(* none skipped, for every timeframe, market, page size and bound.         *)
(***************************************************************************)
EXTENDS LivePaper, FiniteSetTheorems, WellFoundedInduction, TLAPS

----------------------------------------------------------------------------
(* Numbers.                                                                 *)

\* Less-than on the naturals is well-founded.
LEMMA LessIsWellFounded ==
  \E R : IsWellFoundedOn(R, Nat) /\ \A a, b \in Nat : a < b => <<a, b>> \in R
<1>1. IsWellFoundedOn(OpToRel(<, Nat), Nat)
  BY NatLessThanWellFounded
<1>2. \A a, b \in Nat : a < b => <<a, b>> \in OpToRel(<, Nat)
  BY DEF OpToRel
<1> QED
  BY <1>1, <1>2, Zenon

\* A set of naturals that is not empty has a least member.
LEMMA LeastNumber ==
  ASSUME NEW T \in SUBSET Nat, T # {}
  PROVE  \E x \in T : \A y \in T : x <= y
<1>1. PICK R : IsWellFoundedOn(R, Nat) /\ \A a, b \in Nat : a < b => <<a, b>> \in R
  BY LessIsWellFounded
<1>2. IsWellFoundedOn(R, Nat) /\ T \subseteq Nat /\ T # {}
  BY <1>1
<1>3. PICK x \in T : \A y \in T : ~(<<y, x>> \in R)
  BY <1>2, WFMin, Zenon
<1>4. \A y \in T : ~(y < x)
  BY <1>1, <1>3
<1> QED
  BY <1>4

\* So has a set of naturals with a bound a greatest one.
LEMMA GreatestNumber ==
  ASSUME NEW n \in Nat, NEW T \in SUBSET (0 .. n), T # {}
  PROVE  \E x \in T : \A y \in T : y <= x
<1> DEFINE U == {m \in Nat : \E x \in T : x = n - m}
<1>1. \A x \in T : n - x \in U
  OBVIOUS
<1>2. PICK m \in U : \A k \in U : m <= k
  BY <1>1, LeastNumber
<1>3. PICK x \in T : x = n - m
  BY <1>2
<1>4. \A y \in T : m <= n - y
  BY <1>1, <1>2
<1> QED
  BY <1>3, <1>4

\* A number is on the grid of the bars.
OnGrid(t) == \E q \in Nat : t = q * TF

\* The interval of a time begins on the grid, at or before it.
LEMMA BucketOnGrid ==
  ASSUME NEW t \in Nat
  PROVE  Bucket(t) \in Nat /\ OnGrid(Bucket(t)) /\ Bucket(t) <= t /\ t < Bucket(t) + TF
<1>1. TF \in Nat /\ 0 < TF
  BY TFAssumption
<1>2. t % TF \in 0 .. TF - 1 /\ t \div TF \in Nat
  BY <1>1
<1>3. (t % TF) + TF * (t \div TF) = t
  BY <1>1
<1>4. PICK q \in Nat, r \in 0 .. TF - 1 : q = t \div TF /\ r = t % TF
  BY <1>2
<1>5. Bucket(t) = q * TF /\ q * TF \in Nat /\ t = q * TF + r
  BY <1>1, <1>3, <1>4 DEF Bucket
<1> QED
  BY <1>1, <1>4, <1>5 DEF OnGrid

\* From one place of the grid to another is a number of intervals.
LEMMA GridSteps ==
  ASSUME NEW a \in Nat, NEW b \in Nat, OnGrid(a), OnGrid(b), a <= b
  PROVE  (b - a) \div TF \in Nat /\ b = a + ((b - a) \div TF) * TF
<1>1. TF \in Nat /\ 0 < TF
  BY TFAssumption
<1>2. PICK p \in Nat : a = p * TF
  BY DEF OnGrid
<1>3. PICK q \in Nat : b = q * TF
  BY DEF OnGrid
<1>4. PICK n \in Nat : n = b - a
  OBVIOUS
<1>5. n % TF \in 0 .. TF - 1 /\ n \div TF \in Nat
  BY <1>1
<1>6. (n % TF) + TF * (n \div TF) = n
  BY <1>1
<1>7. PICK d \in Nat, r \in 0 .. TF - 1 : d = n \div TF /\ r = n % TF
  BY <1>5
<1>8. TF * (q - p - d) = r
  <2>1. TF * (q - p - d) = q * TF - p * TF - TF * d
    BY <1>1
  <2>2. r + TF * d = n
    BY <1>6, <1>7
  <2>3. {q * TF, p * TF, TF * d} \subseteq Int
    BY <1>1, <1>7
  <2> QED
    BY <1>2, <1>3, <1>4, <1>7, <2>1, <2>2, <2>3
<1>9. q - p - d > 0 => TF * (q - p - d) >= TF
  BY <1>1
<1>10. q - p - d < 0 => TF * (q - p - d) <= -TF
  BY <1>1
<1>11. q - p = d
  BY <1>1, <1>7, <1>8, <1>9, <1>10
<1>12. q * TF = p * TF + d * TF
  BY <1>1, <1>11
<1> QED
  BY <1>2, <1>3, <1>4, <1>7, <1>12

----------------------------------------------------------------------------
(* Bars.                                                                    *)

\* A bar holds trades of its interval, each once and in their order.
Rising(bar) == \A m, n \in DOMAIN bar.trades : m < n => bar.trades[m] < bar.trades[n]
Sound(bar, times) ==
  /\ bar \in Bar /\ OnGrid(bar.ts) /\ Rising(bar)
  /\ \A id \in ToSet(bar.trades) : id \in DOMAIN times /\ Bucket(times[id]) = bar.ts

\* Moving to a later time closes the bar, and the empty ones after it.
LEMMA Advanced ==
  ASSUME NEW cur \in Bar, OnGrid(cur.ts), NEW t \in Nat
  PROVE  LET next == AdvanceTo(cur, t) IN
         /\ next.current \in Bar /\ next.closed \in Seq(Bar) /\ OnGrid(next.current.ts)
         /\ next.current.ts = cur.ts + Len(next.closed) * TF
         /\ next.current.ts >= cur.ts
         /\ Bucket(t) >= cur.ts => next.current.ts = Bucket(t)
         /\ next.closed = <<>> => next.current = cur
         /\ next.closed # <<>> => next.closed[1] = cur /\ next.current.trades = <<>>
         /\ \A k \in 2 .. Len(next.closed) :
              /\ next.closed[k].ts = cur.ts + (k - 1) * TF
              /\ next.closed[k].trades = <<>>
<1>1. TF \in Nat /\ 0 < TF
  BY TFAssumption
<1>2. cur.ts \in Nat /\ cur.close \in Nat /\ cur # NoBar
  BY DEF Bar, NoBar
<1>3. Bucket(t) \in Nat /\ OnGrid(Bucket(t))
  BY BucketOnGrid
<1>4. CASE Bucket(t) <= cur.ts
  <2>1. AdvanceTo(cur, t) = [current |-> cur, closed |-> <<>>]
    BY <1>4 DEF AdvanceTo
  <2> QED
    BY <1>1, <1>2, <1>3, <1>4, <2>1
<1>5. CASE ~(Bucket(t) <= cur.ts)
  <2> DEFINE n == (Bucket(t) - cur.ts) \div TF
             closed == ClosedUpTo(cur, Bucket(t))
             flat == FlatBar(Bucket(t), cur.close)
  <2>1. AdvanceTo(cur, t) = [current |-> flat, closed |-> closed]
    BY <1>2, <1>5 DEF AdvanceTo
  <2>2. n \in Nat /\ Bucket(t) = cur.ts + n * TF
    BY <1>2, <1>3, <1>5, GridSteps
  <2>3. n >= 1
    BY <1>1, <1>2, <1>3, <1>5, <2>2
  <2>4. closed = [i \in 1 .. n |->
                    IF i = 1 THEN cur ELSE FlatBar(cur.ts + (i - 1) * TF, cur.close)]
    BY DEF ClosedUpTo
  <2> HIDE DEF n, closed
  <2>5. \A i \in 1 .. n : (i - 1) * TF \in Nat
    BY <1>1, <2>2
  <2>6. \A i \in 1 .. n : cur.ts + (i - 1) * TF \in Nat
    BY <1>2, <2>5
  <2>7. \A i \in 1 .. n : FlatBar(cur.ts + (i - 1) * TF, cur.close) \in Bar
    BY <1>2, <2>6 DEF FlatBar, Bar
  <2>8. closed \in Seq(Bar) /\ Len(closed) = n /\ closed # <<>> /\ closed[1] = cur
    BY <2>2, <2>3, <2>4, <2>7
  <2>9. \A k \in 2 .. n : /\ closed[k].ts = cur.ts + (k - 1) * TF
                          /\ closed[k].trades = <<>>
    BY <2>2, <2>4 DEF FlatBar
  <2>10. flat \in Bar /\ flat.ts = Bucket(t) /\ flat.trades = <<>>
    BY <1>2, <1>3 DEF FlatBar, Bar
  <2> HIDE DEF flat
  <2> QED
    BY <1>2, <1>3, <1>5, <2>1, <2>2, <2>8, <2>9, <2>10
<1> QED
  BY <1>4, <1>5

\* Counting a later trade of its interval leaves a bar sound.
LEMMA CountedIsSound ==
  ASSUME NEW times \in Seq(Nat), NEW bar, Sound(bar, times), NEW id \in DOMAIN times,
         Bucket(times[id]) = bar.ts, \A i \in ToSet(bar.trades) : i < id
  PROVE  /\ Sound(Counted(bar, id), times) /\ Counted(bar, id).ts = bar.ts
         /\ ToSet(Counted(bar, id).trades) = ToSet(bar.trades) \cup {id}
<1>1. bar \in Bar /\ OnGrid(bar.ts) /\ id \in Nat /\ bar.trades \in Seq(Nat)
  BY DEF Sound, Bar
<1>2. Counted(bar, id) = [ts |-> bar.ts, trades |-> Append(bar.trades, id), close |-> id]
  BY DEF Counted
<1>3. Counted(bar, id) \in Bar
  BY <1>1, <1>2 DEF Bar
<1> DEFINE s == bar.trades
           t == Append(s, id)
<1>4. /\ s \in Seq(Nat) /\ Len(s) \in Nat /\ DOMAIN t = 1 .. Len(s) + 1
      /\ DOMAIN s = 1 .. Len(s)
      /\ t[Len(s) + 1] = id /\ \A k \in 1 .. Len(s) : t[k] = s[k]
  BY <1>1
<1>5. ToSet(t) = ToSet(s) \cup {id}
  <2> HIDE DEF s, t
  <2>1. ToSet(t) \subseteq ToSet(s) \cup {id}
    BY <1>4, SMTT(30) DEF ToSet
  <2>2. ToSet(s) \cup {id} \subseteq ToSet(t)
    <3>1. ASSUME NEW k \in DOMAIN s PROVE s[k] \in ToSet(t)
      <4>1. k \in DOMAIN t /\ t[k] = s[k]
        BY <1>4
      <4> QED
        BY <4>1 DEF ToSet
    <3>2. id \in ToSet(t)
      <4>1. Len(s) + 1 \in DOMAIN t
        BY <1>4
      <4> QED
        BY <1>4, <4>1 DEF ToSet
    <3> QED
      BY <3>1, <3>2 DEF ToSet
  <2> QED
    BY <2>1, <2>2
<1>6. ASSUME NEW m \in DOMAIN t, NEW n \in DOMAIN t, m < n PROVE t[m] < t[n]
  <2>1. m \in 1 .. Len(s) /\ t[m] = s[m]
    BY <1>4, <1>6
  <2>2. CASE n = Len(s) + 1
    BY <1>4, <2>1, <2>2 DEF ToSet
  <2>3. CASE n # Len(s) + 1
    <3>1. n \in 1 .. Len(s) /\ t[n] = s[n]
      BY <1>4, <1>6, <2>3
    <3>2. \A k, l \in DOMAIN s : k < l => s[k] < s[l]
      BY DEF Sound, Rising
    <3> QED
      BY <1>4, <1>6, <2>1, <3>1, <3>2
  <2> QED
    BY <2>2, <2>3
<1>7. Rising(Counted(bar, id))
  BY <1>2, <1>6 DEF Rising
<1> QED
  BY <1>1, <1>2, <1>3, <1>5, <1>7 DEF Sound

\* A bar without trades is sound anywhere on the grid.
LEMMA FlatIsSound ==
  ASSUME NEW times, NEW bar \in Bar, OnGrid(bar.ts), bar.trades = <<>>
  PROVE  Sound(bar, times) /\ ToSet(bar.trades) = {}
BY DEF Sound, Rising, ToSet

\* So does moving on: the current bar is the same or a new one.
LEMMA AdvancedIsSound ==
  ASSUME NEW times, NEW cur, Sound(cur, times), NEW t \in Nat
  PROVE  /\ Sound(AdvanceTo(cur, t).current, times)
         /\ ToSet(AdvanceTo(cur, t).current.trades) \subseteq ToSet(cur.trades)
<1>1. cur \in Bar /\ OnGrid(cur.ts)
  BY DEF Sound
<1>2. CASE AdvanceTo(cur, t).closed = <<>>
  BY <1>1, <1>2, Advanced
<1>3. CASE AdvanceTo(cur, t).closed # <<>>
  <2>1. /\ AdvanceTo(cur, t).current \in Bar /\ OnGrid(AdvanceTo(cur, t).current.ts)
        /\ AdvanceTo(cur, t).current.trades = <<>>
    BY <1>1, <1>3, Advanced
  <2> QED
    BY <2>1, FlatIsSound
<1> QED
  BY <1>2, <1>3

\* A trade after a bar began is late, or counted in the bar the session moves to.
LEMMA Added ==
  ASSUME NEW cur \in Bar, NEW id \in Nat, NEW t \in Nat
  PROVE  LET trade == TradeOf(id, t)
             moved == AdvanceTo(cur, t)
         IN /\ IsLate(cur, trade) <=> Bucket(t) < cur.ts
            /\ IsLate(cur, trade) =>
                 AddTrade(cur, trade) = [current |-> cur, closed |-> <<>>]
            /\ ~IsLate(cur, trade) =>
                 AddTrade(cur, trade) = [current |-> Counted(moved.current, id),
                                         closed |-> moved.closed]
<1>1. cur # NoBar
  BY DEF Bar, NoBar
<1>2. TradeOf(id, t).id = id /\ TradeOf(id, t).ts = t
  BY DEF TradeOf
<1>3. IsLate(cur, TradeOf(id, t)) <=> Bucket(t) < cur.ts
  BY <1>1, <1>2 DEF IsLate
<1>4. CASE Bucket(t) < cur.ts
  <2>1. AddTrade(cur, TradeOf(id, t)) = [current |-> cur, closed |-> <<>>]
    BY <1>1, <1>3, <1>4 DEF AddTrade
  <2> QED
    BY <1>3, <1>4, <2>1
<1>5. CASE ~(Bucket(t) < cur.ts)
  <2> DEFINE moved == AdvanceTo(cur, t)
  <2>1. moved = [current |-> moved.current, closed |-> moved.closed]
    BY DEF AdvanceTo
  <2>2. AddTrade(cur, TradeOf(id, t)) = [moved EXCEPT !.current = Counted(@, id)]
    BY <1>1, <1>2, <1>3, <1>5 DEF AddTrade
  <2> HIDE DEF moved
  <2>3. [moved EXCEPT !.current = Counted(@, id)]
          = [current |-> Counted(moved.current, id), closed |-> moved.closed]
    BY <2>1
  <2>4. AddTrade(cur, TradeOf(id, t))
          = [current |-> Counted(moved.current, id), closed |-> moved.closed]
    BY <2>2, <2>3
  <2> QED
    BY <1>3, <1>5, <2>4 DEF moved
<1> QED
  BY <1>4, <1>5

\* Adding a trade of the market that comes after those counted.
LEMMA AddedIsSound ==
  ASSUME NEW times \in Seq(Nat), NEW cur, Sound(cur, times) \/ cur = NoBar,
         NEW id \in DOMAIN times, cur # NoBar => \A i \in ToSet(cur.trades) : i < id
  PROVE  LET next == AddTrade(cur, TradeOf(id, times[id])) IN
         /\ Sound(next.current, times) /\ next.closed \in Seq(Bar)
         /\ \A i \in ToSet(next.current.trades) : i <= id
<1> DEFINE t == times[id]
           next == AddTrade(cur, TradeOf(id, t))
<1>1. id \in Nat /\ t \in Nat
  OBVIOUS
<1>2. Bucket(t) \in Nat /\ OnGrid(Bucket(t))
  BY <1>1, BucketOnGrid
<1>3. CASE cur = NoBar
  <2> DEFINE flat == FlatBar(Bucket(t), id)
  <2>1. next = [current |-> Counted(flat, id), closed |-> <<>>]
    BY <1>3 DEF AddTrade, TradeOf
  <2>2. flat \in Bar /\ flat.ts = Bucket(t) /\ flat.trades = <<>>
    BY <1>1, <1>2 DEF FlatBar, Bar
  <2>3. Sound(flat, times) /\ ToSet(flat.trades) = {}
    BY <1>2, <2>2, FlatIsSound
  <2>4. /\ Sound(Counted(flat, id), times)
        /\ ToSet(Counted(flat, id).trades) = ToSet(flat.trades) \cup {id}
    BY <2>2, <2>3, CountedIsSound
  <2> QED
    BY <1>1, <2>1, <2>3, <2>4
<1>4. CASE cur # NoBar
  <2>1. Sound(cur, times) /\ cur \in Bar /\ OnGrid(cur.ts)
    BY <1>4 DEF Sound
  <2>2. ToSet(cur.trades) \subseteq Nat
    BY <2>1 DEF Bar, ToSet
  <2>3. CASE IsLate(cur, TradeOf(id, t))
    <3>1. next = [current |-> cur, closed |-> <<>>]
      BY <1>1, <2>1, <2>3, Added
    <3> QED
      BY <1>1, <1>4, <2>1, <2>2, <3>1
  <2>4. CASE ~IsLate(cur, TradeOf(id, t))
    <3> DEFINE moved == AdvanceTo(cur, t)
    <3>1. next = [current |-> Counted(moved.current, id), closed |-> moved.closed]
      BY <1>1, <2>1, <2>4, Added
    <3>2. Bucket(t) >= cur.ts
      BY <1>1, <1>2, <2>1, <2>4, Added DEF Bar
    <3>3. moved.closed \in Seq(Bar) /\ moved.current.ts = Bucket(t)
      BY <1>1, <2>1, <3>2, Advanced
    <3>4. Sound(moved.current, times) /\ ToSet(moved.current.trades) \subseteq ToSet(cur.trades)
      BY <1>1, <2>1, AdvancedIsSound
    <3>5. \A i \in ToSet(moved.current.trades) : i < id
      BY <1>4, <3>4
    <3>6. /\ Sound(Counted(moved.current, id), times)
          /\ ToSet(Counted(moved.current, id).trades) = ToSet(moved.current.trades) \cup {id}
      BY <3>3, <3>4, <3>5, CountedIsSound
    <3> HIDE DEF moved, next
    <3> QED
      BY <1>1, <2>2, <3>1, <3>3, <3>4, <3>5, <3>6 DEF next
  <2> QED
    BY <2>3, <2>4
<1> QED
  BY <1>3, <1>4

----------------------------------------------------------------------------
(* aggregate_trades_to_bars.                                                *)

\* What has been built after each trade.
BuiltFrom(x, trade) ==
  LET next == AddTrade(x.current, trade)
  IN [current |-> next.current, closed |-> x.closed \o next.closed]
Nothing == [current |-> NoBar, closed |-> <<>>]
Builds(trades, n, f) ==
  f = [k \in 0 .. n |-> IF k = 0 THEN Nothing ELSE BuiltFrom(f[k - 1], trades[k])]

\* The recursion has a solution.
LEMMA SomeBuild ==
  ASSUME NEW trades, NEW n \in Nat
  PROVE  \E f : Builds(trades, n, f)
<1> DEFINE T == {m \in Nat : ~\E f : Builds(trades, m, f)}
<1> SUFFICES ASSUME T # {} PROVE FALSE
  OBVIOUS
<1>1. PICK m \in T : \A l \in T : m <= l
  BY LeastNumber
<1>2. Builds(trades, 0, [k \in 0 .. 0 |-> Nothing])
  BY DEF Builds
<1>3. m \in Nat /\ m # 0
  BY <1>1, <1>2
<1>4. PICK h : Builds(trades, m - 1, h)
  BY <1>1, <1>3
<1> DEFINE g == [k \in 0 .. m |-> IF k = 0 THEN Nothing ELSE BuiltFrom(h[k - 1], trades[k])]
<1>5. \A k \in 0 .. m - 1 : g[k] = h[k]
  BY <1>3, <1>4 DEF Builds
<1>6. \A k \in 0 .. m : k # 0 => g[k - 1] = h[k - 1]
  BY <1>3, <1>5, SMTT(30)
<1>7. g = [k \in 0 .. m |-> IF k = 0 THEN Nothing ELSE BuiltFrom(h[k - 1], trades[k])]
  OBVIOUS
<1> HIDE DEF g
<1>8. \A k \in 0 .. m : (IF k = 0 THEN Nothing ELSE BuiltFrom(h[k - 1], trades[k]))
                       = (IF k = 0 THEN Nothing ELSE BuiltFrom(g[k - 1], trades[k]))
  BY <1>6
<1>9. Builds(trades, m, g)
  BY <1>7, <1>8 DEF Builds
<1> QED
  BY <1>1, <1>9

\* The bars of trades are what has been built after the last, moved to the end.
LEMMA BarsUnfold ==
  ASSUME NEW trades, Len(trades) \in Nat, NEW end
  PROVE  \E f : /\ Builds(trades, Len(trades), f)
                /\ LET all == f[Len(trades)]
                   IN BarsOf(trades, end)
                        = [current |-> AdvanceTo(all.current, end).current,
                           closed |-> all.closed \o AdvanceTo(all.current, end).closed]
<1> DEFINE f == CHOOSE g : Builds(trades, Len(trades), g)
<1>1. Builds(trades, Len(trades), f)
  BY SomeBuild, Zenon
<1>2. f = CHOOSE g : g = [k \in 0 .. Len(trades) |->
            IF k = 0
            THEN [current |-> NoBar, closed |-> <<>>]
            ELSE LET before == g[k - 1]
                     next   == AddTrade(before.current, trades[k])
                 IN [current |-> next.current, closed |-> before.closed \o next.closed]]
  BY Zenon DEF Builds, BuiltFrom, Nothing
<1>3. BarsOf(trades, end)
        = [current |-> AdvanceTo(f[Len(trades)].current, end).current,
           closed |-> f[Len(trades)].closed \o AdvanceTo(f[Len(trades)].current, end).closed]
  <2> HIDE DEF f
  <2> QED
    BY <1>2, Zenon DEF BarsOf
<1> QED
  BY <1>1, <1>3, Zenon

\* Built trade by trade.
LEMMA BuildSteps ==
  ASSUME NEW trades, NEW n \in Nat, NEW f, Builds(trades, n, f)
  PROVE  /\ f[0] = Nothing
         /\ \A k \in 1 .. n : LET next == AddTrade(f[k - 1].current, trades[k]) IN
              f[k].current = next.current /\ f[k].closed = f[k - 1].closed \o next.closed
<1>1. f[0] = Nothing
  BY DEF Builds
<1>2. \A k \in 1 .. n : f[k] = BuiltFrom(f[k - 1], trades[k])
  BY DEF Builds
<1>3. ASSUME NEW x, NEW trade
      PROVE  /\ BuiltFrom(x, trade).current = AddTrade(x.current, trade).current
             /\ BuiltFrom(x, trade).closed = x.closed \o AddTrade(x.current, trade).closed
  BY Zenon DEF BuiltFrom
<1>4. ASSUME NEW k \in 1 .. n
      PROVE  LET next == AddTrade(f[k - 1].current, trades[k]) IN
             f[k].current = next.current /\ f[k].closed = f[k - 1].closed \o next.closed
  <2> DEFINE x == f[k - 1]
  <2>1. f[k] = BuiltFrom(x, trades[k])
    BY <1>2
  <2>2. /\ BuiltFrom(x, trades[k]).current = AddTrade(x.current, trades[k]).current
        /\ BuiltFrom(x, trades[k]).closed = x.closed \o AddTrade(x.current, trades[k]).closed
    BY <1>3
  <2> QED
    BY <2>1, <2>2, Zenon
<1> QED
  BY <1>1, <1>4, Zenon

\* Trades of a market, in order.
OfMarket(trades, times) ==
  /\ Len(trades) \in Nat
  /\ \A k \in 1 .. Len(trades) : \E id \in DOMAIN times : trades[k] = TradeOf(id, times[id])
  /\ \A j, k \in 1 .. Len(trades) : j < k => trades[j].id < trades[k].id

\* Bars built from them are bars, the last one sound.
LEMMA BarsOfMarket ==
  ASSUME NEW times \in Seq(Nat), NEW trades, OfMarket(trades, times), Len(trades) > 0,
         NEW end \in Nat
  PROVE  LET bars == BarsOf(trades, end) IN
         /\ bars.closed \in Seq(Bar) /\ Sound(bars.current, times)
         /\ \A i \in ToSet(bars.current.trades) : i <= trades[Len(trades)].id
<1> DEFINE n == Len(trades)
<1>1. n \in Nat /\ n > 0
  BY DEF OfMarket
<1>2. PICK f : /\ Builds(trades, n, f)
               /\ BarsOf(trades, end)
                    = [current |-> AdvanceTo(f[n].current, end).current,
                       closed |-> f[n].closed \o AdvanceTo(f[n].current, end).closed]
  BY <1>1, BarsUnfold
<1>0. /\ f[0] = Nothing
      /\ \A k \in 1 .. n : LET next == AddTrade(f[k - 1].current, trades[k]) IN
           f[k].current = next.current /\ f[k].closed = f[k - 1].closed \o next.closed
  <2> HIDE DEF n
  <2> QED
    BY <1>1, <1>2, BuildSteps
<1> DEFINE Good(k) ==
      /\ f[k].closed \in Seq(Bar)
      /\ k = 0 => f[k].current = NoBar
      /\ k > 0 => /\ Sound(f[k].current, times)
                  /\ \A i \in ToSet(f[k].current.trades) : i <= trades[k].id
<1>3. Good(0)
  BY <1>0 DEF Nothing
<1>4. ASSUME NEW k \in 1 .. n, Good(k - 1) PROVE Good(k)
  <2>1. PICK id \in DOMAIN times : trades[k] = TradeOf(id, times[id])
    BY DEF OfMarket
  <2>2. trades[k].id = id /\ id \in Nat
    BY <2>1 DEF TradeOf
  <2> DEFINE cur == f[k - 1].current
             next == AddTrade(cur, TradeOf(id, times[id]))
  <2>4. Sound(cur, times) \/ cur = NoBar
    BY <1>4
  <2>5. cur # NoBar => \A i \in ToSet(cur.trades) : i < id
    <3> SUFFICES ASSUME cur # NoBar, NEW i \in ToSet(cur.trades) PROVE i < id
      OBVIOUS
    <3>1. k - 1 > 0 /\ i <= trades[k - 1].id /\ Sound(cur, times)
      BY <1>4
    <3>2. trades[k - 1].id < trades[k].id
      BY <1>1, <3>1, SMTT(30) DEF OfMarket
    <3>3. PICK j \in DOMAIN times : trades[k - 1] = TradeOf(j, times[j])
      BY <1>1, <3>1 DEF OfMarket
    <3>4. trades[k - 1].id \in Nat
      BY <3>3 DEF TradeOf
    <3>5. i \in Nat
      BY <3>1 DEF Sound
    <3> QED
      BY <2>2, <3>1, <3>2, <3>4, <3>5
  <2>3. f[k].current = next.current /\ f[k].closed = f[k - 1].closed \o next.closed
    BY <1>0, <2>1
  <2> HIDE DEF cur
  <2>6. /\ Sound(next.current, times) /\ next.closed \in Seq(Bar)
        /\ \A i \in ToSet(next.current.trades) : i <= id
    BY <2>4, <2>5, AddedIsSound
  <2> HIDE DEF next
  <2>7. f[k - 1].closed \in Seq(Bar)
    BY <1>4
  <2>8. f[k].closed \in Seq(Bar)
    BY <2>3, <2>6, <2>7
  <2> QED
    BY <2>2, <2>3, <2>6, <2>8
<1>5. Good(n)
  <2> DEFINE T == {k \in 0 .. n : ~Good(k)}
  <2> HIDE DEF Good
  <2> SUFFICES ASSUME T # {} PROVE FALSE
    BY <1>1
  <2>1. T \in SUBSET Nat
    BY <1>1
  <2>2. PICK k \in T : \A l \in T : k <= l
    BY <2>1, LeastNumber
  <2>3. k \in 0 .. n /\ ~Good(k) /\ k # 0
    BY <1>3, <2>2
  <2>4. k \in 1 .. n /\ k - 1 \in 0 .. n /\ k - 1 < k
    BY <1>1, <2>3
  <2>5. Good(k - 1)
    BY <2>2, <2>4
  <2> QED
    BY <1>4, <2>3, <2>4, <2>5
<1> DEFINE all == f[n]
<1>6. /\ all.closed \in Seq(Bar) /\ Sound(all.current, times)
      /\ \A i \in ToSet(all.current.trades) : i <= trades[n].id
  BY <1>1, <1>5
<1> HIDE DEF all, Good, n
<1>7. /\ Sound(AdvanceTo(all.current, end).current, times)
      /\ ToSet(AdvanceTo(all.current, end).current.trades) \subseteq ToSet(all.current.trades)
  BY <1>6, AdvancedIsSound
<1>8. AdvanceTo(all.current, end).closed \in Seq(Bar)
  BY <1>6, Advanced DEF Sound
<1> QED
  BY <1>2, <1>6, <1>7, <1>8 DEF all, n

----------------------------------------------------------------------------
(* The history the exchange answers.                                        *)

\* Trades of an interval follow each other, and are answered in order.
LEMMA IntervalInOrder ==
  ASSUME NEW a \in Nat, NEW b \in Nat, a <= b
  PROVE  /\ InOrder(a .. b) = [k \in 1 .. b - a + 1 |-> a + k - 1]
         /\ InOrder(a .. b) \in Seq(Nat) /\ ToSet(InOrder(a .. b)) = a .. b
         /\ Min(a .. b) = a /\ Max(a .. b) = b
<1>1. Min(a .. b) = a
  <2>1. a \in a .. b /\ \A y \in a .. b : a <= y
    OBVIOUS
  <2>2. Min(a .. b) \in a .. b /\ \A y \in a .. b : Min(a .. b) <= y
    BY <2>1, Zenon DEF Min
  <2> QED
    BY <2>1, <2>2
<1>2. Max(a .. b) = b
  <2>1. b \in a .. b /\ \A y \in a .. b : b >= y
    OBVIOUS
  <2>2. Max(a .. b) \in a .. b /\ \A y \in a .. b : Max(a .. b) >= y
    BY <2>1, Zenon DEF Max
  <2> QED
    BY <2>1, <2>2
<1>3. Cardinality(a .. b) = b - a + 1
  BY FS_Interval
<1>4. InOrder(a .. b) = [k \in 1 .. b - a + 1 |-> a + k - 1]
  BY <1>1, <1>3 DEF InOrder
<1>5. InOrder(a .. b) \in Seq(Nat)
  BY <1>4
<1>6. ToSet(InOrder(a .. b)) = a .. b
  <2>1. ToSet(InOrder(a .. b)) \subseteq a .. b
    BY <1>4 DEF ToSet
  <2>2. ASSUME NEW i \in a .. b PROVE i \in ToSet(InOrder(a .. b))
    <3>1. i - a + 1 \in 1 .. b - a + 1 /\ a + (i - a + 1) - 1 = i
      OBVIOUS
    <3> QED
      BY <1>4, <3>1 DEF ToSet
  <2> QED
    BY <2>1, <2>2
<1> QED
  BY <1>1, <1>2, <1>4, <1>5, <1>6

\* The pages of a history read its oldest trades, all of them if they are few.
LEMMA OldestOfInterval ==
  ASSUME NEW a \in Nat, NEW b \in Nat, a <= b, NEW n \in Nat \ {0}
  PROVE  \E c \in a .. b : Oldest(a .. b, n) = a .. c /\ (b - a + 1 <= n => c = b)
<1>1. ASSUME NEW i \in a .. b PROVE Cardinality({j \in a .. b : j < i}) = i - a
  <2>1. {j \in a .. b : j < i} = a .. (i - 1)
    OBVIOUS
  <2>2. i - 1 \in Int
    OBVIOUS
  <2>3. Cardinality(a .. (i - 1)) = IF a > i - 1 THEN 0 ELSE (i - 1) - a + 1
    BY <2>2, FS_Interval
  <2>4. Cardinality({j \in a .. b : j < i}) = Cardinality(a .. (i - 1))
    BY <2>1, Zenon
  <2> QED
    BY <2>3, <2>4
<1>2. Oldest(a .. b, n) = {i \in a .. b : i - a < n}
  BY <1>1 DEF Oldest
<1> DEFINE c == IF b - a + 1 <= n THEN b ELSE a + n - 1
<1>3. c \in a .. b /\ {i \in a .. b : i - a < n} = a .. c
  OBVIOUS
<1> QED
  BY <1>2, <1>3

\* The clock is not behind the exchange, whose trades follow each other.
Timely ==
  /\ Len(market) >= 1
  /\ \A i \in Ids : market[i] <= now
  /\ \A i, j \in Ids : i < j => market[i] <= market[j]

\* The constants.
LEMMA Parameters ==
  /\ Required \in Nat /\ Required >= 2 /\ TF \in Nat \ {0}
  /\ MaxTime \in Nat /\ MaxTrades \in Nat /\ SnapshotSize \in Nat /\ MaxPerSecond \in Nat
  /\ PageSize \in Nat \ {0} /\ MaxPages \in Nat \ {0}
  /\ \A s \in Sources : s = "trades" \/ s = "candles"
BY LiveAssumption, TFAssumption

\* Types of the market.
LEMMA MarketTypes ==
  ASSUME TypeOK
  PROVE  /\ market \in Seq(Nat) /\ now \in Nat
         /\ Len(market) \in Nat /\ Ids = 1 .. Len(market) /\ Ids = DOMAIN market
         /\ \A i \in Ids : market[i] \in Nat /\ i \in Nat
<1>1. market \in Seq(0 .. MaxTime) /\ now \in 0 .. MaxTime
  BY DEF TypeOK
<1>2. MaxTime \in Nat
  BY LiveAssumption
<1>3. market \in Seq(Nat)
  BY <1>1, <1>2
<1> QED
  BY <1>1, <1>2, <1>3 DEF Ids

\* Types of what a bootstrap reads.
LEMMA BootTypes ==
  ASSUME TypeOK
  PROVE  /\ asked \in Nat /\ pages \in 0 .. MaxPages
         /\ source = "trades" \/ source = "candles"
         /\ db \in [Buckets -> Bar \union {NoBar}]
<1>1. asked \in 0 .. MaxTime /\ pages \in 0 .. MaxPages /\ source \in Sources
      /\ db \in [Buckets -> Bar \union {NoBar}]
  BY DEF TypeOK
<1> QED
  BY <1>1, Parameters

\* The trades of a time span are an interval.
LEMMA AvailableInterval ==
  ASSUME TypeOK, Timely, NEW from \in Int, NEW upto \in Int, Available(from, upto) # {}
  PROVE  \E a, b \in Ids : a <= b /\ Available(from, upto) = a .. b
<1> DEFINE S == Available(from, upto)
<1>1. Len(market) \in Nat /\ \A i \in Ids : market[i] \in Nat
  BY MarketTypes
<1>2. S \subseteq Ids /\ S \in SUBSET Nat /\ S \in SUBSET (0 .. Len(market))
  BY <1>1 DEF Available, Ids
<1>3. PICK a \in S : \A i \in S : a <= i
  BY <1>2, LeastNumber
<1>4. PICK b \in S : \A i \in S : i <= b
  BY <1>1, <1>2, GreatestNumber
<1>5. S \subseteq a .. b
  BY <1>2, <1>3, <1>4
<1>6. ASSUME NEW i \in a .. b PROVE i \in S
  <2>1. i \in Ids /\ a \in Ids /\ b \in Ids
    BY <1>1, <1>2 DEF Ids
  <2>2. market[a] <= market[i] /\ market[i] <= market[b]
    BY <1>1, <2>1 DEF Timely
  <2>3. from <= market[a] /\ market[b] < upto
    BY DEF Available
  <2> QED
    BY <1>1, <2>1, <2>2, <2>3 DEF Available
<1> HIDE DEF S
<1>7. S = a .. b /\ a \in Ids /\ b \in Ids /\ a <= b
  BY <1>2, <1>3, <1>5, <1>6
<1> QED
  BY <1>7 DEF S

\* A number of pages is read.
LEMMA SomePages ==
  ASSUME NEW ids, NEW upto
  PROVE  PagesRead(ids, upto) \in 1 .. MaxPages
<1> DEFINE enough == {k \in 1 .. MaxPages : \/ IsRecent(Oldest(ids, k * PageSize), upto)
                                            \/ k = MaxPages
                                            \/ (k - 1) * PageSize >= Cardinality(ids)}
<1>1. MaxPages \in Nat \ {0}
  BY LiveAssumption
<1>2. MaxPages \in enough /\ enough \in SUBSET Nat /\ enough \subseteq 1 .. MaxPages
  BY <1>1
<1> HIDE DEF enough
<1>3. \E k \in enough : \A j \in enough : k <= j
  BY <1>2, LeastNumber
<1>4. (CHOOSE k \in enough : \A j \in enough : k <= j) \in enough
  BY <1>3, Zenon
<1>5. PagesRead(ids, upto) = CHOOSE k \in enough : \A j \in enough : k <= j
  BY DEF PagesRead, enough
<1> QED
  BY <1>2, <1>4, <1>5

\* What is fetched is an interval of trades that were available: all of them,
\* if they are no more than a page.
LEMMA Fetched ==
  ASSUME TypeOK, Timely, NEW from \in Int, NEW upto \in Int
  PROVE  LET h == Fetch(from, upto) IN
         /\ h.pages \in 1 .. MaxPages
         /\ h.ids \subseteq Available(from, upto)
         /\ h.ids # {} => \E a, b \in Ids : a <= b /\ h.ids = a .. b
         /\ Cardinality(Available(from, upto)) <= PageSize => h.ids = Available(from, upto)
<1> DEFINE S == Available(from, upto)
           p == PagesRead(S, upto)
           h == Fetch(from, upto)
<1>1. h.pages = p /\ h.ids = Oldest(S, p * PageSize)
  BY DEF Fetch
<1>2. p \in 1 .. MaxPages
  BY SomePages
<1>3. PageSize \in Nat \ {0} /\ MaxPages \in Nat
  BY LiveAssumption
<1>4. p * PageSize \in Nat \ {0} /\ PageSize <= p * PageSize
  BY <1>2, <1>3
<1> HIDE DEF p, h
<1>5. Oldest(S, p * PageSize) \subseteq S
  BY DEF Oldest
<1>6. CASE S = {}
  BY <1>1, <1>2, <1>5, <1>6 DEF h
<1>7. CASE S # {}
  <2>1. PICK a, b \in Ids : a <= b /\ S = a .. b
    BY <1>7, AvailableInterval
  <2>2. a \in Nat /\ b \in Nat /\ \A c \in a .. b : c \in Ids
    BY <2>1, MarketTypes
  <2>3. PICK c \in a .. b : /\ Oldest(a .. b, p * PageSize) = a .. c
                            /\ b - a + 1 <= p * PageSize => c = b
    <3> DEFINE n == p * PageSize
    <3>1. n \in Nat \ {0}
      BY <1>4
    <3> HIDE DEF n
    <3>2. \E c \in a .. b : Oldest(a .. b, n) = a .. c /\ (b - a + 1 <= n => c = b)
      BY <2>1, <2>2, <3>1, OldestOfInterval
    <3> QED
      BY <3>2 DEF n
  <2>4. Cardinality(S) = b - a + 1
    BY <2>1, <2>2, FS_Interval
  <2>5. h.ids = a .. c /\ a <= c /\ c \in Ids
    BY <1>1, <2>1, <2>2, <2>3
  <2>6. Cardinality(S) <= PageSize => h.ids = S
    BY <1>3, <1>4, <2>1, <2>2, <2>3, <2>4, <2>5
  <2> QED
    BY <1>1, <1>2, <1>5, <2>5, <2>6 DEF h
<1> QED
  BY <1>6, <1>7

----------------------------------------------------------------------------
(* What a session starts with.                                              *)

\* The intervals of a run's time are numbers up to its end.
LEMMA BucketNumbers == Buckets \subseteq 0 .. MaxTime
<1>1. MaxTime \in Nat
  BY LiveAssumption
<1>2. \A t \in 0 .. MaxTime : Bucket(t) \in 0 .. MaxTime
  BY <1>1, BucketOnGrid
<1> QED
  BY <1>2 DEF Buckets

\* The newest stored bar.
LEMMA NewestStored ==
  ASSUME TypeOK, Stored # {}
  PROVE  Max(Stored) \in Stored /\ Max(Stored) \in Nat /\ db[Max(Stored)] \in Bar
<1>1. MaxTime \in Nat
  BY LiveAssumption
<1>2. Stored \subseteq 0 .. MaxTime
  BY BucketNumbers DEF Stored
<1>3. \E x \in Stored : \A y \in Stored : y <= x
  BY <1>1, <1>2, GreatestNumber
<1>4. \E x \in Stored : \A y \in Stored : x >= y
  BY <1>2, <1>3
<1>5. Max(Stored) \in Stored
  BY <1>4, Zenon DEF Max
<1>6. db \in [Buckets -> Bar \union {NoBar}]
  BY DEF TypeOK
<1>7. db[Max(Stored)] \in Bar
  BY <1>5, <1>6 DEF Stored
<1>8. Max(Stored) \in 0 .. MaxTime
  BY <1>2, <1>5
<1> QED
  BY <1>1, <1>5, <1>7, <1>8

\* The bars of an interval of the exchange's trades.
LEMMA BarsOfInterval ==
  ASSUME TypeOK, NEW a \in Ids, NEW b \in Ids, a <= b, NEW end \in Nat, NEW trades,
         trades = [k \in 1 .. b - a + 1 |-> Trade(a + k - 1)]
  PROVE  LET bars == BarsOf(trades, end) IN
         /\ bars.closed \in Seq(Bar) /\ bars.current \in Bar /\ Sound(bars.current, market)
         /\ \A i \in ToSet(bars.current.trades) : i <= b
<1>1. /\ market \in Seq(Nat) /\ Ids = 1 .. Len(market) /\ Ids = DOMAIN market
      /\ Len(market) \in Nat /\ a \in Nat /\ b \in Nat
  BY MarketTypes
<1>0. \A i, t : TradeOf(i, t).id = i
  BY DEF TradeOf
<1>2. Len(trades) = b - a + 1 /\ Len(trades) \in Nat /\ Len(trades) > 0
  BY <1>1
<1>3. \A k \in 1 .. Len(trades) : a + k - 1 \in Ids
  BY <1>1, <1>2
<1>4. \A k \in 1 .. Len(trades) : trades[k] = TradeOf(a + k - 1, market[a + k - 1])
  BY <1>2 DEF Trade
<1>5. \A k \in 1 .. Len(trades) : trades[k].id = a + k - 1
  BY <1>0, <1>4
<1>6. OfMarket(trades, market)
  <2>1. \A k \in 1 .. Len(trades) : \E id \in DOMAIN market : trades[k] = TradeOf(id, market[id])
    BY <1>1, <1>3, <1>4
  <2>2. ASSUME NEW j \in 1 .. Len(trades), NEW k \in 1 .. Len(trades), j < k
        PROVE  trades[j].id < trades[k].id
    <3>1. trades[j].id = a + j - 1 /\ trades[k].id = a + k - 1
      BY <1>5
    <3> QED
      BY <1>1, <1>2, <2>2, <3>1
  <2> QED
    BY <1>2, <2>1, <2>2 DEF OfMarket
<1>7. trades[Len(trades)].id = b
  <2>1. PICK n \in Nat : n = b - a + 1
    BY <1>1
  <2>2. n \in 1 .. Len(trades) /\ Len(trades) = n
    BY <1>1, <1>2, <2>1
  <2>3. trades[n].id = a + n - 1
    BY <1>5, <2>2, Zenon
  <2>4. a + n - 1 = b
    BY <1>1, <2>1
  <2>5. trades[Len(trades)].id = trades[n].id
    BY <2>2, Zenon
  <2> QED
    BY <2>3, <2>4, <2>5, Zenon
<1>8. /\ BarsOf(trades, end).closed \in Seq(Bar)
      /\ Sound(BarsOf(trades, end).current, market)
      /\ \A i \in ToSet(BarsOf(trades, end).current.trades) : i <= trades[Len(trades)].id
  BY <1>1, <1>2, <1>6, BarsOfMarket
<1> QED
  BY <1>7, <1>8 DEF Sound

\* A session that may start: its bars, the one it goes on with and the last
\* trade it knows of, none if the exchange has sent candles.
Startable(completed, current, id) ==
  /\ completed \subseteq Bar /\ current \in Bar /\ Sound(current, market)
  /\ id \in 0 .. Len(market)
  /\ id # 0 => source = "trades" /\ \A i \in ToSet(current.trades) : i <= id
  /\ id = 0 => source = "candles" \/ current.trades = <<>>

\* The newest of some bars are some of them.
LEMMA NewestAreBars ==
  ASSUME NEW bars, bars \subseteq Bar, NEW n
  PROVE  Newest(bars, n) \subseteq Bar
BY DEF Newest

\* A bootstrap starts a session or refuses it.
LEMMA BootSteps ==
  ASSUME TypeOK, Timely, Bootstrap
  PROVE  /\ pages' \in 0 .. MaxPages
         /\ \/ \E why \in {"page limit", "too few bars", "no trades"} : Refuse(why)
            \/ \E completed, current, id : /\ Boot(completed, current, id)
                                           /\ Startable(completed, current, id)
<1>1. /\ market \in Seq(Nat) /\ now \in Nat /\ Len(market) \in Nat /\ Ids = 1 .. Len(market)
      /\ Ids = DOMAIN market
  BY MarketTypes
<1>2. asked \in Nat /\ pages \in 0 .. MaxPages /\ (source = "trades" \/ source = "candles")
  BY BootTypes
<1>3. \A b \in Stored : db[b] \in Bar
  BY BootTypes DEF Stored
<1>4. CASE source = "candles"
  <2>1. BootFromCandles /\ pages' = pages
    BY <1>4 DEF Bootstrap
  <2> DEFINE trades == [i \in Ids |-> Trade(i)]
             candles == BarsOf(trades, now)
  <2>2. trades = [k \in 1 .. Len(market) - 1 + 1 |-> Trade(1 + k - 1)]
    BY <1>1
  <2>3. 1 \in Ids /\ Len(market) \in Ids /\ 1 <= Len(market)
    BY <1>1 DEF Timely
  <2> HIDE DEF trades
  <2>4. candles.closed \in Seq(Bar) /\ candles.current \in Bar /\ Sound(candles.current, market)
    BY <1>1, <2>2, <2>3, BarsOfInterval
  <2>5. FetchOhlc = candles
    BY DEF FetchOhlc, trades
  <2> HIDE DEF candles
  <2> DEFINE completed == Newest(ToSet(candles.closed), Required)
  <2>6. ToSet(candles.closed) \subseteq Bar
    BY <2>4 DEF ToSet
  <2>7. completed \subseteq Bar
    BY <2>6, NewestAreBars
  <2>8. Refuse("too few bars") \/ Boot(completed, candles.current, 0)
    BY <2>1, <2>5 DEF BootFromCandles
  <2> HIDE DEF completed
  <2>9. Startable(completed, candles.current, 0)
    BY <1>1, <1>4, <2>4, <2>7 DEF Startable
  <2> QED
    BY <1>2, <2>1, <2>8, <2>9
<1>5. CASE source = "trades"
  <2> DEFINE history == Fetch(FetchStart, asked)
  <2>1. /\ pages' = history.pages
        /\ IF history.ids = {} THEN BootFromStored ELSE BootFromTrades(history)
    BY <1>5 DEF Bootstrap
  <2>2. FetchStart \in Int
    <3>1. TF \in Nat \ {0} /\ Lookback \in Int
      BY Parameters DEF Lookback
    <3>2. Stored # {} => Max(Stored) \in Nat
      BY NewestStored
    <3> QED
      BY <1>2, <3>1, <3>2 DEF FetchStart
  <2>3. /\ history.pages \in 1 .. MaxPages
        /\ history.ids # {} => \E a, b \in Ids : a <= b /\ history.ids = a .. b
    <3>1. asked \in Int
      BY <1>2
    <3> QED
      BY <2>2, <3>1, Fetched, Zenon
  <2>6. pages' \in 0 .. MaxPages
    BY <2>1, <2>3, Parameters
  <2> HIDE DEF history
  <2>4. CASE history.ids = {}
    <3> DEFINE bars == {db[b] : b \in Stored}
               completed == Newest(bars, Required)
               current == FlatBar(Bucket(asked), db[Max(Stored)].close)
    <3>1. \/ Refuse("no trades")
          \/ Cardinality(bars) >= Required /\ Boot(completed, current, 0)
      BY <2>1, <2>4 DEF BootFromStored
    <3>2. ASSUME Cardinality(bars) >= Required PROVE Startable(completed, current, 0)
      <4>1. bars # {}
        BY <3>2, FS_EmptySet, Parameters
      <4>2. Stored # {}
        BY <4>1
      <4>3. db[Max(Stored)].close \in Nat
        BY <4>2, NewestStored DEF Bar
      <4>4. Bucket(asked) \in Nat /\ OnGrid(Bucket(asked))
        BY <1>2, BucketOnGrid
      <4>5. current \in Bar /\ current.ts = Bucket(asked) /\ current.trades = <<>>
        BY <4>3, <4>4 DEF FlatBar, Bar
      <4>6. Sound(current, market)
        BY <4>4, <4>5, FlatIsSound
      <4>7. completed \subseteq Bar
        BY <1>3, NewestAreBars
      <4> HIDE DEF completed, current
      <4> QED
        BY <1>1, <4>5, <4>6, <4>7 DEF Startable
    <3>3. Refuse("no trades") \/ (/\ Boot(completed, current, 0)
                                  /\ Startable(completed, current, 0))
      BY <3>1, <3>2
    <3> HIDE DEF completed, current
    <3>4. "no trades" \in {"page limit", "too few bars", "no trades"}
      OBVIOUS
    <3> QED
      BY <2>6, <3>3, <3>4, Zenon
  <2>5. CASE history.ids # {}
    <3>1. PICK a, b \in Ids : a <= b /\ history.ids = a .. b
      BY <2>3, <2>5
    <3> DEFINE ids == InOrder(history.ids)
               trades == [k \in DOMAIN ids |-> Trade(ids[k])]
               built == BarsOf(trades, asked)
               fetched == {built.closed[k] : k \in DOMAIN built.closed}
               older == {db[c] : c \in {d \in Stored : d < built.current.ts
                                                       /\ \A f \in fetched : f.ts # d}}
               completed == Newest(fetched \union older, Required)
    <3>2. a \in Nat /\ b \in Nat
      BY <1>1
    <3>3. ids = [k \in 1 .. b - a + 1 |-> a + k - 1] /\ Max(history.ids) = b
      BY <3>1, <3>2, IntervalInOrder
    <3> HIDE DEF ids
    <3>4. trades = [k \in 1 .. b - a + 1 |-> Trade(a + k - 1)]
      BY <3>3
    <3> HIDE DEF trades
    <3>5. /\ built.closed \in Seq(Bar) /\ built.current \in Bar /\ Sound(built.current, market)
          /\ \A i \in ToSet(built.current.trades) : i <= b
      BY <1>2, <3>1, <3>4, BarsOfInterval
    <3>6. Refuse("page limit") \/ Refuse("too few bars") \/ Boot(completed, built.current, b)
      BY <2>1, <2>5, <3>3, Zenon DEF BootFromTrades, trades, ids
    <3> HIDE DEF built
    <3>7. fetched \subseteq Bar /\ older \subseteq Bar
      BY <1>3, <3>5
    <3>8. completed \subseteq Bar
      BY <3>7, NewestAreBars
    <3> HIDE DEF completed
    <3>9. b \in 0 .. Len(market) /\ b # 0
      BY <1>1
    <3>10. Startable(completed, built.current, b)
      BY <1>5, <3>5, <3>8, <3>9 DEF Startable
    <3>11. {"page limit", "too few bars"} \subseteq {"page limit", "too few bars", "no trades"}
      OBVIOUS
    <3> QED
      BY <2>6, <3>6, <3>10, <3>11, Zenon
  <2> QED
    BY <2>4, <2>5
<1> QED
  BY <1>2, <1>4, <1>5
----------------------------------------------------------------------------
(* The bars of a session.                                                   *)

\* Bars without a hole, from a time on, with the trades in their order.
Chained(bars, start, times) ==
  /\ \A k \in 1 .. Len(bars) : Sound(bars[k], times) /\ bars[k].ts = start + (k - 1) * TF
  /\ \A j, k \in 1 .. Len(bars) : j < k =>
       \A a \in ToSet(bars[j].trades), b \in ToSet(bars[k].trades) : a < b

\* The bars of a session, one by one.
LEMMA BarsInOrder ==
  ASSUME NEW closed \in Seq(Bar), NEW waiting \in Seq(Bar), NEW cur \in Bar
  PROVE  LET bars == Append(closed \o waiting, cur) IN
         /\ bars \in Seq(Bar) /\ Len(bars) = Len(closed) + Len(waiting) + 1
         /\ \A k \in 1 .. Len(closed) : bars[k] = closed[k]
         /\ \A k \in 1 .. Len(waiting) : bars[Len(closed) + k] = waiting[k]
         /\ bars[Len(closed) + Len(waiting) + 1] = cur
<1> DEFINE both == closed \o waiting
<1>1. /\ both \in Seq(Bar) /\ Len(both) = Len(closed) + Len(waiting)
      /\ \A k \in 1 .. Len(closed) : both[k] = closed[k]
      /\ \A k \in 1 .. Len(waiting) : both[Len(closed) + k] = waiting[k]
  OBVIOUS
<1> HIDE DEF both
<1>2. /\ Append(both, cur) \in Seq(Bar) /\ Len(Append(both, cur)) = Len(both) + 1
      /\ \A k \in 1 .. Len(both) : Append(both, cur)[k] = both[k]
      /\ Append(both, cur)[Len(both) + 1] = cur
  BY <1>1
<1>3. Len(closed) \in Nat /\ Len(waiting) \in Nat
  OBVIOUS
<1> QED
  BY <1>1, <1>2, <1>3 DEF both

\* More trades at the exchange leave a chain a chain.
LEMMA ChainKept ==
  ASSUME NEW times \in Seq(Nat), NEW t \in Nat, NEW bars, NEW start,
         Chained(bars, start, times)
  PROVE  Chained(bars, start, Append(times, t))
<1>1. \A i \in DOMAIN times : i \in DOMAIN Append(times, t) /\ Append(times, t)[i] = times[i]
  OBVIOUS
<1>2. ASSUME NEW bar, Sound(bar, times) PROVE Sound(bar, Append(times, t))
  BY <1>1, <1>2 DEF Sound
<1> QED
  BY <1>2 DEF Chained

\* So do empty bars that follow it.
LEMMA ChainGrows ==
  ASSUME NEW times, NEW start \in Nat, NEW bars \in Seq(Bar), Chained(bars, start, times),
         OnGrid(start), NEW more \in Seq(Bar), Len(bars) <= Len(more),
         \A k \in 1 .. Len(bars) : more[k] = bars[k],
         \A k \in 1 .. Len(more) : k > Len(bars) =>
           more[k].trades = <<>> /\ more[k].ts = start + (k - 1) * TF
  PROVE  Chained(more, start, times) /\ TradesIn(more) = TradesIn(bars)
<1>1. TF \in Nat /\ Len(bars) \in Nat /\ Len(more) \in Nat
  BY TFAssumption
<1>2. PICK q \in Nat : start = q * TF
  BY DEF OnGrid
<1>3. ASSUME NEW k \in 1 .. Len(more), k > Len(bars)
      PROVE  Sound(more[k], times) /\ ToSet(more[k].trades) = {}
  <2>1. more[k] \in Bar
    OBVIOUS
  <2>2. q + (k - 1) \in Nat /\ more[k].ts = (q + (k - 1)) * TF
    BY <1>1, <1>2, <1>3
  <2>3. OnGrid(more[k].ts)
    BY <2>2 DEF OnGrid
  <2> QED
    BY <1>3, <2>1, <2>3, FlatIsSound
<1>4. \A k \in 1 .. Len(more) : k > Len(bars) \/ k \in 1 .. Len(bars)
  BY <1>1
<1>5. \A k \in 1 .. Len(more) : Sound(more[k], times) /\ more[k].ts = start + (k - 1) * TF
  BY <1>3, <1>4 DEF Chained
<1>6. ASSUME NEW j \in 1 .. Len(more), NEW k \in 1 .. Len(more), j < k,
             NEW a \in ToSet(more[j].trades), NEW b \in ToSet(more[k].trades)
      PROVE  a < b
  <2>1. j \in 1 .. Len(bars) /\ k \in 1 .. Len(bars)
    BY <1>3, <1>4
  <2> QED
    BY <1>6, <2>1 DEF Chained
<1>7. TradesIn(more) = TradesIn(bars)
  <2>1. DOMAIN more = 1 .. Len(more) /\ DOMAIN bars = 1 .. Len(bars)
    OBVIOUS
  <2>2. TradesIn(more) \subseteq TradesIn(bars)
    BY <1>3, <1>4, <2>1 DEF TradesIn
  <2>3. \A k \in DOMAIN bars : k \in DOMAIN more
    BY <1>1, <2>1
  <2>4. TradesIn(bars) \subseteq TradesIn(more)
    BY <2>1, <2>3 DEF TradesIn
  <2> QED
    BY <2>2, <2>4
<1> QED
  BY <1>5, <1>6, <1>7 DEF Chained

\* The bars after moving on to a time.
MovedBars(closed, cur, t) ==
  Append(closed \o AdvanceTo(cur, t).closed, AdvanceTo(cur, t).current)

\* Moving on closes the current bar and leaves the chain a chain.
LEMMA ChainMoves ==
  ASSUME NEW times, NEW start \in Nat, NEW closed \in Seq(Bar), NEW cur \in Bar,
         Chained(Append(closed, cur), start, times), OnGrid(start), NEW t \in Nat
  PROVE  /\ Chained(MovedBars(closed, cur, t), start, times)
         /\ TradesIn(MovedBars(closed, cur, t)) = TradesIn(Append(closed, cur))
<1> DEFINE next == AdvanceTo(cur, t)
           n == Len(closed)
           m == Len(next.closed)
           before == Append(closed, cur)
           bars == Append(closed \o next.closed, next.current)
<1>1. TF \in Nat
  BY TFAssumption
<1>2. /\ n \in Nat /\ before \in Seq(Bar) /\ Len(before) = n + 1 /\ before[n + 1] = cur
      /\ \A k \in 1 .. n : before[k] = closed[k]
  OBVIOUS
<1> HIDE DEF before
<1>3. cur.ts = start + n * TF /\ OnGrid(cur.ts)
  <2>1. PICK k \in 1 .. Len(before) : k = n + 1
    BY <1>2
  <2>2. Sound(before[k], times) /\ before[k].ts = start + (k - 1) * TF
    BY DEF Chained, before
  <2>3. before[k] = cur
    BY <1>2, <2>1
  <2> QED
    BY <1>2, <2>1, <2>2, <2>3 DEF Sound
<1>4. /\ next.current \in Bar /\ next.closed \in Seq(Bar)
      /\ next.current.ts = cur.ts + m * TF
      /\ next.closed = <<>> => next.current = cur
      /\ next.closed # <<>> => next.closed[1] = cur /\ next.current.trades = <<>>
      /\ \A k \in 2 .. m : /\ next.closed[k].ts = cur.ts + (k - 1) * TF
                           /\ next.closed[k].trades = <<>>
  BY <1>3, Advanced
<1> HIDE DEF next
<1>5. /\ bars \in Seq(Bar) /\ Len(bars) = n + m + 1 /\ bars[n + m + 1] = next.current
      /\ \A k \in 1 .. n : bars[k] = closed[k]
      /\ \A k \in 1 .. m : bars[n + k] = next.closed[k]
  BY <1>4, BarsInOrder
<1>6. m \in Nat
  BY <1>4
<1>7. CASE next.closed = <<>>
  <2>1. bars = before
    BY <1>4, <1>7 DEF before
  <2> QED
    BY <1>2, <1>5, <2>1 DEF next, before, MovedBars
<1>8. CASE next.closed # <<>>
  <2>1. m >= 1
    BY <1>4, <1>6, <1>8
  <2> HIDE DEF bars, n, m
  <2>2. Len(before) <= Len(bars)
    BY <1>2, <1>5, <1>6
  <2>3. ASSUME NEW k \in 1 .. Len(before) PROVE bars[k] = before[k]
    <3>1. CASE k = n + 1
      <4>1. bars[n + 1] = next.closed[1]
        BY <1>5, <1>6, <2>1
      <4> QED
        BY <1>2, <1>4, <1>8, <3>1, <4>1
    <3>2. CASE k # n + 1
      BY <1>2, <1>5, <3>2
    <3> QED
      BY <3>1, <3>2
  <2>4. ASSUME NEW k \in 1 .. Len(bars), k > Len(before)
        PROVE  bars[k].trades = <<>> /\ bars[k].ts = start + (k - 1) * TF
    <3>1. PICK i \in 2 .. m + 1 : k = n + i
      BY <1>2, <1>5, <1>6, <2>4
    <3>2. start + (k - 1) * TF = cur.ts + (i - 1) * TF
      BY <1>1, <1>2, <1>3, <1>6, <3>1
    <3>3. CASE i = m + 1
      BY <1>2, <1>4, <1>5, <1>6, <1>8, <3>1, <3>2, <3>3
    <3>4. CASE i # m + 1
      <4>1. i \in 2 .. m /\ i \in 1 .. m
        BY <1>6, <3>1, <3>4
      <4>2. bars[k] = next.closed[i]
        BY <1>5, <3>1, <4>1
      <4> QED
        BY <1>4, <3>2, <4>1, <4>2
    <3> QED
      BY <3>3, <3>4
  <2>5. Chained(bars, start, times) /\ TradesIn(bars) = TradesIn(before)
    <3>1. Chained(before, start, times)
      BY DEF before
    <3> QED
      BY <1>2, <1>5, <2>2, <2>3, <2>4, <3>1, ChainGrows
  <2> QED
    BY <2>5 DEF bars, before, next, MovedBars
<1> QED
  BY <1>7, <1>8

\* Counting a later trade in the last bar leaves the chain a chain.
LEMMA ChainCounts ==
  ASSUME NEW times \in Seq(Nat), NEW start \in Nat, NEW closed \in Seq(Bar), NEW cur \in Bar,
         Chained(Append(closed, cur), start, times), NEW id \in DOMAIN times,
         Bucket(times[id]) = cur.ts, \A i \in TradesIn(Append(closed, cur)) : i < id
  PROVE  /\ Chained(Append(closed, Counted(cur, id)), start, times)
         /\ TradesIn(Append(closed, Counted(cur, id)))
              = TradesIn(Append(closed, cur)) \union {id}
         /\ Counted(cur, id) \in Bar
<1> DEFINE n == Len(closed)
           one == Counted(cur, id)
           before == Append(closed, cur)
           bars == Append(closed, one)
<1>1. /\ n \in Nat /\ Len(before) = n + 1 /\ before[n + 1] = cur
      /\ DOMAIN before = 1 .. n + 1
      /\ \A k \in 1 .. n : before[k] = closed[k]
  OBVIOUS
<1> HIDE DEF before
<1>2. Sound(cur, times) /\ cur.ts = start + (n + 1 - 1) * TF
  <2>1. n + 1 \in 1 .. Len(before)
    BY <1>1
  <2> QED
    BY <1>1, <2>1, SMTT(30) DEF Chained, before
<1>3. ASSUME NEW k \in 1 .. n + 1 PROVE ToSet(before[k].trades) \subseteq TradesIn(before)
  BY <1>1 DEF TradesIn
<1>4. \A i \in ToSet(cur.trades) : i < id
  <2>1. n + 1 \in 1 .. n + 1
    BY <1>1
  <2> QED
    BY <1>1, <1>3, <2>1 DEF before
<1>5. Sound(one, times) /\ one.ts = cur.ts /\ ToSet(one.trades) = ToSet(cur.trades) \cup {id}
  BY <1>2, <1>4, CountedIsSound
<1>6. one \in Bar
  BY <1>5 DEF Sound
<1> HIDE DEF one
<1>7. /\ Len(bars) = n + 1 /\ bars[n + 1] = one /\ DOMAIN bars = 1 .. n + 1
      /\ \A k \in 1 .. n : bars[k] = closed[k]
  BY <1>6
<1> HIDE DEF bars, n
<1>8. \A k \in 1 .. n + 1 : k = n + 1 \/ k \in 1 .. n
  BY <1>1
<1>9. Chained(before, start, times)
  BY DEF before
<1>10. ASSUME NEW k \in 1 .. Len(bars)
       PROVE  Sound(bars[k], times) /\ bars[k].ts = start + (k - 1) * TF
  <2>1. CASE k = n + 1
    <3>1. bars[k] = one
      BY <1>7, <2>1
    <3>2. n + 1 - 1 = k - 1
      BY <1>1, <2>1
    <3>3. one.ts = start + (k - 1) * TF
      BY <1>2, <1>5, <3>2, Zenon
    <3> QED
      BY <1>5, <3>1, <3>3
  <2>2. CASE k \in 1 .. n
    <3>1. bars[k] = before[k] /\ k \in 1 .. Len(before)
      BY <1>1, <1>7, <2>2
    <3> QED
      BY <1>9, <3>1 DEF Chained
  <2> QED
    BY <1>7, <1>8, <2>1, <2>2
<1>11. ASSUME NEW j \in 1 .. Len(bars), NEW k \in 1 .. Len(bars), j < k,
              NEW a \in ToSet(bars[j].trades), NEW b \in ToSet(bars[k].trades)
       PROVE  a < b
  <2>1. j \in 1 .. n /\ bars[j] = before[j] /\ j \in 1 .. Len(before)
    BY <1>1, <1>7, <1>11
  <2>2. CASE k \in 1 .. n
    <3>1. bars[k] = before[k] /\ k \in 1 .. Len(before)
      BY <1>1, <1>7, <2>2
    <3> QED
      BY <1>9, <1>11, <2>1, <3>1 DEF Chained
  <2>3. CASE k = n + 1
    <3>1. b \in ToSet(cur.trades) \/ b = id
      BY <1>5, <1>7, <2>3
    <3>2. CASE b = id
      BY <1>1, <1>3, <2>1, <3>2 DEF before
    <3>3. CASE b \in ToSet(cur.trades)
      <4>1. before[k] = cur /\ k \in 1 .. Len(before)
        BY <1>1, <2>3
      <4> QED
        BY <1>9, <1>11, <2>1, <3>3, <4>1 DEF Chained
    <3> QED
      BY <3>1, <3>2, <3>3
  <2> QED
    BY <1>7, <1>8, <2>2, <2>3
<1>12. TradesIn(bars) = TradesIn(before) \cup {id}
  <2>1. n + 1 \in 1 .. n + 1
    BY <1>1
  <2>2. \A k \in 1 .. n + 1 : ToSet(bars[k].trades) \subseteq ToSet(before[k].trades) \cup {id}
    BY <1>1, <1>5, <1>7, <1>8
  <2>3. \A k \in 1 .. n + 1 : ToSet(before[k].trades) \subseteq ToSet(bars[k].trades)
    BY <1>1, <1>5, <1>7, <1>8
  <2>4. id \in ToSet(bars[n + 1].trades)
    BY <1>5, <1>7
  <2>5. TradesIn(bars) \subseteq TradesIn(before) \cup {id}
    BY <1>1, <1>7, <2>2 DEF TradesIn
  <2>6. TradesIn(before) \subseteq TradesIn(bars)
    BY <1>1, <1>7, <2>3 DEF TradesIn
  <2>7. id \in TradesIn(bars)
    BY <1>7, <2>1, <2>4 DEF TradesIn
  <2> QED
    BY <2>5, <2>6, <2>7
<1>13. Chained(bars, start, times)
  BY <1>10, <1>11 DEF Chained
<1> QED
  BY <1>6, <1>12, <1>13 DEF bars, before, one
----------------------------------------------------------------------------
(* The invariant.                                                           *)

Messages == [kind : {"trade"}, id : Nat] \union [kind : {"quote"}, ts : Nat]

\* Trades on their way to the session.
InboxIds == {inbox[k].id : k \in {l \in DOMAIN inbox : inbox[l].kind = "trade"}}

\* Only a running session is connected, and what is sent to it, what it has
\* asked for and what it has seen are trades of the exchange.
Delivered ==
  /\ up => Running
  /\ ~up => inbox = <<>>
  /\ InboxIds \subseteq Ids /\ ToSet(batch) \subseteq Ids
  /\ lastId <= Len(market)

\* Where the task waits says whether it has bars to handle.
Places ==
  /\ at \in {"read", "connected"} <=> todo = <<>>
  /\ batch # <<>> => lastId # 0 /\ source = "trades"

\* The bars of the running session follow each other.
Taped == Running => Chained(SessionBars, since, market)

\* What was counted is not counted again: it is at or before the last trade
\* seen, or before what is on its way to a session that has seen none.
Seen ==
  Running => \A id \in TradesIn(SessionBars) :
    id <= lastId \/ (source = "candles" /\ lastId = 0 /\ \A i \in InboxIds : id < i)

LiveInv == TypeOK /\ Timely /\ Delivered /\ Places /\ Taped /\ Seen

\* Types of a session.
LEMMA SessionTypes ==
  ASSUME TypeOK
  PROVE  /\ live \in Seq(Bar) /\ todo \in Seq(Bar) /\ batch \in Seq(Nat)
         /\ inbox \in Seq(Messages) /\ agg \in Bar \union {NoBar}
         /\ lastId \in Nat /\ since \in Nat /\ first \in Nat /\ late \subseteq Nat
         /\ at \in {"read", "connected", "bar", "decided", "account"}
         /\ up \in BOOLEAN
BY DEF TypeOK, Messages

\* The bars of a session that has none to handle.
LEMMA ReadingBars ==
  ASSUME LiveInv, Running, at \in {"read", "connected"}
  PROVE  /\ todo = <<>> /\ SessionBars = Append(live, agg) /\ agg \in Bar
         /\ Sound(agg, market) /\ agg.ts = since + Len(live) * TF
         /\ OnGrid(since) /\ Chained(Append(live, agg), since, market)
<1>1. todo = <<>>
  BY DEF LiveInv, Places
<1>2. live \in Seq(Bar)
  BY SessionTypes DEF LiveInv
<1>3. live \o <<>> = live
  BY <1>2
<1>4. SessionBars = Append(live, agg)
  BY <1>1, <1>3 DEF SessionBars, Waiting
<1> DEFINE bars == Append(live, agg)
<1>5. Chained(bars, since, market)
  BY <1>4 DEF LiveInv, Taped
<1>6. /\ Len(live) \in Nat /\ Len(bars) = Len(live) + 1 /\ bars[Len(live) + 1] = agg
  BY <1>2
<1> HIDE DEF bars
<1>7. PICK n \in 1 .. Len(bars) : n = Len(live) + 1
  BY <1>6
<1>8. Sound(bars[n], market) /\ bars[n].ts = since + (n - 1) * TF
  BY <1>5 DEF Chained
<1>9. Sound(agg, market) /\ agg.ts = since + Len(live) * TF
  <2>1. bars[n] = agg /\ n - 1 = Len(live)
    BY <1>6, <1>7
  <2> QED
    BY <1>8, <2>1
<1>10. OnGrid(since)
  <2>1. 1 \in 1 .. Len(bars)
    BY <1>6
  <2>2. Sound(bars[1], market) /\ bars[1].ts = since + (1 - 1) * TF
    BY <1>5, <2>1 DEF Chained
  <2>3. since \in Nat /\ TF \in Nat
    BY SessionTypes, Parameters DEF LiveInv
  <2>4. since + (1 - 1) * TF = since
    BY <2>3
  <2> QED
    BY <2>2, <2>4 DEF Sound
<1> QED
  BY <1>1, <1>4, <1>5, <1>9, <1>10 DEF Sound, bars

\* Handling the clock moves the bars on.
LEMMA ClockHandled ==
  ASSUME LiveInv, Reading, NEW t \in Nat, HandleClock(t), live' = live
  PROVE  /\ agg' \in Bar /\ todo' \in Seq(Bar)
         /\ UNCHANGED <<lastId, since, first, late>>
         /\ at' \in {"read", "bar"} /\ (at' = "read" <=> todo' = <<>>)
         /\ Chained(SessionBars', since, market)
         /\ TradesIn(SessionBars') = TradesIn(SessionBars)
<1> DEFINE next == AdvanceTo(agg, t)
           bars == Append(live \o next.closed, next.current)
<1>1. /\ SessionBars = Append(live, agg) /\ agg \in Bar /\ OnGrid(agg.ts)
      /\ OnGrid(since) /\ Chained(Append(live, agg), since, market)
  BY ReadingBars DEF Reading, Sound
<1>2. live \in Seq(Bar) /\ since \in Nat
  BY SessionTypes DEF LiveInv
<1>3. next.current \in Bar /\ next.closed \in Seq(Bar)
  BY <1>1, Advanced
<1>4. Chained(bars, since, market) /\ TradesIn(bars) = TradesIn(Append(live, agg))
  <2>1. agg \in Bar /\ OnGrid(since) /\ Chained(Append(live, agg), since, market)
    BY <1>1
  <2>2. /\ Chained(MovedBars(live, agg, t), since, market)
        /\ TradesIn(MovedBars(live, agg, t)) = TradesIn(Append(live, agg))
    BY <1>2, <2>1, ChainMoves
  <2> QED
    BY <2>2 DEF MovedBars
<1> HIDE DEF next
<1>5. agg' = next.current /\ todo' = next.closed
      /\ at' = (IF next.closed = <<>> THEN "read" ELSE "bar")
      /\ UNCHANGED <<lastId, since, first, late>>
  BY DEF HandleClock, Aggregate, next
<1>6. SessionBars' = bars
  BY <1>5 DEF SessionBars, Waiting
<1> QED
  BY <1>1, <1>3, <1>4, <1>5, <1>6

\* Handling a trade counts it, unless it was seen or its bar is closed.
LEMMA TradeHandled ==
  ASSUME LiveInv, Reading, NEW i \in Ids, HandleTrade(i), live' = live,
         i \in InboxIds \/ lastId # 0
  PROVE  /\ agg' \in Bar /\ todo' \in Seq(Bar)
         /\ UNCHANGED since
         /\ at' \in {"read", "bar"} /\ (at' = "read" <=> todo' = <<>>)
         /\ Chained(SessionBars', since, market)
         /\ TradesIn(SessionBars) \subseteq TradesIn(SessionBars')
         /\ \/ /\ i <= lastId /\ UNCHANGED <<lastId, first, late>>
               /\ TradesIn(SessionBars') = TradesIn(SessionBars)
            \/ /\ i > lastId /\ lastId' = i /\ first' = (IF first = 0 THEN i ELSE first)
               /\ late \subseteq late' /\ late' \subseteq late \union {i}
               /\ i \in late' \union TradesIn(SessionBars')
               /\ \A id \in TradesIn(SessionBars') : id <= i
<1>1. /\ todo = <<>> /\ SessionBars = Append(live, agg) /\ agg \in Bar /\ Sound(agg, market)
      /\ OnGrid(since) /\ Chained(Append(live, agg), since, market) /\ OnGrid(agg.ts)
  BY ReadingBars DEF Reading, Sound
<1>2. live \in Seq(Bar) /\ since \in Nat /\ late \subseteq Nat /\ lastId \in Nat /\ agg.ts \in Nat
  BY <1>1, SessionTypes DEF LiveInv, Bar
<1>3. market \in Seq(Nat) /\ i \in DOMAIN market /\ market[i] \in Nat /\ i \in Nat
  BY MarketTypes DEF LiveInv
<1>4. CASE i <= lastId
  <2>1. UNCHANGED <<book, at, todo>>
    BY <1>4 DEF HandleTrade
  <2>2. SessionBars' = SessionBars
    BY <2>1 DEF SessionBars, Waiting, book
  <2> QED
    BY <1>1, <1>4, <2>1, <2>2 DEF book, Reading
<1>5. CASE ~(i <= lastId)
  <2> DEFINE next == AddTrade(agg, Trade(i))
             bars == Append(live \o next.closed, next.current)
             old == Append(live, agg)
  <2>1. /\ lastId' = i /\ since' = since
        /\ first' = (IF first = 0 THEN i ELSE first)
        /\ late' = IF IsLate(agg, Trade(i)) THEN late \union {i} ELSE late
        /\ Aggregate(next)
    BY <1>5 DEF HandleTrade
  <2>2. \A id \in TradesIn(old) : id \in Nat /\ id < i
    <3> SUFFICES ASSUME NEW id \in TradesIn(old) PROVE id \in Nat /\ id < i
      OBVIOUS
    <3>1. Running
      BY DEF Reading
    <3>2. id <= lastId \/ (lastId = 0 /\ \A j \in InboxIds : id < j)
      BY <1>1, <3>1 DEF LiveInv, Seen
    <3>3. id \in Nat
      <4>1. PICK k \in DOMAIN old : id \in ToSet(old[k].trades)
        BY DEF TradesIn
      <4>2. k \in 1 .. Len(old) /\ Sound(old[k], market)
        BY <1>1, <1>2, <4>1 DEF Chained
      <4>3. id \in DOMAIN market
        BY <4>1, <4>2 DEF Sound
      <4> QED
        BY <1>3, <4>3
    <3> QED
      BY <1>2, <1>3, <1>5, <3>2, <3>3
  <2>3. /\ next.current \in Bar /\ next.closed \in Seq(Bar) /\ Chained(bars, since, market)
        /\ TradesIn(old) \subseteq TradesIn(bars) /\ TradesIn(bars) \subseteq TradesIn(old) \cup {i}
        /\ IsLate(agg, Trade(i)) \/ i \in TradesIn(bars)
    <3>1. CASE IsLate(agg, Trade(i))
      <4>1. next = [current |-> agg, closed |-> <<>>]
        BY <1>1, <1>3, <3>1, Added DEF Trade
      <4> HIDE DEF next
      <4>2. bars = old
        BY <1>2, <4>1
      <4> QED
        BY <1>1, <3>1, <4>1, <4>2
    <3>2. CASE ~IsLate(agg, Trade(i))
      <4> DEFINE moved == AdvanceTo(agg, market[i])
                 open == Append(live \o moved.closed, moved.current)
      <4>1. next = [current |-> Counted(moved.current, i), closed |-> moved.closed]
        BY <1>1, <1>3, <3>2, Added DEF Trade
      <4>2. Bucket(market[i]) >= agg.ts
        <5>1. Bucket(market[i]) \in Nat
          BY <1>3, BucketOnGrid
        <5>2. ~(Bucket(market[i]) < agg.ts)
          BY <1>1, <1>3, <3>2, Added DEF Trade
        <5> QED
          BY <1>2, <5>1, <5>2
      <4>3. moved.closed \in Seq(Bar) /\ moved.current \in Bar
            /\ moved.current.ts = Bucket(market[i])
        BY <1>1, <1>3, <4>2, Advanced
      <4>4. Chained(open, since, market) /\ TradesIn(open) = TradesIn(old)
        <5>1. /\ Chained(MovedBars(live, agg, market[i]), since, market)
              /\ TradesIn(MovedBars(live, agg, market[i])) = TradesIn(Append(live, agg))
          BY <1>1, <1>2, <1>3, ChainMoves
        <5> QED
          BY <5>1 DEF MovedBars
      <4> HIDE DEF moved, next
      <4>5. live \o moved.closed \in Seq(Bar)
        BY <1>2, <4>3
      <4>6. /\ Chained(Append(live \o moved.closed, Counted(moved.current, i)), since, market)
            /\ TradesIn(Append(live \o moved.closed, Counted(moved.current, i)))
                 = TradesIn(open) \cup {i}
            /\ Counted(moved.current, i) \in Bar
        <5>1. \A id \in TradesIn(open) : id < i
          BY <2>2, <4>4
        <5> HIDE DEF old
        <5> QED
          BY <1>2, <1>3, <4>3, <4>4, <4>5, <5>1, ChainCounts
      <4>7. bars = Append(live \o moved.closed, Counted(moved.current, i))
        BY <4>1
      <4> HIDE DEF old, open
      <4> QED
        BY <4>1, <4>3, <4>4, <4>6, <4>7
    <3> QED
      BY <3>1, <3>2
  <2> HIDE DEF next
  <2>4. agg' = next.current /\ todo' = next.closed
        /\ at' = (IF next.closed = <<>> THEN "read" ELSE "bar")
    BY <2>1 DEF Aggregate
  <2>5. SessionBars' = bars
    BY <2>4 DEF SessionBars, Waiting
  <2>6. /\ late \subseteq late' /\ late' \subseteq late \union {i}
        /\ i \in late' \union TradesIn(bars)
    BY <2>1, <2>3
  <2>7. \A id \in TradesIn(bars) : id <= i
    BY <1>3, <2>2, <2>3
  <2> HIDE DEF bars, old
  <2> QED
    BY <1>1, <1>2, <1>3, <1>5, <2>1, <2>3, <2>4, <2>5, <2>6, <2>7, SMTT(30) DEF old
<1> QED
  BY <1>4, <1>5
\* What is received next is a message; reading it leaves the others.
LEMMA InboxRead ==
  ASSUME TypeOK, inbox # <<>>, inbox' = Tail(inbox)
  PROVE  /\ Head(inbox) \in Messages /\ inbox' \in Seq(Messages)
         /\ InboxIds' \subseteq InboxIds
         /\ Head(inbox).kind = "trade" => Head(inbox).id \in InboxIds
<1>1. inbox \in Seq(Messages)
  BY SessionTypes
<1>2. /\ Head(inbox) \in Messages /\ inbox' \in Seq(Messages) /\ Head(inbox) = inbox[1]
      /\ Len(inbox) \in Nat /\ DOMAIN inbox = 1 .. Len(inbox) /\ Len(inbox) >= 1
      /\ DOMAIN inbox' = 1 .. Len(inbox) - 1
      /\ \A k \in 1 .. Len(inbox) - 1 : inbox'[k] = inbox[k + 1]
  BY <1>1
<1>3. \A k \in 1 .. Len(inbox) - 1 : k + 1 \in DOMAIN inbox
  BY <1>2
<1>4. InboxIds' \subseteq InboxIds
  BY <1>2, <1>3 DEF InboxIds
<1> QED
  BY <1>2, <1>4 DEF InboxIds

\* What is sent is received last, if the session is connected.
LEMMA InboxSent ==
  ASSUME TypeOK, NEW msg \in Messages, Send(msg)
  PROVE  /\ inbox' \in Seq(Messages)
         /\ ~up => inbox' = inbox
         /\ up => InboxIds' = InboxIds \cup (IF msg.kind = "trade" THEN {msg.id} ELSE {})
<1>1. inbox \in Seq(Messages) /\ up \in BOOLEAN
  BY SessionTypes
<1>2. CASE up
  <2>1. inbox' = Append(inbox, msg)
    BY <1>2 DEF Send
  <2> DEFINE n == Len(inbox)
  <2>2. /\ inbox' \in Seq(Messages) /\ DOMAIN inbox' = 1 .. n + 1 /\ n \in Nat
        /\ DOMAIN inbox = 1 .. n /\ inbox'[n + 1] = msg
        /\ \A k \in 1 .. n : inbox'[k] = inbox[k]
    BY <1>1, <2>1
  <2> HIDE DEF n
  <2>3. (\A k \in 1 .. n + 1 : k = n + 1 \/ k \in 1 .. n) /\ (\A k \in 1 .. n : k \in 1 .. n + 1)
        /\ n + 1 \in 1 .. n + 1
    BY <2>2
  <2>4. InboxIds' \subseteq InboxIds \cup (IF msg.kind = "trade" THEN {msg.id} ELSE {})
    BY <2>2, <2>3 DEF InboxIds
  <2>5. InboxIds \subseteq InboxIds'
    BY <2>2, <2>3 DEF InboxIds
  <2>6. msg.kind = "trade" => msg.id \in InboxIds'
    BY <2>2, <2>3 DEF InboxIds
  <2> QED
    BY <1>2, <2>2, <2>4, <2>5, <2>6
<1>3. CASE ~up
  BY <1>1, <1>3 DEF Send
<1> QED
  BY <1>2, <1>3

\* The last trades of the exchange, in order.
Replay(ids) == [k \in DOMAIN InOrder(ids) |-> TradeMsg(InOrder(ids)[k])]
Latest == {i \in Ids : i + SnapshotSize > Len(market)}

\* A connection replays the latest trades in their order.
LEMMA Replayed ==
  ASSUME TypeOK, Timely, inbox' = Replay(Latest)
  PROVE  /\ inbox' \in Seq(Messages) /\ InboxIds' = Latest
         /\ \A k \in DOMAIN inbox' : inbox'[k].kind = "trade"
         /\ \A k, l \in DOMAIN inbox' : k < l => inbox'[k].id < inbox'[l].id
<1>1. Len(market) \in Nat /\ SnapshotSize \in Nat /\ Ids = 1 .. Len(market)
  BY MarketTypes, Parameters
<1>2. CASE Latest = {}
  <2>1. Cardinality(Latest) = 0
    BY <1>2, FS_EmptySet
  <2>2. DOMAIN InOrder(Latest) = {}
    BY <2>1 DEF InOrder
  <2>3. inbox' = <<>>
    BY <2>2 DEF Replay
  <2>4. DOMAIN inbox' = {} /\ inbox' \in Seq(Messages)
    BY <2>3
  <2>5. InboxIds' = {}
    BY <2>4 DEF InboxIds
  <2> QED
    BY <1>2, <2>4, <2>5
<1>3. CASE Latest # {}
  <2> DEFINE a == IF SnapshotSize >= Len(market) THEN 1 ELSE Len(market) - SnapshotSize + 1
             b == Len(market)
  <2>1. a \in Nat /\ b \in Nat /\ a <= b /\ Latest = a .. b
    <3>1. PICK i \in Ids : i + SnapshotSize > Len(market)
      BY <1>3 DEF Latest
    <3>2. a \in Nat /\ b \in Nat /\ a <= b /\ a >= 1
      BY <1>1, <3>1
    <3>3. \A j \in Ids : j + SnapshotSize > Len(market) <=> j >= a
      BY <1>1
    <3>4. Latest = a .. b
      BY <1>1, <3>2, <3>3 DEF Latest
    <3> QED
      BY <3>2, <3>4
  <2> HIDE DEF a, b
  <2>2. InOrder(Latest) = [k \in 1 .. b - a + 1 |-> a + k - 1] /\ ToSet(InOrder(Latest)) = Latest
    BY <2>1, IntervalInOrder
  <2>3. inbox' = [k \in 1 .. b - a + 1 |-> TradeMsg(a + k - 1)]
    BY <2>2 DEF Replay
  <2>4. \A i \in Nat : TradeMsg(i) \in Messages /\ TradeMsg(i).kind = "trade" /\ TradeMsg(i).id = i
    BY DEF TradeMsg, Messages
  <2>5. b - a + 1 \in Nat /\ \A k \in 1 .. b - a + 1 : a + k - 1 \in Nat
    BY <2>1
  <2>6. inbox' \in Seq(Messages) /\ DOMAIN inbox' = 1 .. b - a + 1
    BY <2>3, <2>4, <2>5
  <2>7. \A k \in DOMAIN inbox' : inbox'[k].kind = "trade" /\ inbox'[k].id = a + k - 1
    BY <2>3, <2>4, <2>5
  <2>8. InboxIds' = {a + k - 1 : k \in 1 .. b - a + 1}
    BY <2>6, <2>7 DEF InboxIds
  <2>9. {a + k - 1 : k \in 1 .. b - a + 1} = a .. b
    <3>1. \A j \in a .. b : j - a + 1 \in 1 .. b - a + 1 /\ a + (j - a + 1) - 1 = j
      BY <2>1
    <3>2. \A k \in 1 .. b - a + 1 : a + k - 1 \in a .. b
      BY <2>1
    <3>3. a .. b \subseteq {a + k - 1 : k \in 1 .. b - a + 1}
      BY <3>1
    <3>4. {a + k - 1 : k \in 1 .. b - a + 1} \subseteq a .. b
      BY <3>2
    <3> QED
      BY <3>3, <3>4
  <2>10. \A k, l \in DOMAIN inbox' : k < l => inbox'[k].id < inbox'[l].id
    BY <2>1, <2>6, <2>7
  <2> QED
    BY <2>1, <2>6, <2>7, <2>8, <2>9, <2>10
<1> QED
  BY <1>2, <1>3

\* What a catch-up asks for is trades of the exchange, in order.
LEMMA CaughtUp ==
  ASSUME TypeOK, Timely, lastId \in Ids
  PROVE  LET ids == Fetch(CatchUpFrom, now).ids IN
         /\ CatchUpFrom \in Nat
         /\ InOrder(ids) \in Seq(Nat) /\ ToSet(InOrder(ids)) = ids /\ ids \subseteq Ids
         /\ ids # {} => \E a, b \in Ids : /\ a <= b /\ ids = a .. b
                                          /\ InOrder(ids) = [k \in 1 .. b - a + 1 |-> a + k - 1]
<1> DEFINE ids == Fetch(CatchUpFrom, now).ids
<1>1. CatchUpFrom \in Nat /\ now \in Int
  <2>1. market[lastId] \in Nat /\ TF \in Nat /\ now \in Nat
    BY MarketTypes, Parameters
  <2> QED
    BY <2>1 DEF CatchUpFrom
<1>2. ids \subseteq Available(CatchUpFrom, now)
      /\ (ids # {} => \E a, b \in Ids : a <= b /\ ids = a .. b)
  BY <1>1, Fetched
<1>3. ids \subseteq Ids
  BY <1>2 DEF Available
<1> HIDE DEF ids
<1>4. CASE ids = {}
  <2>1. Cardinality(ids) = 0
    BY <1>4, FS_EmptySet
  <2>2. InOrder(ids) = <<>>
    BY <2>1 DEF InOrder
  <2>3. InOrder(ids) \in Seq(Nat) /\ ToSet(InOrder(ids)) = {}
    BY <2>2 DEF ToSet
  <2> QED
    BY <1>1, <1>3, <1>4, <2>3 DEF ids
<1>5. CASE ids # {}
  <2>1. PICK a, b \in Ids : a <= b /\ ids = a .. b
    BY <1>2, <1>5
  <2>2. a \in Nat /\ b \in Nat
    BY MarketTypes
  <2>3. /\ InOrder(ids) = [k \in 1 .. b - a + 1 |-> a + k - 1]
        /\ InOrder(ids) \in Seq(Nat) /\ ToSet(InOrder(ids)) = ids
    BY <2>1, <2>2, IntervalInOrder
  <2> QED
    BY <1>1, <1>3, <2>1, <2>3 DEF ids
<1> QED
  BY <1>4, <1>5

\* The bar a session handles next.
LEMMA NextBar ==
  ASSUME LiveInv, at \notin {"read", "connected"}
  PROVE  /\ todo # <<>> /\ Head(todo) \in Bar /\ Tail(todo) \in Seq(Bar)
         /\ todo \in Seq(Bar)
BY SessionTypes DEF LiveInv, Places

\* The initial state.
LEMMA LiveStarts == Init => LiveInv
<1> SUFFICES ASSUME Init PROVE LiveInv
  OBVIOUS
<1>1. /\ TF \in Nat \ {0} /\ Required \in Nat /\ Required >= 2 /\ MaxTime \in Nat
      /\ MaxSessions \in Nat /\ MaxDrops \in Nat /\ MaxPages \in Nat
  BY Parameters, LiveAssumption
<1>2. TypeOK
  <2>1. [b \in Buckets |-> NoBar] \in [Buckets -> Bar \union {NoBar}]
    OBVIOUS
  <2>2. now \in 0 .. MaxTime
    BY <1>1, LiveAssumption DEF Init
  <2>3. market \in Seq(0 .. MaxTime)
    BY <1>1 DEF Init
  <2>4. left \in [sessions : Nat, drops : Nat]
    BY <1>1 DEF Init
  <2>5. /\ inbox \in Seq([kind : {"trade"}, id : Nat] \union [kind : {"quote"}, ts : Nat])
        /\ live \in Seq(Bar) /\ todo \in Seq(Bar) /\ batch \in Seq(Nat)
    BY DEF Init
  <2>8. db \in [Buckets -> Bar \union {NoBar}]
    BY <2>1 DEF Init
  <2>9. up \in BOOLEAN
    BY DEF Init
  <2>6. /\ source \in Sources
        /\ phase \in {"stopped", "bootstrapping", "running", "error"}
        /\ asked \in 0 .. MaxTime /\ pages \in 0 .. MaxPages
        /\ refusal \in {"none", "page limit", "too few bars", "no trades"}
    BY <1>1 DEF Init
  <2>7. /\ agg \in Bar \union {NoBar}
        /\ lastId \in Nat /\ since \in Nat /\ first \in Nat /\ late \subseteq Nat
        /\ at \in {"read", "connected", "bar", "decided", "account"}
        /\ {decision, target, position, equity} \subseteq Targets \union {Hold}
    BY DEF Init
  <2> QED
    BY <2>2, <2>3, <2>4, <2>5, <2>6, <2>7, <2>8, <2>9 DEF TypeOK
<1>3. Timely
  BY <1>1, <1>2, MarketTypes DEF Init, Timely
<1>4. Delivered
  BY <1>1 DEF Init, Delivered, Running, InboxIds, ToSet, Ids
<1>5. Places /\ Taped /\ Seen
  BY DEF Init, Places, Taped, Seen, Running
<1> QED
  BY <1>2, <1>3, <1>4, <1>5 DEF LiveInv
\* A trade read, or the time: what the session handles between two reads.
Event == CatchUpTrade \/ Receive \/ ClockEvent

\* An event is a trade of the exchange or a time.
LEMMA EventSteps ==
  ASSUME LiveInv, Event
  PROVE  /\ Reading
         /\ \/ \E i \in Ids : (i \in InboxIds \/ lastId # 0) /\ HandleTrade(i)
            \/ \E t \in Nat : HandleClock(t)
         /\ UNCHANGED <<now, market, up, db, phase, source, asked, pages, refusal, live,
                        decision, target, position, equity, left>>
         /\ inbox' \in Seq(Messages) /\ InboxIds' \subseteq InboxIds
         /\ inbox = <<>> => inbox' = <<>>
         /\ batch' \in Seq(Nat) /\ ToSet(batch') \subseteq ToSet(batch)
         /\ batch = <<>> => batch' = <<>>
<1>1. inbox \in Seq(Messages) /\ batch \in Seq(Nat) /\ now \in Nat /\ lastId \in Nat
  BY SessionTypes, MarketTypes DEF LiveInv
<1>2. CASE CatchUpTrade
  <2>1. /\ Reading /\ batch # <<>> /\ HandleTrade(Head(batch)) /\ batch' = Tail(batch)
        /\ inbox' = inbox
    BY <1>2 DEF CatchUpTrade, feed
  <2>2. /\ Len(batch) \in Nat /\ DOMAIN batch = 1 .. Len(batch) /\ Len(batch) >= 1
        /\ Head(batch) = batch[1] /\ batch' \in Seq(Nat) /\ DOMAIN batch' = 1 .. Len(batch) - 1
        /\ \A k \in 1 .. Len(batch) - 1 : batch'[k] = batch[k + 1]
    BY <1>1, <2>1
  <2>3. \A k \in 1 .. Len(batch) - 1 : k + 1 \in DOMAIN batch
    BY <2>2
  <2>4. ToSet(batch') \subseteq ToSet(batch)
    <3>1. ASSUME NEW k \in DOMAIN batch' PROVE batch'[k] \in ToSet(batch)
      <4>1. batch'[k] = batch[k + 1] /\ k + 1 \in DOMAIN batch
        BY <2>2, <2>3
      <4> QED
        BY <4>1, Zenon DEF ToSet
    <3> QED
      BY <3>1, Zenon DEF ToSet
  <2>5. Head(batch) \in ToSet(batch)
    BY <2>2 DEF ToSet
  <2>6. Head(batch) \in Ids /\ lastId # 0
    BY <2>1, <2>5 DEF LiveInv, Delivered, Places
  <2>7. InboxIds' = InboxIds
    BY <2>1 DEF InboxIds
  <2> QED
    BY <1>1, <1>2, <2>1, <2>2, <2>4, <2>6, <2>7 DEF CatchUpTrade, boot, account, feed
<1>3. CASE Receive
  <2>1. /\ Reading /\ batch' = batch /\ inbox # <<>> /\ inbox' = Tail(inbox)
        /\ IF Head(inbox).kind = "trade"
           THEN HandleTrade(Head(inbox).id) ELSE HandleClock(Head(inbox).ts)
    BY <1>3 DEF Receive
  <2>2. /\ Head(inbox) \in Messages /\ inbox' \in Seq(Messages) /\ InboxIds' \subseteq InboxIds
        /\ Head(inbox).kind = "trade" => Head(inbox).id \in InboxIds
    BY <2>1, InboxRead DEF LiveInv
  <2>3. Head(inbox).kind = "trade" => Head(inbox).id \in Ids /\ Head(inbox).id \in InboxIds
    BY <2>2 DEF LiveInv, Delivered
  <2>4. Head(inbox).kind # "trade" => Head(inbox).ts \in Nat
    BY <2>2 DEF Messages
  <2>5. UNCHANGED <<now, market, up, db, phase, source, asked, pages, refusal, live,
                    decision, target, position, equity, left>>
    BY <1>3 DEF Receive, boot, account
  <2>6. \/ \E i \in Ids : (i \in InboxIds \/ lastId # 0) /\ HandleTrade(i)
        \/ \E t \in Nat : HandleClock(t)
    BY <2>1, <2>3, <2>4
  <2> QED
    BY <1>1, <2>1, <2>2, <2>5, <2>6
<1>4. CASE ClockEvent
  <2>1. Reading /\ HandleClock(now) /\ batch' = batch /\ inbox' = inbox
    BY <1>4 DEF ClockEvent, feed
  <2>2. InboxIds' = InboxIds
    BY <2>1 DEF InboxIds
  <2> QED
    BY <1>1, <1>4, <2>1, <2>2 DEF ClockEvent, boot, account, feed
<1> QED
  BY <1>2, <1>3, <1>4 DEF Event

\* The types, in parts that steps change together.
WorldOK ==
  /\ now \in 0 .. MaxTime /\ market \in Seq(0 .. MaxTime) /\ up \in BOOLEAN
  /\ inbox \in Seq(Messages) /\ left \in [sessions : Nat, drops : Nat]
StoreOK ==
  /\ db \in [Buckets -> Bar \union {NoBar}] /\ source \in Sources
  /\ phase \in {"stopped", "bootstrapping", "running", "error"}
  /\ asked \in 0 .. MaxTime /\ pages \in 0 .. MaxPages
  /\ refusal \in {"none", "page limit", "too few bars", "no trades"}
BookOK ==
  /\ agg \in Bar \union {NoBar} /\ lastId \in Nat /\ since \in Nat /\ first \in Nat
  /\ late \subseteq Nat /\ live \in Seq(Bar) /\ todo \in Seq(Bar) /\ batch \in Seq(Nat)
TaskOK ==
  /\ at \in {"read", "connected", "bar", "decided", "account"}
  /\ {decision, target, position, equity} \subseteq Targets \union {Hold}

\* The types of a session, in four parts.
LEMMA TypeParts == TypeOK <=> WorldOK /\ StoreOK /\ BookOK /\ TaskOK
BY Zenon DEF TypeOK, WorldOK, StoreOK, BookOK, TaskOK, Messages

\* A part keeps its types if it does not change.
LEMMA PartsKept ==
  ASSUME TypeOK
  PROVE  /\ UNCHANGED <<now, market, up, inbox, left>> => WorldOK'
         /\ UNCHANGED <<db, source, phase, asked, pages, refusal>> => StoreOK'
         /\ UNCHANGED <<agg, lastId, since, first, late, live, todo, batch>> => BookOK'
         /\ UNCHANGED <<at, decision, target, position, equity>> => TaskOK'
<1> WorldOK /\ StoreOK /\ BookOK /\ TaskOK
  BY TypeParts
<1>1. ASSUME UNCHANGED <<now, market, up, inbox, left>> PROVE WorldOK'
  BY <1>1, Zenon DEF WorldOK
<1>2. ASSUME UNCHANGED <<db, source, phase, asked, pages, refusal>> PROVE StoreOK'
  BY <1>2, Zenon DEF StoreOK
<1>3. ASSUME UNCHANGED <<agg, lastId, since, first, late, live, todo, batch>> PROVE BookOK'
  BY <1>3, Zenon DEF BookOK
<1>4. ASSUME UNCHANGED <<at, decision, target, position, equity>> PROVE TaskOK'
  BY <1>4, Zenon DEF TaskOK
<1> QED
  BY <1>1, <1>2, <1>3, <1>4, Zenon

\* Every step keeps the types.
LEMMA TypesKept == LiveInv /\ Next => TypeOK'
<1> SUFFICES ASSUME LiveInv, Next PROVE WorldOK' /\ StoreOK' /\ BookOK' /\ TaskOK'
  <2>1. (WorldOK' /\ StoreOK' /\ BookOK' /\ TaskOK') => TypeOK'
    BY TypeParts, PTL
  <2> QED
    BY <2>1
<1> DEFINE World == UNCHANGED <<now, market, up, inbox, left>>
           Store == UNCHANGED <<db, source, phase, asked, pages, refusal>>
           Book  == UNCHANGED <<agg, lastId, since, first, late, live, todo, batch>>
           Task  == UNCHANGED <<at, decision, target, position, equity>>
<1>1. TypeOK /\ WorldOK /\ StoreOK /\ BookOK /\ TaskOK
  BY TypeParts DEF LiveInv
<1>2. (World => WorldOK') /\ (Store => StoreOK') /\ (Book => BookOK') /\ (Task => TaskOK')
  BY <1>1, PartsKept
<1>3. MaxTime \in Nat
  BY Parameters
<1>4. CASE Tick
  <2>1. WorldOK'
    <3>1. now' \in 0 .. MaxTime
      BY <1>1, <1>3, <1>4 DEF Tick, WorldOK
    <3> QED
      BY <1>1, <1>4, <3>1, Zenon DEF Tick, WorldOK, feed
  <2>2. Store /\ Book /\ Task
    BY <1>4, Zenon DEF Tick, boot, book, work, account
  <2> QED
    BY <1>2, <2>1, <2>2, Zenon
<1>5. CASE MarketTrade
  <2>1. WorldOK'
    <3>1. market' \in Seq(0 .. MaxTime)
      BY <1>1, <1>5 DEF MarketTrade, WorldOK
    <3>2. TradeMsg(Len(market) + 1) \in Messages
      BY MarketTypes, <1>1 DEF TradeMsg, Messages
    <3>3. inbox' \in Seq(Messages)
      BY <1>1, <1>5, <3>2, InboxSent, Zenon DEF MarketTrade
    <3> QED
      BY <1>1, <1>5, <3>1, <3>3, Zenon DEF MarketTrade, WorldOK
  <2>2. Store /\ Book /\ Task
    BY <1>5, Zenon DEF MarketTrade, boot, book, work, account
  <2> QED
    BY <1>2, <2>1, <2>2, Zenon
<1>6. CASE MarketQuote
  <2>1. WorldOK'
    <3>1. QuoteMsg(now) \in Messages
      BY MarketTypes, <1>1 DEF QuoteMsg, Messages
    <3>2. inbox' \in Seq(Messages)
      BY <1>1, <1>6, <3>1, InboxSent, Zenon DEF MarketQuote
    <3> QED
      BY <1>1, <1>6, <3>2, Zenon DEF MarketQuote, WorldOK
  <2>2. Store /\ Book /\ Task
    BY <1>6, Zenon DEF MarketQuote, boot, book, work, account
  <2> QED
    BY <1>2, <2>1, <2>2, Zenon
<1>7. CASE Drop
  <2>1. WorldOK'
    <3>1. left' \in [sessions : Nat, drops : Nat]
      BY <1>1, <1>7 DEF Drop, WorldOK
    <3>2. inbox' \in Seq(Messages)
      BY <1>7 DEF Drop
    <3> QED
      BY <1>1, <1>7, <3>1, <3>2, Zenon DEF Drop, WorldOK
  <2>2. Store /\ Book /\ Task
    BY <1>7, Zenon DEF Drop, boot, book, work, account
  <2> QED
    BY <1>2, <2>1, <2>2, Zenon
<1>8. CASE StartSession
  <2>1. WorldOK'
    <3>1. left' \in [sessions : Nat, drops : Nat]
      BY <1>1, <1>8 DEF StartSession, WorldOK
    <3> QED
      BY <1>1, <1>8, <3>1, Zenon DEF StartSession, WorldOK, feed
  <2>2. StoreOK'
    <3>1. pages' \in 0 .. MaxPages
      BY <1>8, Parameters DEF StartSession
    <3>2. asked' \in 0 .. MaxTime
      BY <1>1, <1>8 DEF StartSession, WorldOK
    <3> QED
      BY <1>1, <1>8, <3>1, <3>2, Zenon DEF StartSession, StoreOK
  <2>3. Book /\ Task
    BY <1>8, Zenon DEF StartSession, book, work, account
  <2> QED
    BY <1>2, <2>1, <2>2, <2>3, Zenon
<1>9. CASE Bootstrap
  <2>1. World /\ UNCHANGED <<source, asked>>
    BY <1>9, Zenon DEF Bootstrap, feed
  <2>2. /\ pages' \in 0 .. MaxPages
        /\ \/ \E why \in {"page limit", "too few bars", "no trades"} : Refuse(why)
           \/ \E completed, current, id : /\ Boot(completed, current, id)
                                          /\ Startable(completed, current, id)
    BY <1>9, BootSteps DEF LiveInv
  <2>3. CASE \E why \in {"page limit", "too few bars", "no trades"} : Refuse(why)
    <3>1. PICK why \in {"page limit", "too few bars", "no trades"} : Refuse(why)
      BY <2>3
    <3>2. Book /\ Task /\ db' = db /\ phase' = "error" /\ refusal' = why
      BY <3>1, Zenon DEF Refuse, book, work, account
    <3>3. refusal' \in {"none", "page limit", "too few bars", "no trades"}
      BY <3>1, <3>2
    <3>4. StoreOK'
      BY <1>1, <2>1, <2>2, <3>2, <3>3, Zenon DEF StoreOK
    <3> QED
      BY <1>2, <2>1, <3>2, <3>4, Zenon
  <2>4. CASE \E completed, current, id : /\ Boot(completed, current, id)
                                         /\ Startable(completed, current, id)
    <3>1. PICK completed, current, id : /\ Boot(completed, current, id)
                                        /\ Startable(completed, current, id)
      BY <2>4
    <3>2. completed \subseteq Bar /\ current \in Bar /\ id \in Nat
      BY <1>1, <3>1, MarketTypes DEF Startable
    <3>3. StoreOK'
      <4>1. db' = [b \in Buckets |->
                    IF \E c \in completed : c.ts = b
                    THEN CHOOSE c \in completed : c.ts = b ELSE db[b]]
        BY <3>1 DEF Boot
      <4>2. ASSUME NEW b PROVE (\E c \in completed : c.ts = b) =>
                                 (CHOOSE c \in completed : c.ts = b) \in completed
        BY Zenon
      <4>3. db' \in [Buckets -> Bar \union {NoBar}]
        BY <1>1, <3>2, <4>1, <4>2 DEF StoreOK
      <4> QED
        BY <1>1, <2>1, <2>2, <3>1, <4>3, Zenon DEF StoreOK, Boot
    <3>4. BookOK'
      <4>1. /\ agg' = current /\ since' = current.ts /\ lastId' = id
            /\ first' = (IF id = 0 THEN 0 ELSE id + 1) /\ late' = {}
            /\ live' = <<>> /\ batch' = <<>> /\ todo' = <<>>
        BY <3>1 DEF Boot
      <4>2. since' \in Nat /\ first' \in Nat
        BY <3>2, <4>1 DEF Bar
      <4>3. live' \in Seq(Bar) /\ todo' \in Seq(Bar) /\ batch' \in Seq(Nat)
        BY <4>1
      <4> QED
        BY <3>2, <4>1, <4>2, <4>3 DEF BookOK
    <3>5. TaskOK'
      BY <3>1 DEF Boot, TaskOK
    <3> QED
      BY <1>2, <2>1, <3>3, <3>4, <3>5, Zenon
  <2> QED
    BY <2>2, <2>3, <2>4
<1>10. CASE Connect
  <2>1. WorldOK'
    <3>1. inbox' \in Seq(Messages)
      <4>1. CASE source = "candles"
        BY <1>10, <4>1 DEF Connect
      <4>2. CASE source # "candles"
        <5>1. inbox' = Replay(Latest)
          BY <1>10, <4>2 DEF Connect, Replay, Latest
        <5> QED
          BY <1>1, <5>1, Replayed DEF LiveInv
      <4> QED
        BY <4>1, <4>2
    <3> QED
      BY <1>1, <1>10, <3>1, Zenon DEF Connect, WorldOK
  <2>2. TaskOK'
    BY <1>1, <1>10 DEF Connect, TaskOK, account
  <2>3. Store /\ Book
    BY <1>10, Zenon DEF Connect, boot, book
  <2> QED
    BY <1>2, <2>1, <2>2, <2>3, Zenon
<1>11. CASE CatchUp
  <2>1. BookOK'
    <3>1. batch' \in Seq(Nat)
      <4>1. CASE lastId = 0 \/ source = "candles"
        BY <1>1, <1>11, <4>1 DEF CatchUp, BookOK
      <4>2. CASE ~(lastId = 0 \/ source = "candles")
        <5>1. batch' = InOrder(Fetch(CatchUpFrom, now).ids)
          BY <1>11, <4>2 DEF CatchUp
        <5>2. lastId \in Ids
          <6>1. lastId \in Nat /\ lastId <= Len(market)
            BY <1>1 DEF BookOK, LiveInv, Delivered
          <6> QED
            BY <1>1, <4>2, <6>1, MarketTypes
        <5> QED
          BY <1>1, <5>1, <5>2, CaughtUp DEF LiveInv
      <4> QED
        BY <4>1, <4>2
    <3> QED
      BY <1>1, <1>11, <3>1, Zenon DEF CatchUp, BookOK, book
  <2>2. TaskOK'
    BY <1>1, <1>11 DEF CatchUp, TaskOK, account
  <2>3. World /\ Store
    BY <1>11, Zenon DEF CatchUp, boot, feed
  <2> QED
    BY <1>2, <2>1, <2>2, <2>3, Zenon
<1>12. CASE Event
  <2>1. /\ Reading /\ live' = live
        /\ \/ \E i \in Ids : (i \in InboxIds \/ lastId # 0) /\ HandleTrade(i)
           \/ \E t \in Nat : HandleClock(t)
        /\ UNCHANGED <<now, market, up, left, decision, target, position, equity>> /\ Store
        /\ inbox' \in Seq(Messages) /\ batch' \in Seq(Nat)
    BY <1>12, EventSteps, Zenon
  <2>2. WorldOK'
    BY <1>1, <2>1, Zenon DEF WorldOK
  <2>3. /\ agg' \in Bar /\ todo' \in Seq(Bar) /\ lastId' \in Nat /\ since' \in Nat
        /\ first' \in Nat /\ late' \subseteq Nat /\ at' \in {"read", "bar"}
    <3>1. CASE \E i \in Ids : (i \in InboxIds \/ lastId # 0) /\ HandleTrade(i)
      <4>1. PICK i \in Ids : (i \in InboxIds \/ lastId # 0) /\ HandleTrade(i)
        BY <3>1
      <4>2. /\ agg' \in Bar /\ todo' \in Seq(Bar) /\ since' = since
            /\ at' \in {"read", "bar"}
            /\ \/ UNCHANGED <<lastId, first, late>>
               \/ /\ lastId' = i /\ first' = (IF first = 0 THEN i ELSE first)
                  /\ late' \subseteq late \union {i}
        BY <2>1, <4>1, TradeHandled
      <4>3. i \in Nat
        BY <1>1, MarketTypes
      <4> QED
        BY <1>1, <4>2, <4>3 DEF BookOK
    <3>2. CASE \E t \in Nat : HandleClock(t)
      <4>1. PICK t \in Nat : HandleClock(t)
        BY <3>2
      <4>2. /\ agg' \in Bar /\ todo' \in Seq(Bar) /\ UNCHANGED <<lastId, since, first, late>>
            /\ at' \in {"read", "bar"}
        BY <2>1, <4>1, ClockHandled
      <4> QED
        BY <1>1, <4>2 DEF BookOK
    <3> QED
      BY <2>1, <3>1, <3>2
  <2>4. BookOK'
    BY <1>1, <2>1, <2>3 DEF BookOK
  <2>5. TaskOK'
    BY <1>1, <2>1, <2>3 DEF TaskOK
  <2> QED
    BY <1>2, <2>1, <2>2, <2>4, <2>5, Zenon
<1>13. CASE CloseBar
  <2>1. Head(todo) \in Bar
    BY <1>13, NextBar DEF CloseBar
  <2>2. StoreOK'
    <3>1. db' \in [Buckets -> Bar \union {NoBar}]
      BY <1>1, <1>13, <2>1 DEF CloseBar, StoreOK
    <3> QED
      BY <1>1, <1>13, <3>1, Zenon DEF CloseBar, StoreOK, boot
  <2>3. BookOK'
    <3>1. live' \in Seq(Bar)
      BY <1>1, <1>13, <2>1 DEF CloseBar, BookOK
    <3> QED
      BY <1>1, <1>13, <3>1, Zenon DEF CloseBar, BookOK, book
  <2>4. TaskOK'
    BY <1>1, <1>13 DEF CloseBar, TaskOK
  <2>5. World
    BY <1>13, Zenon DEF CloseBar, feed
  <2> QED
    BY <1>2, <2>2, <2>3, <2>4, <2>5, Zenon
<1>14. CASE Rebalance
  <2>1. TaskOK'
    BY <1>1, <1>14 DEF Rebalance, TaskOK
  <2>2. World /\ Store /\ Book
    BY <1>14, Zenon DEF Rebalance, feed, boot, book
  <2> QED
    BY <1>2, <2>1, <2>2, Zenon
<1>15. CASE SaveEquity
  <2>1. TaskOK'
    BY <1>1, <1>15 DEF SaveEquity, TaskOK
  <2>2. BookOK'
    <3>1. todo' \in Seq(Bar)
      BY <1>15, NextBar DEF SaveEquity
    <3> QED
      BY <1>1, <1>15, <3>1, Zenon DEF SaveEquity, BookOK, book
  <2>3. World /\ Store
    BY <1>15, Zenon DEF SaveEquity, feed, boot
  <2> QED
    BY <1>2, <2>1, <2>2, <2>3, Zenon
<1>16. CASE CatchUpFails \/ Stop
  <2>1. WorldOK'
    <3>0. inbox' = <<>>
      BY <1>16 DEF CatchUpFails, Stop
    <3>1. inbox' \in Seq(Messages)
      BY <3>0
    <3> QED
      BY <1>1, <1>16, <3>1, Zenon DEF CatchUpFails, Stop, WorldOK
  <2>2. StoreOK'
    BY <1>1, <1>16 DEF CatchUpFails, Stop, StoreOK, boot
  <2>3. Book /\ Task
    BY <1>16, Zenon DEF CatchUpFails, Stop, book, work, account
  <2> QED
    BY <1>2, <2>1, <2>2, <2>3, Zenon
<1>17. CASE StrategyFails
  <2>1. Head(todo) \in Bar
    BY <1>17, NextBar DEF StrategyFails
  <2>2. WorldOK'
    <3>1. inbox' \in Seq(Messages)
      BY <1>17 DEF StrategyFails
    <3> QED
      BY <1>1, <1>17, <3>1, Zenon DEF StrategyFails, WorldOK
  <2>3. StoreOK'
    <3>1. db' \in [Buckets -> Bar \union {NoBar}]
      BY <1>1, <1>17, <2>1 DEF StrategyFails, StoreOK
    <3> QED
      BY <1>1, <1>17, <3>1, Zenon DEF StrategyFails, StoreOK, boot
  <2>4. BookOK'
    <3>1. live' \in Seq(Bar)
      BY <1>1, <1>17, <2>1 DEF StrategyFails, BookOK
    <3> QED
      BY <1>1, <1>17, <3>1, Zenon DEF StrategyFails, BookOK, book, work
  <2>5. Task
    BY <1>17, Zenon DEF StrategyFails, work, account
  <2> QED
    BY <1>2, <2>2, <2>3, <2>4, <2>5, Zenon
<1> QED
  BY <1>4, <1>5, <1>6, <1>7, <1>8, <1>9, <1>10, <1>11, <1>12, <1>13, <1>14, <1>15, <1>16,
     <1>17 DEF Next, RunStep, HandleBar, Event
\* Time goes on, and the exchange with it.
LEMMA TimelyKept == LiveInv /\ Next => Timely'
<1> SUFFICES ASSUME LiveInv, Next PROVE Timely'
  OBVIOUS
<1>1. market \in Seq(Nat) /\ now \in Nat /\ Len(market) \in Nat /\ Ids = 1 .. Len(market)
  BY MarketTypes DEF LiveInv
<1>2. Timely
  BY DEF LiveInv
<1>3. CASE Tick
  <2>1. now' = now + 1 /\ market' = market
    BY <1>3 DEF Tick
  <2> QED
    BY <1>1, <1>2, <2>1 DEF Timely, Ids
<1>4. CASE MarketTrade
  <2>1. now' = now /\ market' = Append(market, now)
    BY <1>4 DEF MarketTrade
  <2>2. /\ Len(market') = Len(market) + 1 /\ market'[Len(market) + 1] = now
        /\ \A i \in 1 .. Len(market) : market'[i] = market[i] /\ market[i] \in Nat
    BY <1>1, <2>1
  <2>3. \A i \in 1 .. Len(market) + 1 : i = Len(market) + 1 \/ i \in 1 .. Len(market)
    BY <1>1
  <2>4. \A i \in 1 .. Len(market) + 1 : market'[i] <= now /\ market'[i] \in Nat
    BY <1>1, <1>2, <2>2, <2>3 DEF Timely
  <2>5. ASSUME NEW i \in 1 .. Len(market) + 1, NEW j \in 1 .. Len(market) + 1, i < j
        PROVE  market'[i] <= market'[j]
    <3>1. i \in 1 .. Len(market)
      BY <1>1, <2>3, <2>5
    <3>2. CASE j = Len(market) + 1
      BY <2>2, <2>4, <3>2
    <3>3. CASE j \in 1 .. Len(market)
      BY <1>1, <1>2, <2>2, <2>5, <3>1, <3>3 DEF Timely
    <3> QED
      BY <2>3, <3>2, <3>3
  <2> QED
    BY <1>1, <2>1, <2>2, <2>4, <2>5 DEF Timely, Ids
<1>5. CASE UNCHANGED <<now, market>>
  BY <1>2, <1>5 DEF Timely, Ids
<1> QED
  BY <1>3, <1>4, <1>5, Zenon
    DEF Next, MarketQuote, Drop, StartSession, Bootstrap, RunStep, HandleBar,
     Connect, CatchUp, CatchUpTrade, Receive, ClockEvent, CloseBar, Rebalance, SaveEquity,
     CatchUpFails, StrategyFails, Stop

\* The steps that leave the bars of a session as they are.
Still == Tick \/ MarketTrade \/ MarketQuote \/ Drop \/ Connect \/ CatchUp \/ HandleBar

\* After such a step the bars, the phase and the source are what they were.
LEMMA SameBars ==
  ASSUME LiveInv, Still
  PROVE  SessionBars' = SessionBars /\ UNCHANGED <<book, phase, source>>
<1>1. live \in Seq(Bar) /\ todo \in Seq(Bar)
  BY SessionTypes DEF LiveInv
<1>2. CASE Tick \/ MarketTrade \/ MarketQuote \/ Drop
  <2>1. UNCHANGED <<live, todo, at, agg>> /\ UNCHANGED <<book, phase, source>>
    BY <1>2 DEF Tick, MarketTrade, MarketQuote, Drop, work, book, boot
  <2> QED
    BY <2>1 DEF SessionBars, Waiting
<1>3. CASE Connect \/ CatchUp
  <2>1. at \in {"read", "connected"} /\ at' \in {"read", "connected"}
    BY <1>3 DEF Connect, CatchUp
  <2>2. todo = <<>>
    BY <2>1 DEF LiveInv, Places
  <2>3. UNCHANGED <<live, todo, agg>> /\ UNCHANGED <<book, phase, source>>
    BY <1>3 DEF Connect, CatchUp, book, boot
  <2> QED
    BY <2>2, <2>3 DEF SessionBars, Waiting
<1>4. CASE CloseBar
  <2>1. /\ at = "bar" /\ at' = "decided" /\ live' = Append(live, Head(todo)) /\ todo' = todo
        /\ agg' = agg /\ UNCHANGED <<book, phase, source>>
    BY <1>4 DEF CloseBar, book, boot
  <2>2. todo # <<>>
    BY <2>1, NextBar
  <2>3. Append(live, Head(todo)) \o Tail(todo) = live \o todo
    BY <1>1, <2>2
  <2>4. Waiting = todo /\ Waiting' = Tail(todo)
    BY <2>1, <2>2 DEF Waiting
  <2> QED
    BY <2>1, <2>3, <2>4 DEF SessionBars
<1>5. CASE Rebalance
  <2>1. /\ at = "decided" /\ at' = "account" /\ UNCHANGED <<live, todo, agg>>
        /\ UNCHANGED <<book, phase, source>>
    BY <1>5 DEF Rebalance, book, boot
  <2> QED
    BY <2>1 DEF SessionBars, Waiting
<1>6. CASE SaveEquity
  <2>1. /\ at = "account" /\ todo' = Tail(todo) /\ UNCHANGED <<live, agg>>
        /\ at' = (IF Tail(todo) = <<>> THEN "read" ELSE "bar")
        /\ UNCHANGED <<book, phase, source>>
    BY <1>6 DEF SaveEquity, book, boot
  <2>2. todo # <<>>
    BY <2>1, NextBar
  <2>3. Waiting = Tail(todo) /\ Waiting' = Tail(todo)
    BY <2>1, <2>2 DEF Waiting
  <2> QED
    BY <2>1, <2>3 DEF SessionBars
<1> QED
  BY <1>2, <1>3, <1>4, <1>5, <1>6 DEF Still, HandleBar

\* The steps that end a session or leave none running.
Ending == StartSession \/ CatchUpFails \/ StrategyFails \/ Stop

\* What is delivered is trades of the exchange.
LEMMA DeliveredKept == LiveInv /\ Next => Delivered'
<1> SUFFICES ASSUME LiveInv, Next PROVE Delivered'
  OBVIOUS
<1>1. /\ TypeOK /\ Delivered /\ inbox \in Seq(Messages) /\ batch \in Seq(Nat) /\ lastId \in Nat
      /\ market \in Seq(Nat) /\ Len(market) \in Nat /\ Ids = 1 .. Len(market) /\ up \in BOOLEAN
  BY SessionTypes, MarketTypes DEF LiveInv
<1>2. UNCHANGED inbox => InboxIds' = InboxIds
  BY DEF InboxIds
<1>3. UNCHANGED market => Ids' = Ids
  BY DEF Ids
<1>4. CASE MarketTrade
  <2>1. /\ market' = Append(market, now) /\ Send(TradeMsg(Len(market) + 1))
        /\ UNCHANGED <<up, phase, batch, lastId>>
    BY <1>4 DEF MarketTrade, work, book
  <2>2. Len(market') = Len(market) + 1 /\ Ids' = 1 .. Len(market) + 1
    BY <1>1, <2>1, MarketTypes DEF Ids
  <2>3. /\ TradeMsg(Len(market) + 1) \in Messages /\ TradeMsg(Len(market) + 1).kind = "trade"
        /\ TradeMsg(Len(market) + 1).id = Len(market) + 1
    BY <1>1 DEF TradeMsg, Messages
  <2>4. /\ ~up => inbox' = inbox
        /\ up => InboxIds' = InboxIds \cup {Len(market) + 1}
    BY <1>1, <2>1, <2>3, InboxSent
  <2>5. InboxIds' \subseteq Ids'
    <3>1. InboxIds \subseteq Ids'
      BY <1>1, <2>2 DEF Delivered
    <3>2. Len(market) + 1 \in Ids'
      BY <1>1, <2>2
    <3>3. InboxIds' = InboxIds \/ InboxIds' = InboxIds \cup {Len(market) + 1}
      BY <1>1, <1>2, <2>4
    <3> QED
      BY <3>1, <3>2, <3>3
  <2>6. ToSet(batch') \subseteq Ids' /\ lastId' <= Len(market')
    BY <1>1, <2>1, <2>2 DEF Delivered
  <2> QED
    BY <1>1, <2>1, <2>4, <2>5, <2>6 DEF Delivered, Running
<1>5. CASE MarketQuote
  <2>1. up /\ Send(QuoteMsg(now)) /\ UNCHANGED <<up, phase, batch, lastId, market>>
    BY <1>5 DEF MarketQuote, work, book
  <2>2. QuoteMsg(now) \in Messages /\ QuoteMsg(now).kind # "trade"
    BY MarketTypes, <1>1 DEF QuoteMsg, Messages
  <2>3. InboxIds' = InboxIds
    BY <1>1, <2>1, <2>2, InboxSent
  <2> QED
    BY <1>1, <1>3, <2>1, <2>3 DEF Delivered, Running
<1>6. CASE Tick
  BY <1>1, <1>2, <1>3, <1>6 DEF Tick, Delivered, Running, feed, work, book
<1>7. CASE Drop \/ CatchUpFails \/ StrategyFails \/ Stop
  <2>1. up' = FALSE /\ inbox' = <<>> /\ UNCHANGED <<batch, lastId, market>>
    BY <1>7 DEF Drop, CatchUpFails, StrategyFails, Stop, work, book
  <2>2. InboxIds' = {}
    BY <2>1 DEF InboxIds
  <2> QED
    BY <1>1, <1>3, <2>1, <2>2 DEF Delivered
<1>8. CASE StartSession
  <2>1. phase \in {"stopped", "error"} /\ UNCHANGED <<up, inbox, batch, lastId, market>>
    BY <1>8 DEF StartSession, feed, work, book
  <2>2. ~up
    BY <1>1, <2>1 DEF Delivered, Running
  <2> QED
    BY <1>1, <1>2, <1>3, <2>1, <2>2 DEF Delivered
<1>9. CASE Bootstrap
  <2>1. phase = "bootstrapping" /\ UNCHANGED <<up, inbox, market>>
    BY <1>9 DEF Bootstrap, feed
  <2>2. ~up
    BY <1>1, <2>1 DEF Delivered, Running
  <2>3. ToSet(batch') \subseteq Ids /\ lastId' <= Len(market)
    <3>1. CASE \E why \in {"page limit", "too few bars", "no trades"} : Refuse(why)
      <4>1. UNCHANGED <<batch, lastId>>
        BY <3>1 DEF Refuse, work, book
      <4> QED
        BY <1>1, <4>1 DEF Delivered
    <3>2. CASE \E completed, current, id : /\ Boot(completed, current, id)
                                           /\ Startable(completed, current, id)
      <4>1. PICK completed, current, id : /\ Boot(completed, current, id)
                                          /\ Startable(completed, current, id)
        BY <3>2
      <4>2. batch' = <<>> /\ lastId' = id /\ id \in 0 .. Len(market)
        BY <4>1 DEF Boot, Startable
      <4> QED
        BY <1>1, <4>2 DEF ToSet
    <3> QED
      BY <1>9, <3>1, <3>2, BootSteps DEF LiveInv
  <2> QED
    BY <1>1, <1>2, <1>3, <2>1, <2>2, <2>3 DEF Delivered
<1>10. CASE Connect
  <2>1. Running /\ up' = TRUE /\ UNCHANGED <<phase, batch, lastId, market>>
    BY <1>10 DEF Connect, book
  <2>2. InboxIds' \subseteq Ids
    <3>1. CASE source = "candles"
      <4>1. inbox' = <<>>
        BY <1>10, <3>1 DEF Connect
      <4> QED
        BY <4>1 DEF InboxIds
    <3>2. CASE source # "candles"
      <4>1. inbox' = Replay(Latest)
        BY <1>10, <3>2 DEF Connect, Replay, Latest
      <4> QED
        BY <4>1, Replayed DEF LiveInv, Latest
    <3> QED
      BY <3>1, <3>2
  <2> QED
    BY <1>1, <1>3, <2>1, <2>2 DEF Delivered, Running
<1>11. CASE CatchUp
  <2>1. UNCHANGED <<up, inbox, phase, lastId, market>>
    BY <1>11 DEF CatchUp, book, feed
  <2>2. ToSet(batch') \subseteq Ids
    <3>1. CASE lastId = 0 \/ source = "candles"
      BY <1>1, <1>11, <3>1 DEF CatchUp, Delivered
    <3>2. CASE ~(lastId = 0 \/ source = "candles")
      <4>1. batch' = InOrder(Fetch(CatchUpFrom, now).ids)
        BY <1>11, <3>2 DEF CatchUp
      <4>2. lastId \in Ids
        BY <1>1, <3>2 DEF Delivered
      <4> QED
        BY <4>1, <4>2, CaughtUp DEF LiveInv
    <3> QED
      BY <3>1, <3>2
  <2> QED
    BY <1>1, <1>2, <1>3, <2>1, <2>2 DEF Delivered, Running
<1>12. CASE Event
  <2>1. /\ Reading /\ live' = live
        /\ \/ \E i \in Ids : (i \in InboxIds \/ lastId # 0) /\ HandleTrade(i)
           \/ \E t \in Nat : HandleClock(t)
        /\ UNCHANGED <<market, up, phase>>
        /\ InboxIds' \subseteq InboxIds /\ (inbox = <<>> => inbox' = <<>>)
        /\ ToSet(batch') \subseteq ToSet(batch)
    BY <1>12, EventSteps, Zenon
  <2>2. lastId' <= Len(market)
    <3>1. CASE \E i \in Ids : (i \in InboxIds \/ lastId # 0) /\ HandleTrade(i)
      <4>1. PICK i \in Ids : (i \in InboxIds \/ lastId # 0) /\ HandleTrade(i)
        BY <3>1
      <4>2. lastId' = lastId \/ lastId' = i
        BY <2>1, <4>1, TradeHandled
      <4> QED
        BY <1>1, <4>2 DEF Delivered
    <3>2. CASE \E t \in Nat : HandleClock(t)
      BY <1>1, <2>1, <3>2, ClockHandled DEF Delivered
    <3> QED
      BY <2>1, <3>1, <3>2
  <2> QED
    BY <1>1, <1>3, <2>1, <2>2 DEF Delivered, Running
<1>13. CASE HandleBar
  <2>1. UNCHANGED <<up, inbox, phase, batch, lastId, market>>
    BY <1>13 DEF HandleBar, CloseBar, Rebalance, SaveEquity, book, feed
  <2> QED
    BY <1>1, <1>2, <1>3, <2>1 DEF Delivered, Running
<1> QED
  BY <1>4, <1>5, <1>6, <1>7, <1>8, <1>9, <1>10, <1>11, <1>12, <1>13 DEF Next, RunStep, Event

\* The task has bars to handle where it handles bars.
LEMMA PlacesKept == LiveInv /\ Next => Places'
<1> SUFFICES ASSUME LiveInv, Next PROVE Places'
  OBVIOUS
<1>1. Places /\ batch \in Seq(Nat)
  BY SessionTypes DEF LiveInv
<1>2. CASE Tick \/ MarketTrade \/ MarketQuote \/ Drop \/ StartSession \/ CatchUpFails
           \/ StrategyFails \/ Stop
  <2>1. UNCHANGED <<at, todo, batch, lastId, source>>
    BY <1>2, Zenon
      DEF Tick, MarketTrade, MarketQuote, Drop, StartSession, CatchUpFails, StrategyFails,
       Stop, boot, work, book
  <2> QED
    BY <1>1, <2>1 DEF Places
<1>3. CASE Bootstrap
  <2>1. source' = source
    BY <1>3 DEF Bootstrap
  <2>2. CASE \E why \in {"page limit", "too few bars", "no trades"} : Refuse(why)
    <3>1. UNCHANGED <<at, todo, batch, lastId>>
      BY <2>2 DEF Refuse, work, book
    <3> QED
      BY <1>1, <2>1, <3>1 DEF Places
  <2>3. CASE \E completed, current, id : Boot(completed, current, id)
    <3>1. at' = "read" /\ todo' = <<>> /\ batch' = <<>>
      BY <2>3 DEF Boot
    <3> QED
      BY <3>1 DEF Places
  <2> QED
    BY <1>3, <2>2, <2>3, BootSteps DEF LiveInv
<1>4. CASE Connect \/ CatchUp
  <2>1. /\ at \in {"read", "connected"} /\ at' \in {"read", "connected"}
        /\ UNCHANGED <<todo, lastId, source>>
        /\ batch' = batch \/ (lastId # 0 /\ source # "candles")
    BY <1>4 DEF Connect, CatchUp, book, boot
  <2>2. source = "trades" \/ source = "candles"
    BY BootTypes DEF LiveInv
  <2> QED
    BY <1>1, <2>1, <2>2 DEF Places
<1>5. CASE Event
  <2>1. /\ Reading /\ live' = live
        /\ \/ \E i \in Ids : (i \in InboxIds \/ lastId # 0) /\ HandleTrade(i)
           \/ \E t \in Nat : HandleClock(t)
        /\ source' = source /\ (batch = <<>> => batch' = <<>>)
    BY <1>5, EventSteps, Zenon
  <2>2. /\ at' \in {"read", "bar"} /\ (at' = "read" <=> todo' = <<>>)
        /\ lastId # 0 => lastId' # 0
    <3>1. CASE \E i \in Ids : (i \in InboxIds \/ lastId # 0) /\ HandleTrade(i)
      <4>1. PICK i \in Ids : (i \in InboxIds \/ lastId # 0) /\ HandleTrade(i)
        BY <3>1
      <4>2. i # 0
        BY MarketTypes DEF LiveInv
      <4> QED
        BY <2>1, <4>1, <4>2, TradeHandled
    <3>2. CASE \E t \in Nat : HandleClock(t)
      BY <2>1, <3>2, ClockHandled
    <3> QED
      BY <2>1, <3>1, <3>2
  <2> QED
    BY <1>1, <2>1, <2>2 DEF Places
<1>6. CASE HandleBar
  <2>1. at \notin {"read", "connected"} /\ UNCHANGED <<batch, lastId, source>>
    BY <1>6 DEF HandleBar, CloseBar, Rebalance, SaveEquity, book, boot
  <2>2. \/ at' \notin {"read", "connected"} /\ todo' = todo
        \/ todo' = Tail(todo) /\ at' = (IF Tail(todo) = <<>> THEN "read" ELSE "bar")
    BY <1>6 DEF HandleBar, CloseBar, Rebalance, SaveEquity
  <2> QED
    BY <1>1, <2>1, <2>2 DEF Places
<1> QED
  BY <1>2, <1>3, <1>4, <1>5, <1>6 DEF Next, RunStep, Event

\* The bars stay without a hole.
LEMMA TapedKept == LiveInv /\ Next => Taped'
<1> SUFFICES ASSUME LiveInv, Next, Running' PROVE Chained(SessionBars', since', market')
  BY DEF Taped
<1>1. Taped /\ market \in Seq(Nat) /\ now \in Nat
  BY MarketTypes DEF LiveInv
<1>2. CASE Still
  <2>1. SessionBars' = SessionBars /\ UNCHANGED <<since, phase>>
    BY <1>2, SameBars DEF book
  <2>2. Chained(SessionBars, since, market)
    BY <1>1, <2>1 DEF Taped, Running
  <2>3. market' = market \/ market' = Append(market, now)
    BY <1>2 DEF Still, Tick, MarketTrade, MarketQuote, Drop, Connect, CatchUp, HandleBar,
       CloseBar, Rebalance, SaveEquity
  <2>4. Chained(SessionBars, since, market')
    BY <1>1, <2>2, <2>3, ChainKept
  <2> QED
    BY <2>1, <2>4
<1>3. CASE Ending
  BY <1>3 DEF Ending, StartSession, CatchUpFails, StrategyFails, Stop, Running
<1>4. CASE Bootstrap
  <2>1. market' = market
    BY <1>4 DEF Bootstrap
  <2>2. PICK completed, current, id : /\ Boot(completed, current, id)
                                      /\ Startable(completed, current, id)
    <3>1. ~\E why \in {"page limit", "too few bars", "no trades"} : Refuse(why)
      BY DEF Refuse, Running
    <3> QED
      BY <1>4, <3>1, BootSteps DEF LiveInv
  <2>3. current \in Bar /\ Sound(current, market)
    BY <2>2 DEF Startable
  <2>4. agg' = current /\ since' = current.ts /\ live' = <<>> /\ todo' = <<>>
    BY <2>2 DEF Boot
  <2>5. SessionBars' = <<current>>
    <3>1. Waiting' = <<>>
      BY <2>4 DEF Waiting
    <3>2. <<>> \o <<>> = <<>> /\ Append(<<>>, current) = <<current>>
      OBVIOUS
    <3> QED
      BY <2>4, <3>1, <3>2, Zenon DEF SessionBars
  <2>6. current.ts + (1 - 1) * TF = current.ts
    BY <2>3, Parameters DEF Bar
  <2>7. Len(<<current>>) = 1 /\ <<current>>[1] = current
    OBVIOUS
  <2>8. Chained(<<current>>, current.ts, market)
    BY <2>3, <2>6, <2>7 DEF Chained
  <2> QED
    BY <2>1, <2>4, <2>5, <2>8
<1>5. CASE Event
  <2>1. /\ Reading /\ live' = live
        /\ \/ \E i \in Ids : (i \in InboxIds \/ lastId # 0) /\ HandleTrade(i)
           \/ \E t \in Nat : HandleClock(t)
        /\ market' = market
    BY <1>5, EventSteps, Zenon
  <2>2. Chained(SessionBars', since, market) /\ since' = since
    BY <2>1, TradeHandled, ClockHandled
  <2> QED
    BY <2>1, <2>2
<1> QED
  BY <1>2, <1>3, <1>4, <1>5 DEF Next, RunStep, Event, Still, Ending

\* What was counted is not counted again.
LEMMA SeenKept == LiveInv /\ Next => Seen'
<1> SUFFICES ASSUME LiveInv, Next, Running', NEW id \in TradesIn(SessionBars')
             PROVE  id <= lastId' \/ (/\ source' = "candles" /\ lastId' = 0
                                      /\ \A i \in InboxIds' : id < i)
  BY DEF Seen
<1>1. Seen /\ TypeOK /\ lastId \in Nat
  BY SessionTypes DEF LiveInv
<1>2. CASE Still
  <2>1. SessionBars' = SessionBars /\ UNCHANGED <<lastId, phase, source>>
    BY <1>2, SameBars DEF book
  <2>2. id <= lastId \/ (source = "candles" /\ lastId = 0 /\ \A i \in InboxIds : id < i)
    BY <1>1, <2>1 DEF Seen, Running
  <2>3. ASSUME source = "candles", \A i \in InboxIds : id < i, NEW i \in InboxIds' PROVE id < i
    <3>1. CASE MarketTrade
      <4>1. Send(TradeMsg(Len(market) + 1))
        BY <3>1 DEF MarketTrade
      <4>2. /\ TradeMsg(Len(market) + 1) \in Messages
            /\ TradeMsg(Len(market) + 1).kind = "trade"
            /\ TradeMsg(Len(market) + 1).id = Len(market) + 1
        BY <1>1, MarketTypes DEF TradeMsg, Messages
      <4>3. /\ ~up => inbox' = inbox
            /\ up => InboxIds' = InboxIds \cup {Len(market) + 1}
        BY <1>1, <4>1, <4>2, InboxSent
      <4>4. i \in InboxIds \/ i = Len(market) + 1
        BY <2>3, <4>3 DEF InboxIds
      <4>5. id \in Ids
        <5>1. Chained(SessionBars, since, market)
          BY <2>1 DEF LiveInv, Taped, Running
        <5>2. PICK k \in DOMAIN SessionBars : id \in ToSet(SessionBars[k].trades)
          BY <2>1 DEF TradesIn
        <5>3. k \in 1 .. Len(SessionBars)
          <6>1. live \in Seq(Bar) /\ todo \in Seq(Bar)
            BY <1>1, SessionTypes
          <6>2. Waiting \in Seq(Bar)
            BY <6>1 DEF Waiting
          <6>3. live \o Waiting \in Seq(Bar)
            BY <6>1, <6>2
          <6>4. DOMAIN SessionBars = 1 .. Len(SessionBars)
            BY <6>3 DEF SessionBars
          <6> QED
            BY <5>2, <6>4
        <5> QED
          BY <1>1, <5>1, <5>2, <5>3, MarketTypes DEF Chained, Sound
      <4> QED
        BY <1>1, <2>3, <4>4, <4>5, MarketTypes
    <3>2. CASE MarketQuote
      <4>1. QuoteMsg(now) \in Messages /\ QuoteMsg(now).kind # "trade"
        BY MarketTypes, <1>1 DEF QuoteMsg, Messages
      <4>2. up /\ Send(QuoteMsg(now))
        BY <3>2 DEF MarketQuote
      <4>3. InboxIds' = InboxIds
        BY <1>1, <4>1, <4>2, InboxSent
      <4> QED
        BY <2>3, <4>3
    <3>3. CASE ~MarketTrade /\ ~MarketQuote
      <4>1. inbox' = inbox \/ inbox' = <<>>
        BY <1>2, <2>3, <3>3 DEF Still, Tick, Drop, Connect, CatchUp, HandleBar, CloseBar,
           Rebalance, SaveEquity, feed
      <4>2. i \in InboxIds
        BY <2>3, <4>1 DEF InboxIds
      <4> QED
        BY <2>3, <4>2
    <3> QED
      BY <3>1, <3>2, <3>3
  <2> QED
    BY <2>1, <2>2, <2>3
<1>3. CASE Ending
  BY <1>3 DEF Ending, StartSession, CatchUpFails, StrategyFails, Stop, Running
<1>4. CASE Bootstrap
  <2>1. UNCHANGED <<source, up, inbox>> /\ phase = "bootstrapping"
    BY <1>4 DEF Bootstrap, feed
  <2>2. PICK completed, current, last : /\ Boot(completed, current, last)
                                        /\ Startable(completed, current, last)
    <3>1. ~\E why \in {"page limit", "too few bars", "no trades"} : Refuse(why)
      BY DEF Refuse, Running
    <3> QED
      BY <1>4, <3>1, BootSteps DEF LiveInv
  <2>3. agg' = current /\ lastId' = last /\ live' = <<>> /\ todo' = <<>>
    BY <2>2 DEF Boot
  <2>4. id \in ToSet(current.trades)
    <3>1. Waiting' = <<>>
      BY <2>3 DEF Waiting
    <3>2. <<>> \o <<>> = <<>> /\ Append(<<>>, current) = <<current>>
      OBVIOUS
    <3>3. SessionBars' = <<current>>
      BY <2>3, <3>1, <3>2, Zenon DEF SessionBars
    <3>4. DOMAIN <<current>> = {1} /\ <<current>>[1] = current
      OBVIOUS
    <3> QED
      BY <3>3, <3>4 DEF TradesIn
  <2>5. CASE last # 0
    BY <2>2, <2>3, <2>4, <2>5 DEF Startable
  <2>6. CASE last = 0
    <3>1. current.trades # <<>>
      BY <2>4 DEF ToSet
    <3>2. source = "candles"
      BY <2>2, <2>6, <3>1 DEF Startable
    <3>3. inbox' = <<>>
      BY <2>1 DEF LiveInv, Delivered, Running
    <3>4. InboxIds' = {}
      BY <3>3 DEF InboxIds
    <3> QED
      BY <2>1, <2>3, <2>6, <3>2, <3>4
  <2> QED
    BY <2>5, <2>6
<1>5. CASE Event
  <2>1. /\ Reading /\ live' = live
        /\ \/ \E i \in Ids : (i \in InboxIds \/ lastId # 0) /\ HandleTrade(i)
           \/ \E t \in Nat : HandleClock(t)
        /\ source' = source /\ InboxIds' \subseteq InboxIds
    BY <1>5, EventSteps, Zenon
  <2>2. \/ UNCHANGED lastId /\ TradesIn(SessionBars') = TradesIn(SessionBars)
        \/ \A j \in TradesIn(SessionBars') : j <= lastId'
    BY <2>1, TradeHandled, ClockHandled, Zenon
  <2>3. CASE UNCHANGED lastId /\ TradesIn(SessionBars') = TradesIn(SessionBars)
    <3>1. id <= lastId \/ (source = "candles" /\ lastId = 0 /\ \A i \in InboxIds : id < i)
      BY <1>1, <2>1, <2>3 DEF Seen, Reading
    <3> QED
      BY <2>1, <2>3, <3>1
  <2> QED
    BY <2>2, <2>3
<1> QED
  BY <1>2, <1>3, <1>4, <1>5 DEF Next, RunStep, Event, Still, Ending
\* Every step keeps the invariant.
LEMMA LiveInvKept == LiveInv /\ [Next]_vars => LiveInv'
<1> SUFFICES ASSUME LiveInv, [Next]_vars PROVE LiveInv'
  OBVIOUS
<1>1. CASE Next
  BY <1>1, TypesKept, TimelyKept, DeliveredKept, PlacesKept, TapedKept, SeenKept DEF LiveInv
<1>2. CASE UNCHANGED vars
  <2>1. UNCHANGED <<now, market, up, inbox, left>>
    BY <1>2, Zenon DEF vars, feed
  <2>2. UNCHANGED <<db, source, phase, asked, pages, refusal>>
    BY <1>2, Zenon DEF vars, boot
  <2>3. UNCHANGED <<agg, lastId, since, first, late, live, todo, batch>>
    BY <1>2, Zenon DEF vars, book, work
  <2>4. UNCHANGED <<at, decision, target, position, equity>>
    BY <1>2, Zenon DEF vars, work, account
  <2>5. TypeOK'
    <3>1. WorldOK' /\ StoreOK' /\ BookOK' /\ TaskOK'
      BY <2>1, <2>2, <2>3, <2>4, PartsKept DEF LiveInv
    <3>2. (WorldOK' /\ StoreOK' /\ BookOK' /\ TaskOK') => TypeOK'
      BY TypeParts, PTL
    <3> QED
      BY <3>1, <3>2
  <2>6. Timely' /\ Delivered'
    BY <2>1, <2>2, <2>3 DEF LiveInv, Timely, Delivered, Ids, InboxIds, Running
  <2>7. Places'
    BY <2>2, <2>3, <2>4 DEF LiveInv, Places
  <2>8. SessionBars' = SessionBars
    BY <2>3, <2>4 DEF SessionBars, Waiting
  <2>9. Taped' /\ Seen'
    BY <2>1, <2>2, <2>3, <2>8 DEF LiveInv, Taped, Seen, Running, InboxIds
  <2> QED
    BY <2>5, <2>6, <2>7, <2>9 DEF LiveInv
<1> QED
  BY <1>1, <1>2

\* Every state of a session satisfies the invariant.
LEMMA LiveInvariant == Spec => []LiveInv
BY LiveStarts, LiveInvKept, PTL DEF Spec

\* Every variable of a session has its type (live.py, market.py).
THEOREM LiveTyped == Spec => []TypeOK
<1>1. LiveInv => TypeOK
  BY DEF LiveInv
<1> QED
  BY <1>1, LiveInvariant, PTL

\* A trade is counted at most once, in the order of the exchange and in the bar
\* of its own interval, however the feed and the REST history replay it
\* (live.py: _handle_trade, market.py: add_trade).
THEOREM CountedOnce == Spec => []TradesCountedOnce
<1>1. LiveInv => TradesCountedOnce
  <2> SUFFICES ASSUME LiveInv, Running PROVE TradesCountedOnce
    BY DEF TradesCountedOnce
  <2>1. Chained(SessionBars, since, market)
    BY DEF LiveInv, Taped
  <2>2. DOMAIN SessionBars = 1 .. Len(SessionBars)
    <3>1. live \in Seq(Bar) /\ todo \in Seq(Bar)
      BY SessionTypes DEF LiveInv
    <3>2. Waiting \in Seq(Bar)
      BY <3>1 DEF Waiting
    <3>3. live \o Waiting \in Seq(Bar)
      BY <3>1, <3>2
    <3> QED
      BY <3>3 DEF SessionBars
  <2>3. ASSUME NEW bar \in ToSet(SessionBars) PROVE Sound(bar, market)
    BY <2>1, <2>2, Zenon DEF Chained, ToSet
  <2>4. ASSUME NEW bar \in ToSet(SessionBars)
        PROVE  /\ \A m, n \in DOMAIN bar.trades : m < n => bar.trades[m] < bar.trades[n]
               /\ \A id \in ToSet(bar.trades) : Bucket(market[id]) = bar.ts
    BY <2>3, Zenon DEF Sound, Rising
  <2>5. \A j, k \in DOMAIN SessionBars : j < k =>
          \A a \in ToSet(SessionBars[j].trades), b \in ToSet(SessionBars[k].trades) : a < b
    BY <2>1, <2>2 DEF Chained
  <2> QED
    BY <2>4, <2>5 DEF TradesCountedOnce
<1> QED
  BY <1>1, LiveInvariant, PTL

\* The bar closed next is the one after those closed.
LEMMA NextOnTape ==
  ASSUME LiveInv, Running, at = "bar"
  PROVE  Head(todo) \in Bar /\ Head(todo).ts = since + Len(live) * TF
<1>1. live \in Seq(Bar) /\ todo \in Seq(Bar) /\ todo # <<>> /\ Head(todo) \in Bar
  BY NextBar, SessionTypes DEF LiveInv
<1>2. Chained(SessionBars, since, market) /\ SessionBars = Append(live \o todo, agg)
  BY DEF LiveInv, Taped, SessionBars, Waiting
<1> DEFINE both == live \o todo
           n == Len(live)
<1>3. /\ both \in Seq(Bar) /\ n \in Nat /\ Len(both) >= n + 1 /\ both[n + 1] = Head(todo)
      /\ Len(both) \in Nat
  BY <1>1
<1>4. /\ Len(Append(both, agg)) = Len(both) + 1
      /\ \A k \in 1 .. Len(both) : Append(both, agg)[k] = both[k]
  BY <1>3
<1> HIDE DEF both, n
<1>5. n + 1 \in 1 .. Len(both) /\ n + 1 \in 1 .. Len(both) + 1
  BY <1>3
<1>6. SessionBars[n + 1] = Head(todo) /\ n + 1 \in 1 .. Len(SessionBars)
  BY <1>2, <1>3, <1>4, <1>5 DEF both
<1>7. Head(todo).ts = since + n * TF
  <2>1. \A k \in 1 .. Len(SessionBars) : SessionBars[k].ts = since + (k - 1) * TF
    BY <1>2, Zenon DEF Chained
  <2>2. PICK m \in 1 .. Len(SessionBars) : m = n + 1
    BY <1>6
  <2>3. SessionBars[m].ts = since + (m - 1) * TF
    BY <2>1
  <2>4. m - 1 = n /\ SessionBars[m] = Head(todo)
    BY <1>3, <1>6, <2>2
  <2> QED
    BY <2>3, <2>4
<1> QED
  BY <1>1, <1>7 DEF n

\* The bars the strategy is shown and the database keeps are an append-only
\* tape without holes: a session implements the specification of BarTape
\* (live.py: _on_closed_bar, _bootstrap).
THEOREM LiveTape == Spec => BarsAreTape
<1>1. Init => Tape!Init
  BY DEF Init, Tape!Init
<1>2. LiveInv /\ [Next]_vars => [Tape!Next]_<<live, since>>
  <2> SUFFICES ASSUME LiveInv, [Next]_vars PROVE Tape!Next \/ UNCHANGED <<live, since>>
    OBVIOUS
  <2>1. live \in Seq(Bar)
    BY SessionTypes DEF LiveInv
  <2>2. CASE CloseBar \/ StrategyFails
    <3>1. /\ Running /\ at = "bar" /\ live' = Append(live, Head(todo)) /\ since' = since
      BY <2>2 DEF CloseBar, StrategyFails, book
    <3>2. Head(todo) \in Bar /\ Head(todo).ts = since + Len(live) * TF
      BY <3>1, NextOnTape
    <3>3. Len(live') = Len(live) + 1 /\ live'[Len(live')] = Head(todo)
      BY <2>1, <3>1, <3>2
    <3>4. Tape!Extend
      BY <3>1, <3>2, <3>3 DEF Tape!Extend
    <3> QED
      BY <3>4 DEF Tape!Next
  <2>3. CASE Bootstrap
    <3>1. CASE \E why \in {"page limit", "too few bars", "no trades"} : Refuse(why)
      BY <3>1 DEF Refuse, book
    <3>2. CASE \E completed, current, id : Boot(completed, current, id)
      BY <3>2 DEF Boot, Tape!Next, Tape!Cut
    <3> QED
      BY <2>3, <3>1, <3>2, BootSteps DEF LiveInv
  <2>4. CASE Event
    <3>1. /\ Reading /\ live' = live
          /\ \/ \E i \in Ids : (i \in InboxIds \/ lastId # 0) /\ HandleTrade(i)
             \/ \E t \in Nat : HandleClock(t)
      BY <2>4, EventSteps, Zenon
    <3> QED
      BY <3>1, TradeHandled, ClockHandled, Zenon
  <2>5. CASE UNCHANGED vars
    BY <2>5, Zenon DEF vars, book
  <2>6. CASE \/ Tick \/ MarketTrade \/ MarketQuote \/ Drop \/ StartSession \/ Connect \/ CatchUp
             \/ Rebalance \/ SaveEquity \/ CatchUpFails \/ Stop
    BY <2>6, Zenon DEF Tick, MarketTrade, MarketQuote, Drop, StartSession, Connect, CatchUp,
       Rebalance, SaveEquity, CatchUpFails, Stop, book
  <2> QED
    BY <2>2, <2>3, <2>4, <2>5, <2>6 DEF Next, RunStep, HandleBar, Event
<1> QED
  BY <1>1, <1>2, LiveInvariant, PTL DEF Spec, BarsAreTape, Tape!Spec
----------------------------------------------------------------------------
(* No trade is skipped.                                                     *)

\* The trades since two bars before the last one seen fit a page, when a
\* session asks for what it missed: live.py:294-303 does not look at
\* history.complete.
MissedFitsPage ==
  Running /\ at = "connected" /\ lastId # 0 /\ source = "trades" =>
    Cardinality(Available(CatchUpFrom, now)) <= PageSize

\* Trades of one second are no more than the market makes in one.
ThisSecond == {i \in Ids : market[i] = now}
Busy == Cardinality(ThisSecond) <= MaxPerSecond

\* The trades on their way follow each other, up to the latest.
Lined ==
  \A k, l \in DOMAIN inbox :
    k < l /\ inbox[k].kind = "trade" /\ inbox[l].kind = "trade" => inbox[k].id < inbox[l].id
Suffix == \A i \in InboxIds, j \in Ids : i < j => j \in InboxIds

\* So do those of a catch-up, from a trade on that was seen or is the next.
InBatch ==
  batch # <<>> => /\ batch[1] <= lastId + 1
                  /\ \A k \in DOMAIN batch : batch[k] = batch[1] + k - 1

\* A session that asks for what it missed is sent the rest; one that has asked
\* has every later trade before it.
Ahead ==
  Running /\ source = "trades" /\ up =>
    /\ at = "connected" => \A id \in Ids : id \in InboxIds \/ market[id] < now
    /\ at # "connected" /\ lastId # 0 =>
         \A id \in Ids : id > lastId => id \in ToSet(batch) \cup InboxIds

\* A session that has seen no trade counts from the first it sees.
Fresh == Running /\ lastId = 0 => first = 0

SkipInv == Busy /\ Lined /\ Suffix /\ InBatch /\ Ahead /\ Fresh /\ NoTradeSkipped

\* A session that counts the next trade skips none.
LEMMA CountsNext ==
  ASSUME LiveInv, Fresh, NoTradeSkipped, Reading, NEW i \in Ids, HandleTrade(i), live' = live,
         i \in InboxIds \/ lastId # 0, source' = source,
         source = "trades" => i <= lastId + 1 \/ lastId = 0
  PROVE  NoTradeSkipped' /\ Fresh'
<1>1. lastId \in Nat /\ first \in Nat /\ i \in Nat /\ i > 0
  BY SessionTypes, MarketTypes DEF LiveInv
<1>2. /\ TradesIn(SessionBars) \subseteq TradesIn(SessionBars')
      /\ \/ /\ i <= lastId /\ UNCHANGED <<lastId, first, late>>
            /\ TradesIn(SessionBars') = TradesIn(SessionBars)
         \/ /\ i > lastId /\ lastId' = i /\ first' = (IF first = 0 THEN i ELSE first)
            /\ late \subseteq late' /\ i \in late' \union TradesIn(SessionBars')
  BY TradeHandled
<1>3. CASE i <= lastId
  BY <1>1, <1>2, <1>3 DEF Fresh, NoTradeSkipped, Reading
<1>4. CASE i > lastId
  <2>1. /\ lastId' = i /\ first' = (IF first = 0 THEN i ELSE first)
        /\ late \subseteq late' /\ i \in late' \union TradesIn(SessionBars')
    BY <1>1, <1>2, <1>4
  <2>2. Fresh'
    BY <1>1, <2>1 DEF Fresh
  <2>3. ASSUME source = "trades", NEW id \in first' .. i
        PROVE  id \in late' \union TradesIn(SessionBars')
    <3>1. CASE first = 0
      BY <1>1, <2>1, <2>3, <3>1
    <3>2. CASE first # 0
      <4>1. lastId # 0 /\ i = lastId + 1
        BY <1>1, <1>4, <2>3, <3>2 DEF Fresh, Reading
      <4>2. first .. lastId \subseteq late \union TradesIn(SessionBars)
        BY <2>3, <3>2 DEF NoTradeSkipped, Reading
      <4>3. id = i \/ id \in first .. lastId
        BY <1>1, <2>1, <2>3, <3>2, <4>1
      <4> QED
        BY <1>2, <2>1, <4>2, <4>3
    <3> QED
      BY <3>1, <3>2
  <2> QED
    BY <2>1, <2>2, <2>3 DEF NoTradeSkipped
<1> QED
  BY <1>1, <1>3, <1>4

\* The clock counts no trade.
LEMMA ClockCountsNone ==
  ASSUME LiveInv, Fresh, NoTradeSkipped, Reading, NEW t \in Nat, HandleClock(t), live' = live,
         source' = source
  PROVE  NoTradeSkipped' /\ Fresh'
BY ClockHandled DEF NoTradeSkipped, Fresh, Reading

\* Reading what is received in order leaves what comes after it.
LEMMA ReadInOrder ==
  ASSUME TypeOK, inbox # <<>>, inbox' = Tail(inbox), Lined
  PROVE  /\ Lined'
         /\ Head(inbox).kind = "trade" =>
              /\ InboxIds = InboxIds' \cup {Head(inbox).id}
              /\ \A j \in InboxIds' : Head(inbox).id < j
         /\ Head(inbox).kind # "trade" => InboxIds' = InboxIds
<1>1. inbox \in Seq(Messages)
  BY SessionTypes
<1>2. /\ Head(inbox) = inbox[1] /\ Len(inbox) \in Nat /\ DOMAIN inbox = 1 .. Len(inbox)
      /\ Len(inbox) >= 1 /\ DOMAIN inbox' = 1 .. Len(inbox) - 1
      /\ \A k \in 1 .. Len(inbox) - 1 : inbox'[k] = inbox[k + 1]
  BY <1>1
<1>3. \A k \in 1 .. Len(inbox) - 1 : k + 1 \in DOMAIN inbox /\ 1 < k + 1
  BY <1>2
<1>4. \A k \in DOMAIN inbox : k = 1 \/ (k - 1 \in 1 .. Len(inbox) - 1 /\ k - 1 + 1 = k)
  BY <1>2
<1>5. Lined'
  <2> SUFFICES ASSUME NEW k \in 1 .. Len(inbox) - 1, NEW l \in 1 .. Len(inbox) - 1, k < l,
                      inbox'[k].kind = "trade", inbox'[l].kind = "trade"
               PROVE  inbox'[k].id < inbox'[l].id
    BY <1>2 DEF Lined
  <2>1. k + 1 < l + 1 /\ k + 1 \in DOMAIN inbox /\ l + 1 \in DOMAIN inbox
    BY <1>2, <1>3
  <2> QED
    BY <1>2, <2>1 DEF Lined
<1>6. InboxIds' \subseteq InboxIds
  BY <1>2, <1>3 DEF InboxIds
<1>7. InboxIds \subseteq InboxIds' \cup (IF Head(inbox).kind = "trade" THEN {Head(inbox).id} ELSE {})
  <2> SUFFICES ASSUME NEW k \in DOMAIN inbox, inbox[k].kind = "trade"
               PROVE  inbox[k].id \in InboxIds'
                        \cup (IF Head(inbox).kind = "trade" THEN {Head(inbox).id} ELSE {})
    BY DEF InboxIds
  <2>1. CASE k = 1
    BY <1>2, <2>1
  <2>2. CASE k # 1
    <3>1. PICK l \in 1 .. Len(inbox) - 1 : l + 1 = k
      BY <1>4, <2>2
    <3>2. inbox'[l] = inbox[k] /\ l \in DOMAIN inbox'
      BY <1>2, <3>1
    <3> QED
      BY <3>2 DEF InboxIds
  <2> QED
    BY <2>1, <2>2
<1>8. ASSUME Head(inbox).kind = "trade", NEW j \in InboxIds' PROVE Head(inbox).id < j
  <2>1. PICK k \in 1 .. Len(inbox) - 1 : inbox'[k].kind = "trade" /\ j = inbox'[k].id
    BY <1>2 DEF InboxIds
  <2>2. k + 1 \in DOMAIN inbox /\ 1 < k + 1 /\ 1 \in DOMAIN inbox
    BY <1>2, <1>3
  <2> QED
    BY <1>2, <1>8, <2>1, <2>2 DEF Lined
<1>9. Head(inbox).kind = "trade" => Head(inbox).id \in InboxIds
  BY <1>2 DEF InboxIds
<1> QED
  BY <1>5, <1>6, <1>7, <1>8, <1>9

\* A message sent last keeps the order, if it is not a trade or a later one.
LEMMA SentInOrder ==
  ASSUME TypeOK, NEW msg \in Messages, Send(msg), Lined,
         msg.kind = "trade" => \A i \in InboxIds : i < msg.id
  PROVE  Lined'
<1>1. inbox \in Seq(Messages)
  BY SessionTypes
<1>2. CASE up
  <2>1. inbox' = Append(inbox, msg)
    BY <1>2 DEF Send
  <2> DEFINE n == Len(inbox)
  <2>2. /\ DOMAIN inbox' = 1 .. n + 1 /\ n \in Nat /\ DOMAIN inbox = 1 .. n
        /\ inbox'[n + 1] = msg /\ \A k \in 1 .. n : inbox'[k] = inbox[k]
    BY <1>1, <2>1
  <2> HIDE DEF n
  <2>3. \A k \in 1 .. n + 1 : k = n + 1 \/ k \in 1 .. n
    BY <2>2
  <2> SUFFICES ASSUME NEW k \in 1 .. n + 1, NEW l \in 1 .. n + 1, k < l,
                      inbox'[k].kind = "trade", inbox'[l].kind = "trade"
               PROVE  inbox'[k].id < inbox'[l].id
    BY <2>2 DEF Lined
  <2>4. k \in 1 .. n
    BY <2>2, <2>3
  <2>5. CASE l = n + 1
    <3>1. inbox[k].id \in InboxIds
      BY <2>2, <2>4 DEF InboxIds
    <3> QED
      BY <2>2, <2>4, <2>5, <3>1
  <2>6. CASE l \in 1 .. n
    BY <2>2, <2>4, <2>6 DEF Lined
  <2> QED
    BY <2>3, <2>5, <2>6
<1>3. CASE ~up
  BY <1>3 DEF Send, Lined
<1> QED
  BY <1>2, <1>3

\* The latest trades cover the second under way.
LEMMA LatestCoverNow ==
  ASSUME TypeOK, Timely, Busy, MaxPerSecond <= SnapshotSize, NEW id \in Ids
  PROVE  id \in Latest \/ market[id] < now
<1>1. /\ Len(market) \in Nat /\ Ids = 1 .. Len(market) /\ now \in Nat
      /\ \A i \in Ids : market[i] \in Nat
  BY MarketTypes
<1>2. MaxPerSecond \in Nat /\ SnapshotSize \in Nat
  BY Parameters
<1> SUFFICES ASSUME id \notin Latest, ~(market[id] < now) PROVE FALSE
  OBVIOUS
<1> DEFINE S == ThisSecond
           n == Len(market)
<1>3. market[id] = now
  BY <1>1 DEF Timely
<1>4. id + SnapshotSize <= n
  BY <1>1, <1>2 DEF Latest
<1>5. id .. n \subseteq S
  <2> SUFFICES ASSUME NEW j \in id .. n PROVE j \in Ids /\ market[j] = now
    BY DEF ThisSecond
  <2>1. j \in Ids /\ (j = id \/ id < j)
    BY <1>1
  <2>2. market[id] <= market[j] /\ market[j] <= now
    BY <1>1, <2>1 DEF Timely
  <2> QED
    BY <1>1, <1>3, <2>1, <2>2
<1>6. IsFiniteSet(S)
  <2>1. IsFiniteSet(1 .. n)
    BY <1>1, FS_Interval
  <2>2. S \subseteq 1 .. n
    BY <1>1 DEF ThisSecond
  <2> QED
    BY <2>1, <2>2, FS_Subset
<1>7. Cardinality(id .. n) <= Cardinality(S)
  <2> HIDE DEF S
  <2> QED
    BY <1>5, <1>6, FS_Subset
<1>8. Cardinality(id .. n) = n - id + 1
  BY <1>1, <1>4, <1>2, FS_Interval
<1>9. Cardinality(S) \in Nat
  BY <1>6, FS_CardinalityType
<1>10. Cardinality(S) <= MaxPerSecond
  BY DEF Busy
<1> HIDE DEF S
<1> QED
  BY <1>1, <1>2, <1>4, <1>7, <1>8, <1>9, <1>10

\* A catch-up brings every trade missed, from one that was seen or the next on.
LEMMA MissedCaughtUp ==
  ASSUME TypeOK, Timely, lastId \in Ids, Cardinality(Available(CatchUpFrom, now)) <= PageSize
  PROVE  LET ids == Fetch(CatchUpFrom, now).ids
             got == InOrder(ids)
         IN /\ \A id \in Ids : id > lastId /\ market[id] < now => id \in ToSet(got)
            /\ got # <<>> => /\ got[1] <= lastId + 1
                             /\ \A k \in DOMAIN got : got[k] = got[1] + k - 1
<1> DEFINE ids == Fetch(CatchUpFrom, now).ids
           got == InOrder(ids)
<1>1. /\ Len(market) \in Nat /\ Ids = 1 .. Len(market) /\ now \in Nat
      /\ \A i \in Ids : market[i] \in Nat
  BY MarketTypes
<1>2. /\ CatchUpFrom \in Nat /\ ToSet(got) = ids /\ got \in Seq(Nat)
      /\ ids # {} => \E a, b \in Ids : /\ a <= b /\ ids = a .. b
                                       /\ got = [k \in 1 .. b - a + 1 |-> a + k - 1]
  BY CaughtUp
<1>3. CatchUpFrom <= market[lastId]
  BY <1>1, Parameters DEF CatchUpFrom
<1>4. ids = Available(CatchUpFrom, now)
  BY <1>1, <1>2, Fetched
<1>5. ASSUME NEW id \in Ids, id > lastId, market[id] < now PROVE id \in ids /\ lastId \in ids
  <2>1. market[lastId] <= market[id]
    BY <1>1, <1>5 DEF Timely
  <2>2. CatchUpFrom <= market[id] /\ market[lastId] < now
    BY <1>1, <1>2, <1>3, <1>5, <2>1
  <2> QED
    BY <1>3, <1>4, <1>5, <2>2 DEF Available
<1> HIDE DEF ids, got
<1>8. \A id \in Ids : id > lastId /\ market[id] < now => id \in ToSet(got)
  BY <1>2, <1>5
<1>6. ASSUME got # <<>>
      PROVE  got[1] <= lastId + 1 /\ \A k \in DOMAIN got : got[k] = got[1] + k - 1
  <2>1. ids # {}
    <3>1. Len(got) \in Nat /\ DOMAIN got = 1 .. Len(got) /\ Len(got) # 0
      BY <1>2, <1>6
    <3>2. got[1] \in ToSet(got)
      BY <3>1 DEF ToSet
    <3> QED
      BY <1>2, <3>2
  <2>2. PICK a, b \in Ids : /\ a <= b /\ ids = a .. b
                            /\ got = [k \in 1 .. b - a + 1 |-> a + k - 1]
    BY <1>2, <2>1
  <2>3. DOMAIN got = 1 .. b - a + 1 /\ got[1] = a /\ \A k \in DOMAIN got : got[k] = a + k - 1
    BY <1>1, <2>2
  <2>4. a <= lastId + 1
    <3>1. a \in ids
      BY <1>1, <2>2
    <3>2. market[a] < now
      BY <1>4, <3>1 DEF Available
    <3>3. a > lastId => lastId \in a .. b
      BY <1>5, <2>2, <3>2
    <3> QED
      BY <1>1, <3>3
  <2> QED
    BY <2>3, <2>4
<1> QED
  BY <1>6, <1>8, Zenon DEF ids, got
\* The second under way is never too busy.
LEMMA BusyKept == LiveInv /\ Busy /\ Next => Busy'
<1> SUFFICES ASSUME LiveInv, Busy, Next PROVE Busy'
  OBVIOUS
<1>1. /\ market \in Seq(Nat) /\ Len(market) \in Nat /\ Ids = 1 .. Len(market) /\ now \in Nat
      /\ MaxPerSecond \in Nat
  BY MarketTypes, Parameters DEF LiveInv
<1>2. CASE Tick
  <2>1. now' = now + 1 /\ market' = market /\ Ids' = Ids
    BY <1>2 DEF Tick, Ids
  <2>2. \A i \in Ids : market[i] <= now /\ market[i] \in Nat
    BY <1>1 DEF LiveInv, Timely
  <2>3. ThisSecond' = {}
    BY <1>1, <2>1, <2>2 DEF ThisSecond
  <2>4. Cardinality(ThisSecond') = 0
    BY <2>3, FS_EmptySet
  <2> QED
    BY <1>1, <2>4 DEF Busy
<1>3. CASE MarketTrade
  <2> DEFINE S == ThisSecond
             n == Len(market) + 1
  <2>1. now' = now /\ market' = Append(market, now) /\ Cardinality(S) < MaxPerSecond
    BY <1>3 DEF MarketTrade, ThisSecond
  <2>2. Ids' = 1 .. n /\ market'[n] = now /\ \A i \in Ids : market'[i] = market[i]
    BY <1>1, <2>1 DEF Ids
  <2>3. \A i \in 1 .. n : i = n \/ i \in Ids
    BY <1>1
  <2>4. n \in 1 .. n /\ \A i \in Ids : i \in 1 .. n
    BY <1>1
  <2>5. ThisSecond' = S \cup {n}
    BY <2>1, <2>2, <2>3, <2>4 DEF ThisSecond
  <2>6. IsFiniteSet(S)
    <3>1. IsFiniteSet(1 .. Len(market)) /\ S \subseteq 1 .. Len(market)
      BY <1>1, FS_Interval DEF ThisSecond
    <3> QED
      BY <3>1, FS_Subset
  <2> HIDE DEF S
  <2>7. Cardinality(S) \in Nat
    BY <2>6, FS_CardinalityType
  <2>8. Cardinality(S \cup {n}) = IF n \in S THEN Cardinality(S) ELSE Cardinality(S) + 1
    BY <2>6, FS_AddElement
  <2> HIDE DEF n
  <2>9. Cardinality(S \cup {n}) \in Nat /\ Cardinality(S \cup {n}) <= Cardinality(S) + 1
    BY <2>7, <2>8
  <2>10. Cardinality(ThisSecond') = Cardinality(S \cup {n})
    BY <2>5
  <2> QED
    BY <1>1, <2>1, <2>7, <2>9, <2>10 DEF Busy, S
<1>4. CASE UNCHANGED <<now, market>>
  BY <1>4 DEF Busy, ThisSecond, Ids
<1> QED
  BY <1>2, <1>3, <1>4, Zenon DEF Next, MarketQuote, Drop, StartSession, Bootstrap, RunStep,
     HandleBar, Connect, CatchUp, CatchUpTrade, Receive, ClockEvent, CloseBar, Rebalance,
     SaveEquity, CatchUpFails, StrategyFails, Stop

\* What is on its way stays in order, up to the latest trade.
LEMMA LinedKept == LiveInv /\ Lined /\ Suffix /\ Next => Lined' /\ Suffix'
<1> SUFFICES ASSUME LiveInv, Lined, Suffix, Next PROVE Lined' /\ Suffix'
  OBVIOUS
<1>1. /\ TypeOK /\ market \in Seq(Nat) /\ Len(market) \in Nat /\ Ids = 1 .. Len(market)
      /\ InboxIds \subseteq Ids
  BY MarketTypes DEF LiveInv, Delivered
<1>2. CASE MarketTrade
  <2> DEFINE n == Len(market) + 1
  <2>1. market' = Append(market, now) /\ Send(TradeMsg(n))
    BY <1>2 DEF MarketTrade
  <2>2. TradeMsg(n) \in Messages /\ TradeMsg(n).kind = "trade" /\ TradeMsg(n).id = n
    BY <1>1 DEF TradeMsg, Messages
  <2>3. \A i \in InboxIds : i < n
    BY <1>1
  <2>4. Lined'
    BY <1>1, <2>1, <2>2, <2>3, SentInOrder
  <2>5. /\ ~up => inbox' = inbox
        /\ up => InboxIds' = InboxIds \cup {n}
    BY <1>1, <2>1, <2>2, InboxSent
  <2>6. Ids' = 1 .. n
    BY <1>1, <2>1, MarketTypes DEF Ids
  <2>7. \A i \in 1 .. n : i = n \/ i \in Ids
    BY <1>1
  <2>8. Suffix'
    <3>1. CASE up
      <4> SUFFICES ASSUME NEW i \in InboxIds', NEW j \in 1 .. n, i < j PROVE j \in InboxIds'
        BY <2>6 DEF Suffix
      <4>1. InboxIds' = InboxIds \cup {n}
        BY <2>5, <3>1
      <4>2. i # n
        BY <1>1
      <4>3. i \in InboxIds
        BY <4>1, <4>2
      <4> QED
        BY <2>7, <4>1, <4>3 DEF Suffix
    <3>2. CASE ~up
      <4>1. inbox' = <<>>
        BY <2>5, <3>2 DEF LiveInv, Delivered
      <4> QED
        BY <4>1 DEF Suffix, InboxIds
    <3> QED
      BY <3>1, <3>2
  <2> QED
    BY <2>4, <2>8
<1>3. CASE MarketQuote
  <2>1. up /\ Send(QuoteMsg(now)) /\ market' = market
    BY <1>3 DEF MarketQuote
  <2>2. QuoteMsg(now) \in Messages /\ QuoteMsg(now).kind # "trade"
    BY <1>1, MarketTypes DEF QuoteMsg, Messages
  <2>3. Lined' /\ InboxIds' = InboxIds
    BY <1>1, <2>1, <2>2, InboxSent, SentInOrder
  <2> QED
    BY <2>1, <2>3 DEF Suffix, Ids
<1>4. CASE Receive
  <2>1. inbox # <<>> /\ inbox' = Tail(inbox) /\ market' = market
    BY <1>4 DEF Receive
  <2>2. /\ Lined'
        /\ Head(inbox).kind = "trade" =>
             /\ InboxIds = InboxIds' \cup {Head(inbox).id}
             /\ \A j \in InboxIds' : Head(inbox).id < j
        /\ Head(inbox).kind # "trade" => InboxIds' = InboxIds
    BY <1>1, <2>1, ReadInOrder
  <2>3. ASSUME NEW i \in InboxIds', NEW j \in Ids, i < j PROVE j \in InboxIds'
    <3>1. i \in InboxIds
      BY <2>2
    <3>2. j \in InboxIds
      BY <2>3, <3>1 DEF Suffix
    <3>3. CASE Head(inbox).kind = "trade"
      <4>1. Head(inbox).id < i /\ Head(inbox).id \in InboxIds
        BY <2>2, <3>3
      <4>2. j # Head(inbox).id
        <5>1. Head(inbox).id \in Ids /\ i \in Ids
          BY <1>1, <3>1, <4>1
        <5>2. \A k \in Ids : k \in Nat
          BY <1>1
        <5> QED
          BY <2>3, <4>1, <5>1, <5>2
      <4> QED
        BY <2>2, <3>2, <3>3, <4>2
    <3>4. CASE Head(inbox).kind # "trade"
      BY <2>2, <3>2, <3>4
    <3> QED
      BY <3>3, <3>4
  <2> QED
    BY <2>1, <2>2, <2>3 DEF Suffix, Ids
<1>5. CASE Connect
  <2>1. market' = market
    BY <1>5 DEF Connect
  <2>2. CASE source = "candles"
    <3>1. inbox' = <<>>
      BY <1>5, <2>2 DEF Connect
    <3> QED
      BY <3>1 DEF Lined, Suffix, InboxIds
  <2>3. CASE source # "candles"
    <3>1. inbox' = Replay(Latest)
      BY <1>5, <2>3 DEF Connect, Replay, Latest
    <3>2. /\ InboxIds' = Latest
          /\ \A k, l \in DOMAIN inbox' : k < l => inbox'[k].id < inbox'[l].id
      BY <3>1, Replayed DEF LiveInv
    <3>3. \A i \in Latest, j \in Ids : i < j => j \in Latest
      BY <1>1, Parameters DEF Latest
    <3> QED
      BY <2>1, <3>2, <3>3 DEF Lined, Suffix, Ids
  <2> QED
    BY <2>2, <2>3
<1>6. CASE UNCHANGED <<inbox, market>>
  BY <1>6 DEF Lined, Suffix, InboxIds, Ids
<1>7. CASE inbox' = <<>>
  BY <1>7 DEF Lined, Suffix, InboxIds
<1>8. CASE \/ Tick \/ Drop \/ StartSession \/ Bootstrap \/ CatchUp \/ CatchUpTrade \/ ClockEvent
           \/ HandleBar \/ CatchUpFails \/ StrategyFails \/ Stop
  <2>1. UNCHANGED <<inbox, market>> \/ inbox' = <<>>
    BY <1>8, Zenon
      DEF Tick, Drop, StartSession, Bootstrap, CatchUp, CatchUpTrade, ClockEvent,
       HandleBar, CloseBar, Rebalance, SaveEquity, CatchUpFails, StrategyFails, Stop, feed
  <2> QED
    BY <1>6, <1>7, <2>1
<1> QED
  BY <1>2, <1>3, <1>4, <1>5, <1>8 DEF Next, RunStep

\* What a catch-up brought stays consecutive, from a trade seen or the next on.
LEMMA BatchKept == LiveInv /\ InBatch /\ MissedFitsPage /\ Next => InBatch'
<1> SUFFICES ASSUME LiveInv, InBatch, MissedFitsPage, Next PROVE InBatch'
  OBVIOUS
<1>1. /\ TypeOK /\ batch \in Seq(Nat) /\ lastId \in Nat /\ Ids = 1 .. Len(market)
      /\ \A i \in Ids : i \in Nat
  BY SessionTypes, MarketTypes DEF LiveInv
<1>2. CASE CatchUp
  <2>1. lastId' = lastId /\ Running /\ at = "connected"
    BY <1>2 DEF CatchUp, book
  <2>2. CASE lastId = 0 \/ source = "candles"
    <3>1. batch' = batch
      BY <1>2, <2>2 DEF CatchUp
    <3> QED
      BY <2>1, <3>1 DEF InBatch
  <2>3. CASE ~(lastId = 0 \/ source = "candles")
    <3>1. batch' = InOrder(Fetch(CatchUpFrom, now).ids)
      BY <1>2, <2>3 DEF CatchUp
    <3>2. lastId \in Ids /\ source = "trades"
      BY <1>1, <2>3, MarketTypes, BootTypes DEF LiveInv, Delivered
    <3>3. Cardinality(Available(CatchUpFrom, now)) <= PageSize
      BY <2>1, <2>3, <3>2 DEF MissedFitsPage
    <3> QED
      BY <2>1, <3>1, <3>2, <3>3, MissedCaughtUp DEF LiveInv, InBatch
  <2> QED
    BY <2>2, <2>3
<1>3. CASE CatchUpTrade
  <2> DEFINE i == Head(batch)
  <2>1. Reading /\ batch # <<>> /\ HandleTrade(i) /\ batch' = Tail(batch) /\ live' = live
    BY <1>3 DEF CatchUpTrade
  <2>2. /\ Len(batch) \in Nat /\ DOMAIN batch = 1 .. Len(batch) /\ i = batch[1] /\ i \in Nat
        /\ DOMAIN batch' = 1 .. Len(batch) - 1
        /\ \A k \in 1 .. Len(batch) - 1 : batch'[k] = batch[k + 1] /\ k + 1 \in DOMAIN batch
    BY <1>1, <2>1
  <2>3. \A k \in 1 .. Len(batch) - 1 : batch'[k] = i + k
    BY <2>1, <2>2 DEF InBatch
  <2>4. lastId' \in Nat /\ i <= lastId'
    <3>1. i \in ToSet(batch)
      BY <2>1, <2>2, <1>1 DEF ToSet
    <3>2. i \in Ids /\ lastId # 0
      BY <2>1, <3>1 DEF LiveInv, Delivered, Places
    <3>3. (i <= lastId /\ lastId' = lastId) \/ lastId' = i
      BY <2>1, <3>2, TradeHandled
    <3> QED
      BY <1>1, <2>2, <3>3
  <2>5. ASSUME batch' # <<>>
        PROVE  batch'[1] <= lastId' + 1 /\ \A k \in DOMAIN batch' : batch'[k] = batch'[1] + k - 1
    <3>1. Len(batch) - 1 >= 1
      BY <1>1, <2>1, <2>2, <2>5
    <3> HIDE DEF i
    <3>2. batch'[1] = i + 1
      BY <2>2, <2>3, <3>1
    <3>3. \A k \in DOMAIN batch' : batch'[k] = i + k /\ k \in Nat
      BY <2>2, <2>3
    <3> QED
      BY <2>2, <2>4, <3>2, <3>3
  <2> QED
    BY <2>5 DEF InBatch
<1>4. CASE Receive \/ ClockEvent
  <2>1. batch = <<>> /\ batch' = batch
    BY <1>4 DEF Receive, ClockEvent
  <2> QED
    BY <2>1 DEF InBatch
<1>5. CASE Bootstrap
  <2>1. CASE \E why \in {"page limit", "too few bars", "no trades"} : Refuse(why)
    <3>1. UNCHANGED <<batch, lastId>>
      BY <2>1 DEF Refuse, work, book
    <3> QED
      BY <3>1 DEF InBatch
  <2>2. CASE \E completed, current, id : Boot(completed, current, id)
    BY <2>2 DEF Boot, InBatch
  <2> QED
    BY <1>5, <2>1, <2>2, BootSteps DEF LiveInv
<1>6. CASE \/ Tick \/ MarketTrade \/ MarketQuote \/ Drop \/ StartSession \/ Connect \/ HandleBar
           \/ CatchUpFails \/ StrategyFails \/ Stop
  <2>1. UNCHANGED <<batch, lastId>>
    BY <1>6, Zenon
      DEF Tick, MarketTrade, MarketQuote, Drop, StartSession, Connect, HandleBar,
       CloseBar, Rebalance, SaveEquity, CatchUpFails, StrategyFails, Stop, work, book
  <2> QED
    BY <2>1 DEF InBatch
<1> QED
  BY <1>2, <1>3, <1>4, <1>5, <1>6 DEF Next, RunStep
\* A session that has asked for what it missed has every later trade before it.
LEMMA AheadKept ==
  LiveInv /\ SkipInv /\ MissedFitsPage /\ MaxPerSecond <= SnapshotSize /\ Next => Ahead'
<1> SUFFICES ASSUME LiveInv, SkipInv, MissedFitsPage, MaxPerSecond <= SnapshotSize, Next,
                    Running', source' = "trades", up'
             PROVE  /\ at' = "connected" =>
                         \A id \in Ids' : id \in InboxIds' \/ market'[id] < now'
                    /\ at' # "connected" /\ lastId' # 0 =>
                         \A id \in Ids' : id > lastId' => id \in ToSet(batch') \cup InboxIds'
  BY DEF Ahead
<1>1. /\ TypeOK /\ Timely /\ market \in Seq(Nat) /\ Len(market) \in Nat /\ now \in Nat
      /\ Ids = 1 .. Len(market) /\ lastId \in Nat /\ batch \in Seq(Nat)
      /\ \A i \in Ids : market[i] \in Nat
  BY SessionTypes, MarketTypes DEF LiveInv
<1>2. Ahead /\ Lined /\ Suffix /\ InBatch /\ Busy
  BY DEF SkipInv
<1>3. UNCHANGED inbox => InboxIds' = InboxIds
  BY DEF InboxIds
<1>4. UNCHANGED market => Ids' = Ids
  BY DEF Ids
<1>5. CASE Tick
  <2>1. /\ now' = now + 1 /\ UNCHANGED <<market, inbox, up, phase, source, at, batch, lastId>>
    BY <1>5 DEF Tick, feed, boot, work, book
  <2>2. \A id \in Ids : market[id] < now'
    BY <1>1, <2>1 DEF Timely
  <2>3. at # "connected" /\ lastId # 0 =>
          \A id \in Ids : id > lastId => id \in ToSet(batch) \cup InboxIds
    BY <1>2, <2>1 DEF Ahead, Running
  <2> QED
    BY <1>3, <1>4, <2>1, <2>2, <2>3
<1>6. CASE MarketTrade
  <2> DEFINE n == Len(market) + 1
  <2>1. /\ market' = Append(market, now) /\ Send(TradeMsg(n))
        /\ UNCHANGED <<now, up, phase, source, at, batch, lastId>>
    BY <1>6 DEF MarketTrade, boot, work, book
  <2>2. TradeMsg(n) \in Messages /\ TradeMsg(n).kind = "trade" /\ TradeMsg(n).id = n
    BY <1>1 DEF TradeMsg, Messages
  <2>3. InboxIds' = InboxIds \cup {n}
    BY <1>1, <2>1, <2>2, InboxSent
  <2>4. Ids' = 1 .. n /\ \A i \in Ids : market'[i] = market[i]
    BY <1>1, <2>1 DEF Ids
  <2>5. \A i \in 1 .. n : i = n \/ i \in Ids
    BY <1>1
  <2>6. /\ at = "connected" => \A id \in Ids : id \in InboxIds \/ market[id] < now
        /\ at # "connected" /\ lastId # 0 =>
             \A id \in Ids : id > lastId => id \in ToSet(batch) \cup InboxIds
    BY <1>2, <2>1 DEF Ahead, Running
  <2> HIDE DEF n
  <2>7. at = "connected" => \A id \in 1 .. n : id \in InboxIds' \/ market'[id] < now'
    BY <2>1, <2>3, <2>4, <2>5, <2>6
  <2>8. at # "connected" /\ lastId # 0 =>
          \A id \in 1 .. n : id > lastId => id \in ToSet(batch) \cup InboxIds'
    BY <2>3, <2>5, <2>6
  <2> QED
    BY <2>1, <2>4, <2>7, <2>8
<1>7. CASE MarketQuote
  <2>1. up /\ Send(QuoteMsg(now)) /\ UNCHANGED <<now, market, phase, source, at, batch, lastId>>
    BY <1>7 DEF MarketQuote, boot, work, book
  <2>2. QuoteMsg(now) \in Messages /\ QuoteMsg(now).kind # "trade"
    BY <1>1 DEF QuoteMsg, Messages
  <2>3. InboxIds' = InboxIds
    BY <1>1, <2>1, <2>2, InboxSent
  <2> QED
    BY <1>2, <1>4, <2>1, <2>3 DEF Ahead, Running
<1>8. CASE Drop \/ Ending
  BY <1>8 DEF Drop, Ending, StartSession, CatchUpFails, StrategyFails, Stop, Running
<1>9. CASE Bootstrap
  BY <1>9 DEF Bootstrap, feed, LiveInv, Delivered, Running
<1>10. CASE Connect
  <2>1. at' = "connected" /\ UNCHANGED <<now, market, source>>
    BY <1>10 DEF Connect, boot
  <2>2. inbox' = Replay(Latest)
    BY <1>10, <2>1 DEF Connect, Replay, Latest
  <2>3. InboxIds' = Latest
    BY <1>1, <2>2, Replayed
  <2>4. \A id \in Ids : id \in Latest \/ market[id] < now
    BY <1>1, <1>2, LatestCoverNow
  <2> QED
    BY <1>4, <2>1, <2>3, <2>4
<1>11. CASE CatchUp
  <2>1. /\ Running /\ at = "connected" /\ at' = "read"
        /\ UNCHANGED <<now, market, inbox, up, source, lastId>>
    BY <1>11 DEF CatchUp, feed, boot, book
  <2>2. ASSUME lastId # 0, NEW id \in Ids, id > lastId PROVE id \in ToSet(batch') \cup InboxIds
    <3>1. batch' = InOrder(Fetch(CatchUpFrom, now).ids)
      BY <1>11, <2>1, <2>2 DEF CatchUp
    <3>2. lastId \in Ids
      BY <1>1, <2>2 DEF LiveInv, Delivered
    <3>3. Cardinality(Available(CatchUpFrom, now)) <= PageSize
      BY <2>1, <2>2 DEF MissedFitsPage
    <3>4. market[id] < now => id \in ToSet(batch')
      BY <1>1, <2>2, <3>1, <3>2, <3>3, MissedCaughtUp
    <3>5. id \in InboxIds \/ market[id] < now
      BY <1>2, <2>1 DEF Ahead
    <3> QED
      BY <3>4, <3>5
  <2> QED
    BY <1>3, <1>4, <2>1, <2>2
<1>12. CASE CatchUpTrade
  <2> DEFINE i == Head(batch)
  <2>1. /\ Reading /\ at = "read" /\ batch # <<>> /\ HandleTrade(i) /\ batch' = Tail(batch)
        /\ UNCHANGED <<now, market, inbox, up, phase, source, live>>
    BY <1>12 DEF CatchUpTrade, Reading, feed, boot
  <2>2. /\ Len(batch) \in Nat /\ DOMAIN batch = 1 .. Len(batch) /\ i = batch[1] /\ i \in Nat
        /\ DOMAIN batch' = 1 .. Len(batch) - 1 /\ Len(batch) >= 1
        /\ \A k \in 1 .. Len(batch) - 1 : batch'[k] = batch[k + 1]
    BY <1>1, <2>1
  <2>3. i \in Ids /\ lastId # 0
    <3>1. i \in ToSet(batch)
      BY <2>2 DEF ToSet
    <3> QED
      BY <2>1, <3>1 DEF LiveInv, Delivered, Places
  <2>4. lastId' \in Nat /\ i <= lastId' /\ lastId <= lastId'
    BY <1>1, <2>1, <2>2, <2>3, TradeHandled
  <2>5. at' # "connected"
    BY <2>1, <2>3, TradeHandled
  <2>6. ToSet(batch) \subseteq ToSet(batch') \cup {i}
    <3> SUFFICES ASSUME NEW k \in 1 .. Len(batch), k # 1 PROVE batch[k] \in ToSet(batch')
      BY <2>2 DEF ToSet
    <3>1. PICK l \in 1 .. Len(batch) - 1 : l + 1 = k
      BY <2>2
    <3>2. batch'[l] = batch[k] /\ l \in DOMAIN batch'
      BY <2>2, <3>1
    <3> QED
      BY <3>2 DEF ToSet
  <2> HIDE DEF i
  <2>7. ASSUME NEW id \in Ids, id > lastId' PROVE id \in ToSet(batch') \cup InboxIds
    <3>1. id > lastId /\ id # i
      BY <1>1, <2>2, <2>4, <2>7
    <3>2. id \in ToSet(batch) \cup InboxIds
      BY <1>2, <2>1, <2>3, <3>1 DEF Ahead, Running
    <3> QED
      BY <2>6, <3>1, <3>2
  <2> QED
    BY <1>3, <1>4, <2>1, <2>5, <2>7
<1>13. CASE Receive
  <2>1. /\ Reading /\ at = "read" /\ batch = <<>> /\ batch' = batch /\ inbox # <<>>
        /\ inbox' = Tail(inbox) /\ UNCHANGED <<now, market, up, phase, source, live>>
        /\ IF Head(inbox).kind = "trade"
           THEN HandleTrade(Head(inbox).id) ELSE HandleClock(Head(inbox).ts)
    BY <1>13 DEF Receive, Reading, boot
  <2>2. /\ Head(inbox) \in Messages
        /\ Head(inbox).kind = "trade" => Head(inbox).id \in InboxIds
    BY <1>1, <2>1, InboxRead
  <2>3. ToSet(batch) = {}
    BY <2>1 DEF ToSet
  <2>4. lastId # 0 => \A id \in Ids : id > lastId => id \in InboxIds
    BY <1>2, <2>1, <2>3 DEF Ahead, Running
  <2>5. CASE Head(inbox).kind = "trade"
    <3> DEFINE i == Head(inbox).id
    <3>1. InboxIds = InboxIds' \cup {i}
      BY <1>1, <1>2, <2>1, <2>5, ReadInOrder
    <3>2. i \in InboxIds /\ i \in Ids /\ HandleTrade(i)
      BY <2>1, <2>2, <2>5 DEF LiveInv, Delivered
    <3>3. i \in Nat /\ i > 0
      BY <1>1, <3>2
    <3> HIDE DEF i
    <3>4. /\ at' # "connected" /\ lastId' \in Nat /\ i <= lastId' /\ lastId <= lastId'
          /\ lastId = 0 => lastId' = i
      BY <1>1, <2>1, <3>2, <3>3, TradeHandled
    <3>5. ASSUME NEW id \in Ids, id > lastId' PROVE id \in InboxIds'
      <4>1. id > lastId /\ id # i /\ i < id
        BY <1>1, <3>3, <3>4, <3>5
      <4>2. id \in InboxIds
        BY <1>2, <2>4, <3>2, <4>1 DEF Suffix
      <4> QED
        BY <3>1, <4>1, <4>2
    <3> QED
      BY <1>4, <2>1, <3>4, <3>5
  <2>6. CASE Head(inbox).kind # "trade"
    <3>1. InboxIds' = InboxIds
      BY <1>1, <1>2, <2>1, <2>6, ReadInOrder
    <3>2. HandleClock(Head(inbox).ts) /\ Head(inbox).ts \in Nat
      BY <2>1, <2>2, <2>6 DEF Messages
    <3>3. at' # "connected" /\ lastId' = lastId
      BY <2>1, <3>2, ClockHandled
    <3> QED
      BY <1>4, <2>1, <2>4, <3>1, <3>3
  <2> QED
    BY <2>5, <2>6
<1>14. CASE ClockEvent
  <2>1. /\ Reading /\ at = "read" /\ HandleClock(now)
        /\ UNCHANGED <<now, market, inbox, up, phase, source, live, batch>>
    BY <1>14 DEF ClockEvent, Reading, boot, feed
  <2>2. at' # "connected" /\ lastId' = lastId
    BY <1>1, <2>1, ClockHandled
  <2> QED
    BY <1>2, <1>3, <1>4, <2>1, <2>2 DEF Ahead, Running
<1>15. CASE HandleBar
  <2>1. /\ at # "connected" /\ at' # "connected"
        /\ UNCHANGED <<now, market, inbox, up, phase, source, batch, lastId>>
    BY <1>15 DEF HandleBar, CloseBar, Rebalance, SaveEquity, boot, feed, book
  <2> QED
    BY <1>2, <1>3, <1>4, <2>1 DEF Ahead, Running
<1> QED
  BY <1>5, <1>6, <1>7, <1>8, <1>9, <1>10, <1>11, <1>12, <1>13, <1>14, <1>15
     DEF Next, RunStep, Ending

\* A session goes on from the last trade it has seen.
LEMMA NoneSkippedKept == LiveInv /\ SkipInv /\ Next => Fresh' /\ NoTradeSkipped'
<1> SUFFICES ASSUME LiveInv, SkipInv, Next PROVE Fresh' /\ NoTradeSkipped'
  OBVIOUS
<1>1. /\ TypeOK /\ Len(market) \in Nat /\ Ids = 1 .. Len(market) /\ lastId \in Nat /\ now \in Nat
      /\ batch \in Seq(Nat)
  BY SessionTypes, MarketTypes DEF LiveInv
<1>2. Ahead /\ Lined /\ InBatch /\ Fresh /\ NoTradeSkipped
  BY DEF SkipInv
<1>3. CASE Still
  BY <1>2, <1>3, SameBars DEF Fresh, NoTradeSkipped, Running, book
<1>4. CASE Ending
  BY <1>4 DEF Ending, StartSession, CatchUpFails, StrategyFails, Stop, Running, Fresh,
     NoTradeSkipped
<1>5. CASE Bootstrap
  <2>1. CASE \E why \in {"page limit", "too few bars", "no trades"} : Refuse(why)
    BY <2>1 DEF Refuse, Running, Fresh, NoTradeSkipped
  <2>2. CASE \E completed, current, id : /\ Boot(completed, current, id)
                                         /\ Startable(completed, current, id)
    <3>1. PICK completed, current, id : /\ Boot(completed, current, id)
                                        /\ Startable(completed, current, id)
      BY <2>2
    <3>2. id \in Nat /\ lastId' = id /\ first' = (IF id = 0 THEN 0 ELSE id + 1)
      BY <1>1, <3>1 DEF Boot, Startable
    <3>3. first' # 0 => first' .. lastId' = {}
      BY <3>2
    <3> QED
      BY <3>2, <3>3 DEF Fresh, NoTradeSkipped
  <2> QED
    BY <1>5, <2>1, <2>2, BootSteps DEF LiveInv
<1>6. CASE CatchUpTrade
  <2> DEFINE i == Head(batch)
  <2>1. /\ Reading /\ batch # <<>> /\ HandleTrade(i) /\ source' = source /\ live' = live
    BY <1>6 DEF CatchUpTrade, boot
  <2>2. DOMAIN batch = 1 .. Len(batch) /\ i = batch[1] /\ 1 \in DOMAIN batch
    BY <1>1, <2>1
  <2>3. i \in Ids /\ lastId # 0 /\ i <= lastId + 1
    <3>1. i \in ToSet(batch)
      BY <2>2 DEF ToSet
    <3> QED
      BY <1>2, <2>1, <2>2, <3>1 DEF LiveInv, Delivered, Places, InBatch
  <2> QED
    BY <1>2, <2>1, <2>3, CountsNext
<1>7. CASE Receive
  <2>1. /\ Reading /\ at = "read" /\ batch = <<>> /\ inbox # <<>> /\ inbox' = Tail(inbox)
        /\ source' = source /\ live' = live
        /\ IF Head(inbox).kind = "trade"
           THEN HandleTrade(Head(inbox).id) ELSE HandleClock(Head(inbox).ts)
    BY <1>7 DEF Receive, Reading, boot
  <2>2. /\ Head(inbox) \in Messages
        /\ Head(inbox).kind = "trade" => Head(inbox).id \in InboxIds
    BY <1>1, <2>1, InboxRead
  <2>3. CASE Head(inbox).kind = "trade"
    <3> DEFINE i == Head(inbox).id
    <3>1. InboxIds = InboxIds' \cup {i} /\ \A j \in InboxIds' : i < j
      BY <1>1, <1>2, <2>1, <2>3, ReadInOrder
    <3>2. i \in InboxIds /\ i \in Ids /\ HandleTrade(i) /\ InboxIds \subseteq Ids
      BY <2>1, <2>2, <2>3 DEF LiveInv, Delivered
    <3> HIDE DEF i
    <3>3. ASSUME source = "trades", lastId # 0, ~(i <= lastId + 1) PROVE FALSE
      <4>1. lastId + 1 \in Ids /\ lastId + 1 > lastId /\ lastId + 1 # i /\ lastId + 1 < i
        BY <1>1, <3>2, <3>3
      <4>2. up /\ ToSet(batch) = {}
        BY <2>1 DEF LiveInv, Delivered, ToSet
      <4>3. lastId + 1 \in InboxIds
        BY <1>2, <2>1, <3>3, <4>1, <4>2 DEF Ahead, Reading
      <4>4. i < lastId + 1
        BY <3>1, <4>1, <4>3
      <4> QED
        BY <1>1, <3>2, <4>1, <4>4
    <3> QED
      BY <1>2, <2>1, <3>2, <3>3, CountsNext
  <2>4. CASE Head(inbox).kind # "trade"
    <3>1. HandleClock(Head(inbox).ts) /\ Head(inbox).ts \in Nat
      BY <2>1, <2>2, <2>4 DEF Messages
    <3> QED
      BY <1>2, <2>1, <3>1, ClockCountsNone
  <2> QED
    BY <2>3, <2>4
<1>8. CASE ClockEvent
  <2>1. Reading /\ HandleClock(now) /\ live' = live /\ source' = source
    BY <1>8 DEF ClockEvent, boot
  <2> QED
    BY <1>1, <1>2, <2>1, ClockCountsNone
<1> QED
  BY <1>3, <1>4, <1>5, <1>6, <1>7, <1>8 DEF Next, RunStep, Still, Ending

\* The invariant is inductive under the two conditions.
LEMMA SkipStarts == Init => SkipInv
<1> SUFFICES ASSUME Init PROVE SkipInv
  OBVIOUS
<1>1. Required \in Nat /\ Required >= 2 /\ TF \in Nat \ {0} /\ MaxPerSecond \in Nat
  BY Parameters
<1>2. market = <<0>> /\ now = Required * TF
  BY DEF Init
<1>3. now # 0
  BY <1>1, <1>2
<1>4. ThisSecond = {}
  BY <1>2, <1>3 DEF ThisSecond, Ids
<1>5. Busy
  BY <1>1, <1>4, FS_EmptySet DEF Busy
<1>6. Lined /\ Suffix
  BY DEF Init, Lined, Suffix, InboxIds
<1> QED
  BY <1>5, <1>6 DEF Init, SkipInv, InBatch, Ahead, Fresh, NoTradeSkipped, Running

\* No step skips a trade while the trades missed fit a page.
LEMMA SkipInvKept ==
  LiveInv /\ SkipInv /\ MissedFitsPage /\ MaxPerSecond <= SnapshotSize /\ [Next]_vars => SkipInv'
<1> SUFFICES ASSUME LiveInv, SkipInv, MissedFitsPage, MaxPerSecond <= SnapshotSize, [Next]_vars
             PROVE  SkipInv'
  OBVIOUS
<1>1. CASE Next
  BY <1>1, BusyKept, LinedKept, BatchKept, AheadKept, NoneSkippedKept DEF SkipInv
<1>2. CASE UNCHANGED vars
  <2>1. UNCHANGED <<now, market, up, inbox, source, phase>>
    BY <1>2, Zenon DEF vars, feed, boot
  <2>2. UNCHANGED <<agg, lastId, since, first, late, live, todo, batch, at>>
    BY <1>2, Zenon DEF vars, book, work
  <2>3. Ids' = Ids /\ InboxIds' = InboxIds /\ SessionBars' = SessionBars
    BY <2>1, <2>2 DEF Ids, InboxIds, SessionBars, Waiting
  <2>4. Busy' /\ Lined' /\ Suffix' /\ InBatch'
    BY <2>1, <2>2, <2>3 DEF SkipInv, Busy, ThisSecond, Lined, Suffix, InBatch
  <2>5. Ahead' /\ Fresh' /\ NoTradeSkipped'
    BY <2>1, <2>2, <2>3 DEF SkipInv, Ahead, Fresh, NoTradeSkipped, Running
  <2> QED
    BY <2>4, <2>5 DEF SkipInv
<1> QED
  BY <1>1, <1>2

\* A sub-minute session counts every trade from its first to the last it has
\* seen, however often its connection is lost, unless a trade's bar was closed
\* before it came (live.py: _catch_up_subminute_trades, _handle_trade).  The
\* conditions: the feed replays at least a second of trades, and what a session
\* asks for after a reconnection fits a page of the history.
THEOREM NoneSkipped ==
  ASSUME MaxPerSecond <= SnapshotSize
  PROVE  Spec /\ []MissedFitsPage => []NoTradeSkipped
<1>1. SkipInv => NoTradeSkipped
  BY DEF SkipInv
<1>2. LiveInv /\ SkipInv /\ MissedFitsPage /\ [Next]_vars => SkipInv'
  BY SkipInvKept
<1> QED
  BY <1>1, <1>2, SkipStarts, LiveInvariant, PTL DEF Spec
=============================================================================
