------------------------------- MODULE Sessions -------------------------------
(***************************************************************************)
(* Paper sessions from the outside (live.py, api.py): start and stop       *)
(* requests share PaperSessionManager's lock, the task of a session closes *)
(* bars and trades on its strategy's decisions, and the event hub          *)
(* (events.py) carries what happens to a page (App.tsx), which may lose    *)
(* its connection.                                                         *)
(*                                                                         *)
(* Each action is what runs between two awaits of the event loop.  Where a *)
(* session's bars come from is module LivePaper's subject; here a bar is   *)
(* the outcome its strategy sees in it.                                    *)
(***************************************************************************)
EXTENDS Decisions, FiniteSets

CONSTANTS
  Session,     \* one for every start request
  Plans,       \* what strategies the requests may ask for
  Bootstraps,  \* rows a bootstrap may yield
  Outcomes,    \* outcomes of the bars a session closes
  MaxBars,     \* bound: bars closed by running sessions
  MaxStops,    \* bound: stop requests
  MaxDrops,    \* bound: connections the page loses
  MaxInbox,    \* messages a socket buffers before send_json waits
  NoSession,
  Stop         \* a stop request, as the holder of the lock

ASSUME SessionAssumption ==
  /\ Plans \subseteq [Session -> Kind]
  /\ Bootstraps \subseteq Seq(Outcome) /\ Outcomes \subseteq Outcome
  /\ {MaxBars, MaxStops, MaxDrops} \subseteq Nat /\ MaxInbox \in Nat \ {0}
  /\ NoSession \notin Session /\ Stop \notin Session /\ NoSession # Stop

VARIABLES
  kind,      \* the strategy of each session
  status,    \* SessionStatus
  at,        \* where the request or the task of each session is
  rows,      \* outcomes of its bars, from the bootstrap on
  forecast,  \* row of its last TimesFM forecast, 0 before the first
  decision,  \* of its strategy for the row it is handling
  target,    \* _last_target_fraction
  fills,     \* targets the broker has filled
  current,   \* PaperSessionManager.current
  holder,    \* who has the lock
  doing,     \* what the holder does
  stops,     \* stop requests: [made, waiting]
  connected, \* the page is among the hub's clients
  inbox,     \* messages on their way to the page
  page,      \* the charts of the page
  drops

work    == <<kind, rows, forecast, decision, target, fills>>
manager == <<current, holder, doing, stops>>
browser == <<connected, inbox, page, drops>>
vars    == <<work, status, at, manager, browser>>

\* Positions of a session's task; before it there is only the request.
Alive   == {"begin", "greet", "wait", "publish", "fill", "report"}
Ended   == {"cancelled", "crashed", "off"}
Statuses == {"none", "starting", "running", "stopping", "stopped", "error"}

StateOf(s) == [type |-> "session", of |-> s, status |-> status[s], n |-> 0]
Nothing    == [type |-> "session", of |-> NoSession, status |-> "stopped", n |-> 0]

BlankPage ==
  [from |-> NoSession,   \* the session of the last bootstrap
   bars |-> {}, fills |-> <<>>,
   whole |-> FALSE]      \* history: nothing was missed since then

Init ==
  /\ kind \in Plans
  /\ status = [s \in Session |-> "none"] /\ at = [s \in Session |-> "new"]
  /\ rows = [s \in Session |-> <<>>] /\ forecast = [s \in Session |-> 0]
  /\ decision = [s \in Session |-> NoTarget] /\ target = [s \in Session |-> NoTarget]
  /\ fills = [s \in Session |-> <<>>]
  /\ current = NoSession /\ holder = NoSession /\ doing = "nothing"
  /\ stops = [made |-> 0, waiting |-> FALSE]
  /\ connected = TRUE /\ inbox = <<>> /\ page = BlankPage
  /\ drops = 0

Go(s, where)    == at' = [at EXCEPT ![s] = where]
Become(s, what) == status' = [status EXCEPT ![s] = what]

\* Mutant: a slow client is not waited for.
PublishAtOnce(m) ==
  /\ inbox' = IF connected THEN Append(inbox, m) ELSE inbox
  /\ UNCHANGED <<connected, page, drops>>

\* EventHub.publish: waits for a slow client, forgets one that is gone.
Publish(m) ==
  /\ connected => Len(inbox) < MaxInbox
  /\ inbox' = IF connected THEN Append(inbox, m) ELSE inbox
  /\ UNCHANGED <<connected, page, drops>>

----------------------------------------------------------------------------
(* Requests, one after the other under the lock.                            *)

AskStart(s) ==
  /\ at[s] = "new"
  /\ Go(s, "asked")
  /\ UNCHANGED <<work, status, manager, browser>>

AskStop ==
  /\ ~stops.waiting /\ stops.made < MaxStops
  /\ stops' = [made |-> stops.made + 1, waiting |-> TRUE]
  /\ UNCHANGED <<work, status, at, current, holder, doing, browser>>

\* Mutant: only a stop request stops the session; a start replaces it.
TakeWithoutStop(r) ==
  /\ holder = NoSession
  /\ IF r = Stop THEN stops.waiting ELSE at[r] = "asked"
  /\ holder' = r
  /\ IF r = Stop /\ current # NoSession /\ at[current] # "off"
       THEN /\ Become(current, "stopping")
            /\ Go(current, "cancelled")
            /\ doing' = "join"
       ELSE doing' = "proceed" /\ UNCHANGED <<status, at>>
  /\ UNCHANGED <<work, current, stops, browser>>

\* A session that has a task is cancelled, and awaited; one that was stopped
\* before has none.  The request itself follows.
Take(r) ==
  /\ holder = NoSession
  /\ IF r = Stop THEN stops.waiting ELSE at[r] = "asked"
  /\ holder' = r
  /\ IF current # NoSession /\ at[current] # "off"
       THEN /\ Become(current, "stopping")
            /\ Go(current, "cancelled")
            /\ doing' = "join"
       ELSE doing' = "proceed" /\ UNCHANGED <<status, at>>
  /\ UNCHANGED <<work, current, stops, browser>>

\* Mutant: the task is not awaited.
JoinNothing ==
  /\ doing = "join"
  /\ Go(current, "wait")
  /\ Become(current, "stopped")
  /\ doing' = "announce"
  /\ UNCHANGED <<work, current, holder, stops, browser>>

Join ==
  /\ doing = "join"
  /\ Go(current, "off")
  /\ Become(current, "stopped")
  /\ doing' = "announce"
  /\ UNCHANGED <<work, current, holder, stops, browser>>

Announce ==
  /\ doing = "announce"
  /\ Publish(StateOf(current))
  /\ doing' = "proceed"
  /\ UNCHANGED <<work, status, at, current, holder, stops>>

Release == holder' = NoSession /\ doing' = "nothing"

Stopped ==
  /\ doing = "proceed" /\ holder = Stop
  /\ Release
  /\ stops' = [stops EXCEPT !.waiting = FALSE]
  /\ UNCHANGED <<work, status, at, current, browser>>

StartBootstrap ==
  /\ doing = "proceed" /\ holder \in Session
  /\ current' = NoSession
  /\ Become(holder, "starting")
  /\ Go(holder, "boot")
  /\ doing' = "boot"
  /\ UNCHANGED <<work, holder, stops, browser>>

\* Too few bars, or the exchange does not answer: 502, and no session.
BootstrapFails ==
  /\ doing = "boot"
  /\ Become(holder, "error")
  /\ Go(holder, "off")
  /\ Release
  /\ UNCHANGED <<work, current, stops, browser>>

\* on_bar is called for every row; only what TimesFM remembers outlives it.  The
\* minimum is that of MarketLM and MarketHybrid, which follows their context; the
\* fixed ones of the other strategies are taken to be no smaller than it.
Bootstrap ==
  LET s == holder IN
  /\ doing = "boot"
  /\ \E history \in Bootstraps :
       LET n == Len(history) IN
       /\ n >= MinimumBars /\ n >= 2
       /\ rows' = [rows EXCEPT ![s] = history]
       /\ forecast' = [forecast EXCEPT ![s] =
            IF kind[s] = "timesfm" /\ n >= Context
              THEN n - ((n - Context) % Stride) ELSE 0]
  /\ doing' = "publish"
  /\ UNCHANGED <<kind, decision, target, fills, status, at, current, holder, stops, browser>>

PublishBootstrap ==
  /\ doing = "publish"
  /\ Publish([StateOf(holder) EXCEPT !.type = "bootstrap", !.n = Len(rows[holder])])
  /\ doing' = "create"
  /\ UNCHANGED <<work, status, at, current, holder, stops>>

CreateTask ==
  /\ doing = "create"
  /\ Go(holder, "begin")
  /\ current' = holder
  /\ Release
  /\ UNCHANGED <<work, status, stops, browser>>

----------------------------------------------------------------------------
(* The task of a session.                                                   *)

Begin(s) ==
  /\ at[s] = "begin"
  /\ Become(s, "running")
  /\ Go(s, "greet")
  /\ UNCHANGED <<work, manager, browser>>

Greet(s) ==
  /\ at[s] = "greet"
  /\ Publish(StateOf(s))
  /\ Go(s, "wait")
  /\ UNCHANGED <<work, status, manager>>

Live == UNION {{<<s, i>> : i \in 1..Len(rows[s])} : s \in Session}
Booted == UNION {{<<s, i>> : i \in 1..MinimumBars} : s \in {t \in Session : rows[t] # <<>>}}

CloseBar(s) ==
  /\ at[s] = "wait"
  /\ Cardinality(Live \ Booted) < MaxBars
  /\ \E o \in Outcomes :
       LET seen == Append(rows[s], o) IN
       /\ rows' = [rows EXCEPT ![s] = seen]
       /\ decision' = [decision EXCEPT ![s] = Decide(kind[s], seen, forecast[s])]
       /\ forecast' = [forecast EXCEPT ![s] =
            IF kind[s] = "timesfm" /\ Due(seen, @) THEN Len(seen) ELSE @]
  /\ Go(s, "publish")
  /\ UNCHANGED <<kind, target, fills, status, manager, browser>>

\* Then the target is remembered; the broker may find the order too small.
Trade(s) ==
  /\ at[s] = "publish"
  /\ Publish([StateOf(s) EXCEPT !.type = "bar", !.n = Len(rows[s])])
  /\ IF decision[s] \in {NoTarget, target[s]}
       THEN UNCHANGED <<target, fills>> /\ Go(s, "wait")
       ELSE /\ target' = [target EXCEPT ![s] = decision[s]]
            /\ \/ UNCHANGED fills /\ Go(s, "wait")
               \/ /\ fills' = [fills EXCEPT ![s] = Append(@, decision[s])]
                  /\ Go(s, "fill")
  /\ decision' = [decision EXCEPT ![s] = NoTarget]
  /\ UNCHANGED <<kind, rows, forecast, status, manager>>

PublishFill(s) ==
  /\ at[s] = "fill"
  /\ Publish([StateOf(s) EXCEPT !.type = "fill", !.n = Len(fills[s])])
  /\ Go(s, "wait")
  /\ UNCHANGED <<work, status, manager>>

\* The stream, the strategy or the database raises: between two events, or with
\* a bar in the history (on_bar) or a fill in the account (save_fill) that has
\* not been published and never will be.
Fail(s) ==
  /\ at[s] \in {"wait", "publish", "fill"}
  /\ Become(s, "error")
  /\ Go(s, "report")
  /\ UNCHANGED <<work, manager, browser>>

Report(s) ==
  /\ at[s] = "report"
  /\ Publish(StateOf(s))
  /\ Go(s, "crashed")
  /\ UNCHANGED <<work, status, manager>>

----------------------------------------------------------------------------
(* The page.                                                                *)

\* The endpoint adds the client and sends the state of the current session.
Connect ==
  /\ ~connected
  /\ connected' = TRUE
  /\ inbox' = <<IF current = NoSession THEN Nothing ELSE StateOf(current)>>
  /\ UNCHANGED <<work, status, at, manager, page, drops>>

\* What was on its way is lost; the page connects again after 1.5 s.
Disconnect ==
  /\ connected /\ drops < MaxDrops
  /\ drops' = drops + 1
  /\ connected' = FALSE /\ inbox' = <<>>
  /\ page' = [page EXCEPT !.whole = FALSE]
  /\ UNCHANGED <<work, status, at, manager>>

\* Mutant: the fills of the session before stay.
ShowWithOldFills(m) ==
  CASE m.type = "bootstrap" ->
         [page EXCEPT !.from = m.of, !.whole = TRUE,
                      !.bars = {<<m.of, i>> : i \in 1..m.n}]
    [] m.type = "bar"     -> [page EXCEPT !.bars = @ \cup {<<m.of, m.n>>}]
    [] m.type = "fill"    -> [page EXCEPT !.fills = Append(@, <<m.of, m.n>>)]
    [] m.type = "session" -> page

\* onmessage: a bootstrap starts the charts anew, bars are merged by time,
\* fills are appended; a session state changes no chart.  The page keeps the
\* newest 5000 bars; here it keeps all.
Show(m) ==
  CASE m.type = "bootstrap" ->
         [from |-> m.of, bars |-> {<<m.of, i>> : i \in 1..m.n}, fills |-> <<>>,
          whole |-> TRUE]
    [] m.type = "bar"     -> [page EXCEPT !.bars = @ \cup {<<m.of, m.n>>}]
    [] m.type = "fill"    -> [page EXCEPT !.fills = Append(@, <<m.of, m.n>>)]
    [] m.type = "session" -> page

Receive ==
  /\ inbox # <<>>
  /\ page' = Show(Head(inbox))
  /\ inbox' = Tail(inbox)
  /\ UNCHANGED <<work, status, at, manager, connected, drops>>

----------------------------------------------------------------------------
Request ==
  \/ \E s \in Session : AskStart(s)
  \/ AskStop
  \/ \E r \in Session \cup {Stop} : Take(r)
  \/ Join \/ Announce \/ Stopped
  \/ StartBootstrap \/ Bootstrap \/ BootstrapFails \/ PublishBootstrap \/ CreateTask

Task(s) ==
  \/ Begin(s) \/ Greet(s) \/ CloseBar(s) \/ Trade(s) \/ PublishFill(s)
  \/ Fail(s) \/ Report(s)

Page == Connect \/ Disconnect \/ Receive

Next == Request \/ (\E s \in Session : Task(s)) \/ Page

Spec == Init /\ [][Next]_vars

----------------------------------------------------------------------------
Messages == [type : {"bootstrap", "bar", "fill", "session"},
             of : Session \cup {NoSession}, status : Statuses, n : Nat]

Charted == (Session \cup {NoSession}) \X Nat
Pages == [from : Session \cup {NoSession}, bars : SUBSET Charted,
          fills : Seq(Charted), whole : BOOLEAN]

TypeOK ==
  /\ kind \in [Session -> Kind] /\ status \in [Session -> Statuses]
  /\ at \in [Session -> {"new", "asked", "boot"} \cup Alive \cup Ended]
  /\ rows \in [Session -> Seq(Outcome)] /\ forecast \in [Session -> Nat]
  /\ {decision, target} \subseteq [Session -> {"long", "short", "flat", NoTarget}]
  /\ fills \in [Session -> Seq({"long", "short", "flat"})]
  /\ current \in Session \cup {NoSession} /\ holder \in Session \cup {NoSession, Stop}
  /\ doing \in {"nothing", "join", "announce", "proceed", "boot", "publish", "create"}
  /\ stops \in [made : 0..MaxStops, waiting : BOOLEAN]
  /\ connected \in BOOLEAN /\ drops \in 0..MaxDrops
  /\ inbox \in Seq(Messages) /\ Len(inbox) <= MaxInbox
  /\ page \in Pages

----------------------------------------------------------------------------
(* What the sessions promise.                                               *)

\* However many start and stop requests overlap, and whatever fails in them,
\* at most one session has a task, and it is the one the manager would stop.
OneRunningSession ==
  \A s \in Session : at[s] \in Alive \cup {"cancelled", "crashed"} => current = s

\* Once a session is reported stopped it closes no bar, decides nothing, fills
\* nothing, is never anything but stopped, and no event of it is published
\* but that it stopped.
StoppedIsSilent ==
  [][\A s \in Session : status[s] = "stopped" =>
       /\ status'[s] = "stopped"
       /\ <<rows[s], decision[s], target[s], fills[s]>>
            = <<rows[s], decision[s], target[s], fills[s]>>'
       /\ Len(inbox') > Len(inbox) /\ inbox'[Len(inbox')].of = s
            => inbox'[Len(inbox')].status = "stopped"]_vars

\* Messages of a type on their way to the page.
Coming(type) == {i \in 1..Len(inbox) : inbox[i].type = type}

\* A page that has missed nothing since the last bootstrap shows one session:
\* its bars without a hole and its fills in their order, up to what is still
\* on its way and to the last bar and the last fill, which a stop or a failure
\* may keep from being sent.
PageIsOneSession ==
  LET s     == page.from
      bars  == page.bars \cup {<<inbox[i].of, inbox[i].n>> : i \in Coming("bar")}
      count == Cardinality(bars)
      sent  == Len(page.fills) + Cardinality(Coming("fill"))
  IN
  page.whole /\ Coming("bootstrap") = {} =>
    /\ bars = {<<s, i>> : i \in 1..count}
    /\ count \in {Len(rows[s]) - 1, Len(rows[s])}
    /\ at[s] \in Alive \ {"publish", "report"} => count = Len(rows[s])
    /\ \A i \in 1..Len(page.fills) : page.fills[i] = <<s, i>>
    /\ sent \in {Len(fills[s]) - 1, Len(fills[s])}
    /\ at[s] \in Alive \ {"fill", "report"} => sent = Len(fills[s])

\* "One strategy definition shared by vectorized backtests and live paper
\* trading" (strategies/sdk.py): between two bars, the target a session holds is
\* the one a backtest over its rows ends with, as long as the row that decides
\* has not left the session's history, and once the strategy has spoken.  This
\* is about the decisions: that the indicators of the two see the same in a bar
\* is assumed (RSI, whose averages are Wilder's in a backtest and simple ones
\* in a session, does not).
LiveMatchesBatch ==
  \A s \in Session :
    /\ at[s] \in {"wait", "fill"} /\ target[s] # NoTarget
    /\ Remembered(kind[s], rows[s])
    => target[s] = Target(kind[s], rows[s])

\* "median inside the deadband, including exactly zero: retain the previous
\* target" (docs/MARKETHYBRID.md): a strategy that holds decides for another
\* target than the session's only on a bullish or a bearish bar.
RetainsTarget ==
  \A s \in Session :
    at[s] = "publish" /\ kind[s] = "hold" /\ target[s] # NoTarget
      /\ rows[s][Len(rows[s])] = "none"
    => decision[s] = target[s]
=============================================================================
