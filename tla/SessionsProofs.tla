---------------------------- MODULE SessionsProofs ----------------------------
(***************************************************************************)
(* Paper sessions, for every number of requests, bars and messages, every  *)
(* strategy and every schedule: one session at a time, and silence after   *)
(* its stop; the target of a session, which follows a backtest over its    *)
(* rows; and the page, which shows one session when it has missed nothing. *)
(***************************************************************************)
EXTENDS Sessions, FiniteSetTheorems, TLAPS

----------------------------------------------------------------------------
(* The inductive invariant.                                                 *)

\* Sessions whose task exists, has been cancelled or has crashed.
HasTask(s) == at[s] \in Alive \cup {"cancelled", "crashed"}

Places ==
  /\ at \in [Session -> {"new", "asked", "boot"} \cup Alive \cup Ended]
  /\ status \in [Session -> Statuses]
  /\ current \in Session \cup {NoSession}
  /\ holder \in Session \cup {NoSession, Stop}

\* The lock is held by the request that is being carried out.
Locked ==
  /\ doing = "nothing" <=> holder = NoSession
  /\ \A s \in Session : at[s] = "boot" <=> holder = s /\ doing \in {"boot", "publish", "create"}
  /\ holder \in Session /\ doing \in {"join", "announce", "proceed"} => at[holder] = "asked"
  /\ doing \in {"boot", "publish", "create"} => holder \in Session
  /\ doing \in {"nothing", "join", "announce", "proceed", "boot", "publish", "create"}

\* Before a session starts, the one before it has ended.
OneByOne ==
  /\ doing = "join" => current # NoSession /\ at[current] = "cancelled"
  /\ doing = "announce" => current # NoSession /\ at[current] = "off" /\ status[current] = "stopped"
  /\ doing = "proceed" => current = NoSession \/ at[current] = "off"
  /\ doing \in {"boot", "publish", "create"} => current = NoSession
  /\ current # NoSession => HasTask(current) \/ at[current] = "off"
  /\ \A s \in Session : at[s] = "cancelled" => doing = "join"

\* A stopped session has no task left.
StoppedIsOff == \A s \in Session : status[s] = "stopped" => at[s] = "off"

SessionInv ==
  Places /\ Locked /\ OneByOne /\ StoppedIsOff /\ OneRunningSession
----------------------------------------------------------------------------
(* How the steps keep it.                                                   *)

\* Before the first request.
LEMMA SessionStarts == Init => SessionInv
<1> SUFFICES ASSUME Init PROVE SessionInv
  OBVIOUS
<1> USE SessionAssumption DEF Init
<1>1. Places
  BY DEF Places, Statuses
<1>2. Locked /\ OneByOne
  BY DEF Locked, OneByOne
<1>3. StoppedIsOff /\ OneRunningSession
  BY DEF StoppedIsOff, OneRunningSession, Alive
<1> QED
  BY <1>1, <1>2, <1>3 DEF SessionInv

\* Requests follow each other under the lock, and a task moves only itself.
LEMMA SessionKept == SessionInv /\ [Next]_vars => SessionInv'
<1> SUFFICES ASSUME SessionInv, [Next]_vars PROVE SessionInv'
  OBVIOUS
<1> USE SessionAssumption DEF SessionInv, Go, Become
<1>a. /\ at \in [Session -> {"new", "asked", "boot"} \cup Alive \cup Ended]
      /\ status \in [Session -> Statuses]
      /\ current \in Session \cup {NoSession}
      /\ holder \in Session \cup {NoSession, Stop}
  BY DEF Places
<1>1. ASSUME NEW s \in Session, AskStart(s) PROVE SessionInv'
  <2>1. Places'
    BY <1>1, <1>a DEF AskStart, manager, Places, Statuses, Alive, Ended
  <2>2. Locked'
    BY <1>1, <1>a DEF AskStart, manager, Locked, Alive, Ended
  <2>3. OneByOne'
    BY <1>1, <1>a DEF AskStart, manager, OneByOne, Locked, HasTask, OneRunningSession,
      StoppedIsOff, Alive, Ended
  <2>4. StoppedIsOff'
    BY <1>1, <1>a DEF AskStart, manager, StoppedIsOff, Locked, OneByOne, Alive, Ended
  <2>5. OneRunningSession'
    BY <1>1, <1>a
      DEF AskStart, manager, OneRunningSession, Locked, OneByOne, HasTask, Alive, Ended
  <2> QED
    BY <2>1, <2>2, <2>3, <2>4, <2>5
<1>2. CASE AskStop
  <2>1. Places'
    BY <1>2, <1>a DEF AskStop, work, browser, Places, Statuses, Alive, Ended
  <2>2. Locked'
    BY <1>2, <1>a DEF AskStop, work, browser, Locked, Alive, Ended
  <2>3. OneByOne'
    BY <1>2, <1>a DEF AskStop, work, browser, OneByOne, Locked, HasTask, OneRunningSession,
      StoppedIsOff, Alive, Ended
  <2>4. StoppedIsOff'
    BY <1>2, <1>a DEF AskStop, work, browser, StoppedIsOff, Locked, OneByOne, Alive, Ended
  <2>5. OneRunningSession'
    BY <1>2, <1>a
      DEF AskStop, work, browser, OneRunningSession, Locked, OneByOne, HasTask, Alive, Ended
  <2> QED
    BY <2>1, <2>2, <2>3, <2>4, <2>5
<1>3. ASSUME NEW r \in Session \cup {Stop}, Take(r) PROVE SessionInv'
  <2>1. Places'
    BY <1>3, <1>a DEF Take, Places, Statuses, Alive, Ended
  <2>2. Locked'
    BY <1>3, <1>a DEF Take, Locked, OneByOne, HasTask, Alive, Ended
  <2>3. OneByOne'
    BY <1>3, <1>a
      DEF Take, OneByOne, Locked, HasTask, OneRunningSession, StoppedIsOff, Alive, Ended
  <2>4. StoppedIsOff'
    BY <1>3, <1>a DEF Take, StoppedIsOff, Locked, OneByOne, Alive, Ended
  <2>5. OneRunningSession'
    BY <1>3, <1>a DEF Take, OneRunningSession, Locked, OneByOne, HasTask, Alive, Ended
  <2> QED
    BY <2>1, <2>2, <2>3, <2>4, <2>5
<1>4. CASE Join
  <2>1. Places'
    BY <1>4, <1>a DEF Join, Places, Statuses, Alive, Ended
  <2>2. Locked'
    BY <1>4, <1>a DEF Join, Locked, OneByOne, HasTask, Alive, Ended
  <2>3. OneByOne'
    BY <1>4, <1>a
      DEF Join, OneByOne, Locked, HasTask, OneRunningSession, StoppedIsOff, Alive, Ended
  <2>4. StoppedIsOff'
    BY <1>4, <1>a DEF Join, StoppedIsOff, Locked, OneByOne, Alive, Ended
  <2>5. OneRunningSession'
    BY <1>4, <1>a DEF Join, OneRunningSession, Locked, OneByOne, HasTask, Alive, Ended
  <2> QED
    BY <2>1, <2>2, <2>3, <2>4, <2>5
<1>5. CASE Announce
  <2>1. Places'
    BY <1>5, <1>a DEF Announce, Places, Statuses, Alive, Ended
  <2>2. Locked'
    BY <1>5, <1>a DEF Announce, Locked, Alive, Ended
  <2>3. OneByOne'
    BY <1>5, <1>a
      DEF Announce, OneByOne, Locked, HasTask, OneRunningSession, StoppedIsOff, Alive, Ended
  <2>4. StoppedIsOff'
    BY <1>5, <1>a DEF Announce, StoppedIsOff, Locked, OneByOne, Alive, Ended
  <2>5. OneRunningSession'
    BY <1>5, <1>a DEF Announce, OneRunningSession, Locked, OneByOne, HasTask, Alive, Ended
  <2> QED
    BY <2>1, <2>2, <2>3, <2>4, <2>5
<1>6. CASE Stopped
  <2>1. Places'
    BY <1>6, <1>a DEF Stopped, Release, Places, Statuses, Alive, Ended
  <2>2. Locked'
    BY <1>6, <1>a DEF Stopped, Release, Locked, Alive, Ended
  <2>3. OneByOne'
    BY <1>6, <1>a DEF Stopped, Release, OneByOne, Locked, HasTask, OneRunningSession,
      StoppedIsOff, Alive, Ended
  <2>4. StoppedIsOff'
    BY <1>6, <1>a DEF Stopped, Release, StoppedIsOff, Locked, OneByOne, Alive, Ended
  <2>5. OneRunningSession'
    BY <1>6, <1>a
      DEF Stopped, Release, OneRunningSession, Locked, OneByOne, HasTask, Alive, Ended
  <2> QED
    BY <2>1, <2>2, <2>3, <2>4, <2>5
<1>7. CASE StartBootstrap
  <2>1. Places'
    BY <1>7, <1>a DEF StartBootstrap, Places, Statuses, Alive, Ended
  <2>2. Locked'
    BY <1>7, <1>a DEF StartBootstrap, Locked, Alive, Ended
  <2>3. OneByOne'
    BY <1>7, <1>a DEF StartBootstrap, OneByOne, Locked, HasTask, OneRunningSession,
      StoppedIsOff, Alive, Ended
  <2>4. StoppedIsOff'
    BY <1>7, <1>a DEF StartBootstrap, StoppedIsOff, Locked, OneByOne, Alive, Ended
  <2>5. OneRunningSession'
    BY <1>7, <1>a
      DEF StartBootstrap, OneRunningSession, Locked, OneByOne, HasTask, Alive, Ended
  <2> QED
    BY <2>1, <2>2, <2>3, <2>4, <2>5
<1>8. CASE Bootstrap
  <2>1. Places'
    BY <1>8, <1>a DEF Bootstrap, Places, Statuses, Alive, Ended
  <2>2. Locked'
    BY <1>8, <1>a DEF Bootstrap, Locked, Alive, Ended
  <2>3. OneByOne'
    BY <1>8, <1>a DEF Bootstrap, OneByOne, Locked, HasTask, OneRunningSession,
      StoppedIsOff, Alive, Ended
  <2>4. StoppedIsOff'
    BY <1>8, <1>a DEF Bootstrap, StoppedIsOff, Locked, OneByOne, Alive, Ended
  <2>5. OneRunningSession'
    BY <1>8, <1>a DEF Bootstrap, OneRunningSession, Locked, OneByOne, HasTask, Alive, Ended
  <2> QED
    BY <2>1, <2>2, <2>3, <2>4, <2>5
<1>9. CASE BootstrapFails
  <2>1. Places'
    BY <1>9, <1>a DEF BootstrapFails, Release, Places, Statuses, Alive, Ended
  <2>2. Locked'
    BY <1>9, <1>a DEF BootstrapFails, Release, Locked, Alive, Ended
  <2>3. OneByOne'
    BY <1>9, <1>a DEF BootstrapFails, Release, OneByOne, Locked, HasTask,
      OneRunningSession, StoppedIsOff, Alive, Ended
  <2>4. StoppedIsOff'
    BY <1>9, <1>a DEF BootstrapFails, Release, StoppedIsOff, Locked, OneByOne, Alive, Ended
  <2>5. OneRunningSession'
    BY <1>9, <1>a DEF BootstrapFails, Release, OneRunningSession, Locked, OneByOne,
      HasTask, Alive, Ended
  <2> QED
    BY <2>1, <2>2, <2>3, <2>4, <2>5
<1>10. CASE PublishBootstrap
  <2>1. Places'
    BY <1>10, <1>a DEF PublishBootstrap, Places, Statuses, Alive, Ended
  <2>2. Locked'
    BY <1>10, <1>a DEF PublishBootstrap, Locked, Alive, Ended
  <2>3. OneByOne'
    BY <1>10, <1>a DEF PublishBootstrap, OneByOne, Locked, HasTask, OneRunningSession,
      StoppedIsOff, Alive, Ended
  <2>4. StoppedIsOff'
    BY <1>10, <1>a DEF PublishBootstrap, StoppedIsOff, Locked, OneByOne, Alive, Ended
  <2>5. OneRunningSession'
    BY <1>10, <1>a
      DEF PublishBootstrap, OneRunningSession, Locked, OneByOne, HasTask, Alive, Ended
  <2> QED
    BY <2>1, <2>2, <2>3, <2>4, <2>5
<1>11. CASE CreateTask
  <2>1. Places'
    BY <1>11, <1>a DEF CreateTask, Release, Places, Statuses, Locked, Alive, Ended
  <2>2. Locked'
    BY <1>11, <1>a DEF CreateTask, Release, Locked, Alive, Ended
  <2>3. OneByOne'
    BY <1>11, <1>a DEF CreateTask, Release, OneByOne, Locked, HasTask, OneRunningSession,
      StoppedIsOff, Alive, Ended
  <2>4. StoppedIsOff'
    BY <1>11, <1>a DEF CreateTask, Release, StoppedIsOff, Locked, OneByOne, Alive, Ended
  <2>5. OneRunningSession'
    BY <1>11, <1>a
      DEF CreateTask, Release, OneRunningSession, Locked, OneByOne, HasTask, Alive, Ended
  <2> QED
    BY <2>1, <2>2, <2>3, <2>4, <2>5
<1>12. ASSUME NEW s \in Session, Begin(s) PROVE SessionInv'
  <2>1. Places'
    BY <1>12, <1>a DEF Begin, manager, Places, Statuses, Alive, Ended
  <2>2. Locked'
    BY <1>12, <1>a DEF Begin, manager, Locked, Alive, Ended
  <2>3. OneByOne'
    BY <1>12, <1>a DEF Begin, manager, OneByOne, Locked, HasTask, OneRunningSession,
      StoppedIsOff, Alive, Ended
  <2>4. StoppedIsOff'
    BY <1>12, <1>a DEF Begin, manager, StoppedIsOff, Locked, OneByOne, Alive, Ended
  <2>5. OneRunningSession'
    BY <1>12, <1>a
      DEF Begin, manager, OneRunningSession, Locked, OneByOne, HasTask, Alive, Ended
  <2> QED
    BY <2>1, <2>2, <2>3, <2>4, <2>5
<1>13. ASSUME NEW s \in Session, Greet(s) PROVE SessionInv'
  <2>1. Places'
    BY <1>13, <1>a DEF Greet, manager, Places, Statuses, Alive, Ended
  <2>2. Locked'
    BY <1>13, <1>a DEF Greet, manager, Locked, Alive, Ended
  <2>3. OneByOne'
    BY <1>13, <1>a DEF Greet, manager, OneByOne, Locked, HasTask, OneRunningSession,
      StoppedIsOff, Alive, Ended
  <2>4. StoppedIsOff'
    BY <1>13, <1>a DEF Greet, manager, StoppedIsOff, Locked, OneByOne, Alive, Ended
  <2>5. OneRunningSession'
    BY <1>13, <1>a
      DEF Greet, manager, OneRunningSession, Locked, OneByOne, HasTask, Alive, Ended
  <2> QED
    BY <2>1, <2>2, <2>3, <2>4, <2>5
<1>14. ASSUME NEW s \in Session, CloseBar(s) PROVE SessionInv'
  <2>1. Places'
    BY <1>14, <1>a DEF CloseBar, manager, Places, Statuses, Alive, Ended
  <2>2. Locked'
    BY <1>14, <1>a DEF CloseBar, manager, Locked, Alive, Ended
  <2>3. OneByOne'
    BY <1>14, <1>a DEF CloseBar, manager, OneByOne, Locked, HasTask, OneRunningSession,
      StoppedIsOff, Alive, Ended
  <2>4. StoppedIsOff'
    BY <1>14, <1>a DEF CloseBar, manager, StoppedIsOff, Locked, OneByOne, Alive, Ended
  <2>5. OneRunningSession'
    BY <1>14, <1>a
      DEF CloseBar, manager, OneRunningSession, Locked, OneByOne, HasTask, Alive, Ended
  <2> QED
    BY <2>1, <2>2, <2>3, <2>4, <2>5
<1>15. ASSUME NEW s \in Session, Trade(s) PROVE SessionInv'
  <2>1. Places'
    BY <1>15, <1>a DEF Trade, manager, Places, Statuses, Alive, Ended
  <2>2. Locked'
    BY <1>15, <1>a DEF Trade, manager, Locked, Alive, Ended
  <2>3. OneByOne'
    BY <1>15, <1>a DEF Trade, manager, OneByOne, Locked, HasTask, OneRunningSession,
      StoppedIsOff, Alive, Ended
  <2>4. StoppedIsOff'
    BY <1>15, <1>a DEF Trade, manager, StoppedIsOff, Locked, OneByOne, Alive, Ended
  <2>5. OneRunningSession'
    BY <1>15, <1>a
      DEF Trade, manager, OneRunningSession, Locked, OneByOne, HasTask, Alive, Ended
  <2> QED
    BY <2>1, <2>2, <2>3, <2>4, <2>5
<1>16. ASSUME NEW s \in Session, PublishFill(s) PROVE SessionInv'
  <2>1. Places'
    BY <1>16, <1>a DEF PublishFill, manager, Places, Statuses, Alive, Ended
  <2>2. Locked'
    BY <1>16, <1>a DEF PublishFill, manager, Locked, Alive, Ended
  <2>3. OneByOne'
    BY <1>16, <1>a DEF PublishFill, manager, OneByOne, Locked, HasTask, OneRunningSession,
      StoppedIsOff, Alive, Ended
  <2>4. StoppedIsOff'
    BY <1>16, <1>a DEF PublishFill, manager, StoppedIsOff, Locked, OneByOne, Alive, Ended
  <2>5. OneRunningSession'
    BY <1>16, <1>a
      DEF PublishFill, manager, OneRunningSession, Locked, OneByOne, HasTask, Alive, Ended
  <2> QED
    BY <2>1, <2>2, <2>3, <2>4, <2>5
<1>17. ASSUME NEW s \in Session, Fail(s) PROVE SessionInv'
  <2>1. Places'
    BY <1>17, <1>a DEF Fail, manager, Places, Statuses, Alive, Ended
  <2>2. Locked'
    BY <1>17, <1>a DEF Fail, manager, Locked, Alive, Ended
  <2>3. OneByOne'
    BY <1>17, <1>a DEF Fail, manager, OneByOne, Locked, HasTask, OneRunningSession,
      StoppedIsOff, Alive, Ended
  <2>4. StoppedIsOff'
    BY <1>17, <1>a DEF Fail, manager, StoppedIsOff, Locked, OneByOne, Alive, Ended
  <2>5. OneRunningSession'
    BY <1>17, <1>a
      DEF Fail, manager, OneRunningSession, Locked, OneByOne, HasTask, Alive, Ended
  <2> QED
    BY <2>1, <2>2, <2>3, <2>4, <2>5
<1>18. ASSUME NEW s \in Session, Report(s) PROVE SessionInv'
  <2>1. Places'
    BY <1>18, <1>a DEF Report, manager, Places, Statuses, Alive, Ended
  <2>2. Locked'
    BY <1>18, <1>a DEF Report, manager, Locked, Alive, Ended
  <2>3. OneByOne'
    BY <1>18, <1>a DEF Report, manager, OneByOne, Locked, HasTask, OneRunningSession,
      StoppedIsOff, Alive, Ended
  <2>4. StoppedIsOff'
    BY <1>18, <1>a DEF Report, manager, StoppedIsOff, Locked, OneByOne, Alive, Ended
  <2>5. OneRunningSession'
    BY <1>18, <1>a
      DEF Report, manager, OneRunningSession, Locked, OneByOne, HasTask, Alive, Ended
  <2> QED
    BY <2>1, <2>2, <2>3, <2>4, <2>5
<1>19. CASE Page
  <2>1. Places'
    BY <1>19, <1>a
      DEF Page, Connect, Disconnect, Receive, work, manager, Places, Statuses, Alive, Ended
  <2>2. Locked'
    BY <1>19, <1>a
      DEF Page, Connect, Disconnect, Receive, work, manager, Locked, Alive, Ended
  <2>3. OneByOne'
    BY <1>19, <1>a DEF Page, Connect, Disconnect, Receive, work, manager, OneByOne, Locked,
      HasTask, OneRunningSession, StoppedIsOff, Alive, Ended
  <2>4. StoppedIsOff'
    BY <1>19, <1>a DEF Page, Connect, Disconnect, Receive, work, manager, StoppedIsOff,
      Locked, OneByOne, Alive, Ended
  <2>5. OneRunningSession'
    BY <1>19, <1>a DEF Page, Connect, Disconnect, Receive, work, manager,
      OneRunningSession, Locked, OneByOne, HasTask, Alive, Ended
  <2> QED
    BY <2>1, <2>2, <2>3, <2>4, <2>5
<1>20. CASE UNCHANGED vars
  BY <1>20 DEF vars, manager, Places, Locked, OneByOne, HasTask, StoppedIsOff,
    OneRunningSession
<1> QED
  BY <1>1, <1>2, <1>3, <1>4, <1>5, <1>6, <1>7, <1>8, <1>9, <1>10, <1>11, <1>12, <1>13,
    <1>14, <1>15, <1>16, <1>17, <1>18, <1>19, <1>20 DEF Next, Request, Task

\* The invariant holds in every behaviour.
LEMMA SessionAlways == Spec => []SessionInv
BY SessionStarts, SessionKept, PTL DEF Spec

----------------------------------------------------------------------------
(* The theorems.                                                            *)

\* At most one session has a task, and it is the one the manager would stop.
THEOREM OneSessionRuns == Spec => []OneRunningSession
<1>1. SessionInv => OneRunningSession
  BY DEF SessionInv
<1> QED
  BY <1>1, SessionAlways, PTL

----------------------------------------------------------------------------
(* Types.                                                                   *)

WorkOK ==
  /\ kind \in [Session -> Kind]
  /\ rows \in [Session -> Seq(Outcome)] /\ forecast \in [Session -> Nat]
  /\ decision \in [Session -> {"long", "short", "flat", NoTarget}]
  /\ target \in [Session -> {"long", "short", "flat", NoTarget}]
  /\ fills \in [Session -> Seq({"long", "short", "flat"})]

RequestsOK ==
  /\ doing \in {"nothing", "join", "announce", "proceed", "boot", "publish", "create"}
  /\ stops \in [made : 0..MaxStops, waiting : BOOLEAN]

InboxOK ==
  /\ connected \in BOOLEAN /\ drops \in 0..MaxDrops
  /\ inbox \in Seq(Messages) /\ Len(inbox) <= MaxInbox

PageOK == page \in Pages

\* The type invariant by its parts.
LEMMA TypeParts ==
  TypeOK <=> Places /\ WorkOK /\ RequestsOK /\ InboxOK /\ PageOK
BY DEF TypeOK, Places, WorkOK, RequestsOK, InboxOK, PageOK

\* Whatever a strategy decides is a target or none.
LEMMA Decided ==
  ASSUME NEW k \in Kind, NEW seen, NEW last
  PROVE  Decide(k, seen, last) \in {"long", "short", "flat", NoTarget}
<1>1. \A o : Order(o) \in {"long", "short", "flat"}
  BY DEF Order
<1> QED
  BY <1>1 DEF Decide, Kind, LivePrediction, LiveForecast, LiveCrossing, Target

\* The row of the last forecast of a bootstrap is one of its rows.
LEMMA LastForecast ==
  ASSUME NEW n \in Nat, n >= Context
  PROVE  n - ((n - Context) % Stride) \in Nat
<1>1. \A a \in Nat, k \in Nat \ {0} : a % k \in Nat /\ a % k <= a
  OBVIOUS
<1>2. n - Context \in Nat /\ n - Context <= n
  BY DecisionAssumption
<1> QED
  BY <1>1, <1>2, DecisionAssumption

\* Publishing keeps the bound of the inbox and puts its message last.
LEMMA Published ==
  ASSUME InboxOK, NEW m \in Messages, Publish(m)
  PROVE  /\ InboxOK'
         /\ UNCHANGED page
         /\ Len(inbox') > Len(inbox) => inbox'[Len(inbox')] = m
BY SessionAssumption DEF InboxOK, Publish

\* What is published of a session is a message.
LEMMA StateIsMessage ==
  ASSUME Places, NEW s \in Session, NEW n \in Nat,
         NEW t \in {"bootstrap", "bar", "fill", "session"}
  PROVE  [StateOf(s) EXCEPT !.type = t, !.n = n] \in Messages /\ StateOf(s) \in Messages
BY DEF StateOf, Messages, Places

\* A message of another type or none changes the charts of a session.
LEMMA Shown ==
  ASSUME PageOK, NEW m \in Messages
  PROVE  Show(m) \in Pages
<1>1. page \in Pages /\ <<m.of, m.n>> \in Charted
  BY DEF PageOK, Messages, Charted
<1>2. CASE m.type = "bootstrap"
  <2>1. m.of \in Session \cup {NoSession} /\ {<<m.of, i>> : i \in 1..m.n} \subseteq Charted
    BY DEF Messages, Charted
  <2> QED
    BY <1>2, <2>1 DEF Show, Pages
<1>3. CASE m.type = "bar"
  BY <1>1, <1>3 DEF Show, Pages
<1>4. CASE m.type = "fill"
  <2>1. Append(page.fills, <<m.of, m.n>>) \in Seq(Charted)
    BY <1>1 DEF Pages
  <2> QED
    BY <1>1, <1>4, <2>1 DEF Show, Pages
<1>5. CASE m.type = "session"
  BY <1>1, <1>5 DEF Show
<1> QED
  BY <1>2, <1>3, <1>4, <1>5 DEF Messages

\* The types at the start.
LEMMA TypesStart == Init => TypeOK
<1> SUFFICES ASSUME Init PROVE TypeOK
  OBVIOUS
<1> USE SessionAssumption DEF Init
<1>1. Places /\ WorkOK
  BY SessionStarts DEF SessionInv, WorkOK
<1>2. RequestsOK /\ InboxOK
  BY DEF RequestsOK, InboxOK
<1>3. PageOK
  BY DEF PageOK, Pages, BlankPage
<1> QED
  BY <1>1, <1>2, <1>3, TypeParts

\* Each step keeps them.
LEMMA TypesKept == TypeOK /\ SessionInv /\ [Next]_vars => TypeOK'
<1> SUFFICES ASSUME TypeOK, SessionInv, [Next]_vars
             PROVE  Places' /\ WorkOK' /\ RequestsOK' /\ InboxOK' /\ PageOK'
  BY DEF TypeOK, Places, WorkOK, RequestsOK, InboxOK, PageOK
<1> USE SessionAssumption
<1>a. Places /\ WorkOK /\ RequestsOK /\ InboxOK /\ PageOK
  BY TypeParts
<1>b. Places'
  BY SessionKept DEF SessionInv
<1>c. doing \in {"boot", "publish", "create"} => holder \in Session
  BY DEF SessionInv, Locked
<1>d. doing = "announce" => current \in Session
  BY <1>a DEF SessionInv, OneByOne, Places
<1>1. ASSUME NEW s \in Session, AskStart(s)
      PROVE  Places' /\ WorkOK' /\ RequestsOK' /\ InboxOK' /\ PageOK'
  <2>1. WorkOK'
    BY <1>1, <1>a DEF AskStart, work, manager, browser, WorkOK
  <2>2. RequestsOK'
    BY <1>1, <1>a DEF AskStart, work, manager, browser, RequestsOK
  <2>3. InboxOK' /\ PageOK'
    BY <1>1, <1>a DEF AskStart, work, manager, browser, InboxOK, PageOK
  <2> QED
    BY <1>b, <2>1, <2>2, <2>3
<1>2. CASE AskStop
  <2>1. WorkOK'
    BY <1>2, <1>a DEF AskStop, work, manager, browser, WorkOK
  <2>2. RequestsOK'
    BY <1>2, <1>a DEF AskStop, work, manager, browser, RequestsOK
  <2>3. InboxOK' /\ PageOK'
    BY <1>2, <1>a DEF AskStop, work, manager, browser, InboxOK, PageOK
  <2> QED
    BY <1>b, <2>1, <2>2, <2>3
<1>3. ASSUME NEW r \in Session \cup {Stop}, Take(r)
      PROVE  Places' /\ WorkOK' /\ RequestsOK' /\ InboxOK' /\ PageOK'
  <2>1. WorkOK'
    BY <1>3, <1>a DEF Take, work, manager, browser, WorkOK
  <2>2. RequestsOK'
    BY <1>3, <1>a DEF Take, work, manager, browser, RequestsOK
  <2>3. InboxOK' /\ PageOK'
    BY <1>3, <1>a DEF Take, work, manager, browser, InboxOK, PageOK
  <2> QED
    BY <1>b, <2>1, <2>2, <2>3
<1>4. CASE Join
  <2>1. WorkOK'
    BY <1>4, <1>a DEF Join, work, manager, browser, WorkOK
  <2>2. RequestsOK'
    BY <1>4, <1>a DEF Join, work, manager, browser, RequestsOK
  <2>3. InboxOK' /\ PageOK'
    BY <1>4, <1>a DEF Join, work, manager, browser, InboxOK, PageOK
  <2> QED
    BY <1>b, <2>1, <2>2, <2>3
<1>5. CASE Announce
  <2>1. WorkOK'
    BY <1>5, <1>a DEF Announce, work, manager, browser, WorkOK
  <2>2. RequestsOK'
    BY <1>5, <1>a DEF Announce, work, manager, browser, RequestsOK
  <2>3. StateOf(current) \in Messages
    BY <1>5, <1>a, <1>d, StateIsMessage DEF Announce, WorkOK
  <2>4. Publish(StateOf(current))
    BY <1>5 DEF Announce
  <2>5. InboxOK' /\ UNCHANGED page
    BY <1>a, <2>3, <2>4, Published
  <2>6. PageOK'
    BY <1>a, <2>5 DEF PageOK
  <2> QED
    BY <1>b, <2>1, <2>2, <2>5, <2>6
<1>6. CASE Stopped
  <2>1. WorkOK'
    BY <1>6, <1>a DEF Stopped, work, manager, browser, Release, WorkOK
  <2>2. RequestsOK'
    BY <1>6, <1>a DEF Stopped, work, manager, browser, Release, RequestsOK
  <2>3. InboxOK' /\ PageOK'
    BY <1>6, <1>a DEF Stopped, work, manager, browser, Release, InboxOK, PageOK
  <2> QED
    BY <1>b, <2>1, <2>2, <2>3
<1>7. CASE StartBootstrap
  <2>1. WorkOK'
    BY <1>7, <1>a DEF StartBootstrap, work, manager, browser, WorkOK
  <2>2. RequestsOK'
    BY <1>7, <1>a DEF StartBootstrap, work, manager, browser, RequestsOK
  <2>3. InboxOK' /\ PageOK'
    BY <1>7, <1>a DEF StartBootstrap, work, manager, browser, InboxOK, PageOK
  <2> QED
    BY <1>b, <2>1, <2>2, <2>3
<1>8. CASE Bootstrap
  <2> DEFINE s == holder
  <2>a. s \in Session
    BY <1>8, <1>c DEF Bootstrap
  <2>b. PICK history \in Bootstraps :
          /\ Len(history) >= MinimumBars
          /\ rows' = [rows EXCEPT ![s] = history]
          /\ forecast' = [forecast EXCEPT ![s] =
               IF kind[s] = "timesfm" /\ Len(history) >= Context
                 THEN Len(history) - ((Len(history) - Context) % Stride) ELSE 0]
    BY <1>8 DEF Bootstrap
  <2>c. history \in Seq(Outcome) /\ Len(history) \in Nat
    OBVIOUS
  <2>d. Len(history) >= Context => Len(history) - ((Len(history) - Context) % Stride) \in Nat
    BY <2>c, LastForecast
  <2>1. WorkOK'
    BY <1>8, <1>a, <2>a, <2>b, <2>c, <2>d DEF WorkOK, Bootstrap
  <2>2. RequestsOK'
    BY <1>8, <1>a DEF Bootstrap, work, manager, browser, RequestsOK
  <2>3. InboxOK' /\ PageOK'
    BY <1>8, <1>a DEF Bootstrap, work, manager, browser, InboxOK, PageOK
  <2> QED
    BY <1>b, <2>1, <2>2, <2>3
<1>9. CASE BootstrapFails
  <2>1. WorkOK'
    BY <1>9, <1>a DEF BootstrapFails, work, manager, browser, Release, WorkOK
  <2>2. RequestsOK'
    BY <1>9, <1>a DEF BootstrapFails, work, manager, browser, Release, RequestsOK
  <2>3. InboxOK' /\ PageOK'
    BY <1>9, <1>a DEF BootstrapFails, work, manager, browser, Release, InboxOK, PageOK
  <2> QED
    BY <1>b, <2>1, <2>2, <2>3
<1>10. CASE PublishBootstrap
  <2>1. WorkOK'
    BY <1>10, <1>a DEF PublishBootstrap, work, manager, browser, WorkOK
  <2>2. RequestsOK'
    BY <1>10, <1>a DEF PublishBootstrap, work, manager, browser, RequestsOK
  <2>n. Len(rows[holder]) \in Nat
    BY <1>10, <1>a, <1>c DEF PublishBootstrap, WorkOK
  <2>3. [StateOf(holder) EXCEPT !.type = "bootstrap", !.n = Len(rows[holder])] \in Messages
    BY <1>10, <1>a, <1>c, <2>n, StateIsMessage DEF PublishBootstrap, WorkOK
  <2>4. Publish([StateOf(holder) EXCEPT !.type = "bootstrap", !.n = Len(rows[holder])])
    BY <1>10 DEF PublishBootstrap
  <2>5. InboxOK' /\ UNCHANGED page
    BY <1>a, <2>3, <2>4, Published
  <2>6. PageOK'
    BY <1>a, <2>5 DEF PageOK
  <2> QED
    BY <1>b, <2>1, <2>2, <2>5, <2>6
<1>11. CASE CreateTask
  <2>1. WorkOK'
    BY <1>11, <1>a DEF CreateTask, work, manager, browser, Release, WorkOK
  <2>2. RequestsOK'
    BY <1>11, <1>a DEF CreateTask, work, manager, browser, Release, RequestsOK
  <2>3. InboxOK' /\ PageOK'
    BY <1>11, <1>a DEF CreateTask, work, manager, browser, Release, InboxOK, PageOK
  <2> QED
    BY <1>b, <2>1, <2>2, <2>3
<1>12. ASSUME NEW s \in Session, Begin(s)
      PROVE  Places' /\ WorkOK' /\ RequestsOK' /\ InboxOK' /\ PageOK'
  <2>1. WorkOK'
    BY <1>12, <1>a DEF Begin, work, manager, browser, WorkOK
  <2>2. RequestsOK'
    BY <1>12, <1>a DEF Begin, work, manager, browser, RequestsOK
  <2>3. InboxOK' /\ PageOK'
    BY <1>12, <1>a DEF Begin, work, manager, browser, InboxOK, PageOK
  <2> QED
    BY <1>b, <2>1, <2>2, <2>3
<1>13. ASSUME NEW s \in Session, Greet(s)
      PROVE  Places' /\ WorkOK' /\ RequestsOK' /\ InboxOK' /\ PageOK'
  <2>1. WorkOK'
    BY <1>13, <1>a DEF Greet, work, manager, browser, WorkOK
  <2>2. RequestsOK'
    BY <1>13, <1>a DEF Greet, work, manager, browser, RequestsOK
  <2>3. StateOf(s) \in Messages
    BY <1>13, <1>a, StateIsMessage DEF Greet, WorkOK
  <2>4. Publish(StateOf(s))
    BY <1>13 DEF Greet
  <2>5. InboxOK' /\ UNCHANGED page
    BY <1>a, <2>3, <2>4, Published
  <2>6. PageOK'
    BY <1>a, <2>5 DEF PageOK
  <2> QED
    BY <1>b, <2>1, <2>2, <2>5, <2>6
<1>14. ASSUME NEW s \in Session, CloseBar(s)
      PROVE  Places' /\ WorkOK' /\ RequestsOK' /\ InboxOK' /\ PageOK'
  <2>a. PICK o \in Outcomes :
          LET seen == Append(rows[s], o) IN
          /\ rows' = [rows EXCEPT ![s] = seen]
          /\ decision' = [decision EXCEPT ![s] = Decide(kind[s], seen, forecast[s])]
          /\ forecast' = [forecast EXCEPT ![s] =
               IF kind[s] = "timesfm" /\ Due(seen, @) THEN Len(seen) ELSE @]
    BY <1>14 DEF CloseBar
  <2> DEFINE seen == Append(rows[s], o)
  <2>b. seen \in Seq(Outcome) /\ Len(seen) \in Nat
    BY <1>a DEF WorkOK
  <2>c. Decide(kind[s], seen, forecast[s]) \in {"long", "short", "flat", NoTarget}
    BY <1>a, Decided DEF WorkOK
  <2>1. WorkOK'
    <3> HIDE DEF seen
    <3> QED
      BY <1>14, <1>a, <2>a, <2>b, <2>c DEF WorkOK, CloseBar, seen
  <2>2. RequestsOK'
    BY <1>14, <1>a DEF CloseBar, work, manager, browser, RequestsOK
  <2>3. InboxOK' /\ PageOK'
    BY <1>14, <1>a DEF CloseBar, work, manager, browser, InboxOK, PageOK
  <2> QED
    BY <1>b, <2>1, <2>2, <2>3
<1>15. ASSUME NEW s \in Session, Trade(s)
      PROVE  Places' /\ WorkOK' /\ RequestsOK' /\ InboxOK' /\ PageOK'
  <2>t. decision[s] # NoTarget => decision[s] \in {"long", "short", "flat"}
    BY <1>a DEF WorkOK
  <2>f. decision[s] # NoTarget => Append(fills[s], decision[s]) \in Seq({"long", "short", "flat"})
    BY <1>a, <2>t DEF WorkOK
  <2>w. /\ \/ target' = target
           \/ decision[s] # NoTarget /\ target' = [target EXCEPT ![s] = decision[s]]
        /\ \/ fills' = fills
           \/ decision[s] # NoTarget /\ fills' = [fills EXCEPT ![s] = Append(@, decision[s])]
    BY <1>15 DEF Trade
  <2>x. target' \in [Session -> {"long", "short", "flat", NoTarget}]
    BY <1>a, <2>t, <2>w DEF WorkOK
  <2>y. fills' \in [Session -> Seq({"long", "short", "flat"})]
    BY <1>a, <2>f, <2>w DEF WorkOK
  <2>1. WorkOK'
    BY <1>15, <1>a, <2>x, <2>y DEF Trade, WorkOK
  <2>2. RequestsOK'
    BY <1>15, <1>a DEF Trade, work, manager, browser, RequestsOK
  <2>n. Len(rows[s]) \in Nat
    BY <1>15, <1>a, <1>c DEF Trade, WorkOK
  <2>3. [StateOf(s) EXCEPT !.type = "bar", !.n = Len(rows[s])] \in Messages
    BY <1>15, <1>a, <2>n, StateIsMessage DEF Trade, WorkOK
  <2>4. Publish([StateOf(s) EXCEPT !.type = "bar", !.n = Len(rows[s])])
    BY <1>15 DEF Trade
  <2>5. InboxOK' /\ UNCHANGED page
    BY <1>a, <2>3, <2>4, Published
  <2>6. PageOK'
    BY <1>a, <2>5 DEF PageOK
  <2> QED
    BY <1>b, <2>1, <2>2, <2>5, <2>6
<1>16. ASSUME NEW s \in Session, PublishFill(s)
      PROVE  Places' /\ WorkOK' /\ RequestsOK' /\ InboxOK' /\ PageOK'
  <2>1. WorkOK'
    BY <1>16, <1>a DEF PublishFill, work, manager, browser, WorkOK
  <2>2. RequestsOK'
    BY <1>16, <1>a DEF PublishFill, work, manager, browser, RequestsOK
  <2>n. Len(fills[s]) \in Nat
    BY <1>16, <1>a, <1>c DEF PublishFill, WorkOK
  <2>3. [StateOf(s) EXCEPT !.type = "fill", !.n = Len(fills[s])] \in Messages
    BY <1>16, <1>a, <2>n, StateIsMessage DEF PublishFill, WorkOK
  <2>4. Publish([StateOf(s) EXCEPT !.type = "fill", !.n = Len(fills[s])])
    BY <1>16 DEF PublishFill
  <2>5. InboxOK' /\ UNCHANGED page
    BY <1>a, <2>3, <2>4, Published
  <2>6. PageOK'
    BY <1>a, <2>5 DEF PageOK
  <2> QED
    BY <1>b, <2>1, <2>2, <2>5, <2>6
<1>17. ASSUME NEW s \in Session, Fail(s)
      PROVE  Places' /\ WorkOK' /\ RequestsOK' /\ InboxOK' /\ PageOK'
  <2>1. WorkOK'
    BY <1>17, <1>a DEF Fail, work, manager, browser, WorkOK
  <2>2. RequestsOK'
    BY <1>17, <1>a DEF Fail, work, manager, browser, RequestsOK
  <2>3. InboxOK' /\ PageOK'
    BY <1>17, <1>a DEF Fail, work, manager, browser, InboxOK, PageOK
  <2> QED
    BY <1>b, <2>1, <2>2, <2>3
<1>18. ASSUME NEW s \in Session, Report(s)
      PROVE  Places' /\ WorkOK' /\ RequestsOK' /\ InboxOK' /\ PageOK'
  <2>1. WorkOK'
    BY <1>18, <1>a DEF Report, work, manager, browser, WorkOK
  <2>2. RequestsOK'
    BY <1>18, <1>a DEF Report, work, manager, browser, RequestsOK
  <2>3. StateOf(s) \in Messages
    BY <1>18, <1>a, StateIsMessage DEF Report, WorkOK
  <2>4. Publish(StateOf(s))
    BY <1>18 DEF Report
  <2>5. InboxOK' /\ UNCHANGED page
    BY <1>a, <2>3, <2>4, Published
  <2>6. PageOK'
    BY <1>a, <2>5 DEF PageOK
  <2> QED
    BY <1>b, <2>1, <2>2, <2>5, <2>6
<1>19. CASE Connect
  <2>1. WorkOK' /\ RequestsOK' /\ PageOK'
    BY <1>19, <1>a DEF Connect, work, manager, WorkOK, RequestsOK, PageOK
  <2>2. Nothing \in Messages
    BY DEF Nothing, Messages, Statuses
  <2>3. current # NoSession => StateOf(current) \in Messages
    BY <1>a, StateIsMessage DEF Places
  <2>4. InboxOK'
    BY <1>19, <1>a, <2>2, <2>3 DEF Connect, InboxOK
  <2> QED
    BY <1>b, <2>1, <2>4
<1>20. CASE Disconnect
  <2>1. WorkOK' /\ RequestsOK'
    BY <1>20, <1>a DEF Disconnect, work, manager, WorkOK, RequestsOK
  <2>3. drops' \in 0..MaxDrops
    <3>1. MaxDrops \in Nat /\ drops \in 0..MaxDrops
      BY <1>a DEF InboxOK
    <3> QED
      BY <1>20, <3>1 DEF Disconnect
  <2>4. InboxOK'
    <3>1. inbox' = <<>> /\ connected' = FALSE
      BY <1>20 DEF Disconnect
    <3>2. inbox' \in Seq(Messages) /\ Len(inbox') = 0
      BY <3>1
    <3>3. Len(inbox') <= MaxInbox
      BY <3>2
    <3> QED
      BY <2>3, <3>1, <3>2, <3>3 DEF InboxOK
  <2>2. PageOK'
    BY <1>20, <1>a DEF Disconnect, PageOK, Pages
  <2> QED
    BY <1>b, <2>1, <2>2, <2>4
<1>21. CASE Receive
  <2>1. WorkOK' /\ RequestsOK'
    BY <1>21, <1>a DEF Receive, work, manager, WorkOK, RequestsOK
  <2>2. Head(inbox) \in Messages /\ Tail(inbox) \in Seq(Messages) /\ Len(Tail(inbox)) <= Len(inbox)
    BY <1>21, <1>a DEF Receive, InboxOK
  <2>3. InboxOK'
    BY <1>21, <1>a, <2>2 DEF Receive, InboxOK
  <2>4. PageOK'
    BY <1>21, <1>a, <2>2, Shown DEF Receive, PageOK
  <2> QED
    BY <1>b, <2>1, <2>3, <2>4
<1>22. CASE UNCHANGED vars
  BY <1>b, <1>22, <1>a DEF vars, work, manager, browser, WorkOK, RequestsOK, InboxOK, PageOK
<1> QED
  BY <1>1, <1>2, <1>3, <1>4, <1>5, <1>6, <1>7, <1>8, <1>9, <1>10, <1>11, <1>12, <1>13,
    <1>14, <1>15, <1>16, <1>17, <1>18, <1>19, <1>20, <1>21, <1>22
    DEF Next, Request, Task, Page

\* Every variable keeps its type, and the inbox of the page its bound.
THEOREM SessionsTyped == Spec => []TypeOK
BY TypesStart, TypesKept, SessionAlways, PTL DEF Spec

\* A stopped session stays stopped, does nothing more, and is heard of no more
\* but that it stopped.
THEOREM StoppedStaysSilent == Spec => StoppedIsSilent
<1> DEFINE Quiet(s) ==
      /\ status'[s] = "stopped"
      /\ <<rows[s], decision[s], target[s], fills[s]>>
           = <<rows[s], decision[s], target[s], fills[s]>>'
      /\ Len(inbox') > Len(inbox) /\ inbox'[Len(inbox')].of = s
           => inbox'[Len(inbox')].status = "stopped"
<1>1. ASSUME SessionInv, TypeOK, [Next]_vars, NEW s \in Session, status[s] = "stopped"
      PROVE  Quiet(s)
  <2> USE DEF Go, Become
  <2>a. /\ at[s] = "off" /\ at \in [Session -> {"new", "asked", "boot"} \cup Alive \cup Ended]
        /\ status \in [Session -> Statuses]
        /\ Places /\ WorkOK /\ RequestsOK /\ InboxOK
    BY <1>1, TypeParts DEF SessionInv, StoppedIsOff, Places
  <2>b. /\ doing \in {"boot", "publish", "create"} => holder \in Session /\ at[holder] = "boot"
        /\ doing \in {"join", "announce"} => current \in Session
        /\ doing = "announce" => status[current] = "stopped"
        /\ doing = "join" => at[current] = "cancelled"
        /\ doing = "proceed" /\ holder \in Session => at[holder] = "asked"
    BY <1>1 DEF SessionInv, Locked, OneByOne, Places
  <2>c. ASSUME NEW r \in Session, NEW t, NEW n
        PROVE  /\ StateOf(r).of = r /\ StateOf(r).status = status[r]
               /\ [StateOf(r) EXCEPT !.type = t, !.n = n].of = r
    BY DEF StateOf
  <2>d. ASSUME NEW m \in Messages, Publish(m), m.of = s => m.status = "stopped"
        PROVE  Len(inbox') > Len(inbox) /\ inbox'[Len(inbox')].of = s
                 => inbox'[Len(inbox')].status = "stopped"
    BY <2>a, <2>d, Published
  <2>e. \A x \in Alive : x # "off"
    BY DEF Alive
  <2>1. ASSUME NEW t \in Session, AskStart(t) PROVE Quiet(s)
    BY <2>1, <1>1, <2>a, <2>b, <2>e
      DEF AskStart, work, manager, browser, InboxOK, WorkOK, Alive
  <2>2. CASE AskStop
    BY <2>2, <1>1, <2>a, <2>b, <2>e
      DEF AskStop, work, manager, browser, InboxOK, WorkOK, Alive
  <2>3. ASSUME NEW r \in Session \cup {Stop}, Take(r) PROVE Quiet(s)
    BY <2>3, <1>1, <2>a, <2>b, <2>e DEF Take, work, manager, browser, InboxOK, WorkOK, Alive
  <2>4. CASE Join
    BY <2>4, <1>1, <2>a, <2>b, <2>e DEF Join, work, manager, browser, InboxOK, WorkOK, Alive
  <2>5. CASE Announce
    <3>1. current \in Session /\ Publish(StateOf(current))
      BY <2>5, <2>b DEF Announce
    <3>3. StateOf(current) \in Messages
      BY <2>a, <3>1, StateIsMessage
    <3>4. StateOf(current).of = current
      BY <3>1, <2>c DEF StateOf
    <3>5. StateOf(current).of = s => StateOf(current).status = "stopped"
      BY <2>5, <3>1, <2>c, <2>b DEF Announce
    <3>6. /\ status'[s] = "stopped"
          /\ <<rows[s], decision[s], target[s], fills[s]>>
               = <<rows[s], decision[s], target[s], fills[s]>>'
      BY <2>5, <1>1, <2>a, <3>4, <3>5 DEF Announce, work, manager, browser, WorkOK
    <3> QED
      BY <2>d, <3>1, <3>3, <3>5, <3>6
  <2>6. CASE Stopped
    BY <2>6, <1>1, <2>a, <2>b, <2>e
      DEF Stopped, work, manager, browser, Release, InboxOK, WorkOK, Alive
  <2>7. CASE StartBootstrap
    BY <2>7, <1>1, <2>a, <2>b, <2>e
      DEF StartBootstrap, work, manager, browser, InboxOK, WorkOK, Alive
  <2>8. CASE Bootstrap
    BY <2>8, <1>1, <2>a, <2>b, <2>e
      DEF Bootstrap, work, manager, browser, InboxOK, WorkOK, Alive
  <2>9. CASE BootstrapFails
    BY <2>9, <1>1, <2>a, <2>b, <2>e
      DEF BootstrapFails, work, manager, browser, Release, InboxOK, WorkOK, Alive
  <2>10. CASE PublishBootstrap
    <3>1. /\ holder \in Session
          /\ Publish([StateOf(holder) EXCEPT !.type = "bootstrap", !.n = Len(rows[holder])])
      BY <2>10, <2>b DEF PublishBootstrap
    <3>2. Len(rows[holder]) \in Nat
      BY <2>a, <3>1 DEF WorkOK
    <3>3. [StateOf(holder) EXCEPT !.type = "bootstrap", !.n = Len(rows[holder])] \in Messages
      BY <2>a, <3>1, <3>2, StateIsMessage
    <3>4. [StateOf(holder) EXCEPT !.type = "bootstrap", !.n = Len(rows[holder])].of = holder
      BY <3>1, <2>c DEF StateOf
    <3>5. [StateOf(holder) EXCEPT !.type = "bootstrap", !.n = Len(rows[holder])].of # s
      BY <2>10, <2>a, <2>b, <2>e, <3>4 DEF PublishBootstrap, Alive
    <3>6. /\ status'[s] = "stopped"
          /\ <<rows[s], decision[s], target[s], fills[s]>>
               = <<rows[s], decision[s], target[s], fills[s]>>'
      BY <2>10, <1>1, <2>a, <3>4, <3>5 DEF PublishBootstrap, work, manager, browser, WorkOK
    <3> QED
      BY <2>d, <3>1, <3>3, <3>5, <3>6
  <2>11. CASE CreateTask
    BY <2>11, <1>1, <2>a, <2>b, <2>e
      DEF CreateTask, work, manager, browser, Release, InboxOK, WorkOK, Alive
  <2>12. ASSUME NEW t \in Session, Begin(t) PROVE Quiet(s)
    BY <2>12, <1>1, <2>a, <2>b, <2>e
      DEF Begin, work, manager, browser, InboxOK, WorkOK, Alive
  <2>13. ASSUME NEW t \in Session, Greet(t) PROVE Quiet(s)
    <3>1. t \in Session /\ Publish(StateOf(t))
      BY <2>13, <2>b DEF Greet
    <3>3. StateOf(t) \in Messages
      BY <2>a, <3>1, StateIsMessage
    <3>4. StateOf(t).of = t
      BY <3>1, <2>c DEF StateOf
    <3>5. StateOf(t).of # s
      BY <2>13, <2>a, <2>b, <2>e, <3>4 DEF Greet, Alive
    <3>6. /\ status'[s] = "stopped"
          /\ <<rows[s], decision[s], target[s], fills[s]>>
               = <<rows[s], decision[s], target[s], fills[s]>>'
      BY <2>13, <1>1, <2>a, <3>4, <3>5 DEF Greet, work, manager, browser, WorkOK
    <3> QED
      BY <2>d, <3>1, <3>3, <3>5, <3>6
  <2>14. ASSUME NEW t \in Session, CloseBar(t) PROVE Quiet(s)
    BY <2>14, <1>1, <2>a, <2>b, <2>e
      DEF CloseBar, work, manager, browser, InboxOK, WorkOK, Alive
  <2>15. ASSUME NEW t \in Session, Trade(t) PROVE Quiet(s)
    <3>1. t \in Session /\ Publish([StateOf(t) EXCEPT !.type = "bar", !.n = Len(rows[t])])
      BY <2>15, <2>b DEF Trade
    <3>2. Len(rows[t]) \in Nat
      BY <2>a, <3>1 DEF WorkOK
    <3>3. [StateOf(t) EXCEPT !.type = "bar", !.n = Len(rows[t])] \in Messages
      BY <2>a, <3>1, <3>2, StateIsMessage
    <3>4. [StateOf(t) EXCEPT !.type = "bar", !.n = Len(rows[t])].of = t
      BY <3>1, <2>c DEF StateOf
    <3>5. [StateOf(t) EXCEPT !.type = "bar", !.n = Len(rows[t])].of # s
      BY <2>15, <2>a, <2>b, <2>e, <3>4 DEF Trade, Alive
    <3>6. /\ status'[s] = "stopped"
          /\ <<rows[s], decision[s], target[s], fills[s]>>
               = <<rows[s], decision[s], target[s], fills[s]>>'
      BY <2>15, <1>1, <2>a, <3>4, <3>5 DEF Trade, work, manager, browser, WorkOK
    <3> QED
      BY <2>d, <3>1, <3>3, <3>5, <3>6
  <2>16. ASSUME NEW t \in Session, PublishFill(t) PROVE Quiet(s)
    <3>1. t \in Session /\ Publish([StateOf(t) EXCEPT !.type = "fill", !.n = Len(fills[t])])
      BY <2>16, <2>b DEF PublishFill
    <3>2. Len(fills[t]) \in Nat
      BY <2>a, <3>1 DEF WorkOK
    <3>3. [StateOf(t) EXCEPT !.type = "fill", !.n = Len(fills[t])] \in Messages
      BY <2>a, <3>1, <3>2, StateIsMessage
    <3>4. [StateOf(t) EXCEPT !.type = "fill", !.n = Len(fills[t])].of = t
      BY <3>1, <2>c DEF StateOf
    <3>5. [StateOf(t) EXCEPT !.type = "fill", !.n = Len(fills[t])].of # s
      BY <2>16, <2>a, <2>b, <2>e, <3>4 DEF PublishFill, Alive
    <3>6. /\ status'[s] = "stopped"
          /\ <<rows[s], decision[s], target[s], fills[s]>>
               = <<rows[s], decision[s], target[s], fills[s]>>'
      BY <2>16, <1>1, <2>a, <3>4, <3>5 DEF PublishFill, work, manager, browser, WorkOK
    <3> QED
      BY <2>d, <3>1, <3>3, <3>5, <3>6
  <2>17. ASSUME NEW t \in Session, Fail(t) PROVE Quiet(s)
    BY <2>17, <1>1, <2>a, <2>b, <2>e
      DEF Fail, work, manager, browser, InboxOK, WorkOK, Alive
  <2>18. ASSUME NEW t \in Session, Report(t) PROVE Quiet(s)
    <3>1. t \in Session /\ Publish(StateOf(t))
      BY <2>18, <2>b DEF Report
    <3>3. StateOf(t) \in Messages
      BY <2>a, <3>1, StateIsMessage
    <3>4. StateOf(t).of = t
      BY <3>1, <2>c DEF StateOf
    <3>5. StateOf(t).of # s
      BY <2>18, <2>a, <2>b, <2>e, <3>4 DEF Report, Alive
    <3>6. /\ status'[s] = "stopped"
          /\ <<rows[s], decision[s], target[s], fills[s]>>
               = <<rows[s], decision[s], target[s], fills[s]>>'
      BY <2>18, <1>1, <2>a, <3>4, <3>5 DEF Report, work, manager, browser, WorkOK
    <3> QED
      BY <2>d, <3>1, <3>3, <3>5, <3>6
  <2>19. CASE Connect
    <3>1. inbox' = <<IF current = NoSession THEN Nothing ELSE StateOf(current)>>
      BY <2>19 DEF Connect
    <3>2. Len(inbox') = 1 /\ inbox'[1] = IF current = NoSession THEN Nothing ELSE StateOf(current)
      BY <3>1
    <3>3. inbox'[1].of = s => inbox'[1].status = "stopped"
      <4>1. current = NoSession => inbox'[1].of = NoSession
        BY <3>2 DEF Nothing
      <4>2. current # NoSession => inbox'[1].of = current /\ inbox'[1].status = status[current]
        BY <3>2 DEF StateOf
      <4> QED
        BY <4>1, <4>2, <1>1, SessionAssumption
    <3> QED
      BY <2>19, <3>2, <3>3, <1>1 DEF Connect, work
  <2>20. CASE Disconnect
    BY <2>20, <1>1, <2>a DEF Disconnect, work, InboxOK
  <2>21. CASE Receive
    <3>1. Len(Tail(inbox)) <= Len(inbox) /\ Len(Tail(inbox)) \in Nat /\ Len(inbox) \in Nat
      BY <2>21, <2>a DEF Receive, InboxOK
    <3> QED
      BY <2>21, <3>1, <1>1 DEF Receive, work
  <2>22. CASE UNCHANGED vars
    BY <2>22, <1>1, <2>a DEF vars, work, browser, InboxOK
  <2> HIDE DEF Quiet
  <2> QED
    BY <1>1, <2>1, <2>2, <2>3, <2>4, <2>5, <2>6, <2>7, <2>8, <2>9, <2>10, <2>11, <2>12,
      <2>13, <2>14, <2>15, <2>16, <2>17, <2>18, <2>19, <2>20, <2>21, <2>22
      DEF Next, Request, Task, Page
<1>2. SessionInv /\ TypeOK /\ [Next]_vars =>
        [\A s \in Session : status[s] = "stopped" => Quiet(s)]_vars
  BY <1>1
<1> QED
  BY <1>2, SessionAlways, SessionsTyped, PTL DEF Spec, StoppedIsSilent

----------------------------------------------------------------------------
(* Least numbers.                                                           *)

\* Less-than on the naturals is well-founded.
LEMMA LessIsWellFounded ==
  \E R : IsWellFoundedOn(R, Nat) /\ \A a, b \in Nat : a < b => <<a, b>> \in R
<1>1. IsWellFoundedOn(OpToRel(<, Nat), Nat)
  BY NatLessThanWellFounded
<1>2. \A a, b \in Nat : a < b => <<a, b>> \in OpToRel(<, Nat)
  BY DEF OpToRel
<1> QED
  BY <1>1, <1>2, Zenon

\* A set of naturals that is not empty has a least member.
LEMMA LeastNumber ==
  ASSUME NEW T \in SUBSET Nat, T # {}
  PROVE  \E x \in T : \A y \in T : x <= y
<1>1. PICK R : IsWellFoundedOn(R, Nat) /\ \A a, b \in Nat : a < b => <<a, b>> \in R
  BY LessIsWellFounded
<1>2. IsWellFoundedOn(R, Nat) /\ T \subseteq Nat /\ T # {}
  BY <1>1
<1>3. PICK x \in T : \A y \in T : ~(<<y, x>> \in R)
  BY <1>2, WFMin, Zenon
<1>4. \A y \in T : ~(y < x)
  BY <1>1, <1>3
<1> QED
  BY <1>4

----------------------------------------------------------------------------
(* What a strategy decides, over all rows and over the ones it keeps.       *)

IsLast(S, j) == j \in S /\ \A k \in S : k <= j

\* Of a set of naturals up to n that is not empty, Last is the greatest.
LEMMA LastIsGreatest ==
  ASSUME NEW n \in Nat, NEW S \in SUBSET (1 .. n), S # {}
  PROVE  IsLast(S, Last(S))
<1> DEFINE T == {n - k : k \in S}
<1>1. T \in SUBSET Nat /\ T # {}
  <2>1. \A k \in S : n - k \in Nat
    OBVIOUS
  <2>2. PICK k \in S : TRUE
    OBVIOUS
  <2>3. n - k \in T
    OBVIOUS
  <2> QED
    BY <2>1, <2>3
<1>2. PICK x \in T : \A y \in T : x <= y
  BY <1>1, LeastNumber
<1>3. PICK j \in S : x = n - j
  BY <1>2
<1>4. \A k \in S : n - j <= n - k
  BY <1>2, <1>3
<1>5. IsLast(S, j)
  BY <1>4 DEF IsLast
<1>6. \E l \in S : \A k \in S : k <= l
  BY <1>5 DEF IsLast
<1>7. Last(S) \in S /\ \A k \in S : k <= Last(S)
  BY <1>6, Zenon DEF Last
<1> QED
  BY <1>7 DEF IsLast

\* There is only one.
LEMMA LastIsOne ==
  ASSUME NEW S \in SUBSET Int, NEW j, IsLast(S, j)
  PROVE  Last(S) = j
<1>1. j \in S /\ \A k \in S : k <= j
  BY DEF IsLast
<1>2. \E l \in S : \A k \in S : k <= l
  BY <1>1
<1>3. Last(S) \in S /\ \A k \in S : k <= Last(S)
  BY <1>2, Zenon DEF Last
<1>4. j \in Int /\ Last(S) \in Int /\ j <= Last(S) /\ Last(S) <= j
  BY <1>1, <1>3
<1> QED
  BY <1>4

\* Orders are decisions.
LEMMA OrderDecides == \A o : Order(o) \in {"long", "short", "flat"} /\ Order(o) # NoTarget
BY DecisionAssumption DEF Order

\* The deque is the end of the rows, and long enough to decide by.
LEMMA KeptIsEnd ==
  ASSUME NEW seen \in Seq(Outcome), Len(seen) >= MinimumBars
  PROVE  \E off \in Nat :
           /\ off = Len(seen) - Len(Kept(seen))
           /\ Len(Kept(seen)) \in Nat /\ Len(Kept(seen)) >= MinimumBars
           /\ \A i \in 1 .. Len(Kept(seen)) :
                i + off \in 1 .. Len(seen) /\ Kept(seen)[i] = seen[i + off]
<1> DEFINE n == Len(seen)
<1>1. HistorySize \in Nat /\ HistorySize > MinimumBars /\ MinimumBars \in Nat
  BY DecisionAssumption DEF MinimumBars
<1>2. n \in Nat
  OBVIOUS
<1>3. CASE n > HistorySize
  <2>1. Kept(seen) = SubSeq(seen, n - HistorySize + 1, n)
    BY <1>3 DEF Kept
  <2>2. PICK off \in Nat : off = n - HistorySize
    BY <1>1, <1>2, <1>3
  <2>3. Len(Kept(seen)) = HistorySize
    BY <1>1, <1>2, <1>3, <2>1
  <2>4. \A i \in 1 .. HistorySize : Kept(seen)[i] = seen[i + off] /\ i + off \in 1 .. n
    BY <1>1, <1>2, <1>3, <2>1, <2>2
  <2>5. off = n - Len(Kept(seen))
    BY <2>2, <2>3
  <2>6. Len(Kept(seen)) \in Nat /\ Len(Kept(seen)) >= MinimumBars
    BY <1>1, <2>3
  <2>7. \A i \in 1 .. Len(Kept(seen)) :
          i + off \in 1 .. Len(seen) /\ Kept(seen)[i] = seen[i + off]
    BY <2>3, <2>4
  <2> QED
    BY <2>5, <2>6, <2>7
<1>4. CASE ~(n > HistorySize)
  <2>1. Kept(seen) = seen
    BY <1>4 DEF Kept
  <2> QED
    BY <1>2, <2>1
<1> QED
  BY <1>3, <1>4

\* What is predicted of the kept rows is what is predicted of all, where the
\* window and the warm-up are kept.
LEMMA KeptPredictions ==
  ASSUME NEW seen \in Seq(Outcome), NEW kept \in Seq(Outcome), NEW off \in Nat,
         off = Len(seen) - Len(kept),
         \A i \in 1 .. Len(kept) : i + off \in 1 .. Len(seen) /\ kept[i] = seen[i + off]
  PROVE  /\ \A j \in 1 .. Len(kept) :
              j \in Predicted(kept) <=> j + off \in Predicted(seen) /\ j >= MinimumBars
         /\ \A j \in 1 .. Len(kept) : j \in Crossings(kept) <=> j + off \in Crossings(seen)
<1>1. /\ Context \in Nat \ {0} /\ MinimumBars \in Nat /\ MinimumBars >= Context
      /\ Len(kept) \in Nat /\ Len(seen) \in Nat
  BY DecisionAssumption DEF MinimumBars
<1>2. ASSUME NEW j \in 1 .. Len(kept)
      PROVE  j \in Predicted(kept) <=> j + off \in Predicted(seen) /\ j >= MinimumBars
  <2>1. PICK l \in 1 .. Len(seen) : l = j + off
    BY <1>1, <1>2
  <2>2. CASE ~(j >= MinimumBars)
    BY <2>2 DEF Predicted, ValidEndpoint
  <2>3. CASE j >= MinimumBars
    <3>1. \A i \in (j - Context + 1) .. j : i \in 1 .. Len(kept) /\ kept[i] = seen[i + off]
      BY <1>1, <2>3
    <3>2. \A i \in (l - Context + 1) .. l :
            i - off \in (j - Context + 1) .. j /\ (i - off) + off = i
      BY <1>1, <2>1
    <3>3. (\A i \in (j - Context + 1) .. j : kept[i] # "gap")
            <=> \A i \in (l - Context + 1) .. l : seen[i] # "gap"
      <4>1. \A i \in (j - Context + 1) .. j : i + off \in (l - Context + 1) .. l
        BY <1>1, <2>1
      <4>2. ASSUME \A i \in (j - Context + 1) .. j : kept[i] # "gap",
                   NEW i \in (l - Context + 1) .. l
            PROVE  seen[i] # "gap"
        <5> DEFINE k == i - off
        <5>1. k \in (j - Context + 1) .. j /\ k + off = i
          BY <3>2, <4>2
        <5> HIDE DEF k
        <5>2. kept[k] # "gap" /\ kept[k] = seen[k + off]
          BY <3>1, <4>2, <5>1
        <5> QED
          BY <5>1, <5>2
      <4>3. ASSUME \A i \in (l - Context + 1) .. l : seen[i] # "gap",
                   NEW i \in (j - Context + 1) .. j
            PROVE  kept[i] # "gap"
        BY <3>1, <4>1, <4>3
      <4> QED
        BY <4>2, <4>3
    <3>4. l >= MinimumBars
      BY <1>1, <2>1, <2>3
    <3>5. j \in Predicted(kept) <=> \A i \in (j - Context + 1) .. j : kept[i] # "gap"
      BY <1>2, <2>3 DEF Predicted, ValidEndpoint
    <3>6. l \in Predicted(seen) <=> \A i \in (l - Context + 1) .. l : seen[i] # "gap"
      BY <2>1, <3>4 DEF Predicted, ValidEndpoint
    <3> QED
      BY <2>1, <2>3, <3>3, <3>5, <3>6
  <2> QED
    BY <2>2, <2>3
<1>3. ASSUME NEW j \in 1 .. Len(kept)
      PROVE  j \in Crossings(kept) <=> j + off \in Crossings(seen)
  BY <1>3 DEF Crossings
<1> QED
  BY <1>2, <1>3

\* A strategy that predicts every bar decides in a session what a backtest over
\* its rows ends with, if it remembers the row that decides.
LEMMA LivePredicts ==
  ASSUME NEW k \in {"threshold", "hold"}, NEW seen \in Seq(Outcome), Len(seen) >= MinimumBars
  PROVE  /\ LivePrediction(k, seen) \in {"long", "short", "flat"}
         /\ LivePrediction(k, seen) # NoTarget
         /\ Remembered(k, seen) => LivePrediction(k, seen) = Target(k, seen)
<1> DEFINE kept == Kept(seen)
           A == Acting(k, seen)
           B == Acting(k, kept)
<1>1. PICK off \in Nat :
        /\ off = Len(seen) - Len(kept) /\ Len(kept) \in Nat /\ Len(kept) >= MinimumBars
        /\ \A i \in 1 .. Len(kept) : i + off \in 1 .. Len(seen) /\ kept[i] = seen[i + off]
  BY KeptIsEnd
<1>2. kept \in Seq(Outcome)
  <2>1. DOMAIN kept = 1 .. Len(kept) /\ \A i \in 1 .. Len(kept) : kept[i] \in Outcome
    <3>1. \A i \in 1 .. Len(seen) : seen[i] \in Outcome
      OBVIOUS
    <3>2. DOMAIN kept = 1 .. Len(kept)
      BY DecisionAssumption DEF Kept
    <3> QED
      BY <1>1, <3>1, <3>2
  <2> QED
    BY DecisionAssumption DEF Kept, MinimumBars
<1> HIDE DEF kept
<1>3. /\ \A j \in 1 .. Len(kept) :
           j \in Predicted(kept) <=> j + off \in Predicted(seen) /\ j >= MinimumBars
      /\ \A j \in 1 .. Len(kept) : j \in Crossings(kept) <=> j + off \in Crossings(seen)
  BY <1>1, <1>2, KeptPredictions
<1>4. LivePrediction(k, seen) = Target(k, kept)
  <2>1. ~(Len(kept) < MinimumBars)
    BY <1>1, DecisionAssumption DEF MinimumBars
  <2> QED
    BY <2>1 DEF LivePrediction, kept
<1>5. Target(k, kept) = IF B = {} THEN "flat" ELSE Order(kept[Last(B)])
  BY Zenon DEF Target
<1>6. Target(k, seen) = IF A = {} THEN "flat" ELSE Order(seen[Last(A)])
  BY Zenon DEF Target
<1>7. /\ A \subseteq 1 .. Len(seen) /\ B \subseteq 1 .. Len(kept)
      /\ \A j \in A : j >= MinimumBars
  BY DEF Acting, Predicted, Crossings, ValidEndpoint
<1>8. \A j \in 1 .. Len(kept) : j \in B <=> j + off \in A /\ j >= MinimumBars
  BY <1>3 DEF Acting
<1>9. Remembered(k, seen) => A = {} \/ Last(A) >= off + MinimumBars
  BY <1>1 DEF Remembered, kept
<1> HIDE DEF A, B
<1>10. ASSUME A = {} PROVE B = {}
  BY <1>7, <1>8, <1>10
<1>11. ASSUME A # {}, Last(A) >= off + MinimumBars
       PROVE  B # {} /\ kept[Last(B)] = seen[Last(A)]
  <2>0. Len(seen) \in Nat
    OBVIOUS
  <2>1. Last(A) \in A /\ \A j \in A : j <= Last(A)
    BY <1>7, <1>11, <2>0, LastIsGreatest DEF IsLast
  <2>2. MinimumBars \in Nat /\ MinimumBars > 0
    BY DecisionAssumption DEF MinimumBars
  <2>a. Last(A) \in 1 .. Len(seen)
    BY <1>7, <2>1
  <2>b. PICK j \in Int : j = Last(A) - off
    BY <2>0, <2>a
  <2>3. j \in 1 .. Len(kept) /\ j + off = Last(A) /\ j >= MinimumBars
    BY <1>1, <1>11, <2>0, <2>2, <2>a, <2>b
  <2>4. j \in B
    BY <1>8, <2>1, <2>3
  <2>5. \A i \in B : i <= j
    BY <1>1, <1>7, <1>8, <2>1, <2>2, <2>a, <2>b
  <2>6. IsLast(B, j)
    BY <2>4, <2>5 DEF IsLast
  <2>7. Last(B) = j
    BY <1>7, <2>6, LastIsOne
  <2> QED
    BY <1>1, <2>3, <2>4, <2>7
<1>12. MinimumBars \in Nat /\ LivePrediction(k, seen) \in {"long", "short", "flat"}
  BY <1>4, <1>5, OrderDecides, DecisionAssumption DEF MinimumBars
<1>13. LivePrediction(k, seen) # NoTarget
  BY <1>12, DecisionAssumption
<1>14. Remembered(k, seen) => Target(k, kept) = Target(k, seen)
  BY <1>5, <1>6, <1>9, <1>10, <1>11
<1> QED
  BY <1>4, <1>12, <1>13, <1>14

\* Remainders are what is left of a multiple.
LEMMA Remainder ==
  ASSUME NEW q \in Nat, NEW s \in Nat \ {0}, NEW r \in 0 .. s - 1
  PROVE  (s * q + r) % s = r
<1> DEFINE n == s * q + r
<1>1. n \in Nat /\ s \in Nat /\ 0 < s
  OBVIOUS
<1> HIDE DEF n
<1>2. n % s \in 0 .. s - 1 /\ n \div s \in Nat
  BY <1>1
<1>3. (n % s) + s * (n \div s) = n
  BY <1>1
<1> DEFINE p == n \div s
           t == n % s
<1>4. t \in 0 .. s - 1 /\ p \in Nat /\ t + s * p = s * q + r
  BY <1>2, <1>3 DEF n
<1> HIDE DEF p, t
<1>5. CASE p = q
  BY <1>4, <1>5 DEF t, n
<1>6. CASE p <= q - 1
  <2>1. s * p <= s * (q - 1) /\ s * (q - 1) = s * q - s
    BY <1>4, <1>6
  <2>2. s * q \in Int /\ s * p \in Int
    BY <1>4
  <2> QED
    BY <1>4, <2>1, <2>2
<1>7. CASE p >= q + 1
  <2>1. s * p >= s * (q + 1) /\ s * (q + 1) = s * q + s
    BY <1>4, <1>7
  <2>2. s * q \in Int /\ s * p \in Int
    BY <1>4
  <2> QED
    BY <1>4, <2>1, <2>2
<1> QED
  BY <1>4, <1>5, <1>6, <1>7

\* Every number is a multiple and a remainder.
LEMMA Quotient ==
  ASSUME NEW n \in Nat, NEW s \in Nat \ {0}
  PROVE  \E q \in Nat : \E r \in 0 .. s - 1 : n = s * q + r /\ n % s = r
<1>0. n % s \in 0 .. s - 1 /\ n \div s \in Nat /\ s \in Nat /\ 0 < s
  OBVIOUS
<1>1. (n % s) + s * (n \div s) = n
  BY <1>0
<1>2. PICK q \in Nat, r \in 0 .. s - 1 : q = n \div s /\ r = n % s
  BY <1>0
<1>3. r + s * q = n
  BY <1>1, <1>2
<1> QED
  BY <1>2, <1>3

\* The multiples: the next one is a stride later, and none lies between.
LEMMA NextMultiple ==
  ASSUME NEW n \in Nat, NEW s \in Nat \ {0}, n % s = 0
  PROVE  /\ (n + s) % s = 0
         /\ \A d \in 1 .. s - 1 : (n + d) % s # 0
<1>1. PICK q \in Nat : n = s * q
  BY Quotient
<1>2. s * (q + 1) = n + s /\ q + 1 \in Nat /\ 0 \in 0 .. s - 1
  BY <1>1
<1>3. (s * (q + 1) + 0) % s = 0
  BY <1>2, Remainder
<1>4. (n + s) % s = 0
  BY <1>2, <1>3
<1>5. ASSUME NEW d \in 1 .. s - 1 PROVE (n + d) % s # 0
  <2>1. d \in 0 .. s - 1 /\ d # 0
    OBVIOUS
  <2>2. (s * q + d) % s = d
    BY <2>1, Remainder
  <2> QED
    BY <1>1, <2>1, <2>2
<1> QED
  BY <1>4, <1>5

\* After a bootstrap of n rows TimesFM remembers their last forecast.
LEMMA BootForecast ==
  ASSUME NEW seen \in Seq(Outcome), Len(seen) >= Context
  PROVE  IsLast(Forecasts(seen), Len(seen) - ((Len(seen) - Context) % Stride))
<1>c. Context \in Nat \ {0} /\ Stride \in Nat \ {0}
  BY DecisionAssumption
<1>n. PICK n \in Nat, m \in Nat : n = Len(seen) /\ m = n - Context
  BY <1>c
<1>1. PICK q \in Nat, r \in 0 .. Stride - 1 : m = Stride * q + r /\ m % Stride = r
  BY <1>c, Quotient
<1>2. PICK j \in Int : j = n - r
  BY <1>c, <1>n, <1>1
<1>3. Stride * q \in Nat
  BY <1>c
<1>4. j \in Context .. n /\ j - Context = Stride * q
  BY <1>c, <1>n, <1>1, <1>2, <1>3
<1>5. (Stride * q) % Stride = 0
  <2>1. (Stride * q + 0) % Stride = 0
    BY <1>c, Remainder
  <2> QED
    BY <1>3, <2>1
<1>6. j \in Forecasts(seen)
  BY <1>n, <1>4, <1>5 DEF Forecasts
<1>7. ASSUME NEW k \in Forecasts(seen) PROVE k <= j
  <2>1. k \in Context .. n /\ (k - Context) % Stride = 0
    BY <1>n DEF Forecasts
  <2> SUFFICES ASSUME k > j PROVE FALSE
    BY <1>4, <2>1
  <2>2. PICK d \in 1 .. Stride - 1 : d = k - j
    BY <1>c, <1>1, <1>2, <1>4, <2>1
  <2>3. (Stride * q + d) % Stride = d
    <3>1. d \in 0 .. Stride - 1
      BY <2>2
    <3> QED
      BY <1>c, <3>1, Remainder
  <2>4. k - Context = Stride * q + d
    BY <1>c, <1>3, <1>4, <2>1, <2>2
  <2> QED
    BY <2>1, <2>2, <2>3, <2>4
<1> QED
  BY <1>n, <1>1, <1>2, <1>6, <1>7 DEF IsLast

\* TimesFM forecasts in the rows a backtest forecasts in.
LEMMA ForecastDue ==
  ASSUME NEW old \in Seq(Outcome), NEW o \in Outcome, NEW last \in Nat,
         IsLast(Forecasts(old), last), NEW seen, seen = Append(old, o)
  PROVE  /\ Due(seen, last) <=> Len(seen) \in Forecasts(seen)
         /\ IsLast(Forecasts(seen), IF Due(seen, last) THEN Len(seen) ELSE last)
<1>c. Context \in Nat \ {0} /\ Stride \in Nat \ {0}
  BY DecisionAssumption
<1>n. PICK n \in Nat, m \in Nat : n = Len(old) /\ m = n + 1 /\ m = Len(seen)
  OBVIOUS
<1>1. /\ last \in Context .. n /\ (last - Context) % Stride = 0
      /\ \A k \in Context .. n : (k - Context) % Stride = 0 => k <= last
  BY <1>n DEF IsLast, Forecasts
<1>2. PICK b \in Nat : b = last - Context
  BY <1>1, <1>c
<1>3. (b + Stride) % Stride = 0 /\ \A d \in 1 .. Stride - 1 : (b + d) % Stride # 0
  BY <1>c, <1>1, <1>2, NextMultiple
<1>4. n < last + Stride
  <2> SUFFICES ASSUME n >= last + Stride PROVE FALSE
    BY <1>c, <1>1
  <2>1. PICK k \in Context .. n : k = last + Stride
    BY <1>c, <1>1
  <2>2. k - Context = b + Stride
    BY <1>c, <1>1, <1>2, <2>1
  <2>3. (k - Context) % Stride = 0
    BY <1>3, <2>2
  <2>4. k <= last
    BY <1>1, <2>1, <2>3
  <2> QED
    BY <1>c, <1>1, <2>1, <2>4
<1>5. Forecasts(seen) = {k \in Context .. m : (k - Context) % Stride = 0}
  BY <1>n DEF Forecasts
<1>6. Due(seen, last) <=> m - last >= Stride
  BY <1>c, <1>n, <1>1 DEF Due
<1>7. \A k \in Context .. m : k \in Context .. n \/ k = m
  BY <1>n
<1>8. CASE m - last >= Stride
  <2>1. m = last + Stride
    BY <1>c, <1>n, <1>1, <1>4, <1>8
  <2>2. m - Context = b + Stride /\ m \in Context .. m
    BY <1>c, <1>1, <1>2, <2>1
  <2>3. m \in Forecasts(seen)
    BY <1>3, <1>5, <2>2
  <2>4. \A k \in Forecasts(seen) : k <= m
    BY <1>5
  <2> QED
    BY <1>n, <1>6, <1>8, <2>3, <2>4 DEF IsLast
<1>9. CASE ~(m - last >= Stride)
  <2>1. PICK d \in 1 .. Stride - 1 : d = m - last
    BY <1>c, <1>n, <1>1, <1>9
  <2>2. m - Context = b + d
    BY <1>c, <1>1, <1>2, <2>1
  <2>3. m \notin Forecasts(seen)
    BY <1>3, <1>5, <2>1, <2>2
  <2>4. last \in Forecasts(seen)
    BY <1>1, <1>5, <1>n
  <2>5. \A k \in Forecasts(seen) : k <= last
    BY <1>1, <1>5, <1>7, <2>3
  <2> QED
    BY <1>n, <1>6, <1>9, <2>3, <2>4, <2>5 DEF IsLast
<1> QED
  BY <1>8, <1>9

\* A strategy that speaks only when something happens ends a backtest with what
\* it said last.
LEMMA LastWord ==
  ASSUME NEW k \in {"timesfm", "crossing"}, NEW old \in Seq(Outcome), NEW o \in Outcome,
         NEW seen, seen = Append(old, o)
  PROVE  Target(k, seen) = IF Len(seen) \in Acting(k, seen) THEN Order(o) ELSE Target(k, old)
<1>n. PICK n \in Nat, m \in Nat : n = Len(old) /\ m = n + 1 /\ m = Len(seen)
  OBVIOUS
<1>c. Context \in Nat \ {0}
  BY DecisionAssumption
<1>1. seen[m] = o /\ \A i \in 1 .. n : seen[i] = old[i]
  BY <1>n
<1> DEFINE A == Acting(k, seen)
           B == Acting(k, old)
<1>2. A \subseteq 1 .. m /\ B \subseteq 1 .. n /\ \A j \in 1 .. n : j \in A <=> j \in B
  <2>1. CASE k = "timesfm"
    <3>1. A = Forecasts(seen) /\ B = Forecasts(old)
      BY <2>1 DEF Acting
    <3> QED
      BY <1>c, <1>n, <3>1 DEF Forecasts
  <2>2. CASE k = "crossing"
    <3>1. A = Crossings(seen) /\ B = Crossings(old)
      BY <2>2 DEF Acting
    <3> QED
      BY <1>n, <1>1, <3>1 DEF Crossings
  <2> QED
    BY <2>1, <2>2
<1>3. Target(k, seen) = IF A = {} THEN "flat" ELSE Order(seen[Last(A)])
  BY Zenon DEF Target
<1>4. Target(k, old) = IF B = {} THEN "flat" ELSE Order(old[Last(B)])
  BY Zenon DEF Target
<1> HIDE DEF A, B
<1>5. CASE m \in A
  <2>1. IsLast(A, m)
    BY <1>2, <1>5 DEF IsLast
  <2>2. Last(A) = m
    BY <1>2, <2>1, LastIsOne
  <2> QED
    BY <1>n, <1>1, <1>3, <1>5, <2>2 DEF A
<1>6. CASE m \notin A
  <2>1. A = B
    <3>1. \A j \in A : j \in 1 .. n
      BY <1>n, <1>2, <1>6
    <3> QED
      BY <1>2, <3>1
  <2>2. B # {} => Last(B) \in B
    BY <1>2, LastIsGreatest DEF IsLast
  <2>3. B # {} => seen[Last(B)] = old[Last(B)]
    BY <1>1, <1>2, <2>2
  <2>4. Target(k, seen) = Target(k, old)
    BY <1>3, <1>4, <2>1, <2>3
  <2> QED
    BY <1>n, <1>6, <2>4 DEF A
<1> QED
  BY <1>5, <1>6

----------------------------------------------------------------------------
(* Sessions decide as a backtest over their rows.                           *)

\* Sessions whose bootstrap has been read.
HasBegun(s) == at[s] \in Alive \/ (at[s] = "boot" /\ doing \in {"publish", "create"})

\* What the strategy said last: the target, or a decision not traded yet.
Heard(s) == IF at[s] = "publish" /\ decision[s] # NoTarget THEN decision[s] ELSE target[s]

Agrees(s) ==
  Heard(s) # NoTarget /\ Remembered(kind[s], rows[s]) => Heard(s) = Target(kind[s], rows[s])

Follows(s) ==
  /\ HasBegun(s) => Len(rows[s]) >= MinimumBars
  /\ HasBegun(s) /\ kind[s] = "timesfm" => IsLast(Forecasts(rows[s]), forecast[s])
  /\ at[s] \in {"new", "asked", "boot", "begin", "greet"} => target[s] = NoTarget
  /\ at[s] \in {"wait", "publish", "fill"} => Agrees(s)

\* Nothing a session decides by has changed: it is where it was, or one of the
\* steps brought it on that are not about a bar.
Onward(s) ==
  /\ kind'[s] = kind[s] /\ rows'[s] = rows[s] /\ forecast'[s] = forecast[s]
  /\ target'[s] = target[s] /\ fills'[s] = fills[s]
  /\ \/ at'[s] = at[s] /\ decision'[s] = decision[s]
        /\ (at[s] = "boot" /\ doing' \in {"publish", "create"} => doing \in {"publish", "create"})
     \/ /\ <<at[s], at'[s]>> \in {<<"new", "asked">>, <<"asked", "boot">>, <<"boot", "begin">>,
                                  <<"begin", "greet">>, <<"greet", "wait">>, <<"fill", "wait">>}
        /\ at[s] = "boot" => doing = "create"
        /\ at'[s] = "boot" => doing' = "boot"
     \/ at'[s] \in {"report"} \cup Ended /\ (at'[s] = "report" => at[s] \in {"wait", "publish", "fill"})

\* Such a step keeps what it follows.
LEMMA OnwardFollows ==
  ASSUME NEW s \in Session, Follows(s), Onward(s)
  PROVE  Follows(s)'
<1> USE DEF Follows, Onward, HasBegun, Alive, Ended
<1>1. /\ kind'[s] = kind[s] /\ rows'[s] = rows[s] /\ forecast'[s] = forecast[s]
      /\ target'[s] = target[s]
  OBVIOUS
<1>2. /\ Forecasts(rows[s])' = Forecasts(rows[s])
      /\ Target(kind[s], rows[s])' = Target(kind[s], rows[s])
      /\ (Remembered(kind[s], rows[s])' <=> Remembered(kind[s], rows[s]))
      /\ (IsLast(Forecasts(rows[s]), forecast[s])' <=> IsLast(Forecasts(rows[s]), forecast[s]))
  BY <1>1
<1>3. CASE /\ at'[s] = at[s] /\ decision'[s] = decision[s]
           /\ (at[s] = "boot" /\ doing' \in {"publish", "create"}
                 => doing \in {"publish", "create"})
  BY <1>1, <1>2, <1>3 DEF Agrees, Heard
<1>4. CASE /\ <<at[s], at'[s]>> \in {<<"new", "asked">>, <<"asked", "boot">>, <<"boot", "begin">>,
                                  <<"begin", "greet">>, <<"greet", "wait">>, <<"fill", "wait">>}
           /\ at[s] = "boot" => doing = "create"
           /\ at'[s] = "boot" => doing' = "boot"
  BY <1>1, <1>2, <1>4 DEF Agrees, Heard
<1>5. CASE at'[s] \in {"report"} \cup Ended /\ (at'[s] = "report" => at[s] \in {"wait", "publish", "fill"})
  BY <1>1, <1>2, <1>5
<1> QED
  BY <1>3, <1>4, <1>5

\* Every step is such a step for a session, or brings it its bootstrap or a bar,
\* or trades on what its strategy said.
LEMMA SessionMoves ==
  ASSUME TypeOK, SessionInv, [Next]_vars, NEW s \in Session
  PROVE  Onward(s) \/ (Bootstrap /\ holder = s) \/ CloseBar(s) \/ Trade(s)
<1> USE SessionAssumption DEF Go, Become
<1>a. Places /\ Locked /\ OneByOne /\ WorkOK
  BY TypeParts DEF SessionInv
<1> USE DEF Places, WorkOK
<1>b. /\ at[s] = "boot" <=> holder = s /\ doing \in {"boot", "publish", "create"}
      /\ \A t \in Session : holder = t /\ doing = "proceed" => at[t] = "asked"
      /\ \A t \in Session : holder = t /\ doing \in {"boot", "publish", "create"} => at[t] = "boot"
  BY <1>a DEF Locked
<1>1. ASSUME NEW t \in Session, AskStart(t) PROVE Onward(s)
  BY <1>1, <1>a DEF AskStart, Onward, work, manager
<1>2. CASE AskStop
  BY <1>2, <1>a DEF AskStop, Onward, work
<1>3. ASSUME NEW r \in Session \cup {Stop}, Take(r) PROVE Onward(s)
  BY <1>3, <1>a, <1>b DEF Take, Onward, work, Ended
<1>4. CASE Join
  BY <1>4, <1>a, <1>b DEF Join, Onward, work, Ended
<1>5. CASE Announce
  BY <1>5, <1>a, <1>b DEF Announce, Onward, work
<1>6. CASE Stopped
  BY <1>6, <1>a, <1>b DEF Stopped, Release, Onward, work
<1>7. CASE StartBootstrap
  BY <1>7, <1>a, <1>b DEF StartBootstrap, Onward, work
<1>8. CASE Bootstrap
  BY <1>8, <1>a, <1>b DEF Bootstrap, Onward
<1>9. CASE BootstrapFails
  BY <1>9, <1>a, <1>b DEF BootstrapFails, Release, Onward, work, Ended
<1>10. CASE PublishBootstrap
  BY <1>10, <1>a, <1>b DEF PublishBootstrap, Onward, work
<1>11. CASE CreateTask
  BY <1>11, <1>a, <1>b DEF CreateTask, Release, Onward, work
<1>12. ASSUME NEW t \in Session, Begin(t) PROVE Onward(s)
  BY <1>12, <1>a DEF Begin, Onward, work, manager
<1>13. ASSUME NEW t \in Session, Greet(t) PROVE Onward(s)
  BY <1>13, <1>a DEF Greet, Onward, work, manager
<1>14. ASSUME NEW t \in Session, CloseBar(t) PROVE Onward(s) \/ CloseBar(s)
  BY <1>14, <1>a DEF CloseBar, Onward, manager
<1>15. ASSUME NEW t \in Session, Trade(t) PROVE Onward(s) \/ Trade(s)
  <2>1. CASE t = s
    BY <1>15, <2>1
  <2>2. CASE t # s
    BY <1>15, <1>a, <2>2 DEF Trade, Onward, manager
  <2> QED
    BY <2>1, <2>2
<1>16. ASSUME NEW t \in Session, PublishFill(t) PROVE Onward(s)
  BY <1>16, <1>a DEF PublishFill, Onward, work, manager
<1>17. ASSUME NEW t \in Session, Fail(t) PROVE Onward(s)
  BY <1>17, <1>a DEF Fail, Onward, work, manager
<1>18. ASSUME NEW t \in Session, Report(t) PROVE Onward(s)
  BY <1>18, <1>a DEF Report, Onward, work, manager, Ended
<1>19. CASE Connect \/ Disconnect \/ Receive
  BY <1>19, <1>a DEF Connect, Disconnect, Receive, Onward, work, manager
<1>20. CASE UNCHANGED vars
  BY <1>20, <1>a DEF vars, Onward, work, manager
<1> QED
  BY <1>1, <1>2, <1>3, <1>4, <1>5, <1>6, <1>7, <1>8, <1>9, <1>10, <1>11, <1>12, <1>13,
     <1>14, <1>15, <1>16, <1>17, <1>18, <1>19, <1>20
     DEF Next, Request, Task, Page

\* A bootstrap is long enough, and leaves TimesFM at its last forecast.
LEMMA BootstrapFollows ==
  ASSUME TypeOK, SessionInv, NEW s \in Session, Follows(s), Bootstrap, holder = s
  PROVE  Follows(s)'
<1>a. Places /\ Locked /\ WorkOK
  BY TypeParts DEF SessionInv
<1>1. at[s] = "boot" /\ at' = at /\ target' = target /\ kind' = kind
  BY <1>a DEF Bootstrap, Locked
<1>2. PICK history \in Bootstraps :
        /\ Len(history) >= MinimumBars
        /\ rows' = [rows EXCEPT ![s] = history]
        /\ forecast' = [forecast EXCEPT ![s] =
             IF kind[s] = "timesfm" /\ Len(history) >= Context
               THEN Len(history) - ((Len(history) - Context) % Stride) ELSE 0]
  BY DEF Bootstrap
<1>3. history \in Seq(Outcome) /\ Len(history) >= Context
  BY <1>2, SessionAssumption, DecisionAssumption DEF MinimumBars
<1>4. /\ rows'[s] = history
      /\ kind[s] = "timesfm" =>
           forecast'[s] = Len(history) - ((Len(history) - Context) % Stride)
  BY <1>a, <1>2, <1>3 DEF WorkOK
<1>5. kind[s] = "timesfm" => IsLast(Forecasts(rows[s]), forecast[s])'
  <2>1. IsLast(Forecasts(history), Len(history) - ((Len(history) - Context) % Stride))
    BY <1>3, BootForecast
  <2>2. IsLast(Forecasts(rows[s]), forecast[s])' <=> IsLast(Forecasts(rows'[s]), forecast'[s])
    OBVIOUS
  <2> QED
    BY <1>4, <2>1, <2>2
<1>6. Len(rows'[s]) >= MinimumBars
  BY <1>2, <1>4
<1>7. at'[s] = "boot" /\ target'[s] = NoTarget /\ kind'[s] = kind[s]
  BY <1>1 DEF Follows
<1> QED
  BY <1>5, <1>6, <1>7 DEF Follows

\* A bar is answered as a backtest that ends with it would.
LEMMA BarFollows ==
  ASSUME TypeOK, NEW s \in Session, Follows(s), CloseBar(s)
  PROVE  Follows(s)'
<1>a. Places /\ WorkOK
  BY TypeParts
<1>1. PICK o \in Outcomes :
        LET seen == Append(rows[s], o) IN
        /\ rows' = [rows EXCEPT ![s] = seen]
        /\ decision' = [decision EXCEPT ![s] = Decide(kind[s], seen, forecast[s])]
        /\ forecast' = [forecast EXCEPT ![s] =
             IF kind[s] = "timesfm" /\ Due(seen, @) THEN Len(seen) ELSE @]
  BY DEF CloseBar
<1> DEFINE old  == rows[s]
           seen == Append(old, o)
           k    == kind[s]
<1>2. /\ o \in Outcome /\ old \in Seq(Outcome) /\ seen \in Seq(Outcome)
      /\ Len(seen) = Len(old) + 1 /\ seen[Len(seen)] = o
      /\ k \in Kind /\ Len(old) \in Nat /\ forecast[s] \in Nat
  BY <1>a, SessionAssumption DEF WorkOK
<1>3. /\ rows'[s] = seen /\ kind'[s] = k /\ target'[s] = target[s]
      /\ decision'[s] = Decide(k, seen, forecast[s])
      /\ forecast'[s] = IF k = "timesfm" /\ Due(seen, forecast[s]) THEN Len(seen) ELSE forecast[s]
      /\ at[s] = "wait" /\ at'[s] = "publish"
  BY <1>a, <1>1 DEF WorkOK, Places, CloseBar, Go
<1>4. /\ Len(old) >= MinimumBars
      /\ k = "timesfm" => IsLast(Forecasts(old), forecast[s])
      /\ target[s] # NoTarget /\ Remembered(k, old) => target[s] = Target(k, old)
  BY <1>3 DEF Follows, HasBegun, Alive, Agrees, Heard
<1>5. Len(seen) >= MinimumBars /\ MinimumBars \in Nat /\ MinimumBars >= Context /\ Context \in Nat
  BY <1>2, <1>4, DecisionAssumption DEF MinimumBars
<1> DEFINE d == Decide(k, seen, forecast[s])
           h == IF d # NoTarget THEN d ELSE target[s]
<1> HIDE DEF seen, old, k
<1>6. k = "timesfm" => IsLast(Forecasts(seen), forecast'[s])
  <2>1. k = "timesfm" =>
          IsLast(Forecasts(seen), IF Due(seen, forecast[s]) THEN Len(seen) ELSE forecast[s])
    BY <1>2, <1>4, ForecastDue DEF seen
  <2> QED
    BY <1>3, <2>1
<1>7. h # NoTarget /\ Remembered(k, seen) => h = Target(k, seen)
  <2>1. CASE k \in {"threshold", "hold"}
    <3>1. d = LivePrediction(k, seen)
      BY <2>1 DEF Decide
    <3> QED
      BY <1>2, <1>5, <2>1, <3>1, LivePredicts
  <2>2. CASE k \in {"timesfm", "crossing"}
    <3>1. Target(k, seen) = IF Len(seen) \in Acting(k, seen) THEN Order(o) ELSE Target(k, old)
      BY <1>2, <2>2, LastWord, ZenonT(30) DEF seen
    <3>2. Remembered(k, old)
      BY <2>2 DEF Remembered
    <3>3. d = IF Len(seen) \in Acting(k, seen) THEN Order(o) ELSE NoTarget
      <4>1. CASE k = "timesfm"
        <5>1. Due(seen, forecast[s]) <=> Len(seen) \in Forecasts(seen)
          BY <1>2, <1>4, <4>1, ForecastDue DEF seen
        <5>2. d = IF Due(seen, forecast[s]) THEN Order(o) ELSE NoTarget
          BY <1>2, <4>1 DEF Decide, LiveForecast
        <5> QED
          BY <4>1, <5>1, <5>2 DEF Acting
      <4>2. CASE k = "crossing"
        <5>1. Len(Kept(seen)) >= MinimumBars
          BY <1>2, <1>5, KeptIsEnd
        <5>2. Len(seen) \in Crossings(seen) <=> o \in {"up", "down"}
          BY <1>2 DEF Crossings
        <5>3. d = LiveCrossing(seen)
          BY <4>2 DEF Decide
        <5>4. d = IF o \in {"up", "down"} THEN Order(o) ELSE NoTarget
          BY <1>2, <5>1, <5>3 DEF LiveCrossing
        <5> QED
          BY <4>2, <5>2, <5>4 DEF Acting
      <4> QED
        BY <2>2, <4>1, <4>2
    <3>4. Order(o) # NoTarget
      BY OrderDecides
    <3> QED
      BY <1>4, <3>1, <3>2, <3>3, <3>4
  <2> QED
    BY <1>2, <2>1, <2>2 DEF Kind
<1>8. Heard(s)' = h
  BY <1>3 DEF Heard
<1>9. Agrees(s)'
  BY <1>3, <1>7, <1>8 DEF Agrees
<1> QED
  BY <1>3, <1>5, <1>6, <1>9 DEF Follows

\* A trade makes what was heard the target.
LEMMA TradeFollows ==
  ASSUME TypeOK, NEW s \in Session, Follows(s), Trade(s)
  PROVE  Follows(s)'
<1>a. Places /\ WorkOK
  BY TypeParts
<1>1. /\ at[s] = "publish" /\ at'[s] \in {"wait", "fill"}
      /\ kind' = kind /\ rows' = rows /\ forecast' = forecast
      /\ target'[s] = IF decision[s] \in {NoTarget, target[s]} THEN target[s] ELSE decision[s]
  BY <1>a DEF Trade, Go, Places, WorkOK
<1>2. Heard(s)' = Heard(s)
  BY <1>1 DEF Heard
<1>3. Agrees(s)'
  <2>1. Agrees(s)
    BY <1>1 DEF Follows
  <2> QED
    BY <1>1, <1>2, <2>1 DEF Agrees
<1>4. HasBegun(s) /\ Len(rows[s]) >= MinimumBars
      /\ (kind[s] = "timesfm" => IsLast(Forecasts(rows[s]), forecast[s]))
  BY <1>1 DEF Follows, HasBegun, Alive
<1>5. (IsLast(Forecasts(rows[s]), forecast[s])' <=> IsLast(Forecasts(rows[s]), forecast[s]))
  BY <1>1
<1> QED
  BY <1>1, <1>3, <1>4, <1>5 DEF Follows

\* Between two bars a session holds the target a backtest over its rows ends
\* with, whatever its strategy, its history and its bounds.
THEOREM LiveFollowsBatch == Spec => []LiveMatchesBatch
<1> DEFINE FollowsAll == \A s \in Session : Follows(s)
<1>1. Init => FollowsAll
  BY DEF Init, Follows, HasBegun, Alive
<1>2. TypeOK /\ SessionInv /\ FollowsAll /\ [Next]_vars => FollowsAll'
  <2> SUFFICES ASSUME TypeOK, SessionInv, FollowsAll, [Next]_vars, NEW s \in Session
               PROVE  Follows(s)'
    OBVIOUS
  <2>1. Follows(s)
    OBVIOUS
  <2> QED
    BY <2>1, SessionMoves, OnwardFollows, BootstrapFollows, BarFollows, TradeFollows
<1>3. FollowsAll => LiveMatchesBatch
  BY DEF LiveMatchesBatch, Follows, Agrees, Heard
<1> QED
  BY <1>1, <1>2, <1>3, SessionAlways, SessionsTyped, PTL DEF Spec

----------------------------------------------------------------------------
(* What the page shows once it has received what is on its way.             *)

\* Positions in the inbox after b of the messages of a type.
After(b, type) == {i \in b + 1 .. Len(inbox) : inbox[i].type = type}

\* The last bootstrap on its way is at b; or there is none, and the page has
\* missed nothing since its own.
Begins(b) ==
  /\ b = 0 => page.whole
  /\ b # 0 => inbox[b].type = "bootstrap"
  /\ After(b, "bootstrap") = {}

\* Its session; the bars and fills from there on.
From(b) == IF b = 0 THEN page.from ELSE inbox[b].of
Base(b) == IF b = 0 THEN Len(page.fills) ELSE 0
Bars(b) ==
  (IF b = 0 THEN page.bars ELSE {<<inbox[b].of, i>> : i \in 1 .. inbox[b].n})
    \cup {<<inbox[i].of, inbox[i].n>> : i \in After(b, "bar")}
Numbers(b) == {inbox[i].n : i \in After(b, "fill")}

\* Nobody else has a task, or is about to.
Owner(s) ==
  /\ s \in Session
  /\ current \in {s, NoSession}
  /\ at[s] \notin {"new", "asked"}
  /\ at[s] = "boot" => doing = "create"
  /\ doing = "create" => holder = s

\* The bars and fills that have been sent of it.
Count(s, k) ==
  /\ k \in {Len(rows[s]) - 1, Len(rows[s])}
  /\ at[s] \notin {"publish", "report"} \cup Ended => k = Len(rows[s])
Sent(s, q) ==
  /\ q \in {Len(fills[s]) - 1, Len(fills[s])}
  /\ at[s] = "fill" => q = Len(fills[s]) - 1
  /\ at[s] \notin {"fill", "report"} \cup Ended => q = Len(fills[s])

\* Messages are of the session, bars without a hole, fills in their order.
OfOne(b) ==
  /\ \A i \in After(b, "bar") \cup After(b, "fill") : inbox[i].of = From(b)
  /\ b = 0 => \A i \in 1 .. Len(page.fills) : page.fills[i] = <<From(b), i>>
BarsTo(b, k)  == Bars(b) = {<<From(b), i>> : i \in 1 .. k}
FillsTo(b, q) ==
  /\ Numbers(b) = Base(b) + 1 .. q /\ Base(b) <= q
  /\ \A i, j \in After(b, "fill") : i < j => inbox[i].n < inbox[j].n

Shows(b) ==
  /\ Owner(From(b)) /\ OfOne(b)
  /\ \E k \in Nat : BarsTo(b, k) /\ Count(From(b), k)
  /\ \E q \in Nat : FillsTo(b, q) /\ Sent(From(b), q)

\* Fills come after the bootstrap.
Untraded == \A s \in Session : at[s] \in {"new", "asked", "boot"} => fills[s] = <<>>

PageInv ==
  /\ ~connected => inbox = <<>> /\ ~page.whole
  /\ \A b \in 0 .. Len(inbox) : Begins(b) => Shows(b)

\* A message more is after every position before it.
LEMMA InboxGrows ==
  ASSUME InboxOK, PageOK, NEW m \in Messages, inbox' = Append(inbox, m), page' = page,
         NEW l \in Nat, l = Len(inbox)
  PROVE  /\ Len(inbox') = l + 1 /\ inbox'[l + 1] = m
         /\ \A i \in 1 .. l : inbox'[i] = inbox[i]
         /\ \A b \in 0 .. l :
              /\ From(b)' = From(b) /\ Base(b)' = Base(b)
              /\ Begins(b)' => Begins(b) /\ m.type # "bootstrap"
              /\ \A type : After(b, type)' = After(b, type) \cup {i \in {l + 1} : m.type = type}
              /\ Bars(b)' = Bars(b) \cup {x \in {<<m.of, m.n>>} : m.type = "bar"}
              /\ Numbers(b)' = Numbers(b) \cup {x \in {m.n} : m.type = "fill"}
<1>p. PICK p \in Nat : p = l + 1
  OBVIOUS
<1>1. /\ Len(inbox') = p /\ inbox'[p] = m
      /\ \A i \in 1 .. l : inbox'[i] = inbox[i]
  BY <1>p DEF InboxOK
<1>2. ASSUME NEW b \in 0 .. l
      PROVE  /\ From(b)' = From(b) /\ Base(b)' = Base(b)
             /\ Begins(b)' => Begins(b) /\ m.type # "bootstrap"
             /\ \A type : After(b, type)' = After(b, type) \cup {i \in {p} : m.type = type}
             /\ Bars(b)' = Bars(b) \cup {x \in {<<m.of, m.n>>} : m.type = "bar"}
             /\ Numbers(b)' = Numbers(b) \cup {x \in {m.n} : m.type = "fill"}
  <2>1. b # 0 => inbox'[b] = inbox[b]
    BY <1>1
  <2>2. From(b)' = From(b) /\ Base(b)' = Base(b)
    BY <2>1 DEF From, Base
  <2>3. ASSUME NEW type
        PROVE  After(b, type)' = After(b, type) \cup {i \in {p} : m.type = type}
    <3>1. (b + 1) .. p = ((b + 1) .. l) \cup {p}
      BY <1>p
    <3>2. \A i \in (b + 1) .. l : inbox'[i] = inbox[i]
      BY <1>1
    <3>3. After(b, type)' = {i \in (b + 1) .. p : inbox'[i].type = type}
      BY <1>1 DEF After
    <3> QED
      BY <1>1, <3>1, <3>2, <3>3 DEF After
  <2>4. \A type : \A i \in After(b, type) : i \in 1 .. l /\ inbox'[i] = inbox[i]
    BY <1>1 DEF After
  <2>5. Begins(b)' => Begins(b) /\ m.type # "bootstrap"
    <3>1. After(b, "bootstrap")' = {} => After(b, "bootstrap") = {} /\ m.type # "bootstrap"
      BY <2>3
    <3> QED
      BY <2>1, <3>1 DEF Begins
  <2>6. Bars(b)' = Bars(b) \cup {x \in {<<m.of, m.n>>} : m.type = "bar"}
    <3> DEFINE F == {<<inbox[i].of, inbox[i].n>> : i \in After(b, "bar")}
               A == After(b, "bar")
               H == IF b = 0 THEN page.bars ELSE {<<inbox[b].of, i>> : i \in 1 .. inbox[b].n}
    <3>1. F' = {<<inbox'[i].of, inbox'[i].n>> : i \in A \cup {i \in {p} : m.type = "bar"}}
      BY <2>3
    <3>2. \A i \in A : inbox'[i] = inbox[i]
      BY <2>4
    <3>3. F' = F \cup {x \in {<<m.of, m.n>>} : m.type = "bar"}
      <4> HIDE DEF A
      <4>1. F = {<<inbox[i].of, inbox[i].n>> : i \in A}
        BY DEF A
      <4>2. {<<inbox'[i].of, inbox'[i].n>> : i \in A} = {<<inbox[i].of, inbox[i].n>> : i \in A}
        BY <3>2
      <4> HIDE DEF F
      <4>3. CASE m.type = "bar"
        <5>1. F' = {<<inbox'[i].of, inbox'[i].n>> : i \in A} \cup {<<inbox'[p].of, inbox'[p].n>>}
          BY <3>1, <4>3
        <5> QED
          BY <1>1, <4>1, <4>2, <4>3, <5>1
      <4>4. CASE m.type # "bar"
        <5>1. F' = {<<inbox'[i].of, inbox'[i].n>> : i \in A}
          BY <3>1, <4>4
        <5> QED
          BY <4>1, <4>2, <4>4, <5>1
      <4> QED
        BY <4>3, <4>4
    <3>4. H' = H
      BY <2>1
    <3>5. Bars(b) = H \cup F /\ Bars(b)' = H' \cup F'
      BY DEF Bars
    <3> QED
      BY <3>3, <3>4, <3>5
  <2>7. Numbers(b)' = Numbers(b) \cup {x \in {m.n} : m.type = "fill"}
    <3> DEFINE A == After(b, "fill")
    <3>1. Numbers(b)' = {inbox'[i].n : i \in A \cup {i \in {p} : m.type = "fill"}}
      BY <2>3 DEF Numbers
    <3>2. \A i \in A : inbox'[i] = inbox[i]
      BY <2>4
    <3>3. Numbers(b) = {inbox[i].n : i \in A}
      BY DEF Numbers
    <3> HIDE DEF A
    <3>4. {inbox'[i].n : i \in A} = Numbers(b)
      BY <3>2, <3>3
    <3>5. CASE m.type = "fill"
      BY <1>1, <3>1, <3>4, <3>5, ZenonT(30)
    <3>6. CASE m.type # "fill"
      BY <3>1, <3>4, <3>6
    <3> QED
      BY <3>5, <3>6
  <2> QED
    BY <2>2, <2>3, <2>5, <2>6, <2>7
<1> QED
  BY <1>p, <1>1, <1>2

\* Every step but a bootstrap's publication leaves the session its owner, and
\* what has been sent of it; a trade sends a bar, and a fill is sent after it.
LEMMA OwnerMoves ==
  ASSUME TypeOK, SessionInv, [Next]_vars, ~PublishBootstrap, NEW s, Owner(s)
  PROVE  /\ Owner(s)'
         /\ Trade(s) \/ \A k \in Nat : Count(s, k) => Count(s, k)'
         /\ Trade(s) \/ PublishFill(s) \/ \A q \in Nat : Sent(s, q) => Sent(s, q)'
<1> USE SessionAssumption DEF Go, Become
<1>a. Places /\ Locked /\ OneByOne /\ WorkOK /\ s \in Session
  BY TypeParts DEF SessionInv, Owner
<1> DEFINE Stays == /\ Owner(s)'
                    /\ \A k \in Nat : Count(s, k) => Count(s, k)'
                    /\ \A q \in Nat : Sent(s, q) => Sent(s, q)'
<1> USE DEF Places, WorkOK
<1>b. /\ at[s] = "boot" <=> holder = s /\ doing \in {"boot", "publish", "create"}
      /\ \A t \in Session : holder = t /\ doing = "proceed" => at[t] = "asked"
      /\ \A t \in Session : holder = t /\ doing \in {"boot", "publish", "create"} => at[t] = "boot"
  BY <1>a DEF Locked
<1>n. Len(rows[s]) \in Nat /\ Len(fills[s]) \in Nat
  BY <1>a
<1> USE DEF Owner, Count, Sent
<1>1. ASSUME NEW t \in Session, AskStart(t) PROVE Stays
  BY <1>1, <1>a DEF AskStart, work, manager
<1>2. CASE AskStop
  BY <1>2, <1>a DEF AskStop, work
<1>3. ASSUME NEW r \in Session \cup {Stop}, Take(r) PROVE Stays
  BY <1>3, <1>a, <1>b DEF Take, work, Ended
<1>4. CASE Join
  BY <1>4, <1>a, <1>b DEF Join, work, Ended
<1>5. CASE Announce
  BY <1>5, <1>a, <1>b DEF Announce, work
<1>6. CASE Stopped
  BY <1>6, <1>a, <1>b DEF Stopped, Release, work
<1>7. CASE StartBootstrap
  BY <1>7, <1>a, <1>b DEF StartBootstrap, work
<1>8. CASE Bootstrap
  BY <1>8, <1>a, <1>b DEF Bootstrap
<1>9. CASE BootstrapFails
  BY <1>9, <1>a, <1>b DEF BootstrapFails, Release, work, Ended
<1>11. CASE CreateTask
  BY <1>11, <1>a, <1>b DEF CreateTask, Release, work, Ended
<1>12. ASSUME NEW t \in Session, Begin(t) PROVE Stays
  BY <1>12, <1>a DEF Begin, work, manager, Ended
<1>13. ASSUME NEW t \in Session, Greet(t) PROVE Stays
  BY <1>13, <1>a DEF Greet, work, manager, Ended
<1>14. ASSUME NEW t \in Session, CloseBar(t) PROVE Stays
  <2>1. /\ at[t] = "wait" /\ at' = [at EXCEPT ![t] = "publish"]
        /\ fills' = fills /\ UNCHANGED manager
    BY <1>14 DEF CloseBar
  <2>2. PICK o \in Outcomes : rows' = [rows EXCEPT ![t] = Append(rows[t], o)]
    BY <1>14 DEF CloseBar
  <2>3. t # s => rows'[s] = rows[s] /\ at'[s] = at[s]
    BY <1>a, <2>1, <2>2
  <2>4. t = s => Len(rows'[s]) = Len(rows[s]) + 1 /\ at'[s] = "publish"
    BY <1>a, <2>1, <2>2
  <2>5. \A k \in Nat : Count(s, k) => Count(s, k)'
    BY <1>n, <2>1, <2>3, <2>4 DEF Ended
  <2>6. \A q \in Nat : Sent(s, q) => Sent(s, q)'
    BY <1>n, <2>1, <2>3, <2>4 DEF Ended
  <2>7. Owner(s)'
    BY <2>1, <2>3, <2>4 DEF manager
  <2> QED
    BY <2>5, <2>6, <2>7
<1>15. ASSUME NEW t \in Session, Trade(t) PROVE Owner(s)' /\ (t # s => Stays)
  <2>1. /\ at[t] = "publish" /\ rows' = rows /\ UNCHANGED manager
        /\ \E what \in {"wait", "fill"} : at' = [at EXCEPT ![t] = what]
        /\ \E f : fills' = [fills EXCEPT ![t] = f] \/ fills' = fills
    BY <1>15 DEF Trade
  <2> QED
    BY <1>a, <2>1 DEF manager
<1>16. ASSUME NEW t \in Session, PublishFill(t)
       PROVE  /\ Owner(s)'
              /\ \A k \in Nat : Count(s, k) => Count(s, k)'
              /\ t # s => Stays
  BY <1>16, <1>a DEF PublishFill, work, manager, Ended
<1>17. ASSUME NEW t \in Session, Fail(t) PROVE Stays
  BY <1>17, <1>a DEF Fail, work, manager, Ended
<1>18. ASSUME NEW t \in Session, Report(t) PROVE Stays
  BY <1>18, <1>a DEF Report, work, manager, Ended
<1>19. CASE Connect \/ Disconnect \/ Receive
  BY <1>19, <1>a DEF Connect, Disconnect, Receive, work, manager
<1>20. CASE UNCHANGED vars
  BY <1>20, <1>a DEF vars, work, manager
<1> QED
  BY <1>1, <1>2, <1>3, <1>4, <1>5, <1>6, <1>7, <1>8, <1>9, <1>11, <1>12, <1>13,
     <1>14, <1>15, <1>16, <1>17, <1>18, <1>19, <1>20
     DEF Next, Request, Task, Page

\* Before the first bootstrap.
LEMMA PageStarts == Init => PageInv
BY DEF Init, PageInv, BlankPage, Begins

\* A page that is not connected shows nothing that counts.
LEMMA Unconnected ==
  ASSUME InboxOK, PageInv, ~connected
  PROVE  inbox = <<>> /\ ~page.whole /\ \A b \in 0 .. Len(inbox) : ~Begins(b)
<1>1. inbox = <<>> /\ ~page.whole
  BY DEF PageInv
<1>2. \A b \in 0 .. Len(inbox) : b = 0
  BY <1>1
<1> QED
  BY <1>1, <1>2 DEF Begins

\* What is published while the page is not connected changes nothing for it.
LEMMA UnheardKeeps ==
  ASSUME InboxOK, PageInv, ~connected, UNCHANGED <<connected, inbox, page>>
  PROVE  PageInv'
<1>1. inbox' = <<>> /\ ~page'.whole /\ ~connected'
  BY Unconnected
<1>2. \A b \in 0 .. Len(inbox') : b = 0
  BY <1>1
<1>3. ~Begins(0)'
  BY <1>1 DEF Begins
<1> QED
  BY <1>1, <1>2, <1>3 DEF PageInv

\* A step that publishes nothing.
LEMMA SilentKeeps ==
  ASSUME TypeOK, SessionInv, PageInv, [Next]_vars, UNCHANGED <<connected, inbox, page>>,
         connected => /\ ~PublishBootstrap
                      /\ \A s \in Session : ~Trade(s) /\ ~PublishFill(s)
  PROVE  PageInv'
<1>a. InboxOK
  BY TypeParts
<1>1. CASE ~connected
  BY <1>a, <1>1, UnheardKeeps
<1>2. CASE connected
  <2>1. SUFFICES ASSUME NEW b \in 0 .. Len(inbox), Begins(b)' PROVE Shows(b)'
    BY <1>2 DEF PageInv
  <2>2. /\ From(b)' = From(b) /\ Base(b)' = Base(b) /\ Bars(b)' = Bars(b)
        /\ Numbers(b)' = Numbers(b) /\ \A type : After(b, type)' = After(b, type)
        /\ (Begins(b)' <=> Begins(b))
    BY DEF From, Base, Bars, Numbers, After, Begins
  <2>3. Shows(b)
    BY <2>1, <2>2 DEF PageInv
  <2> DEFINE s == From(b)
  <2>4. PICK k \in Nat, q \in Nat :
          BarsTo(b, k) /\ Count(s, k) /\ FillsTo(b, q) /\ Sent(s, q)
    BY <2>3 DEF Shows
  <2>5. Owner(s) /\ OfOne(b) /\ s \in Session
    BY <2>3 DEF Shows, Owner
  <2>6. PICK t \in Session : t = s
    BY <2>5
  <2>7. Owner(t)' /\ Count(t, k)' /\ Sent(t, q)'
    BY <1>2, <2>4, <2>5, <2>6, OwnerMoves
  <2>8. Owner(From(b))' /\ Count(From(b), k)' /\ Sent(From(b), q)'
    BY <2>2, <2>6, <2>7 DEF Owner, Count, Sent
  <2>9. OfOne(b)' /\ BarsTo(b, k)' /\ FillsTo(b, q)'
    BY <2>2, <2>4, <2>5 DEF OfOne, BarsTo, FillsTo
  <2> QED
    BY <2>8, <2>9 DEF Shows
<1> QED
  BY <1>1, <1>2

\* A state of a session is published.
LEMMA StateKeeps ==
  ASSUME TypeOK, SessionInv, PageInv, [Next]_vars, ~PublishBootstrap,
         \A s \in Session : ~Trade(s) /\ ~PublishFill(s),
         NEW m \in Messages, m.type = "session", Publish(m)
  PROVE  PageInv'
<1>a. InboxOK /\ PageOK
  BY TypeParts
<1>1. CASE ~connected
  BY <1>a, <1>1, UnheardKeeps DEF Publish
<1>2. CASE connected
  <2>1. inbox' = Append(inbox, m) /\ page' = page /\ connected'
    BY <1>2 DEF Publish
  <2>2. PICK l \in Nat : l = Len(inbox)
    BY <1>a DEF InboxOK
  <2>3. /\ Len(inbox') = l + 1 /\ inbox'[l + 1] = m
        /\ \A b \in 0 .. l :
             /\ From(b)' = From(b) /\ Base(b)' = Base(b) /\ (Begins(b)' => Begins(b))
             /\ \A type : After(b, type)' = After(b, type) \cup {i \in {l + 1} : m.type = type}
             /\ Bars(b)' = Bars(b) \cup {x \in {<<m.of, m.n>>} : m.type = "bar"}
             /\ Numbers(b)' = Numbers(b) \cup {x \in {m.n} : m.type = "fill"}
        /\ \A i \in 1 .. l : inbox'[i] = inbox[i]
    BY <1>a, <2>1, <2>2, InboxGrows
  <2>4. ASSUME NEW b \in 0 .. l, Begins(b)' PROVE Shows(b)'
    <3>1. /\ From(b)' = From(b) /\ Base(b)' = Base(b) /\ Bars(b)' = Bars(b)
          /\ Numbers(b)' = Numbers(b)
          /\ After(b, "bar")' = After(b, "bar") /\ After(b, "fill")' = After(b, "fill")
      <4>1. /\ {i \in {l + 1} : m.type = "bar"} = {} /\ {i \in {l + 1} : m.type = "fill"} = {}
            /\ {x \in {<<m.of, m.n>>} : m.type = "bar"} = {}
            /\ {x \in {m.n} : m.type = "fill"} = {}
        OBVIOUS
      <4>2. /\ After(b, "bar")' = After(b, "bar") \cup {i \in {l + 1} : m.type = "bar"}
            /\ After(b, "fill")' = After(b, "fill") \cup {i \in {l + 1} : m.type = "fill"}
        BY <2>3
      <4>3. /\ From(b)' = From(b) /\ Base(b)' = Base(b)
            /\ Bars(b)' = Bars(b) \cup {x \in {<<m.of, m.n>>} : m.type = "bar"}
            /\ Numbers(b)' = Numbers(b) \cup {x \in {m.n} : m.type = "fill"}
        BY <2>3
      <4> QED
        BY <4>1, <4>2, <4>3
    <3>2. Shows(b)
      BY <2>2, <2>3, <2>4 DEF PageInv
    <3>3. PICK k \in Nat, q \in Nat :
            BarsTo(b, k) /\ Count(From(b), k) /\ FillsTo(b, q) /\ Sent(From(b), q)
      BY <3>2 DEF Shows
    <3>4. Owner(From(b)) /\ OfOne(b)
      BY <3>2 DEF Shows
    <3>5. PICK t \in Session : t = From(b)
      BY <3>4 DEF Owner
    <3>6. Owner(t)' /\ Count(t, k)' /\ Sent(t, q)'
      BY <3>3, <3>4, <3>5, OwnerMoves
    <3>7. Owner(From(b))' /\ Count(From(b), k)' /\ Sent(From(b), q)'
      BY <3>1, <3>5, <3>6 DEF Owner, Count, Sent
    <3>8. \A i \in After(b, "bar") \cup After(b, "fill") : inbox'[i] = inbox[i]
      BY <2>2, <2>3 DEF After
    <3>9. OfOne(b)'
      BY <2>1, <3>1, <3>4, <3>8 DEF OfOne
    <3>10. BarsTo(b, k)' /\ FillsTo(b, q)'
      BY <3>1, <3>3, <3>8 DEF BarsTo, FillsTo
    <3> QED
      BY <3>7, <3>9, <3>10 DEF Shows
  <2>5. ~Begins(l + 1)'
    <3>1. PICK p \in Nat : p = l + 1 /\ p # 0 /\ inbox'[p] = m
      BY <2>3
    <3>2. ~Begins(p)'
      BY <3>1 DEF Begins
    <3> QED
      BY <3>1, <3>2
  <2>6. \A b \in 0 .. Len(inbox') : b \in 0 .. l \/ b = l + 1
    BY <2>3
  <2> QED
    BY <2>1, <2>4, <2>5, <2>6 DEF PageInv
<1> QED
  BY <1>1, <1>2

\* A bootstrap is published: from it on there is nothing yet.
LEMMA BootstrapKeeps ==
  ASSUME TypeOK, SessionInv, PageInv, Untraded, PublishBootstrap
  PROVE  PageInv'
<1>a. InboxOK /\ PageOK /\ Places /\ Locked /\ OneByOne /\ WorkOK
  BY TypeParts DEF SessionInv
<1>b. /\ holder \in Session /\ doing = "publish" /\ doing' = "create" /\ holder' = holder
      /\ current' = NoSession /\ at[holder] = "boot" /\ at' = at
      /\ rows' = rows /\ fills' = fills /\ Len(rows[holder]) \in Nat
  BY <1>a DEF PublishBootstrap, work, Locked, OneByOne, WorkOK
<1> DEFINE m == [StateOf(holder) EXCEPT !.type = "bootstrap", !.n = Len(rows[holder])]
<1>c. m \in Messages /\ m.type = "bootstrap" /\ m.of = holder /\ m.n = Len(rows[holder])
      /\ Publish(m)
  BY <1>a, <1>b, StateIsMessage DEF PublishBootstrap, StateOf
<1>d. PICK s \in Session : s = holder
  BY <1>b
<1>e. fills[s] = <<>> /\ Len(fills[s]) = 0
  BY <1>b, <1>d DEF Untraded
<1>1. CASE ~connected
  BY <1>a, <1>b, <1>c, <1>1, UnheardKeeps DEF Publish
<1>2. CASE connected
  <2> HIDE DEF m
  <2>1. inbox' = Append(inbox, m) /\ page' = page /\ connected'
    BY <1>c, <1>2 DEF Publish
  <2>2. PICK l \in Nat, p \in Nat : l = Len(inbox) /\ p = l + 1
    BY <1>a DEF InboxOK
  <2>3. /\ Len(inbox') = p /\ inbox'[p] = m
        /\ \A b \in 0 .. l : Begins(b)' => m.type # "bootstrap"
    BY <1>a, <1>c, <2>1, <2>2, InboxGrows
  <2>4. \A b \in 0 .. l : ~Begins(b)'
    BY <1>c, <2>3
  <2>5. /\ p # 0 /\ \A type : After(p, type)' = {}
    <3>1. (p + 1) .. p = {}
      BY <2>2
    <3> QED
      BY <2>2, <2>3, <3>1 DEF After
  <2>6. /\ From(p)' = s /\ Base(p)' = 0 /\ Numbers(p)' = {}
        /\ Bars(p)' = {<<s, i>> : i \in 1 .. Len(rows[s])}
    BY <1>c, <1>d, <2>3, <2>5 DEF From, Base, Numbers, Bars
  <2>7. Owner(s)' /\ Count(s, Len(rows[s]))' /\ Sent(s, 0)'
    BY <1>b, <1>d, <1>e DEF Owner, Count, Sent, Ended
  <2>8. OfOne(p)' /\ BarsTo(p, Len(rows[s]))' /\ FillsTo(p, 0)'
    <3>1. OfOne(p)'
      BY <2>5 DEF OfOne
    <3>2. BarsTo(p, Len(rows[s]))'
      BY <1>b, <2>6 DEF BarsTo
    <3>3. FillsTo(p, 0)'
      BY <2>5, <2>6 DEF FillsTo
    <3> QED
      BY <3>1, <3>2, <3>3
  <2>9. PICK k \in Nat : k = Len(rows[s])
    BY <1>b, <1>d
  <2>10. Owner(From(p))' /\ Count(From(p), k)' /\ Sent(From(p), 0)' /\ BarsTo(p, k)'
    BY <1>b, <2>6, <2>7, <2>8, <2>9 DEF Owner, Count, Sent, BarsTo
  <2>11. Shows(p)'
    BY <2>8, <2>10 DEF Shows
  <2>12. \A b \in 0 .. p : b \in 0 .. l \/ b = p
    BY <2>2
  <2> QED
    BY <2>1, <2>3, <2>4, <2>11, <2>12 DEF PageInv
<1> QED
  BY <1>1, <1>2

\* Sessions do not trade before they run.
LEMMA UntradedKept ==
  ASSUME TypeOK, SessionInv, Untraded, [Next]_vars
  PROVE  Untraded'
<1> SUFFICES ASSUME NEW s \in Session, at'[s] \in {"new", "asked", "boot"} PROVE fills'[s] = <<>>
  BY DEF Untraded
<1>a. Places
  BY DEF SessionInv
<1>1. CASE Onward(s)
  BY <1>1 DEF Onward, Untraded, Ended
<1>2. CASE Bootstrap /\ holder = s
  BY <1>2 DEF Bootstrap, Untraded
<1>3. CASE CloseBar(s)
  BY <1>3, <1>a DEF CloseBar, Go, Places
<1>4. CASE Trade(s)
  BY <1>4, <1>a DEF Trade, Go, Places
<1> QED
  BY <1>1, <1>2, <1>3, <1>4, SessionMoves

\* A bar is sent, and what the strategy said of it is traded on.
LEMMA TradeKeeps ==
  ASSUME TypeOK, SessionInv, PageInv, [Next]_vars, ~PublishBootstrap,
         NEW s \in Session, Follows(s), Trade(s)
  PROVE  PageInv'
<1>a. InboxOK /\ PageOK /\ Places /\ WorkOK /\ OneRunningSession
  BY TypeParts DEF SessionInv
<1> DEFINE m == [StateOf(s) EXCEPT !.type = "bar", !.n = Len(rows[s])]
<1>b. /\ at[s] = "publish" /\ rows' = rows /\ Len(rows[s]) \in Nat /\ Len(fills[s]) \in Nat
      /\ \/ at'[s] = "wait" /\ fills' = fills
         \/ at'[s] = "fill" /\ Len(fills'[s]) = Len(fills[s]) + 1
  BY <1>a DEF Trade, Go, Places, WorkOK
<1>c. m \in Messages /\ m.type = "bar" /\ m.of = s /\ m.n = Len(rows[s]) /\ Publish(m)
  BY <1>a, <1>b, StateIsMessage DEF Trade, StateOf
<1>d. current = s
  BY <1>a, <1>b DEF OneRunningSession, Alive
<1>e. Len(rows[s]) > 0
  BY <1>b, DecisionAssumption DEF Follows, HasBegun, Alive, MinimumBars
<1>1. CASE ~connected
  BY <1>a, <1>c, <1>1, UnheardKeeps DEF Publish
<1>2. CASE connected
  <2> HIDE DEF m
  <2>1. inbox' = Append(inbox, m) /\ page' = page /\ connected'
    BY <1>c, <1>2 DEF Publish
  <2>2. PICK l \in Nat, p \in Nat : l = Len(inbox) /\ p = l + 1
    BY <1>a DEF InboxOK
  <2>3. /\ Len(inbox') = p /\ inbox'[p] = m
        /\ \A i \in 1 .. l : inbox'[i] = inbox[i]
        /\ \A b \in 0 .. l :
             /\ From(b)' = From(b) /\ Base(b)' = Base(b) /\ (Begins(b)' => Begins(b))
             /\ \A type : After(b, type)' = After(b, type) \cup {i \in {p} : m.type = type}
             /\ Bars(b)' = Bars(b) \cup {x \in {<<m.of, m.n>>} : m.type = "bar"}
             /\ Numbers(b)' = Numbers(b) \cup {x \in {m.n} : m.type = "fill"}
    BY <1>a, <1>c, <2>1, <2>2, InboxGrows
  <2>4. ASSUME NEW b \in 0 .. l, Begins(b)' PROVE Shows(b)'
    <3>1. /\ From(b)' = From(b) /\ Base(b)' = Base(b)
          /\ Bars(b)' = Bars(b) \cup {<<s, Len(rows[s])>>}
          /\ Numbers(b)' = Numbers(b)
          /\ After(b, "bar")' = After(b, "bar") \cup {p} /\ After(b, "fill")' = After(b, "fill")
      <4>1. /\ {i \in {p} : m.type = "bar"} = {p} /\ {i \in {p} : m.type = "fill"} = {}
            /\ {x \in {<<m.of, m.n>>} : m.type = "bar"} = {<<s, Len(rows[s])>>}
            /\ {x \in {m.n} : m.type = "fill"} = {}
        BY <1>c
      <4>2. /\ After(b, "bar")' = After(b, "bar") \cup {i \in {p} : m.type = "bar"}
            /\ After(b, "fill")' = After(b, "fill") \cup {i \in {p} : m.type = "fill"}
        BY <2>3
      <4>3. /\ From(b)' = From(b) /\ Base(b)' = Base(b)
            /\ Bars(b)' = Bars(b) \cup {x \in {<<m.of, m.n>>} : m.type = "bar"}
            /\ Numbers(b)' = Numbers(b) \cup {x \in {m.n} : m.type = "fill"}
        BY <2>3
      <4> QED
        BY <4>1, <4>2, <4>3
    <3>2. Shows(b)
      BY <2>2, <2>3, <2>4 DEF PageInv
    <3>3. PICK k \in Nat, q \in Nat :
            BarsTo(b, k) /\ Count(From(b), k) /\ FillsTo(b, q) /\ Sent(From(b), q)
      BY <3>2 DEF Shows
    <3>4. Owner(From(b)) /\ OfOne(b)
      BY <3>2 DEF Shows
    <3>5. From(b) = s
      BY <1>a, <1>d, <3>4, SessionAssumption DEF Owner
    <3>6. Owner(s)'
      BY <3>4, <3>5, OwnerMoves
    <3>7. PICK n \in Nat : n = Len(rows[s])
      BY <1>b
    <3>8. Count(s, n)' /\ Sent(s, q)'
      <4>1. Count(s, n)'
        BY <1>b, <3>7 DEF Count
      <4>2. q = Len(fills[s])
        BY <1>b, <3>3, <3>5 DEF Sent, Ended
      <4> QED
        BY <1>b, <4>1, <4>2 DEF Sent
    <3>9. BarsTo(b, n)'
      <4>1. Bars(b) = {<<s, i>> : i \in 1 .. k} /\ k \in {n - 1, n}
        BY <3>3, <3>5, <3>7 DEF BarsTo, Count
      <4>2. {<<s, i>> : i \in 1 .. k} \cup {<<s, n>>} = {<<s, i>> : i \in 1 .. n}
        <5>1. 1 .. n = (1 .. k) \cup {n}
          BY <1>e, <3>7, <4>1
        <5> QED
          BY <5>1
      <4> QED
        BY <3>1, <3>5, <3>7, <4>1, <4>2 DEF BarsTo
    <3>10. \A i \in After(b, "bar") \cup After(b, "fill") : inbox'[i] = inbox[i]
      BY <2>2, <2>3 DEF After
    <3>11. OfOne(b)'
      BY <1>c, <2>1, <2>3, <3>1, <3>4, <3>5, <3>10 DEF OfOne
    <3>12. FillsTo(b, q)'
      BY <3>1, <3>3, <3>10 DEF FillsTo
    <3>13. Owner(From(b))' /\ Count(From(b), n)' /\ Sent(From(b), q)'
      BY <3>1, <3>5, <3>6, <3>8 DEF Owner, Count, Sent
    <3> QED
      BY <3>9, <3>11, <3>12, <3>13 DEF Shows
  <2>5. ~Begins(p)'
    BY <1>c, <2>2, <2>3 DEF Begins
  <2>6. \A b \in 0 .. Len(inbox') : b \in 0 .. l \/ b = p
    BY <2>2, <2>3
  <2> QED
    BY <2>1, <2>4, <2>5, <2>6 DEF PageInv
<1> QED
  BY <1>1, <1>2

\* A fill is sent, after the ones before it.
LEMMA FillKeeps ==
  ASSUME TypeOK, SessionInv, PageInv, [Next]_vars, ~PublishBootstrap,
         NEW s \in Session, PublishFill(s)
  PROVE  PageInv'
<1>a. InboxOK /\ PageOK /\ Places /\ WorkOK /\ OneRunningSession
  BY TypeParts DEF SessionInv
<1> DEFINE m == [StateOf(s) EXCEPT !.type = "fill", !.n = Len(fills[s])]
<1>b. /\ at[s] = "fill" /\ at'[s] = "wait" /\ fills' = fills /\ rows' = rows
      /\ Len(rows[s]) \in Nat /\ Len(fills[s]) \in Nat
  BY <1>a DEF PublishFill, Go, Places, WorkOK, work
<1>c. m \in Messages /\ m.type = "fill" /\ m.of = s /\ m.n = Len(fills[s]) /\ Publish(m)
  BY <1>a, <1>b, StateIsMessage DEF PublishFill, StateOf
<1>d. current = s
  BY <1>a, <1>b DEF OneRunningSession, Alive
<1>1. CASE ~connected
  BY <1>a, <1>c, <1>1, UnheardKeeps DEF Publish
<1>2. CASE connected
  <2> HIDE DEF m
  <2>1. inbox' = Append(inbox, m) /\ page' = page /\ connected'
    BY <1>c, <1>2 DEF Publish
  <2>2. PICK l \in Nat, p \in Nat : l = Len(inbox) /\ p = l + 1
    BY <1>a DEF InboxOK
  <2>3. /\ Len(inbox') = p /\ inbox'[p] = m
        /\ \A i \in 1 .. l : inbox'[i] = inbox[i]
        /\ \A b \in 0 .. l :
             /\ From(b)' = From(b) /\ Base(b)' = Base(b) /\ (Begins(b)' => Begins(b))
             /\ \A type : After(b, type)' = After(b, type) \cup {i \in {p} : m.type = type}
             /\ Bars(b)' = Bars(b) \cup {x \in {<<m.of, m.n>>} : m.type = "bar"}
             /\ Numbers(b)' = Numbers(b) \cup {x \in {m.n} : m.type = "fill"}
    BY <1>a, <1>c, <2>1, <2>2, InboxGrows
  <2>4. ASSUME NEW b \in 0 .. l, Begins(b)' PROVE Shows(b)'
    <3>1. /\ From(b)' = From(b) /\ Base(b)' = Base(b) /\ Bars(b)' = Bars(b)
          /\ Numbers(b)' = Numbers(b) \cup {m.n}
          /\ After(b, "bar")' = After(b, "bar") /\ After(b, "fill")' = After(b, "fill") \cup {p}
      <4>1. /\ {i \in {p} : m.type = "fill"} = {p} /\ {i \in {p} : m.type = "bar"} = {}
            /\ {x \in {<<m.of, m.n>>} : m.type = "bar"} = {}
            /\ {x \in {m.n} : m.type = "fill"} = {m.n}
        BY <1>c
      <4>2. /\ After(b, "bar")' = After(b, "bar") \cup {i \in {p} : m.type = "bar"}
            /\ After(b, "fill")' = After(b, "fill") \cup {i \in {p} : m.type = "fill"}
        BY <2>3
      <4>3. /\ From(b)' = From(b) /\ Base(b)' = Base(b)
            /\ Bars(b)' = Bars(b) \cup {x \in {<<m.of, m.n>>} : m.type = "bar"}
            /\ Numbers(b)' = Numbers(b) \cup {x \in {m.n} : m.type = "fill"}
        BY <2>3
      <4> QED
        BY <4>1, <4>2, <4>3
    <3>2. Shows(b)
      BY <2>2, <2>3, <2>4 DEF PageInv
    <3>3. PICK k \in Nat, q \in Nat :
            BarsTo(b, k) /\ Count(From(b), k) /\ FillsTo(b, q) /\ Sent(From(b), q)
      BY <3>2 DEF Shows
    <3>4. Owner(From(b)) /\ OfOne(b)
      BY <3>2 DEF Shows
    <3>5. From(b) = s
      BY <1>a, <1>d, <3>4, SessionAssumption DEF Owner
    <3>6. Owner(s)' /\ Count(s, k)'
      <4>1. ~Trade(s)
        BY <1>b DEF Trade
      <4>2. Count(s, k)
        BY <3>3, <3>5
      <4> QED
        BY <3>3, <3>4, <3>5, <4>1, <4>2, OwnerMoves
    <3>7. PICK n \in Nat : n = Len(fills[s]) /\ n = q + 1
      BY <1>b, <3>3, <3>5 DEF Sent
    <3>8. Sent(s, n)'
      BY <1>b, <3>7 DEF Sent
    <3>9. \A i \in After(b, "bar") \cup After(b, "fill") : i \in 1 .. l /\ inbox'[i] = inbox[i]
      BY <2>2, <2>3 DEF After
    <3>10. OfOne(b)'
      BY <1>c, <2>1, <2>3, <3>1, <3>4, <3>5, <3>9 DEF OfOne
    <3>11. BarsTo(b, k)'
      BY <3>1, <3>3 DEF BarsTo
    <3>12. FillsTo(b, n)'
      <4>1. Numbers(b)' = Base(b)' + 1 .. n /\ Base(b)' <= n
        <5>1. Numbers(b) = Base(b) + 1 .. q /\ Base(b) <= q /\ m.n = n
          BY <1>c, <3>3, <3>7 DEF FillsTo
        <5>2. Base(b) \in Nat
          BY <1>a DEF Base, PageOK, Pages
        <5>3. (Base(b) + 1 .. q) \cup {n} = Base(b) + 1 .. n
          BY <3>7, <5>1, <5>2
        <5> QED
          BY <3>1, <3>7, <5>1, <5>2, <5>3
      <4>2. ASSUME NEW i \in After(b, "fill")', NEW j \in After(b, "fill")', i < j
            PROVE  inbox'[i].n < inbox'[j].n
        <5>1. i \in After(b, "fill")
          BY <2>2, <3>1, <3>9, <4>2
        <5>2. CASE j = p
          <6>1. inbox[i].n \in Numbers(b)
            BY <5>1 DEF Numbers
          <6>2. inbox[i].n \in Base(b) + 1 .. q
            BY <3>3, <6>1 DEF FillsTo
          <6>3. Base(b) \in Nat
            BY <1>a DEF Base, PageOK, Pages
          <6>4. inbox[i].n < n
            BY <3>7, <6>2, <6>3
          <6>5. inbox'[i].n = inbox[i].n /\ inbox'[j].n = n
            BY <1>c, <2>3, <3>7, <3>9, <5>1, <5>2
          <6> QED
            BY <6>4, <6>5
        <5>3. CASE j # p
          BY <3>1, <3>3, <3>9, <4>2, <5>1, <5>3 DEF FillsTo
        <5> QED
          BY <5>2, <5>3
      <4> QED
        BY <4>1, <4>2 DEF FillsTo
    <3>13. Owner(From(b))' /\ Count(From(b), k)' /\ Sent(From(b), n)'
      BY <3>1, <3>5, <3>6, <3>8 DEF Owner, Count, Sent
    <3> QED
      BY <3>10, <3>11, <3>12, <3>13 DEF Shows
  <2>5. ~Begins(p)'
    BY <1>c, <2>2, <2>3 DEF Begins
  <2>6. \A b \in 0 .. Len(inbox') : b \in 0 .. l \/ b = p
    BY <2>2, <2>3
  <2> QED
    BY <2>1, <2>4, <2>5, <2>6 DEF PageInv
<1> QED
  BY <1>1, <1>2

\* What was on its way at a position is one position nearer.
LEMMA InboxShrinks ==
  ASSUME InboxOK, inbox' = Tail(inbox), NEW l \in Nat, l = Len(inbox), l > 0
  PROVE  /\ Len(inbox') = l - 1
         /\ \A i \in 1 .. l - 1 : inbox'[i] = inbox[i + 1]
         /\ \A b \in 0 .. l - 1 :
              /\ \A type : \A i \in After(b, type)' : i + 1 \in After(b + 1, type)
              /\ \A type : After(b, type)' = {} => After(b + 1, type) = {}
              /\ {<<inbox[i].of, inbox[i].n>> : i \in After(b, "bar")}'
                   = {<<inbox[i].of, inbox[i].n>> : i \in After(b + 1, "bar")}
              /\ Numbers(b)' = Numbers(b + 1)
         /\ \A type : After(0, type) = After(1, type) \cup {i \in {1} : inbox[1].type = type}
<1>1. /\ Len(inbox') = l - 1
      /\ \A i \in 1 .. l - 1 : inbox'[i] = inbox[i + 1]
  BY DEF InboxOK
<1>2. ASSUME NEW b \in 0 .. l - 1
      PROVE  /\ \A type : \A i \in After(b, type)' : i + 1 \in After(b + 1, type)
             /\ \A type : After(b, type)' = {} => After(b + 1, type) = {}
             /\ {<<inbox[i].of, inbox[i].n>> : i \in After(b, "bar")}'
                  = {<<inbox[i].of, inbox[i].n>> : i \in After(b + 1, "bar")}
             /\ Numbers(b)' = Numbers(b + 1)
  <2>1. ASSUME NEW type, NEW i \in After(b, type)'
        PROVE  i + 1 \in After(b + 1, type) /\ inbox'[i] = inbox[i + 1]
    BY <1>1 DEF After
  <2>2. ASSUME NEW type, NEW i \in After(b + 1, type)
        PROVE  i - 1 \in After(b, type)' /\ inbox'[i - 1] = inbox[i]
    <3>1. i \in b + 2 .. l /\ inbox[i].type = type /\ i - 1 \in b + 1 .. l - 1
      BY DEF After
    <3>2. inbox'[i - 1] = inbox[i]
      BY <1>1, <3>1
    <3> QED
      BY <1>1, <3>1, <3>2 DEF After
  <2>3. {<<inbox'[i].of, inbox'[i].n>> : i \in After(b, "bar")'}
          = {<<inbox[i].of, inbox[i].n>> : i \in After(b + 1, "bar")}
    <3> DEFINE A == After(b, "bar")'  B == After(b + 1, "bar")
    <3>1. /\ \A i \in A : i + 1 \in B /\ inbox'[i] = inbox[i + 1]
          /\ \A i \in B : i - 1 \in A /\ inbox'[i - 1] = inbox[i]
      BY <2>1, <2>2
    <3> HIDE DEF A, B
    <3>2. {<<inbox'[i].of, inbox'[i].n>> : i \in A} = {<<inbox[i].of, inbox[i].n>> : i \in B}
      <4> DEFINE X == {<<inbox'[i].of, inbox'[i].n>> : i \in A}
                 Y == {<<inbox[i].of, inbox[i].n>> : i \in B}
      <4>1. ASSUME NEW i \in A PROVE <<inbox'[i].of, inbox'[i].n>> \in Y
        BY <3>1
      <4>2. ASSUME NEW i \in B PROVE <<inbox[i].of, inbox[i].n>> \in X
        BY <3>1
      <4>3. X \subseteq Y /\ Y \subseteq X
        BY <4>1, <4>2
      <4> QED
        BY <4>3, Zenon
    <3> QED
      BY <3>2 DEF A, B
  <2>4. Numbers(b)' = Numbers(b + 1)
    <3> DEFINE A == After(b, "fill")'  B == After(b + 1, "fill")
    <3>1. /\ \A i \in A : i + 1 \in B /\ inbox'[i] = inbox[i + 1]
          /\ \A i \in B : i - 1 \in A /\ inbox'[i - 1] = inbox[i]
      BY <2>1, <2>2
    <3> HIDE DEF A, B
    <3>2. {inbox'[i].n : i \in A} = {inbox[i].n : i \in B}
      <4> DEFINE X == {inbox'[i].n : i \in A}
                 Y == {inbox[i].n : i \in B}
      <4>1. ASSUME NEW i \in A PROVE inbox'[i].n \in Y
        BY <3>1
      <4>2. ASSUME NEW i \in B PROVE inbox[i].n \in X
        BY <3>1
      <4>3. X \subseteq Y /\ Y \subseteq X
        BY <4>1, <4>2
      <4> QED
        BY <4>3, Zenon
    <3> QED
      BY <3>2 DEF A, B, Numbers
  <2> QED
    BY <2>1, <2>2, <2>3, <2>4
<1>3. ASSUME NEW type
      PROVE  After(0, type) = After(1, type) \cup {i \in {1} : inbox[1].type = type}
  <2>1. 0 + 1 .. Len(inbox) = (1 + 1 .. Len(inbox)) \cup {1}
    OBVIOUS
  <2> QED
    BY <2>1 DEF After
<1> QED
  BY <1>1, <1>2, <1>3

\* The fills that come are in the order of those that came.
LEMMA OrderNears ==
  ASSUME InboxOK, inbox' = Tail(inbox), NEW l \in Nat, l = Len(inbox), l > 0,
         NEW b \in 0 .. l - 1, NEW c, c = b \/ c = b + 1,
         \A i \in After(b + 1, "fill") : i \in After(c, "fill"),
         \A i, j \in After(c, "fill") : i < j => inbox[i].n < inbox[j].n
  PROVE  \A i, j \in After(b, "fill")' : i < j => inbox'[i].n < inbox'[j].n
<1> SUFFICES ASSUME NEW i \in After(b, "fill")', NEW j \in After(b, "fill")', i < j
             PROVE  inbox'[i].n < inbox'[j].n
  OBVIOUS
<1>1. i + 1 \in After(c, "fill") /\ j + 1 \in After(c, "fill")
  BY InboxShrinks
<1>2. i \in 1 .. l - 1 /\ j \in 1 .. l - 1
  BY InboxShrinks DEF After
<1>3. inbox'[i] = inbox[i + 1] /\ inbox'[j] = inbox[j + 1]
  BY <1>2, InboxShrinks
<1>4. i + 1 < j + 1
  BY <1>2
<1> QED
  BY <1>1, <1>3, <1>4

\* The page shows what came.
LEMMA ReceiveKeeps ==
  ASSUME TypeOK, PageInv, Receive
  PROVE  PageInv'
<1>a. InboxOK /\ PageOK
  BY TypeParts
<1>b. /\ inbox # <<>> /\ page' = Show(Head(inbox)) /\ inbox' = Tail(inbox)
      /\ connected' = connected
      /\ UNCHANGED <<at, current, holder, doing, rows, fills>>
  BY DEF Receive, work, manager
<1>c. connected
  BY <1>b DEF PageInv
<1>d. PICK l \in Nat : l = Len(inbox) /\ l > 0
  BY <1>a, <1>b DEF InboxOK
<1>e. /\ \A i \in 1 .. l : inbox[i] \in Messages
      /\ Head(inbox) = inbox[1]
  BY <1>a, <1>b, <1>d DEF InboxOK
<1>g. /\ Len(inbox') = l - 1
      /\ \A i \in 1 .. l - 1 : inbox'[i] = inbox[i + 1]
      /\ \A b \in 0 .. l - 1 :
           /\ \A type : \A i \in After(b, type)' : i + 1 \in After(b + 1, type)
           /\ \A type : After(b, type)' = {} => After(b + 1, type) = {}
           /\ {<<inbox[i].of, inbox[i].n>> : i \in After(b, "bar")}'
                = {<<inbox[i].of, inbox[i].n>> : i \in After(b + 1, "bar")}
           /\ Numbers(b)' = Numbers(b + 1)
      /\ \A type : After(0, type) = After(1, type) \cup {i \in {1} : inbox[1].type = type}
  BY <1>a, <1>b, <1>d, InboxShrinks
<1> DEFINE m == inbox[1]
<1>h. m \in Messages
  BY <1>d, <1>e
\* A bootstrap on its way, now or before.
<1>1. ASSUME NEW b \in 0 .. l - 1, Begins(b)', b # 0 \/ m.type = "bootstrap"
      PROVE  Shows(b)'
  <2>1. PICK c \in 1 .. l : c = b + 1
    BY <1>d
  <2>2. b # 0 => b \in 1 .. l - 1
    BY <1>d
  <2>3. inbox[c].type = "bootstrap"
    BY <1>1, <1>g, <2>1, <2>2 DEF Begins
  <2>4. Begins(c)
    <3>1. After(b, "bootstrap")' = {}
      BY <1>1 DEF Begins
    <3>2. After(c, "bootstrap") = {}
      BY <1>g, <2>1, <3>1
    <3> QED
      BY <2>1, <2>3, <3>2 DEF Begins
  <2>5. PICK k \in Nat, q \in Nat :
          BarsTo(c, k) /\ Count(From(c), k) /\ FillsTo(c, q) /\ Sent(From(c), q)
    BY <1>d, <2>1, <2>4 DEF PageInv, Shows
  <2>6. Owner(From(c)) /\ OfOne(c)
    BY <1>d, <2>1, <2>4 DEF PageInv, Shows
  <2>7. b = 0 =>
          page' = [from |-> m.of, bars |-> {<<m.of, i>> : i \in 1 .. m.n}, fills |-> <<>>,
                   whole |-> TRUE]
    BY <1>1, <1>b, <1>e DEF Show
  <2>8. From(b)' = From(c) /\ Base(b)' = Base(c) /\ Base(c) = 0
    BY <1>g, <2>1, <2>2, <2>7 DEF From, Base
  <2>9. Bars(b)' = Bars(c)
    <3> DEFINE F(x) == {<<inbox[i].of, inbox[i].n>> : i \in After(x, "bar")}
               H(x) == IF x = 0 THEN page.bars ELSE {<<inbox[x].of, i>> : i \in 1 .. inbox[x].n}
    <3>1. F(b)' = F(c)
      BY <1>g, <2>1
    <3>2. H(b)' = H(c)
      <4>1. CASE b = 0
        BY <2>1, <2>7, <4>1
      <4>2. CASE b # 0
        <5>1. inbox'[b] = inbox[c] /\ c # 0
          BY <1>g, <2>1, <2>2, <4>2
        <5> QED
          BY <4>2, <5>1
      <4> QED
        BY <4>1, <4>2
    <3>3. Bars(b)' = H(b)' \cup F(b)' /\ Bars(c) = H(c) \cup F(c)
      BY DEF Bars
    <3> QED
      BY <3>1, <3>2, <3>3
  <2>10. Owner(From(b))' /\ Count(From(b), k)' /\ Sent(From(b), q)'
    BY <1>b, <2>5, <2>6, <2>8 DEF Owner, Count, Sent
  <2>11. OfOne(b)'
    <3>1. ASSUME NEW i \in After(b, "bar")' \cup After(b, "fill")' PROVE inbox'[i].of = From(b)'
      <4>1. i + 1 \in After(c, "bar") \cup After(c, "fill")
        BY <1>g, <2>1
      <4>2. i \in 1 .. l - 1
        BY <1>g DEF After
      <4>3. inbox[i + 1].of = From(c)
        BY <2>6, <4>1 DEF OfOne
      <4>4. inbox'[i] = inbox[i + 1]
        BY <1>g, <4>2
      <4> QED
        BY <2>8, <4>3, <4>4
    <3>2. b = 0 => 1 .. Len(page'.fills) = {}
      BY <2>7
    <3> QED
      BY <3>1, <3>2 DEF OfOne
  <2>12. BarsTo(b, k)'
    BY <2>5, <2>8, <2>9 DEF BarsTo
  <2>13. FillsTo(b, q)'
    <3>1. Numbers(b)' = Base(b)' + 1 .. q /\ Base(b)' <= q
      BY <1>g, <2>1, <2>5, <2>8 DEF FillsTo
    <3>2. \A i, j \in After(b, "fill")' : i < j => inbox'[i].n < inbox'[j].n
      BY <1>a, <1>b, <1>d, <2>1, <2>5, OrderNears DEF FillsTo
    <3> QED
      BY <3>1, <3>2 DEF FillsTo
  <2> QED
    BY <2>10, <2>11, <2>12, <2>13 DEF Shows
\* A message for the charts as they are.
<1>2. ASSUME Begins(0)', m.type # "bootstrap"
      PROVE  Shows(0)'
  <2>1. page'.whole = page.whole /\ page'.from = page.from
    BY <1>2, <1>a, <1>b, <1>e, <1>h DEF Show, Messages, PageOK, Pages
  <2>2. Begins(0)
    <3>1. After(1, "bootstrap") = {}
      <4>1. After(0, "bootstrap")' = {}
        BY <1>2 DEF Begins
      <4>2. PICK b \in 0 .. l - 1 : b = 0
        BY <1>d
      <4>3. After(b + 1, "bootstrap") = {}
        BY <1>g, <4>1, <4>2
      <4> QED
        BY <4>2, <4>3
    <3>2. After(0, "bootstrap") = {}
      BY <1>2, <1>g, <3>1
    <3> QED
      BY <1>2, <2>1, <3>2 DEF Begins
  <2>3. PICK k \in Nat, q \in Nat :
          BarsTo(0, k) /\ Count(From(0), k) /\ FillsTo(0, q) /\ Sent(From(0), q)
    BY <1>d, <2>2 DEF PageInv, Shows
  <2>4. Owner(From(0)) /\ OfOne(0)
    BY <1>d, <2>2 DEF PageInv, Shows
  <2>5. From(0)' = From(0) /\ From(0) = page.from
    BY <2>1 DEF From
  <2>6. Owner(From(0))' /\ Count(From(0), k)' /\ Sent(From(0), q)'
    BY <1>b, <2>3, <2>4, <2>5 DEF Owner, Count, Sent
  <2>7. PICK f \in Nat : f = Len(page.fills)
    BY <1>a DEF PageOK, Pages
  <2>8. Base(0) = f /\ Base(0)' = Len(page'.fills)
    BY <2>7 DEF Base
  <2>9. \A i \in After(0, "bar")' \cup After(0, "fill")' : inbox'[i].of = page.from
    <3> SUFFICES ASSUME NEW i \in After(0, "bar")' \cup After(0, "fill")'
                 PROVE  inbox'[i].of = page.from
      OBVIOUS
    <3>1. i + 1 \in After(1, "bar") \cup After(1, "fill")
      BY <1>d, <1>g
    <3>2. i + 1 \in After(0, "bar") \cup After(0, "fill")
      BY <1>g, <3>1
    <3>3. i \in 1 .. l - 1
      BY <1>g DEF After
    <3> QED
      BY <1>g, <2>4, <2>5, <3>2, <3>3 DEF OfOne
  <2>10. \A i, j \in After(0, "fill")' : i < j => inbox'[i].n < inbox'[j].n
    <3>1. PICK b \in 0 .. l - 1 : b = 0
      BY <1>d
    <3>2. \A i \in After(b + 1, "fill") : i \in After(b, "fill")
      BY <1>g, <3>1
    <3>3. \A i, j \in After(b, "fill") : i < j => inbox[i].n < inbox[j].n
      BY <2>3, <3>1 DEF FillsTo
    <3>4. \A i, j \in After(b, "fill")' : i < j => inbox'[i].n < inbox'[j].n
      BY <1>a, <1>b, <1>d, <3>2, <3>3, OrderNears
    <3> QED
      BY <3>1, <3>4
  <2>11. Bars(0)' = Bars(0)
    <3> DEFINE F(x) == {<<inbox[i].of, inbox[i].n>> : i \in After(x, "bar")}
    <3>1. F(0)' = F(1)
      BY <1>d, <1>g
    <3>2. Bars(0)' = page'.bars \cup F(0)' /\ Bars(0) = page.bars \cup F(0)
      BY DEF Bars
    <3>3. After(0, "bar") = After(1, "bar") \cup {i \in {1} : m.type = "bar"}
      BY <1>g
    <3>4. CASE m.type = "bar"
      <4>1. page'.bars = page.bars \cup {<<m.of, m.n>>}
        BY <1>a, <1>b, <1>e, <3>4 DEF Show, PageOK, Pages
      <4>2. After(0, "bar") = After(1, "bar") \cup {1}
        BY <3>3, <3>4
      <4>3. F(0) = F(1) \cup {<<m.of, m.n>>}
        BY <4>2
      <4> QED
        BY <3>1, <3>2, <4>1, <4>3
    <3>5. CASE m.type # "bar"
      <4>1. page'.bars = page.bars
        BY <1>2, <1>a, <1>b, <1>e, <1>h, <3>5 DEF Show, Messages, PageOK, Pages
      <4>2. After(0, "bar") = After(1, "bar")
        BY <3>3, <3>5
      <4> QED
        BY <3>1, <3>2, <4>1, <4>2
    <3> QED
      BY <3>4, <3>5
  <2>12. BarsTo(0, k)'
    BY <2>3, <2>5, <2>11 DEF BarsTo
  <2>13. After(0, "fill") = After(1, "fill") \cup {i \in {1} : m.type = "fill"}
    BY <1>g
  <2>14. Numbers(0)' = Numbers(1)
    BY <1>d, <1>g
  <2>15. CASE m.type = "fill"
    <3>1. page'.fills = Append(page.fills, <<m.of, m.n>>)
      BY <1>a, <1>b, <1>e, <2>15 DEF Show, PageOK, Pages
    <3>2. After(0, "fill") = After(1, "fill") \cup {1}
      BY <2>13, <2>15
    <3>3. Numbers(0) = Numbers(1) \cup {m.n}
      BY <3>2 DEF Numbers
    <3>4. ASSUME NEW x \in Numbers(1) PROVE x > m.n
      <4>1. PICK j \in After(1, "fill") : x = inbox[j].n
        BY DEF Numbers
      <4>2. j > 1 /\ j \in After(0, "fill") /\ 1 \in After(0, "fill") /\ j \in 1 .. l
        BY <1>d, <3>2 DEF After
      <4>3. m.n < inbox[j].n
        BY <2>3, <4>2 DEF FillsTo
      <4>4. m.n \in Nat /\ inbox[j].n \in Nat
        BY <1>e, <1>h, <4>2 DEF Messages
      <4> QED
        BY <4>1, <4>3, <4>4
    <3>5. m.n \in Nat /\ Numbers(0) = f + 1 .. q
      BY <1>h, <2>3, <2>8 DEF Messages, FillsTo
    <3>6. m.n = f + 1 /\ Numbers(1) = f + 2 .. q /\ f + 1 <= q
      <4>1. m.n \in f + 1 .. q
        BY <3>3, <3>5
      <4>2. f + 1 \in Numbers(0)
        BY <3>5, <4>1
      <4>3. m.n = f + 1
        BY <3>3, <3>4, <3>5, <4>1, <4>2
      <4>4. Numbers(1) = Numbers(0) \ {m.n}
        BY <3>3, <3>4, <3>5
      <4>5. (f + 1 .. q) \ {m.n} = f + 2 .. q
        BY <4>3
      <4>6. f + 1 <= q
        BY <4>1, <4>3
      <4> QED
        BY <3>5, <4>3, <4>4, <4>5, <4>6
    <3>7. m.of = page.from
      BY <2>4, <2>5, <3>2 DEF OfOne
    <3>8. /\ Len(page'.fills) = f + 1 /\ page'.fills[f + 1] = <<page.from, f + 1>>
          /\ \A i \in 1 .. f : page'.fills[i] = page.fills[i]
      BY <1>a, <2>7, <3>1, <3>6, <3>7 DEF PageOK, Pages
    <3>9. \A i \in 1 .. Len(page'.fills) : page'.fills[i] = <<page.from, i>>
      <4>1. \A i \in 1 .. f : page.fills[i] = <<page.from, i>>
        BY <2>4, <2>5, <2>7 DEF OfOne
      <4>2. \A i \in 1 .. f + 1 : i \in 1 .. f \/ i = f + 1
        OBVIOUS
      <4> QED
        BY <3>8, <4>1, <4>2
    <3>10. OfOne(0)'
      BY <2>5, <2>9, <3>9 DEF OfOne
    <3>11. Numbers(0)' = Base(0)' + 1 .. q /\ Base(0)' <= q
      BY <2>8, <2>14, <3>6, <3>8
    <3>12. FillsTo(0, q)'
      BY <2>10, <3>11 DEF FillsTo
    <3> QED
      BY <2>6, <2>12, <3>10, <3>12 DEF Shows
  <2>16. CASE m.type # "fill"
    <3>1. page'.fills = page.fills
      BY <1>2, <1>a, <1>b, <1>e, <1>h, <2>16 DEF Show, Messages, PageOK, Pages
    <3>2. After(0, "fill") = After(1, "fill")
      BY <2>13, <2>16
    <3>3. Numbers(0) = Numbers(1)
      BY <3>2 DEF Numbers
    <3>4. OfOne(0)'
      BY <2>4, <2>5, <2>9, <3>1 DEF OfOne
    <3>5. Numbers(0)' = Base(0)' + 1 .. q /\ Base(0)' <= q
      BY <2>3, <2>7, <2>8, <2>14, <3>1, <3>3 DEF FillsTo
    <3>6. FillsTo(0, q)'
      BY <2>10, <3>5 DEF FillsTo
    <3> QED
      BY <2>6, <2>12, <3>4, <3>6 DEF Shows
  <2> QED
    BY <2>15, <2>16
<1>3. \A b \in 0 .. Len(inbox') : b \in 0 .. l - 1
  BY <1>g
<1>4. ASSUME NEW b \in 0 .. l - 1, Begins(b)' PROVE Shows(b)'
  <2>1. CASE b # 0 \/ m.type = "bootstrap"
    BY <1>1, <1>4, <2>1
  <2>2. CASE b = 0 /\ m.type # "bootstrap"
    <3>1. Begins(0)'
      BY <1>4, <2>2 DEF Begins, After
    <3>2. Shows(0)'
      BY <1>2, <2>2, <3>1
    <3> QED
      BY <2>2, <3>2
  <2> QED
    BY <2>1, <2>2
<1> QED
  BY <1>b, <1>c, <1>3, <1>4 DEF PageInv

\* A page that connects has missed something; one that is lost misses more.
LEMMA ConnectionKeeps ==
  ASSUME TypeOK, PageInv, Connect \/ Disconnect
  PROVE  PageInv'
<1>a. InboxOK /\ PageOK
  BY TypeParts
<1>1. CASE Connect
  <2> DEFINE m == IF current = NoSession THEN Nothing ELSE StateOf(current)
  <2>1. m.type = "session"
    BY DEF Nothing, StateOf
  <2>2. inbox' = <<m>> /\ page' = page /\ connected' /\ ~page.whole
    BY <1>1 DEF Connect, PageInv
  <2> HIDE DEF m
  <2>3. \A b \in 0 .. Len(inbox') : b = 0 \/ b = 1
    BY <2>2
  <2>4. ~Begins(0)' /\ ~Begins(1)'
    BY <2>1, <2>2 DEF Begins
  <2> QED
    BY <2>2, <2>3, <2>4 DEF PageInv
<1>2. CASE Disconnect
  <2>1. inbox' = <<>> /\ ~page'.whole
    BY <1>a, <1>2 DEF Disconnect, PageOK, Pages
  <2>2. \A b \in 0 .. Len(inbox') : b = 0
    BY <2>1
  <2>3. ~Begins(0)'
    BY <2>1 DEF Begins
  <2> QED
    BY <2>1, <2>2, <2>3 DEF PageInv
<1> QED
  BY <1>1, <1>2

\* A step that changes where no session is, or the place of one that has no bar
\* or fill to publish or gives that up, publishes neither.
LEMMA NoTradeBeside ==
  ASSUME Places,
         at' = at \/ \E t \in Session : \E where : /\ at[t] \notin {"publish", "fill"} \/ where = "report"
                                                /\ at' = [at EXCEPT ![t] = where]
  PROVE  \A s \in Session : ~Trade(s) /\ ~PublishFill(s)
<1> SUFFICES ASSUME NEW s \in Session, at[s] \in {"publish", "fill"}
             PROVE  at'[s] = at[s] \/ at'[s] = "report"
  BY DEF Trade, PublishFill, Go, Places
<1> QED
  BY DEF Places

\* Every step keeps what the page shows.
LEMMA PageKept ==
  ASSUME TypeOK, SessionInv, PageInv, Untraded, [Next]_vars, \A s \in Session : Follows(s)
  PROVE  PageInv'
<1>a. Places /\ Locked /\ OneByOne
  BY TypeParts DEF SessionInv
<1>1. ASSUME NEW s \in Session, AskStart(s) PROVE PageInv'
  BY <1>1, <1>a, NoTradeBeside, SilentKeeps
    DEF AskStart, Go, browser, manager, PublishBootstrap
<1>2. CASE AskStop
  BY <1>2, <1>a, NoTradeBeside, SilentKeeps DEF AskStop, browser, PublishBootstrap
<1>3. ASSUME NEW r \in Session \cup {Stop}, Take(r) PROVE PageInv'
  <2>1. UNCHANGED <<connected, inbox, page>> /\ holder # r /\ holder' = r
    BY <1>3, SessionAssumption DEF Take, browser
  <2>2. ~PublishBootstrap
    BY <2>1 DEF PublishBootstrap
  <2>3. \A s \in Session : ~Trade(s) /\ ~PublishFill(s)
    BY <2>1 DEF Trade, PublishFill, manager
  <2> QED
    BY <2>1, <2>2, <2>3, SilentKeeps
<1>4. CASE Join
  <2>1. UNCHANGED <<connected, inbox, page>> /\ doing = "join" /\ doing' = "announce"
    BY <1>4 DEF Join, browser
  <2> QED
    BY <2>1, SilentKeeps DEF PublishBootstrap, Trade, PublishFill, manager
<1>5. CASE Announce
  <2>1. /\ current \in Session /\ Publish(StateOf(current)) /\ at' = at
        /\ doing = "announce" /\ doing' = "proceed"
    BY <1>5, <1>a DEF Announce, Places, OneByOne
  <2>2. StateOf(current) \in Messages /\ StateOf(current).type = "session"
    BY <1>a, <2>1, StateIsMessage DEF StateOf
  <2> QED
    BY <1>a, <2>1, <2>2, NoTradeBeside, StateKeeps DEF PublishBootstrap
<1>6. CASE Stopped
  BY <1>6, <1>a, NoTradeBeside, SilentKeeps DEF Stopped, Release, browser, PublishBootstrap
<1>7. CASE StartBootstrap
  <2>1. UNCHANGED <<connected, inbox, page>> /\ doing = "proceed" /\ doing' = "boot"
    BY <1>7 DEF StartBootstrap, browser
  <2> QED
    BY <2>1, SilentKeeps DEF PublishBootstrap, Trade, PublishFill, manager
<1>8. CASE Bootstrap
  BY <1>8, <1>a, NoTradeBeside, SilentKeeps DEF Bootstrap, browser, PublishBootstrap
<1>9. CASE BootstrapFails
  <2>1. UNCHANGED <<connected, inbox, page>> /\ doing = "boot" /\ doing' = "nothing"
    BY <1>9 DEF BootstrapFails, Release, browser
  <2> QED
    BY <2>1, SilentKeeps DEF PublishBootstrap, Trade, PublishFill, manager
<1>10. CASE PublishBootstrap
  BY <1>10, BootstrapKeeps
<1>11. CASE CreateTask
  <2>1. UNCHANGED <<connected, inbox, page>> /\ doing = "create" /\ doing' = "nothing"
    BY <1>11 DEF CreateTask, Release, browser
  <2> QED
    BY <2>1, SilentKeeps DEF PublishBootstrap, Trade, PublishFill, manager
<1>12. ASSUME NEW s \in Session, Begin(s) PROVE PageInv'
  BY <1>12, <1>a, NoTradeBeside, SilentKeeps
    DEF Begin, Go, browser, manager, PublishBootstrap
<1>13. ASSUME NEW s \in Session, Greet(s) PROVE PageInv'
  <2>1. StateOf(s) \in Messages /\ StateOf(s).type = "session"
    BY <1>a, StateIsMessage DEF StateOf
  <2>2. ~PublishBootstrap
    BY <1>13 DEF Greet, manager, PublishBootstrap
  <2>3. \A t \in Session : ~Trade(t) /\ ~PublishFill(t)
    BY <1>13, <1>a, NoTradeBeside DEF Greet, Go
  <2> QED
    BY <1>13, <2>1, <2>2, <2>3, StateKeeps DEF Greet
<1>14. ASSUME NEW s \in Session, CloseBar(s) PROVE PageInv'
  BY <1>14, <1>a, NoTradeBeside, SilentKeeps
    DEF CloseBar, Go, browser, manager, PublishBootstrap
<1>15. ASSUME NEW s \in Session, Trade(s) PROVE PageInv'
  BY <1>15, TradeKeeps DEF Trade, manager, PublishBootstrap
<1>16. ASSUME NEW s \in Session, PublishFill(s) PROVE PageInv'
  BY <1>16, FillKeeps DEF PublishFill, manager, PublishBootstrap
<1>17. ASSUME NEW s \in Session, Fail(s) PROVE PageInv'
  BY <1>17, <1>a, NoTradeBeside, SilentKeeps
    DEF Fail, Go, browser, manager, PublishBootstrap
<1>18. ASSUME NEW s \in Session, Report(s) PROVE PageInv'
  <2>1. StateOf(s) \in Messages /\ StateOf(s).type = "session"
    BY <1>a, StateIsMessage DEF StateOf
  <2>2. ~PublishBootstrap
    BY <1>18 DEF Report, manager, PublishBootstrap
  <2>3. \A t \in Session : ~Trade(t) /\ ~PublishFill(t)
    BY <1>18, <1>a, NoTradeBeside DEF Report, Go
  <2> QED
    BY <1>18, <2>1, <2>2, <2>3, StateKeeps DEF Report
<1>19. CASE Connect \/ Disconnect
  BY <1>19, ConnectionKeeps
<1>20. CASE Receive
  BY <1>20, ReceiveKeeps
<1>21. CASE UNCHANGED vars
  BY <1>21, <1>a, NoTradeBeside, SilentKeeps DEF vars, browser, manager, PublishBootstrap
<1> QED
  BY <1>1, <1>2, <1>3, <1>4, <1>5, <1>6, <1>7, <1>8, <1>9, <1>10, <1>11, <1>12, <1>13,
     <1>14, <1>15, <1>16, <1>17, <1>18, <1>19, <1>20, <1>21
     DEF Next, Request, Task, Page

\* There are as many pairs <<s, 1>> .. <<s, k>> as numbers.
LEMMA PairsCount ==
  ASSUME NEW s, NEW k \in Nat
  PROVE  Cardinality({<<s, i>> : i \in 1 .. k}) = k
<1> DEFINE T == {<<s, i>> : i \in 1 .. k}
           f == [i \in 1 .. k |-> <<s, i>>]
<1>1. f \in [1 .. k -> T] /\ \A i, j \in 1 .. k : f[i] = f[j] => i = j
  OBVIOUS
<1>2. \A t \in T : \E i \in 1 .. k : f[i] = t
  OBVIOUS
<1> HIDE DEF f, T
<1>3. f \in Bijection(1 .. k, T)
  BY <1>1, <1>2 DEF Bijection, Injection, Surjection, IsInjective
<1>4. ExistsBijection(1 .. k, T)
  BY <1>3 DEF ExistsBijection
<1>5. IsFiniteSet(1 .. k) /\ Cardinality(1 .. k) = k
  BY FS_Interval
<1> QED
  BY <1>4, <1>5, FS_Bijection DEF T

\* There are as many fills on their way as they have numbers.
LEMMA FillsCount ==
  ASSUME InboxOK, NEW b \in Nat, NEW n \in Nat, NEW q \in Nat, n <= q,
         Numbers(b) = n + 1 .. q,
         \A i, j \in After(b, "fill") : i < j => inbox[i].n < inbox[j].n
  PROVE  Cardinality(After(b, "fill")) = q - n
<1> DEFINE A == After(b, "fill")
           f == [i \in A |-> inbox[i].n]
<1>1. \A i \in A : i \in Nat /\ inbox[i].n \in Nat
  <2> SUFFICES ASSUME NEW i \in A PROVE i \in Nat /\ inbox[i].n \in Nat
    OBVIOUS
  <2>1. i \in Nat /\ i \in 1 .. Len(inbox)
    BY DEF After
  <2>2. inbox[i] \in Messages
    BY <2>1 DEF InboxOK
  <2> QED
    BY <2>1, <2>2 DEF Messages
<1>2. f \in [A -> Numbers(b)] /\ \A t \in Numbers(b) : \E i \in A : f[i] = t
  BY DEF Numbers
<1>3. \A i, j \in A : f[i] = f[j] => i = j
  <2> SUFFICES ASSUME NEW i \in A, NEW j \in A, i # j PROVE f[i] # f[j]
    OBVIOUS
  <2>1. i < j \/ j < i
    BY <1>1
  <2>2. inbox[i].n < inbox[j].n \/ inbox[j].n < inbox[i].n
    BY <2>1
  <2> QED
    BY <1>1, <2>2
<1> HIDE DEF f, A
<1>4. f \in Bijection(A, Numbers(b))
  BY <1>2, <1>3 DEF Bijection, Injection, Surjection, IsInjective
<1>5. ExistsBijection(A, Numbers(b))
  BY <1>4 DEF ExistsBijection
<1>6. IsFiniteSet(n + 1 .. q) /\ Cardinality(n + 1 .. q) = q - n
  <2>1. PICK a \in Nat : a = n + 1
    OBVIOUS
  <2>2. IsFiniteSet(a .. q) /\ Cardinality(a .. q) = IF a > q THEN 0 ELSE q - a + 1
    BY FS_Interval
  <2> QED
    BY <2>1, <2>2
<1>7. A \in SUBSET (1 .. Len(inbox)) /\ IsFiniteSet(1 .. Len(inbox))
  BY FS_Interval DEF A, After, InboxOK
<1>8. IsFiniteSet(A)
  BY <1>7, FS_Subset
<1> QED
  BY <1>5, <1>6, <1>8, FS_Bijection DEF A

\* What is shown, and what is on its way without a bootstrap, is one session.
LEMMA ShowsOne ==
  ASSUME TypeOK, PageInv
  PROVE  PageIsOneSession
<1>a. InboxOK /\ PageOK
  BY TypeParts
<1> SUFFICES ASSUME page.whole, Coming("bootstrap") = {}
             PROVE
               LET s     == page.from
                   bars  == page.bars \cup {<<inbox[i].of, inbox[i].n>> : i \in Coming("bar")}
                   count == Cardinality(bars)
                   sent  == Len(page.fills) + Cardinality(Coming("fill"))
               IN
               /\ bars = {<<s, i>> : i \in 1 .. count}
               /\ count \in {Len(rows[s]) - 1, Len(rows[s])}
               /\ at[s] \in Alive \ {"publish", "report"} => count = Len(rows[s])
               /\ \A i \in 1 .. Len(page.fills) : page.fills[i] = <<s, i>>
               /\ sent \in {Len(fills[s]) - 1, Len(fills[s])}
               /\ at[s] \in Alive \ {"fill", "report"} => sent = Len(fills[s])
  BY DEF PageIsOneSession
<1>1. \A type : Coming(type) = After(0, type)
  BY DEF Coming, After
<1>2. Begins(0)
  BY <1>1 DEF Begins
<1>3. From(0) = page.from /\ Base(0) = Len(page.fills) /\ Len(page.fills) \in Nat
  BY <1>a DEF From, Base, PageOK, Pages
<1>4. 0 \in 0 .. Len(inbox)
  BY <1>a DEF InboxOK
<1>5. PICK k \in Nat, q \in Nat :
        BarsTo(0, k) /\ Count(From(0), k) /\ FillsTo(0, q) /\ Sent(From(0), q)
  BY <1>2, <1>4 DEF PageInv, Shows
<1>6. OfOne(0)
  BY <1>2, <1>4 DEF PageInv, Shows
<1> DEFINE s     == page.from
           bars  == page.bars \cup {<<inbox[i].of, inbox[i].n>> : i \in Coming("bar")}
           sent  == Len(page.fills) + Cardinality(Coming("fill"))
<1>7. bars = {<<s, i>> : i \in 1 .. k}
  BY <1>1, <1>3, <1>5 DEF BarsTo, Bars
<1>8. Cardinality(bars) = k
  BY <1>7, PairsCount
<1>9. sent = q
  <2>1. Cardinality(After(0, "fill")) = q - Len(page.fills)
    BY <1>a, <1>3, <1>5, FillsCount DEF FillsTo
  <2> QED
    BY <1>1, <1>3, <2>1
<1>10. /\ k \in {Len(rows[s]) - 1, Len(rows[s])}
       /\ at[s] \in Alive \ {"publish", "report"} => k = Len(rows[s])
  BY <1>3, <1>5 DEF Count, Alive, Ended
<1>11. /\ q \in {Len(fills[s]) - 1, Len(fills[s])}
       /\ at[s] \in Alive \ {"fill", "report"} => q = Len(fills[s])
  BY <1>3, <1>5 DEF Sent, Alive, Ended
<1>12. \A i \in 1 .. Len(page.fills) : page.fills[i] = <<s, i>>
  BY <1>3, <1>6 DEF OfOne
<1> HIDE DEF s, bars, sent
<1>13. /\ bars = {<<s, i>> : i \in 1 .. Cardinality(bars)}
       /\ Cardinality(bars) \in {Len(rows[s]) - 1, Len(rows[s])}
       /\ at[s] \in Alive \ {"publish", "report"} => Cardinality(bars) = Len(rows[s])
  BY <1>7, <1>8, <1>10
<1>14. /\ sent \in {Len(fills[s]) - 1, Len(fills[s])}
       /\ at[s] \in Alive \ {"fill", "report"} => sent = Len(fills[s])
  BY <1>9, <1>11
<1> QED
  BY <1>12, <1>13, <1>14 DEF s, bars, sent

\* However often the page loses its connection, and whatever sessions are
\* started and stopped meanwhile: once it has missed nothing since a bootstrap,
\* it shows one session, its bars without a hole and its fills in their order.
THEOREM PageShowsOneSession == Spec => []PageIsOneSession
<1> DEFINE AllKept == Untraded /\ PageInv /\ \A s \in Session : Follows(s)
<1>1. Init => AllKept
  BY PageStarts DEF Init, Untraded, Follows, HasBegun, Alive
<1>2. TypeOK /\ SessionInv /\ AllKept /\ [Next]_vars => AllKept'
  <2> SUFFICES ASSUME TypeOK, SessionInv, AllKept, [Next]_vars PROVE AllKept'
    OBVIOUS
  <2>1. ASSUME NEW s \in Session PROVE Follows(s)'
    BY SessionMoves, OnwardFollows, BootstrapFollows, BarFollows, TradeFollows
  <2> QED
    BY <2>1, PageKept, UntradedKept
<1>3. TypeOK /\ AllKept => PageIsOneSession
  BY ShowsOne
<1> QED
  BY <1>1, <1>2, <1>3, SessionAlways, SessionsTyped, PTL DEF Spec
=============================================================================
