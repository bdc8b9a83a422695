--------------------------- MODULE DashboardDaemon ---------------------------
(***************************************************************************)
(* The dashboard runtime daemon: its connection to the dashboard             *)
(* (runtimeDaemon.ts over instanceSocketClient.ts), the mirror of the         *)
(* attachments (attachmentReconciler.ts), and the assignments it admits       *)
(* (dashboardAssignmentIntake.ts, dashboardPairedExecution.ts).              *)
(*                                                                         *)
(* Every call of connectOnce has a number, which is also that of its socket.  *)
(* A list of attachments is its version.  The dashboard is external; it does   *)
(* what docs/protocol/runtime-dashboard-protocol.md asks of it: it pushes the  *)
(* list to the socket that is open, sends an assignment when there is one, and *)
(* sends it again on the next socket until it has an answer.                  *)
(*                                                                         *)
(* Delays of the reconnect loop are left out (it waits, then goes on).  Feed   *)
(* events, decisions and the frames of a run have modules of their own.        *)
(***************************************************************************)
EXTENDS Integers, Sequences, FiniteSets

CONSTANTS
  Runs,                 \* runs the dashboard dispatches
  Runners,              \* runners they are bound to
  RunnerOf,             \* the runner of each run
  Unusable,             \* runs whose assignment is malformed or has no workspace
  MaxConcurrentRuns,    \* cap of active runs per runner
  RefreshFailureLimit,  \* failures that trip the circuit breaker
  MaxTroubles,          \* bound: refreshes, connects, fetches that fail, links that break
  MaxChanges            \* bound: changes of the list of attachments

ASSUME DashboardDaemonAssumption ==
  /\ IsFiniteSet(Runs) /\ Unusable \subseteq Runs
  /\ RunnerOf \in [Runs -> Runners]
  /\ MaxConcurrentRuns \in Nat \ {0} /\ RefreshFailureLimit \in Nat \ {0}
  /\ MaxTroubles \in Nat /\ MaxChanges \in Nat

Conns == 1..(MaxTroubles + 1)
Versions == 0..MaxChanges

VARIABLES
  stopped,    \* stop() has been called
  exited,     \* stop() has returned and the process is gone
  loop,       \* the reconnect loop waits before its next connectOnce
  last,       \* number of the last connectOnce
  task,       \* where each connectOnce is: none, refresh, connect, fetch, over
  client,     \* the socket the daemon uses, or 0
  failures,   \* refresh failures within the window
  cooling,    \* the circuit breaker's cool-down
  timer,      \* the proactive refresh is scheduled
  proactive,  \* ... or under way
  mirror,     \* version of the list in the mirror file
  latestPush, \* version of the last pushed list
  pushes,     \* pushRevision
  revAtStart, \* pushRevision when each fetch began
  answer,     \* version a fetch was answered with, or -1
  current,    \* isCurrent() of the reconciler
  late,       \* history: the mirror is from a fetch that outlived its connection
  ready,      \* the intake has a connection to work with
  pending,    \* runs whose assignment the intake has buffered
  active,     \* runs under execution
  aborted,    \* ... whose abort signal has fired
  awaited,    \* ... that stop() waits for
  started,    \* times each run has been started
  link,       \* each socket: none, open, closing, closed
  down,       \* frames on their way to the daemon, per socket
  up,         \* answers on their way to the dashboard, per socket
  list,       \* version of the dashboard's list of attachments
  dash,       \* each run for the dashboard: queued, sent, accepted, rejected, cancelled
  troubles    \* things that went wrong so far

connector == <<loop, last, task, client>>
refresh == <<failures, cooling, timer, proactive>>
attachments == <<mirror, latestPush, pushes, revAtStart, answer, current, late>>
assignments == <<ready, pending>>
execution == <<active, aborted, awaited, started>>
network == <<link, down, up>>
dashboard == <<list, dash>>
vars == <<stopped, exited, connector, refresh, attachments, assignments,
          execution, network, dashboard, troubles>>

Assign(r) == [type |-> "job_assignment", run |-> r]
Cancel(r) == [type |-> "cancel", run |-> r]
Push(v) == [type |-> "attachments.changed", list |-> v]
Frames == {Assign(r) : r \in Runs} \cup {Cancel(r) : r \in Runs} \cup {Push(v) : v \in Versions}
Answer(r, ok) == [run |-> r, accepted |-> ok]
Answers == [run : Runs, accepted : BOOLEAN]

ActiveOf(runner, runs) == {r \in runs : RunnerOf[r] = runner}

TypeOK ==
  /\ stopped \in BOOLEAN /\ exited \in BOOLEAN /\ loop \in BOOLEAN
  /\ last \in 0..(MaxTroubles + 1) /\ client \in 0..last
  /\ task \in [Conns -> {"none", "refresh", "connect", "fetch", "over"}]
  /\ failures \in 0..RefreshFailureLimit /\ cooling \in BOOLEAN
  /\ timer \in BOOLEAN /\ proactive \in BOOLEAN
  /\ mirror \in Versions \cup {-1} /\ latestPush \in Versions \cup {-1}
  /\ pushes \in Nat /\ revAtStart \in [Conns -> Nat]
  /\ answer \in [Conns -> Versions \cup {-1}]
  /\ current \in BOOLEAN /\ late \in BOOLEAN
  /\ ready \in BOOLEAN /\ pending \in Seq(Runs)
  /\ active \subseteq Runs \ Unusable /\ aborted \subseteq active /\ awaited \subseteq active
  /\ started \in [Runs -> Nat]
  /\ link \in [Conns -> {"none", "open", "closing", "closed"}]
  /\ down \in [Conns -> Seq(Frames)] /\ up \in [Conns -> Seq(Answers)]
  /\ list \in Versions
  /\ dash \in [Runs -> {"queued", "sent", "accepted", "rejected", "cancelled"}]
  /\ troubles \in 0..MaxTroubles
  /\ \A k \in Runners : Cardinality(ActiveOf(k, active)) <= MaxConcurrentRuns

Init ==
  /\ stopped = FALSE /\ exited = FALSE
  /\ loop = TRUE /\ last = 0 /\ task = [c \in Conns |-> "none"] /\ client = 0
  /\ failures = 0 /\ cooling = FALSE /\ timer = FALSE /\ proactive = FALSE
  /\ mirror = -1 /\ latestPush = -1 /\ pushes = 0 /\ current = FALSE /\ late = FALSE
  /\ revAtStart = [c \in Conns |-> 0] /\ answer = [c \in Conns |-> -1]
  /\ ready = FALSE /\ pending = <<>>
  /\ active = {} /\ aborted = {} /\ awaited = {} /\ started = [r \in Runs |-> 0]
  /\ link = [c \in Conns |-> "none"]
  /\ down = [c \in Conns |-> <<>>] /\ up = [c \in Conns |-> <<>>]
  /\ list = 0 /\ dash = [r \in Runs |-> "queued"]
  /\ troubles = 0

Trouble == troubles < MaxTroubles /\ troubles' = troubles + 1

-----------------------------------------------------------------------------
(* Admission: validation, the duplicate check and the cap, on a record of    *)
(* what it changes, so that drain() can go through the buffer.               *)

Here == [active |-> active, started |-> started, answers |-> <<>>]

\* Plausible error: the assignment is accepted first, and the cap looked at then.
AdmitAnswersFirst(s, r) ==
  IF \/ r \in Unusable
     \/ r \in s.active
     \/ Cardinality(ActiveOf(RunnerOf[r], s.active)) >= MaxConcurrentRuns
  THEN [s EXCEPT !.answers = Append(@, Answer(r, TRUE))]
  ELSE [active |-> s.active \cup {r}, started |-> [s.started EXCEPT ![r] = @ + 1],
        answers |-> Append(s.answers, Answer(r, TRUE))]

\* The intake's handle() and admitAssignment().
Admit(s, r) ==
  IF \/ r \in Unusable
     \/ r \in s.active
     \/ Cardinality(ActiveOf(RunnerOf[r], s.active)) >= MaxConcurrentRuns
  THEN [s EXCEPT !.answers = Append(@, Answer(r, FALSE))]
  ELSE [active |-> s.active \cup {r}, started |-> [s.started EXCEPT ![r] = @ + 1],
        answers |-> Append(s.answers, Answer(r, TRUE))]

\* The answers go out on the client in use; without one they are dropped.
Send(c, answers) ==
  IF c = 0 THEN up' = up ELSE up' = [up EXCEPT ![c] = @ \o answers]

\* Assignments are handled in order: after[i] is what the first i have led to.
AdmitAll(runs) ==
  LET after[i \in 0..Len(runs)] == IF i = 0 THEN Here ELSE Admit(after[i - 1], runs[i])
  IN  after[Len(runs)]

Handle(c, runs) ==
  LET s == AdmitAll(runs)
  IN  /\ active' = s.active /\ started' = s.started
      /\ Send(c, s.answers)
      /\ UNCHANGED <<aborted, awaited>>

-----------------------------------------------------------------------------
(* The access token.                                                        *)

\* Older failures may have left the window; the one that fills it trips the
\* circuit breaker.
NoteRefreshFailure ==
  \E n \in 1..(failures + 1) :
    /\ failures' = IF n >= RefreshFailureLimit THEN 0 ELSE n
    /\ cooling' = (cooling \/ n >= RefreshFailureLimit)

CoolDownEnds ==
  /\ cooling /\ cooling' = FALSE
  /\ UNCHANGED <<stopped, exited, connector, failures, timer, proactive, attachments,
                 assignments, execution, network, dashboard, troubles>>

TimerFires ==
  /\ timer /\ ~proactive
  /\ timer' = FALSE /\ proactive' = ~stopped
  /\ UNCHANGED <<stopped, exited, connector, failures, cooling, attachments,
                 assignments, execution, network, dashboard, troubles>>

\* The proactive refresh is answered: its token is dropped and the next refresh
\* scheduled, if the token lives long enough.  A failed one is not repeated.
ProactiveRefresh ==
  /\ proactive /\ proactive' = FALSE
  /\ \/ timer' \in BOOLEAN /\ failures' = 0 /\ UNCHANGED <<cooling, troubles>>
     \/ Trouble /\ NoteRefreshFailure /\ UNCHANGED timer
  /\ UNCHANGED <<stopped, exited, connector, attachments, assignments, execution,
                 network, dashboard>>

-----------------------------------------------------------------------------
(* Connecting.                                                              *)

\* The loop's conditions after its delay and after the cool-down.
MayConnect == ~stopped /\ client = 0 /\ ~cooling /\ last < MaxTroubles + 1

\* Plausible error: the loop is started again while it waits for connectOnce.
ConnectKeepsLooping ==
  /\ loop /\ MayConnect
  /\ loop' = TRUE /\ last' = last + 1
  /\ task' = [task EXCEPT ![last + 1] = "refresh"]
  /\ UNCHANGED <<stopped, exited, client, refresh, attachments, assignments, execution,
                 network, dashboard, troubles>>

Connect ==
  /\ loop /\ MayConnect
  /\ loop' = FALSE /\ last' = last + 1
  /\ task' = [task EXCEPT ![last + 1] = "refresh"]
  /\ UNCHANGED <<stopped, exited, client, refresh, attachments, assignments, execution,
                 network, dashboard, troubles>>

\* connectOnce throws: the loop goes on unless there is nothing to do.
ConnectOnceFails(c) ==
  /\ Trouble
  /\ task' = [task EXCEPT ![c] = "over"]
  /\ loop' = (~stopped /\ client = 0)
  /\ UNCHANGED <<last, client>>

Refreshed(c) ==
  /\ task[c] = "refresh"
  /\ task' = [task EXCEPT ![c] = "connect"]
  /\ failures' = 0
  /\ UNCHANGED <<stopped, exited, loop, last, client, cooling, timer, proactive, attachments,
                 assignments, execution, network, dashboard, troubles>>

RefreshFails(c) ==
  /\ task[c] = "refresh"
  /\ ConnectOnceFails(c)
  /\ NoteRefreshFailure
  /\ UNCHANGED <<stopped, exited, timer, proactive, attachments, assignments, execution,
                 network, dashboard>>

\* The socket is open: the fetch of the attachments begins.
Connected(c) ==
  /\ task[c] = "connect"
  /\ task' = [task EXCEPT ![c] = "fetch"]
  /\ client' = c /\ link' = [link EXCEPT ![c] = "open"]
  /\ revAtStart' = [revAtStart EXCEPT ![c] = pushes]
  /\ UNCHANGED <<stopped, exited, loop, last, refresh, mirror, latestPush, pushes, answer,
                 current, late, assignments, execution, down, up, dashboard, troubles>>

ConnectFails(c) ==
  /\ task[c] = "connect"
  /\ ConnectOnceFails(c)
  /\ UNCHANGED <<stopped, exited, refresh, attachments, assignments, execution, network,
                 dashboard>>

-----------------------------------------------------------------------------
(* The fetch of the attachments, and what connectOnce does after it.        *)

\* The dashboard answers with its list.
AnswerFetch(c) ==
  /\ task[c] = "fetch" /\ answer[c] = -1
  /\ answer' = [answer EXCEPT ![c] = list]
  /\ UNCHANGED <<stopped, exited, connector, refresh, mirror, latestPush, pushes, revAtStart,
                 current, late, assignments, execution, network, dashboard, troubles>>

\* Plausible error: a push that came in during the fetch is overwritten by it.
ReconciledFetchWins(c) == mirror' = answer[c]

\* The fetched list, or the last pushed one if there was a push meanwhile.
Reconciled(c) ==
  mirror' = IF pushes # revAtStart[c] /\ latestPush # -1 THEN latestPush ELSE answer[c]

StillConnected(c) == ~stopped /\ client = c

\* Plausible error: the buffer is left for the next frame to drain.
BecomeReadyWithoutDrain(c) ==
  IF StillConnected(c)
  THEN ready' = TRUE /\ pending' = pending /\ UNCHANGED <<execution, up>> /\ timer' \in BOOLEAN
  ELSE UNCHANGED <<assignments, execution, up, timer>>

\* The connection is ready: the buffered assignments are handled in order.
BecomeReady(c) ==
  IF StillConnected(c)
  THEN ready' = TRUE /\ pending' = <<>> /\ Handle(client, pending) /\ timer' \in BOOLEAN
  ELSE UNCHANGED <<assignments, execution, up, timer>>

FetchReturns(c) ==
  /\ task[c] = "fetch" /\ answer[c] # -1
  /\ task' = [task EXCEPT ![c] = "over"] /\ answer' = [answer EXCEPT ![c] = -1]
  /\ Reconciled(c) /\ current' = TRUE /\ late' = (client # c)
  /\ BecomeReady(c)
  /\ UNCHANGED <<stopped, exited, loop, last, client, failures, cooling, proactive,
                 latestPush, pushes, revAtStart, link, down, dashboard, troubles>>

\* Pushes alone must keep the mirror up to date now.
FetchFails(c) ==
  /\ task[c] = "fetch"
  /\ Trouble
  /\ task' = [task EXCEPT ![c] = "over"] /\ answer' = [answer EXCEPT ![c] = -1]
  /\ current' = FALSE
  /\ BecomeReady(c)
  /\ UNCHANGED <<stopped, exited, loop, last, client, failures, cooling, proactive, mirror,
                 latestPush, pushes, revAtStart, late, link, down, dashboard>>

-----------------------------------------------------------------------------
(* Frames from the dashboard.                                               *)

ReceiveAssignment(c) ==
  /\ Head(down[c]).type = "job_assignment"
  /\ LET r == Head(down[c]).run
     IN  IF ready
         THEN Handle(client, <<r>>) /\ pending' = pending
         ELSE pending' = Append(pending, r) /\ UNCHANGED <<execution, up>>
  /\ UNCHANGED <<ready, attachments>>

\* A run that is not active is left alone, a buffered one as well.
ReceiveCancel(c) ==
  /\ Head(down[c]).type = "cancel"
  /\ aborted' = aborted \cup ({Head(down[c]).run} \cap active)
  /\ UNCHANGED <<active, awaited, started, up, assignments, attachments>>

ReceivePush(c) ==
  /\ Head(down[c]).type = "attachments.changed"
  /\ pushes' = pushes + 1
  /\ latestPush' = Head(down[c]).list /\ mirror' = Head(down[c]).list
  /\ current' = TRUE /\ late' = FALSE
  /\ UNCHANGED <<revAtStart, answer, execution, up, assignments>>

\* A socket delivers frames until it is closed, also while it is closing.
Receive(c) ==
  /\ down[c] # <<>>
  /\ down' = [down EXCEPT ![c] = Tail(@)]
  /\ ReceiveAssignment(c) \/ ReceiveCancel(c) \/ ReceivePush(c)
  /\ UNCHANGED <<stopped, exited, connector, refresh, link, dashboard, troubles>>

\* The executor's promise settles.
RunEnds(r) ==
  /\ r \in active
  /\ active' = active \ {r} /\ aborted' = aborted \ {r} /\ awaited' = awaited \ {r}
  /\ UNCHANGED <<stopped, exited, connector, refresh, attachments, assignments, started,
                 network, dashboard, troubles>>

-----------------------------------------------------------------------------
(* The end of a connection, and of the daemon.                              *)

\* What was under way is lost; the dashboard will send again what it has had
\* no answer to.
Hangup(c) ==
  /\ link' = [link EXCEPT ![c] = "closed"]
  /\ down' = [down EXCEPT ![c] = <<>>] /\ up' = [up EXCEPT ![c] = <<>>]
  /\ dash' = [r \in Runs |-> IF dash[r] = "sent" THEN "queued" ELSE dash[r]]
  /\ list' = list

\* The close event of the client starts the reconnect loop.
OnClose(c) ==
  IF stopped \/ client # c THEN UNCHANGED <<loop, client, ready, timer, current>>
  ELSE loop' = TRUE /\ client' = 0 /\ ready' = FALSE /\ timer' = FALSE /\ current' = FALSE

LinkBreaks(c) ==
  /\ link[c] = "open" /\ Trouble
  /\ Hangup(c) /\ OnClose(c)
  /\ UNCHANGED <<stopped, exited, last, task, failures, cooling, proactive, mirror, latestPush,
                 pushes, revAtStart, answer, late, pending, execution>>

\* The closing handshake ends; the daemon has forgotten the socket.
Closed(c) ==
  /\ link[c] = "closing"
  /\ Hangup(c)
  /\ UNCHANGED <<stopped, exited, connector, refresh, attachments, assignments, execution,
                 troubles>>

AbortAll == aborted' = active

\* stop(): there is a handle to call it on once the first connectOnce is over.
Stop ==
  /\ ~stopped /\ last > 0 /\ task[1] = "over"
  /\ stopped' = TRUE /\ timer' = FALSE /\ client' = 0
  /\ link' = IF client = 0 THEN link ELSE [link EXCEPT ![client] = "closing"]
  /\ AbortAll /\ awaited' = active
  /\ UNCHANGED <<exited, loop, last, task, failures, cooling, proactive, attachments,
                 assignments, active, started, down, up, dashboard, troubles>>

\* Every run that was active has settled.
Exit ==
  /\ stopped /\ awaited = {}
  /\ exited' = TRUE
  /\ UNCHANGED <<stopped, connector, refresh, attachments, assignments, execution, network,
                 dashboard, troubles>>

-----------------------------------------------------------------------------
(* The dashboard.                                                           *)

\* It knows the socket that was opened last.
Online == {c \in Conns : link[c] = "open" /\ \A d \in Conns : d > c => link[d] # "open"}

SendDown(frame) ==
  down' = [c \in Conns |-> IF c \in Online THEN Append(down[c], frame) ELSE down[c]]

\* A runner is attached or detached: pushed, if a socket is open.
ChangeList ==
  /\ list < MaxChanges /\ list' = list + 1
  /\ SendDown(Push(list + 1))
  /\ UNCHANGED <<stopped, exited, connector, refresh, attachments, assignments, execution,
                 link, up, dash, troubles>>

Dispatch(r) ==
  /\ dash[r] = "queued" /\ Online # {}
  /\ dash' = [dash EXCEPT ![r] = "sent"]
  /\ SendDown(Assign(r))
  /\ UNCHANGED <<stopped, exited, connector, refresh, attachments, assignments, execution,
                 link, up, list, troubles>>

\* A queued run is purged; for one that has been sent a frame goes out.
CancelRun(r) ==
  /\ dash[r] \in {"queued", "sent", "accepted"}
  /\ dash' = [dash EXCEPT ![r] = "cancelled"]
  /\ IF dash[r] = "queued" THEN down' = down ELSE SendDown(Cancel(r))
  /\ UNCHANGED <<stopped, exited, connector, refresh, attachments, assignments, execution,
                 link, up, list, troubles>>

HearAnswer(c) ==
  LET a == Head(up[c])
  IN  /\ up[c] # <<>>
      /\ up' = [up EXCEPT ![c] = Tail(@)]
      /\ dash' = IF dash[a.run] = "sent"
                 THEN [dash EXCEPT ![a.run] = IF a.accepted THEN "accepted" ELSE "rejected"]
                 ELSE dash
      /\ UNCHANGED <<stopped, exited, connector, refresh, attachments, assignments, execution,
                     link, down, list, troubles>>

-----------------------------------------------------------------------------
Step ==
  \/ Connect \/ CoolDownEnds \/ TimerFires \/ ProactiveRefresh
  \/ \E c \in Conns :
       \/ Refreshed(c) \/ RefreshFails(c) \/ Connected(c) \/ ConnectFails(c)
       \/ AnswerFetch(c) \/ FetchReturns(c) \/ FetchFails(c)
       \/ Receive(c) \/ HearAnswer(c) \/ LinkBreaks(c) \/ Closed(c)
  \/ \E r \in Runs : Dispatch(r) \/ CancelRun(r) \/ RunEnds(r)
  \/ ChangeList \/ Stop \/ Exit

Next == ~exited /\ Step

Spec == Init /\ [][Next]_vars

\* The event loop and the network go on; what the users do and the end of a run
\* are not promised.  Each of these steps happens finitely often within the
\* bounds, so fairness to their disjunction is fairness to each.
Progress ==
  \/ Connect \/ CoolDownEnds
  \/ \E c \in Conns :
       \/ Refreshed(c) \/ RefreshFails(c) \/ Connected(c) \/ ConnectFails(c)
       \/ AnswerFetch(c) \/ FetchReturns(c) \/ FetchFails(c)
       \/ Receive(c) \/ HearAnswer(c)
  \/ \E r \in Runs : Dispatch(r)

Fairness == WF_vars(~exited /\ Progress)

LiveSpec == Spec /\ Fairness

-----------------------------------------------------------------------------
(* Properties.                                                              *)

\* Until it is stopped the daemon has one socket open, the client it sends on, or
\* none: however closes, failed connects and the waiting loop interleave, no second
\* connection is made and nothing is sent on a socket that is gone
\* (runtimeDaemon.ts:410 and :460).
OneConnection == ~stopped => \A c \in Conns : link[c] = "open" <=> c = client

\* The list is in flight: a fetch is under way, or a push on its way.
Refreshing ==
  \/ \E c \in Conns : task[c] = "fetch"
  \/ \E i \in DOMAIN down[client] : down[client][i].type = "attachments.changed"

\* A daemon that calls its mirror current has, once nothing is in flight, the
\* dashboard's list (protocol 7.6).  It may not: a fetch that outlives its
\* connection writes its old list over that of the next one, and marks it
\* current (attachmentReconciler.ts:102).
MirrorIsCurrent ==
  current /\ ~stopped /\ client # 0 /\ ~Refreshing => mirror = list

\* However fetches and pushes interleave otherwise, it does: the older list never
\* ends up in the mirror, and a close or a failed fetch withdraws the claim
\* (attachmentReconciler.ts:105, runtimeDaemon.ts:410).
TimelyMirrorIsCurrent == ~late => MirrorIsCurrent

\* A run that the dashboard takes for accepted has been started: no answer is sent
\* before the cap, the duplicates and the workspace are known
\* (dashboardPairedExecution.ts:152, dashboardAssignmentIntake.ts:59).
AcceptedIsStarted == \A r \in Runs : dash[r] = "accepted" => started[r] > 0

\* An assignment that was sent gets its answer, or goes back to the queue because
\* the connection broke: it is not forgotten in the buffer of the intake
\* (dashboardAssignmentIntake.ts:95).
AssignmentIsAnswered == \A r \in Runs : dash[r] = "sent" ~> (dash[r] # "sent" \/ stopped)

\* A run is executed once.  It is not: an assignment whose acceptance was lost is
\* sent again, and executed again once the first execution has ended.
ExecutedOnce == \A r \in Runs : started[r] <= 1
=============================================================================
