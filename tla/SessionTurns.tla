----------------------------- MODULE SessionTurns -----------------------------
(***************************************************************************)
(* The turns of one interactive session: prompts typed in the terminal and *)
(* turns that the gateway dispatches to it (AppShell), the controller that *)
(* replaces one run by the next (useWorkflowSessionController) and the     *)
(* process of Claude Code under it (useClaudeProcess).                     *)
(*                                                                         *)
(* One thread: what promises resolved in one step of the event loop do is  *)
(* part of that step, in the order of their callbacks.  Signals, exits,    *)
(* kill timers, keys, pushes, renders and passive effects are steps of     *)
(* their own.  Every prompt gets a number, which also names its run and    *)
(* its process (one turn; loops of turns are ExecRun's).                   *)
(***************************************************************************)
EXTENDS Integers, FiniteSets, SequencesExt

CONSTANTS
  MaxPrompts,     \* bound: prompts typed in the terminal
  MaxDispatches,  \* bound: turns dispatched by the gateway
  MaxInterrupts,  \* bound: interrupts from the keyboard
  MaxMessages     \* bound: root messages in the feed

ASSUME BoundsAssumption ==
  MaxPrompts \in Nat /\ MaxDispatches \in Nat /\ MaxInterrupts \in Nat /\ MaxMessages \in Nat

None == 0         \* no run, no dispatch

Dispatches == 1..MaxDispatches
Runs == 1..MaxPrompts + MaxDispatches

VARIABLES
  turns,       \* what the controller and the process hook keep, a record:
               \*   proc          run -> "none" | "called" (in cancelCurrentRun) | "waiting"
               \*                 (for a kill) | "live" | "signalled" | "exited"
               \*   processRef, exitResolver (whether the last of kills is to be told of an
               \*   exit), kills (calls of kill() that wait, oldest first: the run that is
               \*   spawned next, if any), runnerRef, isRunning
               \*   waiters       run -> the runs that wait for its result, in order
  origin,      \* run -> the dispatch it was started for, or None
  started,     \* number of runs asked for
  shown,       \* isHarnessRunning as rendered last
  feed,        \* root messages in the feed: the runs they are from
  rendered,    \* how many of them are rendered
  due,         \* whether the effects of the last render are still to run
  subscribed,  \* whether AppShell listens to the bridge
  bufferedDispatches,
  queuedDispatch,
  pendingDispatch,  \* the dispatch to be answered, and the length of the feed it was put in at
  received,    \* dispatches that reached the bridge
  answered,    \* dispatch -> the run whose message completed it, or None
  interrupts,
  rushed       \* history: "prompt": one was asked for while another waited for a run to end,
               \* "timeout": a kill timed out

session == <<turns, origin, started, rushed>>
ui == <<shown, feed, rendered, due>>
chat == <<subscribed, bufferedDispatches, queuedDispatch, pendingDispatch, received, answered>>
vars == <<session, ui, chat, interrupts>>

-----------------------------------------------------------------------------
(* useClaudeProcess: kill, spawn, finalize.                                 *)

\* kill() signals the process and waits; `next` is the run spawned when it returns.
BaseKill(w, next) ==
  IF w.processRef = None THEN w
  ELSE [w EXCEPT !.kills = Append(@, next), !.exitResolver = TRUE,
                 !.proc[w.processRef] = "signalled"]

Become(proc, rs, state) == [r \in Runs |-> IF r \in Range(rs) THEN state ELSE proc[r]]

\* The processes of rs start, one after the other: the handle is the last one's.
Launch(w, rs) == [w EXCEPT !.proc = Become(@, rs, "live"), !.processRef = Last(rs)]

\* Plausible error: the new process does not wait for the old one.
BaseSpawnAtOnce(w, rs) == Launch(BaseKill(w, None), rs)
\* Runs that get here in one step have all looked for a process before the first
\* of them has one: they start together, or each kills and waits.
BaseSpawn(w, rs) ==
  IF w.processRef = None THEN Launch(w, rs)
  ELSE [w EXCEPT !.kills = @ \o rs, !.exitResolver = TRUE,
                 !.proc = [Become(@, rs, "waiting") EXCEPT ![w.processRef] = "signalled"]]

\* What kill() does when it returns, told of an exit or timed out: it forgets the process.
KillReturns(w, next) ==
  LET v == [w EXCEPT !.exitResolver = FALSE, !.processRef = None]
  IN  IF next = None THEN v ELSE Launch(v, <<next>>)

-----------------------------------------------------------------------------
(* useWorkflowSessionController: spawn, cancelCurrentRun, interrupt.        *)

CreateRunners(w, rs) ==
  IF rs = <<>> THEN w
  ELSE BaseSpawn([w EXCEPT !.runnerRef = Last(rs), !.isRunning = TRUE], rs)

StartTurn(w, r) ==
  IF w.runnerRef = None THEN CreateRunners(w, <<r>>)
  ELSE LET v == BaseKill(w, None)
       IN  [v EXCEPT !.waiters[w.runnerRef] = Append(@, r), !.proc[r] = "called"]

\* Plausible error: isRunning is cleared by nobody but the interrupt.
RunnerEndsStillShown(w, r) ==
  LET freed == w.waiters[r]
  IN  CreateRunners([w EXCEPT !.waiters[r] = <<>>,
                              !.runnerRef = IF freed # <<>> \/ @ = r THEN None ELSE @], freed)

\* Plausible error: only the newest of the prompts that waited for the run goes on.
RunnerEndsFreesNewest(w, r) ==
  LET freed == w.waiters[r]
  IN  CreateRunners([w EXCEPT !.waiters[r] = <<>>,
                              !.runnerRef = IF freed # <<>> \/ @ = r THEN None ELSE @,
                              !.isRunning = @ /\ w.runnerRef # r],
                    IF freed = <<>> THEN <<>> ELSE <<Last(freed)>>)

\* A run is over: its own call of spawn returns, then all that waited for it go on.
RunnerEnds(w, r) ==
  LET freed == w.waiters[r]
  IN  CreateRunners([w EXCEPT !.waiters[r] = <<>>,
                              !.runnerRef = IF freed # <<>> \/ @ = r THEN None ELSE @,
                              !.isRunning = @ /\ w.runnerRef # r], freed)

Finalize(w, p) ==
  LET v == [w EXCEPT !.proc[p] = "exited", !.processRef = None]
      told == IF ~v.exitResolver THEN v
              ELSE KillReturns([v EXCEPT !.kills = Front(@)], Last(v.kills))
  IN  RunnerEnds(told, p)

-----------------------------------------------------------------------------
(* Processes and timers *)

\* A process exits, by itself or because it was signalled.
Exit(p) ==
  /\ turns.proc[p] \in {"live", "signalled"}
  /\ turns' = Finalize(turns, p)
  /\ UNCHANGED <<origin, started, ui, chat, interrupts, rushed>>

\* KILL_TIMEOUT_MS after a call of kill() that was not told of an exit; timers are
\* due in the order they were set.
KillTimesOut ==
  /\ turns.kills # <<>>
  /\ turns' = KillReturns([turns EXCEPT !.kills = Tail(@),
                                        !.exitResolver = FALSE], Head(turns.kills))
  /\ UNCHANGED <<origin, started, ui, chat, interrupts>>
  /\ rushed' = rushed \cup {"timeout"}

\* A root message of a process that has not exited yet appears in the feed.
Message(p) ==
  /\ turns.proc[p] \in {"live", "signalled"}
  /\ Len(feed) < MaxMessages
  /\ feed' = Append(feed, p)
  /\ UNCHANGED <<session, shown, rendered, due, chat, interrupts>>

-----------------------------------------------------------------------------
(* AppShell: the terminal *)

Ask(d) ==
  /\ started' = started + 1
  /\ origin' = [origin EXCEPT ![started + 1] = d]
  /\ turns' = StartTurn(turns, started + 1)
  /\ rushed' = IF \A r \in Runs : turns.waiters[r] = <<>> THEN rushed
               ELSE rushed \cup {"prompt"}

Typed == Cardinality({r \in 1..started : origin[r] = None})

SubmitPrompt ==
  /\ Typed < MaxPrompts
  /\ Ask(None)
  /\ UNCHANGED <<ui, chat, interrupts>>

Interrupt ==
  /\ shown
  /\ interrupts < MaxInterrupts
  /\ interrupts' = interrupts + 1
  /\ turns' = [BaseKill(turns, None) EXCEPT !.runnerRef = None, !.isRunning = FALSE]
  /\ UNCHANGED <<origin, started, ui, chat, rushed>>

-----------------------------------------------------------------------------
(* AppShell: turns of the gateway *)

\* Plausible error: the reply is looked for in the whole feed.
SubmitDispatchFromStart(d) ==
  /\ pendingDispatch' = [id |-> d, after |-> 0]
  /\ Ask(d)
SubmitDispatchAsTurn(d) ==
  /\ pendingDispatch' = [id |-> d, after |-> rendered]
  /\ Ask(d)

NoPending == [id |-> None, after |-> 0]
Busy == shown \/ pendingDispatch.id # None

\* Plausible error: what is queued already stays.
OnTurnDispatchKeepsFirst(ds) ==
  LET rest == IF Busy THEN ds ELSE Tail(ds)
  IN  /\ queuedDispatch' = IF rest = <<>> \/ queuedDispatch # None THEN queuedDispatch
                           ELSE Head(rest)
      /\ IF Busy THEN UNCHANGED <<pendingDispatch, session>>
                 ELSE SubmitDispatchAsTurn(Head(ds))

\* The handler of AppShell for dispatches that come in one go: one is submitted, if
\* the session is idle, and of the others the last is queued.
OnTurnDispatch(ds) ==
  LET rest == IF Busy THEN ds ELSE Tail(ds)
  IN  /\ queuedDispatch' = IF rest = <<>> THEN queuedDispatch ELSE Last(rest)
      /\ IF Busy THEN UNCHANGED <<pendingDispatch, session>>
                 ELSE SubmitDispatchAsTurn(Head(ds))

\* A push reaches the bridge.
Dispatch ==
  /\ received < MaxDispatches
  /\ received' = received + 1
  /\ \/ /\ ~subscribed
        /\ bufferedDispatches' = Append(bufferedDispatches, received + 1)
        /\ UNCHANGED <<session, queuedDispatch, pendingDispatch>>
     \/ /\ subscribed
        /\ OnTurnDispatch(<<received + 1>>)
        /\ UNCHANGED bufferedDispatches
  /\ UNCHANGED <<ui, subscribed, answered, interrupts>>

\* AppShell subscribes, and the bridge replays what it has buffered.
Subscribe ==
  /\ ~subscribed
  /\ subscribed' = TRUE
  /\ bufferedDispatches' = <<>>
  /\ \/ /\ bufferedDispatches = <<>>
        /\ UNCHANGED <<session, queuedDispatch, pendingDispatch>>
     \/ /\ bufferedDispatches # <<>>
        /\ OnTurnDispatch(bufferedDispatches)
  /\ UNCHANGED <<ui, received, answered, interrupts>>

Render ==
  /\ ~due
  /\ shown # turns.isRunning \/ rendered # Len(feed)
  /\ shown' = turns.isRunning
  /\ rendered' = Len(feed)
  /\ due' = TRUE
  /\ UNCHANGED <<session, feed, chat, interrupts>>

\* The latest root message rendered since the pending dispatch was submitted.
HasReply == pendingDispatch.id # None /\ rendered > pendingDispatch.after
ReplyRun == feed[rendered]

\* The effects of a render: the queued dispatch is submitted if the session is idle,
\* else a pending one is completed with the reply, if there is one.
RunEffects ==
  /\ due
  /\ due' = FALSE
  /\ \/ /\ ~Busy /\ queuedDispatch # None
        /\ queuedDispatch' = None
        /\ SubmitDispatchAsTurn(queuedDispatch)
        /\ UNCHANGED answered
     \/ /\ HasReply
        /\ answered' = [answered EXCEPT ![pendingDispatch.id] = ReplyRun]
        /\ pendingDispatch' = NoPending
        /\ UNCHANGED <<session, queuedDispatch>>
     \/ /\ Busy \/ queuedDispatch = None
        /\ ~HasReply
        /\ UNCHANGED <<session, queuedDispatch, pendingDispatch, answered>>
  /\ UNCHANGED <<shown, feed, rendered, subscribed, bufferedDispatches, received, interrupts>>

-----------------------------------------------------------------------------
Init ==
  /\ turns = [proc |-> [r \in Runs |-> "none"], processRef |-> None, exitResolver |-> FALSE,
              kills |-> <<>>, runnerRef |-> None, isRunning |-> FALSE,
              waiters |-> [r \in Runs |-> <<>>]]
  /\ origin = [r \in Runs |-> None]
  /\ started = 0
  /\ shown = FALSE /\ feed = <<>> /\ rendered = 0 /\ due = FALSE
  /\ subscribed = FALSE /\ bufferedDispatches = <<>> /\ queuedDispatch = None
  /\ pendingDispatch = NoPending
  /\ received = 0
  /\ answered = [d \in Dispatches |-> None]
  /\ interrupts = 0
  /\ rushed = {}

Next ==
  \/ \E p \in Runs : Exit(p) \/ Message(p)
  \/ KillTimesOut
  \/ SubmitPrompt
  \/ Interrupt
  \/ Dispatch
  \/ Subscribe
  \/ Render
  \/ RunEffects

Spec == Init /\ [][Next]_vars

\* Timers fire, the screen is drawn, and a process that was started or signalled ends.
FairSpec ==
  /\ Spec
  /\ WF_vars(KillTimesOut) /\ WF_vars(Render) /\ WF_vars(RunEffects)
  /\ \A p \in Runs : WF_vars(Exit(p))
-----------------------------------------------------------------------------
(* Properties *)

Alive == {r \in Runs : turns.proc[r] \in {"live", "signalled"}}

\* The handle of the hook is a process that runs, an exit resolver belongs to a call of
\* kill() that waits, and what is rendered is in the feed.
TypeOK ==
  /\ turns.proc \in [Runs -> {"none", "called", "waiting", "live", "signalled", "exited"}]
  /\ turns.processRef \in Alive \cup {None}
  /\ turns.exitResolver => turns.kills # <<>>
  /\ origin \in [Runs -> Dispatches \cup {None}]
  /\ rendered <= Len(feed)

\* A dispatch that arrived last is never lost, whatever arrived with it, before the
\* subscription or while the session was busy: it is buffered, queued or its turn was asked
\* for (onTurnDispatch replays in order, and queuedDispatchRef keeps the newest).
LatestIsKept ==
  received > 0 =>
    \/ received \in {queuedDispatch, pendingDispatch.id}
    \/ \E i \in DOMAIN bufferedDispatches : bufferedDispatches[i] = received
    \/ \E r \in Runs : origin[r] = received

\* As long as nobody touches the terminal, the message posted to a chat as the answer to
\* its dispatch comes from the run that was started for it.  (A typed prompt or an
\* interrupt may leave a dispatch pending, which the next message of any run completes.)
UndisturbedAnswerIsOwn ==
  Typed = 0 /\ interrupts = 0 =>
    \A d \in Dispatches : answered[d] # None => origin[answered[d]] = d

\* As long as no prompt is asked for while another waits for a run to end and no kill times
\* out, spawn kills the process before it starts the next ("Kill existing process if
\* running and wait for it to exit"), and the process that runs is the one that the hook
\* kills, the controller cancels and the screen shows.
OrderlyOneProcess ==
  rushed = {} =>
    /\ Cardinality(Alive) <= 1
    /\ \A r \in Runs : turns.proc[r] = "live" =>
         turns.processRef = r /\ turns.runnerRef = r /\ turns.isRunning

\* The session is never shown as running for ever: isRunning always belongs to a run whose
\* process is there or waits for a kill that returns, however runs overtake each other.
ShownRunIsUnderWay ==
  turns.isRunning =>
    turns.runnerRef # None /\ turns.proc[turns.runnerRef] \in {"waiting", "live", "signalled"}

\* A prompt that replaces another is not forgotten: its process is started, also if its
\* predecessor has to be killed or several prompts wait for the same run.
PromptIsStarted ==
  \A r \in Runs : (started >= r) ~> turns.proc[r] \in {"live", "signalled", "exited"}

\* What the comment in useProcess.ts says of every spawn, "Kill existing process if running
\* and wait for it to exit": of two processes, one is on its way out.
OneUnsignalled == Cardinality({r \in Runs : turns.proc[r] = "live"}) <= 1
=============================================================================
