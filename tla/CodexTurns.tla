------------------------------ MODULE CodexTurns ------------------------------
(***************************************************************************)
(* The turns of an interactive session on Codex: the controller that       *)
(* replaces one run by the next (useWorkflowSessionController over         *)
(* useCodexSessionController) and the runtime that drives the app server   *)
(* (createCodexServer, AppServerManager).                                  *)
(*                                                                         *)
(* sendPrompt awaits one request after another; every answer (or time-out) *)
(* is a step of its own, and what the promises settled in it resume is     *)
(* part of that step.  Codex is external: it answers requests and reports  *)
(* turns in any order.  The number of a prompt also names its run and its  *)
(* turn.  One turn per run; a new thread is reported with the answer to    *)
(* thread/start; approvals are left out, but nothing obliges a turn to     *)
(* complete, so it may wait for one for ever.  A prompt may resume a       *)
(* thread from the first on (a session that is taken up again).            *)
(***************************************************************************)
EXTENDS Integers, FiniteSetsExt

CONSTANTS
  MaxCodexPrompts,    \* bound: prompts of the session
  MaxCodexInterrupts   \* bound: interrupts from the keyboard

ASSUME CodexBoundsAssumption == MaxCodexPrompts \in Nat /\ MaxCodexInterrupts \in Nat

Nil == 0          \* no prompt, run or turn

Prompts == 1..MaxCodexPrompts

VARIABLES
  server,      \* what the runtime and the controllers keep, a record:
               \*   phase     prompt -> "none" | "waiting" (in cancelCurrentRun, for the run
               \*             in awaits) | the request that is awaited | "completion" |
               \*             "ok" | "failed"
               \*   running (status), manager, threadId (whether there is one), loaded
               \*   (whether there is a loadedAgentConfig), turnId, pendingTurn (the
               \*   prompt of pendingTurnCompletion), runnerRef
               \*   timers    prompts whose interruptTimer is set
               \*   early     prompts whose completion came before turn/start's answer
               \*   crashed   an unhandled rejection ends the program
  asked,       \* number of prompts asked for
  turn,        \* Codex: prompt -> "none" | "asked" | "started" | "completed"
  interrupted, \* Codex: the turns it was told to interrupt
  pressed,     \* number of interrupts from the keyboard
  astray       \* history: "hasty": a prompt was asked for after an interrupted run was
               \* dropped and before it ended, "queue": two prompts waited for one run,
               \* "givenUp": a prompt failed while its turn was under way, "late":
               \* turn/start was answered after the turn had completed

codexVars == <<server, asked, turn, interrupted, pressed, astray>>

Requests == {"plugins", "unload", "load", "thread", "turn"}
Ended == {"ok", "failed"}
Waiting == {p \in Prompts : server.phase[p] = "waiting"}
InProgress == {p \in Prompts : server.phase[p] \in Requests \cup {"completion"}}

-----------------------------------------------------------------------------
(* Prompts begin and end                                                    *)

\* Runs are created for the prompts ps, and sendPrompt refuses them at once or awaits
\* its first request: all look at the pending turn before one of them has one.
StartRuns(s, ps) ==
  LET accepted == s.running /\ s.pendingTurn = Nil
      first == IF accepted THEN "plugins" ELSE "failed"
  IN  [s EXCEPT !.phase = [p \in Prompts |-> IF p \in ps THEN first ELSE @[p]],
                !.runnerRef = IF ps = {} THEN @ ELSE IF accepted THEN Max(ps) ELSE Nil]

\* Plausible error: the id of the turn stays behind.
ClearPendingTurnKeepsId(s) ==
  [s EXCEPT !.timers = @ \ {s.pendingTurn}, !.pendingTurn = Nil]
ClearPendingTurn(s) ==
  [s EXCEPT !.turnId = Nil, !.timers = @ \ {s.pendingTurn}, !.pendingTurn = Nil]

\* sendPrompt is over for the prompts ps: their runs end, and what waited for one of them
\* in cancelCurrentRun goes on.
Return(s, ps, outcome) ==
  LET freed == {q \in Prompts : s.phase[q] = "waiting" /\ s.awaits[q] \in ps}
  IN  StartRuns([s EXCEPT !.phase = [p \in Prompts |-> IF p \in ps THEN outcome ELSE @[p]],
                          !.runnerRef = IF freed # {} \/ @ \in ps THEN Nil ELSE @], freed)

\* An await of sendPrompt throws.
Throw(s, ps) == Return(ClearPendingTurn(s), ps, "failed")

\* Plausible error: the pending turn is forgotten, its promise is left as it is.
RejectSilently(s) == ClearPendingTurn(s)
\* clearPendingTurn(error).  Nobody handles a rejection of the completion before
\* turn/start is answered.
RejectPendingTurn(s) ==
  LET p == s.pendingTurn
  IN  IF p = Nil THEN ClearPendingTurn(s)
      ELSE IF s.phase[p] = "turn" THEN [ClearPendingTurn(s) EXCEPT !.crashed = TRUE]
      ELSE Throw(s, {p})

-----------------------------------------------------------------------------
(* sendPrompt: what it does with an answer, a refusal or a time-out         *)

\* After stop() there is no manager, and the requests that matter throw.
Await(s, p, request) ==
  IF s.manager THEN [s EXCEPT !.phase[p] = request] ELSE Throw(s, {p})

PluginsEnsured(s, p, ok) ==
  IF ~ok THEN Throw(s, {p}) ELSE Await(s, p, IF s.loaded THEN "unload" ELSE "load")

\* The agents of the turn before are removed, or are not.  When another prompt has
\* taken them away meanwhile, there is no directory to clean up, and that throws.
AgentsUnloaded(s, p) ==
  IF ~s.loaded THEN Throw(s, {p}) ELSE Await([s EXCEPT !.loaded = FALSE], p, "load")

\* The agents are written or are not, MCP servers reloaded and skills listed; then the
\* thread is asked for, and one that is to be new replaces the one before.
AgentsLoaded(s, p, ok, fresh) ==
  Await([s EXCEPT !.loaded = @ \/ ok, !.threadId = @ /\ ~fresh,
                  !.turnId = IF fresh THEN Nil ELSE @], p, "thread")

ThreadAnswered(s, p, ok) ==
  IF ~ok THEN Throw(s, {p})
  ELSE Await([s EXCEPT !.threadId = TRUE, !.pendingTurn = p], p, "turn")

\* Plausible error: the turn is over when turn/start is answered.
TurnAnsweredIsDone(s, p, ok) ==
  IF ok THEN Return(ClearPendingTurn(s), {p}, "ok") ELSE Throw(s, {p})
TurnAnswered(s, p, ok) ==
  IF ~ok THEN Throw(s, {p})
  ELSE LET t == [s EXCEPT !.turnId = p]
       IN  IF p \in s.early THEN Return(t, {p}, "ok") ELSE [t EXCEPT !.phase[p] = "completion"]

Answered(s, p, ok, fresh) ==
  CASE s.phase[p] = "plugins" -> PluginsEnsured(s, p, ok)
    [] s.phase[p] = "unload" -> AgentsUnloaded(s, p)
    [] s.phase[p] = "load" -> AgentsLoaded(s, p, ok, fresh)
    [] s.phase[p] = "thread" -> ThreadAnswered(s, p, ok)
    [] s.phase[p] = "turn" -> TurnAnswered(s, p, ok)

GivenUp(s, t) ==
  IF \E p \in Prompts : /\ s.phase[p] \in {"turn", "completion"} /\ t.phase[p] = "failed"
                        /\ turn[p] # "completed"
  THEN {"givenUp"} ELSE {}

\* The request that p awaits is answered, or REQUEST_TIMEOUT_MS go by.
Reply(p) ==
  /\ ~server.crashed
  /\ server.phase[p] \in Requests
  /\ \E ok, fresh \in BOOLEAN :
       /\ server' = Answered(server, p, ok, fresh)
       /\ turn' = IF server'.phase[p] = "turn" THEN [turn EXCEPT ![p] = "asked"] ELSE turn
       /\ astray' = astray \cup GivenUp(server, server')
            \cup IF ok /\ server.phase[p] = "turn" /\ turn[p] = "completed"
                 THEN {"late"} ELSE {}
  /\ UNCHANGED <<asked, interrupted, pressed>>

-----------------------------------------------------------------------------
(* What Codex reports                                                       *)

TurnStarted(p) ==
  /\ server.running /\ ~server.crashed
  /\ turn[p] = "asked"
  /\ turn' = [turn EXCEPT ![p] = "started"]
  /\ server' = [server EXCEPT !.turnId = p]
  /\ UNCHANGED <<asked, interrupted, pressed, astray>>

\* The pending turn is resolved, whichever turn has completed.
ResolvePendingTurn(s) ==
  LET p == s.pendingTurn
      t == ClearPendingTurn(s)
  IN  IF p = Nil THEN t
      ELSE IF s.phase[p] = "turn" THEN [t EXCEPT !.early = @ \cup {p}]
      ELSE Return(t, {p}, "ok")

TurnCompleted(p) ==
  /\ server.running /\ ~server.crashed
  /\ turn[p] = "started"
  /\ turn' = [turn EXCEPT ![p] = "completed"]
  /\ server' = ResolvePendingTurn(server)
  /\ UNCHANGED <<asked, interrupted, pressed, astray>>

\* The process exits: all its requests are rejected, and so is the pending turn.
ProcessExits ==
  /\ server.running /\ ~server.crashed
  /\ LET s == RejectPendingTurn([server EXCEPT !.running = FALSE])
         rejected == {p \in Prompts : s.phase[p] \in Requests}
         unloads == \E p \in rejected : s.phase[p] = "unload"
     IN  server' = Throw([s EXCEPT !.loaded = @ /\ ~unloads], rejected)
  /\ UNCHANGED <<asked, turn, interrupted, pressed, astray>>

-----------------------------------------------------------------------------
(* What the session does                                                    *)

\* sendInterrupt: nothing, unless a turn is known to be under way.
SendInterrupt(s) ==
  IF s.manager /\ s.threadId /\ s.turnId # Nil /\ s.pendingTurn # Nil
  THEN [s EXCEPT !.timers = @ \cup {s.pendingTurn}] ELSE s

Notified(s) == IF s.manager /\ s.threadId THEN {s.turnId} \ {Nil} ELSE {}

\* Plausible error: the prompt does not wait for the run it replaces.
ReplaceRunAtOnce(s, p) == StartRuns(SendInterrupt(s), {p})
\* spawn: a run under way is killed, and the prompt waits for its end.
ReplaceRun(s, p) ==
  IF s.runnerRef = Nil THEN StartRuns(s, {p})
  ELSE [SendInterrupt(s) EXCEPT !.phase[p] = "waiting", !.awaits[p] = s.runnerRef]

NewPrompt(p) ==
  /\ ~server.crashed
  /\ p = asked + 1
  /\ asked' = p
  /\ server' = ReplaceRun(server, p)
  /\ interrupted' = interrupted \cup IF server.runnerRef # Nil THEN Notified(server) ELSE {}
  /\ astray' = astray
       \cup (IF server.runnerRef = Nil /\ InProgress # {} THEN {"hasty"} ELSE {})
       \cup (IF server.runnerRef # Nil /\ Waiting # {} THEN {"queue"} ELSE {})
  /\ UNCHANGED <<turn, pressed>>

\* The key that interrupts: the run is killed and forgotten.
InterruptKey ==
  /\ ~server.crashed
  /\ pressed < MaxCodexInterrupts
  /\ pressed' = pressed + 1
  /\ server' = [SendInterrupt(server) EXCEPT !.runnerRef = Nil]
  /\ interrupted' = interrupted \cup Notified(server)
  /\ UNCHANGED <<asked, turn, astray>>

\* INTERRUPT_SETTLE_TIMEOUT_MS after p's turn was interrupted: the turn that is pending
\* then is given up.
SettleTimer(p) ==
  /\ ~server.crashed
  /\ p \in server.timers
  /\ LET s == [server EXCEPT !.timers = @ \ {p}]
     IN  server' = IF s.pendingTurn = Nil THEN s ELSE RejectPendingTurn(s)
  /\ astray' = astray \cup GivenUp(server, server')
  /\ UNCHANGED <<asked, turn, interrupted, pressed>>

\* The runtime is stopped: the workflow changes, or the session is over.
Stop ==
  /\ ~server.crashed
  /\ server.manager
  /\ server' = RejectPendingTurn([server EXCEPT !.manager = FALSE, !.running = FALSE,
                                    !.loaded = FALSE, !.threadId = FALSE, !.turnId = Nil])
  /\ UNCHANGED <<asked, turn, interrupted, pressed, astray>>

-----------------------------------------------------------------------------
CodexInit ==
  /\ server = [phase |-> [p \in Prompts |-> "none"], awaits |-> [p \in Prompts |-> Nil],
               running |-> TRUE, manager |-> TRUE, threadId |-> FALSE, loaded |-> FALSE,
               turnId |-> Nil, pendingTurn |-> Nil, runnerRef |-> Nil,
               timers |-> {}, early |-> {}, crashed |-> FALSE]
  /\ asked = 0
  /\ turn = [p \in Prompts |-> "none"]
  /\ interrupted = {} /\ pressed = 0
  /\ astray = {}

CodexNext ==
  \/ \E p \in Prompts : \/ NewPrompt(p) \/ Reply(p) \/ SettleTimer(p)
                        \/ TurnStarted(p) \/ TurnCompleted(p)
  \/ InterruptKey
  \/ ProcessExits
  \/ Stop

CodexSpec == CodexInit /\ [][CodexNext]_codexVars

\* Requests are answered or time out, and timers fire.  Codex owes nothing else.
FairCodexSpec ==
  CodexSpec /\ \A p \in Prompts : WF_codexVars(Reply(p)) /\ WF_codexVars(SettleTimer(p))

-----------------------------------------------------------------------------
(* Properties                                                               *)

CodexTypeOK ==
  /\ server.phase \in [Prompts -> {"none", "waiting", "completion"} \cup Requests \cup Ended]
  /\ {server.turnId, server.pendingTurn, server.runnerRef} \subseteq Prompts \cup {Nil}
  /\ server.timers \cup server.early \subseteq Prompts
  /\ turn \in [Prompts -> {"none", "asked", "started", "completed"}]
  /\ interrupted \subseteq 1..asked

\* A run that is replaced is over before sendPrompt is called for the next one ("Codex turn
\* already in progress" is looked at only before the first await), unless the user drops it
\* with an interrupt or lets two prompts wait for it.
OneTurnAtATime ==
  astray \cap {"hasty", "queue"} = {} => \A p, q \in InProgress : p = q

\* A prompt that succeeds does so by its own turn: turn/completed resolves whatever turn is
\* pending, and no turn of an earlier prompt is left to complete, unless it was given up
\* (its settle timer or its request ran out) or prompts overlapped.
SuccessIsOwn ==
  astray \cap {"hasty", "queue", "givenUp"} = {} =>
    \A p \in Prompts : server.phase[p] = "ok" => turn[p] = "completed"

\* The turn that will be given up in five seconds is one that Codex was told to interrupt:
\* the turn id sent is the pending one's, in whichever order turn/start and the reports of
\* the turn arrive.  (An answer to turn/start after the turn leaves its id behind.)
InterruptIsOwn ==
  astray = {} => server.timers \subseteq interrupted

\* A prompt that replaces a turn that was interrupted is not held up by Codex: with the
\* settle timer it goes on, whatever becomes of the turn.  (A turn whose id is not known
\* yet is not interrupted, and the prompt waits for its end.)
ReplacementGoesOn ==
  (\E p \in Waiting : server.awaits[p] \in server.timers)
    ~> Waiting = {} \/ server.crashed \/ astray \cap {"hasty", "queue"} # {}

\* "interrupt/restart cannot hang on stale turn promises"
\* (docs/plans/2026-03-10-harness-review-fix-plan.md, merge gates).
ReplacementNeverHangs ==
  \A p \in Prompts : server.phase[p] = "waiting" ~> server.phase[p] # "waiting" \/ server.crashed

\* Every rejected completion is handled by the prompt that waits for it.
NeverCrashes == ~server.crashed
=============================================================================
