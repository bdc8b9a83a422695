------------------------------ MODULE ExecRun ------------------------------
(***************************************************************************)
(* One run of `drisp exec`, which is also how the dashboard daemon         *)
(* executes an assignment: runExec (app/exec/runner.ts) around the         *)
(* workflow runner (core/workflows/workflowRunner.ts), which starts one    *)
(* turn of the harness process after another until the tracker file says   *)
(* that the work is done, and the Claude session controller, which spawns  *)
(* and kills the process.                                                  *)
(*                                                                         *)
(* Steps that run in one chain of promise callbacks, without waiting for a *)
(* timer or for I/O, are one action: the end of a turn, the reading of the *)
(* tracker and the start of the next turn, for instance.  The tracker is   *)
(* abstracted to what loopManager.ts tells apart.  runExec never calls     *)
(* cancel() or kill() of the workflow runner: its `cancelled` is constant. *)
(***************************************************************************)
EXTENDS Integers

CONSTANT MaxIterations  \* bound: largest loop.maxIterations of a workflow

ASSUME ExecRunAssumption == MaxIterations \in Nat

VARIABLES
  loop,          \* the workflow's loop is enabled
  maxIterations, \* its maxIterations
  phase,         \* of runExec: starting, running, writing, uploading, done
  latch,         \* the failure latch
  timer,         \* the timeoutMs timer is armed
  signal,        \* the abort listener is attached and has not fired
  status,        \* of the workflow run
  iterations,    \* turns started
  loopCount,     \* the loop manager's counter
  busy,          \* a turn's process runs
  killed,        \* ... and has been sent its signal
  tracker,       \* the tracker file
  stored,        \* status in the session database's row of the run
  degraded,      \* a write to that database has failed
  uploaded       \* the run's artifacts have been uploaded and published

config == <<loop, maxIterations>>
turn == <<iterations, loopCount, busy>>
execVars == <<config, phase, latch, timer, signal, status, turn, killed,
              tracker, stored, degraded, uploaded>>

Phases == {"starting", "running", "writing", "uploading", "done"}
Failures == {"none", "cancelled", "timeout", "process", "workflow", "output"}
Statuses == {"running", "completed", "failed", "blocked", "exhausted"}
Trackers == {"missing", "skeleton", "open", "complete", "blocked"}

ExecTypeOK ==
  /\ loop \in BOOLEAN /\ maxIterations \in 0..MaxIterations
  /\ phase \in Phases /\ latch \in Failures
  /\ timer \in BOOLEAN /\ signal \in BOOLEAN
  /\ status \in Statuses /\ stored \in Statuses \cup {"none"}
  /\ iterations \in Nat /\ loopCount \in Nat
  /\ busy \in BOOLEAN /\ killed \in BOOLEAN
  /\ tracker \in Trackers /\ degraded \in BOOLEAN /\ uploaded \in BOOLEAN
  /\ busy <=> phase = "running"

\* A tracker may have been left by an earlier run of the session.
ExecInit ==
  /\ loop \in BOOLEAN /\ maxIterations \in 0..MaxIterations
  /\ phase = "starting" /\ latch = "none"
  /\ timer \in BOOLEAN /\ signal \in BOOLEAN
  /\ status = "running" /\ stored = "none"
  /\ iterations = 0 /\ loopCount = 0
  /\ busy = FALSE /\ killed = FALSE
  /\ tracker \in Trackers \ {"skeleton"}
  /\ degraded = FALSE /\ uploaded = FALSE

-----------------------------------------------------------------------------
(* The failure latch.                                                       *)

\* The first failure stays.
Latched(kind) == IF latch = "none" THEN kind ELSE latch

\* register() from a timer or a listener: the first failure also kills the
\* process, if one runs.
Register(kind) ==
  /\ latch' = Latched(kind)
  /\ killed' = (killed \/ (busy /\ latch = "none"))

\* Plausible error: the listener is removed only at the very end.
ListeningUntilDone == phase # "done"

\* The abort listener and the timer are there until the run has its result.
Listening == phase \in {"starting", "running"}

Abort ==
  /\ Listening /\ signal
  /\ signal' = FALSE
  /\ Register("cancelled")
  /\ UNCHANGED <<config, phase, timer, status, turn, tracker, stored, degraded, uploaded>>

TimeoutFires ==
  /\ Listening /\ timer
  /\ timer' = FALSE
  /\ Register("timeout")
  /\ UNCHANGED <<config, phase, signal, status, turn, tracker, stored, degraded, uploaded>>

-----------------------------------------------------------------------------
(* The workflow runner.                                                     *)

\* Plausible error: a failed write is not reported.
PersistSilently(s) == stored' \in {stored, s} /\ UNCHANGED degraded

\* The row of the run takes its new status; a failure only degrades the store.
Persist(s) ==
  \/ stored' = s /\ UNCHANGED degraded
  \/ degraded' = TRUE /\ UNCHANGED stored

\* The next turn's process starts.
StartTurn ==
  /\ iterations' = iterations + 1
  /\ busy' = TRUE /\ killed' = FALSE

\* The tracker once the runner has written its skeleton where there was none.
Bootstrapped == IF loop /\ tracker = "missing" THEN "skeleton" ELSE tracker

\* runtime.start() has resolved: the runner creates the tracker, writes its row
\* and starts the first turn.
StartRun ==
  /\ phase = "starting" /\ phase' = "running"
  /\ tracker' = Bootstrapped
  /\ Persist("running")
  /\ StartTurn
  /\ UNCHANGED <<config, latch, timer, signal, status, loopCount, uploaded>>

\* What the runner awaits is over: runExec removes its listeners.
LeaveRun(kind) ==
  /\ phase' = "writing"
  /\ latch' = Latched(kind)
  /\ busy' = FALSE
  /\ UNCHANGED <<killed, timer, signal>>

\* No first turn: the hook server does not start or the tracker cannot be
\* written; or, with both written, the composed prompt file cannot.
StartFails ==
  /\ phase = "starting"
  /\ LeaveRun("process")
  /\ \/ UNCHANGED <<tracker, stored, degraded>>
     \/ tracker' = Bootstrapped /\ Persist("running")
  /\ UNCHANGED <<config, status, iterations, loopCount, uploaded>>

\* What shouldContinueWorkflowRun makes of the tracker.
StopByTracker(t) ==
  IF t = "complete" THEN "completed"
  ELSE IF t = "blocked" THEN "blocked"
  ELSE IF t \in {"missing", "skeleton"} THEN "failed"
  ELSE IF loopCount + 1 >= maxIterations THEN "exhausted"
  ELSE "running"

\* The status after a turn: "bad" is an exit code other than zero, a spawn
\* error, or tool use without hook events; "good" includes the exit code null
\* of a process that a signal ended.
StatusAfter(outcome, t) ==
  IF outcome = "bad" THEN "failed"
  ELSE IF ~loop THEN "completed"
  ELSE StopByTracker(t)

\* Plausible error: an exhausted loop is taken for a completed one.
FailureOfBlocked(s) ==
  IF s = "blocked" THEN "workflow"
  ELSE IF s = "failed" THEN "process"
  ELSE "none"

\* The latch entry for the runner's result.
FailureOf(s) ==
  IF s \in {"blocked", "exhausted"} THEN "workflow"
  ELSE IF s = "failed" THEN "process"
  ELSE "none"

\* The process exits; the tracker holds what it wrote.
TurnEnds ==
  /\ busy
  /\ tracker' \in IF loop THEN Trackers ELSE {tracker}
  /\ \E outcome \in {"good", "bad"} : status' = StatusAfter(outcome, tracker')
  /\ Persist(status')
  /\ IF status' = "running"
     THEN /\ StartTurn
          /\ loopCount' = loopCount + 1
          /\ UNCHANGED <<phase, latch, timer, signal>>
     ELSE /\ LeaveRun(FailureOf(status'))
          /\ UNCHANGED <<iterations, loopCount>>
  /\ UNCHANGED <<config, uploaded>>

-----------------------------------------------------------------------------
(* The end of runExec.                                                      *)

\* The last message is written, unless the run has failed; only a run that
\* has not failed goes on to its artifacts.
WriteLastMessage ==
  /\ phase = "writing"
  /\ latch' \in {latch, Latched("output")}
  /\ phase' = IF latch' = "none" THEN "uploading" ELSE "done"
  /\ UNCHANGED <<config, timer, signal, status, turn, killed, tracker, stored, degraded, uploaded>>

\* beforeTerminalCompletion returns, or throws.
UploadArtifacts ==
  /\ phase = "uploading" /\ phase' = "done"
  /\ \/ uploaded' \in BOOLEAN /\ UNCHANGED latch
     \/ latch' = Latched("output") /\ UNCHANGED uploaded
  /\ UNCHANGED <<config, timer, signal, status, turn, killed, tracker, stored, degraded>>

-----------------------------------------------------------------------------
ExecNext ==
  \/ Abort \/ TimeoutFires
  \/ StartRun \/ StartFails \/ TurnEnds
  \/ WriteLastMessage \/ UploadArtifacts

ExecSpec == ExecInit /\ [][ExecNext]_execVars

-----------------------------------------------------------------------------
(* Properties.                                                              *)

\* A run that reports success has run to its end: the workflow runner says
\* completed and, in a loop, the tracker says so.  Neither a loop that ran out
\* of iterations nor a failure that came first is reported as a success
\* (runner.ts:505-533, sessionPlan.ts:214-236).
SuccessIsCompleted ==
  phase = "done" /\ latch = "none" =>
    status = "completed" /\ (loop => tracker = "complete")

\* A loop starts no more turns than maxIterations, and one if that is zero
\* (sessionPlan.ts:225-227: the counter is compared before it is incremented).
LoopIsBounded ==
  iterations <= IF loop /\ maxIterations > 0 THEN maxIterations ELSE 1

\* What runExec reports and what the row of the run says fit together, however a
\* cancel, a timeout or a failing end of the run fall between the two, unless the store
\* has reported a failed write: a success has a completed row, a completed row is reported
\* as a failure only for what came from outside the workflow, and the row is left
\* unfinished only by a run that started no turn and is reported as failed
\* (workflowRunner.ts:165-284, runner.ts:505-545).
RowFitsReport ==
  phase = "done" /\ ~degraded =>
    /\ latch = "none" => stored = "completed"
    /\ stored = "completed" => latch \in {"none", "cancelled", "timeout", "output"}
    /\ stored \in {"none", "running"} => iterations = 0 /\ latch # "none"

\* When runExec returns, its row does not say that the run is still running.  Does not
\* hold: createWorkflowRunState throws after the row was written (workflowRunner.ts:191-198).
RowEnds ==
  phase = "done" /\ ~degraded => stored # "running"

\* Artifacts are published for successful runs only: nothing that happens
\* while they are uploaded turns the run into a failed one
\* (runner.ts:316-324 and 539-548: the listeners go before the upload).
ArtifactsOnlyOfSuccess ==
  uploaded => phase = "done" /\ latch = "none"

\* No process of a cancelled or timed out run is left running without having
\* been killed: "the request blocks until timeoutMs (or abort)"
\* (runner.ts:243-244).  Does not hold.
KilledOnceFailed ==
  busy /\ latch \in {"cancelled", "timeout"} => killed
=============================================================================
