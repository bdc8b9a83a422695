----------------------------- MODULE HookServer -----------------------------
(***************************************************************************)
(* The hooks of Claude Code: each hook is a forwarder process                *)
(* (hook-forwarder.ts) that sends one request over a socket of its own to the *)
(* hook server (harnesses/claude/runtime/server.ts) and waits for the answer.  *)
(* The controller answers by rule or asks (runtimeController.ts); the user in  *)
(* the terminal (useFeed.ts), a chat (relayAdapter.ts) and the dashboard       *)
(* (dashboardDecisionInbox.ts) may all answer the same request, while its      *)
(* timer, the forwarder's and the end of either process race with them.        *)
(*                                                                         *)
(* A decision is who made it and what it tells Claude.  Of the feed there is   *)
(* what decides on prompts: whether a run is open, the correlation of requests *)
(* with decisions, and the permission.decision events.                        *)
(***************************************************************************)
EXTENDS Integers, Sequences, FiniteSets

CONSTANTS
  Requests,      \* requests of forwarders
  Kindings,      \* what they may be about
  MaxDecisions   \* bound: decisions of the dashboard

Kinds == {"permission", "question", "tool", "stop", "elicitation", "prompt", "end"}

ASSUME HookServerAssumption ==
  IsFiniteSet(Requests) /\ Kindings \subseteq [Requests -> Kinds] /\ MaxDecisions \in Nat

VARIABLES
  kind,     \* what each request is about
  server,   \* the server: running, stopped, exited
  world,    \* what handlers change, see Worlds
  rule,     \* the rule for the tool: none, approve, deny
  relays,   \* requests a chat has been asked about
  inbox,    \* decisions of the dashboard that are not consumed, by request
  decided   \* decisions the dashboard has made so far

vars == <<kind, server, world, rule, relays, inbox, decided>>

Verdicts == {"allow", "deny", "answer", "passthrough"}
Decisions == [source : {"user", "rule", "timeout"}, verdict : Verdicts]
Decision(source, verdict) == [source |-> source, verdict |-> verdict]
TimedOut == Decision("timeout", "passthrough")

\* Requests for which the server sets no timer, and those with which the forwarder
\* waits for ever.
Untimed == {r \in Requests : kind[r] \in {"permission", "question", "tool", "elicitation"}}
Patient == {r \in Requests : kind[r] \in {"permission", "question", "tool"}}
ExpectsDecision == {r \in Requests : kind[r] \notin {"prompt", "end"}}
Asked == {r \in Requests : kind[r] \in {"permission", "question"}}

\* What a handler of the session process changes in one go.
Worlds ==
  [socket : [Requests -> {"none", "waiting", "answered", "gone", "done"}],
   reply : [Requests -> Verdicts \cup {"none"}],   \* written to each socket
   pending : SUBSET Requests, timers : SUBSET Requests,
   permissions : SUBSET Requests, questions : SUBSET Requests,  \* prompts in the terminal
   order : [Requests -> Nat],                      \* requests that came before each
   runOpen : BOOLEAN,
   parent : [Requests -> {"none", "request", "other"}],  \* the event a decision belongs to
   recorded : [Requests -> Nat],                   \* its permission.decision events
   notified : [Requests -> Seq(Decisions)],        \* history: decisions announced
   rolled : SUBSET Requests]                       \* history: pending when a run began

VerdictsFor(r) == IF kind[r] = "question" THEN {"answer"} ELSE {"allow", "deny"}

TypeOK ==
  /\ kind \in Kindings
  /\ server \in {"running", "stopped", "exited"}
  /\ world \in Worlds
  /\ world.timers \subseteq world.pending \ Untimed
  /\ \A r \in world.pending : world.socket[r] \in {"waiting", "gone"}
  /\ \A r \in world.permissions : kind[r] = "permission"
  /\ \A r \in world.questions : kind[r] = "question"
  /\ rule \in {"none", "approve", "deny"} /\ relays \subseteq Asked
  /\ DOMAIN inbox \subseteq Asked /\ \A r \in DOMAIN inbox : inbox[r] \in VerdictsFor(r)
  /\ decided \in 0..MaxDecisions

Init ==
  /\ kind \in Kindings
  /\ server = "running"
  /\ world = [socket |-> [r \in Requests |-> "none"], reply |-> [r \in Requests |-> "none"],
              pending |-> {}, timers |-> {}, permissions |-> {}, questions |-> {},
              order |-> [r \in Requests |-> 0], runOpen |-> FALSE, parent |-> [r \in Requests |-> "none"],
              recorded |-> [r \in Requests |-> 0], notified |-> [r \in Requests |-> <<>>],
              rolled |-> {}]
  /\ rule = "none" /\ relays = {} /\ inbox = <<>> /\ decided = 0

-----------------------------------------------------------------------------
(* Deciding.                                                                *)

Answered(w, D) ==
  [r \in Requests |-> IF r \in D /\ w.socket[r] = "waiting" THEN "answered" ELSE w.socket[r]]
Replied(w, D, of) == [r \in Requests |-> IF r \in D THEN of[r].verdict ELSE w.reply[r]]

\* Write the answer, end the socket, forget the request: for each of D, which of
\* decides.
Respond(w, D, of) ==
  [w EXCEPT !.pending = @ \ D, !.timers = @ \ D,
            !.socket = Answered(w, D), !.reply = Replied(w, D, of)]

\* Permission requests whose decision finds its event.
Known(w, D) == {r \in D : kind[r] = "permission" /\ w.parent[r] = "request"}

\* mapDecision: the decision belongs to the event of the request, once.  The
\* event of a permission.decision takes the prompt away.
Record(w, D) ==
  [w EXCEPT
     !.parent = [r \in Requests |-> IF r \in D THEN "none" ELSE w.parent[r]],
     !.recorded = [r \in Requests |-> w.recorded[r] + (IF r \in Known(w, D) THEN 1 ELSE 0)],
     !.permissions = @ \ Known(w, D)]

\* The decision handler of useFeed.
Notify(w, D, of) ==
  Record([w EXCEPT
            !.notified = [r \in Requests |-> IF r \in D THEN Append(w.notified[r], of[r])
                                             ELSE w.notified[r]],
            !.questions = @ \ {r \in D : of[r].verdict = "answer" \/ of[r].source = "timeout"}],
         D)

\* Plausible error: a late decision is announced as well.
SendDecisionsLate(w, of) ==
  Notify(Respond(w, DOMAIN of \cap w.pending, of), DOMAIN of, of)

\* Decisions of several requests; a request that is not pending is left alone.
SendDecisions(w, of) ==
  LET D == DOMAIN of \cap w.pending IN Notify(Respond(w, D, of), D, of)

SendDecision(w, r, d) == SendDecisions(w, [q \in {r} |-> d])

-----------------------------------------------------------------------------
(* A request arrives.                                                       *)

\* Plausible error: every event forgets which requests are open.
RunForgets(w, r) ==
  IF kind[r] = "end" THEN [w EXCEPT !.runOpen = FALSE]
  ELSE [w EXCEPT !.runOpen = TRUE, !.parent = [q \in Requests |-> "none"],
                 !.rolled = IF w.runOpen /\ kind[r] # "prompt" THEN @
                            ELSE @ \cup (w.pending \ {r})]

\* A prompt begins a run, and any other event does when none is open; the end of
\* a session closes it.  A run that begins forgets which requests are open.
RunFor(w, r) ==
  IF kind[r] = "end" THEN [w EXCEPT !.runOpen = FALSE]
  ELSE IF w.runOpen /\ kind[r] # "prompt" THEN w
  ELSE [w EXCEPT !.runOpen = TRUE, !.parent = [q \in Requests |-> "none"],
                 !.rolled = @ \cup (w.pending \ {r})]

\* The events of a request; the last one made is the one its decision belongs to.
\* That of a stop may be the agent's last message.
Mapped(w, r, last) ==
  [RunFor(w, r) EXCEPT !.parent[r] = IF r \in ExpectsDecision THEN last ELSE "none"]

\* Plausible error: a rule keeps the question from being asked, too.
PromptedUnlessRule(w, r) ==
  CASE rule # "none" -> w
    [] kind[r] = "permission" -> [w EXCEPT !.permissions = @ \cup {r}]
    [] kind[r] = "question" -> [w EXCEPT !.questions = @ \cup {r}]
    [] OTHER -> w

\* handleEvent of the controller: the prompt, where a rule does not decide.
Prompted(w, r) ==
  CASE kind[r] = "permission" /\ rule = "none" -> [w EXCEPT !.permissions = @ \cup {r}]
    [] kind[r] = "question" -> [w EXCEPT !.questions = @ \cup {r}]
    [] OTHER -> w

IsPrompted(r) == kind[r] = "question" \/ (kind[r] = "permission" /\ rule = "none")

\* ... and its decision.
ByRule(w, r) ==
  IF kind[r] \notin {"permission", "tool"} \/ IsPrompted(r) THEN w
  ELSE SendDecision(w, r, Decision("rule", IF rule = "deny" THEN "deny" ELSE "allow"))

Admitted(w, r) ==
  [w EXCEPT !.socket[r] = "waiting", !.pending = @ \cup {r},
            !.order[r] = Cardinality({q \in Requests : w.socket[q] # "none"}),
            !.timers = IF r \in Untimed THEN @ ELSE @ \cup {r}]

Arrive(r) ==
  /\ server = "running" /\ world.socket[r] = "none"
  /\ \E last \in IF kind[r] = "stop" THEN {"request", "other"} ELSE {"request"} :
       world' = ByRule(Mapped(Prompted(Admitted(world, r), r), r, last), r)
  /\ relays' = IF IsPrompted(r) THEN relays \cup {r} ELSE relays
  /\ UNCHANGED <<kind, server, rule, inbox, decided>>

-----------------------------------------------------------------------------
(* Those who answer.                                                        *)

TimerFires(r) ==
  /\ r \in world.timers
  /\ world' = SendDecision(world, r, TimedOut)
  /\ UNCHANGED <<kind, server, rule, relays, inbox, decided>>

\* The oldest prompt.
First(prompts) == {r \in prompts : \A q \in prompts : world.order[r] <= world.order[q]}

\* The dialog shows the first permission request; "always" adds a rule.
UserDecides ==
  /\ server = "running"
  /\ \E r \in First(world.permissions), verdict \in {"allow", "deny"}, always \in BOOLEAN :
       /\ world' = [SendDecision(world, r, Decision("user", verdict))
                      EXCEPT !.permissions = @ \ {r}]
       /\ rule' = IF ~always \/ rule = "deny" THEN rule
                  ELSE IF verdict = "deny" THEN "deny" ELSE "approve"
  /\ UNCHANGED <<kind, server, relays, inbox, decided>>

UserAnswers ==
  /\ server = "running"
  /\ \E r \in First(world.questions) :
       world' = [SendDecision(world, r, Decision("user", "answer")) EXCEPT !.questions = @ \ {r}]
  /\ UNCHANGED <<kind, server, rule, relays, inbox, decided>>

\* The relay ends with a verdict or without one.
RelayReturns(r) ==
  /\ r \in relays /\ server # "exited"
  /\ relays' = relays \ {r}
  /\ \/ world' = world
     \/ \E verdict \in VerdictsFor(r) :
          world' = SendDecision(world, r, Decision("user", verdict))
  /\ UNCHANGED <<kind, server, rule, inbox, decided>>

\* The dashboard knows requests from their feed events.  A decision replaces one
\* of the same request that is not consumed.
DashboardDecides(r) ==
  /\ world.socket[r] # "none" /\ decided < MaxDecisions
  /\ decided' = decided + 1
  /\ \E verdict \in VerdictsFor(r) :
       inbox' = [q \in DOMAIN inbox \cup {r} |-> IF q = r THEN verdict ELSE inbox[q]]
  /\ UNCHANGED <<kind, server, world, rule, relays>>

\* applyPending: every row is applied and consumed.
PollInbox ==
  /\ server = "running" /\ DOMAIN inbox # {}
  /\ world' = SendDecisions(world, [r \in DOMAIN inbox |-> Decision("user", inbox[r])])
  /\ inbox' = <<>>
  /\ UNCHANGED <<kind, server, rule, relays, decided>>

-----------------------------------------------------------------------------
(* The forwarder, and the end of the session process.                       *)

ForwarderReads(r) ==
  /\ world.socket[r] = "answered"
  /\ world' = [world EXCEPT !.socket[r] = "done"]
  /\ UNCHANGED <<kind, server, rule, relays, inbox, decided>>

\* Its own timeout.
ForwarderGivesUp(r) ==
  /\ world.socket[r] = "waiting" /\ r \notin Patient
  /\ world' = [world EXCEPT !.socket[r] = "gone"]
  /\ UNCHANGED <<kind, server, rule, relays, inbox, decided>>

\* Claude ends and takes its hooks along.
ForwarderIsKilled(r) ==
  /\ world.socket[r] = "waiting"
  /\ world' = [world EXCEPT !.socket[r] = "gone"]
  /\ UNCHANGED <<kind, server, rule, relays, inbox, decided>>

\* Plausible error: the request of a socket that closed is dropped in silence.
OnCloseSilently(w, r) ==
  [w EXCEPT !.socket[r] = "done", !.pending = @ \ {r}, !.timers = @ \ {r}]

\* The request of a socket that closed is answered by nobody.
OnClose(w, r) ==
  LET closed == [w EXCEPT !.socket[r] = "done", !.pending = @ \ {r}, !.timers = @ \ {r}]
  IN  IF r \in w.pending /\ r \in ExpectsDecision
      THEN Notify(closed, {r}, [q \in {r} |-> TimedOut]) ELSE closed

SocketCloses(r) ==
  /\ world.socket[r] = "gone"
  /\ world' = OnClose(world, r)
  /\ UNCHANGED <<kind, server, rule, relays, inbox, decided>>

\* stop() forgets the requests; their forwarders wait until the process exits.
Stop ==
  /\ server = "running" /\ server' = "stopped"
  /\ world' = [world EXCEPT !.pending = {}, !.timers = {}]
  /\ UNCHANGED <<kind, rule, relays, inbox, decided>>

Exit ==
  /\ server = "stopped" /\ server' = "exited"
  /\ world' = [world EXCEPT !.socket = [r \in Requests |->
                 IF world.socket[r] = "waiting" THEN "done" ELSE world.socket[r]]]
  /\ UNCHANGED <<kind, rule, relays, inbox, decided>>

Next ==
  \/ \E r \in Requests :
       \/ Arrive(r) \/ TimerFires(r) \/ ForwarderReads(r) \/ ForwarderGivesUp(r)
       \/ ForwarderIsKilled(r) \/ SocketCloses(r)
  \/ \E r \in Asked : RelayReturns(r) \/ DashboardDecides(r)
  \/ UserDecides \/ UserAnswers \/ PollInbox \/ Stop \/ Exit

Spec == Init /\ [][Next]_vars

-----------------------------------------------------------------------------
(* Properties.                                                              *)

Prompts == world.permissions \cup world.questions

\* Of all the answers that race, one is announced, and it is the one that was
\* written to the hook (server.ts:406, :273 and
\* :302).
OneAnswer ==
  \A r \in Requests :
    /\ Len(world.notified[r]) <= 1
    /\ world.reply[r] # "none" =>
         world.notified[r] # <<>> /\ world.notified[r][1].verdict = world.reply[r]

\* A hook that waits for a person has a prompt in the terminal: there is somebody
\* who can end its wait.  One that a rule decides does not wait at all
\* (runtimeController.ts:84, useFeed.ts:396).
WaitingIsPrompted ==
  \A r \in world.pending \cap Patient : r \in Prompts

\* A prompt is for a request that still waits (server.ts:306).  It need not be:
\* once a run has begun the decision of an older request is not recognised, and
\* its prompt stays.
PromptIsWaiting ==
  server = "running" => Prompts \subseteq world.pending

\* It is for every request that saw no run begin, and for every question.
TimelyPromptIsWaiting ==
  server = "running" =>
    \A r \in Prompts : r \in world.pending \/ (kind[r] = "permission" /\ r \in world.rolled)

\* The feed has exactly one decision for each permission request that was decided
\* and saw no run begin (decisionCorrelation.ts:48, decisionProjection.ts:185).
DecisionIsRecorded ==
  \A r \in Requests \ world.rolled :
    kind[r] = "permission" =>
      world.recorded[r] = Len(world.notified[r])
=============================================================================
