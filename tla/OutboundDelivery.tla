-------------------------- MODULE OutboundDelivery --------------------------
(***************************************************************************)
(* Replies and run events on their way out: OutboundDispatcher.dispatch,   *)
(* the durable Outbox, the drain loop that retries it, and the daemon that *)
(* stops, crashes and starts again.  A send to a channel is two steps, the *)
(* channel taking the message and the daemon learning of it, so an error   *)
(* may come back for a message the channel has taken.                      *)
(*                                                                         *)
(* Clock times are abstracted to whether a row is due; drains that overlap *)
(* are told apart by a member of Ticks.                                    *)
(***************************************************************************)
EXTENDS Integers, FiniteSets

CONSTANTS
  Msgs,           \* outbound messages
  Ticks,          \* drains that may run at the same time
  Honoured,       \* messages whose channel honours the idempotency key
  MaxAttempts,    \* maxAttempts of the dispatcher
  BatchSize,      \* drainBatchSize
  MaxCrashes      \* bound: times the daemon goes down

ASSUME MaxAttemptsAssumption == MaxAttempts \in Nat \ {0}
ASSUME BatchAssumption == BatchSize \in Nat \ {0}
ASSUME HonouredAssumption == Honoured \subseteq Msgs
ASSUME CrashBound == MaxCrashes \in Nat

VARIABLES
  daemon,    \* "up" | "stopping" | "down"
  first,     \* message -> its dispatch: "new" | "sending" | "taken" | "sent"
             \*   | "queued" | "lost"
  outbox,    \* rows of channel_outbox: at most one per message
  drains,    \* tick -> the batch it read and has still to try
  trying,    \* tick -> the row it is sending, if any
  draining,  \* the dispatcher's re-entry flag
  visible,   \* history: how often a message shows on its channel
  unseen,    \* history: sends a channel took whose outcome was not recorded
  failed,    \* history: failed sends of a message that the daemon has seen
  dropped,   \* history: messages given up after maxAttempts
  crashes

vars == <<daemon, first, outbox, drains, trying, draining,
          visible, unseen, failed, dropped, crashes>>
history == <<visible, unseen, failed, dropped>>

Idle == [rows |-> {}, busy |-> FALSE]
Nothing == [rows |-> {}, taken |-> FALSE]   \* rows: none or the one being sent
Row(m) == [msg |-> m, attempt |-> 0, due |-> FALSE]

Plus(f, m) == [f EXCEPT ![m] = @ + 1]

\* The channel takes a message: an honoured key is shown once.
Takes(m) ==
  visible' = IF m \in Honoured /\ visible[m] > 0 THEN visible ELSE Plus(visible, m)

-----------------------------------------------------------------------------
(* OutboundDispatcher.dispatch *)

Dispatch(m) ==
  /\ daemon = "up"
  /\ first[m] = "new"
  /\ first' = [first EXCEPT ![m] = "sending"]
  /\ UNCHANGED <<daemon, outbox, drains, trying, draining, history, crashes>>

FirstTaken(m) ==
  /\ first[m] = "sending"
  /\ first' = [first EXCEPT ![m] = "taken"]
  /\ Takes(m)
  /\ UNCHANGED <<daemon, outbox, drains, trying, draining, unseen, failed, dropped, crashes>>

FirstSucceeds(m) ==
  /\ first[m] = "taken"
  /\ first' = [first EXCEPT ![m] = "sent"]
  /\ UNCHANGED <<daemon, outbox, drains, trying, draining, history, crashes>>

Enqueue(m) == outbox' = outbox \cup {Row(m)}

FirstFails(m) ==
  /\ first[m] \in {"sending", "taken"}
  /\ first' = [first EXCEPT ![m] = "queued"]
  /\ Enqueue(m)
  /\ failed' = Plus(failed, m)
  /\ unseen' = IF first[m] = "taken" THEN Plus(unseen, m) ELSE unseen
  /\ UNCHANGED <<daemon, drains, trying, draining, visible, dropped, crashes>>

-----------------------------------------------------------------------------
(* The drain loop *)

BackoffElapses(row) ==
  /\ row \in outbox /\ ~row.due
  /\ outbox' = (outbox \ {row}) \cup {[row EXCEPT !.due = TRUE]}
  /\ UNCHANGED <<daemon, first, drains, trying, draining, history, crashes>>

\* Plausible error: a row that has failed before is not read again.
DueFirstRetryOnly == {row \in outbox : row.due /\ row.attempt = 0}
Due == {row \in outbox : row.due}

\* Plausible error: no re-entry guard.
MayDrainAlways == daemon = "up"
MayDrain == daemon = "up" /\ ~draining

\* A tick reads the due rows, at most a batch of them; which ones, and in what
\* order they are tried, depends on times that are not modelled.
DrainStarts(t) ==
  /\ ~drains[t].busy
  /\ MayDrain
  /\ draining' = TRUE
  /\ \E batch \in SUBSET Due :
       /\ batch # {}
       /\ Cardinality(batch) <= BatchSize
       /\ Cardinality(batch) = BatchSize \/ batch = Due
       /\ drains' = [drains EXCEPT ![t] = [rows |-> batch, busy |-> TRUE]]
  /\ UNCHANGED <<daemon, first, outbox, trying, history, crashes>>

AttemptStarts(t, row) ==
  /\ row \in drains[t].rows
  /\ trying[t].rows = {}
  /\ drains' = [drains EXCEPT ![t].rows = @ \ {row}]
  /\ trying' = [trying EXCEPT ![t] = [rows |-> {row}, taken |-> FALSE]]
  /\ UNCHANGED <<daemon, first, outbox, draining, history, crashes>>

AttemptTaken(t, row) ==
  /\ row \in trying[t].rows /\ ~trying[t].taken
  /\ trying' = [trying EXCEPT ![t].taken = TRUE]
  /\ Takes(row.msg)
  /\ UNCHANGED <<daemon, first, outbox, drains, draining, unseen, failed, dropped, crashes>>

\* Rows are addressed by id, and a message has one row.
Deleted(row) == {r \in outbox : r.msg # row.msg}

Delivered(row) == Deleted(row)

AttemptSucceeds(t, row) ==
  /\ row \in trying[t].rows /\ trying[t].taken
  /\ trying' = [trying EXCEPT ![t] = Nothing]
  /\ outbox' = Delivered(row)
  /\ UNCHANGED <<daemon, first, drains, draining, history, crashes>>

IsLast(row) == row.attempt + 1 >= MaxAttempts

\* Plausible error: the attempt is not counted.
RecordFailureUncounted(row) == Deleted(row) \cup {[row EXCEPT !.due = FALSE]}
RecordFailure(row) ==
  Deleted(row) \cup {[row EXCEPT !.attempt = @ + 1, !.due = FALSE]}

AttemptFails(t, row) ==
  /\ row \in trying[t].rows
  /\ trying' = [trying EXCEPT ![t] = Nothing]
  /\ outbox' = IF IsLast(row) THEN Deleted(row) ELSE RecordFailure(row)
  /\ dropped' = IF IsLast(row) THEN dropped \cup {row.msg} ELSE dropped
  /\ failed' = Plus(failed, row.msg)
  /\ unseen' = IF trying[t].taken THEN Plus(unseen, row.msg) ELSE unseen
  /\ UNCHANGED <<daemon, first, drains, draining, visible, crashes>>

DrainEnds(t) ==
  /\ drains[t].busy /\ drains[t].rows = {} /\ trying[t].rows = {}
  /\ drains' = [drains EXCEPT ![t] = Idle]
  /\ draining' = FALSE
  /\ UNCHANGED <<daemon, first, outbox, trying, history, crashes>>

-----------------------------------------------------------------------------
(* The daemon *)

\* No new drain; what is under way goes on, over the rest of its batch too.
Stop ==
  /\ daemon = "up"
  /\ crashes < MaxCrashes
  /\ daemon' = "stopping"
  /\ UNCHANGED <<first, outbox, drains, trying, draining, history, crashes>>

InFlight(m) == first[m] \in {"sending", "taken"}

\* The state database closes and the process ends, or it crashes outright.
GoesDown ==
  /\ daemon \in {"up", "stopping"}
  /\ crashes < MaxCrashes
  /\ crashes' = crashes + 1
  /\ daemon' = "down"
  /\ first' = [m \in Msgs |-> IF InFlight(m) THEN "lost" ELSE first[m]]
  /\ unseen' = [m \in Msgs |->
                  IF \E t \in Ticks : trying[t].taken /\ \E row \in trying[t].rows : row.msg = m
                  THEN unseen[m] + 1 ELSE unseen[m]]
  /\ drains' = [t \in Ticks |-> Idle]
  /\ trying' = [t \in Ticks |-> Nothing]
  /\ draining' = FALSE
  /\ UNCHANGED <<outbox, visible, failed, dropped>>

Start ==
  /\ daemon = "down"
  /\ daemon' = "up"
  /\ UNCHANGED <<first, outbox, drains, trying, draining, history, crashes>>

-----------------------------------------------------------------------------
Init ==
  /\ daemon = "up"
  /\ first = [m \in Msgs |-> "new"]
  /\ outbox = {}
  /\ drains = [t \in Ticks |-> Idle]
  /\ trying = [t \in Ticks |-> Nothing]
  /\ draining = FALSE
  /\ visible = [m \in Msgs |-> 0]
  /\ unseen = [m \in Msgs |-> 0]
  /\ failed = [m \in Msgs |-> 0]
  /\ dropped = {}
  /\ crashes = 0

DrainStep(t) ==
  \/ DrainStarts(t)
  \/ DrainEnds(t)
  \/ \E row \in drains[t].rows : AttemptStarts(t, row)
  \/ \E row \in trying[t].rows : AttemptTaken(t, row)
  \/ \E row \in trying[t].rows : AttemptSucceeds(t, row)
  \/ \E row \in trying[t].rows : AttemptFails(t, row)

Next ==
  \/ \E m \in Msgs : Dispatch(m) \/ FirstTaken(m) \/ FirstSucceeds(m) \/ FirstFails(m)
  \/ \E row \in outbox : BackoffElapses(row)
  \/ \E t \in Ticks : DrainStep(t)
  \/ Stop \/ GoesDown \/ Start

Spec == Init /\ [][Next]_vars

\* Timers fire, the drain loop runs and its sends return, with whatever
\* outcome; a daemon that is stopping goes down and is started again.
FairSpec ==
  /\ Spec
  /\ \A m \in Msgs : WF_vars(\E row \in outbox : row.msg = m /\ BackoffElapses(row))
  /\ WF_vars(\E t \in Ticks : DrainStep(t))
  /\ WF_vars(GoesDown /\ daemon = "stopping")
  /\ WF_vars(Start)
-----------------------------------------------------------------------------
(* Properties *)

RowType == [msg : Msgs, attempt : Nat, due : BOOLEAN]

\* The shape of the state; a message has one row, and no row outlives its
\* last attempt.
TypeOK ==
  /\ daemon \in {"up", "stopping", "down"}
  /\ first \in [Msgs -> {"new", "sending", "taken", "sent", "queued", "lost"}]
  /\ outbox \in SUBSET RowType
  /\ \A r, s \in outbox : r.msg = s.msg => r = s
  /\ \A r \in outbox : r.attempt < MaxAttempts
  /\ drains \in [Ticks -> [rows : SUBSET RowType, busy : BOOLEAN]]
  /\ trying \in [Ticks -> [rows : SUBSET RowType, taken : BOOLEAN]]
  /\ draining \in BOOLEAN
  /\ visible \in [Msgs -> Nat] /\ unseen \in [Msgs -> Nat] /\ failed \in [Msgs -> Nat]
  /\ dropped \in SUBSET Msgs
  /\ crashes \in Nat

\* The rows a drain has read but not yet tried, and the row it is trying, are
\* still in the outbox as they were read: nothing else takes or retries a row
\* between the read and the send.
SnapshotIsFresh ==
  \A t \in Ticks : drains[t].rows \cup trying[t].rows \subseteq outbox

\* A message that was reported as queued is never forgotten, across crashes
\* and restarts: it is in the outbox, or the channel shows it, or it was given up.
QueuedIsNeverForgotten ==
  \A m \in Msgs : first[m] = "queued" =>
    (\E row \in outbox : row.msg = m) \/ visible[m] > 0 \/ m \in dropped

\* A message is given up only after the first send and maxAttempts retries of
\* it were all seen to fail.
GivenUpAfterAllAttempts == \A m \in dropped : failed[m] = MaxAttempts + 1

\* A message shows more than once only because a channel took it and the
\* daemon did not get to record that: an error instead of the answer, or a
\* crash before the row was deleted.  Overlapping drains never cause it.
DuplicateHasCause == \A m \in Msgs : visible[m] <= 1 + unseen[m]

\* What is queued ends delivered or given up, if crashes end and sends return.
QueuedEnds == \A m \in Msgs : first[m] = "queued" ~> \A row \in outbox : row.msg # m

\* The abstract specification: in hand, owed, confirmed, given up or lost.
HasRow(m) == \E row \in outbox : row.msg = m
StatusOf(m) ==
  IF first[m] = "new" THEN "none"
  ELSE IF InFlight(m) THEN "inhand"
  ELSE IF first[m] = "lost" THEN "lost"
  ELSE IF HasRow(m) THEN "owed"
  ELSE IF m \in dropped THEN "givenup" ELSE "confirmed"

Promise == INSTANCE AtLeastOnce WITH
  MaxFailures <- MaxAttempts + 1,
  status <- [m \in Msgs |-> StatusOf(m)],
  shown <- visible,
  failures <- failed

\* The dispatcher, its outbox and its drain loop implement AtLeastOnce.
ImplementsAtLeastOnce == Promise!ASpec

\* "An idempotencyKey that the adapter must honour to avoid double-delivery if
\* the first attempt partially succeeded" (outbox.ts:9-11): no message shows twice.
ShownOnce == \A m \in Msgs : visible[m] <= 1
=============================================================================
