----------------------------- MODULE FeedOutbox -----------------------------
(***************************************************************************)
(* The way of a feed event to the dashboard.  A session process maps what  *)
(* its harness reports to feed events, numbers them, stores them in the    *)
(* session database and hands them to the feed publisher, which keeps them *)
(* in an outbox database shared by all processes of the host.  The runtime *)
(* daemon sends the rows of the outbox over its socket, marks them         *)
(* attempted, and marks them acknowledged when the dashboard says so.      *)
(* Sources: core/feed/internals/runLifecycle.ts, core/feed/ingest.ts,      *)
(* app/providers/useFeed.ts, app/dashboard/pairedFeedPublisher.ts and      *)
(* dashboardFeedPublisher.ts.                                              *)
(*                                                                         *)
(* Times are abstract: a row whose next attempt lies in the future is not  *)
(* due.  Frames may overtake one another, and an acknowledgement arrives   *)
(* with the receipt or is lost with the connection.  One session, one      *)
(* pairing.                                                                *)
(***************************************************************************)
EXTENDS Integers, Sequences, FiniteSets

CONSTANTS
  BatchLimit,   \* rows read by one drain (100 in the code)
  MaxEvents,    \* bound: feed events
  MaxRestarts,  \* bound: ends of the session process
  MaxBreaks,    \* bound: lost connections, stops and crashes of the daemon
  MaxFaults     \* bound: failing database writes

ASSUME LimitAssumption == BatchLimit \in Nat \ {0} /\ MaxEvents \in Nat

VARIABLES
  hosted,     \* the session runs inside the daemon (exec), not in a terminal
  mapper,     \* [up, seq, run, open]: the feed mapper of the session process
  stored,     \* feed events in the session database
  outbox,     \* the rows by the number of their event, the order of delivery_seq
  daemon,     \* "up" | "closed" (stop() is under way) | "down"
  attached,   \* the publisher of the daemon has a transport and a timer
  wire,       \* rows sent over the connection and not yet received
  made,       \* ghost: events made so far; an event carries its number
  published,  \* ghost: events whose enqueue returned
  heard,      \* ghost: events the dashboard has received
  restarts, breaks, faults

ghosts == <<made, published, heard>>
bounds == <<restarts, breaks, faults>>
link == <<attached, wire>>
vars == <<hosted, mapper, stored, outbox, daemon, link, ghosts, bounds>>

-----------------------------------------------------------------------------
(* Mapping an event of the harness *)

\* "prompt" begins a run of its own, "work" needs some run, "end" closes it.
Causes == {"prompt", "work", "end"}

Closes(cause) == mapper.open /\ cause \in {"prompt", "end"}
Opens(cause) == cause = "prompt" \/ (cause = "work" /\ ~mapper.open)

Kinds(cause) ==
  (IF Closes(cause) THEN <<"run.end">> ELSE <<>>)
    \o (IF Opens(cause) THEN <<"run.start">> ELSE <<>>) \o <<"other">>

NextRun(cause) == IF Opens(cause) THEN mapper.run + 1 ELSE mapper.run

\* makeEvent: the id of an event is its run and its sequence number.
Mapped(cause) ==
  {[no |-> made + i,
    kind |-> Kinds(cause)[i],
    seq |-> mapper.seq + i,
    run |-> IF Kinds(cause)[i] = "run.end" THEN mapper.run ELSE NextRun(cause)] :
     i \in DOMAIN Kinds(cause)}

Id(e) == <<e.run, e.seq>>

MapperAfter(cause) ==
  [up |-> TRUE, seq |-> mapper.seq + Len(Kinds(cause)), run |-> NextRun(cause),
   open |-> (mapper.open /\ ~Closes(cause)) \/ Opens(cause)]

\* INSERT OR IGNORE; the sequence number is unique in the table.
Stored(events) ==
  stored \cup {e \in events : \A s \in stored : s.seq # e.seq}

-----------------------------------------------------------------------------
(* The outbox *)

NewRow(e) == [event |-> e, tried |-> FALSE, due |-> TRUE, acked |-> FALSE]

With(events) ==
  [d \in DOMAIN outbox \cup {e.no : e \in events} |->
     IF d \in DOMAIN outbox THEN outbox[d]
     ELSE NewRow(CHOOSE e \in events : e.no = d)]

IsKnown(e) == \E d \in DOMAIN outbox : Id(outbox[d].event) = Id(e)

\* INSERT OR IGNORE: an event with a known id is dropped.
Enqueued(events) == With({e \in events : ~IsKnown(e)})

\* Plausible error: a row that was sent once is not read again.
EligibleOnce(rows, force) ==
  {d \in DOMAIN rows : ~rows[d].acked /\ ~rows[d].tried}
Eligible(rows, force) ==
  {d \in DOMAIN rows : ~rows[d].acked /\ (force \/ rows[d].due)}

\* Plausible error: the newest rows first.
BatchNewest(rows, force) ==
  {d \in Eligible(rows, force) :
     Cardinality({c \in Eligible(rows, force) : c > d}) < BatchLimit}
Batch(rows, force) ==
  {d \in Eligible(rows, force) :
     Cardinality({c \in Eligible(rows, force) : c < d}) < BatchLimit}

Attempted(rows, batch) ==
  [d \in DOMAIN rows |->
     IF d \in batch THEN [rows[d] EXCEPT !.tried = TRUE, !.due = FALSE] ELSE rows[d]]

\* drain(): every row of the batch is sent, then marked attempted.
Drain(rows, force) ==
  /\ wire' = wire \cup Batch(rows, force)
  /\ outbox' = Attempted(rows, Batch(rows, force))

\* publish(): enqueue in one transaction, then drain if there is a transport;
\* a failure is reported and the events are dropped.  The publisher of a
\* terminal has no transport, that of a stopped daemon has no database.
Publish(events, enqueues) ==
  IF enqueues /\ ~(hosted /\ daemon = "closed")
  THEN /\ published' = published \cup events
       /\ IF hosted /\ attached THEN Drain(Enqueued(events), FALSE)
          ELSE outbox' = Enqueued(events) /\ UNCHANGED wire
  ELSE UNCHANGED <<published, outbox, wire>>

-----------------------------------------------------------------------------
(* The session process *)

Maps(cause) ==
  /\ mapper.up
  /\ made + Len(Kinds(cause)) <= MaxEvents
  /\ made' = made + Len(Kinds(cause))

\* ingestRuntimeEvent, then publish; each database write may fail.
Ingest(cause, persists, enqueues) ==
  /\ Maps(cause)
  /\ (persists /\ enqueues) \/ faults < MaxFaults
  /\ faults' = IF persists /\ enqueues THEN faults ELSE faults + 1
  /\ mapper' = MapperAfter(cause)
  /\ stored' = IF persists THEN Stored(Mapped(cause)) ELSE stored
  /\ Publish(Mapped(cause), enqueues)
  /\ UNCHANGED <<hosted, daemon, attached, heard, restarts, breaks>>

\* emitNotification: what the terminal itself has to say is mapped and
\* published like an event of the harness, and not stored.
Notify ==
  /\ ~hosted
  /\ Maps("work")
  /\ mapper' = MapperAfter("work")
  /\ Publish(Mapped("work"), TRUE)
  /\ UNCHANGED <<hosted, stored, daemon, attached, heard, bounds>>

\* The process is killed between the two databases.
KilledBeforePublish(cause) ==
  /\ ~hosted
  /\ restarts < MaxRestarts
  /\ restarts' = restarts + 1
  /\ Maps(cause)
  /\ stored' = Stored(Mapped(cause))
  /\ mapper' = [mapper EXCEPT !.up = FALSE]
  /\ UNCHANGED <<hosted, outbox, daemon, link, published, heard, breaks, faults>>

\* The session is left or killed; the daemon keeps a hosted one until it ends.
SessionEnds ==
  /\ mapper.up
  /\ restarts < MaxRestarts
  /\ restarts' = restarts + 1
  /\ mapper' = [mapper EXCEPT !.up = FALSE]
  /\ UNCHANGED <<hosted, stored, outbox, daemon, link, ghosts, breaks, faults>>

Largest(S) == CHOOSE x \in S : \A y \in S : y <= x

\* Plausible error: the restored mapper counts its events from the start.
RestoredSeqFromZero == 0
RestoredSeq == Largest({e.seq : e \in stored} \cup {0})

LastOf(kind) == Largest({e.seq : e \in {s \in stored : s.kind = kind}} \cup {0})

\* restoreFrom: the counters resume from what is stored, and so does a run
\* whose end is not.
SessionStarts ==
  /\ ~mapper.up
  /\ hosted => daemon = "up"
  /\ mapper' = [up |-> TRUE, seq |-> RestoredSeq,
                run |-> Largest({e.run : e \in stored} \cup {0}),
                open |-> LastOf("run.start") > LastOf("run.end")]
  /\ UNCHANGED <<hosted, stored, outbox, daemon, link, ghosts, bounds>>

-----------------------------------------------------------------------------
(* The daemon *)

\* attachTransport: everything unacknowledged is sent, due or not, a batch of it.
Attach ==
  /\ daemon = "up" /\ ~attached
  /\ attached' = TRUE
  /\ Drain(outbox, TRUE)
  /\ UNCHANGED <<hosted, mapper, stored, daemon, ghosts, bounds>>

Tick ==
  /\ attached
  /\ Batch(outbox, FALSE) # {}
  /\ Drain(outbox, FALSE)
  /\ UNCHANGED <<hosted, mapper, stored, daemon, attached, ghosts, bounds>>

\* Who is not attached does not look at the times.
BackoffElapses(d) ==
  /\ attached /\ ~outbox[d].due /\ ~outbox[d].acked
  /\ outbox' = [outbox EXCEPT ![d].due = TRUE]
  /\ UNCHANGED <<hosted, mapper, stored, daemon, link, ghosts, bounds>>

MarkAcked(d) == [outbox EXCEPT ![d].acked = TRUE]

\* The dashboard receives a frame, and handleAck its acknowledgement.
HandleAck(d) ==
  /\ d \in wire
  /\ wire' = wire \ {d}
  /\ heard' = heard \cup {outbox[d].event}
  /\ outbox' = MarkAcked(d)
  /\ UNCHANGED <<hosted, mapper, stored, daemon, attached, made, published, bounds>>

\* A part of what is on the connection has arrived; the acknowledgements of
\* that, and the rest, are lost.
Detached(sent) ==
  /\ attached' = FALSE
  /\ wire' = {}
  /\ \E got \in SUBSET sent : heard' = heard \cup {outbox[d].event : d \in got}
  /\ breaks < MaxBreaks
  /\ breaks' = breaks + 1

ConnectionBreaks ==
  /\ attached
  /\ Detached(wire)
  /\ UNCHANGED <<hosted, mapper, stored, outbox, daemon, made, published, restarts, faults>>

\* stop() closes the publisher first; hosted sessions are ended after that.
Stop ==
  /\ daemon = "up"
  /\ daemon' = "closed"
  /\ Detached(wire)
  /\ UNCHANGED <<hosted, mapper, stored, outbox, made, published, restarts, faults>>

HostedEnded == IF hosted THEN [mapper EXCEPT !.up = FALSE] ELSE mapper

Exit ==
  /\ daemon = "closed"
  /\ daemon' = "down"
  /\ mapper' = HostedEnded
  /\ UNCHANGED <<hosted, stored, outbox, link, ghosts, bounds>>

\* The daemon is killed in the middle of a drain: one row more was sent than
\* is marked.
KilledDraining(force, last) ==
  /\ attached
  /\ last \in Batch(outbox, force)
  /\ LET sent == {d \in Batch(outbox, force) : d <= last} IN
     /\ Detached(wire \cup sent)
     /\ outbox' = Attempted(outbox, sent \ {last})
  /\ daemon' = "down"
  /\ mapper' = HostedEnded
  /\ UNCHANGED <<hosted, stored, made, published, restarts, faults>>

DaemonStarts ==
  /\ daemon = "down"
  /\ daemon' = "up"
  /\ UNCHANGED <<hosted, mapper, stored, outbox, link, ghosts, bounds>>

-----------------------------------------------------------------------------
Init ==
  /\ hosted \in BOOLEAN
  /\ mapper = [up |-> TRUE, seq |-> 0, run |-> 0, open |-> FALSE]
  /\ stored = {}
  /\ outbox = <<>>
  /\ daemon = "up"
  /\ attached = FALSE
  /\ wire = {}
  /\ made = 0
  /\ published = {}
  /\ heard = {}
  /\ restarts = 0 /\ breaks = 0 /\ faults = 0

Next ==
  \/ \E cause \in Causes, persists, enqueues \in BOOLEAN : Ingest(cause, persists, enqueues)
  \/ \E cause \in Causes : KilledBeforePublish(cause)
  \/ Notify \/ SessionEnds \/ SessionStarts
  \/ Attach \/ Tick \/ ConnectionBreaks \/ Stop \/ Exit \/ DaemonStarts
  \/ \E d \in DOMAIN outbox : BackoffElapses(d) \/ HandleAck(d)
  \/ \E force \in BOOLEAN, d \in DOMAIN outbox : KilledDraining(force, d)

Spec == Init /\ [][Next]_vars

\* The daemon is restarted, reconnects and ticks; time passes; the dashboard
\* acknowledges what it receives, in whatever order.
LiveSpec ==
  /\ Spec
  /\ WF_vars(Attach) /\ WF_vars(Tick) /\ WF_vars(Exit) /\ WF_vars(DaemonStarts)
  /\ \A d \in 1..MaxEvents :
       /\ WF_vars(d \in DOMAIN outbox /\ BackoffElapses(d))
       /\ WF_vars(d \in DOMAIN outbox /\ HandleAck(d))

-----------------------------------------------------------------------------
(* Properties *)

EventType ==
  [no : 1..MaxEvents, kind : {"run.start", "run.end", "other"},
   seq : 1..MaxEvents, run : 0..MaxEvents]

\* The shape of the state; no two rows carry the same event id.
TypeOK ==
  /\ hosted \in BOOLEAN
  /\ mapper \in [up : BOOLEAN, seq : 0..MaxEvents, run : 0..MaxEvents, open : BOOLEAN]
  /\ stored \subseteq EventType /\ published \subseteq EventType /\ heard \subseteq EventType
  /\ DOMAIN outbox \subseteq 1..MaxEvents
  /\ outbox \in [DOMAIN outbox ->
                   [event : EventType, tried : BOOLEAN, due : BOOLEAN, acked : BOOLEAN]]
  /\ \A d \in DOMAIN outbox : outbox[d].event.no = d
  /\ \A c, d \in DOMAIN outbox : Id(outbox[c].event) = Id(outbox[d].event) => c = d
  /\ daemon \in {"up", "closed", "down"}
  /\ attached \in BOOLEAN
  /\ wire \subseteq DOMAIN outbox
  /\ made \in 0..MaxEvents

InOutbox(e) == \E d \in DOMAIN outbox : outbox[d].event = e

\* A published event that is not in the outbox was taken for another one of
\* its id, and that one is missing from the session database: numbering resumes
\* after every stored event (runLifecycle.ts:211-219), and nothing else is lost
\* between the two databases, across restarts, kills and failing writes.
LostOnlyToUnstored ==
  \A e \in published : InOutbox(e) \/
    \E f \in published \ stored : f # e /\ Id(f) = Id(e)

\* Rows are sent for the first time in the order they were queued, whatever
\* the batches, forced drains, kills and reconnects (dashboardFeedPublisher.ts:132).
FirstSendsInOrder ==
  \A c, d \in DOMAIN outbox : c < d /\ outbox[d].tried => outbox[c].tried

\* What is marked acknowledged has reached the dashboard and may be forgotten
\* (dashboardFeedPublisher.ts:144-148).
AckedWasHeard == \A d \in DOMAIN outbox : outbox[d].acked => outbox[d].event \in heard

\* A queued event is sent again until the dashboard has acknowledged it
\* (pairedFeedPublisher.ts:76-92), when connections stop breaking.
QueuedIsAcked ==
  \A d \in 1..MaxEvents : (d \in DOMAIN outbox) ~> (d \in DOMAIN outbox /\ outbox[d].acked)

\* "seq is session-global (not run-local), UNIQUE in the DB, and is the sole
\* ordering authority" (docs/plans/2026-02-23-journal-integrity-fixes.md:57).
SequenceIsGlobal == \A e, f \in published : e.seq = f.seq => e = f
=============================================================================
