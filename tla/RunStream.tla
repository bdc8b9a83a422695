----------------------------- MODULE RunStream -----------------------------
(***************************************************************************)
(* The stream of one remote run's events to the dashboard: the publisher    *)
(* of the run (remoteRunEventPublisher.ts) over its run-stream client       *)
(* (runStreamClient.ts).  Frames are numbered from 1 and wait in a queue     *)
(* until they are acknowledged; the server takes them strictly in order and  *)
(* answers each with an ack or with sequence_gap.  The server is external;   *)
(* its rules are those of the stand-in the repository's test runs against    *)
(* (runStreamClient.test.ts).                                               *)
(*                                                                         *)
(* A frame is its sequence number: payload and time stamp travel with it     *)
(* unread.  Heartbeats carry no state; the watchdog's terminate is one of    *)
(* the causes of LinkDrops.  Frames that reach a socket after close() or     *)
(* after an already terminated resume only trim a queue that nobody sends    *)
(* any more, so the link is taken as gone at once.                          *)
(***************************************************************************)
EXTENDS Integers, Sequences

CONSTANTS
  MaxQueueSize,  \* cap of the client's queue
  MaxEvents,     \* bound: events a run publishes
  MaxDrops,      \* bound: connections that are refused or break
  MaxInFlight    \* bound: frames under way in one direction

ASSUME RunStreamAssumption ==
  /\ MaxQueueSize \in Nat \ {0} /\ MaxEvents \in Nat
  /\ MaxDrops \in Nat /\ MaxInFlight \in Nat

VARIABLES
  mode,        \* the publisher: connecting, stream, legacy, closing, closed
  nextSeq,     \* number of the next frame
  queue,       \* numbers of the frames not acknowledged yet, oldest first
  ws,          \* the client's socket: none, connecting, open
  resumed,     \* resumeResolved: this socket has had its resume frame
  retry,       \* a reconnect timer is armed
  heard,       \* serverTerminated: whenTerminated() has resolved
  up,          \* frames under way to the server on the present connection
  down,        \* answers under way to the client
  late,        \* frames of broken connections the server may still read
  lastAcked,   \* the server's count
  terminated,  \* the server has ended the run
  terminals,   \* numbers of completion and error frames
  evicted,     \* frames the client dropped at its cap
  drops        \* connections refused or broken so far

client == <<mode, nextSeq, queue, ws, resumed, retry, heard, terminals, evicted>>
link == <<up, down, late>>
server == <<lastAcked, terminated>>
vars == <<client, link, server, drops>>

Frames == 1..MaxEvents
Answers == [type : {"resume", "ack", "gap", "close"}, seq : 0..(MaxEvents + 1), over : BOOLEAN]

Resume == [type |-> "resume", seq |-> lastAcked, over |-> terminated]
Ack(n) == [type |-> "ack", seq |-> n, over |-> FALSE]
Gap(n) == [type |-> "gap", seq |-> n, over |-> FALSE]
RunTerminated == [type |-> "close", seq |-> 0, over |-> TRUE]

TypeOK ==
  /\ mode \in {"connecting", "stream", "legacy", "closing", "closed"}
  /\ nextSeq \in 1..(MaxEvents + 1) /\ queue \in Seq(Frames)
  /\ ws \in {"none", "connecting", "open"}
  /\ resumed \in BOOLEAN /\ retry \in BOOLEAN /\ heard \in BOOLEAN
  /\ up \in Seq(Frames) /\ down \in Seq(Answers) /\ late \in Seq(Frames)
  /\ lastAcked \in 0..MaxEvents /\ terminated \in BOOLEAN
  /\ terminals \subseteq Frames /\ evicted \subseteq Frames
  /\ drops \in 0..MaxDrops
  /\ Len(queue) <= MaxQueueSize

\* Plausible error: the frame after the acknowledged ones goes as well.
TrimOneTooMany(q, n) == SelectSeq(q, LAMBDA s : s > n + 1)

\* The queue without its leading frames up to n.
TrimUpTo(q, n) ==
  LET k == CHOOSE j \in 0..Len(q) :
             /\ \A i \in 1..j : q[i] <= n
             /\ j < Len(q) => q[j + 1] > n
  IN  SubSeq(q, k + 1, Len(q))

\* Plausible error: an open socket is enough.
CanSendOnceOpen == ws = "open"

\* A frame goes out at once only on a socket that has been resumed.
CanSend == ws = "open" /\ resumed

Init ==
  /\ mode = "connecting" /\ nextSeq = 1 /\ queue = <<>>
  /\ ws = "connecting" /\ resumed = FALSE /\ retry = FALSE /\ heard = FALSE
  /\ up = <<>> /\ down = <<>> /\ late = <<>>
  /\ lastAcked = 0 /\ terminated \in BOOLEAN
  /\ terminals = {} /\ evicted = {} /\ drops = 0

-----------------------------------------------------------------------------
(* The publisher.                                                           *)

\* The queue is at its cap: its oldest frame makes room.
Full == Len(queue) >= MaxQueueSize

\* sendEvent.  The run publishes while it has not been closed; a run may
\* publish after a terminal frame (an error that follows its completion).
Publish ==
  /\ mode = "stream" /\ nextSeq <= MaxEvents
  /\ CanSend => Len(up) < MaxInFlight
  /\ nextSeq' = nextSeq + 1
  /\ terminals' \in {terminals, terminals \cup {nextSeq}}
  /\ queue' = Append(IF Full THEN Tail(queue) ELSE queue, nextSeq)
  /\ evicted' = IF Full THEN evicted \cup {Head(queue)} ELSE evicted
  /\ up' = IF CanSend THEN Append(up, nextSeq) ELSE up
  /\ UNCHANGED <<mode, ws, resumed, retry, heard, down, late, server, drops>>

\* The connection goes away; the server may yet read a part of what was sent.
LoseLink ==
  /\ ws' = "none" /\ up' = <<>> /\ down' = <<>>
  /\ \E k \in 0..Len(up) : late' = late \o SubSeq(up, 1, k)

\* close() of the client: no timer, no socket, and every waiter is released.
CloseClient(next) ==
  /\ mode' = next /\ retry' = FALSE /\ heard' = TRUE
  /\ LoseLink
  /\ UNCHANGED <<nextSeq, queue, resumed, terminals, evicted, server, drops>>

\* No resume frame within runStreamConnectTimeoutMs.
ConnectTimesOut == mode = "connecting" /\ CloseClient("legacy")

\* The run is over: wait for the termination, or for ten seconds ...
StartClosing ==
  /\ mode = "stream" /\ mode' = "closing"
  /\ UNCHANGED <<nextSeq, queue, ws, resumed, retry, heard, terminals, evicted>>
  /\ UNCHANGED <<link, server, drops>>

\* ... and close.
FinishClosing == mode = "closing" /\ CloseClient("closed")

-----------------------------------------------------------------------------
(* The client's socket.                                                     *)

\* The socket opens; the server sends its resume frame at once, and closes
\* the connection when the run has ended.
Accept ==
  /\ ws = "connecting"
  /\ ws' = "open"
  /\ down' = IF terminated THEN <<Resume, RunTerminated>> ELSE <<Resume>>
  /\ UNCHANGED <<mode, nextSeq, queue, resumed, retry, heard, terminals, evicted>>
  /\ UNCHANGED <<up, late, server, drops>>

\* The close event: the end of the run, the failure of the first connect, or
\* the timer of the next attempt is armed.
OnClose(final) ==
  /\ LoseLink
  /\ heard' = (heard \/ final)
  /\ mode' = IF mode = "connecting" /\ ~final THEN "legacy" ELSE mode
  /\ retry' = (mode # "connecting" /\ ~heard')

\* A connection is refused or breaks.
LinkDrops ==
  /\ ws # "none" /\ drops < MaxDrops
  /\ drops' = drops + 1
  /\ OnClose(FALSE)
  /\ UNCHANGED <<nextSeq, queue, resumed, terminals, evicted, server>>

\* The timer fires: openSocket.
Reconnect ==
  /\ retry /\ ~heard
  /\ retry' = FALSE /\ ws' = "connecting" /\ resumed' = FALSE
  /\ UNCHANGED <<mode, nextSeq, queue, heard, terminals, evicted>>
  /\ UNCHANGED <<link, server, drops>>

\* Plausible error: nothing is replayed.
FlushNothing(q) == up' = up

\* The queue goes out again from its head.
Flush(q) ==
  /\ Len(up) + Len(q) <= MaxInFlight
  /\ up' = up \o q

HandleResume ==
  /\ down # <<>> /\ Head(down).type = "resume"
  /\ resumed' = TRUE
  /\ queue' = TrimUpTo(queue, Head(down).seq)
  /\ mode' = IF mode = "connecting" THEN "stream" ELSE mode
  /\ IF Head(down).over
     THEN heard' = TRUE /\ LoseLink
     ELSE heard' = heard /\ Flush(queue') /\ down' = Tail(down) /\ UNCHANGED <<ws, late>>
  /\ UNCHANGED <<nextSeq, retry, terminals, evicted, server, drops>>

HandleAck ==
  /\ down # <<>> /\ Head(down).type = "ack"
  /\ queue' = TrimUpTo(queue, Head(down).seq)
  /\ down' = Tail(down)
  /\ UNCHANGED <<mode, nextSeq, ws, resumed, retry, heard, terminals, evicted>>
  /\ UNCHANGED <<up, late, server, drops>>

\* sequence_gap: what lies below the expected number is not sent again.
HandleGap ==
  /\ down # <<>> /\ Head(down).type = "gap"
  /\ queue' = TrimUpTo(queue, Head(down).seq - 1)
  /\ Flush(queue')
  /\ down' = Tail(down)
  /\ UNCHANGED <<mode, nextSeq, ws, resumed, retry, heard, terminals, evicted>>
  /\ UNCHANGED <<late, server, drops>>

\* The server closed the connection with 1000 run_terminated.
HandleClose ==
  /\ down # <<>> /\ Head(down).type = "close"
  /\ OnClose(TRUE)
  /\ UNCHANGED <<nextSeq, queue, resumed, terminals, evicted, server, drops>>

-----------------------------------------------------------------------------
(* The server.                                                              *)

\* What the server does with frame n, and what it answers: it takes the next
\* one, acknowledges a repeated one again, and refuses any other.
Take(n) ==
  /\ lastAcked' = IF n = lastAcked + 1 THEN n ELSE lastAcked
  /\ terminated' = (terminated \/ (n = lastAcked + 1 /\ n \in terminals))
AnswerTo(n) ==
  IF n > lastAcked + 1 THEN <<Gap(lastAcked + 1)>>
  ELSE IF n = lastAcked + 1 /\ n \in terminals THEN <<Ack(n), RunTerminated>>
  ELSE <<Ack(n)>>

\* The server has closed the present connection and does not read it any more.
ClosedByServer == \E i \in DOMAIN down : down[i] = RunTerminated

Serve ==
  /\ up # <<>> /\ ~ClosedByServer /\ Len(down) < MaxInFlight
  /\ up' = Tail(up)
  /\ Take(Head(up))
  /\ down' = down \o AnswerTo(Head(up))
  /\ UNCHANGED <<client, late, drops>>

\* A frame of a connection that is gone for the client.
ServeLate ==
  /\ late # <<>>
  /\ late' = Tail(late)
  /\ Take(Head(late))
  /\ UNCHANGED <<client, up, down, drops>>

-----------------------------------------------------------------------------
Receive == HandleResume \/ HandleAck \/ HandleGap \/ HandleClose

Next ==
  \/ Publish \/ ConnectTimesOut \/ StartClosing \/ FinishClosing
  \/ Accept \/ LinkDrops \/ Reconnect
  \/ HandleResume \/ HandleAck \/ HandleGap \/ HandleClose
  \/ Serve \/ ServeLate

Spec == Init /\ [][Next]_vars

\* Timers fire, the network accepts and delivers what it has not dropped.
FairSpec ==
  /\ Spec
  /\ WF_vars(Accept) /\ WF_vars(Reconnect) /\ WF_vars(Receive)
  /\ WF_vars(Serve) /\ WF_vars(ServeLate)

-----------------------------------------------------------------------------
(* Properties.                                                              *)

\* A published frame that the server has not counted is still in the queue,
\* so that a reconnect replays it, unless the cap of the queue pushed it out
\* (runStreamClient.ts:69-72, and 381-387 for the cap).
UnackedIsQueued ==
  \A n \in 1..(nextSeq - 1) :
    n > lastAcked => n \in evicted \/ \E i \in DOMAIN queue : queue[i] = n

\* The server never sees a gap in the numbers, however connections break and
\* frames are replayed, as long as the cap has not dropped a frame: one gap
\* would refuse every later frame of the run (runStreamClient.ts:6-12).
GapOnlyAfterEviction ==
  (\E i \in DOMAIN down : down[i].type = "gap") => evicted # {}

\* While the publisher has not closed the client, whenTerminated() resolves
\* only when the server has ended the run (runStreamClient.ts:74-79).
HeardIsEnded == heard /\ mode \in {"stream", "closing"} => terminated

\* Every published frame is counted by the server in the end, unless the run
\* has ended there, the publisher gave up waiting, or the cap dropped a frame.
PublishedIsCounted ==
  \A n \in Frames :
    n < nextSeq ~> lastAcked >= n \/ terminated \/ mode = "closed" \/ evicted # {}
=============================================================================
