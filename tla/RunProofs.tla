------------------------------ MODULE RunProofs ------------------------------
(***************************************************************************)
(* What a run guarantees: RunStream, which publishes it, and at the end    *)
(* ExecRun, which executes it.                                             *)
(*                                                                         *)
(* RunStream, for every cap, every number of events and every number of    *)
(* broken connections: the inductive invariant says that the queue holds   *)
(* consecutive numbers that end at the newest frame, that everything       *)
(* before them is counted or evicted, and that, as long as nothing was     *)
(* evicted, what is under way on a resumed connection runs on from the     *)
(* server's count without a gap.                                           *)
(*                                                                         *)
(* ExecRun, for every MaxIterations: SuccessIsCompleted speaks of a        *)
(* finished run only, and says nothing that a step could rely on, so the   *)
(* reason for a success is carried from the last turn through the two      *)
(* phases after it, and so is what the row says of a run that failed.      *)
(* ExecInv says what is known in each phase.                               *)
(***************************************************************************)
EXTENDS RunStream, ExecRun, TLAPS

QueueInv ==
  /\ \A i \in 1..Len(queue) : queue[i] = nextSeq - Len(queue) + i - 1
  /\ Len(queue) < nextSeq
  /\ \A n \in 1..(nextSeq - Len(queue) - 1) : n <= lastAcked \/ n \in evicted

CountInv ==
  /\ lastAcked < nextSeq
  /\ \A i \in 1..Len(up) : up[i] < nextSeq
  /\ \A i \in 1..Len(late) : late[i] < nextSeq

AnswerInv(i) ==
  /\ down[i].type \in {"resume", "ack"} => down[i].seq <= lastAcked
  /\ down[i].type = "gap" => down[i].seq <= lastAcked + 1 /\ evicted # {} /\ resumed
  /\ down[i].type = "close" => down[i].over
  /\ down[i].over => terminated
  /\ down[i].type = "resume" => i = 1 /\ ~resumed

AnswersInv == \A i \in 1..Len(down) : AnswerInv(i)

LinkInv ==
  /\ ws # "open" => up = <<>> /\ down = <<>>
  /\ ws = "connecting" => ~resumed
  /\ ~resumed => up = <<>>
  /\ retry => ws = "none"

FlightInv ==
  evicted = {} /\ CanSend =>
    /\ \A i \in 1..Len(up) : up[i] = nextSeq - Len(up) + i - 1
    /\ nextSeq - Len(up) <= lastAcked + 1

EndInv == heard => terminated \/ mode \in {"legacy", "closed"}

IInv ==
  /\ TypeOK /\ QueueInv /\ CountInv /\ AnswersInv
  /\ LinkInv /\ FlightInv /\ EndInv

-----------------------------------------------------------------------------
(* Sequences.                                                               *)

\* What a queue of consecutive numbers keeps when its leading frames up to n
\* are trimmed: a tail of it, and nothing that is trimmed lies above n.
LEMMA TrimKeepsTail ==
  ASSUME NEW q \in Seq(Nat), NEW n \in Int, NEW a \in Int,
         \A i \in 1..Len(q) : q[i] = a + i
  PROVE  \E k \in 0..Len(q) : /\ TrimUpTo(q, n) = SubSeq(q, k + 1, Len(q))
                              /\ \A i \in 1..k : q[i] <= n
<1> DEFINE Cut(j) == /\ \A i \in 1..j : q[i] <= n
                     /\ j < Len(q) => q[j + 1] > n
<1>1. \E j \in 0..Len(q) : Cut(j)
  <2>1. CASE n <= a
    <3>1. Cut(0)  BY <2>1
    <3> QED  BY <3>1
  <2>2. CASE n > a /\ n - a <= Len(q)
    <3> DEFINE c == n - a
    <3>1. c \in 0..Len(q)  BY <2>2
    <3>2. \A i \in 1..c : q[i] <= n  BY <3>1
    <3>3. c < Len(q) => q[c + 1] = n + 1  BY <3>1
    <3>4. Cut(c)  BY <3>2, <3>3
    <3> QED  BY <3>1, <3>4
  <2>3. CASE n > a /\ n - a > Len(q)
    <3>1. Cut(Len(q))  BY <2>3
    <3> QED  BY <3>1
  <2> QED  BY <2>1, <2>2, <2>3
<1> DEFINE k == CHOOSE j \in 0..Len(q) : Cut(j)
<1>2. k \in 0..Len(q) /\ Cut(k)  BY <1>1
<1>3. TrimUpTo(q, n) = SubSeq(q, k + 1, Len(q))  BY DEF TrimUpTo
<1> QED  BY <1>2, <1>3

\* The tail of a sequence from k + 1.
LEMMA TailFrom ==
  ASSUME NEW S, NEW q \in Seq(S), NEW k \in 0..Len(q)
  PROVE  LET t == SubSeq(q, k + 1, Len(q))
         IN  /\ t \in Seq(S) /\ Len(t) = Len(q) - k
             /\ \A i \in 1..Len(t) : t[i] = q[k + i]
OBVIOUS

\* The head of a sequence up to k.
LEMMA PrefixTo ==
  ASSUME NEW S, NEW q \in Seq(S), NEW k \in 0..Len(q)
  PROVE  LET t == SubSeq(q, 1, k)
         IN  /\ t \in Seq(S) /\ Len(t) = k
             /\ \A i \in 1..k : t[i] = q[i]
OBVIOUS

\* A sequence without its first element.
LEMMA TailOf ==
  ASSUME NEW S, NEW q \in Seq(S), q # <<>>
  PROVE  /\ Tail(q) \in Seq(S) /\ Len(q) >= 1 /\ Len(Tail(q)) = Len(q) - 1
         /\ Head(q) = q[1] /\ Head(q) \in S
         /\ \A i \in 1..Len(Tail(q)) : Tail(q)[i] = q[i + 1]
OBVIOUS

\* Two sequences one after the other.
LEMMA Concat ==
  ASSUME NEW S, NEW q \in Seq(S), NEW r \in Seq(S)
  PROVE  /\ q \o r \in Seq(S) /\ Len(q \o r) = Len(q) + Len(r)
         /\ \A i \in 1..Len(q) : (q \o r)[i] = q[i]
         /\ \A i \in 1..Len(r) : (q \o r)[Len(q) + i] = r[i]
         /\ \A i \in 1..Len(q \o r) :
              (q \o r)[i] = IF i <= Len(q) THEN q[i] ELSE r[i - Len(q)]
OBVIOUS

-----------------------------------------------------------------------------
(* The invariant is inductive.                                              *)

\* The initial states satisfy the inductive invariant.
LEMMA InitInv == Init => IInv
<1> SUFFICES ASSUME Init PROVE IInv  OBVIOUS
<1>1. TypeOK
  <2>1. /\ nextSeq \in 1..(MaxEvents + 1) /\ lastAcked \in 0..MaxEvents
        /\ drops \in 0..MaxDrops /\ Len(queue) <= MaxQueueSize
    BY RunStreamAssumption DEF Init
  <2>2. /\ queue \in Seq(Frames) /\ up \in Seq(Frames)
        /\ down \in Seq(Answers) /\ late \in Seq(Frames)
    BY DEF Init
  <2>3. /\ resumed \in BOOLEAN /\ retry \in BOOLEAN /\ heard \in BOOLEAN
        /\ terminated \in BOOLEAN /\ terminals \subseteq Frames /\ evicted \subseteq Frames
    BY DEF Init
  <2> QED  BY <2>1, <2>2, <2>3 DEF Init, TypeOK
<1>2. QueueInv /\ CountInv /\ AnswersInv  BY DEF Init, QueueInv, CountInv, AnswersInv
<1>3. LinkInv /\ FlightInv /\ EndInv  BY DEF Init, LinkInv, FlightInv, EndInv, CanSend
<1> QED  BY <1>1, <1>2, <1>3 DEF IInv

\* What is left of the link when it is lost: nothing but old frames.
LEMMA LostLink ==
  ASSUME IInv, LoseLink
  PROVE  /\ ws' = "none" /\ up' = <<>> /\ down' = <<>>
         /\ late' \in Seq(Frames) /\ \A i \in 1..Len(late') : late'[i] < nextSeq
<1>1. PICK k \in 0..Len(up) : late' = late \o SubSeq(up, 1, k)
  BY DEF LoseLink
<1> DEFINE t == SubSeq(up, 1, k)
<1>2. up \in Seq(Frames) /\ late \in Seq(Frames)
  BY DEF IInv, TypeOK
<1>3. t \in Seq(Frames) /\ Len(t) = k /\ \A i \in 1..k : t[i] = up[i]
  BY <1>2, PrefixTo
<1>4. /\ late \o t \in Seq(Frames) /\ Len(late \o t) = Len(late) + Len(t)
      /\ \A i \in 1..Len(late \o t) :
           (late \o t)[i] = IF i <= Len(late) THEN late[i] ELSE t[i - Len(late)]
  BY <1>2, <1>3, Concat
<1>5. /\ \A i \in 1..Len(up) : up[i] < nextSeq
      /\ \A i \in 1..Len(late) : late[i] < nextSeq
  BY DEF IInv, CountInv
<1>6. Len(late) \in Nat /\ Len(up) \in Nat  BY <1>2
<1> HIDE DEF t
<1>7. ASSUME NEW i \in 1..Len(late \o t)  PROVE (late \o t)[i] < nextSeq
  <2>1. CASE i <= Len(late)  BY <2>1, <1>4, <1>5, <1>6
  <2>2. CASE i > Len(late)
    <3>1. i - Len(late) \in 1..k /\ 1..k \subseteq 1..Len(up)
      BY <2>2, <1>3, <1>4, <1>6
    <3>2. (late \o t)[i] = up[i - Len(late)]
      <4>1. (late \o t)[i] = t[i - Len(late)]  BY <2>2, <1>4, <1>6
      <4> QED  BY <4>1, <3>1, <1>3
    <3> QED  BY <3>1, <3>2, <1>5
  <2> QED  BY <2>1, <2>2, <1>6
<1>8. late' = late \o t  BY <1>1 DEF t
<1>9. ws' = "none" /\ up' = <<>> /\ down' = <<>>  BY DEF LoseLink
<1> QED  BY <1>4, <1>7, <1>8, <1>9

\* Trimming up to a number the server has counted, or to the one before the
\* number it expects, keeps the queue's invariant.
LEMMA TrimKeeps ==
  ASSUME IInv, NEW n \in Int, n <= lastAcked
  PROVE  LET t == TrimUpTo(queue, n)
         IN  /\ t \in Seq(Frames) /\ Len(t) <= Len(queue)
             /\ \A i \in 1..Len(t) : t[i] = nextSeq - Len(t) + i - 1
             /\ \A m \in 1..(nextSeq - Len(t) - 1) : m <= lastAcked \/ m \in evicted
<1> DEFINE a == nextSeq - Len(queue) - 1
<1>1. /\ queue \in Seq(Frames) /\ nextSeq \in Nat /\ Len(queue) \in Nat
      /\ lastAcked \in Nat
  BY RunStreamAssumption DEF IInv, TypeOK, Frames
<1>2. queue \in Seq(Nat)  BY <1>1, RunStreamAssumption DEF Frames
<1>3. /\ \A i \in 1..Len(queue) : queue[i] = a + i
      /\ \A m \in 1..a : m <= lastAcked \/ m \in evicted
  BY <1>1 DEF IInv, QueueInv
<1>4. a \in Int  BY <1>1
<1> HIDE DEF a
<1>5. PICK k \in 0..Len(queue) : /\ TrimUpTo(queue, n) = SubSeq(queue, k + 1, Len(queue))
                                 /\ \A i \in 1..k : queue[i] <= n
  BY <1>2, <1>3, <1>4, TrimKeepsTail
<1> DEFINE t == SubSeq(queue, k + 1, Len(queue))
<1>6. /\ t \in Seq(Frames) /\ Len(t) = Len(queue) - k
      /\ \A i \in 1..Len(t) : t[i] = queue[k + i]
  BY <1>1, TailFrom
<1> HIDE DEF t
<1>7. ASSUME NEW i \in 1..Len(t)  PROVE t[i] = nextSeq - Len(t) + i - 1
  <2>1. k + i \in 1..Len(queue)  BY <1>1, <1>6
  <2>2. t[i] = a + (k + i)  BY <2>1, <1>3, <1>6
  <2> QED  BY <2>2, <1>1, <1>6 DEF a
<1>8. ASSUME NEW m \in 1..(nextSeq - Len(t) - 1)  PROVE m <= lastAcked \/ m \in evicted
  <2>1. CASE m <= a  BY <2>1, <1>3, <1>4
  <2>2. CASE m > a
    <3>1. m - a \in 1..k  BY <2>2, <1>1, <1>4, <1>6 DEF a
    <3>2. queue[m - a] = m /\ queue[m - a] <= n  BY <3>1, <1>1, <1>3, <1>4, <1>5
    <3> QED  BY <3>2, <1>1
  <2> QED  BY <2>1, <2>2, <1>4
<1>9. Len(t) <= Len(queue)  BY <1>1, <1>6
<1>10. TrimUpTo(queue, n) = t  BY <1>5 DEF t
<1> QED  BY <1>6, <1>7, <1>8, <1>9, <1>10

\* Replaying the whole queue is typed and names only published frames.
LEMMA FlushKeeps ==
  ASSUME IInv, NEW q \in Seq(Frames), \A i \in 1..Len(q) : q[i] < nextSeq
  PROVE  /\ up \o q \in Seq(Frames)
         /\ \A i \in 1..Len(up \o q) : (up \o q)[i] < nextSeq
<1>1. up \in Seq(Frames) /\ \A i \in 1..Len(up) : up[i] < nextSeq
  BY DEF IInv, TypeOK, CountInv
<1>2. Len(up) \in Nat /\ Len(q) \in Nat  BY <1>1
<1>3. /\ up \o q \in Seq(Frames) /\ Len(up \o q) = Len(up) + Len(q)
      /\ \A i \in 1..Len(up \o q) :
           (up \o q)[i] = IF i <= Len(up) THEN up[i] ELSE q[i - Len(up)]
  BY <1>1, Concat
<1>4. ASSUME NEW i \in 1..Len(up \o q)  PROVE (up \o q)[i] < nextSeq
  <2>1. CASE i <= Len(up)  BY <2>1, <1>1, <1>2, <1>3
  <2>2. CASE i > Len(up)
    <3>1. i - Len(up) \in 1..Len(q)  BY <2>2, <1>2, <1>3
    <3> QED  BY <3>1, <2>2, <1>2, <1>3
  <2> QED  BY <2>1, <2>2, <1>2
<1> QED  BY <1>3, <1>4

\* Nothing is under way on a link that is lost.
LEMMA LostKeeps ==
  ASSUME IInv, LoseLink, nextSeq' = nextSeq, lastAcked' = lastAcked
  PROVE  CountInv' /\ AnswersInv' /\ FlightInv'
<1>1. CountInv'  BY LostLink DEF IInv, CountInv
<1>2. AnswersInv'  BY LostLink DEF AnswersInv
<1>3. FlightInv'  BY LostLink DEF FlightInv, CanSend
<1> QED  BY <1>1, <1>2, <1>3

\* A published frame goes to the end of the queue, and at the cap its oldest
\* frame is recorded as evicted.
LEMMA PublishKeeps == ASSUME IInv, Publish PROVE IInv'
<1> DEFINE base == IF Full THEN Tail(queue) ELSE queue
<1>1. /\ queue \in Seq(Frames) /\ nextSeq \in Frames /\ Len(queue) \in Nat
      /\ nextSeq \in Nat /\ up \in Seq(Frames) /\ Len(up) \in Nat
      /\ MaxQueueSize \in Nat /\ MaxQueueSize >= 1 /\ MaxEvents \in Nat
  BY RunStreamAssumption DEF IInv, TypeOK, Publish, Frames
<1>2. Full => queue # <<>> /\ Head(queue) = nextSeq - Len(queue) /\ Head(queue) \in Frames
  <2> SUFFICES ASSUME Full PROVE queue # <<>> /\ Head(queue) = nextSeq - Len(queue)
                                 /\ Head(queue) \in Frames
    OBVIOUS
  <2>1. queue # <<>>  BY <1>1 DEF Full
  <2>2. Head(queue) = queue[1] /\ Head(queue) \in Frames /\ Len(queue) >= 1  BY <2>1, <1>1, TailOf
  <2>3. queue[1] = nextSeq - Len(queue)  BY <2>2, <1>1 DEF IInv, QueueInv
  <2> QED  BY <2>1, <2>2, <2>3
<1>3. /\ base \in Seq(Frames)
      /\ Len(base) = IF Full THEN Len(queue) - 1 ELSE Len(queue)
      /\ \A i \in 1..Len(base) : base[i] = nextSeq - Len(base) + i - 1
  <2>1. CASE Full  BY <2>1, <1>1, <1>2, TailOf DEF IInv, QueueInv
  <2>2. CASE ~Full  BY <2>2, <1>1 DEF IInv, QueueInv
  <2> QED  BY <2>1, <2>2
<1>a. Len(base) \in Nat  BY <1>3
<1> HIDE DEF base
<1>4. queue' = Append(base, nextSeq)  BY DEF Publish, base
<1>5. /\ queue' \in Seq(Frames) /\ Len(queue') = Len(base) + 1
      /\ \A i \in 1..Len(queue') :
           queue'[i] = IF i <= Len(base) THEN base[i] ELSE nextSeq
  BY <1>1, <1>3, <1>4
<1>6. nextSeq' = nextSeq + 1  BY DEF Publish
<1>7. TypeOK'
  <2>1. Len(queue') <= MaxQueueSize  BY <1>1, <1>3, <1>5 DEF IInv, TypeOK, Full
  <2>2. up' \in Seq(Frames)  BY <1>1 DEF Publish
  <2>3. terminals' \subseteq Frames  BY <1>1 DEF IInv, TypeOK, Publish
  <2>4. evicted' \subseteq Frames  BY <1>1, <1>2 DEF IInv, TypeOK, Publish
  <2>5. nextSeq' \in 1..(MaxEvents + 1)  BY <1>1, <1>6 DEF Publish
  <2> QED  BY <2>1, <2>5, <1>5 DEF IInv, TypeOK, Publish, server
<1>8. QueueInv'
  <2>1. ASSUME NEW i \in 1..Len(queue')
        PROVE  queue'[i] = nextSeq' - Len(queue') + i - 1
    <3>1. nextSeq' - Len(queue') = nextSeq - Len(base)  BY <1>1, <1>a, <1>5, <1>6
    <3>2. CASE i <= Len(base)
      <4>1. i \in 1..Len(base)  BY <3>2, <1>a, <1>5
      <4>2. base[i] = nextSeq - Len(base) + i - 1  BY <4>1, <1>3
      <4>3. queue'[i] = base[i]  BY <3>2, <1>5
      <4> QED  BY <4>2, <4>3, <3>1, <1>1, <1>a, <1>5
    <3>3. CASE i = Len(base) + 1  BY <3>1, <3>3, <1>1, <1>a, <1>5
    <3> QED  BY <3>2, <3>3, <1>a, <1>5
  <2>2. Len(queue') < nextSeq'  BY <1>1, <1>3, <1>5, <1>6 DEF IInv, QueueInv
  <2>3. ASSUME NEW m \in 1..(nextSeq' - Len(queue') - 1)
        PROVE  m <= lastAcked' \/ m \in evicted'
    <3>1. lastAcked' = lastAcked /\ evicted \subseteq evicted'  BY DEF Publish, server
    <3>2. CASE m <= nextSeq - Len(queue) - 1  BY <3>1, <3>2, <1>1 DEF IInv, QueueInv
    <3>3. CASE m > nextSeq - Len(queue) - 1
      <4>1. Full /\ m = Head(queue)
        <5>1. m = nextSeq - Len(queue) /\ Len(base) < Len(queue)
          <6>1. nextSeq' - Len(queue') = nextSeq - Len(base)  BY <1>1, <1>a, <1>5, <1>6
          <6> QED  BY <6>1, <3>3, <1>1, <1>3, <1>a
        <5> QED  BY <5>1, <1>1, <1>2, <1>3
      <4> QED  BY <4>1 DEF Publish
    <3> QED  BY <3>2, <3>3, <1>1
  <2> QED  BY <2>1, <2>2, <2>3 DEF QueueInv
<1>9. CountInv'
  <2>1. \A i \in 1..Len(up') : up'[i] < nextSeq'
    <3>1. CASE CanSend
      <4>1. up' = Append(up, nextSeq)  BY <3>1 DEF Publish
      <4>2. Len(up') = Len(up) + 1 /\ \A i \in 1..Len(up') : up'[i] = IF i <= Len(up) THEN up[i] ELSE nextSeq
        BY <4>1, <1>1
      <4>3. \A i \in 1..Len(up) : up[i] < nextSeq /\ up[i] \in Nat
        BY <1>1 DEF IInv, CountInv, Frames
      <4> QED  BY <4>2, <4>3, <1>1, <1>6
    <3>2. CASE ~CanSend
      <4>1. up' = up  BY <3>2 DEF Publish
      <4>2. \A i \in 1..Len(up) : up[i] < nextSeq /\ up[i] \in Nat
        BY <1>1 DEF IInv, CountInv, Frames
      <4> QED  BY <4>1, <4>2, <1>1, <1>6
    <3> QED  BY <3>1, <3>2
  <2>2. \A i \in 1..Len(late') : late'[i] < nextSeq'
    <3>1. late' = late  BY DEF Publish
    <3>2. \A i \in 1..Len(late) : late[i] < nextSeq /\ late[i] \in Nat
      BY <1>1 DEF IInv, TypeOK, CountInv, Frames
    <3> QED  BY <3>1, <3>2, <1>1, <1>6
  <2>3. lastAcked' < nextSeq'  BY DEF IInv, TypeOK, CountInv, Publish, server
  <2> QED  BY <2>1, <2>2, <2>3 DEF CountInv
<1>10. AnswersInv'
  BY <1>2 DEF IInv, AnswersInv, AnswerInv, Publish, server
<1>11. LinkInv'  BY DEF IInv, LinkInv, Publish, CanSend
<1>12. FlightInv'
  <2> SUFFICES ASSUME evicted' = {}, CanSend'
               PROVE  /\ \A i \in 1..Len(up') : up'[i] = nextSeq' - Len(up') + i - 1
                      /\ nextSeq' - Len(up') <= lastAcked' + 1
    BY DEF FlightInv
  <2>1. evicted = {} /\ CanSend  BY DEF Publish, CanSend
  <2>2. up' = Append(up, nextSeq)  BY <2>1 DEF Publish
  <2>3. Len(up') = Len(up) + 1 /\ \A i \in 1..Len(up') : up'[i] = IF i <= Len(up) THEN up[i] ELSE nextSeq
    BY <2>2, <1>1
  <2>4. lastAcked' = lastAcked /\ nextSeq' = nextSeq + 1  BY DEF Publish, server
  <2>5. /\ \A i \in 1..Len(up) : up[i] = nextSeq - Len(up) + i - 1
        /\ nextSeq - Len(up) <= lastAcked + 1
    BY <2>1 DEF IInv, FlightInv
  <2>6. Len(up) \in Nat /\ nextSeq \in Int /\ lastAcked \in Int
    BY <1>1, RunStreamAssumption DEF IInv, TypeOK
  <2> QED  BY <2>3, <2>4, <2>5, <2>6
<1>13. EndInv'  BY DEF IInv, EndInv, Publish, server
<1> QED  BY <1>7, <1>8, <1>9, <1>10, <1>11, <1>12, <1>13 DEF IInv

\* close() of the client, by the connect timeout and at the end of the run.
LEMMA CloseKeeps ==
  ASSUME IInv, NEW next \in {"legacy", "closed"}, CloseClient(next) PROVE IInv'
<1>1. nextSeq' = nextSeq /\ lastAcked' = lastAcked /\ LoseLink /\ evicted' = evicted
  BY DEF CloseClient, server
<1>2. CountInv' /\ AnswersInv' /\ FlightInv'  BY <1>1, LostKeeps
<1>3. TypeOK'
  <2>1. ws' \in {"none", "connecting", "open"} /\ late' \in Seq(Frames)
        /\ up' \in Seq(Frames) /\ down' \in Seq(Answers)
    BY <1>1, LostLink
  <2>2. retry' \in BOOLEAN /\ heard' \in BOOLEAN
    BY Zenon DEF IInv, TypeOK, CloseClient
  <2>3. mode' \in {"connecting", "stream", "legacy", "closing", "closed"}
    BY DEF IInv, TypeOK, CloseClient
  <2>4. UNCHANGED <<nextSeq, queue, resumed, terminals, evicted, lastAcked, terminated>>
    BY DEF CloseClient, server
  <2>5. drops' \in 0..MaxDrops  BY DEF IInv, TypeOK, CloseClient
  <2> QED  BY <2>1, <2>2, <2>3, <2>4, <2>5 DEF IInv, TypeOK
<1>4. QueueInv'  BY <1>1 DEF IInv, QueueInv, CloseClient
<1>5. LinkInv'  BY <1>1, LostLink DEF LinkInv
<1>6. EndInv'  BY DEF EndInv, CloseClient
<1> QED  BY <1>2, <1>3, <1>4, <1>5, <1>6 DEF IInv

\* The close event, of an ended run and of a broken connection.
LEMMA OnCloseKeeps ==
  ASSUME IInv, NEW final \in BOOLEAN, OnClose(final), final => terminated,
         drops' \in 0..MaxDrops,
         UNCHANGED <<nextSeq, queue, resumed, terminals, evicted, server>>
  PROVE  IInv'
<1>1. nextSeq' = nextSeq /\ lastAcked' = lastAcked /\ LoseLink /\ evicted' = evicted
  BY DEF OnClose, server
<1>2. CountInv' /\ AnswersInv' /\ FlightInv'  BY <1>1, LostKeeps
<1>3. TypeOK'
  <2>1. ws' \in {"none", "connecting", "open"} /\ late' \in Seq(Frames)
        /\ up' \in Seq(Frames) /\ down' \in Seq(Answers)
    BY <1>1, LostLink
  <2>2. retry' \in BOOLEAN /\ heard' \in BOOLEAN
    BY Zenon DEF IInv, TypeOK, OnClose
  <2>3. mode' \in {"connecting", "stream", "legacy", "closing", "closed"}
    BY DEF IInv, TypeOK, OnClose
  <2>4. UNCHANGED <<nextSeq, queue, resumed, terminals, evicted, lastAcked, terminated>>
    BY DEF OnClose, server
  <2>5. drops' \in 0..MaxDrops  BY DEF IInv, TypeOK, OnClose
  <2> QED  BY <2>1, <2>2, <2>3, <2>4 DEF IInv, TypeOK
<1>4. QueueInv'  BY <1>1 DEF IInv, QueueInv
<1>5. LinkInv'  BY <1>1, LostLink DEF LinkInv
<1>6. EndInv'  BY DEF IInv, EndInv, OnClose, server
<1> QED  BY <1>2, <1>3, <1>4, <1>5, <1>6 DEF IInv

\* Waiting for the termination disturbs nothing.
LEMMA StartClosingKeeps == ASSUME IInv, StartClosing PROVE IInv'
<1>1. TypeOK'
  <2>1. mode' \in {"connecting", "stream", "legacy", "closing", "closed"}
    BY DEF StartClosing
  <2>2. UNCHANGED <<nextSeq, queue, ws, resumed, retry, heard, up, down, late,
                    lastAcked, terminated, terminals, evicted, drops>>
    BY DEF StartClosing, link, server
  <2> QED  BY <2>1, <2>2 DEF IInv, TypeOK
<1>2. QueueInv' /\ CountInv'
  BY DEF IInv, QueueInv, CountInv, StartClosing, link, server
<1>3. AnswersInv'
  BY DEF IInv, AnswersInv, AnswerInv, StartClosing, link, server
<1>4. LinkInv' /\ FlightInv' /\ EndInv'
  BY DEF IInv, LinkInv, FlightInv, EndInv, CanSend, StartClosing, link, server
<1> QED  BY <1>1, <1>2, <1>3, <1>4 DEF IInv

\* The resume frame of a new connection tells the server's count truly.
LEMMA AcceptKeeps == ASSUME IInv, Accept PROVE IInv'
<1>1. /\ ~resumed /\ up = <<>> /\ lastAcked \in Nat /\ terminated \in BOOLEAN
      /\ lastAcked \in 0..MaxEvents /\ MaxEvents \in Nat
  BY RunStreamAssumption DEF IInv, TypeOK, LinkInv, Accept
<1>2. Resume \in Answers /\ RunTerminated \in Answers
  BY <1>1 DEF Resume, RunTerminated, Answers
<1>3. /\ down' \in Seq(Answers)
      /\ Len(down') = 1 \/ Len(down') = 2
      /\ down'[1] = Resume
      /\ Len(down') = 2 => terminated /\ down'[2] = RunTerminated
  <2>1. CASE terminated
    <3>1. down' = <<Resume, RunTerminated>>  BY <2>1 DEF Accept
    <3> QED  BY <3>1, <2>1, <1>2
  <2>2. CASE ~terminated
    <3>1. down' = <<Resume>>  BY <2>2 DEF Accept
    <3> QED  BY <3>1, <1>2
  <2> QED  BY <2>1, <2>2
<1>4. /\ ws' = "open"
      /\ UNCHANGED <<mode, nextSeq, queue, resumed, retry, heard, up, late,
                     lastAcked, terminated, terminals, evicted, drops>>
  BY DEF Accept, server
<1>5. TypeOK'  BY <1>3, <1>4 DEF IInv, TypeOK
<1>6. QueueInv' /\ CountInv' /\ EndInv'  BY <1>4 DEF IInv, QueueInv, CountInv, EndInv
<1>7. AnswersInv'
  <2>1. /\ Resume.type = "resume" /\ Resume.seq = lastAcked /\ Resume.over = terminated
        /\ RunTerminated.type = "close" /\ RunTerminated.over = TRUE
    BY DEF Resume, RunTerminated
  <2> SUFFICES ASSUME NEW i \in 1..Len(down')  PROVE AnswerInv(i)'
    BY DEF AnswersInv
  <2>2. CASE i = 1  BY <2>1, <2>2, <1>1, <1>3, <1>4 DEF AnswerInv
  <2>3. CASE i = 2  BY <2>1, <2>3, <1>1, <1>3, <1>4 DEF AnswerInv
  <2>4. Len(down') = 1 \/ Len(down') = 2  BY <1>3
  <2>5. i = 1 \/ i = 2  BY <2>4
  <2> QED  BY <2>2, <2>3, <2>5
<1>8. LinkInv'
  <2>1. ws = "connecting"  BY DEF Accept
  <2> QED  BY <2>1, <1>1, <1>4 DEF IInv, LinkInv
<1>9. FlightInv'  BY <1>1, <1>4 DEF FlightInv, CanSend
<1> QED  BY <1>5, <1>6, <1>7, <1>8, <1>9 DEF IInv

\* A new socket starts with an empty link.
LEMMA ReconnectKeeps == ASSUME IInv, Reconnect PROVE IInv'
<1>1. /\ ws = "none" /\ up = <<>> /\ down = <<>>
  BY DEF IInv, LinkInv, Reconnect
<1>2. /\ ws' = "connecting" /\ resumed' = FALSE /\ retry' = FALSE
      /\ UNCHANGED <<mode, nextSeq, queue, heard, up, down, late,
                     lastAcked, terminated, terminals, evicted, drops>>
  BY DEF Reconnect, link, server
<1>3. TypeOK'  BY <1>2 DEF IInv, TypeOK
<1>4. QueueInv' /\ CountInv' /\ EndInv'  BY <1>2 DEF IInv, QueueInv, CountInv, EndInv
<1>5. AnswersInv'  BY <1>1, <1>2 DEF AnswersInv
<1>6. LinkInv' /\ FlightInv'  BY <1>1, <1>2 DEF LinkInv, FlightInv, CanSend
<1> QED  BY <1>3, <1>4, <1>5, <1>6 DEF IInv

\* The answer that is handled, and what stays behind it.
LEMMA HeadAnswer ==
  ASSUME IInv, down # <<>>
  PROVE  /\ AnswerInv(1) /\ Head(down) = down[1] /\ Head(down) \in Answers
         /\ Tail(down) \in Seq(Answers)
         /\ \A i \in 1..Len(Tail(down)) :
              Tail(down)[i] = down[i + 1] /\ AnswerInv(i + 1)
         /\ ws = "open"
<1>1. down \in Seq(Answers)  BY DEF IInv, TypeOK
<1>2. /\ Tail(down) \in Seq(Answers) /\ Len(down) >= 1 /\ Len(Tail(down)) = Len(down) - 1
      /\ Head(down) = down[1] /\ Head(down) \in Answers
      /\ \A i \in 1..Len(Tail(down)) : Tail(down)[i] = down[i + 1]
  BY <1>1, TailOf
<1>3. 1 \in 1..Len(down) /\ \A i \in 1..Len(Tail(down)) : i + 1 \in 1..Len(down)
  BY <1>1, <1>2
<1>4. AnswerInv(1) /\ \A i \in 1..Len(Tail(down)) : AnswerInv(i + 1)
  BY <1>3 DEF IInv, AnswersInv
<1> QED  BY <1>2, <1>4 DEF IInv, LinkInv

\* Answers behind the handled one keep what is known of them.
LEMMA TailAnswers ==
  ASSUME IInv, down # <<>>, down' = Tail(down),
         UNCHANGED <<lastAcked, terminated, evicted, resumed>>
  PROVE  AnswersInv'
<1>1. \A i \in 1..Len(down') : down'[i] = down[i + 1] /\ AnswerInv(i + 1)
  BY HeadAnswer
<1>2. \A i \in 1..Len(down') : i + 1 # 1  OBVIOUS
<1> QED  BY <1>1, <1>2 DEF AnswersInv, AnswerInv

\* An ack trims only what the server has counted.
LEMMA AckKeeps == ASSUME IInv, HandleAck PROVE IInv'
<1>1. /\ down # <<>> /\ Head(down).type = "ack"
      /\ queue' = TrimUpTo(queue, Head(down).seq) /\ down' = Tail(down)
      /\ UNCHANGED <<mode, nextSeq, ws, resumed, retry, heard, up, late,
                     lastAcked, terminated, terminals, evicted, drops>>
  BY DEF HandleAck, server
<1>2. Head(down).seq \in Int /\ Head(down).seq <= lastAcked
  BY <1>1, HeadAnswer DEF AnswerInv, Answers
<1>3. /\ queue' \in Seq(Frames) /\ Len(queue') <= Len(queue)
      /\ \A i \in 1..Len(queue') : queue'[i] = nextSeq - Len(queue') + i - 1
      /\ \A m \in 1..(nextSeq - Len(queue') - 1) : m <= lastAcked \/ m \in evicted
  BY <1>1, <1>2, TrimKeeps
<1>4. Len(queue) \in Nat /\ Len(queue') \in Nat /\ nextSeq \in Int /\ MaxQueueSize \in Nat
  BY <1>3, RunStreamAssumption DEF IInv, TypeOK
<1>5. TypeOK'
  <2>1. Len(queue') <= MaxQueueSize  BY <1>3, <1>4 DEF IInv, TypeOK
  <2>2. down' \in Seq(Answers)  BY <1>1, HeadAnswer
  <2> QED  BY <2>1, <2>2, <1>1, <1>3 DEF IInv, TypeOK
<1>6. QueueInv'
  <2>1. Len(queue') < nextSeq  BY <1>3, <1>4 DEF IInv, QueueInv
  <2> QED  BY <2>1, <1>1, <1>3 DEF QueueInv
<1>7. CountInv' /\ EndInv'  BY <1>1 DEF IInv, CountInv, EndInv
<1>8. AnswersInv'  BY <1>1, TailAnswers
<1>9. LinkInv' /\ FlightInv'  BY <1>1, HeadAnswer DEF IInv, LinkInv, FlightInv, CanSend
<1> QED  BY <1>5, <1>6, <1>7, <1>8, <1>9 DEF IInv

\* The queue goes out again, after a resume frame and after a gap alike.
Replay(n) ==
  /\ down # <<>> /\ down' = Tail(down)
  /\ \A i \in 1..Len(Tail(down)) : Tail(down)[i].type # "resume"
  /\ queue' = TrimUpTo(queue, n) /\ up' = up \o queue'
  /\ evicted = {} => up = <<>>
  /\ ws = "open" /\ ws' = ws /\ resumed' = TRUE
  /\ mode' \in {mode, "stream"} /\ EndInv'
  /\ heard' = heard /\ nextSeq' = nextSeq /\ retry' = retry /\ late' = late
  /\ lastAcked' = lastAcked /\ terminated' = terminated
  /\ terminals' = terminals /\ evicted' = evicted /\ drops' = drops

\* A trimmed queue that is sent again keeps the invariant.
LEMMA ReplayKeeps ==
  ASSUME IInv, NEW n \in Int, n <= lastAcked, Replay(n)
  PROVE  IInv'
<1> USE DEF Replay
<1>1. /\ queue' \in Seq(Frames) /\ Len(queue') <= Len(queue)
      /\ \A i \in 1..Len(queue') : queue'[i] = nextSeq - Len(queue') + i - 1
      /\ \A m \in 1..(nextSeq - Len(queue') - 1) : m <= lastAcked \/ m \in evicted
  BY TrimKeeps
<1>2. /\ Len(queue) \in Nat /\ Len(queue') \in Nat /\ nextSeq \in Int
      /\ MaxQueueSize \in Nat /\ lastAcked \in Int /\ up \in Seq(Frames)
  BY <1>1, RunStreamAssumption DEF IInv, TypeOK
<1>3. \A i \in 1..Len(queue') : queue'[i] < nextSeq
  <2> SUFFICES ASSUME NEW i \in 1..Len(queue')  PROVE queue'[i] < nextSeq
    OBVIOUS
  <2>1. queue'[i] = nextSeq - Len(queue') + i - 1  BY <1>1
  <2> HIDE DEF Replay
  <2> QED  BY <2>1, <1>2
<1>4. /\ up' = up \o queue' /\ up' \in Seq(Frames)
      /\ \A i \in 1..Len(up') : up'[i] < nextSeq
  <2>1. up' = up \o queue'  OBVIOUS
  <2> QED  BY <2>1, <1>1, <1>3, FlushKeeps
<1>5. TypeOK'
  <2>1. Len(queue') <= MaxQueueSize  BY <1>1, <1>2 DEF IInv, TypeOK
  <2>2. down' \in Seq(Answers)  BY HeadAnswer
  <2>3. mode' \in {"connecting", "stream", "legacy", "closing", "closed"}
    BY DEF IInv, TypeOK
  <2>4. resumed' \in BOOLEAN  OBVIOUS
  <2> QED  BY <2>1, <2>3, <1>4 DEF IInv, TypeOK
<1>6. QueueInv'
  <2>1. Len(queue') < nextSeq  BY <1>1, <1>2 DEF IInv, QueueInv
  <2> QED  BY <2>1, <1>1 DEF QueueInv
<1>7. CountInv'  BY <1>4 DEF IInv, CountInv
<1>8. AnswersInv'
  <2> SUFFICES ASSUME NEW i \in 1..Len(down')  PROVE AnswerInv(i)'
    BY DEF AnswersInv
  <2>1. down'[i] = down[i + 1] /\ AnswerInv(i + 1)  BY HeadAnswer
  <2> QED  BY <2>1 DEF AnswerInv
<1>9. LinkInv'  BY DEF IInv, LinkInv
<1>10. FlightInv'
  <2> SUFFICES ASSUME evicted = {}
               PROVE  /\ \A i \in 1..Len(up') : up'[i] = nextSeq - Len(up') + i - 1
                      /\ nextSeq - Len(up') <= lastAcked + 1
    BY DEF FlightInv
  <2>1. up' = queue'  BY <1>1, <1>4
  <2>2. nextSeq - Len(queue') <= lastAcked + 1
    <3> DEFINE m == nextSeq - Len(queue') - 1
    <3>1. m \in Int  BY <1>2
    <3>2. m \in 1..m => m <= lastAcked  BY <1>1
    <3>3. lastAcked >= 0  BY DEF IInv, TypeOK
    <3>4. m <= lastAcked
      <4> HIDE DEF m
      <4> QED  BY <3>1, <3>2, <3>3, <1>2
    <3> QED  BY <3>4, <1>2
  <2> QED  BY <2>1, <2>2, <1>1
<1> QED  BY <1>5, <1>6, <1>7, <1>8, <1>9, <1>10 DEF IInv

\* A resume frame trims the queue and replays it, or ends the stream.
LEMMA ResumeKeeps == ASSUME IInv, HandleResume PROVE IInv'
<1>1. /\ down # <<>> /\ Head(down).type = "resume" /\ Head(down).seq \in Int
      /\ Head(down).seq <= lastAcked
      /\ Head(down).over => terminated
      /\ ~resumed /\ up = <<>> /\ ws = "open"
  <2>1. down # <<>> /\ Head(down).type = "resume"  BY DEF HandleResume
  <2> QED  BY <2>1, HeadAnswer DEF AnswerInv, Answers, IInv, LinkInv
<1>2. \A i \in 1..Len(Tail(down)) : Tail(down)[i].type # "resume"
  <2> SUFFICES ASSUME NEW i \in 1..Len(Tail(down)), Tail(down)[i].type = "resume"
               PROVE  FALSE
    OBVIOUS
  <2>1. AnswerInv(i + 1) /\ Tail(down)[i] = down[i + 1]  BY <1>1, HeadAnswer
  <2>2. i + 1 = 1  BY <2>1 DEF AnswerInv
  <2> QED  BY <2>2
<1>3. /\ queue' = TrimUpTo(queue, Head(down).seq) /\ resumed' = TRUE
      /\ mode' \in {mode, "stream"}
      /\ UNCHANGED <<nextSeq, retry, lastAcked, terminated, terminals, evicted, drops>>
  BY DEF HandleResume, server
<1> DEFINE n == Head(down).seq
<1>n. n \in Int /\ n <= lastAcked /\ queue' = TrimUpTo(queue, n)  BY <1>1, <1>3
<1> HIDE DEF n
<1>4. CASE ~Head(down).over
  <2>1. /\ heard' = heard /\ up' = up \o queue' /\ down' = Tail(down) /\ ws' = ws /\ late' = late
    BY <1>4 DEF HandleResume, Flush
  <2>2. EndInv'  BY <1>3, <2>1 DEF IInv, EndInv, HandleResume
  <2>3. Replay(n)  BY <1>1, <1>2, <1>3, <1>n, <2>1, <2>2 DEF Replay
  <2> QED  BY <1>n, <2>3, ReplayKeeps
<1>5. CASE Head(down).over
  <2>1. heard' = TRUE /\ LoseLink  BY <1>5 DEF HandleResume
  <2>a. terminated  BY <1>1, <1>5
  <2>2. /\ queue' \in Seq(Frames) /\ Len(queue') <= Len(queue)
        /\ \A i \in 1..Len(queue') : queue'[i] = nextSeq - Len(queue') + i - 1
        /\ \A m \in 1..(nextSeq - Len(queue') - 1) : m <= lastAcked \/ m \in evicted
    BY <1>n, TrimKeeps
  <2>3. /\ Len(queue) \in Nat /\ Len(queue') \in Nat /\ nextSeq \in Int
        /\ MaxQueueSize \in Nat
    BY <2>2, RunStreamAssumption DEF IInv, TypeOK
  <2>4. CountInv' /\ AnswersInv' /\ FlightInv'  BY <1>3, <2>1, LostKeeps
  <2>5. TypeOK'
    <3>1. Len(queue') <= MaxQueueSize  BY <2>2, <2>3 DEF IInv, TypeOK
    <3>2. mode' \in {"connecting", "stream", "legacy", "closing", "closed"}
      BY <1>3 DEF IInv, TypeOK
    <3>3. ws' \in {"none", "connecting", "open"} /\ late' \in Seq(Frames)
          /\ up' \in Seq(Frames) /\ down' \in Seq(Answers)
      BY <2>1, LostLink
    <3>4. resumed' \in BOOLEAN /\ heard' \in BOOLEAN  BY <1>3, <2>1
    <3> QED  BY <3>1, <3>3, <3>4, <1>3, <2>2 DEF IInv, TypeOK
  <2>6. QueueInv'
    <3>1. Len(queue') < nextSeq  BY <2>2, <2>3 DEF IInv, QueueInv
    <3> QED  BY <3>1, <1>3, <2>2 DEF QueueInv
  <2>7. LinkInv'  BY <2>1, <1>3, LostLink DEF LinkInv
  <2>8. EndInv'  BY <2>1, <2>a, <1>3 DEF EndInv
  <2> QED  BY <2>4, <2>5, <2>6, <2>7, <2>8 DEF IInv
<1> QED  BY <1>4, <1>5

\* A gap answer trims below the expected frame and replays the rest.
LEMMA GapKeeps == ASSUME IInv, HandleGap PROVE IInv'
<1> DEFINE n == Head(down).seq - 1
<1>1. /\ down # <<>> /\ n \in Int
      /\ n <= lastAcked /\ evicted # {} /\ ws = "open" /\ resumed
  <2>1. down # <<>> /\ Head(down).type = "gap"  BY DEF HandleGap
  <2>2. /\ Head(down).seq \in Int /\ Head(down).seq <= lastAcked + 1
        /\ evicted # {} /\ ws = "open" /\ resumed
    BY <2>1, HeadAnswer DEF AnswerInv, Answers
  <2> QED  BY <2>1, <2>2 DEF IInv, TypeOK
<1>2. \A i \in 1..Len(Tail(down)) : Tail(down)[i].type # "resume"
  <2> SUFFICES ASSUME NEW i \in 1..Len(Tail(down)), Tail(down)[i].type = "resume"
               PROVE  FALSE
    OBVIOUS
  <2>1. AnswerInv(i + 1) /\ Tail(down)[i] = down[i + 1]  BY <1>1, HeadAnswer
  <2>2. i + 1 = 1  BY <2>1 DEF AnswerInv
  <2> QED  BY <2>2
<1>3. EndInv'  BY DEF IInv, EndInv, HandleGap, server
<1>4. queue' = TrimUpTo(queue, n)  BY DEF HandleGap
<1> HIDE DEF n
<1>5. resumed' = TRUE  BY <1>1 DEF HandleGap, IInv, TypeOK
<1>6. Replay(n)  BY <1>1, <1>2, <1>3, <1>4 DEF Replay, HandleGap, Flush, server
<1> QED  BY <1>1, <1>6, ReplayKeeps

\* The server's close is heard only of a run it has ended.
LEMMA HandleCloseKeeps == ASSUME IInv, HandleClose PROVE IInv'
<1>1. down # <<>> /\ Head(down).type = "close" /\ OnClose(TRUE)  BY DEF HandleClose
<1>2. terminated  BY <1>1, HeadAnswer DEF AnswerInv
<1>3. UNCHANGED <<nextSeq, queue, resumed, terminals, evicted, server>>
  BY DEF HandleClose
<1>4. drops' \in 0..MaxDrops  BY DEF HandleClose, IInv, TypeOK
<1> QED  BY <1>1, <1>2, <1>3, <1>4, OnCloseKeeps

\* A broken connection leaves only old frames behind.
LEMMA LinkDropsKeeps == ASSUME IInv, LinkDrops PROVE IInv'
<1>1. OnClose(FALSE) /\ UNCHANGED <<nextSeq, queue, resumed, terminals, evicted, server>>
  BY DEF LinkDrops
<1>2. drops' \in 0..MaxDrops
  BY RunStreamAssumption DEF LinkDrops, IInv, TypeOK
<1> QED  BY <1>1, <1>2, OnCloseKeeps

\* What the server makes of a published frame.
LEMMA TakeFrame ==
  ASSUME IInv, NEW n \in Frames, n < nextSeq, Take(n)
  PROVE  /\ lastAcked' \in 0..MaxEvents /\ lastAcked' >= lastAcked /\ lastAcked' < nextSeq
         /\ lastAcked' >= n \/ n > lastAcked + 1
         /\ terminated' \in BOOLEAN /\ (terminated => terminated')
<1>1. lastAcked \in 0..MaxEvents /\ lastAcked < nextSeq /\ MaxEvents \in Nat
      /\ nextSeq \in Int /\ terminated \in BOOLEAN
  BY RunStreamAssumption DEF IInv, TypeOK, CountInv
<1>2. lastAcked' = IF n = lastAcked + 1 THEN n ELSE lastAcked  BY DEF Take
<1>3. terminated' \in BOOLEAN /\ (terminated => terminated')
  BY Zenon, <1>1 DEF Take
<1>4. n \in 1..MaxEvents  BY DEF Frames
<1> QED  BY <1>1, <1>2, <1>3, <1>4

\* An answer under way stays true while the server goes on counting.
LEMMA AnswerStays ==
  ASSUME NEW i, AnswerInv(i), down'[i] = down[i], down[i].seq \in Int,
         lastAcked \in Int, lastAcked' \in Int, lastAcked' >= lastAcked,
         terminated => terminated', evicted' = evicted, resumed' = resumed
  PROVE  AnswerInv(i)'
BY DEF AnswerInv

\* Old frames of broken connections only repeat what the queue still holds
\* or the server has counted.
LEMMA ServeLateKeeps == ASSUME IInv, ServeLate PROVE IInv'
<1> DEFINE n == Head(late)
<1>1. /\ late # <<>> /\ late \in Seq(Frames) /\ Take(n) /\ late' = Tail(late)
      /\ UNCHANGED <<mode, nextSeq, queue, ws, resumed, retry, heard, terminals,
                     evicted, up, down, drops>>
  BY DEF IInv, TypeOK, ServeLate, client
<1>2. /\ n \in Frames /\ n = late[1] /\ Len(late) >= 1 /\ late' \in Seq(Frames)
      /\ \A i \in 1..Len(late') : late'[i] = late[i + 1]
      /\ Len(late') = Len(late) - 1
  BY <1>1, TailOf
<1>3. n < nextSeq  BY <1>1, <1>2 DEF IInv, CountInv
<1> HIDE DEF n
<1>4. /\ lastAcked' \in 0..MaxEvents /\ lastAcked' >= lastAcked /\ lastAcked' < nextSeq
      /\ terminated' \in BOOLEAN
  BY <1>1, <1>2, <1>3, TakeFrame
<1>5. terminated => terminated'  BY <1>1, <1>2, <1>3, TakeFrame
<1>6. lastAcked \in Int /\ lastAcked' \in Int /\ nextSeq \in Int /\ Len(queue) \in Int
      /\ Len(up) \in Int /\ Len(late) \in Int
  BY <1>1, <1>4, RunStreamAssumption DEF IInv, TypeOK
<1>7. TypeOK'  BY <1>1, <1>2, <1>4 DEF IInv, TypeOK
<1>8. QueueInv'
  <2>1. \A m \in 1..(nextSeq - Len(queue) - 1) : m <= lastAcked' \/ m \in evicted
    BY <1>4, <1>6 DEF IInv, QueueInv
  <2> QED  BY <2>1, <1>1 DEF IInv, QueueInv
<1>9. CountInv'
  <2>1. \A i \in 1..Len(late') : i + 1 \in 1..Len(late)  BY <1>2, <1>6
  <2>2. \A i \in 1..Len(late') : late'[i] < nextSeq  BY <2>1, <1>2 DEF IInv, CountInv
  <2> QED  BY <2>2, <1>1, <1>4 DEF IInv, CountInv
<1>10. AnswersInv'
  <2> SUFFICES ASSUME NEW i \in 1..Len(down)  PROVE AnswerInv(i)'
    BY <1>1 DEF AnswersInv
  <2>1. AnswerInv(i) /\ down[i] \in Answers  BY DEF IInv, TypeOK, AnswersInv
  <2>2. down[i].seq \in Int /\ down'[i] = down[i]  BY <2>1, <1>1 DEF Answers
  <2>3. evicted' = evicted /\ resumed' = resumed  BY <1>1
  <2> QED  BY <2>1, <2>2, <2>3, <1>4, <1>5, <1>6, AnswerStays
<1>11. LinkInv'  BY <1>1 DEF IInv, LinkInv
<1>12. FlightInv'  BY <1>1, <1>4, <1>6 DEF IInv, FlightInv, CanSend
<1>13. EndInv'  BY <1>1, <1>5 DEF IInv, EndInv
<1> QED  BY <1>7, <1>8, <1>9, <1>10, <1>11, <1>12, <1>13 DEF IInv

\* What the server answers says no more than it has counted; it refuses a frame
\* only when an earlier one was evicted.
TrueAnswer(a) ==
  /\ a.type # "resume"
  /\ a.type = "ack" => a.seq <= lastAcked'
  /\ a.type = "gap" => a.seq <= lastAcked' + 1 /\ evicted # {} /\ resumed
  /\ a.type = "close" => a.over
  /\ a.over => terminated'

\* Every answer to a frame is true of the server's new state.
LEMMA AnswerIsTrue ==
  ASSUME IInv, up # <<>>, Take(Head(up))
  PROVE  /\ AnswerTo(Head(up)) \in Seq(Answers)
         /\ \A i \in 1..Len(AnswerTo(Head(up))) : TrueAnswer(AnswerTo(Head(up))[i])
<1> DEFINE n == Head(up)
<1>1. /\ up \in Seq(Frames) /\ n \in Frames /\ n = up[1] /\ Len(up) >= 1
      /\ lastAcked \in 0..MaxEvents /\ MaxEvents \in Nat /\ nextSeq \in Int
  BY RunStreamAssumption, TailOf DEF IInv, TypeOK
<1>2. ws = "open" /\ resumed /\ n < nextSeq
  BY <1>1 DEF IInv, LinkInv, CountInv
<1>3. n > lastAcked + 1 => evicted # {}
  <2> SUFFICES ASSUME evicted = {} PROVE n <= lastAcked + 1  BY <1>1 DEF Frames
  <2>1. CanSend  BY <1>2 DEF CanSend
  <2>2. up[1] = nextSeq - Len(up) + 1 - 1 /\ nextSeq - Len(up) <= lastAcked + 1
    BY <1>1, <2>1 DEF IInv, FlightInv
  <2> QED  BY <2>2, <1>1
<1> HIDE DEF n
<1>4. n \in 1..MaxEvents  BY <1>1 DEF Frames
<1>5. lastAcked' = (IF n = lastAcked + 1 THEN n ELSE lastAcked)
  BY DEF Take, n
<1>6. n = lastAcked + 1 /\ n \in terminals => terminated'  BY DEF Take, n
<1>7. CASE n > lastAcked + 1
  <2> DEFINE g == Gap(lastAcked + 1)
  <2>1. g \in Answers  BY <1>1 DEF Gap, Answers
  <2>2. lastAcked' = lastAcked  BY <1>7, <1>5, <1>1
  <2>3. TrueAnswer(g)  BY <2>2, <1>1, <1>2, <1>3, <1>7 DEF TrueAnswer, Gap
  <2>4. AnswerTo(n) = <<g>>  BY <1>7 DEF AnswerTo
  <2> HIDE DEF g
  <2>5. AnswerTo(n) \in Seq(Answers) /\ \A i \in 1..Len(AnswerTo(n)) : AnswerTo(n)[i] = g
    BY <2>1, <2>4
  <2> QED  BY <2>3, <2>5 DEF TrueAnswer, n
<1> DEFINE a == Ack(n)
           c == RunTerminated
<1>8. a \in Answers /\ c \in Answers  BY <1>4, <1>1 DEF Ack, RunTerminated, Answers
<1>9. n <= lastAcked' => TrueAnswer(a)  BY DEF TrueAnswer, Ack
<1>10. terminated' => TrueAnswer(c)  BY DEF TrueAnswer, RunTerminated
<1>11. CASE n = lastAcked + 1 /\ n \in terminals
  <2>1. AnswerTo(n) = <<a, c>>  BY <1>11, <1>1 DEF AnswerTo
  <2>2. n <= lastAcked' /\ terminated'  BY <1>11, <1>4, <1>5, <1>6
  <2>3. TrueAnswer(a) /\ TrueAnswer(c)  BY <2>2, <1>9, <1>10
  <2> HIDE DEF a, c
  <2>4. /\ AnswerTo(n) \in Seq(Answers)
        /\ \A i \in 1..Len(AnswerTo(n)) : AnswerTo(n)[i] = a \/ AnswerTo(n)[i] = c
    BY <2>1, <1>8
  <2> QED  BY <2>3, <2>4 DEF TrueAnswer, n
<1>12. CASE n <= lastAcked + 1 /\ ~(n = lastAcked + 1 /\ n \in terminals)
  <2>1. AnswerTo(n) = <<a>>  BY <1>12, <1>1, <1>4 DEF AnswerTo
  <2>2. n <= lastAcked'  BY <1>12, <1>1, <1>4, <1>5
  <2>3. TrueAnswer(a)  BY <2>2, <1>9
  <2> HIDE DEF a
  <2>4. AnswerTo(n) \in Seq(Answers) /\ \A i \in 1..Len(AnswerTo(n)) : AnswerTo(n)[i] = a
    BY <2>1, <1>8
  <2> QED  BY <2>3, <2>4 DEF TrueAnswer, n
<1> QED  BY <1>1, <1>4, <1>7, <1>11, <1>12 DEF n

\* A frame that is served is counted, repeated or refused in order.
LEMMA ServeKeeps == ASSUME IInv, Serve PROVE IInv'
<1> DEFINE n == Head(up)
           A == AnswerTo(n)
<1>1. /\ up # <<>> /\ up \in Seq(Frames) /\ Take(n) /\ up' = Tail(up) /\ down' = down \o A
      /\ UNCHANGED <<mode, nextSeq, queue, ws, resumed, retry, heard, terminals,
                     evicted, late, drops>>
  BY DEF IInv, TypeOK, Serve, client
<1>2. /\ n \in Frames /\ n = up[1] /\ Len(up) >= 1 /\ up' \in Seq(Frames)
      /\ \A i \in 1..Len(up') : up'[i] = up[i + 1]
      /\ Len(up') = Len(up) - 1
  BY <1>1, TailOf
<1>3. n < nextSeq /\ resumed  BY <1>1, <1>2 DEF IInv, CountInv, LinkInv
<1>4. /\ A \in Seq(Answers)
      /\ \A i \in 1..Len(A) : TrueAnswer(A[i])
  BY <1>1, AnswerIsTrue
<1>5. down \in Seq(Answers) /\ ws = "open"  BY <1>1 DEF IInv, TypeOK, LinkInv
<1> HIDE DEF A, n
<1>6. /\ down' \in Seq(Answers) /\ Len(down') = Len(down) + Len(A)
      /\ \A i \in 1..Len(down') :
           down'[i] = IF i <= Len(down) THEN down[i] ELSE A[i - Len(down)]
  BY <1>1, <1>4, <1>5, Concat
<1>7. /\ lastAcked' \in 0..MaxEvents /\ lastAcked' >= lastAcked /\ lastAcked' < nextSeq
      /\ lastAcked' >= n \/ n > lastAcked + 1
      /\ terminated' \in BOOLEAN
  BY <1>1, <1>2, <1>3, TakeFrame
<1>8. terminated => terminated'  BY <1>1, <1>2, <1>3, TakeFrame
<1>9. lastAcked \in Int /\ lastAcked' \in Int /\ nextSeq \in Int /\ Len(queue) \in Int
      /\ Len(up) \in Nat /\ Len(up') \in Nat /\ Len(down) \in Nat /\ Len(A) \in Nat /\ n \in Int
  <2>1. lastAcked \in Int /\ nextSeq \in Int /\ Len(queue) \in Int
    BY RunStreamAssumption DEF IInv, TypeOK
  <2>2. lastAcked' \in Int /\ n \in Int
    BY <1>2, <1>7, RunStreamAssumption DEF Frames
  <2> QED  BY <2>1, <2>2, <1>1, <1>2, <1>4, <1>5
<1>10. TypeOK'  BY <1>1, <1>2, <1>6, <1>7 DEF IInv, TypeOK
<1>11. QueueInv'
  <2>1. \A m \in 1..(nextSeq - Len(queue) - 1) : m <= lastAcked' \/ m \in evicted
    BY <1>7, <1>9 DEF IInv, QueueInv
  <2> QED  BY <2>1, <1>1 DEF IInv, QueueInv
<1>12. CountInv'
  <2>1. \A i \in 1..Len(up') : i + 1 \in 1..Len(up)  BY <1>2, <1>9
  <2>2. \A i \in 1..Len(up') : up'[i] < nextSeq  BY <2>1, <1>2 DEF IInv, CountInv
  <2> QED  BY <2>2, <1>1, <1>7 DEF IInv, CountInv
<1>13. AnswersInv'
  <2> SUFFICES ASSUME NEW i \in 1..Len(down')  PROVE AnswerInv(i)'
    BY DEF AnswersInv
  <2>1. CASE i <= Len(down)
    <3>1. i \in 1..Len(down)  BY <2>1, <1>6, <1>9
    <3>2. AnswerInv(i) /\ down[i] \in Answers  BY <3>1, <1>5 DEF IInv, AnswersInv
    <3>3. down[i].seq \in Int  BY <3>2 DEF Answers
    <3>4. down'[i] = down[i]  BY <2>1, <1>6
    <3>5. evicted' = evicted /\ resumed' = resumed  BY <1>1
    <3> QED  BY <3>2, <3>3, <3>4, <3>5, <1>7, <1>8, <1>9, AnswerStays
  <2>2. CASE i > Len(down)
    <3>1. i - Len(down) \in 1..Len(A)  BY <2>2, <1>6, <1>9
    <3>2. down'[i] = A[i - Len(down)]  BY <2>2, <1>6, <1>9
    <3>3. TrueAnswer(A[i - Len(down)])  BY <3>1, <1>4
    <3> QED  BY <3>2, <3>3, <1>1 DEF AnswerInv, TrueAnswer
  <2> QED  BY <2>1, <2>2, <1>6, <1>9
<1>14. LinkInv'  BY <1>1, <1>3, <1>5 DEF IInv, LinkInv
<1>15. FlightInv'
  <2> SUFFICES ASSUME evicted = {}
               PROVE  /\ \A i \in 1..Len(up') : up'[i] = nextSeq - Len(up') + i - 1
                      /\ nextSeq - Len(up') <= lastAcked' + 1
    BY <1>1 DEF FlightInv
  <2>1. CanSend  BY <1>3, <1>5 DEF CanSend
  <2>2. /\ \A i \in 1..Len(up) : up[i] = nextSeq - Len(up) + i - 1
        /\ nextSeq - Len(up) <= lastAcked + 1
    BY <2>1 DEF IInv, FlightInv
  <2>3. n = nextSeq - Len(up)  BY <2>2, <1>2, <1>9
  <2>4. ASSUME NEW i \in 1..Len(up')  PROVE up'[i] = nextSeq - Len(up') + i - 1
    <3>1. i + 1 \in 1..Len(up)  BY <1>2, <1>9
    <3>2. up[i + 1] = nextSeq - Len(up) + (i + 1) - 1  BY <3>1, <2>2
    <3> QED  BY <3>2, <1>2, <1>9
  <2>5. nextSeq - Len(up') <= lastAcked' + 1  BY <2>2, <2>3, <1>2, <1>7, <1>9
  <2> QED  BY <2>4, <2>5
<1>16. EndInv'  BY <1>1, <1>8 DEF IInv, EndInv
<1> QED  BY <1>10, <1>11, <1>12, <1>13, <1>14, <1>15, <1>16 DEF IInv

\* Every step, and every stutter, keeps the inductive invariant.
LEMMA StepInv == IInv /\ [Next]_vars => IInv'
<1> SUFFICES ASSUME IInv, [Next]_vars PROVE IInv'  OBVIOUS
<1>1. CASE Publish  BY <1>1, PublishKeeps
<1>2. CASE ConnectTimesOut  BY <1>2, CloseKeeps DEF ConnectTimesOut
<1>3. CASE StartClosing  BY <1>3, StartClosingKeeps
<1>4. CASE FinishClosing  BY <1>4, CloseKeeps DEF FinishClosing
<1>5. CASE Accept  BY <1>5, AcceptKeeps
<1>6. CASE LinkDrops  BY <1>6, LinkDropsKeeps
<1>7. CASE Reconnect  BY <1>7, ReconnectKeeps
<1>8. CASE HandleResume  BY <1>8, ResumeKeeps
<1>9. CASE HandleAck  BY <1>9, AckKeeps
<1>10. CASE HandleGap  BY <1>10, GapKeeps
<1>11. CASE HandleClose  BY <1>11, HandleCloseKeeps
<1>12. CASE Serve  BY <1>12, ServeKeeps
<1>13. CASE ServeLate  BY <1>13, ServeLateKeeps
<1>14. CASE UNCHANGED vars
  <2>1. UNCHANGED <<mode, nextSeq, queue, ws, resumed, retry, heard, up, down, late,
                    lastAcked, terminated, terminals, evicted, drops>>
    BY <1>14 DEF vars, client, link, server
  <2>2. TypeOK' /\ QueueInv' /\ CountInv' /\ LinkInv' /\ EndInv'
    BY <2>1 DEF IInv, TypeOK, QueueInv, CountInv, LinkInv, EndInv
  <2>3. AnswersInv' /\ FlightInv'
    BY <2>1 DEF IInv, AnswersInv, AnswerInv, FlightInv, CanSend
  <2> QED  BY <2>2, <2>3 DEF IInv
<1> QED
  BY <1>1, <1>2, <1>3, <1>4, <1>5, <1>6, <1>7, <1>8, <1>9, <1>10, <1>11, <1>12,
     <1>13, <1>14 DEF Next

\* The invariant holds in every state of the stream.
THEOREM Invariance == Spec => []IInv
<1>1. Init => IInv  BY InitInv
<1>2. IInv /\ [Next]_vars => IInv'  BY StepInv
<1> QED  BY <1>1, <1>2, PTL DEF Spec

-----------------------------------------------------------------------------
(* What follows from it.                                                    *)

\* Every variable keeps its type and the queue stays within its cap
\* (runStreamClient.ts:381-387).
THEOREM TypeCorrect == Spec => []TypeOK
<1>1. IInv => TypeOK  BY DEF IInv
<1> QED  BY <1>1, Invariance, PTL

\* A frame the server has not counted is still queued, or was evicted at the
\* cap (runStreamClient.ts:69-72).
THEOREM UnackedCorrect == Spec => []UnackedIsQueued
<1>1. IInv => UnackedIsQueued
  <2> SUFFICES ASSUME IInv, NEW n \in 1..(nextSeq - 1), n > lastAcked, n \notin evicted
               PROVE  \E i \in DOMAIN queue : queue[i] = n
    BY DEF UnackedIsQueued
  <2>1. queue \in Seq(Frames) /\ Len(queue) \in Nat /\ nextSeq \in Int /\ lastAcked \in Int
    BY RunStreamAssumption DEF IInv, TypeOK
  <2> DEFINE i == n - (nextSeq - Len(queue)) + 1
  <2>2. n >= nextSeq - Len(queue)  BY <2>1 DEF IInv, QueueInv
  <2>3. i \in 1..Len(queue)  BY <2>1, <2>2
  <2>4. queue[i] = nextSeq - Len(queue) + i - 1  BY <2>3 DEF IInv, QueueInv
  <2>5. queue[i] = n  BY <2>4, <2>1
  <2>6. DOMAIN queue = 1..Len(queue)  BY <2>1
  <2> QED  BY <2>3, <2>5, <2>6
<1> QED  BY <1>1, Invariance, PTL

\* The server sees a gap only when the cap has dropped a frame
\* (runStreamClient.ts:6-12).
THEOREM GapCorrect == Spec => []GapOnlyAfterEviction
<1>1. IInv => GapOnlyAfterEviction
  <2> SUFFICES ASSUME IInv, NEW i \in DOMAIN down, down[i].type = "gap"
               PROVE  evicted # {}
    BY DEF GapOnlyAfterEviction
  <2>1. down \in Seq(Answers)  BY DEF IInv, TypeOK
  <2>2. i \in 1..Len(down)  BY <2>1
  <2>3. AnswerInv(i)  BY <2>2 DEF IInv, AnswersInv
  <2> QED  BY <2>3 DEF AnswerInv
<1> QED  BY <1>1, Invariance, PTL

\* The end of a run is announced only when the server has ended it, as long as
\* the publisher has not closed the client (runStreamClient.ts:74-79).
THEOREM HeardCorrect == Spec => []HeardIsEnded
<1>1. IInv => HeardIsEnded
  BY DEF IInv, EndInv, HeardIsEnded
<1> QED  BY <1>1, Invariance, PTL

-----------------------------------------------------------------------------
(* ExecRun.                                                                 *)

\* What can fail a run from outside its workflow while turns are started.
Outside == {"none", "cancelled", "timeout"}

\* Nothing has begun; a failed start keeps iterations at zero.
BeforeTurns ==
  phase = "starting" =>
    /\ status = "running" /\ iterations = 0 /\ loopCount = 0
    /\ stored = "none" /\ latch \in Outside
    /\ ~uploaded

\* While turns run the two counters agree, the row is current, and the loop
\* goes on only below its limit.
WhileTurns ==
  phase = "running" =>
    /\ status = "running" /\ ~uploaded
    /\ iterations = loopCount + 1 /\ latch \in Outside
    /\ ~degraded => stored = "running"
    /\ IF loop THEN loopCount = 0 \/ iterations <= maxIterations ELSE loopCount = 0

\* Afterwards an empty latch has its reason, the row of a run with turns is final, and
\* that of a run without them is unfinished.
AfterTurns ==
  phase \in {"writing", "uploading", "done"} =>
    /\ latch = "none" => status = "completed" /\ (loop => tracker = "complete")
    /\ status = "completed" => latch \in Outside \cup {"output"}
    /\ iterations > 0 => status # "running" /\ (~degraded => stored = status)
    /\ iterations = 0 => stored \in {"none", "running"} /\ latch # "none"
    /\ phase = "uploading" => latch = "none"

ExecInv ==
  /\ ExecTypeOK
  /\ BeforeTurns
  /\ WhileTurns
  /\ AfterTurns
  /\ LoopIsBounded
  /\ ArtifactsOnlyOfSuccess

USE DEF config, turn, Phases, Failures, Statuses, Trackers, Outside

LEMMA InitExecInv == ExecInit => ExecInv
<1> SUFFICES ASSUME ExecInit PROVE ExecInv
  OBVIOUS
<1>1. busy <=> phase = "running"
  BY DEF ExecInit
<1>2. ExecTypeOK
  BY <1>1 DEF ExecInit, ExecTypeOK
<1>3. QED
  BY <1>2 DEF ExecInit, ExecInv, ExecTypeOK, BeforeTurns, WhileTurns, AfterTurns, LoopIsBounded,
              ArtifactsOnlyOfSuccess

\* What a turn leaves as status is one of the runner's, and a loop that goes on
\* is below its limit.
LEMMA StatusAfterFacts ==
  ASSUME NEW outcome \in {"good", "bad"}, NEW t \in Trackers, ExecTypeOK
  PROVE  /\ StatusAfter(outcome, t) \in Statuses
         /\ StatusAfter(outcome, t) = "completed" => (loop => t = "complete")
         /\ StatusAfter(outcome, t) = "running" => loop /\ loopCount + 1 < maxIterations
BY DEF StatusAfter, StopByTracker, ExecTypeOK

\* Only a completed run leaves the latch alone.
LEMMA FailureOfFacts ==
  ASSUME NEW s \in Statuses \ {"running"}
  PROVE  /\ FailureOf(s) \in Failures
         /\ FailureOf(s) = "none" <=> s = "completed"
BY DEF FailureOf

LEMMA LatchedFacts ==
  ASSUME NEW k \in Failures, ExecTypeOK
  PROVE  /\ Latched(k) \in Failures
         /\ Latched(k) = "none" <=> latch = "none" /\ k = "none"
         /\ Latched(k) \in {latch, k}
         /\ latch # "none" => Latched(k) = latch
BY DEF Latched, ExecTypeOK

\* IInv is inductive.
LEMMA NextExecInv == ExecInv /\ [ExecNext]_execVars => ExecInv'
<1> SUFFICES ASSUME ExecInv, [ExecNext]_execVars PROVE ExecInv'
  OBVIOUS
<1> USE DEF ExecInv
<1>1. CASE Abort \/ TimeoutFires
  <2>1. /\ latch' = Latched("cancelled") \/ latch' = Latched("timeout")
        /\ killed' \in BOOLEAN
        /\ timer' \in BOOLEAN /\ signal' \in BOOLEAN
        /\ phase \in {"starting", "running"}
        /\ UNCHANGED <<loop, maxIterations, phase, status, stored, iterations,
                       loopCount, busy, tracker, degraded, uploaded>>
    BY <1>1 DEF Abort, TimeoutFires, Register, Listening, ExecTypeOK
  <2>2. latch' \in Failures /\ latch' \in {latch, "cancelled", "timeout"}
    BY <2>1, LatchedFacts
  <2>3. QED
    BY <2>1, <2>2 DEF ExecTypeOK, BeforeTurns, WhileTurns, AfterTurns, LoopIsBounded,
                      ArtifactsOnlyOfSuccess
<1>2. CASE StartRun
  <2>1. tracker' \in Trackers
    BY <1>2 DEF StartRun, Bootstrapped, ExecTypeOK
  <2>2. ExecTypeOK'
    <3>1. phase' = "running" /\ busy' /\ busy' \in BOOLEAN /\ killed' \in BOOLEAN
      BY <1>2 DEF StartRun, StartTurn
    <3>2. stored' \in Statuses \cup {"none"} /\ degraded' \in BOOLEAN
      BY <1>2 DEF StartRun, Persist, ExecTypeOK
    <3>3. QED
      BY <1>2, <2>1, <3>1, <3>2 DEF StartRun, StartTurn, ExecTypeOK
  <2>3. QED
    BY <1>2, <2>2 DEF StartRun, StartTurn, Persist, ExecTypeOK, BeforeTurns, WhileTurns,
                      AfterTurns, LoopIsBounded, ArtifactsOnlyOfSuccess
<1>3. CASE StartFails
  <2>1. /\ tracker' \in Trackers
        /\ latch' \in Failures \ {"none"}
        /\ stored' \in {stored, "running"} /\ degraded' \in BOOLEAN
    BY <1>3, LatchedFacts DEF StartFails, LeaveRun, Bootstrapped, Persist, ExecTypeOK
  <2>2. ~busy' /\ busy' \in BOOLEAN /\ phase' = "writing"
    BY <1>3 DEF StartFails, LeaveRun
  <2>3. QED
    BY <1>3, <2>1, <2>2 DEF StartFails, LeaveRun, ExecTypeOK, BeforeTurns, WhileTurns,
                      AfterTurns, LoopIsBounded, ArtifactsOnlyOfSuccess
<1>4. CASE TurnEnds
  <2>1. phase = "running" /\ tracker' \in Trackers
    BY <1>4 DEF TurnEnds, ExecTypeOK
  <2>2. /\ status' \in Statuses
        /\ status' = "completed" => (loop => tracker' = "complete")
        /\ status' = "running" => loop /\ loopCount + 1 < maxIterations
    BY <1>4, <2>1, StatusAfterFacts DEF TurnEnds
  <2>3. /\ stored' \in Statuses \cup {"none"} /\ degraded' \in BOOLEAN
        /\ ~degraded' => stored' = status'
        /\ loop' = loop /\ maxIterations' = maxIterations /\ uploaded' = uploaded
    BY <1>4, <2>2 DEF TurnEnds, Persist, ExecTypeOK
  <2>4. CASE status' = "running"
    <3>1. /\ iterations' = iterations + 1 /\ loopCount' = loopCount + 1
          /\ busy' /\ busy' \in BOOLEAN /\ killed' \in BOOLEAN
          /\ UNCHANGED <<phase, latch, timer, signal>>
      BY <1>4, <2>4 DEF TurnEnds, StartTurn
    <3>2. QED
      BY <2>1, <2>2, <2>3, <2>4, <3>1 DEF ExecTypeOK, BeforeTurns, WhileTurns, AfterTurns,
                                          LoopIsBounded, ArtifactsOnlyOfSuccess
  <2>5. CASE status' # "running"
    <3>1. /\ phase' = "writing" /\ latch' = Latched(FailureOf(status'))
          /\ ~busy' /\ busy' \in BOOLEAN
          /\ UNCHANGED <<killed, timer, signal, iterations, loopCount>>
      BY <1>4, <2>5 DEF TurnEnds, LeaveRun
    <3>2. /\ latch' \in Failures /\ (latch' = "none" => status' = "completed")
          /\ status' = "completed" => latch' = latch
      <4>1. FailureOf(status') \in Failures /\ (FailureOf(status') = "none" <=> status' = "completed")
        BY <2>2, <2>5, FailureOfFacts
      <4> QED BY <3>1, <4>1, LatchedFacts DEF Latched
    <3>3. QED
      BY <2>1, <2>2, <2>3, <2>5, <3>1, <3>2 DEF ExecTypeOK, BeforeTurns, WhileTurns,
                                 AfterTurns, LoopIsBounded, ArtifactsOnlyOfSuccess
  <2>6. QED
    BY <2>4, <2>5
<1>5. CASE WriteLastMessage
  <2>1. /\ latch' \in Failures /\ (latch' = "none" => latch = "none")
        /\ latch' \in {latch, "output"} /\ (latch # "none" => latch' # "none")
    BY <1>5, LatchedFacts DEF WriteLastMessage, ExecTypeOK
  <2>2. QED
    BY <1>5, <2>1 DEF WriteLastMessage, ExecTypeOK, BeforeTurns, WhileTurns, AfterTurns,
                      LoopIsBounded, ArtifactsOnlyOfSuccess
<1>6. CASE UploadArtifacts
  <2>1. /\ latch' \in Failures /\ (latch' = "none" => latch = "none")
        /\ latch' \in {latch, "output"} /\ (latch # "none" => latch' # "none")
        /\ uploaded' \in BOOLEAN /\ (uploaded' => latch' = "none")
    BY <1>6, LatchedFacts DEF UploadArtifacts, ExecTypeOK, AfterTurns, ArtifactsOnlyOfSuccess
  <2>2. QED
    BY <1>6, <2>1 DEF UploadArtifacts, ExecTypeOK, BeforeTurns, WhileTurns, AfterTurns,
                      LoopIsBounded, ArtifactsOnlyOfSuccess
<1>7. CASE UNCHANGED execVars
  BY <1>7 DEF execVars, ExecTypeOK, BeforeTurns, WhileTurns, AfterTurns, LoopIsBounded,
              ArtifactsOnlyOfSuccess
<1>8. QED
  BY <1>1, <1>2, <1>3, <1>4, <1>5, <1>6, <1>7 DEF ExecNext

THEOREM ExecInvariant == ExecSpec => []ExecInv
BY InitExecInv, NextExecInv, PTL DEF ExecSpec

\* The state of a run is well typed, and a process runs in phase running only.
THEOREM ExecTypeCorrect == ExecSpec => []ExecTypeOK
<1>1. ExecInv => ExecTypeOK
  BY DEF ExecInv
<1>2. QED
  BY <1>1, ExecInvariant, PTL

\* runExec reports success for completed runs only (runner.ts:505-533).
THEOREM ExecSuccessCorrect == ExecSpec => []SuccessIsCompleted
<1>1. ExecInv => SuccessIsCompleted
  BY DEF ExecInv, AfterTurns, SuccessIsCompleted
<1>2. QED
  BY <1>1, ExecInvariant, PTL

\* No loop exceeds its limit, whatever the limit (sessionPlan.ts:225-227).
THEOREM ExecBoundCorrect == ExecSpec => []LoopIsBounded
<1>1. ExecInv => LoopIsBounded
  BY DEF ExecInv
<1>2. QED
  BY <1>1, ExecInvariant, PTL

\* The row of a finished run and the report of it fit together, and only a run whose
\* start failed leaves its row unfinished (workflowRunner.ts:165-284, runner.ts:505-545).
THEOREM ExecRowCorrect == ExecSpec => []RowFitsReport
<1>1. ExecInv => RowFitsReport
  BY DEF ExecInv, ExecTypeOK, AfterTurns, RowFitsReport
<1>2. QED
  BY <1>1, ExecInvariant, PTL

\* Artifacts belong to successful runs (runner.ts:539-548).
THEOREM ExecArtifactsCorrect == ExecSpec => []ArtifactsOnlyOfSuccess
<1>1. ExecInv => ArtifactsOnlyOfSuccess
  BY DEF ExecInv
<1>2. QED
  BY <1>1, ExecInvariant, PTL
=============================================================================
