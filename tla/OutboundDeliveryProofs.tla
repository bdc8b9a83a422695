----------------------- MODULE OutboundDeliveryProofs -----------------------
(***************************************************************************)
(* What the outbound side guarantees for any number of messages, ticks,    *)
(* attempts, batch sizes and crashes, and that it implements AtLeastOnce.  *)
(***************************************************************************)
EXTENDS OutboundDelivery, FiniteSetTheorems, TLAPS

\* Only one tick drains at a time, and the re-entry flag says that one does.
OneDrain ==
  /\ \A t \in Ticks : drains[t].busy => draining
  /\ \A t, u \in Ticks : drains[t].busy /\ drains[u].busy => t = u
  /\ \A t \in Ticks : ~drains[t].busy => drains[t].rows = {} /\ trying[t].rows = {}
  /\ \A t \in Ticks : \A row \in trying[t].rows :
       row \notin drains[t].rows /\ \A r \in trying[t].rows : r = row
  /\ \A t \in Ticks : trying[t].taken => trying[t].rows # {}

\* The rows that a drain has in hand are in the outbox, and due.
SnapshotInv ==
  \A t \in Ticks : \A row \in drains[t].rows \cup trying[t].rows : row \in outbox /\ row.due

\* A row belongs to a queued message and counts the failures seen but one.
RowsInv ==
  \A row \in outbox :
    /\ first[row.msg] = "queued"
    /\ failed[row.msg] = row.attempt + 1
    /\ row.msg \notin dropped

\* What is known of one message: no failure is counted before it is queued, it
\* is given up after the last attempt, and if it is neither in the outbox nor
\* given up it shows.
MessageOf(m) ==
  /\ first[m] # "queued" => failed[m] = 0 /\ m \notin dropped
  /\ m \in dropped => failed[m] = MaxAttempts + 1
  /\ first[m] \in {"taken", "sent"} => visible[m] > 0
  /\ first[m] = "queued" /\ ~HasRow(m) /\ m \notin dropped => visible[m] > 0
MessageInv == \A m \in Msgs : MessageOf(m)

TakenShows ==
  \A t \in Ticks : \A row \in trying[t].rows : trying[t].taken => visible[row.msg] > 0

\* Whether the channel has taken a send of m that has not come back yet, or
\* that will never be accounted for.
TakenNow(m) ==
  \/ first[m] \in {"taken", "sent", "lost"}
  \/ first[m] = "queued" /\ ~HasRow(m)
  \/ \E t \in Ticks : trying[t].taken /\ \E row \in trying[t].rows : row.msg = m

CauseOf(m) ==
  /\ visible[m] <= unseen[m] + 1
  /\ ~TakenNow(m) => visible[m] <= unseen[m]
  /\ first[m] = "new" => visible[m] = 0
CauseInv == \A m \in Msgs : CauseOf(m)

IInv == TypeOK /\ OneDrain /\ SnapshotInv /\ RowsInv /\ MessageInv /\ TakenShows /\ CauseInv
-----------------------------------------------------------------------------
(* Facts about the operators. *)

\* Plus counts one for one message.
LEMMA PlusCounts ==
  ASSUME NEW f \in [Msgs -> Nat], NEW m \in Msgs
  PROVE  /\ Plus(f, m) \in [Msgs -> Nat]
         /\ Plus(f, m)[m] = f[m] + 1
         /\ \A n \in Msgs : n # m => Plus(f, m)[n] = f[n]
  BY DEF Plus

\* A message the channel takes shows once more or, if its key is honoured and
\* it shows already, not again.
LEMMA TakesCounts ==
  ASSUME visible \in [Msgs -> Nat], NEW m \in Msgs, Takes(m)
  PROVE  /\ visible' \in [Msgs -> Nat]
         /\ visible'[m] > 0 /\ visible'[m] >= visible[m] /\ visible'[m] <= visible[m] + 1
         /\ \A n \in Msgs : n # m => visible'[n] = visible[n]
<1>1. CASE m \in Honoured /\ visible[m] > 0
  BY <1>1 DEF Takes
<1>2. CASE ~(m \in Honoured /\ visible[m] > 0)
  BY <1>2, PlusCounts DEF Takes
<1>3. QED BY <1>1, <1>2

\* What a row becomes when its backoff has elapsed or it has failed again.
LEMMA RowUpdates ==
  ASSUME NEW row \in RowType
  PROVE  /\ [row EXCEPT !.due = TRUE] \in RowType
         /\ [row EXCEPT !.due = TRUE].msg = row.msg
         /\ [row EXCEPT !.due = TRUE].attempt = row.attempt
         /\ [row EXCEPT !.attempt = @ + 1, !.due = FALSE] \in RowType
         /\ [row EXCEPT !.attempt = @ + 1, !.due = FALSE].msg = row.msg
         /\ [row EXCEPT !.attempt = @ + 1, !.due = FALSE].attempt = row.attempt + 1
<1>1. /\ [row EXCEPT !.due = TRUE] \in RowType
      /\ [row EXCEPT !.due = TRUE].msg = row.msg
      /\ [row EXCEPT !.due = TRUE].attempt = row.attempt
  BY DEF RowType
<1> DEFINE counted == [row EXCEPT !.attempt = row.attempt + 1]
<1>2. /\ counted \in RowType
      /\ counted.msg = row.msg /\ counted.attempt = row.attempt + 1
  BY DEF RowType
<1>3. [row EXCEPT !.attempt = @ + 1, !.due = FALSE] = [counted EXCEPT !.due = FALSE]
  BY DEF RowType
<1> HIDE DEF counted
<1>4. /\ [counted EXCEPT !.due = FALSE] \in RowType
      /\ [counted EXCEPT !.due = FALSE].msg = counted.msg
      /\ [counted EXCEPT !.due = FALSE].attempt = counted.attempt
  BY <1>2 DEF RowType
<1>5. QED BY <1>1, <1>2, <1>3, <1>4

\* The row of a message that is parked for the first time.
LEMMA RowFresh ==
  ASSUME NEW m \in Msgs
  PROVE  Row(m) \in RowType /\ Row(m).msg = m /\ Row(m).attempt = 0
  BY DEF Row, RowType

-----------------------------------------------------------------------------
(* Each part of the invariant is preserved by every step. *)

\* Every step keeps the state well typed, with one row per message that has
\* attempts left.
LEMMA TypePreserved ==
  ASSUME TypeOK, RowsInv, SnapshotInv, [Next]_vars
  PROVE  TypeOK'
<1>1. ASSUME NEW m \in Msgs, Dispatch(m)
       PROVE  TypeOK'
  BY <1>1 DEF TypeOK, Dispatch, history
<1>2. ASSUME NEW m \in Msgs, FirstTaken(m)
       PROVE  TypeOK'
  BY <1>2 DEF TypeOK, FirstTaken, Takes, Plus
<1>3. ASSUME NEW m \in Msgs, FirstSucceeds(m)
       PROVE  TypeOK'
  BY <1>3 DEF TypeOK, FirstSucceeds, history
<1>4. ASSUME NEW m \in Msgs, FirstFails(m)
       PROVE  TypeOK'
  <2>1. outbox' = outbox \cup {Row(m)} /\ \A r \in outbox : r.msg # m
    BY <1>4 DEF FirstFails, Enqueue, RowsInv
  <2>2. /\ outbox' \in SUBSET RowType
        /\ \A r, q \in outbox' : r.msg = q.msg => r = q
        /\ \A r \in outbox' : r.attempt < MaxAttempts
    BY <2>1, RowFresh, MaxAttemptsAssumption DEF TypeOK
  <2>3. failed' \in [Msgs -> Nat] /\ unseen' \in [Msgs -> Nat]
    BY <1>4, PlusCounts DEF FirstFails, TypeOK
  <2>4. first' \in [Msgs -> {"new", "sending", "taken", "sent", "queued", "lost"}]
    BY <1>4 DEF FirstFails, TypeOK
  <2>5. QED BY <1>4, <2>2, <2>3 DEF FirstFails, TypeOK
<1>5. ASSUME NEW row \in outbox, BackoffElapses(row)
       PROVE  TypeOK'
  <2> DEFINE late == [row EXCEPT !.due = TRUE]
  <2>1. late \in RowType /\ late.msg = row.msg /\ late.attempt = row.attempt
    BY RowUpdates DEF TypeOK
  <2>2. outbox' = (outbox \ {row}) \cup {late}
    BY <1>5 DEF BackoffElapses
  <2> HIDE DEF late
  <2>3. /\ outbox' \in SUBSET RowType
        /\ \A r, q \in outbox' : r.msg = q.msg => r = q
        /\ \A r \in outbox' : r.attempt < MaxAttempts
    BY <2>1, <2>2 DEF TypeOK
  <2>4. QED BY <1>5, <2>3 DEF BackoffElapses, TypeOK, history
<1>6. ASSUME NEW t \in Ticks, DrainStarts(t)
       PROVE  TypeOK'
  BY <1>6 DEF TypeOK, DrainStarts, Due, history
<1>7. ASSUME NEW t \in Ticks, DrainEnds(t)
       PROVE  TypeOK'
  BY <1>7 DEF TypeOK, DrainEnds, Idle, history
<1>8. ASSUME NEW t \in Ticks, NEW row \in drains[t].rows, AttemptStarts(t, row)
       PROVE  TypeOK'
  <2>1. trying' \in [Ticks -> [rows : SUBSET RowType, taken : BOOLEAN]]
    BY <1>8 DEF TypeOK, AttemptStarts
  <2>2. drains' \in [Ticks -> [rows : SUBSET RowType, busy : BOOLEAN]]
    BY <1>8 DEF TypeOK, AttemptStarts
  <2> QED BY <1>8, <2>1, <2>2 DEF TypeOK, AttemptStarts, history
<1>9. ASSUME NEW t \in Ticks, NEW row \in trying[t].rows, AttemptTaken(t, row)
       PROVE  TypeOK'
  <2>1. row.msg \in Msgs
    BY <1>9 DEF AttemptTaken, TypeOK, RowType
  <2>2. visible' \in [Msgs -> Nat]
    BY <1>9, <2>1, TakesCounts DEF AttemptTaken, TypeOK
  <2>3. trying' \in [Ticks -> [rows : SUBSET RowType, taken : BOOLEAN]]
    BY <1>9 DEF AttemptTaken, TypeOK
  <2>4. QED BY <1>9, <2>2, <2>3 DEF AttemptTaken, TypeOK
<1>10. ASSUME NEW t \in Ticks, NEW row \in trying[t].rows, AttemptSucceeds(t, row)
       PROVE  TypeOK'
  BY <1>10 DEF TypeOK, AttemptSucceeds, Delivered, Deleted, Nothing, history
<1>11. ASSUME NEW t \in Ticks, NEW row \in trying[t].rows, AttemptFails(t, row)
       PROVE  TypeOK'
  <2> DEFINE again == [row EXCEPT !.attempt = @ + 1, !.due = FALSE]
  <2>1. row \in outbox /\ row \in RowType /\ row.msg \in Msgs
    BY DEF SnapshotInv, TypeOK, RowType
  <2>2. again \in RowType /\ again.msg = row.msg /\ again.attempt = row.attempt + 1
    BY <2>1, RowUpdates
  <2>3. outbox' = IF IsLast(row) THEN Deleted(row) ELSE Deleted(row) \cup {again}
    BY <1>11 DEF AttemptFails, RecordFailure
  <2> HIDE DEF again
  <2>4. /\ outbox' \in SUBSET RowType
        /\ \A r, q \in outbox' : r.msg = q.msg => r = q
    BY <2>2, <2>3 DEF TypeOK, Deleted
  <2>5. \A r \in outbox' : r.attempt < MaxAttempts
    BY <2>2, <2>3, MaxAttemptsAssumption DEF TypeOK, Deleted, IsLast, RowType
  <2>6. failed' \in [Msgs -> Nat] /\ unseen' \in [Msgs -> Nat]
    BY <1>11, <2>1, PlusCounts DEF AttemptFails, TypeOK
  <2>7. /\ trying' \in [Ticks -> [rows : SUBSET RowType, taken : BOOLEAN]]
        /\ dropped' \in SUBSET Msgs
    BY <1>11, <2>1 DEF AttemptFails, Nothing, TypeOK
  <2>8. QED BY <1>11, <2>4, <2>5, <2>6, <2>7 DEF AttemptFails, TypeOK
<1>12. ASSUME Stop
       PROVE  TypeOK'
  BY <1>12 DEF TypeOK, Stop, history
<1>13. ASSUME GoesDown
       PROVE  TypeOK'
  <2>1. first' \in [Msgs -> {"new", "sending", "taken", "sent", "queued", "lost"}]
    BY <1>13 DEF GoesDown, InFlight, TypeOK
  <2>2. unseen' \in [Msgs -> Nat]
    BY <1>13 DEF GoesDown, TypeOK
  <2>3. /\ drains' \in [Ticks -> [rows : SUBSET RowType, busy : BOOLEAN]]
        /\ trying' \in [Ticks -> [rows : SUBSET RowType, taken : BOOLEAN]]
    BY <1>13 DEF GoesDown, Idle, Nothing
  <2>4. /\ daemon' = "down" /\ draining' = FALSE /\ crashes' = crashes + 1
        /\ outbox' = outbox /\ visible' = visible /\ failed' = failed /\ dropped' = dropped
    BY <1>13 DEF GoesDown
  <2>5. crashes' \in Nat
    BY <2>4 DEF TypeOK
  <2>6. QED BY <2>1, <2>2, <2>3, <2>4, <2>5 DEF TypeOK
<1>14. ASSUME Start
       PROVE  TypeOK'
  BY <1>14 DEF TypeOK, Start, history
<1>15. ASSUME UNCHANGED vars
       PROVE  TypeOK'
  BY <1>15 DEF TypeOK, vars
<1>16. QED
  BY <1>1, <1>2, <1>3, <1>4, <1>5, <1>6, <1>7, <1>8, <1>9, <1>10, <1>11, <1>12, <1>13, <1>14, <1>15 DEF Next, DrainStep

\* The re-entry flag admits one drain at a time.
LEMMA OneDrainPreserved ==
  ASSUME TypeOK, OneDrain, [Next]_vars
  PROVE  OneDrain'
<1>1. ASSUME NEW m \in Msgs, Dispatch(m)
       PROVE  OneDrain'
  BY <1>1 DEF OneDrain, Dispatch
<1>2. ASSUME NEW m \in Msgs, FirstTaken(m)
       PROVE  OneDrain'
  BY <1>2 DEF OneDrain, FirstTaken
<1>3. ASSUME NEW m \in Msgs, FirstSucceeds(m)
       PROVE  OneDrain'
  BY <1>3 DEF OneDrain, FirstSucceeds
<1>4. ASSUME NEW m \in Msgs, FirstFails(m)
       PROVE  OneDrain'
  BY <1>4 DEF OneDrain, FirstFails
<1>5. ASSUME NEW row \in outbox, BackoffElapses(row)
       PROVE  OneDrain'
  BY <1>5 DEF OneDrain, BackoffElapses
<1>6. ASSUME NEW t \in Ticks, DrainStarts(t)
       PROVE  OneDrain'
  BY <1>6 DEF OneDrain, DrainStarts, MayDrain
<1>7. ASSUME NEW t \in Ticks, DrainEnds(t)
       PROVE  OneDrain'
  BY <1>7 DEF TypeOK, OneDrain, DrainEnds, Idle
<1>8. ASSUME NEW t \in Ticks, NEW row \in drains[t].rows, AttemptStarts(t, row)
       PROVE  OneDrain'
  BY <1>8 DEF TypeOK, OneDrain, AttemptStarts
<1>9. ASSUME NEW t \in Ticks, NEW row \in trying[t].rows, AttemptTaken(t, row)
       PROVE  OneDrain'
  BY <1>9 DEF OneDrain, AttemptTaken
<1>10. ASSUME NEW t \in Ticks, NEW row \in trying[t].rows, AttemptSucceeds(t, row)
       PROVE  OneDrain'
  BY <1>10 DEF OneDrain, AttemptSucceeds, Nothing
<1>11. ASSUME NEW t \in Ticks, NEW row \in trying[t].rows, AttemptFails(t, row)
       PROVE  OneDrain'
  BY <1>11 DEF OneDrain, AttemptFails, Nothing
<1>12. ASSUME Stop
       PROVE  OneDrain'
  BY <1>12 DEF OneDrain, Stop
<1>13. ASSUME GoesDown
       PROVE  OneDrain'
  BY <1>13 DEF OneDrain, GoesDown, Idle, Nothing
<1>14. ASSUME Start
       PROVE  OneDrain'
  BY <1>14 DEF OneDrain, Start
<1>15. ASSUME UNCHANGED vars
       PROVE  OneDrain'
  BY <1>15 DEF OneDrain, vars
<1>16. QED
  BY <1>1, <1>2, <1>3, <1>4, <1>5, <1>6, <1>7, <1>8, <1>9, <1>10, <1>11, <1>12, <1>13, <1>14, <1>15 DEF Next, DrainStep

\* What a drain has read stays in the outbox until the drain itself takes it out.
LEMMA SnapshotPreserved ==
  ASSUME TypeOK, OneDrain, SnapshotInv, [Next]_vars
  PROVE  SnapshotInv'
<1>1. ASSUME NEW m \in Msgs, Dispatch(m)
       PROVE  SnapshotInv'
  BY <1>1 DEF SnapshotInv, Dispatch
<1>2. ASSUME NEW m \in Msgs, FirstTaken(m)
       PROVE  SnapshotInv'
  BY <1>2 DEF SnapshotInv, FirstTaken
<1>3. ASSUME NEW m \in Msgs, FirstSucceeds(m)
       PROVE  SnapshotInv'
  BY <1>3 DEF SnapshotInv, FirstSucceeds
<1>4. ASSUME NEW m \in Msgs, FirstFails(m)
       PROVE  SnapshotInv'
  BY <1>4 DEF SnapshotInv, FirstFails, Enqueue
<1>5. ASSUME NEW row \in outbox, BackoffElapses(row)
       PROVE  SnapshotInv'
  BY <1>5 DEF SnapshotInv, BackoffElapses
<1>6. ASSUME NEW t \in Ticks, DrainStarts(t)
       PROVE  SnapshotInv'
  BY <1>6 DEF SnapshotInv, DrainStarts, Due
<1>7. ASSUME NEW t \in Ticks, DrainEnds(t)
       PROVE  SnapshotInv'
  BY <1>7 DEF SnapshotInv, DrainEnds, Idle
<1>8. ASSUME NEW t \in Ticks, NEW row \in drains[t].rows, AttemptStarts(t, row)
       PROVE  SnapshotInv'
  BY <1>8 DEF SnapshotInv, AttemptStarts
<1>9. ASSUME NEW t \in Ticks, NEW row \in trying[t].rows, AttemptTaken(t, row)
       PROVE  SnapshotInv'
  BY <1>9 DEF SnapshotInv, AttemptTaken
<1>10. ASSUME NEW t \in Ticks, NEW row \in trying[t].rows, AttemptSucceeds(t, row)
       PROVE  SnapshotInv'
  BY <1>10 DEF TypeOK, OneDrain, SnapshotInv, AttemptSucceeds, Delivered, Deleted, Nothing
<1>11. ASSUME NEW t \in Ticks, NEW row \in trying[t].rows, AttemptFails(t, row)
       PROVE  SnapshotInv'
  BY <1>11 DEF TypeOK, OneDrain, SnapshotInv, AttemptFails, Deleted, RecordFailure, Nothing
<1>12. ASSUME Stop
       PROVE  SnapshotInv'
  BY <1>12 DEF SnapshotInv, Stop
<1>13. ASSUME GoesDown
       PROVE  SnapshotInv'
  BY <1>13 DEF SnapshotInv, GoesDown, Idle, Nothing
<1>14. ASSUME Start
       PROVE  SnapshotInv'
  BY <1>14 DEF SnapshotInv, Start
<1>15. ASSUME UNCHANGED vars
       PROVE  SnapshotInv'
  BY <1>15 DEF SnapshotInv, vars
<1>16. QED
  BY <1>1, <1>2, <1>3, <1>4, <1>5, <1>6, <1>7, <1>8, <1>9, <1>10, <1>11, <1>12, <1>13, <1>14, <1>15 DEF Next, DrainStep

\* Rows stand for queued messages and count their failures.
LEMMA RowsPreserved ==
  ASSUME TypeOK, OneDrain, SnapshotInv, RowsInv, MessageInv, [Next]_vars
  PROVE  RowsInv'
<1>1. ASSUME NEW m \in Msgs, Dispatch(m)
       PROVE  RowsInv'
  BY <1>1 DEF RowsInv, Dispatch, history
<1>2. ASSUME NEW m \in Msgs, FirstTaken(m)
       PROVE  RowsInv'
  BY <1>2 DEF RowsInv, FirstTaken
<1>3. ASSUME NEW m \in Msgs, FirstSucceeds(m)
       PROVE  RowsInv'
  BY <1>3 DEF RowsInv, FirstSucceeds, history
<1>4. ASSUME NEW m \in Msgs, FirstFails(m)
       PROVE  RowsInv'
  BY <1>4 DEF TypeOK, RowsInv, MessageInv, MessageOf, FirstFails, Enqueue, Plus, Row
<1>5. ASSUME NEW row \in outbox, BackoffElapses(row)
       PROVE  RowsInv'
  BY <1>5 DEF TypeOK, OneDrain, RowsInv, RowType, BackoffElapses, history
<1>6. ASSUME NEW t \in Ticks, DrainStarts(t)
       PROVE  RowsInv'
  BY <1>6 DEF RowsInv, DrainStarts, history
<1>7. ASSUME NEW t \in Ticks, DrainEnds(t)
       PROVE  RowsInv'
  BY <1>7 DEF RowsInv, DrainEnds, history
<1>8. ASSUME NEW t \in Ticks, NEW row \in drains[t].rows, AttemptStarts(t, row)
       PROVE  RowsInv'
  BY <1>8 DEF RowsInv, AttemptStarts, history
<1>9. ASSUME NEW t \in Ticks, NEW row \in trying[t].rows, AttemptTaken(t, row)
       PROVE  RowsInv'
  BY <1>9 DEF RowsInv, AttemptTaken
<1>10. ASSUME NEW t \in Ticks, NEW row \in trying[t].rows, AttemptSucceeds(t, row)
       PROVE  RowsInv'
  BY <1>10 DEF RowsInv, AttemptSucceeds, Delivered, Deleted, history
<1>11. ASSUME NEW t \in Ticks, NEW row \in trying[t].rows, AttemptFails(t, row)
       PROVE  RowsInv'
  <2> DEFINE again == [row EXCEPT !.attempt = @ + 1, !.due = FALSE]
  <2>1. row \in outbox /\ row \in RowType /\ row.msg \in Msgs
    BY DEF SnapshotInv, TypeOK, RowType
  <2>2. again.msg = row.msg /\ again.attempt = row.attempt + 1
    BY <2>1, RowUpdates
  <2>3. outbox' = IF IsLast(row) THEN Deleted(row) ELSE Deleted(row) \cup {again}
    BY <1>11 DEF AttemptFails, RecordFailure
  <2>4. /\ failed'[row.msg] = failed[row.msg] + 1
        /\ \A n \in Msgs : n # row.msg => failed'[n] = failed[n]
    BY <1>11, <2>1, PlusCounts DEF AttemptFails, TypeOK
  <2> HIDE DEF again
  <2>5. ASSUME NEW r \in Deleted(row)
        PROVE  first'[r.msg] = "queued" /\ failed'[r.msg] = r.attempt + 1 /\ r.msg \notin dropped'
    BY <1>11, <2>4 DEF AttemptFails, Deleted, RowsInv, TypeOK, RowType
  <2>6. ASSUME ~IsLast(row)
        PROVE  first'[again.msg] = "queued" /\ failed'[again.msg] = again.attempt + 1
                 /\ again.msg \notin dropped'
    BY <1>11, <2>1, <2>2, <2>4, <2>6 DEF AttemptFails, RowsInv
  <2>7. QED BY <2>3, <2>5, <2>6 DEF RowsInv
<1>12. ASSUME Stop
       PROVE  RowsInv'
  BY <1>12 DEF RowsInv, Stop, history
<1>13. ASSUME GoesDown
       PROVE  RowsInv'
  BY <1>13 DEF TypeOK, RowsInv, RowType, GoesDown, InFlight
<1>14. ASSUME Start
       PROVE  RowsInv'
  BY <1>14 DEF RowsInv, Start, history
<1>15. ASSUME UNCHANGED vars
       PROVE  RowsInv'
  BY <1>15 DEF RowsInv, vars
<1>16. QED
  BY <1>1, <1>2, <1>3, <1>4, <1>5, <1>6, <1>7, <1>8, <1>9, <1>10, <1>11, <1>12, <1>13, <1>14, <1>15 DEF Next, DrainStep

\* A queued message without a row was shown or was given up after all attempts.
LEMMA MessagePreserved ==
  ASSUME TypeOK, OneDrain, SnapshotInv, RowsInv, MessageInv, TakenShows, [Next]_vars
  PROVE  MessageInv'
<1>1. ASSUME NEW m \in Msgs, Dispatch(m)
       PROVE  MessageInv'
  BY <1>1 DEF MessageInv, MessageOf, HasRow, Dispatch, history
<1>2. ASSUME NEW m \in Msgs, FirstTaken(m)
       PROVE  MessageInv'
  BY <1>2 DEF TypeOK, MessageInv, MessageOf, HasRow, FirstTaken, Takes, Plus
<1>3. ASSUME NEW m \in Msgs, FirstSucceeds(m)
       PROVE  MessageInv'
  BY <1>3 DEF MessageInv, MessageOf, HasRow, FirstSucceeds, history
<1>4. ASSUME NEW m \in Msgs, FirstFails(m)
       PROVE  MessageInv'
  <2>1. /\ failed'[m] = failed[m] + 1
        /\ \A n \in Msgs : n # m => failed'[n] = failed[n]
    BY <1>4, PlusCounts DEF FirstFails, TypeOK
  <2>2. /\ first'[m] = "queued"
        /\ \A n \in Msgs : n # m => first'[n] = first[n]
    BY <1>4 DEF FirstFails, TypeOK
  <2>3. /\ HasRow(m)'
        /\ \A n \in Msgs : HasRow(n) => HasRow(n)'
    BY <1>4, RowFresh DEF FirstFails, Enqueue, HasRow
  <2>4. m \notin dropped' /\ dropped' = dropped /\ visible' = visible
    BY <1>4 DEF FirstFails, MessageInv, MessageOf
  <2>5. QED BY <2>1, <2>2, <2>3, <2>4 DEF MessageInv, MessageOf
<1>5. ASSUME NEW row \in outbox, BackoffElapses(row)
       PROVE  MessageInv'
  <2> DEFINE late == [row EXCEPT !.due = TRUE]
  <2>0. outbox' = (outbox \ {row}) \cup {late} /\ late.msg = row.msg
    BY <1>5, RowUpdates DEF BackoffElapses, TypeOK
  <2> HIDE DEF late
  <2>1. \A n \in Msgs : HasRow(n) => HasRow(n)'
    BY <2>0 DEF HasRow
  <2>2. QED BY <1>5, <2>1 DEF BackoffElapses, MessageInv, MessageOf, history
<1>6. ASSUME NEW t \in Ticks, DrainStarts(t)
       PROVE  MessageInv'
  BY <1>6 DEF MessageInv, MessageOf, HasRow, DrainStarts, history
<1>7. ASSUME NEW t \in Ticks, DrainEnds(t)
       PROVE  MessageInv'
  BY <1>7 DEF MessageInv, MessageOf, HasRow, DrainEnds, history
<1>8. ASSUME NEW t \in Ticks, NEW row \in drains[t].rows, AttemptStarts(t, row)
       PROVE  MessageInv'
  BY <1>8 DEF MessageInv, MessageOf, HasRow, AttemptStarts, history
<1>9. ASSUME NEW t \in Ticks, NEW row \in trying[t].rows, AttemptTaken(t, row)
       PROVE  MessageInv'
  BY <1>9 DEF SnapshotInv, RowsInv, MessageInv, MessageOf, HasRow, AttemptTaken, Takes, Plus
<1>10. ASSUME NEW t \in Ticks, NEW row \in trying[t].rows, AttemptSucceeds(t, row)
       PROVE  MessageInv'
  BY <1>10 DEF MessageInv, MessageOf, TakenShows, HasRow, AttemptSucceeds, Delivered, Deleted, history
<1>11. ASSUME NEW t \in Ticks, NEW row \in trying[t].rows, AttemptFails(t, row)
       PROVE  MessageInv'
  <2>1. row \in outbox /\ row \in RowType /\ row.msg \in Msgs
    BY DEF SnapshotInv, TypeOK, RowType
  <2>2. /\ failed'[row.msg] = failed[row.msg] + 1
        /\ \A n \in Msgs : n # row.msg => failed'[n] = failed[n]
    BY <1>11, <2>1, PlusCounts DEF AttemptFails, TypeOK
  <2>3. failed[row.msg] = row.attempt + 1 /\ first[row.msg] = "queued"
    BY <2>1 DEF RowsInv
  <2>4. \A n \in Msgs : n # row.msg /\ HasRow(n) => HasRow(n)'
    BY <1>11 DEF AttemptFails, RecordFailure, Deleted, HasRow
  <2>5. first' = first /\ visible' = visible
    BY <1>11 DEF AttemptFails
  <2>6. ASSUME NEW n \in Msgs, n # row.msg
        PROVE  MessageOf(n)'
    BY <1>11, <2>2, <2>4, <2>6 DEF AttemptFails, MessageInv, MessageOf
  <2>7. CASE IsLast(row)
    <3>1. row.msg \in dropped' /\ row.attempt + 1 = MaxAttempts
      <4>1. row.attempt \in Nat /\ row.attempt < MaxAttempts
        BY <2>1 DEF TypeOK, RowType
      <4>2. row.attempt + 1 = MaxAttempts
        BY <2>7, <4>1, MaxAttemptsAssumption DEF IsLast
      <4>3. row.msg \in dropped'
        BY <1>11, <2>7 DEF AttemptFails
      <4>4. QED BY <4>2, <4>3
    <3>2. QED BY <2>2, <2>3, <2>5, <2>6, <3>1 DEF MessageInv, MessageOf
  <2>8. CASE ~IsLast(row)
    <3>1. dropped' = dropped /\ row.msg \notin dropped
      BY <1>11, <2>1, <2>8 DEF AttemptFails, RowsInv
    <3>2. HasRow(row.msg)'
      BY <1>11, <2>1, <2>8, RowUpdates DEF AttemptFails, RecordFailure, HasRow
    <3>3. QED BY <2>3, <2>5, <2>6, <3>1, <3>2 DEF MessageInv, MessageOf
  <2>9. QED BY <2>7, <2>8
<1>12. ASSUME Stop
       PROVE  MessageInv'
  BY <1>12 DEF MessageInv, MessageOf, HasRow, Stop, history
<1>13. ASSUME GoesDown
       PROVE  MessageInv'
  BY <1>13 DEF MessageInv, MessageOf, HasRow, GoesDown, InFlight
<1>14. ASSUME Start
       PROVE  MessageInv'
  BY <1>14 DEF MessageInv, MessageOf, HasRow, Start, history
<1>15. ASSUME UNCHANGED vars
       PROVE  MessageInv'
  BY <1>15 DEF MessageInv, MessageOf, HasRow, vars
<1>16. QED
  BY <1>1, <1>2, <1>3, <1>4, <1>5, <1>6, <1>7, <1>8, <1>9, <1>10, <1>11, <1>12, <1>13, <1>14, <1>15 DEF Next, DrainStep

\* A send that the channel has taken shows.
LEMMA TakenPreserved ==
  ASSUME TypeOK, OneDrain, TakenShows, [Next]_vars
  PROVE  TakenShows'
<1>1. ASSUME NEW m \in Msgs, Dispatch(m)
       PROVE  TakenShows'
  BY <1>1 DEF TakenShows, Dispatch, history
<1>2. ASSUME NEW m \in Msgs, FirstTaken(m)
       PROVE  TakenShows'
  BY <1>2 DEF TypeOK, TakenShows, FirstTaken, Takes, Plus
<1>3. ASSUME NEW m \in Msgs, FirstSucceeds(m)
       PROVE  TakenShows'
  BY <1>3 DEF TakenShows, FirstSucceeds, history
<1>4. ASSUME NEW m \in Msgs, FirstFails(m)
       PROVE  TakenShows'
  BY <1>4 DEF TakenShows, FirstFails
<1>5. ASSUME NEW row \in outbox, BackoffElapses(row)
       PROVE  TakenShows'
  BY <1>5 DEF TakenShows, BackoffElapses, history
<1>6. ASSUME NEW t \in Ticks, DrainStarts(t)
       PROVE  TakenShows'
  BY <1>6 DEF TakenShows, DrainStarts, history
<1>7. ASSUME NEW t \in Ticks, DrainEnds(t)
       PROVE  TakenShows'
  BY <1>7 DEF TakenShows, DrainEnds, history
<1>8. ASSUME NEW t \in Ticks, NEW row \in drains[t].rows, AttemptStarts(t, row)
       PROVE  TakenShows'
  BY <1>8 DEF TakenShows, AttemptStarts, history
<1>9. ASSUME NEW t \in Ticks, NEW row \in trying[t].rows, AttemptTaken(t, row)
       PROVE  TakenShows'
  BY <1>9 DEF TypeOK, OneDrain, TakenShows, RowType, AttemptTaken, Takes, Plus
<1>10. ASSUME NEW t \in Ticks, NEW row \in trying[t].rows, AttemptSucceeds(t, row)
       PROVE  TakenShows'
  BY <1>10 DEF TakenShows, AttemptSucceeds, Nothing, history
<1>11. ASSUME NEW t \in Ticks, NEW row \in trying[t].rows, AttemptFails(t, row)
       PROVE  TakenShows'
  BY <1>11 DEF TakenShows, AttemptFails, Nothing
<1>12. ASSUME Stop
       PROVE  TakenShows'
  BY <1>12 DEF TakenShows, Stop, history
<1>13. ASSUME GoesDown
       PROVE  TakenShows'
  BY <1>13 DEF TakenShows, GoesDown, Nothing
<1>14. ASSUME Start
       PROVE  TakenShows'
  BY <1>14 DEF TakenShows, Start, history
<1>15. ASSUME UNCHANGED vars
       PROVE  TakenShows'
  BY <1>15 DEF TakenShows, vars
<1>16. QED
  BY <1>1, <1>2, <1>3, <1>4, <1>5, <1>6, <1>7, <1>8, <1>9, <1>10, <1>11, <1>12, <1>13, <1>14, <1>15 DEF Next, DrainStep

\* Each copy beyond the first is accounted for by an outcome that was lost.
LEMMA CausePreserved ==
  ASSUME TypeOK, OneDrain, SnapshotInv, RowsInv, MessageInv, CauseInv, [Next]_vars
  PROVE  CauseInv'
<1>1. ASSUME NEW m \in Msgs, Dispatch(m)
       PROVE  CauseInv'
  BY <1>1 DEF CauseInv, CauseOf, TakenNow, HasRow, Dispatch, history
<1>2. ASSUME NEW m \in Msgs, FirstTaken(m)
       PROVE  CauseInv'
  BY <1>2 DEF TypeOK, SnapshotInv, RowsInv, CauseInv, CauseOf, TakenNow, HasRow, FirstTaken, Takes, Plus
<1>3. ASSUME NEW m \in Msgs, FirstSucceeds(m)
       PROVE  CauseInv'
  BY <1>3 DEF CauseInv, CauseOf, TakenNow, HasRow, FirstSucceeds, history
<1>4. ASSUME NEW m \in Msgs, FirstFails(m)
       PROVE  CauseInv'
  BY <1>4 DEF TypeOK, CauseInv, CauseOf, TakenNow, HasRow, FirstFails, Enqueue, Plus, Row
<1>5. ASSUME NEW row \in outbox, BackoffElapses(row)
       PROVE  CauseInv'
  BY <1>5 DEF TypeOK, CauseInv, CauseOf, TakenNow, HasRow, RowType, BackoffElapses, history
<1>6. ASSUME NEW t \in Ticks, DrainStarts(t)
       PROVE  CauseInv'
  BY <1>6 DEF CauseInv, CauseOf, TakenNow, HasRow, DrainStarts, history
<1>7. ASSUME NEW t \in Ticks, DrainEnds(t)
       PROVE  CauseInv'
  BY <1>7 DEF CauseInv, CauseOf, TakenNow, HasRow, DrainEnds, history
<1>8. ASSUME NEW t \in Ticks, NEW row \in drains[t].rows, AttemptStarts(t, row)
       PROVE  CauseInv'
  BY <1>8 DEF CauseInv, CauseOf, TakenNow, HasRow, AttemptStarts, history
<1>9. ASSUME NEW t \in Ticks, NEW row \in trying[t].rows, AttemptTaken(t, row)
       PROVE  CauseInv'
  <2>1. row \in outbox /\ row.msg \in Msgs
    BY DEF SnapshotInv, TypeOK, RowType
  <2>2. /\ first[row.msg] = "queued" /\ first' = first /\ unseen' = unseen /\ outbox' = outbox
    BY <1>9, <2>1 DEF AttemptTaken, RowsInv
  <2>3. ~TakenNow(row.msg)
    BY <1>9, <2>1, <2>2 DEF AttemptTaken, OneDrain, TakenNow, HasRow
  <2>4. TakenNow(row.msg)'
    BY <1>9 DEF AttemptTaken, TakenNow, TypeOK
  <2>5. \A n \in Msgs : TakenNow(n) => TakenNow(n)'
    BY <1>9, <2>2 DEF AttemptTaken, TakenNow, HasRow, TypeOK
  <2>6. /\ visible' \in [Msgs -> Nat] /\ visible'[row.msg] <= visible[row.msg] + 1
        /\ \A n \in Msgs : n # row.msg => visible'[n] = visible[n]
    BY <1>9, <2>1, TakesCounts DEF AttemptTaken, TypeOK
  <2>7. visible[row.msg] \in Nat /\ unseen[row.msg] \in Nat
    BY <2>1 DEF TypeOK
  <2>8. CauseOf(row.msg)'
    BY <2>1, <2>2, <2>3, <2>4, <2>6, <2>7 DEF CauseInv, CauseOf
  <2>9. \A n \in Msgs : n # row.msg => CauseOf(n)'
    BY <2>2, <2>5, <2>6 DEF CauseInv, CauseOf
  <2> QED BY <2>8, <2>9 DEF CauseInv
<1>10. ASSUME NEW t \in Ticks, NEW row \in trying[t].rows, AttemptSucceeds(t, row)
       PROVE  CauseInv'
  <2>1. row \in outbox /\ row \in RowType /\ row.msg \in Msgs
    BY DEF SnapshotInv, TypeOK, RowType
  <2>2. \A u \in Ticks : u # t => trying[u].rows = {} /\ ~trying[u].taken
    BY <1>10 DEF AttemptSucceeds, OneDrain
  <2>3. \A r \in trying[t].rows : r = row
    BY <1>10 DEF AttemptSucceeds, OneDrain
  <2>4. /\ first[row.msg] = "queued" /\ first' = first
        /\ visible' = visible /\ unseen' = unseen
    BY <1>10, <2>1 DEF AttemptSucceeds, RowsInv, history
  <2>5. /\ ~HasRow(row.msg)'
        /\ \A n \in Msgs : HasRow(n)' => HasRow(n)
    BY <1>10 DEF AttemptSucceeds, Delivered, Deleted, HasRow
  <2>6. TakenNow(row.msg)'
    BY <2>4, <2>5 DEF TakenNow
  <2>7. ASSUME NEW n \in Msgs, n # row.msg, TakenNow(n)
        PROVE  TakenNow(n)'
    BY <2>2, <2>3, <2>4, <2>5, <2>7 DEF TakenNow
  <2>8. QED BY <2>4, <2>6, <2>7 DEF CauseInv, CauseOf
<1>11. ASSUME NEW t \in Ticks, NEW row \in trying[t].rows, AttemptFails(t, row)
       PROVE  CauseInv'
  <2>1. row \in outbox /\ row \in RowType /\ row.msg \in Msgs
    BY DEF SnapshotInv, TypeOK, RowType
  <2>2. \A u \in Ticks : u # t => trying[u].rows = {} /\ ~trying[u].taken
    BY <1>11 DEF AttemptFails, OneDrain
  <2>3. \A r \in trying[t].rows : r = row
    BY <1>11 DEF AttemptFails, OneDrain
  <2>4. first[row.msg] = "queued" /\ first' = first /\ visible' = visible
    BY <1>11, <2>1 DEF AttemptFails, RowsInv
  <2> DEFINE again == [row EXCEPT !.attempt = @ + 1, !.due = FALSE]
  <2>a. outbox' \subseteq Deleted(row) \cup {again} /\ again.msg = row.msg
    BY <1>11 DEF AttemptFails, RecordFailure
  <2> HIDE DEF again
  <2>5. \A n \in Msgs : n # row.msg => (HasRow(n)' => HasRow(n))
    BY <2>a DEF Deleted, HasRow
  <2>b. unseen' = IF trying[t].taken THEN Plus(unseen, row.msg) ELSE unseen
    BY <1>11 DEF AttemptFails
  <2>c. unseen \in [Msgs -> Nat]
    BY DEF TypeOK
  <2>6. /\ trying[t].taken => unseen'[row.msg] = unseen[row.msg] + 1
        /\ ~trying[t].taken => unseen' = unseen
        /\ \A n \in Msgs : n # row.msg => unseen'[n] = unseen[n]
    BY <2>1, <2>b, <2>c, PlusCounts
  <2>7. ASSUME NEW n \in Msgs, n # row.msg, TakenNow(n)
        PROVE  TakenNow(n)'
    BY <2>2, <2>3, <2>4, <2>5, <2>7 DEF TakenNow
  <2>8. ~trying[t].taken => ~TakenNow(row.msg)
    BY <2>1, <2>2, <2>4 DEF TakenNow, HasRow
  <2>9. visible[row.msg] <= unseen'[row.msg]
    BY <2>1, <2>6, <2>8 DEF CauseInv, CauseOf
  <2>10. ASSUME NEW n \in Msgs PROVE CauseOf(n)'
    <3>1. CASE n = row.msg
      <4>1. visible'[n] \in Nat /\ unseen'[n] \in Nat
        BY <1>11, <2>1, PlusCounts DEF AttemptFails, TypeOK
      <4>2. QED BY <2>4, <2>9, <3>1, <4>1 DEF CauseOf
    <3>2. CASE n # row.msg
      BY <2>4, <2>6, <2>7, <3>2 DEF CauseInv, CauseOf
    <3>3. QED BY <3>1, <3>2
  <2>11. QED BY <2>10 DEF CauseInv
<1>12. ASSUME Stop
       PROVE  CauseInv'
  BY <1>12 DEF CauseInv, CauseOf, TakenNow, HasRow, Stop, history
<1>13. ASSUME GoesDown
       PROVE  CauseInv'
  <2>1. /\ first' = [m \in Msgs |-> IF InFlight(m) THEN "lost" ELSE first[m]]
        /\ outbox' = outbox /\ visible' = visible
        /\ \A t \in Ticks : trying'[t].rows = {} /\ ~trying'[t].taken
    BY <1>13 DEF GoesDown, Nothing
  <2>2. ASSUME NEW n \in Msgs
        PROVE  \/ unseen'[n] = unseen[n]
               \/ /\ unseen'[n] = unseen[n] + 1
                  /\ \E t \in Ticks : trying[t].taken /\ \E row \in trying[t].rows : row.msg = n
    BY <1>13 DEF GoesDown
  <2>3. ASSUME NEW n \in Msgs
        PROVE  CauseOf(n)'
    <3>1. visible[n] \in Nat /\ unseen[n] \in Nat
      BY DEF TypeOK
    <3>2. first'[n] = IF InFlight(n) THEN "lost" ELSE first[n]
      BY <2>1
    <3>3. HasRow(n)' <=> HasRow(n)
      BY <2>1 DEF HasRow
    <3>4. TakenNow(n)' => TakenNow(n) \/ visible[n] <= unseen[n]
      BY <2>1, <3>2, <3>3 DEF TakenNow, InFlight, CauseInv, CauseOf
    <3>5. TakenNow(n) /\ ~TakenNow(n)' => unseen'[n] = unseen[n] + 1
      BY <1>13, <2>1, <3>2, <3>3 DEF TakenNow, InFlight, GoesDown
    <3>6. first'[n] = "new" => first[n] = "new"
      BY <3>2 DEF InFlight
    <3> QED BY <2>1, <2>2, <3>1, <3>4, <3>5, <3>6 DEF CauseInv, CauseOf
  <2> QED BY <2>3 DEF CauseInv
<1>14. ASSUME Start
       PROVE  CauseInv'
  BY <1>14 DEF CauseInv, CauseOf, TakenNow, HasRow, Start, history
<1>15. ASSUME UNCHANGED vars
       PROVE  CauseInv'
  BY <1>15 DEF CauseInv, CauseOf, TakenNow, HasRow, vars
<1>16. QED
  BY <1>1, <1>2, <1>3, <1>4, <1>5, <1>6, <1>7, <1>8, <1>9, <1>10, <1>11, <1>12, <1>13, <1>14, <1>15 DEF Next, DrainStep

-----------------------------------------------------------------------------
(* The theorems *)

\* The invariant holds in the initial state.
LEMMA InitInv == Init => IInv
<1> SUFFICES ASSUME Init PROVE IInv
  OBVIOUS
<1>1. TypeOK
  BY DEF Init, TypeOK, Idle, Nothing
<1>2. OneDrain
  BY DEF Init, OneDrain, Idle, Nothing
<1>3. SnapshotInv
  BY DEF Init, SnapshotInv, Idle, Nothing
<1>4. RowsInv
  BY DEF Init, RowsInv
<1>5. MessageInv
  BY DEF Init, MessageInv, MessageOf
<1>6. TakenShows
  BY DEF Init, TakenShows, Nothing
<1>7. CauseInv
  BY DEF Init, CauseInv, CauseOf
<1> QED BY <1>1, <1>2, <1>3, <1>4, <1>5, <1>6, <1>7 DEF IInv

\* The invariant holds in every reachable state.
THEOREM InvCorrect == Spec => []IInv
<1>1. IInv /\ [Next]_vars => IInv'
  BY TypePreserved, OneDrainPreserved, SnapshotPreserved, RowsPreserved,
     MessagePreserved, TakenPreserved, CausePreserved DEF IInv
<1>2. QED BY InitInv, <1>1, PTL DEF Spec

\* The outbox holds one row per message and no row that has no attempt left.
THEOREM TypeCorrect == Spec => []TypeOK
<1>1. IInv => TypeOK BY DEF IInv
<1>2. QED BY InvCorrect, <1>1, PTL

\* What a drain has read is current until it has tried it, whatever is parked,
\* dispatched or stopped meanwhile.
THEOREM SnapshotCorrect == Spec => []SnapshotIsFresh
<1>1. IInv => SnapshotIsFresh BY DEF IInv, SnapshotInv, SnapshotIsFresh
<1>2. QED BY InvCorrect, <1>1, PTL

\* A message reported as queued is in the outbox, shown or given up, for any
\* number of crashes.
THEOREM QueuedCorrect == Spec => []QueuedIsNeverForgotten
<1>1. IInv => QueuedIsNeverForgotten
  BY DEF IInv, MessageInv, MessageOf, HasRow, QueuedIsNeverForgotten
<1>2. QED BY InvCorrect, <1>1, PTL

\* A message is given up only after the first send and MaxAttempts retries.
THEOREM GivenUpCorrect == Spec => []GivenUpAfterAllAttempts
<1>1. IInv => GivenUpAfterAllAttempts
  BY DEF IInv, TypeOK, MessageInv, MessageOf, GivenUpAfterAllAttempts
<1>2. QED BY InvCorrect, <1>1, PTL

\* Every copy beyond the first has an outcome that was not recorded.
THEOREM DuplicateCorrect == Spec => []DuplicateHasCause
<1>1. IInv => DuplicateHasCause
  BY DEF IInv, TypeOK, CauseInv, CauseOf, DuplicateHasCause
<1>2. QED BY InvCorrect, <1>1, PTL

-----------------------------------------------------------------------------
(* Refinement *)

Status == [m \in Msgs |-> StatusOf(m)]

\* A step that leaves first, the set of messages with a row and dropped alone
\* leaves the abstract status alone.
LEMMA StatusKept ==
  ASSUME first' = first, dropped' = dropped, \A m \in Msgs : HasRow(m)' <=> HasRow(m)
  PROVE  Status' = Status
  BY DEF Status, StatusOf, InFlight

\* A step that changes the status of one message only.
LEMMA StatusChange ==
  ASSUME NEW m \in Msgs, NEW st, StatusOf(m)' = st,
         \A n \in Msgs : n # m => StatusOf(n)' = StatusOf(n)
  PROVE  Status' = [Status EXCEPT ![m] = st]
  BY DEF Status

\* The channel taking a message that is in hand or owed is Show, or nothing.
LEMMA TakesShows ==
  ASSUME visible \in [Msgs -> Nat], NEW m \in Msgs, Takes(m), Status' = Status, failed' = failed,
         StatusOf(m) \in {"inhand", "owed"}
  PROVE  [Promise!ANext]_Promise!avars
<1>1. CASE m \in Honoured /\ visible[m] > 0
  BY <1>1 DEF Takes, Promise!avars, Status
<1>2. CASE ~(m \in Honoured /\ visible[m] > 0)
  <2>1. visible' = [visible EXCEPT ![m] = @ + 1]
    BY <1>2 DEF Takes, Plus
  <2>2. Promise!Show(m)
    BY <2>1 DEF Promise!Show, Status
  <2>3. QED BY <2>2 DEF Promise!ANext
<1>3. QED BY <1>1, <1>2

\* Every step of the dispatcher is a step of AtLeastOnce or none.
LEMMA StepRefines == IInv /\ [Next]_vars => [Promise!ANext]_Promise!avars
<1> SUFFICES ASSUME IInv, [Next]_vars PROVE [Promise!ANext]_Promise!avars
  OBVIOUS
<1> USE DEF IInv
<1>1. ASSUME NEW m \in Msgs, Dispatch(m) PROVE [Promise!ANext]_Promise!avars
  <2>1. StatusOf(m) = "none" /\ StatusOf(m)' = "inhand"
    BY <1>1 DEF Dispatch, StatusOf, InFlight, TypeOK
  <2>2. \A n \in Msgs : n # m => StatusOf(n)' = StatusOf(n)
    BY <1>1 DEF Dispatch, StatusOf, InFlight, HasRow, history
  <2>3. Status' = [Status EXCEPT ![m] = "inhand"]
    BY <2>1, <2>2, StatusChange
  <2>4. Promise!Take(m)
    BY <1>1, <2>1, <2>3 DEF Dispatch, Promise!Take, Status, history
  <2>5. QED BY <2>4 DEF Promise!ANext
<1>2. ASSUME NEW m \in Msgs, FirstTaken(m) PROVE [Promise!ANext]_Promise!avars
  <2>1. StatusOf(m) = "inhand"
    BY <1>2 DEF FirstTaken, StatusOf, InFlight
  <2>2. \A n \in Msgs : StatusOf(n)' = StatusOf(n)
    BY <1>2 DEF FirstTaken, StatusOf, InFlight, HasRow
  <2>3. Status' = Status
    BY <2>2 DEF Status
  <2>4. QED BY <1>2, <2>1, <2>3, TakesShows DEF FirstTaken, TypeOK
<1>3. ASSUME NEW m \in Msgs, FirstSucceeds(m) PROVE [Promise!ANext]_Promise!avars
  <2>1. ~HasRow(m) /\ m \notin dropped /\ visible[m] > 0
    BY <1>3 DEF FirstSucceeds, RowsInv, MessageInv, MessageOf, HasRow
  <2>2. StatusOf(m) = "inhand" /\ StatusOf(m)' = "confirmed"
    BY <1>3, <2>1 DEF FirstSucceeds, StatusOf, InFlight, TypeOK, HasRow, history
  <2>3. \A n \in Msgs : n # m => StatusOf(n)' = StatusOf(n)
    BY <1>3 DEF FirstSucceeds, StatusOf, InFlight, HasRow, history
  <2>4. Status' = [Status EXCEPT ![m] = "confirmed"]
    BY <2>2, <2>3, StatusChange
  <2>5. Promise!Confirm(m)
    BY <1>3, <2>1, <2>2, <2>4 DEF FirstSucceeds, Promise!Confirm, Status, history
  <2>6. QED BY <2>5 DEF Promise!ANext
<1>4. ASSUME NEW m \in Msgs, FirstFails(m) PROVE [Promise!ANext]_Promise!avars
  <2>1. failed[m] = 0
    BY <1>4 DEF FirstFails, MessageInv, MessageOf
  <2>2. outbox' = outbox \cup {Row(m)} /\ Row(m).msg = m
    BY <1>4, RowFresh DEF FirstFails, Enqueue
  <2>3. HasRow(m)' /\ \A n \in Msgs : n # m => (HasRow(n)' <=> HasRow(n))
    BY <2>2 DEF HasRow
  <2>4. /\ first'[m] = "queued" /\ dropped' = dropped
        /\ \A n \in Msgs : n # m => first'[n] = first[n]
    BY <1>4 DEF FirstFails, TypeOK
  <2>5. StatusOf(m) = "inhand"
    BY <1>4 DEF FirstFails, StatusOf, InFlight
  <2>6. StatusOf(m)' = "owed"
    BY <2>3, <2>4 DEF StatusOf, InFlight
  <2>7. \A n \in Msgs : n # m => StatusOf(n)' = StatusOf(n)
    BY <2>3, <2>4 DEF StatusOf, InFlight
  <2>8. Status' = [Status EXCEPT ![m] = "owed"]
    BY <2>6, <2>7, StatusChange
  <2>9. visible' = visible /\ failed' = [failed EXCEPT ![m] = @ + 1]
    BY <1>4 DEF FirstFails, Plus
  <2>10. failed[m] + 1 < MaxAttempts + 1
    BY <2>1, MaxAttemptsAssumption
  <2>11. Promise!Owe(m)
    BY <2>5, <2>8, <2>9, <2>10 DEF Promise!Owe, Status
  <2>12. QED BY <2>11 DEF Promise!ANext
<1>5. ASSUME NEW row \in outbox, BackoffElapses(row) PROVE [Promise!ANext]_Promise!avars
  <2> DEFINE late == [row EXCEPT !.due = TRUE]
  <2>1. outbox' = (outbox \ {row}) \cup {late} /\ late.msg = row.msg
    BY <1>5, RowUpdates DEF BackoffElapses, TypeOK
  <2> HIDE DEF late
  <2>2. \A n \in Msgs : HasRow(n)' <=> HasRow(n)
    BY <2>1 DEF HasRow
  <2>3. first' = first /\ dropped' = dropped /\ visible' = visible /\ failed' = failed
    BY <1>5 DEF BackoffElapses, history
  <2>4. Status' = Status
    BY <2>2, <2>3, StatusKept
  <2>5. QED BY <2>3, <2>4 DEF Promise!avars, Status
<1>6. ASSUME first' = first, outbox' = outbox, visible' = visible, failed' = failed, dropped' = dropped
      PROVE  [Promise!ANext]_Promise!avars
  <2>1. Status' = Status
    BY <1>6, StatusKept DEF HasRow
  <2>2. QED BY <1>6, <2>1 DEF Promise!avars, Status
<1>7. ASSUME NEW t \in Ticks, NEW row \in trying[t].rows, AttemptTaken(t, row)
      PROVE  [Promise!ANext]_Promise!avars
  <2>1. row \in outbox /\ row.msg \in Msgs /\ first[row.msg] = "queued"
    BY DEF SnapshotInv, RowsInv, TypeOK, RowType
  <2>2. StatusOf(row.msg) = "owed"
    BY <2>1 DEF StatusOf, InFlight, HasRow
  <2>3. Status' = Status
    BY <1>7, StatusKept DEF AttemptTaken, HasRow
  <2>4. QED BY <1>7, <2>1, <2>2, <2>3, TakesShows DEF AttemptTaken, TypeOK
<1>8. ASSUME NEW t \in Ticks, NEW row \in trying[t].rows, AttemptSucceeds(t, row)
      PROVE  [Promise!ANext]_Promise!avars
  <2> DEFINE m == row.msg
  <2>1. row \in outbox /\ m \in Msgs /\ first[m] = "queued" /\ m \notin dropped
    BY DEF SnapshotInv, RowsInv, TypeOK, RowType
  <2>2. visible[m] > 0
    BY <1>8 DEF AttemptSucceeds, TakenShows
  <2>3. ~HasRow(m)' /\ \A n \in Msgs : n # m => (HasRow(n)' <=> HasRow(n))
    BY <1>8 DEF AttemptSucceeds, Delivered, Deleted, HasRow
  <2>4. first' = first /\ dropped' = dropped /\ visible' = visible /\ failed' = failed
    BY <1>8 DEF AttemptSucceeds, history
  <2>5. StatusOf(m) = "owed"
    BY <2>1 DEF StatusOf, InFlight, HasRow
  <2>6. StatusOf(m)' = "confirmed"
    BY <2>1, <2>3, <2>4 DEF StatusOf, InFlight
  <2>7. \A n \in Msgs : n # m => StatusOf(n)' = StatusOf(n)
    BY <2>3, <2>4 DEF StatusOf, InFlight
  <2> HIDE DEF m
  <2>8. Status' = [Status EXCEPT ![m] = "confirmed"]
    BY <2>1, <2>6, <2>7, StatusChange
  <2>9. Promise!Confirm(m)
    BY <2>1, <2>2, <2>4, <2>5, <2>8 DEF Promise!Confirm, Status
  <2>10. QED BY <2>1, <2>9 DEF Promise!ANext
<1>9. ASSUME NEW t \in Ticks, NEW row \in trying[t].rows, AttemptFails(t, row)
      PROVE  [Promise!ANext]_Promise!avars
  <2> DEFINE m == row.msg
             again == [row EXCEPT !.attempt = @ + 1, !.due = FALSE]
  <2>1. row \in outbox /\ row \in RowType /\ m \in Msgs /\ first[m] = "queued" /\ m \notin dropped
    BY DEF SnapshotInv, RowsInv, TypeOK, RowType
  <2>2. again.msg = m
    BY <2>1, RowUpdates
  <2>3. outbox' = IF IsLast(row) THEN Deleted(row) ELSE Deleted(row) \cup {again}
    BY <1>9 DEF AttemptFails, RecordFailure
  <2>4. /\ first' = first /\ visible' = visible
        /\ failed' = [failed EXCEPT ![m] = @ + 1]
        /\ dropped' = IF IsLast(row) THEN dropped \cup {m} ELSE dropped
    BY <1>9 DEF AttemptFails, Plus
  <2>5. failed[m] = row.attempt + 1 /\ row.attempt \in Nat /\ row.attempt < MaxAttempts
    BY <2>1 DEF RowsInv, TypeOK, RowType
  <2> HIDE DEF again
  <2>6. \A n \in Msgs : n # m => (HasRow(n)' <=> HasRow(n))
    BY <2>2, <2>3 DEF Deleted, HasRow
  <2>7. \A n \in Msgs : n # m => StatusOf(n)' = StatusOf(n)
    BY <2>4, <2>6 DEF StatusOf, InFlight
  <2>8. StatusOf(m) = "owed"
    BY <2>1 DEF StatusOf, InFlight, HasRow
  <2>9. CASE IsLast(row)
    <3>1. ~HasRow(m)'
      BY <2>3, <2>9 DEF Deleted, HasRow
    <3>2. StatusOf(m)' = "givenup"
      BY <2>1, <2>4, <2>9, <3>1 DEF StatusOf, InFlight
    <3>3. failed[m] + 1 = MaxAttempts + 1
      BY <2>5, <2>9, MaxAttemptsAssumption DEF IsLast
    <3> HIDE DEF m
    <3>4. Status' = [Status EXCEPT ![m] = "givenup"]
      BY <2>1, <2>7, <3>2, StatusChange
    <3>5. Promise!GiveUp(m)
      BY <2>1, <2>4, <2>8, <3>3, <3>4 DEF Promise!GiveUp, Status
    <3>6. QED BY <2>1, <3>5 DEF Promise!ANext
  <2>10. CASE ~IsLast(row)
    <3>1. HasRow(m)'
      BY <2>2, <2>3, <2>10 DEF HasRow
    <3>2. StatusOf(m)' = "owed"
      BY <2>1, <2>4, <3>1 DEF StatusOf, InFlight
    <3>3. failed[m] + 1 < MaxAttempts + 1
      BY <2>5, <2>10, MaxAttemptsAssumption DEF IsLast
    <3> HIDE DEF m
    <3>4. Status' = [Status EXCEPT ![m] = "owed"]
      BY <2>1, <2>7, <3>2, StatusChange
    <3>5. Promise!Owe(m)
      BY <2>1, <2>4, <2>8, <3>3, <3>4 DEF Promise!Owe, Status
    <3>6. QED BY <2>1, <3>5 DEF Promise!ANext
  <2>11. QED BY <2>9, <2>10
<1>10. ASSUME GoesDown PROVE [Promise!ANext]_Promise!avars
  <2>1. /\ outbox' = outbox /\ visible' = visible /\ failed' = failed /\ dropped' = dropped
        /\ \A n \in Msgs : first'[n] = IF InFlight(n) THEN "lost" ELSE first[n]
    BY <1>10 DEF GoesDown
  <2>2. \A n \in Msgs : StatusOf(n)' = IF StatusOf(n) = "inhand" THEN "lost" ELSE StatusOf(n)
    BY <2>1 DEF StatusOf, InFlight, HasRow
  <2>3. Status' = [n \in Msgs |-> IF Status[n] = "inhand" THEN "lost" ELSE Status[n]]
    BY <2>2 DEF Status
  <2>4. Promise!Lose
    BY <2>1, <2>3 DEF Promise!Lose, Status
  <2>5. QED BY <2>4 DEF Promise!ANext
<1>11. ASSUME NEW t \in Ticks, DrainStep(t) PROVE [Promise!ANext]_Promise!avars
  <2>1. CASE DrainStarts(t) \/ DrainEnds(t) \/ \E row \in drains[t].rows : AttemptStarts(t, row)
    BY <1>6, <2>1 DEF DrainStarts, DrainEnds, AttemptStarts, history
  <2>2. CASE ~(DrainStarts(t) \/ DrainEnds(t) \/ \E row \in drains[t].rows : AttemptStarts(t, row))
    BY <1>7, <1>8, <1>9, <1>11, <2>2 DEF DrainStep
  <2>3. QED BY <2>1, <2>2
<1>12. CASE Stop \/ Start \/ UNCHANGED vars
  BY <1>6, <1>12 DEF Stop, Start, vars, history
<1>13. QED
  BY <1>1, <1>2, <1>3, <1>4, <1>5, <1>10, <1>11, <1>12 DEF Next

\* The dispatcher, its outbox, the drain loop and restarts implement AtLeastOnce,
\* with the first send and MaxAttempts retries as its limit.
THEOREM RefinementCorrect == Spec => ImplementsAtLeastOnce
<1>1. Init => Promise!AInit
  BY DEF Init, Promise!AInit, StatusOf
<1>2. QED BY <1>1, InvCorrect, StepRefines, PTL DEF Spec, ImplementsAtLeastOnce, Promise!ASpec
=============================================================================
