-------------------------- MODULE FeedOutboxProofs --------------------------
(***************************************************************************)
(* What FeedOutbox guarantees for any batch limit and any number of        *)
(* events, restarts, broken connections and failing writes.                *)
(*                                                                         *)
(* LostOnlyToUnstored needs that numbering never falls behind what is      *)
(* stored (NumbersInv): a new event that is taken for a known one then has *)
(* a number above every stored one, so the known one is not stored.        *)
(* FirstSendsInOrder needs that a row that was never sent is due and not   *)
(* acknowledged, so that no batch can pass it over (RowsInv).              *)
(***************************************************************************)
EXTENDS FeedOutbox, TLAPS, FiniteSetTheorems, SequenceTheorems

RowType == [event : EventType, tried : BOOLEAN, due : BOOLEAN, acked : BOOLEAN]

\* The parts of TypeOK and RowsInv that speak of rows, of any table of rows.
RowsTyped(R) ==
  /\ DOMAIN R \subseteq 1..MaxEvents
  /\ R \in [DOMAIN R -> RowType]
  /\ \A d \in DOMAIN R : R[d].event.no = d
  /\ \A c, d \in DOMAIN R : Id(R[c].event) = Id(R[d].event) => c = d

InOrder(R) == \A c, d \in DOMAIN R : c < d /\ R[d].tried => R[c].tried
FreshIsDue(R) == \A d \in DOMAIN R : R[d].tried \/ (R[d].due /\ ~R[d].acked)

SoundRows(R) == RowsTyped(R) /\ InOrder(R) /\ FreshIsDue(R)

NumbersInv ==
  /\ mapper.seq <= made /\ mapper.run <= mapper.seq
  /\ \A e \in stored : e.no <= made /\ e.seq <= made /\ e.run <= e.seq
  /\ \A e \in published : e.no <= made
  /\ mapper.up => \A e \in stored : e.seq <= mapper.seq

RowsInv ==
  /\ SoundRows(outbox)
  /\ \A d \in DOMAIN outbox : outbox[d].event \in published
  /\ \A d \in wire : outbox[d].tried

IInv ==
  /\ TypeOK
  /\ NumbersInv
  /\ RowsInv
  /\ LostOnlyToUnstored
  /\ AckedWasHeard

-----------------------------------------------------------------------------
(* Mapping.                                                                 *)

KindSet == {"run.start", "run.end", "other"}

LEMMA KindsFacts ==
  ASSUME NEW cause \in Causes
  PROVE  /\ Kinds(cause) \in Seq(KindSet)
         /\ Len(Kinds(cause)) \in Nat \ {0}
         /\ Opens(cause) => Len(Kinds(cause)) >= 2
<1> DEFINE A == IF Closes(cause) THEN <<"run.end">> ELSE <<>>
           B == IF Opens(cause) THEN <<"run.start">> ELSE <<>>
<1>0. /\ << >> \in Seq(KindSet) /\ Len(<< >>) = 0
      /\ \A k \in KindSet : <<k>> \in Seq(KindSet) /\ Len(<<k>>) = 1
      /\ "run.end" \in KindSet /\ "run.start" \in KindSet /\ "other" \in KindSet
  BY DEF KindSet
<1>1. A \in Seq(KindSet) /\ Len(A) \in Nat
  <2>1. CASE Closes(cause)
    BY <1>0, <2>1
  <2>2. CASE ~Closes(cause)
    BY <1>0, <2>2
  <2>3. QED
    BY <2>1, <2>2
<1>2. B \in Seq(KindSet) /\ Len(B) \in Nat /\ (Opens(cause) => Len(B) = 1)
  <2>1. CASE Opens(cause)
    BY <1>0, <2>1
  <2>2. CASE ~Opens(cause)
    BY <1>0, <2>2
  <2>3. QED
    BY <2>1, <2>2
<1>3. <<"other">> \in Seq(KindSet) /\ Len(<<"other">>) = 1
  BY <1>0
<1>4. Kinds(cause) = (A \o B) \o <<"other">>
  BY DEF Kinds
<1> HIDE DEF A, B
<1>5. A \o B \in Seq(KindSet) /\ Len(A \o B) = Len(A) + Len(B)
  BY <1>1, <1>2, ConcatProperties
<1>6. Kinds(cause) \in Seq(KindSet) /\ Len(Kinds(cause)) = Len(A) + Len(B) + 1
  BY <1>1, <1>2, <1>3, <1>4, <1>5, ConcatProperties
<1>7. QED
  BY <1>1, <1>2, <1>6

\* The events of one cause are new, numbered consecutively and above all others.
LEMMA MappedFacts ==
  ASSUME TypeOK, NumbersInv, NEW cause \in Causes,
         made + Len(Kinds(cause)) <= MaxEvents
  PROVE  /\ \A e \in Mapped(cause) :
              /\ e \in EventType
              /\ made < e.no /\ e.no <= made + Len(Kinds(cause))
              /\ mapper.seq < e.seq /\ e.seq <= mapper.seq + Len(Kinds(cause))
              /\ e.seq <= made + Len(Kinds(cause)) /\ e.run <= e.seq
         /\ \A e, f \in Mapped(cause) : e.no = f.no \/ e.seq = f.seq => e = f
<1> DEFINE K == Kinds(cause)
           n == Len(K)
           Ev(i) == [no |-> made + i, kind |-> K[i], seq |-> mapper.seq + i,
                     run |-> IF K[i] = "run.end" THEN mapper.run ELSE NextRun(cause)]
<1>1. K \in Seq(KindSet) /\ n \in Nat \ {0} /\ DOMAIN K = 1..n
  BY KindsFacts
<1>2. /\ mapper.seq \in Nat /\ mapper.run \in Nat /\ made \in Nat
      /\ mapper.seq <= made /\ mapper.run <= mapper.seq /\ made + n <= MaxEvents
      /\ MaxEvents \in Nat
  BY LimitAssumption DEF TypeOK, NumbersInv
<1>3. NextRun(cause) \in {mapper.run, mapper.run + 1}
  BY DEF NextRun
<1>4. ASSUME NEW i \in DOMAIN K
      PROVE  /\ Ev(i) \in EventType
             /\ Ev(i).no = made + i /\ Ev(i).seq = mapper.seq + i
             /\ Ev(i).run <= mapper.run + 1
  <2>1. i \in 1..n /\ K[i] \in KindSet
    BY <1>1
  <2>2. made + i \in 1..MaxEvents /\ mapper.seq + i \in 1..MaxEvents
    BY <2>1, <1>1, <1>2
  <2> DEFINE r == IF K[i] = "run.end" THEN mapper.run ELSE NextRun(cause)
  <2>3. r \in 0..MaxEvents /\ r <= mapper.run + 1
    BY <1>1, <1>2, <1>3, <2>1
  <2> HIDE DEF r, K
  <2>4. QED
    BY <2>1, <2>2, <2>3 DEF EventType, KindSet, r
<1>5. Mapped(cause) = {Ev(i) : i \in DOMAIN K}
  BY DEF Mapped
<1> HIDE DEF Ev, K, n
<1>6. ASSUME NEW e \in Mapped(cause)
      PROVE  \E i \in 1..n : e = Ev(i) /\ e \in EventType /\ e.no = made + i
                             /\ e.seq = mapper.seq + i /\ e.run <= mapper.run + 1
  BY <1>1, <1>4, <1>5
<1>7. ASSUME NEW e \in Mapped(cause)
      PROVE  /\ e \in EventType
             /\ made < e.no /\ e.no <= made + n
             /\ mapper.seq < e.seq /\ e.seq <= mapper.seq + n
             /\ e.seq <= made + n /\ e.run <= e.seq
  <2>1. PICK i \in 1..n : e \in EventType /\ e.no = made + i
                          /\ e.seq = mapper.seq + i /\ e.run <= mapper.run + 1
    BY <1>6
  <2>2. e.run \in Nat
    BY <2>1, <1>2 DEF EventType
  <2>3. QED
    BY <2>1, <2>2, <1>1, <1>2
<1>8. ASSUME NEW e \in Mapped(cause), NEW f \in Mapped(cause), e.no = f.no \/ e.seq = f.seq
      PROVE  e = f
  <2>1. PICK i \in 1..n : e = Ev(i) /\ e.no = made + i /\ e.seq = mapper.seq + i
    BY <1>6
  <2>2. PICK j \in 1..n : f = Ev(j) /\ f.no = made + j /\ f.seq = mapper.seq + j
    BY <1>6
  <2>3. i = j
    BY <2>1, <2>2, <1>1, <1>2, <1>8
  <2>4. QED
    BY <2>1, <2>2, <2>3
<1>9. QED
  BY <1>7, <1>8 DEF n, K

LEMMA MapperAfterFacts ==
  ASSUME TypeOK, NumbersInv, NEW cause \in Causes,
         made + Len(Kinds(cause)) <= MaxEvents
  PROVE  /\ MapperAfter(cause) \in [up : BOOLEAN, seq : 0..MaxEvents, run : 0..MaxEvents,
                                    open : BOOLEAN]
         /\ MapperAfter(cause).up
         /\ MapperAfter(cause).seq = mapper.seq + Len(Kinds(cause))
         /\ MapperAfter(cause).seq <= made + Len(Kinds(cause))
         /\ MapperAfter(cause).run <= MapperAfter(cause).seq
<1> DEFINE n == Len(Kinds(cause))
<1>1. /\ mapper.seq \in Nat /\ mapper.run \in Nat /\ made \in Nat
      /\ mapper.seq <= made /\ mapper.run <= mapper.seq /\ made + n <= MaxEvents
      /\ MaxEvents \in Nat
  BY LimitAssumption DEF TypeOK, NumbersInv
<1>2. n \in Nat \ {0} /\ (Opens(cause) => n >= 2)
  BY KindsFacts
<1>3. /\ NextRun(cause) \in Nat /\ NextRun(cause) <= mapper.seq + n
  BY <1>1, <1>2 DEF NextRun
<1> HIDE DEF n
<1>4. /\ mapper.seq + n \in 0..MaxEvents /\ mapper.seq + n <= made + n
      /\ NextRun(cause) \in 0..MaxEvents
  BY <1>1, <1>2, <1>3
<1> DEFINE o == (mapper.open /\ ~Closes(cause)) \/ Opens(cause)
<1>5. o \in BOOLEAN
  OBVIOUS
<1>6. MapperAfter(cause) = [up |-> TRUE, seq |-> mapper.seq + n, run |-> NextRun(cause),
                            open |-> o]
  BY DEF MapperAfter, n
<1> HIDE DEF o
<1>7. QED
  BY <1>3, <1>4, <1>5, <1>6 DEF n

-----------------------------------------------------------------------------
(* Rows.                                                                    *)

LEMMA BatchFinite ==
  ASSUME NEW R, RowsTyped(R), NEW force \in BOOLEAN
  PROVE  IsFiniteSet(Eligible(R, force))
<1>1. IsFiniteSet(1..MaxEvents)
  BY LimitAssumption, FS_Interval
<1>2. QED
  BY <1>1, FS_Subset DEF RowsTyped, Eligible

\* A batch takes no row before an older one that was never sent.
LEMMA BatchClosed ==
  ASSUME NEW R, SoundRows(R), NEW force \in BOOLEAN
  PROVE  /\ Batch(R, force) \subseteq DOMAIN R
         /\ \A d \in Batch(R, force), c \in DOMAIN R :
              c < d /\ ~R[c].tried => c \in Batch(R, force)
<1> DEFINE E == Eligible(R, force)
<1>1. IsFiniteSet(E) /\ E \subseteq DOMAIN R /\ DOMAIN R \subseteq 1..MaxEvents
  BY BatchFinite DEF SoundRows, RowsTyped, Eligible
<1>2. ASSUME NEW d \in Batch(R, force), NEW c \in DOMAIN R, c < d, ~R[c].tried
      PROVE  c \in Batch(R, force)
  <2>1. c \in E
    BY <1>2 DEF Eligible, SoundRows, FreshIsDue
  <2>2. d \in E /\ Cardinality({x \in E : x < d}) < BatchLimit
    BY <1>2 DEF Batch
  <2>3. {x \in E : x < c} \subseteq {x \in E : x < d}
    BY <1>1, <1>2, <2>2, LimitAssumption
  <2>4. IsFiniteSet({x \in E : x < d})
    BY <1>1, FS_Subset
  <2>5. /\ Cardinality({x \in E : x < c}) <= Cardinality({x \in E : x < d})
        /\ IsFiniteSet({x \in E : x < c})
    BY <2>3, <2>4, FS_Subset
  <2>6. Cardinality({x \in E : x < c}) \in Nat /\ Cardinality({x \in E : x < d}) \in Nat
    BY <2>4, <2>5, FS_CardinalityType
  <2>7. Cardinality({x \in E : x < c}) < BatchLimit
    BY <2>2, <2>5, <2>6, LimitAssumption
  <2>8. QED
    BY <2>1, <2>7 DEF Batch
<1>3. QED
  BY <1>1, <1>2 DEF Batch

\* Marking such a batch keeps the rows sound and their events what they are.
LEMMA AttemptedFacts ==
  ASSUME NEW R, SoundRows(R), NEW B, B \subseteq DOMAIN R,
         \A d \in B, c \in DOMAIN R : c < d /\ ~R[c].tried => c \in B
  PROVE  /\ SoundRows(Attempted(R, B))
         /\ DOMAIN Attempted(R, B) = DOMAIN R
         /\ \A d \in DOMAIN R : /\ Attempted(R, B)[d].event = R[d].event
                                /\ Attempted(R, B)[d].acked = R[d].acked
                                /\ R[d].tried => Attempted(R, B)[d].tried
         /\ \A d \in B : Attempted(R, B)[d].tried
<1> DEFINE A == Attempted(R, B)
<1>1. DOMAIN A = DOMAIN R /\ A = [d \in DOMAIN R |-> A[d]]
  BY DEF Attempted
<1>2. ASSUME NEW d \in DOMAIN R
      PROVE  /\ A[d] \in RowType
             /\ A[d].event = R[d].event
             /\ A[d].acked = R[d].acked
             /\ A[d].tried <=> d \in B \/ R[d].tried
             /\ d \notin B => A[d] = R[d]
  <2>1. R[d] \in RowType
    BY DEF SoundRows, RowsTyped
  <2>2. CASE d \in B
    <3>1. A[d] = [R[d] EXCEPT !.tried = TRUE, !.due = FALSE]
      BY <2>2 DEF Attempted
    <3>2. QED
      BY <2>1, <2>2, <3>1 DEF RowType
  <2>3. CASE d \notin B
    BY <2>1, <2>3 DEF Attempted
  <2>4. QED
    BY <2>2, <2>3
<1> HIDE DEF A
<1>3. RowsTyped(A)
  BY <1>1, <1>2 DEF SoundRows, RowsTyped
<1>4. InOrder(A)
  BY <1>1, <1>2 DEF SoundRows, InOrder
<1>5. FreshIsDue(A)
  BY <1>1, <1>2 DEF SoundRows, FreshIsDue
<1>6. QED
  BY <1>1, <1>2, <1>3, <1>4, <1>5 DEF SoundRows, A

\* What a table of rows must keep of the one before: no row goes, and its event,
\* once sent and once acknowledged, stays so.
Keeps(R) ==
  /\ DOMAIN outbox \subseteq DOMAIN R
  /\ \A d \in DOMAIN outbox : /\ R[d].event = outbox[d].event
                              /\ outbox[d].tried => R[d].tried
                              /\ R[d].acked => outbox[d].acked

LEMMA NewRowFacts ==
  ASSUME NEW e \in EventType
  PROVE  /\ NewRow(e) \in RowType /\ NewRow(e).event = e
         /\ NewRow(e).tried = FALSE /\ NewRow(e).due = TRUE /\ NewRow(e).acked = FALSE
BY DEF NewRow, RowType

\* The events of one cause become rows unless their ids are known.
LEMMA EnqueuedFacts ==
  ASSUME TypeOK, NumbersInv, RowsInv, NEW cause \in Causes,
         made + Len(Kinds(cause)) <= MaxEvents
  PROVE  LET R == Enqueued(Mapped(cause)) IN
         /\ SoundRows(R) /\ Keeps(R)
         /\ \A d \in DOMAIN R \ DOMAIN outbox :
              R[d].event \in Mapped(cause) /\ ~R[d].acked
         /\ \A e \in Mapped(cause) : (\E d \in DOMAIN R : R[d].event = e) \/ IsKnown(e)
<1> DEFINE M == Mapped(cause)
           F == {e \in M : ~IsKnown(e)}
           R == Enqueued(M)
<1>1. /\ \A e \in M : e \in EventType /\ made < e.no /\ e.no \in 1..MaxEvents
      /\ \A e, f \in M : e.no = f.no \/ e.seq = f.seq => e = f
      /\ made \in Nat
  BY MappedFacts DEF EventType, TypeOK
<1> HIDE DEF M
<1>2. /\ RowsTyped(outbox) /\ InOrder(outbox) /\ FreshIsDue(outbox)
      /\ \A d \in DOMAIN outbox : d \in 1..MaxEvents /\ d <= made
  BY DEF RowsInv, SoundRows, RowsTyped, NumbersInv
<1>3. /\ DOMAIN R = DOMAIN outbox \cup {e.no : e \in F}
      /\ R = [d \in DOMAIN R |-> R[d]]
      /\ \A d \in DOMAIN outbox : R[d] = outbox[d]
  BY DEF Enqueued, With
<1>4. ASSUME NEW e \in F
      PROVE  R[e.no] = NewRow(e) /\ e.no \notin DOMAIN outbox
  <2>1. e \in M /\ made < e.no /\ e.no \in 1..MaxEvents
    BY <1>1
  <2>2. e.no \notin DOMAIN outbox
    BY <1>1, <1>2, <2>1
  <2>3. \A f \in F : f.no = e.no => f = e
    BY <1>1, <2>1
  <2>4. (CHOOSE f \in F : f.no = e.no) = e
    BY <2>3
  <2>5. R[e.no] = NewRow(CHOOSE f \in F : f.no = e.no)
    BY <2>2 DEF Enqueued, With
  <2>6. QED
    BY <2>2, <2>4, <2>5
<1>5. ASSUME NEW d \in DOMAIN R, d \notin DOMAIN outbox
      PROVE  \E e \in F : /\ d = e.no /\ R[d] = NewRow(e) /\ R[d].event = e
                          /\ ~R[d].tried /\ R[d].due /\ ~R[d].acked
                          /\ R[d] \in RowType
  <2>1. PICK e \in F : d = e.no
    BY <1>3, <1>5
  <2>2. R[d] = NewRow(e) /\ e \in EventType
    BY <1>1, <1>4, <2>1
  <2>3. NewRow(e) \in RowType /\ NewRow(e).event = e
        /\ NewRow(e).tried = FALSE /\ NewRow(e).due = TRUE /\ NewRow(e).acked = FALSE
    BY <2>2, NewRowFacts
  <2> HIDE DEF R
  <2>4. QED
    BY <2>1, <2>2, <2>3
<1> HIDE DEF R
<1>6. \A d \in DOMAIN outbox : R[d] \in RowType /\ R[d].event.no = d
  BY <1>2, <1>3 DEF RowsTyped
<1>7. \A c, d \in DOMAIN R : Id(R[c].event) = Id(R[d].event) => c = d
  <2> SUFFICES ASSUME NEW c \in DOMAIN R, NEW d \in DOMAIN R,
                      Id(R[c].event) = Id(R[d].event)
               PROVE  c = d
    OBVIOUS
  <2>1. CASE c \in DOMAIN outbox /\ d \in DOMAIN outbox
    BY <1>2, <1>3, <2>1 DEF RowsTyped
  <2>2. CASE c \notin DOMAIN outbox /\ d \in DOMAIN outbox
    BY <1>3, <1>5, <2>2 DEF IsKnown
  <2>3. CASE c \in DOMAIN outbox /\ d \notin DOMAIN outbox
    BY <1>3, <1>5, <2>3 DEF IsKnown
  <2>4. CASE c \notin DOMAIN outbox /\ d \notin DOMAIN outbox
    <3>1. PICK e \in F : c = e.no /\ R[c].event = e
      BY <1>5, <2>4
    <3>2. PICK f \in F : d = f.no /\ R[d].event = f
      BY <1>5, <2>4
    <3>3. e.seq = f.seq
      BY <3>1, <3>2 DEF Id
    <3>4. QED
      BY <1>1, <3>1, <3>2, <3>3
  <2>5. QED
    BY <2>1, <2>2, <2>3, <2>4
<1>8. RowsTyped(R)
  <2>1. DOMAIN R \subseteq 1..MaxEvents
    BY <1>1, <1>2, <1>3
  <2>2. \A d \in DOMAIN R : R[d] \in RowType /\ R[d].event.no = d
    BY <1>5, <1>6
  <2>3. QED
    BY <1>3, <1>7, <2>1, <2>2 DEF RowsTyped
<1>9. InOrder(R)
  <2> SUFFICES ASSUME NEW c \in DOMAIN R, NEW d \in DOMAIN R, c < d, R[d].tried
               PROVE  R[c].tried
    BY DEF InOrder
  <2>1. d \in DOMAIN outbox
    BY <1>5
  <2>2. c \in DOMAIN outbox
    <3>1. SUFFICES ASSUME c \notin DOMAIN outbox PROVE FALSE
      OBVIOUS
    <3>2. PICK e \in F : c = e.no
      BY <1>5, <3>1
    <3>3. made < c /\ c \in Nat /\ d \in Nat /\ d <= made
      BY <1>1, <1>2, <2>1, <3>2
    <3>4. QED
      BY <1>1, <3>3
  <2>3. QED
    BY <1>2, <1>3, <2>1, <2>2 DEF InOrder
<1>10. FreshIsDue(R)
  BY <1>2, <1>3, <1>5 DEF FreshIsDue
<1>11. Keeps(R)
  BY <1>3 DEF Keeps
<1>12. \A d \in DOMAIN R \ DOMAIN outbox : R[d].event \in M /\ ~R[d].acked
  BY <1>5
<1>13. \A e \in M : (\E d \in DOMAIN R : R[d].event = e) \/ IsKnown(e)
  <2>1. \A e \in F : e.no \in DOMAIN R /\ R[e.no].event = e
    BY <1>1, <1>3, <1>4, NewRowFacts
  <2>2. QED
    BY <2>1
<1>14. QED
  BY <1>8, <1>9, <1>10, <1>11, <1>12, <1>13 DEF SoundRows, R, M

\* A drain marks what it sends, and keeps what was in the rows.
LEMMA DrainFacts ==
  ASSUME NEW R, SoundRows(R), NEW force \in BOOLEAN, Drain(R, force),
         wire \subseteq DOMAIN R, \A d \in wire : R[d].tried
  PROVE  /\ SoundRows(outbox')
         /\ DOMAIN outbox' = DOMAIN R
         /\ \A d \in DOMAIN R : /\ outbox'[d].event = R[d].event
                                /\ outbox'[d].acked = R[d].acked
                                /\ R[d].tried => outbox'[d].tried
         /\ wire' \subseteq DOMAIN R
         /\ \A d \in wire' : outbox'[d].tried
<1> DEFINE B == Batch(R, force)
<1>1. B \subseteq DOMAIN R /\ \A d \in B, c \in DOMAIN R : c < d /\ ~R[c].tried => c \in B
  BY BatchClosed
<1>2. outbox' = Attempted(R, B) /\ wire' = wire \cup B
  BY DEF Drain
<1> HIDE DEF B
<1>3. QED
  BY <1>1, <1>2, AttemptedFacts

-----------------------------------------------------------------------------
(* The invariant, by what a step does to the rows and to the numbers.       *)

ProcessTyped ==
  /\ hosted \in BOOLEAN
  /\ mapper \in [up : BOOLEAN, seq : 0..MaxEvents, run : 0..MaxEvents, open : BOOLEAN]
  /\ stored \subseteq EventType /\ published \subseteq EventType /\ heard \subseteq EventType
  /\ daemon \in {"up", "closed", "down"}
  /\ attached \in BOOLEAN
  /\ made \in 0..MaxEvents

LEMMA TypeParts ==
  TypeOK <=> ProcessTyped /\ RowsTyped(outbox) /\ wire \subseteq DOMAIN outbox
BY DEF TypeOK, ProcessTyped, RowsTyped, RowType

\* A step that maps nothing and keeps the rows keeps the invariant.
LEMMA RowStep ==
  ASSUME IInv, ProcessTyped', NumbersInv',
         UNCHANGED <<stored, published>>, heard \subseteq heard',
         SoundRows(outbox'), Keeps(outbox'), DOMAIN outbox' = DOMAIN outbox,
         wire' \subseteq DOMAIN outbox', \A d \in wire' : outbox'[d].tried
  PROVE  IInv'
<1>1. RowsInv'
  BY DEF IInv, RowsInv, Keeps
<1>2. TypeOK'
  BY TypeParts, <1>1 DEF RowsInv, SoundRows, RowsTyped, TypeOK, ProcessTyped, RowType
<1>3. \A e : InOutbox(e) => InOutbox(e)'
  BY DEF InOutbox, Keeps
<1>4. LostOnlyToUnstored'
  BY <1>3 DEF IInv, LostOnlyToUnstored, InOutbox
<1>5. AckedWasHeard'
  BY DEF IInv, AckedWasHeard, Keeps
<1>6. QED
  BY <1>1, <1>2, <1>4, <1>5 DEF IInv

\* A step that touches neither the rows nor what is on the wire.
LEMMA QuietStep ==
  ASSUME IInv, ProcessTyped', NumbersInv', UNCHANGED <<stored, published, heard, outbox, wire>>
  PROVE  IInv'
<1>1. SoundRows(outbox') /\ Keeps(outbox') /\ DOMAIN outbox' = DOMAIN outbox
      /\ wire' \subseteq DOMAIN outbox' /\ \A d \in wire' : outbox'[d].tried
  BY DEF IInv, RowsInv, TypeOK, Keeps
<1>2. heard \subseteq heard'
  OBVIOUS
<1>3. QED
  BY <1>1, <1>2, RowStep

MapperType == [up : BOOLEAN, seq : 0..MaxEvents, run : 0..MaxEvents, open : BOOLEAN]

LEMMA DownFacts ==
  ASSUME NEW m \in MapperType
  PROVE  LET n == [m EXCEPT !.up = FALSE] IN
         n \in MapperType /\ n.up = FALSE /\ n.seq = m.seq /\ n.run = m.run
<1> DEFINE n == [m EXCEPT !.up = FALSE]
<1>1. n.up = FALSE /\ n.seq = m.seq /\ n.run = m.run
  BY DEF MapperType
<1>2. FALSE \in BOOLEAN
  OBVIOUS
<1>3. \A b \in BOOLEAN : [m EXCEPT !.up = b] \in MapperType
  BY DEF MapperType
<1>5. n \in MapperType
  BY <1>2, <1>3
<1>6. QED
  BY <1>1, <1>5

\* A step of the process that maps an event of the harness.
MapsTo(cause) ==
  /\ Maps(cause)
  /\ mapper' \in {MapperAfter(cause), [mapper EXCEPT !.up = FALSE]}
  /\ stored' \in {stored, Stored(Mapped(cause))}
  /\ published' \in {published, published \cup Mapped(cause)}
  /\ UNCHANGED <<hosted, daemon, attached, heard>>

LEMMA MappingStep ==
  ASSUME IInv, NEW cause \in Causes, MapsTo(cause)
  PROVE  /\ ProcessTyped' /\ NumbersInv'
         /\ \A e \in stored' : e \in stored \/ e \in Mapped(cause)
<1> DEFINE M == Mapped(cause)
           n == Len(Kinds(cause))
<1>1. /\ TypeOK /\ NumbersInv /\ mapper.up /\ made + n <= MaxEvents /\ made' = made + n
  BY DEF IInv, MapsTo, Maps
<1>2. /\ n \in Nat \ {0} /\ made \in Nat /\ MaxEvents \in Nat
  BY <1>1, KindsFacts, LimitAssumption DEF TypeOK
<1>3. /\ \A e \in M : /\ e \in EventType /\ e.no <= made + n
                      /\ e.seq <= mapper.seq + n /\ e.seq <= made + n /\ e.run <= e.seq
  BY <1>1, MappedFacts
<1>4. /\ MapperAfter(cause) \in [up : BOOLEAN, seq : 0..MaxEvents, run : 0..MaxEvents,
                                 open : BOOLEAN]
      /\ MapperAfter(cause).seq = mapper.seq + n
      /\ MapperAfter(cause).seq <= made + n
      /\ MapperAfter(cause).run <= MapperAfter(cause).seq
  BY <1>1, MapperAfterFacts
<1> HIDE DEF M, n
<1>5. \A e \in stored' : e \in stored \/ e \in M
  BY DEF MapsTo, Stored, M
<1>6. \A e \in published' : e \in published \/ e \in M
  BY DEF MapsTo, M
<1>7. mapper' \in [up : BOOLEAN, seq : 0..MaxEvents, run : 0..MaxEvents, open : BOOLEAN]
  BY <1>1, <1>4, DownFacts DEF MapsTo, TypeOK, MapperType
<1>8. ProcessTyped'
  <2>1. made' \in 0..MaxEvents
    BY <1>1, <1>2
  <2>2. stored' \subseteq EventType /\ published' \subseteq EventType
    BY <1>1, <1>3, <1>5, <1>6 DEF TypeOK
  <2>3. QED
    BY <1>1, <1>7, <2>1, <2>2 DEF MapsTo, TypeOK, ProcessTyped
<1>9. NumbersInv'
  <2>1. \A e \in stored' : e.no <= made' /\ e.seq <= made' /\ e.run <= e.seq
    BY <1>1, <1>2, <1>3, <1>5 DEF TypeOK, NumbersInv, EventType
  <2>2. \A e \in published' : e.no <= made'
    BY <1>1, <1>2, <1>3, <1>6 DEF TypeOK, NumbersInv, EventType
  <2>3. CASE mapper' = MapperAfter(cause)
    <3>1. \A e \in stored' : e.seq <= mapper'.seq
      BY <1>1, <1>2, <1>3, <1>4, <1>5, <2>3 DEF TypeOK, NumbersInv, EventType
    <3>2. QED
      BY <1>1, <1>4, <2>1, <2>2, <2>3, <3>1 DEF NumbersInv
  <2>4. CASE mapper' = [mapper EXCEPT !.up = FALSE]
    <3>1. mapper'.seq = mapper.seq /\ mapper'.run = mapper.run /\ mapper'.up = FALSE
      BY <1>1, <2>4, DownFacts DEF TypeOK, MapperType
    <3>2. QED
      BY <1>1, <1>2, <2>1, <2>2, <3>1 DEF NumbersInv, TypeOK
  <2>5. QED
    BY <2>3, <2>4 DEF MapsTo
<1>10. QED
  BY <1>5, <1>8, <1>9 DEF M

\* What is published is a row, or taken for a row that cannot be stored.
LEMMA PublishStep ==
  ASSUME IInv, NEW cause \in Causes, MapsTo(cause),
         NEW R, SoundRows(R), Keeps(R),
         \A d \in DOMAIN R \ DOMAIN outbox : R[d].event \in Mapped(cause) /\ ~R[d].acked,
         \A e \in Mapped(cause) : (\E d \in DOMAIN R : R[d].event = e) \/ IsKnown(e),
         published' = published \cup Mapped(cause),
         SoundRows(outbox'), DOMAIN outbox' = DOMAIN R,
         \A d \in DOMAIN R : /\ outbox'[d].event = R[d].event
                             /\ outbox'[d].acked = R[d].acked
                             /\ R[d].tried => outbox'[d].tried,
         wire' \subseteq DOMAIN R, \A d \in wire' : outbox'[d].tried
  PROVE  IInv'
<1>1. /\ ProcessTyped' /\ NumbersInv'
      /\ \A e \in stored' : e \in stored \/ e \in Mapped(cause)
  BY MappingStep
<1>2. TypeOK'
  <2>1. RowsTyped(outbox')
    BY DEF SoundRows
  <2>2. QED
    BY <1>1, <2>1 DEF RowsTyped, TypeOK, ProcessTyped, RowType
<1>3. /\ DOMAIN outbox \subseteq DOMAIN outbox'
      /\ \A d \in DOMAIN outbox : outbox'[d].event = outbox[d].event
  BY DEF Keeps
<1>4. ASSUME NEW d \in DOMAIN outbox'
      PROVE  outbox'[d].event \in published'
  <2>1. CASE d \in DOMAIN outbox
    BY <1>3, <2>1 DEF IInv, RowsInv
  <2>2. CASE d \notin DOMAIN outbox
    BY <2>2
  <2>3. QED
    BY <2>1, <2>2
<1>5. RowsInv'
  BY <1>4 DEF RowsInv
<1>6. ASSUME NEW d \in DOMAIN outbox', outbox'[d].acked
      PROVE  outbox'[d].event \in heard'
  <2>1. d \in DOMAIN outbox /\ outbox[d].acked
    BY <1>6 DEF Keeps
  <2>2. QED
    BY <2>1, <1>3 DEF IInv, AckedWasHeard, MapsTo
<1>7. AckedWasHeard'
  BY <1>6 DEF AckedWasHeard
<1>8. /\ \A e \in published : e.no <= made /\ e.no \in Nat
      /\ \A e \in Mapped(cause) : /\ made < e.no /\ e.no \in Nat
                                  /\ e.seq \in Nat /\ mapper.seq < e.seq
      /\ \A e \in stored : e.seq <= mapper.seq /\ e.seq \in Nat
      /\ made \in Nat /\ mapper.seq \in Nat
  <2>1. /\ TypeOK /\ NumbersInv /\ mapper.up /\ made + Len(Kinds(cause)) <= MaxEvents
    BY DEF MapsTo, Maps, IInv
  <2>2. \A e \in Mapped(cause) : e \in EventType /\ made < e.no /\ mapper.seq < e.seq
    BY <2>1, MappedFacts
  <2>3. QED
    BY <2>1, <2>2, LimitAssumption DEF NumbersInv, TypeOK, EventType
<1>9. ASSUME NEW e \in published', ~(\E d \in DOMAIN outbox' : outbox'[d].event = e)
      PROVE  \E f \in published' \ stored' : f # e /\ Id(f) = Id(e)
  <2>1. CASE e \in published
    <3>1. ~InOutbox(e)
      BY <1>3, <1>9 DEF InOutbox
    <3>2. PICK f \in published \ stored : f # e /\ Id(f) = Id(e)
      BY <2>1, <3>1 DEF IInv, LostOnlyToUnstored
    <3>3. f \notin Mapped(cause)
      BY <1>8
    <3>4. QED
      BY <1>1, <3>2, <3>3
  <2>2. CASE e \in Mapped(cause)
    <3>1. IsKnown(e)
      BY <1>9, <2>2
    <3>2. PICK d \in DOMAIN outbox : Id(outbox[d].event) = Id(e)
      BY <3>1 DEF IsKnown
    <3> DEFINE f == outbox[d].event
    <3>3. f \in published /\ f.seq = e.seq
      BY <3>2 DEF IInv, RowsInv, Id
    <3> HIDE DEF f
    <3>4. f # e /\ f \notin Mapped(cause)
      BY <1>8, <2>2, <3>3
    <3>5. f \notin stored
      BY <1>8, <2>2, <3>3
    <3>6. QED
      BY <1>1, <3>2, <3>3, <3>4, <3>5 DEF f
  <2>3. QED
    BY <2>1, <2>2
<1>10. LostOnlyToUnstored'
  BY <1>9 DEF LostOnlyToUnstored, InOutbox
<1>11. QED
  BY <1>1, <1>2, <1>5, <1>7, <1>10 DEF IInv

\* Publishing fails, or nothing is published.
LEMMA SilentStep ==
  ASSUME IInv, NEW cause \in Causes, MapsTo(cause), UNCHANGED <<published, outbox, wire>>
  PROVE  IInv'
<1>1. /\ ProcessTyped' /\ NumbersInv'
      /\ \A e \in stored' : e \in stored \/ e \in Mapped(cause)
  BY MappingStep
<1>2. TypeOK' /\ RowsInv' /\ AckedWasHeard'
  BY <1>1 DEF IInv, TypeOK, ProcessTyped, RowsInv, AckedWasHeard, MapsTo
<1>3. /\ \A e \in published : e.no <= made /\ e.no \in Nat
      /\ \A e \in Mapped(cause) : made < e.no /\ e.no \in Nat
      /\ made \in Nat
  <2>1. /\ TypeOK /\ NumbersInv /\ mapper.up /\ made + Len(Kinds(cause)) <= MaxEvents
    BY DEF MapsTo, Maps, IInv
  <2>2. \A e \in Mapped(cause) : e \in EventType /\ made < e.no /\ mapper.seq < e.seq
    BY <2>1, MappedFacts
  <2>3. QED
    BY <2>1, <2>2, LimitAssumption DEF NumbersInv, TypeOK, EventType
<1>4. \A f \in published \ stored : f \notin stored'
  BY <1>1, <1>3
<1>5. LostOnlyToUnstored'
  BY <1>4 DEF IInv, LostOnlyToUnstored, InOutbox
<1>6. QED
  BY <1>1, <1>2, <1>5 DEF IInv

-----------------------------------------------------------------------------
(* One step per action.                                                     *)

LEMMA PublishAction ==
  ASSUME IInv, NEW cause \in Causes, MapsTo(cause), NEW enqueues \in BOOLEAN,
         Publish(Mapped(cause), enqueues)
  PROVE  IInv'
<1> DEFINE R == Enqueued(Mapped(cause))
<1>1. CASE enqueues /\ ~(hosted /\ daemon = "closed")
  <2>0. TypeOK /\ NumbersInv /\ RowsInv /\ made + Len(Kinds(cause)) <= MaxEvents
    BY DEF MapsTo, Maps, IInv
  <2>1. /\ SoundRows(R) /\ Keeps(R)
        /\ \A d \in DOMAIN R \ DOMAIN outbox :
             R[d].event \in Mapped(cause) /\ ~R[d].acked
        /\ \A e \in Mapped(cause) : (\E d \in DOMAIN R : R[d].event = e) \/ IsKnown(e)
    BY <2>0, EnqueuedFacts
  <2>2. wire \subseteq DOMAIN R /\ \A d \in wire : R[d].tried
    BY <2>0, <2>1 DEF TypeOK, RowsInv, Keeps
  <2>3. published' = published \cup Mapped(cause)
    BY <1>1 DEF Publish
  <2>4. CASE hosted /\ attached
    <3>1. Drain(R, FALSE)
      BY <1>1, <2>4 DEF Publish
    <3> HIDE DEF R
    <3>2. FALSE \in BOOLEAN
      OBVIOUS
    <3>3. /\ SoundRows(outbox') /\ DOMAIN outbox' = DOMAIN R
          /\ \A d \in DOMAIN R : /\ outbox'[d].event = R[d].event
                                 /\ outbox'[d].acked = R[d].acked
                                 /\ R[d].tried => outbox'[d].tried
          /\ wire' \subseteq DOMAIN R /\ \A d \in wire' : outbox'[d].tried
      BY <2>1, <2>2, <3>1, <3>2, DrainFacts
    <3>4. QED
      BY <2>1, <2>3, <3>3, PublishStep
  <2>5. CASE ~(hosted /\ attached)
    <3>1. outbox' = R /\ wire' = wire
      BY <1>1, <2>5 DEF Publish
    <3> HIDE DEF R
    <3>2. /\ SoundRows(outbox') /\ DOMAIN outbox' = DOMAIN R
          /\ \A d \in DOMAIN R : /\ outbox'[d].event = R[d].event
                                 /\ outbox'[d].acked = R[d].acked
                                 /\ R[d].tried => outbox'[d].tried
          /\ wire' \subseteq DOMAIN R /\ \A d \in wire' : outbox'[d].tried
      BY <2>1, <2>2, <3>1
    <3>3. QED
      BY <2>1, <2>3, <3>2, PublishStep
  <2>6. QED
    BY <2>4, <2>5
<1>2. CASE ~(enqueues /\ ~(hosted /\ daemon = "closed"))
  BY <1>2, SilentStep DEF Publish
<1>3. QED
  BY <1>1, <1>2

LEMMA IngestStep ==
  ASSUME IInv, NEW cause \in Causes, NEW persists \in BOOLEAN, NEW enqueues \in BOOLEAN,
         Ingest(cause, persists, enqueues)
  PROVE  IInv'
<1>1. published' \in {published, published \cup Mapped(cause)}
  BY DEF Ingest, Publish
<1>2. MapsTo(cause) /\ Publish(Mapped(cause), enqueues)
  BY <1>1 DEF Ingest, MapsTo
<1>3. QED
  BY <1>2, PublishAction

LEMMA NotifyStep ==
  ASSUME IInv, Notify
  PROVE  IInv'
<1>1. published' \in {published, published \cup Mapped("work")}
  BY DEF Notify, Publish
<1>2. MapsTo("work") /\ Publish(Mapped("work"), TRUE)
  BY <1>1 DEF Notify, MapsTo
<1>3. "work" \in Causes /\ TRUE \in BOOLEAN
  BY DEF Causes
<1>4. QED
  BY <1>2, <1>3, PublishAction

LEMMA KilledBeforePublishStep ==
  ASSUME IInv, NEW cause \in Causes, KilledBeforePublish(cause)
  PROVE  IInv'
<1>1. MapsTo(cause) /\ UNCHANGED <<published, outbox, wire>>
  BY DEF KilledBeforePublish, MapsTo, link
<1>2. QED
  BY <1>1, SilentStep

LEMMA LargestFacts ==
  ASSUME NEW S, S \subseteq Nat, 0 \in S, NEW b \in Nat, \A x \in S : x <= b
  PROVE  Largest(S) \in S /\ \A y \in S : y <= Largest(S)
<1> DEFINE U == {u \in Nat : \A x \in S : x <= u}
<1>1. U \subseteq Nat /\ b \in U
  OBVIOUS
<1>2. PICK m \in U : \A u \in U : m <= u
  <2> HIDE DEF U
  <2>1. PICK m \in U : \A u \in U : ~ (<<u, m>> \in OpToRel(<, Nat))
    <3>1. U # {}
      BY <1>1
    <3>2. QED
      BY <1>1, <3>1, NatLessThanWellFounded, WFMin, Zenon
  <2>2. \A u \in U : ~ (u < m)
    BY <1>1, <2>1, Zenon DEF OpToRel
  <2>3. QED
    BY <1>1, <2>2
<1>3. m \in S
  <2> SUFFICES ASSUME m \notin S PROVE FALSE
    OBVIOUS
  <2>1. \A x \in S : x < m
    BY <1>2
  <2>2. m # 0
    BY <2>1
  <2>3. m - 1 \in U
    BY <1>2, <2>1, <2>2
  <2>4. QED
    BY <1>2, <2>3
<1>4. \A y \in S : y <= m
  BY <1>2
<1> HIDE DEF U
<1>5. QED
  BY <1>3, <1>4 DEF Largest

\* The restored counters are not behind what is stored, nor ahead of what was made.
LEMMA SessionStartsStep ==
  ASSUME IInv, SessionStarts
  PROVE  IInv'
<1> DEFINE Seqs == {e.seq : e \in stored} \cup {0}
           Runs == {e.run : e \in stored} \cup {0}
<1>1. /\ \A e \in stored : /\ e.seq \in Nat /\ e.run \in Nat /\ e.seq <= made
                           /\ e.run <= e.seq /\ e.run <= made
      /\ made \in Nat /\ made <= MaxEvents /\ MaxEvents \in Nat
  BY LimitAssumption DEF IInv, TypeOK, NumbersInv, EventType
<1>2. /\ Largest(Seqs) \in Seqs /\ \A y \in Seqs : y <= Largest(Seqs)
  <2>1. Seqs \subseteq Nat /\ 0 \in Seqs /\ \A x \in Seqs : x <= made
    BY <1>1
  <2>2. QED
    BY <1>1, <2>1, LargestFacts
<1>3. /\ Largest(Runs) \in Runs /\ \A y \in Runs : y <= Largest(Runs)
  <2>1. Runs \subseteq Nat /\ 0 \in Runs /\ \A x \in Runs : x <= made
    BY <1>1
  <2>2. QED
    BY <1>1, <2>1, LargestFacts
<1>4. /\ Largest(Seqs) \in Nat /\ Largest(Seqs) <= made
      /\ \A e \in stored : e.seq <= Largest(Seqs)
  BY <1>1, <1>2
<1>5. /\ Largest(Runs) \in Nat /\ Largest(Runs) <= Largest(Seqs)
  <2>1. CASE Largest(Runs) = 0
    BY <1>4, <2>1
  <2>2. CASE \E e \in stored : Largest(Runs) = e.run
    BY <1>1, <1>4, <2>2
  <2>3. QED
    BY <1>3, <2>1, <2>2
<1> DEFINE s == Largest(Seqs)
           r == Largest(Runs)
           o == LastOf("run.start") > LastOf("run.end")
<1>6. mapper' = [up |-> TRUE, seq |-> s, run |-> r, open |-> o]
  BY DEF SessionStarts, RestoredSeq
<1>7. s \in 0..MaxEvents /\ r \in 0..MaxEvents /\ s <= made /\ r <= s
      /\ \A e \in stored : e.seq <= s
  BY <1>1, <1>4, <1>5
<1>8. o \in BOOLEAN /\ TRUE \in BOOLEAN
  OBVIOUS
<1>9. UNCHANGED <<hosted, stored, outbox, daemon, attached, wire, made, published, heard>>
  BY DEF SessionStarts, link, ghosts
<1> HIDE DEF s, r, o, Seqs, Runs
<1>10. mapper' \in MapperType /\ mapper'.seq = s /\ mapper'.run = r
  BY <1>6, <1>7, <1>8 DEF MapperType
<1>11. ProcessTyped'
  BY <1>9, <1>10 DEF ProcessTyped, IInv, TypeOK, MapperType
<1>12. NumbersInv'
  BY <1>7, <1>9, <1>10 DEF NumbersInv, IInv
<1>13. QED
  BY <1>9, <1>11, <1>12, QuietStep

LEMMA SessionEndsStep ==
  ASSUME IInv, SessionEnds \/ Exit
  PROVE  IInv'
<1>1. /\ mapper \in MapperType
      /\ mapper' \in {mapper, [mapper EXCEPT !.up = FALSE]}
      /\ UNCHANGED <<hosted, stored, outbox, attached, wire, made, published, heard>>
      /\ daemon' \in {daemon, "down"}
  BY DEF SessionEnds, Exit, HostedEnded, link, ghosts, IInv, TypeOK, MapperType
<1>2. mapper' \in MapperType /\ mapper'.seq = mapper.seq /\ mapper'.run = mapper.run
      /\ (mapper'.up => mapper.up)
  BY <1>1, DownFacts
<1>3. ProcessTyped'
  BY <1>1, <1>2 DEF ProcessTyped, IInv, TypeOK, MapperType
<1>4. NumbersInv'
  BY <1>1, <1>2 DEF NumbersInv, IInv
<1>5. QED
  BY <1>1, <1>3, <1>4, QuietStep

LEMMA DaemonStartsStep ==
  ASSUME IInv, DaemonStarts
  PROVE  IInv'
<1>1. /\ UNCHANGED <<hosted, mapper, stored, outbox, attached, wire, made, published, heard>>
      /\ daemon' = "up"
  BY DEF DaemonStarts, link, ghosts
<1>2. ProcessTyped' /\ NumbersInv'
  BY <1>1 DEF ProcessTyped, NumbersInv, IInv, TypeOK
<1>3. QED
  BY <1>1, <1>2, QuietStep

LEMMA DrainStep ==
  ASSUME IInv, Attach \/ Tick
  PROVE  IInv'
<1>1. PICK force \in BOOLEAN : Drain(outbox, force)
  BY DEF Attach, Tick
<1>2. UNCHANGED <<hosted, mapper, stored, daemon, made, published, heard>>
      /\ attached' \in {attached, TRUE}
  BY DEF Attach, Tick, ghosts
<1>3. SoundRows(outbox) /\ wire \subseteq DOMAIN outbox /\ \A d \in wire : outbox[d].tried
  BY DEF IInv, TypeOK, RowsInv
<1>4. /\ SoundRows(outbox') /\ DOMAIN outbox' = DOMAIN outbox
      /\ \A d \in DOMAIN outbox : /\ outbox'[d].event = outbox[d].event
                                  /\ outbox'[d].acked = outbox[d].acked
                                  /\ outbox[d].tried => outbox'[d].tried
      /\ wire' \subseteq DOMAIN outbox /\ \A d \in wire' : outbox'[d].tried
  BY <1>1, <1>3, DrainFacts
<1>5. Keeps(outbox')
  BY <1>4 DEF Keeps
<1>6. ProcessTyped'
  <2>1. attached' \in BOOLEAN
    BY <1>2 DEF IInv, TypeOK
  <2>2. QED
    BY <1>2, <2>1 DEF ProcessTyped, IInv, TypeOK
<1>7. NumbersInv' /\ heard \subseteq heard'
  BY <1>2 DEF NumbersInv, IInv
<1>8. QED
  BY <1>2, <1>4, <1>5, <1>6, <1>7, RowStep

LEMMA BackoffStep ==
  ASSUME IInv, NEW k \in DOMAIN outbox, BackoffElapses(k)
  PROVE  IInv'
<1> DEFINE R == [outbox EXCEPT ![k].due = TRUE]
<1>1. SoundRows(outbox) /\ wire \subseteq DOMAIN outbox /\ \A d \in wire : outbox[d].tried
  BY DEF IInv, TypeOK, RowsInv
<1>2. /\ DOMAIN R = DOMAIN outbox /\ R = [d \in DOMAIN R |-> R[d]]
      /\ R[k] = [outbox[k] EXCEPT !.due = TRUE]
      /\ \A d \in DOMAIN outbox : d # k => R[d] = outbox[d]
  OBVIOUS
<1>3. ASSUME NEW d \in DOMAIN R
      PROVE  /\ R[d] \in RowType /\ R[d].event = outbox[d].event
             /\ R[d].tried = outbox[d].tried /\ R[d].acked = outbox[d].acked
             /\ (R[d].due <=> d = k \/ outbox[d].due)
  <2>1. outbox[d] \in RowType
    BY <1>1, <1>2 DEF SoundRows, RowsTyped
  <2>2. \A w \in RowType, b \in BOOLEAN :
          /\ [w EXCEPT !.due = b] \in RowType
          /\ [w EXCEPT !.due = b].event = w.event /\ [w EXCEPT !.due = b].tried = w.tried
          /\ [w EXCEPT !.due = b].acked = w.acked /\ [w EXCEPT !.due = b].due = b
    BY DEF RowType
  <2>3. TRUE \in BOOLEAN
    OBVIOUS
  <2> DEFINE w == [outbox[k] EXCEPT !.due = TRUE]
  <2>4. outbox[k] \in RowType
    BY <1>1 DEF SoundRows, RowsTyped
  <2>5. /\ w \in RowType /\ w.event = outbox[k].event /\ w.tried = outbox[k].tried
        /\ w.acked = outbox[k].acked /\ w.due = TRUE
    BY <2>2, <2>3, <2>4
  <2> HIDE DEF R, w
  <2>6. CASE d = k
    BY <1>2, <2>5, <2>6 DEF w
  <2>7. CASE d # k
    BY <1>2, <2>1, <2>7
  <2>8. QED
    BY <2>6, <2>7
<1>4. outbox' = R
  BY DEF BackoffElapses
<1> HIDE DEF R
<1>5. SoundRows(R)
  <2>1. RowsTyped(R)
    BY <1>1, <1>2, <1>3 DEF SoundRows, RowsTyped
  <2>2. InOrder(R) /\ FreshIsDue(R)
    BY <1>1, <1>2, <1>3 DEF SoundRows, InOrder, FreshIsDue
  <2>3. QED
    BY <2>1, <2>2 DEF SoundRows
<1>6. UNCHANGED <<hosted, mapper, stored, daemon, attached, wire, made, published, heard>>
  BY DEF BackoffElapses, link, ghosts
<1>7. ProcessTyped' /\ NumbersInv' /\ heard \subseteq heard'
  BY <1>6 DEF ProcessTyped, NumbersInv, IInv, TypeOK
<1>8. Keeps(outbox') /\ wire' \subseteq DOMAIN outbox' /\ \A d \in wire' : outbox'[d].tried
  BY <1>1, <1>2, <1>3, <1>4, <1>6 DEF Keeps
<1>9. QED
  BY <1>2, <1>4, <1>5, <1>6, <1>7, <1>8, RowStep

\* Only a row that was sent is acknowledged, and what it carries is then heard.
LEMMA HandleAckStep ==
  ASSUME IInv, NEW k \in DOMAIN outbox, HandleAck(k)
  PROVE  IInv'
<1> DEFINE R == [outbox EXCEPT ![k].acked = TRUE]
<1>1. SoundRows(outbox) /\ wire \subseteq DOMAIN outbox /\ \A d \in wire : outbox[d].tried
  BY DEF IInv, TypeOK, RowsInv
<1>2. /\ DOMAIN R = DOMAIN outbox /\ R = [d \in DOMAIN R |-> R[d]]
      /\ R[k] = [outbox[k] EXCEPT !.acked = TRUE]
      /\ \A d \in DOMAIN outbox : d # k => R[d] = outbox[d]
  OBVIOUS
<1>3. ASSUME NEW d \in DOMAIN R
      PROVE  /\ R[d] \in RowType /\ R[d].event = outbox[d].event
             /\ R[d].tried = outbox[d].tried /\ R[d].due = outbox[d].due
             /\ (R[d].acked <=> d = k \/ outbox[d].acked)
  <2>1. outbox[d] \in RowType
    BY <1>1, <1>2 DEF SoundRows, RowsTyped
  <2>2. \A w \in RowType, b \in BOOLEAN :
          /\ [w EXCEPT !.acked = b] \in RowType
          /\ [w EXCEPT !.acked = b].event = w.event /\ [w EXCEPT !.acked = b].tried = w.tried
          /\ [w EXCEPT !.acked = b].due = w.due /\ [w EXCEPT !.acked = b].acked = b
    BY DEF RowType
  <2>3. TRUE \in BOOLEAN
    OBVIOUS
  <2> DEFINE w == [outbox[k] EXCEPT !.acked = TRUE]
  <2>4. outbox[k] \in RowType
    BY <1>1 DEF SoundRows, RowsTyped
  <2>5. /\ w \in RowType /\ w.event = outbox[k].event /\ w.tried = outbox[k].tried
        /\ w.due = outbox[k].due /\ w.acked = TRUE
    BY <2>2, <2>3, <2>4
  <2> HIDE DEF R, w
  <2>6. CASE d = k
    BY <1>2, <2>5, <2>6 DEF w
  <2>7. CASE d # k
    BY <1>2, <2>1, <2>7
  <2>8. QED
    BY <2>6, <2>7
<1>4. outbox' = R /\ k \in wire /\ wire' = wire \ {k}
      /\ heard' = heard \cup {outbox[k].event}
  BY DEF HandleAck, MarkAcked
<1> HIDE DEF R
<1>5. SoundRows(R)
  <2>1. RowsTyped(R)
    BY <1>1, <1>2, <1>3 DEF SoundRows, RowsTyped
  <2>2. InOrder(R) /\ FreshIsDue(R)
    BY <1>1, <1>2, <1>3, <1>4 DEF SoundRows, InOrder, FreshIsDue
  <2>3. QED
    BY <2>1, <2>2 DEF SoundRows
<1>6. UNCHANGED <<hosted, mapper, stored, daemon, attached, made, published>>
  BY DEF HandleAck
<1>7. outbox[k].event \in EventType
  BY <1>1 DEF SoundRows, RowsTyped, RowType
<1>8. TypeOK'
  <2>1. ProcessTyped'
    BY <1>4, <1>6, <1>7 DEF ProcessTyped, IInv, TypeOK
  <2>2. wire' \subseteq DOMAIN outbox' /\ RowsTyped(outbox')
    BY <1>1, <1>2, <1>4, <1>5 DEF SoundRows
  <2>3. QED
    BY <2>1, <2>2 DEF ProcessTyped, RowsTyped, RowType, TypeOK
<1>9. NumbersInv'
  BY <1>6 DEF NumbersInv, IInv
<1>10. RowsInv'
  BY <1>1, <1>2, <1>3, <1>4, <1>5, <1>6 DEF RowsInv, IInv
<1>11. LostOnlyToUnstored'
  <2>1. \A e : InOutbox(e) => InOutbox(e)'
    BY <1>2, <1>3, <1>4 DEF InOutbox
  <2>2. QED
    BY <1>6, <2>1 DEF IInv, LostOnlyToUnstored, InOutbox
<1>12. AckedWasHeard'
  BY <1>2, <1>3, <1>4 DEF IInv, AckedWasHeard
<1>13. QED
  BY <1>8, <1>9, <1>10, <1>11, <1>12 DEF IInv

\* Losing the connection loses what is on it, and nothing of the rows.
LEMMA DetachedFacts ==
  ASSUME IInv, NEW sent \in SUBSET DOMAIN outbox, Detached(sent),
         UNCHANGED <<hosted, stored, made, published>>,
         mapper' \in {mapper, [mapper EXCEPT !.up = FALSE]},
         daemon' \in {"up", "closed", "down"}
  PROVE  /\ heard \subseteq heard'
         /\ wire' = {}
         /\ ProcessTyped' /\ NumbersInv'
<1>1. PICK got \in SUBSET sent : heard' = heard \cup {outbox[d].event : d \in got}
  BY DEF Detached
<1>2. \A d \in DOMAIN outbox : outbox[d].event \in EventType
  BY DEF IInv, RowsInv, SoundRows, RowsTyped, RowType
<1>3. heard' \subseteq EventType /\ heard \subseteq heard'
  BY <1>1, <1>2 DEF IInv, TypeOK
<1>4. attached' = FALSE /\ wire' = {} /\ FALSE \in BOOLEAN
  BY DEF Detached
<1>5. mapper' \in MapperType /\ mapper'.seq = mapper.seq /\ mapper'.run = mapper.run
      /\ (mapper'.up => mapper.up)
  BY DownFacts DEF IInv, TypeOK, MapperType
<1>6. ProcessTyped'
  BY <1>3, <1>4, <1>5 DEF IInv, TypeOK, ProcessTyped, MapperType
<1>7. NumbersInv'
  BY <1>5 DEF IInv, NumbersInv
<1>8. QED
  BY <1>3, <1>4, <1>6, <1>7

LEMMA DetachStep ==
  ASSUME IInv, ConnectionBreaks \/ Stop
  PROVE  IInv'
<1>1. wire \in SUBSET DOMAIN outbox /\ SoundRows(outbox)
  BY DEF IInv, TypeOK, RowsInv
<1>2. /\ Detached(wire) /\ UNCHANGED <<hosted, mapper, stored, made, published, outbox>>
      /\ daemon' \in {"up", "closed", "down"}
  BY DEF ConnectionBreaks, Stop, IInv, TypeOK
<1>3. heard \subseteq heard' /\ wire' = {} /\ ProcessTyped' /\ NumbersInv'
  BY <1>1, <1>2, DetachedFacts
<1>4. /\ SoundRows(outbox') /\ Keeps(outbox') /\ DOMAIN outbox' = DOMAIN outbox
      /\ wire' \subseteq DOMAIN outbox' /\ \A d \in wire' : outbox'[d].tried
  BY <1>1, <1>2, <1>3 DEF Keeps
<1>5. QED
  BY <1>2, <1>3, <1>4, RowStep

\* What was sent and not marked is sent again; the order is not harmed.
LEMMA KilledDrainingStep ==
  ASSUME IInv, NEW force \in BOOLEAN, NEW last \in DOMAIN outbox,
         KilledDraining(force, last)
  PROVE  IInv'
<1> DEFINE batch == Batch(outbox, force)
           sent == {d \in batch : d <= last}
           marked == sent \ {last}
<1>1. /\ SoundRows(outbox) /\ wire \subseteq DOMAIN outbox /\ last \in batch
      /\ DOMAIN outbox \subseteq 1..MaxEvents
  BY DEF KilledDraining, IInv, TypeOK, RowsInv
<1>2. batch \subseteq DOMAIN outbox
      /\ \A d \in batch, c \in DOMAIN outbox : c < d /\ ~outbox[c].tried => c \in batch
  BY <1>1, BatchClosed
<1>3. /\ Detached(wire \cup sent) /\ outbox' = Attempted(outbox, marked)
      /\ UNCHANGED <<hosted, stored, made, published>>
      /\ mapper' \in {mapper, [mapper EXCEPT !.up = FALSE]} /\ daemon' = "down"
  BY DEF KilledDraining, HostedEnded
<1> HIDE DEF batch
<1>4. marked \subseteq DOMAIN outbox
  BY <1>2
<1>5. \A d \in marked, c \in DOMAIN outbox : c < d /\ ~outbox[c].tried => c \in marked
  <2> SUFFICES ASSUME NEW d \in marked, NEW c \in DOMAIN outbox, c < d, ~outbox[c].tried
               PROVE  c \in marked
    OBVIOUS
  <2>1. c \in batch
    BY <1>2
  <2>2. c \in Int /\ d \in Int /\ last \in Int /\ d <= last /\ c < last
    BY <1>1, <1>2
  <2>3. QED
    BY <2>1, <2>2
<1>6. wire \cup sent \in SUBSET DOMAIN outbox
  BY <1>1, <1>2
<1> HIDE DEF sent, marked
<1>7. heard \subseteq heard' /\ wire' = {} /\ ProcessTyped' /\ NumbersInv'
  BY <1>3, <1>6, DetachedFacts
<1>8. /\ SoundRows(outbox') /\ DOMAIN outbox' = DOMAIN outbox
      /\ \A d \in DOMAIN outbox : /\ outbox'[d].event = outbox[d].event
                                  /\ outbox'[d].acked = outbox[d].acked
                                  /\ outbox[d].tried => outbox'[d].tried
  BY <1>1, <1>3, <1>4, <1>5, AttemptedFacts
<1>9. Keeps(outbox') /\ wire' \subseteq DOMAIN outbox' /\ \A d \in wire' : outbox'[d].tried
  BY <1>7, <1>8 DEF Keeps
<1>10. QED
  BY <1>3, <1>7, <1>8, <1>9, RowStep

-----------------------------------------------------------------------------
LEMMA InitIInv == Init => IInv
<1> SUFFICES ASSUME Init PROVE IInv
  OBVIOUS
<1>1. DOMAIN outbox = {}
  BY DEF Init
<1>2. outbox = [d \in {} |-> outbox[d]]
  BY DEF Init
<1>3. RowsTyped(outbox) /\ InOrder(outbox) /\ FreshIsDue(outbox)
  BY <1>1, <1>2 DEF RowsTyped, InOrder, FreshIsDue
<1>4. RowsInv
  BY <1>1, <1>3 DEF RowsInv, SoundRows, Init
<1>5. ProcessTyped /\ NumbersInv
  <2>1. mapper \in MapperType /\ mapper.seq = 0 /\ mapper.run = 0
    <3>1. TRUE \in BOOLEAN /\ FALSE \in BOOLEAN /\ 0 \in 0..MaxEvents
      BY LimitAssumption
    <3>2. \A a, b \in BOOLEAN : [up |-> a, seq |-> 0, run |-> 0, open |-> b] \in MapperType
      BY <3>1 DEF MapperType
    <3>3. QED
      BY <3>1, <3>2 DEF Init
  <2>2. hosted \in BOOLEAN /\ attached \in BOOLEAN
    BY Zenon DEF Init
  <2>3. made \in 0..MaxEvents
    BY LimitAssumption DEF Init
  <2>4. QED
    BY <2>1, <2>2, <2>3 DEF Init, ProcessTyped, NumbersInv, MapperType
<1>6. TypeOK
  BY <1>3, <1>5, TypeParts DEF Init
<1>7. LostOnlyToUnstored /\ AckedWasHeard
  BY <1>1 DEF Init, LostOnlyToUnstored, AckedWasHeard
<1>8. QED
  BY <1>4, <1>5, <1>6, <1>7 DEF IInv

LEMMA NextIInv == IInv /\ [Next]_vars => IInv'
<1> SUFFICES ASSUME IInv, [Next]_vars PROVE IInv'
  OBVIOUS
<1>1. ASSUME NEW cause \in Causes, NEW persists \in BOOLEAN, NEW enqueues \in BOOLEAN,
             Ingest(cause, persists, enqueues)
      PROVE  IInv'
  BY <1>1, IngestStep
<1>2. ASSUME NEW cause \in Causes, KilledBeforePublish(cause) PROVE IInv'
  BY <1>2, KilledBeforePublishStep
<1>3. CASE Notify
  BY <1>3, NotifyStep
<1>4. CASE SessionEnds \/ Exit
  BY <1>4, SessionEndsStep
<1>5. CASE SessionStarts
  BY <1>5, SessionStartsStep
<1>6. CASE Attach \/ Tick
  BY <1>6, DrainStep
<1>7. CASE ConnectionBreaks \/ Stop
  BY <1>7, DetachStep
<1>8. CASE DaemonStarts
  BY <1>8, DaemonStartsStep
<1>9. ASSUME NEW d \in DOMAIN outbox, BackoffElapses(d) PROVE IInv'
  BY <1>9, BackoffStep
<1>10. ASSUME NEW d \in DOMAIN outbox, HandleAck(d) PROVE IInv'
  BY <1>10, HandleAckStep
<1>11. ASSUME NEW force \in BOOLEAN, NEW d \in DOMAIN outbox, KilledDraining(force, d)
       PROVE  IInv'
  BY <1>11, KilledDrainingStep
<1>12. CASE UNCHANGED vars
  <2>1. UNCHANGED <<hosted, mapper, stored, outbox, daemon, attached, wire, made,
                    published, heard>>
    BY <1>12 DEF vars, link, ghosts
  <2>2. ProcessTyped' /\ NumbersInv'
    BY <2>1 DEF ProcessTyped, NumbersInv, IInv, TypeOK
  <2>3. QED
    BY <2>1, <2>2, QuietStep
<1>13. QED
  BY <1>1, <1>2, <1>3, <1>4, <1>5, <1>6, <1>7, <1>8, <1>9, <1>10, <1>11, <1>12 DEF Next

LEMMA SpecIInv == Spec => []IInv
<1>1. Init => IInv
  BY InitIInv
<1>2. IInv /\ [Next]_vars => IInv'
  BY NextIInv
<1>3. QED
  BY <1>1, <1>2, PTL DEF Spec

-----------------------------------------------------------------------------
(* The results.                                                             *)

\* The state keeps its shape, and no two rows carry the same event id.
THEOREM TypeCorrect == Spec => []TypeOK
<1>1. IInv => TypeOK
  BY DEF IInv
<1>2. QED
  BY <1>1, SpecIInv, PTL

\* Whatever processes are killed and whatever writes fail, a published event
\* misses from the outbox only if an event of its id that was never stored has
\* taken its place.
THEOREM LostCorrect == Spec => []LostOnlyToUnstored
<1>1. IInv => LostOnlyToUnstored
  BY DEF IInv
<1>2. QED
  BY <1>1, SpecIInv, PTL

\* Rows are first sent in the order of delivery_seq, whatever the batch limit.
THEOREM OrderCorrect == Spec => []FirstSendsInOrder
<1>1. IInv => FirstSendsInOrder
  BY DEF IInv, RowsInv, SoundRows, InOrder, FirstSendsInOrder
<1>2. QED
  BY <1>1, SpecIInv, PTL

\* A row is marked acknowledged only when the dashboard has its event.
THEOREM AckCorrect == Spec => []AckedWasHeard
<1>1. IInv => AckedWasHeard
  BY DEF IInv
<1>2. QED
  BY <1>1, SpecIInv, PTL
=============================================================================
