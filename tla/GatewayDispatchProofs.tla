------------------------ MODULE GatewayDispatchProofs ------------------------
(***************************************************************************)
(* Proofs about GatewayDispatch, for every set of runtimes, slots,         *)
(* connections and messages and every bound.                               *)
(***************************************************************************)
EXTENDS GatewayDispatch, FiniteSetTheorems, SequenceTheorems, TLAPS

(* Draining a finite queue mints a natural number of ids, and every turn it *)
(* makes is well typed (InboundQueue.drain, SessionRegistry.beginDispatch). *)
LEMMA DispatchTypes ==
  ASSUME TypeOK, NEW rows \in SUBSET RowType, IsFiniteSet(rows),
         NEW slot \in SlotType, DispatchInbound(rows, slot)
  PROVE  /\ registry' \in SUBSET TurnType
         /\ pushed' \in SUBSET TurnType
         /\ minted' \in Nat
<1>1. \A row \in rows : Before(rows, row) \in Nat
  BY FS_Subset, FS_CardinalityType DEF Before
<1>2. \A row \in rows : Turn(row, Before(rows, row), slot) \in TurnType
  BY <1>1 DEF Turn, TurnType, RowType, SlotType, TypeOK
<1>3. Cardinality(rows) \in Nat
  BY FS_CardinalityType
<1> QED BY <1>2, <1>3 DEF DispatchInbound, TypeOK

(* A free slot is well typed (RuntimeBindingStore's Slot). *)
LEMMA EmptySlotType == EmptySlot \in SlotType
BY DEF EmptySlot, SlotType

(* bind() leaves a well-typed slot. *)
LEMMA BoundType ==
  ASSUME NEW slot \in SlotType, NEW r \in Runtimes, NEW c \in Conns
  PROVE  Bound(slot, r, c) \in SlotType
BY DEF Bound, SlotType, IsRebind

(* The gateway starts well typed. *)
THEOREM TypeInitial == Init => TypeOK
BY EmptySlotType, FS_EmptySet, BoundsAssumption DEF Init, TypeOK

(* A registration, with the drain it causes, keeps the types                *)
(* (registerRuntime, drainPending).                                         *)
LEMMA TypeRegister ==
  ASSUME TypeOK, NEW c \in Conns, NEW r \in Runtimes, RegisterRuntime(c, r)
  PROVE  TypeOK'
<1> DEFINE k == AttachmentOf[r]
<1>1. k \in Keys
  BY AttachmentAssumption
<1>2. slots[k] \in SlotType
  BY <1>1 DEF TypeOK
<1>3. Bound(slots[k], r, c) \in SlotType
  BY <1>2, BoundType
<1>4. /\ Parked(k) \in SUBSET RowType
      /\ IsFiniteSet(Parked(k))
  BY FS_Subset DEF TypeOK, Parked
<1>5. /\ registry' \in SUBSET TurnType
      /\ pushed' \in SUBSET TurnType
      /\ minted' \in Nat
  BY <1>3, <1>4, DispatchTypes DEF RegisterRuntime
<1>6. /\ queue' \in SUBSET RowType
      /\ IsFiniteSet(queue')
      /\ Cardinality(queue') <= MaxQueue
  <2>1. queue' \subseteq queue
    BY DEF RegisterRuntime, Drained
  <2>2. IsFiniteSet(queue') /\ Cardinality(queue') <= Cardinality(queue)
    BY <2>1, FS_Subset DEF TypeOK
  <2>3. Cardinality(queue') \in Nat /\ Cardinality(queue) \in Nat
    BY <2>2, FS_CardinalityType DEF TypeOK
  <2> QED BY <2>1, <2>2, <2>3, BoundsAssumption DEF TypeOK
<1>7. slots' \in [Keys -> SlotType]
  BY <1>3 DEF RegisterRuntime, TypeOK
<1>8. timers' \in SUBSET (Keys \X Runtimes)
  BY DEF RegisterRuntime, ClearTimer, TypeOK
<1>9. bridge' \in [Conns -> Runtimes \cup {NoRuntime}]
  BY DEF RegisterRuntime, TypeOK
<1> QED BY <1>5, <1>6, <1>7, <1>8 DEF RegisterRuntime, TypeOK

(* An inbound message, dispatched, parked, refused or dropped as a           *)
(* duplicate, keeps the types and the queue's limit (handleInbound).         *)
LEMMA TypeInbound ==
  ASSUME TypeOK, NEW m \in Msgs, NEW k \in Keys, HandleInbound(m, k)
  PROVE  TypeOK'
<1>1. Row(m, k) \in RowType
  BY DEF Row, RowType, TypeOK
<1>2. seen' \in Seq(Msgs)
  <2>1. seen \in Seq(Msgs)
    BY DEF TypeOK
  <2>2. Append(seen, m) \in Seq(Msgs) /\ Tail(Append(seen, m)) \in Seq(Msgs)
    <3> DEFINE grown == Append(seen, m)
    <3>1. grown \in Seq(Msgs) /\ grown # <<>>
      BY <2>1, AppendProperties
    <3> HIDE DEF grown
    <3>2. Tail(grown) \in Seq(Msgs)
      BY <3>1
    <3> QED BY <3>1, <3>2 DEF grown
  <2>3. seen' = seen \/ seen' = Remember(m)
    BY DEF HandleInbound
  <2> QED BY <2>1, <2>2, <2>3 DEF Remember
<1>3. arrivals' \in Nat
  BY DEF HandleInbound, TypeOK
<1>4. /\ registry' \in SUBSET TurnType
      /\ pushed' \in SUBSET TurnType
      /\ minted' \in Nat
  <2>1. CASE DispatchInbound({Row(m, k)}, slots[k])
    BY <2>1, <1>1, DispatchTypes, FS_Singleton DEF TypeOK
  <2>2. CASE UNCHANGED <<registry, pushed, minted>>
    BY <2>2 DEF TypeOK
  <2> QED BY <2>1, <2>2 DEF HandleInbound
<1>5. /\ queue' \in SUBSET RowType
      /\ IsFiniteSet(queue')
      /\ Cardinality(queue') <= MaxQueue
  <2>1. CASE UNCHANGED queue
    BY <2>1 DEF TypeOK
  <2>2. CASE CanEnqueue(m) /\ queue' = queue \cup {Row(m, k)}
    <3> DEFINE row == Row(m, k)
    <3>0. /\ IsFiniteSet(queue \cup {row})
          /\ Cardinality(queue \cup {row}) = IF row \in queue THEN Cardinality(queue)
                                              ELSE Cardinality(queue) + 1
      <4> HIDE DEF row
      <4> QED BY FS_AddElement DEF TypeOK
    <3>1. IsFiniteSet(queue') /\ Cardinality(queue') <= Cardinality(queue) + 1
      BY <2>2, <3>0, FS_CardinalityType DEF TypeOK
    <3>2. Cardinality(queue) \in Nat /\ Cardinality(queue') \in Nat
      BY <3>1, FS_CardinalityType DEF TypeOK
    <3>3. Cardinality(queue) + 1 <= MaxQueue
      BY <2>2, <3>2, BoundsAssumption DEF CanEnqueue
    <3> QED BY <2>2, <1>1, <3>1, <3>2, <3>3, BoundsAssumption DEF TypeOK
  <2> QED BY <2>1, <2>2 DEF HandleInbound
<1> QED BY <1>2, <1>3, <1>4, <1>5 DEF HandleInbound, TypeOK

(* Every step keeps the types. *)
LEMMA TypeNext == TypeOK /\ [Next]_vars => TypeOK'
<1> SUFFICES ASSUME TypeOK, [Next]_vars PROVE TypeOK'
  OBVIOUS
<1>1. ASSUME NEW c \in Conns, Connect(c) PROVE TypeOK'
  BY <1>1 DEF Connect, TypeOK
<1>2. ASSUME NEW c \in Conns, UnregisterRuntime(c) PROVE TypeOK'
  BY <1>2, EmptySlotType DEF UnregisterRuntime, SlotOfRuntime, ClearTimer, TypeOK
<1>3. ASSUME NEW c \in Conns, NotifyConnectionClosed(c) PROVE TypeOK'
  <2>1. /\ slots' \in [Keys -> SlotType]
        /\ timers' \in SUBSET (Keys \X Runtimes)
    <3>1. CASE UNCHANGED <<slots, timers>>
      BY <3>1 DEF TypeOK
    <3>2. ASSUME NEW k \in SlotOfConnection(c), Grace,
                 slots' = [slots EXCEPT ![k].active = FALSE, ![k].push = NoConn,
                                        ![k].timer = TRUE],
                 timers' = ArmTimer(k)
          PROVE  /\ slots' \in [Keys -> SlotType]
                 /\ timers' \in SUBSET (Keys \X Runtimes)
      <4>1. k \in Keys /\ slots[k] \in SlotType /\ slots[k].rt \in Runtimes
        BY DEF SlotOfConnection, Occupied, TypeOK, SlotType
      <4>2. [slots[k] EXCEPT !.active = FALSE, !.push = NoConn, !.timer = TRUE] \in SlotType
        BY <4>1 DEF SlotType
      <4> QED BY <3>2, <4>1, <4>2 DEF ArmTimer, TypeOK
    <3>3. ASSUME NEW k \in SlotOfConnection(c), slots' = [slots EXCEPT ![k] = EmptySlot],
                 UNCHANGED timers
          PROVE  /\ slots' \in [Keys -> SlotType]
                 /\ timers' \in SUBSET (Keys \X Runtimes)
      BY <3>3, EmptySlotType DEF TypeOK
    <3> QED BY <1>3, <3>1, <3>2, <3>3 DEF NotifyConnectionClosed
  <2> QED BY <1>3, <2>1 DEF NotifyConnectionClosed, TypeOK
<1>4. ASSUME NEW c \in Conns, NEW r \in Runtimes, RegisterRuntime(c, r) PROVE TypeOK'
  BY <1>4, TypeRegister
<1>5. ASSUME NEW c \in Conns, NEW t \in pushed, HandleTurnComplete(c, t) PROVE TypeOK'
  <2>1. [id |-> t.id, msg |-> t.msg, rt |-> bridge[c]] \in ReplyType
    BY DEF TypeOK, TurnType, ReplyType
  <2> QED BY <1>5, <2>1 DEF HandleTurnComplete, CompleteDispatch, TypeOK
<1>6. ASSUME NEW k \in Keys, NEW r \in Runtimes, ExpireStaleBinding(k, r) PROVE TypeOK'
  <2>1. slots' \in [Keys -> SlotType]
    <3>1. slots \in [Keys -> SlotType]
      BY DEF TypeOK
    <3>2. [slots[k] EXCEPT !.timer = FALSE] \in SlotType
      BY <3>1 DEF SlotType
    <3>3. \/ slots' = slots
          \/ slots' = [slots EXCEPT ![k] = [slots[k] EXCEPT !.timer = FALSE]]
          \/ slots' = [slots EXCEPT ![k] = EmptySlot]
      BY <1>6 DEF ExpireStaleBinding
    <3> QED BY <3>1, <3>2, <3>3, EmptySlotType
  <2> QED BY <1>6, <2>1 DEF ExpireStaleBinding, TypeOK
<1>7. ASSUME NEW m \in Msgs, NEW k \in Keys, HandleInbound(m, k) PROVE TypeOK'
  BY <1>7, TypeInbound
<1>8. CASE Restart
  BY <1>8, EmptySlotType DEF Restart, TypeOK
<1>9. CASE UNCHANGED vars
  BY <1>9 DEF vars, TypeOK
<1> QED BY <1>1, <1>2, <1>3, <1>4, <1>5, <1>6, <1>7, <1>8, <1>9 DEF Next

(* Every reachable state is well typed and the inbound queue never exceeds *)
(* its limit (InboundQueue.enqueue).                                       *)
THEOREM TypeCorrect == Spec => []TypeOK
BY TypeInitial, TypeNext, PTL DEF Spec
-----------------------------------------------------------------------------
(* The inductive invariant.  SlotInv ties a slot to its connection, to the  *)
(* bridge that registered it and to its timer; TurnInv numbers the messages *)
(* and the turns, so that order and uniqueness can be carried from step to  *)
(* step.                                                                    *)

SlotInv ==
  \A k \in Keys :
    IF Occupied(k)
    THEN /\ AttachmentOf[slots[k].rt] = k
         /\ slots[k].conn \in Conns
         /\ slots[k].timer <=> ~slots[k].active
         /\ ~slots[k].active => link[slots[k].conn] = "closed"
    ELSE slots[k] = EmptySlot

BindingInv == SlotInv /\ GraceTimerIffStale /\ PushHandleIsLive

RowsInv ==
  /\ \A row \in queue : row.arr \in 1..arrivals
  /\ \A row, q \in queue : row.arr = q.arr => row = q
  /\ \A row \in queue, t \in pushed : row.key = t.key => t.arr < row.arr

TurnsInv ==
  /\ registry \subseteq pushed
  /\ \A t \in pushed : t.arr \in 1..arrivals /\ t.id \in 1..minted
  /\ \A t, u \in pushed : t.id = u.id => t = u

MessageInv ==
  /\ ParkedOnlyWhileInactive /\ RowsInv /\ TurnsInv
  /\ AcceptedExactlyOnce /\ DispatchedInArrivalOrder /\ ReplyAnswersItsTurn

IInv == TypeOK /\ BindingInv /\ MessageInv

(* A registration ties its slot to the new connection and stops the timer   *)
(* that ran for it (RuntimeBindingStore.bind).                              *)
LEMMA BindingRegister ==
  ASSUME TypeOK, BindingInv, NEW c \in Conns, NEW r \in Runtimes, RegisterRuntime(c, r)
  PROVE  BindingInv'
<1> DEFINE k == AttachmentOf[r]
<1>1. k \in Keys /\ slots[k] \in SlotType /\ r # NoRuntime
  BY AttachmentAssumption, RuntimesAssumption DEF TypeOK
<1>2. /\ slots' = [slots EXCEPT ![k] = Bound(slots[k], r, c)]
      /\ timers' = ClearTimer(k)
      /\ bridge' = [bridge EXCEPT ![c] = r]
      /\ link[c] = "open" /\ link' = link
      /\ slots[k].rt \in {NoRuntime, r}
      /\ bridge[c] \in {NoRuntime, r}
  BY DEF RegisterRuntime, CanBind
<1>3. /\ slots'[k].rt = r /\ slots'[k].conn = c /\ slots'[k].active
      /\ slots'[k].push = c /\ ~slots'[k].timer
  BY <1>1, <1>2 DEF Bound, TypeOK
<1>4. \A j \in Keys \ {k} : slots'[j] = slots[j]
  BY <1>2 DEF TypeOK
<1>5. bridge'[c] = r /\ \A d \in Conns : bridge[d] # NoRuntime => bridge'[d] = bridge[d]
  BY <1>2 DEF TypeOK
<1>6. SlotInv'
  BY <1>1, <1>2, <1>3 DEF BindingInv, SlotInv, Occupied
<1>7. PushHandleIsLive'
  <2> SUFFICES ASSUME NEW j \in Keys, Occupied(j)'
               PROVE  IF slots'[j].active
                      THEN /\ slots'[j].push = slots'[j].conn
                           /\ link'[slots'[j].conn] = "open"
                           /\ bridge'[slots'[j].conn] = slots'[j].rt
                      ELSE slots'[j].push = NoConn
    BY DEF PushHandleIsLive
  <2>1. CASE j = k
    BY <2>1, <1>2, <1>3, <1>5
  <2>2. CASE j # k
    <3>1. slots'[j] = slots[j] /\ Occupied(j) /\ slots[j].conn \in Conns
      BY <2>2, <1>4 DEF Occupied, BindingInv, SlotInv
    <3> QED BY <3>1, <1>2, <1>5 DEF BindingInv, PushHandleIsLive, Occupied
  <2> QED BY <2>1, <2>2
<1>8. GraceTimerIffStale'
  <2>1. \A q \in Runtimes : <<k, q>> \notin timers'
    <3>1. CASE slots[k].rt = NoRuntime
      BY <3>1, <1>1, <1>2, RuntimesAssumption DEF ClearTimer, BindingInv, GraceTimerIffStale
    <3>2. CASE slots[k].rt = r
      <4>1. slots[k].timer <=> ~slots[k].active
        BY <3>2, <1>1 DEF BindingInv, SlotInv, Occupied
      <4> QED BY <4>1, <1>1, <1>2 DEF ClearTimer, BindingInv, GraceTimerIffStale
    <3> QED BY <1>2, <3>1, <3>2
  <2>2. \A j \in Keys \ {k}, q \in Runtimes : <<j, q>> \in timers' <=> <<j, q>> \in timers
    BY <1>2 DEF ClearTimer
  <2> SUFFICES ASSUME NEW j \in Keys, NEW q \in Runtimes
               PROVE  <<j, q>> \in timers' <=> slots'[j].rt = q /\ ~slots'[j].active
    BY DEF GraceTimerIffStale
  <2>3. CASE j = k
    BY <2>3, <1>3, <2>1
  <2>4. CASE j # k
    BY <2>4, <1>4, <2>2 DEF BindingInv, GraceTimerIffStale
  <2> QED BY <2>3, <2>4
<1> QED BY <1>6, <1>7, <1>8 DEF BindingInv

(* Emptying a slot together with its timer (unbind, and the expiry of a      *)
(* stale binding) keeps the invariant when no other slot loses its bridge.   *)
LEMMA BindingFreed ==
  ASSUME TypeOK, BindingInv, NEW k \in Keys, Occupied(k),
         slots' = [slots EXCEPT ![k] = EmptySlot],
         timers' = timers \ {<<k, slots[k].rt>>},
         \A d \in Conns : link[d] = "closed" => link'[d] = "closed",
         \A j \in Keys \ {k} : slots[j].active =>
           /\ link'[slots[j].conn] = link[slots[j].conn]
           /\ bridge'[slots[j].conn] = bridge[slots[j].conn]
  PROVE  BindingInv'
<1>1. slots'[k] = EmptySlot /\ \A j \in Keys \ {k} : slots'[j] = slots[j]
  BY DEF TypeOK
<1>2. SlotInv'
  <2> SUFFICES ASSUME NEW j \in Keys
               PROVE  IF Occupied(j)'
                      THEN /\ AttachmentOf[slots'[j].rt] = j
                           /\ slots'[j].conn \in Conns
                           /\ slots'[j].timer <=> ~slots'[j].active
                           /\ ~slots'[j].active => link'[slots'[j].conn] = "closed"
                      ELSE slots'[j] = EmptySlot
    BY DEF SlotInv
  <2>1. CASE j = k
    BY <2>1, <1>1 DEF Occupied, EmptySlot
  <2>2. CASE j # k
    BY <2>2, <1>1 DEF BindingInv, SlotInv, Occupied
  <2> QED BY <2>1, <2>2
<1>3. PushHandleIsLive'
  BY <1>1 DEF BindingInv, PushHandleIsLive, Occupied, EmptySlot
<1>4. \A q \in Runtimes : <<k, q>> \notin timers'
  BY DEF BindingInv, GraceTimerIffStale
<1>5. \A j \in Keys \ {k}, q \in Runtimes : <<j, q>> \in timers' <=> <<j, q>> \in timers
  OBVIOUS
<1>6. GraceTimerIffStale'
  <2> SUFFICES ASSUME NEW j \in Keys, NEW q \in Runtimes
               PROVE  <<j, q>> \in timers' <=> slots'[j].rt = q /\ ~slots'[j].active
    BY DEF GraceTimerIffStale
  <2>1. CASE j = k
    BY <2>1, <1>1, <1>4, RuntimesAssumption DEF EmptySlot
  <2>2. CASE j # k
    BY <2>2, <1>1, <1>5 DEF BindingInv, GraceTimerIffStale
  <2> QED BY <2>1, <2>2
<1> QED BY <1>2, <1>3, <1>6 DEF BindingInv

(* session.unregister frees the runtime's slot and stops its timer (unbind).  *)
LEMMA BindingUnregister ==
  ASSUME TypeOK, BindingInv, NEW c \in Conns, UnregisterRuntime(c)
  PROVE  BindingInv'
<1>1. PICK k \in Keys : /\ slots[k].rt = bridge[c] /\ bridge[c] # NoRuntime
                        /\ bridge' = [bridge EXCEPT ![c] = NoRuntime]
                        /\ slots' = [slots EXCEPT ![k] = EmptySlot]
                        /\ timers' = ClearTimer(k)
                        /\ link' = link
  BY DEF UnregisterRuntime, SlotOfRuntime
<1>2. Occupied(k) /\ slots[k].rt \in Runtimes
  BY <1>1 DEF Occupied, TypeOK
<1>3. timers' = timers \ {<<k, slots[k].rt>>}
  <2>1. ~slots[k].timer => <<k, slots[k].rt>> \notin timers
    BY <1>2 DEF BindingInv, SlotInv, GraceTimerIffStale
  <2> QED BY <1>1, <2>1 DEF ClearTimer
<1>4. \A j \in Keys \ {k} : slots[j].active => bridge'[slots[j].conn] = bridge[slots[j].conn]
  <2> SUFFICES ASSUME NEW j \in Keys \ {k}, slots[j].active
               PROVE  slots[j].conn # c
    BY <1>1 DEF TypeOK
  <2>1. Occupied(j)
    BY DEF BindingInv, SlotInv, EmptySlot
  <2>2. /\ bridge[slots[j].conn] = slots[j].rt
        /\ AttachmentOf[slots[j].rt] = j /\ AttachmentOf[slots[k].rt] = k
    BY <2>1, <1>2 DEF BindingInv, SlotInv, PushHandleIsLive
  <2> QED BY <1>1, <2>2
<1> QED BY <1>1, <1>2, <1>3, <1>4, BindingFreed

(* A closed connection makes its own slot stale, or frees it without a grace  *)
(* period, and touches no other (notifyConnectionClosed).                     *)
LEMMA BindingClosed ==
  ASSUME TypeOK, BindingInv, NEW c \in Conns, NotifyConnectionClosed(c)
  PROVE  BindingInv'
<1>1. /\ link[c] = "open" /\ link' = [link EXCEPT ![c] = "closed"]
      /\ bridge' = bridge
  BY DEF NotifyConnectionClosed
<1>2. link'[c] = "closed" /\ \A d \in Conns \ {c} : link'[d] = link[d]
  BY <1>1 DEF TypeOK
<1>3. \A j \in SlotOfConnection(c) : /\ j \in Keys /\ Occupied(j) /\ slots[j].active
                                     /\ slots[j].rt \in Runtimes
                                     /\ j = AttachmentOf[bridge[c]]
  BY <1>1 DEF SlotOfConnection, Occupied, BindingInv, SlotInv, PushHandleIsLive, TypeOK
<1>4. CASE SlotOfConnection(c) = {} /\ UNCHANGED <<slots, timers>>
  <2>1. \A j \in Keys : Occupied(j) => slots[j].conn # c
    BY <1>4 DEF SlotOfConnection
  <2>2. SlotInv'
    BY <1>2, <1>4, <2>1 DEF BindingInv, SlotInv, Occupied
  <2>3. PushHandleIsLive'
    BY <1>1, <1>4, <2>1 DEF BindingInv, PushHandleIsLive, Occupied
  <2>4. GraceTimerIffStale'
    BY <1>4 DEF BindingInv, GraceTimerIffStale
  <2> QED BY <2>2, <2>3, <2>4 DEF BindingInv
<1>5. ASSUME NEW k \in SlotOfConnection(c), slots' = [slots EXCEPT ![k] = EmptySlot],
             UNCHANGED timers
      PROVE  BindingInv'
  <2>1. timers' = timers \ {<<k, slots[k].rt>>}
    BY <1>3, <1>5 DEF BindingInv, GraceTimerIffStale
  <2>2. \A j \in Keys \ {k} : slots[j].active => slots[j].conn # c
    BY <1>3 DEF SlotOfConnection, BindingInv, SlotInv, EmptySlot
  <2>3. \A j \in Keys \ {k} : slots[j].active => slots[j].conn \in Conns
    BY DEF BindingInv, SlotInv, Occupied, EmptySlot
  <2> QED BY <1>1, <1>2, <1>3, <1>5, <2>1, <2>2, <2>3, BindingFreed
<1>6. ASSUME NEW k \in SlotOfConnection(c),
             slots' = [slots EXCEPT ![k].active = FALSE, ![k].push = NoConn, ![k].timer = TRUE],
             timers' = ArmTimer(k)
      PROVE  BindingInv'
  <2>1. k \in Keys /\ slots[k] \in SlotType /\ slots[k].rt \in Runtimes /\ slots[k].conn = c
    BY <1>3 DEF SlotOfConnection, TypeOK
  <2>2. /\ slots'[k].rt = slots[k].rt /\ slots'[k].conn = c /\ ~slots'[k].active
        /\ slots'[k].push = NoConn /\ slots'[k].timer
        /\ \A j \in Keys \ {k} : slots'[j] = slots[j]
    BY <1>6, <2>1 DEF TypeOK, SlotType
  <2>3. \A j \in Keys \ {k} : Occupied(j) => slots[j].conn # c
    BY <1>3, <2>1 DEF SlotOfConnection
  <2>4. SlotInv'
    BY <1>2, <1>3, <2>2 DEF BindingInv, SlotInv, Occupied
  <2>5. PushHandleIsLive'
    BY <1>1, <2>2, <2>3 DEF BindingInv, PushHandleIsLive, Occupied
  <2>6. GraceTimerIffStale'
    <3>1. \A q \in Runtimes : <<k, q>> \in timers' <=> q = slots[k].rt
      BY <1>3, <1>6, <2>1 DEF ArmTimer, BindingInv, GraceTimerIffStale
    <3>2. \A j \in Keys \ {k}, q \in Runtimes : <<j, q>> \in timers' <=> <<j, q>> \in timers
      BY <1>6 DEF ArmTimer
    <3>3. ASSUME NEW q \in Runtimes
          PROVE  <<k, q>> \in timers' <=> slots'[k].rt = q /\ ~slots'[k].active
      BY <2>2, <3>1
    <3>4. ASSUME NEW j \in Keys \ {k}, NEW q \in Runtimes
          PROVE  <<j, q>> \in timers' <=> slots'[j].rt = q /\ ~slots'[j].active
      <4>1. <<j, q>> \in timers <=> slots[j].rt = q /\ ~slots[j].active
        BY DEF BindingInv, GraceTimerIffStale
      <4>2. slots'[j] = slots[j]
        BY <2>2
      <4> QED BY <3>2, <4>1, <4>2
    <3> QED BY <3>3, <3>4 DEF GraceTimerIffStale
  <2> QED BY <2>4, <2>5, <2>6 DEF BindingInv
<1> QED BY <1>4, <1>5, <1>6 DEF NotifyConnectionClosed

(* The grace timer frees a stale slot (expireStaleBinding).                   *)
LEMMA BindingExpire ==
  ASSUME TypeOK, BindingInv, NEW k \in Keys, NEW r \in Runtimes, ExpireStaleBinding(k, r)
  PROVE  BindingInv'
<1>1. slots[k].rt = r /\ ~slots[k].active /\ Occupied(k)
  BY RuntimesAssumption DEF ExpireStaleBinding, BindingInv, GraceTimerIffStale, Occupied
<1>2. /\ slots' = [slots EXCEPT ![k] = EmptySlot]
      /\ timers' = timers \ {<<k, slots[k].rt>>}
      /\ UNCHANGED <<link, bridge>>
  BY <1>1 DEF ExpireStaleBinding
<1> QED BY <1>1, <1>2, BindingFreed

(* Steps that leave slots and timers alone and close no connection.           *)
LEMMA BindingUnchanged ==
  ASSUME BindingInv, UNCHANGED <<bridge, slots, timers>>,
         \A c \in Conns : link[c] \in {"open", "closed"} => link'[c] = link[c]
  PROVE  BindingInv'
BY DEF BindingInv, SlotInv, PushHandleIsLive, GraceTimerIffStale, Occupied, EmptySlot

(* Every step keeps the binding invariant. *)
LEMMA BindingNext == TypeOK /\ BindingInv /\ [Next]_vars => BindingInv'
<1> SUFFICES ASSUME TypeOK, BindingInv, [Next]_vars PROVE BindingInv'
  OBVIOUS
<1>1. ASSUME NEW c \in Conns, Connect(c) PROVE BindingInv'
  BY <1>1, BindingUnchanged DEF Connect, TypeOK
<1>2. ASSUME NEW c \in Conns, UnregisterRuntime(c) PROVE BindingInv'
  BY <1>2, BindingUnregister
<1>3. ASSUME NEW c \in Conns, NotifyConnectionClosed(c) PROVE BindingInv'
  BY <1>3, BindingClosed
<1>4. ASSUME NEW c \in Conns, NEW r \in Runtimes, RegisterRuntime(c, r) PROVE BindingInv'
  BY <1>4, BindingRegister
<1>5. ASSUME NEW c \in Conns, NEW t \in pushed, HandleTurnComplete(c, t) PROVE BindingInv'
  BY <1>5, BindingUnchanged DEF HandleTurnComplete
<1>6. ASSUME NEW k \in Keys, NEW r \in Runtimes, ExpireStaleBinding(k, r) PROVE BindingInv'
  BY <1>6, BindingExpire
<1>7. ASSUME NEW m \in Msgs, NEW k \in Keys, HandleInbound(m, k) PROVE BindingInv'
  BY <1>7, BindingUnchanged DEF HandleInbound
<1>8. CASE Restart
  BY <1>8, RuntimesAssumption
     DEF Restart, BindingInv, SlotInv, PushHandleIsLive, GraceTimerIffStale, Occupied, EmptySlot
<1>9. CASE UNCHANGED vars
  BY <1>9, BindingUnchanged DEF vars
<1> QED BY <1>1, <1>2, <1>3, <1>4, <1>5, <1>6, <1>7, <1>8, <1>9 DEF Next
-----------------------------------------------------------------------------
(* Rows are numbered by their rank, and the rank agrees with the arrival     *)
(* order (ORDER BY id ASC in InboundQueue.drain).                            *)

(* The rank of a row lies between 1 and the number of rows.                   *)
LEMMA RankBound ==
  ASSUME NEW rows \in SUBSET RowType, IsFiniteSet(rows), NEW row \in rows
  PROVE  Before(rows, row) \in Nat /\ Before(rows, row) < Cardinality(rows)
<1> DEFINE S == {q \in rows : q.arr < row.arr}
<1>1. IsFiniteSet(S) /\ Cardinality(S) <= Cardinality(rows)
      /\ (Cardinality(rows) = Cardinality(S) => rows = S)
  BY FS_Subset
<1>2. row \notin S
  BY DEF RowType
<1>3. Cardinality(S) \in Nat /\ Cardinality(rows) \in Nat
  BY <1>1, FS_CardinalityType
<1>4. Cardinality(S) # Cardinality(rows)
  BY <1>1, <1>2
<1> QED BY <1>1, <1>3, <1>4 DEF Before

(* The ranks of two rows of a drained batch are ordered as their ids.         *)
LEMMA RankOrder ==
  ASSUME NEW rows \in SUBSET RowType, IsFiniteSet(rows), NEW row \in rows, NEW q \in rows,
         row.arr < q.arr
  PROVE  Before(rows, row) < Before(rows, q)
<1> DEFINE S == {p \in rows : p.arr < row.arr}
           T == {p \in rows : p.arr < q.arr}
<1>1. S \subseteq T /\ row \in T /\ row \notin S
  BY DEF RowType
<1>2. IsFiniteSet(T)
  BY FS_Subset
<1>3. IsFiniteSet(S) /\ Cardinality(S) <= Cardinality(T)
      /\ (Cardinality(T) = Cardinality(S) => T = S)
  BY <1>1, <1>2, FS_Subset
<1>4. Cardinality(S) \in Nat /\ Cardinality(T) \in Nat
  BY <1>2, <1>3, FS_CardinalityType
<1>5. Cardinality(S) # Cardinality(T)
  BY <1>1, <1>3
<1> QED BY <1>3, <1>4, <1>5 DEF Before

(* Dispatching a batch of rows of one slot, all newer than what the slot has  *)
(* seen, while no other row of the slot stays parked, keeps every message      *)
(* accounted for and in order (dispatchInboundToRuntime and drainPending).     *)
LEMMA DispatchPreserves ==
  ASSUME TypeOK, RowsInv, TurnsInv, AcceptedExactlyOnce, DispatchedInArrivalOrder,
         ReplyAnswersItsTurn,
         NEW k \in Keys, NEW rows \in SUBSET RowType, IsFiniteSet(rows),
         NEW slot \in SlotType, DispatchInbound(rows, slot),
         \A row \in rows : row.key = k /\ row.arr \in 1..arrivals',
         \A row, q \in rows : row.arr = q.arr => row = q,
         \A row \in rows, t \in pushed : row.arr # t.arr /\ (t.key = k => t.arr < row.arr),
         queue' \subseteq queue, queue \subseteq queue' \cup rows,
         \A q \in queue' : q.key # k /\ \A row \in rows : row.arr # q.arr,
         arrivals' \in Nat, arrivals <= arrivals',
         \A a \in 1..arrivals' : a \in 1..arrivals \/ \E row \in rows : row.arr = a,
         UNCHANGED replies
  PROVE  /\ RowsInv' /\ TurnsInv' /\ AcceptedExactlyOnce'
         /\ DispatchedInArrivalOrder' /\ ReplyAnswersItsTurn'
<1> DEFINE T(row) == Turn(row, Before(rows, row), slot)
           turns == {T(row) : row \in rows}
<1>1. registry' = registry \cup turns /\ pushed' = pushed \cup turns
      /\ minted' = minted + Cardinality(rows)
  BY DEF DispatchInbound
<1>2. \A row \in rows :
        /\ T(row).arr = row.arr /\ T(row).key = k /\ T(row).id = minted + Before(rows, row) + 1
        /\ Before(rows, row) \in Nat /\ Before(rows, row) < Cardinality(rows)
  BY RankBound DEF Turn
<1>3. Cardinality(rows) \in Nat /\ minted \in Nat /\ arrivals \in Nat
  BY FS_CardinalityType DEF TypeOK
<1>4. \A row \in rows : row.arr \in Nat
  BY DEF RowType
<1>5. \A row \in rows : T(row).id \in (minted + 1)..minted'
  BY <1>1, <1>2, <1>3
<1>6. \A row, q \in rows : row.arr < q.arr => T(row).id < T(q).id
  BY <1>2, <1>3, RankOrder
<1>7. \A row, q \in rows : T(row).id = T(q).id => row = q
  <2> SUFFICES ASSUME NEW row \in rows, NEW q \in rows, row # q
               PROVE  T(row).id # T(q).id
    OBVIOUS
  <2>1. row.arr < q.arr \/ q.arr < row.arr
    BY <1>4
  <2> QED BY <2>1, <1>2, <1>3, <1>6
<1>8. \A t \in pushed : t.id \in 1..minted /\ t.arr \in 1..arrivals
  BY DEF TurnsInv
<1> HIDE DEF T
<1>9. RowsInv'
  BY <1>1, <1>2, <1>3 DEF RowsInv
<1>10. TurnsInv'
  <2>1. \A t \in pushed' : t.arr \in 1..arrivals' /\ t.id \in 1..minted'
    BY <1>1, <1>2, <1>3, <1>5, <1>8
  <2>2. \A t, u \in pushed' : t.id = u.id => t = u
    BY <1>1, <1>3, <1>5, <1>7, <1>8 DEF TurnsInv
  <2> QED BY <1>1, <2>1, <2>2 DEF TurnsInv
<1>11. AcceptedExactlyOnce'
  <2>1. \A a \in 1..arrivals' : \/ \E row \in queue' : row.arr = a
                               \/ \E t \in pushed' : t.arr = a
    BY <1>1, <1>2 DEF AcceptedExactlyOnce
  <2>2. \A row \in queue', t \in pushed' : row.arr # t.arr
    BY <1>1, <1>2 DEF AcceptedExactlyOnce
  <2>3. \A t, u \in pushed' : t.arr = u.arr => t = u
    BY <1>1, <1>2 DEF AcceptedExactlyOnce
  <2> QED BY <2>1, <2>2, <2>3 DEF AcceptedExactlyOnce
<1>12. DispatchedInArrivalOrder'
  <2> SUFFICES ASSUME NEW t \in pushed', NEW u \in pushed', t.key = u.key, t.id < u.id
               PROVE  t.arr < u.arr
    BY DEF DispatchedInArrivalOrder
  <2>1. CASE t \in pushed /\ u \in pushed
    BY <2>1 DEF DispatchedInArrivalOrder
  <2>2. CASE t \in pushed /\ u \in turns
    BY <2>2, <1>2
  <2>3. CASE t \in turns /\ u \in pushed
    BY <2>3, <1>3, <1>5, <1>8
  <2>4. CASE t \in turns /\ u \in turns
    <3>1. PICK row \in rows, q \in rows : t = T(row) /\ u = T(q)
      BY <2>4
    <3>2. ~(q.arr < row.arr)
      BY <3>1, <1>2, <1>3, <1>6
    <3>3. q.arr # row.arr
      BY <3>1, <1>2, <1>3
    <3> QED BY <3>1, <3>2, <3>3, <1>2, <1>4
  <2> QED BY <1>1, <2>1, <2>2, <2>3, <2>4
<1>13. ReplyAnswersItsTurn'
  <2> SUFFICES ASSUME NEW p \in replies
               PROVE  /\ \E t \in pushed' : t.id = p.id /\ t.rt = p.rt /\ t.msg = p.msg
                      /\ \A t \in registry' : t.id # p.id
    BY DEF ReplyAnswersItsTurn
  <2>1. PICK t \in pushed : t.id = p.id /\ t.rt = p.rt /\ t.msg = p.msg
    BY DEF ReplyAnswersItsTurn
  <2>2. \A u \in turns : u.id # p.id
    BY <2>1, <1>3, <1>5, <1>8
  <2> QED BY <2>1, <2>2, <1>1 DEF ReplyAnswersItsTurn
<1> QED BY <1>9, <1>10, <1>11, <1>12, <1>13

(* Steps that neither accept nor dispatch a message and make no slot active. *)
LEMMA MessageUnchanged ==
  ASSUME MessageInv, registry' \subseteq registry,
         \A k \in Keys : slots'[k].active => slots[k].active,
         UNCHANGED <<queue, pushed, replies, arrivals, minted>>, TypeOK
  PROVE  MessageInv'
<1>1. ParkedOnlyWhileInactive'
  BY DEF MessageInv, ParkedOnlyWhileInactive, TypeOK, RowType
<1>2. RowsInv' /\ TurnsInv'
  BY DEF MessageInv, RowsInv, TurnsInv
<1>3. AcceptedExactlyOnce' /\ DispatchedInArrivalOrder' /\ ReplyAnswersItsTurn'
  BY DEF MessageInv, AcceptedExactlyOnce, DispatchedInArrivalOrder, ReplyAnswersItsTurn
<1> QED BY <1>1, <1>2, <1>3 DEF MessageInv

(* A registration dispatches what was parked for its slot, in order           *)
(* (registerRuntime, drainPending).                                           *)
LEMMA MessageRegister ==
  ASSUME IInv, NEW c \in Conns, NEW r \in Runtimes, RegisterRuntime(c, r)
  PROVE  MessageInv'
<1> DEFINE k == AttachmentOf[r]
           rows == Parked(k)
           slot == Bound(slots[k], r, c)
<1>1. k \in Keys /\ slot \in SlotType
  BY AttachmentAssumption, BoundType DEF IInv, TypeOK
<1>2. /\ rows \in SUBSET RowType /\ IsFiniteSet(rows) /\ rows \subseteq queue
      /\ \A row \in queue : row \in rows <=> row.key = k
  BY FS_Subset DEF IInv, TypeOK, Parked
<1>3. /\ DispatchInbound(rows, slot) /\ queue' = queue \ rows
      /\ slots' = [slots EXCEPT ![k] = slot]
      /\ UNCHANGED <<arrivals, replies>>
  BY DEF RegisterRuntime, Drained
<1>4. RowsInv' /\ TurnsInv' /\ AcceptedExactlyOnce' /\ DispatchedInArrivalOrder'
      /\ ReplyAnswersItsTurn'
  <2>1. \A row \in rows : row.key = k /\ row.arr \in 1..arrivals'
    BY <1>2, <1>3 DEF IInv, MessageInv, RowsInv
  <2>2. \A row, q \in rows : row.arr = q.arr => row = q
    BY <1>2 DEF IInv, MessageInv, RowsInv
  <2>3. \A row \in rows, t \in pushed : row.arr # t.arr /\ (t.key = k => t.arr < row.arr)
    BY <1>2 DEF IInv, MessageInv, RowsInv, AcceptedExactlyOnce
  <2>4. \A q \in queue' : q.key # k /\ \A row \in rows : row.arr # q.arr
    BY <1>2, <1>3 DEF IInv, MessageInv, RowsInv
  <2>5. arrivals' \in Nat /\ arrivals <= arrivals'
    BY <1>3 DEF IInv, TypeOK
  <2>6. queue' \subseteq queue /\ queue \subseteq queue' \cup rows
    BY <1>3
  <2>7. /\ TypeOK /\ RowsInv /\ TurnsInv /\ AcceptedExactlyOnce /\ DispatchedInArrivalOrder
        /\ ReplyAnswersItsTurn
    BY DEF IInv, MessageInv
  <2> HIDE DEF rows, slot, k
  <2> QED BY <1>1, <1>2, <1>3, <2>1, <2>2, <2>3, <2>4, <2>5, <2>7, DispatchPreserves
<1>5. ParkedOnlyWhileInactive'
  <2> SUFFICES ASSUME NEW row \in queue' PROVE ~slots'[row.key].active
    BY DEF ParkedOnlyWhileInactive
  <2>1. row \in queue /\ row.key # k /\ row.key \in Keys
    BY <1>2, <1>3 DEF IInv, TypeOK, RowType
  <2> QED BY <2>1, <1>3 DEF IInv, TypeOK, MessageInv, ParkedOnlyWhileInactive
<1> QED BY <1>4, <1>5 DEF MessageInv

(* A new message is dispatched behind everything older of its slot, or parked *)
(* while the slot is not active (handleInbound).                              *)
LEMMA MessageInbound ==
  ASSUME IInv, NEW m \in Msgs, NEW k \in Keys, HandleInbound(m, k)
  PROVE  MessageInv'
<1> DEFINE row == Row(m, k)
<1>0. /\ row.arr = arrivals + 1 /\ row.key = k /\ row \in RowType
      /\ arrivals \in Nat /\ UNCHANGED <<slots, replies>>
  BY DEF HandleInbound, Row, RowType, IInv, TypeOK
<1>i. /\ TypeOK /\ RowsInv /\ TurnsInv /\ AcceptedExactlyOnce /\ DispatchedInArrivalOrder
      /\ ReplyAnswersItsTurn /\ ParkedOnlyWhileInactive /\ MessageInv
  BY DEF IInv, MessageInv
<1>1. CASE /\ HasActiveBinding(k) /\ DispatchInbound({row}, slots[k])
           /\ arrivals' = arrivals + 1 /\ UNCHANGED queue
  <2>1. \A q \in queue : q.key # k /\ q.arr # row.arr
    BY <1>0, <1>1, <1>i DEF HasActiveBinding, ParkedOnlyWhileInactive, RowsInv
  <2>2. \A t \in pushed : row.arr # t.arr /\ t.arr < row.arr
    BY <1>0, <1>i DEF TurnsInv
  <2>3. slots[k] \in SlotType /\ {row} \in SUBSET RowType /\ IsFiniteSet({row})
    BY <1>0, <1>i, FS_Singleton DEF TypeOK
  <2>4. \A a \in 1..arrivals' : a \in 1..arrivals \/ a = row.arr
    BY <1>0, <1>1
  <2>5. row.arr \in 1..arrivals' /\ arrivals' \in Nat /\ arrivals <= arrivals'
    BY <1>0, <1>1
  <2> HIDE DEF row
  <2>6. RowsInv' /\ TurnsInv' /\ AcceptedExactlyOnce' /\ DispatchedInArrivalOrder'
        /\ ReplyAnswersItsTurn'
    BY <1>0, <1>1, <1>i, <2>1, <2>2, <2>3, DispatchPreserves
  <2>7. ParkedOnlyWhileInactive'
    BY <1>0, <1>1, <1>i DEF ParkedOnlyWhileInactive
  <2> QED BY <2>6, <2>7 DEF MessageInv
<1>2. CASE /\ ~HasActiveBinding(k) /\ queue' = queue \cup {row} /\ arrivals' = arrivals + 1
           /\ UNCHANGED <<registry, pushed, minted>>
  <2>0. ~slots[k].active
    <3>1. ~Occupied(k) => slots[k] = EmptySlot
      BY DEF IInv, BindingInv, SlotInv
    <3> QED BY <1>2, <3>1 DEF HasActiveBinding, EmptySlot
  <2>1. RowsInv'
    BY <1>0, <1>2, <1>i DEF RowsInv, TurnsInv
  <2>2. TurnsInv'
    BY <1>0, <1>2, <1>i DEF TurnsInv
  <2>3. AcceptedExactlyOnce'
    <3>1. \A a \in 1..arrivals' : a \in 1..arrivals \/ a = row.arr
      BY <1>0, <1>2
    <3>2. \A t \in pushed : row.arr # t.arr
      BY <1>0, <1>i DEF TurnsInv
    <3> QED BY <1>2, <1>i, <3>1, <3>2 DEF AcceptedExactlyOnce
  <2>4. DispatchedInArrivalOrder' /\ ReplyAnswersItsTurn'
    BY <1>0, <1>2, <1>i DEF DispatchedInArrivalOrder, ReplyAnswersItsTurn
  <2>5. ParkedOnlyWhileInactive'
    BY <1>0, <1>2, <1>i, <2>0 DEF ParkedOnlyWhileInactive
  <2> QED BY <2>1, <2>2, <2>3, <2>4, <2>5 DEF MessageInv
<1>3. CASE UNCHANGED <<queue, registry, pushed, arrivals, minted>>
  BY <1>0, <1>3, <1>i, MessageUnchanged
<1> QED BY <1>1, <1>2, <1>3 DEF HandleInbound

(* A completed turn leaves the registry and is answered (handleTurnComplete). *)
LEMMA MessageComplete ==
  ASSUME IInv, NEW c \in Conns, NEW t \in pushed, HandleTurnComplete(c, t)
  PROVE  MessageInv'
<1>1. /\ t \in registry /\ t.rt = bridge[c] /\ registry' = registry \ {t}
      /\ replies' = replies \cup {[id |-> t.id, msg |-> t.msg, rt |-> bridge[c]]}
      /\ UNCHANGED <<slots, queue, pushed, arrivals, minted>>
  BY DEF HandleTurnComplete, CompleteDispatch
<1>2. \A u \in registry' : u \in registry /\ u.id # t.id
  BY <1>1 DEF IInv, MessageInv, TurnsInv
<1>3. ReplyAnswersItsTurn'
  BY <1>1, <1>2 DEF IInv, MessageInv, ReplyAnswersItsTurn
<1>4. /\ ParkedOnlyWhileInactive' /\ RowsInv' /\ TurnsInv'
      /\ AcceptedExactlyOnce' /\ DispatchedInArrivalOrder'
  BY <1>1 DEF IInv, MessageInv, ParkedOnlyWhileInactive, RowsInv, TurnsInv,
              AcceptedExactlyOnce, DispatchedInArrivalOrder
<1> QED BY <1>3, <1>4 DEF MessageInv

(* Every step keeps the message invariant. *)
LEMMA MessageNext == IInv /\ [Next]_vars => MessageInv'
<1> SUFFICES ASSUME IInv, [Next]_vars PROVE MessageInv'
  OBVIOUS
<1>i. TypeOK /\ MessageInv /\ BindingInv
  BY DEF IInv
<1>1. ASSUME NEW c \in Conns, Connect(c) PROVE MessageInv'
  BY <1>1, <1>i, MessageUnchanged DEF Connect
<1>2. ASSUME NEW c \in Conns, UnregisterRuntime(c) PROVE MessageInv'
  BY <1>2, <1>i, MessageUnchanged DEF UnregisterRuntime, EmptySlot, TypeOK
<1>3. ASSUME NEW c \in Conns, NotifyConnectionClosed(c) PROVE MessageInv'
  <2>1. \A j \in Keys : slots'[j].active => slots[j].active
    <3>1. CASE UNCHANGED slots
      BY <3>1
    <3>2. ASSUME NEW k \in Keys,
                 slots' = [slots EXCEPT ![k].active = FALSE, ![k].push = NoConn, ![k].timer = TRUE]
          PROVE  \A j \in Keys : slots'[j].active => slots[j].active
      <4>1. ~slots'[k].active /\ \A j \in Keys \ {k} : slots'[j] = slots[j]
        BY <3>2, <1>i DEF TypeOK, SlotType
      <4> QED BY <4>1
    <3>3. ASSUME NEW k \in Keys, slots' = [slots EXCEPT ![k] = EmptySlot]
          PROVE  \A j \in Keys : slots'[j].active => slots[j].active
      BY <3>3, <1>i DEF EmptySlot, TypeOK
    <3> QED BY <1>3, <3>1, <3>2, <3>3 DEF NotifyConnectionClosed, SlotOfConnection
  <2> QED BY <1>3, <1>i, <2>1, MessageUnchanged DEF NotifyConnectionClosed
<1>4. ASSUME NEW c \in Conns, NEW r \in Runtimes, RegisterRuntime(c, r) PROVE MessageInv'
  BY <1>4, MessageRegister
<1>5. ASSUME NEW c \in Conns, NEW t \in pushed, HandleTurnComplete(c, t) PROVE MessageInv'
  BY <1>5, MessageComplete
<1>6. ASSUME NEW k \in Keys, NEW r \in Runtimes, ExpireStaleBinding(k, r) PROVE MessageInv'
  <2>1. \A j \in Keys : slots'[j].active => slots[j].active
    BY <1>6, <1>i DEF ExpireStaleBinding, EmptySlot, TypeOK, SlotType
  <2> QED BY <1>6, <1>i, <2>1, MessageUnchanged DEF ExpireStaleBinding
<1>7. ASSUME NEW m \in Msgs, NEW k \in Keys, HandleInbound(m, k) PROVE MessageInv'
  BY <1>7, MessageInbound
<1>8. CASE Restart
  BY <1>8, <1>i, MessageUnchanged DEF Restart, EmptySlot
<1>9. CASE UNCHANGED vars
  BY <1>9, <1>i, MessageUnchanged DEF vars
<1> QED BY <1>1, <1>2, <1>3, <1>4, <1>5, <1>6, <1>7, <1>8, <1>9 DEF Next

(* The inductive invariant holds at the start ... *)
LEMMA InvInitial == Init => IInv
<1> SUFFICES ASSUME Init PROVE IInv
  OBVIOUS
<1>1. TypeOK
  BY TypeInitial
<1>2. BindingInv
  BY RuntimesAssumption DEF Init, BindingInv, SlotInv, GraceTimerIffStale, PushHandleIsLive,
                            Occupied, EmptySlot
<1>3. MessageInv
  BY DEF Init, MessageInv, ParkedOnlyWhileInactive, RowsInv, TurnsInv, AcceptedExactlyOnce,
         DispatchedInArrivalOrder, ReplyAnswersItsTurn
<1> QED BY <1>1, <1>2, <1>3 DEF IInv

(* ... is kept by every step ... *)
LEMMA InvNext == IInv /\ [Next]_vars => IInv'
BY TypeNext, BindingNext, MessageNext DEF IInv

(* ... and so holds in every reachable state. *)
THEOREM InvCorrect == Spec => []IInv
BY InvInitial, InvNext, PTL DEF Spec

(* Every accepted message is parked or was dispatched, never both and never   *)
(* twice (DispatchPipeline.handleInbound, drainPending; InboundQueue).        *)
THEOREM AcceptedOnce == Spec => []AcceptedExactlyOnce
<1>1. IInv => AcceptedExactlyOnce
  BY DEF IInv, MessageInv
<1> QED BY <1>1, InvCorrect, PTL

(* Turns of one slot go out in the order their messages were accepted.        *)
THEOREM ArrivalOrder == Spec => []DispatchedInArrivalOrder
<1>1. IInv => DispatchedInArrivalOrder
  BY DEF IInv, MessageInv
<1> QED BY <1>1, InvCorrect, PTL

(* A turn is answered once, by its runtime, where its message came from        *)
(* (SessionRegistry.completeDispatch).                                         *)
THEOREM ReplyCorrect == Spec => []ReplyAnswersItsTurn
<1>1. IInv => ReplyAnswersItsTurn
  BY DEF IInv, MessageInv
<1> QED BY <1>1, InvCorrect, PTL

(* Nothing stays parked behind an active runtime: no registration, drain, close *)
(* or restart leaves a message in the queue of a location whose slot is active  *)
(* (BufferedDispatcher.drainFor).                                               *)
THEOREM ParkedCorrect == Spec => []ParkedOnlyWhileInactive
<1>1. IInv => ParkedOnlyWhileInactive
  BY DEF IInv, MessageInv
<1> QED BY <1>1, InvCorrect, PTL

(* Pushes go to the live connection of the slot's runtime, and grace timers run *)
(* for stale slots only (RuntimeBindingStore).                                  *)
THEOREM BindingCorrect == Spec => [](PushHandleIsLive /\ GraceTimerIffStale)
<1>1. IInv => PushHandleIsLive /\ GraceTimerIffStale
  BY DEF IInv, BindingInv
<1> QED BY <1>1, InvCorrect, PTL

-----------------------------------------------------------------------------
(* What a step may do to the slots.                                          *)

SlotKept(k) == slots'[k] = slots[k]
SlotFreed(k) == slots'[k] = EmptySlot

(* The cause of a change of a slot: its runtime registers (again), a bridge of *)
(* its runtime unregisters, its own connection closes, or its timer runs out.  *)
SlotChange(k) ==
  \/ \E r \in Runtimes, c \in Conns : CanBind(k, r) /\ slots'[k] = Bound(slots[k], r, c)
  \/ \E c \in Conns : SlotFreed(k) /\ bridge[c] = slots[k].rt /\ bridge'[c] = NoRuntime
  \/ /\ link'[slots[k].conn] = "closed"
     /\ \/ SlotFreed(k)
        \/ slots'[k] = [slots[k] EXCEPT !.active = FALSE, !.push = NoConn, !.timer = TRUE]
  \/ ~slots[k].active /\ SlotFreed(k)
  \/ slots'[k] = [slots[k] EXCEPT !.timer = FALSE]

(* Every step keeps an occupied slot or has one of these causes. *)
LEMMA SlotChanges ==
  ASSUME IInv, [Next]_vars, NEW k \in Keys, Occupied(k)
  PROVE  SlotKept(k) \/ SlotChange(k)
<1>1. slots \in [Keys -> SlotType] /\ link \in [Conns -> {"new", "open", "closed"}]
  BY DEF IInv, TypeOK
<1>2. CASE \E c \in Conns, r \in Runtimes : RegisterRuntime(c, r)
  <2>1. PICK c \in Conns, r \in Runtimes : RegisterRuntime(c, r)
    BY <1>2
  <2>2. CASE k = AttachmentOf[r]
    BY <1>1, <2>1, <2>2 DEF RegisterRuntime, SlotChange
  <2>3. CASE k # AttachmentOf[r]
    BY <1>1, <2>1, <2>3 DEF RegisterRuntime, SlotKept
  <2> QED BY <2>2, <2>3
<1>3. CASE \E c \in Conns : UnregisterRuntime(c)
  <2>1. PICK c \in Conns, j \in Keys :
          /\ slots[j].rt = bridge[c] /\ slots' = [slots EXCEPT ![j] = EmptySlot]
          /\ bridge' = [bridge EXCEPT ![c] = NoRuntime]
    BY <1>3 DEF UnregisterRuntime, SlotOfRuntime
  <2>2. bridge'[c] = NoRuntime
    BY <2>1 DEF IInv, TypeOK
  <2>3. CASE k = j
    BY <1>1, <2>1, <2>2, <2>3 DEF SlotChange, SlotFreed
  <2>4. CASE k # j
    BY <1>1, <2>1, <2>4 DEF SlotKept
  <2> QED BY <2>3, <2>4
<1>4. CASE \E c \in Conns : NotifyConnectionClosed(c)
  <2>1. PICK c \in Conns : NotifyConnectionClosed(c)
    BY <1>4
  <2>2. link'[c] = "closed"
    BY <1>1, <2>1 DEF NotifyConnectionClosed
  <2>3. \/ slots' = slots
        \/ \E j \in SlotOfConnection(c) :
             \/ slots' = [slots EXCEPT ![j].active = FALSE, ![j].push = NoConn, ![j].timer = TRUE]
             \/ slots' = [slots EXCEPT ![j] = EmptySlot]
    BY <2>1 DEF NotifyConnectionClosed
  <2>4. CASE slots' = slots
    BY <2>4 DEF SlotKept
  <2>5. ASSUME NEW j \in Keys, slots[j].conn = c,
               slots' = [slots EXCEPT ![j].active = FALSE, ![j].push = NoConn, ![j].timer = TRUE]
        PROVE  SlotKept(k) \/ SlotChange(k)
    <3>1. k # j => slots'[k] = slots[k]
      BY <1>1, <2>5
    <3>2. k = j => slots'[k] = [slots[k] EXCEPT !.active = FALSE, !.push = NoConn, !.timer = TRUE]
      BY <1>1, <2>5
    <3> QED BY <2>2, <2>5, <3>1, <3>2 DEF SlotKept, SlotChange
  <2>6. ASSUME NEW j \in Keys, slots[j].conn = c, slots' = [slots EXCEPT ![j] = EmptySlot]
        PROVE  SlotKept(k) \/ SlotChange(k)
    BY <1>1, <2>2, <2>6 DEF SlotKept, SlotChange, SlotFreed
  <2> QED BY <2>3, <2>4, <2>5, <2>6 DEF SlotOfConnection
<1>5. CASE \E j \in Keys, r \in Runtimes : ExpireStaleBinding(j, r)
  <2>1. PICK j \in Keys, r \in Runtimes : ExpireStaleBinding(j, r)
    BY <1>5
  <2>2. \/ slots' = slots
        \/ slots' = [slots EXCEPT ![j] = [slots[j] EXCEPT !.timer = FALSE]]
        \/ ~slots[j].active /\ slots' = [slots EXCEPT ![j] = EmptySlot]
    BY <2>1 DEF ExpireStaleBinding
  <2> QED BY <1>1, <2>2 DEF SlotKept, SlotChange, SlotFreed
<1>6. CASE Restart
  <2>1. slots'[k] = EmptySlot
    BY <1>6 DEF Restart
  <2>2. slots[k].conn \in Conns
    BY DEF IInv, BindingInv, SlotInv
  <2>3. CASE slots[k].active
    <3>1. link[slots[k].conn] = "open"
      BY <2>3 DEF IInv, BindingInv, PushHandleIsLive
    <3>2. link'[slots[k].conn] = "closed"
      BY <1>6, <2>2, <3>1 DEF Restart
    <3> QED BY <2>1, <3>2 DEF SlotChange, SlotFreed
  <2>4. CASE ~slots[k].active
    BY <2>1, <2>4 DEF SlotChange, SlotFreed
  <2> QED BY <2>3, <2>4
<1>7. CASE \/ \E c \in Conns : Connect(c) \/ \E t \in pushed : HandleTurnComplete(c, t)
           \/ \E m \in Msgs, j \in Keys : HandleInbound(m, j)
           \/ UNCHANGED vars
  BY <1>7 DEF Connect, HandleTurnComplete, HandleInbound, vars, SlotKept
<1> QED BY <1>2, <1>3, <1>4, <1>5, <1>6, <1>7 DEF Next

(* A runtime loses its active slot only when its own connection closes, or    *)
(* when a bridge of it unregisters (notifyConnectionClosed, unbind).          *)
THEOREM ActiveSlotCorrect == Spec => ActiveSlotLostForCause
<1>1. ASSUME IInv, [Next]_vars, NEW k \in Keys, slots[k].active, ~slots'[k].active
      PROVE  \/ link'[slots[k].conn] = "closed"
             \/ \E c \in Conns : bridge[c] = slots[k].rt /\ bridge'[c] = NoRuntime
  <2>1. slots[k] \in SlotType
    BY <1>1 DEF IInv, TypeOK
  <2>2. Occupied(k)
    BY <1>1 DEF IInv, BindingInv, SlotInv, EmptySlot
  <2>3. SlotChange(k)
    BY <1>1, <2>2, SlotChanges DEF SlotKept
  <2>4. \A r, c : Bound(slots[k], r, c).active
    BY DEF Bound
  <2>5. [slots[k] EXCEPT !.timer = FALSE].active = slots[k].active
    BY <2>1 DEF SlotType
  <2> QED BY <1>1, <2>3, <2>4, <2>5 DEF SlotChange
<1>2. IInv /\ [Next]_vars =>
        [\A k \in Keys :
           slots[k].active /\ ~slots'[k].active =>
             \/ link'[slots[k].conn] = "closed"
             \/ \E c \in Conns : bridge[c] = slots[k].rt /\ bridge'[c] = NoRuntime]_vars
  BY <1>1
<1> QED BY <1>2, InvCorrect, PTL DEF Spec, ActiveSlotLostForCause

(* While a runtime keeps its slot the epoch never falls, and it grows with     *)
(* every change of connection (RuntimeBindingStore.bind).                      *)
THEOREM EpochCorrect == Spec => EpochTellsConnectionsApart
<1>1. ASSUME IInv, [Next]_vars, NEW k \in Keys, Occupied(k), slots'[k].rt = slots[k].rt
      PROVE  /\ slots'[k].epoch >= slots[k].epoch
             /\ slots'[k].conn # slots[k].conn => slots'[k].epoch > slots[k].epoch
  <2>1. slots[k] \in SlotType /\ slots[k].epoch \in Nat
    BY <1>1 DEF IInv, TypeOK, SlotType
  <2>2. ~SlotFreed(k)
    BY <1>1 DEF SlotFreed, EmptySlot, Occupied
  <2>3. CASE SlotKept(k)
    BY <2>1, <2>3 DEF SlotKept
  <2>4. CASE \E r \in Runtimes, c \in Conns : CanBind(k, r) /\ slots'[k] = Bound(slots[k], r, c)
    <3>1. PICK r \in Runtimes, c \in Conns : slots'[k] = Bound(slots[k], r, c)
      BY <2>4
    <3>2. /\ slots'[k].conn = c
          /\ slots'[k].epoch = IF IsRebind(slots[k], c) THEN slots[k].epoch + 1 ELSE slots[k].epoch
      BY <1>1, <3>1 DEF Bound, Occupied
    <3>3. c # slots[k].conn => IsRebind(slots[k], c)
      BY <1>1 DEF IsRebind, Occupied
    <3> QED BY <2>1, <3>2, <3>3
  <2>5. CASE \/ slots'[k] = [slots[k] EXCEPT !.active = FALSE, !.push = NoConn, !.timer = TRUE]
             \/ slots'[k] = [slots[k] EXCEPT !.timer = FALSE]
    <3>1. slots'[k].epoch = slots[k].epoch /\ slots'[k].conn = slots[k].conn
      BY <2>1, <2>5 DEF SlotType
    <3> QED BY <2>1, <3>1
  <2> QED BY <1>1, <2>2, <2>3, <2>4, <2>5, SlotChanges DEF SlotChange
<1>2. IInv /\ [Next]_vars =>
        [\A k \in Keys :
           Occupied(k) /\ slots'[k].rt = slots[k].rt =>
             /\ slots'[k].epoch >= slots[k].epoch
             /\ slots'[k].conn # slots[k].conn => slots'[k].epoch > slots[k].epoch]_vars
  BY <1>1
<1> QED BY <1>2, InvCorrect, PTL DEF Spec, EpochTellsConnectionsApart
=============================================================================
