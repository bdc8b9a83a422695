--------------------------- MODULE GatewayDispatch ---------------------------
(***************************************************************************)
(* The gateway's inbound path: ChannelManager's de-duplication, the        *)
(* DispatchPipeline, its RuntimeBindingStore (slots, push handles, grace   *)
(* timers), its SessionRegistry (turns awaiting a reply) and the durable   *)
(* InboundQueue.  The environment is the channels that deliver messages,   *)
(* the connections of session bridges, and restarts of the daemon.         *)
(*                                                                         *)
(* Handlers of the daemon run to completion on one thread, so each is one  *)
(* action.  A message (channel, account and idempotency key) is a member   *)
(* of Msgs; its location and payload are determined by it.                 *)
(***************************************************************************)
EXTENDS Integers, Sequences, FiniteSets

CONSTANTS
  Runtimes,       \* runtime ids (one athena session each)
  Keys,           \* attachment slots, the legacy slot being one of them
  Conns,          \* connection ids; the control server never reuses one
  Msgs,           \* inbound messages
  AttachmentOf,   \* the slot a runtime registers for
  KeysOf,         \* the slots a message's channel may be attached to
  Grace,          \* gracePeriodMs > 0
  MaxQueue,       \* maxEntries of the inbound queue
  DedupMax,       \* dedupWindow of the channel manager
  MaxArrivals,    \* bound: messages accepted in a behaviour
  MaxRestarts,    \* bound: restarts of the daemon in a behaviour
  NoRuntime, NoConn

ASSUME RuntimesAssumption == NoRuntime \notin Runtimes /\ NoConn \notin Conns
ASSUME AttachmentAssumption == AttachmentOf \in [Runtimes -> Keys]
ASSUME KeysOfAssumption == KeysOf \in [Msgs -> SUBSET Keys]
ASSUME GraceAssumption == Grace \in BOOLEAN
ASSUME BoundsAssumption == MaxQueue \in Nat /\ DedupMax \in Nat \ {0}

VARIABLES
  link,        \* connection -> "new" | "open" (authenticated) | "closed"
  bridge,      \* connection -> the runtime whose bridge registered over it
  slots,       \* RuntimeBindingStore.slots
  timers,      \* pending grace timers: <<key, runtime>>
  registry,    \* SessionRegistry.dispatches
  queue,       \* durable rows of inbound_queue
  seen,        \* the channel manager's de-duplication window, oldest first
  pushed,      \* history: every turn dispatched so far
  replies,     \* history: every reply handed to the outbound dispatcher
  arrivals,    \* number of messages accepted (parked or dispatched)
  minted,      \* number of dispatch ids minted
  restarts

vars == <<link, bridge, slots, timers, registry, queue, seen,
          pushed, replies, arrivals, minted, restarts>>

EmptySlot == [rt |-> NoRuntime, conn |-> NoConn, active |-> FALSE,
              push |-> NoConn, epoch |-> 0, timer |-> FALSE]

Occupied(k) == slots[k].rt # NoRuntime
HasActiveBinding(k) == Occupied(k) /\ slots[k].active
SlotOfRuntime(r) == {k \in Keys : slots[k].rt = r}

\* Plausible error: the slot of the runtime that used the connection, bound to it or not.
SlotOfConnectionByRuntime(c) == {k \in Keys : Occupied(k) /\ slots[k].rt = bridge[c]}
SlotOfConnection(c) == {k \in Keys : Occupied(k) /\ slots[k].conn = c}

-----------------------------------------------------------------------------
(* Dispatching: one registry entry per row, pushed in row order over the   *)
(* slot's push handle.                                                     *)

\* Plausible error: only the oldest row is drained.
ParkedOldestOnly(k) ==
  {row \in queue : row.key = k /\ \A q \in queue : q.key = k => row.arr <= q.arr}
Parked(k) == {row \in queue : row.key = k}

\* Plausible error: the rows that were read are not deleted.
DrainedKeepsRows(k) == queue
Drained(k) == queue \ Parked(k)

\* Plausible error: newest first.
BeforeNewestFirst(rows, row) == Cardinality({q \in rows : q.arr > row.arr})
Before(rows, row) == Cardinality({q \in rows : q.arr < row.arr})

Turn(row, rank, slot) ==
  [id |-> minted + rank + 1, msg |-> row.msg, arr |-> row.arr,
   key |-> row.key, rt |-> slot.rt, conn |-> slot.push]

DispatchInbound(rows, slot) ==
  LET turns == {Turn(row, Before(rows, row), slot) : row \in rows}
  IN  /\ registry' = registry \cup turns
      /\ pushed' = pushed \cup turns
      /\ minted' = minted + Cardinality(rows)

-----------------------------------------------------------------------------
(* Connections *)

Connect(c) ==
  /\ link[c] = "new"
  /\ link' = [link EXCEPT ![c] = "open"]
  /\ UNCHANGED <<bridge, slots, timers, registry, queue, seen,
                 pushed, replies, arrivals, minted, restarts>>

\* A slot already held by another runtime refuses the registration, even
\* while that runtime is stale.
CanBind(k, r) == slots[k].rt \in {NoRuntime, r}

IsRebind(slot, c) == slot.rt # NoRuntime /\ (~slot.active \/ slot.conn # c)

Bound(slot, r, c) ==
  [rt |-> r, conn |-> c, active |-> TRUE, push |-> c, timer |-> FALSE,
   epoch |-> IF slot.rt = NoRuntime THEN 1
             ELSE IF IsRebind(slot, c) THEN slot.epoch + 1 ELSE slot.epoch]

ClearTimer(k) == IF slots[k].timer THEN timers \ {<<k, slots[k].rt>>} ELSE timers

\* Plausible error: a stale slot gets no timer.
ArmTimerForgotten(k) == timers
ArmTimer(k) == timers \cup {<<k, slots[k].rt>>}

\* A bridge registers each connection once; a repeat over the bound connection is
\* accepted.
RegisterRuntime(c, r) ==
  LET k == AttachmentOf[r]
      slot == Bound(slots[k], r, c)
  IN  /\ link[c] = "open"
      /\ bridge[c] = NoRuntime \/ (bridge[c] = r /\ slots[k].conn = c)
      /\ CanBind(k, r)
      /\ bridge' = [bridge EXCEPT ![c] = r]
      /\ slots' = [slots EXCEPT ![k] = slot]
      /\ timers' = ClearTimer(k)
      /\ queue' = Drained(k)
      /\ DispatchInbound(Parked(k), slot)
      /\ UNCHANGED <<link, seen, replies, arrivals, restarts>>

UnregisterRuntime(c) ==
  \E k \in SlotOfRuntime(bridge[c]) :
    /\ link[c] = "open"
    /\ bridge[c] # NoRuntime
    /\ bridge' = [bridge EXCEPT ![c] = NoRuntime]
    /\ slots' = [slots EXCEPT ![k] = EmptySlot]
    /\ timers' = ClearTimer(k)
    /\ registry' = {t \in registry : t.rt # bridge[c]}
    /\ UNCHANGED <<link, queue, seen, pushed, replies, arrivals, minted, restarts>>

\* Without a grace period the slot goes at once; with one it turns stale, its
\* push handle is dropped and a timer is armed.
NotifyConnectionClosed(c) ==
  /\ link[c] = "open"
  /\ link' = [link EXCEPT ![c] = "closed"]
  /\ \/ /\ SlotOfConnection(c) = {}
        /\ UNCHANGED <<slots, timers>>
     \/ \E k \in SlotOfConnection(c) :
          IF Grace
          THEN /\ slots' = [slots EXCEPT ![k].active = FALSE,
                                         ![k].push = NoConn,
                                         ![k].timer = TRUE]
               /\ timers' = ArmTimer(k)
          ELSE /\ slots' = [slots EXCEPT ![k] = EmptySlot]
               /\ UNCHANGED timers
  /\ UNCHANGED <<bridge, registry, queue, seen, pushed, replies, arrivals, minted, restarts>>

ExpireStaleBinding(k, r) ==
  /\ <<k, r>> \in timers
  /\ timers' = timers \ {<<k, r>>}
  /\ slots' = IF ~Occupied(k) THEN slots
              ELSE IF slots[k].rt # r \/ slots[k].active
                   THEN [slots EXCEPT ![k].timer = FALSE]
                   ELSE [slots EXCEPT ![k] = EmptySlot]
  /\ UNCHANGED <<link, bridge, registry, queue, seen,
                 pushed, replies, arrivals, minted, restarts>>

-----------------------------------------------------------------------------
(* Inbound messages and replies *)

Remember(m) ==
  LET grown == Append(seen, m)
  IN  IF Len(grown) > DedupMax THEN Tail(grown) ELSE grown

IsSeen(m) == \E i \in DOMAIN seen : seen[i] = m

Row(m, k) == [arr |-> arrivals + 1, msg |-> m, key |-> k]

CanEnqueue(m) ==
  /\ Cardinality(queue) < MaxQueue
  /\ \A row \in queue : row.msg # m

HandleInbound(m, k) ==
  /\ k \in KeysOf[m]
  /\ ~IsSeen(m)
  /\ arrivals < MaxArrivals
  /\ seen' = Remember(m)
  /\ \/ /\ HasActiveBinding(k)
        /\ DispatchInbound({Row(m, k)}, slots[k])
        /\ arrivals' = arrivals + 1
        /\ UNCHANGED queue
     \/ /\ ~HasActiveBinding(k)
        /\ CanEnqueue(m)
        /\ queue' = queue \cup {Row(m, k)}
        /\ arrivals' = arrivals + 1
        /\ UNCHANGED <<registry, pushed, minted>>
     \/ /\ ~HasActiveBinding(k)
        /\ ~CanEnqueue(m)
        /\ UNCHANGED <<queue, registry, pushed, arrivals, minted>>
  /\ UNCHANGED <<link, bridge, slots, timers, replies, restarts>>

\* The claiming runtime must hold a slot and must own the turn; the reply goes
\* to the location the turn was parked with.
\* Plausible error: any runtime completes any turn.
CompleteDispatchUnowned(t, r) == t \in registry /\ registry' = registry \ {t}
CompleteDispatch(t, r) ==
  /\ t \in registry
  /\ t.rt = r
  /\ registry' = registry \ {t}

HandleTurnComplete(c, t) ==
  /\ link[c] = "open"
  /\ bridge[c] # NoRuntime
  /\ SlotOfRuntime(bridge[c]) # {}
  /\ CompleteDispatch(t, bridge[c])
  /\ replies' = replies \cup {[id |-> t.id, msg |-> t.msg, rt |-> bridge[c]]}
  /\ UNCHANGED <<link, bridge, slots, timers, queue, seen, pushed, arrivals, minted, restarts>>

-----------------------------------------------------------------------------
(* The daemon stops or crashes and starts again: only the queue survives.  *)

Restart ==
  /\ restarts < MaxRestarts
  /\ restarts' = restarts + 1
  /\ link' = [c \in Conns |-> IF link[c] = "new" THEN "new" ELSE "closed"]
  /\ bridge' = [c \in Conns |-> NoRuntime]
  /\ slots' = [k \in Keys |-> EmptySlot]
  /\ timers' = {}
  /\ registry' = {}
  /\ seen' = <<>>
  /\ UNCHANGED <<queue, pushed, replies, arrivals, minted>>

Init ==
  /\ link = [c \in Conns |-> "new"]
  /\ bridge = [c \in Conns |-> NoRuntime]
  /\ slots = [k \in Keys |-> EmptySlot]
  /\ timers = {}
  /\ registry = {}
  /\ queue = {}
  /\ seen = <<>>
  /\ pushed = {}
  /\ replies = {}
  /\ arrivals = 0
  /\ minted = 0
  /\ restarts = 0

Next ==
  \/ \E c \in Conns : \/ Connect(c)
                      \/ UnregisterRuntime(c)
                      \/ NotifyConnectionClosed(c)
                      \/ \E r \in Runtimes : RegisterRuntime(c, r)
                      \/ \E t \in pushed : HandleTurnComplete(c, t)
  \/ \E k \in Keys, r \in Runtimes : ExpireStaleBinding(k, r)
  \/ \E m \in Msgs, k \in Keys : HandleInbound(m, k)
  \/ Restart

Spec == Init /\ [][Next]_vars

\* A timer that is pending fires: Node runs due timers whatever else happens.
FairSpec == Spec /\ \A k \in Keys, r \in Runtimes : WF_vars(ExpireStaleBinding(k, r))
-----------------------------------------------------------------------------
(* Properties *)

SlotType == [rt : Runtimes \cup {NoRuntime}, conn : Conns \cup {NoConn},
             active : BOOLEAN, push : Conns \cup {NoConn},
             epoch : Nat, timer : BOOLEAN]
RowType == [arr : Nat, msg : Msgs, key : Keys]
TurnType == [id : Nat, msg : Msgs, arr : Nat, key : Keys,
             rt : Runtimes \cup {NoRuntime}, conn : Conns \cup {NoConn}]
ReplyType == [id : Nat, msg : Msgs, rt : Runtimes \cup {NoRuntime}]

\* The shape of the state: what each table of the gateway holds; the inbound queue
\* never holds more rows than it may.
TypeOK ==
  /\ link \in [Conns -> {"new", "open", "closed"}]
  /\ bridge \in [Conns -> Runtimes \cup {NoRuntime}]
  /\ slots \in [Keys -> SlotType]
  /\ timers \in SUBSET (Keys \X Runtimes)
  /\ registry \in SUBSET TurnType
  /\ queue \in SUBSET RowType /\ IsFiniteSet(queue) /\ Cardinality(queue) <= MaxQueue
  /\ seen \in Seq(Msgs)
  /\ pushed \in SUBSET TurnType
  /\ replies \in SUBSET ReplyType
  /\ arrivals \in Nat /\ minted \in Nat /\ restarts \in Nat

\* A message stays parked only while no runtime is active on its slot: neither
\* a registration that forgets to drain, nor a message that arrives between a
\* registration and its drain, may strand a row behind a working runtime.
ParkedOnlyWhileInactive == \A row \in queue : ~slots[row.key].active

\* A grace timer is pending exactly for the slots that are stale, so no timer
\* left over from an earlier disconnect can cut a later grace window short.
GraceTimerIffStale ==
  \A k \in Keys, r \in Runtimes :
    <<k, r>> \in timers <=> slots[k].rt = r /\ ~slots[k].active

\* What an active slot pushes to is the open connection of the runtime that
\* holds it; a stale slot has no push handle at all.
PushHandleIsLive ==
  \A k \in Keys :
    Occupied(k) =>
      IF slots[k].active
      THEN /\ slots[k].push = slots[k].conn
           /\ link[slots[k].conn] = "open"
           /\ bridge[slots[k].conn] = slots[k].rt
      ELSE slots[k].push = NoConn

\* Every accepted message is still parked or was dispatched, and never both;
\* a message that was accepted once is dispatched at most once.
AcceptedExactlyOnce ==
  /\ \A a \in 1..arrivals : \/ \E row \in queue : row.arr = a
                            \/ \E t \in pushed : t.arr = a
  /\ \A row \in queue, t \in pushed : row.arr # t.arr
  /\ \A t, u \in pushed : t.arr = u.arr => t = u

\* Turns of one slot are dispatched in the order their messages were accepted,
\* whether they were parked first or not.
DispatchedInArrivalOrder ==
  \A t, u \in pushed : t.key = u.key /\ t.id < u.id => t.arr < u.arr

\* A turn is answered by the runtime it was dispatched to, at the place its
\* message came from, and is no longer open once it is answered.
ReplyAnswersItsTurn ==
  \A p \in replies :
    /\ \E t \in pushed : t.id = p.id /\ t.rt = p.rt /\ t.msg = p.msg
    /\ \A t \in registry : t.id # p.id

\* A slot that was active is lost by its runtime only when the very connection
\* it is bound to closes, a bridge of that runtime unregisters, or the daemon
\* restarts: the late close of a superseded connection takes nothing away.
ActiveSlotLostForCause ==
  [][\A k \in Keys :
       slots[k].active /\ ~slots'[k].active =>
         \/ link'[slots[k].conn] = "closed"
         \/ \E c \in Conns : bridge[c] = slots[k].rt /\ bridge'[c] = NoRuntime]_vars

\* While a runtime keeps its slot, a change of its connection, or its return
\* from stale, shows as a larger epoch, and the epoch never goes back.
EpochTellsConnectionsApart ==
  [][\A k \in Keys :
       Occupied(k) /\ slots'[k].rt = slots[k].rt =>
         /\ slots'[k].epoch >= slots[k].epoch
         /\ slots'[k].conn # slots[k].conn => slots'[k].epoch > slots[k].epoch]_vars

\* A stale slot does not stay stale: its runtime returns or the grace period
\* runs out, so a runtime that is gone cannot block its slot for ever.
StaleSlotResolves ==
  \A k \in Keys : (Occupied(k) /\ ~slots[k].active) ~> (~Occupied(k) \/ slots[k].active)

\* "Used when a single Registered runtime unregisters or its connection is
\* lost" (sessionRegistry.ts:110): no turn stays open for a runtime that
\* holds no slot any more.
NoTurnOfALostRuntime ==
  \A t \in registry : \E k \in Keys : slots[k].rt = t.rt
=============================================================================
