-------------------------- MODULE RelayCoordinator --------------------------
(***************************************************************************)
(* Permission and question prompts relayed from an athena session to the   *)
(* chat channels: the session bridge that asks and asks again after a      *)
(* reconnect, the coordinator with its PendingRegistry, and the adapters   *)
(* that show the prompts.                                                  *)
(*                                                                         *)
(* A call is one relayPermission or relayQuestion of a bridge.  Its        *)
(* payload stands for kind and fingerprint together.  A broadcast is one   *)
(* entry of the registry; it is numbered, because an id may be broadcast   *)
(* again after its entry has settled.                                      *)
(***************************************************************************)
EXTENDS Integers, FiniteSets

CONSTANTS
  Runtimes, Calls, Ids, Payloads, Adapters,
  RuntimeOf,      \* the runtime that makes a call
  IdOf,           \* its channelRequestId
  PayloadOf,      \* what it asks
  TtlOf,          \* whether it carries a ttl (the bridge's default is none)
  CapableOf,      \* the adapters that can relay a payload
  SlowSend,       \* the adapters whose prompt is an awaited network call
  Grace,          \* gracePeriodMs > 0
  MaxBroadcasts,  \* bound: broadcasts in a behaviour
  MaxDrops,       \* bound: connections lost in a behaviour
  NoCall, Nobody

ASSUME CallsAssumption ==
  /\ NoCall \notin Calls
  /\ RuntimeOf \in [Calls -> Runtimes]
  /\ IdOf \in [Calls -> Ids]
  /\ PayloadOf \in [Calls -> Payloads]
  /\ TtlOf \in [Calls -> BOOLEAN]
ASSUME AdaptersAssumption ==
  /\ CapableOf \in [Payloads -> SUBSET Adapters]
  /\ SlowSend \subseteq Adapters
ASSUME RelayBoundsAssumption ==
  Grace \in BOOLEAN /\ MaxBroadcasts \in Nat /\ MaxDrops \in Nat

VARIABLES
  link,       \* runtime -> "up" | "down" | "stopping" | "stopped": its bridge
  slot,       \* runtime -> "active" | "stale" | "free": its slot at the gateway
  wire,       \* calls whose request frame is under way to the gateway
  call,       \* call -> where it stands, the broadcast it waits on, its result
  entries,    \* PendingRegistry.entries
  sending,    \* prompts of slow adapters that are being sent
  pending,    \* the adapters' pending maps: prompts that can be answered
  listeners,  \* <<adapter, broadcast>>: abort listeners in place
  settled,    \* history: how each broadcast settled
  late,       \* history: prompts that were shown after their broadcast had settled
  broadcasts, \* number of broadcasts so far
  drops

vars == <<link, slot, wire, call, entries, sending, pending, listeners,
          settled, late, broadcasts, drops>>
gateway == <<entries, sending, pending, listeners, settled, late, broadcasts>>

NoEntry == [gen |-> 0, call |-> NoCall, timer |-> FALSE]
NoResult == [kind |-> "none", gen |-> 0, call |-> NoCall, by |-> Nobody]
Ended(kind, by) == [kind |-> kind, gen |-> 0, call |-> NoCall, by |-> by]
Verdict(p) == [kind |-> "verdict", gen |-> p.gen, call |-> p.call, by |-> p.at]
PromptOf(result) == [at |-> result.by, gen |-> result.gen, call |-> result.call]

At(c, st) == [call[c] EXCEPT !.st = st]
OfRuntime(r) == {c \in Calls : RuntimeOf[c] = r}
IsPending(i) == entries[i].gen # 0
InFlight == {"sent", "attached", "replied"}
Over == {"done", "failed"}

-----------------------------------------------------------------------------
(* PendingRegistry *)

Registered == {i \in Ids : IsPending(i)}

\* Plausible error: the entry is not deleted.
WithoutKept(D) == entries
Without(D) == [i \in Ids |-> IF i \in D THEN NoEntry ELSE entries[i]]

Waiters(D) ==
  {c \in Calls : call[c].st = "attached" /\ \E i \in D : entries[i].gen = call[c].gen}

\* An aborted controller takes down whatever prompt its adapter holds under the
\* id, provided the adapter had put its listener in place.
TornDown(D, shown, heard) ==
  {p \in shown : LET i == IdOf[p.call] IN
                 ~(i \in D /\ <<p.at, entries[i].gen>> \in heard)}

Settle(D, result, shown, heard) ==
  /\ entries' = Without(D)
  /\ settled' = settled \cup
       {[gen |-> entries[i].gen, call |-> entries[i].call, result |-> result] : i \in D}
  /\ call' = [c \in Calls |-> IF c \in Waiters(D)
                              THEN [call[c] EXCEPT !.st = "replied", !.result = result]
                              ELSE call[c]]
  /\ pending' = TornDown(D, shown, heard)
  /\ listeners' = {l \in heard : \A i \in D : l[2] # entries[i].gen}
  /\ UNCHANGED <<sending, late, broadcasts>>

\* Plausible error: the loss of a runtime leaves the registry alone.
LostWithItNothing == {}
LostWithIt == Registered

DisposeAll == Settle(LostWithIt, Ended("connection_lost", Nobody), pending, listeners)

\* Plausible error: a request whose id is pending joins it unseen.
MatchesUnseen(c, e) == TRUE
Matches(c, e) ==
  /\ PayloadOf[c] = PayloadOf[e.call]
  /\ RuntimeOf[c] = RuntimeOf[e.call]

MayCancel(r, e) == RuntimeOf[e.call] = r

-----------------------------------------------------------------------------
(* The bridge *)

Ask(c) ==
  /\ call[c].st = "idle"
  /\ link[RuntimeOf[c]] \in {"up", "down"}
  /\ call' = [call EXCEPT ![c] = At(c, "waiting")]
  /\ UNCHANGED <<link, slot, wire, gateway, drops>>

Send(c) ==
  /\ call[c].st = "waiting"
  /\ link[RuntimeOf[c]] = "up"
  /\ call' = [call EXCEPT ![c] = At(c, "sent")]
  /\ wire' = wire \cup {c}
  /\ UNCHANGED <<link, slot, gateway, drops>>

Deliver(c) ==
  /\ call[c].st = "replied"
  /\ call' = [call EXCEPT ![c] = At(c, "done")]
  /\ UNCHANGED <<link, slot, wire, gateway, drops>>

\* The deadline of a call with a ttl.  A call that waits for the reconnect looks at it
\* only afterwards.
\* Plausible error: only the gateway's timer ends a call.
RequestTimesOutNever(c) == FALSE /\ UNCHANGED vars
RequestTimesOut(c) ==
  /\ TtlOf[c]
  /\ call[c].st \in InFlight \cup {"waiting"}
  /\ link[RuntimeOf[c]] \in {"up", "stopping"}
  /\ call' = [call EXCEPT ![c] = At(c, "failed")]
  /\ UNCHANGED <<link, slot, wire, gateway, drops>>

\* The connection breaks: requests in flight are rejected with
\* connection_closed and wait for the reconnect, answers under way are lost.
ConnectionDrops(r) ==
  /\ link[r] = "up"
  /\ drops < MaxDrops
  /\ drops' = drops + 1
  /\ link' = [link EXCEPT ![r] = "down"]
  /\ call' = [c \in Calls |-> IF RuntimeOf[c] = r /\ call[c].st \in InFlight
                              THEN [st |-> "waiting", gen |-> 0, result |-> NoResult]
                              ELSE call[c]]
  /\ UNCHANGED <<slot, wire, gateway>>

\* An attempt succeeds; kickReconnect repeats it until then.  The gateway may or may not
\* have noticed that the old connection is gone.
Reconnect(r) ==
  /\ link[r] = "down"
  /\ link' = [link EXCEPT ![r] = "up"]
  /\ slot' = [slot EXCEPT ![r] = "active"]
  /\ wire' = wire \ OfRuntime(r)
  /\ UNCHANGED <<call, gateway, drops>>

\* Another session took the slot after it was lost: already_registered ends the bridge,
\* and its calls with it.
ReconnectRefused(r) ==
  /\ link[r] = "down"
  /\ slot[r] = "free"
  /\ link' = [link EXCEPT ![r] = "stopped"]
  /\ call' = [c \in Calls |-> IF RuntimeOf[c] = r /\ call[c].st = "waiting"
                              THEN At(c, "failed") ELSE call[c]]
  /\ UNCHANGED <<slot, wire, gateway, drops>>

Stop(r) ==
  /\ link[r] \in {"up", "down"}
  /\ link' = [link EXCEPT ![r] = IF link[r] = "up" THEN "stopping" ELSE "stopped"]
  /\ call' = [c \in Calls |-> IF RuntimeOf[c] = r /\ call[c].st = "waiting"
                              THEN At(c, "failed") ELSE call[c]]
  /\ UNCHANGED <<slot, wire, gateway, drops>>

\* client.close() after the unregister request was answered or gave up.
Close(r) ==
  /\ link[r] = "stopping"
  /\ link' = [link EXCEPT ![r] = "stopped"]
  /\ call' = [c \in Calls |-> IF RuntimeOf[c] = r /\ call[c].st \in InFlight
                              THEN At(c, "failed") ELSE call[c]]
  /\ UNCHANGED <<slot, wire, gateway, drops>>

-----------------------------------------------------------------------------
(* The gateway *)

\* Later prompts of an id take the place of earlier ones in an adapter's map.
Shown(new) ==
  {p \in pending : \A q \in new : q.at # p.at \/ IdOf[q.call] # IdOf[p.call]} \cup new

\* The answer to call c, if its bridge still waits for one on this connection.
Respond(c, answer) ==
  call' = IF call[c].st = "sent" THEN [call EXCEPT ![c] = answer] ELSE call

Attach(c, gen) == Respond(c, [st |-> "attached", gen |-> gen, result |-> NoResult])

\* Adapters that are capable but not connected decline at once, and the
\* coordinator ignores that.
Broadcast(c) ==
  LET gen == broadcasts + 1
      prompt(a) == [at |-> a, gen |-> gen, call |-> c]
  IN  \E ready \in SUBSET CapableOf[PayloadOf[c]] :
        /\ broadcasts < MaxBroadcasts
        /\ broadcasts' = gen
        /\ entries' = [entries EXCEPT ![IdOf[c]] =
                         [gen |-> gen, call |-> c, timer |-> TtlOf[c]]]
        /\ sending' = sending \cup {prompt(a) : a \in ready \cap SlowSend}
        /\ pending' = Shown({prompt(a) : a \in ready \ SlowSend})
        /\ listeners' = listeners \cup {<<a, gen>> : a \in ready \ SlowSend}
        /\ Attach(c, gen)
        /\ UNCHANGED <<settled, late>>

\* Plausible error: a request whose id is pending opens a broadcast of its own.
RelayRequestUninspected(c) ==
  /\ c \in wire
  /\ slot[RuntimeOf[c]] = "active"
  /\ wire' = wire \ {c}
  /\ Broadcast(c)
  /\ UNCHANGED <<link, slot, drops>>
RelayRequest(c) ==
  LET e == entries[IdOf[c]]
  IN  /\ c \in wire
      /\ slot[RuntimeOf[c]] = "active"
      /\ wire' = wire \ {c}
      /\ \/ /\ CapableOf[PayloadOf[c]] = {}
            /\ Respond(c, [st |-> "replied", gen |-> 0, result |-> Ended("no_relay", Nobody)])
            /\ UNCHANGED gateway
         \/ /\ CapableOf[PayloadOf[c]] # {}
            /\ ~IsPending(IdOf[c])
            /\ Broadcast(c)
         \/ /\ CapableOf[PayloadOf[c]] # {}
            /\ IsPending(IdOf[c])
            /\ IF Matches(c, e) THEN Attach(c, e.gen) ELSE Respond(c, At(c, "failed"))
            /\ UNCHANGED gateway
      /\ UNCHANGED <<link, slot, drops>>

RelayCancel(r, i) ==
  /\ link[r] = "up"
  /\ slot[r] = "active"
  /\ IsPending(i)
  /\ MayCancel(r, entries[i])
  /\ Settle({i}, Ended("cancelled", r), pending, listeners)
  /\ UNCHANGED <<link, slot, wire, drops>>

TtlElapses(i) ==
  /\ entries[i].timer
  /\ Settle({i}, Ended("timeout", Nobody), pending, listeners)
  /\ UNCHANGED <<link, slot, wire, drops>>

\* The gateway notices that the connection is gone.
ConnectionClosed(r) ==
  /\ link[r] \in {"down", "stopped"}
  /\ slot[r] = "active"
  /\ wire' = wire \ OfRuntime(r)
  /\ IF Grace
     THEN /\ slot' = [slot EXCEPT ![r] = "stale"]
          /\ UNCHANGED <<call, gateway>>
     ELSE /\ slot' = [slot EXCEPT ![r] = "free"]
          /\ DisposeAll
  /\ UNCHANGED <<link, drops>>

GraceExpires(r) ==
  /\ slot[r] = "stale"
  /\ slot' = [slot EXCEPT ![r] = "free"]
  /\ DisposeAll
  /\ UNCHANGED <<link, wire, drops>>

\* Frames that were sent before it are handled before it.
Unregister(r) ==
  /\ link[r] = "stopping"
  /\ slot[r] = "active"
  /\ wire \cap OfRuntime(r) = {}
  /\ slot' = [slot EXCEPT ![r] = "free"]
  /\ DisposeAll
  /\ UNCHANGED <<link, wire, drops>>

-----------------------------------------------------------------------------
(* The adapters *)

\* sendMessage has returned.  The signal is not looked at again: a listener
\* added to a signal that was aborted meanwhile never runs.
PromptSent(p) ==
  /\ p \in sending
  /\ sending' = sending \ {p}
  /\ \/ /\ pending' = Shown({p})
        /\ listeners' = listeners \cup {<<p.at, p.gen>>}
        /\ late' = late \cup {q \in {p} : entries[IdOf[q.call]].gen # q.gen}
     \/ UNCHANGED <<pending, listeners, late>>
  /\ UNCHANGED <<link, slot, wire, call, entries, settled, broadcasts, drops>>

\* Someone answers a prompt.  The coordinator settles whatever broadcast is
\* pending under the id.
Answer(p) ==
  LET i == IdOf[p.call]
      D == IF IsPending(i) THEN {i} ELSE {}
  IN  /\ p \in pending
      /\ Settle(D, Verdict(p), pending \ {p}, listeners \ {<<p.at, p.gen>>})
      /\ UNCHANGED <<link, slot, wire, drops>>

\* The adapter stops or loses its broker: its prompts resolve as cancelled,
\* which the coordinator ignores.
AdapterDown(a) ==
  /\ \E p \in pending : p.at = a
  /\ pending' = {p \in pending : p.at # a}
  /\ listeners' = {l \in listeners : \A p \in pending : l # <<p.at, p.gen>> \/ p.at # a}
  /\ UNCHANGED <<link, slot, wire, call, entries, sending, settled, late, broadcasts, drops>>

-----------------------------------------------------------------------------
Init ==
  /\ link = [r \in Runtimes |-> "up"]
  /\ slot = [r \in Runtimes |-> "active"]
  /\ wire = {}
  /\ call = [c \in Calls |-> [st |-> "idle", gen |-> 0, result |-> NoResult]]
  /\ entries = [i \in Ids |-> NoEntry]
  /\ sending = {} /\ pending = {} /\ listeners = {}
  /\ settled = {} /\ late = {}
  /\ broadcasts = 0 /\ drops = 0

Next ==
  \/ \E c \in Calls : Ask(c) \/ Send(c) \/ RelayRequest(c) \/ Deliver(c) \/ RequestTimesOut(c)
  \/ \E r \in Runtimes : \/ ConnectionDrops(r) \/ Reconnect(r) \/ ReconnectRefused(r)
                         \/ Stop(r) \/ Close(r) \/ ConnectionClosed(r)
                         \/ GraceExpires(r) \/ Unregister(r)
  \/ \E i \in Ids : TtlElapses(i) \/ \E r \in Runtimes : RelayCancel(r, i)
  \/ \E p \in sending : PromptSent(p)
  \/ \E p \in pending : Answer(p)
  \/ \E a \in Adapters : AdapterDown(a)

Spec == Init /\ [][Next]_vars

\* Frames and responses arrive while their connection is up, timers fire, a closed
\* connection is noticed.  No reconnect has to succeed, and nobody has to answer a
\* prompt, to cancel one or to stop.
FairSpec ==
  /\ Spec
  /\ \A c \in Calls : /\ WF_vars(Send(c)) /\ WF_vars(RelayRequest(c))
                      /\ WF_vars(Deliver(c)) /\ WF_vars(RequestTimesOut(c))
  /\ \A r \in Runtimes : /\ WF_vars(Close(r)) /\ WF_vars(ConnectionClosed(r))
                         /\ WF_vars(GraceExpires(r))
  /\ \A i \in Ids : WF_vars(TtlElapses(i))
-----------------------------------------------------------------------------
(* Properties *)

ResultType == [kind : {"none", "no_relay", "verdict", "cancelled", "timeout", "connection_lost"},
               gen : Nat, call : Calls \cup {NoCall}, by : Adapters \cup Runtimes \cup {Nobody}]
PromptType == [at : Adapters, gen : Nat, call : Calls]

\* The shape of the state; an adapter's map holds one prompt per id.
TypeOK ==
  /\ link \in [Runtimes -> {"up", "down", "stopping", "stopped"}]
  /\ slot \in [Runtimes -> {"active", "stale", "free"}]
  /\ wire \in SUBSET Calls
  /\ call \in [Calls -> [st : {"idle", "waiting"} \cup InFlight \cup Over,
                         gen : Nat, result : ResultType]]
  /\ entries \in [Ids -> [gen : Nat, call : Calls \cup {NoCall}, timer : BOOLEAN]]
  /\ sending \in SUBSET PromptType
  /\ pending \in SUBSET PromptType
  /\ \A p, q \in pending : p.at = q.at /\ IdOf[p.call] = IdOf[q.call] => p = q
  /\ listeners \in SUBSET (Adapters \X Nat)
  /\ settled \in SUBSET [gen : Nat, call : Calls, result : ResultType]
  /\ late \in SUBSET PromptType
  /\ broadcasts \in Nat /\ drops \in Nat

\* "An entry settles at most once" (pendingRegistry.ts:10), however verdicts,
\* cancels, the ttl and lost connections race, and every call that waited on a
\* broadcast is told what that broadcast settled with.
SettledOnce ==
  /\ \A s, t \in settled : s.gen = t.gen => s = t
  /\ \A s \in settled : \A i \in Ids : entries[i].gen # s.gen
  /\ \A c \in Calls : call[c].gen # 0 /\ call[c].result # NoResult =>
        \E s \in settled : s.gen = call[c].gen /\ s.result = call[c].result

\* No call is left waiting on a broadcast that has settled: while it waits,
\* the entry of its id is that broadcast, with its owner and its payload.
WaitersHaveTheirBroadcast ==
  \A c \in Calls : call[c].st = "attached" =>
    LET e == entries[IdOf[c]]
    IN  e.gen = call[c].gen /\ Matches(c, e)

\* Nothing stays pending for a runtime that the gateway has given up: when its
\* slot goes, at once or after the grace period, its prompts are disposed of.
PendingIsOwned ==
  \A i \in Registered : slot[RuntimeOf[entries[i].call]] # "free"

\* A broadcast is cancelled on request only of the runtime it was opened for.
OnlyOwnerCancels ==
  \A s \in settled : s.result.kind = "cancelled" => s.result.by = RuntimeOf[s.call]

IsOwnVerdict(c) ==
  LET asked == call[c].result.call
  IN  /\ PayloadOf[asked] = PayloadOf[c]
      /\ RuntimeOf[asked] = RuntimeOf[c]
      /\ IdOf[asked] = IdOf[c]

\* The verdict a call ends with was given to a prompt that shows that call's own question,
\* asked by the same runtime, even after the call was asked again and when another question
\* has the same id; unless the adapter showed the prompt only after its broadcast had
\* settled: such a prompt outlives it, and its answer settles what is pending under the id.
VerdictIsForTheQuestion ==
  \A c \in Calls : call[c].result.kind = "verdict" =>
    IsOwnVerdict(c) \/ PromptOf(call[c].result) \in late

\* ... whenever it was shown.  Does not hold.
NoStrayVerdict == \A c \in Calls : call[c].result.kind = "verdict" => IsOwnVerdict(c)

\* A prompt that can be answered belongs to the broadcast that is pending under its id,
\* unless it was shown after its broadcast had settled.
OrphansWereLate == \A p \in pending \ late : entries[IdOf[p.call]].gen = p.gen

\* "Surfacing the prompt on the channel and tearing it down on abort"
\* (adapter.ts:112-115): every prompt that can be answered belongs to the
\* broadcast that is pending under its id.  Does not hold.
NoOrphanPrompt == \A p \in pending : entries[IdOf[p.call]].gen = p.gen

\* A call with a ttl ends, whatever becomes of its request, its broadcast and their
\* connections, if its bridge is never without a gateway for ever (it reconnects, is refused
\* for good, or stops).
TimedCallEnds ==
  \A c \in {d \in Calls : TtlOf[d]} :
    []<>(link[RuntimeOf[c]] # "down") => (call[c].st = "waiting" ~> call[c].st \in Over)

\* "If the caller provided an explicit TTL, reconnect retries are bounded by that deadline"
\* (sessionBridge.ts:363-365).  Does not hold: the deadline is looked at after the reconnect.
DeadlineBoundsReconnects ==
  \A c \in {d \in Calls : TtlOf[d]} : call[c].st = "waiting" ~> call[c].st \in Over

\* When a session has stopped, no prompt of it stays pending for ever.
StoppedSessionIsForgotten ==
  \A i \in Ids, r \in Runtimes :
    (IsPending(i) /\ RuntimeOf[entries[i].call] = r /\ link[r] = "stopped")
      ~> ~(IsPending(i) /\ RuntimeOf[entries[i].call] = r)

\* "Single-runtime v1: blanket dispose is safe" (daemon.ts:155): a broadcast is
\* ended as connection_lost only when its own runtime has lost its slot.
ConnectionLostIsItsOwn ==
  [][\A s \in settled' \ settled :
       s.result.kind = "connection_lost" => slot'[RuntimeOf[s.call]] # "active"]_vars

\* "Cancel them so awaiting callers don't dangle" (console/adapter.ts:102-103): a
\* broadcast without a ttl that loses its last prompt is settled.
LastPromptGoneSettles ==
  [][\A i \in Ids :
       LET open(prompts) == {p \in prompts : p.gen = entries[i].gen}
       IN  IsPending(i) /\ ~entries[i].timer /\ open(pending \cup sending) # {} =>
             \/ open(pending' \cup sending') # {}
             \/ entries'[i].gen # entries[i].gen]_vars
=============================================================================
