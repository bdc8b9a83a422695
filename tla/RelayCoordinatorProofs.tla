----------------------- MODULE RelayCoordinatorProofs -----------------------
(***************************************************************************)
(* Safety of RelayCoordinator for any number of sessions, calls, ids,       *)
(* adapters, broadcasts and lost connections.  Every pending entry has a     *)
(* number of its own, below the counter and unlike that of any entry that    *)
(* has settled; a call that waits on a number finds it under its id.  A      *)
(* prompt that was shown before its broadcast settled is torn down with it.  *)
(***************************************************************************)
EXTENDS RelayCoordinator, TLAPS

CallType == [st : {"idle", "waiting"} \cup InFlight \cup Over, gen : Nat, result : ResultType]

\* A pending entry is that of its opener, numbered below the counter.
EntryInv ==
  \A i \in Ids :
    IF IsPending(i)
    THEN /\ entries[i].call \in Calls /\ IdOf[entries[i].call] = i
         /\ entries[i].gen <= broadcasts
    ELSE entries[i] = NoEntry

\* Numbers are given once.
GenInv ==
  /\ \A i, j \in Ids : IsPending(i) /\ entries[i].gen = entries[j].gen => i = j
  /\ \A s \in settled : s.gen # 0 /\ s.gen <= broadcasts

\* A call waits on a numbered broadcast.
CallInv == \A c \in Calls : call[c].st = "attached" => call[c].gen # 0

\* The record an entry settles with, and the calls that are told.
Record(i, result) == [gen |-> entries[i].gen, call |-> entries[i].call, result |-> result]
Told(c, D) == call[c].st = "attached" /\ \E i \in D : entries[i].gen = call[c].gen

IInv ==
  /\ TypeOK /\ EntryInv /\ GenInv /\ CallInv
  /\ SettledOnce /\ WaitersHaveTheirBroadcast /\ PendingIsOwned /\ OnlyOwnerCancels

-----------------------------------------------------------------------------
\* The initial states satisfy the inductive invariant.
LEMMA InitInv == Init => IInv
<1> SUFFICES ASSUME Init PROVE IInv
  OBVIOUS
<1>1. NoResult \in ResultType
  BY DEF NoResult, ResultType
<1>2. TypeOK
  BY <1>1 DEF Init, TypeOK, NoEntry, InFlight, Over
<1>3. EntryInv /\ GenInv /\ PendingIsOwned
  BY DEF Init, EntryInv, GenInv, PendingIsOwned, IsPending, Registered, NoEntry
<1>4. CallInv /\ SettledOnce /\ WaitersHaveTheirBroadcast /\ OnlyOwnerCancels
  BY DEF Init, CallInv, SettledOnce, WaitersHaveTheirBroadcast, OnlyOwnerCancels
<1> QED BY <1>2, <1>3, <1>4 DEF IInv

\* Steps that leave the registry alone, attach no call and give no result
\* (the bridge's side, refusals, and slots that do not become free).
LEMMA QuietKeeps ==
  ASSUME IInv,
         entries' = entries, settled' = settled, broadcasts' = broadcasts,
         sending' = sending, pending' = pending, listeners' = listeners, late' = late,
         link' \in [Runtimes -> {"up", "down", "stopping", "stopped"}],
         slot' \in [Runtimes -> {"active", "stale", "free"}],
         \A r \in Runtimes : slot[r] # "free" => slot'[r] # "free",
         wire' \in SUBSET Calls, drops' \in Nat,
         call' \in [Calls -> CallType],
         \A c \in Calls :
           \/ call'[c].gen = 0 /\ call'[c].st # "attached"
           \/ /\ call'[c].gen = call[c].gen /\ call'[c].result = call[c].result
              /\ call'[c].st = "attached" => call[c].st = "attached"
  PROVE  IInv'
<1>1. TypeOK'
  BY DEF IInv, TypeOK, CallType
<1>2. EntryInv' /\ GenInv' /\ OnlyOwnerCancels'
  BY DEF IInv, EntryInv, GenInv, OnlyOwnerCancels, IsPending
<1>3. \A i \in Registered : entries[i].call \in Calls
  BY DEF IInv, EntryInv, Registered
<1>4. PendingIsOwned'
  BY <1>3, CallsAssumption DEF IInv, PendingIsOwned, Registered, IsPending
<1>5. CallInv' /\ WaitersHaveTheirBroadcast'
  BY DEF IInv, CallInv, WaitersHaveTheirBroadcast, Matches
<1>6. SettledOnce'
  BY DEF IInv, SettledOnce
<1> QED BY <1>1, <1>2, <1>4, <1>5, <1>6 DEF IInv

\* Steps of the adapters that settle nothing.
LEMMA PromptsKeep ==
  ASSUME IInv, UNCHANGED <<link, slot, wire, call, entries, settled, broadcasts, drops>>,
         sending' \in SUBSET PromptType, pending' \in SUBSET PromptType,
         late' \in SUBSET PromptType,
         \A p, q \in pending' : p.at = q.at /\ IdOf[p.call] = IdOf[q.call] => p = q,
         listeners' \in SUBSET (Adapters \X Nat)
  PROVE  IInv'
<1>1. TypeOK'
  BY DEF IInv, TypeOK
<1>2. EntryInv' /\ GenInv' /\ OnlyOwnerCancels' /\ PendingIsOwned'
  BY DEF IInv, EntryInv, GenInv, OnlyOwnerCancels, PendingIsOwned, IsPending, Registered
<1>3. CallInv' /\ WaitersHaveTheirBroadcast' /\ SettledOnce'
  BY DEF IInv, CallInv, WaitersHaveTheirBroadcast, Matches, SettledOnce
<1> QED BY <1>1, <1>2, <1>3 DEF IInv

-----------------------------------------------------------------------------
(* Settling.                                                                *)

\* What settling the entries of D leaves, entry by entry, call by call and
\* record by record (PendingRegistry.settle).
LEMMA SettlePointwise ==
  ASSUME TypeOK, NEW D \in SUBSET Ids, NEW result \in ResultType,
         NEW shown \in SUBSET pending, NEW heard \in SUBSET listeners,
         Settle(D, result, shown, heard)
  PROVE  /\ \A i \in D : entries'[i] = NoEntry
         /\ \A i \in Ids \ D : entries'[i] = entries[i]
         /\ entries' \in [Ids -> [gen : Nat, call : Calls \cup {NoCall}, timer : BOOLEAN]]
         /\ settled \subseteq settled'
         /\ \A s \in settled' \ settled : \E i \in D : s = Record(i, result)
         /\ \A i \in D : Record(i, result) \in settled'
         /\ call' \in [Calls -> CallType]
         /\ \A c \in Calls : Told(c, D) =>
              call'[c].st = "replied" /\ call'[c].gen = call[c].gen /\ call'[c].result = result
         /\ \A c \in Calls : ~Told(c, D) => call'[c] = call[c]
<1>1. /\ entries \in [Ids -> [gen : Nat, call : Calls \cup {NoCall}, timer : BOOLEAN]]
      /\ call \in [Calls -> CallType]
  BY DEF TypeOK, CallType
<1>2. /\ \A i \in D : entries'[i] = NoEntry
      /\ \A i \in Ids \ D : entries'[i] = entries[i]
  BY DEF Settle, Without
<1>3. entries' \in [Ids -> [gen : Nat, call : Calls \cup {NoCall}, timer : BOOLEAN]]
  BY <1>1 DEF Settle, Without, NoEntry
<1>4. settled' = settled \cup {Record(i, result) : i \in D}
  BY DEF Settle, Record
<1>5. /\ settled \subseteq settled'
      /\ \A s \in settled' \ settled : \E i \in D : s = Record(i, result)
      /\ \A i \in D : Record(i, result) \in settled'
  BY <1>4
<1>6. \A c \in Calls : Told(c, D) =>
        /\ call'[c].st = "replied" /\ call'[c].gen = call[c].gen /\ call'[c].result = result
        /\ call'[c] \in CallType
  BY <1>1 DEF Settle, Waiters, Told, CallType, InFlight
<1>7. \A c \in Calls : ~Told(c, D) => call'[c] = call[c]
  BY DEF Settle, Waiters, Told
<1>8. call' \in [Calls -> CallType]
  BY <1>1, <1>6, <1>7 DEF Settle
<1> QED BY <1>2, <1>3, <1>5, <1>6, <1>7, <1>8

\* Settling the entries of D with one result tells every call that waits on
\* them, and keeps the numbers of what settled apart from what is pending.
LEMMA SettleKeeps ==
  ASSUME IInv, NEW D \in SUBSET Ids, NEW result \in ResultType,
         \A i \in D : IsPending(i),
         \A i \in D : entries'[i] = NoEntry,
         \A i \in Ids \ D : entries'[i] = entries[i],
         entries' \in [Ids -> [gen : Nat, call : Calls \cup {NoCall}, timer : BOOLEAN]],
         settled \subseteq settled',
         \A s \in settled' \ settled : \E i \in D : s = Record(i, result),
         \A i \in D : Record(i, result) \in settled',
         call' \in [Calls -> CallType],
         \A c \in Calls : Told(c, D) =>
           call'[c].st = "replied" /\ call'[c].gen = call[c].gen /\ call'[c].result = result,
         \A c \in Calls : ~Told(c, D) => call'[c] = call[c],
         pending' \subseteq pending, listeners' \subseteq listeners,
         sending' = sending, late' = late, broadcasts' = broadcasts,
         link' = link, drops' = drops, wire' \subseteq wire,
         slot' \in [Runtimes -> {"active", "stale", "free"}],
         \A i \in Ids \ D : IsPending(i) => slot'[RuntimeOf[entries[i].call]] # "free",
         result.kind = "cancelled" => \A i \in D : result.by = RuntimeOf[entries[i].call]
  PROVE  IInv'
<1>1. /\ entries \in [Ids -> [gen : Nat, call : Calls \cup {NoCall}, timer : BOOLEAN]]
      /\ settled \in SUBSET [gen : Nat, call : Calls, result : ResultType]
      /\ broadcasts \in Nat
  BY DEF IInv, TypeOK
<1>2. \A i \in D : /\ entries[i].gen \in Nat \ {0} /\ entries[i].gen <= broadcasts
                   /\ entries[i].call \in Calls /\ IdOf[entries[i].call] = i
  BY <1>1 DEF IInv, EntryInv, IsPending
<1>3. \A i \in Ids : entries'[i].gen # 0 => i \notin D /\ entries'[i] = entries[i] /\ IsPending(i)
  BY DEF NoEntry, IsPending
<1>4. \A i \in D : /\ Record(i, result).gen = entries[i].gen
                   /\ Record(i, result).call = entries[i].call
                   /\ Record(i, result).result = result
                   /\ Record(i, result) \in [gen : Nat, call : Calls, result : ResultType]
  BY <1>2 DEF Record
<1>5. TypeOK'
  <2>1. settled' \in SUBSET [gen : Nat, call : Calls, result : ResultType]
    BY <1>1, <1>4
  <2> QED BY <2>1 DEF IInv, TypeOK, CallType
<1>6. EntryInv'
  BY <1>3 DEF IInv, EntryInv, IsPending, NoEntry
<1>7. GenInv'
  <2>1. \A i, j \in Ids : entries'[i].gen # 0 /\ entries'[i].gen = entries'[j].gen => i = j
    BY <1>3 DEF IInv, GenInv
  <2>2. \A s \in settled' : s.gen # 0 /\ s.gen <= broadcasts
    <3>1. \A s \in settled : s.gen # 0 /\ s.gen <= broadcasts
      BY DEF IInv, GenInv
    <3> QED BY <1>2, <1>4, <3>1
  <2> QED BY <2>1, <2>2 DEF GenInv, IsPending
<1>8. CallInv'
  BY DEF IInv, CallInv
<1>9. SettledOnce'
  <2>1. ASSUME NEW s \in settled', NEW t \in settled', s.gen = t.gen  PROVE s = t
    <3>1. \A i \in D, u \in settled : u.gen # entries[i].gen
      BY DEF IInv, SettledOnce
    <3>2. \A i, j \in D : entries[i].gen = entries[j].gen => i = j
      BY DEF IInv, GenInv
    <3>3. s \in settled /\ t \in settled => s = t
      BY <2>1 DEF IInv, SettledOnce
    <3>4. s \in settled \/ \E i \in D : s = Record(i, result)
      OBVIOUS
    <3>5. t \in settled \/ \E i \in D : t = Record(i, result)
      OBVIOUS
    <3> QED BY <2>1, <3>1, <3>2, <3>3, <1>4
  <2>2. ASSUME NEW s \in settled', NEW i \in Ids  PROVE entries'[i].gen # s.gen
    <3>1. CASE entries'[i].gen = 0
      BY <3>1, <1>7 DEF GenInv
    <3>2. CASE entries'[i].gen # 0
      <4>1. i \notin D /\ entries'[i] = entries[i] /\ IsPending(i)
        BY <3>2, <1>3
      <4>2. s \in settled => s.gen # entries[i].gen
        BY DEF IInv, SettledOnce
      <4>3. \A j \in D : entries[j].gen # entries[i].gen
        BY <4>1 DEF IInv, GenInv
      <4>4. s \in settled \/ \E j \in D : s = Record(j, result)
        OBVIOUS
      <4> QED BY <4>1, <4>2, <4>3, <4>4, <1>4
    <3> QED BY <3>1, <3>2
  <2>3. ASSUME NEW c \in Calls, call'[c].gen # 0, call'[c].result # NoResult
        PROVE  \E s \in settled' : s.gen = call'[c].gen /\ s.result = call'[c].result
    <3>1. CASE ~Told(c, D)
      <4>1. call'[c] = call[c]
        BY <3>1
      <4> QED BY <4>1, <2>3 DEF IInv, SettledOnce
    <3>2. CASE Told(c, D)
      <4>1. PICK i \in D : entries[i].gen = call[c].gen
        BY <3>2 DEF Told
      <4>2. call'[c].gen = entries[i].gen /\ call'[c].result = result
        BY <3>2, <4>1
      <4>3. Record(i, result) \in settled'
        OBVIOUS
      <4> QED BY <4>2, <4>3, <1>4
    <3> QED BY <3>1, <3>2
  <2> QED BY <2>1, <2>2, <2>3 DEF SettledOnce
<1>10. WaitersHaveTheirBroadcast'
  <2> SUFFICES ASSUME NEW c \in Calls, call'[c].st = "attached"
               PROVE  /\ entries'[IdOf[c]].gen = call'[c].gen
                      /\ Matches(c, entries'[IdOf[c]])
    BY DEF WaitersHaveTheirBroadcast, Matches
  <2>1. call'[c] = call[c] /\ call[c].st = "attached" /\ ~Told(c, D)
    OBVIOUS
  <2>2. entries[IdOf[c]].gen = call[c].gen /\ Matches(c, entries[IdOf[c]])
    BY <2>1 DEF IInv, WaitersHaveTheirBroadcast
  <2>3. IdOf[c] \in Ids \ D
    BY <2>1, <2>2, CallsAssumption DEF Told
  <2>4. entries'[IdOf[c]] = entries[IdOf[c]]
    BY <2>3
  <2> QED BY <2>1, <2>2, <2>4
<1>11. PendingIsOwned'
  BY <1>3 DEF PendingIsOwned, Registered, IsPending
<1>12. OnlyOwnerCancels'
  <2>1. \A s \in settled : s.result.kind = "cancelled" => s.result.by = RuntimeOf[s.call]
    BY DEF IInv, OnlyOwnerCancels
  <2> QED BY <2>1, <1>4 DEF OnlyOwnerCancels
<1> QED BY <1>5, <1>6, <1>7, <1>8, <1>9, <1>10, <1>11, <1>12 DEF IInv

\* One settling of the coordinator keeps the invariant, whatever settles it.
LEMMA SettledBy ==
  ASSUME IInv, NEW D \in SUBSET Ids, NEW result \in ResultType,
         NEW shown \in SUBSET pending, NEW heard \in SUBSET listeners,
         \A i \in D : IsPending(i),
         Settle(D, result, shown, heard),
         link' = link, drops' = drops, wire' \subseteq wire,
         slot' \in [Runtimes -> {"active", "stale", "free"}],
         \A i \in Ids \ D : IsPending(i) => slot'[RuntimeOf[entries[i].call]] # "free",
         result.kind = "cancelled" => \A i \in D : result.by = RuntimeOf[entries[i].call]
  PROVE  IInv'
<1>1. pending' \subseteq pending /\ listeners' \subseteq listeners
  BY DEF Settle, TornDown
<1>2. sending' = sending /\ late' = late /\ broadcasts' = broadcasts
  BY DEF Settle
<1>3. TypeOK
  BY DEF IInv
<1>4. /\ \A i \in D : entries'[i] = NoEntry
      /\ \A i \in Ids \ D : entries'[i] = entries[i]
      /\ entries' \in [Ids -> [gen : Nat, call : Calls \cup {NoCall}, timer : BOOLEAN]]
      /\ settled \subseteq settled'
      /\ \A s \in settled' \ settled : \E i \in D : s = Record(i, result)
      /\ \A i \in D : Record(i, result) \in settled'
      /\ call' \in [Calls -> CallType]
      /\ \A c \in Calls : Told(c, D) =>
           call'[c].st = "replied" /\ call'[c].gen = call[c].gen /\ call'[c].result = result
      /\ \A c \in Calls : ~Told(c, D) => call'[c] = call[c]
  BY <1>3, SettlePointwise
<1> QED BY <1>1, <1>2, <1>4, SettleKeeps

\* A runtime whose slot goes takes every pending entry with it, as
\* connection_lost (onRuntimeConnectionLost in daemon.ts).
LEMMA DisposeKeeps ==
  ASSUME IInv, DisposeAll, link' = link, drops' = drops, wire' \subseteq wire,
         slot' \in [Runtimes -> {"active", "stale", "free"}]
  PROVE  IInv'
<1>1. Ended("connection_lost", Nobody) \in ResultType
  BY DEF Ended, ResultType
<1>2. Registered \in SUBSET Ids /\ \A i \in Ids : IsPending(i) <=> i \in Registered
  BY DEF Registered
<1>3. Ended("connection_lost", Nobody).kind # "cancelled"
  BY DEF Ended
<1> QED BY <1>1, <1>2, <1>3, SettledBy DEF DisposeAll, LostWithIt

\* A runtime cancels a prompt of its own.
LEMMA CancelKeeps ==
  ASSUME IInv, NEW r \in Runtimes, NEW i \in Ids, RelayCancel(r, i)
  PROVE  IInv'
<1>1. Ended("cancelled", r) \in ResultType /\ Ended("cancelled", r).by = r
  BY DEF Ended, ResultType
<1>2. {i} \in SUBSET Ids /\ IsPending(i) /\ RuntimeOf[entries[i].call] = r
  BY DEF RelayCancel, MayCancel
<1>3. \A j \in Ids : IsPending(j) => slot[RuntimeOf[entries[j].call]] # "free"
  BY DEF IInv, PendingIsOwned, Registered
<1>4. slot \in [Runtimes -> {"active", "stale", "free"}]
  BY DEF IInv, TypeOK
<1> QED BY <1>1, <1>2, <1>3, <1>4, SettledBy DEF RelayCancel

\* The coordinator's ttl ends a broadcast.
LEMMA TtlKeeps ==
  ASSUME IInv, NEW i \in Ids, TtlElapses(i)
  PROVE  IInv'
<1>1. Ended("timeout", Nobody) \in ResultType /\ Ended("timeout", Nobody).kind # "cancelled"
  BY DEF Ended, ResultType
<1>2. {i} \in SUBSET Ids /\ IsPending(i)
  BY DEF TtlElapses, IInv, EntryInv, NoEntry
<1>3. \A j \in Ids : IsPending(j) => slot[RuntimeOf[entries[j].call]] # "free"
  BY DEF IInv, PendingIsOwned, Registered
<1>4. slot \in [Runtimes -> {"active", "stale", "free"}]
  BY DEF IInv, TypeOK
<1> QED BY <1>1, <1>2, <1>3, <1>4, SettledBy DEF TtlElapses

\* An answer settles what is pending under its id, or nothing.
LEMMA AnswerKeeps ==
  ASSUME IInv, NEW p \in pending, Answer(p)
  PROVE  IInv'
<1> DEFINE i == IdOf[p.call]
           D == IF IsPending(i) THEN {i} ELSE {}
<1>1. p \in PromptType /\ i \in Ids
  BY CallsAssumption DEF IInv, TypeOK, PromptType
<1>2. Verdict(p) \in ResultType /\ Verdict(p).kind # "cancelled"
  BY <1>1 DEF Verdict, ResultType, PromptType
<1>3. D \in SUBSET Ids /\ \A j \in D : IsPending(j)
  BY <1>1
<1>4. \A j \in Ids : IsPending(j) => slot[RuntimeOf[entries[j].call]] # "free"
  BY DEF IInv, PendingIsOwned, Registered
<1>5. slot \in [Runtimes -> {"active", "stale", "free"}]
  BY DEF IInv, TypeOK
<1>6. /\ Settle(D, Verdict(p), pending \ {p}, listeners \ {<<p.at, p.gen>>})
      /\ UNCHANGED <<link, slot, wire, drops>>
  BY DEF Answer
<1> HIDE DEF D
<1> QED BY <1>2, <1>3, <1>4, <1>5, <1>6, SettledBy

-----------------------------------------------------------------------------
(* Requests.                                                                *)

\* A new broadcast takes the next number, and its caller waits on it.
LEMMA BroadcastKeeps ==
  ASSUME IInv, NEW c \in Calls, ~IsPending(IdOf[c]), slot[RuntimeOf[c]] = "active",
         Broadcast(c), wire' \subseteq wire, link' = link, slot' = slot, drops' = drops
  PROVE  IInv'
<1> DEFINE i == IdOf[c]
           gen == broadcasts + 1
           e == [gen |-> gen, call |-> c, timer |-> TtlOf[c]]
<1>1. /\ entries \in [Ids -> [gen : Nat, call : Calls \cup {NoCall}, timer : BOOLEAN]]
      /\ call \in [Calls -> CallType] /\ broadcasts \in Nat
      /\ settled \in SUBSET [gen : Nat, call : Calls, result : ResultType]
      /\ slot \in [Runtimes -> {"active", "stale", "free"}]
  BY DEF IInv, TypeOK, CallType
<1>2. i \in Ids /\ TtlOf[c] \in BOOLEAN /\ RuntimeOf[c] \in Runtimes /\ gen \in Nat /\ gen # 0
  BY <1>1, CallsAssumption
<1>3. /\ entries' = [entries EXCEPT ![i] = e]
      /\ broadcasts' = gen /\ settled' = settled
      /\ call' = IF call[c].st = "sent"
                 THEN [call EXCEPT ![c] = [st |-> "attached", gen |-> gen, result |-> NoResult]]
                 ELSE call
  BY DEF Broadcast, Attach, Respond
<1>4. PICK ready \in SUBSET CapableOf[PayloadOf[c]] :
        /\ sending' = sending \cup {[at |-> a, gen |-> gen, call |-> c] : a \in ready \cap SlowSend}
        /\ pending' = Shown({[at |-> a, gen |-> gen, call |-> c] : a \in ready \ SlowSend})
        /\ listeners' = listeners \cup {<<a, gen>> : a \in ready \ SlowSend}
  BY DEF Broadcast
<1>5. ready \subseteq Adapters
  BY CallsAssumption, AdaptersAssumption
<1>6. /\ entries'[i] = e /\ \A j \in Ids \ {i} : entries'[j] = entries[j]
      /\ e.gen = gen /\ e.call = c
  BY <1>1, <1>2, <1>3
<1>7. \A d \in Calls :
        \/ call'[d] = call[d]
        \/ /\ d = c /\ call'[d] \in CallType /\ call'[d].st = "attached"
           /\ call'[d].gen = gen /\ call'[d].result = NoResult
  <2>1. [st |-> "attached", gen |-> gen, result |-> NoResult] \in CallType
    BY <1>2 DEF CallType, InFlight, NoResult, ResultType
  <2> QED BY <1>1, <1>3, <2>1
<1> HIDE DEF e, gen, i
<1>8. TypeOK'
  <2>1. e \in [gen : Nat, call : Calls \cup {NoCall}, timer : BOOLEAN]
    BY <1>2 DEF e
  <2>2. entries' \in [Ids -> [gen : Nat, call : Calls \cup {NoCall}, timer : BOOLEAN]]
    BY <1>1, <1>3, <2>1
  <2>3. call' \in [Calls -> CallType]
    <3>1. DOMAIN call' = Calls /\ call' = [d \in Calls |-> call'[d]]
      BY <1>1, <1>3
    <3> QED BY <1>1, <1>7, <3>1
  <2>4. \A a \in Adapters : [at |-> a, gen |-> gen, call |-> c] \in PromptType
    BY <1>2 DEF PromptType
  <2>5. /\ sending \in SUBSET PromptType /\ pending \in SUBSET PromptType
        /\ listeners \in SUBSET (Adapters \X Nat)
        /\ \A p, q \in pending : p.at = q.at /\ IdOf[p.call] = IdOf[q.call] => p = q
    BY DEF IInv, TypeOK
  <2>6. sending' \in SUBSET PromptType /\ listeners' \in SUBSET (Adapters \X Nat)
    BY <1>2, <1>4, <1>5, <2>4, <2>5
  <2>7. pending' \in SUBSET PromptType
    BY <1>4, <1>5, <2>4, <2>5 DEF Shown
  <2>8. \A p, q \in pending' : p.at = q.at /\ IdOf[p.call] = IdOf[q.call] => p = q
    BY <1>4, <2>5 DEF Shown
  <2>9. late' = late
    BY DEF Broadcast
  <2> QED BY <1>2, <1>3, <2>2, <2>3, <2>6, <2>7, <2>8, <2>9 DEF IInv, TypeOK, CallType
<1>9. EntryInv'
  BY <1>1, <1>3, <1>6 DEF IInv, EntryInv, IsPending, i, gen
<1>10. \A j \in Ids : entries[j].gen # gen
  BY <1>1 DEF IInv, EntryInv, IsPending, gen
<1>11. \A s \in settled : s.gen # gen
  BY <1>1 DEF IInv, GenInv, gen
<1>12. GenInv'
  <2>1. \A s \in settled : s.gen # 0 /\ s.gen <= gen
    BY <1>1 DEF IInv, GenInv, gen
  <2>2. \A j, k \in Ids : IsPending(j) /\ entries[j].gen = entries[k].gen => j = k
    BY DEF IInv, GenInv
  <2>3. \A j, k \in Ids : entries'[j].gen # 0 /\ entries'[j].gen = entries'[k].gen => j = k
    BY <1>6, <1>10, <2>2 DEF IsPending
  <2> QED BY <1>3, <2>1, <2>3 DEF GenInv, IsPending
<1>13. CallInv'
  BY <1>2, <1>7 DEF IInv, CallInv
<1>14. SettledOnce'
  <2>1. \A s \in settled, j \in Ids : entries'[j].gen # s.gen
    BY <1>6, <1>11 DEF IInv, SettledOnce
  <2>2. \A d \in Calls : call'[d].gen # 0 /\ call'[d].result # NoResult => call'[d] = call[d]
    BY <1>7
  <2> QED BY <1>3, <2>1, <2>2 DEF IInv, SettledOnce
<1>15. WaitersHaveTheirBroadcast'
  <2> SUFFICES ASSUME NEW d \in Calls, call'[d].st = "attached"
               PROVE  /\ entries'[IdOf[d]].gen = call'[d].gen
                      /\ Matches(d, entries'[IdOf[d]])
    BY DEF WaitersHaveTheirBroadcast, Matches
  <2>1. CASE call'[d] = call[d]
    <3>1. /\ entries[IdOf[d]].gen = call[d].gen /\ Matches(d, entries[IdOf[d]])
          /\ call[d].gen # 0
      BY <2>1 DEF IInv, WaitersHaveTheirBroadcast, CallInv
    <3>2. IdOf[d] \in Ids \ {i}
      BY <3>1, CallsAssumption DEF IsPending, i
    <3>3. entries'[IdOf[d]] = entries[IdOf[d]]
      BY <1>6, <3>2
    <3> QED BY <2>1, <3>1, <3>3
  <2>2. CASE d = c /\ call'[d].gen = gen
    <3>1. IdOf[d] = i
      BY <2>2 DEF i
    <3> QED BY <2>2, <3>1, <1>6 DEF Matches
  <2> QED BY <1>7, <2>1, <2>2
<1>16. PendingIsOwned'
  <2>1. \A j \in Ids : IsPending(j) => slot[RuntimeOf[entries[j].call]] # "free"
    BY DEF IInv, PendingIsOwned, Registered
  <2> QED BY <1>6, <2>1 DEF PendingIsOwned, Registered, IsPending
<1>17. OnlyOwnerCancels'
  BY <1>3 DEF IInv, OnlyOwnerCancels
<1> QED BY <1>8, <1>9, <1>12, <1>13, <1>14, <1>15, <1>16, <1>17 DEF IInv

\* A replay joins the pending entry that asks the same for the same runtime.
LEMMA JoinKeeps ==
  ASSUME IInv, NEW c \in Calls, IsPending(IdOf[c]), Matches(c, entries[IdOf[c]]),
         Attach(c, entries[IdOf[c]].gen), UNCHANGED gateway,
         wire' \subseteq wire, link' = link, slot' = slot, drops' = drops
  PROVE  IInv'
<1> DEFINE gen == entries[IdOf[c]].gen
<1>1. /\ entries \in [Ids -> [gen : Nat, call : Calls \cup {NoCall}, timer : BOOLEAN]]
      /\ call \in [Calls -> CallType]
  BY DEF IInv, TypeOK, CallType
<1>2. gen \in Nat /\ gen # 0
  BY <1>1, CallsAssumption DEF IsPending
<1>3. \A d \in Calls :
        \/ call'[d] = call[d]
        \/ /\ d = c /\ call'[d] \in CallType /\ call'[d].st = "attached"
           /\ call'[d].gen = gen /\ call'[d].result = NoResult
  <2>1. [st |-> "attached", gen |-> gen, result |-> NoResult] \in CallType
    BY <1>2 DEF CallType, InFlight, NoResult, ResultType
  <2> QED BY <1>1, <2>1 DEF Attach, Respond
<1>4. call' \in [Calls -> CallType]
  <2>1. call' = [d \in Calls |-> call'[d]]
    BY <1>1 DEF Attach, Respond
  <2> QED BY <1>1, <1>3, <2>1
<1>5. TypeOK'
  BY <1>4 DEF IInv, TypeOK, CallType, gateway
<1>6. EntryInv' /\ GenInv' /\ PendingIsOwned' /\ OnlyOwnerCancels'
  BY DEF IInv, EntryInv, GenInv, PendingIsOwned, OnlyOwnerCancels, IsPending, Registered, gateway
<1>7. CallInv' /\ SettledOnce'
  BY <1>2, <1>3 DEF IInv, CallInv, SettledOnce, gateway
<1>8. WaitersHaveTheirBroadcast'
  BY <1>3 DEF IInv, WaitersHaveTheirBroadcast, Matches, gateway
<1> QED BY <1>5, <1>6, <1>7, <1>8 DEF IInv

\* A request frame is refused, answered with no_relay, joined to the pending
\* entry, or broadcast.
LEMMA RequestKeeps ==
  ASSUME IInv, NEW c \in Calls, RelayRequest(c)
  PROVE  IInv'
<1>1. /\ call \in [Calls -> CallType] /\ wire \in SUBSET Calls /\ drops \in Nat
      /\ slot \in [Runtimes -> {"active", "stale", "free"}]
      /\ link \in [Runtimes -> {"up", "down", "stopping", "stopped"}]
  BY DEF IInv, TypeOK, CallType
<1>2. /\ wire' \subseteq wire /\ wire' \in SUBSET Calls
      /\ link' = link /\ slot' = slot /\ drops' = drops
      /\ slot[RuntimeOf[c]] = "active"
  BY <1>1 DEF RelayRequest
<1>3. ASSUME NEW answer \in CallType, Respond(c, answer), UNCHANGED gateway,
             answer.st # "attached",
             \/ answer.gen = 0
             \/ answer.gen = call[c].gen /\ answer.result = call[c].result
      PROVE  IInv'
  <2>1. call' \in [Calls -> CallType]
    BY <1>1, <1>3 DEF Respond
  <2>2. \A d \in Calls : call'[d] = call[d] \/ (d = c /\ call'[d] = answer)
    BY <1>1, <1>3 DEF Respond
  <2> QED BY <1>1, <1>2, <1>3, <2>1, <2>2, QuietKeeps DEF gateway
<1>4. CASE /\ Respond(c, [st |-> "replied", gen |-> 0, result |-> Ended("no_relay", Nobody)])
           /\ UNCHANGED gateway
  <2>1. [st |-> "replied", gen |-> 0, result |-> Ended("no_relay", Nobody)] \in CallType
    BY DEF CallType, ResultType, Ended, InFlight
  <2> QED BY <1>3, <1>4, <2>1
<1>5. CASE ~IsPending(IdOf[c]) /\ Broadcast(c)
  BY <1>2, <1>5, BroadcastKeeps
<1>6. CASE /\ IsPending(IdOf[c]) /\ Matches(c, entries[IdOf[c]])
           /\ Attach(c, entries[IdOf[c]].gen) /\ UNCHANGED gateway
  BY <1>2, <1>6, JoinKeeps
<1>7. CASE Respond(c, At(c, "failed")) /\ UNCHANGED gateway
  <2>1. /\ At(c, "failed") \in CallType /\ At(c, "failed").gen = call[c].gen
        /\ At(c, "failed").result = call[c].result /\ At(c, "failed").st = "failed"
    BY <1>1 DEF At, CallType, Over
  <2> QED BY <1>3, <1>7, <2>1
<1> QED BY <1>4, <1>5, <1>6, <1>7 DEF RelayRequest

-----------------------------------------------------------------------------
(* The bridge and the connection.                                           *)

\* What the bridge does with its calls and its link leaves the registry alone.
LEMMA BridgeKeeps ==
  ASSUME IInv,
         \/ \E c \in Calls : Ask(c) \/ Send(c) \/ Deliver(c) \/ RequestTimesOut(c)
         \/ \E r \in Runtimes : \/ ConnectionDrops(r) \/ Reconnect(r) \/ ReconnectRefused(r)
                               \/ Stop(r) \/ Close(r)
  PROVE  IInv'
<1>1. /\ call \in [Calls -> CallType] /\ wire \in SUBSET Calls /\ drops \in Nat
      /\ slot \in [Runtimes -> {"active", "stale", "free"}]
      /\ link \in [Runtimes -> {"up", "down", "stopping", "stopped"}]
  BY DEF IInv, TypeOK, CallType
<1> DEFINE Kept(d) ==
      \/ call'[d].gen = 0 /\ call'[d].st # "attached"
      \/ /\ call'[d].gen = call[d].gen /\ call'[d].result = call[d].result
         /\ call'[d].st = "attached" => call[d].st = "attached"
<1>2. \A c \in Calls, st \in {"waiting", "sent", "done", "failed"} :
        /\ At(c, st) \in CallType /\ At(c, st).st = st
        /\ At(c, st).gen = call[c].gen /\ At(c, st).result = call[c].result
  BY <1>1 DEF At, CallType, InFlight, Over
<1>3. ASSUME NEW c \in Calls, NEW st \in {"waiting", "sent", "done", "failed"},
             call' = [call EXCEPT ![c] = At(c, st)],
             link' = link, slot' = slot, drops' = drops, UNCHANGED gateway,
             wire' \in SUBSET Calls
      PROVE  IInv'
  <2>1. call' \in [Calls -> CallType] /\ \A d \in Calls : Kept(d)
    BY <1>1, <1>2, <1>3
  <2> QED BY <1>1, <1>3, <2>1, QuietKeeps DEF gateway
<1>4. ASSUME NEW c \in Calls, Ask(c) \/ Send(c) \/ Deliver(c) \/ RequestTimesOut(c)
      PROVE  IInv'
  BY <1>1, <1>3, <1>4 DEF Ask, Send, Deliver, RequestTimesOut
<1>5. ASSUME NEW r \in Runtimes, ConnectionDrops(r)  PROVE IInv'
  <2>1. [st |-> "waiting", gen |-> 0, result |-> NoResult] \in CallType
    BY DEF CallType, NoResult, ResultType
  <2>2. call' \in [Calls -> CallType] /\ \A d \in Calls : Kept(d)
    BY <1>1, <1>5, <2>1 DEF ConnectionDrops
  <2>3. /\ link' \in [Runtimes -> {"up", "down", "stopping", "stopped"}]
        /\ slot' = slot /\ wire' = wire /\ drops' \in Nat /\ UNCHANGED gateway
    BY <1>1, <1>5 DEF ConnectionDrops
  <2> QED BY <1>1, <2>2, <2>3, QuietKeeps DEF gateway
<1>6. ASSUME NEW r \in Runtimes, Reconnect(r)  PROVE IInv'
  <2>1. /\ link' \in [Runtimes -> {"up", "down", "stopping", "stopped"}]
        /\ slot' \in [Runtimes -> {"active", "stale", "free"}]
        /\ \A q \in Runtimes : slot[q] # "free" => slot'[q] # "free"
        /\ wire' \in SUBSET Calls /\ drops' = drops /\ call' = call /\ UNCHANGED gateway
    BY <1>1, <1>6 DEF Reconnect
  <2> QED BY <1>1, <2>1, QuietKeeps DEF gateway
<1>7. ASSUME NEW r \in Runtimes, ReconnectRefused(r) \/ Stop(r) \/ Close(r)  PROVE IInv'
  <2>1. call' \in [Calls -> CallType] /\ \A d \in Calls : Kept(d)
    BY <1>1, <1>2, <1>7 DEF ReconnectRefused, Stop, Close
  <2>2. /\ link' \in [Runtimes -> {"up", "down", "stopping", "stopped"}]
        /\ slot' = slot /\ wire' = wire /\ drops' = drops /\ UNCHANGED gateway
    BY <1>1, <1>7 DEF ReconnectRefused, Stop, Close
  <2> QED BY <1>1, <2>1, <2>2, QuietKeeps DEF gateway
<1> QED BY <1>4, <1>5, <1>6, <1>7

\* The gateway notices a lost connection, ends its grace period, or is told
\* that the session is over.
LEMMA SlotKeeps ==
  ASSUME IInv, NEW r \in Runtimes, ConnectionClosed(r) \/ GraceExpires(r) \/ Unregister(r)
  PROVE  IInv'
<1>1. /\ call \in [Calls -> CallType] /\ wire \in SUBSET Calls /\ drops \in Nat
      /\ slot \in [Runtimes -> {"active", "stale", "free"}]
      /\ link \in [Runtimes -> {"up", "down", "stopping", "stopped"}]
  BY DEF IInv, TypeOK, CallType
<1>2. /\ link' = link /\ drops' = drops /\ wire' \subseteq wire
      /\ slot' \in [Runtimes -> {"active", "stale", "free"}]
  BY <1>1 DEF ConnectionClosed, GraceExpires, Unregister
<1>3. CASE DisposeAll
  BY <1>2, <1>3, DisposeKeeps
<1>4. CASE slot' = [slot EXCEPT ![r] = "stale"] /\ UNCHANGED <<call, gateway>>
  <2>1. \A q \in Runtimes : slot[q] # "free" => slot'[q] # "free"
    BY <1>1, <1>4
  <2> QED BY <1>1, <1>2, <1>4, <2>1, QuietKeeps DEF gateway
<1> QED BY <1>3, <1>4 DEF ConnectionClosed, GraceExpires, Unregister

\* A prompt that has been sent is shown; an adapter that goes down forgets its
\* prompts.
LEMMA AdapterKeeps ==
  ASSUME IInv,
         \/ \E p \in sending : PromptSent(p)
         \/ \E a \in Adapters : AdapterDown(a)
  PROVE  IInv'
<1>1. /\ sending \in SUBSET PromptType /\ pending \in SUBSET PromptType
      /\ listeners \in SUBSET (Adapters \X Nat)
      /\ \A p, q \in pending : p.at = q.at /\ IdOf[p.call] = IdOf[q.call] => p = q
      /\ late \in SUBSET PromptType
  BY DEF IInv, TypeOK
<1>2. ASSUME NEW p \in sending, PromptSent(p)  PROVE IInv'
  <2>1. sending' \in SUBSET PromptType
    BY <1>1, <1>2 DEF PromptSent
  <2>2. p \in PromptType /\ p.at \in Adapters /\ p.gen \in Nat
    BY <1>1 DEF PromptType
  <2>3. /\ pending' \in SUBSET PromptType /\ listeners' \in SUBSET (Adapters \X Nat)
        /\ late' \in SUBSET PromptType
        /\ \A q, s \in pending' : q.at = s.at /\ IdOf[q.call] = IdOf[s.call] => q = s
    <3>1. CASE /\ pending' = Shown({p}) /\ listeners' = listeners \cup {<<p.at, p.gen>>}
               /\ late' \subseteq late \cup {p}
      BY <1>1, <2>2, <3>1 DEF Shown
    <3>2. CASE UNCHANGED <<pending, listeners, late>>
      BY <1>1, <3>2
    <3> QED BY <1>2, <3>1, <3>2 DEF PromptSent
  <2>4. UNCHANGED <<link, slot, wire, call, entries, settled, broadcasts, drops>>
    BY <1>2 DEF PromptSent
  <2> QED BY <2>1, <2>3, <2>4, PromptsKeep
<1>3. ASSUME NEW a \in Adapters, AdapterDown(a)  PROVE IInv'
  <2>1. /\ sending' = sending /\ pending' \subseteq pending /\ listeners' \subseteq listeners
        /\ UNCHANGED <<link, slot, wire, call, entries, settled, late, broadcasts, drops>>
    BY <1>3 DEF AdapterDown
  <2> QED BY <1>1, <2>1, PromptsKeep
<1> QED BY <1>2, <1>3

-----------------------------------------------------------------------------
\* Every step keeps the inductive invariant.
LEMMA StepInv == IInv /\ [Next]_vars => IInv'
<1> SUFFICES ASSUME IInv, [Next]_vars PROVE IInv'
  OBVIOUS
<1>1. CASE UNCHANGED vars
  BY <1>1 DEF vars, IInv, TypeOK, EntryInv, GenInv, CallInv, SettledOnce,
     WaitersHaveTheirBroadcast, PendingIsOwned, OnlyOwnerCancels, IsPending, Registered, Matches
<1>2. CASE Next
  BY <1>2, BridgeKeeps, RequestKeeps, SlotKeeps, TtlKeeps, CancelKeeps, AnswerKeeps,
     AdapterKeeps DEF Next
<1> QED BY <1>1, <1>2

\* The inductive invariant holds in every reachable state.
LEMMA Invariance == Spec => []IInv
BY InitInv, StepInv, PTL DEF Spec

\* The state keeps its shape, and an adapter's map holds one prompt per id.
THEOREM TypeCorrect == Spec => []TypeOK
BY Invariance, PTL DEF IInv

\* However verdicts, cancels, the ttl and lost connections race, an entry of
\* the registry settles once, and each call is told what its broadcast
\* settled with (pendingRegistry.ts settle).
THEOREM SettledCorrect == Spec => []SettledOnce
BY Invariance, PTL DEF IInv

\* No call is left waiting on a broadcast that is gone, or on one that asks
\* something else or for someone else (coordinator.ts request and join).
THEOREM WaitersCorrect == Spec => []WaitersHaveTheirBroadcast
BY Invariance, PTL DEF IInv

\* Nothing is pending for a runtime whose slot the gateway has freed
\* (daemon.ts onRuntimeConnectionLost).
THEOREM OwnedCorrect == Spec => []PendingIsOwned
BY Invariance, PTL DEF IInv

\* A broadcast is cancelled on request of the runtime that opened it only
\* (the owner check of relay.cancel).
THEOREM CancelCorrect == Spec => []OnlyOwnerCancels
BY Invariance, PTL DEF IInv

-----------------------------------------------------------------------------
(* Prompts and verdicts.  A prompt that was shown in time is one of the       *)
(* pending broadcast's, and its adapter listens for the end of it.           *)

\* A prompt carries the number of its broadcast, which was opened for its call.
NumbersInv ==
  LET prompts == sending \cup pending
  IN  /\ \A p \in prompts : p.gen # 0 /\ p.gen <= broadcasts
      /\ \A p, q \in prompts : p.gen = q.gen => p.call = q.call
      /\ \A p \in prompts, i \in Ids : entries[i].gen = p.gen => entries[i].call = p.call

InPlace(p) ==
  LET e == entries[IdOf[p.call]]
  IN  e.gen = p.gen /\ e.call = p.call /\ <<p.at, p.gen>> \in listeners

PromptInv == \A p \in pending \ late : InPlace(p)

AnswerInv == IInv /\ NumbersInv /\ PromptInv /\ VerdictIsForTheQuestion

\* A result that is not a verdict, or the one the call had, breaks nothing.
LEMMA QuietVerdicts ==
  ASSUME VerdictIsForTheQuestion, late \subseteq late',
         \A c \in Calls : \/ call'[c].result = call[c].result
                          \/ call'[c].result.kind # "verdict"
  PROVE  VerdictIsForTheQuestion'
BY DEF VerdictIsForTheQuestion, IsOwnVerdict, PromptOf

\* Steps that leave the registry and the prompts alone.
LEMMA QuietPrompts ==
  ASSUME NumbersInv, PromptInv,
         UNCHANGED <<entries, sending, pending, listeners, late, broadcasts>>
  PROVE  NumbersInv' /\ PromptInv'
BY DEF NumbersInv, PromptInv, InPlace

\* Settling takes down every prompt of what settles that was shown in time:
\* each is in place with its listener, but for the one that was answered.
LEMMA SettlePrompts ==
  ASSUME IInv, NumbersInv, PromptInv, NEW D \in SUBSET Ids, NEW result \in ResultType,
         NEW shown \in SUBSET pending, NEW heard \in SUBSET listeners,
         \A i \in D : IsPending(i),
         \A p \in shown \ late : <<p.at, p.gen>> \in heard,
         Settle(D, result, shown, heard)
  PROVE  NumbersInv' /\ PromptInv'
<1>1. TypeOK /\ pending \in SUBSET PromptType
  BY DEF IInv, TypeOK
<1>2. \A p \in shown : IdOf[p.call] \in Ids
  BY <1>1, CallsAssumption DEF PromptType
<1>3. /\ \A i \in Ids \ D : entries'[i] = entries[i]
      /\ \A i \in D : entries'[i].gen = 0
  BY DEF Settle, Without, NoEntry
<1>4. /\ sending' = sending /\ late' = late /\ broadcasts' = broadcasts
      /\ pending' \subseteq shown
  BY DEF Settle, TornDown
<1>5. ASSUME NEW p \in pending' \ late'  PROVE InPlace(p)'
  <2>1. p \in shown \ late
    BY <1>4
  <2>2. InPlace(p) /\ <<p.at, p.gen>> \in heard
    BY <2>1 DEF PromptInv
  <2>3. IdOf[p.call] \notin D
    BY <2>2 DEF Settle, TornDown, InPlace
  <2>4. \A i \in D : p.gen # entries[i].gen
    BY <1>2, <2>1, <2>2, <2>3 DEF InPlace, IInv, GenInv
  <2>5. <<p.at, p.gen>> \in listeners'
    BY <2>2, <2>4 DEF Settle
  <2> QED BY <1>2, <1>3, <2>1, <2>2, <2>3, <2>5 DEF InPlace
<1>6. NumbersInv'
  <2>1. \A p \in sending' \cup pending' : p \in sending \cup pending
    BY <1>4
  <2> QED BY <1>3, <1>4, <2>1 DEF NumbersInv
<1> QED BY <1>5, <1>6 DEF PromptInv

\* A call is told a verdict of its own broadcast, which asked what it asks, or
\* of a prompt that was shown late.
LEMMA SettleVerdicts ==
  ASSUME IInv, VerdictIsForTheQuestion, NEW D \in SUBSET Ids, NEW result \in ResultType,
         NEW shown \in SUBSET pending, NEW heard \in SUBSET listeners,
         \A i \in D : IsPending(i),
         result.kind = "verdict" =>
           PromptOf(result) \in late \/ \A i \in D : result.call = entries[i].call,
         Settle(D, result, shown, heard)
  PROVE  VerdictIsForTheQuestion'
<1>1. TypeOK /\ late' = late
  BY DEF IInv, Settle
<1>2. /\ \A c \in Calls : Told(c, D) => call'[c].result = result
      /\ \A c \in Calls : ~Told(c, D) => call'[c] = call[c]
  BY <1>1, SettlePointwise
<1> SUFFICES ASSUME NEW c \in Calls, call'[c].result.kind = "verdict",
                    PromptOf(call'[c].result) \notin late
             PROVE  LET asked == call'[c].result.call
                    IN  /\ PayloadOf[asked] = PayloadOf[c]
                        /\ RuntimeOf[asked] = RuntimeOf[c]
                        /\ IdOf[asked] = IdOf[c]
  BY <1>1 DEF VerdictIsForTheQuestion, IsOwnVerdict, PromptOf
<1>3. CASE ~Told(c, D)
  BY <1>2, <1>3 DEF VerdictIsForTheQuestion, IsOwnVerdict
<1>4. CASE Told(c, D)
  <2>1. PICK i \in D : entries[i].gen = call[c].gen
    BY <1>4 DEF Told
  <2>2. /\ entries[IdOf[c]].gen = entries[i].gen /\ Matches(c, entries[IdOf[c]])
    BY <1>4, <2>1 DEF Told, IInv, WaitersHaveTheirBroadcast
  <2>3. i = IdOf[c]
    BY <2>1, <2>2, CallsAssumption DEF IInv, GenInv
  <2>4. IdOf[entries[i].call] = i
    BY DEF IInv, EntryInv
  <2>5. call'[c].result.call = entries[i].call
    BY <1>2, <1>4
  <2> QED BY <2>2, <2>3, <2>4, <2>5 DEF Matches
<1> QED BY <1>3, <1>4

\* A new broadcast's prompts are its own; a prompt left under its id is late.
LEMMA BroadcastPrompts ==
  ASSUME IInv, NumbersInv, PromptInv, NEW c \in Calls, ~IsPending(IdOf[c]), Broadcast(c)
  PROVE  NumbersInv' /\ PromptInv'
<1> DEFINE i == IdOf[c]
           gen == broadcasts + 1
           e == [gen |-> gen, call |-> c, timer |-> TtlOf[c]]
           prompt(a) == [at |-> a, gen |-> gen, call |-> c]
<1>1. /\ entries \in [Ids -> [gen : Nat, call : Calls \cup {NoCall}, timer : BOOLEAN]]
      /\ broadcasts \in Nat /\ pending \in SUBSET PromptType /\ sending \in SUBSET PromptType
  BY DEF IInv, TypeOK
<1>2. i \in Ids /\ gen # 0 /\ gen \in Nat
  BY <1>1, CallsAssumption
<1>3. /\ entries' = [entries EXCEPT ![i] = e]
      /\ broadcasts' = gen /\ late' = late
  BY DEF Broadcast
<1>4. PICK ready \in SUBSET CapableOf[PayloadOf[c]] :
        /\ sending' = sending \cup {prompt(a) : a \in ready \cap SlowSend}
        /\ pending' = Shown({prompt(a) : a \in ready \ SlowSend})
        /\ listeners' = listeners \cup {<<a, gen>> : a \in ready \ SlowSend}
  BY DEF Broadcast
<1>5. /\ entries'[i].gen = gen /\ entries'[i].call = c
      /\ \A j \in Ids \ {i} : entries'[j] = entries[j]
  BY <1>1, <1>2, <1>3
<1>6. ASSUME NEW p \in sending' \cup pending', p \notin sending \cup pending
      PROVE  \E a \in ready : p = prompt(a) /\ (p \in pending' => a \notin SlowSend)
  BY <1>4, <1>6 DEF Shown
<1>7. ASSUME NEW p \in sending \cup pending
      PROVE  p.gen # 0 /\ p.gen < gen /\ p.gen \in Nat
  BY <1>1 DEF NumbersInv, PromptType
<1>8. NumbersInv'
  <2>1. ASSUME NEW p \in sending' \cup pending'
        PROVE  \/ p \in sending \cup pending
               \/ p.gen = gen /\ p.call = c
    BY <1>6
  <2>2. \A j \in Ids : entries[j].gen # gen
    BY <1>1 DEF IInv, EntryInv, IsPending
  <2> HIDE DEF gen, i
  <2>3. \A p \in sending' \cup pending' : p.gen # 0 /\ p.gen <= broadcasts'
    BY <1>2, <1>3, <1>7, <2>1
  <2>4. \A p, q \in sending' \cup pending' : p.gen = q.gen => p.call = q.call
    BY <1>2, <1>7, <2>1 DEF NumbersInv
  <2>5. \A p \in sending' \cup pending', j \in Ids :
          entries'[j].gen = p.gen => entries'[j].call = p.call
    BY <1>2, <1>5, <1>7, <2>1, <2>2 DEF NumbersInv
  <2> QED BY <2>3, <2>4, <2>5 DEF NumbersInv
<1>9. ASSUME NEW p \in pending \ late, p \in pending'  PROVE InPlace(p)'
  <2>1. IdOf[p.call] \in Ids
    BY <1>1, CallsAssumption DEF PromptType
  <2>2. InPlace(p) /\ p.gen # 0
    BY <1>7 DEF PromptInv
  <2>3. IdOf[p.call] # i
    BY <2>2 DEF InPlace, IsPending
  <2>4. entries'[IdOf[p.call]] = entries[IdOf[p.call]]
    BY <1>5, <2>1, <2>3
  <2>5. <<p.at, p.gen>> \in listeners'
    BY <1>4, <2>2 DEF InPlace
  <2> QED BY <2>2, <2>4, <2>5 DEF InPlace
<1>10. ASSUME NEW p \in pending', p \notin pending  PROVE InPlace(p)'
  <2>1. PICK a \in ready \ SlowSend : p = prompt(a)
    BY <1>4, <1>10 DEF Shown
  <2>2. p.at = a /\ p.gen = gen /\ p.call = c
    BY <2>1
  <2>3. <<a, gen>> \in listeners'
    BY <1>4
  <2> QED BY <1>5, <2>2, <2>3 DEF InPlace
<1> QED BY <1>3, <1>8, <1>9, <1>10 DEF PromptInv

\* A prompt that has been sent takes its place, or is late.
LEMMA SentPrompts ==
  ASSUME IInv, NumbersInv, PromptInv, NEW p \in sending, PromptSent(p)
  PROVE  NumbersInv' /\ PromptInv' /\ late \subseteq late'
<1>1. /\ UNCHANGED <<entries, broadcasts>> /\ sending' \subseteq sending
      /\ sending \in SUBSET PromptType
  BY DEF PromptSent, IInv, TypeOK
<1>2. CASE UNCHANGED <<pending, listeners, late>>
  BY <1>1, <1>2 DEF NumbersInv, PromptInv, InPlace
<1>3. CASE /\ pending' = Shown({p})
           /\ listeners' = listeners \cup {<<p.at, p.gen>>}
           /\ late' = late \cup {q \in {p} : entries[IdOf[q.call]].gen # q.gen}
  <2>1. pending' \subseteq pending \cup {p} /\ late \subseteq late'
    BY <1>3 DEF Shown
  <2>2. NumbersInv'
    <3>1. \A q \in sending' \cup pending' : q \in sending \cup pending
      BY <1>1, <2>1
    <3> QED BY <1>1, <3>1 DEF NumbersInv
  <2>3. ASSUME NEW q \in pending' \ late'  PROVE InPlace(q)'
    <3>1. CASE q = p
      <4>1. entries[IdOf[p.call]].gen = p.gen /\ IdOf[p.call] \in Ids
        BY <1>1, <1>3, <2>3, <3>1, CallsAssumption DEF PromptType
      <4>2. entries[IdOf[p.call]].call = p.call
        BY <4>1 DEF NumbersInv
      <4> QED BY <1>1, <1>3, <3>1, <4>1, <4>2 DEF InPlace
    <3>2. CASE q # p
      <4>1. q \in pending \ late
        BY <2>1, <2>3, <3>2
      <4> QED BY <1>1, <1>3, <4>1 DEF PromptInv, InPlace
    <3> QED BY <3>1, <3>2
  <2> QED BY <2>1, <2>2, <2>3 DEF PromptInv
<1> QED BY <1>2, <1>3 DEF PromptSent

\* The initial states, without prompts and results.
LEMMA InitAnswers == Init => AnswerInv
<1> SUFFICES ASSUME Init PROVE AnswerInv
  OBVIOUS
<1>1. NumbersInv /\ PromptInv /\ VerdictIsForTheQuestion
  BY DEF Init, NumbersInv, PromptInv, VerdictIsForTheQuestion, NoResult
<1> QED BY <1>1, InitInv DEF AnswerInv

\* Every step keeps the prompts that were shown in time those of the pending
\* broadcasts, and their verdicts those of the questions asked.
LEMMA StepAnswers == AnswerInv /\ [Next]_vars => AnswerInv'
<1> SUFFICES ASSUME IInv, NumbersInv, PromptInv, VerdictIsForTheQuestion, [Next]_vars
             PROVE  NumbersInv' /\ PromptInv' /\ VerdictIsForTheQuestion'
  BY StepInv DEF AnswerInv
<1> DEFINE Goal == NumbersInv' /\ PromptInv' /\ VerdictIsForTheQuestion'
<1>1. /\ call \in [Calls -> CallType] /\ pending \in SUBSET PromptType
      /\ \A p, q \in pending : p.at = q.at /\ IdOf[p.call] = IdOf[q.call] => p = q
  BY DEF IInv, TypeOK, CallType
<1>2. ASSUME NEW c \in Calls, NEW st, call' = [call EXCEPT ![c] = At(c, st)], UNCHANGED gateway
      PROVE  Goal
  <2>1. At(c, st).result = call[c].result
    BY <1>1 DEF At, CallType
  <2>2. \A d \in Calls : call'[d].result = call[d].result
    BY <1>1, <1>2, <2>1
  <2> QED BY <1>2, <2>2, QuietPrompts, QuietVerdicts DEF gateway
<1>3. ASSUME NEW c \in Calls, Ask(c) \/ Send(c) \/ Deliver(c) \/ RequestTimesOut(c)  PROVE Goal
  BY <1>2, <1>3 DEF Ask, Send, Deliver, RequestTimesOut
<1>4. ASSUME NEW r \in Runtimes,
             \/ ConnectionDrops(r) \/ Reconnect(r) \/ ReconnectRefused(r)
             \/ Stop(r) \/ Close(r)
      PROVE  Goal
  <2>1. UNCHANGED gateway
    BY <1>4 DEF ConnectionDrops, Reconnect, ReconnectRefused, Stop, Close
  <2>2. \A c \in Calls : At(c, "failed").result = call[c].result
    BY <1>1 DEF At, CallType
  <2>3. \A c \in Calls : call'[c].result = call[c].result \/ call'[c].result.kind # "verdict"
    BY <1>4, <2>2 DEF ConnectionDrops, Reconnect, ReconnectRefused, Stop, Close, NoResult
  <2> QED BY <2>1, <2>3, QuietPrompts, QuietVerdicts DEF gateway
<1>5. ASSUME NEW c \in Calls, NEW answer, Respond(c, answer), answer.result.kind # "verdict",
             late' = late
      PROVE  VerdictIsForTheQuestion'
  <2>1. \A d \in Calls : call'[d].result = call[d].result \/ call'[d].result.kind # "verdict"
    BY <1>1, <1>5 DEF Respond
  <2> QED BY <1>5, <2>1, QuietVerdicts
<1>6. ASSUME NEW c \in Calls, NEW gen, Attach(c, gen), late' = late
      PROVE  VerdictIsForTheQuestion'
  BY <1>5, <1>6 DEF Attach, NoResult
<1>7. ASSUME NEW c \in Calls, RelayRequest(c)  PROVE Goal
  <2>1. CASE /\ Respond(c, [st |-> "replied", gen |-> 0, result |-> Ended("no_relay", Nobody)])
             /\ UNCHANGED gateway
    BY <1>5, <2>1, QuietPrompts DEF Ended, gateway
  <2>2. CASE ~IsPending(IdOf[c]) /\ Broadcast(c)
    BY <1>6, <2>2, BroadcastPrompts DEF Broadcast
  <2>3. CASE Attach(c, entries[IdOf[c]].gen) /\ UNCHANGED gateway
    BY <1>6, <2>3, QuietPrompts DEF gateway
  <2>4. CASE Respond(c, At(c, "failed")) /\ UNCHANGED gateway
    <3>1. At(c, "failed").result = call[c].result
      BY <1>1 DEF At, CallType
    <3>2. \A d \in Calls : call'[d].result = call[d].result
      BY <1>1, <2>4, <3>1 DEF Respond
    <3> QED BY <2>4, <3>2, QuietPrompts, QuietVerdicts DEF gateway
  <2> QED BY <1>7, <2>1, <2>2, <2>3, <2>4 DEF RelayRequest
<1>8. \A p \in pending \ late : <<p.at, p.gen>> \in listeners
  BY DEF PromptInv, InPlace
<1>9. ASSUME NEW D \in SUBSET Ids, NEW kind, NEW by, \A i \in D : IsPending(i),
             Ended(kind, by) \in ResultType, kind # "verdict",
             Settle(D, Ended(kind, by), pending, listeners)
      PROVE  Goal
  <2>1. Ended(kind, by).kind # "verdict"
    BY <1>9 DEF Ended
  <2> QED BY <1>8, <1>9, <2>1, SettlePrompts, SettleVerdicts
<1>10. ASSUME DisposeAll  PROVE Goal
  <2>1. Ended("connection_lost", Nobody) \in ResultType
    BY DEF Ended, ResultType
  <2>2. Registered \in SUBSET Ids /\ \A i \in Registered : IsPending(i)
    BY DEF Registered
  <2> QED BY <1>9, <1>10, <2>1, <2>2 DEF DisposeAll, LostWithIt
<1>11. ASSUME NEW r \in Runtimes, ConnectionClosed(r) \/ GraceExpires(r) \/ Unregister(r)
       PROVE  Goal
  <2>1. CASE DisposeAll
    BY <1>10, <2>1
  <2>2. CASE UNCHANGED <<call, gateway>>
    BY <2>2, QuietPrompts, QuietVerdicts DEF gateway
  <2> QED BY <1>11, <2>1, <2>2 DEF ConnectionClosed, GraceExpires, Unregister
<1>12. ASSUME NEW i \in Ids, TtlElapses(i) \/ \E r \in Runtimes : RelayCancel(r, i)  PROVE Goal
  <2>1. CASE TtlElapses(i)
    <3>1. Ended("timeout", Nobody) \in ResultType
      BY DEF Ended, ResultType
    <3>2. IsPending(i)
      BY <2>1 DEF TtlElapses, IInv, EntryInv, NoEntry
    <3> QED BY <1>9, <2>1, <3>1, <3>2 DEF TtlElapses
  <2>2. CASE \E r \in Runtimes : RelayCancel(r, i)
    <3>1. PICK r \in Runtimes : RelayCancel(r, i)
      BY <2>2
    <3>2. Ended("cancelled", r) \in ResultType
      BY DEF Ended, ResultType
    <3> QED BY <1>9, <3>1, <3>2 DEF RelayCancel
  <2> QED BY <1>12, <2>1, <2>2
<1>13. ASSUME NEW p \in pending, Answer(p)  PROVE Goal
  <2> DEFINE i == IdOf[p.call]
             D == IF IsPending(i) THEN {i} ELSE {}
             heard == listeners \ {<<p.at, p.gen>>}
  <2>1. p \in PromptType /\ i \in Ids
    BY <1>1, CallsAssumption DEF PromptType
  <2>2. Verdict(p) \in ResultType /\ Verdict(p).call = p.call /\ PromptOf(Verdict(p)) = p
    BY <2>1 DEF Verdict, PromptOf, ResultType, PromptType
  <2>3. /\ D \in SUBSET Ids /\ \A j \in D : IsPending(j)
        /\ p \in late \/ \A j \in D : p.call = entries[j].call
    BY <2>1 DEF PromptInv, InPlace
  <2>4. ASSUME NEW q \in (pending \ {p}) \ late  PROVE <<q.at, q.gen>> \in heard
    <3>1. CASE q.at = p.at /\ q.gen = p.gen
      <4>1. q.call = p.call
        BY <3>1 DEF NumbersInv
      <4> QED BY <1>1, <2>4, <3>1, <4>1
    <3>2. CASE ~(q.at = p.at /\ q.gen = p.gen)
      BY <1>8, <3>2
    <3> QED BY <3>1, <3>2
  <2>5. Settle(D, Verdict(p), pending \ {p}, heard)
    BY <1>13 DEF Answer
  <2> HIDE DEF D, heard
  <2>6. heard \in SUBSET listeners /\ pending \ {p} \in SUBSET pending
    BY DEF heard
  <2> QED BY <2>2, <2>3, <2>4, <2>5, <2>6, SettlePrompts, SettleVerdicts
<1>14. ASSUME NEW a \in Adapters, AdapterDown(a)  PROVE Goal
  <2>1. UNCHANGED <<call, entries, sending, late, broadcasts>> /\ pending' \subseteq pending
    BY <1>14 DEF AdapterDown
  <2>2. \A p \in pending' \ late : <<p.at, p.gen>> \in listeners'
    BY <1>8, <1>14 DEF AdapterDown
  <2>3. PromptInv' /\ NumbersInv'
    BY <2>1, <2>2 DEF PromptInv, InPlace, NumbersInv
  <2> QED BY <2>1, <2>3, QuietVerdicts
<1>15. ASSUME NEW p \in sending, PromptSent(p)  PROVE Goal
  <2>1. call' = call
    BY <1>15 DEF PromptSent
  <2> QED BY <1>15, <2>1, SentPrompts, QuietVerdicts
<1>16. CASE UNCHANGED vars
  BY <1>16, QuietPrompts, QuietVerdicts DEF vars
<1> QED BY <1>3, <1>4, <1>7, <1>11, <1>12, <1>13, <1>14, <1>15, <1>16 DEF Next

\* A prompt that can be answered and was shown before its broadcast settled is one of the
\* broadcast that is pending under its id: whatever outlives its broadcast was shown after
\* it, by an adapter that awaits its send (adapters/telegram/relay.ts).
THEOREM OrphanCorrect == Spec => []OrphansWereLate
<1>1. AnswerInv => OrphansWereLate
  BY DEF AnswerInv, PromptInv, InPlace, OrphansWereLate
<1> QED BY <1>1, InitAnswers, StepAnswers, PTL DEF Spec

\* With any adapters, slow and fast, and however ids collide and calls are asked again, the
\* verdict a call ends with answers its own question, asked by its own runtime, unless it
\* was given to a prompt that was shown after its broadcast had settled (coordinator.ts,
\* pendingRegistry.ts inspect).
THEOREM VerdictCorrect == Spec => []VerdictIsForTheQuestion
<1>1. AnswerInv => VerdictIsForTheQuestion
  BY DEF AnswerInv
<1> QED BY <1>1, InitAnswers, StepAnswers, PTL DEF Spec
=============================================================================
