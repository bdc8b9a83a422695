------------------------ MODULE DashboardDaemonProofs ------------------------
(***************************************************************************)
(* What the connection of the dashboard daemon and its mirror of the          *)
(* attachments guarantee for any runs and runners and any number of refreshes, *)
(* connects and fetches that fail, links that break and changes of the list,   *)
(* and what the assignments do.  IInv carries the connection and the mirror,   *)
(* AInv the assignments: that an answer on its way to the dashboard is true is *)
(* what makes the one it has got true, and it is true because what a whole     *)
(* buffer of assignments leads to (AdmitAll, a recursive function) has been    *)
(* built up by single admissions (AdmitAllSteps, AdmitAllAdmits).              *)
(***************************************************************************)
EXTENDS DashboardDaemon, FiniteSetTheorems, WellFoundedInduction, TLAPS

-----------------------------------------------------------------------------
(* The connector.                                                           *)

Tasks == {"none", "refresh", "connect", "fetch", "over"}
Links == {"none", "open", "closing", "closed"}

ConnTyped ==
  /\ last \in 0..(MaxTroubles + 1) /\ client \in 0..last
  /\ task \in [Conns -> Tasks] /\ link \in [Conns -> Links]

\* A connectOnce that has no socket yet.
Opening(c) == task[c] \in {"refresh", "connect"}

\* Until the daemon is stopped the open socket is the client, and a connectOnce
\* without a socket is the last one, under way while there is neither a client nor
\* a waiting loop.
Single ==
  ~stopped =>
    /\ \A c \in Conns : link[c] = "open" <=> c = client
    /\ \A c \in Conns : Opening(c) => client = 0 /\ c = last /\ ~loop
    /\ loop => client = 0

\* connectOnce is numbered in the order of its calls.
Numbered == \A c \in Conns : task[c] # "none" => c <= last

CInv == ConnTyped /\ Single /\ Numbered

LEMMA Numbers ==
  /\ MaxTroubles \in Nat
  /\ \A c \in Conns : c \in Nat /\ c # 0
  /\ \A n \in Nat : n < MaxTroubles + 1 => n + 1 \in Conns
  /\ \A n \in 0..(MaxTroubles + 1) : \A c \in 0..n : c # 0 => c \in Conns
BY DashboardDaemonAssumption DEF Conns

\* Steps that leave the connector and the sockets alone.
LEMMA ConnectorIdle ==
  ASSUME CInv, UNCHANGED <<stopped, connector, link>>
  PROVE  CInv'
BY DEF CInv, ConnTyped, Single, Opening, Numbered, connector

LEMMA ConnectStep ==
  ASSUME CInv, Connect
  PROVE  CInv'
<1>1. /\ loop /\ ~stopped /\ client = 0 /\ last \in Nat /\ last < MaxTroubles + 1
      /\ last + 1 \in Conns
  BY Numbers DEF Connect, MayConnect, CInv, ConnTyped
<1>2. /\ loop' = FALSE /\ last' = last + 1 /\ task' = [task EXCEPT ![last + 1] = "refresh"]
      /\ client' = client /\ link' = link /\ stopped' = stopped
  BY DEF Connect, network
<1>3. ConnTyped'
  BY <1>1, <1>2, Numbers DEF CInv, ConnTyped, Tasks
<1>4. \A c \in Conns : ~Opening(c)
  BY <1>1 DEF CInv, Single
<1>5. \A c \in Conns : Opening(c)' => c = last + 1
  BY <1>2, <1>4 DEF Opening, CInv, ConnTyped
<1>6. Single'
  BY <1>1, <1>2, <1>5 DEF CInv, Single
<1>7. Numbered'
  BY <1>1, <1>2, Numbers DEF CInv, ConnTyped, Numbered
<1>8. QED
  BY <1>3, <1>6, <1>7 DEF CInv

LEMMA ConnectOnceFailsStep ==
  ASSUME CInv, NEW c \in Conns, Opening(c), ConnectOnceFails(c), UNCHANGED <<stopped, link>>
  PROVE  CInv'
<1>1. /\ task' = [task EXCEPT ![c] = "over"] /\ last' = last /\ client' = client
      /\ loop' = (~stopped /\ client = 0)
  BY DEF ConnectOnceFails
<1>2. ConnTyped'
  BY <1>1 DEF CInv, ConnTyped, Tasks
<1>3. ~stopped => \A d \in Conns : ~Opening(d)'
  BY <1>1 DEF CInv, Single, Opening, ConnTyped
<1>4. Single'
  BY <1>1, <1>3 DEF CInv, Single
<1>5. Numbered'
  BY <1>1 DEF CInv, ConnTyped, Numbered, Opening
<1>6. QED
  BY <1>2, <1>4, <1>5 DEF CInv

LEMMA RefreshedStep ==
  ASSUME CInv, NEW c \in Conns, Refreshed(c)
  PROVE  CInv'
<1>1. /\ Opening(c) /\ task' = [task EXCEPT ![c] = "connect"]
      /\ UNCHANGED <<stopped, loop, last, client, link>>
  BY DEF Refreshed, Opening, network
<1>2. ConnTyped'
  BY <1>1 DEF CInv, ConnTyped, Tasks
<1>3. \A d \in Conns : Opening(d)' <=> Opening(d)
  BY <1>1 DEF CInv, ConnTyped, Opening
<1>4. Single'
  BY <1>1, <1>3 DEF CInv, Single
<1>5. Numbered'
  BY <1>1 DEF CInv, ConnTyped, Numbered, Opening
<1>6. QED
  BY <1>2, <1>4, <1>5 DEF CInv

LEMMA ConnectedStep ==
  ASSUME CInv, NEW c \in Conns, Connected(c)
  PROVE  CInv'
<1>1. /\ Opening(c) /\ task' = [task EXCEPT ![c] = "fetch"]
      /\ client' = c /\ link' = [link EXCEPT ![c] = "open"]
      /\ UNCHANGED <<stopped, loop, last>>
  BY DEF Connected, Opening
<1>2. ConnTyped' /\ Numbered'
  BY <1>1, Numbers DEF CInv, ConnTyped, Numbered, Opening, Tasks, Links
<1>3. ASSUME ~stopped PROVE Single'
  <2>1. \A d \in Conns : ~Opening(d)' /\ link[d] # "open"
    BY <1>1, <1>3, Numbers DEF CInv, Single, Opening, ConnTyped
  <2>2. \A d \in Conns : link'[d] = "open" <=> d = c
    BY <1>1, <2>1 DEF CInv, ConnTyped
  <2>3. ~loop
    BY <1>1, <1>3 DEF CInv, Single
  <2>4. QED
    BY <1>1, <2>1, <2>2, <2>3 DEF Single
<1>4. QED
  BY <1>1, <1>2, <1>3 DEF CInv, Single

LEMMA FetchOverStep ==
  ASSUME CInv, NEW c \in Conns, task[c] = "fetch", task' = [task EXCEPT ![c] = "over"],
         UNCHANGED <<stopped, loop, last, client, link>>
  PROVE  CInv'
<1>1. ConnTyped'
  BY DEF CInv, ConnTyped, Tasks
<1>2. \A d \in Conns : Opening(d)' <=> Opening(d)
  BY DEF CInv, ConnTyped, Opening
<1>3. Single' /\ Numbered'
  BY <1>2 DEF CInv, Single, ConnTyped, Numbered
<1>4. QED
  BY <1>1, <1>3 DEF CInv

LEMMA LinkBreaksStep ==
  ASSUME CInv, NEW c \in Conns, LinkBreaks(c)
  PROVE  CInv'
<1>1. /\ link[c] = "open" /\ link' = [link EXCEPT ![c] = "closed"]
      /\ UNCHANGED <<stopped, last, task>> /\ OnClose(c)
  BY DEF LinkBreaks, Hangup
<1>2. CASE stopped
  <2>1. client' = client
    BY <1>1, <1>2 DEF OnClose
  <2>2. QED
    BY <1>1, <1>2, <2>1 DEF CInv, ConnTyped, Links, Single, Numbered
<1>3. CASE ~stopped
  <2>1. client = c /\ c # 0
    BY <1>1, <1>3, Numbers DEF CInv, Single
  <2>2. client' = 0
    BY <1>1, <1>3, <2>1 DEF OnClose
  <2>3. ConnTyped'
    BY <1>1, <2>2, Numbers DEF CInv, ConnTyped, Links
  <2>4. \A d \in Conns : ~Opening(d)' /\ link'[d] # "open" /\ d # 0
    BY <1>1, <1>3, <2>1, Numbers DEF CInv, Single, Opening, ConnTyped
  <2>5. Single'
    BY <2>2, <2>4 DEF Single
  <2>6. QED
    BY <1>1, <2>3, <2>5 DEF CInv, Numbered
<1>4. QED
  BY <1>2, <1>3

LEMMA ClosedStep ==
  ASSUME CInv, NEW c \in Conns, Closed(c)
  PROVE  CInv'
<1>1. /\ link[c] = "closing" /\ link' = [link EXCEPT ![c] = "closed"]
      /\ UNCHANGED <<stopped, last, task, client, loop>>
  BY DEF Closed, Hangup, connector
<1>2. ConnTyped'
  BY <1>1 DEF CInv, ConnTyped, Links
<1>3. \A d \in Conns : /\ link'[d] = "open" <=> link[d] = "open"
                       /\ Opening(d)' <=> Opening(d)
  BY <1>1 DEF CInv, ConnTyped, Opening
<1>4. Single'
  BY <1>1, <1>3 DEF CInv, Single
<1>5. Numbered'
  BY <1>1 DEF CInv, ConnTyped, Numbered, Opening
<1>6. QED
  BY <1>2, <1>4, <1>5 DEF CInv

LEMMA StopStep ==
  ASSUME CInv, Stop
  PROVE  CInv'
<1>1. /\ stopped' = TRUE /\ client' = 0 /\ UNCHANGED <<last, task>>
      /\ link' = IF client = 0 THEN link ELSE [link EXCEPT ![client] = "closing"]
  BY DEF Stop
<1>2. ConnTyped'
  BY <1>1, Numbers DEF CInv, ConnTyped, Links
<1>3. QED
  BY <1>1, <1>2 DEF CInv, Single, Numbered

-----------------------------------------------------------------------------
(* Frames on their way.                                                     *)

IsPush(f) == f.type = "attachments.changed"

Quiet(q) == \A i \in DOMAIN q : ~IsPush(q[i])

\* The last push of a queue has the list v.
LastIs(q, v) ==
  \A i \in DOMAIN q :
    IsPush(q[i]) /\ (\A j \in DOMAIN q : j > i => ~IsPush(q[j])) => q[i].list = v

LEMMA FrameFacts ==
  /\ \A r \in Runs : /\ Assign(r) \in Frames /\ ~IsPush(Assign(r))
                     /\ Cancel(r) \in Frames /\ ~IsPush(Cancel(r))
  /\ \A v \in Versions : Push(v) \in Frames /\ IsPush(Push(v)) /\ Push(v).list = v
  /\ \A f \in Frames : IsPush(f) => f.list \in Versions
<1>1. /\ \A r \in Runs : ~IsPush(Assign(r)) /\ ~IsPush(Cancel(r))
      /\ \A v \in Versions : IsPush(Push(v)) /\ Push(v).list = v
  BY DEF Assign, Cancel, Push, IsPush
<1>2. /\ \A r \in Runs : Assign(r) \in Frames /\ Cancel(r) \in Frames
      /\ \A v \in Versions : Push(v) \in Frames
      /\ \A f \in Frames : \/ \E r \in Runs : f = Assign(r) \/ f = Cancel(r)
                          \/ \E v \in Versions : f = Push(v)
  BY DEF Frames
<1>3. \A f \in Frames : IsPush(f) => f.list \in Versions
  BY <1>1, <1>2
<1>4. QED
  BY <1>1, <1>2, <1>3

LEMMA TailFacts ==
  ASSUME NEW q \in Seq(Frames), q # <<>>, NEW v, LastIs(q, v)
  PROVE  /\ Tail(q) \in Seq(Frames) /\ Head(q) \in Frames
         /\ LastIs(Tail(q), v)
         /\ ~IsPush(Head(q)) /\ Quiet(Tail(q)) => Quiet(q)
         /\ IsPush(Head(q)) /\ Quiet(Tail(q)) => Head(q).list = v
<1>1. /\ Tail(q) \in Seq(Frames) /\ Head(q) = q[1] /\ Len(q) \in Nat /\ Len(q) >= 1
      /\ DOMAIN q = 1..Len(q) /\ DOMAIN Tail(q) = 1..(Len(q) - 1)
      /\ \A i \in 1..(Len(q) - 1) : Tail(q)[i] = q[i + 1]
      /\ q[1] \in Frames
  OBVIOUS
<1>2. \A i \in DOMAIN q : i # 1 => i - 1 \in DOMAIN Tail(q) /\ q[i] = Tail(q)[i - 1]
  BY <1>1
<1>3. LastIs(Tail(q), v)
  <2> SUFFICES ASSUME NEW i \in DOMAIN Tail(q), IsPush(Tail(q)[i]),
                      \A j \in DOMAIN Tail(q) : j > i => ~IsPush(Tail(q)[j])
               PROVE  Tail(q)[i].list = v
    BY DEF LastIs
  <2>1. i \in Nat /\ i + 1 \in DOMAIN q /\ q[i + 1] = Tail(q)[i]
    BY <1>1
  <2>2. ASSUME NEW j \in DOMAIN q, j > i + 1 PROVE ~IsPush(q[j])
    <3>1. j \in Nat /\ j # 1 /\ j - 1 > i
      BY <1>1, <2>1, <2>2
    <3>2. QED
      BY <1>2, <3>1
  <2>3. QED
    BY <2>1, <2>2 DEF LastIs
<1>4. ~IsPush(Head(q)) /\ Quiet(Tail(q)) => Quiet(q)
  BY <1>1, <1>2 DEF Quiet
<1>5. ASSUME IsPush(Head(q)), Quiet(Tail(q)) PROVE Head(q).list = v
  <2>1. 1 \in DOMAIN q
    BY <1>1
  <2>2. ASSUME NEW j \in DOMAIN q, j > 1 PROVE ~IsPush(q[j])
    <3>1. j - 1 \in DOMAIN Tail(q) /\ q[j] = Tail(q)[j - 1]
      BY <1>2, <2>2
    <3>2. QED
      BY <1>5, <3>1 DEF Quiet
  <2>3. QED
    BY <1>1, <1>5, <2>1, <2>2 DEF LastIs
<1>6. QED
  BY <1>1, <1>3, <1>4, <1>5

LEMMA AppendFacts ==
  ASSUME NEW q \in Seq(Frames), NEW f \in Frames, NEW v
  PROVE  /\ Append(q, f) \in Seq(Frames)
         /\ ~IsPush(f) => /\ Quiet(Append(q, f)) => Quiet(q)
                          /\ LastIs(q, v) => LastIs(Append(q, f), v)
         /\ IsPush(f) => ~Quiet(Append(q, f)) /\ LastIs(Append(q, f), f.list)
<1> DEFINE a == Append(q, f)
<1>1. /\ a \in Seq(Frames) /\ Len(q) \in Nat
      /\ DOMAIN q = 1..Len(q) /\ DOMAIN a = 1..(Len(q) + 1)
      /\ a[Len(q) + 1] = f /\ \A i \in 1..Len(q) : a[i] = q[i]
  OBVIOUS
<1> HIDE DEF a
<1>2. \A i \in DOMAIN a : i \in DOMAIN q \/ i = Len(q) + 1
  BY <1>1
<1>3. ASSUME ~IsPush(f) PROVE /\ Quiet(a) => Quiet(q)
                              /\ LastIs(q, v) => LastIs(a, v)
  <2>1. Quiet(a) => Quiet(q)
    BY <1>1 DEF Quiet
  <2>2. ASSUME LastIs(q, v), NEW i \in DOMAIN a, IsPush(a[i]),
               \A j \in DOMAIN a : j > i => ~IsPush(a[j])
        PROVE  a[i].list = v
    <3>1. i \in DOMAIN q /\ a[i] = q[i]
      BY <1>1, <1>2, <1>3, <2>2
    <3>2. \A j \in DOMAIN q : j \in DOMAIN a /\ a[j] = q[j]
      BY <1>1
    <3>3. QED
      BY <2>2, <3>1, <3>2 DEF LastIs
  <2>3. QED
    BY <2>1, <2>2 DEF LastIs
<1>4. ASSUME IsPush(f) PROVE ~Quiet(a) /\ LastIs(a, f.list)
  <2>1. Len(q) + 1 \in DOMAIN a /\ IsPush(a[Len(q) + 1])
    BY <1>1, <1>4
  <2>2. ASSUME NEW i \in DOMAIN a, \A j \in DOMAIN a : j > i => ~IsPush(a[j])
        PROVE  a[i].list = f.list
    <3>1. ~(Len(q) + 1 > i)
      BY <2>1, <2>2
    <3>2. i = Len(q) + 1
      BY <1>1, <3>1
    <3>3. QED
      BY <1>1, <3>2
  <2>3. QED
    BY <2>1, <2>2 DEF Quiet, LastIs
<1>5. QED
  BY <1>1, <1>3, <1>4 DEF a

-----------------------------------------------------------------------------
(* The mirror.                                                              *)

MirrorTyped ==
  /\ list \in Versions /\ pushes \in Nat
  /\ mirror \in Int /\ latestPush \in Int
  /\ revAtStart \in [Conns -> Nat] /\ answer \in [Conns -> Int]
  /\ down \in [Conns -> Seq(Frames)]

\* Once no push is on its way to the connection c, its fetch will end with the list
\* of the dashboard, or has.
UpToDate(c) ==
  /\ task[c] = "fetch" =>
       IF pushes = revAtStart[c] THEN answer[c] \in {-1, list} ELSE latestPush = list
  /\ task[c] = "over" /\ current /\ ~late => mirror = list

\* The last push on the way has the list of the dashboard.
InOrder(c) ==
  /\ LastIs(down[c], list)
  /\ task[c] \in {"fetch", "over"} /\ revAtStart[c] <= pushes
  /\ Quiet(down[c]) => UpToDate(c)

MInv ==
  /\ MirrorTyped
  /\ \A c \in Conns : task[c] # "fetch" => answer[c] = -1
  /\ ~stopped => \A c \in Conns : IF c = client THEN InOrder(c) ELSE down[c] = <<>>

LEMMA MirrorIdle ==
  ASSUME MInv, UNCHANGED <<stopped, client, attachments, down, list>>,
         NEW c \in Conns, NEW t, t # "fetch", task[c] # "fetch", ~stopped => c # client,
         task' = task \/ task' = [task EXCEPT ![c] = t], task \in [Conns -> Tasks]
  PROVE  MInv'
<1>1. MirrorTyped' /\ \A d \in Conns : task'[d] # "fetch" => answer'[d] = -1
  BY DEF MInv, MirrorTyped, attachments
<1>2. ~stopped => \A d \in Conns : d = client => task'[d] = task[d]
  OBVIOUS
<1>3. \A d \in Conns : task'[d] = task[d] /\ InOrder(d) => InOrder(d)'
  BY DEF InOrder, UpToDate, attachments
<1>4. QED
  BY <1>1, <1>2, <1>3 DEF MInv

\* Steps that leave the connector alone, too.
LEMMA MirrorSame ==
  ASSUME MInv, UNCHANGED <<stopped, client, task, attachments, down, list>>
  PROVE  MInv'
<1>1. MirrorTyped' /\ \A d \in Conns : task'[d] # "fetch" => answer'[d] = -1
  BY DEF MInv, MirrorTyped, attachments
<1>2. \A d \in Conns : InOrder(d) => InOrder(d)'
  BY DEF InOrder, UpToDate, attachments
<1>3. QED
  BY <1>1, <1>2 DEF MInv

LEMMA EmptyFacts ==
  /\ <<>> \in Seq(Frames) /\ Quiet(<<>>) /\ \A v : LastIs(<<>>, v)
BY DEF Quiet, LastIs

LEMMA ConnectedMirror ==
  ASSUME CInv, MInv, NEW c \in Conns, Connected(c)
  PROVE  MInv'
<1>1. /\ task[c] = "connect" /\ task' = [task EXCEPT ![c] = "fetch"]
      /\ client' = c /\ revAtStart' = [revAtStart EXCEPT ![c] = pushes]
      /\ UNCHANGED <<stopped, mirror, latestPush, pushes, answer, current, late, down, list>>
  BY DEF Connected, dashboard
<1>2. MirrorTyped'
  BY <1>1 DEF MInv, MirrorTyped
<1>3. \A d \in Conns : task'[d] # "fetch" => answer'[d] = -1
  BY <1>1 DEF CInv, ConnTyped, MInv
<1>4. ASSUME ~stopped PROVE \A d \in Conns : IF d = c THEN InOrder(d)' ELSE down'[d] = <<>>
  <2>1. \A d \in Conns : down'[d] = <<>>
    BY <1>1, <1>4, Numbers DEF CInv, Single, Opening, MInv
  <2>2. /\ task'[c] = "fetch" /\ revAtStart'[c] = pushes' /\ answer'[c] = -1 /\ pushes' \in Nat
    BY <1>1 DEF CInv, ConnTyped, MInv, MirrorTyped
  <2>3. InOrder(c)'
    <3>1. UpToDate(c)'
      BY <2>2 DEF UpToDate
    <3>2. LastIs(down[c], list)'
      BY <2>1, EmptyFacts
    <3>3. QED
      BY <2>2, <3>1, <3>2 DEF InOrder
  <2>4. QED
    BY <2>1, <2>3
<1>5. QED
  BY <1>1, <1>2, <1>3, <1>4 DEF MInv

LEMMA AnswerFetchMirror ==
  ASSUME MInv, NEW c \in Conns, AnswerFetch(c)
  PROVE  MInv'
<1>1. /\ task[c] = "fetch" /\ answer' = [answer EXCEPT ![c] = list]
      /\ UNCHANGED <<stopped, client, task, mirror, latestPush, pushes, revAtStart, current, late,
                     down, list>>
  BY DEF AnswerFetch, connector, network, dashboard
<1>2. MirrorTyped'
  BY <1>1 DEF MInv, MirrorTyped, Versions
<1>3. \A d \in Conns : task'[d] # "fetch" => answer'[d] = -1
  BY <1>1 DEF MInv, MirrorTyped
<1>4. \A d \in Conns : InOrder(d) => InOrder(d)'
  <2>1. \A d \in Conns : answer'[d] = answer[d] \/ answer'[d] = list
    BY <1>1 DEF MInv, MirrorTyped
  <2>2. QED
    BY <1>1, <2>1 DEF InOrder, UpToDate
<1>5. QED
  BY <1>1, <1>2, <1>3, <1>4 DEF MInv

LEMMA FetchReturnsMirror ==
  ASSUME CInv, MInv, NEW c \in Conns, FetchReturns(c)
  PROVE  MInv'
<1>1. /\ task[c] = "fetch" /\ answer[c] # -1 /\ task' = [task EXCEPT ![c] = "over"]
      /\ answer' = [answer EXCEPT ![c] = -1]
      /\ mirror' = IF pushes # revAtStart[c] /\ latestPush # -1 THEN latestPush ELSE answer[c]
      /\ late' = (client # c)
      /\ UNCHANGED <<stopped, client, latestPush, pushes, revAtStart, down, list>>
  BY DEF FetchReturns, Reconciled, dashboard
<1>2. MirrorTyped'
  BY <1>1 DEF MInv, MirrorTyped
<1>3. \A d \in Conns : task'[d] # "fetch" => answer'[d] = -1
  BY <1>1 DEF CInv, ConnTyped, MInv, MirrorTyped
<1>4. ASSUME ~stopped, NEW d \in Conns, d = client PROVE InOrder(d)'
  <2>1. InOrder(d)
    BY <1>4 DEF MInv
  <2>2. CASE d = c
    <3>1. task'[d] = "over"
      BY <1>1, <2>2 DEF CInv, ConnTyped
    <3>2. ASSUME Quiet(down[d]) PROVE mirror' = list
      <4>1. IF pushes = revAtStart[d] THEN answer[d] \in {-1, list} ELSE latestPush = list
        BY <1>1, <2>1, <2>2, <3>2 DEF InOrder, UpToDate
      <4>2. list \in Nat
        BY DashboardDaemonAssumption DEF MInv, MirrorTyped, Versions
      <4>3. QED
        BY <1>1, <2>2, <4>1, <4>2
    <3>3. QED
      BY <1>1, <2>1, <3>1, <3>2 DEF InOrder, UpToDate
  <2>3. CASE d # c
    <3>1. task'[d] = task[d] /\ answer'[d] = answer[d] /\ late'
      BY <1>1, <1>4, <2>3 DEF CInv, ConnTyped, MInv, MirrorTyped
    <3>2. QED
      BY <1>1, <2>1, <3>1 DEF InOrder, UpToDate
  <2>4. QED
    BY <2>2, <2>3
<1>5. QED
  BY <1>1, <1>2, <1>3, <1>4 DEF MInv

LEMMA FetchFailsMirror ==
  ASSUME CInv, MInv, NEW c \in Conns, FetchFails(c)
  PROVE  MInv'
<1>1. /\ task[c] = "fetch" /\ task' = [task EXCEPT ![c] = "over"]
      /\ answer' = [answer EXCEPT ![c] = -1] /\ current' = FALSE
      /\ UNCHANGED <<stopped, client, mirror, latestPush, pushes, revAtStart, late, down, list>>
  BY DEF FetchFails, dashboard
<1>2. MirrorTyped'
  BY <1>1 DEF MInv, MirrorTyped
<1>3. \A d \in Conns : task'[d] # "fetch" => answer'[d] = -1
  BY <1>1 DEF CInv, ConnTyped, MInv, MirrorTyped
<1>4. \A d \in Conns : /\ task'[d] = "fetch" => task[d] = "fetch"
                       /\ task[d] \in {"fetch", "over"} => task'[d] \in {"fetch", "over"}
                       /\ answer'[d] = answer[d] \/ answer'[d] = -1
  BY <1>1 DEF CInv, ConnTyped, MInv, MirrorTyped
<1>5. \A d \in Conns : InOrder(d) => InOrder(d)'
  BY <1>1, <1>4 DEF InOrder, UpToDate
<1>6. QED
  BY <1>1, <1>2, <1>3, <1>5 DEF MInv

LEMMA ReceiveMirror ==
  ASSUME CInv, MInv, NEW c \in Conns, Receive(c)
  PROVE  MInv'
<1>1. /\ down[c] # <<>> /\ down' = [down EXCEPT ![c] = Tail(@)]
      /\ UNCHANGED <<stopped, client, task, list>>
      /\ ReceiveAssignment(c) \/ ReceiveCancel(c) \/ ReceivePush(c)
  BY DEF Receive, connector, dashboard
<1>2. /\ down[c] \in Seq(Frames) /\ Tail(down[c]) \in Seq(Frames) /\ Head(down[c]) \in Frames
  BY <1>1 DEF MInv, MirrorTyped
<1>3. \/ /\ ~IsPush(Head(down[c])) /\ UNCHANGED attachments
      \/ /\ IsPush(Head(down[c])) /\ pushes' = pushes + 1
         /\ latestPush' = Head(down[c]).list /\ mirror' = Head(down[c]).list
         /\ UNCHANGED <<revAtStart, answer>>
  BY <1>1 DEF ReceiveAssignment, ReceiveCancel, ReceivePush, IsPush
<1>4. MirrorTyped'
  <2>1. IsPush(Head(down[c])) => Head(down[c]).list \in Int
    BY <1>2, FrameFacts DEF Versions
  <2>2. QED
    BY <1>1, <1>2, <1>3, <2>1 DEF MInv, MirrorTyped, attachments
<1>5. \A d \in Conns : task'[d] # "fetch" => answer'[d] = -1
  BY <1>1, <1>3 DEF MInv, attachments
<1>6. ASSUME ~stopped PROVE \A d \in Conns : IF d = client THEN InOrder(d)' ELSE down'[d] = <<>>
  <2>1. c = client /\ InOrder(c)
    BY <1>1, <1>6 DEF MInv
  <2>2. \A d \in Conns : d # c => down'[d] = <<>>
    BY <1>1, <1>6, <2>1 DEF MInv, MirrorTyped
  <2>3. down'[c] = Tail(down[c])
    BY <1>1 DEF MInv, MirrorTyped
  <2>4. /\ LastIs(Tail(down[c]), list)
        /\ ~IsPush(Head(down[c])) /\ Quiet(Tail(down[c])) => Quiet(down[c])
        /\ IsPush(Head(down[c])) /\ Quiet(Tail(down[c])) => Head(down[c]).list = list
    <3>1. LastIs(down[c], list)
      BY <2>1 DEF InOrder
    <3>2. QED
      BY <1>1, <1>2, <3>1, TailFacts
  <2>5. CASE ~IsPush(Head(down[c]))
    <3>1. UNCHANGED attachments
      BY <1>3, <2>5
    <3>2. QED
      BY <1>1, <2>1, <2>2, <2>3, <2>4, <2>5, <3>1 DEF InOrder, UpToDate, attachments
  <2>6. CASE IsPush(Head(down[c]))
    <3>1. /\ pushes' = pushes + 1 /\ UNCHANGED <<revAtStart, answer>>
          /\ latestPush' = Head(down[c]).list /\ mirror' = Head(down[c]).list
          /\ pushes \in Nat /\ revAtStart[c] \in Nat /\ revAtStart[c] <= pushes
      BY <1>3, <2>1, <2>6 DEF InOrder, MInv, MirrorTyped
    <3>2. pushes' # revAtStart'[c] /\ revAtStart'[c] <= pushes'
      BY <3>1
    <3>3. Quiet(down'[c]) => UpToDate(c)'
      BY <2>3, <2>4, <2>6, <3>1, <3>2, <1>1 DEF UpToDate
    <3>4. InOrder(c)'
      BY <1>1, <2>1, <2>3, <2>4, <3>2, <3>3 DEF InOrder
    <3>5. QED
      BY <2>1, <2>2, <3>4
  <2>7. QED
    BY <2>5, <2>6
<1>7. QED
  BY <1>1, <1>4, <1>5, <1>6 DEF MInv

LEMMA HangupMirror ==
  ASSUME MInv, NEW c \in Conns, down' = [down EXCEPT ![c] = <<>>],
         UNCHANGED <<stopped, task, mirror, latestPush, pushes, revAtStart, answer, list>>,
         ~stopped => \/ client' = 0 /\ client = c
                     \/ UNCHANGED <<client, current, late>> /\ client # c
  PROVE  MInv'
<1>1. MirrorTyped'
  BY EmptyFacts DEF MInv, MirrorTyped
<1>2. \A d \in Conns : task'[d] # "fetch" => answer'[d] = -1
  BY DEF MInv
<1>3. ASSUME ~stopped, NEW d \in Conns
      PROVE  IF d = client' THEN InOrder(d)' ELSE down'[d] = <<>>
  <2>1. down'[d] = (IF d = c THEN <<>> ELSE down[d])
    BY DEF MInv, MirrorTyped
  <2>2. CASE client' = 0 /\ client = c
    BY <1>3, <2>1, <2>2, Numbers DEF MInv
  <2>3. CASE UNCHANGED <<client, current, late>> /\ client # c
    <3>1. d # client => down'[d] = <<>>
      BY <1>3, <2>1 DEF MInv
    <3>2. d = client => InOrder(d)'
      BY <1>3, <2>1, <2>3 DEF MInv, InOrder, UpToDate
    <3>3. QED
      BY <2>3, <3>1, <3>2
  <2>4. QED
    BY <1>3, <2>2, <2>3
<1>4. QED
  BY <1>1, <1>2, <1>3 DEF MInv

\* The dashboard sends a frame; a push when its list changes.
LEMMA SendDownMirror ==
  ASSUME CInv, MInv, NEW f \in Frames, SendDown(f),
         UNCHANGED <<stopped, client, task, attachments>>,
         list' \in Versions,
         (IsPush(f) /\ f.list = list') \/ (~IsPush(f) /\ list' = list)
  PROVE  MInv'
<1>1. down' = [c \in Conns |-> IF c \in Online THEN Append(down[c], f) ELSE down[c]]
  BY DEF SendDown
<1>2. MirrorTyped'
  <2>1. \A c \in Conns : Append(down[c], f) \in Seq(Frames) /\ down[c] \in Seq(Frames)
    BY AppendFacts DEF MInv, MirrorTyped
  <2>2. down' \in [Conns -> Seq(Frames)]
    BY <1>1, <2>1
  <2>3. QED
    BY <2>2 DEF MInv, MirrorTyped, attachments
<1>3. \A d \in Conns : task'[d] # "fetch" => answer'[d] = -1
  BY DEF MInv, attachments
<1>4. ASSUME ~stopped, NEW d \in Conns
      PROVE  IF d = client THEN InOrder(d)' ELSE down'[d] = <<>>
  <2>1. d \in Online <=> d = client
    BY <1>4, Numbers DEF Online, CInv, Single
  <2>2. CASE d # client
    BY <1>1, <1>4, <2>1, <2>2 DEF MInv
  <2>3. CASE d = client
    <3>1. down'[d] = Append(down[d], f) /\ InOrder(d) /\ down[d] \in Seq(Frames)
      BY <1>1, <1>4, <2>1, <2>3 DEF MInv, MirrorTyped
    <3>2. CASE IsPush(f) /\ f.list = list'
      <4>1. ~Quiet(down'[d]) /\ LastIs(down'[d], list')
        BY <3>1, <3>2, AppendFacts
      <4>2. QED
        BY <2>3, <3>1, <4>1 DEF InOrder, attachments
    <3>3. CASE ~IsPush(f) /\ list' = list
      <4>1. (Quiet(down'[d]) => Quiet(down[d])) /\ LastIs(down'[d], list')
        BY <3>1, <3>3, AppendFacts DEF InOrder
      <4>2. QED
        BY <2>3, <3>1, <3>3, <4>1 DEF InOrder, UpToDate, attachments
    <3>4. QED
      BY <3>2, <3>3
  <2>4. QED
    BY <2>2, <2>3
<1>5. QED
  BY <1>2, <1>3, <1>4 DEF MInv

LEMMA StopMirror ==
  ASSUME MInv, Stop
  PROVE  MInv'
BY DEF Stop, MInv, MirrorTyped, attachments, dashboard

-----------------------------------------------------------------------------
(* The invariant, one step per action.                                      *)

IInv == CInv /\ MInv

LEMMA InitInv == Init => IInv
<1> SUFFICES ASSUME Init PROVE IInv
  OBVIOUS
<1>1. CInv
  BY Numbers DEF Init, CInv, ConnTyped, Single, Numbered, Opening, Tasks, Links
<1>2. MirrorTyped
  BY DashboardDaemonAssumption, EmptyFacts DEF Init, MirrorTyped, Versions
<1>3. MInv
  BY <1>2, Numbers DEF Init, MInv
<1>4. QED
  BY <1>1, <1>3 DEF IInv

\* Steps that leave alone what the invariant speaks of.
LEMMA IdleStep ==
  ASSUME IInv, UNCHANGED <<stopped, connector, attachments, link, down, list>>
  PROVE  IInv'
<1>1. CInv'
  BY ConnectorIdle DEF IInv
<1>2. MInv'
  BY MirrorSame DEF IInv, connector
<1>3. QED
  BY <1>1, <1>2 DEF IInv

\* A connectOnce that begins, goes on or fails, without a socket.
LEMMA OpeningMirror ==
  ASSUME CInv, MInv, NEW c \in Conns, NEW t, t # "fetch", task' = [task EXCEPT ![c] = t],
         Opening(c) \/ (task[c] = "none" /\ client = 0),
         UNCHANGED <<stopped, client, attachments, down, list>>
  PROVE  MInv'
<1>1. task[c] # "fetch" /\ (~stopped => c # client) /\ task \in [Conns -> Tasks]
  BY Numbers DEF CInv, ConnTyped, Single, Opening
<1>2. QED
  BY <1>1, MirrorIdle

LEMMA OpeningStep ==
  ASSUME IInv, NEW c \in Conns, Refreshed(c) \/ RefreshFails(c) \/ ConnectFails(c)
  PROVE  IInv'
<1>1. /\ Opening(c) /\ UNCHANGED <<stopped, client, attachments, link, down, list>>
      /\ \E t \in {"connect", "over"} : task' = [task EXCEPT ![c] = t]
  BY DEF Refreshed, RefreshFails, ConnectFails, ConnectOnceFails, Opening, network, dashboard
<1>2. MInv'
  BY <1>1, OpeningMirror DEF IInv
<1>3. CInv'
  <2>1. CASE Refreshed(c)
    BY <2>1, RefreshedStep DEF IInv
  <2>2. CASE RefreshFails(c) \/ ConnectFails(c)
    <3>1. ConnectOnceFails(c)
      BY <2>2 DEF RefreshFails, ConnectFails
    <3>2. QED
      BY <1>1, <3>1, ConnectOnceFailsStep DEF IInv
  <2>3. QED
    BY <2>1, <2>2
<1>4. QED
  BY <1>2, <1>3 DEF IInv

LEMMA LinkEndsMirror ==
  ASSUME IInv, NEW c \in Conns, LinkBreaks(c) \/ Closed(c)
  PROVE  MInv'
<1>1. /\ down' = [down EXCEPT ![c] = <<>>]
      /\ UNCHANGED <<stopped, task, mirror, latestPush, pushes, revAtStart, answer, list>>
  BY DEF LinkBreaks, Closed, Hangup, connector, attachments
<1>2. ~stopped => \/ client' = 0 /\ client = c
                  \/ UNCHANGED <<client, current, late>> /\ client # c
  <2>1. CASE LinkBreaks(c)
    BY <2>1 DEF LinkBreaks, OnClose, IInv, CInv, Single
  <2>2. CASE Closed(c)
    BY <2>2 DEF Closed, IInv, CInv, Single, connector, attachments
  <2>3. QED
    BY <2>1, <2>2
<1>3. QED
  BY <1>1, <1>2, HangupMirror DEF IInv

LEMMA SendDownStep ==
  ASSUME IInv, ChangeList \/ \E r \in Runs : Dispatch(r) \/ CancelRun(r)
  PROVE  IInv'
<1>1. UNCHANGED <<stopped, connector, attachments, link>>
  BY DEF ChangeList, Dispatch, CancelRun
<1>2. CInv'
  BY <1>1, ConnectorIdle DEF IInv
<1>3. CASE ChangeList
  <2>1. list + 1 \in Versions /\ list' = list + 1 /\ SendDown(Push(list + 1))
    BY <1>3, DashboardDaemonAssumption DEF ChangeList, IInv, MInv, MirrorTyped, Versions
  <2>2. /\ Push(list + 1) \in Frames /\ IsPush(Push(list + 1))
        /\ Push(list + 1).list = list'
    BY <2>1, FrameFacts
  <2>3. MInv'
    BY <1>1, <2>1, <2>2, SendDownMirror DEF IInv, connector
  <2>4. QED
    BY <1>2, <2>3 DEF IInv
<1>4. ASSUME NEW r \in Runs, Dispatch(r) \/ CancelRun(r) PROVE IInv'
  <2>1. list' = list /\ list \in Versions
    BY <1>4 DEF Dispatch, CancelRun, IInv, MInv, MirrorTyped
  <2>2. /\ Assign(r) \in Frames /\ ~IsPush(Assign(r))
        /\ Cancel(r) \in Frames /\ ~IsPush(Cancel(r))
    BY FrameFacts
  <2>3. SendDown(Assign(r)) \/ SendDown(Cancel(r)) \/ down' = down
    BY <1>4 DEF Dispatch, CancelRun
  <2>4. MInv'
    <3>1. CASE down' = down
      BY <1>1, <2>1, <3>1, MirrorSame DEF IInv, connector
    <3>2. CASE SendDown(Assign(r))
      BY <1>1, <2>1, <2>2, <3>2, SendDownMirror DEF IInv, connector
    <3>3. CASE SendDown(Cancel(r))
      BY <1>1, <2>1, <2>2, <3>3, SendDownMirror DEF IInv, connector
    <3>4. QED
      BY <2>3, <3>1, <3>2, <3>3
  <2>5. QED
    BY <1>2, <2>4 DEF IInv
<1>5. QED
  BY <1>3, <1>4

LEMMA StepInv == IInv /\ [Next]_vars => IInv'
<1> SUFFICES ASSUME IInv, [Next]_vars PROVE IInv'
  OBVIOUS
<1>1. ASSUME Connect PROVE IInv'
  <2>1. CInv'
    BY <1>1, ConnectStep DEF IInv
  <2>2. /\ last + 1 \in Conns /\ task[last + 1] = "none" /\ client = 0
        /\ task' = [task EXCEPT ![last + 1] = "refresh"]
        /\ UNCHANGED <<stopped, client, attachments, down, list>>
    <3>1. last + 1 \in Conns /\ last \in Nat
      BY <1>1, Numbers DEF Connect, MayConnect, IInv, CInv, ConnTyped
    <3>2. task[last + 1] = "none"
      BY <3>1 DEF IInv, CInv, Numbered
    <3>3. QED
      BY <1>1, <3>1, <3>2 DEF Connect, MayConnect, network, dashboard
  <2>3. MInv'
    BY <2>2, OpeningMirror DEF IInv
  <2>4. QED
    BY <2>1, <2>3 DEF IInv
<1>2. ASSUME CoolDownEnds \/ TimerFires \/ ProactiveRefresh PROVE IInv'
  BY <1>2, IdleStep DEF CoolDownEnds, TimerFires, ProactiveRefresh, network, dashboard
<1>3. ASSUME NEW c \in Conns, Refreshed(c) \/ RefreshFails(c) \/ ConnectFails(c) PROVE IInv'
  BY <1>3, OpeningStep
<1>4. ASSUME NEW c \in Conns, Connected(c) PROVE IInv'
  BY <1>4, ConnectedStep, ConnectedMirror DEF IInv
<1>5. ASSUME NEW c \in Conns, AnswerFetch(c) PROVE IInv'
  BY <1>5, AnswerFetchMirror, ConnectorIdle DEF IInv, AnswerFetch, network
<1>6. ASSUME NEW c \in Conns, FetchReturns(c) PROVE IInv'
  BY <1>6, FetchReturnsMirror, FetchOverStep DEF IInv, FetchReturns
<1>7. ASSUME NEW c \in Conns, FetchFails(c) PROVE IInv'
  BY <1>7, FetchFailsMirror, FetchOverStep DEF IInv, FetchFails
<1>8. ASSUME NEW c \in Conns, Receive(c) PROVE IInv'
  BY <1>8, ReceiveMirror, ConnectorIdle DEF IInv, Receive
<1>9. ASSUME NEW c \in Conns, HearAnswer(c) PROVE IInv'
  BY <1>9, IdleStep DEF HearAnswer
<1>10. ASSUME NEW c \in Conns, LinkBreaks(c) PROVE IInv'
  BY <1>10, LinkBreaksStep, LinkEndsMirror DEF IInv
<1>11. ASSUME NEW c \in Conns, Closed(c) PROVE IInv'
  BY <1>11, ClosedStep, LinkEndsMirror DEF IInv
<1>12. ASSUME ChangeList \/ \E r \in Runs : Dispatch(r) \/ CancelRun(r) PROVE IInv'
  BY <1>12, SendDownStep
<1>13. ASSUME Exit \/ \E r \in Runs : RunEnds(r) PROVE IInv'
  BY <1>13, IdleStep DEF Exit, RunEnds, network, dashboard
<1>14. ASSUME Stop PROVE IInv'
  BY <1>14, StopStep, StopMirror DEF IInv
<1>15. ASSUME UNCHANGED vars PROVE IInv'
  BY <1>15, IdleStep DEF vars, network, dashboard
<1>16. QED
  BY <1>1, <1>2, <1>3, <1>4, <1>5, <1>6, <1>7, <1>8, <1>9, <1>10, <1>11, <1>12, <1>13,
     <1>14, <1>15 DEF Next, Step

LEMMA Invariance == Spec => []IInv
<1>1. QED
  BY InitInv, StepInv, PTL DEF Spec

-----------------------------------------------------------------------------
(* Assignments: what one admission does, and a buffer full of them.         *)

WithinCap(runs) == \A k \in Runners : Cardinality(ActiveOf(k, runs)) <= MaxConcurrentRuns

\* Who is told that a run was accepted is told the truth.
Honest(q, times) == \A i \in DOMAIN q : q[i].accepted => times[q[i].run] > 0

\* What admissions make of the present state.
Admitted(s) ==
  /\ s \in [active : SUBSET (Runs \ Unusable), started : [Runs -> Nat], answers : Seq(Answers)]
  /\ active \subseteq s.active /\ \A r \in Runs : s.started[r] >= started[r]
  /\ WithinCap(s.active)
  /\ Honest(s.answers, s.started)
  /\ started \in [Runs -> Nat]

LEMMA AppendHonest ==
  ASSUME NEW times \in [Runs -> Nat], NEW q \in Seq(Answers), Honest(q, times),
         NEW more \in [Runs -> Nat], \A r \in Runs : more[r] >= times[r],
         NEW a \in Answers, a.accepted => more[a.run] > 0
  PROVE  Append(q, a) \in Seq(Answers) /\ Honest(Append(q, a), more)
<1>1. /\ Append(q, a) \in Seq(Answers) /\ DOMAIN Append(q, a) = 1..(Len(q) + 1)
      /\ DOMAIN q = 1..Len(q) /\ Len(q) \in Nat
      /\ Append(q, a)[Len(q) + 1] = a /\ \A i \in 1..Len(q) : Append(q, a)[i] = q[i]
  OBVIOUS
<1>2. \A i \in DOMAIN q : q[i].run \in Runs
  <2>1. \A i \in DOMAIN q : q[i] \in Answers
    OBVIOUS
  <2>2. QED
    BY <2>1 DEF Answers
<1>3. ASSUME NEW i \in DOMAIN Append(q, a), Append(q, a)[i].accepted
      PROVE  more[Append(q, a)[i].run] > 0
  <2>1. CASE i = Len(q) + 1
    BY <1>1, <2>1, <1>3
  <2>2. CASE i \in DOMAIN q
    <3>1. Append(q, a)[i] = q[i] /\ q[i].accepted /\ q[i].run \in Runs
      BY <1>1, <1>2, <1>3, <2>2
    <3>2. times[q[i].run] > 0
      BY <2>2, <3>1 DEF Honest
    <3>3. QED
      BY <3>1, <3>2
  <2>3. QED
    BY <1>1, <2>1, <2>2
<1>4. QED
  BY <1>1, <1>3 DEF Honest

\* One more active run of a runner that is below its cap.
LEMMA CapKept ==
  ASSUME NEW runs \in SUBSET Runs, WithinCap(runs), NEW r \in Runs,
         ~(Cardinality(ActiveOf(RunnerOf[r], runs)) >= MaxConcurrentRuns)
  PROVE  WithinCap(runs \cup {r})
<1> SUFFICES ASSUME NEW k \in Runners
             PROVE  Cardinality(ActiveOf(k, runs \cup {r})) <= MaxConcurrentRuns
  BY DEF WithinCap
<1>1. IsFiniteSet(ActiveOf(k, runs)) /\ ActiveOf(k, runs) \subseteq Runs
  <2>1. ActiveOf(k, runs) \subseteq Runs
    BY DEF ActiveOf
  <2>2. QED
    BY <2>1, FS_Subset, DashboardDaemonAssumption
<1>2. Cardinality(ActiveOf(k, runs)) \in Nat /\ Cardinality(ActiveOf(k, runs)) <= MaxConcurrentRuns
  BY <1>1, FS_CardinalityType DEF WithinCap
<1>3. CASE RunnerOf[r] # k
  <2>1. ActiveOf(k, runs \cup {r}) = ActiveOf(k, runs)
    BY <1>3 DEF ActiveOf
  <2>2. QED
    BY <1>2, <2>1
<1>4. CASE RunnerOf[r] = k
  <2>1. ActiveOf(k, runs \cup {r}) = ActiveOf(k, runs) \cup {r}
    BY <1>4 DEF ActiveOf
  <2>2. \/ Cardinality(ActiveOf(k, runs) \cup {r}) = Cardinality(ActiveOf(k, runs))
        \/ Cardinality(ActiveOf(k, runs) \cup {r}) = Cardinality(ActiveOf(k, runs)) + 1
    BY <1>1, FS_AddElement
  <2>3. /\ MaxConcurrentRuns \in Nat
        /\ ~(Cardinality(ActiveOf(k, runs)) >= MaxConcurrentRuns)
    BY <1>4, DashboardDaemonAssumption
  <2> DEFINE n == Cardinality(ActiveOf(k, runs))
  <2> HIDE DEF n
  <2>4. n + 1 <= MaxConcurrentRuns
    BY <1>2, <2>3 DEF n
  <2>5. QED
    BY <1>2, <2>1, <2>2, <2>4 DEF n
<1>5. QED
  BY <1>3, <1>4

LEMMA AdmitAdmits ==
  ASSUME NEW s, Admitted(s), NEW r \in Runs
  PROVE  Admitted(Admit(s, r))
<1> DEFINE refused == \/ r \in Unusable \/ r \in s.active
                      \/ Cardinality(ActiveOf(RunnerOf[r], s.active)) >= MaxConcurrentRuns
<1>1. /\ Answer(r, TRUE) \in Answers /\ Answer(r, FALSE) \in Answers
      /\ Answer(r, TRUE).run = r /\ ~Answer(r, FALSE).accepted
  BY DEF Answer, Answers
<1>2. CASE refused
  <2>1. Admit(s, r) = [s EXCEPT !.answers = Append(@, Answer(r, FALSE))]
    BY <1>2 DEF Admit
  <2>2. /\ s.started \in [Runs -> Nat] /\ s.answers \in Seq(Answers)
        /\ Honest(s.answers, s.started)
    BY DEF Admitted
  <2>3. /\ Append(s.answers, Answer(r, FALSE)) \in Seq(Answers)
        /\ Honest(Append(s.answers, Answer(r, FALSE)), s.started)
    <3>1. \A q \in Runs : s.started[q] >= s.started[q]
      BY <2>2
    <3>2. QED
      BY <1>1, <2>2, <3>1, AppendHonest
  <2>4. QED
    BY <2>1, <2>3 DEF Admitted
<1>3. CASE ~refused
  <2> DEFINE more == [s.started EXCEPT ![r] = @ + 1]
             said == Append(s.answers, Answer(r, TRUE))
  <2>1. Admit(s, r) = [active |-> s.active \cup {r}, started |-> more, answers |-> said]
    BY <1>3 DEF Admit
  <2>2. /\ s.active \in SUBSET Runs /\ s.started \in [Runs -> Nat] /\ s.answers \in Seq(Answers)
        /\ WithinCap(s.active) /\ Honest(s.answers, s.started)
        /\ started \in [Runs -> Nat]
    BY DEF Admitted
  <2>3. /\ more \in [Runs -> Nat] /\ more[r] > 0
        /\ \A q \in Runs : more[q] >= s.started[q]
        /\ \A q \in Runs : s.started[q] >= started[q] => more[q] >= started[q]
    BY <2>2
  <2>4. WithinCap(s.active \cup {r})
    BY <1>3, <2>2, CapKept
  <2>5. said \in Seq(Answers) /\ Honest(said, more)
    <3> HIDE DEF more
    <3>1. QED
      BY <1>1, <2>2, <2>3, AppendHonest
  <2> HIDE DEF more, said
  <2>6. QED
    BY <1>3, <2>1, <2>2, <2>3, <2>4, <2>5 DEF Admitted
<1>4. QED
  BY <1>2, <1>3

\* Induction up to a number, for a set in place of a predicate.
LEMMA UpTo ==
  ASSUME NEW N \in Nat, NEW S, 0 \in S, \A n \in 0..N : n \in S /\ n < N => n + 1 \in S
  PROVE  0..N \subseteq S
<1> DEFINE R == OpToRel(<, Nat)
           T == (0..N) \ S
<1>1. IsWellFoundedOn(R, Nat)
  BY NatLessThanWellFounded
<1>2. \A a, b \in Nat : a < b => <<a, b>> \in R
  BY DEF OpToRel
<1> SUFFICES ASSUME T # {} PROVE FALSE
  OBVIOUS
<1>3. T \subseteq Nat /\ T # {}
  OBVIOUS
<1>4. \E n \in T : \A m \in T : ~(<<m, n>> \in R)
  <2> HIDE DEF R, T
  <2>1. QED
    BY ONLY <1>1, <1>3, WFMin
<1>5. PICK n \in T : \A m \in T : ~(<<m, n>> \in R)
  BY <1>4
<1>6. n \in 0..N /\ n # 0 /\ n \notin S
  OBVIOUS
<1>7. n - 1 \in T
  <2>1. n - 1 \in 0..N /\ n - 1 < N /\ (n - 1) + 1 = n
    BY <1>6
  <2>2. QED
    BY <1>6, <2>1
<1>8. <<n - 1, n>> \in R
  <2>1. n - 1 \in Nat /\ n \in Nat /\ n - 1 < n
    BY <1>6
  <2> HIDE DEF R
  <2>2. QED
    BY <1>2, <2>1
<1>9. QED
  BY <1>5, <1>7, <1>8

\* The recursive function of AdmitAll is there: it has a value for every prefix.
LEMMA AdmitAllSteps ==
  ASSUME NEW runs \in Seq(Runs)
  PROVE  \E after : /\ after[0] = Here
                    /\ \A i \in 1..Len(runs) : after[i] = Admit(after[i - 1], runs[i])
                    /\ AdmitAll(runs) = after[Len(runs)]
<1> DEFINE F(f, n) == [i \in 0..n |-> IF i = 0 THEN Here ELSE Admit(f[i - 1], runs[i])]
           S == {n \in 0..Len(runs) : \E f : f = F(f, n)}
<1>1. Len(runs) \in Nat
  OBVIOUS
<1>2. 0 \in S
  <2>1. [i \in 0..0 |-> Here] = F([i \in 0..0 |-> Here], 0)
    OBVIOUS
  <2>2. 0 \in 0..Len(runs)
    BY <1>1
  <2>3. QED
    BY <2>1, <2>2
<1>3. ASSUME NEW n \in 0..Len(runs), n \in S, n < Len(runs) PROVE n + 1 \in S
  <2>1. PICK f : f = F(f, n)
    BY <1>3
  <2> DEFINE g == [i \in 0..(n + 1) |-> IF i = n + 1 THEN Admit(f[n], runs[n + 1]) ELSE f[i]]
  <2>2. ASSUME NEW i \in 0..(n + 1)
        PROVE  g[i] = IF i = 0 THEN Here ELSE Admit(g[i - 1], runs[i])
    <3>1. CASE i = n + 1
      BY <3>1
    <3>2. CASE i = 0
      BY <2>1, <3>2
    <3>3. CASE i \in 1..n
      BY <2>1, <3>3
    <3>4. QED
      BY <3>1, <3>2, <3>3
  <2>3. g = F(g, n + 1)
    BY <2>2
  <2> HIDE DEF g
  <2>4. n + 1 \in 0..Len(runs)
    BY <1>3
  <2>5. QED
    BY <2>3, <2>4
<1>4. Len(runs) \in S
  <2> HIDE DEF S
  <2>1. 0..Len(runs) \subseteq S
    BY <1>1, <1>2, <1>3, UpTo
  <2>2. QED
    BY <1>1, <2>1
<1> DEFINE after == CHOOSE f : f = F(f, Len(runs))
<1>5. after = F(after, Len(runs))
  BY <1>4
<1>6. AdmitAll(runs) = after[Len(runs)]
  BY DEF AdmitAll
<1> HIDE DEF after
<1>7. QED
  BY <1>1, <1>5, <1>6

LEMMA AdmitAllAdmits ==
  ASSUME NEW runs \in Seq(Runs), Admitted(Here)
  PROVE  Admitted(AdmitAll(runs))
<1>1. PICK after : /\ after[0] = Here
                   /\ \A i \in 1..Len(runs) : after[i] = Admit(after[i - 1], runs[i])
                   /\ AdmitAll(runs) = after[Len(runs)]
  BY AdmitAllSteps
<1> DEFINE S == {n \in 0..Len(runs) : Admitted(after[n])}
<1>2. Len(runs) \in Nat /\ \A i \in 1..Len(runs) : runs[i] \in Runs
  OBVIOUS
<1>3. 0 \in S
  BY <1>1, <1>2
<1>4. ASSUME NEW n \in 0..Len(runs), n \in S, n < Len(runs) PROVE n + 1 \in S
  <2>1. n + 1 \in 1..Len(runs) /\ n + 1 - 1 = n
    BY <1>2, <1>4
  <2>2. after[n + 1] = Admit(after[n], runs[n + 1])
    BY <1>1, <2>1
  <2>3. Admitted(after[n + 1])
    BY <1>2, <1>4, <2>1, <2>2, AdmitAdmits
  <2>4. QED
    BY <2>1, <2>3
<1>5. Len(runs) \in S
  <2> HIDE DEF S
  <2>1. 0..Len(runs) \subseteq S
    BY <1>2, <1>3, <1>4, UpTo
  <2>2. QED
    BY <1>2, <2>1
<1>6. QED
  BY <1>1, <1>5

-----------------------------------------------------------------------------
(* Assignments: every step.                                                 *)

DashStates == {"queued", "sent", "accepted", "rejected", "cancelled"}

AssignmentsTyped ==
  /\ pending \in Seq(Runs)
  /\ active \in SUBSET (Runs \ Unusable) /\ aborted \subseteq active /\ awaited \subseteq active
  /\ started \in [Runs -> Nat]
  /\ up \in [Conns -> Seq(Answers)]
  /\ dash \in [Runs -> DashStates]

\* What the dashboard has been told and what it is about to be told of accepted runs is true.
AInv ==
  /\ AssignmentsTyped
  /\ WithinCap(active)
  /\ \A c \in Conns : Honest(up[c], started)
  /\ AcceptedIsStarted

\* An honest queue stays honest as runs are started, and two of them together are.
LEMMA HonestStays ==
  ASSUME NEW q \in Seq(Answers), NEW times \in [Runs -> Nat], Honest(q, times),
         NEW more \in [Runs -> Nat], \A r \in Runs : more[r] >= times[r]
  PROVE  Honest(q, more)
<1>1. \A i \in DOMAIN q : q[i] \in Answers
  OBVIOUS
<1>2. \A i \in DOMAIN q : q[i].run \in Runs
  BY <1>1 DEF Answers
<1>3. QED
  BY <1>2 DEF Honest

LEMMA HonestTogether ==
  ASSUME NEW q \in Seq(Answers), NEW w \in Seq(Answers), NEW times \in [Runs -> Nat],
         Honest(q, times), Honest(w, times)
  PROVE  q \o w \in Seq(Answers) /\ Honest(q \o w, times)
<1>1. /\ q \o w \in Seq(Answers) /\ Len(q) \in Nat /\ Len(w) \in Nat
      /\ DOMAIN (q \o w) = 1..(Len(q) + Len(w)) /\ DOMAIN q = 1..Len(q) /\ DOMAIN w = 1..Len(w)
      /\ \A i \in 1..(Len(q) + Len(w)) :
           (q \o w)[i] = IF i <= Len(q) THEN q[i] ELSE w[i - Len(q)]
  OBVIOUS
<1>2. ASSUME NEW i \in DOMAIN (q \o w)
      PROVE  \/ i \in DOMAIN q /\ (q \o w)[i] = q[i]
             \/ i - Len(q) \in DOMAIN w /\ (q \o w)[i] = w[i - Len(q)]
  BY <1>1
<1> DEFINE both == q \o w
<1> HIDE DEF both
<1>3. QED
  BY <1>1, <1>2 DEF Honest, both

LEMMA FewerWithinCap ==
  ASSUME NEW runs \in SUBSET Runs, WithinCap(runs), NEW rest \in SUBSET runs
  PROVE  WithinCap(rest)
<1> SUFFICES ASSUME NEW k \in Runners
             PROVE  Cardinality(ActiveOf(k, rest)) <= MaxConcurrentRuns
  BY DEF WithinCap
<1>1. ActiveOf(k, rest) \subseteq ActiveOf(k, runs) /\ ActiveOf(k, runs) \subseteq Runs
  BY DEF ActiveOf
<1>2. IsFiniteSet(ActiveOf(k, runs))
  BY <1>1, FS_Subset, DashboardDaemonAssumption
<1>3. /\ Cardinality(ActiveOf(k, rest)) <= Cardinality(ActiveOf(k, runs))
      /\ Cardinality(ActiveOf(k, rest)) \in Nat /\ Cardinality(ActiveOf(k, runs)) \in Nat
  BY <1>1, <1>2, FS_Subset, FS_CardinalityType
<1>4. Cardinality(ActiveOf(k, runs)) <= MaxConcurrentRuns /\ MaxConcurrentRuns \in Nat
  BY DashboardDaemonAssumption DEF WithinCap
<1>5. QED
  BY <1>3, <1>4

LEMMA AssignmentsIdle ==
  ASSUME AInv, UNCHANGED <<pending, execution, up, dash>>
  PROVE  AInv'
BY DEF AInv, AssignmentsTyped, WithinCap, AcceptedIsStarted, execution

LEMMA HandleStep ==
  ASSUME AInv, NEW c \in Conns \cup {0}, NEW runs \in Seq(Runs), Handle(c, runs),
         pending' \in Seq(Runs), dash' = dash
  PROVE  AInv'
<1> DEFINE s == AdmitAll(runs)
<1>1. Admitted(Here)
  BY DEF Admitted, Here, AInv, AssignmentsTyped, Honest
<1>2. Admitted(s)
  BY <1>1, AdmitAllAdmits
<1>3. /\ active' = s.active /\ started' = s.started /\ aborted' = aborted /\ awaited' = awaited
      /\ up' = IF c = 0 THEN up ELSE [up EXCEPT ![c] = @ \o s.answers]
  BY DEF Handle, Send
<1> HIDE DEF s
<1>4. /\ active' \in SUBSET (Runs \ Unusable) /\ active \subseteq active'
      /\ started \in [Runs -> Nat] /\ started' \in [Runs -> Nat]
      /\ \A r \in Runs : started'[r] >= started[r]
      /\ s.answers \in Seq(Answers) /\ Honest(s.answers, started') /\ WithinCap(active)'
  BY <1>2, <1>3 DEF Admitted, WithinCap
<1>5. ASSUME NEW d \in Conns PROVE up'[d] \in Seq(Answers) /\ Honest(up'[d], started')
  <2>1. up[d] \in Seq(Answers) /\ Honest(up[d], started')
    BY <1>4, HonestStays DEF AInv, AssignmentsTyped
  <2>2. up[d] \o s.answers \in Seq(Answers) /\ Honest(up[d] \o s.answers, started')
    BY <1>4, <2>1, HonestTogether
  <2>3. up'[d] = up[d] \/ up'[d] = up[d] \o s.answers
    BY <1>3 DEF AInv, AssignmentsTyped
  <2>4. QED
    BY <2>1, <2>2, <2>3
<1>6. up' \in [Conns -> Seq(Answers)]
  <2>1. up' = [d \in Conns |-> up'[d]]
    BY <1>3 DEF AInv, AssignmentsTyped
  <2>2. QED
    BY <1>5, <2>1
<1>7. AssignmentsTyped'
  BY <1>3, <1>4, <1>6 DEF AInv, AssignmentsTyped
<1>8. AcceptedIsStarted'
  BY <1>4 DEF AInv, AcceptedIsStarted
<1>9. QED
  BY <1>4, <1>5, <1>7, <1>8 DEF AInv

LEMMA ClientIsConn ==
  ASSUME CInv
  PROVE  client \in Conns \cup {0}
<1>1. last \in 0..(MaxTroubles + 1) /\ client \in 0..last
  BY DEF CInv, ConnTyped
<1>2. QED
  BY <1>1, Numbers

LEMMA BecomeReadyStep ==
  ASSUME CInv, AInv, NEW c \in Conns, BecomeReady(c), dash' = dash
  PROVE  AInv'
<1>1. CASE StillConnected(c)
  <2>1. client \in Conns \cup {0} /\ pending \in Seq(Runs) /\ <<>> \in Seq(Runs)
    BY ClientIsConn DEF AInv, AssignmentsTyped
  <2>2. Handle(client, pending) /\ pending' = <<>>
    BY <1>1 DEF BecomeReady
  <2>3. QED
    BY <2>1, <2>2, HandleStep
<1>2. CASE ~StillConnected(c)
  BY <1>2, AssignmentsIdle DEF BecomeReady, assignments
<1>3. QED
  BY <1>1, <1>2

LEMMA FrameRuns ==
  \A f \in Frames : f.type \in {"job_assignment", "cancel"} => f.run \in Runs
<1>1. \A r \in Runs : Assign(r).run = r /\ Cancel(r).run = r
  BY DEF Assign, Cancel
<1>2. \A v \in Versions : Push(v).type \notin {"job_assignment", "cancel"}
  BY DEF Push
<1>3. QED
  BY <1>1, <1>2 DEF Frames

LEMMA ReceiveAssignments ==
  ASSUME CInv, MInv, AInv, NEW c \in Conns, Receive(c)
  PROVE  AInv'
<1>1. /\ down[c] # <<>> /\ dash' = dash
      /\ ReceiveAssignment(c) \/ ReceiveCancel(c) \/ ReceivePush(c)
  BY DEF Receive, dashboard
<1>2. Head(down[c]) \in Frames
  BY <1>1 DEF MInv, MirrorTyped
<1>3. CASE ReceiveAssignment(c)
  <2> DEFINE r == Head(down[c]).run
  <2>1. r \in Runs
    BY <1>2, <1>3, FrameRuns DEF ReceiveAssignment
  <2>2. \/ Handle(client, <<r>>) /\ pending' = pending
        \/ pending' = Append(pending, r) /\ UNCHANGED <<execution, up>>
    BY <1>3 DEF ReceiveAssignment
  <2> HIDE DEF r
  <2>3. /\ client \in Conns \cup {0} /\ <<r>> \in Seq(Runs)
        /\ pending \in Seq(Runs) /\ Append(pending, r) \in Seq(Runs)
    BY <2>1, ClientIsConn DEF AInv, AssignmentsTyped
  <2>4. CASE Handle(client, <<r>>) /\ pending' = pending
    BY <1>1, <2>3, <2>4, HandleStep
  <2>5. CASE pending' = Append(pending, r) /\ UNCHANGED <<execution, up>>
    BY <1>1, <2>3, <2>5 DEF AInv, AssignmentsTyped, WithinCap, AcceptedIsStarted, execution
  <2>6. QED
    BY <2>2, <2>4, <2>5
<1>4. CASE ReceiveCancel(c)
  <2>1. /\ UNCHANGED <<pending, active, awaited, started, up>>
        /\ aborted' \subseteq aborted \cup active
    BY <1>4 DEF ReceiveCancel, assignments
  <2>2. QED
    BY <1>1, <2>1 DEF AInv, AssignmentsTyped, WithinCap, AcceptedIsStarted
<1>5. CASE ReceivePush(c)
  BY <1>1, <1>5, AssignmentsIdle DEF ReceivePush, assignments
<1>6. QED
  BY <1>1, <1>3, <1>4, <1>5

LEMMA RunEndsAssignments ==
  ASSUME AInv, NEW r \in Runs, RunEnds(r)
  PROVE  AInv'
<1>1. /\ active' = active \ {r} /\ aborted' = aborted \ {r} /\ awaited' = awaited \ {r}
      /\ UNCHANGED <<pending, started, up, dash>>
  BY DEF RunEnds, assignments, network, dashboard
<1>2. WithinCap(active')
  BY <1>1, FewerWithinCap DEF AInv, AssignmentsTyped
<1>3. QED
  BY <1>1, <1>2 DEF AInv, AssignmentsTyped, WithinCap, AcceptedIsStarted

LEMMA HangupAssignments ==
  ASSUME AInv, NEW c \in Conns, Hangup(c), UNCHANGED <<pending, execution>>
  PROVE  AInv'
<1>1. /\ up' = [up EXCEPT ![c] = <<>>]
      /\ dash' = [r \in Runs |-> IF dash[r] = "sent" THEN "queued" ELSE dash[r]]
      /\ UNCHANGED <<active, aborted, awaited, started, pending>>
  BY DEF Hangup, execution
<1>2. <<>> \in Seq(Answers) /\ Honest(<<>>, started)
  BY DEF Honest
<1>3. AssignmentsTyped'
  BY <1>1, <1>2 DEF AInv, AssignmentsTyped, DashStates
<1>4. \A d \in Conns : Honest(up[d], started)'
  BY <1>1, <1>2 DEF AInv, AssignmentsTyped
<1>5. AcceptedIsStarted'
  BY <1>1 DEF AInv, AcceptedIsStarted
<1>6. QED
  BY <1>1, <1>3, <1>4, <1>5 DEF AInv, WithinCap

LEMMA StopAssignments ==
  ASSUME AInv, Stop
  PROVE  AInv'
<1>1. /\ aborted' = active /\ awaited' = active
      /\ UNCHANGED <<active, started, pending, up, dash>>
  BY DEF Stop, AbortAll, assignments, dashboard
<1>2. QED
  BY <1>1 DEF AInv, AssignmentsTyped, WithinCap, AcceptedIsStarted

LEMMA DashboardAssignments ==
  ASSUME AInv, ChangeList \/ \E r \in Runs : Dispatch(r) \/ CancelRun(r)
  PROVE  AInv'
<1>1. UNCHANGED <<pending, active, aborted, awaited, started, up>>
  BY DEF ChangeList, Dispatch, CancelRun, assignments, execution
<1>2. \/ dash' = dash
      \/ \E r \in Runs, d \in {"sent", "cancelled"} : dash' = [dash EXCEPT ![r] = d]
  BY DEF ChangeList, Dispatch, CancelRun
<1>3. /\ dash' \in [Runs -> DashStates]
      /\ \A r \in Runs : dash'[r] = "accepted" => dash[r] = "accepted"
  BY <1>2 DEF AInv, AssignmentsTyped, DashStates
<1>4. QED
  BY <1>1, <1>3 DEF AInv, AssignmentsTyped, WithinCap, AcceptedIsStarted

LEMMA HearAnswerAssignments ==
  ASSUME AInv, NEW c \in Conns, HearAnswer(c)
  PROVE  AInv'
<1> DEFINE a == Head(up[c])
<1>1. /\ up[c] # <<>> /\ up' = [up EXCEPT ![c] = Tail(@)]
      /\ dash' = IF dash[a.run] = "sent"
                 THEN [dash EXCEPT ![a.run] = IF a.accepted THEN "accepted" ELSE "rejected"]
                 ELSE dash
      /\ UNCHANGED <<pending, active, aborted, awaited, started>>
  BY DEF HearAnswer, assignments, execution
<1>2. /\ up[c] \in Seq(Answers) /\ Honest(up[c], started) /\ up \in [Conns -> Seq(Answers)]
  BY DEF AInv, AssignmentsTyped
<1>3. /\ a \in Answers /\ a = up[c][1] /\ 1 \in DOMAIN up[c]
      /\ Tail(up[c]) \in Seq(Answers)
      /\ \A i \in DOMAIN Tail(up[c]) : i + 1 \in DOMAIN up[c] /\ Tail(up[c])[i] = up[c][i + 1]
  BY <1>1, <1>2
<1> HIDE DEF a
<1>4. a.run \in Runs /\ (a.accepted => started[a.run] > 0)
  BY <1>2, <1>3 DEF Answers, Honest
<1>5. Honest(Tail(up[c]), started)
  BY <1>2, <1>3 DEF Honest
<1>6. \A d \in Conns : Honest(up[d], started)'
  BY <1>1, <1>2, <1>5 DEF AInv
<1>7. dash' \in [Runs -> DashStates]
  BY <1>1, <1>4 DEF AInv, AssignmentsTyped, DashStates
<1>8. AcceptedIsStarted'
  <2> SUFFICES ASSUME NEW r \in Runs, dash'[r] = "accepted" PROVE started[r] > 0
    BY <1>1 DEF AcceptedIsStarted
  <2>1. dash[r] = "accepted" \/ (r = a.run /\ a.accepted)
    BY <1>1, <1>4 DEF AInv, AssignmentsTyped
  <2>2. QED
    BY <1>4, <2>1 DEF AInv, AcceptedIsStarted
<1>9. QED
  BY <1>1, <1>2, <1>3, <1>6, <1>7, <1>8 DEF AInv, AssignmentsTyped, WithinCap

LEMMA InitAssignments == Init => AInv
<1> SUFFICES ASSUME Init PROVE AInv
  OBVIOUS
<1>1. AssignmentsTyped
  BY DEF Init, AssignmentsTyped, DashStates
<1>2. \A k \in Runners : ActiveOf(k, {}) = {}
  BY DEF ActiveOf
<1>3. WithinCap(active)
  <2>1. Cardinality({}) = 0
    BY FS_EmptySet
  <2>2. MaxConcurrentRuns >= 0 /\ active = {}
    BY DashboardDaemonAssumption DEF Init
  <2>3. QED
    BY <1>2, <2>1, <2>2 DEF WithinCap
<1>4. QED
  BY <1>1, <1>3 DEF Init, AInv, Honest, AcceptedIsStarted

LEMMA AssignmentsStep == IInv /\ AInv /\ [Next]_vars => AInv'
<1> SUFFICES ASSUME IInv, AInv, [Next]_vars PROVE AInv'
  OBVIOUS
<1>1. ASSUME \/ Connect \/ CoolDownEnds \/ TimerFires \/ ProactiveRefresh \/ Exit
             \/ \E c \in Conns : \/ Refreshed(c) \/ RefreshFails(c) \/ Connected(c)
                                 \/ ConnectFails(c) \/ AnswerFetch(c)
             \/ UNCHANGED vars
      PROVE  AInv'
  BY <1>1, AssignmentsIdle
     DEF Connect, CoolDownEnds, TimerFires, ProactiveRefresh, Exit, Refreshed, RefreshFails,
         Connected, ConnectFails, AnswerFetch, vars, assignments, network, dashboard
<1>2. ASSUME NEW c \in Conns, FetchReturns(c) \/ FetchFails(c) PROVE AInv'
  BY <1>2, BecomeReadyStep DEF FetchReturns, FetchFails, IInv, dashboard
<1>3. ASSUME NEW c \in Conns, Receive(c) PROVE AInv'
  BY <1>3, ReceiveAssignments DEF IInv
<1>4. ASSUME NEW c \in Conns, HearAnswer(c) PROVE AInv'
  BY <1>4, HearAnswerAssignments
<1>5. ASSUME NEW c \in Conns, LinkBreaks(c) \/ Closed(c) PROVE AInv'
  BY <1>5, HangupAssignments DEF LinkBreaks, Closed, assignments
<1>6. ASSUME NEW r \in Runs, RunEnds(r) PROVE AInv'
  BY <1>6, RunEndsAssignments
<1>7. ASSUME ChangeList \/ \E r \in Runs : Dispatch(r) \/ CancelRun(r) PROVE AInv'
  BY <1>7, DashboardAssignments
<1>8. ASSUME Stop PROVE AInv'
  BY <1>8, StopAssignments
<1>9. QED
  BY <1>1, <1>2, <1>3, <1>4, <1>5, <1>6, <1>7, <1>8 DEF Next, Step

-----------------------------------------------------------------------------
(* The types of what is left.                                               *)

Known == Versions \cup {-1}

Rest ==
  /\ stopped \in BOOLEAN /\ exited \in BOOLEAN /\ loop \in BOOLEAN
  /\ failures \in 0..RefreshFailureLimit /\ cooling \in BOOLEAN
  /\ timer \in BOOLEAN /\ proactive \in BOOLEAN
  /\ mirror \in Known /\ latestPush \in Known
  /\ answer \in [Conns -> Known]
  /\ current \in BOOLEAN /\ late \in BOOLEAN /\ ready \in BOOLEAN
  /\ troubles \in 0..MaxTroubles

LEMMA TroubleFacts ==
  ASSUME Rest
  PROVE  /\ Trouble => troubles' \in 0..MaxTroubles
         /\ NoteRefreshFailure =>
              failures' \in 0..RefreshFailureLimit /\ cooling' \in BOOLEAN
         /\ 0 \in 0..RefreshFailureLimit
<1>1. MaxTroubles \in Nat /\ RefreshFailureLimit \in Nat \ {0}
  BY DashboardDaemonAssumption
<1>2. Trouble => troubles' \in 0..MaxTroubles
  BY <1>1 DEF Rest, Trouble
<1>3. ASSUME NoteRefreshFailure
      PROVE  failures' \in 0..RefreshFailureLimit /\ cooling' \in BOOLEAN
  <2>1. PICK n \in 1..(failures + 1) :
          /\ failures' = IF n >= RefreshFailureLimit THEN 0 ELSE n
          /\ cooling' = (cooling \/ n >= RefreshFailureLimit)
    BY <1>3 DEF NoteRefreshFailure
  <2>2. failures' \in 0..RefreshFailureLimit
    BY <1>1, <2>1 DEF Rest
  <2>3. cooling' \in BOOLEAN
    BY <2>1
  <2>4. QED
    BY <2>2, <2>3
<1>4. QED
  BY <1>1, <1>2, <1>3

LEMMA RestInit == Init => Rest
<1>1. /\ 0 \in 0..RefreshFailureLimit /\ 0 \in 0..MaxTroubles
  BY DashboardDaemonAssumption
<1>2. -1 \in Known
  BY DEF Known
<1> SUFFICES ASSUME Init PROVE Rest
  OBVIOUS
<1>3. mirror \in Known /\ latestPush \in Known /\ answer \in [Conns -> Known]
  BY <1>2 DEF Init
<1>4. failures \in 0..RefreshFailureLimit /\ troubles \in 0..MaxTroubles
  BY <1>1 DEF Init
<1>5. QED
  BY <1>3, <1>4 DEF Init, Rest

LEMMA RestStep == IInv /\ Rest /\ [Next]_vars => Rest'
<1> SUFFICES ASSUME IInv, Rest, [Next]_vars PROVE Rest'
  OBVIOUS
<1>1. ASSUME Connect PROVE Rest'
  BY <1>1 DEF Connect, Rest, refresh, attachments, assignments
<1>2. ASSUME CoolDownEnds \/ TimerFires PROVE Rest'
  BY <1>2 DEF CoolDownEnds, TimerFires, Rest, connector, attachments, assignments
<1>3. ASSUME ProactiveRefresh PROVE Rest'
  <2>1. /\ failures' \in 0..RefreshFailureLimit /\ cooling' \in BOOLEAN
        /\ troubles' \in 0..MaxTroubles
    BY <1>3, TroubleFacts DEF ProactiveRefresh, Rest
  <2>2. timer' \in BOOLEAN /\ proactive' \in BOOLEAN
        /\ UNCHANGED <<stopped, exited, connector, attachments, assignments>>
    BY <1>3 DEF ProactiveRefresh, Rest
  <2>3. QED
    BY <2>1, <2>2 DEF Rest, connector, attachments, assignments
<1>4. ASSUME NEW c \in Conns, Refreshed(c) PROVE Rest'
  BY <1>4, TroubleFacts DEF Refreshed, Rest, attachments, assignments
<1>5. ASSUME NEW c \in Conns, RefreshFails(c) \/ ConnectFails(c) PROVE Rest'
  <2>1. /\ failures' \in 0..RefreshFailureLimit /\ cooling' \in BOOLEAN
        /\ troubles' \in 0..MaxTroubles
    BY <1>5, TroubleFacts DEF RefreshFails, ConnectFails, ConnectOnceFails, Rest, refresh
  <2>2. /\ loop' \in BOOLEAN
        /\ UNCHANGED <<stopped, exited, timer, proactive, attachments, assignments>>
    BY <1>5 DEF RefreshFails, ConnectFails, ConnectOnceFails, refresh
  <2>3. QED
    BY <2>1, <2>2 DEF Rest, attachments, assignments
<1>6. ASSUME NEW c \in Conns, Connected(c) PROVE Rest'
  BY <1>6 DEF Connected, Rest, refresh, assignments
<1>7. ASSUME NEW c \in Conns, AnswerFetch(c) PROVE Rest'
  <2>1. answer' = [answer EXCEPT ![c] = list] /\ list \in Known
    BY <1>7 DEF AnswerFetch, IInv, MInv, MirrorTyped, Known
  <2>2. QED
    BY <1>7, <2>1 DEF AnswerFetch, Rest, connector, refresh, assignments
<1>8. ASSUME NEW c \in Conns, FetchReturns(c) \/ FetchFails(c) PROVE Rest'
  <2>1. ready' \in BOOLEAN /\ timer' \in BOOLEAN
    BY <1>8 DEF FetchReturns, FetchFails, BecomeReady, Rest, assignments
  <2>2. answer' \in [Conns -> Known] /\ mirror' \in Known
    BY <1>8 DEF FetchReturns, FetchFails, Reconciled, Rest, Known
  <2>3. current' \in BOOLEAN /\ late' \in BOOLEAN /\ troubles' \in 0..MaxTroubles
    <3>1. CASE FetchReturns(c)
      <4>1. current' = TRUE /\ late' = (client # c) /\ troubles' = troubles
        BY <3>1 DEF FetchReturns
      <4>2. QED
        BY <4>1 DEF Rest
    <3>2. CASE FetchFails(c)
      BY <3>2, TroubleFacts DEF FetchFails, Rest
    <3>3. QED
      BY <1>8, <3>1, <3>2
  <2>4. QED
    BY <1>8, <2>1, <2>2, <2>3 DEF FetchReturns, FetchFails, Rest
<1>9. ASSUME NEW c \in Conns, Receive(c) PROVE Rest'
  <2>1. /\ UNCHANGED <<stopped, exited, connector, refresh, troubles>>
        /\ ReceiveAssignment(c) \/ ReceiveCancel(c) \/ ReceivePush(c)
    BY <1>9 DEF Receive
  <2>2. CASE ReceiveAssignment(c) \/ ReceiveCancel(c)
    BY <2>1, <2>2 DEF ReceiveAssignment, ReceiveCancel, Rest, connector, refresh, attachments,
                      assignments
  <2>3. CASE ReceivePush(c)
    <3>1. Head(down[c]) \in Frames /\ IsPush(Head(down[c]))
      BY <1>9, <2>3 DEF Receive, ReceivePush, IsPush, IInv, MInv, MirrorTyped
    <3>2. Head(down[c]).list \in Known
      BY <3>1, FrameFacts DEF Known
    <3>3. QED
      BY <2>1, <2>3, <3>2 DEF ReceivePush, Rest, connector, refresh, assignments
  <2>4. QED
    BY <2>1, <2>2, <2>3
<1>10. ASSUME NEW c \in Conns, HearAnswer(c) PROVE Rest'
  BY <1>10 DEF HearAnswer, Rest, connector, refresh, attachments, assignments
<1>11. ASSUME NEW c \in Conns, LinkBreaks(c) PROVE Rest'
  <2>1. troubles' \in 0..MaxTroubles
    BY <1>11, TroubleFacts DEF LinkBreaks
  <2>2. /\ loop' \in BOOLEAN /\ ready' \in BOOLEAN /\ timer' \in BOOLEAN /\ current' \in BOOLEAN
    BY <1>11 DEF LinkBreaks, OnClose, Rest
  <2>3. QED
    BY <1>11, <2>1, <2>2 DEF LinkBreaks, Rest
<1>12. ASSUME NEW c \in Conns, Closed(c) PROVE Rest'
  BY <1>12 DEF Closed, Rest, connector, refresh, attachments, assignments
<1>13. ASSUME ChangeList \/ \E r \in Runs : Dispatch(r) \/ CancelRun(r) \/ RunEnds(r)
       PROVE  Rest'
  BY <1>13 DEF ChangeList, Dispatch, CancelRun, RunEnds, Rest, connector, refresh, attachments,
               assignments
<1>14. ASSUME Stop \/ Exit PROVE Rest'
  BY <1>14 DEF Stop, Exit, Rest, connector, refresh, attachments, assignments
<1>15. ASSUME UNCHANGED vars PROVE Rest'
  BY <1>15 DEF vars, Rest, connector, refresh, attachments, assignments
<1>16. QED
  BY <1>1, <1>2, <1>3, <1>4, <1>5, <1>6, <1>7, <1>8, <1>9, <1>10, <1>11, <1>12, <1>13,
     <1>14, <1>15 DEF Next, Step

LEMMA InvarianceAll == Spec => [](IInv /\ AInv /\ Rest)
<1>1. Init => IInv /\ AInv /\ Rest
  BY InitInv, InitAssignments, RestInit
<1>2. IInv /\ AInv /\ Rest /\ [Next]_vars => (IInv /\ AInv /\ Rest)'
  BY StepInv, AssignmentsStep, RestStep
<1>3. QED
  BY <1>1, <1>2, PTL DEF Spec

\* Every reachable state is well typed, and no runner ever has more runs under execution
\* than its cap, however many assignments come in one go, run side by side or end
\* (dashboardPairedExecution.ts:157).
THEOREM TypeCorrect == Spec => []TypeOK
<1>1. IInv /\ AInv /\ Rest => TypeOK
  BY DEF IInv, CInv, ConnTyped, Tasks, Links, MInv, MirrorTyped, AInv, AssignmentsTyped,
         DashStates, WithinCap, Rest, Known, TypeOK
<1>2. QED
  BY <1>1, InvarianceAll, PTL

\* A run that the dashboard takes for accepted has been started: however often its
\* assignment is sent again, buffered or refused, a lost answer is the only thing the
\* dashboard misses (dashboardPairedExecution.ts:152).
THEOREM AcceptanceCorrect == Spec => []AcceptedIsStarted
<1>1. AInv => AcceptedIsStarted
  BY DEF AInv
<1>2. QED
  BY <1>1, InvarianceAll, PTL

\* Until it is stopped the client that the daemon sends on is the only socket that is
\* open, however often refreshes, connects, fetches and links fail
\* (runtimeDaemon.ts:410, :460 and :480).
THEOREM ConnectionCorrect == Spec => []OneConnection
<1>1. IInv => OneConnection
  BY DEF IInv, CInv, Single, OneConnection
<1>2. QED
  BY <1>1, Invariance, PTL

\* Once nothing is in flight, a mirror that is called current is the dashboard's list,
\* unless a fetch that outlived its connection wrote it, for any number of pushes,
\* fetches and connections (attachmentReconciler.ts:105).
THEOREM MirrorCorrect == Spec => []TimelyMirrorIsCurrent
<1>1. IInv => TimelyMirrorIsCurrent
  <2> SUFFICES ASSUME IInv, ~late, current, ~stopped, client # 0, ~Refreshing
               PROVE  mirror = list
    BY DEF TimelyMirrorIsCurrent, MirrorIsCurrent
  <2>1. client \in Conns
    BY Numbers DEF IInv, CInv, ConnTyped
  <2>2. InOrder(client)
    BY <2>1 DEF IInv, MInv
  <2>3. task[client] = "over" /\ Quiet(down[client])
    BY <2>1, <2>2 DEF Refreshing, InOrder, Quiet, IsPush
  <2>4. QED
    BY <2>2, <2>3 DEF InOrder, UpToDate
<1>2. QED
  BY <1>1, Invariance, PTL
=============================================================================
