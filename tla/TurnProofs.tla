------------------------------ MODULE TurnProofs ------------------------------
(***************************************************************************)
(* What the turns of an interactive session guarantee for every number of  *)
(* prompts, dispatched turns, interrupts and messages: SessionTurns for    *)
(* one on Claude Code, and CodexTurns for one on Codex.                    *)
(*                                                                         *)
(* SessionTurns: the operators on what the controller and the process hook *)
(* keep come first, each with what it preserves: GoodTurns is the part of  *)
(* it that no interleaving breaks, Orderly the part that holds while       *)
(* prompts do not overtake each other.  Then the prompts and dispatches    *)
(* (AskedOnce, Inbox), and the answer of an undisturbed session            *)
(* (Undisturbed, Own).                                                     *)
(*                                                                         *)
(* CodexTurns: what each operator on the server makes of it (ServerOf,     *)
(* Over, Rejected, Resolved), what no interleaving breaks (GoodServer),    *)
(* and what holds until prompts overlap (Chain, Pending), one is given up  *)
(* with its turn under way (OwnTurn), or an answer comes late (OwnId).     *)
(***************************************************************************)
EXTENDS SessionTurns, CodexTurns, FiniteSetTheorems, WellFoundedInduction, TLAPS

ProcStates == {"none", "called", "waiting", "live", "signalled", "exited"}
Running == {"live", "signalled"}

LEMMA Numbers ==
  /\ MaxPrompts + MaxDispatches \in Nat /\ MaxPrompts \in Nat /\ MaxDispatches \in Nat
  /\ None \notin Runs /\ None = 0
  /\ \A r \in Runs : r \in Nat /\ r > 0
BY BoundsAssumption DEF Runs, None

-----------------------------------------------------------------------------
(* The controller and the process hook.                                     *)

\* Runs that have not been asked for are nowhere.
TurnsOf(known) ==
  [proc : [Runs -> ProcStates], processRef : known \cup {None}, exitResolver : BOOLEAN,
   kills : Seq(known \cup {None}), runnerRef : known \cup {None}, isRunning : BOOLEAN,
   waiters : [Runs -> Seq(known)]]

\* The handle is a process that runs, and an exit resolver belongs to a kill.
GoodTurns(w, known) ==
  /\ w \in TurnsOf(known)
  /\ \A r \in Runs \ known : w.proc[r] = "none"
  /\ w.processRef # None => w.proc[w.processRef] \in Running
  /\ w.exitResolver => w.kills # <<>>

\* The same without the handle: what holds while the handle is being replaced.
Loose(w, known) ==
  /\ w \in TurnsOf(known)
  /\ \A r \in Runs \ known : w.proc[r] = "none"
  /\ w.exitResolver => w.kills # <<>>

\* What is shown as running is on its way or there.
UnderWay(w) ==
  w.isRunning => w.runnerRef # None /\ w.proc[w.runnerRef] \in {"waiting"} \cup Running

LEMMA Parts ==
  ASSUME NEW known \in SUBSET Runs, NEW w \in TurnsOf(known)
  PROVE  /\ w.proc \in [Runs -> ProcStates]
         /\ w.processRef \in known \cup {None} /\ w.runnerRef \in known \cup {None}
         /\ w.kills \in Seq(known \cup {None})
         /\ w.exitResolver \in BOOLEAN /\ w.isRunning \in BOOLEAN
         /\ w.waiters \in [Runs -> Seq(known)]
BY DEF TurnsOf

LEMMA BecomeFacts ==
  ASSUME NEW proc \in [Runs -> ProcStates], NEW rs, NEW state \in ProcStates
  PROVE  /\ Become(proc, rs, state) \in [Runs -> ProcStates]
         /\ \A r \in Runs : Become(proc, rs, state)[r] =
              IF r \in Range(rs) THEN state ELSE proc[r]
BY DEF Become

LEMMA SeqFacts ==
  ASSUME NEW S, NEW rs \in Seq(S), rs # <<>>
  PROVE  /\ Last(rs) \in S /\ Last(rs) \in Range(rs) /\ Range(rs) \subseteq S
         /\ Head(rs) \in S /\ Tail(rs) \in Seq(S) /\ Front(rs) \in Seq(S)
<1>1. Len(rs) \in Nat /\ Len(rs) > 0 /\ DOMAIN rs = 1..Len(rs) /\ \A i \in 1..Len(rs) : rs[i] \in S
  OBVIOUS
<1>2. Last(rs) = rs[Len(rs)] /\ Len(rs) \in DOMAIN rs
  BY <1>1 DEF Last
<1>3. Range(rs) \subseteq S /\ Last(rs) \in Range(rs)
  BY <1>1, <1>2 DEF Range
<1>4. Front(rs) \in Seq(S)
  BY <1>1 DEF Front
<1>5. QED
  BY <1>1, <1>2, <1>3, <1>4

LEMMA OneRun ==
  ASSUME NEW r
  PROVE  /\ <<r>> \in Seq({r}) /\ <<r>> # <<>> /\ Last(<<r>>) = r /\ Range(<<r>>) = {r}
         /\ \A known : r \in known => <<r>> \in Seq(known)
BY DEF Last, Range

\* The process of the handle, if there is one, is signalled on behalf of `next`.
Killed(w, next, v) ==
  /\ v.runnerRef = w.runnerRef /\ v.waiters = w.waiters
  /\ v.processRef = w.processRef /\ v.isRunning = w.isRunning
  /\ w.processRef = None => v = w
  /\ w.processRef # None =>
       /\ v.kills = Append(w.kills, next) /\ v.exitResolver
       /\ \A r \in Runs : v.proc[r] = IF r = w.processRef THEN "signalled" ELSE w.proc[r]

LEMMA BaseKillGood ==
  ASSUME NEW known \in SUBSET Runs, NEW w, GoodTurns(w, known), NEW next \in known \cup {None}
  PROVE  /\ GoodTurns(BaseKill(w, next), known)
         /\ UnderWay(w) => UnderWay(BaseKill(w, next))
         /\ Killed(w, next, BaseKill(w, next))
<1>1. CASE w.processRef = None
  BY <1>1 DEF BaseKill, Killed
<1>2. CASE w.processRef # None
  <2> DEFINE v == BaseKill(w, next)
  <2>1. v = [w EXCEPT !.kills = Append(@, next), !.exitResolver = TRUE,
                      !.proc[w.processRef] = "signalled"]
    BY <1>2 DEF BaseKill
  <2>2. /\ w \in TurnsOf(known) /\ w.processRef \in Runs
        /\ w.kills \in Seq(known \cup {None}) /\ w.proc \in [Runs -> ProcStates]
    <3>1. w \in TurnsOf(known)
      BY DEF GoodTurns
    <3>2. QED
      BY <1>2, <3>1, Parts
  <2>a. Append(w.kills, next) \in Seq(known \cup {None}) /\ Append(w.kills, next) # <<>>
    BY <2>2
  <2>b. [w.proc EXCEPT ![w.processRef] = "signalled"] \in [Runs -> ProcStates]
    BY <2>2 DEF ProcStates
  <2>3. /\ v \in TurnsOf(known)
        /\ v.proc = [w.proc EXCEPT ![w.processRef] = "signalled"]
        /\ v.kills = Append(w.kills, next) /\ v.exitResolver
        /\ v.processRef = w.processRef /\ v.runnerRef = w.runnerRef /\ v.waiters = w.waiters
        /\ v.isRunning = w.isRunning
    BY <2>1, <2>2, <2>a, <2>b DEF TurnsOf
  <2> HIDE DEF v
  <2>4. \A r \in Runs : v.proc[r] = IF r = w.processRef THEN "signalled" ELSE w.proc[r]
    BY <2>2, <2>3 DEF TurnsOf
  <2>5. w.processRef \in known
    BY <1>2 DEF GoodTurns, TurnsOf
  <2>6. GoodTurns(v, known)
    BY <2>2, <2>3, <2>4, <2>5, <2>a DEF GoodTurns, Running
  <2>7. UnderWay(w) => UnderWay(v)
    BY <2>3, <2>4, <2>2 DEF UnderWay, Running, TurnsOf
  <2>8. Killed(w, next, v)
    BY <1>2, <2>3, <2>4 DEF Killed
  <2>9. QED
    BY <2>6, <2>7, <2>8 DEF v
<1>3. QED
  BY <1>1, <1>2

LEMMA LaunchGood ==
  ASSUME NEW known \in SUBSET Runs, NEW w, Loose(w, known), NEW rs \in Seq(known), rs # <<>>
  PROVE  /\ GoodTurns(Launch(w, rs), known)
         /\ UnderWay(w) => UnderWay(Launch(w, rs))
         /\ Launch(w, rs).processRef = Last(rs) /\ Launch(w, rs).kills = w.kills
         /\ Launch(w, rs).exitResolver = w.exitResolver
         /\ Launch(w, rs).runnerRef = w.runnerRef /\ Launch(w, rs).isRunning = w.isRunning
         /\ Launch(w, rs).waiters = w.waiters
         /\ \A r \in Runs : Launch(w, rs).proc[r] = IF r \in Range(rs) THEN "live" ELSE w.proc[r]
<1> DEFINE v == Launch(w, rs)
<1>0. w \in TurnsOf(known) /\ \A r \in Runs \ known : w.proc[r] = "none"
  BY DEF Loose
<1>1. v = [w EXCEPT !.proc = Become(w.proc, rs, "live"), !.processRef = Last(rs)]
  BY DEF Launch
<1>2. /\ Become(w.proc, rs, "live") \in [Runs -> ProcStates]
      /\ \A r \in Runs : Become(w.proc, rs, "live")[r] =
                         IF r \in Range(rs) THEN "live" ELSE w.proc[r]
  <2>1. w.proc \in [Runs -> ProcStates] /\ "live" \in ProcStates
    BY <1>0, Parts DEF ProcStates
  <2>2. QED
    BY <2>1, BecomeFacts
<1>a. Last(rs) \in known
  BY SeqFacts
<1>3. /\ v \in TurnsOf(known)
      /\ v.proc = Become(w.proc, rs, "live") /\ v.processRef = Last(rs)
      /\ v.runnerRef = w.runnerRef /\ v.isRunning = w.isRunning
      /\ v.exitResolver = w.exitResolver /\ v.kills = w.kills /\ v.waiters = w.waiters
  BY <1>0, <1>1, <1>2, <1>a DEF TurnsOf
<1> HIDE DEF v
<1>4. Range(rs) \subseteq known /\ Last(rs) \in Range(rs)
  BY SeqFacts
<1>5. GoodTurns(v, known)
  BY <1>0, <1>2, <1>3, <1>4 DEF GoodTurns, Loose, Running
<1>6. UnderWay(w) => UnderWay(v)
  BY <1>0, <1>2, <1>3 DEF UnderWay, Running, TurnsOf
<1>7. QED
  BY <1>2, <1>3, <1>5, <1>6 DEF v

\* The runs rs are spawned: at once, or behind the process that runs.
Spawned(w, rs, v) ==
  /\ w.processRef = None =>
       /\ v.processRef = Last(rs) /\ v.kills = w.kills /\ v.exitResolver = w.exitResolver
       /\ \A r \in Runs : v.proc[r] = IF r \in Range(rs) THEN "live" ELSE w.proc[r]
  /\ w.processRef # None =>
       /\ v.processRef = w.processRef /\ v.kills = w.kills \o rs /\ v.exitResolver
       /\ \A r \in Runs : v.proc[r] = IF r = w.processRef THEN "signalled"
                                      ELSE IF r \in Range(rs) THEN "waiting" ELSE w.proc[r]

LEMMA BaseSpawnGood ==
  ASSUME NEW known \in SUBSET Runs, NEW w, GoodTurns(w, known), NEW rs \in Seq(known), rs # <<>>
  PROVE  /\ GoodTurns(BaseSpawn(w, rs), known)
         /\ Spawned(w, rs, BaseSpawn(w, rs)) /\ BaseSpawn(w, rs).waiters = w.waiters
         /\ BaseSpawn(w, rs).runnerRef = w.runnerRef
         /\ BaseSpawn(w, rs).isRunning = w.isRunning
         /\ BaseSpawn(w, rs).proc[Last(rs)] \in {"waiting"} \cup Running
<1>1. CASE w.processRef = None
  <2>1. BaseSpawn(w, rs) = Launch(w, rs)
    BY <1>1 DEF BaseSpawn
  <2>2. Last(rs) \in known /\ Last(rs) \in Range(rs)
    BY SeqFacts
  <2>3. Loose(w, known)
    BY DEF GoodTurns, Loose
  <2>4. /\ GoodTurns(Launch(w, rs), known)
        /\ Launch(w, rs).processRef = Last(rs) /\ Launch(w, rs).kills = w.kills
        /\ Launch(w, rs).exitResolver = w.exitResolver
        /\ Launch(w, rs).runnerRef = w.runnerRef /\ Launch(w, rs).isRunning = w.isRunning
        /\ Launch(w, rs).waiters = w.waiters
        /\ \A r \in Runs : Launch(w, rs).proc[r] = IF r \in Range(rs) THEN "live" ELSE w.proc[r]
    BY <2>3, LaunchGood
  <2>5. Spawned(w, rs, Launch(w, rs))
    BY <1>1, <2>4 DEF Spawned
  <2>6. QED
    BY <2>1, <2>2, <2>4, <2>5 DEF Running
<1>2. CASE w.processRef # None
  <2> DEFINE v == BaseSpawn(w, rs)
             b == Become(w.proc, rs, "waiting")
  <2>1. v = [w EXCEPT !.kills = @ \o rs, !.exitResolver = TRUE,
                      !.proc = [b EXCEPT ![w.processRef] = "signalled"]]
    BY <1>2 DEF BaseSpawn
  <2>2. /\ b \in [Runs -> ProcStates]
        /\ \A r \in Runs : b[r] = IF r \in Range(rs) THEN "waiting" ELSE w.proc[r]
    <3>1. w.proc \in [Runs -> ProcStates] /\ "waiting" \in ProcStates
      BY Parts DEF GoodTurns, ProcStates
    <3>2. QED
      BY <3>1, BecomeFacts
  <2>3. /\ w.kills \in Seq(known \cup {None}) /\ rs \in Seq(known \cup {None})
        /\ w.kills \o rs \in Seq(known \cup {None}) /\ w.kills \o rs # <<>>
    <3>1. w.kills \in Seq(known \cup {None})
      BY Parts DEF GoodTurns
    <3>2. rs \in Seq(known \cup {None})
      OBVIOUS
    <3>3. Len(w.kills \o rs) = Len(w.kills) + Len(rs) /\ Len(rs) > 0 /\ Len(w.kills) >= 0
      BY <3>1, <3>2
    <3>4. QED
      BY <3>1, <3>2, <3>3
  <2>a. w \in TurnsOf(known) /\ w.processRef \in Runs
    BY <1>2, Parts DEF GoodTurns
  <2> HIDE DEF b
  <2>b. [b EXCEPT ![w.processRef] = "signalled"] \in [Runs -> ProcStates]
    BY <2>2, <2>a DEF ProcStates
  <2>4. /\ v \in TurnsOf(known)
        /\ v.proc = [b EXCEPT ![w.processRef] = "signalled"]
        /\ v.kills = w.kills \o rs /\ v.exitResolver /\ v.processRef = w.processRef
        /\ v.runnerRef = w.runnerRef /\ v.isRunning = w.isRunning /\ v.waiters = w.waiters
    BY <2>1, <2>3, <2>a, <2>b DEF TurnsOf
  <2>5. w.processRef \in known /\ Range(rs) \subseteq known /\ Last(rs) \in Range(rs)
    BY <1>2, SeqFacts DEF GoodTurns, TurnsOf
  <2> HIDE DEF v
  <2>6. \A r \in Runs : v.proc[r] = IF r = w.processRef THEN "signalled"
                                    ELSE IF r \in Range(rs) THEN "waiting" ELSE w.proc[r]
    BY <2>2, <2>4, <2>5
  <2>7. Spawned(w, rs, v)
    BY <1>2, <2>4, <2>6 DEF Spawned
  <2>8. GoodTurns(v, known)
    <3>1. \A r \in Runs \ known : v.proc[r] = "none"
      BY <2>5, <2>6 DEF GoodTurns
    <3>2. v.proc[v.processRef] \in Running /\ v.kills # <<>>
      BY <2>3, <2>4, <2>5, <2>6 DEF Running
    <3>3. QED
      BY <2>4, <3>1, <3>2 DEF GoodTurns
  <2>9. v.proc[Last(rs)] \in {"waiting"} \cup Running
    BY <2>5, <2>6 DEF Running
  <2>10. QED
    BY <2>4, <2>7, <2>8, <2>9 DEF v
<1>3. QED
  BY <1>1, <1>2

LEMMA CreateRunnersGood ==
  ASSUME NEW known \in SUBSET Runs, NEW w, GoodTurns(w, known), NEW rs \in Seq(known),
         rs = <<>> => UnderWay(w)
  PROVE  /\ GoodTurns(CreateRunners(w, rs), known) /\ UnderWay(CreateRunners(w, rs))
         /\ rs = <<>> => CreateRunners(w, rs) = w
         /\ rs # <<>> =>
              /\ Spawned(w, rs, CreateRunners(w, rs)) /\ CreateRunners(w, rs).waiters = w.waiters
              /\ CreateRunners(w, rs).runnerRef = Last(rs) /\ CreateRunners(w, rs).isRunning
<1>1. CASE rs = <<>>
  BY <1>1 DEF CreateRunners
<1>2. CASE rs # <<>>
  <2> DEFINE v == [w EXCEPT !.runnerRef = Last(rs), !.isRunning = TRUE]
  <2>1. CreateRunners(w, rs) = BaseSpawn(v, rs)
    BY <1>2 DEF CreateRunners
  <2>2. Last(rs) \in known
    BY <1>2, SeqFacts
  <2>3. /\ GoodTurns(v, known) /\ v.runnerRef = Last(rs) /\ v.isRunning = TRUE
        /\ v.waiters = w.waiters /\ v.processRef = w.processRef /\ v.kills = w.kills
        /\ v.exitResolver = w.exitResolver /\ v.proc = w.proc
    BY <2>2 DEF GoodTurns, TurnsOf
  <2> HIDE DEF v
  <2>4. /\ GoodTurns(BaseSpawn(v, rs), known)
        /\ Spawned(v, rs, BaseSpawn(v, rs)) /\ BaseSpawn(v, rs).waiters = v.waiters
        /\ BaseSpawn(v, rs).runnerRef = Last(rs) /\ BaseSpawn(v, rs).isRunning
        /\ BaseSpawn(v, rs).proc[Last(rs)] \in {"waiting"} \cup Running
    BY <1>2, <2>3, BaseSpawnGood
  <2>5. UnderWay(BaseSpawn(v, rs))
    BY <2>2, <2>4, Numbers DEF UnderWay
  <2>6. Spawned(w, rs, BaseSpawn(v, rs))
    BY <2>3, <2>4 DEF Spawned
  <2>7. QED
    BY <1>2, <2>1, <2>3, <2>4, <2>5, <2>6
<1>3. QED
  BY <1>1, <1>2

\* A run more has been asked for.
LEMMA MoreAsked ==
  ASSUME NEW known \in SUBSET Runs, NEW more \in SUBSET Runs, known \subseteq more,
         NEW w, GoodTurns(w, known)
  PROVE  GoodTurns(w, more)
<1>1. Seq(known \cup {None}) \subseteq Seq(more \cup {None}) /\ Seq(known) \subseteq Seq(more)
  OBVIOUS
<1>2. w \in TurnsOf(more)
  BY <1>1 DEF GoodTurns, TurnsOf
<1>3. QED
  BY <1>2 DEF GoodTurns

\* The run r is asked for while another is under way: it waits for that one's result.
Waits(w, r, v) ==
  /\ v.processRef = w.processRef /\ v.runnerRef = w.runnerRef /\ v.isRunning = w.isRunning
  /\ \A q \in Runs : v.proc[q] = IF q = r THEN "called"
                                 ELSE IF q = w.processRef THEN "signalled" ELSE w.proc[q]
  /\ \A q \in Runs : v.waiters[q] = IF q = w.runnerRef THEN Append(w.waiters[q], r)
                                    ELSE w.waiters[q]
  /\ w.processRef = None => v.kills = w.kills /\ v.exitResolver = w.exitResolver
  /\ w.processRef # None => v.kills = Append(w.kills, None) /\ v.exitResolver

LEMMA StartTurnGood ==
  ASSUME NEW known \in SUBSET Runs, NEW w, GoodTurns(w, known), UnderWay(w),
         NEW r \in Runs \ known
  PROVE  /\ GoodTurns(StartTurn(w, r), known \cup {r}) /\ UnderWay(StartTurn(w, r))
         /\ w.runnerRef = None =>
              /\ Spawned(w, <<r>>, StartTurn(w, r)) /\ StartTurn(w, r).waiters = w.waiters
              /\ StartTurn(w, r).runnerRef = r /\ StartTurn(w, r).isRunning
         /\ w.runnerRef # None => Waits(w, r, StartTurn(w, r))
<1> DEFINE more == known \cup {r}
<1>1. more \in SUBSET Runs /\ r \in more /\ GoodTurns(w, more)
  BY MoreAsked
<1>2. CASE w.runnerRef = None
  <2> DEFINE rs == <<r>>
  <2>1. rs \in Seq(more) /\ rs # <<>> /\ Last(rs) = r
    BY OneRun
  <2>2. StartTurn(w, r) = CreateRunners(w, rs)
    BY <1>2 DEF StartTurn
  <2> HIDE DEF rs, more
  <2>3. /\ GoodTurns(CreateRunners(w, rs), more) /\ UnderWay(CreateRunners(w, rs))
        /\ Spawned(w, rs, CreateRunners(w, rs)) /\ CreateRunners(w, rs).waiters = w.waiters
        /\ CreateRunners(w, rs).runnerRef = Last(rs) /\ CreateRunners(w, rs).isRunning
    BY <1>1, <2>1, CreateRunnersGood
  <2>4. QED
    BY <1>2, <2>1, <2>2, <2>3 DEF rs, more
<1>3. CASE w.runnerRef # None
  <2> DEFINE v == BaseKill(w, None)
             u == [v EXCEPT !.waiters[w.runnerRef] = Append(@, r), !.proc[r] = "called"]
  <2>1. None \in known \cup {None}
    OBVIOUS
  <2>2. /\ GoodTurns(v, known) /\ UnderWay(v) /\ v.runnerRef = w.runnerRef
        /\ v.waiters = w.waiters /\ v.processRef = w.processRef /\ v.isRunning = w.isRunning
        /\ w.processRef = None => v = w
        /\ w.processRef # None =>
             /\ v.kills = Append(w.kills, None) /\ v.exitResolver
             /\ \A q \in Runs : v.proc[q] = IF q = w.processRef THEN "signalled" ELSE w.proc[q]
    <3>1. GoodTurns(v, known) /\ UnderWay(v) /\ Killed(w, None, v)
      BY <2>1, BaseKillGood
    <3>2. QED
      BY <3>1 DEF Killed
  <2>3. StartTurn(w, r) = u
    BY <1>3 DEF StartTurn
  <2> HIDE DEF v
  <2>4. GoodTurns(v, more)
    BY <1>1, <2>2, MoreAsked
  <2>5. v \in TurnsOf(known) /\ v \in TurnsOf(more)
    BY <2>2, <2>4 DEF GoodTurns
  <2>6. v.runnerRef \in known /\ v.processRef \in known \cup {None}
    BY <1>3, <2>2, <2>5, Parts
  <2>7. /\ v.waiters \in [Runs -> Seq(more)] /\ Append(v.waiters[w.runnerRef], r) \in Seq(more)
        /\ v.proc \in [Runs -> ProcStates]
    <3>1. v.waiters \in [Runs -> Seq(more)] /\ v.proc \in [Runs -> ProcStates]
      BY <1>1, <2>5, Parts
    <3>2. v.waiters[w.runnerRef] \in Seq(more)
      BY <2>2, <2>6, <3>1
    <3>3. QED
      BY <1>1, <3>1, <3>2
  <2>8. [v.waiters EXCEPT ![w.runnerRef] = Append(@, r)] \in [Runs -> Seq(more)]
    BY <2>7
  <2>9. [v.proc EXCEPT ![r] = "called"] \in [Runs -> ProcStates]
    BY <2>7 DEF ProcStates
  <2> HIDE DEF more
  <2>10. /\ u \in TurnsOf(more)
         /\ u.proc = [v.proc EXCEPT ![r] = "called"]
         /\ u.waiters = [v.waiters EXCEPT ![w.runnerRef] = Append(@, r)]
         /\ u.processRef = v.processRef /\ u.runnerRef = v.runnerRef
         /\ u.isRunning = v.isRunning /\ u.kills = v.kills /\ u.exitResolver = v.exitResolver
    BY <2>5, <2>8, <2>9 DEF TurnsOf
  <2> HIDE DEF u
  <2>11. \A q \in Runs : u.proc[q] = IF q = r THEN "called" ELSE v.proc[q]
    BY <2>7, <2>10
  <2>12. \A q \in Runs : u.waiters[q] = IF q = w.runnerRef THEN Append(v.waiters[q], r)
                                         ELSE v.waiters[q]
    BY <2>7, <2>10
  <2>13. r \notin known /\ r # None
    BY Numbers
  <2>14. GoodTurns(u, more)
    BY <2>4, <2>6, <2>10, <2>11, <2>13, <2>2 DEF GoodTurns, more
  <2>15. UnderWay(u)
    BY <2>2, <2>6, <2>10, <2>11, <2>13 DEF UnderWay
  <2>16. Waits(w, r, u)
    BY <2>2, <2>10, <2>11, <2>12, <2>6, Numbers DEF Waits
  <2>17. QED
    BY <1>3, <2>3, <2>14, <2>15, <2>16 DEF more
<1>4. QED
  BY <1>2, <1>3

\* The run r is over: v goes on with the runs that waited for it.
Freed(w, r, v) ==
  /\ \A q \in Runs : v.waiters[q] = IF q = r THEN <<>> ELSE w.waiters[q]
  /\ w.waiters[r] = <<>> =>
       /\ v.proc = w.proc /\ v.processRef = w.processRef
       /\ v.kills = w.kills /\ v.exitResolver = w.exitResolver
       /\ v.runnerRef = IF w.runnerRef = r THEN None ELSE w.runnerRef
       /\ v.isRunning = (w.isRunning /\ w.runnerRef # r)
  /\ w.waiters[r] # <<>> =>
       /\ Spawned(w, w.waiters[r], v)
       /\ v.runnerRef = Last(w.waiters[r]) /\ v.isRunning

LEMMA RunnerEndsGood ==
  ASSUME NEW known \in SUBSET Runs, NEW w, GoodTurns(w, known), NEW r \in Runs,
         w.runnerRef # r => UnderWay(w)
  PROVE  /\ GoodTurns(RunnerEnds(w, r), known) /\ UnderWay(RunnerEnds(w, r))
         /\ Freed(w, r, RunnerEnds(w, r))
<1> DEFINE freed == w.waiters[r]
           v == [w EXCEPT !.waiters[r] = <<>>,
                          !.runnerRef = IF freed # <<>> \/ @ = r THEN None ELSE @,
                          !.isRunning = @ /\ w.runnerRef # r]
<1>1. RunnerEnds(w, r) = CreateRunners(v, freed)
  BY DEF RunnerEnds
<1>2. w \in TurnsOf(known) /\ w.waiters \in [Runs -> Seq(known)] /\ freed \in Seq(known)
  <2>1. w \in TurnsOf(known)
    BY DEF GoodTurns
  <2>2. QED
    BY <2>1, Parts
<1>3. [w.waiters EXCEPT ![r] = <<>>] \in [Runs -> Seq(known)]
  BY <1>2
<1>4. /\ v \in TurnsOf(known)
      /\ v.proc = w.proc /\ v.processRef = w.processRef /\ v.kills = w.kills
      /\ v.exitResolver = w.exitResolver
      /\ v.waiters = [w.waiters EXCEPT ![r] = <<>>]
      /\ v.isRunning = (w.isRunning /\ w.runnerRef # r)
      /\ v.runnerRef = IF freed # <<>> \/ w.runnerRef = r THEN None ELSE w.runnerRef
  BY <1>2, <1>3 DEF TurnsOf
<1> HIDE DEF v
<1>5. GoodTurns(v, known)
  BY <1>4 DEF GoodTurns
<1>6. freed = <<>> => UnderWay(v)
  BY <1>4 DEF UnderWay
<1>7. \A q \in Runs : v.waiters[q] = IF q = r THEN <<>> ELSE w.waiters[q]
  BY <1>2, <1>4
<1>8. w.waiters[r] = freed
  OBVIOUS
<1> HIDE DEF freed
<1>9. /\ GoodTurns(CreateRunners(v, freed), known) /\ UnderWay(CreateRunners(v, freed))
      /\ freed = <<>> => CreateRunners(v, freed) = v
      /\ freed # <<>> =>
           /\ Spawned(v, freed, CreateRunners(v, freed)) /\ CreateRunners(v, freed).waiters = v.waiters
           /\ CreateRunners(v, freed).runnerRef = Last(freed) /\ CreateRunners(v, freed).isRunning
  BY <1>2, <1>5, <1>6, CreateRunnersGood
<1>10. freed # <<>> => Spawned(w, freed, CreateRunners(v, freed))
  BY <1>4, <1>9 DEF Spawned
<1>11. Freed(w, r, CreateRunners(v, freed))
  BY <1>4, <1>7, <1>8, <1>9, <1>10 DEF Freed
<1>12. QED
  BY <1>1, <1>9, <1>11

\* A call of kill() returns, and `next` is spawned.
Returned(w, next, v) ==
  /\ v.runnerRef = w.runnerRef /\ v.isRunning = w.isRunning /\ v.waiters = w.waiters
  /\ v.kills = w.kills /\ ~v.exitResolver /\ v.processRef = next
  /\ \A r \in Runs : v.proc[r] = IF next # None /\ r = next THEN "live" ELSE w.proc[r]

LEMMA KillReturnsGood ==
  ASSUME NEW known \in SUBSET Runs, NEW w \in TurnsOf(known), NEW next \in known \cup {None},
         \A r \in Runs \ known : w.proc[r] = "none"
  PROVE  /\ GoodTurns(KillReturns(w, next), known)
         /\ UnderWay(w) => UnderWay(KillReturns(w, next))
         /\ Returned(w, next, KillReturns(w, next))
<1> DEFINE v == [w EXCEPT !.exitResolver = FALSE, !.processRef = None]
<1>1. /\ v \in TurnsOf(known) /\ ~v.exitResolver /\ v.processRef = None
      /\ v.proc = w.proc /\ v.runnerRef = w.runnerRef /\ v.isRunning = w.isRunning
      /\ v.waiters = w.waiters /\ v.kills = w.kills
  BY DEF TurnsOf
<1> HIDE DEF v
<1>2. GoodTurns(v, known) /\ (UnderWay(w) => UnderWay(v))
  BY <1>1 DEF GoodTurns, UnderWay
<1>3. CASE next = None
  <2>1. KillReturns(w, next) = v
    BY <1>3 DEF KillReturns, v
  <2>2. QED
    BY <1>1, <1>2, <1>3, <2>1 DEF Returned
<1>4. CASE next # None
  <2>1. KillReturns(w, next) = Launch(v, <<next>>)
    BY <1>4 DEF KillReturns, v
  <2> DEFINE rs == <<next>>
  <2>2. rs \in Seq(known) /\ rs # <<>> /\ Last(rs) = next /\ Range(rs) = {next}
    BY <1>4, OneRun
  <2>3. Loose(v, known)
    BY <1>2 DEF GoodTurns, Loose
  <2> HIDE DEF rs
  <2>4. /\ GoodTurns(Launch(v, rs), known)
        /\ UnderWay(v) => UnderWay(Launch(v, rs))
        /\ Launch(v, rs).processRef = Last(rs) /\ Launch(v, rs).kills = v.kills
        /\ Launch(v, rs).exitResolver = v.exitResolver
        /\ Launch(v, rs).runnerRef = v.runnerRef /\ Launch(v, rs).isRunning = v.isRunning
        /\ Launch(v, rs).waiters = v.waiters
        /\ \A r \in Runs : Launch(v, rs).proc[r] = IF r \in Range(rs) THEN "live" ELSE v.proc[r]
    BY <2>2, <2>3, LaunchGood
  <2>5. KillReturns(w, next) = Launch(v, rs)
    BY <2>1 DEF rs
  <2>6. Returned(w, next, Launch(v, rs))
    BY <1>1, <1>4, <2>2, <2>4 DEF Returned
  <2>7. QED
    BY <1>1, <1>2, <2>4, <2>5, <2>6
<1>5. QED
  BY <1>3, <1>4

\* The process p is gone, and the last call of kill() is told.
Told(w, p, v) ==
  LET next == IF w.exitResolver THEN Last(w.kills) ELSE None
  IN  /\ v.runnerRef = w.runnerRef /\ v.isRunning = w.isRunning /\ v.waiters = w.waiters
      /\ v.kills = IF w.exitResolver THEN Front(w.kills) ELSE w.kills
      /\ ~v.exitResolver /\ v.processRef = next
      /\ \A r \in Runs : v.proc[r] = IF next # None /\ r = next THEN "live"
                                     ELSE IF r = p THEN "exited" ELSE w.proc[r]

LEMMA FinalizeGood ==
  ASSUME NEW known \in SUBSET Runs, NEW w, GoodTurns(w, known), UnderWay(w), NEW p \in Runs,
         w.proc[p] \in Running
  PROVE  /\ GoodTurns(Finalize(w, p), known) /\ UnderWay(Finalize(w, p))
         /\ \E t : GoodTurns(t, known) /\ Told(w, p, t) /\ Freed(t, p, Finalize(w, p))
<1> DEFINE v == [w EXCEPT !.proc[p] = "exited", !.processRef = None]
           told == IF ~v.exitResolver THEN v
                   ELSE KillReturns([v EXCEPT !.kills = Front(@)], Last(v.kills))
<1>1. Finalize(w, p) = RunnerEnds(told, p)
  BY DEF Finalize
<1>2. p \in known
  BY DEF GoodTurns, Running
<1>3. w \in TurnsOf(known) /\ w.proc \in [Runs -> ProcStates]
  <2>1. w \in TurnsOf(known)
    BY DEF GoodTurns
  <2>2. QED
    BY <2>1, Parts
<1>4. [w.proc EXCEPT ![p] = "exited"] \in [Runs -> ProcStates]
  BY <1>3 DEF ProcStates
<1>5. /\ v \in TurnsOf(known) /\ v.processRef = None
      /\ v.proc = [w.proc EXCEPT ![p] = "exited"]
      /\ v.runnerRef = w.runnerRef /\ v.isRunning = w.isRunning /\ v.waiters = w.waiters
      /\ v.exitResolver = w.exitResolver /\ v.kills = w.kills
  BY <1>3, <1>4 DEF TurnsOf
<1> HIDE DEF v
<1>6. \A r \in Runs : v.proc[r] = IF r = p THEN "exited" ELSE w.proc[r]
  BY <1>3, <1>5
<1>7. GoodTurns(v, known)
  BY <1>2, <1>5, <1>6 DEF GoodTurns
<1>8. v.runnerRef # p => UnderWay(v)
  <2>1. v.runnerRef \in Runs \cup {None}
    BY <1>5 DEF TurnsOf
  <2>2. QED
    BY <1>5, <1>6, <2>1 DEF UnderWay
<1>9. GoodTurns(told, known) /\ (told.runnerRef # p => UnderWay(told)) /\ Told(w, p, told)
  <2>1. CASE ~v.exitResolver
    <3>1. told = v
      BY <2>1
    <3> HIDE DEF told
    <3>2. Told(w, p, v)
      BY <1>5, <1>6, <2>1 DEF Told
    <3>3. QED
      BY <1>7, <1>8, <3>1, <3>2
  <2>2. CASE v.exitResolver
    <3> DEFINE u == [v EXCEPT !.kills = Front(@)]
               next == Last(v.kills)
    <3>1. v.kills \in Seq(known \cup {None}) /\ v.kills # <<>>
      BY <1>5, <1>7, <2>2, Parts DEF GoodTurns
    <3>2. Front(v.kills) \in Seq(known \cup {None}) /\ next \in known \cup {None}
      BY <3>1, SeqFacts
    <3>3. /\ u \in TurnsOf(known) /\ u.proc = v.proc /\ u.runnerRef = v.runnerRef
          /\ u.isRunning = v.isRunning /\ u.waiters = v.waiters /\ u.kills = Front(v.kills)
      BY <1>5, <3>2 DEF TurnsOf
    <3>4. told = KillReturns(u, next)
      BY <2>2
    <3> HIDE DEF u, next, told
    <3>5. \A r \in Runs \ known : u.proc[r] = "none"
      BY <1>7, <3>3 DEF GoodTurns
    <3>6. UnderWay(v) => UnderWay(u)
      BY <3>3 DEF UnderWay
    <3>7. /\ GoodTurns(told, known) /\ (UnderWay(u) => UnderWay(told))
          /\ Returned(u, next, told)
      BY <3>2, <3>3, <3>4, <3>5, KillReturnsGood
    <3>8. Told(w, p, told)
      BY <1>5, <1>6, <2>2, <3>3, <3>7 DEF Told, Returned, next
    <3>9. told.runnerRef = v.runnerRef
      BY <3>3, <3>7 DEF Returned
    <3>10. QED
      BY <1>8, <3>6, <3>7, <3>8, <3>9
  <2>3. QED
    BY <2>1, <2>2
<1> HIDE DEF told
<1>10. /\ GoodTurns(RunnerEnds(told, p), known) /\ UnderWay(RunnerEnds(told, p))
       /\ Freed(told, p, RunnerEnds(told, p))
  BY <1>9, RunnerEndsGood
<1>11. QED
  BY <1>1, <1>9, <1>10
-----------------------------------------------------------------------------
(* Prompts that do not overtake each other.                                 *)

NobodyWaits(w) == \A r \in Runs : w.waiters[r] = <<>>

OneAtMost(s) == s = <<>> \/ \E r \in Runs : s = <<r>>

\* One process at most, the one of the handle: while it is live, it is the run that is
\* shown; once it is signalled, the last call of kill() will be told of its exit, and the
\* run to be spawned then is the run that is shown.
Orderly(w) ==
  /\ \A r \in Runs : w.proc[r] \in Running => r = w.processRef
  /\ w.processRef # None =>
       IF w.proc[w.processRef] = "live" THEN w.runnerRef = w.processRef /\ w.isRunning
       ELSE w.exitResolver
  /\ w.exitResolver =>
       /\ w.processRef # None
       /\ Last(w.kills) # None =>
            /\ w.runnerRef = Last(w.kills) /\ w.isRunning /\ Last(w.kills) # w.processRef
            /\ NobodyWaits(w)
  /\ \A r \in Runs : OneAtMost(w.waiters[r])

LEMMA LastOfAppend ==
  ASSUME NEW S, NEW s \in Seq(S), NEW e
  PROVE  Last(Append(s, e)) = e /\ Last(s \o <<e>>) = e
<1>1. Len(Append(s, e)) = Len(s) + 1 /\ Append(s, e)[Len(s) + 1] = e
  OBVIOUS
<1>2. Len(s \o <<e>>) = Len(s) + 1 /\ (s \o <<e>>)[Len(s) + 1] = e
  OBVIOUS
<1>3. QED
  BY <1>1, <1>2 DEF Last

LEMMA OrderlyStart ==
  ASSUME NEW known \in SUBSET Runs, NEW w, GoodTurns(w, known), UnderWay(w), Orderly(w),
         NobodyWaits(w), NEW r \in Runs \ known
  PROVE  Orderly(StartTurn(w, r))
<1> DEFINE v == StartTurn(w, r)
<1>1. /\ w.processRef \in known \cup {None} /\ w.runnerRef \in known \cup {None}
      /\ w.kills \in Seq(known \cup {None}) /\ w.waiters \in [Runs -> Seq(known)]
      /\ w.proc \in [Runs -> ProcStates]
  BY Parts DEF GoodTurns
<1>2. /\ w.runnerRef = None => Spawned(w, <<r>>, v) /\ v.waiters = w.waiters
                               /\ v.runnerRef = r /\ v.isRunning
      /\ w.runnerRef # None => Waits(w, r, v)
  BY StartTurnGood
<1> HIDE DEF v
<1>3. r \notin known /\ r # None /\ None \notin Runs
  BY Numbers
<1>4. \A q \in Runs : w.waiters[q] = <<>>
  BY DEF NobodyWaits
<1>5. /\ <<r>> \in Seq({r}) /\ Last(<<r>>) = r /\ Range(<<r>>) = {r}
  BY OneRun
<1>6. CASE w.runnerRef = None
  <2>1. CASE w.processRef = None
    <3>1. ~w.exitResolver
      BY <2>1 DEF Orderly
    <3>2. /\ v.processRef = r /\ ~v.exitResolver /\ v.runnerRef = r /\ v.isRunning
          /\ v.waiters = w.waiters
          /\ \A q \in Runs : v.proc[q] = IF q = r THEN "live" ELSE w.proc[q]
      BY <1>2, <1>5, <1>6, <2>1, <3>1 DEF Spawned
    <3>3. \A q \in Runs : w.proc[q] \notin Running
      BY <1>3, <2>1 DEF Orderly
    <3>4. \A q \in Runs : OneAtMost(v.waiters[q])
      BY <1>4, <3>2 DEF OneAtMost
    <3>5. QED
      BY <1>3, <3>2, <3>3, <3>4 DEF Orderly, v
  <2>2. CASE w.processRef # None
    <3>1. /\ v.processRef = w.processRef /\ v.kills = w.kills \o <<r>> /\ v.exitResolver
          /\ v.runnerRef = r /\ v.isRunning /\ v.waiters = w.waiters
          /\ \A q \in Runs : v.proc[q] = IF q = w.processRef THEN "signalled"
                                         ELSE IF q = r THEN "waiting" ELSE w.proc[q]
      BY <1>2, <1>5, <1>6, <2>2 DEF Spawned
    <3>2. Last(v.kills) = r
      <4>1. w.kills \in Seq(Runs \cup {None})
        BY <1>1
      <4>2. QED
        BY <3>1, <4>1, LastOfAppend
    <3>3. w.processRef \in known
      BY <1>1, <2>2
    <3>4. NobodyWaits(v) /\ \A q \in Runs : OneAtMost(v.waiters[q])
      BY <1>4, <3>1 DEF NobodyWaits, OneAtMost
    <3>5. \A q \in Runs : v.proc[q] \in Running => q = v.processRef
      BY <3>1 DEF Orderly, Running
    <3>6. QED
      BY <1>3, <3>1, <3>2, <3>3, <3>4, <3>5 DEF Orderly, v
  <2>3. QED
    BY <2>1, <2>2
<1>7. CASE w.runnerRef # None
  <2>1. /\ v.processRef = w.processRef /\ v.runnerRef = w.runnerRef /\ v.isRunning = w.isRunning
        /\ \A q \in Runs : v.proc[q] = IF q = r THEN "called"
                                       ELSE IF q = w.processRef THEN "signalled" ELSE w.proc[q]
        /\ \A q \in Runs : v.waiters[q] = IF q = w.runnerRef THEN Append(w.waiters[q], r)
                                          ELSE w.waiters[q]
        /\ w.processRef = None => v.kills = w.kills /\ v.exitResolver = w.exitResolver
        /\ w.processRef # None => v.kills = Append(w.kills, None) /\ v.exitResolver
    BY <1>2, <1>7 DEF Waits
  <2>2. \A q \in Runs : OneAtMost(v.waiters[q])
    <3>1. Append(<<>>, r) = <<r>>
      OBVIOUS
    <3>2. OneAtMost(<<r>>) /\ OneAtMost(<<>>)
      BY DEF OneAtMost
    <3>3. \A q \in Runs : v.waiters[q] = Append(<<>>, r) \/ v.waiters[q] = <<>>
      BY <1>4, <2>1
    <3>4. QED
      BY <3>1, <3>2, <3>3, Zenon
  <2>3. \A q \in Runs : v.proc[q] \in Running => q = v.processRef
    BY <2>1 DEF Orderly, Running
  <2>4. CASE w.processRef = None
    BY <2>1, <2>2, <2>3, <2>4 DEF Orderly, v
  <2>5. CASE w.processRef # None
    <3>1. Last(v.kills) = None
      <4>1. w.kills \in Seq(Runs \cup {None})
        BY <1>1
      <4>2. QED
        BY <2>1, <2>5, <4>1 DEF Last
    <3>2. w.processRef \in Runs /\ w.processRef # r
      BY <1>1, <1>3, <2>5
    <3>3. v.proc[v.processRef] = "signalled"
      BY <2>1, <3>2
    <3>4. QED
      BY <2>1, <2>2, <2>3, <2>5, <3>1, <3>3 DEF Orderly, v
  <2>6. QED
    BY <2>4, <2>5
<1>8. QED
  BY <1>6, <1>7

LEMMA OrderlyExit ==
  ASSUME NEW known \in SUBSET Runs, NEW w, GoodTurns(w, known), UnderWay(w), Orderly(w),
         NEW p \in Runs, w.proc[p] \in Running
  PROVE  Orderly(Finalize(w, p))
<1> DEFINE v == Finalize(w, p)
<1>1. PICK t : GoodTurns(t, known) /\ Told(w, p, t) /\ Freed(t, p, v)
  BY FinalizeGood
<1> HIDE DEF v
<1>2. p = w.processRef
  BY DEF Orderly
<1>3. /\ t.runnerRef = w.runnerRef /\ t.isRunning = w.isRunning /\ t.waiters = w.waiters
      /\ ~t.exitResolver
      /\ t.processRef = IF w.exitResolver THEN Last(w.kills) ELSE None
      /\ \A r \in Runs : t.proc[r] = IF t.processRef # None /\ r = t.processRef THEN "live"
                                     ELSE IF r = p THEN "exited" ELSE w.proc[r]
  BY <1>1 DEF Told
<1>4. \A r \in Runs : t.proc[r] \in Running => t.processRef # None /\ r = t.processRef
  BY <1>2, <1>3 DEF Orderly, Running
<1>5. t.processRef \in known \cup {None} /\ t.waiters \in [Runs -> Seq(known)]
  BY <1>1, Parts DEF GoodTurns
<1>6. CASE t.processRef # None
  <2>1. /\ w.exitResolver /\ Last(w.kills) # None /\ t.processRef = Last(w.kills)
        /\ NobodyWaits(w) /\ w.runnerRef = t.processRef /\ w.isRunning
        /\ t.processRef # p
    BY <1>2, <1>3, <1>6 DEF Orderly
  <2>2. \A r \in Runs : t.waiters[r] = <<>>
    BY <1>3, <2>1 DEF NobodyWaits
  <2>3. /\ v.proc = t.proc /\ v.processRef = t.processRef /\ ~v.exitResolver
        /\ v.runnerRef = t.processRef /\ v.isRunning
        /\ \A q \in Runs : v.waiters[q] = <<>>
    BY <1>1, <1>3, <2>1, <2>2 DEF Freed
  <2>4. v.proc[v.processRef] = "live"
    BY <1>3, <1>5, <1>6, <2>3
  <2>5. \A r \in Runs : v.proc[r] \in Running => r = v.processRef
    BY <1>4, <2>3
  <2>6. \A r \in Runs : OneAtMost(v.waiters[r])
    BY <2>3 DEF OneAtMost
  <2>7. QED
    BY <2>3, <2>4, <2>5, <2>6 DEF Orderly, v
<1>7. CASE t.processRef = None
  <2>1. \A r \in Runs : t.proc[r] \notin Running
    BY <1>4, <1>7
  <2>2. \A q \in Runs : v.waiters[q] = IF q = p THEN <<>> ELSE w.waiters[q]
    BY <1>1, <1>3 DEF Freed
  <2>3. \A q \in Runs : OneAtMost(v.waiters[q])
    BY <2>2 DEF Orderly, OneAtMost
  <2>4. CASE t.waiters[p] = <<>>
    <3>1. v.proc = t.proc /\ v.processRef = None /\ ~v.exitResolver
      BY <1>1, <1>3, <1>7, <2>4 DEF Freed
    <3>2. QED
      BY <2>1, <2>3, <3>1 DEF Orderly, v
  <2>5. CASE t.waiters[p] # <<>>
    <3>1. /\ Spawned(t, t.waiters[p], v) /\ v.runnerRef = Last(t.waiters[p]) /\ v.isRunning
      BY <1>1, <2>5 DEF Freed
    <3>2. /\ v.processRef = Last(t.waiters[p]) /\ ~v.exitResolver
          /\ \A r \in Runs : v.proc[r] = IF r \in Range(t.waiters[p]) THEN "live" ELSE t.proc[r]
      BY <1>3, <1>7, <3>1 DEF Spawned
    <3>3. PICK r \in Runs : t.waiters[p] = <<r>>
      BY <1>3, <2>5 DEF Orderly, OneAtMost
    <3>4. Range(<<r>>) = {r} /\ Last(<<r>>) = r
      BY OneRun
    <3>6. v.proc[v.processRef] = "live" /\ \A q \in Runs : v.proc[q] \in Running => q = v.processRef
      BY <2>1, <3>2, <3>3, <3>4 DEF Running
    <3>7. QED
      BY <2>3, <3>1, <3>2, <3>6 DEF Orderly, v
  <2>6. QED
    BY <2>4, <2>5
<1>8. QED
  BY <1>6, <1>7

\* What an interrupt does to them.
LEMMA InterruptGood ==
  ASSUME NEW known \in SUBSET Runs, NEW w, GoodTurns(w, known), UnderWay(w),
         NEW v, v = [BaseKill(w, None) EXCEPT !.runnerRef = None, !.isRunning = FALSE]
  PROVE  GoodTurns(v, known) /\ UnderWay(v) /\ (Orderly(w) => Orderly(v))
<1> DEFINE u == BaseKill(w, None)
<1>1. GoodTurns(u, known) /\ Killed(w, None, u)
  <2>1. None \in known \cup {None}
    OBVIOUS
  <2>2. QED
    BY <2>1, BaseKillGood
<1> HIDE DEF u
<1>2. u \in TurnsOf(known) /\ w \in TurnsOf(known)
  BY <1>1 DEF GoodTurns
<1>3. /\ v \in TurnsOf(known) /\ v.runnerRef = None /\ v.isRunning = FALSE
      /\ v.proc = u.proc /\ v.processRef = u.processRef /\ v.kills = u.kills
      /\ v.exitResolver = u.exitResolver /\ v.waiters = u.waiters
  BY <1>2 DEF TurnsOf, u
<1>4. GoodTurns(v, known) /\ UnderWay(v)
  BY <1>1, <1>3 DEF GoodTurns, UnderWay
<1>5. ASSUME Orderly(w) PROVE Orderly(v)
  <2>1. \A r \in Runs : OneAtMost(v.waiters[r])
    BY <1>1, <1>3, <1>5 DEF Orderly, Killed
  <2>2. CASE w.processRef = None
    <3>1. v.proc = w.proc /\ v.processRef = None /\ v.exitResolver = w.exitResolver
      BY <1>1, <1>3, <2>2 DEF Killed
    <3>2. QED
      BY <1>5, <2>1, <2>2, <3>1 DEF Orderly
  <2>3. CASE w.processRef # None
    <3>1. /\ v.processRef = w.processRef /\ v.kills = Append(w.kills, None) /\ v.exitResolver
          /\ \A r \in Runs : v.proc[r] = IF r = w.processRef THEN "signalled" ELSE w.proc[r]
      BY <1>1, <1>3, <2>3 DEF Killed
    <3>2. w.processRef \in Runs /\ w.kills \in Seq(known \cup {None})
      BY <1>2, <2>3, Parts
    <3>3. Last(v.kills) = None
      BY <3>1, <3>2 DEF Last
    <3>4. v.proc[v.processRef] = "signalled"
      BY <3>1, <3>2
    <3>5. \A r \in Runs : v.proc[r] \in Running => r = v.processRef
      BY <1>5, <3>1 DEF Orderly, Running
    <3>6. QED
      BY <2>1, <2>3, <3>1, <3>3, <3>4, <3>5 DEF Orderly
  <2>4. QED
    BY <2>2, <2>3
<1>6. QED
  BY <1>4, <1>5
-----------------------------------------------------------------------------
(* Runs and the dispatches they were started for.                           *)

Asked == 1..started

AskedOnce ==
  /\ started \in 0..MaxPrompts + MaxDispatches
  /\ origin \in [Runs -> Dispatches \cup {None}]
  /\ \A r \in Runs \ Asked : origin[r] = None
  /\ Typed <= MaxPrompts
  /\ \A r, s \in Runs : origin[r] = origin[s] /\ origin[r] # None => r = s

IsNew(d) == \A r \in Runs : origin[r] # d

\* A dispatch that is queued or buffered has no run yet.
Inbox ==
  /\ received \in 0..MaxDispatches
  /\ \A r \in Runs : origin[r] <= received
  /\ queuedDispatch \in 0..received
  /\ queuedDispatch # None => IsNew(queuedDispatch)
  /\ IF subscribed THEN bufferedDispatches = <<>>
     ELSE /\ bufferedDispatches \in Seq(Dispatches) /\ Len(bufferedDispatches) = received
          /\ \A i \in 1..received : bufferedDispatches[i] = i
          /\ queuedDispatch = None /\ pendingDispatch.id = None
          /\ \A r \in Runs : origin[r] = None

\* The newest dispatch is buffered, queued or has its run.
NewestKept ==
  received > 0 /\ subscribed => queuedDispatch = received \/ \E r \in Runs : origin[r] = received

LEMMA TypedFinite ==
  ASSUME AskedOnce
  PROVE  /\ IsFiniteSet(1..started) /\ Cardinality(1..started) = started
         /\ IsFiniteSet({r \in 1..started : origin[r] = None})
         /\ Typed \in Nat
<1>1. started \in Nat
  BY Numbers DEF AskedOnce
<1>2. IsFiniteSet(1..started) /\ Cardinality(1..started) = started
  BY <1>1, FS_Interval
<1>3. {r \in 1..started : origin[r] = None} \in SUBSET (1..started)
  OBVIOUS
<1>4. IsFiniteSet({r \in 1..started : origin[r] = None})
  BY <1>2, <1>3, FS_Subset
<1>5. QED
  BY <1>2, <1>4, FS_CardinalityType DEF Typed

\* Runs are typed prompts, or have a dispatch each.
LEMMA Counting ==
  ASSUME AskedOnce, NEW D, IsFiniteSet(D),
         \A r \in Asked : origin[r] # None => origin[r] \in D
  PROVE  started <= Typed + Cardinality(D)
<1> DEFINE A == {r \in 1..started : origin[r] = None}
           B == {r \in 1..started : origin[r] # None}
           f == [r \in B |-> origin[r]]
<1>1. Asked \subseteq Runs
  BY Numbers DEF AskedOnce, Asked, Runs
<1>2. f \in [B -> D]
  BY DEF Asked
<1>3. \A r, s \in B : f[r] = f[s] => r = s
  BY <1>1 DEF AskedOnce, Asked
<1>4. f \in Injection(B, D)
  BY <1>2, <1>3 DEF Injection, IsInjective
<1>5. IsFiniteSet(B) /\ Cardinality(B) <= Cardinality(D)
  <2> HIDE DEF f, B
  <2>1. QED
    BY <1>4, FS_Injection
<1>6. A \cup B = 1..started /\ A \cap B = {}
  OBVIOUS
<1>7. IsFiniteSet(A) /\ IsFiniteSet(1..started) /\ Cardinality(1..started) = started
  BY TypedFinite
<1>8. Cardinality(A) = Typed
  BY DEF Typed
<1> HIDE DEF A, B, f
<1>9. Cardinality(A \cup B) = Cardinality(A) + Cardinality(B) - Cardinality(A \cap B)
  BY <1>5, <1>7, FS_Union
<1>10. Cardinality(A \cap B) = 0
  BY <1>6, FS_EmptySet
<1>11. Cardinality(A) \in Nat /\ Cardinality(B) \in Nat /\ Cardinality(D) \in Nat
  BY <1>5, <1>7, FS_CardinalityType
<1>12. Cardinality(A \cup B) = started
  BY <1>6, <1>7
<1>13. started \in Nat
  BY Numbers DEF AskedOnce
<1>14. QED
  BY <1>5, <1>8, <1>9, <1>10, <1>11, <1>12, <1>13

\* There is a number left for a prompt that may be typed and for a dispatch that has no run.
LEMMA RoomToAsk ==
  ASSUME AskedOnce, NEW d \in Dispatches \cup {None},
         d = None => Typed < MaxPrompts, d # None => IsNew(d)
  PROVE  started + 1 \in Runs \ Asked
<1>1. started \in Nat /\ MaxPrompts \in Nat /\ MaxDispatches \in Nat /\ Typed \in Nat
      /\ Typed <= MaxPrompts
  BY Numbers, TypedFinite DEF AskedOnce
<1>2. IsFiniteSet(Dispatches) /\ Cardinality(Dispatches) = MaxDispatches
  <2>1. 1 \in Int /\ MaxDispatches \in Int
    BY <1>1
  <2>2. /\ IsFiniteSet(1..MaxDispatches)
        /\ Cardinality(1..MaxDispatches) = IF 1 > MaxDispatches THEN 0 ELSE MaxDispatches - 1 + 1
    BY <2>1, FS_Interval
  <2>3. QED
    BY <1>1, <2>2 DEF Dispatches
<1>3. Asked \subseteq Runs
  BY Numbers DEF AskedOnce, Asked, Runs
<1>4. started < MaxPrompts + MaxDispatches
  <2>1. CASE d = None
    <3>1. \A r \in Asked : origin[r] # None => origin[r] \in Dispatches
      BY <1>3 DEF AskedOnce
    <3>2. started <= Typed + MaxDispatches
      BY <1>2, <3>1, Counting
    <3>3. QED
      BY <1>1, <2>1, <3>2
  <2>2. CASE d # None
    <3> DEFINE D == Dispatches \ {d}
    <3>1. \A r \in Asked : origin[r] # None => origin[r] \in D
      BY <1>3, <2>2 DEF AskedOnce, IsNew
    <3>2. IsFiniteSet(D) /\ Cardinality(D) = MaxDispatches - 1
      BY <1>2, <2>2, FS_RemoveElement
    <3> HIDE DEF D
    <3>3. started <= Typed + Cardinality(D)
      BY <3>1, <3>2, Counting
    <3>4. QED
      BY <1>1, <3>2, <3>3
  <2>3. QED
    BY <2>1, <2>2
<1>5. QED
  BY <1>1, <1>4 DEF Runs, Asked

LEMMA AskOrigin ==
  ASSUME AskedOnce, NEW d \in Dispatches \cup {None},
         d = None => Typed < MaxPrompts, d # None => IsNew(d), Ask(d)
  PROVE  /\ started + 1 \in Runs \ Asked /\ started' = started + 1
         /\ \A r \in Runs : origin'[r] = IF r = started + 1 THEN d ELSE origin[r]
         /\ AskedOnce'
<1>1. started + 1 \in Runs \ Asked
  BY RoomToAsk
<1>2. started \in Nat /\ started' = started + 1 /\ started' <= MaxPrompts + MaxDispatches
  BY <1>1, Numbers DEF AskedOnce, Ask, Runs
<1>3. /\ origin' \in [Runs -> Dispatches \cup {None}]
      /\ \A r \in Runs : origin'[r] = IF r = started + 1 THEN d ELSE origin[r]
  BY <1>1 DEF AskedOnce, Ask
<1>4. \A r \in Runs \ Asked' : origin'[r] = None
  BY <1>2, <1>3 DEF Asked, AskedOnce, Runs
<1>5. origin[started + 1] = None
  BY <1>1 DEF AskedOnce
<1>6. \A r, s \in Runs : origin'[r] = origin'[s] /\ origin'[r] # None => r = s
  BY <1>1, <1>3, <1>5 DEF AskedOnce, IsNew
<1>7. Typed' <= MaxPrompts
  <2> DEFINE T == {r \in 1..started : origin[r] = None}
             n == started + 1
  <2>1. \A r \in 1..n : r \in Runs
    BY <1>1, <1>2, Numbers DEF Runs
  <2>2. IsFiniteSet(T) /\ Cardinality(T) = Typed /\ Typed \in Nat
    BY TypedFinite DEF Typed
  <2>3. (1..n) = (1..started) \cup {n} /\ n \notin 1..started
    BY <1>2
  <2>4. Typed' = Cardinality({r \in 1..n : origin'[r] = None})
    BY <1>2 DEF Typed
  <2>5. CASE d = None
    <3>1. {r \in 1..n : origin'[r] = None} = T \cup {n}
      BY <1>3, <2>1, <2>3, <2>5
    <3>2. Cardinality(T \cup {n}) = Cardinality(T) + 1
      <4>1. n \notin T
        BY <2>3
      <4> HIDE DEF T, n
      <4>2. QED
        BY <2>2, <4>1, FS_AddElement
    <3>3. Typed < MaxPrompts /\ MaxPrompts \in Nat
      BY <2>5, Numbers
    <3>4. Typed' = Typed + 1
      BY <2>2, <2>4, <3>1, <3>2
    <3>5. QED
      BY <2>2, <3>3, <3>4
  <2>6. CASE d # None
    <3>1. {r \in 1..n : origin'[r] = None} = T
      BY <1>3, <2>1, <2>3, <2>6
    <3>2. QED
      BY <2>2, <2>4, <3>1 DEF AskedOnce
  <2>7. QED
    BY <2>5, <2>6
<1>8. QED
  BY <1>1, <1>2, <1>3, <1>4, <1>6, <1>7, Numbers DEF AskedOnce

\* What asking does to the dispatches that have a run.
LEMMA AskKeeps ==
  ASSUME AskedOnce, NEW d \in Dispatches \cup {None},
         d = None => Typed < MaxPrompts, d # None => IsNew(d), Ask(d)
  PROVE  /\ \E r \in Runs : origin'[r] = d
         /\ \A e : e # d => (IsNew(e) => IsNew(e)')
         /\ \A e : e # None => ((\E r \in Runs : origin[r] = e) => (\E r \in Runs : origin'[r] = e))
         /\ \A n : d <= n /\ (\A r \in Runs : origin[r] <= n) => \A r \in Runs : origin'[r] <= n
<1>1. /\ started + 1 \in Runs \ Asked
      /\ \A r \in Runs : origin'[r] = IF r = started + 1 THEN d ELSE origin[r]
  BY AskOrigin
<1>2. origin[started + 1] = None
  BY <1>1 DEF AskedOnce
<1>3. \A r \in Runs : origin[r] # None => origin'[r] = origin[r]
  BY <1>1, <1>2
<1>4. \E r \in Runs : origin'[r] = d
  BY <1>1
<1>5. \A e : e # d => (IsNew(e) => IsNew(e)')
  BY <1>1 DEF IsNew
<1>6. \A e : e # None => ((\E r \in Runs : origin[r] = e) => (\E r \in Runs : origin'[r] = e))
  BY <1>3
<1>7. \A n : d <= n /\ (\A r \in Runs : origin[r] <= n) => \A r \in Runs : origin'[r] <= n
  BY <1>1
<1>8. QED
  BY <1>4, <1>5, <1>6, <1>7

LEMMA OnTurnDispatchSteps ==
  ASSUME NEW ds, OnTurnDispatch(ds)
  PROVE  \/ /\ Busy /\ UNCHANGED <<pendingDispatch, session>>
            /\ queuedDispatch' = IF ds = <<>> THEN queuedDispatch ELSE Last(ds)
         \/ /\ ~Busy /\ Ask(Head(ds)) /\ pendingDispatch' = [id |-> Head(ds), after |-> rendered]
            /\ queuedDispatch' = IF Tail(ds) = <<>> THEN queuedDispatch ELSE Last(Tail(ds))
BY DEF OnTurnDispatch, SubmitDispatchAsTurn

InboxVars == <<subscribed, bufferedDispatches, queuedDispatch, pendingDispatch, received>>

LEMMA InboxStutter ==
  ASSUME AskedOnce, Inbox, NewestKept, UNCHANGED <<origin, started, InboxVars>>
  PROVE  AskedOnce' /\ Inbox' /\ NewestKept'
<1>1. AskedOnce'
  BY DEF AskedOnce, Asked, Typed
<1>2. Inbox' /\ NewestKept'
  BY DEF Inbox, NewestKept, IsNew, InboxVars
<1>3. QED
  BY <1>1, <1>2

LEMMA InboxOnPrompt ==
  ASSUME AskedOnce, Inbox, NewestKept, SubmitPrompt
  PROVE  AskedOnce' /\ Inbox' /\ NewestKept'
<1>1. Typed < MaxPrompts /\ Ask(None) /\ UNCHANGED InboxVars
  BY DEF SubmitPrompt, chat, InboxVars
<1>2. None \in Dispatches \cup {None}
  OBVIOUS
<1>3. AskedOnce' /\ \A r \in Runs : origin'[r] = IF r = started + 1 THEN None ELSE origin[r]
  BY <1>1, <1>2, AskOrigin
<1>4. /\ \A e : e # None => (IsNew(e) => IsNew(e)')
      /\ \A e : e # None => ((\E r \in Runs : origin[r] = e) => (\E r \in Runs : origin'[r] = e))
  BY <1>1, <1>2, AskKeeps
<1>5. Inbox'
  BY <1>1, <1>3, <1>4, Numbers DEF Inbox, InboxVars
<1>6. NewestKept'
  <2>1. received' = received /\ subscribed' = subscribed /\ queuedDispatch' = queuedDispatch
    BY <1>1 DEF InboxVars
  <2>2. received > 0 => received # None
    BY DEF None
  <2>3. QED
    BY <1>4, <2>1, <2>2 DEF NewestKept
<1>7. QED
  BY <1>3, <1>5, <1>6

\* A new dispatch is queued if the session is busy, and asked for if not.
LEMMA InboxOnDispatch ==
  ASSUME AskedOnce, Inbox, NewestKept, Dispatch
  PROVE  AskedOnce' /\ Inbox' /\ NewestKept'
<1> DEFINE d == received + 1
<1>1. /\ received \in Nat /\ d \in Dispatches /\ d \in 0..MaxDispatches /\ d > 0 /\ d > received
      /\ received' = d /\ UNCHANGED subscribed
  BY Numbers DEF Dispatch, Inbox, Dispatches
<1>2. IsNew(d) /\ \A r \in Runs : origin[r] <= d
  <2>1. \A r \in Runs : origin[r] \in Nat /\ origin[r] <= received
    BY Numbers DEF AskedOnce, Inbox, Dispatches
  <2>2. QED
    BY <1>1, <2>1 DEF IsNew
<1>3. CASE ~subscribed
  <2>1. /\ bufferedDispatches' = Append(bufferedDispatches, d)
        /\ UNCHANGED <<session, queuedDispatch, pendingDispatch>>
    BY <1>3 DEF Dispatch
  <2>2. UNCHANGED <<origin, started>>
    BY <2>1 DEF session
  <2>3. AskedOnce'
    BY <2>2 DEF AskedOnce, Asked, Typed
  <2>4. /\ bufferedDispatches' \in Seq(Dispatches) /\ Len(bufferedDispatches') = d
        /\ \A i \in 1..d : bufferedDispatches'[i] = i
    BY <1>1, <1>3, <2>1 DEF Inbox
  <2>5. queuedDispatch = None /\ pendingDispatch.id = None /\ \A r \in Runs : origin[r] = None
    BY <1>3 DEF Inbox
  <2> HIDE DEF d
  <2>6. queuedDispatch' \in 0..d
    BY <1>1, <2>1, <2>5, Numbers
  <2>7. Inbox'
    BY <1>1, <1>2, <1>3, <2>1, <2>2, <2>4, <2>5, <2>6, Numbers DEF Inbox
  <2>8. NewestKept'
    BY <1>1, <1>3 DEF NewestKept
  <2>9. QED
    BY <2>3, <2>7, <2>8
<1>4. CASE subscribed
  <2>1. OnTurnDispatch(<<d>>) /\ UNCHANGED bufferedDispatches /\ bufferedDispatches = <<>>
    BY <1>4 DEF Dispatch, Inbox
  <2> HIDE DEF d
  <2>2. Head(<<d>>) = d /\ Tail(<<d>>) = <<>> /\ Last(<<d>>) = d /\ <<d>> # <<>>
    BY DEF Last
  <2>3. CASE Busy /\ UNCHANGED <<pendingDispatch, session>> /\ queuedDispatch' = d
    <3>1. UNCHANGED <<origin, started>>
      BY <2>3 DEF session
    <3>2. AskedOnce'
      BY <3>1 DEF AskedOnce, Asked, Typed
    <3>3. IsNew(queuedDispatch)' /\ queuedDispatch' \in 0..d
      BY <1>1, <1>2, <2>3, <3>1 DEF IsNew
    <3>4. Inbox'
      BY <1>1, <1>2, <1>4, <2>1, <3>1, <3>3 DEF Inbox
    <3>5. NewestKept'
      BY <1>1, <2>3 DEF NewestKept
    <3>6. QED
      BY <3>2, <3>4, <3>5
  <2>4. CASE Ask(d) /\ queuedDispatch' = queuedDispatch
    <3>1. d \in Dispatches \cup {None} /\ d # None
      BY <1>1 DEF None
    <3>2. AskedOnce'
      BY <1>2, <2>4, <3>1, AskOrigin
    <3>3. /\ \E r \in Runs : origin'[r] = d
          /\ \A e : e # d => (IsNew(e) => IsNew(e)')
          /\ \A n : d <= n /\ (\A r \in Runs : origin[r] <= n) => \A r \in Runs : origin'[r] <= n
      BY <1>2, <2>4, <3>1, AskKeeps
    <3>4. d <= d
      BY <1>1
    <3>5. \A r \in Runs : origin'[r] <= d
      BY <1>2, <3>3, <3>4
    <3>6. queuedDispatch' \in 0..d /\ queuedDispatch # d
      BY <1>1, <2>4 DEF Inbox
    <3>7. queuedDispatch' # None => IsNew(queuedDispatch)'
      BY <2>4, <3>3, <3>6 DEF Inbox, IsNew
    <3>8. Inbox'
      BY <1>1, <1>4, <2>1, <3>5, <3>6, <3>7 DEF Inbox, IsNew
    <3>9. NewestKept'
      BY <1>1, <3>3 DEF NewestKept
    <3>10. QED
      BY <3>2, <3>8, <3>9
  <2>5. QED
    BY <2>1, <2>2, <2>3, <2>4, OnTurnDispatchSteps
<1>5. QED
  BY <1>3, <1>4

\* Of the buffered dispatches the first is asked for, or none, and the last is queued.
LEMMA InboxOnSubscribe ==
  ASSUME AskedOnce, Inbox, NewestKept, Subscribe
  PROVE  AskedOnce' /\ Inbox' /\ NewestKept'
<1> DEFINE ds == bufferedDispatches
<1>1. /\ ~subscribed /\ subscribed' = TRUE /\ bufferedDispatches' = <<>> /\ received' = received
  BY DEF Subscribe
<1>2. /\ ds \in Seq(Dispatches) /\ Len(ds) = received /\ \A i \in 1..received : ds[i] = i
      /\ queuedDispatch = None /\ pendingDispatch.id = None /\ \A r \in Runs : origin[r] = None
      /\ received \in 0..MaxDispatches /\ received \in Nat
  BY <1>1, Numbers DEF Inbox
<1>3. CASE ds = <<>>
  <2>1. UNCHANGED <<session, queuedDispatch, pendingDispatch>>
    BY <1>3 DEF Subscribe
  <2>2. UNCHANGED <<origin, started>>
    BY <2>1 DEF session
  <2>3. AskedOnce'
    BY <2>2 DEF AskedOnce, Asked, Typed
  <2>4. received = 0
    BY <1>2, <1>3
  <2>5. Inbox'
    BY <1>1, <1>2, <2>1, <2>2 DEF Inbox
  <2>6. NewestKept'
    BY <1>1, <2>4 DEF NewestKept
  <2>7. QED
    BY <2>3, <2>5, <2>6
<1>4. CASE ds # <<>>
  <2>1. OnTurnDispatch(ds)
    BY <1>4 DEF Subscribe
  <2>2. received > 0 /\ Head(ds) = 1 /\ Last(ds) = received /\ 1 \in Dispatches
    BY <1>2, <1>4, Numbers DEF Last, Dispatches
  <2>3. Tail(ds) = <<>> => received = 1
    <3>1. Tail(ds) \in Seq(Dispatches) /\ Len(Tail(ds)) = received - 1
      BY <1>2, <1>4
    <3>2. Len(<<>>) = 0
      OBVIOUS
    <3>3. Tail(ds) = <<>> => received - 1 = 0
      BY <3>1, <3>2, Zenon
    <3>4. QED
      BY <1>2, <3>3
  <2>4. Tail(ds) # <<>> => received > 1 /\ Last(Tail(ds)) = received
    <3>1. Tail(ds) \in Seq(Dispatches) /\ Len(Tail(ds)) = received - 1
      BY <1>2, <1>4
    <3>2. \A i \in 1..received - 1 : Tail(ds)[i] = i + 1
      BY <1>2, <1>4
    <3>3. ASSUME Tail(ds) # <<>> PROVE received - 1 > 0
      BY <1>2, <3>1, <3>3
    <3>4. QED
      BY <1>2, <3>1, <3>2, <3>3 DEF Last
  <2> HIDE DEF ds
  <2>5. CASE Busy /\ UNCHANGED <<pendingDispatch, session>> /\ queuedDispatch' = received
    <3>1. UNCHANGED <<origin, started>>
      BY <2>5 DEF session
    <3>2. AskedOnce'
      BY <3>1 DEF AskedOnce, Asked, Typed
    <3>3. IsNew(queuedDispatch)' /\ queuedDispatch' \in 0..received
      BY <1>2, <2>2, <2>5, <3>1 DEF IsNew, None
    <3>4. Inbox'
      BY <1>1, <1>2, <3>1, <3>3 DEF Inbox
    <3>5. NewestKept'
      BY <1>1, <2>5 DEF NewestKept
    <3>6. QED
      BY <3>2, <3>4, <3>5
  <2>6. CASE /\ Ask(1)
             /\ queuedDispatch' = IF Tail(ds) = <<>> THEN queuedDispatch ELSE Last(Tail(ds))
    <3>1. 1 \in Dispatches \cup {None} /\ 1 # None /\ IsNew(1)
      BY <1>2, <2>2 DEF None, IsNew
    <3>2. AskedOnce'
      BY <2>6, <3>1, AskOrigin
    <3>3. /\ \E r \in Runs : origin'[r] = 1
          /\ \A e : e # 1 => (IsNew(e) => IsNew(e)')
          /\ \A n : 1 <= n /\ (\A r \in Runs : origin[r] <= n) => \A r \in Runs : origin'[r] <= n
      BY <2>6, <3>1, AskKeeps
    <3>4. \A r \in Runs : origin'[r] <= received
      <4>1. 1 <= received /\ \A r \in Runs : origin[r] <= received
        BY <1>2, <2>2 DEF Inbox
      <4>2. QED
        BY <3>3, <4>1
    <3>5. CASE Tail(ds) = <<>>
      <4>1. queuedDispatch' = None /\ received = 1
        BY <1>2, <2>3, <2>6, <3>5
      <4>2. Inbox' /\ NewestKept'
        BY <1>1, <1>2, <3>3, <3>4, <4>1 DEF Inbox, NewestKept, None
      <4>3. QED
        BY <3>2, <4>2
    <3>6. CASE Tail(ds) # <<>>
      <4>1. queuedDispatch' = received /\ received # 1 /\ received # None
        BY <1>2, <2>4, <2>6, <3>6 DEF None
      <4>2. IsNew(received)
        BY <1>2, <4>1 DEF IsNew
      <4>3. IsNew(queuedDispatch)'
        BY <3>3, <4>1, <4>2 DEF IsNew
      <4>4. Inbox' /\ NewestKept'
        BY <1>1, <1>2, <3>4, <4>1, <4>3 DEF Inbox, NewestKept
      <4>5. QED
        BY <3>2, <4>4
    <3>7. QED
      BY <3>5, <3>6
  <2>7. QED
    BY <1>4, <2>1, <2>2, <2>5, <2>6, OnTurnDispatchSteps DEF ds
<1>5. QED
  BY <1>3, <1>4

LEMMA InboxOnEffects ==
  ASSUME AskedOnce, Inbox, NewestKept, RunEffects
  PROVE  AskedOnce' /\ Inbox' /\ NewestKept'
<1>1. UNCHANGED <<subscribed, bufferedDispatches, received>>
  BY DEF RunEffects
<1>2. CASE /\ ~Busy /\ queuedDispatch # None /\ queuedDispatch' = None
           /\ SubmitDispatchAsTurn(queuedDispatch)
  <2> DEFINE d == queuedDispatch
  <2>1. /\ Ask(d) /\ d # None /\ IsNew(d) /\ d \in Nat /\ d <= received
        /\ received \in 0..MaxDispatches
    BY <1>2, Numbers DEF SubmitDispatchAsTurn, Inbox
  <2>2. d \in Dispatches \cup {None}
    BY <2>1, Numbers DEF Dispatches, None
  <2>3. subscribed /\ bufferedDispatches = <<>>
    BY <2>1 DEF Inbox
  <2> HIDE DEF d
  <2>4. AskedOnce'
    BY <2>1, <2>2, AskOrigin
  <2>5. /\ \E r \in Runs : origin'[r] = d
        /\ \A e : e # None => ((\E r \in Runs : origin[r] = e) => (\E r \in Runs : origin'[r] = e))
        /\ \A n : d <= n /\ (\A r \in Runs : origin[r] <= n) => \A r \in Runs : origin'[r] <= n
    BY <2>1, <2>2, AskKeeps
  <2>6. \A r \in Runs : origin'[r] <= received
    BY <2>1, <2>5 DEF Inbox
  <2>7. Inbox'
    BY <1>1, <1>2, <2>1, <2>3, <2>6 DEF Inbox, None
  <2>8. NewestKept'
    BY <1>1, <2>1, <2>5 DEF NewestKept, None, d
  <2>9. QED
    BY <2>4, <2>7, <2>8
<1>3. CASE pendingDispatch' = NoPending /\ UNCHANGED <<session, queuedDispatch>>
  <2>1. UNCHANGED <<origin, started>>
    BY <1>3 DEF session
  <2>2. AskedOnce'
    BY <2>1 DEF AskedOnce, Asked, Typed
  <2>3. pendingDispatch'.id = None
    BY <1>3 DEF NoPending
  <2>4. Inbox' /\ NewestKept'
    BY <1>1, <1>3, <2>1, <2>3 DEF Inbox, NewestKept, IsNew
  <2>5. QED
    BY <2>2, <2>4
<1>4. CASE UNCHANGED <<session, queuedDispatch, pendingDispatch>>
  BY <1>1, <1>4, InboxStutter DEF session, InboxVars
<1>5. QED
  BY <1>2, <1>3, <1>4 DEF RunEffects

LEMMA InboxStep ==
  ASSUME AskedOnce, Inbox, NewestKept, [Next]_vars
  PROVE  AskedOnce' /\ Inbox' /\ NewestKept'
<1>1. ASSUME NEW p \in Runs, Exit(p) PROVE UNCHANGED <<origin, started, InboxVars>>
  BY <1>1 DEF Exit, chat, InboxVars
<1>2. ASSUME NEW p \in Runs, Message(p) PROVE UNCHANGED <<origin, started, InboxVars>>
  BY <1>2 DEF Message, chat, session, InboxVars
<1>3. CASE KillTimesOut
  BY <1>3, InboxStutter DEF KillTimesOut, chat, InboxVars
<1>4. CASE Interrupt
  BY <1>4, InboxStutter DEF Interrupt, chat, InboxVars
<1>5. CASE Render
  BY <1>5, InboxStutter DEF Render, chat, session, InboxVars
<1>6. CASE UNCHANGED vars
  BY <1>6, InboxStutter DEF vars, chat, session, InboxVars
<1>7. QED
  BY <1>1, <1>2, <1>3, <1>4, <1>5, <1>6, InboxStutter, InboxOnPrompt, InboxOnDispatch,
     InboxOnSubscribe, InboxOnEffects DEF Next

-----------------------------------------------------------------------------
(* The controller under the actions of the specification.                   *)

TurnsInv ==
  /\ GoodTurns(turns, Asked) /\ UnderWay(turns)
  /\ rushed = {} => Orderly(turns)

\* A prompt or a dispatch is submitted: Ask(d) with a d that has no run.
Asks == \E d \in Dispatches \cup {None} :
          Ask(d) /\ (d = None => Typed < MaxPrompts) /\ (d # None => IsNew(d))

LEMMA AskedIsRuns ==
  ASSUME AskedOnce
  PROVE  Asked \in SUBSET Runs
BY Numbers DEF AskedOnce, Asked, Runs

LEMMA TurnsOnAsk ==
  ASSUME AskedOnce, TurnsInv, Asks
  PROVE  TurnsInv' /\ Asked' = Asked \cup {started + 1}
<1> DEFINE r == started + 1
<1>1. PICK d \in Dispatches \cup {None} :
        Ask(d) /\ (d = None => Typed < MaxPrompts) /\ (d # None => IsNew(d))
  BY DEF Asks
<1>2. r \in Runs \ Asked /\ started' = r /\ started \in Nat
  BY <1>1, AskOrigin, Numbers DEF AskedOnce
<1>3. Asked' = Asked \cup {r}
  BY <1>2 DEF Asked
<1>4. Asked \in SUBSET Runs
  BY AskedIsRuns
<1>5. turns' = StartTurn(turns, r)
  BY <1>1 DEF Ask
<1> HIDE DEF r
<1>6. GoodTurns(StartTurn(turns, r), Asked \cup {r}) /\ UnderWay(StartTurn(turns, r))
  BY <1>2, <1>4, StartTurnGood DEF TurnsInv
<1>7. ASSUME rushed' = {} PROVE Orderly(StartTurn(turns, r))
  <2>1. rushed = {} /\ NobodyWaits(turns)
    BY <1>1, <1>7 DEF Ask, NobodyWaits
  <2>2. QED
    BY <1>2, <1>4, <2>1, OrderlyStart DEF TurnsInv
<1>8. GoodTurns(turns, Asked)' /\ UnderWay(turns)' /\ (rushed' = {} => Orderly(turns)')
  <2>1. GoodTurns(turns', Asked') /\ UnderWay(turns') /\ (rushed' = {} => Orderly(turns'))
    BY <1>3, <1>5, <1>6, <1>7
  <2>2. QED
    BY <2>1 DEF GoodTurns, TurnsOf, UnderWay, Orderly, NobodyWaits
<1>9. QED
  BY <1>3, <1>8 DEF TurnsInv, r

LEMMA TurnsOnExit ==
  ASSUME AskedOnce, TurnsInv, NEW p \in Runs, Exit(p)
  PROVE  TurnsInv'
<1>1. turns.proc[p] \in Running /\ turns' = Finalize(turns, p) /\ UNCHANGED <<started, rushed>>
  BY DEF Exit, Running
<1>2. Asked \in SUBSET Runs /\ Asked' = Asked
  BY <1>1, AskedIsRuns DEF Asked
<1>3. GoodTurns(turns', Asked) /\ UnderWay(turns')
  BY <1>1, <1>2, FinalizeGood DEF TurnsInv
<1>4. rushed' = {} => Orderly(turns')
  BY <1>1, <1>2, OrderlyExit DEF TurnsInv
<1>5. QED
  BY <1>2, <1>3, <1>4 DEF TurnsInv, GoodTurns, TurnsOf, UnderWay, Orderly, NobodyWaits

LEMMA TurnsOnTimeout ==
  ASSUME AskedOnce, TurnsInv, KillTimesOut
  PROVE  TurnsInv'
<1> DEFINE u == [turns EXCEPT !.kills = Tail(@), !.exitResolver = FALSE]
           next == Head(turns.kills)
<1>1. /\ turns.kills # <<>> /\ turns' = KillReturns(u, next) /\ started' = started
      /\ rushed' = rushed \cup {"timeout"}
  BY DEF KillTimesOut
<1>2. Asked \in SUBSET Runs /\ Asked' = Asked
  BY <1>1, AskedIsRuns DEF Asked
<1>3. turns \in TurnsOf(Asked) /\ turns.kills \in Seq(Asked \cup {None})
  <2>1. turns \in TurnsOf(Asked)
    BY DEF TurnsInv, GoodTurns
  <2>2. QED
    BY <1>2, <2>1, Parts
<1>4. Tail(turns.kills) \in Seq(Asked \cup {None}) /\ next \in Asked \cup {None}
  BY <1>1, <1>3, SeqFacts
<1>5. /\ u \in TurnsOf(Asked) /\ u.proc = turns.proc
      /\ u.isRunning = turns.isRunning /\ u.runnerRef = turns.runnerRef
  BY <1>3, <1>4 DEF TurnsOf
<1> HIDE DEF u, next
<1>6. (\A r \in Runs \ Asked : u.proc[r] = "none") /\ UnderWay(u)
  BY <1>5 DEF TurnsInv, GoodTurns, UnderWay
<1>7. GoodTurns(KillReturns(u, next), Asked) /\ UnderWay(KillReturns(u, next))
  BY <1>2, <1>4, <1>5, <1>6, KillReturnsGood
<1>8. rushed' # {}
  BY <1>1
<1>9. GoodTurns(turns', Asked') /\ UnderWay(turns')
  BY <1>1, <1>2, <1>7
<1>10. QED
  BY <1>8, <1>9 DEF TurnsInv, GoodTurns, TurnsOf, UnderWay

LEMMA TurnsOnInterrupt ==
  ASSUME AskedOnce, TurnsInv, Interrupt
  PROVE  TurnsInv'
<1>1. /\ turns' = [BaseKill(turns, None) EXCEPT !.runnerRef = None, !.isRunning = FALSE]
      /\ UNCHANGED <<started, rushed>>
  BY DEF Interrupt
<1>2. Asked \in SUBSET Runs /\ Asked' = Asked
  BY <1>1, AskedIsRuns DEF Asked
<1>3. GoodTurns(turns', Asked) /\ UnderWay(turns') /\ (Orderly(turns) => Orderly(turns'))
  BY <1>1, <1>2, InterruptGood DEF TurnsInv
<1>4. QED
  BY <1>1, <1>2, <1>3 DEF TurnsInv, GoodTurns, TurnsOf, UnderWay, Orderly, NobodyWaits

LEMMA TurnsStutter ==
  ASSUME TurnsInv, UNCHANGED <<turns, started, rushed>>
  PROVE  TurnsInv'
BY DEF TurnsInv, Asked, GoodTurns, TurnsOf, UnderWay, Orderly, NobodyWaits

\* The steps of the dispatches ask for a run or leave the controller alone.
LEMMA DispatchAsks ==
  ASSUME AskedOnce, Inbox, Dispatch \/ Subscribe \/ RunEffects \/ SubmitPrompt
  PROVE  Asks \/ UNCHANGED session
<1>1. CASE SubmitPrompt
  <2>1. Ask(None) /\ Typed < MaxPrompts
    BY <1>1 DEF SubmitPrompt
  <2>2. QED
    BY <2>1 DEF Asks
<1>2. CASE Dispatch
  <2> DEFINE d == received + 1
  <2>1. d \in Dispatches /\ received \in Nat /\ d # None
    BY <1>2, Numbers DEF Dispatch, Inbox, Dispatches, None
  <2>2. \A r \in Runs : origin[r] \in Nat /\ origin[r] <= received
    BY Numbers DEF AskedOnce, Inbox, Dispatches
  <2>3. IsNew(d)
    BY <2>1, <2>2 DEF IsNew
  <2>4. Head(<<d>>) = d
    OBVIOUS
  <2>5. OnTurnDispatch(<<d>>) \/ UNCHANGED session
    BY <1>2 DEF Dispatch
  <2> HIDE DEF d
  <2>6. Ask(d) \/ UNCHANGED session
    BY <2>4, <2>5, OnTurnDispatchSteps
  <2>7. QED
    BY <2>1, <2>3, <2>6 DEF Asks
<1>3. CASE Subscribe
  <2>1. CASE bufferedDispatches = <<>>
    BY <1>3, <2>1 DEF Subscribe
  <2>2. CASE bufferedDispatches # <<>>
    <3>1. /\ bufferedDispatches \in Seq(Dispatches) /\ Len(bufferedDispatches) = received
          /\ \A i \in 1..received : bufferedDispatches[i] = i
          /\ \A r \in Runs : origin[r] = None
      BY <1>3 DEF Subscribe, Inbox
    <3>2. Head(bufferedDispatches) = 1 /\ 1 \in Dispatches
      BY <2>2, <3>1
    <3>3. IsNew(1) /\ 1 # None
      BY <3>1 DEF IsNew, None
    <3>4. Ask(1) \/ UNCHANGED session
      BY <1>3, <2>2, <3>2, OnTurnDispatchSteps DEF Subscribe
    <3>5. QED
      BY <3>2, <3>3, <3>4 DEF Asks
  <2>3. QED
    BY <2>1, <2>2
<1>4. CASE RunEffects
  <2>1. CASE queuedDispatch # None /\ SubmitDispatchAsTurn(queuedDispatch)
    <3>1. Ask(queuedDispatch) /\ IsNew(queuedDispatch)
      BY <2>1 DEF SubmitDispatchAsTurn, Inbox
    <3>2. queuedDispatch \in Dispatches
      BY <2>1, Numbers DEF Inbox, Dispatches, None
    <3>3. QED
      BY <2>1, <3>1, <3>2 DEF Asks
  <2>2. CASE UNCHANGED session
    BY <2>2
  <2>3. QED
    BY <1>4, <2>1, <2>2 DEF RunEffects
<1>5. QED
  BY <1>1, <1>2, <1>3, <1>4

LEMMA TurnsStep ==
  ASSUME AskedOnce, Inbox, TurnsInv, [Next]_vars
  PROVE  TurnsInv'
<1>1. CASE Dispatch \/ Subscribe \/ RunEffects \/ SubmitPrompt
  <2>1. Asks \/ UNCHANGED session
    BY <1>1, DispatchAsks
  <2>2. QED
    BY <2>1, TurnsOnAsk, TurnsStutter DEF session
<1>2. ASSUME NEW p \in Runs, Message(p) PROVE TurnsInv'
  BY <1>2, TurnsStutter DEF Message, session
<1>3. CASE Render
  BY <1>3, TurnsStutter DEF Render, session
<1>4. CASE UNCHANGED vars
  BY <1>4, TurnsStutter DEF vars, session
<1>5. QED
  BY <1>1, <1>2, <1>3, <1>4, TurnsOnExit, TurnsOnTimeout, TurnsOnInterrupt DEF Next
-----------------------------------------------------------------------------
(* The answer of a session that nobody touches.                             *)

UiInv ==
  /\ feed \in Seq(Asked) /\ rendered \in 0..Len(feed) /\ pendingDispatch.after \in 0..rendered
  /\ pendingDispatch.id \in Dispatches \cup {None}
  /\ answered \in [Dispatches -> Asked \cup {None}]
  /\ interrupts \in Nat

\* No kill is under way: the run that was asked for last runs, or none does.
Calm(w, last) ==
  /\ w.kills = <<>> /\ ~w.exitResolver /\ NobodyWaits(w)
  /\ w.runnerRef = w.processRef /\ (w.isRunning <=> w.processRef # None)
  /\ w.processRef \in {None, last}
  /\ \A r \in Runs : w.proc[r] \in Running => r = w.processRef

Undisturbed == interrupts = 0 /\ \A r \in Asked : origin[r] # None

\* The pending dispatch is the one of the last run, and what has been in the feed since it
\* was put in is from that run.
PendingIsLast ==
  pendingDispatch.id # None =>
    /\ started > 0 /\ origin[started] = pendingDispatch.id
    /\ \A i \in 1..Len(feed) : i > pendingDispatch.after => feed[i] = started

\* A session that is rendered idle is idle, and its last message is rendered, unless a
\* dispatch has been submitted since.
IdleIsIdle ==
  ~shown /\ (pendingDispatch.id = None \/ HasReply) => ~turns.isRunning /\ rendered = Len(feed)

AnswersAreOwn ==
  \A d \in Dispatches : answered[d] # None => origin[answered[d]] = d

Own == Undisturbed => Calm(turns, started) /\ PendingIsLast /\ IdleIsIdle /\ AnswersAreOwn

LEMMA CalmStart ==
  ASSUME NEW known \in SUBSET Runs, NEW w, GoodTurns(w, known), UnderWay(w), NEW last,
         Calm(w, last), ~w.isRunning, NEW r \in Runs \ known
  PROVE  Calm(StartTurn(w, r), r)
<1> DEFINE v == StartTurn(w, r)
<1>1. /\ w.processRef = None /\ w.runnerRef = None
      /\ \A q \in Runs : w.proc[q] \notin Running
  BY Numbers DEF Calm
<1>2. /\ Spawned(w, <<r>>, v) /\ v.waiters = w.waiters /\ v.runnerRef = r /\ v.isRunning
  BY <1>1, StartTurnGood
<1> HIDE DEF v
<1>3. Last(<<r>>) = r /\ Range(<<r>>) = {r} /\ r # None
  BY OneRun, Numbers
<1>4. /\ v.processRef = r /\ v.kills = w.kills /\ v.exitResolver = w.exitResolver
      /\ \A q \in Runs : v.proc[q] = IF q = r THEN "live" ELSE w.proc[q]
  BY <1>1, <1>2, <1>3 DEF Spawned
<1>5. QED
  BY <1>1, <1>2, <1>3, <1>4 DEF Calm, NobodyWaits, v

LEMMA CalmExit ==
  ASSUME NEW known \in SUBSET Runs, NEW w, GoodTurns(w, known), UnderWay(w), NEW last,
         Calm(w, last), NEW p \in Runs, w.proc[p] \in Running
  PROVE  Calm(Finalize(w, p), last) /\ ~Finalize(w, p).isRunning
<1> DEFINE v == Finalize(w, p)
<1>1. PICK t : GoodTurns(t, known) /\ Told(w, p, t) /\ Freed(t, p, v)
  BY FinalizeGood
<1> HIDE DEF v
<1>2. p = w.processRef /\ w.runnerRef = p /\ p # None
  BY Numbers DEF Calm
<1>3. /\ t.runnerRef = p /\ t.waiters = w.waiters /\ t.kills = <<>> /\ ~t.exitResolver
      /\ t.processRef = None
      /\ \A r \in Runs : t.proc[r] = IF r = p THEN "exited" ELSE w.proc[r]
  BY <1>1, <1>2 DEF Told, Calm
<1>4. \A r \in Runs : t.waiters[r] = <<>>
  BY <1>3 DEF Calm, NobodyWaits
<1>5. /\ v.proc = t.proc /\ v.processRef = None /\ v.kills = <<>> /\ ~v.exitResolver
      /\ v.runnerRef = None /\ v.isRunning = FALSE /\ \A r \in Runs : v.waiters[r] = <<>>
  BY <1>1, <1>3, <1>4 DEF Freed
<1>6. \A r \in Runs : v.proc[r] \notin Running
  BY <1>2, <1>3, <1>5 DEF Calm, Running
<1>7. QED
  BY <1>5, <1>6 DEF Calm, NobodyWaits, v

\* A dispatch is submitted in a session that is rendered idle.
LEMMA OwnOnSubmit ==
  ASSUME AskedOnce, TurnsInv, UiInv, Own, NEW d \in Dispatches, Ask(d), IsNew(d), ~Busy,
         pendingDispatch' = [id |-> d, after |-> rendered],
         UNCHANGED <<shown, feed, rendered, answered, interrupts>>
  PROVE  UiInv' /\ Own'
<1>1. d # None /\ d \in Dispatches \cup {None}
  BY DEF None, Dispatches
<1>2. /\ started + 1 \in Runs \ Asked /\ started' = started + 1 /\ started \in Nat
      /\ \A r \in Runs : origin'[r] = IF r = started + 1 THEN d ELSE origin[r]
  BY <1>1, AskOrigin, Numbers DEF AskedOnce
<1>3. Asked' = Asked \cup {started + 1} /\ Asked \in SUBSET Runs
  BY <1>2, AskedIsRuns DEF Asked
<1>4. pendingDispatch'.id = d /\ pendingDispatch'.after = rendered
  OBVIOUS
<1>5. Seq(Asked) \subseteq Seq(Asked')
  BY <1>3
<1>6. UiInv'
  BY <1>3, <1>4, <1>5 DEF UiInv
<1>7. SUFFICES ASSUME Undisturbed' PROVE (Calm(turns, started) /\ PendingIsLast /\ IdleIsIdle /\ AnswersAreOwn)'
  BY <1>6 DEF Own
<1>8. Undisturbed
  <2>1. \A r \in Asked : origin[r] # None
    BY <1>2, <1>3, <1>7 DEF Undisturbed
  <2>2. QED
    BY <1>7, <2>1 DEF Undisturbed
<1>9. ~turns.isRunning /\ rendered = Len(feed)
  BY <1>8 DEF Own, IdleIsIdle, Busy
<1>10. turns' = StartTurn(turns, started + 1)
  BY DEF Ask
<1>11. Calm(turns', started')
  BY <1>2, <1>3, <1>8, <1>9, <1>10, CalmStart DEF Own, TurnsInv
<1>12. PendingIsLast'
  <2>1. origin'[started'] = d /\ started' > 0
    BY <1>2
  <2>2. ~ \E i \in 1..Len(feed) : i > rendered
    BY <1>9 DEF UiInv
  <2>3. QED
    BY <1>4, <2>1, <2>2 DEF PendingIsLast
<1>13. IdleIsIdle'
  <2>1. ~(rendered > rendered)
    BY DEF UiInv
  <2>2. QED
    BY <1>1, <1>4, <2>1 DEF IdleIsIdle, HasReply
<1>14. AnswersAreOwn'
  <2>1. ASSUME NEW e \in Dispatches, answered[e] # None PROVE origin'[answered[e]] = e
    <3>1. answered[e] \in Asked /\ origin[answered[e]] = e
      BY <1>8, <2>1 DEF UiInv, Own, AnswersAreOwn
    <3>2. QED
      BY <1>2, <1>3, <3>1
  <2>2. QED
    BY <2>1 DEF AnswersAreOwn
<1>15. QED
  BY <1>11, <1>12, <1>13, <1>14 DEF Calm, NobodyWaits

OwnVars == <<turns, origin, started, pendingDispatch, shown, feed, rendered, answered, interrupts>>

LEMMA OwnStutter ==
  ASSUME UiInv, Own, UNCHANGED OwnVars
  PROVE  UiInv' /\ Own'
BY DEF UiInv, Own, OwnVars, Undisturbed, Asked, Calm, NobodyWaits, PendingIsLast, IdleIsIdle,
       HasReply, AnswersAreOwn

\* Who has not been touched still is not.
LEMMA UndisturbedStutter ==
  ASSUME Undisturbed', UNCHANGED <<origin, started, interrupts>>
  PROVE  Undisturbed
BY DEF Undisturbed, Asked

LEMMA OwnOnPrompt ==
  ASSUME AskedOnce, UiInv, SubmitPrompt
  PROVE  UiInv' /\ Own'
<1>1. Ask(None) /\ Typed < MaxPrompts /\ UNCHANGED <<ui, chat, interrupts>>
  BY DEF SubmitPrompt
<1>2. None \in Dispatches \cup {None}
  OBVIOUS
<1>3. /\ started + 1 \in Runs \ Asked /\ started' = started + 1 /\ started \in Nat
      /\ origin'[started + 1] = None
  BY <1>1, <1>2, AskOrigin, Numbers DEF AskedOnce
<1>4. Asked' = Asked \cup {started + 1}
  BY <1>3 DEF Asked
<1>5. Seq(Asked) \subseteq Seq(Asked')
  BY <1>4
<1>6. UiInv'
  BY <1>1, <1>4, <1>5 DEF UiInv, ui, chat
<1>7. ~Undisturbed'
  BY <1>3, <1>4 DEF Undisturbed
<1>8. QED
  BY <1>6, <1>7 DEF Own

LEMMA OwnOnTurnDispatch ==
  ASSUME AskedOnce, TurnsInv, UiInv, Own, NEW ds, OnTurnDispatch(ds),
         Head(ds) \in Dispatches, IsNew(Head(ds)),
         UNCHANGED <<shown, feed, rendered, answered, interrupts>>
  PROVE  UiInv' /\ Own'
<1>1. CASE UNCHANGED <<pendingDispatch, session>>
  BY <1>1, OwnStutter DEF OwnVars, session
<1>2. CASE ~Busy /\ Ask(Head(ds)) /\ pendingDispatch' = [id |-> Head(ds), after |-> rendered]
  BY <1>2, OwnOnSubmit
<1>3. QED
  BY <1>1, <1>2, OnTurnDispatchSteps

LEMMA OwnOnDispatch ==
  ASSUME AskedOnce, Inbox, TurnsInv, UiInv, Own, Dispatch
  PROVE  UiInv' /\ Own'
<1> DEFINE d == received + 1
<1>1. UNCHANGED <<shown, feed, rendered, answered, interrupts>>
  BY DEF Dispatch, ui
<1>2. d \in Dispatches /\ received \in Nat
  BY Numbers DEF Dispatch, Inbox, Dispatches
<1>3. \A r \in Runs : origin[r] \in Nat /\ origin[r] <= received
  BY Numbers DEF AskedOnce, Inbox, Dispatches
<1>4. IsNew(d) /\ Head(<<d>>) = d
  BY <1>2, <1>3 DEF IsNew
<1>5. OnTurnDispatch(<<d>>) \/ UNCHANGED <<session, pendingDispatch>>
  BY DEF Dispatch
<1> HIDE DEF d
<1>6. CASE OnTurnDispatch(<<d>>)
  BY <1>1, <1>2, <1>4, <1>6, OwnOnTurnDispatch
<1>7. CASE UNCHANGED <<session, pendingDispatch>>
  BY <1>1, <1>7, OwnStutter DEF OwnVars, session
<1>8. QED
  BY <1>5, <1>6, <1>7

LEMMA OwnOnSubscribe ==
  ASSUME AskedOnce, Inbox, TurnsInv, UiInv, Own, Subscribe
  PROVE  UiInv' /\ Own'
<1>1. UNCHANGED <<shown, feed, rendered, answered, interrupts>>
  BY DEF Subscribe, ui
<1>2. CASE bufferedDispatches = <<>>
  <2>1. UNCHANGED <<session, pendingDispatch>>
    BY <1>2 DEF Subscribe
  <2>2. QED
    BY <1>1, <2>1, OwnStutter DEF OwnVars, session
<1>3. CASE bufferedDispatches # <<>>
  <2>1. /\ bufferedDispatches \in Seq(Dispatches) /\ Len(bufferedDispatches) = received
        /\ \A r \in Runs : origin[r] = None
    BY DEF Subscribe, Inbox
  <2>2. Head(bufferedDispatches) \in Dispatches
    BY <1>3, <2>1
  <2>3. IsNew(Head(bufferedDispatches))
    BY <2>1, <2>2 DEF IsNew, Dispatches, None
  <2>4. OnTurnDispatch(bufferedDispatches)
    BY <1>3 DEF Subscribe
  <2>5. QED
    BY <1>1, <2>2, <2>3, <2>4, OwnOnTurnDispatch
<1>4. QED
  BY <1>2, <1>3

LEMMA OwnOnExit ==
  ASSUME AskedOnce, TurnsInv, UiInv, Own, NEW p \in Runs, Exit(p)
  PROVE  UiInv' /\ Own'
<1>1. /\ turns.proc[p] \in Running /\ turns' = Finalize(turns, p)
      /\ UNCHANGED <<origin, started, shown, feed, rendered, pendingDispatch, answered, interrupts>>
  BY DEF Exit, Running, ui, chat
<1>2. UiInv'
  BY <1>1 DEF UiInv, Asked
<1>3. SUFFICES ASSUME Undisturbed' PROVE (Calm(turns, started) /\ PendingIsLast /\ IdleIsIdle /\ AnswersAreOwn)'
  BY <1>2 DEF Own
<1>4. Undisturbed
  BY <1>1, <1>3, UndisturbedStutter
<1>5. Asked \in SUBSET Runs
  BY AskedIsRuns
<1>6. Calm(Finalize(turns, p), started) /\ ~Finalize(turns, p).isRunning
  BY <1>1, <1>4, <1>5, CalmExit DEF Own, TurnsInv
<1>7. Calm(turns', started') /\ ~turns'.isRunning
  BY <1>1, <1>6
<1>8. PendingIsLast' /\ AnswersAreOwn'
  BY <1>1, <1>4 DEF Own, PendingIsLast, AnswersAreOwn
<1>9. IdleIsIdle'
  BY <1>1, <1>4, <1>7 DEF Own, IdleIsIdle, HasReply
<1>10. QED
  BY <1>7, <1>8, <1>9 DEF Calm, NobodyWaits

LEMMA OwnOnTimeout ==
  ASSUME UiInv, Own, KillTimesOut
  PROVE  UiInv' /\ Own'
<1>1. /\ turns.kills # <<>>
      /\ UNCHANGED <<origin, started, shown, feed, rendered, pendingDispatch, answered, interrupts>>
  BY DEF KillTimesOut, ui, chat
<1>2. UiInv'
  BY <1>1 DEF UiInv, Asked
<1>3. ~Undisturbed
  BY <1>1 DEF Own, Calm
<1>4. ~Undisturbed'
  BY <1>1, <1>3, UndisturbedStutter
<1>5. QED
  BY <1>2, <1>4 DEF Own

LEMMA OwnOnInterrupt ==
  ASSUME UiInv, Interrupt
  PROVE  UiInv' /\ Own'
<1>1. /\ interrupts' = interrupts + 1 /\ interrupts \in Nat
      /\ UNCHANGED <<origin, started, shown, feed, rendered, pendingDispatch, answered>>
  BY DEF Interrupt, ui, chat, UiInv
<1>2. UiInv'
  BY <1>1 DEF UiInv, Asked
<1>3. ~Undisturbed'
  BY <1>1 DEF Undisturbed
<1>4. QED
  BY <1>2, <1>3 DEF Own

LEMMA OwnOnMessage ==
  ASSUME AskedOnce, TurnsInv, UiInv, Own, NEW p \in Runs, Message(p)
  PROVE  UiInv' /\ Own'
<1>1. /\ turns.proc[p] \in Running /\ feed' = Append(feed, p)
      /\ UNCHANGED <<turns, origin, started, shown, rendered, pendingDispatch, answered, interrupts>>
  BY DEF Message, Running, session, chat
<1>2. p \in Asked
  BY <1>1 DEF TurnsInv, GoodTurns, Running
<1>3. feed \in Seq(Asked) /\ feed' \in Seq(Asked) /\ Len(feed') = Len(feed) + 1
      /\ \A i \in 1..Len(feed') : feed'[i] = IF i = Len(feed) + 1 THEN p ELSE feed[i]
  BY <1>1, <1>2 DEF UiInv
<1>4. UiInv'
  BY <1>1, <1>3 DEF UiInv, Asked
<1>5. SUFFICES ASSUME Undisturbed' PROVE (Calm(turns, started) /\ PendingIsLast /\ IdleIsIdle /\ AnswersAreOwn)'
  BY <1>4 DEF Own
<1>6. Undisturbed
  BY <1>1, <1>5, UndisturbedStutter
<1>7. p = turns.processRef /\ p # None /\ p = started /\ turns.isRunning
  BY <1>1, <1>6, Numbers DEF Own, Calm
<1>8. PendingIsLast'
  <2>1. \A i \in 1..Len(feed') : i = Len(feed) + 1 \/ i \in 1..Len(feed)
    BY <1>3
  <2>2. QED
    BY <1>1, <1>3, <1>6, <1>7, <2>1 DEF Own, PendingIsLast
<1>9. IdleIsIdle'
  BY <1>1, <1>6, <1>7 DEF Own, IdleIsIdle, HasReply
<1>10. AnswersAreOwn' /\ Calm(turns, started)'
  BY <1>1, <1>6 DEF Own, AnswersAreOwn, Calm, NobodyWaits
<1>11. QED
  BY <1>8, <1>9, <1>10

LEMMA OwnOnRender ==
  ASSUME UiInv, Own, Render
  PROVE  UiInv' /\ Own'
<1>1. /\ shown' = turns.isRunning /\ rendered' = Len(feed)
      /\ UNCHANGED <<turns, origin, started, feed, pendingDispatch, answered, interrupts>>
  BY DEF Render, session, chat
<1>2. UiInv'
  <2>1. Len(feed) \in Nat
    BY DEF UiInv
  <2>2. rendered' \in 0..Len(feed) /\ pendingDispatch.after \in 0..rendered'
    BY <1>1, <2>1 DEF UiInv
  <2>3. QED
    BY <1>1, <2>2 DEF UiInv, Asked
<1>3. SUFFICES ASSUME Undisturbed' PROVE (Calm(turns, started) /\ PendingIsLast /\ IdleIsIdle /\ AnswersAreOwn)'
  BY <1>2 DEF Own
<1>4. Undisturbed
  BY <1>1, <1>3, UndisturbedStutter
<1>5. PendingIsLast' /\ AnswersAreOwn' /\ Calm(turns, started)'
  BY <1>1, <1>4 DEF Own, PendingIsLast, AnswersAreOwn, Calm, NobodyWaits
<1>6. IdleIsIdle'
  BY <1>1 DEF IdleIsIdle, HasReply
<1>7. QED
  BY <1>5, <1>6

LEMMA OwnOnEffects ==
  ASSUME AskedOnce, Inbox, TurnsInv, UiInv, Own, RunEffects
  PROVE  UiInv' /\ Own'
<1>1. UNCHANGED <<shown, feed, rendered, interrupts>>
  BY DEF RunEffects
<1>2. CASE /\ ~Busy /\ queuedDispatch # None /\ SubmitDispatchAsTurn(queuedDispatch)
           /\ UNCHANGED answered
  <2>1. queuedDispatch \in Dispatches /\ IsNew(queuedDispatch)
    BY <1>2, Numbers DEF Inbox, Dispatches, None
  <2>2. QED
    BY <1>1, <1>2, <2>1, OwnOnSubmit DEF SubmitDispatchAsTurn
<1>3. CASE /\ HasReply /\ answered' = [answered EXCEPT ![pendingDispatch.id] = ReplyRun]
           /\ pendingDispatch' = NoPending /\ UNCHANGED session
  <2> DEFINE d == pendingDispatch.id
  <2>1. UNCHANGED <<turns, origin, started>> /\ UNCHANGED Asked
    BY <1>3 DEF session, Asked
  <2>2. /\ d \in Dispatches /\ d # None /\ rendered \in 1..Len(feed)
        /\ rendered > pendingDispatch.after
    <3>1. rendered \in Nat /\ Len(feed) \in Nat /\ pendingDispatch.after \in Nat
      BY DEF UiInv
    <3>2. QED
      BY <1>3, <3>1 DEF HasReply, UiInv
  <2>3. ReplyRun \in Asked
    BY <2>2 DEF ReplyRun, UiInv
  <2>4. pendingDispatch'.id = None /\ pendingDispatch'.after = 0
    BY <1>3 DEF NoPending
  <2> HIDE DEF d
  <2>5. /\ answered' \in [Dispatches -> Asked \cup {None}]
        /\ \A e \in Dispatches : answered'[e] = IF e = d THEN ReplyRun ELSE answered[e]
    BY <1>3, <2>2, <2>3 DEF UiInv, d
  <2>6. UiInv'
    BY <1>1, <2>1, <2>4, <2>5 DEF UiInv
  <2>7. SUFFICES ASSUME Undisturbed' PROVE (Calm(turns, started) /\ PendingIsLast /\ IdleIsIdle /\ AnswersAreOwn)'
    BY <2>6 DEF Own
  <2>8. Undisturbed
    BY <1>1, <2>1, <2>7, UndisturbedStutter
  <2>9. feed[rendered] = started /\ origin[started] = d
    BY <2>2, <2>8 DEF Own, PendingIsLast, d
  <2>10. AnswersAreOwn'
    BY <2>1, <2>5, <2>8, <2>9 DEF Own, AnswersAreOwn, ReplyRun
  <2>11. PendingIsLast' /\ Calm(turns, started)'
    BY <2>1, <2>4, <2>8 DEF Own, PendingIsLast, Calm, NobodyWaits
  <2>12. IdleIsIdle'
    BY <1>1, <1>3, <2>1, <2>8 DEF Own, IdleIsIdle
  <2>13. QED
    BY <2>10, <2>11, <2>12
<1>4. CASE UNCHANGED <<session, pendingDispatch, answered>>
  BY <1>1, <1>4, OwnStutter DEF OwnVars, session
<1>5. QED
  BY <1>2, <1>3, <1>4 DEF RunEffects

LEMMA OwnStep ==
  ASSUME AskedOnce, Inbox, TurnsInv, UiInv, Own, [Next]_vars
  PROVE  UiInv' /\ Own'
<1>1. CASE UNCHANGED vars
  BY <1>1, OwnStutter DEF vars, session, ui, chat, OwnVars
<1>2. QED
  BY <1>1, OwnOnExit, OwnOnMessage, OwnOnTimeout, OwnOnPrompt, OwnOnInterrupt, OwnOnDispatch,
     OwnOnSubscribe, OwnOnRender, OwnOnEffects DEF Next

-----------------------------------------------------------------------------
(* The invariant, and what follows from it.                                 *)

SessionInv == AskedOnce /\ Inbox /\ NewestKept /\ TurnsInv /\ UiInv /\ Own

LEMMA Initially ==
  ASSUME Init
  PROVE  SessionInv
<1>1. /\ turns.proc = [r \in Runs |-> "none"] /\ turns.processRef = None /\ ~turns.exitResolver
      /\ turns.kills = <<>> /\ turns.runnerRef = None /\ turns.isRunning = FALSE
      /\ turns.waiters = [r \in Runs |-> <<>>]
  BY DEF Init
<1>2. /\ started = 0 /\ rendered = 0 /\ feed = <<>> /\ interrupts = 0 /\ received = 0
      /\ origin = [r \in Runs |-> None] /\ pendingDispatch.id = None /\ pendingDispatch.after = 0
      /\ bufferedDispatches = <<>> /\ queuedDispatch = None /\ subscribed = FALSE
      /\ answered = [d \in Dispatches |-> None]
  BY DEF Init, NoPending
<1>3. Asked = {}
  BY <1>2 DEF Asked
<1>4. AskedOnce
  <2>1. {r \in 1..started : origin[r] = None} = {}
    BY <1>2
  <2>2. Typed = 0
    BY <2>1, FS_EmptySet DEF Typed
  <2>3. QED
    BY <1>2, <2>2, Numbers DEF AskedOnce
<1>5. Inbox /\ NewestKept
  <2>1. bufferedDispatches \in Seq(Dispatches) /\ Len(bufferedDispatches) = received
    BY <1>2
  <2>2. QED
    BY <1>2, <2>1, Numbers DEF Inbox, NewestKept
<1>6. TurnsInv
  <2>1. turns \in TurnsOf(Asked)
    <3>1. <<>> \in Seq(Asked) /\ <<>> \in Seq(Asked \cup {None})
      OBVIOUS
    <3>2. QED
      BY <3>1 DEF Init, TurnsOf, ProcStates
  <2>2. GoodTurns(turns, Asked) /\ UnderWay(turns)
    BY <1>1, <2>1 DEF GoodTurns, UnderWay
  <2>3. \A r \in Runs : turns.proc[r] \notin Running /\ OneAtMost(turns.waiters[r])
    BY <1>1 DEF Running, OneAtMost
  <2>4. Orderly(turns)
    BY <1>1, <2>3 DEF Orderly
  <2>5. QED
    BY <2>2, <2>4 DEF TurnsInv
<1>7. UiInv
  <2>1. <<>> \in Seq(Asked) /\ Len(<<>>) = 0
    OBVIOUS
  <2>2. QED
    BY <1>2, <2>1 DEF UiInv
<1>8. Own
  <2>1. Calm(turns, started)
    BY <1>1 DEF Calm, NobodyWaits, Running
  <2>2. PendingIsLast /\ AnswersAreOwn
    BY <1>2 DEF PendingIsLast, AnswersAreOwn
  <2>3. Len(<<>>) = 0
    OBVIOUS
  <2>4. IdleIsIdle
    BY <1>1, <1>2, <2>3 DEF IdleIsIdle
  <2>5. QED
    BY <2>1, <2>2, <2>4 DEF Own
<1>9. QED
  BY <1>4, <1>5, <1>6, <1>7, <1>8 DEF SessionInv

LEMMA Invariance == Spec => []SessionInv
<1>1. Init => SessionInv
  BY Initially
<1>2. SessionInv /\ [Next]_vars => SessionInv'
  BY InboxStep, TurnsStep, OwnStep DEF SessionInv
<1>3. QED
  BY <1>1, <1>2, PTL DEF Spec

\* For any number of prompts, dispatches, interrupts and messages: the hook never keeps a
\* handle of a process that has exited, an exit resolver belongs to a call of kill() that
\* waits, and no more is rendered than there is (processRef and exitResolverRef of
\* useClaudeProcess).
THEOREM TypeCorrect == Spec => []TypeOK
<1>1. SessionInv => TypeOK
  <2> SUFFICES ASSUME SessionInv PROVE TypeOK
    OBVIOUS
  <2>1. /\ turns.proc \in [Runs -> ProcStates] /\ turns.processRef \in Asked \cup {None}
        /\ Asked \in SUBSET Runs
    BY Parts, AskedIsRuns DEF SessionInv, TurnsInv, GoodTurns
  <2>2. turns.processRef \in Alive \cup {None} /\ (turns.exitResolver => turns.kills # <<>>)
    BY <2>1 DEF SessionInv, TurnsInv, GoodTurns, Alive, Running
  <2>3. rendered <= Len(feed) /\ origin \in [Runs -> Dispatches \cup {None}]
    BY DEF SessionInv, UiInv, AskedOnce
  <2>4. QED
    BY <2>1, <2>2, <2>3 DEF TypeOK, ProcStates
<1>2. QED
  BY <1>1, Invariance, PTL

\* However prompts, exits, kills that time out and interrupts overtake each other, a session
\* shown as running has a run whose process is there or will be when a kill returns
\* (isRunning and runnerRef of useWorkflowSessionController).
THEOREM ShownCorrect == Spec => []ShownRunIsUnderWay
<1>1. SessionInv => ShownRunIsUnderWay
  BY DEF SessionInv, TurnsInv, UnderWay, ShownRunIsUnderWay, Running
<1>2. QED
  BY <1>1, Invariance, PTL

\* While no prompt overtakes another and no kill times out, there is one process at most, and
\* a process that was not signalled is the one the hook kills, the controller cancels and
\* the screen shows ("Kill existing process if running and wait for it to exit").
THEOREM OrderlyCorrect == Spec => []OrderlyOneProcess
<1>1. SessionInv => OrderlyOneProcess
  <2> SUFFICES ASSUME SessionInv, rushed = {}
               PROVE  /\ Cardinality(Alive) <= 1
                      /\ \A r \in Runs : turns.proc[r] = "live" =>
                           turns.processRef = r /\ turns.runnerRef = r /\ turns.isRunning
    BY DEF OrderlyOneProcess
  <2>1. Orderly(turns)
    BY DEF SessionInv, TurnsInv
  <2>2. Alive \in SUBSET {turns.processRef}
    BY <2>1 DEF Orderly, Alive, Running
  <2>3. Cardinality(Alive) <= 1
    <3> DEFINE S == {turns.processRef}
    <3>1. IsFiniteSet(S) /\ Cardinality(S) = 1
      BY FS_Singleton
    <3> HIDE DEF S
    <3>2. Cardinality(Alive) <= Cardinality(S)
      BY <2>2, <3>1, FS_Subset DEF S
    <3>3. QED
      BY <3>1, <3>2
  <2>4. \A r \in Runs : turns.proc[r] = "live" =>
           turns.processRef = r /\ turns.runnerRef = r /\ turns.isRunning
    BY <2>1, Numbers DEF Orderly, Running
  <2>5. QED
    BY <2>3, <2>4
<1>2. QED
  BY <1>1, Invariance, PTL

\* Whatever arrives before it, with it or while the session is busy, the dispatch that
\* arrived last is buffered, queued or has its run (onTurnDispatch, queuedDispatchRef).
THEOREM LatestCorrect == Spec => []LatestIsKept
<1>1. SessionInv => LatestIsKept
  <2> SUFFICES ASSUME SessionInv, received > 0
               PROVE  \/ received \in {queuedDispatch, pendingDispatch.id}
                      \/ \E i \in DOMAIN bufferedDispatches : bufferedDispatches[i] = received
                      \/ \E r \in Runs : origin[r] = received
    BY DEF LatestIsKept
  <2>1. CASE subscribed
    BY <2>1 DEF SessionInv, NewestKept
  <2>2. CASE ~subscribed
    <3>1. /\ bufferedDispatches \in Seq(Dispatches) /\ Len(bufferedDispatches) = received
          /\ \A i \in 1..received : bufferedDispatches[i] = i
          /\ received \in Nat
      BY <2>2, Numbers DEF SessionInv, Inbox
    <3>2. received \in DOMAIN bufferedDispatches /\ bufferedDispatches[received] = received
      BY <3>1
    <3>3. QED
      BY <3>2
  <2>3. QED
    BY <2>1, <2>2
<1>2. QED
  BY <1>1, Invariance, PTL

\* As long as nobody types or interrupts, the answer that is posted to a chat is a message
\* of the run that was started for its dispatch, for any number of dispatches and messages
\* (the effects of AppShell that complete pendingDispatch).
THEOREM AnswerCorrect == Spec => []UndisturbedAnswerIsOwn
<1>1. SessionInv => UndisturbedAnswerIsOwn
  <2> SUFFICES ASSUME SessionInv, Typed = 0, interrupts = 0
               PROVE  \A d \in Dispatches : answered[d] # None => origin[answered[d]] = d
    BY DEF UndisturbedAnswerIsOwn
  <2>1. IsFiniteSet({r \in 1..started : origin[r] = None})
    BY TypedFinite DEF SessionInv
  <2>2. {r \in 1..started : origin[r] = None} = {}
    BY <2>1, FS_EmptySet DEF Typed
  <2>3. Undisturbed
    BY <2>2 DEF Undisturbed, Asked
  <2>4. QED
    BY <2>3 DEF SessionInv, Own, AnswersAreOwn
<1>2. QED
  BY <1>1, Invariance, PTL

-----------------------------------------------------------------------------
(* CodexTurns: what the app server's runtime and the controllers keep, what *)
(* Codex does and the history of a session on it.                           *)

Phases == {"none", "waiting", "completion"} \cup Requests \cup Ended
BeforeTurn == {"none", "waiting", "plugins", "unload", "load", "thread"}

\* The prompts up to n have been asked for.
ServerOf(n) ==
  [phase : [Prompts -> Phases], awaits : [Prompts -> 0..n],
   running : BOOLEAN, manager : BOOLEAN, threadId : BOOLEAN, loaded : BOOLEAN,
   turnId : 0..n, pendingTurn : 0..n, runnerRef : 0..n,
   timers : SUBSET (1..n), early : SUBSET (1..n), crashed : BOOLEAN]

\* A turn that is pending has been asked for and is not over; one that completed early had
\* been pending.
GoodServer(s, n) ==
  /\ s \in ServerOf(n)
  /\ \A p \in Prompts : p > n => s.phase[p] = "none"
  /\ s.pendingTurn # Nil =>
       s.phase[s.pendingTurn] \in {"turn", "completion"} /\ s.pendingTurn \notin s.early
  /\ \A p \in Prompts : s.phase[p] \in BeforeTurn => p \notin s.early

LEMMA PromptNumbers ==
  /\ MaxCodexPrompts \in Nat /\ Nil = 0 /\ Nil \notin Prompts
  /\ \A p \in Prompts : p \in Nat /\ p > 0
  /\ \A n \in 0..MaxCodexPrompts : 1..n \subseteq Prompts /\ n \in Nat
BY CodexBoundsAssumption DEF Prompts, Nil

LEMMA ServerParts ==
  ASSUME NEW n \in 0..MaxCodexPrompts, NEW s \in ServerOf(n)
  PROVE  /\ s.phase \in [Prompts -> Phases] /\ s.awaits \in [Prompts -> 0..n]
         /\ s.running \in BOOLEAN /\ s.manager \in BOOLEAN /\ s.threadId \in BOOLEAN
         /\ s.loaded \in BOOLEAN /\ s.crashed \in BOOLEAN
         /\ s.turnId \in 0..n /\ s.pendingTurn \in 0..n /\ s.runnerRef \in 0..n
         /\ s.timers \in SUBSET (1..n) /\ s.early \in SUBSET (1..n)
BY DEF ServerOf

LEMMA PendingIsPrompt ==
  ASSUME NEW n \in 0..MaxCodexPrompts, NEW s, GoodServer(s, n), s.pendingTurn # Nil
  PROVE  s.pendingTurn \in Prompts
<1>1. s.pendingTurn \in 0..n /\ n \in Nat
  BY ServerParts, PromptNumbers DEF GoodServer
<1>2. s.pendingTurn \in 1..n
  BY <1>1, PromptNumbers
<1>3. QED
  BY <1>2, PromptNumbers

\* The largest of some prompts is one of them.
LEMMA MaxIsIn ==
  ASSUME NEW n \in Nat, NEW ps \in SUBSET (1..n), ps # {}
  PROVE  Max(ps) \in ps
<1> DEFINE R == OpToRel(<, Nat)
           T == {k \in Nat : \A q \in ps : q <= k}
<1>1. IsWellFoundedOn(R, Nat)
  BY NatLessThanWellFounded
<1>2. \A a, b \in Nat : a < b => <<a, b>> \in R
  BY DEF OpToRel
<1>3. T \subseteq Nat /\ n \in T
  OBVIOUS
<1>4. \E k \in T : \A m \in T : ~(<<m, k>> \in R)
  <2>1. T \subseteq Nat /\ T # {}
    BY <1>3
  <2> HIDE DEF R, T
  <2>2. QED
    BY ONLY <1>1, <2>1, WFMin
<1>5. PICK k \in T : \A m \in T : ~(<<m, k>> \in R)
  BY <1>4
<1>6. k \in Nat /\ \A q \in ps : q <= k
  OBVIOUS
<1>7. k \in ps
  <2> SUFFICES ASSUME k \notin ps PROVE FALSE
    OBVIOUS
  <2>1. PICK q \in ps : TRUE
    OBVIOUS
  <2>2. q \in Nat /\ q > 0 /\ q <= k
    BY <1>6
  <2>3. k - 1 \in Nat /\ k - 1 < k
    BY <1>6, <2>2
  <2>4. \A r \in ps : r <= k - 1
    BY <1>6
  <2>5. k - 1 \in T
    BY <2>3, <2>4
  <2>6. <<k - 1, k>> \in R
    <3> HIDE DEF R
    <3>1. QED
      BY <1>2, <1>6, <2>3
  <2>7. QED
    BY <1>5, <2>5, <2>6
<1>8. \E x \in ps : \A y \in ps : x >= y
  BY <1>6, <1>7
<1>9. QED
  BY <1>8 DEF Max

-----------------------------------------------------------------------------
(* Prompts begin and end.                                                   *)

\* What no beginning and no end of a prompt touches.
SameRest(s, t) ==
  /\ t.awaits = s.awaits /\ t.running = s.running /\ t.manager = s.manager
  /\ t.early = s.early /\ t.crashed = s.crashed

SamePending(s, t) ==
  t.turnId = s.turnId /\ t.pendingTurn = s.pendingTurn /\ t.timers = s.timers

Accepts(s) == s.running /\ s.pendingTurn = Nil
First(accepted) == IF accepted THEN "plugins" ELSE "failed"

\* The prompts ps begin.
Begun(s, ps, t) ==
  /\ SameRest(s, t) /\ SamePending(s, t)
  /\ \A p \in Prompts : t.phase[p] = IF p \in ps THEN First(Accepts(s)) ELSE s.phase[p]
  /\ ps = {} => t.runnerRef = s.runnerRef
  /\ ps # {} => t.runnerRef \in IF Accepts(s) THEN ps ELSE {Nil}

LEMMA StartRunsFacts ==
  ASSUME NEW n \in 0..MaxCodexPrompts, NEW s \in ServerOf(n), NEW ps \in SUBSET (1..n)
  PROVE  StartRuns(s, ps) \in ServerOf(n) /\ Begun(s, ps, StartRuns(s, ps))
<1> DEFINE t == StartRuns(s, ps)
           first == First(Accepts(s))
           phase == [p \in Prompts |-> IF p \in ps THEN first ELSE s.phase[p]]
           runner == IF ps = {} THEN s.runnerRef ELSE IF Accepts(s) THEN Max(ps) ELSE Nil
<1>1. t = [s EXCEPT !.phase = phase, !.runnerRef = runner]
  BY DEF StartRuns, First, Accepts
<1>2. s.phase \in [Prompts -> Phases] /\ s.runnerRef \in 0..n /\ n \in Nat
  BY ServerParts, PromptNumbers
<1>3. first \in Phases
  BY DEF First, Phases, Requests, Ended
<1>4. phase \in [Prompts -> Phases]
  BY <1>2, <1>3
<1>5. /\ ps = {} => runner = s.runnerRef
      /\ ps # {} => runner \in IF Accepts(s) THEN ps ELSE {Nil}
  BY <1>2, MaxIsIn
<1>6. runner \in 0..n
  <2>1. Nil \in 0..n /\ ps \subseteq 0..n
    BY <1>2, PromptNumbers
  <2> HIDE DEF runner
  <2>2. QED
    BY <1>2, <1>5, <2>1
<1>7. \A p \in Prompts : phase[p] = IF p \in ps THEN first ELSE s.phase[p]
  OBVIOUS
<1> HIDE DEF phase, runner, first
<1>8. /\ t \in ServerOf(n) /\ t.phase = phase /\ t.runnerRef = runner
      /\ t.awaits = s.awaits /\ t.running = s.running /\ t.manager = s.manager
      /\ t.early = s.early /\ t.crashed = s.crashed
      /\ t.turnId = s.turnId /\ t.pendingTurn = s.pendingTurn /\ t.timers = s.timers
  BY <1>1, <1>4, <1>6 DEF ServerOf
<1> HIDE DEF t
<1>9. Begun(s, ps, t)
  BY <1>5, <1>7, <1>8 DEF Begun, SameRest, SamePending, first
<1>10. QED
  BY <1>8, <1>9 DEF t

\* The prompts ps end, and what waited for them begins.
Over(s, ps, outcome, accepted, t) ==
  LET freed == {q \in Prompts : s.phase[q] = "waiting" /\ s.awaits[q] \in ps}
  IN  /\ SameRest(s, t)
      /\ \A p \in Prompts : t.phase[p] = IF p \in freed THEN First(accepted)
                                         ELSE IF p \in ps THEN outcome ELSE s.phase[p]
      /\ freed = {} => t.runnerRef = IF s.runnerRef \in ps THEN Nil ELSE s.runnerRef
      /\ freed # {} => t.runnerRef \in IF accepted THEN freed ELSE {Nil}

LEMMA ReturnFacts ==
  ASSUME NEW n \in 0..MaxCodexPrompts, NEW s \in ServerOf(n), NEW ps \in SUBSET Prompts,
         NEW outcome \in Ended, \A p \in Prompts : p > n => s.phase[p] = "none"
  PROVE  /\ Return(s, ps, outcome) \in ServerOf(n)
         /\ Over(s, ps, outcome, Accepts(s), Return(s, ps, outcome))
         /\ SamePending(s, Return(s, ps, outcome))
<1> DEFINE freed == {q \in Prompts : s.phase[q] = "waiting" /\ s.awaits[q] \in ps}
           phase == [p \in Prompts |-> IF p \in ps THEN outcome ELSE s.phase[p]]
           runner == IF freed # {} \/ s.runnerRef \in ps THEN Nil ELSE s.runnerRef
           u == [s EXCEPT !.phase = phase, !.runnerRef = runner]
           t == Return(s, ps, outcome)
<1>1. t = StartRuns(u, freed)
  BY DEF Return
<1>2. s.phase \in [Prompts -> Phases] /\ s.runnerRef \in 0..n /\ n \in Nat
  BY ServerParts, PromptNumbers
<1>3. phase \in [Prompts -> Phases]
  BY <1>2 DEF Phases
<1>4. runner \in 0..n
  BY <1>2, PromptNumbers
<1>5. \A p \in Prompts : phase[p] = IF p \in ps THEN outcome ELSE s.phase[p]
  OBVIOUS
<1>6. freed \in SUBSET (1..n)
  BY <1>2 DEF Prompts
<1> HIDE DEF phase
<1>7. /\ u \in ServerOf(n) /\ u.phase = phase /\ u.runnerRef = runner
      /\ u.awaits = s.awaits /\ u.running = s.running /\ u.manager = s.manager
      /\ u.early = s.early /\ u.crashed = s.crashed
      /\ u.turnId = s.turnId /\ u.pendingTurn = s.pendingTurn /\ u.timers = s.timers
  BY <1>3, <1>4 DEF ServerOf
<1> HIDE DEF u, t, freed, runner
<1>8. t \in ServerOf(n) /\ Begun(u, freed, t)
  BY <1>1, <1>6, <1>7, StartRunsFacts
<1>9. Accepts(u) = Accepts(s)
  BY <1>7 DEF Accepts
<1>10. \A p \in Prompts : t.phase[p] = IF p \in freed THEN First(Accepts(s))
                                       ELSE IF p \in ps THEN outcome ELSE s.phase[p]
  BY <1>5, <1>7, <1>8, <1>9 DEF Begun
<1>11. SameRest(s, t) /\ SamePending(s, t)
  BY <1>7, <1>8 DEF Begun, SameRest, SamePending
<1>12. /\ freed = {} => t.runnerRef = IF s.runnerRef \in ps THEN Nil ELSE s.runnerRef
       /\ freed # {} => t.runnerRef \in IF Accepts(s) THEN freed ELSE {Nil}
  BY <1>7, <1>8, <1>9 DEF Begun, runner
<1>13. Over(s, ps, outcome, Accepts(s), t)
  BY <1>10, <1>11, <1>12 DEF Over, freed
<1>14. QED
  BY <1>8, <1>11, <1>13 DEF t

\* No turn is pending any more.
Cleared(s, t) == t.turnId = Nil /\ t.pendingTurn = Nil /\ t.timers \subseteq s.timers

LEMMA ClearFacts ==
  ASSUME NEW n \in 0..MaxCodexPrompts, NEW s \in ServerOf(n)
  PROVE  /\ ClearPendingTurn(s) \in ServerOf(n) /\ Cleared(s, ClearPendingTurn(s))
         /\ SameRest(s, ClearPendingTurn(s)) /\ ClearPendingTurn(s).phase = s.phase
         /\ ClearPendingTurn(s).runnerRef = s.runnerRef
         /\ ClearPendingTurn(s).loaded = s.loaded /\ ClearPendingTurn(s).threadId = s.threadId
<1>1. n \in Nat /\ Nil \in 0..n
  BY PromptNumbers
<1>2. QED
  BY <1>1 DEF ClearPendingTurn, ServerOf, Cleared, SameRest

LEMMA ThrowFacts ==
  ASSUME NEW n \in 0..MaxCodexPrompts, NEW s \in ServerOf(n), NEW ps \in SUBSET Prompts,
         \A p \in Prompts : p > n => s.phase[p] = "none"
  PROVE  /\ Throw(s, ps) \in ServerOf(n)
         /\ Over(s, ps, "failed", s.running, Throw(s, ps))
         /\ Cleared(s, Throw(s, ps))
<1> DEFINE u == ClearPendingTurn(s)
           t == Return(u, ps, "failed")
<1>1. /\ u \in ServerOf(n) /\ Cleared(s, u) /\ SameRest(s, u) /\ u.phase = s.phase
      /\ u.runnerRef = s.runnerRef
  BY ClearFacts
<1>2. Throw(s, ps) = t /\ "failed" \in Ended
  BY DEF Throw, Ended
<1> HIDE DEF u, t
<1>3. t \in ServerOf(n) /\ Over(u, ps, "failed", Accepts(u), t) /\ SamePending(u, t)
  BY <1>1, <1>2, ReturnFacts DEF t
<1>4. Accepts(u) = s.running
  <2>1. s.running \in BOOLEAN
    BY ServerParts
  <2>2. QED
    BY <1>1, <2>1 DEF Accepts, Cleared, SameRest
<1>5. Over(s, ps, "failed", s.running, t)
  BY <1>1, <1>3, <1>4 DEF Over, SameRest
<1>6. Cleared(s, t)
  BY <1>1, <1>3 DEF Cleared, SamePending
<1>7. QED
  BY <1>2, <1>3, <1>5, <1>6

-----------------------------------------------------------------------------
(* One turn at a time.                                                      *)

Live(s) == {p \in Prompts : s.phase[p] \in Requests \cup {"completion"}}
Held(s) == {p \in Prompts : s.phase[p] = "waiting"}

\* At most one prompt is in progress and one waits for it.
Chain(s) ==
  /\ \A p, q \in Live(s) : p = q
  /\ \A p, q \in Held(s) : p = q
  /\ s.runnerRef # Nil => s.runnerRef \in Live(s)
  /\ \A q \in Held(s) : s.awaits[q] \in Live(s)

\* The turn of a prompt that awaits it is the pending one, or is over already.
Pending(s) ==
  /\ ~s.crashed => \A p \in Prompts :
       s.phase[p] = "turn" => s.pendingTurn = p \/ p \in s.early
  /\ \A p \in Prompts : s.phase[p] = "completion" => s.pendingTurn = p

NoTurn(s) == \A p \in Prompts : s.phase[p] \notin {"turn", "completion"}

\* No prompt goes back to a request before its turn, and none succeeds but those of ok.
Onward(s, ok, t) ==
  \A p \in Prompts :
    /\ t.phase[p] \in BeforeTurn => s.phase[p] \in BeforeTurn
    /\ t.phase[p] = "ok" => s.phase[p] = "ok" \/ p \in ok

LEMMA GoodAfterEnd ==
  ASSUME NEW n \in 0..MaxCodexPrompts, NEW s, GoodServer(s, n), NEW t \in ServerOf(n),
         NEW ps \in SUBSET Live(s), NEW outcome \in Ended, NEW b \in BOOLEAN,
         Over(s, ps, outcome, b, t),
         t.pendingTurn \in {Nil} \cup ({s.pendingTurn} \ ps)
  PROVE  GoodServer(t, n) /\ Onward(s, IF outcome = "ok" THEN ps ELSE {}, t)
<1> DEFINE freed == {q \in Prompts : s.phase[q] = "waiting" /\ s.awaits[q] \in ps}
<1>1. /\ \A p \in Prompts : t.phase[p] = IF p \in freed THEN First(b)
                                          ELSE IF p \in ps THEN outcome ELSE s.phase[p]
      /\ t.early = s.early
  BY DEF Over, SameRest
<1>2. First(b) \in {"plugins", "failed"} /\ outcome \in {"ok", "failed"}
  BY DEF First, Ended
<1>3. \A p \in freed : s.phase[p] = "waiting"
  OBVIOUS
<1>4. \A p \in ps : p \in Prompts /\ s.phase[p] \in Requests \cup {"completion"}
  BY DEF Live
<1> HIDE DEF freed
<1>5. \A p \in Prompts : p > n => t.phase[p] = "none"
  <2> SUFFICES ASSUME NEW p \in Prompts, p > n PROVE t.phase[p] = "none"
    OBVIOUS
  <2>1. s.phase[p] = "none"
    BY DEF GoodServer
  <2>2. p \notin freed /\ p \notin ps
    BY <1>3, <1>4, <2>1 DEF Requests
  <2>3. QED
    BY <1>1, <2>1, <2>2
<1>6. Onward(s, IF outcome = "ok" THEN ps ELSE {}, t)
  <2> SUFFICES ASSUME NEW p \in Prompts
               PROVE  /\ t.phase[p] \in BeforeTurn => s.phase[p] \in BeforeTurn
                      /\ t.phase[p] = "ok" => s.phase[p] = "ok"
                           \/ p \in IF outcome = "ok" THEN ps ELSE {}
    BY DEF Onward
  <2>1. CASE p \in freed
    BY <1>1, <1>2, <1>3, <2>1 DEF BeforeTurn
  <2>2. CASE p \notin freed /\ p \in ps
    BY <1>1, <1>2, <2>2 DEF BeforeTurn
  <2>3. CASE p \notin freed /\ p \notin ps
    BY <1>1, <2>3
  <2>4. QED
    BY <2>1, <2>2, <2>3
<1>7. \A p \in Prompts : t.phase[p] \in BeforeTurn => p \notin t.early
  BY <1>1, <1>6 DEF GoodServer, Onward
<1>8. ASSUME t.pendingTurn # Nil
      PROVE  /\ t.phase[t.pendingTurn] \in {"turn", "completion"}
             /\ t.pendingTurn \notin t.early
  <2>1. t.pendingTurn = s.pendingTurn /\ s.pendingTurn \notin ps
    BY <1>8
  <2>2. s.phase[s.pendingTurn] \in {"turn", "completion"} /\ s.pendingTurn \notin s.early
    BY <1>8, <2>1 DEF GoodServer
  <2>3. s.pendingTurn \in Prompts
    BY <1>8, <2>1, ServerParts, PromptNumbers
  <2>4. s.pendingTurn \notin freed
    BY <1>3, <2>2
  <2>5. QED
    BY <1>1, <2>1, <2>2, <2>3, <2>4
<1>9. QED
  BY <1>5, <1>6, <1>7, <1>8 DEF GoodServer

LEMMA ChainAfterEnd ==
  ASSUME NEW s, Chain(s), NEW t, NEW ps \in SUBSET Live(s), NEW outcome \in Ended,
         NEW b \in BOOLEAN, Over(s, ps, outcome, b, t)
  PROVE  Chain(t) /\ (ps # {} => NoTurn(t))
<1> DEFINE freed == {q \in Prompts : s.phase[q] = "waiting" /\ s.awaits[q] \in ps}
<1>1. /\ \A p \in Prompts : t.phase[p] = IF p \in freed THEN First(b)
                                          ELSE IF p \in ps THEN outcome ELSE s.phase[p]
      /\ freed = {} => t.runnerRef = IF s.runnerRef \in ps THEN Nil ELSE s.runnerRef
      /\ freed # {} => t.runnerRef \in IF b THEN freed ELSE {Nil}
      /\ t.awaits = s.awaits
  BY DEF Over, SameRest
<1>2. freed \subseteq Held(s)
  BY DEF Held
<1>3. CASE ps = {}
  <2>1. freed = {}
    BY <1>3
  <2>2. \A p \in Prompts : t.phase[p] = s.phase[p]
    BY <1>1, <1>3, <2>1
  <2>3. Live(t) = Live(s) /\ Held(t) = Held(s)
    BY <2>2 DEF Live, Held
  <2>4. t.runnerRef = s.runnerRef
    BY <1>1, <1>3, <2>1
  <2>5. QED
    BY <1>1, <1>3, <2>3, <2>4 DEF Chain
<1>4. CASE ps # {}
  <2>1. ps = Live(s)
    BY <1>4 DEF Chain
  <2>2. freed = Held(s)
    BY <1>2, <2>1 DEF Chain, Held
  <2>3. First(b) = IF b THEN "plugins" ELSE "failed"
    BY DEF First
  <2>4. outcome \in {"ok", "failed"}
    BY DEF Ended
  <2> HIDE DEF freed
  <2>5. ASSUME NEW p \in Prompts
        PROVE  /\ p \in Live(t) <=> p \in freed /\ b
               /\ p \notin Held(t)
               /\ t.phase[p] \notin {"turn", "completion"}
    <3>1. CASE p \in freed
      BY <1>1, <2>3, <3>1 DEF Live, Held, Requests
    <3>2. CASE p \notin freed /\ p \in ps
      BY <1>1, <2>4, <3>2 DEF Live, Held, Requests
    <3>3. CASE p \notin freed /\ p \notin ps
      BY <1>1, <2>1, <2>2, <3>3 DEF Live, Held, Requests
    <3>4. QED
      BY <3>1, <3>2, <3>3
  <2>6. Live(t) = (IF b THEN freed ELSE {}) /\ Held(t) = {}
    <3>1. Live(t) \subseteq Prompts /\ Held(t) \subseteq Prompts /\ freed \subseteq Prompts
      BY <2>2 DEF Live, Held
    <3>2. QED
      BY <2>5, <3>1
  <2>7. \A p, q \in freed : p = q
    BY <2>2 DEF Chain
  <2>8. t.runnerRef # Nil => t.runnerRef \in Live(t)
    <3>1. freed = {} => t.runnerRef = Nil
      BY <1>1, <2>1 DEF Chain
    <3>2. QED
      BY <1>1, <2>6, <3>1
  <2>9. QED
    BY <2>5, <2>6, <2>7, <2>8 DEF Chain, NoTurn
<1>5. QED
  BY <1>3, <1>4

LEMMA CalmIsPending ==
  ASSUME NEW s, NoTurn(s)
  PROVE  Pending(s)
BY DEF NoTurn, Pending

-----------------------------------------------------------------------------
(* The pending turn is rejected.                                            *)

\* Either its prompt fails, or nobody handles the rejection.
Rejected(s, t) ==
  /\ Cleared(s, t) /\ Onward(s, {}, t)
  /\ t.running = s.running /\ t.early = s.early
  /\ s.crashed => t.crashed
  /\ Chain(s) /\ Pending(s) => Chain(t) /\ Pending(t)
  /\ s.pendingTurn # Nil /\ ~t.crashed =>
       s.phase[s.pendingTurn] = "completion" /\ t.phase[s.pendingTurn] = "failed"

LEMMA RejectFacts ==
  ASSUME NEW n \in 0..MaxCodexPrompts, NEW s, GoodServer(s, n)
  PROVE  GoodServer(RejectPendingTurn(s), n) /\ Rejected(s, RejectPendingTurn(s))
<1> DEFINE t == RejectPendingTurn(s)
           c == ClearPendingTurn(s)
           p == s.pendingTurn
<1>1. /\ s \in ServerOf(n) /\ p \in 0..n
      /\ \A q \in Prompts : q > n => s.phase[q] = "none"
  BY ServerParts DEF GoodServer
<1>2. /\ c \in ServerOf(n) /\ Cleared(s, c) /\ SameRest(s, c) /\ c.phase = s.phase
      /\ c.runnerRef = s.runnerRef
  BY <1>1, ClearFacts
<1> HIDE DEF c
<1>3. GoodServer(c, n) /\ Onward(s, {}, c)
  BY <1>2 DEF GoodServer, Onward, Cleared, SameRest
<1>4. Chain(s) => Chain(c)
  BY <1>2 DEF Chain, Live, Held, SameRest
<1>5. CASE p = Nil
  <2>1. t = c
    BY <1>5 DEF t, c, RejectPendingTurn
  <2>2. Pending(s) => Pending(c)
    BY <1>2, <1>5 DEF Pending, Cleared, SameRest
  <2>3. Rejected(s, c)
    BY <1>2, <1>3, <1>4, <1>5, <2>2 DEF Rejected, SameRest
  <2>4. QED
    BY <1>3, <2>1, <2>3 DEF t
<1>6. CASE p # Nil /\ s.phase[p] = "turn"
  <2>1. t = [c EXCEPT !.crashed = TRUE]
    BY <1>6 DEF t, c, RejectPendingTurn
  <2> HIDE DEF t
  <2>2. /\ t \in ServerOf(n) /\ t.crashed = TRUE /\ t.phase = c.phase
        /\ t.awaits = c.awaits /\ t.running = c.running /\ t.early = c.early
        /\ t.turnId = c.turnId /\ t.pendingTurn = c.pendingTurn /\ t.timers = c.timers
        /\ t.runnerRef = c.runnerRef
    BY <1>2, <2>1 DEF ServerOf
  <2>3. GoodServer(t, n) /\ Onward(s, {}, t)
    BY <1>3, <2>2 DEF GoodServer, Onward
  <2>4. Chain(s) => Chain(t)
    BY <1>4, <2>2 DEF Chain, Live, Held
  <2>5. Chain(s) /\ Pending(s) => Pending(t)
    <3> SUFFICES ASSUME Pending(s), NEW q \in Prompts, s.phase[q] = "completion"
                 PROVE  FALSE
      BY <1>2, <2>2 DEF Pending
    <3>1. QED
      BY <1>6 DEF Pending
  <2>6. Rejected(s, t)
    BY <1>2, <2>2, <2>3, <2>4, <2>5 DEF Rejected, Cleared, SameRest
  <2>7. QED
    BY <2>3, <2>6 DEF t
<1>7. CASE p # Nil /\ s.phase[p] # "turn"
  <2>1. p \in Prompts /\ s.phase[p] = "completion"
    BY <1>1, <1>7, PromptNumbers DEF GoodServer
  <2>2. t = Throw(s, {p})
    BY <1>7 DEF t, RejectPendingTurn
  <2>3. t \in ServerOf(n) /\ Over(s, {p}, "failed", s.running, t) /\ Cleared(s, t)
    BY <1>1, <2>1, <2>2, ThrowFacts
  <2>4. {p} \in SUBSET Live(s) /\ "failed" \in Ended /\ s.running \in BOOLEAN
    BY <1>1, <2>1, ServerParts DEF Live, Ended
  <2> HIDE DEF t
  <2>5. GoodServer(t, n) /\ Onward(s, {}, t)
    <3>1. t.pendingTurn = Nil
      BY <2>3 DEF Cleared
    <3> HIDE DEF p
    <3>2. QED
      BY <2>3, <2>4, <3>1, GoodAfterEnd
  <2>6. Chain(s) => Chain(t) /\ Pending(t)
    <3> HIDE DEF p
    <3>1. Chain(s) => Chain(t) /\ ({p} # {} => NoTurn(t))
      BY <2>3, <2>4, ChainAfterEnd
    <3>2. QED
      BY <3>1, CalmIsPending
  <2>7. t.phase[p] = "failed"
    <3>1. s.phase[p] # "waiting"
      BY <2>1
    <3>2. QED
      BY <2>1, <2>3, <3>1 DEF Over
  <2>8. Rejected(s, t)
    BY <2>1, <2>3, <2>5, <2>6, <2>7 DEF Rejected, Over, SameRest
  <2>9. QED
    BY <2>5, <2>8 DEF t
<1>8. QED
  BY <1>5, <1>6, <1>7

-----------------------------------------------------------------------------
(* A request is answered.                                                   *)

\* p goes on to r.
Moved(s, p, r, t) ==
  /\ SameRest(s, t) /\ t.runnerRef = s.runnerRef /\ t.timers = s.timers
  /\ \A q \in Prompts : t.phase[q] = IF q = p THEN r ELSE s.phase[q]

Advanced(s, p, t) ==
  /\ s.phase[p] \in BeforeTurn
  /\ \E r \in {"unload", "load", "thread"} : Moved(s, p, r, t)
  /\ t.pendingTurn = s.pendingTurn /\ t.turnId \in {s.turnId, Nil}

TurnAsked(s, p, t) ==
  /\ s.phase[p] = "thread" /\ Moved(s, p, "turn", t)
  /\ t.pendingTurn = p /\ t.turnId = s.turnId

TurnAccepted(s, p, t) ==
  /\ s.phase[p] = "turn" /\ p \notin s.early /\ Moved(s, p, "completion", t)
  /\ t.pendingTurn = s.pendingTurn /\ t.turnId = p

\* turn/start is answered after the turn.
LateAnswer(s, p, t) ==
  /\ s.phase[p] = "turn" /\ p \in s.early /\ Over(s, {p}, "ok", Accepts(s), t)
  /\ t.pendingTurn = s.pendingTurn /\ t.timers = s.timers

Thrown(s, p, t) == Over(s, {p}, "failed", s.running, t) /\ Cleared(s, t)

Reaction(s, p, ok, t) ==
  \/ Thrown(s, p, t)
  \/ Advanced(s, p, t)
  \/ TurnAsked(s, p, t)
  \/ TurnAccepted(s, p, t)
  \/ ok /\ LateAnswer(s, p, t)

\* u is s but for what an answer tells.
Noted(s, u) ==
  /\ SameRest(s, u) /\ u.phase = s.phase /\ u.runnerRef = s.runnerRef /\ u.timers = s.timers

LEMMA ThrowNoted ==
  ASSUME NEW n \in 0..MaxCodexPrompts, NEW s, GoodServer(s, n), NEW u \in ServerOf(n), Noted(s, u),
         NEW p \in Live(s)
  PROVE  Throw(u, {p}) \in ServerOf(n) /\ Thrown(s, p, Throw(u, {p}))
<1> DEFINE t == Throw(u, {p})
<1>1. p \in Prompts /\ u.running = s.running /\ u.phase = s.phase
  BY DEF Live, Noted, SameRest
<1>2. \A q \in Prompts : q > n => u.phase[q] = "none"
  BY <1>1 DEF GoodServer
<1>3. t \in ServerOf(n) /\ Over(u, {p}, "failed", u.running, t) /\ Cleared(u, t)
  BY <1>1, <1>2, ThrowFacts
<1> HIDE DEF t
<1>4. Thrown(s, p, t)
  BY <1>1, <1>3 DEF Thrown, Over, Cleared, Noted, SameRest
<1>5. QED
  BY <1>3, <1>4 DEF t

LEMMA AwaitFacts ==
  ASSUME NEW n \in 0..MaxCodexPrompts, NEW s, GoodServer(s, n), NEW u \in ServerOf(n), Noted(s, u),
         NEW p \in Live(s), NEW r \in Requests
  PROVE  /\ Await(u, p, r) \in ServerOf(n)
         /\ \/ Thrown(s, p, Await(u, p, r))
            \/ /\ Moved(s, p, r, Await(u, p, r))
               /\ Await(u, p, r).pendingTurn = u.pendingTurn
               /\ Await(u, p, r).turnId = u.turnId
<1> DEFINE t == Await(u, p, r)
<1>1. CASE u.manager
  <2>1. t = [u EXCEPT !.phase[p] = r]
    BY <1>1 DEF Await
  <2>2. r \in Phases /\ u.phase \in [Prompts -> Phases] /\ p \in Prompts
    BY ServerParts DEF Phases, Live
  <2> HIDE DEF t
  <2>3. /\ t \in ServerOf(n) /\ t.phase = [u.phase EXCEPT ![p] = r]
        /\ t.awaits = u.awaits /\ t.running = u.running /\ t.manager = u.manager
        /\ t.early = u.early /\ t.crashed = u.crashed /\ t.runnerRef = u.runnerRef
        /\ t.timers = u.timers /\ t.pendingTurn = u.pendingTurn /\ t.turnId = u.turnId
    BY <2>1, <2>2 DEF ServerOf
  <2>4. \A q \in Prompts : t.phase[q] = IF q = p THEN r ELSE u.phase[q]
    BY <2>2, <2>3
  <2>5. Moved(s, p, r, t)
    BY <2>3, <2>4 DEF Moved, Noted, SameRest
  <2>6. QED
    BY <2>3, <2>5 DEF t
<1>2. CASE ~u.manager
  <2>1. t = Throw(u, {p})
    BY <1>2 DEF Await
  <2>2. QED
    BY <2>1, ThrowNoted
<1>3. QED
  BY <1>1, <1>2

LEMMA AnsweredFacts ==
  ASSUME NEW n \in 0..MaxCodexPrompts, NEW s, GoodServer(s, n), NEW p \in Prompts,
         s.phase[p] \in Requests, NEW ok \in BOOLEAN, NEW fresh \in BOOLEAN
  PROVE  /\ Answered(s, p, ok, fresh) \in ServerOf(n)
         /\ Reaction(s, p, ok, Answered(s, p, ok, fresh))
<1> DEFINE t == Answered(s, p, ok, fresh)
<1>1. p \in Live(s) /\ s \in ServerOf(n) /\ n \in Nat /\ Nil \in 0..n
  BY PromptNumbers DEF Live, GoodServer
<1>2. p \in 1..n
  BY <1>1 DEF GoodServer, Requests, Prompts
<1>3. Noted(s, s)
  BY DEF Noted, SameRest
<1>4. Throw(s, {p}) \in ServerOf(n) /\ Thrown(s, p, Throw(s, {p}))
  BY <1>1, <1>3, ThrowNoted
<1>5. CASE s.phase[p] = "plugins"
  <2> DEFINE r == IF s.loaded THEN "unload" ELSE "load"
  <2>1. t = IF ~ok THEN Throw(s, {p}) ELSE Await(s, p, r)
    BY <1>5 DEF Answered, PluginsEnsured
  <2>2. r \in Requests /\ r \in {"unload", "load", "thread"}
    BY DEF Requests
  <2> HIDE DEF r, t
  <2>3. /\ Await(s, p, r) \in ServerOf(n)
        /\ \/ Thrown(s, p, Await(s, p, r))
           \/ /\ Moved(s, p, r, Await(s, p, r))
              /\ Await(s, p, r).pendingTurn = s.pendingTurn
              /\ Await(s, p, r).turnId = s.turnId
    BY <1>1, <1>3, <2>2, AwaitFacts
  <2>4. t \in ServerOf(n) /\ (Thrown(s, p, t) \/ Advanced(s, p, t))
    BY <1>4, <1>5, <2>1, <2>2, <2>3 DEF Advanced, BeforeTurn
  <2>5. QED
    BY <2>4 DEF Reaction, t
<1>6. CASE s.phase[p] = "unload"
  <2> DEFINE u == [s EXCEPT !.loaded = FALSE]
  <2>1. t = IF ~s.loaded THEN Throw(s, {p}) ELSE Await(u, p, "load")
    BY <1>6 DEF Answered, AgentsUnloaded
  <2>2. u \in ServerOf(n) /\ Noted(s, u) /\ u.pendingTurn = s.pendingTurn /\ u.turnId = s.turnId
    BY <1>1 DEF ServerOf, Noted, SameRest
  <2>3. "load" \in Requests
    BY DEF Requests
  <2> HIDE DEF u, t
  <2>4. /\ Await(u, p, "load") \in ServerOf(n)
        /\ \/ Thrown(s, p, Await(u, p, "load"))
           \/ /\ Moved(s, p, "load", Await(u, p, "load"))
              /\ Await(u, p, "load").pendingTurn = u.pendingTurn
              /\ Await(u, p, "load").turnId = u.turnId
    BY <1>1, <2>2, <2>3, AwaitFacts
  <2>5. t \in ServerOf(n) /\ (Thrown(s, p, t) \/ Advanced(s, p, t))
    BY <1>4, <1>6, <2>1, <2>2, <2>4 DEF Advanced, BeforeTurn
  <2>6. QED
    BY <2>5 DEF Reaction, t
<1>7. CASE s.phase[p] = "load"
  <2> DEFINE u == [s EXCEPT !.loaded = @ \/ ok, !.threadId = @ /\ ~fresh,
                            !.turnId = IF fresh THEN Nil ELSE @]
  <2>1. t = Await(u, p, "thread")
    BY <1>7 DEF Answered, AgentsLoaded
  <2>2. /\ u \in ServerOf(n) /\ Noted(s, u) /\ u.pendingTurn = s.pendingTurn
        /\ u.turnId \in {s.turnId, Nil}
    BY <1>1 DEF ServerOf, Noted, SameRest
  <2>3. "thread" \in Requests
    BY DEF Requests
  <2> HIDE DEF u, t
  <2>4. /\ Await(u, p, "thread") \in ServerOf(n)
        /\ \/ Thrown(s, p, Await(u, p, "thread"))
           \/ /\ Moved(s, p, "thread", Await(u, p, "thread"))
              /\ Await(u, p, "thread").pendingTurn = u.pendingTurn
              /\ Await(u, p, "thread").turnId = u.turnId
    BY <1>1, <2>2, <2>3, AwaitFacts
  <2>5. t \in ServerOf(n) /\ (Thrown(s, p, t) \/ Advanced(s, p, t))
    BY <1>7, <2>1, <2>2, <2>4 DEF Advanced, BeforeTurn
  <2>6. QED
    BY <2>5 DEF Reaction, t
<1>8. CASE s.phase[p] = "thread"
  <2> DEFINE u == [s EXCEPT !.threadId = TRUE, !.pendingTurn = p]
  <2>0. p \in 0..n
    BY <1>1, <1>2
  <2>1. t = IF ~ok THEN Throw(s, {p}) ELSE Await(u, p, "turn")
    BY <1>8 DEF Answered, ThreadAnswered
  <2>2. u \in ServerOf(n) /\ Noted(s, u) /\ u.pendingTurn = p /\ u.turnId = s.turnId
    BY <1>1, <2>0 DEF ServerOf, Noted, SameRest
  <2>3. "turn" \in Requests
    BY DEF Requests
  <2> HIDE DEF u, t
  <2>4. /\ Await(u, p, "turn") \in ServerOf(n)
        /\ \/ Thrown(s, p, Await(u, p, "turn"))
           \/ /\ Moved(s, p, "turn", Await(u, p, "turn"))
              /\ Await(u, p, "turn").pendingTurn = u.pendingTurn
              /\ Await(u, p, "turn").turnId = u.turnId
    BY <1>1, <2>2, <2>3, AwaitFacts
  <2>5. t \in ServerOf(n) /\ (Thrown(s, p, t) \/ TurnAsked(s, p, t))
    BY <1>4, <1>8, <2>1, <2>2, <2>4 DEF TurnAsked
  <2>6. QED
    BY <2>5 DEF Reaction, t
<1>9. CASE s.phase[p] = "turn"
  <2> DEFINE u == [s EXCEPT !.turnId = p]
  <2>1. t = IF ~ok THEN Throw(s, {p})
            ELSE IF p \in u.early THEN Return(u, {p}, "ok")
            ELSE [u EXCEPT !.phase[p] = "completion"]
    <3>1. t = TurnAnswered(s, p, ok)
      BY <1>9 DEF Answered
    <3>2. u.early = s.early
      BY <1>1 DEF ServerOf
    <3>3. QED
      BY <3>1, <3>2 DEF TurnAnswered
  <2>2. /\ u \in ServerOf(n) /\ Noted(s, u) /\ u.pendingTurn = s.pendingTurn /\ u.turnId = p
        /\ u.early = s.early /\ u.phase = s.phase
    BY <1>1, <1>2 DEF ServerOf, Noted, SameRest
  <2> HIDE DEF u, t
  <2>3. CASE ~ok
    BY <1>4, <2>1, <2>3 DEF Reaction, t
  <2>4. CASE ok /\ p \in s.early
    <3>1. t = Return(u, {p}, "ok")
      BY <2>1, <2>2, <2>4
    <3>2. \A q \in Prompts : q > n => u.phase[q] = "none"
      BY <2>2 DEF GoodServer
    <3>3. /\ t \in ServerOf(n) /\ Over(u, {p}, "ok", Accepts(u), t) /\ SamePending(u, t)
      BY <2>2, <3>1, <3>2, ReturnFacts DEF Ended
    <3>4. Accepts(u) = Accepts(s)
      BY <2>2 DEF Accepts, Noted, SameRest
    <3>5. LateAnswer(s, p, t)
      BY <1>9, <2>2, <2>4, <3>3, <3>4 DEF LateAnswer, Over, SamePending, Noted, SameRest
    <3>6. QED
      BY <2>4, <3>3, <3>5 DEF Reaction, t
  <2>5. CASE ok /\ p \notin s.early
    <3>1. t = [u EXCEPT !.phase[p] = "completion"]
      BY <2>1, <2>2, <2>5
    <3>2. "completion" \in Phases /\ u.phase \in [Prompts -> Phases]
      BY <2>2, ServerParts DEF Phases
    <3>3. /\ t \in ServerOf(n) /\ t.phase = [u.phase EXCEPT ![p] = "completion"]
          /\ t.awaits = u.awaits /\ t.running = u.running /\ t.manager = u.manager
          /\ t.early = u.early /\ t.crashed = u.crashed /\ t.runnerRef = u.runnerRef
          /\ t.timers = u.timers /\ t.pendingTurn = u.pendingTurn /\ t.turnId = u.turnId
      BY <2>2, <3>1, <3>2 DEF ServerOf
    <3>4. \A q \in Prompts : t.phase[q] = IF q = p THEN "completion" ELSE u.phase[q]
      BY <3>2, <3>3
    <3>5. TurnAccepted(s, p, t)
      BY <1>9, <2>2, <2>5, <3>3, <3>4 DEF TurnAccepted, Moved, Noted, SameRest
    <3>6. QED
      BY <3>3, <3>5 DEF Reaction, t
  <2>6. QED
    BY <2>3, <2>4, <2>5
<1>10. QED
  BY <1>5, <1>6, <1>7, <1>8, <1>9 DEF Requests

LEMMA MoveFacts ==
  ASSUME NEW n \in 0..MaxCodexPrompts, NEW s, GoodServer(s, n), NEW p \in Prompts,
         s.phase[p] \in Requests, NEW r \in Requests \cup {"completion"},
         NEW t \in ServerOf(n), Moved(s, p, r, t)
  PROVE  /\ \A q \in Prompts : q > n => t.phase[q] = "none"
         /\ Live(t) = Live(s) /\ Held(t) = Held(s)
         /\ Chain(s) => Chain(t)
<1>1. /\ \A q \in Prompts : t.phase[q] = IF q = p THEN r ELSE s.phase[q]
      /\ t.awaits = s.awaits /\ t.runnerRef = s.runnerRef
  BY DEF Moved, SameRest
<1>2. ~(p > n)
  BY DEF GoodServer, Requests
<1>3. Live(t) = Live(s) /\ Held(t) = Held(s)
  <2>1. ASSUME NEW q \in Prompts
        PROVE  /\ (t.phase[q] \in Requests \cup {"completion"})
                    = (s.phase[q] \in Requests \cup {"completion"})
               /\ (t.phase[q] = "waiting") = (s.phase[q] = "waiting")
    BY <1>1 DEF Requests
  <2>2. QED
    BY <2>1 DEF Live, Held
<1>4. QED
  BY <1>1, <1>2, <1>3 DEF GoodServer, Chain

LEMMA GoodAfterReply ==
  ASSUME NEW n \in 0..MaxCodexPrompts, NEW s, GoodServer(s, n), NEW p \in Prompts,
         s.phase[p] \in Requests, NEW ok \in BOOLEAN, NEW t \in ServerOf(n),
         Reaction(s, p, ok, t)
  PROVE  GoodServer(t, n) /\ Onward(s, s.early, t)
<1>1. {p} \in SUBSET Live(s) /\ s.running \in BOOLEAN /\ Accepts(s) \in BOOLEAN
  BY ServerParts DEF Live, GoodServer, Accepts
<1>2. CASE Thrown(s, p, t)
  <2>1. Over(s, {p}, "failed", s.running, t) /\ t.pendingTurn = Nil
    BY <1>2 DEF Thrown, Cleared
  <2>2. "failed" \in Ended /\ (IF "failed" = "ok" THEN {p} ELSE {}) = {}
    BY DEF Ended
  <2>3. GoodServer(t, n) /\ Onward(s, IF "failed" = "ok" THEN {p} ELSE {}, t)
    BY <1>1, <2>1, <2>2, GoodAfterEnd
  <2>4. QED
    BY <2>2, <2>3 DEF Onward
<1>3. CASE LateAnswer(s, p, t)
  <2>1. /\ Over(s, {p}, "ok", Accepts(s), t) /\ t.pendingTurn = s.pendingTurn
        /\ p \in s.early
    BY <1>3 DEF LateAnswer
  <2>2. "ok" \in Ended /\ (IF "ok" = "ok" THEN {p} ELSE {}) = {p}
    BY DEF Ended
  <2>3. t.pendingTurn \in {Nil} \cup ({s.pendingTurn} \ {p})
    BY <2>1 DEF GoodServer
  <2>4. GoodServer(t, n) /\ Onward(s, IF "ok" = "ok" THEN {p} ELSE {}, t)
    BY <1>1, <2>1, <2>2, <2>3, GoodAfterEnd
  <2>5. QED
    BY <2>1, <2>2, <2>4 DEF Onward
<1>4. CASE Advanced(s, p, t)
  <2>1. PICK r \in {"unload", "load", "thread"} : Moved(s, p, r, t)
    BY <1>4 DEF Advanced
  <2>2. s.phase[p] \in BeforeTurn /\ t.pendingTurn = s.pendingTurn
    BY <1>4 DEF Advanced
  <2>3. \A q \in Prompts : t.phase[q] = IF q = p THEN r ELSE s.phase[q]
    BY <2>1 DEF Moved
  <2>4. t.early = s.early
    BY <2>1 DEF Moved, SameRest
  <2>5. \A q \in Prompts : q > n => t.phase[q] = "none"
    BY <2>1, MoveFacts DEF Requests
  <2>6. Onward(s, s.early, t)
    BY <2>2, <2>3 DEF Onward
  <2>7. s.pendingTurn # Nil => s.pendingTurn \in Prompts
    BY PendingIsPrompt
  <2>8. s.pendingTurn # Nil => t.phase[s.pendingTurn] \in {"turn", "completion"}
    BY <2>2, <2>3, <2>7 DEF GoodServer, BeforeTurn
  <2>9. \A q \in Prompts : t.phase[q] \in BeforeTurn => q \notin t.early
    BY <2>4, <2>6 DEF GoodServer, Onward
  <2>10. QED
    BY <2>2, <2>4, <2>5, <2>6, <2>8, <2>9 DEF GoodServer
<1>5. CASE TurnAsked(s, p, t)
  <2>1. Moved(s, p, "turn", t) /\ s.phase[p] = "thread" /\ t.pendingTurn = p
    BY <1>5 DEF TurnAsked
  <2>2. \A q \in Prompts : t.phase[q] = IF q = p THEN "turn" ELSE s.phase[q]
    BY <2>1 DEF Moved
  <2>3. t.early = s.early
    BY <2>1 DEF Moved, SameRest
  <2>4. \A q \in Prompts : q > n => t.phase[q] = "none"
    BY <2>1, MoveFacts DEF Requests
  <2>5. Onward(s, s.early, t)
    BY <2>1, <2>2 DEF Onward, BeforeTurn
  <2>6. p \notin t.early
    BY <2>1, <2>3 DEF GoodServer, BeforeTurn
  <2>7. \A q \in Prompts : t.phase[q] \in BeforeTurn => q \notin t.early
    BY <2>3, <2>5 DEF GoodServer, Onward
  <2>8. QED
    BY <2>1, <2>2, <2>4, <2>5, <2>6, <2>7 DEF GoodServer
<1>6. CASE TurnAccepted(s, p, t)
  <2>1. /\ Moved(s, p, "completion", t) /\ s.phase[p] = "turn"
        /\ t.pendingTurn = s.pendingTurn
    BY <1>6 DEF TurnAccepted
  <2>2. \A q \in Prompts : t.phase[q] = IF q = p THEN "completion" ELSE s.phase[q]
    BY <2>1 DEF Moved
  <2>3. t.early = s.early
    BY <2>1 DEF Moved, SameRest
  <2>4. \A q \in Prompts : q > n => t.phase[q] = "none"
    BY <2>1, MoveFacts
  <2>5. Onward(s, s.early, t)
    BY <2>2 DEF Onward, BeforeTurn
  <2>6. s.pendingTurn # Nil => s.pendingTurn \in Prompts
    BY PendingIsPrompt
  <2>7. s.pendingTurn # Nil => t.phase[s.pendingTurn] \in {"turn", "completion"}
    BY <2>2, <2>6 DEF GoodServer
  <2>8. \A q \in Prompts : t.phase[q] \in BeforeTurn => q \notin t.early
    BY <2>3, <2>5 DEF GoodServer, Onward
  <2>9. QED
    BY <2>1, <2>3, <2>4, <2>5, <2>7, <2>8 DEF GoodServer
<1>7. QED
  BY <1>2, <1>3, <1>4, <1>5, <1>6 DEF Reaction

LEMMA ChainAfterReply ==
  ASSUME NEW n \in 0..MaxCodexPrompts, NEW s, GoodServer(s, n), NEW p \in Prompts,
         s.phase[p] \in Requests, NEW ok \in BOOLEAN, NEW t \in ServerOf(n),
         Reaction(s, p, ok, t), Chain(s), Pending(s), ~s.crashed
  PROVE  Chain(t) /\ Pending(t)
<1>1. {p} \in SUBSET Live(s) /\ s.running \in BOOLEAN /\ Accepts(s) \in BOOLEAN
  BY ServerParts DEF Live, GoodServer, Accepts
<1>2. \A q \in Prompts : s.phase[q] \in {"turn", "completion"} => q = p
  BY <1>1 DEF Chain, Live, Requests
<1>3. CASE Thrown(s, p, t)
  <2>1. Over(s, {p}, "failed", s.running, t) /\ "failed" \in Ended /\ {p} # {}
    BY <1>3 DEF Thrown, Ended
  <2>2. Chain(t) /\ NoTurn(t)
    BY <1>1, <2>1, ChainAfterEnd
  <2>3. QED
    BY <2>2, CalmIsPending
<1>4. CASE LateAnswer(s, p, t)
  <2>1. Over(s, {p}, "ok", Accepts(s), t) /\ "ok" \in Ended /\ {p} # {}
    BY <1>4 DEF LateAnswer, Ended
  <2>2. Chain(t) /\ NoTurn(t)
    BY <1>1, <2>1, ChainAfterEnd
  <2>3. QED
    BY <2>2, CalmIsPending
<1>5. CASE Advanced(s, p, t)
  <2>1. PICK r \in {"unload", "load", "thread"} : Moved(s, p, r, t)
    BY <1>5 DEF Advanced
  <2>2. \A q \in Prompts : t.phase[q] = IF q = p THEN r ELSE s.phase[q]
    BY <2>1 DEF Moved
  <2>3. t.early = s.early /\ t.crashed = s.crashed /\ t.pendingTurn = s.pendingTurn
    BY <1>5, <2>1 DEF Moved, SameRest, Advanced
  <2>4. Chain(t)
    BY <2>1, MoveFacts DEF Requests
  <2>5. Pending(t)
    BY <2>2, <2>3 DEF Pending
  <2>6. QED
    BY <2>4, <2>5
<1>6. CASE TurnAsked(s, p, t)
  <2>1. Moved(s, p, "turn", t) /\ t.pendingTurn = p /\ s.phase[p] = "thread"
    BY <1>6 DEF TurnAsked
  <2>2. \A q \in Prompts : t.phase[q] = IF q = p THEN "turn" ELSE s.phase[q]
    BY <2>1 DEF Moved
  <2>3. Chain(t)
    BY <2>1, MoveFacts DEF Requests
  <2>4. Pending(t)
    BY <1>2, <2>1, <2>2 DEF Pending
  <2>5. QED
    BY <2>3, <2>4
<1>7. CASE TurnAccepted(s, p, t)
  <2>1. /\ Moved(s, p, "completion", t) /\ t.pendingTurn = s.pendingTurn
        /\ s.phase[p] = "turn" /\ p \notin s.early
    BY <1>7 DEF TurnAccepted
  <2>2. \A q \in Prompts : t.phase[q] = IF q = p THEN "completion" ELSE s.phase[q]
    BY <2>1 DEF Moved
  <2>3. Chain(t)
    BY <2>1, MoveFacts
  <2>4. s.pendingTurn = p
    BY <2>1 DEF Pending
  <2>5. Pending(t)
    BY <1>2, <2>1, <2>2, <2>4 DEF Pending
  <2>6. QED
    BY <2>3, <2>5
<1>8. QED
  BY <1>3, <1>4, <1>5, <1>6, <1>7 DEF Reaction

-----------------------------------------------------------------------------
(* Reports, the end of the process, interrupts.                             *)

\* u is s but for what no prompt depends on.
Kept(s, u) ==
  /\ u.phase = s.phase /\ u.awaits = s.awaits /\ u.pendingTurn = s.pendingTurn
  /\ u.runnerRef = s.runnerRef /\ u.early = s.early /\ u.crashed = s.crashed

LEMMA KeptFacts ==
  ASSUME NEW n \in 0..MaxCodexPrompts, NEW s, GoodServer(s, n), NEW u \in ServerOf(n), Kept(s, u)
  PROVE  /\ GoodServer(u, n) /\ Onward(s, {}, u)
         /\ Chain(s) => Chain(u)
         /\ Pending(s) => Pending(u)
<1>1. GoodServer(u, n) /\ Onward(s, {}, u)
  BY DEF GoodServer, Kept, Onward
<1>2. Live(u) = Live(s) /\ Held(u) = Held(s)
  BY DEF Live, Held, Kept
<1>3. QED
  BY <1>1, <1>2 DEF Chain, Pending, Kept

LEMMA OnwardTwice ==
  ASSUME NEW s, NEW u, NEW t, NEW a, NEW b, Onward(s, a, u), Onward(u, b, t)
  PROVE  Onward(s, a \cup b, t)
BY DEF Onward

\* A turn has completed.
Resolved(s, t) ==
  /\ Cleared(s, t) /\ Onward(s, {s.pendingTurn}, t)
  /\ t.early \subseteq s.early \cup {s.pendingTurn}
  /\ Chain(s) /\ Pending(s) => Chain(t) /\ Pending(t)

LEMMA ResolveFacts ==
  ASSUME NEW n \in 0..MaxCodexPrompts, NEW s, GoodServer(s, n)
  PROVE  GoodServer(ResolvePendingTurn(s), n) /\ Resolved(s, ResolvePendingTurn(s))
<1> DEFINE t == ResolvePendingTurn(s)
           c == ClearPendingTurn(s)
           p == s.pendingTurn
<1>1. /\ s \in ServerOf(n) /\ p \in 0..n /\ n \in Nat
      /\ \A q \in Prompts : q > n => s.phase[q] = "none"
  BY ServerParts, PromptNumbers DEF GoodServer
<1>2. /\ c \in ServerOf(n) /\ Cleared(s, c) /\ SameRest(s, c) /\ c.phase = s.phase
      /\ c.runnerRef = s.runnerRef
  BY <1>1, ClearFacts
<1> HIDE DEF c
<1>3. GoodServer(c, n)
  BY <1>2 DEF GoodServer, Cleared, SameRest
<1>4. Chain(s) => Chain(c)
  BY <1>2 DEF Chain, Live, Held, SameRest
<1>5. CASE p = Nil
  <2>1. t = c
    BY <1>5 DEF t, c, ResolvePendingTurn
  <2>2. Pending(s) => Pending(c)
    BY <1>2, <1>5 DEF Pending, Cleared, SameRest
  <2>3. Onward(s, {p}, c)
    BY <1>2 DEF Onward
  <2>4. Resolved(s, c)
    BY <1>2, <1>4, <2>2, <2>3 DEF Resolved, SameRest
  <2>5. QED
    BY <1>3, <2>1, <2>4 DEF t
<1>6. CASE p # Nil /\ s.phase[p] = "turn"
  <2>1. t = [c EXCEPT !.early = @ \cup {p}]
    BY <1>6 DEF t, c, ResolvePendingTurn
  <2>2. p \in Prompts /\ p \in 1..n
    BY <1>1, <1>6, PendingIsPrompt, PromptNumbers
  <2> HIDE DEF t
  <2>3. /\ t \in ServerOf(n) /\ t.crashed = c.crashed /\ t.phase = c.phase
        /\ t.awaits = c.awaits /\ t.running = c.running /\ t.early = c.early \cup {p}
        /\ t.turnId = c.turnId /\ t.pendingTurn = c.pendingTurn /\ t.timers = c.timers
        /\ t.runnerRef = c.runnerRef
    BY <1>2, <2>1, <2>2 DEF ServerOf
  <2>4. GoodServer(t, n)
    <3>1. \A q \in Prompts : t.phase[q] \in BeforeTurn => q \notin t.early
      BY <1>2, <1>3, <1>6, <2>3 DEF GoodServer, BeforeTurn
    <3>2. t.pendingTurn = Nil
      BY <1>2, <2>3 DEF Cleared
    <3>3. QED
      BY <1>3, <2>3, <3>1, <3>2 DEF GoodServer
  <2>5. Onward(s, {p}, t)
    BY <1>2, <2>3 DEF Onward
  <2>6. Chain(s) => Chain(t)
    BY <1>4, <2>3 DEF Chain, Live, Held
  <2>7. Chain(s) /\ Pending(s) => Pending(t)
    <3> SUFFICES ASSUME Chain(s), Pending(s), NEW q \in Prompts,
                        s.phase[q] \in {"turn", "completion"}
                 PROVE  q = p
      BY <1>2, <1>6, <2>3 DEF Pending
    <3>1. q \in Live(s) /\ p \in Live(s)
      BY <1>6, <2>2 DEF Live, Requests
    <3>2. QED
      BY <3>1 DEF Chain
  <2>8. Resolved(s, t)
    BY <1>2, <2>3, <2>4, <2>5, <2>6, <2>7 DEF Resolved, Cleared, SameRest
  <2>9. QED
    BY <2>4, <2>8 DEF t
<1>7. CASE p # Nil /\ s.phase[p] # "turn"
  <2>1. p \in Prompts /\ s.phase[p] = "completion"
    BY <1>1, <1>7, PendingIsPrompt DEF GoodServer
  <2>2. t = Return(c, {p}, "ok")
    BY <1>7 DEF t, c, ResolvePendingTurn
  <2>3. "ok" \in Ended /\ {p} \in SUBSET Prompts /\ {p} \in SUBSET Live(s)
    BY <2>1 DEF Ended, Live
  <2>4. /\ t \in ServerOf(n) /\ Over(c, {p}, "ok", Accepts(c), t) /\ SamePending(c, t)
    <3>1. \A q \in Prompts : q > n => c.phase[q] = "none"
      BY <1>1, <1>2
    <3> HIDE DEF p
    <3>2. QED
      BY <1>2, <2>2, <2>3, <3>1, ReturnFacts
  <2>5. Accepts(c) \in BOOLEAN
    BY <1>2, ServerParts DEF Accepts
  <2>6. Over(s, {p}, "ok", Accepts(c), t) /\ Cleared(s, t)
    BY <1>2, <2>4 DEF Over, SamePending, Cleared, SameRest
  <2> HIDE DEF t
  <2>7. GoodServer(t, n) /\ Onward(s, {p}, t)
    <3>1. t.pendingTurn = Nil /\ (IF "ok" = "ok" THEN {p} ELSE {}) = {p}
      BY <2>6 DEF Cleared
    <3> HIDE DEF p
    <3>2. GoodServer(t, n) /\ Onward(s, IF "ok" = "ok" THEN {p} ELSE {}, t)
      BY <2>3, <2>4, <2>5, <2>6, <3>1, GoodAfterEnd
    <3>3. QED
      BY <3>1, <3>2
  <2>8. Chain(s) => Chain(t) /\ Pending(t)
    <3> HIDE DEF p
    <3>1. Chain(s) => Chain(t) /\ ({p} # {} => NoTurn(t))
      BY <2>3, <2>5, <2>6, ChainAfterEnd
    <3>2. QED
      BY <3>1, CalmIsPending
  <2>9. Resolved(s, t)
    BY <2>6, <2>7, <2>8 DEF Resolved, Over, SameRest
  <2>10. QED
    BY <2>7, <2>9 DEF t
<1>8. QED
  BY <1>5, <1>6, <1>7

\* The process is gone.
Halted(s, t) ==
  /\ Cleared(s, t) /\ Onward(s, {}, t)
  /\ t.running = FALSE /\ t.early = s.early
  /\ Chain(s) /\ Pending(s) => Chain(t) /\ Pending(t)

LEMMA HaltFacts ==
  ASSUME NEW n \in 0..MaxCodexPrompts, NEW s, GoodServer(s, n),
         NEW u \in ServerOf(n), Kept(s, u), u.timers = s.timers, u.running = FALSE
  PROVE  GoodServer(RejectPendingTurn(u), n) /\ Halted(s, RejectPendingTurn(u))
<1> DEFINE t == RejectPendingTurn(u)
<1>1. /\ GoodServer(u, n) /\ Onward(s, {}, u)
      /\ Chain(s) => Chain(u)
      /\ Pending(s) => Pending(u)
  BY KeptFacts
<1>2. GoodServer(t, n) /\ Rejected(u, t)
  BY <1>1, RejectFacts
<1> HIDE DEF t
<1>3. Onward(s, {}, t)
  <2>1. Onward(s, {} \cup {}, t)
    BY <1>1, <1>2, OnwardTwice DEF Rejected
  <2>2. QED
    BY <2>1
<1>4. Cleared(s, t) /\ t.running = FALSE /\ t.early = s.early
  BY <1>2 DEF Rejected, Cleared, Kept
<1>5. Halted(s, t)
  BY <1>1, <1>2, <1>3, <1>4 DEF Halted, Rejected
<1>6. QED
  BY <1>2, <1>5 DEF t

LEMMA ExitFacts ==
  ASSUME NEW n \in 0..MaxCodexPrompts, NEW s, GoodServer(s, n),
         NEW h, GoodServer(h, n), Halted(s, h), NEW loaded \in BOOLEAN,
         NEW rejected, rejected = {p \in Prompts : h.phase[p] \in Requests}
  PROVE  /\ GoodServer(Throw([h EXCEPT !.loaded = loaded], rejected), n)
         /\ Halted(s, Throw([h EXCEPT !.loaded = loaded], rejected))
<1> DEFINE u == [h EXCEPT !.loaded = loaded]
           t == Throw(u, rejected)
<1>1. /\ u \in ServerOf(n) /\ Kept(h, u) /\ u.running = h.running /\ u.timers = h.timers
      /\ u.turnId = h.turnId
  BY DEF GoodServer, ServerOf, Kept
<1> HIDE DEF u
<1>2. /\ GoodServer(u, n) /\ Onward(h, {}, u)
      /\ Chain(h) => Chain(u)
      /\ Pending(h) => Pending(u)
  BY <1>1, KeptFacts
<1>3. /\ rejected \in SUBSET Prompts /\ rejected \in SUBSET Live(u)
      /\ \A p \in Prompts : p \in rejected <=> u.phase[p] \in Requests
  BY <1>1 DEF Live, Kept
<1>4. \A p \in Prompts : p > n => u.phase[p] = "none"
  BY <1>2 DEF GoodServer
<1>5. t \in ServerOf(n) /\ Over(u, rejected, "failed", u.running, t) /\ Cleared(u, t)
  BY <1>1, <1>3, <1>4, ThrowFacts
<1>6. "failed" \in Ended /\ u.running \in BOOLEAN /\ t.pendingTurn = Nil
  BY <1>1, <1>5, ServerParts DEF Ended, Cleared
<1> HIDE DEF t
<1>7. GoodServer(t, n) /\ Onward(u, {}, t)
  <2>1. (IF "failed" = "ok" THEN rejected ELSE {}) = {}
    OBVIOUS
  <2>2. GoodServer(t, n) /\ Onward(u, IF "failed" = "ok" THEN rejected ELSE {}, t)
    BY <1>2, <1>3, <1>5, <1>6, GoodAfterEnd
  <2>3. QED
    BY <2>1, <2>2
<1>8. Onward(s, {}, t)
  <2>1. Onward(s, {}, h)
    BY DEF Halted
  <2>2. Onward(s, {} \cup {}, u)
    BY <1>2, <2>1, OnwardTwice
  <2>3. Onward(s, {} \cup {} \cup {}, t)
    BY <1>7, <2>2, OnwardTwice
  <2>4. QED
    BY <2>3
<1>9. Chain(u) => Chain(t) /\ (rejected # {} => NoTurn(t))
  BY <1>3, <1>5, <1>6, ChainAfterEnd
<1>10. ASSUME Pending(u), rejected = {} PROVE NoTurn(t)
  <2> DEFINE freed == {q \in Prompts : u.phase[q] = "waiting" /\ u.awaits[q] \in rejected}
  <2>1. freed = {}
    BY <1>10
  <2>2. \A p \in Prompts : t.phase[p] = IF p \in freed THEN First(u.running)
                                         ELSE IF p \in rejected THEN "failed" ELSE u.phase[p]
    BY <1>5 DEF Over
  <2>3. \A p \in Prompts : t.phase[p] = u.phase[p]
    BY <1>10, <2>1, <2>2
  <2>4. u.pendingTurn = Nil
    BY <1>1 DEF Halted, Cleared, Kept
  <2>5. \A p \in Prompts : u.phase[p] # "completion"
    BY <1>10, <2>4, PromptNumbers DEF Pending
  <2>6. \A p \in Prompts : u.phase[p] # "turn"
    BY <1>3, <1>10 DEF Requests
  <2>7. QED
    BY <2>3, <2>5, <2>6 DEF NoTurn
<1>11. Chain(s) /\ Pending(s) => Chain(t) /\ Pending(t)
  BY <1>2, <1>9, <1>10, CalmIsPending DEF Halted
<1>12. Cleared(s, t) /\ t.running = FALSE /\ t.early = s.early
  BY <1>1, <1>5 DEF Halted, Cleared, Over, SameRest, Kept
<1>13. Halted(s, t)
  BY <1>8, <1>11, <1>12 DEF Halted
<1>14. QED
  BY <1>7, <1>13 DEF t, u

\* A turn that is interrupted gets a settle timer.
Interrupted(s, u) ==
  \/ u.timers = s.timers
  \/ /\ s.manager /\ s.threadId /\ s.turnId # Nil
     /\ u.timers = s.timers \cup {s.pendingTurn}

LEMMA InterruptFacts ==
  ASSUME NEW n \in 0..MaxCodexPrompts, NEW s, GoodServer(s, n)
  PROVE  /\ SendInterrupt(s) \in ServerOf(n) /\ Kept(s, SendInterrupt(s))
         /\ SendInterrupt(s).running = s.running /\ SendInterrupt(s).turnId = s.turnId
         /\ Interrupted(s, SendInterrupt(s))
<1>1. s \in ServerOf(n) /\ n \in Nat
  BY PromptNumbers DEF GoodServer
<1>2. CASE s.manager /\ s.threadId /\ s.turnId # Nil /\ s.pendingTurn # Nil
  <2>1. SendInterrupt(s) = [s EXCEPT !.timers = @ \cup {s.pendingTurn}]
    BY <1>2 DEF SendInterrupt
  <2>2. s.pendingTurn \in 1..n
    BY <1>1, <1>2, ServerParts, PromptNumbers
  <2>3. QED
    BY <1>1, <1>2, <2>1, <2>2 DEF ServerOf, Kept, Interrupted
<1>3. CASE ~(s.manager /\ s.threadId /\ s.turnId # Nil /\ s.pendingTurn # Nil)
  <2>1. SendInterrupt(s) = s
    BY <1>3 DEF SendInterrupt
  <2>2. QED
    BY <1>1, <2>1 DEF Kept, Interrupted
<1>4. QED
  BY <1>2, <1>3

\* One more prompt.
LEMMA WiderServer ==
  ASSUME NEW n \in 0..MaxCodexPrompts, n + 1 \in 0..MaxCodexPrompts, NEW s \in ServerOf(n)
  PROVE  s \in ServerOf(n + 1)
<1>1. 0..n \subseteq 0..(n + 1) /\ 1..n \subseteq 1..(n + 1)
  BY PromptNumbers
<1>2. [Prompts -> 0..n] \subseteq [Prompts -> 0..(n + 1)]
  BY <1>1
<1>3. QED
  BY <1>1, <1>2 DEF ServerOf

\* What asking for p changes, one prompt in progress after the other.
PromptAsked(s, p, t) ==
  /\ \A q \in Prompts : q # p => t.phase[q] = s.phase[q]
  /\ t.phase[p] \in {"plugins", "failed", "waiting"}
  /\ t.running = s.running /\ t.crashed = s.crashed /\ t.early = s.early
  /\ t.pendingTurn = s.pendingTurn /\ t.turnId = s.turnId
  /\ IF s.runnerRef = Nil
     THEN t.timers = s.timers /\ (Chain(s) /\ Live(s) = {} => Chain(t))
     ELSE Interrupted(s, t) /\ (Chain(s) /\ Held(s) = {} => Chain(t))
  /\ Pending(s) => Pending(t)

LEMMA AskFacts ==
  ASSUME NEW n \in 0..MaxCodexPrompts, NEW s, GoodServer(s, n), n + 1 \in Prompts
  PROVE  /\ GoodServer(ReplaceRun(s, n + 1), n + 1)
         /\ PromptAsked(s, n + 1, ReplaceRun(s, n + 1))
<1> DEFINE p == n + 1
           t == ReplaceRun(s, p)
<1>1. /\ p \in 0..MaxCodexPrompts /\ n \in Nat /\ p > n /\ p \in Prompts /\ p # Nil
      /\ \A q \in Prompts : q > p => q > n /\ q # p
  BY PromptNumbers DEF Prompts, Nil
<1>2. s \in ServerOf(p) /\ s \in ServerOf(n)
  BY <1>1, WiderServer DEF GoodServer
<1>3. s.phase[p] = "none"
  BY <1>1 DEF GoodServer
<1>4. GoodServer(s, p)
  BY <1>1, <1>2 DEF GoodServer
<1>5. ASSUME t \in ServerOf(p), t.phase[p] \in {"plugins", "failed", "waiting"},
             \A q \in Prompts : q # p => t.phase[q] = s.phase[q],
             t.pendingTurn = s.pendingTurn, t.early = s.early, t.crashed = s.crashed
      PROVE  GoodServer(t, p) /\ (Pending(s) => Pending(t))
  <2> HIDE DEF t
  <2>1. \A q \in Prompts : q > p => t.phase[q] = "none"
    BY <1>1, <1>5 DEF GoodServer
  <2>2. \A q \in Prompts : t.phase[q] \in BeforeTurn => q \notin t.early
    <3>1. p \notin s.early
      BY <1>1, <1>3 DEF GoodServer, BeforeTurn
    <3>2. QED
      BY <1>5, <3>1 DEF GoodServer
  <2>3. s.pendingTurn # Nil =>
           t.phase[s.pendingTurn] \in {"turn", "completion"} /\ s.pendingTurn \notin s.early
    <3>1. s.pendingTurn # Nil => s.pendingTurn \in Prompts
      BY PendingIsPrompt
    <3>2. s.pendingTurn # Nil => s.pendingTurn # p
      BY <1>3 DEF GoodServer
    <3>3. QED
      BY <1>5, <3>1, <3>2 DEF GoodServer
  <2>4. GoodServer(t, p)
    BY <1>5, <2>1, <2>2, <2>3 DEF GoodServer
  <2>5. Pending(s) => Pending(t)
    BY <1>5 DEF Pending
  <2>6. QED
    BY <2>4, <2>5
<1>6. CASE s.runnerRef = Nil
  <2>1. t = StartRuns(s, {p})
    BY <1>6 DEF ReplaceRun
  <2>2. {p} \in SUBSET (1..p)
    BY <1>1
  <2> HIDE DEF t, p
  <2>3. t \in ServerOf(p) /\ Begun(s, {p}, t)
    BY <1>1, <1>2, <2>1, <2>2, StartRunsFacts
  <2>4. /\ \A q \in Prompts : q # p => t.phase[q] = s.phase[q]
        /\ t.phase[p] = First(Accepts(s))
        /\ t.runnerRef \in IF Accepts(s) THEN {p} ELSE {Nil}
        /\ t.running = s.running /\ t.crashed = s.crashed /\ t.early = s.early
        /\ t.pendingTurn = s.pendingTurn /\ t.turnId = s.turnId /\ t.timers = s.timers
    BY <1>1, <2>3 DEF Begun, SameRest, SamePending
  <2>5. First(Accepts(s)) = IF Accepts(s) THEN "plugins" ELSE "failed"
    BY DEF First
  <2>6. GoodServer(t, p) /\ (Pending(s) => Pending(t))
    BY <1>5, <2>3, <2>4, <2>5
  <2>7. ASSUME Chain(s), Live(s) = {} PROVE Chain(t)
    <3>1. Held(s) = {}
      BY <2>7 DEF Chain
    <3>2. Live(t) = IF Accepts(s) THEN {p} ELSE {}
      BY <1>1, <2>4, <2>5, <2>7 DEF Live, Requests
    <3>3. Held(t) = {}
      BY <2>4, <2>5, <3>1 DEF Held
    <3>4. QED
      BY <2>4, <3>2, <3>3 DEF Chain
  <2>8. PromptAsked(s, p, t)
    BY <1>6, <2>4, <2>5, <2>6, <2>7 DEF PromptAsked
  <2>9. QED
    BY <2>6, <2>8 DEF p, t
<1>7. CASE s.runnerRef # Nil
  <2> DEFINE i == SendInterrupt(s)
  <2>1. t = [i EXCEPT !.phase[p] = "waiting", !.awaits[p] = s.runnerRef]
    BY <1>7 DEF ReplaceRun
  <2>2. /\ i \in ServerOf(p) /\ Kept(s, i) /\ i.running = s.running /\ i.turnId = s.turnId
        /\ Interrupted(s, i)
    <3> HIDE DEF p
    <3>1. QED
      BY <1>1, <1>4, InterruptFacts
  <2>3. "waiting" \in Phases /\ s.runnerRef \in 0..p
    BY <1>1, <1>2, ServerParts DEF Phases
  <2>4. i.phase \in [Prompts -> Phases] /\ i.awaits \in [Prompts -> 0..p]
    BY <1>1, <2>2, ServerParts
  <2> HIDE DEF t, p, i
  <2>5. /\ t \in ServerOf(p) /\ t.phase = [i.phase EXCEPT ![p] = "waiting"]
        /\ t.awaits = [i.awaits EXCEPT ![p] = s.runnerRef]
        /\ t.running = i.running /\ t.early = i.early /\ t.crashed = i.crashed
        /\ t.runnerRef = i.runnerRef /\ t.timers = i.timers
        /\ t.pendingTurn = i.pendingTurn /\ t.turnId = i.turnId
    <3>1. [i.phase EXCEPT ![p] = "waiting"] \in [Prompts -> Phases]
      BY <2>3, <2>4
    <3>2. [i.awaits EXCEPT ![p] = s.runnerRef] \in [Prompts -> 0..p]
      BY <2>3, <2>4
    <3>3. QED
      BY <2>1, <2>2, <3>1, <3>2 DEF ServerOf
  <2>6. /\ \A q \in Prompts : q # p => t.phase[q] = s.phase[q] /\ t.awaits[q] = s.awaits[q]
        /\ t.phase[p] = "waiting" /\ t.awaits[p] = s.runnerRef
    BY <1>1, <2>2, <2>4, <2>5 DEF Kept
  <2>7. /\ t.running = s.running /\ t.crashed = s.crashed /\ t.early = s.early
        /\ t.pendingTurn = s.pendingTurn /\ t.turnId = s.turnId /\ t.timers = i.timers
        /\ t.runnerRef = s.runnerRef
    BY <2>2, <2>5 DEF Kept
  <2>8. GoodServer(t, p) /\ (Pending(s) => Pending(t))
    BY <1>5, <2>5, <2>6, <2>7
  <2>9. ASSUME Chain(s), Held(s) = {} PROVE Chain(t)
    <3>1. Live(t) = Live(s)
      BY <1>3, <2>6 DEF Live, Requests
    <3>2. Held(t) = {p}
      BY <1>1, <2>6, <2>9 DEF Held
    <3>3. QED
      BY <1>7, <2>6, <2>7, <2>9, <3>1, <3>2 DEF Chain
  <2>10. Interrupted(s, t)
    BY <2>2, <2>7 DEF Interrupted
  <2>11. PromptAsked(s, p, t)
    BY <1>7, <2>6, <2>7, <2>8, <2>9, <2>10 DEF PromptAsked
  <2>12. QED
    BY <2>8, <2>11 DEF p, t
<1>8. QED
  BY <1>6, <1>7

-----------------------------------------------------------------------------
(* The invariant.                                                           *)

CodexTyped ==
  /\ asked \in 0..MaxCodexPrompts
  /\ GoodServer(server, asked)
  /\ turn \in [Prompts -> {"none", "asked", "started", "completed"}]
  /\ interrupted \in SUBSET (1..asked)
  /\ \A p \in Prompts : server.phase[p] \in BeforeTurn => turn[p] = "none"

\* Unless an interrupted run is dropped too early, or two prompts wait for one run.
One == astray \cap {"hasty", "queue"} = {} => Chain(server) /\ Pending(server)

\* And unless a prompt was given up with its turn under way: what is over has completed,
\* and a turn that is under way is the pending one.
OwnTurn ==
  astray \cap {"hasty", "queue", "givenUp"} = {} =>
    /\ \A p \in Prompts : server.phase[p] = "ok" \/ p \in server.early => turn[p] = "completed"
    /\ server.running /\ ~server.crashed =>
         \A p \in Prompts : turn[p] \in {"asked", "started"} => server.pendingTurn = p

\* And unless turn/start is answered after the turn: the id that is known is the pending
\* turn's.
OwnId ==
  astray = {} =>
    server.turnId \in {Nil, server.pendingTurn} /\ server.timers \subseteq interrupted

CodexInv == CodexTyped /\ One /\ OwnTurn /\ OwnId

LEMMA InitCodexInv == CodexInit => CodexInv
<1> SUFFICES ASSUME CodexInit PROVE CodexInv
  OBVIOUS
<1> DEFINE s == server
<1>1. /\ MaxCodexPrompts \in Nat /\ Nil = 0 /\ Nil \notin Prompts /\ asked = 0 /\ asked \in 0..MaxCodexPrompts
  BY PromptNumbers DEF CodexInit
<1>2. /\ s.phase = [p \in Prompts |-> "none"] /\ s.awaits = [p \in Prompts |-> Nil]
      /\ s.turnId = Nil /\ s.pendingTurn = Nil /\ s.runnerRef = Nil
      /\ s.timers = {} /\ s.early = {}
  BY DEF CodexInit
<1>3. s \in ServerOf(asked)
  <2>1. [p \in Prompts |-> "none"] \in [Prompts -> Phases]
    BY DEF Phases
  <2>2. [p \in Prompts |-> Nil] \in [Prompts -> 0..asked]
    BY <1>1
  <2>3. Nil \in 0..asked
    BY <1>1
  <2>4. QED
    BY <2>1, <2>2, <2>3 DEF CodexInit, ServerOf
<1>4. \A p \in Prompts : s.phase[p] = "none"
  BY <1>2
<1>5. CodexTyped
  BY <1>1, <1>2, <1>3, <1>4 DEF CodexTyped, GoodServer, CodexInit
<1>6. Live(s) = {} /\ Held(s) = {}
  BY <1>4 DEF Live, Held, Requests
<1>7. One
  BY <1>2, <1>4, <1>6 DEF One, Chain, Pending
<1>8. OwnTurn
  BY <1>2, <1>4 DEF OwnTurn, CodexInit
<1>9. OwnId
  BY <1>2 DEF OwnId
<1>10. QED
  BY <1>5, <1>7, <1>8, <1>9 DEF CodexInv

\* The turn that is pending is a prompt's in progress.
LEMMA PendingIsLive ==
  ASSUME NEW n \in 0..MaxCodexPrompts, NEW s, GoodServer(s, n), s.pendingTurn # Nil
  PROVE  s.pendingTurn \in Live(s) /\ s.phase[s.pendingTurn] \in {"turn", "completion"}
BY PendingIsPrompt DEF GoodServer, Live, Requests

LEMMA ReplyPhase ==
  ASSUME NEW s, NEW p \in Prompts, s.phase[p] \in Requests, NEW ok, NEW t, Reaction(s, p, ok, t)
  PROVE  /\ t.early = s.early /\ t.crashed = s.crashed /\ t.running = s.running
         /\ Thrown(s, p, t) => t.phase[p] = "failed"
         /\ t.phase[p] = "turn" => TurnAsked(s, p, t)
         /\ TurnAsked(s, p, t) => t.phase[p] = "turn"
<1>1. s.phase[p] # "waiting"
  BY DEF Requests
<1>2. CASE Thrown(s, p, t)
  <2>1. t.phase[p] = "failed"
    BY <1>1, <1>2 DEF Thrown, Over
  <2>2. ~TurnAsked(s, p, t)
    BY <2>1 DEF TurnAsked, Moved
  <2>3. QED
    BY <1>2, <2>1, <2>2 DEF Thrown, Over, SameRest
<1>3. CASE LateAnswer(s, p, t)
  <2>1. t.phase[p] = "ok"
    BY <1>1, <1>3 DEF LateAnswer, Over
  <2>2. t.early = s.early /\ t.crashed = s.crashed /\ t.running = s.running
    BY <1>3 DEF LateAnswer, Over, SameRest
  <2>3. ~Thrown(s, p, t)
    BY <1>1, <2>1 DEF Thrown, Over
  <2>4. ~TurnAsked(s, p, t)
    BY <2>1 DEF TurnAsked, Moved
  <2>5. QED
    BY <2>1, <2>2, <2>3, <2>4
<1>4. ASSUME NEW r \in {"unload", "load", "thread", "turn", "completion"}, Moved(s, p, r, t)
      PROVE  /\ t.early = s.early /\ t.crashed = s.crashed /\ t.running = s.running
             /\ t.phase[p] = r /\ ~Thrown(s, p, t)
  <2>1. t.phase[p] = r
    BY <1>4 DEF Moved
  <2>2. ~Thrown(s, p, t)
    BY <1>1, <2>1 DEF Thrown, Over
  <2>3. QED
    BY <1>4, <2>1, <2>2 DEF Moved, SameRest
<1>5. CASE Advanced(s, p, t)
  <2>1. PICK r \in {"unload", "load", "thread"} : Moved(s, p, r, t)
    BY <1>5 DEF Advanced
  <2>2. /\ t.early = s.early /\ t.crashed = s.crashed /\ t.running = s.running
        /\ t.phase[p] = r /\ ~Thrown(s, p, t)
    BY <1>4, <2>1
  <2>3. ~TurnAsked(s, p, t)
    BY <2>2 DEF TurnAsked, Moved
  <2>4. QED
    BY <2>2, <2>3
<1>6. CASE TurnAsked(s, p, t)
  BY <1>4, <1>6 DEF TurnAsked
<1>7. CASE TurnAccepted(s, p, t)
  <2>1. /\ t.early = s.early /\ t.crashed = s.crashed /\ t.running = s.running
        /\ t.phase[p] = "completion" /\ ~Thrown(s, p, t)
    BY <1>4, <1>7 DEF TurnAccepted
  <2>2. ~TurnAsked(s, p, t)
    BY <2>1 DEF TurnAsked, Moved
  <2>3. QED
    BY <2>1, <2>2
<1>8. QED
  BY <1>2, <1>3, <1>5, <1>6, <1>7 DEF Reaction

LEMMA ReplyStep ==
  ASSUME CodexInv, NEW p \in Prompts, Reply(p)
  PROVE  CodexInv'
<1> DEFINE s == server
           t == server'
<1>1. PICK ok \in BOOLEAN, fresh \in BOOLEAN :
        /\ t = Answered(s, p, ok, fresh)
        /\ turn' = IF t.phase[p] = "turn" THEN [turn EXCEPT ![p] = "asked"] ELSE turn
        /\ astray' = astray \cup GivenUp(s, t)
             \cup IF ok /\ s.phase[p] = "turn" /\ turn[p] = "completed" THEN {"late"} ELSE {}
  BY DEF Reply
<1>2. /\ ~s.crashed /\ s.phase[p] \in Requests
      /\ asked' = asked /\ interrupted' = interrupted /\ pressed' = pressed
  BY DEF Reply
<1>3. asked \in 0..MaxCodexPrompts /\ GoodServer(s, asked)
  BY DEF CodexInv, CodexTyped
<1>4. t \in ServerOf(asked) /\ Reaction(s, p, ok, t)
  BY <1>1, <1>2, <1>3, AnsweredFacts
<1>5. GoodServer(t, asked) /\ Onward(s, s.early, t)
  BY <1>2, <1>3, <1>4, GoodAfterReply
<1>6. /\ t.early = s.early /\ t.crashed = s.crashed /\ t.running = s.running
      /\ Thrown(s, p, t) => t.phase[p] = "failed"
      /\ t.phase[p] = "turn" <=> TurnAsked(s, p, t)
  BY <1>2, <1>4, ReplyPhase
<1>7. astray \subseteq astray' /\ GivenUp(s, t) \subseteq astray'
  BY <1>1
<1>8. turn \in [Prompts -> {"none", "asked", "started", "completed"}]
  BY DEF CodexInv, CodexTyped
<1>9. \A q \in Prompts : turn'[q] = IF TurnAsked(s, p, t) /\ q = p THEN "asked" ELSE turn[q]
  BY <1>1, <1>6, <1>8
<1>10. turn' \in [Prompts -> {"none", "asked", "started", "completed"}]
  BY <1>1, <1>8
<1>11. p \in Live(s)
  BY <1>2 DEF Live
<1> HIDE DEF s, t
<1>12. CodexTyped'
  <2>1. \A q \in Prompts : t.phase[q] \in BeforeTurn => turn'[q] = "none"
    <3> SUFFICES ASSUME NEW q \in Prompts, t.phase[q] \in BeforeTurn PROVE turn'[q] = "none"
      OBVIOUS
    <3>1. s.phase[q] \in BeforeTurn
      BY <1>5 DEF Onward
    <3>2. ~(TurnAsked(s, p, t) /\ q = p)
      BY <1>6 DEF BeforeTurn
    <3>3. QED
      BY <1>9, <3>1, <3>2 DEF CodexInv, CodexTyped, s
  <2>2. interrupted \in SUBSET (1..asked)
    BY DEF CodexInv, CodexTyped
  <2>3. QED
    BY <1>2, <1>3, <1>5, <1>10, <2>1, <2>2 DEF CodexTyped, t
<1>13. ASSUME astray' \cap {"hasty", "queue"} = {}
       PROVE  Chain(s) /\ Pending(s) /\ Chain(t) /\ Pending(t)
  <2>1. Chain(s) /\ Pending(s)
    BY <1>7, <1>13 DEF CodexInv, One, s
  <2>2. QED
    BY <1>2, <1>3, <1>4, <2>1, ChainAfterReply
<1>14. One'
  BY <1>13 DEF One, t
<1>15. ASSUME astray' \cap {"hasty", "queue"} = {}, s.pendingTurn # Nil
       PROVE  s.pendingTurn = p /\ s.phase[p] \in {"turn", "completion"} /\ ~TurnAsked(s, p, t)
  <2>1. s.pendingTurn \in Live(s) /\ s.phase[s.pendingTurn] \in {"turn", "completion"}
    BY <1>3, <1>15, PendingIsLive
  <2>2. s.pendingTurn = p
    BY <1>11, <1>13, <1>15, <2>1 DEF Chain
  <2>3. QED
    BY <2>1, <2>2 DEF TurnAsked
<1>16. OwnTurn'
  <2> SUFFICES ASSUME astray' \cap {"hasty", "queue", "givenUp"} = {}
               PROVE  /\ \A q \in Prompts : t.phase[q] = "ok" \/ q \in t.early => turn'[q] = "completed"
                      /\ t.running /\ ~t.crashed =>
                           \A q \in Prompts : turn'[q] \in {"asked", "started"} => t.pendingTurn = q
    BY DEF OwnTurn, t
  <2>1. /\ \A q \in Prompts : s.phase[q] = "ok" \/ q \in s.early => turn[q] = "completed"
        /\ s.running /\ ~s.crashed =>
             \A q \in Prompts : turn[q] \in {"asked", "started"} => s.pendingTurn = q
    BY <1>7 DEF CodexInv, OwnTurn, s
  <2>2. ASSUME NEW q \in Prompts, t.phase[q] = "ok" \/ q \in t.early
        PROVE  turn'[q] = "completed"
    <3>1. turn[q] = "completed"
      BY <1>5, <1>6, <2>1, <2>2 DEF Onward
    <3>2. ~(TurnAsked(s, p, t) /\ q = p)
      <4> SUFFICES ASSUME TurnAsked(s, p, t), q = p PROVE FALSE
        OBVIOUS
      <4>1. s.phase[p] \in BeforeTurn
        BY DEF TurnAsked, BeforeTurn
      <4>2. turn[p] = "none"
        BY <4>1 DEF CodexInv, CodexTyped, s
      <4>3. QED
        BY <3>1, <4>2
    <3>3. QED
      BY <1>9, <3>1, <3>2
  <2>3. ASSUME t.running, ~t.crashed, NEW q \in Prompts, turn'[q] \in {"asked", "started"}
        PROVE  t.pendingTurn = q
    <3>1. CASE TurnAsked(s, p, t) /\ q = p
      BY <3>1 DEF TurnAsked
    <3>2. CASE ~(TurnAsked(s, p, t) /\ q = p)
      <4>1. turn[q] \in {"asked", "started"}
        BY <1>9, <2>3, <3>2
      <4>2. s.pendingTurn = q /\ q # Nil
        BY <1>2, <1>6, <2>1, <2>3, <4>1, PromptNumbers
      <4>3. q = p /\ s.phase[p] \in {"turn", "completion"} /\ ~TurnAsked(s, p, t)
        BY <1>15, <4>2
      <4>4. ~Thrown(s, p, t)
        <5> SUFFICES ASSUME Thrown(s, p, t) PROVE FALSE
          OBVIOUS
        <5>1. t.phase[p] = "failed" /\ turn[p] # "completed"
          BY <1>6, <4>1, <4>3
        <5>2. GivenUp(s, t) = {"givenUp"}
          BY <4>3, <5>1 DEF GivenUp
        <5>3. QED
          BY <1>7, <5>2
      <4>5. t.pendingTurn = s.pendingTurn
        BY <1>4, <4>3, <4>4 DEF Reaction, Advanced, TurnAccepted, LateAnswer
      <4>6. QED
        BY <4>2, <4>5
    <3>3. QED
      BY <3>1, <3>2
  <2>4. QED
    BY <2>2, <2>3
<1>17. OwnId'
  <2> SUFFICES ASSUME astray' = {}
               PROVE  t.turnId \in {Nil, t.pendingTurn} /\ t.timers \subseteq interrupted
    BY <1>2 DEF OwnId, t
  <2>1. s.turnId \in {Nil, s.pendingTurn} /\ s.timers \subseteq interrupted
    BY <1>7 DEF CodexInv, OwnId, s
  <2>2. CASE Thrown(s, p, t)
    BY <2>1, <2>2 DEF Thrown, Cleared
  <2>3. CASE Advanced(s, p, t)
    BY <2>1, <2>3 DEF Advanced, Moved
  <2>4. CASE TurnAsked(s, p, t)
    <3>1. s.pendingTurn = Nil
      BY <1>15, <2>4
    <3>2. QED
      BY <2>1, <2>4, <3>1 DEF TurnAsked, Moved
  <2>5. CASE TurnAccepted(s, p, t)
    <3>1. s.pendingTurn = p
      BY <1>2, <1>13, <2>5 DEF TurnAccepted, Pending
    <3>2. QED
      BY <2>1, <2>5, <3>1 DEF TurnAccepted, Moved
  <2>6. CASE ok /\ LateAnswer(s, p, t)
    <3>1. p \in s.early /\ s.phase[p] = "turn"
      BY <2>6 DEF LateAnswer
    <3>2. turn[p] = "completed"
      BY <1>7, <3>1 DEF CodexInv, OwnTurn, s
    <3>3. "late" \in astray'
      BY <1>1, <2>6, <3>1, <3>2
    <3>4. QED
      BY <3>3
  <2>7. QED
    BY <1>4, <2>2, <2>3, <2>4, <2>5, <2>6 DEF Reaction
<1>18. QED
  BY <1>12, <1>14, <1>16, <1>17 DEF CodexInv

LEMMA AskStep ==
  ASSUME CodexInv, NEW p \in Prompts, NewPrompt(p)
  PROVE  CodexInv'
<1> DEFINE s == server
           t == server'
<1>1. /\ p = asked + 1 /\ asked' = p /\ t = ReplaceRun(s, p) /\ turn' = turn
      /\ interrupted' = interrupted \cup IF s.runnerRef # Nil THEN Notified(s) ELSE {}
      /\ astray' = astray
           \cup (IF s.runnerRef = Nil /\ InProgress # {} THEN {"hasty"} ELSE {})
           \cup (IF s.runnerRef # Nil /\ Waiting # {} THEN {"queue"} ELSE {})
  BY DEF NewPrompt
<1>2. /\ asked \in 0..MaxCodexPrompts /\ GoodServer(s, asked)
      /\ turn \in [Prompts -> {"none", "asked", "started", "completed"}]
      /\ interrupted \in SUBSET (1..asked)
      /\ \A q \in Prompts : s.phase[q] \in BeforeTurn => turn[q] = "none"
  BY DEF CodexInv, CodexTyped
<1>3. InProgress = Live(s) /\ Waiting = Held(s)
  BY DEF InProgress, Waiting, Live, Held
<1>4. GoodServer(t, p) /\ PromptAsked(s, p, t)
  BY <1>1, <1>2, AskFacts
<1>5. s.turnId \in 0..asked /\ s.phase[p] = "none" /\ asked \in Nat
  BY <1>1, <1>2, ServerParts, PromptNumbers DEF GoodServer
<1> HIDE DEF s, t
<1>6. CodexTyped'
  <2>1. asked' \in 0..MaxCodexPrompts
    BY <1>1, PromptNumbers DEF Prompts
  <2>2. Notified(s) \subseteq 1..asked
    BY <1>5 DEF Notified, Nil
  <2>3. interrupted' \in SUBSET (1..asked')
    <3>1. 1..asked \subseteq 1..p
      BY <1>1, <1>5
    <3>2. QED
      BY <1>1, <1>2, <2>2, <3>1
  <2>4. \A q \in Prompts : t.phase[q] \in BeforeTurn => turn[q] = "none"
    BY <1>2, <1>4, <1>5 DEF PromptAsked, BeforeTurn
  <2>5. QED
    BY <1>1, <1>2, <1>4, <2>1, <2>3, <2>4 DEF CodexTyped, t
<1>7. One'
  <2> SUFFICES ASSUME astray' \cap {"hasty", "queue"} = {} PROVE Chain(t) /\ Pending(t)
    BY DEF One, t
  <2>1. Chain(s) /\ Pending(s)
    BY <1>1 DEF CodexInv, One, s
  <2>2. s.runnerRef = Nil => Live(s) = {}
    BY <1>1, <1>3
  <2>3. s.runnerRef # Nil => Held(s) = {}
    BY <1>1, <1>3
  <2>4. QED
    BY <1>4, <2>1, <2>2, <2>3 DEF PromptAsked
<1>8. OwnTurn'
  <2> SUFFICES ASSUME astray' \cap {"hasty", "queue", "givenUp"} = {}
               PROVE  /\ \A q \in Prompts : t.phase[q] = "ok" \/ q \in t.early => turn[q] = "completed"
                      /\ t.running /\ ~t.crashed =>
                           \A q \in Prompts : turn[q] \in {"asked", "started"} => t.pendingTurn = q
    BY <1>1 DEF OwnTurn, t
  <2>1. /\ \A q \in Prompts : s.phase[q] = "ok" \/ q \in s.early => turn[q] = "completed"
        /\ s.running /\ ~s.crashed =>
             \A q \in Prompts : turn[q] \in {"asked", "started"} => s.pendingTurn = q
    BY <1>1 DEF CodexInv, OwnTurn, s
  <2>2. QED
    BY <1>4, <2>1 DEF PromptAsked
<1>9. OwnId'
  <2> SUFFICES ASSUME astray' = {}
               PROVE  t.turnId \in {Nil, t.pendingTurn} /\ t.timers \subseteq interrupted'
    BY DEF OwnId, t
  <2>1. s.turnId \in {Nil, s.pendingTurn} /\ s.timers \subseteq interrupted
    BY <1>1 DEF CodexInv, OwnId, s
  <2>2. t.turnId = s.turnId /\ t.pendingTurn = s.pendingTurn
    BY <1>4 DEF PromptAsked
  <2>3. CASE t.timers = s.timers
    BY <1>1, <2>1, <2>2, <2>3
  <2>4. CASE t.timers # s.timers
    <3>1. s.runnerRef # Nil /\ Interrupted(s, t)
      BY <1>4, <2>4 DEF PromptAsked
    <3>2. s.manager /\ s.threadId /\ s.turnId # Nil /\ t.timers = s.timers \cup {s.pendingTurn}
      BY <2>4, <3>1 DEF Interrupted
    <3>3. s.pendingTurn \in Notified(s)
      BY <2>1, <3>2 DEF Notified
    <3>4. QED
      BY <1>1, <2>1, <2>2, <3>1, <3>2, <3>3
  <2>5. QED
    BY <2>3, <2>4
<1>10. QED
  BY <1>6, <1>7, <1>8, <1>9 DEF CodexInv

LEMMA InterruptStep ==
  ASSUME CodexInv, InterruptKey
  PROVE  CodexInv'
<1> DEFINE s == server
           t == server'
           i == SendInterrupt(s)
<1>1. /\ t = [i EXCEPT !.runnerRef = Nil] /\ interrupted' = interrupted \cup Notified(s)
      /\ asked' = asked /\ turn' = turn /\ astray' = astray
  BY DEF InterruptKey
<1>2. /\ asked \in 0..MaxCodexPrompts /\ GoodServer(s, asked) /\ interrupted \in SUBSET (1..asked)
      /\ asked \in Nat /\ Nil \in 0..asked
  BY PromptNumbers DEF CodexInv, CodexTyped
<1>3. /\ i \in ServerOf(asked) /\ Kept(s, i) /\ i.running = s.running /\ i.turnId = s.turnId
      /\ Interrupted(s, i)
  BY <1>2, InterruptFacts
<1>4. GoodServer(i, asked) /\ Onward(s, {}, i) /\ (Chain(s) => Chain(i)) /\ (Pending(s) => Pending(i))
  BY <1>2, <1>3, KeptFacts
<1>5. s.turnId \in 0..asked
  BY <1>2, ServerParts DEF GoodServer
<1> HIDE DEF i, t
<1>6. /\ t \in ServerOf(asked) /\ t.phase = i.phase /\ t.awaits = i.awaits
      /\ t.running = i.running /\ t.early = i.early /\ t.crashed = i.crashed
      /\ t.runnerRef = Nil /\ t.timers = i.timers
      /\ t.pendingTurn = i.pendingTurn /\ t.turnId = i.turnId
  BY <1>1, <1>2, <1>3 DEF ServerOf
<1> HIDE DEF s
<1>7. CodexTyped'
  <2>1. GoodServer(t, asked)
    BY <1>4, <1>6 DEF GoodServer
  <2>2. Notified(s) \subseteq 1..asked
    BY <1>2, <1>5 DEF Notified, Nil
  <2>3. \A q \in Prompts : t.phase[q] \in BeforeTurn => turn[q] = "none"
    BY <1>4, <1>6 DEF Onward, CodexInv, CodexTyped, s
  <2>4. interrupted' \in SUBSET (1..asked)
    BY <1>1, <1>2, <2>2
  <2>5. turn \in [Prompts -> {"none", "asked", "started", "completed"}]
    BY DEF CodexInv, CodexTyped
  <2>6. QED
    BY <1>1, <1>2, <2>1, <2>3, <2>4, <2>5 DEF CodexTyped, t
<1>8. One'
  <2>1. Live(t) = Live(i) /\ Held(t) = Held(i)
    BY <1>6 DEF Live, Held
  <2>2. Chain(s) => Chain(t)
    BY <1>4, <1>6, <2>1 DEF Chain
  <2>3. Pending(s) => Pending(t)
    BY <1>4, <1>6 DEF Pending
  <2>4. QED
    BY <1>1, <2>2, <2>3 DEF CodexInv, One, s, t
<1>9. OwnTurn'
  <2>1. t.phase = s.phase /\ t.early = s.early /\ t.running = s.running /\ t.crashed = s.crashed
        /\ t.pendingTurn = s.pendingTurn
    BY <1>3, <1>6 DEF Kept
  <2>2. QED
    BY <1>1, <2>1 DEF CodexInv, OwnTurn, s, t
<1>10. OwnId'
  <2> SUFFICES ASSUME astray' = {}
               PROVE  t.turnId \in {Nil, t.pendingTurn} /\ t.timers \subseteq interrupted'
    BY DEF OwnId, t
  <2>1. s.turnId \in {Nil, s.pendingTurn} /\ s.timers \subseteq interrupted
    BY <1>1 DEF CodexInv, OwnId, s
  <2>2. t.turnId = s.turnId /\ t.pendingTurn = s.pendingTurn /\ t.timers = i.timers
    BY <1>3, <1>6 DEF Kept
  <2>3. CASE i.timers = s.timers
    BY <1>1, <2>1, <2>2, <2>3
  <2>4. CASE i.timers # s.timers
    <3>1. s.manager /\ s.threadId /\ s.turnId # Nil /\ i.timers = s.timers \cup {s.pendingTurn}
      BY <1>3, <2>4 DEF Interrupted
    <3>2. s.pendingTurn \in Notified(s)
      BY <2>1, <3>1 DEF Notified
    <3>3. QED
      BY <1>1, <2>1, <2>2, <3>1, <3>2
  <2>5. QED
    BY <2>3, <2>4
<1>11. QED
  BY <1>7, <1>8, <1>9, <1>10 DEF CodexInv

LEMMA TurnStartedStep ==
  ASSUME CodexInv, NEW p \in Prompts, TurnStarted(p)
  PROVE  CodexInv'
<1> DEFINE s == server
           t == server'
<1>1. /\ s.running /\ ~s.crashed /\ turn[p] = "asked"
      /\ turn' = [turn EXCEPT ![p] = "started"] /\ t = [s EXCEPT !.turnId = p]
      /\ asked' = asked /\ interrupted' = interrupted /\ astray' = astray
  BY DEF TurnStarted
<1>2. /\ asked \in 0..MaxCodexPrompts /\ GoodServer(s, asked) /\ asked \in Nat
      /\ interrupted \in SUBSET (1..asked)
      /\ turn \in [Prompts -> {"none", "asked", "started", "completed"}]
      /\ \A q \in Prompts : s.phase[q] \in BeforeTurn => turn[q] = "none"
  BY PromptNumbers DEF CodexInv, CodexTyped
<1>3. p \in 0..asked
  <2>1. s.phase[p] \notin BeforeTurn
    BY <1>1, <1>2
  <2>2. ~(p > asked)
    BY <1>2, <2>1 DEF GoodServer, BeforeTurn
  <2>3. QED
    BY <1>2, <2>2, PromptNumbers
<1> HIDE DEF t
<1>4. /\ t \in ServerOf(asked) /\ Kept(s, t) /\ t.running = s.running /\ t.timers = s.timers
      /\ t.turnId = p
  BY <1>1, <1>2, <1>3 DEF GoodServer, ServerOf, Kept
<1> HIDE DEF s
<1>5. GoodServer(t, asked) /\ Onward(s, {}, t) /\ (Chain(s) => Chain(t)) /\ (Pending(s) => Pending(t))
  BY <1>2, <1>4, KeptFacts
<1>6. CodexTyped'
  <2>1. \A q \in Prompts : t.phase[q] \in BeforeTurn => turn'[q] = "none"
    BY <1>1, <1>2, <1>5 DEF Onward
  <2>2. turn' \in [Prompts -> {"none", "asked", "started", "completed"}]
    BY <1>1, <1>2
  <2>3. QED
    BY <1>1, <1>2, <1>5, <2>1, <2>2 DEF CodexTyped, t
<1>7. One'
  BY <1>1, <1>5 DEF CodexInv, One, s, t
<1>8. OwnTurn'
  <2>1. /\ t.phase = s.phase /\ t.early = s.early /\ t.running = s.running /\ t.crashed = s.crashed
        /\ t.pendingTurn = s.pendingTurn
    BY <1>4 DEF Kept
  <2>2. \A q \in Prompts : turn'[q] \in {"asked", "started"} => turn[q] \in {"asked", "started"}
    BY <1>1, <1>2
  <2>3. \A q \in Prompts : turn[q] = "completed" => turn'[q] = "completed"
    BY <1>1, <1>2
  <2>4. QED
    BY <1>1, <2>1, <2>2, <2>3 DEF CodexInv, OwnTurn, s, t
<1>9. OwnId'
  <2> SUFFICES ASSUME astray = {} PROVE t.turnId \in {Nil, t.pendingTurn} /\ t.timers \subseteq interrupted
    BY <1>1 DEF OwnId, t
  <2>1. s.pendingTurn = p /\ s.timers \subseteq interrupted
    BY <1>1 DEF CodexInv, OwnTurn, OwnId, s
  <2>2. QED
    BY <1>4, <2>1 DEF Kept
<1>10. QED
  BY <1>6, <1>7, <1>8, <1>9 DEF CodexInv

LEMMA TurnCompletedStep ==
  ASSUME CodexInv, NEW p \in Prompts, TurnCompleted(p)
  PROVE  CodexInv'
<1> DEFINE s == server
           t == server'
<1>1. /\ s.running /\ ~s.crashed /\ turn[p] = "started"
      /\ turn' = [turn EXCEPT ![p] = "completed"] /\ t = ResolvePendingTurn(s)
      /\ asked' = asked /\ interrupted' = interrupted /\ astray' = astray
  BY DEF TurnCompleted
<1>2. /\ asked \in 0..MaxCodexPrompts /\ GoodServer(s, asked)
      /\ interrupted \in SUBSET (1..asked)
      /\ turn \in [Prompts -> {"none", "asked", "started", "completed"}]
      /\ \A q \in Prompts : s.phase[q] \in BeforeTurn => turn[q] = "none"
  BY DEF CodexInv, CodexTyped
<1>3. GoodServer(t, asked) /\ Resolved(s, t)
  BY <1>1, <1>2, ResolveFacts
<1> HIDE DEF s, t
<1>4. Cleared(s, t) /\ Onward(s, {s.pendingTurn}, t) /\ t.early \subseteq s.early \cup {s.pendingTurn}
  BY <1>3 DEF Resolved
<1>5. CodexTyped'
  <2>1. \A q \in Prompts : t.phase[q] \in BeforeTurn => turn'[q] = "none"
    BY <1>1, <1>2, <1>4 DEF Onward
  <2>2. turn' \in [Prompts -> {"none", "asked", "started", "completed"}]
    BY <1>1, <1>2
  <2>3. QED
    BY <1>1, <1>2, <1>3, <2>1, <2>2 DEF CodexTyped, t
<1>6. One'
  BY <1>1, <1>3 DEF Resolved, CodexInv, One, s, t
<1>7. OwnTurn'
  <2> SUFFICES ASSUME astray \cap {"hasty", "queue", "givenUp"} = {}
               PROVE  /\ \A q \in Prompts : t.phase[q] = "ok" \/ q \in t.early => turn'[q] = "completed"
                      /\ \A q \in Prompts : turn'[q] \notin {"asked", "started"}
    BY <1>1 DEF OwnTurn, t
  <2>1. /\ \A q \in Prompts : s.phase[q] = "ok" \/ q \in s.early => turn[q] = "completed"
        /\ \A q \in Prompts : turn[q] \in {"asked", "started"} => s.pendingTurn = q
    BY <1>1 DEF CodexInv, OwnTurn, s
  <2>2. s.pendingTurn = p
    BY <1>1, <2>1
  <2>3. \A q \in Prompts : t.phase[q] = "ok" \/ q \in t.early => turn[q] = "completed" \/ q = p
    BY <1>4, <2>1, <2>2 DEF Onward
  <2>4. \A q \in Prompts : turn'[q] = IF q = p THEN "completed" ELSE turn[q]
    BY <1>1, <1>2
  <2>5. QED
    BY <2>1, <2>2, <2>3, <2>4
<1>8. OwnId'
  BY <1>1, <1>4 DEF Cleared, CodexInv, OwnId, s, t
<1>9. QED
  BY <1>5, <1>6, <1>7, <1>8 DEF CodexInv

\* The process exits, or is stopped.
LEMMA HaltStep ==
  ASSUME CodexInv, GoodServer(server', asked), Halted(server, server'),
         UNCHANGED <<asked, turn, interrupted, astray>>
  PROVE  CodexInv'
<1> DEFINE s == server
           t == server'
<1>1. /\ Cleared(s, t) /\ Onward(s, {}, t) /\ t.running = FALSE /\ t.early = s.early
      /\ Chain(s) /\ Pending(s) => Chain(t) /\ Pending(t)
      /\ GoodServer(t, asked)
  BY DEF Halted
<1> HIDE DEF s, t
<1>2. CodexTyped'
  <2>1. \A q \in Prompts : t.phase[q] \in BeforeTurn => turn[q] = "none"
    BY <1>1 DEF Onward, CodexInv, CodexTyped, s
  <2>2. QED
    BY <1>1, <2>1 DEF CodexInv, CodexTyped, t
<1>3. One'
  BY <1>1 DEF CodexInv, One, s, t
<1>4. OwnTurn'
  BY <1>1 DEF Onward, CodexInv, OwnTurn, s, t
<1>5. OwnId'
  BY <1>1 DEF Cleared, CodexInv, OwnId, s, t
<1>6. QED
  BY <1>2, <1>3, <1>4, <1>5 DEF CodexInv

LEMMA ProcessExitsStep ==
  ASSUME CodexInv, ProcessExits
  PROVE  CodexInv'
<1> DEFINE s == server
           u == [s EXCEPT !.running = FALSE]
           h == RejectPendingTurn(u)
           rejected == {p \in Prompts : h.phase[p] \in Requests}
           loaded == h.loaded /\ ~\E p \in rejected : h.phase[p] = "unload"
<1>1. /\ server' = Throw([h EXCEPT !.loaded = loaded], rejected)
      /\ UNCHANGED <<asked, turn, interrupted, astray>>
  BY DEF ProcessExits
<1>2. asked \in 0..MaxCodexPrompts /\ GoodServer(s, asked)
  BY DEF CodexInv, CodexTyped
<1>3. u \in ServerOf(asked) /\ Kept(s, u) /\ u.timers = s.timers /\ u.running = FALSE
  BY <1>2 DEF GoodServer, ServerOf, Kept
<1> HIDE DEF u
<1>4. GoodServer(h, asked) /\ Halted(s, h)
  BY <1>2, <1>3, HaltFacts
<1> HIDE DEF h
<1>5. h.loaded \in BOOLEAN
  BY <1>2, <1>4, ServerParts DEF GoodServer
<1>6. loaded \in BOOLEAN
  OBVIOUS
<1> HIDE DEF loaded
<1>7. GoodServer(server', asked) /\ Halted(s, server')
  BY <1>1, <1>2, <1>4, <1>6, ExitFacts
<1>8. QED
  BY <1>1, <1>7, HaltStep DEF s

LEMMA StopStep ==
  ASSUME CodexInv, Stop
  PROVE  CodexInv'
<1> DEFINE s == server
           u == [s EXCEPT !.manager = FALSE, !.running = FALSE,
                          !.loaded = FALSE, !.threadId = FALSE, !.turnId = Nil]
<1>1. server' = RejectPendingTurn(u) /\ UNCHANGED <<asked, turn, interrupted, astray>>
  BY DEF Stop
<1>2. asked \in 0..MaxCodexPrompts /\ GoodServer(s, asked) /\ Nil \in 0..asked
  BY PromptNumbers DEF CodexInv, CodexTyped
<1>3. u \in ServerOf(asked) /\ Kept(s, u) /\ u.timers = s.timers /\ u.running = FALSE
  BY <1>2 DEF GoodServer, ServerOf, Kept
<1> HIDE DEF u
<1>4. GoodServer(server', asked) /\ Halted(s, server')
  BY <1>1, <1>2, <1>3, HaltFacts
<1>5. QED
  BY <1>1, <1>4, HaltStep DEF s

LEMMA SettleTimerStep ==
  ASSUME CodexInv, NEW p \in Prompts, SettleTimer(p)
  PROVE  CodexInv'
<1> DEFINE s == server
           u == [s EXCEPT !.timers = @ \ {p}]
           t == server'
<1>1. /\ ~s.crashed /\ t = (IF u.pendingTurn = Nil THEN u ELSE RejectPendingTurn(u))
      /\ astray' = astray \cup GivenUp(s, t)
      /\ asked' = asked /\ turn' = turn /\ interrupted' = interrupted
  BY DEF SettleTimer
<1>2. asked \in 0..MaxCodexPrompts /\ GoodServer(s, asked)
  BY DEF CodexInv, CodexTyped
<1>3. /\ u \in ServerOf(asked) /\ Kept(s, u) /\ u.timers = s.timers \ {p}
      /\ u.running = s.running /\ u.turnId = s.turnId
  BY <1>2 DEF GoodServer, ServerOf, Kept
<1> HIDE DEF u, t
<1>4. GoodServer(u, asked) /\ Onward(s, {}, u) /\ (Chain(s) => Chain(u)) /\ (Pending(s) => Pending(u))
  BY <1>2, <1>3, KeptFacts
<1>5. s.pendingTurn # Nil => GoodServer(t, asked) /\ Rejected(u, t)
  BY <1>1, <1>2, <1>3, <1>4, RejectFacts DEF Kept
<1>6. s.pendingTurn = Nil => t = u
  BY <1>1, <1>3 DEF Kept
<1> HIDE DEF s
<1>7. /\ GoodServer(t, asked) /\ Onward(s, {}, t) /\ t.running = s.running /\ t.early = s.early
      /\ Chain(s) /\ Pending(s) => Chain(t) /\ Pending(t)
  <2>1. CASE s.pendingTurn = Nil
    BY <1>3, <1>4, <1>6, <2>1 DEF Kept
  <2>2. CASE s.pendingTurn # Nil
    <3>1. Onward(s, {} \cup {}, t)
      BY <1>4, <1>5, <2>2, OnwardTwice DEF Rejected
    <3>2. QED
      BY <1>3, <1>4, <1>5, <2>2, <3>1 DEF Rejected, Kept
  <2>3. QED
    BY <2>1, <2>2
<1>8. CodexTyped'
  <2>1. \A q \in Prompts : t.phase[q] \in BeforeTurn => turn[q] = "none"
    BY <1>7 DEF Onward, CodexInv, CodexTyped, s
  <2>2. QED
    BY <1>1, <1>7, <2>1 DEF CodexInv, CodexTyped, t
<1>9. One'
  BY <1>1, <1>7 DEF CodexInv, One, s, t
<1>10. OwnTurn'
  <2> SUFFICES ASSUME astray' \cap {"hasty", "queue", "givenUp"} = {}
               PROVE  /\ \A q \in Prompts : t.phase[q] = "ok" \/ q \in t.early => turn[q] = "completed"
                      /\ t.running /\ ~t.crashed =>
                           \A q \in Prompts : turn[q] \in {"asked", "started"} => t.pendingTurn = q
    BY <1>1 DEF OwnTurn, t
  <2>1. /\ \A q \in Prompts : s.phase[q] = "ok" \/ q \in s.early => turn[q] = "completed"
        /\ s.running => \A q \in Prompts : turn[q] \in {"asked", "started"} => s.pendingTurn = q
    BY <1>1 DEF CodexInv, OwnTurn, s
  <2>2. \A q \in Prompts : t.phase[q] = "ok" \/ q \in t.early => turn[q] = "completed"
    BY <1>7, <2>1 DEF Onward
  <2>3. ASSUME t.running, ~t.crashed, NEW q \in Prompts, turn[q] \in {"asked", "started"}
        PROVE  t.pendingTurn = q
    <3>1. s.pendingTurn = q /\ q # Nil
      BY <1>7, <2>1, <2>3, PromptNumbers
    <3>2. s.phase[q] = "completion" /\ t.phase[q] = "failed"
      BY <1>3, <1>5, <2>3, <3>1 DEF Rejected, Kept
    <3>3. GivenUp(s, t) = {"givenUp"}
      BY <2>3, <3>2 DEF GivenUp
    <3>4. QED
      BY <1>1, <3>3
  <2>4. QED
    BY <2>2, <2>3
<1>11. OwnId'
  <2> SUFFICES ASSUME astray = {} PROVE t.turnId \in {Nil, t.pendingTurn} /\ t.timers \subseteq interrupted
    BY <1>1 DEF OwnId, t
  <2>1. s.turnId \in {Nil, s.pendingTurn} /\ s.timers \subseteq interrupted
    BY DEF CodexInv, OwnId, s
  <2>2. QED
    BY <1>3, <1>5, <1>6, <2>1 DEF Rejected, Cleared, Kept
<1>12. QED
  BY <1>8, <1>9, <1>10, <1>11 DEF CodexInv

LEMMA CodexStep == CodexInv /\ [CodexNext]_codexVars => CodexInv'
<1> SUFFICES ASSUME CodexInv, [CodexNext]_codexVars PROVE CodexInv'
  OBVIOUS
<1>1. CASE UNCHANGED codexVars
  BY <1>1 DEF codexVars, CodexInv, CodexTyped, One, OwnTurn, OwnId
<1>2. ASSUME NEW p \in Prompts, NewPrompt(p) PROVE CodexInv'
  BY <1>2, AskStep
<1>3. ASSUME NEW p \in Prompts, Reply(p) PROVE CodexInv'
  BY <1>3, ReplyStep
<1>4. ASSUME NEW p \in Prompts, SettleTimer(p) PROVE CodexInv'
  BY <1>4, SettleTimerStep
<1>5. ASSUME NEW p \in Prompts, TurnStarted(p) PROVE CodexInv'
  BY <1>5, TurnStartedStep
<1>6. ASSUME NEW p \in Prompts, TurnCompleted(p) PROVE CodexInv'
  BY <1>6, TurnCompletedStep
<1>7. CASE InterruptKey
  BY <1>7, InterruptStep
<1>8. CASE ProcessExits
  BY <1>8, ProcessExitsStep
<1>9. CASE Stop
  BY <1>9, StopStep
<1>10. QED
  BY <1>1, <1>2, <1>3, <1>4, <1>5, <1>6, <1>7, <1>8, <1>9 DEF CodexNext

LEMMA CodexInvariant == CodexSpec => []CodexInv
<1>1. CodexInit => CodexInv
  BY InitCodexInv
<1>2. CodexInv /\ [CodexNext]_codexVars => CodexInv'
  BY CodexStep
<1>3. QED
  BY <1>1, <1>2, PTL DEF CodexSpec

\* The state of a session on Codex is well typed, and Codex is told of no turn that was not
\* asked for.
THEOREM CodexTypeCorrect == CodexSpec => []CodexTypeOK
<1>1. CodexInv => CodexTypeOK
  <2> SUFFICES ASSUME CodexInv PROVE CodexTypeOK
    OBVIOUS
  <2>1. asked \in 0..MaxCodexPrompts /\ server \in ServerOf(asked)
    BY DEF CodexInv, CodexTyped, GoodServer
  <2>2. 0..asked \subseteq Prompts \cup {Nil} /\ 1..asked \subseteq Prompts
    BY <2>1, PromptNumbers DEF Nil
  <2>3. /\ server.phase \in [Prompts -> Phases]
        /\ server.turnId \in 0..asked /\ server.pendingTurn \in 0..asked
        /\ server.runnerRef \in 0..asked
        /\ server.timers \in SUBSET (1..asked) /\ server.early \in SUBSET (1..asked)
    BY <2>1, ServerParts
  <2>4. QED
    BY <2>2, <2>3 DEF CodexTypeOK, CodexInv, CodexTyped, Phases
<1>2. QED
  BY <1>1, CodexInvariant, PTL

\* sendPrompt looks for a pending turn only before its first await (server.ts:538-540):
\* as the controller awaits the run it replaces, that is enough, until the user drops an
\* interrupted run before its end or lets two prompts wait for one.
THEOREM OneTurnCorrect == CodexSpec => []OneTurnAtATime
<1>1. CodexInv => OneTurnAtATime
  BY DEF CodexInv, One, Chain, Live, InProgress, OneTurnAtATime
<1>2. QED
  BY <1>1, CodexInvariant, PTL

\* turn/completed resolves whatever turn is pending (server.ts:385): it is the prompt's
\* own, until prompts overlap or one is given up with its turn under way.
THEOREM SuccessCorrect == CodexSpec => []SuccessIsOwn
<1>1. CodexInv => SuccessIsOwn
  BY DEF CodexInv, OwnTurn, SuccessIsOwn
<1>2. QED
  BY <1>1, CodexInvariant, PTL

\* sendInterrupt names the turn by the last id it heard of, and gives the pending turn
\* five seconds (server.ts:813-821): they are the same turn, in any order of reports and
\* answers but an answer to turn/start after the turn.
THEOREM InterruptCorrect == CodexSpec => []InterruptIsOwn
<1>1. CodexInv => InterruptIsOwn
  BY DEF CodexInv, OwnId, InterruptIsOwn
<1>2. QED
  BY <1>1, CodexInvariant, PTL
=============================================================================
