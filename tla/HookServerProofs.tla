--------------------------- MODULE HookServerProofs ---------------------------
(***************************************************************************)
(* What HookServer guarantees for any set of requests about anything and    *)
(* any number of decisions.                                                *)
(***************************************************************************)
EXTENDS HookServer, TLAPS, FiniteSetTheorems

Sockets == {"none", "waiting", "answered", "gone", "done"}

Typed(w) ==
  /\ w \in Worlds
  /\ w.timers \subseteq w.pending \ Untimed
  /\ \A r \in w.pending : w.socket[r] \in {"waiting", "gone"}
  /\ \A r \in w.permissions : kind[r] = "permission"
  /\ \A r \in w.questions : kind[r] = "question"

\* A request that has not arrived has left no trace.
Fresh(w) ==
  \A r \in Requests : w.socket[r] = "none" =>
    /\ r \notin w.permissions /\ r \notin w.questions
    /\ w.notified[r] = <<>> /\ w.recorded[r] = 0 /\ w.reply[r] = "none"

\* One that is pending has not been decided, and the others at most once.
Single(w) ==
  \A r \in Requests :
    /\ r \in w.pending => w.notified[r] = <<>> /\ w.reply[r] = "none" /\ w.recorded[r] = 0
    /\ Len(w.notified[r]) <= 1
    /\ w.reply[r] # "none" => Len(w.notified[r]) = 1 /\ w.notified[r][1].verdict = w.reply[r]

\* The decision of a permission request that saw no run begin finds its event.
Correlated(w) ==
  \A r \in w.pending \ w.rolled : kind[r] = "permission" => w.parent[r] = "request"

Recorded(w) ==
  \A r \in Requests \ w.rolled :
    kind[r] = "permission" => w.recorded[r] = Len(w.notified[r])

Sound(w) == Typed(w) /\ Fresh(w) /\ Single(w) /\ Correlated(w) /\ Recorded(w)

PromptsOf(w) == w.permissions \cup w.questions
Waiting(w) == \A r \in w.pending \cap Patient : r \in PromptsOf(w)
Timely(w) ==
  \A r \in PromptsOf(w) : r \in w.pending \/ (kind[r] = "permission" /\ r \in w.rolled)

LEMMA WorldFields ==
  ASSUME NEW w \in Worlds
  PROVE  /\ w.socket \in [Requests -> Sockets]
         /\ w.reply \in [Requests -> Verdicts \cup {"none"}]
         /\ w.pending \subseteq Requests /\ w.timers \subseteq Requests
         /\ w.permissions \subseteq Requests /\ w.questions \subseteq Requests
         /\ w.order \in [Requests -> Nat]
         /\ w.runOpen \in BOOLEAN
         /\ w.parent \in [Requests -> {"none", "request", "other"}]
         /\ w.recorded \in [Requests -> Nat]
         /\ w.notified \in [Requests -> Seq(Decisions)]
         /\ w.rolled \subseteq Requests
BY DEF Worlds, Sockets

LEMMA AppendOne ==
  ASSUME NEW d \in Decisions
  PROVE  /\ Append(<<>>, d) = <<d>> /\ <<d>> \in Seq(Decisions)
         /\ Len(<<d>>) = 1 /\ <<d>>[1] = d
OBVIOUS

\* Questions that an answer or a timeout takes away.
Ended(D, of) == {r \in D : of[r].verdict = "answer" \/ of[r].source = "timeout"}

\* What announcing the decisions of the requests D does to a world.
Announced(w, v, D, of) ==
  /\ v \in Worlds
  /\ v.rolled = w.rolled
  /\ v.permissions = w.permissions \ Known(w, D)
  /\ v.questions = w.questions \ Ended(D, of)
  /\ \A r \in Requests :
       /\ r \in D => v.notified[r] = <<of[r]>> /\ v.parent[r] = "none"
       /\ r \notin D => v.notified[r] = w.notified[r] /\ v.parent[r] = w.parent[r]
       /\ r \in Known(w, D) => v.recorded[r] = w.recorded[r] + 1
       /\ r \notin Known(w, D) => v.recorded[r] = w.recorded[r]

\* Announcing decisions of requests that were not decided before.
LEMMA NotifyFacts ==
  ASSUME NEW w \in Worlds, NEW D \in SUBSET Requests, NEW of, \A r \in D : of[r] \in Decisions,
         \A r \in D : w.notified[r] = <<>>
  PROVE  LET v == Notify(w, D, of) IN
         /\ Announced(w, v, D, of)
         /\ v.socket = w.socket /\ v.reply = w.reply
         /\ v.pending = w.pending /\ v.timers = w.timers
<1> DEFINE n == [r \in Requests |-> IF r \in D THEN Append(w.notified[r], of[r])
                                    ELSE w.notified[r]]
           q == w.questions \ Ended(D, of)
           K == Known(w, D)
           p == [r \in Requests |-> IF r \in D THEN "none" ELSE w.parent[r]]
           c == [r \in Requests |-> w.recorded[r] + (IF r \in K THEN 1 ELSE 0)]
           v == Notify(w, D, of)
<1>1. n \in [Requests -> Seq(Decisions)] /\ \A r \in D : n[r] = <<of[r]>>
  <2>1. \A r \in D : Append(w.notified[r], of[r]) = <<of[r]>>
                     /\ <<of[r]>> \in Seq(Decisions)
    BY AppendOne
  <2>2. QED
    BY <2>1, WorldFields
<1>2. q \subseteq Requests
  BY WorldFields
<1>3. p \in [Requests -> {"none", "request", "other"}] /\ c \in [Requests -> Nat]
  BY WorldFields
<1> DEFINE t == [w EXCEPT !.notified = n, !.questions = q]
<1>4. /\ t \in Worlds /\ t.notified = n /\ t.questions = q
      /\ t.socket = w.socket /\ t.reply = w.reply /\ t.pending = w.pending
      /\ t.timers = w.timers /\ t.permissions = w.permissions /\ t.rolled = w.rolled
      /\ t.parent = w.parent /\ t.recorded = w.recorded
  <2> HIDE DEF n, q
  <2>1. QED
    BY <1>1, <1>2 DEF Worlds
<1>5. v = Record(t, D)
  BY DEF Notify, Ended
<1> HIDE DEF t
<1>6. Known(t, D) = K
  BY <1>4 DEF Known
<1>7. v = [t EXCEPT !.parent = p, !.recorded = c, !.permissions = @ \ K]
  BY <1>4, <1>5, <1>6 DEF Record
<1> HIDE DEF n, q, p, c, v, K
<1>8. /\ v \in Worlds
      /\ v.socket = w.socket /\ v.reply = w.reply
      /\ v.pending = w.pending /\ v.timers = w.timers /\ v.rolled = w.rolled
      /\ v.permissions = w.permissions \ K /\ v.questions = q
      /\ v.notified = n /\ v.recorded = c /\ v.parent = p
  BY <1>3, <1>4, <1>7 DEF Worlds
<1>9. \A r \in Requests :
        /\ r \in D => n[r] = <<of[r]>> /\ p[r] = "none"
        /\ r \notin D => n[r] = w.notified[r] /\ p[r] = w.parent[r]
        /\ r \in K => c[r] = w.recorded[r] + 1
        /\ r \notin K => c[r] = w.recorded[r]
  <2>1. \A r \in Requests : w.recorded[r] + 0 = w.recorded[r]
    BY WorldFields
  <2>2. QED
    BY <1>1, <2>1 DEF n, c, p
<1>10. Announced(w, v, D, of)
  BY <1>8, <1>9 DEF Announced, q, K
<1>11. QED
  BY <1>8, <1>10 DEF v

\* Decisions that end a wait: a question is only answered or timed out.
Decides(of) ==
  /\ DOMAIN of \subseteq Requests
  /\ \A r \in DOMAIN of :
       /\ of[r] \in Decisions
       /\ kind[r] = "question" => of[r].verdict = "answer" \/ of[r].source = "timeout"

\* What a decision of the requests D leaves, written or not.
Decided(w, v, D, of) ==
  /\ Announced(w, v, D, of)
  /\ v.pending = w.pending \ D /\ v.timers = w.timers \ D

LEMMA SendDecisionsFacts ==
  ASSUME NEW w, Sound(w), NEW of, Decides(of)
  PROVE  LET v == SendDecisions(w, of)
             D == DOMAIN of \cap w.pending
         IN  /\ Decided(w, v, D, of)
             /\ v.socket = Answered(w, D) /\ v.reply = Replied(w, D, of)
<1> DEFINE D == DOMAIN of \cap w.pending
           a == Answered(w, D)
           b == Replied(w, D, of)
           x == Respond(w, D, of)
<1>1. w \in Worlds /\ w.pending \subseteq Requests /\ D \subseteq w.pending /\ D \in SUBSET Requests
  BY WorldFields DEF Sound, Typed
<1>2. \A r \in D : of[r] \in Decisions /\ w.notified[r] = <<>>
  BY <1>1 DEF Sound, Single, Decides
<1>3. a \in [Requests -> Sockets] /\ b \in [Requests -> Verdicts \cup {"none"}]
  <2>1. \A r \in D : of[r].verdict \in Verdicts
    BY <1>2 DEF Decisions
  <2>2. QED
    BY <1>1, <2>1, WorldFields DEF Answered, Replied, Sockets
<1>4. x = [w EXCEPT !.pending = @ \ D, !.timers = @ \ D, !.socket = a, !.reply = b]
  BY DEF Respond
<1> HIDE DEF a, b, x, D
<1>5. /\ x \in Worlds
      /\ x.pending = w.pending \ D /\ x.timers = w.timers \ D
      /\ x.socket = a /\ x.reply = b
      /\ x.permissions = w.permissions /\ x.questions = w.questions
      /\ x.notified = w.notified /\ x.recorded = w.recorded /\ x.parent = w.parent
      /\ x.rolled = w.rolled
  BY <1>1, <1>3, <1>4 DEF Worlds, Sockets
<1>6. SendDecisions(w, of) = Notify(x, D, of)
  BY DEF SendDecisions, x, D
<1> DEFINE v == Notify(x, D, of)
<1>7. \A r \in D : x.notified[r] = <<>>
  BY <1>2, <1>5
<1>8. /\ Announced(x, v, D, of)
      /\ v.socket = x.socket /\ v.reply = x.reply
      /\ v.pending = x.pending /\ v.timers = x.timers
  BY <1>1, <1>2, <1>5, <1>7, NotifyFacts
<1>9. Known(x, D) = Known(w, D)
  BY <1>5 DEF Known
<1> HIDE DEF v
<1>10. Decided(w, v, D, of) /\ v.socket = a /\ v.reply = b
  BY <1>5, <1>8, <1>9 DEF Decided, Announced
<1>11. QED
  BY <1>6, <1>10 DEF a, b, D, v

\* A decision of pending requests is the only one of each, and is recorded.
LEMMA DecidedSound ==
  ASSUME NEW w, Sound(w), NEW v, NEW of, Decides(of), NEW D, D \subseteq DOMAIN of \cap w.pending,
         Decided(w, v, D, of),
         \A r \in Requests : /\ v.socket[r] = "none" <=> w.socket[r] = "none"
                             /\ r \notin D => v.socket[r] = w.socket[r]
                             /\ v.reply[r] = w.reply[r] \/ (r \in D /\ v.reply[r] = of[r].verdict)
  PROVE  /\ Sound(v)
         /\ (\A r \in (w.pending \cap Patient) \ D : r \in PromptsOf(w)) => Waiting(v)
         /\ Timely(w) => Timely(v)
<1>1. /\ w \in Worlds /\ D \subseteq Requests /\ D \subseteq w.pending /\ D \subseteq DOMAIN of
      /\ v \in Worlds
  BY WorldFields DEF Sound, Typed, Decided, Announced
<1>2. \A r \in D : of[r] \in Decisions /\ Len(<<of[r]>>) = 1 /\ <<of[r]>>[1] = of[r]
  BY <1>1, AppendOne DEF Decides
<1>3. Typed(v)
  BY <1>1, WorldFields DEF Typed, Sound, Decided, Announced
<1>4. Fresh(v)
  <2> SUFFICES ASSUME NEW r \in Requests, v.socket[r] = "none"
               PROVE  /\ r \notin v.permissions /\ r \notin v.questions
                      /\ v.notified[r] = <<>> /\ v.recorded[r] = 0 /\ v.reply[r] = "none"
    BY DEF Fresh
  <2>1. w.socket[r] = "none"
    OBVIOUS
  <2>2. r \notin D
    BY <1>1, <2>1 DEF Sound, Typed
  <2>3. QED
    BY <2>1, <2>2 DEF Sound, Fresh, Decided, Announced, Known
<1>5. Single(v)
  <2> SUFFICES ASSUME NEW r \in Requests
               PROVE  /\ r \in v.pending => /\ v.notified[r] = <<>> /\ v.reply[r] = "none"
                                            /\ v.recorded[r] = 0
                      /\ Len(v.notified[r]) <= 1
                      /\ v.reply[r] # "none" => /\ Len(v.notified[r]) = 1
                                                /\ v.notified[r][1].verdict = v.reply[r]
    BY DEF Single
  <2>1. CASE r \in D
    <3>1. v.notified[r] = <<of[r]>> /\ r \notin v.pending /\ w.reply[r] = "none"
      BY <1>1, <2>1 DEF Decided, Announced, Sound, Single
    <3>2. QED
      BY <1>2, <2>1, <3>1
  <2>2. CASE r \notin D
    <3>1. /\ v.notified[r] = w.notified[r] /\ v.recorded[r] = w.recorded[r]
          /\ v.reply[r] = w.reply[r] /\ (r \in v.pending => r \in w.pending)
      BY <2>2 DEF Decided, Announced, Known
    <3>2. QED
      BY <3>1 DEF Sound, Single
  <2>3. QED
    BY <2>1, <2>2
<1>6. Correlated(v)
  <2>1. \A r \in v.pending : r \in Requests /\ r \in w.pending /\ v.parent[r] = w.parent[r]
    BY <1>1, WorldFields DEF Decided, Announced
  <2>2. v.rolled = w.rolled
    BY DEF Decided, Announced
  <2>3. QED
    BY <2>1, <2>2 DEF Sound, Correlated
<1>7. Recorded(v)
  <2> SUFFICES ASSUME NEW r \in Requests, r \notin v.rolled, kind[r] = "permission"
               PROVE  v.recorded[r] = Len(v.notified[r])
    BY DEF Recorded
  <2>1. CASE r \in D
    <3>1. r \in Known(w, D) /\ w.recorded[r] = 0
      BY <1>1, <2>1 DEF Sound, Correlated, Single, Known, Decided, Announced
    <3>2. v.notified[r] = <<of[r]>> /\ v.recorded[r] = 0 + 1
      BY <2>1, <3>1 DEF Decided, Announced
    <3>3. Len(<<of[r]>>) = 1
      BY <1>2, <2>1
    <3>4. QED
      BY <3>2, <3>3
  <2>2. CASE r \notin D
    BY <2>2 DEF Sound, Recorded, Decided, Announced, Known
  <2>3. QED
    BY <2>1, <2>2
<1>8. ASSUME \A r \in (w.pending \cap Patient) \ D : r \in PromptsOf(w) PROVE Waiting(v)
  BY <1>1, <1>8 DEF Waiting, PromptsOf, Decided, Announced, Known, Ended
<1>9. ASSUME Timely(w) PROVE Timely(v)
  <2> SUFFICES ASSUME NEW r \in PromptsOf(v), r \notin v.pending
               PROVE  kind[r] = "permission" /\ r \in v.rolled
    BY DEF Timely
  <2>1. r \in PromptsOf(w) /\ v.rolled = w.rolled
    BY DEF PromptsOf, Decided, Announced
  <2>2. CASE r \in D
    <3>1. r \notin w.questions
      <4>1. SUFFICES ASSUME r \in w.questions PROVE FALSE
        OBVIOUS
      <4>2. kind[r] = "question"
        BY <4>1 DEF Sound, Typed
      <4>3. r \notin v.questions
        BY <1>1, <2>2, <4>2 DEF Decided, Announced, Decides, Ended
      <4>4. r \notin v.permissions
        BY <4>2, <1>3 DEF Typed
      <4>5. QED
        BY <4>3, <4>4 DEF PromptsOf
    <3>2. kind[r] = "permission" /\ r \in v.permissions
      BY <3>1, <2>1 DEF PromptsOf, Sound, Typed, Decided, Announced
    <3>3. r \notin Known(w, D)
      BY <3>2 DEF Decided, Announced
    <3>4. QED
      BY <1>1, <2>1, <2>2, <3>2, <3>3 DEF Known, Sound, Correlated
  <2>3. CASE r \notin D
    <3>1. r \notin w.pending
      BY <2>3 DEF Decided, Announced
    <3>2. QED
      BY <1>9, <2>1, <3>1 DEF Timely
  <2>4. QED
    BY <2>2, <2>3
<1>10. QED
  BY <1>3, <1>4, <1>5, <1>6, <1>7, <1>8, <1>9 DEF Sound

-----------------------------------------------------------------------------
(* A request arrives.                                                       *)

KindsTyped == kind \in [Requests -> Kinds]

\* What the arrival of r does to a world, before a rule decides it.
Arrived(w, m, r) ==
  /\ m \in Worlds
  /\ m.socket = [w.socket EXCEPT ![r] = "waiting"]
  /\ m.reply = w.reply /\ m.notified = w.notified /\ m.recorded = w.recorded
  /\ m.pending = w.pending \cup {r}
  /\ m.timers \subseteq w.timers \cup ({r} \ Untimed)
  /\ m.permissions = w.permissions \cup {q \in {r} : kind[q] = "permission" /\ rule = "none"}
  /\ m.questions = w.questions \cup {q \in {r} : kind[q] = "question"}
  /\ w.rolled \subseteq m.rolled /\ m.rolled \subseteq w.rolled \cup w.pending
  /\ \A q \in Requests \ {r} : m.parent[q] = w.parent[q] \/ q \notin w.pending \/ q \in m.rolled
  /\ kind[r] = "permission" => m.parent[r] = "request"

LEMMA AdmittedFacts ==
  ASSUME NEW w \in Worlds, NEW r \in Requests
  PROVE  LET a == Admitted(w, r) IN
         /\ a \in Worlds
         /\ a.socket = [w.socket EXCEPT ![r] = "waiting"]
         /\ a.pending = w.pending \cup {r}
         /\ a.timers \subseteq w.timers \cup ({r} \ Untimed)
         /\ a.reply = w.reply /\ a.notified = w.notified /\ a.recorded = w.recorded
         /\ a.permissions = w.permissions /\ a.questions = w.questions
         /\ a.parent = w.parent /\ a.rolled = w.rolled
<1> DEFINE S == {q \in Requests : w.socket[q] # "none"}
           s == [w.socket EXCEPT ![r] = "waiting"]
           o == [w.order EXCEPT ![r] = Cardinality(S)]
           t == IF r \in Untimed THEN w.timers ELSE w.timers \cup {r}
           a == Admitted(w, r)
<1>1. Cardinality(S) \in Nat
  <2>1. IsFiniteSet(S)
    BY HookServerAssumption, FS_Subset
  <2>2. QED
    BY <2>1, FS_CardinalityType
<1> HIDE DEF S
<1>2. o \in [Requests -> Nat] /\ s \in [Requests -> Sockets]
  BY <1>1, WorldFields DEF Sockets
<1>3. t \subseteq Requests /\ t \subseteq w.timers \cup ({r} \ Untimed)
  BY WorldFields
<1>4. a = [w EXCEPT !.socket = s, !.pending = @ \cup {r}, !.order = o, !.timers = t]
  BY DEF Admitted, S, Worlds
<1> HIDE DEF s, o, t, a
<1>5. w.pending \cup {r} \in SUBSET Requests /\ t \in SUBSET Requests
  BY <1>3, WorldFields
<1>6. /\ a \in Worlds
      /\ a.socket = s /\ a.pending = w.pending \cup {r} /\ a.timers = t
      /\ a.reply = w.reply /\ a.notified = w.notified /\ a.recorded = w.recorded
      /\ a.permissions = w.permissions /\ a.questions = w.questions
      /\ a.parent = w.parent /\ a.rolled = w.rolled
  BY <1>2, <1>4, <1>5 DEF Worlds, Sockets
<1>7. QED
  BY <1>3, <1>6 DEF s, a

LEMMA PromptedFacts ==
  ASSUME NEW a \in Worlds, NEW r \in Requests
  PROVE  LET p == Prompted(a, r) IN
         /\ p \in Worlds
         /\ p.permissions = a.permissions \cup {q \in {r} : kind[q] = "permission" /\ rule = "none"}
         /\ p.questions = a.questions \cup {q \in {r} : kind[q] = "question"}
         /\ p.socket = a.socket /\ p.pending = a.pending /\ p.timers = a.timers
         /\ p.reply = a.reply /\ p.notified = a.notified /\ p.recorded = a.recorded
         /\ p.parent = a.parent /\ p.rolled = a.rolled
<1>1. /\ a.permissions \cup {r} \in SUBSET Requests
      /\ a.questions \cup {r} \in SUBSET Requests
  BY WorldFields
<1>2. CASE kind[r] = "permission" /\ rule = "none"
  <2> DEFINE p == [a EXCEPT !.permissions = @ \cup {r}]
  <2>1. Prompted(a, r) = p
    BY <1>2 DEF Prompted
  <2>2. /\ p \in Worlds /\ p.permissions = a.permissions \cup {r} /\ p.questions = a.questions
        /\ p.socket = a.socket /\ p.pending = a.pending /\ p.timers = a.timers
        /\ p.reply = a.reply /\ p.notified = a.notified /\ p.recorded = a.recorded
        /\ p.parent = a.parent /\ p.rolled = a.rolled
    BY <1>1 DEF Worlds
  <2>3. /\ {q \in {r} : kind[q] = "permission" /\ rule = "none"} = {r}
        /\ {q \in {r} : kind[q] = "question"} = {}
    BY <1>2
  <2> HIDE DEF p
  <2>4. QED
    BY <2>1, <2>2, <2>3
<1>3. CASE kind[r] = "question"
  <2> DEFINE p == [a EXCEPT !.questions = @ \cup {r}]
  <2>1. Prompted(a, r) = p
    BY <1>3 DEF Prompted
  <2>2. /\ p \in Worlds /\ p.permissions = a.permissions /\ p.questions = a.questions \cup {r}
        /\ p.socket = a.socket /\ p.pending = a.pending /\ p.timers = a.timers
        /\ p.reply = a.reply /\ p.notified = a.notified /\ p.recorded = a.recorded
        /\ p.parent = a.parent /\ p.rolled = a.rolled
    BY <1>1 DEF Worlds
  <2>3. /\ {q \in {r} : kind[q] = "permission" /\ rule = "none"} = {}
        /\ {q \in {r} : kind[q] = "question"} = {r}
    BY <1>3
  <2> HIDE DEF p
  <2>4. QED
    BY <2>1, <2>2, <2>3
<1>4. CASE ~(kind[r] = "permission" /\ rule = "none") /\ kind[r] # "question"
  <2>1. Prompted(a, r) = a
    BY <1>4 DEF Prompted
  <2>2. /\ {q \in {r} : kind[q] = "permission" /\ rule = "none"} = {}
        /\ {q \in {r} : kind[q] = "question"} = {}
    BY <1>4
  <2>3. QED
    BY <2>1, <2>2
<1>5. QED
  BY <1>2, <1>3, <1>4

\* A run that begins forgets the requests, and remembers that it did.
LEMMA RunForFacts ==
  ASSUME NEW p \in Worlds, NEW r \in Requests
  PROVE  LET n == RunFor(p, r) IN
         /\ n \in Worlds
         /\ n.permissions = p.permissions /\ n.questions = p.questions
         /\ n.socket = p.socket /\ n.pending = p.pending /\ n.timers = p.timers
         /\ n.reply = p.reply /\ n.notified = p.notified /\ n.recorded = p.recorded
         /\ \/ n.parent = p.parent /\ n.rolled = p.rolled
            \/ n.rolled = p.rolled \cup (p.pending \ {r})
<1> DEFINE none == [q \in Requests |-> "none"]
           rolled == p.rolled \cup (p.pending \ {r})
<1>1. none \in [Requests -> {"none", "request", "other"}] /\ rolled \in SUBSET Requests
  BY WorldFields
<1>2. TRUE \in BOOLEAN /\ FALSE \in BOOLEAN
  OBVIOUS
<1>3. CASE kind[r] = "end"
  <2>1. \A b \in BOOLEAN :
          LET n == [p EXCEPT !.runOpen = b] IN
          /\ n \in Worlds
          /\ n.permissions = p.permissions /\ n.questions = p.questions
          /\ n.socket = p.socket /\ n.pending = p.pending /\ n.timers = p.timers
          /\ n.reply = p.reply /\ n.notified = p.notified /\ n.recorded = p.recorded
          /\ n.parent = p.parent /\ n.rolled = p.rolled
    BY DEF Worlds
  <2>2. RunFor(p, r) = [p EXCEPT !.runOpen = FALSE]
    BY <1>3 DEF RunFor
  <2>3. QED
    BY <1>2, <2>1, <2>2
<1>4. CASE kind[r] # "end" /\ p.runOpen /\ kind[r] # "prompt"
  BY <1>4 DEF RunFor
<1>5. CASE kind[r] # "end" /\ ~(p.runOpen /\ kind[r] # "prompt")
  <2>1. RunFor(p, r) = [p EXCEPT !.runOpen = TRUE, !.parent = none, !.rolled = rolled]
    BY <1>5 DEF RunFor, Worlds
  <2> HIDE DEF none, rolled
  <2>2. \A b \in BOOLEAN :
          LET n == [p EXCEPT !.runOpen = b, !.parent = none, !.rolled = rolled] IN
          /\ n \in Worlds
          /\ n.permissions = p.permissions /\ n.questions = p.questions
          /\ n.socket = p.socket /\ n.pending = p.pending /\ n.timers = p.timers
          /\ n.reply = p.reply /\ n.notified = p.notified /\ n.recorded = p.recorded
          /\ n.rolled = rolled
    BY <1>1 DEF Worlds
  <2>3. QED
    BY <1>2, <2>1, <2>2 DEF rolled
<1>6. QED
  BY <1>3, <1>4, <1>5

LEMMA MappedFacts ==
  ASSUME KindsTyped, NEW w, Sound(w), NEW r \in Requests, w.socket[r] = "none",
         NEW last \in {"request", "other"}, kind[r] # "stop" => last = "request"
  PROVE  Arrived(w, Mapped(Prompted(Admitted(w, r), r), r, last), r)
<1> DEFINE a == Admitted(w, r)
           p == Prompted(a, r)
           n == RunFor(p, r)
           m == Mapped(p, r, last)
           l == IF r \in ExpectsDecision THEN last ELSE "none"
           parent == [n.parent EXCEPT ![r] = l]
<1>1. w \in Worlds /\ r \notin w.pending
  BY DEF Sound, Typed
<1>2. /\ a \in Worlds
      /\ a.socket = [w.socket EXCEPT ![r] = "waiting"]
      /\ a.pending = w.pending \cup {r}
      /\ a.timers \subseteq w.timers \cup ({r} \ Untimed)
      /\ a.reply = w.reply /\ a.notified = w.notified /\ a.recorded = w.recorded
      /\ a.permissions = w.permissions /\ a.questions = w.questions
      /\ a.parent = w.parent /\ a.rolled = w.rolled
  BY <1>1, AdmittedFacts
<1> HIDE DEF a
<1>3. /\ p \in Worlds
      /\ p.permissions = a.permissions \cup {q \in {r} : kind[q] = "permission" /\ rule = "none"}
      /\ p.questions = a.questions \cup {q \in {r} : kind[q] = "question"}
      /\ p.socket = a.socket /\ p.pending = a.pending /\ p.timers = a.timers
      /\ p.reply = a.reply /\ p.notified = a.notified /\ p.recorded = a.recorded
      /\ p.parent = a.parent /\ p.rolled = a.rolled
  BY <1>2, PromptedFacts
<1> HIDE DEF p
<1>4. /\ n \in Worlds
      /\ n.permissions = p.permissions /\ n.questions = p.questions
      /\ n.socket = p.socket /\ n.pending = p.pending /\ n.timers = p.timers
      /\ n.reply = p.reply /\ n.notified = p.notified /\ n.recorded = p.recorded
      /\ \/ n.parent = p.parent /\ n.rolled = p.rolled
         \/ n.rolled = p.rolled \cup (p.pending \ {r})
  BY <1>3, RunForFacts
<1>5. l \in {"none", "request", "other"} /\ (kind[r] = "permission" => l = "request")
  BY DEF ExpectsDecision, KindsTyped
<1>6. m = [n EXCEPT !.parent = parent]
  BY <1>4 DEF Mapped, Worlds
<1> HIDE DEF n, m, l
<1>7. /\ parent \in [Requests -> {"none", "request", "other"}]
      /\ parent[r] = l /\ \A q \in Requests \ {r} : parent[q] = n.parent[q]
  BY <1>4, <1>5, WorldFields
<1> HIDE DEF parent
<1>8. /\ m \in Worlds
      /\ m.permissions = n.permissions /\ m.questions = n.questions
      /\ m.socket = n.socket /\ m.pending = n.pending /\ m.timers = n.timers
      /\ m.reply = n.reply /\ m.notified = n.notified /\ m.recorded = n.recorded
      /\ m.rolled = n.rolled /\ m.parent = parent
  BY <1>4, <1>6, <1>7 DEF Worlds
<1>9. /\ w.rolled \subseteq m.rolled /\ m.rolled \subseteq w.rolled \cup w.pending
      /\ \A q \in Requests \ {r} : m.parent[q] = w.parent[q] \/ q \notin w.pending \/ q \in m.rolled
  BY <1>1, <1>2, <1>3, <1>4, <1>7, <1>8
<1>10. Arrived(w, m, r)
  BY <1>2, <1>3, <1>4, <1>5, <1>7, <1>8, <1>9 DEF Arrived
<1>11. QED
  BY <1>10 DEF m, p, a

LEMMA ArrivedSound ==
  ASSUME KindsTyped, NEW w, Sound(w), NEW r \in Requests, w.socket[r] = "none",
         NEW m, Arrived(w, m, r)
  PROVE  /\ Sound(m)
         /\ Waiting(w) => \A q \in (m.pending \cap Patient) \ {r} : q \in PromptsOf(m)
         /\ Timely(w) => Timely(m)
<1>1. /\ w \in Worlds /\ m \in Worlds /\ r \notin w.pending
      /\ w.notified[r] = <<>> /\ w.recorded[r] = 0 /\ w.reply[r] = "none"
  BY DEF Sound, Typed, Fresh, Arrived
<1>2. /\ \A q \in Requests \ {r} : m.socket[q] = w.socket[q]
      /\ m.socket[r] = "waiting" /\ w.socket \in [Requests -> Sockets]
  BY <1>1, WorldFields DEF Arrived
<1>3. Typed(m)
  <2>1. m.timers \subseteq m.pending \ Untimed
    BY DEF Arrived, Sound, Typed
  <2>2. \A q \in m.pending : m.socket[q] \in {"waiting", "gone"}
    BY <1>1, <1>2, WorldFields DEF Arrived, Sound, Typed
  <2>3. /\ \A q \in m.permissions : kind[q] = "permission"
        /\ \A q \in m.questions : kind[q] = "question"
    BY DEF Arrived, Sound, Typed
  <2>4. QED
    BY <1>1, <2>1, <2>2, <2>3 DEF Typed
<1>4. Fresh(m)
  <2> SUFFICES ASSUME NEW q \in Requests, m.socket[q] = "none"
               PROVE  /\ q \notin m.permissions /\ q \notin m.questions
                      /\ m.notified[q] = <<>> /\ m.recorded[q] = 0 /\ m.reply[q] = "none"
    BY DEF Fresh
  <2>1. q # r /\ w.socket[q] = "none"
    BY <1>2
  <2>2. QED
    BY <2>1 DEF Sound, Fresh, Arrived
<1>5. Single(m)
  <2> SUFFICES ASSUME NEW q \in Requests
               PROVE  /\ q \in m.pending => /\ m.notified[q] = <<>> /\ m.reply[q] = "none"
                                            /\ m.recorded[q] = 0
                      /\ Len(m.notified[q]) <= 1
                      /\ m.reply[q] # "none" => /\ Len(m.notified[q]) = 1
                                                /\ m.notified[q][1].verdict = m.reply[q]
    BY DEF Single
  <2>1. m.notified[q] = w.notified[q] /\ m.reply[q] = w.reply[q] /\ m.recorded[q] = w.recorded[q]
    BY DEF Arrived
  <2>2. q \in m.pending => q = r \/ q \in w.pending
    BY DEF Arrived
  <2>3. QED
    BY <1>1, <2>1, <2>2 DEF Sound, Single
<1>6. Correlated(m)
  <2> SUFFICES ASSUME NEW q \in m.pending, q \notin m.rolled, kind[q] = "permission"
               PROVE  m.parent[q] = "request"
    BY DEF Correlated
  <2>1. CASE q = r
    BY <2>1 DEF Arrived
  <2>2. CASE q # r
    <3>1. q \in Requests /\ q \in w.pending /\ q \notin w.rolled
      BY <1>1, <2>2, WorldFields DEF Arrived
    <3>2. m.parent[q] = w.parent[q]
      BY <2>2, <3>1 DEF Arrived
    <3>3. QED
      BY <3>1, <3>2 DEF Sound, Correlated
  <2>3. QED
    BY <2>1, <2>2
<1>7. Recorded(m)
  BY DEF Sound, Recorded, Arrived
<1>8. ASSUME Waiting(w) PROVE \A q \in (m.pending \cap Patient) \ {r} : q \in PromptsOf(m)
  BY <1>8 DEF Waiting, PromptsOf, Arrived
<1>9. ASSUME Timely(w) PROVE Timely(m)
  BY <1>9 DEF Timely, PromptsOf, Arrived
<1>10. QED
  BY <1>3, <1>4, <1>5, <1>6, <1>7, <1>8, <1>9 DEF Sound

-----------------------------------------------------------------------------
(* The invariant, one step per action.                                      *)

OthersTyped ==
  /\ kind \in Kindings
  /\ server \in {"running", "stopped", "exited"}
  /\ rule \in {"none", "approve", "deny"} /\ relays \subseteq Asked
  /\ DOMAIN inbox \subseteq Asked /\ \A r \in DOMAIN inbox : inbox[r] \in VerdictsFor(r)
  /\ decided \in 0..MaxDecisions

IInv ==
  /\ OthersTyped
  /\ Sound(world)
  /\ Waiting(world)
  /\ server = "running" => Timely(world)
  /\ server # "running" => world.pending = {}

LEMMA TypeParts == OthersTyped /\ Typed(world) <=> TypeOK
BY DEF OthersTyped, Typed, TypeOK

\* The parts of the invariant speak of kind, which no step changes.
LEMMA NextInv ==
  ASSUME kind' = kind, OthersTyped', Sound(world'), Waiting(world'),
         server' = "running" => Timely(world'),
         server' # "running" => world'.pending = {}
  PROVE  IInv'
BY DEF IInv, Sound, Typed, Fresh, Single, Correlated, Recorded, Waiting, Timely,
       PromptsOf, Untimed, Patient

\* Decisions, whoever makes them.
LEMMA SendDecisionFacts ==
  ASSUME NEW w, Sound(w), NEW of, Decides(of)
  PROVE  LET v == SendDecisions(w, of) IN
         /\ Sound(v)
         /\ (\A q \in (w.pending \cap Patient) \ DOMAIN of : q \in PromptsOf(w)) => Waiting(v)
         /\ Timely(w) => Timely(v)
         /\ v.permissions \subseteq w.permissions /\ v.questions \subseteq w.questions
         /\ v.pending = w.pending \ DOMAIN of
<1> DEFINE v == SendDecisions(w, of)
           D == DOMAIN of \cap w.pending
<1>1. /\ Decided(w, v, D, of)
      /\ v.socket = Answered(w, D) /\ v.reply = Replied(w, D, of)
  BY SendDecisionsFacts
<1> HIDE DEF v
<1>2. \A r \in D : w.socket[r] # "none"
  BY DEF Sound, Typed
<1>3. \A r \in Requests : /\ v.socket[r] = "none" <=> w.socket[r] = "none"
                          /\ r \notin D => v.socket[r] = w.socket[r]
                          /\ v.reply[r] = w.reply[r] \/ (r \in D /\ v.reply[r] = of[r].verdict)
  BY <1>1, <1>2 DEF Answered, Replied
<1>4. /\ Sound(v)
      /\ (\A q \in (w.pending \cap Patient) \ D : q \in PromptsOf(w)) => Waiting(v)
      /\ Timely(w) => Timely(v)
  <2>1. D \subseteq DOMAIN of \cap w.pending
    OBVIOUS
  <2> HIDE DEF D
  <2>2. QED
    BY <1>1, <1>3, <2>1, DecidedSound, Z3
<1>5. /\ v.permissions \subseteq w.permissions /\ v.questions \subseteq w.questions
      /\ v.pending = w.pending \ DOMAIN of
  BY <1>1 DEF Decided, Announced
<1>6. QED
  BY <1>4, <1>5 DEF v

\* One decision among them.
LEMMA OneDecides ==
  ASSUME NEW r \in Requests, NEW d \in Decisions,
         kind[r] = "question" => d.verdict = "answer" \/ d.source = "timeout"
  PROVE  Decides([q \in {r} |-> d]) /\ DOMAIN [q \in {r} |-> d] = {r}
BY DEF Decides

LEMMA DecisionTyped ==
  ASSUME NEW s \in {"user", "rule", "timeout"}, NEW v \in Verdicts
  PROVE  Decision(s, v) \in Decisions /\ Decision(s, v).verdict = v /\ Decision(s, v).source = s
BY DEF Decision, Decisions

LEMMA ArriveStep ==
  ASSUME IInv, NEW r \in Requests, Arrive(r)
  PROVE  IInv'
<1>1. /\ Sound(world) /\ Waiting(world) /\ Timely(world) /\ KindsTyped
      /\ world.socket[r] = "none"
  BY HookServerAssumption DEF IInv, OthersTyped, Arrive, KindsTyped
<1>2. PICK last \in {"request", "other"} :
        /\ kind[r] # "stop" => last = "request"
        /\ world' = ByRule(Mapped(Prompted(Admitted(world, r), r), r, last), r)
  BY DEF Arrive
<1> DEFINE m == Mapped(Prompted(Admitted(world, r), r), r, last)
<1>3. Arrived(world, m, r)
  BY <1>1, <1>2, MappedFacts
<1>4. world' = ByRule(m, r)
  BY <1>2
<1> HIDE DEF m
<1>5. /\ Sound(m) /\ Timely(m)
      /\ \A q \in (m.pending \cap Patient) \ {r} : q \in PromptsOf(m)
  BY <1>1, <1>3, ArrivedSound
<1>6. Sound(world') /\ Waiting(world') /\ Timely(world')
  <2>1. CASE kind[r] \notin {"permission", "tool"} \/ IsPrompted(r)
    <3>1. world' = m
      BY <1>4, <2>1 DEF ByRule
    <3>2. r \in Patient => r \in PromptsOf(m)
      BY <2>1, <1>3 DEF Patient, IsPrompted, Arrived, PromptsOf
    <3>3. QED
      BY <1>5, <3>1, <3>2 DEF Waiting
  <2>2. CASE ~(kind[r] \notin {"permission", "tool"} \/ IsPrompted(r))
    <3> DEFINE d == Decision("rule", IF rule = "deny" THEN "deny" ELSE "allow")
               of == [q \in {r} |-> d]
    <3>1. d \in Decisions
      BY DecisionTyped DEF Verdicts
    <3>2. world' = SendDecisions(m, of)
      BY <1>4, <2>2 DEF ByRule, SendDecision
    <3> HIDE DEF d
    <3>3. Decides(of) /\ DOMAIN of = {r}
      BY <2>2, <3>1, OneDecides
    <3> HIDE DEF of
    <3>4. QED
      BY <1>5, <3>2, <3>3, SendDecisionFacts
  <2>3. QED
    BY <2>1, <2>2
<1>7. OthersTyped'
  <2>1. relays' \subseteq Asked'
    BY DEF Arrive, IsPrompted, Asked, IInv, OthersTyped
  <2>2. UNCHANGED <<kind, server, rule, inbox, decided>>
    BY DEF Arrive
  <2>3. QED
    BY <2>1, <2>2 DEF IInv, OthersTyped, Asked, VerdictsFor
<1>8. kind' = kind /\ server' = "running"
  BY DEF Arrive
<1>9. QED
  BY <1>6, <1>7, <1>8, NextInv

LEMMA SendStep ==
  ASSUME IInv, NEW of, Decides(of), world' = SendDecisions(world, of), OthersTyped',
         kind' = kind, server' = server
  PROVE  IInv'
<1>1. /\ Sound(world) /\ Waiting(world)
      /\ server = "running" => Timely(world)
      /\ server # "running" => world.pending = {}
  BY DEF IInv
<1>2. /\ Sound(world') /\ (Timely(world) => Timely(world'))
      /\ world'.pending = world.pending \ DOMAIN of
      /\ (\A q \in (world.pending \cap Patient) \ DOMAIN of : q \in PromptsOf(world))
           => Waiting(world')
  BY <1>1, SendDecisionFacts
<1>3. \A q \in (world.pending \cap Patient) \ DOMAIN of : q \in PromptsOf(world)
  BY <1>1 DEF Waiting
<1>4. QED
  BY <1>1, <1>2, <1>3, NextInv

LEMMA TimerFiresStep ==
  ASSUME IInv, NEW r \in Requests, TimerFires(r)
  PROVE  IInv'
<1> DEFINE of == [q \in {r} |-> TimedOut]
<1>1. kind[r] # "question"
  BY DEF TimerFires, IInv, Sound, Typed, Untimed
<1>2. TimedOut \in Decisions
  BY DecisionTyped DEF TimedOut, Verdicts
<1>3. Decides(of)
  BY <1>1, <1>2, OneDecides
<1>4. world' = SendDecisions(world, of)
  BY DEF TimerFires, SendDecision
<1>5. OthersTyped' /\ kind' = kind /\ server' = server
  BY DEF TimerFires, IInv, OthersTyped, Asked, VerdictsFor
<1> HIDE DEF of
<1>6. QED
  BY <1>3, <1>4, <1>5, SendStep

\* The dialog takes the prompts of requests that are not pending away.
LEMMA PromptsRemoved ==
  ASSUME NEW w, Sound(w), NEW P \in SUBSET Requests, P \cap w.pending = {}
  PROVE  /\ LET v == [w EXCEPT !.permissions = @ \ P] IN
            /\ Sound(v) /\ (Waiting(w) => Waiting(v)) /\ (Timely(w) => Timely(v))
            /\ v.pending = w.pending
         /\ LET v == [w EXCEPT !.questions = @ \ P] IN
            /\ Sound(v) /\ (Waiting(w) => Waiting(v)) /\ (Timely(w) => Timely(v))
            /\ v.pending = w.pending
<1>1. w \in Worlds
  BY DEF Sound, Typed
<1>2. ASSUME NEW v \in Worlds,
             v.permissions \subseteq w.permissions, v.questions \subseteq w.questions,
             PromptsOf(w) \ P \subseteq PromptsOf(v),
             v.socket = w.socket, v.pending = w.pending, v.timers = w.timers,
             v.reply = w.reply, v.notified = w.notified, v.recorded = w.recorded,
             v.parent = w.parent, v.rolled = w.rolled
      PROVE  Sound(v) /\ (Waiting(w) => Waiting(v)) /\ (Timely(w) => Timely(v))
  <2>1. Typed(v) /\ Fresh(v)
    BY <1>2 DEF Sound, Typed, Fresh
  <2>2. Single(v) /\ Correlated(v) /\ Recorded(v)
    BY <1>2 DEF Sound, Single, Correlated, Recorded
  <2>3. Waiting(w) => Waiting(v)
    BY <1>2 DEF Waiting
  <2>4. Timely(w) => Timely(v)
    BY <1>2 DEF Timely, PromptsOf
  <2>5. QED
    BY <2>1, <2>2, <2>3, <2>4 DEF Sound
<1> DEFINE u == [w EXCEPT !.permissions = @ \ P]
           v == [w EXCEPT !.questions = @ \ P]
<1>3. /\ u \in Worlds /\ u.permissions = w.permissions \ P /\ u.questions = w.questions
      /\ u.socket = w.socket /\ u.pending = w.pending /\ u.timers = w.timers
      /\ u.reply = w.reply /\ u.notified = w.notified /\ u.recorded = w.recorded
      /\ u.parent = w.parent /\ u.rolled = w.rolled
  BY <1>1 DEF Worlds
<1>4. /\ v \in Worlds /\ v.permissions = w.permissions /\ v.questions = w.questions \ P
      /\ v.socket = w.socket /\ v.pending = w.pending /\ v.timers = w.timers
      /\ v.reply = w.reply /\ v.notified = w.notified /\ v.recorded = w.recorded
      /\ v.parent = w.parent /\ v.rolled = w.rolled
  BY <1>1 DEF Worlds
<1> HIDE DEF u, v
<1>5. /\ PromptsOf(w) \ P \subseteq PromptsOf(u)
      /\ PromptsOf(w) \ P \subseteq PromptsOf(v)
  BY <1>3, <1>4 DEF PromptsOf
<1>6. /\ Sound(u) /\ (Waiting(w) => Waiting(u)) /\ (Timely(w) => Timely(u))
  BY <1>2, <1>3, <1>5
<1>7. /\ Sound(v) /\ (Waiting(w) => Waiting(v)) /\ (Timely(w) => Timely(v))
  BY <1>2, <1>4, <1>5
<1>8. QED
  BY <1>3, <1>4, <1>6, <1>7 DEF u, v

LEMMA UserDecidesStep ==
  ASSUME IInv, UserDecides
  PROVE  IInv'
<1>1. PICK r \in First(world.permissions), verdict \in {"allow", "deny"}, always \in BOOLEAN :
        /\ world' = [SendDecision(world, r, Decision("user", verdict))
                       EXCEPT !.permissions = @ \ {r}]
        /\ rule' = IF ~always \/ rule = "deny" THEN rule
                   ELSE IF verdict = "deny" THEN "deny" ELSE "approve"
  BY DEF UserDecides
<1> DEFINE d == Decision("user", verdict)
           of == [q \in {r} |-> d]
           v == SendDecisions(world, of)
<1>2. /\ Sound(world) /\ Waiting(world) /\ Timely(world)
      /\ r \in Requests /\ kind[r] = "permission"
  BY WorldFields DEF IInv, UserDecides, First, Sound, Typed
<1>3. d \in Decisions
  BY DecisionTyped DEF Verdicts
<1>4. world' = [v EXCEPT !.permissions = @ \ {r}]
  BY <1>1 DEF SendDecision
<1> HIDE DEF d
<1>5. Decides(of) /\ DOMAIN of = {r}
  BY <1>2, <1>3, OneDecides
<1> HIDE DEF of
<1>6. Sound(v) /\ Waiting(v) /\ Timely(v) /\ {r} \cap v.pending = {}
  BY <1>2, <1>5, SendDecisionFacts DEF Waiting
<1> HIDE DEF v
<1>7. Sound(world') /\ Waiting(world') /\ Timely(world')
  <2>1. {r} \in SUBSET Requests
    BY <1>2
  <2>2. QED
    BY <1>4, <1>6, <2>1, PromptsRemoved
<1>8. OthersTyped' /\ kind' = kind /\ server' = "running"
  BY <1>1 DEF UserDecides, IInv, OthersTyped, Asked, VerdictsFor
<1>9. QED
  BY <1>7, <1>8, NextInv

LEMMA UserAnswersStep ==
  ASSUME IInv, UserAnswers
  PROVE  IInv'
<1>1. PICK r \in First(world.questions) :
        world' = [SendDecision(world, r, Decision("user", "answer")) EXCEPT !.questions = @ \ {r}]
  BY DEF UserAnswers
<1> DEFINE d == Decision("user", "answer")
           of == [q \in {r} |-> d]
           v == SendDecisions(world, of)
<1>2. /\ Sound(world) /\ Waiting(world) /\ Timely(world)
      /\ r \in Requests
  BY WorldFields DEF IInv, UserAnswers, First, Sound, Typed
<1>3. d \in Decisions /\ d.verdict = "answer"
  BY DecisionTyped DEF Verdicts
<1>4. world' = [v EXCEPT !.questions = @ \ {r}]
  BY <1>1 DEF SendDecision
<1> HIDE DEF d
<1>5. Decides(of) /\ DOMAIN of = {r}
  BY <1>2, <1>3, OneDecides
<1> HIDE DEF of
<1>6. Sound(v) /\ Waiting(v) /\ Timely(v) /\ {r} \cap v.pending = {}
  BY <1>2, <1>5, SendDecisionFacts DEF Waiting
<1> HIDE DEF v
<1>7. Sound(world') /\ Waiting(world') /\ Timely(world')
  <2>1. {r} \in SUBSET Requests
    BY <1>2
  <2>2. QED
    BY <1>4, <1>6, <2>1, PromptsRemoved
<1>8. OthersTyped' /\ kind' = kind /\ server' = "running"
  BY DEF UserAnswers, IInv, OthersTyped, Asked, VerdictsFor
<1>9. QED
  BY <1>7, <1>8, NextInv

\* A step that leaves the world alone.
LEMMA SameWorld ==
  ASSUME IInv, OthersTyped', world' = world, kind' = kind, server' = server
  PROVE  IInv'
<1>1. /\ Sound(world') /\ Waiting(world') /\ (server' = "running" => Timely(world'))
      /\ server' # "running" => world'.pending = {}
  BY DEF IInv
<1>2. QED
  BY <1>1, NextInv

LEMMA RelayReturnsStep ==
  ASSUME IInv, NEW r \in Asked, RelayReturns(r)
  PROVE  IInv'
<1>1. OthersTyped' /\ kind' = kind /\ server' = server
  BY DEF RelayReturns, IInv, OthersTyped, Asked, VerdictsFor
<1>2. CASE world' = world
  BY <1>1, <1>2, SameWorld
<1>3. CASE \E verdict \in VerdictsFor(r) :
             world' = SendDecision(world, r, Decision("user", verdict))
  <2>1. PICK verdict \in VerdictsFor(r) :
          world' = SendDecision(world, r, Decision("user", verdict))
    BY <1>3
  <2> DEFINE d == Decision("user", verdict)
             of == [q \in {r} |-> d]
  <2>2. d \in Decisions /\ d.verdict = verdict
    BY DecisionTyped DEF VerdictsFor, Verdicts
  <2>3. world' = SendDecisions(world, of)
    BY <2>1 DEF SendDecision
  <2> HIDE DEF d
  <2>4. Decides(of)
    <3>1. r \in Requests /\ (kind[r] = "question" => d.verdict = "answer")
      BY <2>2 DEF Asked, VerdictsFor
    <3>2. QED
      BY <2>2, <3>1, OneDecides
  <2> HIDE DEF of
  <2>5. QED
    BY <1>1, <2>3, <2>4, SendStep
<1>4. QED
  BY <1>2, <1>3 DEF RelayReturns

LEMMA DashboardDecidesStep ==
  ASSUME IInv, NEW r \in Asked, DashboardDecides(r)
  PROVE  IInv'
<1>1. world' = world /\ kind' = kind /\ server' = server
  BY DEF DashboardDecides
<1>2. OthersTyped'
  <2>1. PICK verdict \in VerdictsFor(r) :
          inbox' = [q \in DOMAIN inbox \cup {r} |-> IF q = r THEN verdict ELSE inbox[q]]
    BY DEF DashboardDecides
  <2>2. DOMAIN inbox' \subseteq Asked /\ \A q \in DOMAIN inbox' : inbox'[q] \in VerdictsFor(q)
    BY <2>1 DEF IInv, OthersTyped
  <2>3. decided' \in 0..MaxDecisions
    BY HookServerAssumption DEF DashboardDecides, IInv, OthersTyped
  <2>4. QED
    BY <2>2, <2>3 DEF DashboardDecides, IInv, OthersTyped, Asked, VerdictsFor
<1>3. QED
  BY <1>1, <1>2, SameWorld

LEMMA PollInboxStep ==
  ASSUME IInv, PollInbox
  PROVE  IInv'
<1> DEFINE of == [r \in DOMAIN inbox |-> Decision("user", inbox[r])]
<1>1. Decides(of)
  <2>1. DOMAIN inbox \subseteq Requests
    BY DEF IInv, OthersTyped, Asked
  <2>2. \A r \in DOMAIN inbox :
          /\ Decision("user", inbox[r]) \in Decisions
          /\ kind[r] = "question" => Decision("user", inbox[r]).verdict = "answer"
    <3>1. \A r \in DOMAIN inbox : inbox[r] \in Verdicts
                                 /\ (kind[r] = "question" => inbox[r] = "answer")
      BY DEF IInv, OthersTyped, VerdictsFor, Verdicts
    <3>2. QED
      BY <3>1, DecisionTyped
  <2>3. QED
    BY <2>1, <2>2 DEF Decides
<1>2. world' = SendDecisions(world, of)
  BY DEF PollInbox
<1>3. OthersTyped' /\ kind' = kind /\ server' = server
  BY DEF PollInbox, IInv, OthersTyped, Asked, VerdictsFor
<1> HIDE DEF of
<1>4. QED
  BY <1>1, <1>2, <1>3, SendStep

-----------------------------------------------------------------------------
(* The forwarder, and the end of the session process.                       *)

\* Requests are forgotten and sockets move on, nothing is decided.
Narrows(w, v, s, P, T) ==
  /\ s \in [Requests -> Sockets]
  /\ P \subseteq w.pending /\ T \subseteq w.timers /\ T \subseteq P
  /\ \A q \in P : s[q] \in {"waiting", "gone"}
  /\ \A q \in Requests : s[q] = "none" => w.socket[q] = "none"
  /\ v = [w EXCEPT !.socket = s, !.pending = P, !.timers = T]

Unprompted(w, Q) == \A q \in Q : q \notin PromptsOf(w)

LEMMA Narrowed ==
  ASSUME NEW w, Sound(w), NEW v, NEW s, NEW P, NEW T, Narrows(w, v, s, P, T)
  PROVE  /\ Sound(v) /\ (Waiting(w) => Waiting(v))
         /\ Unprompted(w, w.pending \ P) /\ Timely(w) => Timely(v)
         /\ v.pending = P /\ v \in Worlds
         /\ v.notified = w.notified /\ v.recorded = w.recorded /\ v.reply = w.reply
         /\ v.permissions = w.permissions /\ v.questions = w.questions
         /\ v.parent = w.parent /\ v.rolled = w.rolled
         /\ v.socket = s /\ v.timers = T
<1>1. /\ w \in Worlds /\ P \subseteq Requests /\ T \subseteq Requests
  BY WorldFields DEF Sound, Typed, Narrows
<1>2. /\ v \in Worlds /\ v.socket = s /\ v.pending = P /\ v.timers = T
      /\ v.permissions = w.permissions /\ v.questions = w.questions
      /\ v.reply = w.reply /\ v.notified = w.notified /\ v.recorded = w.recorded
      /\ v.parent = w.parent /\ v.rolled = w.rolled
  BY <1>1 DEF Worlds, Sockets, Narrows
<1>3. Typed(v)
  BY <1>2 DEF Sound, Typed, Narrows
<1>4. Fresh(v)
  BY <1>2 DEF Sound, Fresh, Narrows
<1>5. Single(v)
  <2>1. \A q \in Requests : q \in v.pending => q \in w.pending
    BY <1>2 DEF Narrows
  <2>2. QED
    BY <1>2, <2>1 DEF Sound, Single
<1>6. Correlated(v) /\ Recorded(v)
  BY <1>2 DEF Sound, Correlated, Recorded, Narrows
<1>7. Waiting(w) => Waiting(v)
  BY <1>2 DEF Waiting, PromptsOf, Narrows
<1>8. Unprompted(w, w.pending \ P) /\ Timely(w) => Timely(v)
  BY <1>2 DEF Timely, PromptsOf, Unprompted
<1>9. QED
  BY <1>2, <1>3, <1>4, <1>5, <1>6, <1>7, <1>8 DEF Sound

LEMMA ForwarderStep ==
  ASSUME IInv, NEW r \in Requests, NEW to \in {"gone", "done"},
         (world.socket[r] = "waiting" /\ to = "gone") \/ world.socket[r] = "answered",
         world' = [world EXCEPT !.socket[r] = to],
         UNCHANGED <<kind, server, rule, relays, inbox, decided>>
  PROVE  IInv'
<1> DEFINE s == [world.socket EXCEPT ![r] = to]
<1>1. /\ Sound(world) /\ Waiting(world) /\ (server = "running" => Timely(world))
      /\ server # "running" => world.pending = {}
      /\ world \in Worlds
  BY DEF IInv, Sound, Typed
<1>2. /\ s \in [Requests -> Sockets]
      /\ \A q \in world.pending : s[q] \in {"waiting", "gone"}
      /\ \A q \in Requests : s[q] = "none" => world.socket[q] = "none"
  BY <1>1, WorldFields DEF Sockets, Sound, Typed
<1>3. world' = [world EXCEPT !.socket = s, !.pending = world.pending, !.timers = world.timers]
  BY <1>1 DEF Worlds
<1>4. world.timers \subseteq world.pending
  BY <1>1 DEF Sound, Typed
<1>5. /\ Sound(world') /\ Waiting(world') /\ (server = "running" => Timely(world'))
      /\ world'.pending = world.pending
  <2> HIDE DEF s
  <2>1. Narrows(world, world', s, world.pending, world.timers)
    BY <1>2, <1>3, <1>4 DEF Narrows
  <2>2. Unprompted(world, world.pending \ world.pending)
    BY DEF Unprompted
  <2>3. QED
    BY <1>1, <2>1, <2>2, Narrowed
<1>6. OthersTyped' /\ kind' = kind /\ server' = server
  BY DEF IInv, OthersTyped, Asked, VerdictsFor
<1>7. QED
  BY <1>1, <1>5, <1>6, NextInv

LEMMA SocketClosesStep ==
  ASSUME IInv, NEW r \in Requests, SocketCloses(r)
  PROVE  IInv'
<1> DEFINE s == [world.socket EXCEPT ![r] = "done"]
           P == world.pending \ {r}
           T == world.timers \ {r}
           closed == [world EXCEPT !.socket = s, !.pending = P, !.timers = T]
<1>1. /\ Sound(world) /\ Waiting(world) /\ (server = "running" => Timely(world))
      /\ server # "running" => world.pending = {}
      /\ world \in Worlds /\ world.socket[r] = "gone"
  BY DEF IInv, Sound, Typed, SocketCloses
<1>2. /\ s \in [Requests -> Sockets] /\ P \subseteq world.pending /\ T \subseteq world.timers
      /\ T \subseteq P
      /\ \A q \in P : s[q] \in {"waiting", "gone"}
      /\ \A q \in Requests : s[q] = "none" <=> world.socket[q] = "none"
      /\ \A q \in Requests : q # r => s[q] = world.socket[q]
  BY <1>1, WorldFields DEF Sockets, Sound, Typed
<1>3. world' = IF r \in world.pending /\ r \in ExpectsDecision
               THEN Notify(closed, {r}, [q \in {r} |-> TimedOut]) ELSE closed
  BY <1>1 DEF SocketCloses, OnClose, Worlds
<1>4. OthersTyped' /\ kind' = kind /\ server' = server
  BY DEF SocketCloses, IInv, OthersTyped, Asked, VerdictsFor
<1> HIDE DEF s
<1>5. /\ Sound(closed) /\ Waiting(closed)
      /\ Unprompted(world, world.pending \ P) /\ Timely(world) => Timely(closed)
      /\ closed.pending = P /\ closed \in Worlds
      /\ closed.notified = world.notified /\ closed.recorded = world.recorded
      /\ closed.reply = world.reply
      /\ closed.permissions = world.permissions /\ closed.questions = world.questions
      /\ closed.parent = world.parent /\ closed.rolled = world.rolled
      /\ closed.socket = s /\ closed.timers = T
  <2> HIDE DEF P, T
  <2>1. Narrows(world, closed, s, P, T)
    BY <1>2 DEF Narrows
  <2> HIDE DEF closed
  <2>2. QED
    BY <1>1, <2>1, Narrowed
<1> HIDE DEF closed
<1>6. CASE r \in world.pending /\ r \in ExpectsDecision
  <2> DEFINE of == [q \in {r} |-> TimedOut]
             v == Notify(closed, {r}, of)
  <2>1. TimedOut \in Decisions /\ TimedOut.source = "timeout"
    BY DecisionTyped DEF TimedOut, Verdicts
  <2>2. Decides(of) /\ DOMAIN of = {r} /\ of[r] \in Decisions
    BY <2>1, OneDecides
  <2>3. world' = v
    BY <1>3, <1>6
  <2> HIDE DEF of
  <2>4. /\ Announced(closed, v, {r}, of)
        /\ v.socket = s /\ v.reply = world.reply /\ v.pending = P /\ v.timers = T
    <3>1. \A q \in {r} : of[q] \in Decisions /\ closed.notified[q] = <<>>
      BY <1>1, <1>5, <1>6, <2>2 DEF Sound, Single
    <3>2. {r} \in SUBSET Requests
      OBVIOUS
    <3>3. QED
      BY <1>5, <3>1, <3>2, NotifyFacts
  <2> HIDE DEF v
  <2>5. Known(closed, {r}) = Known(world, {r})
    BY <1>5 DEF Known
  <2>6. Decided(world, v, {r}, of)
    BY <1>5, <2>4, <2>5 DEF Decided, Announced
  <2>7. {r} \subseteq DOMAIN of \cap world.pending
    BY <1>6, <2>2
  <2>8. \A q \in Requests :
          /\ v.socket[q] = "none" <=> world.socket[q] = "none"
          /\ q \notin {r} => v.socket[q] = world.socket[q]
          /\ v.reply[q] = world.reply[q] \/ (q \in {r} /\ v.reply[q] = of[q].verdict)
    BY <1>2, <2>4
  <2>9. /\ Sound(v)
        /\ (\A q \in (world.pending \cap Patient) \ {r} : q \in PromptsOf(world)) => Waiting(v)
        /\ Timely(world) => Timely(v)
    <3> DEFINE D == {r}
    <3> HIDE DEF D
    <3>1. /\ D \subseteq DOMAIN of \cap world.pending /\ Decided(world, v, D, of)
          /\ \A q \in Requests :
                /\ v.socket[q] = "none" <=> world.socket[q] = "none"
                /\ q \notin D => v.socket[q] = world.socket[q]
                /\ v.reply[q] = world.reply[q] \/ (q \in D /\ v.reply[q] = of[q].verdict)
      BY <2>6, <2>7, <2>8 DEF D
    <3>2. /\ Sound(v)
          /\ (\A q \in (world.pending \cap Patient) \ D : q \in PromptsOf(world)) => Waiting(v)
          /\ Timely(world) => Timely(v)
      BY <1>1, <2>2, <3>1, DecidedSound
    <3>3. QED
      BY <3>2 DEF D
  <2>10. Waiting(v)
    BY <1>1, <2>9 DEF Waiting
  <2>11. QED
    BY <1>1, <1>4, <2>3, <2>4, <2>9, <2>10, NextInv
<1>7. CASE ~(r \in world.pending /\ r \in ExpectsDecision)
  <2>1. world' = closed
    BY <1>3, <1>7
  <2>2. Unprompted(world, world.pending \ P)
    BY <1>1, <1>7 DEF PromptsOf, ExpectsDecision, Sound, Typed, Unprompted
  <2>3. QED
    BY <1>1, <1>4, <1>5, <2>1, <2>2, NextInv
<1>8. QED
  BY <1>6, <1>7

LEMMA StopStep ==
  ASSUME IInv, Stop
  PROVE  IInv'
<1> DEFINE none == {}
           s == world.socket
<1>1. Sound(world) /\ Waiting(world) /\ world \in Worlds
  BY DEF IInv, Sound, Typed
<1>2. world' = [world EXCEPT !.socket = s, !.pending = none, !.timers = none]
  BY <1>1 DEF Stop, Worlds
<1>3. /\ s \in [Requests -> Sockets]
      /\ none \in SUBSET world.pending /\ none \in SUBSET world.timers /\ none \subseteq none
      /\ \A q \in none : s[q] \in {"waiting", "gone"}
      /\ \A q \in Requests : s[q] = "none" => world.socket[q] = "none"
  BY <1>1, WorldFields
<1> HIDE DEF none, s
<1>4. Sound(world') /\ Waiting(world') /\ world'.pending = none
  <2>1. Narrows(world, world', s, none, none)
    BY <1>2, <1>3 DEF Narrows
  <2>2. Sound(world') /\ Waiting(world')
    BY <1>1, <2>1, Narrowed
  <2>3. world'.pending = none
    BY <1>1, <1>2 DEF Worlds
  <2>4. QED
    BY <2>2, <2>3
<1>5. OthersTyped' /\ kind' = kind /\ server' = "stopped"
  BY DEF Stop, IInv, OthersTyped, Asked, VerdictsFor
<1>6. QED
  BY <1>4, <1>5, NextInv DEF none

LEMMA ExitStep ==
  ASSUME IInv, Exit
  PROVE  IInv'
<1> DEFINE s == [r \in Requests |->
                   IF world.socket[r] = "waiting" THEN "done" ELSE world.socket[r]]
<1>1. Sound(world) /\ Waiting(world) /\ world \in Worlds /\ world.pending = {}
  BY DEF IInv, Sound, Typed, Exit
<1>2. world' = [world EXCEPT !.socket = s, !.pending = world.pending, !.timers = world.timers]
  BY <1>1 DEF Exit, Worlds
<1>3. /\ s \in [Requests -> Sockets]
      /\ \A q \in world.pending : s[q] \in {"waiting", "gone"}
      /\ \A q \in Requests : s[q] = "none" => world.socket[q] = "none"
      /\ world.timers \subseteq world.pending
  BY <1>1, WorldFields DEF Sockets, Sound, Typed
<1> HIDE DEF s
<1>4. Sound(world') /\ Waiting(world') /\ world'.pending = world.pending
  <2>1. Narrows(world, world', s, world.pending, world.timers)
    BY <1>2, <1>3 DEF Narrows
  <2>2. QED
    BY <1>1, <2>1, Narrowed
<1>5. OthersTyped' /\ kind' = kind /\ server' = "exited"
  BY DEF Exit, IInv, OthersTyped, Asked, VerdictsFor
<1>6. QED
  BY <1>1, <1>4, <1>5, NextInv

-----------------------------------------------------------------------------
LEMMA InitInv == Init => IInv
<1> SUFFICES ASSUME Init PROVE IInv
  OBVIOUS
<1>1. /\ world.socket = [r \in Requests |-> "none"] /\ world.reply = [r \in Requests |-> "none"]
      /\ world.pending = {} /\ world.timers = {} /\ world.permissions = {} /\ world.questions = {}
      /\ world.order = [r \in Requests |-> 0] /\ world.runOpen = FALSE
      /\ world.parent = [r \in Requests |-> "none"] /\ world.recorded = [r \in Requests |-> 0]
      /\ world.notified = [r \in Requests |-> <<>>] /\ world.rolled = {}
  BY DEF Init
<1>2. world \in Worlds
  BY DEF Init, Worlds
<1>3. Len(<<>>) = 0
  OBVIOUS
<1>4. Sound(world) /\ Waiting(world) /\ Timely(world)
  <2>1. Typed(world) /\ Fresh(world) /\ Correlated(world)
    BY <1>1, <1>2 DEF Typed, Fresh, Correlated
  <2>2. Single(world) /\ Recorded(world)
    BY <1>1, <1>3 DEF Single, Recorded
  <2>3. Waiting(world) /\ Timely(world)
    BY <1>1 DEF Waiting, Timely, PromptsOf
  <2>4. QED
    BY <2>1, <2>2, <2>3 DEF Sound
<1>5. OthersTyped
  BY HookServerAssumption DEF Init, OthersTyped
<1>6. QED
  BY <1>4, <1>5 DEF IInv, Init

LEMMA StepInv == IInv /\ [Next]_vars => IInv'
<1> SUFFICES ASSUME IInv, [Next]_vars PROVE IInv'
  OBVIOUS
<1>1. ASSUME NEW r \in Requests, Arrive(r) PROVE IInv'
  BY <1>1, ArriveStep
<1>2. ASSUME NEW r \in Requests, TimerFires(r) PROVE IInv'
  BY <1>2, TimerFiresStep
<1>3. ASSUME NEW r \in Requests, ForwarderReads(r) PROVE IInv'
  BY <1>3, ForwarderStep DEF ForwarderReads
<1>4. ASSUME NEW r \in Requests, ForwarderGivesUp(r) PROVE IInv'
  BY <1>4, ForwarderStep DEF ForwarderGivesUp
<1>5. ASSUME NEW r \in Requests, ForwarderIsKilled(r) PROVE IInv'
  BY <1>5, ForwarderStep DEF ForwarderIsKilled
<1>6. ASSUME NEW r \in Requests, SocketCloses(r) PROVE IInv'
  BY <1>6, SocketClosesStep
<1>7. ASSUME NEW r \in Asked, RelayReturns(r) PROVE IInv'
  BY <1>7, RelayReturnsStep
<1>8. ASSUME NEW r \in Asked, DashboardDecides(r) PROVE IInv'
  BY <1>8, DashboardDecidesStep
<1>9. ASSUME UserDecides PROVE IInv'
  BY <1>9, UserDecidesStep
<1>10. ASSUME UserAnswers PROVE IInv'
  BY <1>10, UserAnswersStep
<1>11. ASSUME PollInbox PROVE IInv'
  BY <1>11, PollInboxStep
<1>12. ASSUME Stop PROVE IInv'
  BY <1>12, StopStep
<1>13. ASSUME Exit PROVE IInv'
  BY <1>13, ExitStep
<1>14. ASSUME UNCHANGED vars PROVE IInv'
  <2>1. UNCHANGED <<kind, server, world, rule, relays, inbox, decided>>
    BY <1>14 DEF vars
  <2>2. OthersTyped'
    BY <2>1 DEF IInv, OthersTyped, Asked, VerdictsFor
  <2>3. QED
    BY <2>1, <2>2, SameWorld
<1>15. QED
  BY <1>1, <1>2, <1>3, <1>4, <1>5, <1>6, <1>7, <1>8, <1>9, <1>10, <1>11, <1>12, <1>13,
     <1>14 DEF Next

LEMMA Invariance == Spec => []IInv
<1>1. QED
  BY InitInv, StepInv, PTL DEF Spec

\* Type correctness, for any requests (hook server.ts, runtimeController.ts, useFeed.ts).
THEOREM TypeCorrect == Spec => []TypeOK
<1>1. IInv => TypeOK
  BY TypeParts DEF IInv, Sound
<1>2. QED
  BY <1>1, Invariance, PTL

\* However rules, users, chats, the dashboard, timers and closing sockets race for a
\* request, one decision is announced, and it is the one that the hook was given
\* (server.ts:406, :273 and :302).
THEOREM AnswerCorrect == Spec => []OneAnswer
<1>1. IInv => OneAnswer
  <2> SUFFICES ASSUME IInv, NEW r \in Requests
               PROVE  /\ Len(world.notified[r]) <= 1
                      /\ world.reply[r] # "none" =>
                           /\ world.notified[r] # <<>>
                           /\ world.notified[r][1].verdict = world.reply[r]
    BY DEF OneAnswer
  <2>1. /\ Len(world.notified[r]) <= 1
        /\ world.reply[r] # "none" => /\ Len(world.notified[r]) = 1
                                      /\ world.notified[r][1].verdict = world.reply[r]
    BY DEF IInv, Sound, Single
  <2>2. Len(<<>>) # 1
    OBVIOUS
  <2>3. QED
    BY <2>1, <2>2
<1>2. QED
  BY <1>1, Invariance, PTL

\* A hook that waits for a person always has a prompt (runtimeController.ts:84,
\* useFeed.ts:396).
THEOREM PromptedCorrect == Spec => []WaitingIsPrompted
<1>1. IInv => WaitingIsPrompted
  BY DEF IInv, Waiting, WaitingIsPrompted, Prompts, PromptsOf
<1>2. QED
  BY <1>1, Invariance, PTL

\* A prompt is for a request that still waits, except for permission requests that saw
\* a run begin (server.ts:306, decisionCorrelation.ts:57).
THEOREM TimelyCorrect == Spec => []TimelyPromptIsWaiting
<1>1. IInv => TimelyPromptIsWaiting
  BY DEF IInv, Timely, TimelyPromptIsWaiting, Prompts, PromptsOf
<1>2. QED
  BY <1>1, Invariance, PTL

\* The feed records each decision of a permission request that saw no run begin,
\* once (decisionCorrelation.ts:48, decisionProjection.ts:185).
THEOREM RecordedCorrect == Spec => []DecisionIsRecorded
<1>1. IInv => DecisionIsRecorded
  BY DEF IInv, Sound, Recorded, DecisionIsRecorded
<1>2. QED
  BY <1>1, Invariance, PTL
=============================================================================
