------------------------- MODULE MCRelayCoordinator -------------------------
(* Small instances of RelayCoordinator for TLC. *)
EXTENDS RelayCoordinator, TLC

CONSTANTS r1, r2, c1, c2, c3, i1, i2, p1, p2, p3, tg, con

\* Two questions of one session, the second with a ttl, and one of another.
TwoSessions == (c1 :> r1) @@ (c2 :> r2)
OwnIds == (c1 :> i1) @@ (c2 :> i2)
OwnPayloads == (c1 :> p1) @@ (c2 :> p2)
SecondTimed == (c1 :> FALSE) @@ (c2 :> TRUE)

\* One id used by three calls: two alike of one session, the second with a
\* ttl, and a different question of another session.
SharedOwner == (c1 :> r1) @@ (c2 :> r1) @@ (c3 :> r2)
SharedId == (c1 :> i1) @@ (c2 :> i1) @@ (c3 :> i1)
SharedPayload == (c1 :> p1) @@ (c2 :> p1) @@ (c3 :> p2)
SharedTtl == (c1 :> FALSE) @@ (c2 :> TRUE) @@ (c3 :> FALSE)

\* Three questions of one session: two share an id, and the first, which has a ttl, is
\* shown on both channels.
OneOwner == [c \in Calls |-> r1]
TwoShareId == (c1 :> i1) @@ (c2 :> i1) @@ (c3 :> i2)
AllDiffer == (c1 :> p1) @@ (c2 :> p2) @@ (c3 :> p3)
FirstTimed == (c1 :> TRUE) @@ (c2 :> FALSE) @@ (c3 :> FALSE)
FirstOnBoth == (p1 :> {tg, con}) @@ (p2 :> {con}) @@ (p3 :> {con})

\* One question of one session.
OneSession == (c1 :> r1)
OneId == (c1 :> i1)
OnePayload == (c1 :> p1)
Untimed == (c1 :> FALSE)
Timed == (c1 :> TRUE)

BothOne == (p1 :> {tg, con})
ConsoleOne == (p1 :> {con})
ConsoleOnly == (p1 :> {con}) @@ (p2 :> {con})
QuestionsOnConsole == (p1 :> {tg, con}) @@ (p2 :> {con})

\* Two calls alike of one session.
PairOwner == (c1 :> r1) @@ (c2 :> r1)
PairId == (c1 :> i1) @@ (c2 :> i1)
PairPayload == (c1 :> p1) @@ (c2 :> p1)
PairTtl == (c1 :> FALSE) @@ (c2 :> TRUE)
=============================================================================
