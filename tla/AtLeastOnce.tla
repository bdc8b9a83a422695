----------------------------- MODULE AtLeastOnce -----------------------------
(***************************************************************************)
(* What the gateway's outbound side promises about a reply it was handed.  *)
(* A reply is in hand until its first send has ended; then it is either    *)
(* confirmed or owed.  A reply that is owed survives every restart: it     *)
(* ends confirmed, after the channel has shown it, or given up, after      *)
(* MaxFailures failed sends.  Only a reply still in hand can be lost.      *)
(***************************************************************************)
EXTENDS Integers

CONSTANTS Msgs, MaxFailures

VARIABLES
  status,    \* "none" | "inhand" | "owed" | "confirmed" | "givenup" | "lost"
  shown,     \* how often the channel has taken the reply
  failures   \* how many of its sends were seen to fail

avars == <<status, shown, failures>>

Take(m) ==
  /\ status[m] = "none"
  /\ status' = [status EXCEPT ![m] = "inhand"]
  /\ UNCHANGED <<shown, failures>>

Show(m) ==
  /\ status[m] \in {"inhand", "owed"}
  /\ shown' = [shown EXCEPT ![m] = @ + 1]
  /\ UNCHANGED <<status, failures>>

Confirm(m) ==
  /\ status[m] \in {"inhand", "owed"}
  /\ shown[m] > 0
  /\ status' = [status EXCEPT ![m] = "confirmed"]
  /\ UNCHANGED <<shown, failures>>

Owe(m) ==
  /\ status[m] \in {"inhand", "owed"}
  /\ failures[m] + 1 < MaxFailures
  /\ status' = [status EXCEPT ![m] = "owed"]
  /\ failures' = [failures EXCEPT ![m] = @ + 1]
  /\ UNCHANGED shown

GiveUp(m) ==
  /\ status[m] = "owed"
  /\ failures[m] + 1 = MaxFailures
  /\ status' = [status EXCEPT ![m] = "givenup"]
  /\ failures' = [failures EXCEPT ![m] = @ + 1]
  /\ UNCHANGED shown

\* The daemon goes down: what is in hand is lost, what is owed is not.
Lose ==
  /\ status' = [m \in Msgs |-> IF status[m] = "inhand" THEN "lost" ELSE status[m]]
  /\ UNCHANGED <<shown, failures>>

AInit ==
  /\ status = [m \in Msgs |-> "none"]
  /\ shown = [m \in Msgs |-> 0]
  /\ failures = [m \in Msgs |-> 0]

ANext ==
  \/ \E m \in Msgs : Take(m) \/ Show(m) \/ Confirm(m) \/ Owe(m) \/ GiveUp(m)
  \/ Lose

ASpec == AInit /\ [][ANext]_avars
=============================================================================
