---------------------------- MODULE MCCraneWorlds ----------------------------
(***************************************************************************)
(* Two small worlds of Crane delivery, of which the first state chooses     *)
(* one: one in which two loops share one Boat, with faults, and one in      *)
(* which a single loop meets the events it must refuse.                     *)
(***************************************************************************)
EXTENDS CraneDelivery

CONSTANTS e0, e1, e2, e3, s1, w1, w2

VARIABLE world

\* Two loops, the event of one Boat, two copies, one fault beside a copy discarded.
Loops == /\ world = "loops"
         /\ \A e \in Event \ {e0} : outbox'[e] = "absent"
         /\ overdue' = {} /\ copyState'[3] = "absent"
         /\ \A c \in Copy : body'[c] # s1
         /\ (\E c \in Copy : copyState'[c] = "aged") => faults' <= 1

\* One loop that survives, the other events, offered in one order, and the
\* stray; one fault, and a publish that fails only of the sound event.
Mixed == /\ world = "mixed"
         /\ outbox'[e0] = "absent"
         /\ outbox'[e3] = "absent" => outbox'[e2] = "absent"
         /\ outbox'[e2] = "absent" => outbox'[e1] = "absent"
         /\ pc'[w1] = "failure" => holds'[w1] = e1
         /\ pc'[w1] \notin {"dead", "stopped"} /\ pc'[w2] = "off"
         /\ faults' <= 1
         /\ \A c \in Copy : copyState'[c] # "aged"

WorldsInit == Init /\ world \in {"loops", "mixed"}
WorldsNext == Next /\ (Loops \/ Mixed) /\ UNCHANGED world
WorldsSpec == WorldsInit /\ [][WorldsNext]_<<vars, world>>
=============================================================================
