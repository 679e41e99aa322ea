------------------------------ MODULE MCDoormen ------------------------------
(***************************************************************************)
(* Two small worlds of doormen, of which the first state chooses one: one   *)
(* whose second doorman is gone before anything happens and whose first     *)
(* meets every delay, and one of two doormen that serve the same room.      *)
(***************************************************************************)
EXTENDS MCKnockDoorman

VARIABLE world

Alone == world = "alone" /\ (agent[d2] # "gone" => Crash(d2))
Two   == /\ world = "two"
         /\ \A d \in Doorman : notes'[d] = 0
         /\ \A d \in Doorman, k \in Knock : fails'[d][k] <= (IF d = d1 THEN 1 ELSE 0)

WorldsInit == DoormanInit /\ world \in {"alone", "two"}
WorldsNext == DoormanNext /\ (Alone \/ Two) /\ UNCHANGED world
WorldsSpec == WorldsInit /\ [][WorldsNext]_<<all, world>> /\ DoormanFairness
=============================================================================
