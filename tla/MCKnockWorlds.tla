---------------------------- MODULE MCKnockWorlds ----------------------------
(***************************************************************************)
(* Two small worlds of Knocks, of which the first state chooses one: one    *)
(* whose rooms exchange two turns under open policies, and one of a single  *)
(* Knock under policies that open and shut, with a session in both rooms.   *)
(***************************************************************************)
EXTENDS MCHallwayKnock

VARIABLE world

Sets(policies) == \A r \in Room : UNCHANGED policy[r] \/ policy'[r] \in policies
Acts(callers) == /\ presence' \subseteq callers
                 /\ \A k \in Knock : holder'[k] \in callers \cup {None}

\* The policies of a world are read off what a step makes current.
\* An exchange begins at the first moment, by its root.
Begins == \A k \in Knock : row[k] = None /\ row'[k] # None => now = 0 \/ row'[k].parent # None
Exchange == world = "exchange" /\ Sets(Open) /\ Acts({a, b1}) /\ Begins
OneKnock == /\ world = "one" /\ Sets(OpenOrShut)
            /\ \A k \in Knock : row'[k] # None => k = 1 /\ row'[k].message # m3

WorldsInit == Init /\ world \in {"exchange", "one"}
WorldsNext == Next /\ (Exchange \/ OneKnock) /\ UNCHANGED world
WorldsSpec == WorldsInit /\ [][WorldsNext]_<<vars, world>> /\ Fairness
=============================================================================
