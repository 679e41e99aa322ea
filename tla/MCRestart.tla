------------------------------ MODULE MCRestart ------------------------------
(***************************************************************************)
(* The restart loop, calm and faulty, and in a third world the House's     *)
(* doors alone, called by anyone in any order.                             *)
(***************************************************************************)
EXTENDS RestartLoop

MCInit == \/ Init
          \/ /\ PlaneInit
             /\ world = "doors"
             /\ procs = {} /\ held = First /\ signer = First
             /\ armed = NoKey /\ leaving = FALSE
             /\ keeper = [at |-> "gone", key |-> NoKey, tries |-> 0, window |-> 0]

Doors == world = "doors" /\ PlaneNext /\ UNCHANGED <<world, callers>>
Loop == world # "doors" /\ Next

MCSpec == MCInit /\ [][Doors \/ Loop]_vars /\ Fairness
=============================================================================
