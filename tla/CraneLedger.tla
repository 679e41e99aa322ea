----------------------------- MODULE CraneLedger -----------------------------
(* What Crane delivery promises: every event that was enqueued is received   *)
(* once or explained by a dead letter, or both, and only an event whose      *)
(* pointer names the record it declares is ever received.                    *)
CONSTANTS Event, Sound
VARIABLES owed, received, refused
vars == <<owed, received, refused>>

Init == owed = {} /\ received = {} /\ refused = {}

Owe(e) ==
  /\ e \notin owed
  /\ owed' = owed \cup {e}
  /\ UNCHANGED <<received, refused>>

Receive(e) ==
  /\ e \in (owed \cap Sound) \ received
  /\ received' = received \cup {e}
  /\ UNCHANGED <<owed, refused>>

Refuse(e) ==
  /\ e \in owed \ refused
  /\ refused' = refused \cup {e}
  /\ UNCHANGED <<owed, received>>

Next == \E e \in Event : Owe(e) \/ Receive(e) \/ Refuse(e)

\* The first answer to an event that is owed one.
Answer(e) == e \notin received \cup refused /\ (Receive(e) \/ Refuse(e))

Safe == Init /\ [][Next]_vars
Spec == Safe /\ \A e \in Event : WF_vars(Answer(e))
=============================================================================
