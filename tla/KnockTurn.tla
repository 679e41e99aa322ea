------------------------------ MODULE KnockTurn ------------------------------
(***************************************************************************)
(* What the Knock ledger promises to the sessions that answer Knocks: a     *)
(* turn is leased to one holder, a lapsed lease may pass to another, only   *)
(* the holder of a live lease starts the turn, and a started turn is that   *)
(* holder's alone until it is completed, failed, or its exchange expires.   *)
(***************************************************************************)
CONSTANTS Knock, Holder, None

VARIABLES status,   \* where the Knock is in its life
          holder,   \* who leased it last
          lapsed,   \* the Knocks with no live lease
          expired   \* the Knocks whose exchange has run out

vars == <<status, holder, lapsed, expired>>

Running == {"claimed", "started"}

Init ==
  /\ status = [k \in Knock |-> "absent"]
  /\ holder = [k \in Knock |-> None]
  /\ lapsed = Knock
  /\ expired = {}

Ask(k) ==
  /\ status[k] = "absent"
  /\ status' = [status EXCEPT ![k] = "pending"]
  /\ UNCHANGED <<holder, lapsed, expired>>

Due(k) ==
  /\ k \notin expired
  /\ \/ status[k] = "pending"
     \/ status[k] = "claimed" /\ k \in lapsed

\* A claim ends the running turns of its room that have expired and then leases
\* one due Knock, or finds none.
Claim(h) ==
  \E swept \in SUBSET {k \in expired : status[k] \in Running},
     taken \in {t \in SUBSET {k \in Knock : Due(k)} : \A i, j \in t : i = j} :
    /\ status' = [k \in Knock |-> IF k \in swept THEN "failed"
                                  ELSE IF k \in taken THEN "claimed" ELSE status[k]]
    /\ holder' = [k \in Knock |-> IF k \in taken THEN h ELSE holder[k]]
    /\ lapsed' = lapsed \ taken
    /\ UNCHANGED expired

Leases(h, k) == status[k] = "claimed" /\ holder[k] = h /\ k \notin lapsed
Runs(h, k)   == status[k] = "started" /\ holder[k] = h

Settle(k, outcome) ==
  /\ status' = [status EXCEPT ![k] = outcome]
  /\ UNCHANGED <<holder, lapsed, expired>>

Start(h, k)    == Leases(h, k) /\ Settle(k, "started")
Complete(h, k) == Runs(h, k) /\ Settle(k, "completed")
Fail(h, k)     == (Leases(h, k) \/ Runs(h, k)) /\ Settle(k, "failed")

TimePasses ==
  /\ lapsed \subseteq lapsed' /\ expired \subseteq expired'
  /\ lapsed' \subseteq Knock /\ expired' \subseteq Knock
  /\ UNCHANGED <<status, holder>>

Next ==
  \/ \E k \in Knock : Ask(k)
  \/ \E h \in Holder : Claim(h)
  \/ \E h \in Holder, k \in Knock : Start(h, k) \/ Complete(h, k) \/ Fail(h, k)
  \/ TimePasses

Spec == Init /\ [][Next]_vars
=============================================================================
