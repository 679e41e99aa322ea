--------------------------- MODULE RestartPromise ---------------------------
(***************************************************************************)
(* What the restart plane promises a workspace, with no door, no lease and *)
(* no clock: a key opens at most one restart, at most one restart of the   *)
(* workspace is open, one that has ended stays as it ended, it is launched *)
(* at most AttemptLimit times, and it is verified only after a launch.     *)
(***************************************************************************)
EXTENDS Naturals

CONSTANTS Keys,         \* the idempotency keys of the workspace's requests
          AttemptLimit  \* launches one restart may spend

VARIABLES fate,     \* what has become of each key's restart
          launches  \* launches each has spent

promiseVars == <<fate, launches>>

Ends == {"expired", "failed", "verified"}

Open(k) == fate[k] = "open"

PromiseInit ==
    /\ fate = [k \in Keys |-> "none"]
    /\ launches = [k \in Keys |-> 0]

\* A new restart opens; one that was open and is dead is buried in the step.
Begin(k) ==
    /\ fate[k] = "none"
    /\ \E buried \in [{j \in Keys : Open(j)} -> {"expired", "failed"}] :
          fate' = [j \in Keys |-> IF j = k THEN "open"
                                  ELSE IF Open(j) THEN buried[j] ELSE fate[j]]
    /\ UNCHANGED launches

Launch(k) ==
    /\ Open(k)
    /\ launches[k] < AttemptLimit
    /\ launches' = [launches EXCEPT ![k] = @ + 1]
    /\ UNCHANGED fate

End(k, how) ==
    /\ Open(k)
    /\ how = "expired" => launches[k] = 0
    /\ how = "verified" => launches[k] > 0
    /\ fate' = [fate EXCEPT ![k] = how]
    /\ UNCHANGED launches

PromiseNext ==
    \E k \in Keys : \/ Begin(k)
                    \/ Launch(k)
                    \/ \E how \in Ends : End(k, how)

PromiseSpec == PromiseInit /\ [][PromiseNext]_promiseVars
=============================================================================
