---------------------------- MODULE RestartPlane ----------------------------
(***************************************************************************)
(* The House's half of a self-restart: the intents of one workspace        *)
(* (akasha/src/restart) and the five doors that move them.  Every fence of *)
(* the code is per workspace, so one workspace is modelled; an intent is   *)
(* named by the idempotency key that mints it (unique per workspace).      *)
(*                                                                         *)
(* A door is one transaction under the workspace lock or the row lock, so  *)
(* it is one action.  A refusal that rolls back leaves the rows alone and  *)
(* is not a step; a refusal that commits an expiry is.                     *)
(*                                                                         *)
(* Time: `late` says that the deadline of the row's present stage has      *)
(* passed on the House clock, `recent` which arms are younger than the     *)
(* storm window.  Both change by steps of their own, so every length of    *)
(* the deadlines against each other is covered.                            *)
(***************************************************************************)
EXTENDS Naturals, FiniteSets

CONSTANTS Keys,          \* idempotency keys, each naming one intent
          Sessions,      \* harness session ids of the requester's room
          StormMax,      \* STORM_MAX_EXITING_PER_WINDOW
          AttemptLimit   \* RELAUNCH_ATTEMPT_LIMIT

ASSUME LimitsAssumption == /\ StormMax \in Nat
                           /\ AttemptLimit \in Nat \ {0}
ASSUME KeysAreFinite == IsFiniteSet(Keys)
ASSUME SomeSession == Sessions # {}

VARIABLES intent,  \* restart.intents, by key
          late,    \* keys whose present stage has outlived its deadline
          recent   \* keys whose exiting event lies inside the storm window

planeVars == <<intent, late, recent>>

Modes == {"resume", "fresh"}
Live == {"requested", "exiting", "claimed", "relaunching"}
Terminal == {"verified", "failed", "expired"}
States == {"absent"} \cup Live \cup Terminal

\* epoch 0: never claimed.  proof n: the successor proof on file is the one
\* minted for relaunch attempt n; 0: none is.
Rows == [state : States, mode : Modes, session : Sessions,
         epoch : {0, 1}, attempts : 0..AttemptLimit, proof : 0..AttemptLimit]

Is(k, state) == intent[k].state = state
Lapsed(k) == Is(k, "requested") /\ k \in late
Stranded_Claimed(k) == intent[k].state \in {"exiting", "claimed", "relaunching"} /\ k \in late
Stranded(k) == Is(k, "exiting") /\ intent[k].epoch = 0 /\ k \in late
Stormy_OneMore == Cardinality(recent) > StormMax
Stormy == Cardinality(recent) >= StormMax

NoRow == [state |-> "absent", mode |-> "resume", session |-> CHOOSE s \in Sessions : TRUE,
          epoch |-> 0, attempts |-> 0, proof |-> 0]

PlaneInit ==
    /\ intent = [k \in Keys |-> NoRow]
    /\ late = {}
    /\ recent = {}

----------------------------------------------------------------------------
\* The row after a sweep by restart_request.
Swept(k) == IF Lapsed(k) THEN [intent[k] EXCEPT !.state = "expired"]
            ELSE IF Stranded(k) THEN [intent[k] EXCEPT !.state = "failed"]
            ELSE intent[k]

\* restart_request under a key the workspace has not used.
Request(k, mode, s) ==
    /\ Is(k, "absent")
    /\ \A j \in Keys : Swept(j).state \notin Live
    /\ ~Stormy
    /\ intent' = [j \in Keys |-> IF j = k
                                 THEN [intent[k] EXCEPT !.state = "requested",
                                                        !.mode = mode, !.session = s]
                                 ELSE Swept(j)]
    /\ late' = late \ {k}
    /\ UNCHANGED recent

\* Whichever write door touches a lapsed request kills it and refuses: a
\* replayed restart_request, restart_claim and restart_transition alike.
ExpireOnTouch(k) ==
    /\ Lapsed(k)
    /\ intent' = [intent EXCEPT ![k].state = "expired"]
    /\ UNCHANGED <<late, recent>>

Claim(k) ==
    /\ ~Lapsed(k)
    /\ intent[k].state \in {"requested", "exiting"}
    /\ intent' = [intent EXCEPT ![k].state = "claimed", ![k].epoch = @ + 1]
    /\ late' = late \ {k}
    /\ UNCHANGED recent

\* restart_transition to exiting: by the requesting session, out of requested.
Arm(k, s) ==
    /\ Is(k, "requested") /\ ~Lapsed(k)
    /\ intent[k].session = s
    /\ ~Stormy
    /\ intent' = [intent EXCEPT ![k].state = "exiting"]
    /\ late' = late \ {k}
    /\ recent' = recent \cup {k}

\* The lease fence: the token minted by the one claim of this intent.
Holds(k, token) == intent[k].epoch # 0 /\ token = intent[k].epoch

\* restart_transition to relaunching within the attempt budget.
Relaunch(k, token) ==
    /\ Holds(k, token)
    /\ \/ Is(k, "claimed")
       \/ Is(k, "relaunching") /\ intent[k].attempts < AttemptLimit
    /\ intent' = [intent EXCEPT ![k].state = "relaunching",
                                ![k].attempts = @ + 1,
                                ![k].proof = intent[k].attempts + 1]
    /\ late' = late \ {k}
    /\ UNCHANGED recent

Fail_FromAny(k, token, to) ==
    /\ Holds(k, token) /\ to = "failed"
    /\ intent' = [intent EXCEPT ![k].state = "failed", ![k].proof = 0]
    /\ UNCHANGED <<late, recent>>

\* restart_transition to failed, or to relaunching with the budget spent.
Fail(k, token, to) ==
    /\ Holds(k, token)
    /\ \/ to = "failed" /\ intent[k].state \in {"claimed", "relaunching"}
       \/ to = "relaunching" /\ Is(k, "relaunching") /\ intent[k].attempts >= AttemptLimit
    /\ intent' = [intent EXCEPT ![k].state = "failed", ![k].proof = 0]
    /\ UNCHANGED <<late, recent>>

\* require_successor_identity: resume keeps the session, fresh must not.
Successor(k, s) == (intent[k].mode = "resume") <=> (s = intent[k].session)

Verify_AnyProof(k, s, proof) ==
    /\ Is(k, "relaunching") /\ k \notin late /\ Successor(k, s) /\ proof # 0
    /\ intent' = [intent EXCEPT ![k].state = "verified", ![k].proof = 0]
    /\ UNCHANGED <<late, recent>>

Verify(k, s, proof) ==
    /\ Is(k, "relaunching")
    /\ k \notin late
    /\ Successor(k, s)
    /\ proof # 0 /\ proof = intent[k].proof /\ proof = intent[k].attempts
    /\ intent' = [intent EXCEPT ![k].state = "verified", ![k].proof = 0]
    /\ UNCHANGED <<late, recent>>

----------------------------------------------------------------------------
\* The clock passes the last deadline the row was given.  A claimed row has
\* none of its own; that of a verified row matters only to who still waits.
Lapse(k) ==
    /\ intent[k].state \in {"requested", "exiting", "relaunching", "verified"}
    /\ k \notin late
    /\ late' = late \cup {k}
    /\ UNCHANGED <<intent, recent>>

\* An exiting event falls out of the storm window.
AgeOut(k) ==
    /\ k \in recent
    /\ recent' = recent \ {k}
    /\ UNCHANGED <<intent, late>>

\* restart_status without an id: the pending intent of the workspace.
Pending == {k \in Keys : intent[k].state \in Live /\ ~Lapsed(k)}

PlaneNext ==
    \E k \in Keys :
       \/ \E mode \in Modes, s \in Sessions : Request(k, mode, s)
       \/ ExpireOnTouch(k)
       \/ Claim(k)
       \/ \E s \in Sessions : Arm(k, s)
       \/ \E token \in {0, 1} : Relaunch(k, token)
       \/ \E token \in {0, 1}, to \in {"failed", "relaunching"} : Fail(k, token, to)
       \/ \E s \in Sessions, proof \in 0..AttemptLimit : Verify(k, s, proof)
       \/ Lapse(k)
       \/ AgeOut(k)

PlaneSpec == PlaneInit /\ [][PlaneNext]_planeVars

----------------------------------------------------------------------------
\* Types of the plane's rows and clocks.
PlaneTypeOK ==
    /\ intent \in [Keys -> Rows]
    /\ late \subseteq Keys
    /\ recent \subseteq Keys

\* One live intent owns the workspace, whatever was swept to make room for it:
\* refuse_on_live_intent after the two sweeps of restart_request.
OneLive ==
    \A j, k \in Keys : intent[j].state \in Live /\ intent[k].state \in Live => j = k

\* Never more than StormMax intents reach exiting inside one storm window: the
\* exit door counts again, for a request minted before the window filled.
StormBound == Cardinality(recent) <= StormMax

\* A row is never taken from a keeper that claimed it: once claimed it ends
\* only by the keeper's own token or by a verify, never by a request's sweep,
\* and it is never open for a second claim.
ClaimIsExclusive ==
    [][\A k \in Keys :
          intent[k].epoch = 1 =>
             /\ intent'[k].epoch = 1
             /\ intent'[k].state \notin {"requested", "exiting", "expired"}
             /\ intent'[k].state # intent[k].state =>
                   \A j \in Keys \ {k} : intent'[j] = intent[j]]_planeVars

\* The plane keeps the promise of RestartPromise.
FateOf(state) == IF state = "absent" THEN "none"
                 ELSE IF state \in Live THEN "open" ELSE state
Promise == INSTANCE RestartPromise
              WITH fate <- [k \in Keys |-> FateOf(intent[k].state)],
                   launches <- [k \in Keys |-> intent[k].attempts]
KeepsPromise == Promise!PromiseSpec
=============================================================================
