----------------------------- MODULE RestartLoop -----------------------------
(***************************************************************************)
(* A restart from end to end in one workspace: the omp session that asks   *)
(* for it through the adapter's exit door (restart-door.ts), the keeper    *)
(* that owns the omp process (omp-keeper/src/keeper.rs), and the House's   *)
(* rows between them (RestartPlane).  Each of the keeper's calls is a step *)
(* of its own, so the House and omp may move between a read and the act    *)
(* that rests on it.                                                       *)
(*                                                                         *)
(* A process is named by what launched it: the intent and the attempt      *)
(* whose successor proof it carries, or neither for the first omp.         *)
(***************************************************************************)
EXTENDS RestartPlane

CONSTANTS NoKey,       \* no intent
          Home,        \* the session of the first omp
          Renewed,     \* the session of an omp started fresh
          Stranger     \* an omp of the same workspace that no keeper started

ASSUME SessionsAssumption == /\ NoKey \notin Keys
                             /\ {Home, Renewed, Stranger} \subseteq Sessions

VARIABLES world,    \* "faulty": the keeper may be stopped, die or lose answers
          procs,    \* live omp processes the keeper launched
          held,     \* the one the keeper supervises, dead or alive
          armed,    \* the intent its door has armed
          leaving,  \* its armed exit is due
          signer,   \* the process the last verify came from
          keeper    \* the keeper's place in run_controlled and relaunch

callers == <<procs, held, armed, leaving, signer, keeper>>
vars == <<intent, late, recent, world, callers>>

Procs == [of : Keys \cup {NoKey}, try : 0..AttemptLimit, session : Sessions]
First == [of |-> NoKey, try |-> 0, session |-> Home]
Places == {"watch", "ask", "claim", "relaunch", "spawn", "window", "observe",
           "check", "unproven", "fail", "gone"}
Keeper == [at : Places, key : Keys \cup {NoKey}, tries : 0..AttemptLimit,
           window : 0..AttemptLimit]

At(place) == keeper.at = place
GoTo(place) == keeper' = [keeper EXCEPT !.at = place]
Worlds == {"calm", "faulty", "doors"}   \* in "doors" there is no keeper
Faulty == world = "faulty"
k0 == keeper.key
Token == intent[k0].epoch   \* the keeper past its claim holds the one token

Init ==
    /\ PlaneInit
    /\ world \in {"calm", "faulty"}
    /\ procs = {First}
    /\ held = First
    /\ armed = NoKey
    /\ leaving = FALSE
    /\ signer = First
    /\ keeper = [at |-> "watch", key |-> NoKey, tries |-> 0, window |-> 0]

----------------------------------------------------------------------------
(* The adapter.                                                            *)

\* request_restart: arm the pending requested intent, or record one and arm
\* it.  The answer to the record may be lost, and nothing is armed then.
AskRestart(k, mode) ==
    /\ held \in procs /\ ~leaving /\ armed = NoKey
    /\ \/ /\ Pending = {}
          /\ Request(k, mode, held.session)
          /\ armed' \in {k, NoKey}
       \/ /\ Pending = {k} /\ Is(k, "requested") /\ intent[k].mode = mode
          /\ armed' = k
          /\ UNCHANGED planeVars
    /\ UNCHANGED <<world, procs, held, leaving, signer, keeper>>

\* agent_end spends the arming: the transition lands and omp leaves, or it
\* lands and the answer is lost, or it is refused and the session stands down.
AgentEnd ==
    /\ held \in procs /\ armed # NoKey
    /\ armed' = NoKey
    /\ \/ Arm(armed, held.session) /\ leaving' \in BOOLEAN
       \/ ExpireOnTouch(armed) /\ UNCHANGED leaving
       \/ UNCHANGED <<planeVars, leaving>>
    /\ UNCHANGED <<world, procs, held, signer, keeper>>

\* An omp process ends: the armed exit, the operator's, or a crash.
Exit(p) ==
    /\ p \in procs
    /\ procs' = procs \ {p}
    /\ IF p = held THEN armed' = NoKey /\ leaving' = FALSE
                   ELSE UNCHANGED <<armed, leaving>>
    /\ UNCHANGED <<planeVars, world, held, signer, keeper>>

Leave == leaving /\ Exit(held)

\* verifySuccessor on session_start and session_switch of a launched omp.
VerifySuccessor(p) ==
    /\ p \in procs /\ p.of # NoKey
    /\ Verify(p.of, p.session, p.try)
    /\ signer' = p
    /\ UNCHANGED <<world, procs, held, armed, leaving, keeper>>

\* Another omp of the workspace uses the same doors.
StrangerAsks(k, mode) == Request(k, mode, Stranger) /\ UNCHANGED <<world, callers>>
StrangerArms(k) == Arm(k, Stranger) /\ UNCHANGED <<world, callers>>

----------------------------------------------------------------------------
(* The keeper.                                                             *)

Kill(p) ==
    /\ procs' = procs \ {p}
    /\ armed' = NoKey
    /\ leaving' = FALSE

Watch_NoDeadline ==
    /\ At("watch") /\ held \notin procs
    /\ GoTo("ask")
    /\ UNCHANGED <<planeVars, world, procs, held, armed, leaving, signer>>

\* watch_child: omp is gone, or the pending exit is past its deadline.
Watch ==
    /\ At("watch")
    /\ \/ held \notin procs /\ UNCHANGED <<procs, armed, leaving>>
       \/ /\ held \in procs
          /\ \E k \in Pending : Is(k, "exiting") /\ k \in late
          /\ Kill(held)
    /\ GoTo("ask")
    /\ UNCHANGED <<planeVars, world, held, signer>>

\* restart_status for the workspace, whatever the exit code was.
Ask ==
    /\ At("ask")
    /\ \/ \E k \in Pending : /\ intent[k].state \in {"requested", "exiting"}
                             /\ keeper' = [keeper EXCEPT !.at = "claim", !.key = k]
       \/ /\ \A k \in Pending : intent[k].state \notin {"requested", "exiting"}
          /\ GoTo("gone")
       \/ Faulty /\ GoTo("gone")
    /\ UNCHANGED <<planeVars, world, procs, held, armed, leaving, signer>>

ClaimIntent ==
    /\ At("claim")
    /\ \/ /\ Claim(k0)
          /\ \/ keeper' = [keeper EXCEPT !.at = "relaunch", !.tries = 0, !.window = 0]
             \/ Faulty /\ GoTo("gone")
       \/ ExpireOnTouch(k0) /\ GoTo("gone")
       \/ /\ intent[k0].state \notin {"requested", "exiting"}
          /\ GoTo("gone")
          /\ UNCHANGED planeVars
    /\ UNCHANGED <<world, procs, held, armed, leaving, signer>>

\* One relaunching transition per attempt.
RelaunchIntent ==
    /\ At("relaunch")
    /\ \/ /\ Relaunch(k0, Token)
          /\ \/ keeper' = [keeper EXCEPT !.at = "spawn", !.tries = @ + 1]
             \/ Faulty /\ GoTo("gone")
       \/ Fail(k0, Token, "relaunching") /\ GoTo("gone")
       \/ /\ intent[k0].state \notin {"claimed", "relaunching"}
          /\ GoTo("gone")
          /\ UNCHANGED planeVars
    /\ UNCHANGED <<world, procs, held, armed, leaving, signer>>

\* spawn_omp: resume carries the session along, fresh starts another.
Successors(k) == IF intent[k].mode = "resume" THEN {intent[k].session}
                 ELSE {Home, Renewed} \ {intent[k].session}

Spawn ==
    /\ At("spawn")
    /\ \/ \E s \in Successors(k0) :
             LET child == [of |-> k0, try |-> keeper.tries, session |-> s] IN
             /\ procs' = procs \cup {child}
             /\ held' = child
             /\ GoTo("window")
       \/ GoTo("unproven") /\ UNCHANGED <<procs, held>>
    /\ armed' = NoKey /\ leaving' = FALSE
    /\ UNCHANGED <<planeVars, world, signer>>

\* relaunching_window: the House's deadline, or the one it last published.
ReadWindow ==
    /\ At("window")
    /\ \/ keeper' = [keeper EXCEPT !.at = "observe", !.window = intent[k0].attempts]
       \/ Faulty /\ GoTo(IF keeper.window = 0 THEN "unproven" ELSE "observe")
    /\ UNCHANGED <<planeVars, world, procs, held, armed, leaving, signer>>

\* One exact read of the keeper's own intent.
Observe ==
    /\ At("observe")
    /\ \/ Is(k0, "verified") /\ GoTo("watch")
       \/ intent[k0].state \in {"failed", "expired"} /\ GoTo("unproven")
       \/ intent[k0].state \in Live /\ GoTo("check")
       \/ Faulty /\ keeper' \in {[keeper EXCEPT !.at = place] : place \in {"check", "unproven"}}
    /\ UNCHANGED <<planeVars, world, procs, held, armed, leaving, signer>>

\* The window first, then the child; a child that exited gets a second look.
Closed == keeper.window = intent[k0].attempts /\ k0 \in late
MayHaveClosed == Closed \/ keeper.window < intent[k0].attempts

Check ==
    /\ At("check")
    /\ \/ MayHaveClosed /\ GoTo("unproven")
       \/ /\ ~Closed /\ held \notin procs
          /\ GoTo(IF Is(k0, "verified") THEN "watch" ELSE "unproven")
       \/ ~Closed /\ held \in procs /\ GoTo("observe")
    /\ UNCHANGED <<planeVars, world, procs, held, armed, leaving, signer>>

\* leave_no_child, which may fail, and relaunch_action.
PutDown ==
    /\ At("unproven")
    /\ \/ Kill(held)
       \/ Faulty /\ UNCHANGED <<procs, armed, leaving>>
    /\ GoTo(IF keeper.tries < AttemptLimit THEN "relaunch" ELSE "fail")
    /\ UNCHANGED <<planeVars, world, held, signer>>

FailIntent ==
    /\ At("fail")
    /\ \/ Fail(k0, Token, "failed")
       \/ intent[k0].state \notin {"claimed", "relaunching"} /\ UNCHANGED planeVars
       \/ Faulty /\ UNCHANGED planeVars
    /\ GoTo("gone")
    /\ UNCHANGED <<world, procs, held, armed, leaving, signer>>

\* A requested stop: the child is put down and no transition is sent.
Stop ==
    /\ Faulty /\ ~At("gone")
    /\ Kill(held)
    /\ GoTo("gone")
    /\ UNCHANGED <<planeVars, world, held, signer>>

Crash ==
    /\ Faulty /\ ~At("gone")
    /\ GoTo("gone")
    /\ UNCHANGED <<planeVars, world, procs, held, armed, leaving, signer>>

KeeperStep == \/ Watch \/ Ask \/ ClaimIntent \/ RelaunchIntent \/ Spawn
              \/ ReadWindow \/ Observe \/ Check \/ PutDown \/ FailIntent

Clock(k) == (Lapse(k) \/ AgeOut(k)) /\ UNCHANGED <<world, callers>>

Next ==
    \/ \E k \in Keys : \/ \E mode \in Modes : AskRestart(k, mode) \/ StrangerAsks(k, mode)
                       \/ StrangerArms(k)
                       \/ Clock(k)
    \/ AgentEnd
    \/ \E p \in procs : Exit(p) \/ VerifySuccessor(p)
    \/ KeeperStep
    \/ Stop
    \/ Crash

\* The keeper keeps running while it has work, an exit that is due happens,
\* and deadlines pass.
Fairness ==
    /\ WF_vars(KeeperStep)
    /\ WF_vars(Leave)
    /\ \A k \in Keys : WF_vars(Lapse(k) /\ UNCHANGED <<world, callers>>)

Spec == Init /\ [][Next]_vars /\ Fairness

----------------------------------------------------------------------------
LoopTypeOK ==
    /\ PlaneTypeOK
    /\ world \in Worlds
    /\ procs \subseteq Procs /\ held \in Procs /\ signer \in Procs
    /\ armed \in Keys \cup {NoKey} /\ leaving \in BOOLEAN
    /\ keeper \in Keeper

\* An intent is verified by the process its keeper holds: a child of an
\* earlier attempt that outlived its kill cannot sign for the later one.
VerifiedIsSupervised ==
    [][\A k \in Keys :
          Is(k, "relaunching") /\ intent'[k].state = "verified" /\ ~At("gone")
             => signer' = held]_vars

\* A keeper that is neither stopped nor cut off never walks away from its
\* claim: while the row is claimed or relaunching, it is at work on it.
CalmKeeperFinishes ==
    world = "calm" =>
       \A k \in Keys : intent[k].state \in {"claimed", "relaunching"} =>
          k0 = k /\ keeper.at \notin {"watch", "ask", "claim", "gone"}

\* The restart that an omp in the keeper's watch armed ends: verified, failed,
\* or swept.  A lost answer to the arm only delays it to the exit's deadline.
ArmedExitEnds ==
    \A k \in Keys :
       (world = "calm" /\ At("watch") /\ Is(k, "exiting") /\ intent[k].session # Stranger)
          ~> intent[k].state \in Terminal

\* A successor the House has verified is never put down as one that did not
\* prove itself inside the window, as the comment at keeper.rs:274 has it.
ProvenIsNotPutDown ==
    [][At("unproven") /\ held \in procs \ procs' /\ world = "calm" =>
          ~(held.of = k0 /\ Is(k0, "verified") /\ signer = held)]_vars
=============================================================================
