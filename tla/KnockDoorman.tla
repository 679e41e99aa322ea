---------------------------- MODULE KnockDoorman ----------------------------
(***************************************************************************)
(* The Knock doorman of an OMP session (adapters/omp/house-proof/knock.ts): *)
(* it claims Knocks for its room through the Host, wakes its agent with     *)
(* each, and settles the Knock from what it observes of the agent's turns.  *)
(*                                                                          *)
(* A doorman runs on one JavaScript thread, so a step is the code between   *)
(* two awaits.  Each call to the Host opens a connection of its own: it is  *)
(* sent, served, and answered as separate steps, and calls overtake each    *)
(* other.  A call that fails or times out may have been served or not.      *)
(* Elapsed time is a choice: a tick may find a deadline passed.             *)
(*                                                                          *)
(* The doormen here serve one room; the ledger is KnockTurn, which the rows *)
(* of HallwayKnock implement.                                               *)
(***************************************************************************)
EXTENDS KnockTurn, Naturals

CONSTANTS MaxClaims,  \* bound on the claims under way, of which the doorman makes one
          MaxFails,   \* bound on the failure calls a doorman has outstanding
          MaxNotes    \* bound on the ended turns not yet noted

Doorman == Holder

ASSUME DoormanAssumption ==
  /\ {None, "sent", "empty", "idle", "other", "gone"} \cap Knock = {} /\ None \notin {"sent", "empty"}
  /\ MaxClaims \in Nat \ {0} /\ MaxFails \in Nat /\ MaxNotes \in Nat

VARIABLES
  local,     \* the doorman's own state, a KnockDoormanState
  claim,     \* its claim calls: None, sent, or the answer
  settle,    \* its started or completed call: None or a Call (settling)
  fails,     \* how many failure calls it has outstanding for each Knock
  agent,     \* the turn its agent runs
  queued,    \* the Knocks injected as a next turn
  notes,     \* agent_end events whose handler has not reached the doorman
  ended      \* the Knocks whose own turn has run and ended

ledger == <<status, holder, lapsed, expired>>
calls  == <<claim, settle, fails>>
turns  == <<agent, queued, notes, ended>>
all    == <<status, holder, lapsed, expired, local, claim, settle, fails,
            agent, queued, notes, ended>>

Claims   == 1..MaxClaims
Outcomes == {"started", "completed"}
\* deliver holds the claiming flag until its call returns; note does not look
\* for an interrupt afterwards.
Callers  == {"deliver", "tick", "note"}
Call     == [knock : Knock, outcome : Outcomes, by : Callers,
             state : {"sent", "ok", "refused"}]

Local == [active : Knock \cup {None}, delivered : BOOLEAN, startSettled : BOOLEAN,
          turnStarted : BOOLEAN, turnEnded : BOOLEAN, interruptRequested : BOOLEAN, interruptSent : BOOLEAN,
          interruptedTurnEnded : BOOLEAN]

\* clearActiveKnock
Cleared ==
  [active |-> None, delivered |-> FALSE, startSettled |-> FALSE,
   turnStarted |-> FALSE, turnEnded |-> FALSE,
   interruptRequested |-> FALSE, interruptSent |-> FALSE, interruptedTurnEnded |-> FALSE]

\* The doorman's state, its calls and what its agent runs keep their types: it
\* settles as started or completed only, and answers one Knock at a time.
DoormanTypeOK ==
  /\ status \in [Knock -> {"absent", "pending", "claimed", "started", "completed", "failed"}]
  /\ holder \in [Knock -> Doorman \cup {None}]
  /\ lapsed \subseteq Knock /\ expired \subseteq Knock
  /\ local \in [Doorman -> Local]
  /\ claim \in [Doorman -> [Claims -> Knock \cup {None, "sent", "empty"}]]
  /\ settle \in [Doorman -> Call \cup {None}]
  /\ fails \in [Doorman -> [Knock -> 0..MaxFails]]
  /\ agent \in [Doorman -> Knock \cup {"idle", "other", "gone"}]
  /\ queued \in [Doorman -> SUBSET Knock]
  /\ notes \in [Doorman -> 0..MaxNotes]
  /\ ended \in [Doorman -> SUBSET Knock]

DoormanInit ==
  /\ Init
  /\ local = [d \in Doorman |-> Cleared]
  /\ claim = [d \in Doorman |-> [i \in Claims |-> None]]
  /\ settle = [d \in Doorman |-> None]
  /\ fails = [d \in Doorman |-> [k \in Knock |-> 0]]
  /\ agent = [d \in Doorman |-> "idle"]
  /\ queued = [d \in Doorman |-> {}]
  /\ notes = [d \in Doorman |-> 0]
  /\ ended = [d \in Doorman |-> {}]

Active(d)    == local[d].active
Put(f, d, v) == [f EXCEPT ![d] = v]
-----------------------------------------------------------------------------
(* The agent's turns, as the OMP runtime runs them. *)

\* The running turn ends, by itself or by an abort.
TurnOver(d) ==
  /\ notes[d] < MaxNotes
  /\ agent' = Put(agent, d, "idle")
  /\ notes' = Put(notes, d, notes[d] + 1)
  /\ ended' = Put(ended, d, ended[d] \cup ({agent[d]} \cap Knock))
  /\ UNCHANGED queued

\* ctx.abort()
Abort(d) == IF agent[d] = "idle" THEN UNCHANGED turns ELSE TurnOver(d)

-----------------------------------------------------------------------------
(* settleObservedTurn and interruptActiveTurn *)

Observed(l) == l.turnStarted /\ l.turnEnded

\* What settleObservedTurn asks of the Host, given what the doorman has seen.
Wanted(l) ==
  IF ~l.startSettled THEN {"started"} ELSE {o \in {"completed"} : Observed(l)}

Sends(d, l) == l.delivered /\ settle[d] = None /\ Wanted(l) # {}

Send(d, l, by) ==
  \E o \in Wanted(l) :
    settle' = Put(settle, d, [knock |-> l.active, outcome |-> o, by |-> by, state |-> "sent"])

Interrupts(l) ==
  l.active # None /\ l.interruptRequested /\ ~l.interruptSent /\ l.startSettled

Interrupt(d, l) ==
  IF Interrupts(l)
    THEN local' = Put(local, d, [l EXCEPT !.interruptSent = TRUE]) /\ Abort(d)
    ELSE local' = Put(local, d, l) /\ UNCHANGED turns

\* The doorman now sees l: it settles what it can.
Observe(d, l, by) ==
  /\ local' = Put(local, d, l)
  /\ IF Sends(d, l) THEN Send(d, l, by) ELSE UNCHANGED settle

-----------------------------------------------------------------------------
(* tickDoorman without an active Knock: claim *)

Claiming(d) ==
  \/ \E i \in Claims : claim[d][i] # None
  \/ settle[d] # None /\ settle[d].by = "deliver"

Poll(d) ==
  /\ agent[d] # "gone"
  /\ Active(d) = None
  /\ ~Claiming(d)
  /\ \E i \in Claims :
       /\ claim[d][i] = None
       /\ \A j \in Claims : j < i => claim[d][j] # None
       /\ claim' = [claim EXCEPT ![d][i] = "sent"]
  /\ UNCHANGED <<ledger, local, settle, fails, turns>>

HostClaims(d, i) ==
  /\ claim[d][i] = "sent"
  /\ Claim(d)
  /\ LET taken == lapsed \ lapsed' IN
     claim' = [claim EXCEPT ![d][i] = IF taken = {} THEN "empty" ELSE CHOOSE k \in taken : TRUE]
  /\ UNCHANGED <<local, settle, fails, turns>>

\* The answer is empty, a refusal, or never comes.
ClaimEnds(d, i) ==
  /\ claim[d][i] # None
  /\ claim' = [claim EXCEPT ![d][i] = None]
  /\ UNCHANGED <<ledger, local, settle, fails, turns>>

\* deliverActiveKnock: the wake is injected, and only then is started sent.
\* When the injection throws the Knock is failed, and stays active till then.
Inject(d, k, by) ==
  LET l == [Cleared EXCEPT !.active = k, !.delivered = TRUE,
                           !.interruptRequested = agent[d] # "idle"] IN
  \/ /\ queued' = Put(queued, d, queued[d] \cup {k})
     /\ Observe(d, l, by)
     /\ UNCHANGED fails
  \/ /\ fails[d][k] < MaxFails
     /\ fails' = [fails EXCEPT ![d][k] = @ + 1]
     /\ local' = Put(local, d, IF by = "deliver" THEN [Cleared EXCEPT !.active = k] ELSE local[d])
     /\ UNCHANGED <<queued, settle>>

Deliver(d, i) ==
  /\ claim[d][i] \in Knock
  /\ Inject(d, claim[d][i], "deliver")
  /\ claim' = [claim EXCEPT ![d][i] = None]
  /\ UNCHANGED <<ledger, agent, notes, ended>>

-----------------------------------------------------------------------------
(* tickDoorman with an active Knock *)

\* Mutant: the completion has no deadline.
Overdue_NoEnd(l) == l.delivered /\ (~l.startSettled \/ ~l.turnStarted)

\* A tick finds one of the three deadlines passed: the start or the completion
\* did not settle in 25 seconds, or no turn began in 60.
Overdue(l) == l.delivered /\ (~l.startSettled \/ ~l.turnStarted \/ l.turnEnded)

\* failActiveKnock; another tick may enter it before the first returns.
TickFails(d) ==
  LET k == Active(d) IN
  /\ Overdue(local[d])
  /\ fails[d][k] < MaxFails
  /\ fails' = [fails EXCEPT ![d][k] = @ + 1]
  /\ UNCHANGED <<ledger, local, claim, settle, turns>>

\* A tick while the failure of an injection is under way injects again.
TickDelivers(d) ==
  /\ Active(d) # None /\ ~local[d].delivered
  /\ Inject(d, Active(d), "tick")
  /\ UNCHANGED <<ledger, claim, agent, notes, ended>>

TickSettles(d) ==
  /\ local[d].delivered
  /\ IF Sends(d, local[d])
       THEN Send(d, local[d], "tick") /\ UNCHANGED <<local, turns>>
       ELSE Interrupts(local[d]) /\ Interrupt(d, local[d]) /\ UNCHANGED settle
  /\ UNCHANGED <<ledger, claim, fails>>

\* The Host serves a settlement: done, done before, or refused.
HostSettles(d) ==
  LET c == settle[d]
      k == c.knock
      may == IF c.outcome = "started" THEN Leases(d, k) ELSE Runs(d, k)
      done == status[k] = c.outcome /\ holder[k] = d
  IN
  /\ c # None /\ c.state = "sent"
  /\ settle' = Put(settle, d, [c EXCEPT !.state = IF may \/ done THEN "ok" ELSE "refused"])
  /\ IF may THEN Settle(k, c.outcome) ELSE UNCHANGED ledger
  /\ UNCHANGED <<local, claim, fails, turns>>

\* The call fails or is refused; a deliver or a tick then looks for an interrupt.
SettleFails(d) ==
  /\ settle[d] # None
  /\ settle' = Put(settle, d, None)
  /\ IF settle[d].by = "note" THEN UNCHANGED <<local, turns>> ELSE Interrupt(d, local[d])
  /\ UNCHANGED <<ledger, claim, fails>>

\* The flag is set on whatever Knock is active when the answer arrives.
StartSettled(d) ==
  LET c == settle[d]
      l == [local[d] EXCEPT !.startSettled = TRUE]
  IN
  /\ c # None /\ c.state = "ok" /\ c.outcome = "started"
  /\ IF Observed(l)
       THEN /\ settle' = Put(settle, d, [c EXCEPT !.outcome = "completed", !.state = "sent"])
            /\ local' = Put(local, d, l)
            /\ UNCHANGED turns
       ELSE /\ settle' = Put(settle, d, None)
            /\ IF c.by = "note"
                 THEN local' = Put(local, d, l) /\ UNCHANGED turns
                 ELSE Interrupt(d, l)
  /\ UNCHANGED <<ledger, claim, fails>>

CompletionSettled(d) ==
  /\ settle[d] # None /\ settle[d].state = "ok" /\ settle[d].outcome = "completed"
  /\ settle' = Put(settle, d, None)
  /\ local' = Put(local, d, Cleared)
  /\ UNCHANGED <<ledger, claim, fails, turns>>

HostFails(d, k) ==
  /\ fails[d][k] > 0
  /\ Fail(d, k)
  /\ UNCHANGED <<local, calls, turns>>

\* However the failure call ends, what is active then is cleared.
FailReturns(d, k) ==
  /\ fails[d][k] > 0
  /\ fails' = [fails EXCEPT ![d][k] = @ - 1]
  /\ local' = Put(local, d, Cleared)
  /\ UNCHANGED <<ledger, claim, settle, turns>>

-----------------------------------------------------------------------------
(* What the agent's events tell the doorman *)

\* noteHallwayKnockTurnStart, unless OMP omits the message_start hook.
BeginKnockTurn(d, k) ==
  /\ agent[d] = "idle"
  /\ k \in queued[d]
  /\ agent' = Put(agent, d, k)
  /\ queued' = Put(queued, d, queued[d] \ {k})
  /\ \/ /\ local[d].active = k /\ local[d].delivered /\ ~local[d].turnStarted
        /\ Observe(d, [local[d] EXCEPT !.turnStarted = TRUE], "note")
     \/ UNCHANGED <<local, settle>>
  /\ UNCHANGED <<ledger, claim, fails, notes, ended>>

BeginOtherTurn(d) ==
  /\ agent[d] = "idle"
  /\ agent' = Put(agent, d, "other")
  /\ UNCHANGED <<ledger, local, calls, queued, notes, ended>>

EndTurn(d) ==
  /\ agent[d] \notin {"idle", "gone"}
  /\ TurnOver(d)
  /\ UNCHANGED <<ledger, local, calls>>

\* noteHallwayKnockTurnEnd: one end after an interrupt is the predecessor's.
SeenEnd(l) ==
  IF ~l.turnStarted /\ l.interruptSent /\ ~l.interruptedTurnEnded
    THEN [l EXCEPT !.interruptedTurnEnded = TRUE]
    ELSE [l EXCEPT !.turnStarted = TRUE, !.turnEnded = TRUE]

\* agent_end's handler captures the conversation before it notes the end.
NoteEnd(d) ==
  /\ notes[d] > 0
  /\ notes' = Put(notes, d, notes[d] - 1)
  /\ IF Active(d) = None
       THEN UNCHANGED <<local, settle>>
       ELSE LET l == SeenEnd(local[d]) IN
            IF l.turnEnded THEN Observe(d, l, "note")
                           ELSE local' = Put(local, d, l) /\ UNCHANGED settle
  /\ UNCHANGED <<ledger, claim, fails, agent, queued, ended>>

\* The process dies with its agent; its rows stay.
Crash(d) ==
  /\ agent[d] # "gone"
  /\ agent' = Put(agent, d, "gone")
  /\ local' = Put(local, d, Cleared)
  /\ claim' = Put(claim, d, [i \in Claims |-> None])
  /\ settle' = Put(settle, d, None)
  /\ fails' = Put(fails, d, [k \in Knock |-> 0])
  /\ queued' = Put(queued, d, {})
  /\ notes' = Put(notes, d, 0)
  /\ UNCHANGED <<ledger, ended>>

-----------------------------------------------------------------------------
(* The ledger's own steps *)

Asked(k) == Ask(k) /\ UNCHANGED <<local, calls, turns>>

\* Mutant: the lease is shorter than the deadline of a call.
Lapses_Early(k) == k \notin lapsed

\* A lease outlasts the answer to the claim that took it and the failure of its
\* injection: 30 seconds against two calls of at most 10.
Lapses(k) ==
  /\ k \notin lapsed
  /\ \A d \in Doorman : (\A i \in Claims : claim[d][i] # k) /\ (Active(d) = k => local[d].delivered)

LeaseLapses(k) ==
  /\ Lapses(k)
  /\ lapsed' = lapsed \cup {k}
  /\ UNCHANGED <<status, holder, expired, local, calls, turns>>

ExchangeExpires(k) ==
  /\ status[k] # "absent" /\ k \notin expired
  /\ expired' = expired \cup {k}
  /\ UNCHANGED <<status, holder, lapsed, local, calls, turns>>

DoormanNext ==
  \/ \E d \in Doorman :
       \/ Poll(d)
       \/ \E i \in Claims : HostClaims(d, i) \/ ClaimEnds(d, i) \/ Deliver(d, i)
       \/ TickFails(d) \/ TickDelivers(d) \/ TickSettles(d)
       \/ HostSettles(d) \/ SettleFails(d) \/ StartSettled(d) \/ CompletionSettled(d)
       \/ BeginOtherTurn(d) \/ EndTurn(d) \/ NoteEnd(d) \/ Crash(d)
       \/ \E k \in Knock : HostFails(d, k) \/ FailReturns(d, k) \/ BeginKnockTurn(d, k)
  \/ \E k \in Knock : Asked(k) \/ LeaseLapses(k) \/ ExchangeExpires(k)

DoormanSpec == DoormanInit /\ [][DoormanNext]_all

\* The timer ticks, deadlines pass, calls end, turns begun end and are noted.
DoormanFairness ==
  \A d \in Doorman :
    /\ WF_all(TickFails(d))
    /\ WF_all(SettleFails(d) \/ StartSettled(d) \/ CompletionSettled(d))
    /\ WF_all(EndTurn(d)) /\ WF_all(NoteEnd(d))
    /\ \A k \in Knock : WF_all(FailReturns(d, k))

DoormanFairSpec == DoormanSpec /\ DoormanFairness
-----------------------------------------------------------------------------
(* Properties *)

\* A Knock that was delivered is released before another claim takes its place,
\* be it one of the same Knock: what was seen of its start and its turn is not
\* forgotten until then.
Seen(l) == {f \in {"startSettled", "turnStarted", "turnEnded", "interruptSent",
                   "interruptedTurnEnded"} : l[f]}
NeverReplaced ==
  [][\A d \in Doorman :
       local[d].delivered /\ Active(d)' # None =>
         Active(d)' = Active(d) /\ Seen(local[d]) \subseteq Seen(local'[d])]_all

\* A wake is injected only by the session that leased the Knock last, however
\* long the answer to its claim took and whoever else polls the room.
WakesTheHolder ==
  [][\A d \in Doorman, k \in Knock : k \in queued'[d] \ queued[d] => holder[k] = d]_all

\* RUNTIME_ARCHITECTURE.md:645: a doorman does not answer for one Knock for ever.
DoormanReleases ==
  \A d \in Doorman, k \in Knock : Active(d) = k ~> Active(d) # k

\* RUNTIME_ARCHITECTURE.md:643: a delivered wake without an observed end fails
\* locally: what releases a Knock is a call about that Knock.
ReleasesItsOwn ==
  [][\A d \in Doorman :
       LET k == Active(d) IN
       k # None /\ Active(d)' = None /\ agent'[d] # "gone" =>
         \/ fails'[d][k] < fails[d][k]
         \/ settle[d] # None /\ settle[d].knock = k]_all

\* CODE_FLOW_MAP.md:333: the interrupted turn cannot be mistaken for the Knock's
\* completion.
CompletionIsItsOwn ==
  \A k \in Knock : status[k] = "completed" => k \in ended[holder[k]]

\* RUNTIME_ARCHITECTURE.md:639: an active turn is aborted only after the start of
\* the Knock was settled.
AbortsAfterStart ==
  [][\A d \in Doorman :
       local'[d].interruptSent /\ ~local[d].interruptSent
         => status[Active(d)] \notin {"pending", "claimed"}]_all

\* RUNTIME_ARCHITECTURE.md:637: the Knock is settled as started before the model
\* can answer.
StartedBeforeAnswer ==
  \A d \in Doorman, k \in Knock :
    k \in ended[d] /\ holder[k] = d => status[k] # "claimed"
=============================================================================
