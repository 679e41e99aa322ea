----------------------------- MODULE DocketClock -----------------------------
(***************************************************************************)
(* The clock of the Docket (akasha/src/docket/clock.rs): a sweep reads the  *)
(* quests due, reads which were pinged, rings the hallway under a key that  *)
(* digests what is newly due, and writes the pings in a transaction of its  *)
(* own.  Sweeps overlap, and one may be torn between any two of these.      *)
(*                                                                          *)
(* A ring is the message's key, the set of quests rung (a quest's deadline  *)
(* does not change once it is activated), and its content: what the sweep   *)
(* read of each quest's state and recipient.                                *)
(***************************************************************************)
EXTENDS Docket

CONSTANTS Sweepers,  \* calls of quest_clock under way
          Poster,    \* the room that posts the quests
          MaxTorn    \* bound: sweeps torn

ASSUME ClockAssumption == MaxTorn \in Nat

VARIABLES sweep,     \* each call's place and what it has read
          rings,     \* the clock's messages in the hallway
          pinged,    \* quests with a clock_ping event
          torn

clockVars == <<quest, attempts, judged, sweep, rings, pinged, torn>>
sweepVars == <<sweep, rings, pinged, torn>>

AtRest == [at |-> "rest", due |-> <<>>, new |-> {}]

ClockInit ==
    /\ DocketInit
    /\ sweep = [s \in Sweepers |-> AtRest]
    /\ rings = {}
    /\ pinged = {}
    /\ torn = 0

Due(q) == quest[q].state \in LiveStates /\ quest[q].deadline = "near"
Told(q) == [state |-> quest[q].state,
            room |-> IF quest[q].state = "offered" THEN Poster ELSE Hand(q).room]

LookAtBoard(s) ==
    /\ sweep[s].at = "rest"
    /\ \E q \in Quests : Due(q)
    /\ sweep' = [sweep EXCEPT ![s].at = "looked",
                              ![s].due = [q \in {d \in Quests : Due(d)} |-> Told(q)]]
    /\ UNCHANGED <<docketVars, rings, pinged, torn>>

ReadPings(s) ==
    LET new == DOMAIN sweep[s].due \ pinged IN
    /\ sweep[s].at = "looked"
    /\ sweep' = [sweep EXCEPT ![s] = IF new = {} THEN AtRest
                                     ELSE [@ EXCEPT !.at = "ring", !.new = new]]
    /\ UNCHANGED <<docketVars, rings, pinged, torn>>

Ring(s) == [key |-> sweep[s].new, says |-> [q \in sweep[s].new |-> sweep[s].due[q]]]
SameKey(s) == {r \in rings : r.key = Ring(s).key}

RingBell_PingFirst(s) ==
    /\ sweep[s].at = "ring"
    /\ pinged' = pinged \cup sweep[s].new
    /\ sweep' = [sweep EXCEPT ![s].at = "ping"]
    /\ UNCHANGED <<docketVars, rings, torn>>

\* hallway_post: a first post, a replay word for word, or a refused reuse of
\* the key (messages.rs idempotency_reuse), which ends the sweep.
RingBell(s) ==
    /\ sweep[s].at = "ring"
    /\ \/ /\ SameKey(s) \subseteq {Ring(s)}
          /\ rings' = rings \cup {Ring(s)}
          /\ sweep' = [sweep EXCEPT ![s].at = "ping"]
       \/ /\ ~(SameKey(s) \subseteq {Ring(s)})
          /\ sweep' = [sweep EXCEPT ![s] = AtRest]
          /\ UNCHANGED rings
    /\ UNCHANGED <<docketVars, pinged, torn>>

WritePings(s) ==
    /\ sweep[s].at = "ping"
    /\ pinged' = pinged \cup sweep[s].new
    /\ sweep' = [sweep EXCEPT ![s] = AtRest]
    /\ UNCHANGED <<docketVars, rings, torn>>

TearSweep(s) ==
    /\ sweep[s].at # "rest"
    /\ torn < MaxTorn
    /\ torn' = torn + 1
    /\ sweep' = [sweep EXCEPT ![s] = AtRest]
    /\ UNCHANGED <<docketVars, rings, pinged>>

SweepStep(s) == LookAtBoard(s) \/ ReadPings(s) \/ RingBell(s) \/ WritePings(s)

ClockNext ==
    \/ DocketNext /\ UNCHANGED sweepVars
    \/ \E s \in Sweepers : SweepStep(s) \/ TearSweep(s)

ClockFairness == \A s \in Sweepers : WF_clockVars(SweepStep(s))
ClockSpec == ClockInit /\ [][ClockNext]_clockVars /\ ClockFairness

----------------------------------------------------------------------------
ClockTypeOK ==
    /\ DocketTypeOK
    /\ \A s \in Sweepers : /\ sweep[s].at \in {"rest", "looked", "ring", "ping"}
                           /\ sweep[s].new \subseteq DOMAIN sweep[s].due
                           /\ DOMAIN sweep[s].due \subseteq Quests
    /\ \A r \in rings : r.key \subseteq Quests /\ DOMAIN r.says = r.key
    /\ pinged \subseteq Quests
    /\ torn \in 0..MaxTorn

\* No Bell is lost: a quest the ledger holds for pinged was rung, by a message
\* that told its room so while the quest was live.
PingedWasRung ==
    \A q \in pinged : \E r \in rings : q \in r.key /\ r.says[q].state \in LiveStates

\* Sweeps that overlap do not double a Bell by themselves: a quest is rung
\* twice only with another set of quests beside it.
OneRingPerSet == \A r, u \in rings : r.key = u.key => r = u

\* A torn sweep converges (clock.rs:91-94): while sweeps keep coming, a quest
\* that stays due is pinged.
SweepConverges ==
    \A q \in Quests : Due(q) ~> (q \in pinged \/ ~Due(q))
=============================================================================
