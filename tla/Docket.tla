------------------------------- MODULE Docket -------------------------------
(***************************************************************************)
(* The Docket (akasha/src/docket): quests are drafted, activated, claimed   *)
(* under a lease, submitted by the claimant's room, judged item by item by  *)
(* another room and settled; the quest of a recurring goal is re-armed in   *)
(* the transaction that settles it.  Every door locks the quest's row, so   *)
(* each is one action.                                                      *)
(***************************************************************************)
EXTENDS Naturals, Sequences, FiniteSets

CONSTANTS Quests,    \* quest ids; bounds the re-armed occurrences
          Rooms,
          Items,     \* acceptance items of a quest
          NoRoom,
          NoQuest,
          MaxClaims  \* bound: claims of one quest

ASSUME DocketAssumption == /\ NoRoom \notin Rooms
                           /\ NoQuest \notin Quests
                           /\ IsFiniteSet(Quests)
                           /\ MaxClaims \in Nat

VARIABLES quest,    \* docket.quests
          attempts, \* docket.quest_attempts, by claim epoch
          judged    \* docket.quest_acceptance_items

docketVars == <<quest, attempts, judged>>

LiveStates == {"offered", "claimed", "submitted"}
QuestStates == {"absent", "draft", "settled"} \cup LiveStates
Verdicts == {"met", "not_met"}  \* accepted (met, not_applicable) or not

\* Deadlines: none, outside the clock's horizon, inside it.
Deadlines == {"none", "far", "near"}

NoOccurrence == [state |-> "absent", recurs |-> FALSE, deadline |-> "none", parent |-> NoQuest]
Unjudged == [i \in Items |-> [verdict |-> "pending", by |-> NoRoom]]

DocketInit ==
    /\ quest = [q \in Quests |-> NoOccurrence]
    /\ attempts = [q \in Quests |-> <<>>]
    /\ judged = [q \in Quests |-> Unjudged]

Epoch(q) == Len(attempts[q])
Hand(q) == attempts[q][Epoch(q)]

----------------------------------------------------------------------------
\* quest_post: the draft, under a goal that recurs or not.
DraftQuest(q) ==
    /\ quest[q].state = "absent"
    /\ \E recurs \in BOOLEAN, deadline \in {"none", "far"} :
          quest' = [quest EXCEPT ![q] = [NoOccurrence EXCEPT !.state = "draft",
                                                             !.recurs = recurs,
                                                             !.deadline = deadline]]
    /\ UNCHANGED <<attempts, judged>>

\* An omitted deadline keeps the drafted one.
ActivateQuest(q) ==
    /\ quest[q].state = "draft"
    /\ \E deadline \in {quest[q].deadline, "far"} :
          quest' = [quest EXCEPT ![q].state = "offered", ![q].deadline = deadline]
    /\ UNCHANGED <<attempts, judged>>

Free(q) ==
    \/ quest[q].state = "offered"
    \/ quest[q].state = "claimed" /\ Hand(q).state = "active" /\ Hand(q).lapsed
Retired_Active(q) == attempts[q]
Retired(q) == [n \in 1..Epoch(q) |->
                  IF attempts[q][n].state = "active"
                  THEN [attempts[q][n] EXCEPT !.state = "reclaimed"] ELSE attempts[q][n]]

\* quest_claim of an offered quest, or of one whose claimant's lease lapsed.
ClaimQuest(q, r) ==
    /\ Free(q)
    /\ Epoch(q) < MaxClaims
    /\ attempts' = [attempts EXCEPT ![q] =
                       Append(Retired(q), [room |-> r, state |-> "active", lapsed |-> FALSE])]
    /\ quest' = [quest EXCEPT ![q].state = "claimed"]
    /\ UNCHANGED judged

\* quest_report Submit, by the hand that claimed epoch n.  A Progress differs
\* in nothing the model keeps: the renewed lease is one that has not lapsed.
SubmitQuest(q, n) ==
    /\ n = Epoch(q)
    /\ attempts[q][n].state = "active" /\ ~attempts[q][n].lapsed
    /\ quest[q].state = "claimed"
    /\ quest' = [quest EXCEPT ![q].state = "submitted"]
    /\ attempts' = [attempts EXCEPT ![q][n].state = "yielded"]
    /\ UNCHANGED judged

Fresh(c) == quest[c].state = "absent"

\* rearm_recurrent_quest: a quest without a deadline is re-armed from now.
Rearmed(q) ==
    {[state |-> "offered", recurs |-> TRUE, parent |-> q, deadline |-> d] : d \in {"far", "near"}}

Accepted(q, items) == \A i \in Items : items[i].verdict = "met"
MayJudge(q, r) ==
    /\ quest[q].state = "submitted" /\ Hand(q).state = "yielded"
    /\ r # Hand(q).room

\* quest_report SettleItem by a room other than the claimant's; the last
\* accepted item settles the quest and re-arms it.
SettleItem(q, i, r, verdict) ==
    LET items == [judged[q] EXCEPT ![i] = [verdict |-> verdict, by |-> r]] IN
    /\ MayJudge(q, r)
    /\ judged[q][i].verdict = "pending"
    /\ judged' = [judged EXCEPT ![q] = items]
    /\ \/ /\ ~Accepted(q, items)
          /\ UNCHANGED quest
       \/ /\ Accepted(q, items) /\ ~quest[q].recurs
          /\ quest' = [quest EXCEPT ![q].state = "settled"]
       \/ /\ Accepted(q, items) /\ quest[q].recurs
          /\ \E c \in Quests : \E child \in Rearmed(q) :
                /\ Fresh(c)
                /\ quest' = [quest EXCEPT ![q].state = "settled", ![c] = child]
    /\ UNCHANGED attempts

QuestLeaseLapses(q) ==
    /\ Epoch(q) > 0 /\ ~Hand(q).lapsed
    /\ attempts' = [attempts EXCEPT ![q][Epoch(q)].lapsed = TRUE]
    /\ UNCHANGED <<quest, judged>>

DeadlineNears(q) ==
    /\ quest[q].deadline = "far"
    /\ quest[q].state # "draft"
    /\ quest' = [quest EXCEPT ![q].deadline = "near"]
    /\ UNCHANGED <<attempts, judged>>

DocketNext ==
    \E q \in Quests :
       \/ DraftQuest(q)
       \/ ActivateQuest(q)
       \/ \E r \in Rooms : ClaimQuest(q, r)
       \/ \E n \in 1..Epoch(q) : SubmitQuest(q, n)
       \/ \E i \in Items, r \in Rooms, v \in Verdicts : SettleItem(q, i, r, v)
       \/ QuestLeaseLapses(q)
       \/ DeadlineNears(q)

DocketSpec == DocketInit /\ [][DocketNext]_docketVars

----------------------------------------------------------------------------
DocketTypeOK ==
    /\ quest \in [Quests -> [state : QuestStates, recurs : BOOLEAN, deadline : Deadlines,
                             parent : Quests \cup {NoQuest}]]
    /\ \A q \in Quests :
          /\ Epoch(q) <= MaxClaims
          /\ attempts[q] \in Seq([room : Rooms, state : {"active", "yielded", "reclaimed"},
                                  lapsed : BOOLEAN])
    /\ judged \in [Quests -> [Items -> [verdict : Verdicts \cup {"pending"},
                                        by : Rooms \cup {NoRoom}]]]

\* Nobody judges work of their own: whatever claims, lapses and reclaims came
\* before, the room that gave a verdict is not the room of the quest's last
\* claim.
JudgedByOthers ==
    \A q \in Quests, i \in Items :
       judged[q][i].verdict # "pending" =>
          Epoch(q) > 0 /\ judged[q][i].by # Hand(q).room

\* A quest has one hand at most: only the latest attempt is active or yielded,
\* and it is what the board says it is.
OneHand ==
    \A q \in Quests :
       /\ \A n \in 1..Epoch(q) : attempts[q][n].state # "reclaimed" <=> n = Epoch(q)
       /\ quest[q].state = "claimed" => Hand(q).state = "active"
       /\ quest[q].state \in {"submitted", "settled"} => Hand(q).state = "yielded"

\* A recurring quest neither dies nor forks: once settled it has exactly one
\* next occurrence, and that one has a deadline for the clock to see.
RecurrenceLives ==
    \A q \in Quests :
       quest[q].recurs /\ quest[q].state = "settled" =>
          \E c \in Quests : /\ {d \in Quests : quest[d].parent = q} = {c}
                            /\ quest[c].deadline # "none"
=============================================================================
