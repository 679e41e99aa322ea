---------------------------- MODULE DocketProofs ----------------------------
(* Theorems about the Docket and its clock, for every set of quests, rooms   *)
(* and items, every bound and every number of sweeps.                        *)
EXTENDS DocketClock, SequenceTheorems, TLAPS

-----------------------------------------------------------------------------
(* One quest: its row, the hands that claimed it, and its verdicts.         *)

Row == [state : QuestStates, recurs : BOOLEAN, deadline : Deadlines,
        parent : Quests \cup {NoQuest}]
Attempt == [room : Rooms, state : {"active", "yielded", "reclaimed"}, lapsed : BOOLEAN]
Verdict == [verdict : Verdicts \cup {"pending"}, by : Rooms \cup {NoRoom}]

Last(hands) == hands[Len(hands)]

\* Only the last hand of a quest is on it, and it is what the board says.
Held(row, hands) ==
    /\ \A n \in 1..Len(hands) : hands[n].state # "reclaimed" <=> n = Len(hands)
    /\ row.state \in {"absent", "draft", "offered"} => Len(hands) = 0
    /\ row.state \in {"claimed", "submitted", "settled"} => Len(hands) > 0
    /\ row.state = "claimed" => Last(hands).state = "active"
    /\ row.state \in {"submitted", "settled"} => Last(hands).state = "yielded"

\* A verdict is given on submitted work, by another room than its hand's.
Judged(row, hands, items) ==
    \A i \in Items : items[i].verdict # "pending" =>
       row.state \in {"submitted", "settled"} /\ items[i].by # Last(hands).room

Sound(row, hands, items) ==
    /\ row \in Row /\ hands \in Seq(Attempt) /\ Len(hands) <= MaxClaims
    /\ items \in [Items -> Verdict]
    /\ Held(row, hands) /\ Judged(row, hands, items)

QuestOf(q) == <<quest[q], attempts[q], judged[q]>>
BoardTypes ==
    /\ quest \in [Quests -> Row]
    /\ attempts \in [Quests -> Seq(Attempt)]
    /\ judged \in [Quests -> [Items -> Verdict]]
BoardInv == BoardTypes /\ \A q \in Quests : Sound(quest[q], attempts[q], judged[q])

\* The last of a quest's hands is an attempt of some room.
LEMMA LastIsAnAttempt ==
  ASSUME NEW hands \in Seq(Attempt), Len(hands) > 0
  PROVE  Len(hands) \in 1..Len(hands) /\ Last(hands) \in Attempt
<1>1. Len(hands) \in Nat /\ Len(hands) \in 1..Len(hands)
  BY LenProperties
<1> QED
  BY <1>1, ElementOfSeq DEF Last

\* No quest exists before one is drafted, so nobody holds or judges one.
LEMMA BoardStarts == DocketInit => BoardInv
<1> SUFFICES ASSUME DocketInit PROVE BoardInv
  OBVIOUS
<1>1. NoOccurrence \in Row /\ Unjudged \in [Items -> Verdict]
  BY DEF NoOccurrence, Unjudged, Row, Verdict, QuestStates, Deadlines
<1>2. <<>> \in Seq(Attempt) /\ Len(<<>>) = 0
  BY EmptySeq
<1>3. BoardTypes
  BY <1>1, <1>2 DEF DocketInit, BoardTypes
<1>4. Sound(NoOccurrence, <<>>, Unjudged)
  BY <1>1, <1>2, DocketAssumption DEF Sound, Held, Judged, NoOccurrence, Unjudged
<1> QED
  BY <1>3, <1>4 DEF DocketInit, BoardInv

-----------------------------------------------------------------------------
(* What each door writes.                                                    *)

\* One quest becomes sound under another row, other hands, other verdicts, and
\* the rest of the board is left alone.
Writes(q, row, hands, items) ==
    /\ quest' = [quest EXCEPT ![q] = row]
    /\ attempts' = [attempts EXCEPT ![q] = hands]
    /\ judged' = [judged EXCEPT ![q] = items]

\* A door that writes one quest soundly keeps the board's invariant.
LEMMA WriteKeeps ==
  ASSUME BoardInv, NEW q \in Quests, NEW row, NEW hands, NEW items,
         Sound(row, hands, items), Writes(q, row, hands, items)
  PROVE  BoardInv'
<1>1. BoardTypes'
  BY DEF BoardInv, BoardTypes, Writes, Sound
<1>2. \A d \in Quests :
         /\ quest'[d] = IF d = q THEN row ELSE quest[d]
         /\ attempts'[d] = IF d = q THEN hands ELSE attempts[d]
         /\ judged'[d] = IF d = q THEN items ELSE judged[d]
  BY DEF BoardInv, BoardTypes, Writes
<1>3. \A d \in Quests : Sound(quest'[d], attempts'[d], judged'[d])
  BY <1>2 DEF BoardInv
<1>4. ASSUME NEW d \in Quests PROVE Sound(quest[d], attempts[d], judged[d])'
  BY <1>3
<1> QED
  BY <1>1, <1>4 DEF BoardInv

\* A draft has no hand and no verdict.
LEMMA DraftKeeps == ASSUME BoardInv, NEW q \in Quests, DraftQuest(q) PROVE BoardInv'
<1>1. PICK recurs \in BOOLEAN, deadline \in {"none", "far"} :
        quest' = [quest EXCEPT ![q] = [NoOccurrence EXCEPT !.state = "draft",
                                                           !.recurs = recurs,
                                                           !.deadline = deadline]]
  BY DEF DraftQuest
<1> DEFINE row == [NoOccurrence EXCEPT !.state = "draft", !.recurs = recurs,
                                       !.deadline = deadline]
<1>2. row \in Row /\ row.state = "draft"
  BY DEF NoOccurrence, Row, QuestStates, Deadlines
<1>3. quest[q].state = "absent" /\ UNCHANGED <<attempts, judged>>
  BY DEF DraftQuest
<1>4. Writes(q, row, attempts[q], judged[q])
  BY <1>1, <1>3 DEF Writes, BoardInv, BoardTypes
<1> HIDE DEF row
<1>5. Sound(row, attempts[q], judged[q])
  BY <1>2, <1>3 DEF BoardInv, Sound, Held, Judged
<1> QED
  BY <1>4, <1>5, WriteKeeps

\* Activation puts a draft on the board as nobody's.
LEMMA ActivateKeeps == ASSUME BoardInv, NEW q \in Quests, ActivateQuest(q) PROVE BoardInv'
<1>1. PICK deadline \in {quest[q].deadline, "far"} :
        quest' = [quest EXCEPT ![q].state = "offered", ![q].deadline = deadline]
  BY DEF ActivateQuest
<1> DEFINE row == [quest[q] EXCEPT !.state = "offered", !.deadline = deadline]
<1>2. row \in Row /\ row.state = "offered"
  BY DEF BoardInv, BoardTypes, Row, QuestStates, LiveStates, Deadlines
<1>3. quest[q].state = "draft" /\ UNCHANGED <<attempts, judged>>
  BY DEF ActivateQuest
<1>4. Writes(q, row, attempts[q], judged[q])
  BY <1>1, <1>3 DEF Writes, BoardInv, BoardTypes
<1> HIDE DEF row
<1>5. Sound(row, attempts[q], judged[q])
  BY <1>2, <1>3 DEF BoardInv, Sound, Held, Judged
<1> QED
  BY <1>4, <1>5, WriteKeeps

\* What a claim leaves of the hands before it: as many, and none of them on the
\* quest, when the quest was free.
LEMMA RetiredHands ==
  ASSUME BoardInv, NEW q \in Quests, Free(q)
  PROVE  /\ Retired(q) \in Seq(Attempt)
         /\ Len(Retired(q)) = Epoch(q)
         /\ \A n \in 1..Epoch(q) : Retired(q)[n].state = "reclaimed"
<1> DEFINE hands == attempts[q]
           e(n) == IF hands[n].state = "active"
                   THEN [hands[n] EXCEPT !.state = "reclaimed"] ELSE hands[n]
<1>1. hands \in Seq(Attempt) /\ Held(quest[q], hands) /\ Epoch(q) = Len(hands)
  BY DEF BoardInv, Sound, Epoch
<1>2. Len(hands) \in Nat
  BY <1>1, LenProperties
<1>3. \A n \in 1..Len(hands) : hands[n] \in Attempt
  BY <1>1, ElementOfSeq
<1>4. \A n \in 1..Len(hands) : e(n) \in Attempt
  BY <1>3 DEF Attempt
<1>5. Retired(q) = [n \in 1..Len(hands) |-> e(n)]
  BY <1>1 DEF Retired
<1>6. Retired(q) \in Seq(Attempt) /\ Len(Retired(q)) = Len(hands)
  BY <1>2, <1>4, <1>5
<1>7. ASSUME NEW n \in 1..Len(hands) PROVE Retired(q)[n].state = "reclaimed"
  <2>1. Retired(q)[n] = e(n)
    BY <1>5
  <2>2. CASE hands[n].state = "reclaimed"
    BY <2>1, <2>2
  <2>3. CASE hands[n].state # "reclaimed"
    <3>1. n = Len(hands) /\ Len(hands) > 0
      BY <1>1, <1>2, <2>3 DEF Held
    <3>2. hands[n].state = "active"
      BY <1>1, <3>1 DEF Free, Held, Hand
    <3> QED
      BY <1>3, <2>1, <3>2 DEF Attempt
  <2> QED
    BY <2>2, <2>3
<1> QED
  BY <1>1, <1>6, <1>7

\* A claim adds one hand, the only one on the quest; nothing is judged yet.
LEMMA ClaimKeeps ==
  ASSUME BoardInv, NEW q \in Quests, NEW r \in Rooms, ClaimQuest(q, r)
  PROVE  BoardInv'
<1> DEFINE hand == [room |-> r, state |-> "active", lapsed |-> FALSE]
           hands == Append(Retired(q), hand)
           row == [quest[q] EXCEPT !.state = "claimed"]
<1>1. Free(q) /\ Epoch(q) < MaxClaims
  BY DEF ClaimQuest
<1>2. /\ Retired(q) \in Seq(Attempt) /\ Len(Retired(q)) = Epoch(q)
      /\ \A n \in 1..Epoch(q) : Retired(q)[n].state = "reclaimed"
  BY <1>1, RetiredHands
<1>3. hand \in Attempt /\ hand.state = "active"
  BY DEF Attempt
<1>4. Epoch(q) \in Nat
  BY <1>2, LenProperties
<1> HIDE DEF hand
<1>5. /\ hands \in Seq(Attempt) /\ Len(hands) = Epoch(q) + 1
      /\ hands[Epoch(q) + 1] = hand
      /\ \A n \in 1..Epoch(q) : hands[n] = Retired(q)[n]
  BY <1>2, <1>3, <1>4
<1>6. row \in Row /\ row.state = "claimed"
  BY DEF BoardInv, BoardTypes, Row, QuestStates, LiveStates
<1>7. \A i \in Items : judged[q][i].verdict = "pending"
  BY <1>1 DEF BoardInv, Sound, Judged, Free
<1>8. quest' = [quest EXCEPT ![q] = row] /\ attempts' = [attempts EXCEPT ![q] = hands]
      /\ judged' = judged
  BY DEF ClaimQuest, hand
<1>9. Writes(q, row, hands, judged[q])
  BY <1>8 DEF Writes, BoardInv, BoardTypes
<1> HIDE DEF hands, row
<1>10. Len(hands) <= MaxClaims
  BY <1>1, <1>4, <1>5, DocketAssumption
<1>11. Held(row, hands)
  <2>1. \A n \in 1..Len(hands) : hands[n].state # "reclaimed" <=> n = Len(hands)
    BY <1>2, <1>3, <1>4, <1>5
  <2> QED
    BY <1>3, <1>4, <1>5, <1>6, <2>1 DEF Held, Last
<1>12. Sound(row, hands, judged[q])
  BY <1>5, <1>6, <1>7, <1>10, <1>11 DEF Sound, Judged, BoardInv
<1> QED
  BY <1>9, <1>12, WriteKeeps

\* Another attempt in the last place, of the same room, for one that was there.
LEMMA LastHandChanges ==
  ASSUME NEW hands \in Seq(Attempt), Len(hands) > 0, NEW hand \in Attempt,
         hand.room = Last(hands).room
  PROVE  LET new == [hands EXCEPT ![Len(hands)] = hand] IN
         /\ new \in Seq(Attempt) /\ Len(new) = Len(hands) /\ Last(new) = hand
         /\ \A n \in 1..Len(hands) : n # Len(hands) => new[n] = hands[n]
<1>1. Len(hands) \in 1..Len(hands)
  BY LastIsAnAttempt
<1> QED
  BY <1>1, ExceptSeq DEF Last

\* Work is submitted by the hand that is on the quest, and the hand yields.
LEMMA SubmitKeeps ==
  ASSUME BoardInv, NEW q \in Quests, NEW n \in 1..Epoch(q), SubmitQuest(q, n)
  PROVE  BoardInv'
<1> DEFINE hands == attempts[q]
           hand == [Last(hands) EXCEPT !.state = "yielded"]
           new == [hands EXCEPT ![Len(hands)] = hand]
           row == [quest[q] EXCEPT !.state = "submitted"]
<1>1. hands \in Seq(Attempt) /\ Held(quest[q], hands) /\ Len(hands) <= MaxClaims
  BY DEF BoardInv, Sound
<1>2. n = Len(hands) /\ quest[q].state = "claimed" /\ Len(hands) > 0
  BY <1>1 DEF SubmitQuest, Epoch, Held
<1>3. Last(hands) \in Attempt
  BY <1>1, <1>2, LastIsAnAttempt
<1>4. hand \in Attempt /\ hand.room = Last(hands).room /\ hand.state = "yielded"
  BY <1>3 DEF Attempt
<1>5. row \in Row /\ row.state = "submitted"
  BY DEF BoardInv, BoardTypes, Row, QuestStates, LiveStates
<1>6. Writes(q, row, new, judged[q])
  BY <1>2 DEF Writes, SubmitQuest, Last, BoardInv, BoardTypes
<1> HIDE DEF hand, hands
<1>7. /\ new \in Seq(Attempt) /\ Len(new) = Len(hands) /\ Last(new) = hand
      /\ \A m \in 1..Len(hands) : m # Len(hands) => new[m] = hands[m]
  BY <1>1, <1>2, <1>4, LastHandChanges
<1>8. \A i \in Items : judged[q][i].verdict = "pending"
  BY <1>2 DEF BoardInv, Sound, Judged
<1> HIDE DEF new, row
<1>9. Held(row, new)
  BY <1>1, <1>2, <1>4, <1>5, <1>7 DEF Held, Last
<1>10. Sound(row, new, judged[q])
  BY <1>1, <1>5, <1>7, <1>8, <1>9 DEF Sound, Judged, BoardInv
<1> QED
  BY <1>6, <1>10, WriteKeeps

\* A lease that lapses leaves its hand on the quest.
LEMMA LapseKeeps == ASSUME BoardInv, NEW q \in Quests, QuestLeaseLapses(q) PROVE BoardInv'
<1> DEFINE hands == attempts[q]
           hand == [Last(hands) EXCEPT !.lapsed = TRUE]
           new == [hands EXCEPT ![Len(hands)] = hand]
<1>1. /\ hands \in Seq(Attempt) /\ Held(quest[q], hands) /\ Len(hands) <= MaxClaims
      /\ Len(hands) > 0 /\ quest[q] \in Row
  BY DEF BoardInv, Sound, QuestLeaseLapses, Epoch
<1>2. Last(hands) \in Attempt
  BY <1>1, LastIsAnAttempt
<1>3. hand \in Attempt /\ hand.room = Last(hands).room /\ hand.state = Last(hands).state
  BY <1>2 DEF Attempt
<1>4. Writes(q, quest[q], new, judged[q])
  BY DEF Writes, QuestLeaseLapses, Last, Epoch, BoardInv, BoardTypes
<1> HIDE DEF hand, hands
<1>5. /\ new \in Seq(Attempt) /\ Len(new) = Len(hands) /\ Last(new) = hand
      /\ \A m \in 1..Len(hands) : m # Len(hands) => new[m] = hands[m]
  BY <1>1, <1>3, LastHandChanges
<1>6. Held(quest[q], new)
  BY <1>1, <1>3, <1>5 DEF Held, Last
<1>7. Judged(quest[q], new, judged[q])
  BY <1>3, <1>5 DEF BoardInv, Sound, Judged, hands
<1> HIDE DEF new
<1>8. Sound(quest[q], new, judged[q])
  BY <1>1, <1>5, <1>6, <1>7 DEF Sound, BoardInv
<1> QED
  BY <1>4, <1>8, WriteKeeps

\* The clock moves a deadline and nothing else of the quest.
LEMMA DeadlineKeeps == ASSUME BoardInv, NEW q \in Quests, DeadlineNears(q) PROVE BoardInv'
<1> DEFINE row == [quest[q] EXCEPT !.deadline = "near"]
<1>1. row \in Row /\ row.state = quest[q].state
  BY DEF BoardInv, BoardTypes, Row, Deadlines
<1>2. Writes(q, row, attempts[q], judged[q])
  BY DEF Writes, DeadlineNears, BoardInv, BoardTypes
<1> HIDE DEF row
<1>3. Sound(row, attempts[q], judged[q])
  BY <1>1 DEF Sound, Held, Judged, BoardInv
<1> QED
  BY <1>2, <1>3, WriteKeeps

\* A verdict is another room's; the last one settles the quest, and a recurring
\* quest leaves a next occurrence that nobody has claimed.
LEMMA SettleKeeps ==
  ASSUME BoardInv, NEW q \in Quests, NEW i \in Items, NEW r \in Rooms,
         NEW verdict \in Verdicts, SettleItem(q, i, r, verdict)
  PROVE  BoardInv'
<1> DEFINE item == [verdict |-> verdict, by |-> r]
           items == [judged[q] EXCEPT ![i] = item]
           row == [quest[q] EXCEPT !.state = "settled"]
<1>1. /\ quest[q].state = "submitted" /\ r # Last(attempts[q]).room
      /\ judged' = [judged EXCEPT ![q] = items] /\ UNCHANGED attempts
  BY DEF SettleItem, MayJudge, Hand, Last, Epoch
<1>2. Sound(quest[q], attempts[q], judged[q]) /\ quest[q] \in Row
  BY DEF BoardInv, Sound
<1>3. item \in Verdict /\ item.by = r
  BY DEF Verdict
<1>4. /\ items \in [Items -> Verdict]
      /\ \A j \in Items : items[j] = IF j = i THEN item ELSE judged[q][j]
  BY <1>2, <1>3 DEF Sound
<1>5. row \in Row /\ row.state = "settled"
  BY <1>2 DEF Row, QuestStates
<1>6. \/ UNCHANGED quest
      \/ quest' = [quest EXCEPT ![q] = row]
      \/ \E c \in Quests : \E child \in Rearmed(q) :
            Fresh(c) /\ quest' = [quest EXCEPT ![q] = row, ![c] = child]
  BY DEF SettleItem
<1> HIDE DEF item, items, row
<1>7. Sound(quest[q], attempts[q], items) /\ Sound(row, attempts[q], items)
  BY <1>1, <1>2, <1>3, <1>4, <1>5 DEF Sound, Held, Judged
<1>8. CASE UNCHANGED quest
  <2>1. Writes(q, quest[q], attempts[q], items)
    BY <1>1, <1>8 DEF Writes, BoardInv, BoardTypes
  <2> QED
    BY <1>7, <2>1, WriteKeeps
<1>9. CASE quest' = [quest EXCEPT ![q] = row]
  <2>1. Writes(q, row, attempts[q], items)
    BY <1>1, <1>9 DEF Writes, BoardInv, BoardTypes
  <2> QED
    BY <1>7, <2>1, WriteKeeps
<1>10. ASSUME NEW c \in Quests, NEW child \in Rearmed(q), Fresh(c),
              quest' = [quest EXCEPT ![q] = row, ![c] = child]
       PROVE  BoardInv'
  <2>1. c # q /\ quest[c].state = "absent"
    BY <1>1, <1>10 DEF Fresh
  <2>2. child \in Row /\ child.state = "offered"
    <3>1. PICK d \in {"far", "near"} :
             child = [state |-> "offered", recurs |-> TRUE, parent |-> q, deadline |-> d]
      BY DEF Rearmed
    <3> QED
      BY <3>1 DEF Row, QuestStates, LiveStates, Deadlines
  <2>3. Sound(child, attempts[c], judged[c])
    BY <2>1, <2>2 DEF BoardInv, Sound, Held, Judged
  <2>4. \A d \in Quests :
           /\ quest'[d] = IF d = q THEN row ELSE IF d = c THEN child ELSE quest[d]
           /\ attempts'[d] = attempts[d]
           /\ judged'[d] = IF d = q THEN items ELSE judged[d]
    BY <1>1, <1>10, <2>1 DEF BoardInv, BoardTypes
  <2>5. BoardTypes'
    BY <1>1, <1>4, <1>5, <1>10, <2>2 DEF BoardInv, BoardTypes
  <2>6. \A d \in Quests : Sound(quest'[d], attempts'[d], judged'[d])
    BY <1>7, <2>1, <2>3, <2>4 DEF BoardInv
  <2>7. ASSUME NEW d \in Quests PROVE Sound(quest[d], attempts[d], judged[d])'
    BY <2>6
  <2> QED
    BY <2>5, <2>7 DEF BoardInv
<1> QED
  BY <1>6, <1>8, <1>9, <1>10

\* Every door of the Docket and every move of its clock keeps the board sound.
LEMMA BoardStep == ASSUME BoardInv, [DocketNext]_docketVars PROVE BoardInv'
<1>1. CASE UNCHANGED docketVars
  BY <1>1 DEF docketVars, BoardInv, BoardTypes
<1>2. CASE DocketNext
  BY <1>2, DraftKeeps, ActivateKeeps, ClaimKeeps, SubmitKeeps, SettleKeeps, LapseKeeps,
     DeadlineKeeps DEF DocketNext
<1> QED
  BY <1>1, <1>2

\* In every behaviour of the Docket the board is sound.
LEMMA BoardInvariant == DocketSpec => []BoardInv
  BY BoardStarts, BoardStep, PTL DEF DocketSpec

\* The parts of the board's invariant, as its properties state them.
LEMMA BoardMeans == ASSUME BoardInv PROVE DocketTypeOK /\ OneHand /\ JudgedByOthers
<1>1. DocketTypeOK
  BY DEF BoardInv, BoardTypes, Sound, DocketTypeOK, Row, Attempt, Verdict, Epoch
<1>2. OneHand
  BY DEF BoardInv, Sound, Held, OneHand, Hand, Last, Epoch
<1>3. JudgedByOthers
  BY DEF BoardInv, Sound, Held, Judged, JudgedByOthers, Hand, Last, Epoch
<1> QED
  BY <1>1, <1>2, <1>3

\* A quest has one hand at most: whatever claims, lapses and reclaims, only the
\* latest attempt is active or yielded, and it is what the board says it is.
THEOREM QuestHasOneHand == DocketSpec => []OneHand
<1>1. BoardInv => OneHand
  BY BoardMeans
<1> QED
  BY <1>1, BoardInvariant, PTL

\* Nobody judges work of their own: the room that gave a verdict is not the room
\* of the quest's last claim, whoever held the quest before.
THEOREM NobodyJudgesTheirOwn == DocketSpec => []JudgedByOthers
<1>1. BoardInv => JudgedByOthers
  BY BoardMeans
<1> QED
  BY <1>1, BoardInvariant, PTL

-----------------------------------------------------------------------------
(* Recurrence: a settled recurring quest and its next occurrence.            *)

Descends ==
    /\ \A d \in Quests :
          /\ quest[d].state \in {"absent", "draft"} => quest[d].parent = NoQuest
          /\ quest[d].parent # NoQuest => quest[d].deadline # "none"
    /\ \A q, d \in Quests :
          quest[d].parent = q => quest[q].recurs /\ quest[q].state = "settled"
    /\ \A q, c, d \in Quests : quest[c].parent = q /\ quest[d].parent = q => c = d
    /\ \A q \in Quests :
          quest[q].recurs /\ quest[q].state = "settled" =>
             \E c \in Quests : quest[c].parent = q

\* No quest exists, so none descends from another.
LEMMA DescentStarts == DocketInit => Descends
<1> SUFFICES ASSUME DocketInit PROVE Descends
  OBVIOUS
<1>1. \A q \in Quests : quest[q] = NoOccurrence
  BY DEF DocketInit
<1> QED
  BY <1>1, DocketAssumption DEF Descends, NoOccurrence

\* A quest that changes without settling, and keeps its parent, changes nobody's
\* descent.
LEMMA DescentKept ==
  ASSUME BoardTypes, Descends, NEW q \in Quests, NEW row \in Row,
         quest' = [quest EXCEPT ![q] = row],
         quest[q].state # "settled", row.state # "settled" \/ ~row.recurs,
         row.parent = quest[q].parent,
         row.state \in {"absent", "draft"} => quest[q].state \in {"absent", "draft"},
         row.deadline = "none" => quest[q].deadline = "none"
  PROVE  Descends'
<1>1. \A d \in Quests : quest'[d] = IF d = q THEN row ELSE quest[d]
  BY DEF BoardTypes
<1>2. \A d \in Quests : quest'[d].parent = quest[d].parent
  BY <1>1
<1>3. \A d \in Quests :
         /\ quest'[d].state \in {"absent", "draft"} => quest'[d].parent = NoQuest
         /\ quest'[d].parent # NoQuest => quest'[d].deadline # "none"
  BY <1>1, <1>2 DEF Descends
<1>4. \A d \in Quests : quest[d].parent # q
  BY DEF Descends
<1>5. \A p, d \in Quests :
         quest'[d].parent = p => quest'[p].recurs /\ quest'[p].state = "settled"
  BY <1>1, <1>2, <1>4 DEF Descends
<1>6. \A p \in Quests :
         quest'[p].recurs /\ quest'[p].state = "settled" =>
            \E c \in Quests : quest'[c].parent = p
  BY <1>1, <1>2 DEF Descends
<1>7. \A p, c, d \in Quests : quest'[c].parent = p /\ quest'[d].parent = p => c = d
  BY <1>2 DEF Descends
<1> QED
  BY <1>3, <1>5, <1>6, <1>7 DEF Descends

\* The settlement of a recurring quest makes the one next occurrence it has.
LEMMA DescentGrows ==
  ASSUME BoardTypes, Descends, NEW q \in Quests, NEW c \in Quests, NEW child \in Rearmed(q),
         quest[q].state = "submitted", quest[q].recurs, Fresh(c),
         quest' = [quest EXCEPT ![q].state = "settled", ![c] = child]
  PROVE  Descends'
<1>1. PICK deadline \in {"far", "near"} :
         child = [state |-> "offered", recurs |-> TRUE, parent |-> q, deadline |-> deadline]
  BY DEF Rearmed
<1>2. c # q /\ q # NoQuest /\ quest[c].parent = NoQuest
  BY DocketAssumption DEF Fresh, Descends
<1>3. child.state = "offered" /\ child.parent = q /\ child.deadline # "none"
  BY <1>1
<1>4. /\ quest'[c] = child
      /\ \A d \in Quests : d # q /\ d # c => quest'[d] = quest[d]
  BY <1>2 DEF BoardTypes
<1>5. /\ quest'[q].state = "settled" /\ quest'[q].recurs
      /\ quest'[q].parent = quest[q].parent /\ quest'[q].deadline = quest[q].deadline
  <2>1. quest'[q] = [quest[q] EXCEPT !.state = "settled"]
    BY <1>2 DEF BoardTypes
  <2> QED
    BY <2>1 DEF BoardTypes, Row
<1>6. /\ quest'[c].parent = q
      /\ \A d \in Quests : d # c => quest'[d].parent = quest[d].parent
  BY <1>2, <1>3, <1>4, <1>5
<1>7. \A d \in Quests : quest[d].parent # q /\ quest[d].parent # c
  BY DEF Descends, Fresh
<1>8. \A d \in Quests :
         /\ quest'[d].state \in {"absent", "draft"} => quest'[d].parent = NoQuest
         /\ quest'[d].parent # NoQuest => quest'[d].deadline # "none"
  <2> SUFFICES ASSUME NEW d \in Quests
               PROVE  /\ quest'[d].state \in {"absent", "draft"} => quest'[d].parent = NoQuest
                      /\ quest'[d].parent # NoQuest => quest'[d].deadline # "none"
    OBVIOUS
  <2>1. CASE d = c
    BY <1>3, <1>4, <2>1
  <2>2. CASE d = q
    <3>1. quest[q].parent # NoQuest => quest[q].deadline # "none"
      BY DEF Descends
    <3> QED
      BY <1>5, <2>2, <3>1
  <2>3. CASE d # c /\ d # q
    <3>1. quest'[d] = quest[d]
      BY <1>4, <2>3
    <3>2. /\ quest[d].state \in {"absent", "draft"} => quest[d].parent = NoQuest
          /\ quest[d].parent # NoQuest => quest[d].deadline # "none"
      BY DEF Descends
    <3> QED
      BY <3>1, <3>2
  <2> QED
    BY <2>1, <2>2, <2>3
<1>9. \A p, d \in Quests :
         quest'[d].parent = p => quest'[p].recurs /\ quest'[p].state = "settled"
  <2> SUFFICES ASSUME NEW p \in Quests, NEW d \in Quests, quest'[d].parent = p
               PROVE  quest'[p].recurs /\ quest'[p].state = "settled"
    OBVIOUS
  <2>1. CASE d = c
    BY <1>5, <1>6, <2>1
  <2>2. CASE d # c
    <3>1. quest[d].parent = p
      BY <1>6, <2>2
    <3>2. quest'[p] = quest[p]
      BY <1>4, <1>7, <3>1
    <3> QED
      BY <3>1, <3>2 DEF Descends
  <2> QED
    BY <2>1, <2>2
<1>10. \A p, a, b \in Quests : quest'[a].parent = p /\ quest'[b].parent = p => a = b
  BY <1>6, <1>7 DEF Descends
<1>11. \A p \in Quests :
         quest'[p].recurs /\ quest'[p].state = "settled" =>
            \E a \in Quests : quest'[a].parent = p
  <2> SUFFICES ASSUME NEW p \in Quests, quest'[p].recurs, quest'[p].state = "settled"
               PROVE  \E a \in Quests : quest'[a].parent = p
    OBVIOUS
  <2>1. CASE p = q
    BY <1>6, <2>1
  <2>2. CASE p # q
    <3>1. p # c
      BY <1>3, <1>4
    <3>2. PICK a \in Quests : quest[a].parent = p
      BY <1>4, <2>2, <3>1 DEF Descends
    <3>3. a # c
      BY <1>2, <3>2, DocketAssumption
    <3> QED
      BY <1>6, <3>2, <3>3
  <2> QED
    BY <2>1, <2>2
<1> QED
  BY <1>8, <1>9, <1>10, <1>11 DEF Descends

\* Every step of the Docket keeps what descends from what.
LEMMA DescentStep ==
  ASSUME BoardInv, Descends, [DocketNext]_docketVars PROVE Descends'
<1>1. BoardTypes /\ \A q \in Quests : quest[q] \in Row
  BY DEF BoardInv, BoardTypes
<1>2. CASE UNCHANGED quest
  BY <1>2 DEF Descends
<1>3. ASSUME NEW q \in Quests, DraftQuest(q) PROVE Descends'
  <2>1. PICK recurs \in BOOLEAN, deadline \in {"none", "far"} :
          quest' = [quest EXCEPT ![q] = [NoOccurrence EXCEPT !.state = "draft",
                                                             !.recurs = recurs,
                                                             !.deadline = deadline]]
    BY <1>3 DEF DraftQuest
  <2> DEFINE row == [NoOccurrence EXCEPT !.state = "draft", !.recurs = recurs,
                                         !.deadline = deadline]
  <2>2. row \in Row /\ row.state = "draft" /\ row.parent = NoQuest
    BY DEF NoOccurrence, Row, QuestStates, Deadlines
  <2>3. quest[q].state = "absent" /\ quest[q].parent = NoQuest
    BY <1>3 DEF DraftQuest, Descends
  <2>4. \A d \in Quests : quest'[d] = IF d = q THEN row ELSE quest[d]
    BY <1>1, <2>1 DEF BoardTypes
  <2> HIDE DEF row
  <2>5. \A d \in Quests : quest'[d].parent = quest[d].parent
    BY <2>2, <2>3, <2>4
  <2>6. \A d \in Quests : quest[d].parent # q
    BY <2>3 DEF Descends
  <2>7. \A d \in Quests :
           /\ quest'[d].state \in {"absent", "draft"} => quest'[d].parent = NoQuest
           /\ quest'[d].parent # NoQuest => quest'[d].deadline # "none"
    BY <2>2, <2>4 DEF Descends
  <2>8. \A p, d \in Quests :
           quest'[d].parent = p => quest'[p].recurs /\ quest'[p].state = "settled"
    BY <2>4, <2>5, <2>6 DEF Descends
  <2>9. \A p \in Quests :
           quest'[p].recurs /\ quest'[p].state = "settled" =>
              \E c \in Quests : quest'[c].parent = p
    BY <2>2, <2>4, <2>5 DEF Descends
  <2>10. \A p, c, d \in Quests : quest'[c].parent = p /\ quest'[d].parent = p => c = d
    BY <2>5 DEF Descends
  <2> QED
    BY <2>7, <2>8, <2>9, <2>10 DEF Descends
<1>4. ASSUME NEW q \in Quests, ActivateQuest(q) PROVE Descends'
  <2>1. PICK deadline \in {quest[q].deadline, "far"} :
          quest' = [quest EXCEPT ![q].state = "offered", ![q].deadline = deadline]
    BY <1>4 DEF ActivateQuest
  <2> DEFINE row == [quest[q] EXCEPT !.state = "offered", !.deadline = deadline]
  <2>2. /\ row \in Row /\ row.state = "offered" /\ row.parent = quest[q].parent
        /\ row.deadline = "none" => quest[q].deadline = "none"
    BY <1>1 DEF Row, QuestStates, LiveStates, Deadlines
  <2>3. quest' = [quest EXCEPT ![q] = row] /\ quest[q].state = "draft"
    BY <1>4, <2>1 DEF ActivateQuest
  <2> HIDE DEF row
  <2> QED
    BY <1>1, <2>2, <2>3, DescentKept
<1>5. ASSUME NEW q \in Quests, NEW state \in {"claimed", "submitted"},
             quest[q].state \in LiveStates,
             quest' = [quest EXCEPT ![q].state = state]
      PROVE  Descends'
  <2> DEFINE row == [quest[q] EXCEPT !.state = state]
  <2>1. /\ row \in Row /\ row.state = state /\ row.parent = quest[q].parent
        /\ row.deadline = quest[q].deadline
    BY <1>1 DEF Row, QuestStates, LiveStates
  <2>2. quest' = [quest EXCEPT ![q] = row] /\ quest[q].state # "settled"
    BY <1>5 DEF LiveStates
  <2> HIDE DEF row
  <2> QED
    BY <1>1, <2>1, <2>2, DescentKept
<1>6. ASSUME NEW q \in Quests, NEW r \in Rooms, ClaimQuest(q, r) PROVE Descends'
  BY <1>5, <1>6 DEF ClaimQuest, Free, LiveStates
<1>7. ASSUME NEW q \in Quests, NEW n \in 1..Epoch(q), SubmitQuest(q, n) PROVE Descends'
  BY <1>5, <1>7 DEF SubmitQuest, LiveStates
<1>8. ASSUME NEW q \in Quests, DeadlineNears(q) PROVE Descends'
  <2> DEFINE row == [quest[q] EXCEPT !.deadline = "near"]
  <2>1. /\ \A d \in Quests : quest'[d] = IF d = q THEN row ELSE quest[d]
        /\ quest[q].state # "draft"
    BY <1>1, <1>8 DEF DeadlineNears, BoardTypes
  <2>2. /\ row.state = quest[q].state /\ row.parent = quest[q].parent
        /\ row.recurs = quest[q].recurs /\ row.deadline = "near"
    BY <1>1 DEF Row
  <2> HIDE DEF row
  <2>3. \A d \in Quests : /\ quest'[d].state = quest[d].state
                          /\ quest'[d].parent = quest[d].parent
                          /\ quest'[d].recurs = quest[d].recurs
                          /\ quest'[d].deadline # quest[d].deadline =>
                                quest'[d].deadline = "near"
    BY <2>1, <2>2
  <2> QED
    BY <2>3 DEF Descends
<1>9. ASSUME NEW q \in Quests, NEW i \in Items, NEW r \in Rooms, NEW v \in Verdicts,
             SettleItem(q, i, r, v)
      PROVE  Descends'
  <2>1. quest[q].state = "submitted"
    BY <1>9 DEF SettleItem, MayJudge
  <2>2. CASE ~quest[q].recurs /\ quest' = [quest EXCEPT ![q].state = "settled"]
    <3> DEFINE row == [quest[q] EXCEPT !.state = "settled"]
    <3>1. /\ row \in Row /\ ~row.recurs /\ row.parent = quest[q].parent
          /\ row.deadline = quest[q].deadline /\ row.state = "settled"
      BY <1>1, <2>2 DEF Row, QuestStates
    <3>2. quest' = [quest EXCEPT ![q] = row]
      BY <2>2
    <3> HIDE DEF row
    <3> QED
      BY <1>1, <2>1, <3>1, <3>2, DescentKept
  <2>3. CASE /\ quest[q].recurs
             /\ \E c \in Quests : \E child \in Rearmed(q) :
                   /\ Fresh(c)
                   /\ quest' = [quest EXCEPT ![q].state = "settled", ![c] = child]
    BY <1>1, <2>1, <2>3, DescentGrows
  <2> QED
    BY <1>2, <1>9, <2>2, <2>3 DEF SettleItem
<1>10. ASSUME NEW q \in Quests, QuestLeaseLapses(q) PROVE Descends'
  BY <1>2, <1>10 DEF QuestLeaseLapses
<1>11. CASE UNCHANGED docketVars
  BY <1>2, <1>11 DEF docketVars
<1>12. CASE DocketNext
  BY <1>3, <1>4, <1>6, <1>7, <1>8, <1>9, <1>10, <1>12 DEF DocketNext
<1> QED
  BY <1>11, <1>12

\* A recurring quest neither dies nor forks: once settled it has exactly one next
\* occurrence, and that one has a deadline for the clock to see.
THEOREM RecurrenceHasOneHeir == DocketSpec => []RecurrenceLives
<1>1. BoardInv /\ Descends /\ [DocketNext]_docketVars => (BoardInv /\ Descends)'
  BY BoardStep, DescentStep
<1>2. Descends => RecurrenceLives
  <2> SUFFICES ASSUME Descends, NEW q \in Quests, quest[q].recurs, quest[q].state = "settled"
               PROVE  \E c \in Quests : /\ {d \in Quests : quest[d].parent = q} = {c}
                                        /\ quest[c].deadline # "none"
    BY DEF RecurrenceLives
  <2>1. PICK c \in Quests : quest[c].parent = q
    BY DEF Descends
  <2>2. {d \in Quests : quest[d].parent = q} = {c}
    BY <2>1 DEF Descends
  <2>3. quest[c].deadline # "none"
    BY <2>1, DocketAssumption DEF Descends
  <2> QED
    BY <2>2, <2>3
<1> QED
  BY <1>1, <1>2, BoardStarts, DescentStarts, PTL DEF DocketSpec

-----------------------------------------------------------------------------
(* The clock: what a sweep has read, and what it has rung.                   *)

Busy == {"looked", "ring", "ping"}

Call == [at : {"rest"} \cup Busy,
         due : UNION {[D -> [state : LiveStates, room : Rooms \cup {Poster}]] : D \in SUBSET Quests},
         new : SUBSET Quests]

\* A sweep rings of what it read alone, and once its bell is rung the hallway
\* holds that bell.
SweepsTell ==
    \A s \in Sweepers : /\ sweep[s].new \subseteq DOMAIN sweep[s].due
                        /\ sweep[s].at \in {"rest", "looked"} => sweep[s].new = {}
                        /\ sweep[s].at = "ping" => Ring(s) \in rings

\* A bell tells what was live when its sweep looked.
RingsTell ==
    \A r \in rings : /\ r.key \subseteq Quests /\ DOMAIN r.says = r.key
                     /\ \A q \in r.key : r.says[q].state \in LiveStates

ClockInv ==
    /\ sweep \in [Sweepers -> Call]
    /\ SweepsTell /\ RingsTell /\ PingedWasRung /\ OneRingPerSet
    /\ pinged \subseteq Quests /\ torn \in 0..MaxTorn

\* What a call has read of the quests due: typed, and of live quests.
LEMMA DueIsLive ==
  ASSUME NEW call \in Call
  PROVE  /\ DOMAIN call.due \subseteq Quests
         /\ \A q \in DOMAIN call.due : call.due[q].state \in LiveStates
<1>1. PICK D \in SUBSET Quests : call.due \in [D -> [state : LiveStates,
                                                      room : Rooms \cup {Poster}]]
  BY DEF Call
<1> QED
  BY <1>1

\* A call at rest has read nothing.
LEMMA RestIsACall == AtRest \in Call /\ AtRest.new = {} /\ AtRest.at = "rest"
<1>1. <<>> \in [{} -> [state : LiveStates, room : Rooms \cup {Poster}]]
  OBVIOUS
<1>2. {} \in SUBSET Quests
  OBVIOUS
<1>3. <<>> \in UNION {[D -> [state : LiveStates, room : Rooms \cup {Poster}]] :
                        D \in SUBSET Quests}
  BY <1>1, <1>2
<1> QED
  BY <1>3 DEF AtRest, Call

\* No sweep is under way and nothing was rung.
LEMMA ClockStarts == ASSUME ClockInit PROVE ClockInv
  BY RestIsACall, ClockAssumption DEF ClockInit, ClockInv, SweepsTell, RingsTell, PingedWasRung, OneRingPerSet

\* A call that moves on, with the bells and the pings left as they are.
LEMMA CallMoves ==
  ASSUME ClockInv, NEW s \in Sweepers, NEW call \in Call,
         sweep' = [sweep EXCEPT ![s] = call],
         call.new \subseteq DOMAIN call.due, call.at # "ping",
         call.at \in {"rest", "looked"} => call.new = {},
         UNCHANGED <<rings, pinged>>, torn' \in 0..MaxTorn
  PROVE  ClockInv'
<1>1. /\ sweep' \in [Sweepers -> Call]
      /\ \A t \in Sweepers : sweep'[t] = IF t = s THEN call ELSE sweep[t]
  BY DEF ClockInv
<1>2. SweepsTell'
  <2> SUFFICES ASSUME NEW t \in Sweepers
               PROVE  /\ sweep'[t].new \subseteq DOMAIN sweep'[t].due
                      /\ sweep'[t].at \in {"rest", "looked"} => sweep'[t].new = {}
                      /\ sweep'[t].at = "ping" => Ring(t)' \in rings
    BY DEF SweepsTell
  <2>1. CASE t = s
    BY <1>1, <2>1
  <2>2. CASE t # s
    BY <1>1, <2>2 DEF ClockInv, SweepsTell, Ring
  <2> QED
    BY <2>1, <2>2
<1>3. RingsTell' /\ PingedWasRung' /\ OneRingPerSet'
  BY DEF ClockInv, RingsTell, PingedWasRung, OneRingPerSet
<1> QED
  BY <1>1, <1>2, <1>3 DEF ClockInv

\* One step of a sweep, torn or not, keeps what the clock knows.
LEMMA SweepKeeps ==
  ASSUME BoardInv, ClockInv, NEW s \in Sweepers, SweepStep(s) \/ TearSweep(s)
  PROVE  ClockInv'
<1> DEFINE call == sweep[s]
<1>1. /\ call \in Call /\ call.new \subseteq DOMAIN call.due
      /\ call.at = "ping" => Ring(s) \in rings
  BY DEF ClockInv, SweepsTell
<1>2. /\ DOMAIN call.due \subseteq Quests
      /\ \A q \in DOMAIN call.due : call.due[q].state \in LiveStates
  BY <1>1, DueIsLive
<1>3. /\ Ring(s).key = call.new
      /\ DOMAIN Ring(s).says = call.new
      /\ \A q \in call.new : Ring(s).says[q] = call.due[q]
  BY DEF Ring
<1>4. CASE LookAtBoard(s)
  <2> DEFINE due == [q \in {d \in Quests : Due(d)} |-> Told(q)]
             looked == [call EXCEPT !.at = "looked", !.due = due]
  <2>1. ASSUME NEW q \in {d \in Quests : Due(d)}
        PROVE  Told(q) \in [state : LiveStates, room : Rooms \cup {Poster}]
    <3>1. quest[q].state \in LiveStates
      BY <2>1 DEF Due
    <3>2. CASE quest[q].state = "offered"
      BY <3>1, <3>2 DEF Told
    <3>3. CASE quest[q].state # "offered"
      <4>1. attempts[q] \in Seq(Attempt) /\ Len(attempts[q]) > 0
        BY <3>1, <3>3 DEF BoardInv, Sound, Held, LiveStates
      <4>2. Hand(q).room \in Rooms
        BY <4>1, LastIsAnAttempt DEF Hand, Last, Epoch, Attempt
      <4> QED
        BY <3>1, <3>3, <4>2 DEF Told
    <3> QED
      BY <3>2, <3>3
  <2>2. due \in UNION {[D -> [state : LiveStates, room : Rooms \cup {Poster}]] :
                         D \in SUBSET Quests}
    <3>1. due \in [{d \in Quests : Due(d)} -> [state : LiveStates, room : Rooms \cup {Poster}]]
      BY <2>1
    <3>2. {d \in Quests : Due(d)} \in SUBSET Quests
      OBVIOUS
    <3> QED
      BY <3>1, <3>2
  <2> HIDE DEF due
  <2>3. call.at = "rest" /\ call.new = {}
    BY <1>4 DEF LookAtBoard, ClockInv, SweepsTell
  <2>4. looked \in Call /\ looked.new = {} /\ looked.at = "looked"
    BY <1>1, <2>2, <2>3 DEF Call, Busy
  <2>5. sweep' = [sweep EXCEPT ![s] = looked] /\ UNCHANGED <<rings, pinged, torn>>
    BY <1>4 DEF LookAtBoard, due
  <2> HIDE DEF looked
  <2> QED
    BY <2>4, <2>5, CallMoves DEF ClockInv
<1>5. CASE ReadPings(s)
  <2> DEFINE new == DOMAIN call.due \ pinged
             ringing == [call EXCEPT !.at = "ring", !.new = new]
  <2>1. ringing \in Call /\ ringing.new \subseteq DOMAIN ringing.due /\ ringing.at = "ring"
    BY <1>1, <1>2 DEF Call, Busy
  <2>2. /\ \/ sweep' = [sweep EXCEPT ![s] = ringing]
           \/ sweep' = [sweep EXCEPT ![s] = AtRest]
        /\ UNCHANGED <<rings, pinged, torn>>
    BY <1>5 DEF ReadPings
  <2> HIDE DEF ringing
  <2> QED
    BY <2>1, <2>2, RestIsACall, CallMoves DEF ClockInv
<1>6. CASE RingBell(s)
  <2>1. CASE sweep' = [sweep EXCEPT ![s] = AtRest] /\ UNCHANGED rings
    BY <1>6, <2>1, RestIsACall, CallMoves DEF RingBell, ClockInv
  <2>2. CASE /\ SameKey(s) \subseteq {Ring(s)}
             /\ rings' = rings \cup {Ring(s)}
             /\ sweep' = [sweep EXCEPT ![s].at = "ping"]
    <3> DEFINE rung == [call EXCEPT !.at = "ping"]
    <3>1. rung \in Call /\ rung.new = call.new /\ rung.due = call.due
      BY <1>1 DEF Call, Busy
    <3>2. /\ sweep' \in [Sweepers -> Call]
          /\ \A t \in Sweepers : sweep'[t] = IF t = s THEN rung ELSE sweep[t]
      BY <2>2, <3>1 DEF ClockInv
    <3> HIDE DEF rung
    <3>3. \A t \in Sweepers : sweep'[t].new = sweep[t].new /\ sweep'[t].due = sweep[t].due
      BY <3>1, <3>2
    <3>4. \A t \in Sweepers : Ring(t)' = Ring(t)
      BY <3>3 DEF Ring
    <3>5. SweepsTell'
      BY <2>2, <3>2, <3>3, <3>4 DEF ClockInv, SweepsTell
    <3>6. RingsTell'
      BY <1>1, <1>2, <1>3, <2>2 DEF ClockInv, RingsTell
    <3>7. PingedWasRung'
      BY <1>6, <2>2 DEF RingBell, ClockInv, PingedWasRung
    <3>8. OneRingPerSet'
      BY <2>2 DEF ClockInv, OneRingPerSet, SameKey
    <3> QED
      BY <1>6, <3>2, <3>5, <3>6, <3>7, <3>8 DEF RingBell, ClockInv
  <2> QED
    BY <1>6, <2>1, <2>2 DEF RingBell
<1>7. CASE WritePings(s)
  <2>1. /\ call.at = "ping" /\ pinged' = pinged \cup call.new
        /\ sweep' = [sweep EXCEPT ![s] = AtRest] /\ UNCHANGED <<rings, torn>>
    BY <1>7 DEF WritePings
  <2>2. Ring(s) \in rings /\ call.new \subseteq Quests
    BY <1>1, <1>2, <2>1
  <2>3. PingedWasRung'
    BY <1>1, <1>2, <1>3, <2>1, <2>2 DEF ClockInv, PingedWasRung
  <2>4. /\ sweep' \in [Sweepers -> Call]
        /\ \A t \in Sweepers : sweep'[t] = IF t = s THEN AtRest ELSE sweep[t]
    BY <2>1, RestIsACall DEF ClockInv
  <2>5. SweepsTell'
    <3> SUFFICES ASSUME NEW t \in Sweepers
                 PROVE  /\ sweep'[t].new \subseteq DOMAIN sweep'[t].due
                        /\ sweep'[t].at \in {"rest", "looked"} => sweep'[t].new = {}
                        /\ sweep'[t].at = "ping" => Ring(t)' \in rings
      BY <2>1 DEF SweepsTell
    <3>1. CASE t = s
      BY <2>4, <3>1, RestIsACall
    <3>2. CASE t # s
      BY <2>4, <3>2 DEF ClockInv, SweepsTell, Ring
    <3> QED
      BY <3>1, <3>2
  <2> QED
    BY <2>1, <2>2, <2>3, <2>4, <2>5 DEF ClockInv, RingsTell, OneRingPerSet
<1>8. CASE TearSweep(s)
  <2>1. /\ torn' \in 0..MaxTorn /\ sweep' = [sweep EXCEPT ![s] = AtRest]
        /\ UNCHANGED <<rings, pinged>>
    BY <1>8, ClockAssumption DEF TearSweep, ClockInv
  <2> QED
    BY <2>1, RestIsACall, CallMoves
<1> QED
  BY <1>4, <1>5, <1>6, <1>7, <1>8 DEF SweepStep

\* The clock's invariant holds in every behaviour of the Docket and its clock.
LEMMA ClockInvariant == ClockSpec => [](BoardInv /\ ClockInv)
<1>1. ClockInit => BoardInv /\ ClockInv
  BY BoardStarts, ClockStarts DEF ClockInit
<1>2. ASSUME BoardInv, ClockInv, [ClockNext]_clockVars PROVE (BoardInv /\ ClockInv)'
  <2>1. CASE DocketNext /\ UNCHANGED sweepVars
    <3>1. BoardInv'
      BY <1>2, <2>1, BoardStep
    <3>2. ClockInv'
      BY <1>2, <2>1
      DEF sweepVars, ClockInv, SweepsTell, Ring, RingsTell, PingedWasRung, OneRingPerSet
    <3> QED
      BY <3>1, <3>2
  <2>2. ASSUME NEW s \in Sweepers, SweepStep(s) \/ TearSweep(s)
        PROVE  (BoardInv /\ ClockInv)'
    <3>1. UNCHANGED docketVars
      BY <2>2 DEF SweepStep, LookAtBoard, ReadPings, RingBell, WritePings, TearSweep
    <3> QED
      BY <1>2, <2>2, <3>1, BoardStep, SweepKeeps
  <2>3. CASE UNCHANGED clockVars
    <3>1. UNCHANGED docketVars /\ UNCHANGED sweepVars
      BY <2>3 DEF clockVars, docketVars, sweepVars
    <3>2. BoardInv'
      BY <1>2, <3>1, BoardStep
    <3>3. ClockInv'
      BY <1>2, <3>1
      DEF sweepVars, ClockInv, SweepsTell, Ring, RingsTell, PingedWasRung, OneRingPerSet
    <3> QED
      BY <3>2, <3>3
  <2> QED
    BY <1>2, <2>1, <2>2, <2>3 DEF ClockNext
<1> QED
  BY <1>1, <1>2, PTL DEF ClockSpec

\* No Bell is lost: a quest the ledger holds for pinged was rung, by a message
\* that told its room so while the quest was live, whatever sweeps overlap or
\* are torn.
THEOREM NoBellIsLost == ClockSpec => []PingedWasRung
<1>1. ClockInv => PingedWasRung
  BY DEF ClockInv
<1> QED
  BY <1>1, ClockInvariant, PTL

\* Overlapping sweeps do not ring the same set of quests twice, in the same
\* words or in others.
THEOREM SetsAreRungOnce == ClockSpec => []OneRingPerSet
<1>1. ClockInv => OneRingPerSet
  BY DEF ClockInv
<1> QED
  BY <1>1, ClockInvariant, PTL

\* The clock watches the same board: one hand per quest while it runs.
THEOREM ClockedQuestHasOneHand == ClockSpec => []OneHand
<1>1. BoardInv => OneHand
  BY BoardMeans
<1> QED
  BY <1>1, ClockInvariant, PTL

\* Types of the board and of the clock.
THEOREM ClockTypes == ClockSpec => []ClockTypeOK
<1>1. BoardInv /\ ClockInv => ClockTypeOK
  <2> SUFFICES ASSUME BoardInv, ClockInv PROVE ClockTypeOK
    OBVIOUS
  <2>1. \A s \in Sweepers : /\ sweep[s].at \in {"rest", "looked", "ring", "ping"}
                            /\ sweep[s].new \subseteq DOMAIN sweep[s].due
                            /\ DOMAIN sweep[s].due \subseteq Quests
    BY DueIsLive DEF ClockInv, SweepsTell, Call, Busy
  <2> QED
    BY <2>1, BoardMeans DEF ClockTypeOK, ClockInv, RingsTell
<1> QED
  BY <1>1, ClockInvariant, PTL
=============================================================================
