---------------------------- MODULE HallwayProofs ----------------------------
(* Theorems about a hallway's messages and inboxes, for every set of rooms    *)
(* and sessions, every page limit and any number of posts; and about the      *)
(* doormen of a room, for every set of sessions and Knocks.                   *)
EXTENDS HallwayMessages, KnockDoorman, SequenceTheorems, WellFoundedInduction, TLAPS

-----------------------------------------------------------------------------
(* Sets of message numbers.                                                  *)

\* A set of numbers that is not empty has a least one.
LEMMA LeastNumber ==
  ASSUME NEW T \in SUBSET Nat, T # {}
  PROVE  \E m \in T : \A k \in T : m <= k
<1> DEFINE R == {ss \in Nat \X Nat : ss[1] < ss[2]}
<1>1. IsWellFoundedOn(R, Nat)
  BY NatLessThanWellFounded DEF OpToRel
<1>2. \A y, x \in T : <<y, x>> \in R <=> y < x
  OBVIOUS
<1> HIDE DEF R
<1>3. PICK m \in T : \A k \in T : ~ (<<k, m>> \in R)
  BY <1>1, WFMin
<1>4. \A k \in T : ~(k < m)
  BY <1>2, <1>3
<1> QED
  BY <1>4

\* A set of numbers up to some bound, not empty, has a greatest one.
LEMMA GreatestNumber ==
  ASSUME NEW N \in Nat, NEW T \in SUBSET (0..N), T # {}
  PROVE  \E m \in T : \A k \in T : k <= m
<1> DEFINE U == {N - t : t \in T}
<1>1. U \in SUBSET Nat
  OBVIOUS
<1>2. U # {}
  <2>1. PICK t \in T : TRUE
    OBVIOUS
  <2>2. N - t \in U
    BY <2>1
  <2> QED
    BY <2>2
<1>3. PICK u \in U : \A k \in U : u <= k
  BY <1>1, <1>2, LeastNumber
<1>4. PICK m \in T : u = N - m
  BY <1>3
<1>5. ASSUME NEW k \in T PROVE k <= m
  <2>1. N - k \in U
    OBVIOUS
  <2>2. N - m <= N - k
    BY <1>3, <1>4, <2>1
  <2>3. k \in Nat /\ m \in Nat
    OBVIOUS
  <2> QED
    BY <2>2, <2>3
<1> QED
  BY <1>5

\* Last is a member of a set of numbers, or what is given for an empty one.
LEMMA LastIsAMember ==
  ASSUME NEW N \in Nat, NEW T \in SUBSET (0..N), NEW default
  PROVE  Last(T, default) = default \/ Last(T, default) \in T
<1>1. CASE T = {}
  BY <1>1 DEF Last
<1>2. CASE T # {}
  BY <1>2, GreatestNumber DEF Last
<1> QED
  BY <1>1, <1>2

-----------------------------------------------------------------------------
(* The inboxes.                                                              *)

Message == [from : Chambers, thread : 1..MaxPosts, to : SUBSET Chambers]
Reading == [at : {"rest", "shown", "counted"}, rows : SUBSET Nat, sequence : Nat, upTo : Nat]
Inbox == [read : Nat, revision : Nat]

\* What a read holds are messages of the hallway, and the sequence it took is
\* one its room has reached.
ReadsAreSound ==
    \A s \in Ears :
       /\ reading[s].rows \subseteq Numbers
       /\ reading[s].upTo <= Len(messages)
       /\ reading[s].sequence <= Len(messages)
       /\ reading[s].at = "counted" => reading[s].sequence <= inbox[Home[s]].read

InboxesAreSound ==
    /\ \A c \in Chambers : inbox[c].read <= Len(messages) /\ shown[c] \subseteq Numbers
    /\ \A s \in Ears : cursor[s] <= Len(messages)

MessagesInv ==
    /\ messages \in Seq(Message) /\ Len(messages) <= MaxPosts
    /\ bells \subseteq Chambers \X Numbers
    /\ inbox \in [Chambers -> Inbox] /\ cursor \in [Ears -> Nat]
    /\ reading \in [Ears -> Reading] /\ shown \in [Chambers -> SUBSET Nat]
    /\ ReadsAreSound /\ InboxesAreSound /\ ReadWasShown

\* What a room's inbox counts are numbers.
LEMMA InboxIsTyped ==
  ASSUME MessagesInv, NEW c \in Chambers
  PROVE  inbox[c] \in Inbox /\ inbox[c].read \in Nat /\ inbox[c].revision \in Nat
<1>1. inbox[c] \in Inbox
  BY DEF MessagesInv
<1> QED
  BY <1>1 DEF Inbox

\* Nothing was posted or read.
LEMMA MessagesStart == MessagesInit => MessagesInv
<1> SUFFICES ASSUME MessagesInit PROVE MessagesInv
  OBVIOUS
<1>1. messages \in Seq(Message) /\ Len(messages) = 0
  BY EmptySeq DEF MessagesInit
<1>2. /\ inbox \in [Chambers -> Inbox] /\ reading \in [Ears -> Reading]
      /\ \A c \in Chambers : inbox[c].read = 0 /\ shown[c] = {}
      /\ \A s \in Ears : /\ cursor[s] = 0 /\ reading[s].at = "rest" /\ reading[s].rows = {}
                         /\ reading[s].sequence = 0 /\ reading[s].upTo = 0
  BY DEF MessagesInit, NotReading, Inbox, Reading
<1>3. cursor \in [Ears -> Nat] /\ shown \in [Chambers -> SUBSET Nat] /\ bells = {}
  BY DEF MessagesInit
<1>4. ReadsAreSound /\ InboxesAreSound /\ ReadWasShown
  BY <1>1, <1>2 DEF ReadsAreSound, InboxesAreSound, ReadWasShown, SequenceWasShown, BellsWereShown,
                    Numbers
<1> QED
  BY <1>1, <1>2, <1>3, <1>4, MessagesAssumption DEF MessagesInv

\* A post adds one number and leaves what was read as it was.
LEMMA PostKeeps ==
  ASSUME MessagesInv, NEW c \in Chambers, PostMessage(c) PROVE MessagesInv'
<1> DEFINE n == Len(messages) + 1
<1>1. PICK to \in SUBSET (Chambers \ {c}), thread \in ThreadIds \cup {n} :
         /\ messages' = Append(messages, [from |-> c, thread |-> thread, to |-> to])
         /\ bells' = Minted(to, n) /\ inbox' = Bumped
  BY DEF PostMessage
<1>2. /\ n <= MaxPosts /\ UNCHANGED <<cursor, reading, shown>>
      /\ Len(messages) \in Nat /\ messages \in Seq(Message)
  BY LenProperties DEF PostMessage, MessagesInv
<1>3. thread \in 1..MaxPosts
  <2>1. ASSUME NEW k \in Numbers PROVE messages[k].thread \in 1..MaxPosts
    <3>1. messages[k] \in Message
      BY <1>2, <2>1, ElementOfSeq DEF Numbers
    <3> QED
      BY <3>1 DEF Message
  <2> QED
    BY <1>2, <2>1, MessagesAssumption DEF ThreadIds
<1>4. [from |-> c, thread |-> thread, to |-> to] \in Message
  BY <1>3 DEF Message
<1>5. messages' \in Seq(Message) /\ Len(messages') = n
  BY <1>1, <1>2, <1>4
<1>6. Numbers \subseteq Numbers' /\ n \in Numbers'
  BY <1>2, <1>5 DEF Numbers
<1>7. /\ inbox' \in [Chambers -> Inbox]
      /\ \A d \in Chambers : inbox'[d].read = inbox[d].read
  <2>1. inbox' = [d \in Chambers |-> [inbox[d] EXCEPT !.revision = @ + 1]]
    BY <1>1 DEF Bumped
  <2>2. ASSUME NEW d \in Chambers
        PROVE  inbox'[d] \in Inbox /\ inbox'[d].read = inbox[d].read
    BY <2>1, InboxIsTyped DEF Inbox
  <2> QED
    BY <2>1, <2>2
<1>8. bells' \subseteq Chambers \X Numbers'
  BY <1>1, <1>6 DEF Minted, MessagesInv
<1>9. ReadsAreSound'
  BY <1>2, <1>5, <1>6, <1>7, MessagesAssumption
  DEF MessagesInv, ReadsAreSound, Reading, Inbox
<1>10. InboxesAreSound'
  BY <1>2, <1>5, <1>6, <1>7 DEF MessagesInv, InboxesAreSound, Inbox
<1>11. ReadWasShown'
  <2>1. SequenceWasShown'
    BY <1>2, <1>7 DEF MessagesInv, ReadWasShown, SequenceWasShown
  <2>2. ASSUME NEW d \in Chambers, NEW k \in Numbers', d \in messages'[k].to
        PROVE  <<d, k>> \in bells' \/ k \in shown'[d]
    <3>1. CASE k = n
      <4>1. messages'[k] = [from |-> c, thread |-> thread, to |-> to]
        BY <1>1, <1>2, <3>1
      <4>2. d \in to
        BY <2>2, <4>1
      <4> QED
        BY <1>1, <3>1, <4>2 DEF Minted
    <3>2. CASE k # n
      <4>1. k \in Numbers /\ messages'[k] = messages[k]
        BY <1>1, <1>2, <1>4, <1>5, <2>2, <3>2 DEF Numbers
      <4>2. <<d, k>> \in bells \/ k \in shown[d]
        BY <2>2, <4>1 DEF MessagesInv, ReadWasShown, BellsWereShown
      <4> QED
        BY <1>1, <1>2, <4>2 DEF Minted
    <3> QED
      BY <3>1, <3>2
  <2> QED
    BY <2>1, <2>2 DEF ReadWasShown, BellsWereShown
<1> QED
  BY <1>2, <1>5, <1>7, <1>8, <1>9, <1>10, <1>11 DEF MessagesInv

\* A session that moves on with its read, and nothing else with it.
LEMMA ReadMoves ==
  ASSUME MessagesInv, NEW s \in Ears, NEW r \in Reading,
         reading' = [reading EXCEPT ![s] = r],
         r.rows \subseteq Numbers, r.upTo <= Len(messages), r.sequence <= Len(messages),
         r.at = "counted" => r.sequence <= inbox[Home[s]].read,
         UNCHANGED <<messages, bells, inbox, cursor, shown>>
  PROVE  MessagesInv'
<1>1. /\ reading' \in [Ears -> Reading]
      /\ \A t \in Ears : reading'[t] = IF t = s THEN r ELSE reading[t]
  BY DEF MessagesInv
<1>2. ReadsAreSound'
  BY <1>1 DEF MessagesInv, ReadsAreSound, Numbers
<1> QED
  BY <1>1, <1>2 DEF MessagesInv, InboxesAreSound, ReadWasShown, SequenceWasShown, BellsWereShown, Numbers

\* A page holds messages of the hallway.
LEMMA BeginKeeps ==
  ASSUME MessagesInv, NEW s \in Ears, BeginRead(s) PROVE MessagesInv'
<1>1. UNCHANGED <<messages, bells, inbox, cursor, shown>>
  BY DEF BeginRead
<1>2. Len(messages) \in Nat /\ cursor[s] \in Nat /\ cursor[s] <= Len(messages)
  BY LenProperties DEF MessagesInv, InboxesAreSound
<1>3. ASSUME NEW ns \in SUBSET Numbers, NEW upTo \in Nat, upTo <= Len(messages),
             Look(s, ns, upTo)
      PROVE  MessagesInv'
  <2> DEFINE r == [at |-> "shown", rows |-> ns, sequence |-> 0, upTo |-> upTo]
  <2>1. /\ r \in Reading /\ r.rows = ns /\ r.upTo = upTo /\ r.sequence = 0 /\ r.at = "shown"
    BY DEF Reading, Numbers
  <2>2. reading' = [reading EXCEPT ![s] = r]
    BY <1>3 DEF Look
  <2> HIDE DEF r
  <2>3. r.rows \subseteq Numbers /\ r.upTo <= Len(messages) /\ r.sequence <= Len(messages)
    BY <1>2, <1>3, <2>1
  <2>4. r.at = "counted" => r.sequence <= inbox[Home[s]].read
    BY <2>1
  <2>5. r \in Reading
    BY <2>1
  <2> QED
    BY <1>1, <2>2, <2>3, <2>4, <2>5, ReadMoves
<1>4. ASSUME NEW after \in {0, cursor[s]}, NEW page \in SUBSET Numbers,
             Look(s, page, Greater(cursor[s], Last(page, after)))
      PROVE  MessagesInv'
  <2>1. page \in SUBSET (0..Len(messages))
    BY <1>2 DEF Numbers
  <2>2. Last(page, after) = after \/ Last(page, after) \in page
    BY <1>2, <2>1, LastIsAMember
  <2>3. Last(page, after) \in 0..Len(messages)
    <3>1. after \in 0..Len(messages)
      BY <1>2
    <3> QED
      BY <2>1, <2>2, <3>1
  <2>4. /\ Greater(cursor[s], Last(page, after)) \in Nat
        /\ Greater(cursor[s], Last(page, after)) <= Len(messages)
    BY <1>2, <2>3 DEF Greater
  <2> QED
    BY <1>3, <1>4, <2>4
<1>5. \A ns \in SUBSET Numbers : First(ns) \in SUBSET Numbers
  BY DEF First
<1>6. CASE \E after \in {0, cursor[s]} :
             LET page == First({n \in Numbers : n > after}) IN
             Look(s, page, Greater(cursor[s], Last(page, after)))
  <2>1. PICK after \in {0, cursor[s]} :
             Look(s, First({n \in Numbers : n > after}),
                  Greater(cursor[s], Last(First({n \in Numbers : n > after}), after)))
    BY <1>6
  <2>2. First({n \in Numbers : n > after}) \in SUBSET Numbers
    BY <1>5
  <2> QED
    BY <1>4, <2>1, <2>2
<1>7. CASE \E thread \in ThreadIds :
             Look(s, First({n \in Numbers : messages[n].thread = thread}), cursor[s])
  <2>1. PICK thread \in ThreadIds :
             Look(s, First({n \in Numbers : messages[n].thread = thread}), cursor[s])
    BY <1>7
  <2>2. First({n \in Numbers : messages[n].thread = thread}) \in SUBSET Numbers
    BY <1>5
  <2> QED
    BY <1>2, <1>3, <2>1, <2>2
<1> QED
  BY <1>6, <1>7 DEF BeginRead

\* The sequence a read takes is the one its room has reached.
LEMMA SelectKeeps ==
  ASSUME MessagesInv, NEW s \in Ears, SelectSequence(s) PROVE MessagesInv'
<1> DEFINE r == [reading[s] EXCEPT !.at = "counted", !.sequence = inbox[Home[s]].read]
<1>1. Home[s] \in Chambers /\ reading[s] \in Reading /\ inbox[Home[s]] \in Inbox
  BY MessagesAssumption DEF MessagesInv
<1>2. /\ r \in Reading /\ r.rows = reading[s].rows /\ r.upTo = reading[s].upTo
      /\ r.sequence = inbox[Home[s]].read
  BY <1>1 DEF Reading, Inbox
<1>3. reading' = [reading EXCEPT ![s] = r] /\ UNCHANGED <<messages, bells, inbox, cursor, shown>>
  BY DEF SelectSequence
<1> HIDE DEF r
<1>4. r.rows \subseteq Numbers /\ r.upTo <= Len(messages) /\ r.sequence <= Len(messages)
  BY <1>1, <1>2 DEF MessagesInv, ReadsAreSound, InboxesAreSound
<1>5. r.sequence <= inbox[Home[s]].read
  BY <1>1, <1>2 DEF Inbox
<1> QED
  BY <1>2, <1>3, <1>4, <1>5, ReadMoves

\* A session at rest holds nothing.
LEMMA RestIsAReading ==
  /\ NotReading \in Reading /\ NotReading.rows = {} /\ NotReading.upTo = 0
  /\ NotReading.sequence = 0 /\ NotReading.at = "rest"
  BY DEF NotReading, Reading

\* A read that ends without advancing leaves the inboxes alone.
LEMMA EndKeeps ==
  ASSUME MessagesInv, NEW s \in Ears, EndRead(s) PROVE MessagesInv'
<1>1. Len(messages) \in Nat
  BY LenProperties DEF MessagesInv
<1>2. /\ reading' = [reading EXCEPT ![s] = NotReading]
      /\ UNCHANGED <<messages, bells, inbox, cursor, shown>>
  BY DEF EndRead
<1>3. /\ NotReading.rows \subseteq Numbers /\ NotReading.upTo <= Len(messages)
      /\ NotReading.sequence <= Len(messages) /\ NotReading.at # "counted"
  BY <1>1, RestIsAReading
<1> QED
  BY <1>2, <1>3, RestIsAReading, ReadMoves

-----------------------------------------------------------------------------
(* A read that advances.                                                     *)

\* What a read covers beyond the sequence it took is a run without a gap, all of
\* it in the page it holds.
LEMMA CoveredIsARun ==
  ASSUME MessagesInv, NEW s \in Ears
  PROVE  /\ Covered(s) \in Nat /\ Covered(s) <= Len(messages)
         /\ Covered(s) >= reading[s].sequence
         /\ (reading[s].sequence + 1)..Covered(s) \subseteq reading[s].rows
<1> DEFINE q == reading[s].sequence
           rows == reading[s].rows
           T == {n \in rows : n > q /\ (q + 1)..n \subseteq rows}
<1>1. /\ Len(messages) \in Nat /\ q \in Nat /\ q <= Len(messages)
      /\ rows \subseteq Numbers
  BY LenProperties DEF MessagesInv, ReadsAreSound, Reading
<1>2. T \in SUBSET (0..Len(messages))
  BY <1>1 DEF Numbers
<1>3. Covered(s) = Last(T, q)
  BY DEF Covered
<1>4. Last(T, q) = q \/ Last(T, q) \in T
  BY <1>1, <1>2, LastIsAMember
<1>5. CASE Covered(s) = q
  BY <1>1, <1>5
<1>6. CASE Covered(s) \in T
  BY <1>1, <1>2, <1>6
<1> QED
  BY <1>3, <1>4, <1>5, <1>6

\* Where a read that advances takes its room: never back, and only over what it
\* shows or what the room had been shown before.
LEMMA AdvancedIsShown ==
  ASSUME MessagesInv, NEW s \in Ears, reading[s].at = "counted"
  PROVE  /\ Advanced(s) \in Nat /\ Advanced(s) <= Len(messages)
         /\ Advanced(s) >= inbox[Home[s]].read
         /\ 1..Advanced(s) \subseteq shown[Home[s]] \cup reading[s].rows
<1> DEFINE c == Home[s]
           q == reading[s].sequence
           read == inbox[c].read
<1>1. c \in Chambers /\ read \in Nat /\ q \in Nat /\ read <= Len(messages)
  BY MessagesAssumption DEF MessagesInv, Inbox, Reading, InboxesAreSound
<1>2. q <= read
  BY DEF MessagesInv, ReadsAreSound
<1>3. 1..read \subseteq shown[c]
  BY <1>1 DEF MessagesInv, ReadWasShown, SequenceWasShown
<1>4. /\ Covered(s) \in Nat /\ Covered(s) <= Len(messages)
      /\ (q + 1)..Covered(s) \subseteq reading[s].rows
  BY CoveredIsARun
<1>5. Advanced(s) = IF read < Covered(s) THEN Covered(s) ELSE read
  BY DEF Advanced, Greater
<1> HIDE DEF c, q, read
<1>6. 1..Advanced(s) \subseteq (1..read) \cup ((q + 1)..Covered(s))
  BY <1>1, <1>2, <1>4, <1>5
<1>7. 1..Advanced(s) \subseteq shown[c] \cup reading[s].rows
  BY <1>3, <1>4, <1>6
<1>8. Advanced(s) \in Nat /\ Advanced(s) <= Len(messages) /\ Advanced(s) >= read
  BY <1>1, <1>4, <1>5
<1> QED
  BY <1>7, <1>8 DEF c, read

\* What a read that advances writes, room by room.
LEMMA AdvanceWrites ==
  ASSUME MessagesInv, NEW s \in Ears, AdvanceRead(s)
  PROVE  /\ inbox' \in [Chambers -> Inbox]
         /\ \A c \in Chambers : c # Home[s] => inbox'[c] = inbox[c]
         /\ inbox'[Home[s]].read \in {Advanced(s), inbox[Home[s]].read}
         /\ Changed(s) => /\ inbox'[Home[s]].read = Advanced(s)
                          /\ inbox'[Home[s]].revision = inbox[Home[s]].revision + 1
         /\ ~Changed(s) => inbox' = inbox
<1> DEFINE c == Home[s]
           row == [read |-> Advanced(s), revision |-> inbox[c].revision + 1]
<1>1. c \in Chambers /\ inbox[c] \in Inbox /\ reading[s].at = "counted"
  BY MessagesAssumption DEF MessagesInv, AdvanceRead
<1>2. Advanced(s) \in Nat
  BY <1>1, AdvancedIsShown
<1>3. row \in Inbox
  BY <1>1, <1>2 DEF Inbox
<1>4. inbox' = IF Changed(s) THEN [inbox EXCEPT ![c] = row] ELSE inbox
  BY DEF AdvanceRead
<1>5. row.read = Advanced(s) /\ row.revision = inbox[c].revision + 1
  OBVIOUS
<1> HIDE DEF c, row
<1>6. CASE Changed(s)
  <2>1. /\ inbox' \in [Chambers -> Inbox]
        /\ \A d \in Chambers : inbox'[d] = IF d = c THEN row ELSE inbox[d]
    BY <1>1, <1>3, <1>4, <1>6 DEF MessagesInv
  <2> QED
    BY <1>1, <1>5, <1>6, <2>1 DEF c
<1>7. CASE ~Changed(s)
  BY <1>4, <1>7 DEF MessagesInv, c
<1> QED
  BY <1>6, <1>7

\* A read that advances covers only what its room was shown.
LEMMA AdvanceKeeps ==
  ASSUME MessagesInv, NEW s \in Ears, AdvanceRead(s) PROVE MessagesInv'
<1>1. /\ reading[s].at = "counted" /\ UNCHANGED messages
      /\ reading' = [reading EXCEPT ![s] = NotReading]
      /\ cursor' = [cursor EXCEPT ![s] = reading[s].upTo]
      /\ bells' = bells \ Acknowledged(s)
      /\ shown' = [shown EXCEPT ![Home[s]] = @ \cup reading[s].rows]
  BY DEF AdvanceRead
<1>2. /\ Home \in [Ears -> Chambers] /\ Home[s] \in Chambers /\ reading[s] \in Reading
      /\ Len(messages) \in Nat
  BY LenProperties, MessagesAssumption DEF MessagesInv
<1>3. /\ Advanced(s) <= Len(messages) /\ Advanced(s) >= inbox[Home[s]].read
      /\ 1..Advanced(s) \subseteq shown[Home[s]] \cup reading[s].rows
  BY <1>1, AdvancedIsShown
<1>4. /\ inbox' \in [Chambers -> Inbox]
      /\ \A c \in Chambers : c # Home[s] => inbox'[c] = inbox[c]
      /\ inbox'[Home[s]].read \in {Advanced(s), inbox[Home[s]].read}
  BY AdvanceWrites
<1>5. /\ reading' \in [Ears -> Reading]
      /\ \A t \in Ears : reading'[t] = IF t = s THEN NotReading ELSE reading[t]
  BY <1>1, RestIsAReading DEF MessagesInv
<1>6. /\ cursor' \in [Ears -> Nat] /\ reading[s].upTo <= Len(messages)
      /\ \A t \in Ears : cursor'[t] = IF t = s THEN reading[s].upTo ELSE cursor[t]
  BY <1>1, <1>2 DEF MessagesInv, Reading, ReadsAreSound
<1>7. /\ shown' \in [Chambers -> SUBSET Nat] /\ reading[s].rows \subseteq Numbers
      /\ \A c \in Chambers : shown'[c] = IF c = Home[s] THEN shown[c] \cup reading[s].rows
                                         ELSE shown[c]
  BY <1>1, <1>2 DEF MessagesInv, Reading, ReadsAreSound
<1>8. \A c \in Chambers : inbox[c].read \in Nat /\ inbox'[c].read \in Nat
                          /\ inbox'[c].read >= inbox[c].read
  <2>1. Advanced(s) \in Nat
    BY <1>1, AdvancedIsShown
  <2> QED
    BY <1>3, <1>4, <2>1, InboxIsTyped
<1>9. ReadsAreSound'
  <2> SUFFICES ASSUME NEW t \in Ears
               PROVE  /\ reading'[t].rows \subseteq Numbers
                      /\ reading'[t].upTo <= Len(messages)
                      /\ reading'[t].sequence <= Len(messages)
                      /\ reading'[t].at = "counted" =>
                            reading'[t].sequence <= inbox'[Home[t]].read
    BY <1>1 DEF ReadsAreSound, Numbers
  <2>1. CASE t = s
    BY <1>2, <1>5, <2>1, RestIsAReading
  <2>2. CASE t # s
    <3>1. reading'[t] = reading[t] /\ Home[t] \in Chambers /\ reading[t] \in Reading
      BY <1>2, <1>5, <2>2 DEF MessagesInv
    <3>2. /\ reading[t].rows \subseteq Numbers /\ reading[t].upTo <= Len(messages)
          /\ reading[t].sequence <= Len(messages) /\ reading[t].sequence \in Nat
          /\ reading[t].at = "counted" => reading[t].sequence <= inbox[Home[t]].read
      BY <3>1 DEF MessagesInv, ReadsAreSound, Reading
    <3>3. /\ inbox[Home[t]].read \in Nat /\ inbox'[Home[t]].read \in Nat
          /\ inbox'[Home[t]].read >= inbox[Home[t]].read
      BY <1>8, <3>1
    <3> QED
      BY <3>1, <3>2, <3>3
  <2> QED
    BY <2>1, <2>2
<1>10. InboxesAreSound'
  BY <1>1, <1>3, <1>4, <1>6, <1>7 DEF MessagesInv, InboxesAreSound, Numbers
<1>11. ReadWasShown'
  <2>1. SequenceWasShown'
    BY <1>3, <1>4, <1>7, SMTT(30) DEF MessagesInv, ReadWasShown, SequenceWasShown
  <2>2. ASSUME NEW c \in Chambers, NEW n \in Numbers', c \in messages'[n].to
        PROVE  <<c, n>> \in bells' \/ n \in shown'[c]
    <3>1. <<c, n>> \in bells \/ n \in shown[c]
      BY <1>1, <2>2 DEF MessagesInv, ReadWasShown, BellsWereShown, Numbers
    <3>2. <<c, n>> \in Acknowledged(s) => c = Home[s] /\ n \in reading[s].rows
      BY DEF Acknowledged
    <3> QED
      BY <1>1, <1>7, <3>1, <3>2
  <2> QED
    BY <2>1, <2>2 DEF ReadWasShown, BellsWereShown
<1> QED
  BY <1>1, <1>4, <1>5, <1>6, <1>7, <1>9, <1>10, <1>11 DEF MessagesInv, Numbers

\* Every step of the hallway keeps its inboxes sound.
LEMMA MessagesStep == ASSUME MessagesInv, [MessagesNext]_messagesVars PROVE MessagesInv'
<1>1. CASE UNCHANGED messagesVars
  BY <1>1 DEF messagesVars, MessagesInv, ReadsAreSound, InboxesAreSound, ReadWasShown,
              SequenceWasShown, BellsWereShown, Numbers
<1>2. CASE MessagesNext
  BY <1>2, PostKeeps, BeginKeeps, SelectKeeps, AdvanceKeeps, EndKeeps DEF MessagesNext
<1> QED
  BY <1>1, <1>2

\* The inboxes are sound in every behaviour of the hallway.
LEMMA MessagesInvariant == MessagesSpec => []MessagesInv
  BY MessagesStart, MessagesStep, PTL DEF MessagesSpec

\* Nothing drops out of an inbox unseen: what a room's read sequence covers, and
\* what it was sent and no longer has a Bell for, was shown by reads of that
\* room, in whatever order its sessions' reads of pages and threads committed.
THEOREM NothingPassesUnseen == MessagesSpec => []ReadWasShown
<1>1. MessagesInv => ReadWasShown
  BY DEF MessagesInv
<1> QED
  BY <1>1, MessagesInvariant, PTL

\* Types of the hallway's messages, inboxes and reads.
THEOREM MessagesTypes == MessagesSpec => []MessagesTypeOK
<1>1. MessagesInv => MessagesTypeOK
  <2> SUFFICES ASSUME MessagesInv PROVE MessagesTypeOK
    OBVIOUS
  <2>1. Len(messages) \in Nat
    BY LenProperties DEF MessagesInv
  <2>2. inbox \in [Chambers -> [read : 0..Len(messages), revision : Nat]]
    BY <2>1 DEF MessagesInv, InboxesAreSound, Inbox
  <2>3. cursor \in [Ears -> 0..Len(messages)] /\ shown \in [Chambers -> SUBSET Numbers]
    BY <2>1 DEF MessagesInv, InboxesAreSound
  <2>4. \A s \in Ears : /\ reading[s].at \in {"rest", "shown", "counted"}
                        /\ reading[s].rows \subseteq Numbers
                        /\ reading[s].sequence \in 0..Len(messages)
                        /\ reading[s].upTo \in 0..Len(messages)
    BY <2>1 DEF MessagesInv, ReadsAreSound, Reading
  <2> QED
    BY <2>2, <2>3, <2>4 DEF MessagesInv, MessagesTypeOK, Message
<1> QED
  BY <1>1, MessagesInvariant, PTL

-----------------------------------------------------------------------------
(* What a watcher of the revision sees.                                      *)

Announced ==
    \A c \in Chambers :
       /\ inbox'[c].read >= inbox[c].read
       /\ Unread(c)' # Unread(c) \/ (\E n \in Numbers : <<c, n>> \in bells \ bells')
             => inbox'[c].revision > inbox[c].revision

\* Every step announces what it changes of an inbox.
LEMMA AnnouncedStep ==
  ASSUME MessagesInv, [MessagesNext]_messagesVars PROVE Announced
<1>1. \A c \in Chambers : inbox[c].read \in Nat /\ inbox[c].revision \in Nat
  BY InboxIsTyped
<1>2. CASE UNCHANGED <<messages, bells, inbox>>
  <2>1. \A c \in Chambers : Unread(c)' = Unread(c)
    BY <1>2 DEF Unread, Numbers
  <2>2. \A c \in Chambers : inbox'[c].read >= inbox[c].read
    BY <1>1, <1>2
  <2>3. bells \ bells' = {}
    BY <1>2
  <2> QED
    BY <2>1, <2>2, <2>3 DEF Announced
<1>3. ASSUME NEW d \in Chambers, PostMessage(d) PROVE Announced
  <2>1. inbox' = Bumped
    BY <1>3 DEF PostMessage
  <2>2. \A c \in Chambers : /\ inbox'[c].read = inbox[c].read
                            /\ inbox'[c].revision = inbox[c].revision + 1
    BY <2>1, InboxIsTyped DEF Bumped, Inbox
  <2> QED
    BY <1>1, <2>2 DEF Announced
<1>4. ASSUME NEW s \in Ears, AdvanceRead(s) PROVE Announced
  <2>1. /\ reading[s].at = "counted" /\ UNCHANGED messages
        /\ bells' = bells \ Acknowledged(s) /\ Home[s] \in Chambers
    BY <1>4, MessagesAssumption DEF AdvanceRead
  <2>2. Advanced(s) \in Nat /\ Advanced(s) >= inbox[Home[s]].read
    BY <2>1, AdvancedIsShown
  <2>3. CASE ~Changed(s)
    <3>1. inbox' = inbox /\ bells' = bells
      BY <1>4, <2>1, <2>3, AdvanceWrites DEF Changed
    <3> QED
      BY <1>2, <2>1, <3>1
  <2>4. CASE Changed(s)
    <3> SUFFICES ASSUME NEW c \in Chambers
                 PROVE  /\ inbox'[c].read >= inbox[c].read
                        /\ \/ inbox'[c].revision > inbox[c].revision
                           \/ /\ Unread(c)' = Unread(c)
                              /\ \A n \in Numbers : <<c, n>> \notin bells \ bells'
      BY DEF Announced
    <3>1. CASE c = Home[s]
      <4>1. /\ inbox'[c].read = Advanced(s)
            /\ inbox'[c].revision = inbox[c].revision + 1
        BY <1>4, <2>4, <3>1, AdvanceWrites
      <4> QED
        BY <1>1, <2>2, <3>1, <4>1
    <3>2. CASE c # Home[s]
      <4>1. inbox'[c] = inbox[c]
        BY <1>4, <3>2, AdvanceWrites
      <4>2. \A n \in Numbers : <<c, n>> \notin bells \ bells'
        BY <2>1, <3>2 DEF Acknowledged
      <4>3. Unread(c)' = Unread(c)
        BY <2>1, <4>1 DEF Unread, Numbers
      <4> QED
        BY <1>1, <4>1, <4>2, <4>3
    <3> QED
      BY <3>1, <3>2
  <2> QED
    BY <2>3, <2>4
<1>5. CASE UNCHANGED messagesVars
  BY <1>2, <1>5 DEF messagesVars
<1>6. CASE MessagesNext
  BY <1>2, <1>3, <1>4, <1>6 DEF MessagesNext, BeginRead, SelectSequence, EndRead
<1> QED
  BY <1>5, <1>6

\* A watcher that polls the revision misses nothing: whatever changes in what a
\* room's inbox counts raises it, and what was read never becomes unread again.
THEOREM InboxesAnnounce == MessagesSpec => InboxIsAnnounced
<1>1. MessagesInv /\ [MessagesNext]_messagesVars => [Announced]_messagesVars
  BY AnnouncedStep
<1>2. InboxIsAnnounced <=> [][Announced]_messagesVars
  BY DEF InboxIsAnnounced, Announced
<1> QED
  BY <1>1, <1>2, MessagesInvariant, PTL DEF MessagesSpec

-----------------------------------------------------------------------------
(* The doormen of a room.                                                    *)

ClaimRow == [Claims -> Knock \cup {None, "sent", "empty"}]

\* The lease of k is d's and runs.
Warrant(d, k) == holder[k] = d /\ k \notin lapsed

\* Who was told of a lease, and has not injected its wake, holds it.
LeasesHold ==
  \A d \in Doorman :
     /\ \A i \in Claims : claim[d][i] \in Knock => Warrant(d, claim[d][i])
     /\ Active(d) # None /\ ~local[d].delivered => Warrant(d, Active(d))
     /\ local[d].delivered => Active(d) # None

\* No lease runs of what nobody has claimed.
LeasesAreClaimed == \A k \in Knock : status[k] \in {"absent", "pending"} => k \in lapsed

\* A doorman claims when it answers for no Knock, and once.
ClaimsAlone ==
  \A d \in Doorman : \A i \in Claims :
     claim[d][i] # None => Active(d) = None /\ \A j \in Claims : j # i => claim[d][j] = None

DoormanInv == DoormanTypeOK /\ LeasesHold /\ LeasesAreClaimed /\ ClaimsAlone

\* Nothing of the ledger moves, and of the doormen only d.
Alone(d, l, c) ==
  /\ local' = Put(local, d, l) /\ claim' = Put(claim, d, c)
  /\ UNCHANGED ledger

\* A doorman with nothing to answer for, or with a Knock.
LEMMA LocalRows ==
  /\ Cleared \in Local /\ Cleared.active = None
  /\ \A l \in Local : SeenEnd(l) \in Local /\ SeenEnd(l).active = l.active /\ SeenEnd(l).delivered = l.delivered
  BY DEF Cleared, Local, SeenEnd

\* A move of one doorman that leaves it warranted keeps the leases.
LEMMA AloneKeeps ==
  ASSUME DoormanInv, DoormanTypeOK', NEW d \in Doorman, NEW l \in Local, NEW c \in ClaimRow, Alone(d, l, c),
         \A i \in Claims : c[i] \in Knock => Warrant(d, c[i]),
         l.active # None /\ ~l.delivered => Warrant(d, l.active), l.delivered => l.active # None,
         \A i \in Claims : c[i] # None => l.active = None /\ \A j \in Claims : j # i => c[j] = None
  PROVE  DoormanInv'
<1>1. DoormanTypeOK /\ LeasesHold /\ LeasesAreClaimed /\ ClaimsAlone
  BY DEF DoormanInv
<1>2. local \in [Doorman -> Local] /\ claim \in [Doorman -> ClaimRow]
  BY <1>1 DEF DoormanTypeOK, ClaimRow
<1>3. /\ status' = status /\ holder' = holder /\ lapsed' = lapsed
      /\ \A e \in Doorman : local'[e] = IF e = d THEN l ELSE local[e]
      /\ \A e \in Doorman : claim'[e] = IF e = d THEN c ELSE claim[e]
  BY <1>2 DEF Alone, Put, ledger
<1>4. LeasesHold'
  BY <1>1, <1>3 DEF LeasesHold, Warrant, Active
<1>5. LeasesAreClaimed'
  BY <1>1, <1>3 DEF LeasesAreClaimed
<1>6. ClaimsAlone'
  BY <1>1, <1>3 DEF ClaimsAlone, Active
<1> QED
  BY <1>4, <1>5, <1>6 DEF DoormanInv

\* The doormen at first.
LEMMA DoormanStarts == DoormanInit => DoormanInv
<1> SUFFICES ASSUME DoormanInit PROVE DoormanInv
  OBVIOUS
<1>1. DoormanTypeOK
  BY DoormanAssumption, LocalRows DEF DoormanInit, DoormanTypeOK, Init
<1>2. \A d \in Doorman : Active(d) = None /\ ~local[d].delivered /\ \A i \in Claims : claim[d][i] = None
  BY DEF DoormanInit, Active, Cleared
<1>3. LeasesHold /\ LeasesAreClaimed /\ ClaimsAlone
  BY <1>2, DoormanAssumption DEF LeasesHold, LeasesAreClaimed, ClaimsAlone, DoormanInit, Init
<1> QED
  BY <1>1, <1>3 DEF DoormanInv

\* The end of the turn of an agent.
LEMMA TurnOverTyped ==
  ASSUME DoormanTypeOK, NEW d \in Doorman, TurnOver(d) \/ Abort(d) \/ UNCHANGED turns
  PROVE  /\ agent' \in [Doorman -> Knock \cup {"idle", "other", "gone"}]
         /\ queued' \in [Doorman -> SUBSET Knock] /\ notes' \in [Doorman -> 0..MaxNotes]
         /\ ended' \in [Doorman -> SUBSET Knock] /\ queued' = queued
<1>1. CASE TurnOver(d)
  <2>1. /\ agent' = [agent EXCEPT ![d] = "idle"] /\ queued' = queued
        /\ notes' = [notes EXCEPT ![d] = notes[d] + 1] /\ notes[d] < MaxNotes
        /\ ended' = [ended EXCEPT ![d] = ended[d] \cup ({agent[d]} \cap Knock)]
    BY <1>1 DEF TurnOver, Put
  <2>2. notes[d] \in 0..MaxNotes /\ MaxNotes \in Nat
    BY DoormanAssumption DEF DoormanTypeOK
  <2>3. notes[d] + 1 \in 0..MaxNotes
    BY <2>1, <2>2
  <2> QED
    BY <2>1, <2>3 DEF DoormanTypeOK
<1>2. CASE UNCHANGED turns
  BY <1>2 DEF turns, DoormanTypeOK
<1> QED
  BY <1>1, <1>2 DEF Abort

\* What a doorman sends is a call.
LEMMA SendTyped ==
  ASSUME DoormanTypeOK, NEW d \in Doorman, NEW l \in Local, l.active # None, NEW by \in Callers, Send(d, l, by)
  PROVE  settle' \in [Doorman -> Call \cup {None}]
<1>1. PICK o \in Wanted(l) : settle' = Put(settle, d, [knock |-> l.active, outcome |-> o, by |-> by, state |-> "sent"])
  BY DEF Send
<1>2. o \in Outcomes /\ l.active \in Knock
  BY <1>1 DEF Wanted, Outcomes, Local
<1>3. [knock |-> l.active, outcome |-> o, by |-> by, state |-> "sent"] \in Call
  BY <1>2 DEF Call
<1> QED
  BY <1>1, <1>3 DEF Put, DoormanTypeOK

\* A doorman that looks again keeps what it answers for.
LEMMA ObserveTyped ==
  ASSUME DoormanTypeOK, NEW d \in Doorman, NEW l \in Local, l.active # None, NEW by \in Callers, Observe(d, l, by)
  PROVE  local' = Put(local, d, l) /\ settle' \in [Doorman -> Call \cup {None}]
<1>1. CASE Sends(d, l)
  <2>1. Send(d, l, by) /\ local' = Put(local, d, l)
    BY <1>1 DEF Observe
  <2> QED
    BY <2>1, SendTyped
<1>2. CASE ~Sends(d, l)
  BY <1>2 DEF Observe, DoormanTypeOK
<1> QED
  BY <1>1, <1>2

\* A doorman that interrupts keeps what it answers for.
LEMMA InterruptTyped ==
  ASSUME DoormanTypeOK, NEW d \in Doorman, NEW l \in Local, Interrupt(d, l)
  PROVE  /\ \E m \in Local : /\ local' = Put(local, d, m) /\ m.active = l.active /\ m.delivered = l.delivered
                             /\ Seen(l) \subseteq Seen(m)
         /\ agent' \in [Doorman -> Knock \cup {"idle", "other", "gone"}]
         /\ queued' \in [Doorman -> SUBSET Knock] /\ notes' \in [Doorman -> 0..MaxNotes]
         /\ ended' \in [Doorman -> SUBSET Knock] /\ queued' = queued
<1>1. CASE Interrupts(l)
  <2> DEFINE yes == TRUE
             m == [l EXCEPT !.interruptSent = yes]
  <2>1. local' = Put(local, d, m) /\ Abort(d) /\ yes \in BOOLEAN
    BY <1>1 DEF Interrupt
  <2>2. Seen(l) \subseteq Seen(m)
    BY DEF Seen, Local
  <2> HIDE DEF yes
  <2>3. m \in Local /\ m.active = l.active /\ m.delivered = l.delivered
    BY <2>1 DEF Local
  <2> QED
    BY <2>1, <2>2, <2>3, TurnOverTyped
<1>2. CASE ~Interrupts(l)
  <2>1. local' = Put(local, d, l) /\ UNCHANGED turns
    BY <1>2 DEF Interrupt
  <2> QED
    BY <2>1, TurnOverTyped
<1> QED
  BY <1>1, <1>2

\* Where a doorman stands.
LEMMA Stands ==
  ASSUME DoormanInv, NEW d \in Doorman
  PROVE  /\ DoormanTypeOK /\ local[d] \in Local /\ claim[d] \in ClaimRow
         /\ Put(local, d, local[d]) = local /\ Put(claim, d, claim[d]) = claim
         /\ local[d].active = Active(d) /\ Active(d) \in Knock \cup {None} /\ None \notin Knock
         /\ local[d].delivered => Active(d) # None
         /\ \A i \in Claims : claim[d][i] \in Knock => Warrant(d, claim[d][i])
         /\ Active(d) # None /\ ~local[d].delivered => Warrant(d, Active(d))
         /\ \A i \in Claims :
               claim[d][i] # None => Active(d) = None /\ \A j \in Claims : j # i => claim[d][j] = None
         /\ settle[d] \in Call \cup {None} /\ fails[d] \in [Knock -> 0..MaxFails]
<1>1. /\ DoormanTypeOK /\ local \in [Doorman -> Local] /\ claim \in [Doorman -> ClaimRow]
      /\ settle[d] \in Call \cup {None} /\ fails[d] \in [Knock -> 0..MaxFails]
  BY DEF DoormanInv, DoormanTypeOK, ClaimRow
<1>2. Put(local, d, local[d]) = local /\ Put(claim, d, claim[d]) = claim
  BY <1>1 DEF Put
<1>3. None \notin Knock
  BY DoormanAssumption
<1>4. local[d].active \in Knock \cup {None}
  BY <1>1 DEF Local
<1> QED
  BY <1>1, <1>2, <1>3, <1>4 DEF DoormanInv, LeasesHold, ClaimsAlone, Active

\* A doorman that moves without a claim answers for what it did, or injects no more.
LEMMA LocalKeeps ==
  ASSUME DoormanInv, DoormanTypeOK', NEW d \in Doorman, NEW l \in Local, local' = Put(local, d, l),
         claim' = claim, UNCHANGED ledger, l.active = Active(d) \/ l.active = None,
         l.active # None /\ ~l.delivered => ~local[d].delivered, l.delivered => l.active # None
  PROVE  DoormanInv'
<1>1. Alone(d, l, claim[d])
  BY Stands DEF Alone
<1> QED
  BY <1>1, Stands, AloneKeeps

\* What is not read of the doormen's memory does not matter to their leases.
LEMMA MemoryStands ==
  ASSUME DoormanInv, DoormanTypeOK', local' = local, claim' = claim, UNCHANGED ledger
  PROVE  DoormanInv'
  BY DEF DoormanInv, ledger, LeasesHold, LeasesAreClaimed, ClaimsAlone, Warrant, Active

\* A doorman that polls sends one claim, and answers for no Knock.
LEMMA PollKeeps == ASSUME DoormanInv, NEW d \in Doorman, Poll(d) PROVE DoormanInv'
<1>1. /\ DoormanTypeOK /\ Active(d) = None /\ ~Claiming(d)
      /\ local' = local /\ settle' = settle /\ fails' = fails /\ UNCHANGED ledger /\ UNCHANGED turns
  BY DEF Poll, DoormanInv
<1>2. PICK i \in Claims : claim' = [claim EXCEPT ![d][i] = "sent"]
  BY DEF Poll
<1> DEFINE c == [claim[d] EXCEPT ![i] = "sent"]
<1>3. c \in ClaimRow /\ claim' = Put(claim, d, c)
  BY <1>1, <1>2 DEF DoormanTypeOK, ClaimRow, Put
<1>4. \A j \in Claims : c[j] = IF j = i THEN "sent" ELSE None
  BY <1>1, Stands DEF Claiming, ClaimRow
<1> HIDE DEF c
<1>5. claim' \in [Doorman -> ClaimRow]
  BY <1>1, <1>3 DEF DoormanTypeOK, ClaimRow, Put
<1>6. DoormanTypeOK'
  BY <1>1, <1>5 DEF DoormanTypeOK, ClaimRow, ledger, turns
<1>7. "sent" \notin Knock /\ None \notin Knock
  BY DoormanAssumption
<1>8. Alone(d, local[d], c)
  BY <1>1, <1>3, Stands DEF Alone
<1> QED
  BY <1>1, <1>3, <1>4, <1>6, <1>7, <1>8, Stands, AloneKeeps

\* A call that claims is answered: the Knock it takes is due, so that no one held it.
LEMMA HostClaimsKeeps ==
  ASSUME DoormanInv, NEW d \in Doorman, NEW i \in Claims, HostClaims(d, i) PROVE DoormanInv'
<1>1. /\ DoormanTypeOK /\ LeasesHold /\ LeasesAreClaimed /\ ClaimsAlone
      /\ local' = local /\ settle' = settle /\ fails' = fails /\ UNCHANGED turns
      /\ claim[d][i] = "sent" /\ Claim(d)
  BY DEF HostClaims, DoormanInv
<1> DEFINE got == lapsed \ lapsed'
           k0 == IF got = {} THEN "empty" ELSE CHOOSE k \in got : TRUE
<1>2. claim' = [claim EXCEPT ![d][i] = k0]
  BY DEF HostClaims
<1>3. PICK swept \in SUBSET {k \in expired : status[k] \in Running},
           taken \in {t \in SUBSET {k \in Knock : Due(k)} : \A x, y \in t : x = y} :
         /\ status' = [k \in Knock |-> IF k \in swept THEN "failed"
                                       ELSE IF k \in taken THEN "claimed" ELSE status[k]]
         /\ holder' = [k \in Knock |-> IF k \in taken THEN d ELSE holder[k]]
         /\ lapsed' = lapsed \ taken
         /\ UNCHANGED expired
  BY <1>1 DEF Claim
<1>4. /\ taken \subseteq Knock /\ \A k \in taken : Due(k)
      /\ lapsed \subseteq Knock
  BY <1>1, <1>3 DEF DoormanTypeOK
<1>5. k0 = "empty" \/ (k0 \in taken /\ k0 \in lapsed)
  <2>1. got \subseteq taken /\ got \subseteq lapsed
    BY <1>3
  <2> QED
    BY <2>1
<1> HIDE DEF k0, got
<1>6. k0 \in Knock \cup {"empty"}
  BY <1>4, <1>5
<1>7. \A e \in Doorman, j \in Claims : claim'[e][j] = IF e = d /\ j = i THEN k0 ELSE claim[e][j]
  BY <1>1, <1>2 DEF DoormanTypeOK
<1>8. DoormanTypeOK'
  <2>1. claim' \in [Doorman -> [Claims -> Knock \cup {None, "sent", "empty"}]]
    BY <1>1, <1>2, <1>6 DEF DoormanTypeOK
  <2>2. status' \in [Knock -> {"absent", "pending", "claimed", "started", "completed", "failed"}]
    BY <1>1, <1>3 DEF DoormanTypeOK
  <2>3. holder' \in [Knock -> Doorman \cup {None}]
    BY <1>1, <1>3 DEF DoormanTypeOK
  <2> QED
    BY <1>1, <1>3, <2>1, <2>2, <2>3 DEF DoormanTypeOK, turns
<1>9. \A e \in Doorman, k \in Knock : Warrant(e, k) => Warrant(e, k)'
  <2>1. SUFFICES ASSUME NEW e \in Doorman, NEW k \in Knock, Warrant(e, k) PROVE holder'[k] = e /\ k \notin lapsed'
    BY DEF Warrant
  <2>2. holder[k] = e /\ k \notin lapsed
    BY <2>1 DEF Warrant
  <2>3. k \notin taken
    BY <1>1, <1>4, <2>2 DEF Due, LeasesAreClaimed
  <2> QED
    BY <1>3, <2>2, <2>3
<1>10. k0 \in taken => holder'[k0] = d /\ k0 \notin lapsed'
  BY <1>3, <1>4
<1>11. LeasesHold'
  <2>0. "empty" \notin Knock
    BY DoormanAssumption
  <2>1. ASSUME NEW e \in Doorman, NEW j \in Claims, claim'[e][j] \in Knock PROVE Warrant(e, claim[e][j])'
    <3>1. CASE e = d /\ j = i
      <4>1. claim'[e][j] = k0 /\ k0 \in taken
        BY <1>5, <1>7, <2>0, <2>1, <3>1
      <4>2. holder'[k0] = d /\ k0 \notin lapsed'
        BY <1>10, <4>1
      <4> QED
        BY <3>1, <4>1, <4>2 DEF Warrant
    <3>2. CASE ~(e = d /\ j = i)
      <4>1. claim'[e][j] = claim[e][j]
        BY <1>7, <3>2
      <4>2. Warrant(e, claim[e][j])
        BY <1>1, <2>1, <4>1 DEF LeasesHold
      <4>3. holder'[claim[e][j]] = e /\ claim[e][j] \notin lapsed'
        BY <1>9, <2>1, <4>1, <4>2 DEF Warrant
      <4> QED
        BY <4>1, <4>3 DEF Warrant
    <3> QED
      BY <3>1, <3>2
  <2>3. \A e \in Doorman : local'[e].delivered => Active(e)' # None
    BY <1>1 DEF LeasesHold, Active
  <2>2. ASSUME NEW e \in Doorman, Active(e)' # None, ~local'[e].delivered PROVE Warrant(e, Active(e))'
    <3>1. Active(e)' = Active(e) /\ Warrant(e, Active(e)) /\ Active(e) \in Knock
      BY <1>1, <2>2 DEF LeasesHold, Active, DoormanTypeOK, Local
    <3>2. holder'[Active(e)] = e /\ Active(e) \notin lapsed'
      BY <1>9, <3>1 DEF Warrant
    <3> QED
      BY <3>1, <3>2 DEF Warrant
  <2> QED
    BY <2>1, <2>2, <2>3 DEF LeasesHold
<1>12. LeasesAreClaimed'
  BY <1>1, <1>3, <1>4 DEF LeasesAreClaimed
<1>13. ClaimsAlone'
  <2>1. \A e \in Doorman, j \in Claims : claim'[e][j] # None => claim[e][j] # None
    <3>1. claim[d][i] # None
      BY <1>1, DoormanAssumption
    <3> QED
      BY <1>7, <3>1
  <2>2. \A e \in Doorman : Active(e)' = Active(e)
    BY <1>1 DEF Active
  <2> QED
    BY <1>1, <2>1, <2>2 DEF ClaimsAlone
<1> QED
  BY <1>8, <1>11, <1>12, <1>13 DEF DoormanInv

\* A claim call that ends takes no one's lease.
LEMMA ClaimEndsKeeps ==
  ASSUME DoormanInv, NEW d \in Doorman, NEW i \in Claims, ClaimEnds(d, i) PROVE DoormanInv'
<1> DEFINE c == [claim[d] EXCEPT ![i] = None]
<1>1. /\ DoormanTypeOK /\ local' = local /\ settle' = settle /\ fails' = fails
      /\ UNCHANGED ledger /\ UNCHANGED turns /\ claim' = [claim EXCEPT ![d][i] = None]
  BY DEF ClaimEnds, DoormanInv
<1>2. c \in ClaimRow /\ claim' = Put(claim, d, c)
  BY <1>1, Stands DEF DoormanTypeOK, ClaimRow, Put
<1>3. \A j \in Claims : c[j] = IF j = i THEN None ELSE claim[d][j]
  BY Stands DEF ClaimRow
<1> HIDE DEF c
<1>4. claim' \in [Doorman -> ClaimRow]
  BY <1>1, <1>2 DEF DoormanTypeOK, ClaimRow, Put
<1>5. DoormanTypeOK'
  BY <1>1, <1>4 DEF DoormanTypeOK, ClaimRow, ledger, turns
<1>6. Alone(d, local[d], c)
  BY <1>1, <1>2, Stands DEF Alone
<1> QED
  BY <1>2, <1>3, <1>5, <1>6, Stands, AloneKeeps

\* An injection whose wake goes to who was told of the lease.
LEMMA InjectTyped ==
  ASSUME DoormanInv, NEW d \in Doorman, NEW k \in Knock, NEW by \in {"deliver", "tick"}, Inject(d, k, by)
  PROVE  /\ \E l \in Local : /\ local' = Put(local, d, l)
                             /\ (l.active = k \/ l = local[d]) /\ (by = "deliver" => l.active = k)
         /\ settle' \in [Doorman -> Call \cup {None}] /\ fails' \in [Doorman -> [Knock -> 0..MaxFails]]
         /\ queued' \in [Doorman -> SUBSET Knock]
         /\ \A e \in Doorman : queued'[e] \ queued[e] \subseteq IF e = d THEN {k} ELSE {}
<1> DEFINE busy == agent[d] # "idle"
           yes == TRUE
           l == [Cleared EXCEPT !.active = k, !.delivered = yes, !.interruptRequested = busy]
           m == [Cleared EXCEPT !.active = k]
<1>1. DoormanTypeOK /\ local[d] \in Local /\ Put(local, d, local[d]) = local /\ None \notin Knock
  BY Stands
<1>2. \/ queued' = Put(queued, d, queued[d] \cup {k}) /\ Observe(d, l, by) /\ UNCHANGED fails
      \/ /\ fails[d][k] < MaxFails /\ fails' = [fails EXCEPT ![d][k] = @ + 1]
         /\ local' = Put(local, d, IF by = "deliver" THEN m ELSE local[d])
         /\ UNCHANGED <<queued, settle>>
  BY DEF Inject
<1>3. busy \in BOOLEAN /\ yes \in BOOLEAN
  OBVIOUS
<1> HIDE DEF busy, yes
<1>4. l \in Local /\ l.active = k /\ m \in Local /\ m.active = k /\ by \in Callers
  BY <1>3 DEF Local, Cleared, Callers
<1> HIDE DEF l, m
<1>5. CASE queued' = Put(queued, d, queued[d] \cup {k}) /\ Observe(d, l, by) /\ UNCHANGED fails
  <2>1. local' = Put(local, d, l) /\ settle' \in [Doorman -> Call \cup {None}]
    BY <1>1, <1>4, <1>5, ObserveTyped
  <2>2. queued' \in [Doorman -> SUBSET Knock] /\ \A e \in Doorman : queued'[e] \ queued[e] \subseteq IF e = d THEN {k} ELSE {}
    BY <1>1, <1>5 DEF Put, DoormanTypeOK
  <2>3. fails' \in [Doorman -> [Knock -> 0..MaxFails]]
    BY <1>1, <1>5 DEF DoormanTypeOK
  <2> QED
    BY <1>4, <2>1, <2>2, <2>3
<1>6. CASE /\ fails[d][k] < MaxFails /\ fails' = [fails EXCEPT ![d][k] = @ + 1]
           /\ local' = Put(local, d, IF by = "deliver" THEN m ELSE local[d])
           /\ UNCHANGED <<queued, settle>>
  <2> DEFINE next == fails[d][k] + 1
  <2>1. next \in 0..MaxFails /\ fails' = [fails EXCEPT ![d] = [fails[d] EXCEPT ![k] = next]]
    BY <1>1, <1>6, DoormanAssumption DEF DoormanTypeOK
  <2> HIDE DEF next
  <2>2. fails' \in [Doorman -> [Knock -> 0..MaxFails]]
    BY <1>1, <2>1 DEF DoormanTypeOK
  <2>3. \E w \in Local : /\ local' = Put(local, d, w)
                         /\ (w.active = k \/ w = local[d]) /\ (by = "deliver" => w.active = k)
    <3>1. CASE by = "deliver"
      BY <1>4, <1>6, <3>1
    <3>2. CASE by # "deliver"
      BY <1>1, <1>6, <3>2
    <3> QED
      BY <3>1, <3>2
  <2> QED
    BY <1>1, <1>6, <2>2, <2>3 DEF DoormanTypeOK
<1> QED
  BY <1>2, <1>5, <1>6

\* The wake of a Knock is injected while its lease stands.
LEMMA DeliverKeeps ==
  ASSUME DoormanInv, NEW d \in Doorman, NEW i \in Claims, Deliver(d, i) PROVE DoormanInv'
<1> DEFINE k == claim[d][i]
           c == [claim[d] EXCEPT ![i] = None]
<1>1. /\ DoormanTypeOK /\ k \in Knock /\ Inject(d, k, "deliver") /\ claim' = [claim EXCEPT ![d][i] = None]
      /\ UNCHANGED ledger /\ agent' = agent /\ notes' = notes /\ ended' = ended
  BY DEF Deliver, DoormanInv
<1>2. c \in ClaimRow /\ claim' = Put(claim, d, c)
  BY <1>1, Stands DEF DoormanTypeOK, ClaimRow, Put
<1>3. \A j \in Claims : c[j] = None
  <2>1. \A j \in Claims : c[j] = IF j = i THEN None ELSE claim[d][j]
    BY Stands DEF ClaimRow
  <2> QED
    BY <1>1, <2>1, Stands
<1>4. Warrant(d, k)
  BY <1>1, Stands
<1> HIDE DEF c, k
<1>5. PICK l \in Local : local' = Put(local, d, l) /\ l.active = k
  BY <1>1, InjectTyped
<1>6. DoormanTypeOK'
  <2>1. /\ settle' \in [Doorman -> Call \cup {None}] /\ fails' \in [Doorman -> [Knock -> 0..MaxFails]]
        /\ queued' \in [Doorman -> SUBSET Knock]
    BY <1>1, InjectTyped
  <2>2. claim' \in [Doorman -> ClaimRow] /\ local' \in [Doorman -> Local]
    BY <1>1, <1>2, <1>5 DEF DoormanTypeOK, ClaimRow, Put
  <2> QED
    BY <1>1, <2>1, <2>2 DEF DoormanTypeOK, ClaimRow, ledger
<1>7. Alone(d, l, c)
  BY <1>1, <1>2, <1>5 DEF Alone
<1>8. l.active # None /\ Warrant(d, l.active) /\ None \notin Knock
  BY <1>1, <1>4, <1>5, DoormanAssumption
<1> QED
  BY <1>2, <1>3, <1>6, <1>7, <1>8, AloneKeeps

\* A tick injects again what is held and was not injected.
LEMMA TickDeliversKeeps ==
  ASSUME DoormanInv, NEW d \in Doorman, TickDelivers(d) PROVE DoormanInv'
<1>1. /\ DoormanTypeOK /\ Active(d) # None /\ ~local[d].delivered /\ Inject(d, Active(d), "tick")
      /\ UNCHANGED ledger /\ claim' = claim /\ agent' = agent /\ notes' = notes /\ ended' = ended
  BY DEF TickDelivers, DoormanInv
<1>2. Active(d) \in Knock /\ local[d].active = Active(d)
  BY <1>1, Stands
<1>3. PICK l \in Local : local' = Put(local, d, l) /\ (l.active = Active(d) \/ l = local[d])
  BY <1>1, <1>2, InjectTyped
<1>4. DoormanTypeOK'
  <2>1. /\ settle' \in [Doorman -> Call \cup {None}] /\ fails' \in [Doorman -> [Knock -> 0..MaxFails]]
        /\ queued' \in [Doorman -> SUBSET Knock]
    BY <1>1, <1>2, InjectTyped
  <2>2. local' \in [Doorman -> Local]
    BY <1>1, <1>3 DEF DoormanTypeOK, Put
  <2> QED
    BY <1>1, <2>1, <2>2 DEF DoormanTypeOK, ledger
<1> QED
  BY <1>1, <1>2, <1>3, <1>4, LocalKeeps

\* A tick that fails a Knock only calls.
LEMMA TickFailsKeeps == ASSUME DoormanInv, NEW d \in Doorman, TickFails(d) PROVE DoormanInv'
<1> DEFINE k == Active(d)
           next == fails[d][k] + 1
<1>1. /\ DoormanTypeOK /\ local' = local /\ claim' = claim /\ settle' = settle
      /\ UNCHANGED ledger /\ UNCHANGED turns
      /\ fails[d][k] < MaxFails /\ fails' = [fails EXCEPT ![d][k] = next] /\ k \in Knock
  BY Stands DEF TickFails, Overdue, DoormanInv
<1>2. DoormanTypeOK'
  <2>1. fails' \in [Doorman -> [Knock -> 0..MaxFails]]
    <3>1. next \in 0..MaxFails /\ fails' = [fails EXCEPT ![d] = [fails[d] EXCEPT ![k] = next]]
      BY <1>1, DoormanAssumption DEF DoormanTypeOK
    <3> HIDE DEF next
    <3> QED
      BY <1>1, <3>1 DEF DoormanTypeOK
  <2> QED
    BY <1>1, <2>1 DEF DoormanTypeOK, ledger, turns
<1> QED
  BY <1>1, <1>2, MemoryStands

\* A tick settles what it can, or interrupts.
LEMMA TickSettlesKeeps == ASSUME DoormanInv, NEW d \in Doorman, TickSettles(d) PROVE DoormanInv'
<1>1. /\ DoormanTypeOK /\ local[d].delivered /\ claim' = claim /\ fails' = fails /\ UNCHANGED ledger
      /\ local[d] \in Local /\ local[d].active = Active(d)
  BY Stands DEF TickSettles, DoormanInv
<1>2. CASE Sends(d, local[d])
  <2>1. Send(d, local[d], "tick") /\ local' = local /\ UNCHANGED turns
    BY <1>2 DEF TickSettles
  <2>2. settle' \in [Doorman -> Call \cup {None}]
    <3>1. "tick" \in Callers /\ Active(d) # None
      BY <1>1, Stands DEF Callers
    <3> QED
      BY <1>1, <2>1, <3>1, SendTyped
  <2>3. DoormanTypeOK'
    BY <1>1, <2>1, <2>2 DEF DoormanTypeOK, ledger, turns
  <2> QED
    BY <1>1, <2>1, <2>3, MemoryStands
<1>3. CASE ~Sends(d, local[d])
  <2>1. Interrupt(d, local[d]) /\ settle' = settle
    BY <1>3 DEF TickSettles
  <2>2. PICK m \in Local : local' = Put(local, d, m) /\ m.active = Active(d) /\ m.delivered = local[d].delivered
    <3>1. local[d] \in Local /\ DoormanTypeOK /\ Interrupt(d, local[d])
      BY <1>1, <2>1
    <3>2. \E m \in Local : /\ local' = Put(local, d, m) /\ m.active = local[d].active
                           /\ m.delivered = local[d].delivered /\ Seen(local[d]) \subseteq Seen(m)
      BY <3>1, InterruptTyped
    <3> QED
      BY <1>1, <3>2
  <2>3. DoormanTypeOK'
    <3>1. local' \in [Doorman -> Local]
      BY <1>1, <2>2 DEF DoormanTypeOK, Put
    <3> QED
      BY <1>1, <2>1, <3>1, InterruptTyped DEF DoormanTypeOK, ledger
  <2> QED
    BY <1>1, <2>2, <2>3, Stands, LocalKeeps
<1> QED
  BY <1>2, <1>3

\* The ledger moves on by a settlement, an expiry or a Knock that is asked: no lease is taken.
LEMMA LedgerKeeps ==
  ASSUME DoormanInv, DoormanTypeOK', local' = local, claim' = claim, holder' = holder, lapsed' = lapsed,
         \A k \in Knock : status'[k] \in {"absent", "pending"} => status[k] \in {"absent", "pending"}
  PROVE  DoormanInv'
<1>1. LeasesHold' /\ ClaimsAlone'
  BY DEF DoormanInv, LeasesHold, ClaimsAlone, Warrant, Active
<1>2. LeasesAreClaimed'
  BY DEF DoormanInv, LeasesAreClaimed
<1> QED
  BY <1>1, <1>2 DEF DoormanInv

\* A settlement that is served moves its Knock on.
LEMMA HostSettlesKeeps == ASSUME DoormanInv, NEW d \in Doorman, HostSettles(d) PROVE DoormanInv'
<1> DEFINE c == settle[d]
           k == c.knock
           may == IF c.outcome = "started" THEN Leases(d, k) ELSE Runs(d, k)
           done == status[k] = c.outcome /\ holder[k] = d
           answer == IF may \/ done THEN "ok" ELSE "refused"
           e == [c EXCEPT !.state = answer]
<1>1. /\ DoormanTypeOK /\ c # None /\ settle' = Put(settle, d, e)
      /\ (Settle(k, c.outcome) \/ UNCHANGED ledger)
      /\ local' = local /\ claim' = claim /\ fails' = fails /\ UNCHANGED turns
  BY DEF HostSettles, DoormanInv
<1>2. c \in Call /\ answer \in {"ok", "refused"}
  BY <1>1, Stands
<1> HIDE DEF answer
<1>3. e \in Call /\ k \in Knock /\ c.outcome \in Outcomes
  BY <1>2 DEF Call
<1> HIDE DEF c, k, e
<1>4. /\ status' \in [Knock -> {"absent", "pending", "claimed", "started", "completed", "failed"}]
      /\ holder' = holder /\ lapsed' = lapsed /\ expired' = expired
      /\ \A j \in Knock : status'[j] \in {"absent", "pending"} => status[j] \in {"absent", "pending"}
  <2>1. CASE Settle(k, c.outcome)
    BY <1>1, <1>3, <2>1 DEF Settle, Outcomes, DoormanTypeOK
  <2>2. CASE UNCHANGED ledger
    BY <1>1, <2>2 DEF ledger, DoormanTypeOK
  <2> QED
    BY <1>1, <2>1, <2>2
<1>5. DoormanTypeOK'
  <2>1. settle' \in [Doorman -> Call \cup {None}]
    BY <1>1, <1>3 DEF DoormanTypeOK, Put
  <2> QED
    BY <1>1, <1>4, <2>1 DEF DoormanTypeOK, turns
<1> QED
  BY <1>1, <1>4, <1>5, LedgerKeeps

\* A failure that is served ends its Knock.
LEMMA HostFailsKeeps ==
  ASSUME DoormanInv, NEW d \in Doorman, NEW k \in Knock, HostFails(d, k) PROVE DoormanInv'
<1>1. /\ DoormanTypeOK /\ status' = [status EXCEPT ![k] = "failed"]
      /\ holder' = holder /\ lapsed' = lapsed /\ expired' = expired
      /\ local' = local /\ UNCHANGED calls /\ UNCHANGED turns
  BY DEF HostFails, Fail, Settle, DoormanInv
<1>2. DoormanTypeOK' /\ claim' = claim
  BY <1>1 DEF DoormanTypeOK, calls, turns
<1>3. \A j \in Knock : status'[j] \in {"absent", "pending"} => status[j] \in {"absent", "pending"}
  BY <1>1 DEF DoormanTypeOK
<1> QED
  BY <1>1, <1>2, <1>3, LedgerKeeps

\* A call of a doorman fails.
LEMMA SettleFailsKeeps == ASSUME DoormanInv, NEW d \in Doorman, SettleFails(d) PROVE DoormanInv'
<1>1. /\ DoormanTypeOK /\ settle' = Put(settle, d, None) /\ claim' = claim /\ fails' = fails
      /\ UNCHANGED ledger
  BY DEF SettleFails, DoormanInv
<1>2. settle' \in [Doorman -> Call \cup {None}] /\ local[d] \in Local
  BY <1>1, Stands DEF DoormanTypeOK, Put
<1>3. CASE settle[d].by = "note"
  <2>1. local' = local /\ UNCHANGED turns
    BY <1>3 DEF SettleFails
  <2>2. DoormanTypeOK'
    BY <1>1, <1>2, <2>1 DEF DoormanTypeOK, ledger, turns
  <2> QED
    BY <1>1, <2>1, <2>2, MemoryStands
<1>4. CASE settle[d].by # "note"
  <2>1. Interrupt(d, local[d])
    BY <1>4 DEF SettleFails
  <2>2. PICK m \in Local : local' = Put(local, d, m) /\ m.active = local[d].active /\ m.delivered = local[d].delivered
    BY <1>1, <1>2, <2>1, InterruptTyped
  <2>3. DoormanTypeOK'
    <3>1. local' \in [Doorman -> Local]
      BY <1>1, <2>2 DEF DoormanTypeOK, Put
    <3> QED
      BY <1>1, <1>2, <2>1, <3>1, InterruptTyped DEF DoormanTypeOK, ledger
  <2> QED
    BY <1>1, <2>2, <2>3, Stands, LocalKeeps
<1> QED
  BY <1>3, <1>4

\* The answer that a start was settled.
LEMMA StartSettledKeeps == ASSUME DoormanInv, NEW d \in Doorman, StartSettled(d) PROVE DoormanInv'
<1> DEFINE c == settle[d]
           yes == TRUE
           l == [local[d] EXCEPT !.startSettled = yes]
           again == [c EXCEPT !.outcome = "completed", !.state = "sent"]
<1>1. /\ DoormanTypeOK /\ c \in Call /\ local[d] \in Local /\ claim' = claim /\ fails' = fails
      /\ UNCHANGED ledger /\ yes \in BOOLEAN
  BY Stands DEF StartSettled, DoormanInv
<1>2. /\ \/ Observed(l) /\ settle' = Put(settle, d, again) /\ local' = Put(local, d, l) /\ UNCHANGED turns
         \/ settle' = Put(settle, d, None) /\ local' = Put(local, d, l) /\ UNCHANGED turns
         \/ settle' = Put(settle, d, None) /\ Interrupt(d, l)
  BY DEF StartSettled
<1> HIDE DEF yes
<1>3. l \in Local /\ l.active = local[d].active /\ l.delivered = local[d].delivered
  BY <1>1 DEF Local
<1>4. again \in Call
  BY <1>1 DEF Call, Outcomes
<1> HIDE DEF c, l, again
<1>5. settle' \in [Doorman -> Call \cup {None}]
  BY <1>1, <1>2, <1>4 DEF DoormanTypeOK, Put
<1>6. CASE local' = Put(local, d, l) /\ UNCHANGED turns
  <2>1. DoormanTypeOK'
    <3>1. local' \in [Doorman -> Local]
      BY <1>1, <1>3, <1>6 DEF DoormanTypeOK, Put
    <3> QED
      BY <1>1, <1>5, <1>6, <3>1 DEF DoormanTypeOK, ledger, turns
  <2> QED
    BY <1>1, <1>3, <1>6, <2>1, Stands, LocalKeeps
<1>7. CASE Interrupt(d, l)
  <2>2. PICK m \in Local : local' = Put(local, d, m) /\ m.active = l.active /\ m.delivered = l.delivered
    BY <1>1, <1>3, <1>7, InterruptTyped
  <2>3. DoormanTypeOK'
    <3>1. local' \in [Doorman -> Local]
      BY <1>1, <2>2 DEF DoormanTypeOK, Put
    <3> QED
      BY <1>1, <1>3, <1>5, <1>7, <3>1, InterruptTyped DEF DoormanTypeOK, ledger
  <2> QED
    BY <1>1, <1>3, <2>2, <2>3, Stands, LocalKeeps
<1> QED
  BY <1>2, <1>6, <1>7

\* The answer that a completion was settled, and the end of a failure call, clear the doorman.
LEMMA ClearsKeeps ==
  ASSUME DoormanInv, NEW d \in Doorman,
         CompletionSettled(d) \/ \E k \in Knock : FailReturns(d, k)
  PROVE  DoormanInv'
<1>1. /\ DoormanTypeOK /\ local' = Put(local, d, Cleared) /\ claim' = claim /\ UNCHANGED ledger /\ UNCHANGED turns
  BY DEF CompletionSettled, FailReturns, DoormanInv
<1>2. settle' \in [Doorman -> Call \cup {None}] /\ fails' \in [Doorman -> [Knock -> 0..MaxFails]]
  <2>1. CASE CompletionSettled(d)
    BY <1>1, <2>1 DEF CompletionSettled, DoormanTypeOK, Put
  <2>2. ASSUME NEW k \in Knock, FailReturns(d, k) PROVE <1>2
    <3> DEFINE next == fails[d][k] - 1
    <3>1. /\ fails[d][k] > 0 /\ fails' = [fails EXCEPT ![d] = [fails[d] EXCEPT ![k] = next]] /\ settle' = settle
      BY <1>1, <2>2 DEF FailReturns, DoormanTypeOK
    <3>2. next \in 0..MaxFails
      BY <1>1, <3>1, DoormanAssumption DEF DoormanTypeOK
    <3> HIDE DEF next
    <3> QED
      BY <1>1, <3>1, <3>2 DEF DoormanTypeOK
  <2> QED
    BY <2>1, <2>2
<1>3. DoormanTypeOK'
  <2>1. local' \in [Doorman -> Local]
    BY <1>1, LocalRows DEF DoormanTypeOK, Put
  <2> QED
    BY <1>1, <1>2, <2>1 DEF DoormanTypeOK, ledger, turns
<1>4. ~Cleared.delivered
  BY DEF Cleared
<1> QED
  BY <1>1, <1>3, <1>4, LocalRows, LocalKeeps

\* An agent begins the turn of a wake.
LEMMA BeginKnockTurnKeeps ==
  ASSUME DoormanInv, NEW d \in Doorman, NEW k \in Knock, BeginKnockTurn(d, k) PROVE DoormanInv'
<1> DEFINE yes == TRUE
           l == [local[d] EXCEPT !.turnStarted = yes]
<1>1. /\ DoormanTypeOK /\ local[d] \in Local /\ agent' = Put(agent, d, k) /\ queued' = Put(queued, d, queued[d] \ {k})
      /\ claim' = claim /\ fails' = fails /\ notes' = notes /\ ended' = ended /\ UNCHANGED ledger
      /\ yes \in BOOLEAN
      /\ \/ local[d].active = k /\ Observe(d, l, "note")
         \/ local' = local /\ settle' = settle
  BY Stands DEF BeginKnockTurn, DoormanInv
<1> HIDE DEF yes
<1>2. l \in Local /\ l.active = local[d].active /\ l.delivered = local[d].delivered
  BY <1>1 DEF Local
<1> HIDE DEF l
<1>3. /\ local' = Put(local, d, l) \/ local' = local
      /\ settle' \in [Doorman -> Call \cup {None}]
  <2>1. CASE local[d].active = k /\ Observe(d, l, "note")
    <3>1. l.active # None /\ "note" \in Callers
      BY <1>2, <2>1, DoormanAssumption DEF Callers
    <3> QED
      BY <1>1, <1>2, <2>1, <3>1, ObserveTyped
  <2>2. CASE local' = local /\ settle' = settle
    BY <1>1, <2>2 DEF DoormanTypeOK
  <2> QED
    BY <1>1, <2>1, <2>2
<1>4. DoormanTypeOK'
  <2>1. local' \in [Doorman -> Local] /\ agent' \in [Doorman -> Knock \cup {"idle", "other", "gone"}]
        /\ queued' \in [Doorman -> SUBSET Knock]
    BY <1>1, <1>2, <1>3 DEF DoormanTypeOK, Put
  <2> QED
    BY <1>1, <1>3, <2>1 DEF DoormanTypeOK, ledger
<1>5. CASE local' = local
  BY <1>1, <1>4, <1>5, MemoryStands
<1>6. CASE local' = Put(local, d, l)
  BY <1>1, <1>2, <1>4, <1>6, Stands, LocalKeeps
<1> QED
  BY <1>3, <1>5, <1>6

\* Turns of the agent begin and end.
LEMMA AgentKeeps ==
  ASSUME DoormanInv, NEW d \in Doorman, BeginOtherTurn(d) \/ EndTurn(d) PROVE DoormanInv'
<1>1. DoormanTypeOK /\ UNCHANGED ledger /\ local' = local /\ UNCHANGED calls
  BY DEF BeginOtherTurn, EndTurn, DoormanInv
<1>2. /\ agent' \in [Doorman -> Knock \cup {"idle", "other", "gone"}]
      /\ queued' \in [Doorman -> SUBSET Knock] /\ notes' \in [Doorman -> 0..MaxNotes]
      /\ ended' \in [Doorman -> SUBSET Knock]
  <2>1. CASE BeginOtherTurn(d)
    BY <1>1, <2>1 DEF BeginOtherTurn, DoormanTypeOK, Put
  <2>2. CASE EndTurn(d)
    BY <1>1, <2>2, TurnOverTyped DEF EndTurn
  <2> QED
    BY <2>1, <2>2
<1>3. DoormanTypeOK' /\ claim' = claim
  BY <1>1, <1>2 DEF DoormanTypeOK, ledger, calls
<1> QED
  BY <1>1, <1>3, MemoryStands

\* The end of a turn is noted.
LEMMA NoteEndKeeps == ASSUME DoormanInv, NEW d \in Doorman, NoteEnd(d) PROVE DoormanInv'
<1> DEFINE l == SeenEnd(local[d])
           less == notes[d] - 1
<1>1. /\ DoormanTypeOK /\ local[d] \in Local /\ notes[d] > 0 /\ notes' = Put(notes, d, less)
      /\ claim' = claim /\ fails' = fails /\ agent' = agent /\ queued' = queued /\ ended' = ended
      /\ UNCHANGED ledger /\ local[d].active = Active(d)
      /\ \/ local' = local /\ settle' = settle
         \/ Active(d) # None /\ Observe(d, l, "note")
         \/ local' = Put(local, d, l) /\ settle' = settle
  <2>1. DoormanTypeOK /\ notes[d] > 0 /\ notes' = Put(notes, d, less) /\ UNCHANGED ledger
        /\ claim' = claim /\ fails' = fails /\ agent' = agent /\ queued' = queued /\ ended' = ended
    BY DEF NoteEnd, DoormanInv
  <2>2. local[d] \in Local /\ local[d].active = Active(d)
    BY <2>1 DEF DoormanTypeOK, Active
  <2>3. \/ local' = local /\ settle' = settle
        \/ Active(d) # None /\ Observe(d, l, "note")
        \/ local' = Put(local, d, l) /\ settle' = settle
    <3>1. CASE Active(d) = None
      BY <3>1 DEF NoteEnd
    <3>2. CASE Active(d) # None /\ l.turnEnded
      BY <3>2 DEF NoteEnd
    <3>3. CASE Active(d) # None /\ ~l.turnEnded
      BY <3>3 DEF NoteEnd
    <3> QED
      BY <3>1, <3>2, <3>3
  <2> QED
    BY <2>1, <2>2, <2>3
<1>2. l \in Local /\ l.active = local[d].active /\ l.delivered = local[d].delivered
  BY <1>1, LocalRows
<1>3. less \in 0..MaxNotes
  BY <1>1, DoormanAssumption DEF DoormanTypeOK
<1> HIDE DEF l, less
<1>4. /\ local' = Put(local, d, l) \/ local' = local
      /\ settle' \in [Doorman -> Call \cup {None}]
  <2>1. CASE Active(d) # None /\ Observe(d, l, "note")
    <3>1. l.active # None /\ "note" \in Callers
      BY <1>1, <1>2, <2>1 DEF Callers
    <3> QED
      BY <1>1, <1>2, <2>1, <3>1, ObserveTyped
  <2>2. CASE settle' = settle /\ (local' = local \/ local' = Put(local, d, l))
    BY <1>1, <2>2 DEF DoormanTypeOK
  <2> QED
    BY <1>1, <2>1, <2>2
<1>5. DoormanTypeOK'
  <2>1. local' \in [Doorman -> Local] /\ notes' \in [Doorman -> 0..MaxNotes]
    BY <1>1, <1>2, <1>3, <1>4 DEF DoormanTypeOK, Put
  <2> QED
    BY <1>1, <1>4, <2>1 DEF DoormanTypeOK, ledger
<1>6. CASE local' = local
  BY <1>1, <1>5, <1>6, MemoryStands
<1>7. CASE local' = Put(local, d, l)
  BY <1>1, <1>2, <1>5, <1>7, Stands, LocalKeeps
<1> QED
  BY <1>4, <1>6, <1>7

\* The process of a doorman dies.
LEMMA CrashKeeps == ASSUME DoormanInv, NEW d \in Doorman, Crash(d) PROVE DoormanInv'
<1> DEFINE c == [i \in Claims |-> None]
<1>1. /\ DoormanTypeOK /\ local' = Put(local, d, Cleared) /\ claim' = Put(claim, d, c)
      /\ agent' = Put(agent, d, "gone") /\ settle' = Put(settle, d, None)
      /\ fails' = Put(fails, d, [k \in Knock |-> 0])
      /\ queued' = Put(queued, d, {}) /\ notes' = Put(notes, d, 0) /\ ended' = ended /\ UNCHANGED ledger
  BY DEF Crash, DoormanInv
<1>2. c \in ClaimRow /\ \A i \in Claims : c[i] = None
  BY DEF ClaimRow
<1> HIDE DEF c
<1>3. /\ local' \in [Doorman -> Local] /\ claim' \in [Doorman -> ClaimRow]
  BY <1>1, <1>2, LocalRows DEF DoormanTypeOK, ClaimRow, Put
<1>4. /\ settle' \in [Doorman -> Call \cup {None}] /\ queued' \in [Doorman -> SUBSET Knock]
      /\ agent' \in [Doorman -> Knock \cup {"idle", "other", "gone"}]
  BY <1>1 DEF DoormanTypeOK, Put
<1>5. fails' \in [Doorman -> [Knock -> 0..MaxFails]] /\ notes' \in [Doorman -> 0..MaxNotes]
  <2>1. 0 \in 0..MaxFails /\ 0 \in 0..MaxNotes
    BY DoormanAssumption
  <2> QED
    BY <1>1, <2>1 DEF DoormanTypeOK, Put
<1>6. DoormanTypeOK'
  BY <1>1, <1>3, <1>4, <1>5 DEF DoormanTypeOK, ClaimRow, ledger
<1>7. Alone(d, Cleared, c)
  BY <1>1 DEF Alone
<1>8. ~Cleared.delivered /\ None \notin Knock
  BY DoormanAssumption DEF Cleared
<1> QED
  BY <1>2, <1>6, <1>7, <1>8, LocalRows, AloneKeeps

\* Knocks are asked, exchanges expire.
LEMMA AskedKeeps ==
  ASSUME DoormanInv, NEW k \in Knock, Asked(k) \/ ExchangeExpires(k) PROVE DoormanInv'
<1>1. /\ DoormanTypeOK /\ local' = local /\ UNCHANGED calls /\ UNCHANGED turns
      /\ holder' = holder /\ lapsed' = lapsed
      /\ \/ status[k] = "absent" /\ status' = [status EXCEPT ![k] = "pending"] /\ expired' = expired
         \/ status' = status /\ expired' = expired \cup {k}
  BY DEF Asked, Ask, ExchangeExpires, DoormanInv
<1>2. DoormanTypeOK' /\ claim' = claim
  BY <1>1 DEF DoormanTypeOK, calls, turns
<1>3. \A j \in Knock : status'[j] \in {"absent", "pending"} => status[j] \in {"absent", "pending"}
  BY <1>1 DEF DoormanTypeOK
<1> QED
  BY <1>1, <1>2, <1>3, LedgerKeeps

\* A lease that lapses is none that is yet to be injected.
LEMMA LeaseLapsesKeeps == ASSUME DoormanInv, NEW k \in Knock, LeaseLapses(k) PROVE DoormanInv'
<1>1. /\ DoormanTypeOK /\ Lapses(k) /\ lapsed' = lapsed \cup {k} /\ status' = status /\ holder' = holder
      /\ expired' = expired /\ local' = local /\ UNCHANGED calls /\ UNCHANGED turns
  BY DEF LeaseLapses, DoormanInv
<1>2. DoormanTypeOK' /\ claim' = claim
  BY <1>1 DEF DoormanTypeOK, calls, turns
<1>3. LeasesHold'
  BY <1>1, <1>2 DEF DoormanInv, LeasesHold, Lapses, Warrant, Active
<1>4. LeasesAreClaimed' /\ ClaimsAlone'
  BY <1>1, <1>2 DEF DoormanInv, LeasesAreClaimed, ClaimsAlone, Active
<1> QED
  BY <1>2, <1>3, <1>4 DEF DoormanInv

\* Every step of the doormen, their agents, the Host and the ledger keeps the leases.
LEMMA DoormanSteps == ASSUME DoormanInv, [DoormanNext]_all PROVE DoormanInv'
<1>1. CASE UNCHANGED all
  <2>1. DoormanTypeOK'
    BY <1>1 DEF all, DoormanInv, DoormanTypeOK
  <2>2. local' = local /\ claim' = claim /\ UNCHANGED ledger
    BY <1>1 DEF all, ledger
  <2> QED
    BY <2>1, <2>2, MemoryStands
<1>2. ASSUME NEW d \in Doorman, Poll(d) \/ TickFails(d) \/ TickDelivers(d) \/ TickSettles(d) PROVE DoormanInv'
  BY <1>2, PollKeeps, TickFailsKeeps, TickDeliversKeeps, TickSettlesKeeps
<1>3. ASSUME NEW d \in Doorman, NEW i \in Claims, HostClaims(d, i) \/ ClaimEnds(d, i) \/ Deliver(d, i) PROVE DoormanInv'
  BY <1>3, HostClaimsKeeps, ClaimEndsKeeps, DeliverKeeps
<1>4. ASSUME NEW d \in Doorman, HostSettles(d) \/ SettleFails(d) \/ StartSettled(d) \/ CompletionSettled(d)
      PROVE  DoormanInv'
  BY <1>4, HostSettlesKeeps, SettleFailsKeeps, StartSettledKeeps, ClearsKeeps
<1>5. ASSUME NEW d \in Doorman, BeginOtherTurn(d) \/ EndTurn(d) \/ NoteEnd(d) \/ Crash(d) PROVE DoormanInv'
  BY <1>5, AgentKeeps, NoteEndKeeps, CrashKeeps
<1>6. ASSUME NEW d \in Doorman, NEW k \in Knock, HostFails(d, k) \/ FailReturns(d, k) \/ BeginKnockTurn(d, k)
      PROVE  DoormanInv'
  BY <1>6, HostFailsKeeps, ClearsKeeps, BeginKnockTurnKeeps
<1>7. ASSUME NEW k \in Knock, Asked(k) \/ LeaseLapses(k) \/ ExchangeExpires(k) PROVE DoormanInv'
  BY <1>7, AskedKeeps, LeaseLapsesKeeps
<1> QED
  BY <1>1, <1>2, <1>3, <1>4, <1>5, <1>6, <1>7 DEF DoormanNext

\* What was injected is what the doorman was told it holds.
WakeStep == \A d \in Doorman, k \in Knock : k \in queued'[d] \ queued[d] => holder[k] = d

\* A wake that was injected is followed until it is released.
FollowStep ==
  \A d \in Doorman :
    local[d].delivered /\ Active(d)' # None =>
      Active(d)' = Active(d) /\ Seen(local[d]) \subseteq Seen(local'[d])

\* What d follows it goes on following, or releases.
Follows(d, l) ==
  local[d].delivered /\ l.active # None => l.active = Active(d) /\ Seen(local[d]) \subseteq Seen(l)

\* A doorman that follows its Knock, while the others stand, replaces no Knock.
LEMMA FollowsAlone ==
  ASSUME DoormanTypeOK, NEW d \in Doorman, NEW l \in Local, local' = Put(local, d, l), Follows(d, l)
  PROVE  FollowStep
<1>1. \A e \in Doorman : local'[e] = IF e = d THEN l ELSE local[e]
  BY DEF Put, DoormanTypeOK
<1>2. ASSUME NEW e \in Doorman, local[e].delivered, Active(e)' # None
      PROVE  Active(e)' = Active(e) /\ Seen(local[e]) \subseteq Seen(local'[e])
  <2>1. CASE e = d
    <3>1. local'[e] = l /\ Active(e)' = l.active
      BY <1>1, <2>1 DEF Active
    <3> QED
      BY <1>2, <2>1, <3>1 DEF Follows
  <2>2. CASE e # d
    <3>1. local'[e] = local[e]
      BY <1>1, <2>2
    <3> QED
      BY <3>1 DEF Active
  <2> QED
    BY <2>1, <2>2
<1> QED
  BY <1>2 DEF FollowStep

\* Doormen that stand replace no Knock.
LEMMA FollowsStill == ASSUME local' = local PROVE FollowStep
  BY DEF FollowStep, Active

\* An injection has the lease of its Knock, and is over no wake that was injected.
LEMMA InjectionStep ==
  ASSUME DoormanInv, NEW d \in Doorman, (\E i \in Claims : Deliver(d, i)) \/ TickDelivers(d)
  PROVE  WakeStep /\ FollowStep
<1>1. PICK k \in Knock, by \in {"deliver", "tick"} : Inject(d, k, by) /\ Warrant(d, k) /\ ~local[d].delivered
  <2>1. CASE TickDelivers(d)
    <3>1. Inject(d, Active(d), "tick") /\ Active(d) # None /\ ~local[d].delivered
      BY <2>1 DEF TickDelivers
    <3>2. Active(d) \in Knock /\ Warrant(d, Active(d))
      BY <3>1, Stands
    <3> QED
      BY <3>1, <3>2
  <2>2. ASSUME NEW i \in Claims, Deliver(d, i)
        PROVE  \E k \in Knock, by \in {"deliver", "tick"} : Inject(d, k, by) /\ Warrant(d, k) /\ ~local[d].delivered
    <3>1. claim[d][i] \in Knock /\ Inject(d, claim[d][i], "deliver")
      BY <2>2 DEF Deliver
    <3>2. Warrant(d, claim[d][i]) /\ Active(d) = None
      BY <3>1, Stands
    <3>3. ~local[d].delivered
      BY <3>2, Stands
    <3> QED
      BY <3>1, <3>2, <3>3
  <2> QED
    BY <2>1, <2>2
<1>2. /\ \E l \in Local : /\ local' = Put(local, d, l)
                          /\ (l.active = k \/ l = local[d]) /\ (by = "deliver" => l.active = k)
      /\ \A e \in Doorman : queued'[e] \ queued[e] \subseteq IF e = d THEN {k} ELSE {}
  BY <1>1, InjectTyped
<1>3. WakeStep
  BY <1>1, <1>2 DEF WakeStep, Warrant
<1>4. PICK l \in Local : local' = Put(local, d, l)
  BY <1>2
<1>5. FollowStep
  BY <1>1, <1>4, FollowsAlone DEF Follows, DoormanInv
<1> QED
  BY <1>3, <1>5

\* A doorman that may interrupt follows what it sees.
LEMMA InterruptFollows ==
  ASSUME DoormanTypeOK, NEW d \in Doorman, NEW l \in Local, Follows(d, l), Interrupt(d, l)
  PROVE  FollowStep /\ queued' = queued
<1>1. /\ \E m \in Local : /\ local' = Put(local, d, m) /\ m.active = l.active /\ m.delivered = l.delivered
                          /\ Seen(l) \subseteq Seen(m)
      /\ queued' = queued
  BY InterruptTyped
<1>2. PICK m \in Local : local' = Put(local, d, m) /\ m.active = l.active /\ Seen(l) \subseteq Seen(m)
  BY <1>1
<1>3. Follows(d, m)
  BY <1>2 DEF Follows
<1> QED
  BY <1>1, <1>2, <1>3, FollowsAlone

\* The answers that settle, and the ticks that do, follow the Knock that is active.
LEMMA SettlingFollows ==
  ASSUME DoormanInv, NEW d \in Doorman, TickSettles(d) \/ SettleFails(d) \/ StartSettled(d)
  PROVE  FollowStep /\ queued' = queued
<1>1. DoormanTypeOK /\ local[d] \in Local /\ local[d].active = Active(d)
  BY Stands
<1>2. Follows(d, local[d])
  BY <1>1 DEF Follows
<1>3. CASE TickSettles(d) \/ SettleFails(d)
  <2>1. (local' = local /\ UNCHANGED turns) \/ Interrupt(d, local[d])
    BY <1>3 DEF TickSettles, SettleFails
  <2> QED
    BY <1>1, <1>2, <2>1, FollowsStill, InterruptFollows DEF turns
<1>4. CASE StartSettled(d)
  <2> DEFINE yes == TRUE
             l == [local[d] EXCEPT !.startSettled = yes]
  <2>1. (local' = Put(local, d, l) /\ UNCHANGED turns) \/ Interrupt(d, l)
    BY <1>4 DEF StartSettled
  <2>2. yes \in BOOLEAN /\ Seen(local[d]) \subseteq Seen(l)
    BY <1>1 DEF Seen, Local
  <2> HIDE DEF yes
  <2>3. l \in Local /\ l.active = local[d].active
    BY <1>1, <2>2 DEF Local
  <2>4. Follows(d, l)
    BY <1>1, <2>2, <2>3 DEF Follows
  <2> HIDE DEF l
  <2> QED
    BY <1>1, <2>1, <2>3, <2>4, FollowsAlone, InterruptFollows DEF turns
<1> QED
  BY <1>3, <1>4

\* What the agent's turns tell is added to what was seen.
LEMMA NotingFollows ==
  ASSUME DoormanInv, NEW d \in Doorman, NoteEnd(d) \/ \E k \in Knock : BeginKnockTurn(d, k)
  PROVE  FollowStep /\ WakeStep
<1> DEFINE yes == TRUE
           s == [local[d] EXCEPT !.turnStarted = yes]
           n == SeenEnd(local[d])
<1>1. DoormanTypeOK /\ local[d] \in Local /\ local[d].active = Active(d)
  BY Stands
<1>2. yes \in BOOLEAN /\ Seen(local[d]) \subseteq Seen(s)
  BY <1>1 DEF Seen, Local
<1>3. Seen(local[d]) \subseteq Seen(n)
  BY <1>1 DEF Seen, Local, SeenEnd
<1>4. WakeStep
  <2>1. CASE NoteEnd(d)
    BY <2>1 DEF NoteEnd, WakeStep
  <2>2. ASSUME NEW k \in Knock, BeginKnockTurn(d, k) PROVE WakeStep
    BY <1>1, <2>2 DEF BeginKnockTurn, WakeStep, Put, DoormanTypeOK
  <2> QED
    BY <2>1, <2>2
<1>5. local' = local \/ local' = Put(local, d, s) \/ local' = Put(local, d, n)
  <2>1. CASE NoteEnd(d)
    BY <2>1 DEF NoteEnd, Observe
  <2>2. ASSUME NEW k \in Knock, BeginKnockTurn(d, k) PROVE local' = local \/ local' = Put(local, d, s)
    BY <2>2 DEF BeginKnockTurn, Observe
  <2> QED
    BY <2>1, <2>2
<1> HIDE DEF yes
<1>6. s \in Local /\ s.active = Active(d) /\ n \in Local /\ n.active = Active(d)
  BY <1>1, <1>2, LocalRows DEF Local
<1>7. Follows(d, s) /\ Follows(d, n)
  BY <1>2, <1>3, <1>6 DEF Follows
<1> HIDE DEF s, n
<1> QED
  BY <1>1, <1>4, <1>5, <1>6, <1>7, FollowsAlone, FollowsStill

\* A doorman that is cleared answers for nothing.
LEMMA ClearingFollows ==
  ASSUME DoormanInv, NEW d \in Doorman,
         CompletionSettled(d) \/ Crash(d) \/ \E k \in Knock : FailReturns(d, k)
  PROVE  FollowStep /\ WakeStep
<1>1. DoormanTypeOK /\ local' = Put(local, d, Cleared) /\ Follows(d, Cleared)
  BY LocalRows DEF CompletionSettled, FailReturns, Crash, DoormanInv, Follows
<1>2. WakeStep
  <2>1. CASE Crash(d)
    BY <1>1, <2>1 DEF Crash, WakeStep, Put, DoormanTypeOK
  <2>2. CASE CompletionSettled(d) \/ \E k \in Knock : FailReturns(d, k)
    BY <2>2 DEF CompletionSettled, FailReturns, turns, WakeStep
  <2> QED
    BY <2>1, <2>2
<1> QED
  BY <1>1, <1>2, LocalRows, FollowsAlone

\* The steps that neither inject nor move what a doorman follows.
LEMMA RestFollows ==
  ASSUME DoormanInv, UNCHANGED <<local, queued>> PROVE FollowStep /\ WakeStep
  BY FollowsStill DEF WakeStep

\* A step of the doormen wakes for the holder, and replaces no wake that was injected.
LEMMA WakingSteps == ASSUME DoormanInv, [DoormanNext]_all PROVE WakeStep /\ FollowStep
<1>1. CASE UNCHANGED all
  BY <1>1, RestFollows DEF all
<1>2. ASSUME NEW d \in Doorman, Poll(d) \/ TickFails(d) \/ HostSettles(d) \/ BeginOtherTurn(d) PROVE WakeStep /\ FollowStep
  <2>1. UNCHANGED <<local, queued>>
    BY <1>2 DEF Poll, TickFails, HostSettles, BeginOtherTurn, turns
  <2> QED
    BY <2>1, RestFollows
<1>3. ASSUME NEW d \in Doorman, NEW i \in Claims, HostClaims(d, i) \/ ClaimEnds(d, i) PROVE WakeStep /\ FollowStep
  <2>1. UNCHANGED <<local, queued>>
    BY <1>3 DEF HostClaims, ClaimEnds, turns
  <2> QED
    BY <2>1, RestFollows
<1>4. ASSUME NEW d \in Doorman, EndTurn(d) PROVE WakeStep /\ FollowStep
  <2>1. UNCHANGED <<local, queued>>
    BY <1>4, TurnOverTyped DEF EndTurn, TurnOver
  <2> QED
    BY <2>1, RestFollows
<1>5. ASSUME NEW d \in Doorman, NEW i \in Claims, Deliver(d, i) PROVE WakeStep /\ FollowStep
  BY <1>5, InjectionStep
<1>6. ASSUME NEW d \in Doorman, TickDelivers(d) PROVE WakeStep /\ FollowStep
  BY <1>6, InjectionStep
<1>7. ASSUME NEW d \in Doorman, TickSettles(d) \/ SettleFails(d) \/ StartSettled(d) PROVE WakeStep /\ FollowStep
  <2>1. FollowStep /\ queued' = queued
    BY <1>7, SettlingFollows
  <2> QED
    BY <2>1 DEF WakeStep
<1>8. ASSUME NEW d \in Doorman, NoteEnd(d) PROVE WakeStep /\ FollowStep
  BY <1>8, NotingFollows
<1>9. ASSUME NEW d \in Doorman, CompletionSettled(d) \/ Crash(d) PROVE WakeStep /\ FollowStep
  BY <1>9, ClearingFollows
<1>10. ASSUME NEW d \in Doorman, NEW k \in Knock, HostFails(d, k) \/ FailReturns(d, k) \/ BeginKnockTurn(d, k)
       PROVE  WakeStep /\ FollowStep
  <2>1. CASE HostFails(d, k)
    BY <2>1, RestFollows DEF HostFails, turns
  <2> QED
    BY <1>10, <2>1, ClearingFollows, NotingFollows
<1>11. ASSUME NEW k \in Knock, Asked(k) \/ LeaseLapses(k) \/ ExchangeExpires(k) PROVE WakeStep /\ FollowStep
  <2>1. UNCHANGED <<local, queued>>
    BY <1>11 DEF Asked, LeaseLapses, ExchangeExpires, turns
  <2> QED
    BY <2>1, RestFollows
<1> QED
  BY <1>1, <1>2, <1>3, <1>4, <1>5, <1>6, <1>7, <1>8, <1>9, <1>10, <1>11 DEF DoormanNext

\* In every behaviour of the doormen, who was told of a lease and has not yet
\* injected its wake holds it (claim, deliverActiveKnock).
LEMMA LeasesAreHeld == DoormanSpec => []DoormanInv
<1>1. DoormanInit => DoormanInv
  BY DoormanStarts
<1>2. DoormanInv /\ [DoormanNext]_all => DoormanInv'
  BY DoormanSteps
<1> QED
  BY <1>1, <1>2, PTL DEF DoormanSpec

\* The doormen's state, their calls and their agents keep their types.
THEOREM DoormanTypes == DoormanSpec => []DoormanTypeOK
<1>1. DoormanInv => DoormanTypeOK
  BY DEF DoormanInv
<1> QED
  BY <1>1, LeasesAreHeld, PTL

\* A wake is injected only by the session that leased the Knock last
\* (deliverActiveKnock, behind a claim whose answer may be late).
THEOREM WakeIsTheHolders == DoormanSpec => WakesTheHolder
<1>1. DoormanInv /\ [DoormanNext]_all => WakeStep
  BY WakingSteps
<1>2. DoormanInv /\ [DoormanNext]_all => [WakeStep]_all
  BY <1>1
<1>3. DoormanSpec => [][WakeStep]_all
  BY <1>2, LeasesAreHeld, PTL DEF DoormanSpec
<1> QED
  BY <1>3 DEF WakesTheHolder, WakeStep

\* A Knock that was delivered is released before another takes its place, and
\* what was seen of its start and its turn is not forgotten until then.
THEOREM DeliveredIsFollowed == DoormanSpec => NeverReplaced
<1>1. DoormanInv /\ [DoormanNext]_all => FollowStep
  BY WakingSteps
<1>2. DoormanInv /\ [DoormanNext]_all => [FollowStep]_all
  BY <1>1
<1>3. DoormanSpec => [][FollowStep]_all
  BY <1>2, LeasesAreHeld, PTL DEF DoormanSpec
<1> QED
  BY <1>3 DEF NeverReplaced, FollowStep
=============================================================================
