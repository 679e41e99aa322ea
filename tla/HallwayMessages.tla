--------------------------- MODULE HallwayMessages ---------------------------
(***************************************************************************)
(* One hallway's messages (origami/src/hallways/messages.rs, bells.rs,      *)
(* channels.rs): sessions post and read, a room's inbox counts what none of *)
(* its sessions has read and the Bells addressed to it.                     *)
(*                                                                          *)
(* A post is one action: it holds the hallway's row from the sequence       *)
(* number to the commit, so messages commit in the order of their numbers   *)
(* and of their ids, and a number stands for both.  A read locks its own    *)
(* session's presence and nothing of the room's, so it is three: the page,  *)
(* the room's sequence, and the statements that write.                      *)
(***************************************************************************)
EXTENDS Naturals, Sequences, FiniteSets

CONSTANTS Chambers,   \* rooms the hallway allows
          Ears,       \* sessions that read; any room may post
          Home,       \* the room of each session
          MaxPosts,   \* bound: messages
          PageLimit   \* the limit a read asks for

ASSUME MessagesAssumption == /\ Home \in [Ears -> Chambers]
                             /\ MaxPosts \in Nat
                             /\ PageLimit \in Nat \ {0}

VARIABLES messages,  \* hallway_messages, by sequence; `to` is to_rooms
          bells,     \* hallway_notifications: unread Bells, <<room, sequence>>
          inbox,     \* hallway_room_state
          cursor,    \* hallway_presences.read_cursor
          reading,   \* each session's read under way
          shown      \* history: what committed reads showed each room

messagesVars == <<messages, bells, inbox, cursor, reading, shown>>

Numbers == 1..Len(messages)
NotReading == [at |-> "rest", rows |-> {}, sequence |-> 0, upTo |-> 0]

MessagesInit ==
    /\ messages = <<>>
    /\ bells = {}
    /\ inbox = [c \in Chambers |-> [read |-> 0, revision |-> 0]]
    /\ cursor = [s \in Ears |-> 0]
    /\ reading = [s \in Ears |-> NotReading]
    /\ shown = [c \in Chambers |-> {}]

----------------------------------------------------------------------------
Bumped == [c \in Chambers |-> [inbox[c] EXCEPT !.revision = @ + 1]]
Minted(to, n) == bells \cup {<<c, n>> : c \in to}

ThreadIds == {messages[n].thread : n \in Numbers}

\* hallway_post with a fresh key; a key used before is a duplicate or refused,
\* and changes nothing.  A reply joins its parent's thread, a root its day's.
PostMessage(c) ==
    LET n == Len(messages) + 1 IN
    /\ n <= MaxPosts
    /\ \E to \in SUBSET (Chambers \ {c}), thread \in ThreadIds \cup {n} :
          /\ messages' = Append(messages, [from |-> c, thread |-> thread, to |-> to])
          /\ bells' = Minted(to, n)
          /\ inbox' = Bumped
    /\ UNCHANGED <<cursor, reading, shown>>

----------------------------------------------------------------------------
First(ns) == {n \in ns : Cardinality({k \in ns : k <= n}) <= PageLimit}
Last(ns, default) == IF ns = {} THEN default ELSE CHOOSE n \in ns : \A k \in ns : k <= n
Greater(a, b) == IF a < b THEN b ELSE a

Look(s, ns, upTo) == reading' = [reading EXCEPT ![s] = [at |-> "shown", rows |-> ns,
                                                       sequence |-> 0, upTo |-> upTo]]

\* The page after the session's cursor or the caller's, or that of a thread,
\* which does not move the cursor.
BeginRead(s) ==
    /\ reading[s].at = "rest"
    /\ \/ \E after \in {0, cursor[s]} :
             LET page == First({n \in Numbers : n > after}) IN
             Look(s, page, Greater(cursor[s], Last(page, after)))
       \/ \E thread \in ThreadIds :
             Look(s, First({n \in Numbers : messages[n].thread = thread}), cursor[s])
    /\ UNCHANGED <<messages, bells, inbox, cursor, shown>>

\* The room's sequence is read by the next statement, without a lock.
SelectSequence(s) ==
    /\ reading[s].at = "shown"
    /\ reading' = [reading EXCEPT ![s].at = "counted",
                                  ![s].sequence = inbox[Home[s]].read]
    /\ UNCHANGED <<messages, bells, inbox, cursor, shown>>

\* The contiguous run of the page beyond the sequence that was read.
Covered_Gaps(s) == Last({n \in reading[s].rows : n > reading[s].sequence}, reading[s].sequence)
Covered(s) ==
    Last({n \in reading[s].rows : /\ n > reading[s].sequence
                                  /\ (reading[s].sequence + 1)..n \subseteq reading[s].rows},
         reading[s].sequence)

Acknowledged_Home(s) == {b \in bells : b[1] = Home[s]}
Acknowledged(s) == {b \in bells : b[1] = Home[s] /\ b[2] \in reading[s].rows}

Changed(s) == Acknowledged(s) # {} \/ Covered(s) > reading[s].sequence

Advanced(s) == Greater(inbox[Home[s]].read, Covered(s))

\* hallway_read that advances: cursor, Bells and room state in one commit.
AdvanceRead(s) ==
    LET c == Home[s] IN
    /\ reading[s].at = "counted"
    /\ cursor' = [cursor EXCEPT ![s] = reading[s].upTo]
    /\ bells' = bells \ Acknowledged(s)
    /\ inbox' = IF Changed(s)
                THEN [inbox EXCEPT ![c] = [read |-> Advanced(s), revision |-> @.revision + 1]]
                ELSE inbox
    /\ shown' = [shown EXCEPT ![c] = @ \cup reading[s].rows]
    /\ reading' = [reading EXCEPT ![s] = NotReading]
    /\ UNCHANGED messages

\* A read that does not advance, or one whose transaction is lost.
EndRead(s) ==
    /\ reading[s].at = "counted"
    /\ reading' = [reading EXCEPT ![s] = NotReading]
    /\ UNCHANGED <<messages, bells, inbox, cursor, shown>>

MessagesNext ==
    \/ \E c \in Chambers : PostMessage(c)
    \/ \E s \in Ears : BeginRead(s) \/ SelectSequence(s) \/ AdvanceRead(s) \/ EndRead(s)

MessagesSpec == MessagesInit /\ [][MessagesNext]_messagesVars

----------------------------------------------------------------------------
MessagesTypeOK ==
    /\ messages \in Seq([from : Chambers, thread : 1..MaxPosts, to : SUBSET Chambers])
    /\ Len(messages) <= MaxPosts
    /\ bells \subseteq Chambers \X Numbers
    /\ inbox \in [Chambers -> [read : 0..Len(messages), revision : Nat]]
    /\ cursor \in [Ears -> 0..Len(messages)]
    /\ \A s \in Ears : /\ reading[s].at \in {"rest", "shown", "counted"}
                       /\ reading[s].rows \subseteq Numbers
                       /\ reading[s].sequence \in 0..Len(messages)
                       /\ reading[s].upTo \in 0..Len(messages)
    /\ shown \in [Chambers -> SUBSET Numbers]

\* Nothing drops out of an inbox unseen: what a room's read sequence covers,
\* and every message addressed to it whose Bell it no longer counts, was shown
\* by reads of that room, in whatever order its sessions' reads of pages and
\* threads committed.
SequenceWasShown == \A c \in Chambers : 1..inbox[c].read \subseteq shown[c]
BellsWereShown ==
    \A c \in Chambers, n \in Numbers :
       c \in messages[n].to => <<c, n>> \in bells \/ n \in shown[c]
ReadWasShown == SequenceWasShown /\ BellsWereShown

\* A watcher polls the revision: whatever changes in what a room's inbox
\* counts raises it, and what was read never becomes unread again.
Unread(c) == {n \in Numbers : n > inbox[c].read /\ messages[n].from # c}
InboxIsAnnounced ==
    [][\A c \in Chambers :
          /\ inbox'[c].read >= inbox[c].read
          /\ Unread(c)' # Unread(c) \/ (\E n \in Numbers : <<c, n>> \in bells \ bells')
                => inbox'[c].revision > inbox[c].revision]_messagesVars
=============================================================================
