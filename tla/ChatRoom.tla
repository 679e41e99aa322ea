------------------------------- MODULE ChatRoom -------------------------------
(***************************************************************************)
(* The room's chat: the Host's ring of lines and drafts, the surface that   *)
(* says, and the doormen of an OMP process, which inject each unanswered    *)
(* say as a turn and report how it settled. Every request has a socket of   *)
(* its own: what was given up may still be handled, in any order.           *)
(***************************************************************************)
EXTENDS Naturals, Sequences, FiniteSets, SequencesExt

CONSTANTS Sessions,         \* of one process, 1..n; their doormen stand in this order
          Says,             \* the say ids, 1..n, said in order
          RingSize,         \* CHAT_MAX_ENTRIES, 256 in the code
          MaxDrafts,        \* CHAT_MAX_DRAFTS, 8 in the code
          MaxMessages,      \* of the sessions together
          MaxUpsets         \* faults and session changes

ASSUME SaysAreNumbered == Says \subseteq Nat \ {0}
ASSUME SessionsAreNumbered == Sessions \subseteq Nat \ {0}

VARIABLES
    ring,       \* entries: who wrote, for which say, and (a spirit) which message, which steps
    chatDrafts, \* drafts: oldest first, each with the messages it shows
    wire,       \* requests that were sent and not handled
    surface,    \* per say: unsaid, sending, undelivered, abandoned, said
    topSession, \* topLevelSessions of the room, 0 if none
    doormen,    \* chatDoormen, per session
    transcript, \* per session: messages, in the order they started
    agent,      \* per session: idle, running
    inbox,      \* per session: says injected and not dispatched
    turnEnds,   \* per session: agent_end notifications to come
    strayed,    \* says that a doorman held when the room's session changed (history)
    upsets      \* faults so far

chatHost == <<ring, chatDrafts>>
omp == <<transcript, agent, inbox, turnEnds>>
chatVars == <<chatHost, wire, surface, topSession, doormen, omp, strayed, upsets>>

Upset == upsets < MaxUpsets /\ upsets' = upsets + 1

\* An answer that does not come in time, or never will.
GivenUp(r) == IF r \in wire THEN Upset ELSE UNCHANGED upsets

NoReport == [say |-> 0, message |-> 0, steps |-> {}]
NewDoorman == [up |-> TRUE, pending |-> 0, owned |-> FALSE, shows |-> {}, dirty |-> FALSE,
               flushing |-> FALSE, report |-> NoReport, ticking |-> FALSE, seen |-> 0,
               reporting |-> FALSE]

ChatInit ==
    /\ ring = <<>> /\ chatDrafts = <<>> /\ wire = {} /\ surface = [i \in Says |-> "unsaid"]
    /\ topSession = 1 /\ doormen = [s \in Sessions |-> [NewDoorman EXCEPT !.up = (s = 1)]]
    /\ transcript = [s \in Sessions |-> <<>>] /\ agent = [s \in Sessions |-> "idle"]
    /\ inbox = [s \in Sessions |-> <<>>] /\ turnEnds = [s \in Sessions |-> 0] /\ upsets = 0 /\ strayed = {}

-----------------------------------------------------------------------------
(* The Host. *)

HasLine(author, say) == \E k \in DOMAIN ring : ring[k].author = author /\ ring[k].say = say

Appended(line) == LET all == Append(ring, line)
                  IN IF Len(all) > RingSize THEN Tail(all) ELSE all

Without(say) == SelectSeq(chatDrafts, LAMBDA d : d.say # say)

\* A draft is replaced whole, and a settled turn has none.
Drafted(r) ==
    IF HasLine("spirit", r.say) THEN chatDrafts
    ELSE LET all == Append(Without(r.say), [say |-> r.say, shows |-> r.shows])
         IN IF Len(all) > MaxDrafts THEN Tail(all) ELSE all

HandleSay(r) ==
    /\ r.kind = "say"
    /\ ring' = IF HasLine("operator", r.say) THEN ring
               ELSE Appended([author |-> "operator", say |-> r.say, message |-> <<0, 0>>, steps |-> {}])
    /\ surface' = [surface EXCEPT ![r.say] = IF @ = "sending" THEN "said" ELSE @]
    /\ UNCHANGED <<chatDrafts, doormen>>

\* The doorman that waits for the answer forgets the say.
HandleTurn(r) ==
    /\ r.kind = "turn"
    /\ chatDrafts' = Without(r.say)
    /\ ring' = IF HasLine("spirit", r.say) THEN ring
               ELSE Appended([author |-> "spirit", say |-> r.say,
                              message |-> <<r.from, r.message>>, steps |-> r.steps])
    /\ doormen' = [doormen EXCEPT ![r.from] =
                     IF @.reporting /\ @.report.say = r.say
                     THEN [@ EXCEPT !.pending = 0, !.owned = FALSE, !.shows = {}, !.dirty = FALSE,
                                    !.flushing = FALSE, !.report = NoReport, !.reporting = FALSE]
                     ELSE @]
    /\ UNCHANGED surface

HandleDraft(r) ==
    /\ r.kind = "draft"
    /\ chatDrafts' = Drafted(r)
    /\ doormen' = [doormen EXCEPT ![r.from].flushing = @ /\ doormen[r.from].pending # r.say]
    /\ UNCHANGED <<ring, surface>>

Unanswered == {ring[k].say : k \in {j \in DOMAIN ring : ring[j].author = "operator"
                                                          /\ ~HasLine("spirit", ring[j].say)}}

\* The oldest line that has no answer, 0 if none.
FirstUnanswered ==
    LET open == {k \in DOMAIN ring : ring[k].author = "operator" /\ ring[k].say \in Unanswered}
    IN IF open = {} THEN 0 ELSE ring[Min(open)].say

HandleSubscribe(r) ==
    /\ r.kind = "subscribe"
    /\ doormen' = [doormen EXCEPT ![r.from].seen = IF doormen[r.from].ticking THEN FirstUnanswered ELSE @]
    /\ UNCHANGED <<chatHost, surface>>

HandleChat ==
    /\ \E r \in wire : /\ wire' = wire \ {r}
                       /\ (HandleSay(r) \/ HandleTurn(r) \/ HandleDraft(r) \/ HandleSubscribe(r))
    /\ UNCHANGED <<topSession, omp, upsets, strayed>>

\* The ring is in memory.
RestartChatHost ==
    /\ Upset /\ ring' = <<>> /\ chatDrafts' = <<>> /\ wire' = {}
    /\ UNCHANGED <<surface, topSession, doormen, omp, strayed>>

LoseRequest ==
    /\ Upset /\ \E r \in wire : wire' = wire \ {r}
    /\ UNCHANGED <<chatHost, surface, topSession, doormen, omp, strayed>>

-----------------------------------------------------------------------------
(* The surface. *)

\* A line that was not delivered is said again under its id, or abandoned for the next.
Say ==
    /\ \A i \in Says : surface[i] # "sending"
    /\ \E i \in Says :
         /\ \/ surface[i] = "undelivered"
            \/ surface[i] = "unsaid" /\ \A j \in Says : j < i => surface[j] # "unsaid"
         /\ surface' = [j \in Says |-> IF j = i THEN "sending"
                                       ELSE IF surface[j] = "undelivered" THEN "abandoned" ELSE surface[j]]
         /\ wire' = wire \cup {[kind |-> "say", say |-> i]}
    /\ UNCHANGED <<chatHost, topSession, doormen, omp, upsets, strayed>>

SayFails ==
    /\ \E i \in Says : /\ surface[i] = "sending" /\ surface' = [surface EXCEPT ![i] = "undelivered"]
                       /\ GivenUp([kind |-> "say", say |-> i])
    /\ UNCHANGED <<chatHost, wire, topSession, doormen, omp, strayed>>

-----------------------------------------------------------------------------
(* A doorman. *)

Mine(s) == topSession = s /\ doormen[s].up
Idle(s) == agent[s] = "idle" /\ inbox[s] = <<>>

TurnReport(s, report) == [kind |-> "turn", from |-> s, say |-> report.say,
                          message |-> report.message, steps |-> report.steps]
Report(s, report) == wire' = wire \cup {TurnReport(s, report)}

DeliverChatReport(s) ==
    /\ Mine(s) /\ ~doormen[s].ticking /\ ~doormen[s].reporting /\ doormen[s].report # NoReport
    /\ Report(s, doormen[s].report)
    /\ doormen' = [doormen EXCEPT ![s].reporting = TRUE]
    /\ UNCHANGED <<chatHost, surface, topSession, omp, upsets, strayed>>

TickChatDoorman(s) ==
    /\ Mine(s) /\ ~doormen[s].ticking /\ ~doormen[s].reporting
    /\ doormen[s].report = NoReport /\ doormen[s].pending = 0 /\ Idle(s)
    /\ doormen' = [doormen EXCEPT ![s].ticking = TRUE, ![s].seen = 0]
    /\ wire' = wire \cup {[kind |-> "subscribe", from |-> s]}
    /\ UNCHANGED <<chatHost, surface, topSession, omp, upsets, strayed>>

\* The snapshot is there: the session may have changed while it was awaited.
Inject(s) ==
    /\ doormen[s].ticking /\ [kind |-> "subscribe", from |-> s] \notin wire
    /\ IF Mine(s) /\ Idle(s) /\ doormen[s].seen # 0
       THEN /\ doormen' = [doormen EXCEPT ![s].ticking = FALSE, ![s].pending = doormen[s].seen,
                                           ![s].owned = FALSE, ![s].shows = {}, ![s].dirty = FALSE,
                                           ![s].flushing = FALSE]
            /\ inbox' = [inbox EXCEPT ![s] = Append(@, doormen[s].seen)]
       ELSE doormen' = [doormen EXCEPT ![s].ticking = FALSE] /\ UNCHANGED inbox
    /\ UNCHANGED <<chatHost, wire, surface, topSession, transcript, agent, turnEnds, upsets, strayed>>

\* A request that timed out, refused or found no Host: the report is kept.
RequestFails(s) ==
    /\ \/ /\ doormen[s].reporting /\ doormen' = [doormen EXCEPT ![s].reporting = FALSE]
          /\ GivenUp(TurnReport(s, doormen[s].report))
       \/ /\ doormen[s].flushing /\ doormen' = [doormen EXCEPT ![s].flushing = FALSE]
          /\ IF \E r \in wire : r.kind = "draft" /\ r.from = s THEN Upset ELSE UNCHANGED upsets
       \/ /\ doormen[s].ticking /\ doormen' = [doormen EXCEPT ![s].ticking = FALSE]
          /\ GivenUp([kind |-> "subscribe", from |-> s])
    /\ UNCHANGED <<chatHost, wire, surface, topSession, omp, strayed>>

FlushDraft(s) ==
    /\ doormen[s].up /\ doormen[s].dirty /\ ~doormen[s].flushing
    /\ doormen[s].pending # 0 /\ doormen[s].report = NoReport
    /\ doormen' = [doormen EXCEPT ![s].flushing = TRUE, ![s].dirty = FALSE]
    /\ wire' = wire \cup {[kind |-> "draft", from |-> s, say |-> doormen[s].pending,
                           shows |-> doormen[s].shows]}
    /\ UNCHANGED <<chatHost, surface, topSession, omp, upsets, strayed>>

-----------------------------------------------------------------------------
(* What a session's agent says, and what the doormen make of it. *)

Room == FoldFunction(LAMBDA t, n : Len(t) + n, 0, transcript) < MaxMessages
Origin(say) == [kind |-> "origin", say |-> say, settled |-> FALSE]
Reply(settled) == [kind |-> "reply", say |-> 0, settled |-> settled]

\* noteChatMessageStart of a user's or a generated message, in every doorman.
Originated(say) ==
    doormen' = [s \in Sessions |->
                  IF doormen[s].up /\ doormen[s].pending # 0 /\ doormen[s].report = NoReport
                  THEN [doormen[s] EXCEPT !.owned = (say = doormen[s].pending)] ELSE doormen[s]]

\* OMP takes an injected say as the origin of a turn.
DispatchSay(s) ==
    /\ topSession = s /\ agent[s] = "idle" /\ inbox[s] # <<>> /\ Room
    /\ inbox' = [inbox EXCEPT ![s] = Tail(@)]
    /\ transcript' = [transcript EXCEPT ![s] = Append(@, Origin(Head(inbox[s])))]
    /\ agent' = [agent EXCEPT ![s] = "running"]
    /\ Originated(Head(inbox[s]))
    /\ UNCHANGED <<chatHost, wire, surface, topSession, turnEnds, upsets, strayed>>

\* A user's message, or another House door's, between or within turns.
Prompt(s) ==
    /\ topSession = s /\ Room
    /\ transcript' = [transcript EXCEPT ![s] = Append(@, Origin(0))]
    /\ agent' = [agent EXCEPT ![s] = "running"]
    /\ Originated(0)
    /\ UNCHANGED <<chatHost, wire, surface, topSession, inbox, turnEnds, upsets, strayed>>

\* An async result wakes an idle agent: the turn that follows has no origin of its own.
FollowUp(s) ==
    /\ topSession = s /\ agent[s] = "idle" /\ transcript[s] # <<>> /\ Room
    /\ agent' = [agent EXCEPT ![s] = "running"]
    /\ UNCHANGED <<chatHost, wire, surface, topSession, doormen, transcript, inbox, turnEnds, upsets,
                   strayed>>

\* draftingDoorman: the first that answers.
Drafting == {s \in Sessions : doormen[s].up /\ doormen[s].pending # 0 /\ doormen[s].owned
                               /\ doormen[s].report = NoReport}

\* Mutant: an ended answer still owns what the session says.
Ended_Owned(draft, settled) == draft

\* noteChatMessageEnd.
Ended(draft, settled) == [draft EXCEPT !.owned = ~settled]

\* An assistant message starts, streams and ends, with the tools it calls.
Speak(s, settled) ==
    /\ topSession = s /\ agent[s] = "running" /\ Room
    /\ transcript' = [transcript EXCEPT ![s] = Append(@, Reply(settled))]
    /\ doormen' = [t \in Sessions |->
                     IF t \in Drafting /\ \A u \in Drafting : t <= u
                     THEN Ended([doormen[t] EXCEPT !.shows = @ \cup {<<s, Len(transcript[s]) + 1>>},
                                                   !.dirty = TRUE], settled)
                     ELSE doormen[t]]
    /\ agent' = [agent EXCEPT ![s] = IF settled THEN "idle" ELSE @]
    /\ turnEnds' = [turnEnds EXCEPT ![s] = IF settled THEN @ + 1 ELSE @]
    /\ UNCHANGED <<chatHost, wire, surface, topSession, inbox, upsets, strayed>>

\* A turn ends with no settled message.
TurnVanishes(s) ==
    /\ Upset /\ agent[s] = "running"
    /\ agent' = [agent EXCEPT ![s] = "idle"]
    /\ turnEnds' = [turnEnds EXCEPT ![s] = @ + 1]
    /\ UNCHANGED <<chatHost, wire, surface, topSession, doormen, transcript, inbox, strayed>>

\* Mutant: the latest reply of the session, whatever began its turn.
Owned_Latest(s, from) == {i \in from + 1..Len(transcript[s]) : i = Len(transcript[s])}

\* The messages that follow an origin up to the next one.
Owned(s, from) ==
    {i \in from + 1..Len(transcript[s]) :
        \A j \in from + 1..i : transcript[s][j].kind # "origin"}

\* Mutant: the latest settled reply of the turn.
SettledReply_Latest(s, say) ==
    LET origins == {i \in DOMAIN transcript[s] : transcript[s][i] = Origin(say)}
        last == CHOOSE i \in origins : \A j \in origins : j <= i
        settled == {i \in Owned(s, last) : transcript[s][i] = Reply(TRUE)}
    IN IF origins = {} \/ settled = {} THEN 0
       ELSE CHOOSE i \in settled : \A j \in settled : j <= i

\* noteChatTurnEnd: the first settled reply after the last injection of the say.
SettledReply(s, say) ==
    LET origins == {i \in DOMAIN transcript[s] : transcript[s][i] = Origin(say)}
        last == CHOOSE i \in origins : \A j \in origins : j <= i
        settled == {i \in Owned(s, last) : transcript[s][i] = Reply(TRUE)}
    IN IF origins = {} \/ settled = {} THEN 0
       ELSE CHOOSE i \in settled : \A j \in settled : i <= j

AgentEnd(s) ==
    /\ turnEnds[s] > 0
    /\ turnEnds' = [turnEnds EXCEPT ![s] = @ - 1]
    /\ LET d == doormen[s]
           i == IF d.pending = 0 THEN 0 ELSE SettledReply(s, d.pending)
           report == [say |-> d.pending, message |-> i, steps |-> d.shows]
       IN IF Mine(s) /\ d.pending # 0 /\ d.report = NoReport /\ i # 0
          THEN /\ doormen' = [doormen EXCEPT ![s].report = report, ![s].reporting = TRUE]
               /\ Report(s, report)
          ELSE UNCHANGED <<doormen, wire>>
    /\ UNCHANGED <<chatHost, surface, topSession, transcript, agent, inbox, upsets, strayed>>

-----------------------------------------------------------------------------
(* Sessions. *)

\* session_switch: the room's session is replaced and its turn is over; the doorman
\* left keeps what it holds.
SwitchSession(s) ==
    /\ Upset /\ topSession # s /\ topSession' = s
    /\ doormen' = [doormen EXCEPT ![s] = IF @.up THEN @ ELSE NewDoorman]
    /\ agent' = [t \in Sessions |-> "idle"]
    /\ turnEnds' = [t \in Sessions |-> IF agent[t] = "running" THEN turnEnds[t] + 1 ELSE turnEnds[t]]
    /\ strayed' = strayed \cup ({doormen[t].pending : t \in Sessions} \ {0})
    /\ UNCHANGED <<chatHost, wire, surface, transcript, inbox>>

\* The process ends and the session is resumed: its transcript is kept.
RestartOmp ==
    /\ Upset /\ topSession # 0
    /\ doormen' = [s \in Sessions |-> [NewDoorman EXCEPT !.up = (s = topSession)]]
    /\ agent' = [s \in Sessions |-> "idle"] /\ inbox' = [s \in Sessions |-> <<>>]
    /\ turnEnds' = [s \in Sessions |-> 0]
    /\ UNCHANGED <<chatHost, wire, surface, topSession, transcript, strayed>>

ChatNext ==
    \/ HandleChat \/ RestartChatHost \/ LoseRequest \/ Say \/ SayFails \/ RestartOmp
    \/ \E s \in Sessions :
         \/ DeliverChatReport(s) \/ TickChatDoorman(s) \/ Inject(s) \/ RequestFails(s) \/ FlushDraft(s)
         \/ DispatchSay(s) \/ Prompt(s) \/ FollowUp(s) \/ Speak(s, TRUE) \/ Speak(s, FALSE)
         \/ TurnVanishes(s) \/ AgentEnd(s) \/ SwitchSession(s)

ChatSpec == ChatInit /\ [][ChatNext]_chatVars

-----------------------------------------------------------------------------
(* Properties. *)

\* The message that began the turn of a message: the last origin before it, 0 if none.
OriginOf(m) ==
    LET origins == {i \in 1..m[2] : transcript[m[1]][i].kind = "origin"}
    IN IF origins = {} THEN 0 ELSE CHOOSE i \in origins : \A j \in origins : j <= i

\* The messages of that turn, up to this one.
TurnTo(m) == OriginOf(m) + 1..m[2]

FirstSettledOf(k) ==
    LET m == ring[k].message IN
    /\ OriginOf(m) # 0 /\ transcript[m[1]][OriginOf(m)] = Origin(ring[k].say)
    /\ {i \in TurnTo(m) : transcript[m[1]][i] = Reply(TRUE)} = {m[2]}

StepsOfTheTurn(k) ==
    ring[k].steps \subseteq {ring[k].message[1]} \X TurnTo(ring[k].message)

SpiritLines == {k \in DOMAIN ring : ring[k].author = "spirit"}

\* chat.ts:215-217, 227-228: the line that answers a say is the first settled reply of a
\* turn which that say began, never a follow-up's, and its steps are that turn's up to
\* that reply, though reports are lost and repeated, the notice of the end comes late and
\* finds an async result's reply, and OMP restarts. Of a say that a doorman held while
\* the room's session changed, only the reply is sure.
AnswersAreTheirOwn ==
    \A k \in SpiritLines : FirstSettledOf(k) /\ (ring[k].say \in strayed \/ StepsOfTheTurn(k))

\* Does not hold. chat.ts:266-268 takes a process to carry one session: after a change of
\* session two doormen may hold one say, each message is noted in the draft of the first
\* of them, and the steps of one session's turn are told with the other's reply.
StepsAreAlwaysItsTurns == \A k \in SpiritLines : StepsOfTheTurn(k)
=============================================================================
