----------------------------- MODULE HostPresence -----------------------------
(***************************************************************************)
(* The presence of one OMP session: the row the store keeps, the session    *)
(* and the replay ledger in the Host's memory, and the adapter that opens a *)
(* frame, compiles a contract each turn, settles it and closes to sleep.    *)
(* The Host answers every door under its runtime lock, so a door is a step; *)
(* its request, its answer or its write may be lost.                        *)
(***************************************************************************)
EXTENDS Naturals, Sequences, SequencesExt

CONSTANTS Materials,        \* what a frame may be assembled from; a frame id digests it
          Replies,          \* what the model may say in a turn
          Silence,          \* the empty reply
          Nil,
          Boats,            \* what the session may close with
          ReplayLimit,      \* PRESENCE_MAX_REPLAY_ENTRIES, 64 in the code
          MaxTurns, MaxLapses

ASSUME SilenceIsAReply == Silence \in Replies

\* What is not there is no contract, no row and no session.
ASSUME NilIsNothing ==
    /\ Nil \notin [frame : Materials, turn : Nat, number : Nat]
    /\ Nil \notin [live : BOOLEAN, frame : Materials, ledger : [contracts : Nat, repair : BOOLEAN]]
    /\ Nil \notin [frame : Materials, ledger : [contracts : Nat, repair : BOOLEAN],
                   active : [frame : Materials, turn : Nat, number : Nat] \cup {Nil}]

VARIABLES
    row,       \* presence_sessions, Nil before the first open
    session,   \* the PresenceSession in memory, Nil while there is none
    replay,    \* the ReplayLedger, oldest first
    turn,      \* how many turns the operator has begun
    step,      \* where the adapter stands in the turn
    frame,     \* the frame the adapter compiles against
    prior,     \* the frame the transcript's newest presence context names
    pending,   \* the contract the adapter has not settled
    missed,    \* history: the last write of what memory holds failed
    lossy,     \* history: memory went with something no write had saved
    learned,   \* history: the session settled a violation
    barren,    \* history: turns in a row without a contract, and no lapse since
    lapses     \* how many faults there were

presenceVars == <<row, session, replay, turn, step, frame, prior, pending,
                  missed, lossy, learned, barren, lapses>>

Steps == {"idle", "open", "compile", "speak"}
NoLedger == [contracts |-> 0, repair |-> FALSE]

PresenceInit ==
    /\ row = Nil /\ session = Nil /\ replay = <<>>
    /\ turn = 0 /\ step = "idle" /\ frame = Nil /\ prior = Nil /\ pending = Nil
    /\ missed = FALSE /\ lossy = FALSE /\ learned = FALSE /\ barren = 0 /\ lapses = 0

-----------------------------------------------------------------------------
(* The Host. A door works on what it holds: [row, session, replay, missed]. *)

Held == [row |-> row, session |-> session, replay |-> replay, missed |-> missed]

Adopted(h) == IF h.session = Nil /\ h.row # Nil /\ h.row.live
              THEN [h EXCEPT !.session = [frame |-> h.row.frame, ledger |-> h.row.ledger, active |-> Nil]]
              ELSE h

\* What a reopen carries forward: the ledger of the row that slept.
Carried(h) == IF h.row # Nil /\ ~h.row.live THEN h.row.ledger ELSE NoLedger

\* What is on record of a request that is asked again: one entry a key.
Recorded(h, key, body) == {r \in ToSet(h.replay) : r.key = key /\ r.body = body}
Recalled(h, key, body) == (CHOOSE r \in Recorded(h, key, body) : TRUE).outcome
Conflict(h, key, body) == \E r \in ToSet(h.replay) : r.key = key /\ r.body # body

Record(h, key, body, outcome) ==
    LET old == {i \in DOMAIN h.replay : h.replay[i].key = key}
        others == IF old = {} THEN h.replay ELSE RemoveAt(h.replay, CHOOSE i \in old : TRUE)
        all == Append(others, [key |-> key, body |-> body, outcome |-> outcome])
    IN [h EXCEPT !.replay = IF Len(all) > ReplayLimit THEN Tail(all) ELSE all]

Answered(h, outcome) == [held |-> h, outcome |-> outcome]
Refusal(h) == Answered(h, Nil)

\* Mutant: a row that is absent or closed under a live process is left as it is.
Persisted_UpdateOnly(h, ok) ==
    IF h.session = Nil THEN h
    ELSE IF ~ok THEN [h EXCEPT !.missed = TRUE]
    ELSE [h EXCEPT !.missed = FALSE,
                   !.row = IF @ # Nil /\ @.live THEN [@ EXCEPT !.ledger = h.session.ledger] ELSE @]

\* A live row takes the ledger; one that is absent or closed is rewritten whole.
Persisted(h, ok) ==
    IF h.session = Nil THEN h
    ELSE IF ~ok THEN [h EXCEPT !.missed = TRUE]
    ELSE [h EXCEPT !.missed = FALSE,
                   !.row = IF @ # Nil /\ @.live THEN [@ EXCEPT !.ledger = h.session.ledger]
                           ELSE [live |-> TRUE, frame |-> h.session.frame, ledger |-> h.session.ledger]]

Opened(h0, materials) ==
    LET key == <<"open">>
        h == Adopted(h0)
    IN IF Recorded(h, key, materials) # {} THEN Answered(h, Recalled(h, key, materials))
       ELSE IF h.session # Nil
       THEN Answered(Record(h, key, materials, h.session.frame), h.session.frame)
       ELSE LET fresh == [frame |-> materials, ledger |-> Carried(h), active |-> Nil]
            IN Answered(Record([h EXCEPT !.session = fresh], key, materials, materials), materials)

Compiled(h0, target, t) ==
    LET key == <<"compile", t>>
        h == Adopted(h0)
    IN IF Recorded(h, key, target) # {} THEN Answered(h, Recalled(h, key, target))
       ELSE IF Conflict(h, key, target) \/ h.session = Nil THEN Refusal(h)
       ELSE IF h.session.frame # target THEN Refusal(h)
       ELSE LET number == h.session.ledger.contracts + 1
                contract == [frame |-> target, turn |-> t, number |-> number]
            IN Answered(Record([h EXCEPT !.session.ledger.contracts = number,
                                         !.session.active = contract],
                               key, target, contract), contract)

\* Only memory is asked: a session that the process does not hold is not adopted.
SettledBy(h, contract, reply) ==
    LET key == <<"settle", contract>>
    IN IF Recorded(h, key, reply) # {} THEN Answered(h, Recalled(h, key, reply))
       ELSE IF Conflict(h, key, reply) \/ h.session = Nil THEN Refusal(h)
       ELSE IF h.session.active # contract THEN Refusal(h)
       ELSE Answered(Record([h EXCEPT !.session.ledger.repair = @ \/ reply = Silence],
                            key, reply, contract), contract)

\* The material is sealed, the session leaves memory, and the row is closed with
\* the ledger it had. A close that replays over a live session closes its row alone.
ClosedBy(h0, boat, ok) ==
    LET key == <<"close", boat>>
        h == Adopted(h0)
        again == Recorded(h, key, Nil) # {}
        gone == IF again THEN h ELSE Record([h EXCEPT !.session = Nil], key, Nil, h.session)
        shut == IF ok /\ h.row # Nil /\ h.row.live
                THEN [gone EXCEPT !.row.live = FALSE, !.row.ledger = h.session.ledger] ELSE gone
    IN IF h.session = Nil THEN IF again THEN Answered(h, "closed") ELSE Refusal(h)
       ELSE Answered([shut EXCEPT !.missed = again /\ (ok \/ @)], "closed")

-----------------------------------------------------------------------------
(* The adapter, one call at a time. *)

Lapse == lapses < MaxLapses /\ lapses' = lapses + 1
Calm == UNCHANGED lapses

Holds(h) == /\ row' = h.row /\ session' = h.session
            /\ replay' = h.replay /\ missed' = h.missed

BeginTurn ==
    /\ step = "idle" /\ turn < MaxTurns
    /\ turn' = turn + 1
    /\ step' = IF prior = Nil THEN "open" ELSE "compile"
    /\ frame' = prior
    /\ UNCHANGED <<row, session, replay, prior, pending, missed, lossy, learned, barren, lapses>>

\* Barren is told of turns that nothing disturbed.
Degraded == step' = "speak" /\ UNCHANGED <<frame, prior, pending>>

\* The open is asked again on a connection that fails, and with other materials
\* in another turn.
OpenFrame ==
    /\ step = "open"
    /\ \/ \E m \in Materials, ok \in BOOLEAN :
            LET out == Opened(Held, m) IN
            /\ Holds(Persisted(out.held, ok))
            /\ \/ /\ frame' = out.outcome /\ step' = "compile"
                  /\ IF ok THEN Calm ELSE Lapse
                  /\ barren' = IF ok THEN barren ELSE 0
               \/ ok /\ Lapse /\ UNCHANGED <<frame, step>> /\ barren' = 0
            /\ UNCHANGED <<prior, pending>>
       \/ Lapse /\ Degraded /\ barren' = 0 /\ UNCHANGED <<row, session, replay, missed>>
    /\ UNCHANGED <<turn, lossy, learned>>

\* An additions message that carries the frame joins the transcript with the contract.
CompileTurn ==
    /\ step = "compile"
    /\ \/ \E ok \in BOOLEAN :
            LET out == Compiled(Held, frame, turn) IN
            IF out.outcome = Nil
            THEN /\ ok /\ Holds(out.held) /\ Calm /\ Degraded /\ barren' = barren + 1
            ELSE /\ Holds(Persisted(out.held, ok))
                 /\ \/ /\ IF ok THEN Calm ELSE Lapse
                       /\ pending' = out.outcome /\ prior' = frame
                       /\ step' = "speak" /\ barren' = 0 /\ UNCHANGED frame
                    \/ ok /\ Lapse /\ Degraded /\ barren' = 0
       \/ Lapse /\ Degraded /\ barren' = 0 /\ UNCHANGED <<row, session, replay, missed>>
    /\ UNCHANGED <<turn, lossy, learned>>

\* turn_end: the contract is forgotten when the Host has answered.
SettleTurn ==
    /\ step = "speak" /\ pending # Nil
    /\ \E reply \in Replies, ok \in BOOLEAN :
         LET out == SettledBy(Held, pending, reply) IN
         IF out.outcome = Nil
         THEN ok /\ Holds(out.held) /\ Calm /\ UNCHANGED <<pending, learned, barren>>
         ELSE /\ Holds(Persisted(out.held, ok))
              /\ learned' = (learned \/ reply = Silence)
              /\ \/ /\ IF ok THEN Calm ELSE Lapse
                    /\ pending' = Nil /\ barren' = IF ok THEN barren ELSE 0
                 \/ ok /\ Lapse /\ UNCHANGED pending /\ barren' = 0
    /\ UNCHANGED <<turn, step, frame, prior, lossy>>

EndTurn ==
    /\ step = "speak"
    /\ step' = "idle"
    /\ UNCHANGED <<row, session, replay, turn, frame, prior, pending, missed, lossy,
                   learned, barren, lapses>>

\* The sleep tool: the boat is written whatever the Host answers. A close repairs
\* no missed write when the row is absent or closed already.
CloseFrame ==
    /\ step = "speak"
    /\ \E boat \in Boats, ok \in BOOLEAN :
         /\ IF ok THEN Calm ELSE Lapse
         /\ Holds(ClosedBy(Held, boat, ok).held)
         /\ lossy' = (lossy \/ (missed /\ ~(ok /\ row # Nil /\ row.live)))
         /\ barren' = IF ok THEN barren ELSE 0
    /\ UNCHANGED <<turn, step, frame, prior, pending, learned>>

\* Compaction drops the message that carried the frame.
CompactTranscript ==
    /\ step = "idle" /\ prior # Nil
    /\ prior' = Nil
    /\ UNCHANGED <<row, session, replay, turn, step, frame, pending, missed, lossy,
                   learned, barren, lapses>>

\* OMP is started again on the session: its transcript is there, its map is not.
ResumeSession ==
    /\ Lapse
    /\ step' = "idle" /\ pending' = Nil /\ barren' = 0
    /\ UNCHANGED <<row, session, replay, turn, frame, prior, missed, lossy, learned>>

RestartHost ==
    /\ Lapse
    /\ session' = Nil /\ replay' = <<>> /\ missed' = FALSE /\ barren' = 0
    /\ lossy' = (lossy \/ missed)
    /\ UNCHANGED <<row, turn, step, frame, prior, pending, learned>>

\* The ledger of answers is shared: other sessions push the oldest out.
OtherSessions ==
    /\ replay # <<>>
    /\ replay' = Tail(replay)
    /\ UNCHANGED <<row, session, turn, step, frame, prior, pending, missed, lossy,
                   learned, barren, lapses>>

PresenceNext ==
    \/ BeginTurn \/ OpenFrame \/ CompileTurn \/ SettleTurn \/ EndTurn \/ CloseFrame
    \/ CompactTranscript \/ ResumeSession \/ RestartHost \/ OtherSessions

PresenceSpec == PresenceInit /\ [][PresenceNext]_presenceVars

-----------------------------------------------------------------------------
(* Properties. *)

PresenceTypeOK ==
    /\ turn \in 0..MaxTurns /\ step \in Steps /\ Len(replay) <= ReplayLimit
    /\ row # Nil => row.frame \in Materials
    /\ session # Nil => session.frame \in Materials
    /\ frame \in Materials \cup {Nil} /\ prior \in Materials \cup {Nil}

\* host/src/server.rs:1086, "a missed write is repaired by the next": the store's
\* row is live with the frame and the ledger memory holds, through replays, closes,
\* reopens, adoptions and restarts, unless the last write of them failed.
RowFollowsMemory ==
    session # Nil /\ ~missed =>
        row = [live |-> TRUE, frame |-> session.frame, ledger |-> session.ledger]

\* host/src/presence.rs:145, "The repair rules, registers, and threads a session learned
\* before it slept come back with it": through sleep, reopening and Host restarts a live
\* session holds what it settled, unless memory was lost after a write was missed.
LearnedComesBack == session # Nil /\ learned /\ ~lossy => session.ledger.repair

\* adapters/omp/house-proof/presence.ts:78, "they already self-heal on the next turn":
\* no two undisturbed turns in a row go without a contract.
NextTurnHeals == barren < 2
=============================================================================
