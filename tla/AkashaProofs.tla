---------------------------- MODULE AkashaProofs ----------------------------
(* Theorems about the memory of the house: the queue of GIGA events and its   *)
(* workers, the reviews and promotions of candidates, the lessons that fire   *)
(* on what a session writes, the memories of a room with their thread and the *)
(* shelf that walks them, and the backups of it all with their rotation.      *)
EXTENDS GigaQueue, GigaReview, LessonTriggers, Memories, Backups, SequenceTheorems,
        FiniteSetTheorems, WellFoundedInduction, TLAPS

-----------------------------------------------------------------------------
(* The queue and its workers.                                                *)

QueueRow == [state : QueueStates, replay : 0..MaxReplays, attempt : 0..MaxAttempts,
             by : GigaWorkers \cup {NoWorker}, lapsed : BOOLEAN, due : BOOLEAN, count : {0, 1}]
TryRow == [event : GigaEvents, replay : 0..MaxReplays, attempt : 1..MaxAttempts,
           worker : GigaWorkers, outcome : Outcomes \cup {"open", "lease_expired"}]
WorkerRow == [at : {"idle", "claimed", "working", "dead"}, event : GigaEvents,
              attempt : 0..MaxAttempts, found : {0, 1}]
Queues == [GigaEvents -> QueueRow]

SameTry(t, u) == t.event = u.event /\ t.replay = u.replay /\ t.attempt = u.attempt

\* The attempts on file of a queue: those of events on file, none beyond the
\* event's latest, one for each number, and the open ones those of what runs.
History(q, T) ==
    /\ \A t \in T : /\ q[t.event].state # "absent"
                    /\ t.replay <= q[t.event].replay
                    /\ t.replay = q[t.event].replay => t.attempt <= q[t.event].attempt
    /\ \A t, u \in T : SameTry(t, u) => t = u
    /\ \A t \in T : t.outcome = "open" =>
          /\ q[t.event].state = "running" /\ t.worker = q[t.event].by
          /\ t.replay = q[t.event].replay /\ t.attempt = q[t.event].attempt
    /\ \A e \in GigaEvents : q[e].state = "running" =>
          \E t \in T : t.event = e /\ t.outcome = "open"

\* A worker that still holds the lease of its claim works at the latest attempt.
WorksAtLatest ==
    \A w \in GigaWorkers :
       LET e == worker[w].event IN
       (worker[w].at \in {"claimed", "working"} /\ queue[e].state = "running" /\ queue[e].by = w)
          => worker[w].attempt = queue[e].attempt

QueueInv == /\ queue \in Queues /\ tries \subseteq TryRow
            /\ candidates \in [GigaEvents -> SUBSET Kinds]
            /\ worker \in [GigaWorkers -> WorkerRow]
            /\ History(queue, tries) /\ WorksAtLatest /\ CandidateKeepsEvent

\* What FinishesItsOwn says of a step.
Own ==
    \A t \in tries :
       t.outcome = "open" /\ [t EXCEPT !.outcome = "open"] \notin tries'
          /\ (\E u \in tries' : u.outcome \in Outcomes /\ [u EXCEPT !.outcome = "open"] = t)
       => \E w \in GigaWorkers : /\ worker[w].at = "working" /\ worker'[w].at = "idle"
                                 /\ t.worker = w /\ t.event = worker[w].event
                                 /\ t.attempt = worker[w].attempt

\* The open attempts of the events of S end with outcome o.
Ended(T, S, o) ==
    {IF t.outcome = "open" /\ t.event \in S THEN [t EXCEPT !.outcome = o] ELSE t : t \in T}

\* An idle worker and an event that is not on file.
LEMMA EmptyRows == /\ NoEvent \in QueueRow
                   /\ Idle \in WorkerRow /\ Idle.at = "idle"
                   /\ NoEvent.state = "absent" /\ NoEvent.by = NoWorker
                   /\ NoEvent.replay = 0 /\ NoEvent.attempt = 0
<1>1. (CHOOSE e \in GigaEvents : TRUE) \in GigaEvents
  BY GigaAssumption
<1>2. Idle \in WorkerRow /\ Idle.at = "idle"
  BY <1>1, GigaAssumption DEF Idle, WorkerRow
<1>3. 0 \in 0..MaxReplays /\ 0 \in 0..MaxAttempts
  BY GigaAssumption
<1>4. NoEvent.state = "absent" /\ NoEvent.by = NoWorker
      /\ NoEvent.replay = 0 /\ NoEvent.attempt = 0
  BY DEF NoEvent
<1>5. NoEvent \in QueueRow
  <2> DEFINE yes == TRUE
             no == FALSE
  <2>1. yes \in BOOLEAN /\ no \in BOOLEAN
        /\ NoEvent = [state |-> "absent", replay |-> 0, attempt |-> 0, by |-> NoWorker,
                      lapsed |-> no, due |-> yes, count |-> 0]
    BY DEF NoEvent
  <2> HIDE DEF yes, no
  <2> QED
    BY <1>3, <2>1 DEF QueueRow, QueueStates
<1> QED
  BY <1>2, <1>4, <1>5

\* The attempts that end are the open ones of those events.
LEMMA EndedTries ==
  ASSUME NEW T \in SUBSET TryRow, NEW S, NEW o \in Outcomes \cup {"lease_expired"}
  PROVE  /\ Ended(T, S, o) \subseteq TryRow
         /\ \A u \in Ended(T, S, o) : \E t \in T :
               /\ u = IF t.outcome = "open" /\ t.event \in S THEN [t EXCEPT !.outcome = o] ELSE t
               /\ SameTry(u, t) /\ u.worker = t.worker
               /\ u.outcome = IF t.outcome = "open" /\ t.event \in S THEN o ELSE t.outcome
         /\ \A t \in T : ~(t.outcome = "open" /\ t.event \in S) => t \in Ended(T, S, o)
<1>1. ASSUME NEW u \in Ended(T, S, o)
      PROVE  /\ u \in TryRow
             /\ \E t \in T :
               /\ u = IF t.outcome = "open" /\ t.event \in S THEN [t EXCEPT !.outcome = o] ELSE t
               /\ SameTry(u, t) /\ u.worker = t.worker
               /\ u.outcome = IF t.outcome = "open" /\ t.event \in S THEN o ELSE t.outcome
  <2>1. PICK t \in T : u = IF t.outcome = "open" /\ t.event \in S
                           THEN [t EXCEPT !.outcome = o] ELSE t
    BY DEF Ended
  <2>2. t \in TryRow
    OBVIOUS
  <2>3. CASE t.outcome = "open" /\ t.event \in S
    <3>1. u = [t EXCEPT !.outcome = o]
      BY <2>1, <2>3
    <3>2. u \in TryRow /\ SameTry(u, t) /\ u.worker = t.worker /\ u.outcome = o
      BY <2>2, <3>1 DEF TryRow, SameTry
    <3> QED
      BY <2>1, <2>3, <3>2
  <2>4. CASE ~(t.outcome = "open" /\ t.event \in S)
    BY <2>1, <2>2, <2>4 DEF SameTry
  <2> QED
    BY <2>3, <2>4
<1>2. ASSUME NEW t \in T, ~(t.outcome = "open" /\ t.event \in S) PROVE t \in Ended(T, S, o)
  BY <1>2 DEF Ended
<1> QED
  BY <1>1, <1>2

\* Where attempts end and their events no longer run, the history stays true.
LEMMA EndingKeepsHistory ==
  ASSUME NEW q \in Queues, NEW T \in SUBSET TryRow, History(q, T), NEW S,
         NEW o \in Outcomes \cup {"lease_expired"}, NEW r \in Queues,
         \A e \in GigaEvents : /\ r[e].replay = q[e].replay /\ r[e].attempt = q[e].attempt
                               /\ e \notin S => r[e].state = q[e].state /\ r[e].by = q[e].by
                               /\ e \in S => r[e].state \notin {"running", "absent"}
  PROVE  History(r, Ended(T, S, o)) /\ Ended(T, S, o) \subseteq TryRow
<1> DEFINE U == Ended(T, S, o)
<1>1. /\ U \subseteq TryRow
      /\ \A u \in U : \E t \in T :
               /\ u = IF t.outcome = "open" /\ t.event \in S THEN [t EXCEPT !.outcome = o] ELSE t
               /\ SameTry(u, t) /\ u.worker = t.worker
               /\ u.outcome = IF t.outcome = "open" /\ t.event \in S THEN o ELSE t.outcome
      /\ \A t \in T : ~(t.outcome = "open" /\ t.event \in S) => t \in U
  BY EndedTries
<1> HIDE DEF U
<1>2. ASSUME NEW u \in U
      PROVE  /\ r[u.event].state # "absent" /\ u.replay <= r[u.event].replay
             /\ u.replay = r[u.event].replay => u.attempt <= r[u.event].attempt
             /\ u.outcome = "open" =>
                   /\ r[u.event].state = "running" /\ u.worker = r[u.event].by
                   /\ u.replay = r[u.event].replay /\ u.attempt = r[u.event].attempt
  <2>1. PICK t \in T : /\ SameTry(u, t) /\ u.worker = t.worker
                       /\ u.outcome = IF t.outcome = "open" /\ t.event \in S THEN o ELSE t.outcome
    BY <1>1
  <2>2. t.event \in GigaEvents /\ u.event = t.event /\ u.replay = t.replay /\ u.attempt = t.attempt
    BY <2>1 DEF TryRow, SameTry
  <2>3. /\ q[t.event].state # "absent" /\ t.replay <= q[t.event].replay
        /\ t.replay = q[t.event].replay => t.attempt <= q[t.event].attempt
        /\ t.outcome = "open" =>
              /\ q[t.event].state = "running" /\ t.worker = q[t.event].by
              /\ t.replay = q[t.event].replay /\ t.attempt = q[t.event].attempt
    BY DEF History
  <2>4. u.outcome = "open" => t.outcome = "open" /\ t.event \notin S
    BY <2>1 DEF Outcomes
  <2> QED
    BY <2>1, <2>2, <2>3, <2>4
<1>3. ASSUME NEW u \in U, NEW v \in U, SameTry(u, v) PROVE u = v
  <2>1. PICK t \in T :
            /\ u = IF t.outcome = "open" /\ t.event \in S THEN [t EXCEPT !.outcome = o] ELSE t
            /\ SameTry(u, t)
    BY <1>1
  <2>2. PICK s \in T :
            /\ v = IF s.outcome = "open" /\ s.event \in S THEN [s EXCEPT !.outcome = o] ELSE s
            /\ SameTry(v, s)
    BY <1>1
  <2>3. SameTry(t, s)
    BY <1>3, <2>1, <2>2 DEF SameTry
  <2>4. t = s
    BY <2>3 DEF History
  <2> QED
    BY <2>1, <2>2, <2>4
<1>4. ASSUME NEW e \in GigaEvents, r[e].state = "running"
      PROVE  \E u \in U : u.event = e /\ u.outcome = "open"
  <2>1. e \notin S /\ q[e].state = "running"
    BY <1>4
  <2>2. PICK t \in T : t.event = e /\ t.outcome = "open"
    BY <2>1 DEF History
  <2> QED
    BY <1>1, <2>1, <2>2
<1>5. History(r, U)
  BY <1>2, <1>3, <1>4 DEF History
<1> QED
  BY <1>1, <1>5 DEF U

\* A lease opens the next attempt of an event that does not run.
LEMMA LeasingKeepsHistory ==
  ASSUME NEW q \in Queues, NEW T \in SUBSET TryRow, History(q, T), NEW e \in GigaEvents,
         q[e].state \notin {"running", "absent"}, NEW w \in GigaWorkers, NEW r \in Queues,
         \A f \in GigaEvents \ {e} : /\ r[f].state = q[f].state /\ r[f].by = q[f].by
                                     /\ r[f].replay = q[f].replay /\ r[f].attempt = q[f].attempt,
         r[e].state = "running", r[e].by = w, r[e].replay = q[e].replay,
         r[e].attempt = q[e].attempt + 1,
         NEW t \in TryRow, t.event = e, t.replay = q[e].replay, t.attempt = q[e].attempt + 1,
         t.worker = w, t.outcome = "open"
  PROVE  History(r, T \cup {t})
<1>1. /\ q[e] \in QueueRow /\ q[e].attempt \in Nat /\ q[e].replay \in Nat
  BY DEF Queues, QueueRow
<1>2. \A u \in T : u \in TryRow /\ u.event \in GigaEvents /\ u.attempt \in Nat /\ u.replay \in Nat
  BY DEF TryRow
<1>3. ASSUME NEW u \in T
      PROVE  /\ r[u.event].state # "absent" /\ u.replay <= r[u.event].replay
             /\ u.replay = r[u.event].replay => u.attempt <= r[u.event].attempt
             /\ u.outcome = "open" =>
                   /\ r[u.event].state = "running" /\ u.worker = r[u.event].by
                   /\ u.replay = r[u.event].replay /\ u.attempt = r[u.event].attempt
             /\ ~SameTry(u, t)
  <2>1. /\ q[u.event].state # "absent" /\ u.replay <= q[u.event].replay
        /\ u.replay = q[u.event].replay => u.attempt <= q[u.event].attempt
        /\ u.outcome = "open" =>
              /\ q[u.event].state = "running" /\ u.worker = q[u.event].by
              /\ u.replay = q[u.event].replay /\ u.attempt = q[u.event].attempt
    BY DEF History
  <2>2. CASE u.event # e
    BY <1>2, <2>1, <2>2 DEF SameTry
  <2>3. CASE u.event = e
    BY <1>1, <1>2, <2>1, <2>3 DEF SameTry
  <2> QED
    BY <2>2, <2>3
<1>4. /\ r[t.event].state # "absent" /\ t.replay <= r[t.event].replay
      /\ t.attempt <= r[t.event].attempt
      /\ r[t.event].state = "running" /\ t.worker = r[t.event].by
      /\ t.replay = r[t.event].replay /\ t.attempt = r[t.event].attempt
  BY <1>1
<1>5. ASSUME NEW u \in T \cup {t}, NEW v \in T \cup {t}, SameTry(u, v) PROVE u = v
  <2>1. \A x \in T : ~SameTry(x, t) /\ ~SameTry(t, x)
    BY <1>3 DEF SameTry
  <2>2. \A x, y \in T : SameTry(x, y) => x = y
    BY DEF History
  <2> QED
    BY <1>5, <2>1, <2>2
<1>6. ASSUME NEW f \in GigaEvents, r[f].state = "running"
      PROVE  \E u \in T \cup {t} : u.event = f /\ u.outcome = "open"
  <2>1. CASE f = e
    BY <2>1
  <2>2. CASE f # e
    <3>1. q[f].state = "running"
      BY <1>6, <2>2
    <3> QED
      BY <3>1 DEF History
  <2> QED
    BY <2>1, <2>2
<1> QED
  BY <1>3, <1>4, <1>5, <1>6 DEF History

\* An event that does not run may be filed, put back or made due.
LEMMA MovingKeepsHistory ==
  ASSUME NEW q \in Queues, NEW T \in SUBSET TryRow, History(q, T), NEW e \in GigaEvents,
         NEW r \in Queues, \A f \in GigaEvents \ {e} : r[f] = q[f],
         q[e].state # "running", r[e].state \notin {"running", "absent"},
         \/ q[e].state = "absent"
         \/ r[e].replay > q[e].replay
         \/ r[e].replay = q[e].replay /\ r[e].attempt = q[e].attempt
  PROVE  History(r, T)
<1>1. q[e].replay \in Nat /\ r[e].replay \in Nat /\ q[e].attempt \in Nat /\ r[e].attempt \in Nat
  BY DEF Queues, QueueRow
<1>2. ASSUME NEW u \in T
      PROVE  /\ r[u.event].state # "absent" /\ u.replay <= r[u.event].replay
             /\ u.replay = r[u.event].replay => u.attempt <= r[u.event].attempt
             /\ u.outcome = "open" =>
                   /\ r[u.event].state = "running" /\ u.worker = r[u.event].by
                   /\ u.replay = r[u.event].replay /\ u.attempt = r[u.event].attempt
  <2>1. /\ q[u.event].state # "absent" /\ u.replay <= q[u.event].replay
        /\ u.replay = q[u.event].replay => u.attempt <= q[u.event].attempt
        /\ u.outcome = "open" =>
              /\ q[u.event].state = "running" /\ u.worker = q[u.event].by
              /\ u.replay = q[u.event].replay /\ u.attempt = q[u.event].attempt
    BY DEF History
  <2>2. u.event \in GigaEvents /\ u.replay \in Nat /\ u.attempt \in Nat
    BY DEF TryRow
  <2>3. CASE u.event # e
    BY <2>1, <2>2, <2>3
  <2>4. CASE u.event = e
    BY <1>1, <2>1, <2>2, <2>4
  <2> QED
    BY <2>3, <2>4
<1>3. \A f \in GigaEvents : r[f].state = "running" => q[f].state = "running"
  OBVIOUS
<1> QED
  BY <1>2, <1>3 DEF History

\* The history is about states, counts and holders alone.
LEMMA StayingKeepsHistory ==
  ASSUME NEW q \in Queues, NEW T \in SUBSET TryRow, History(q, T), NEW r \in Queues,
         \A f \in GigaEvents : /\ r[f].state = q[f].state /\ r[f].by = q[f].by
                               /\ r[f].replay = q[f].replay /\ r[f].attempt = q[f].attempt
  PROVE  History(r, T)
<1>1. \A t \in T : t.event \in GigaEvents
  BY DEF TryRow
<1> QED
  BY <1>1 DEF History

\* The start: nothing on file, nobody at work.
LEMMA QueueStarts == GigaInit => QueueInv
<1> SUFFICES ASSUME GigaInit PROVE QueueInv
  OBVIOUS
<1>1. queue \in Queues /\ \A e \in GigaEvents : queue[e].state = "absent"
  BY EmptyRows DEF GigaInit, Queues
<1>2. worker \in [GigaWorkers -> WorkerRow] /\ \A w \in GigaWorkers : worker[w].at = "idle"
  BY EmptyRows DEF GigaInit
<1>3. candidates \in [GigaEvents -> SUBSET Kinds] /\ tries = {}
  BY DEF GigaInit
<1>4. History(queue, tries) /\ WorksAtLatest
  BY <1>1, <1>2, <1>3 DEF History, WorksAtLatest
<1>5. CandidateKeepsEvent
  <2>1. \A e \in GigaEvents : candidates[e] = {}
    BY DEF GigaInit
  <2>2. Cardinality({}) = 0
    BY FS_EmptySet
  <2> QED
    BY <2>1, <2>2 DEF CandidateKeepsEvent, Stored
<1> QED
  BY <1>1, <1>2, <1>3, <1>4, <1>5 DEF QueueInv

\* An attempt that is not ended by a finish is no one's to answer for.
LEMMA NoneFinished ==
  ASSUME tries \subseteq TryRow, History(queue, tries),
         \A u \in tries' : u.outcome \in Outcomes => u \in tries
  PROVE  Own
<1> SUFFICES ASSUME NEW t \in tries, t.outcome = "open", NEW u \in tries',
                    u.outcome \in Outcomes, [u EXCEPT !.outcome = "open"] = t
             PROVE  FALSE
  BY DEF Own
<1>1. u \in tries /\ u \in TryRow
  OBVIOUS
<1>2. SameTry(u, t)
  BY <1>1 DEF SameTry, TryRow
<1>3. u = t
  BY <1>1, <1>2 DEF History
<1> QED
  BY <1>3 DEF Outcomes

\* What the queue counts of an event follows its candidates.
LEMMA CandidatesKept ==
  ASSUME CandidateKeepsEvent, candidates' = candidates,
         \A e \in GigaEvents : queue[e].state # "absent" => queue'[e].state # "absent"
  PROVE  CandidateKeepsEvent'
BY DEF CandidateKeepsEvent, Stored

\* The doors that move one event which does not run: ingest, replay and the
\* retry that falls due (giga_event_ingest, giga_event_replay).
LEMMA MovesKeep ==
  ASSUME QueueInv, NEW e \in GigaEvents, Ingest(e) \/ GigaReplay(e) \/ RetryDue(e)
  PROVE  QueueInv' /\ Own
<1>1. queue \in Queues /\ queue[e] \in QueueRow /\ UNCHANGED <<tries, candidates, worker>>
  BY DEF QueueInv, Queues, Ingest, GigaReplay, RetryDue
<1>2. /\ queue' \in Queues /\ \A f \in GigaEvents \ {e} : queue'[f] = queue[f]
      /\ queue[e].state # "running" /\ queue'[e].state = "pending"
      /\ \/ queue[e].state = "absent"
         \/ queue'[e].replay > queue[e].replay
         \/ queue'[e].replay = queue[e].replay /\ queue'[e].attempt = queue[e].attempt
  <2>1. CASE Ingest(e)
    <3> DEFINE row == [NoEvent EXCEPT !.state = "pending"]
    <3>1. row \in QueueRow /\ row.state = "pending"
      BY EmptyRows DEF QueueRow, QueueStates
    <3>2. queue' = [queue EXCEPT ![e] = row] /\ queue[e].state = "absent"
      BY <2>1 DEF Ingest
    <3> HIDE DEF row
    <3> QED
      BY <1>1, <3>1, <3>2 DEF Queues
  <2>2. CASE GigaReplay(e)
    <3> DEFINE row == [NoEvent EXCEPT !.state = "pending", !.replay = queue[e].replay + 1]
    <3>1. queue[e].state = "failed" /\ queue[e].replay + 1 \in 0..MaxReplays
          /\ queue[e].replay + 1 > queue[e].replay
      BY <1>1, <2>2, GigaAssumption DEF GigaReplay, QueueRow
    <3>2. row \in QueueRow /\ row.state = "pending" /\ row.replay = queue[e].replay + 1
      BY <3>1, EmptyRows DEF QueueRow, QueueStates
    <3>3. queue' = [queue EXCEPT ![e] = row]
      BY <2>2 DEF GigaReplay
    <3> HIDE DEF row
    <3> QED
      BY <1>1, <3>1, <3>2, <3>3 DEF Queues
  <2>3. CASE RetryDue(e)
    <3> DEFINE yes == TRUE
    <3>1. yes \in BOOLEAN /\ queue' = [queue EXCEPT ![e] = [queue[e] EXCEPT !.due = yes]]
          /\ queue[e].state = "pending"
      BY <1>1, <2>3 DEF RetryDue, Queues
    <3> HIDE DEF yes
    <3> DEFINE row == [queue[e] EXCEPT !.due = yes]
    <3>2. row \in QueueRow /\ row.state = queue[e].state /\ row.replay = queue[e].replay
          /\ row.attempt = queue[e].attempt
      BY <1>1, <3>1 DEF QueueRow
    <3>3. queue' = [queue EXCEPT ![e] = row]
      BY <3>1
    <3> HIDE DEF row
    <3> QED
      BY <1>1, <3>1, <3>2, <3>3 DEF Queues
  <2> QED
    BY <2>1, <2>2, <2>3
<1>3. History(queue', tries)
  BY <1>1, <1>2, MovingKeepsHistory DEF QueueInv
<1>4. WorksAtLatest'
  <2>1. \A f \in GigaEvents : queue'[f].state = "running" => queue'[f] = queue[f]
    BY <1>2
  <2> QED
    BY <1>1, <2>1 DEF QueueInv, WorksAtLatest, WorkerRow
<1>5. CandidateKeepsEvent'
  BY <1>1, <1>2, CandidatesKept DEF QueueInv
<1>6. Own
  BY <1>1, NoneFinished DEF QueueInv
<1> QED
  BY <1>1, <1>2, <1>3, <1>4, <1>5, <1>6 DEF QueueInv

\* A lease that lapses stays on file.
LEMMA LapseKeeps ==
  ASSUME QueueInv, NEW e \in GigaEvents, LeaseRunsOut(e)
  PROVE  QueueInv' /\ Own
<1> DEFINE yes == TRUE
<1>1. /\ queue \in Queues /\ queue[e] \in QueueRow /\ UNCHANGED <<tries, candidates, worker>>
      /\ yes \in BOOLEAN /\ queue' = [queue EXCEPT ![e] = [queue[e] EXCEPT !.lapsed = yes]]
  BY DEF QueueInv, Queues, LeaseRunsOut
<1> HIDE DEF yes
<1> DEFINE row == [queue[e] EXCEPT !.lapsed = yes]
<1>2. row \in QueueRow /\ row.state = queue[e].state /\ row.replay = queue[e].replay
      /\ row.attempt = queue[e].attempt /\ row.by = queue[e].by
  BY <1>1 DEF QueueRow
<1>3. queue' = [queue EXCEPT ![e] = row]
  BY <1>1
<1> HIDE DEF row
<1>4. /\ queue' \in Queues
      /\ \A f \in GigaEvents :
            /\ queue'[f].state = queue[f].state /\ queue'[f].by = queue[f].by
            /\ queue'[f].replay = queue[f].replay /\ queue'[f].attempt = queue[f].attempt
  BY <1>1, <1>2, <1>3 DEF Queues
<1>5. History(queue', tries)
  BY <1>1, <1>4, StayingKeepsHistory DEF QueueInv
<1>6. WorksAtLatest'
  BY <1>1, <1>4 DEF QueueInv, WorksAtLatest, WorkerRow
<1>7. CandidateKeepsEvent' /\ Own
  BY <1>1, <1>4, CandidatesKept, NoneFinished DEF QueueInv
<1> QED
  BY <1>1, <1>4, <1>5, <1>6, <1>7 DEF QueueInv

\* What a claim does to the leases that are used up.
LEMMA ExpiredRows ==
  ASSUME QueueInv
  PROVE  /\ Expired \in Queues
         /\ \A e \in GigaEvents :
               /\ Expired[e].replay = queue[e].replay /\ Expired[e].attempt = queue[e].attempt
               /\ OutOfTries(e) => Expired[e].state = "failed" /\ Expired[e].by = NoWorker
                                  /\ queue[e].state = "running"
               /\ ~OutOfTries(e) => Expired[e] = queue[e]
<1> DEFINE no == FALSE
<1>1. queue \in Queues /\ no \in BOOLEAN
  BY DEF QueueInv
<1>2. Expired = [e \in GigaEvents |->
                   IF OutOfTries(e) THEN [queue[e] EXCEPT !.state = "failed", !.by = NoWorker,
                                                         !.lapsed = no]
                   ELSE queue[e]]
  BY DEF Expired
<1> HIDE DEF no
<1>3. ASSUME NEW e \in GigaEvents
      PROVE  LET row == [queue[e] EXCEPT !.state = "failed", !.by = NoWorker, !.lapsed = no] IN
             /\ row \in QueueRow /\ row.state = "failed" /\ row.by = NoWorker
             /\ row.replay = queue[e].replay /\ row.attempt = queue[e].attempt
  BY <1>1 DEF Queues, QueueRow, QueueStates
<1>4. \A e \in GigaEvents : OutOfTries(e) => queue[e].state = "running"
  BY DEF OutOfTries
<1>5. \A e \in GigaEvents :
         Expired[e] = IF OutOfTries(e)
                      THEN [queue[e] EXCEPT !.state = "failed", !.by = NoWorker, !.lapsed = no]
                      ELSE queue[e]
  BY <1>2
<1>6. ASSUME NEW e \in GigaEvents PROVE Expired[e] \in QueueRow
  BY <1>1, <1>3, <1>5 DEF Queues
<1>7. Expired \in Queues
  BY <1>2, <1>6 DEF Queues
<1> QED
  BY <1>3, <1>4, <1>5, <1>7

\* A worker whose lease was used up holds none; the others' leases are as before.
LEMMA ExpiryKeepsWorkers ==
  ASSUME QueueInv, NEW w \in GigaWorkers, NEW f \in GigaEvents,
         Expired[f].state = "running" \/ Expired[f].by = w
  PROVE  ~OutOfTries(f) /\ Expired[f] = queue[f]
BY ExpiredRows, GigaAssumption

\* A claim that finds nothing still fails the leases that are used up.
LEMMA SweepKeeps ==
  ASSUME QueueInv, NEW w \in GigaWorkers, GigaSweep(w)
  PROVE  QueueInv' /\ Own
<1> DEFINE S == {e \in GigaEvents : OutOfTries(e)}
<1>1. /\ queue \in Queues /\ tries \subseteq TryRow /\ History(queue, tries)
      /\ queue' = Expired /\ UNCHANGED <<candidates, worker>>
  BY DEF QueueInv, GigaSweep
<1>2. tries' = Ended(tries, S, "lease_expired")
  <2>1. \A t \in tries : (OpenTry(t, t.event) /\ OutOfTries(t.event))
                            <=> (t.outcome = "open" /\ t.event \in S)
    BY <1>1 DEF History, OpenTry, TryRow
  <2> QED
    BY <2>1 DEF GigaSweep, Ended
<1> HIDE DEF S
<1>3. \A e \in GigaEvents :
         /\ queue'[e].replay = queue[e].replay /\ queue'[e].attempt = queue[e].attempt
         /\ e \notin S => queue'[e] = queue[e]
         /\ e \in S => queue'[e].state = "failed" /\ queue[e].state = "running"
  BY <1>1, ExpiredRows DEF S
<1>4. queue' \in Queues
  BY <1>1, ExpiredRows
<1>5. History(queue', tries') /\ tries' \subseteq TryRow
  BY <1>1, <1>2, <1>3, <1>4, EndingKeepsHistory
<1>6. WorksAtLatest'
  <2>1. ASSUME NEW v \in GigaWorkers, NEW f \in GigaEvents, queue'[f].state = "running"
        PROVE  queue'[f] = queue[f]
    BY <1>1, <2>1, ExpiryKeepsWorkers
  <2> QED
    BY <1>1, <2>1 DEF QueueInv, WorksAtLatest, WorkerRow
<1>7. CandidateKeepsEvent'
  BY <1>1, <1>3, CandidatesKept DEF QueueInv
<1>8. Own
  <2>1. ASSUME NEW u \in tries', u.outcome \in Outcomes PROVE u \in tries
    <3>1. PICK t \in tries :
             /\ u = IF t.outcome = "open" /\ t.event \in S
                    THEN [t EXCEPT !.outcome = "lease_expired"] ELSE t
             /\ u.outcome = IF t.outcome = "open" /\ t.event \in S THEN "lease_expired" ELSE t.outcome
      BY <1>1, <1>2, EndedTries, SMTT(30)
    <3> QED
      BY <2>1, <3>1 DEF Outcomes
  <2> QED
    BY <1>1, <2>1, NoneFinished
<1> QED
  BY <1>1, <1>4, <1>5, <1>6, <1>7, <1>8 DEF QueueInv

\* A claim leases one event that is due or whose lease has lapsed (giga_event_claim).
LEMMA ClaimKeeps ==
  ASSUME QueueInv, NEW w \in GigaWorkers, GigaClaim(w)
  PROVE  QueueInv' /\ Own
<1>1. /\ queue \in Queues /\ tries \subseteq TryRow /\ History(queue, tries)
      /\ worker \in [GigaWorkers -> WorkerRow] /\ candidates' = candidates
  BY DEF QueueInv, GigaClaim
<1>2. PICK e \in GigaEvents :
         /\ Eligible(e) /\ Lease(e, w)
         /\ worker' = [worker EXCEPT ![w] = [at |-> "claimed", event |-> e,
                                             attempt |-> queue[e].attempt + 1, found |-> 0]]
  BY DEF GigaClaim
<1> DEFINE S == {f \in GigaEvents : OutOfTries(f)} \cup {e}
           n == queue[e].attempt + 1
           mid == [f \in GigaEvents |-> IF f = e THEN [queue[e] EXCEPT !.state = "failed"]
                                        ELSE Expired[f]]
           opened == [event |-> e, replay |-> queue[e].replay, attempt |-> n,
                      worker |-> w, outcome |-> "open"]
           row == Given(e, w)
<1>3. queue[e] \in QueueRow /\ queue[e].attempt < MaxAttempts /\ queue[e].state \in {"pending", "running"}
      /\ ~OutOfTries(e)
  BY <1>1, <1>2, GigaAssumption DEF Queues, Eligible, QueueRow, OutOfTries
<1>4. queue[e].attempt \in Nat /\ queue[e].replay \in 0..MaxReplays
      /\ n \in 1..MaxAttempts /\ n \in 0..MaxAttempts
  BY <1>3, GigaAssumption DEF QueueRow
<1>5. /\ row \in QueueRow /\ row.state = "running" /\ row.by = w
      /\ row.replay = queue[e].replay /\ row.attempt = n
  <2> DEFINE yes == TRUE
             no == FALSE
  <2>1. yes \in BOOLEAN /\ no \in BOOLEAN
        /\ row = [Expired[e] EXCEPT !.state = "running", !.attempt = Expired[e].attempt + 1, !.by = w,
                                    !.lapsed = no, !.due = yes, !.count = 0]
    BY DEF Given
  <2> HIDE DEF yes, no, row
  <2>2. Expired[e] = queue[e]
    BY <1>3, ExpiredRows
  <2> HIDE DEF n
  <2>3. n = queue[e].attempt + 1
    BY DEF n
  <2> QED
    BY <1>3, <1>4, <2>1, <2>2, <2>3 DEF QueueRow, QueueStates
<1>6. opened \in TryRow /\ opened.event = e /\ opened.replay = queue[e].replay /\ opened.attempt = n
      /\ opened.worker = w /\ opened.outcome = "open"
  BY <1>4 DEF TryRow
<1>7. queue' = [Expired EXCEPT ![e] = row]
  BY <1>2 DEF Lease
<1>8. tries' = Ended(tries, S, "lease_expired") \cup {opened}
  <2>1. \A t \in tries : Lost(e, t) <=> (t.outcome = "open" /\ t.event \in S)
    BY <1>1 DEF History, OpenTry, TryRow, Lost
  <2> QED
    BY <1>2, <2>1 DEF Lease, Ended
<1> HIDE DEF row, opened, n
<1>9. /\ mid \in Queues
      /\ mid[e].state = "failed" /\ mid[e].replay = queue[e].replay
      /\ mid[e].attempt = queue[e].attempt
      /\ \A f \in GigaEvents \ {e} : mid[f] = Expired[f]
  <2>1. [queue[e] EXCEPT !.state = "failed"] \in QueueRow
    BY <1>3 DEF QueueRow, QueueStates
  <2> QED
    BY <1>3, <2>1, ExpiredRows DEF Queues, QueueRow
<1> HIDE DEF mid
<1>10. \A f \in GigaEvents :
          /\ mid[f].replay = queue[f].replay /\ mid[f].attempt = queue[f].attempt
          /\ f \notin S => mid[f].state = queue[f].state /\ mid[f].by = queue[f].by
          /\ f \in S => mid[f].state \notin {"running", "absent"}
  BY <1>9, ExpiredRows
<1>11. History(mid, Ended(tries, S, "lease_expired")) /\ Ended(tries, S, "lease_expired") \subseteq TryRow
  BY <1>1, <1>9, <1>10, EndingKeepsHistory
<1>12. queue' \in Queues /\ queue'[e] = row /\ \A f \in GigaEvents \ {e} : queue'[f] = Expired[f]
  BY <1>5, <1>7, ExpiredRows DEF Queues
<1>13. History(queue', tries') /\ tries' \subseteq TryRow
  <2>1. \A f \in GigaEvents \ {e} :
           /\ queue'[f].state = mid[f].state /\ queue'[f].by = mid[f].by
           /\ queue'[f].replay = mid[f].replay /\ queue'[f].attempt = mid[f].attempt
    BY <1>9, <1>12
  <2>2. queue'[e].state = "running" /\ queue'[e].by = w /\ queue'[e].replay = mid[e].replay
        /\ queue'[e].attempt = mid[e].attempt + 1 /\ mid[e].state \notin {"running", "absent"}
        /\ opened.replay = mid[e].replay /\ opened.attempt = mid[e].attempt + 1
    BY <1>5, <1>6, <1>9, <1>12 DEF n
  <2>3. History(queue', Ended(tries, S, "lease_expired") \cup {opened})
    BY <1>6, <1>9, <1>11, <1>12, <2>1, <2>2, LeasingKeepsHistory
  <2> QED
    BY <1>6, <1>8, <1>11, <2>3
<1>14. /\ worker' \in [GigaWorkers -> WorkerRow]
       /\ worker'[w].event = e /\ worker'[w].attempt = n
       /\ \A v \in GigaWorkers \ {w} : worker'[v] = worker[v]
  <2>1. [at |-> "claimed", event |-> e, attempt |-> n, found |-> 0] \in WorkerRow
    BY <1>4 DEF WorkerRow
  <2> QED
    BY <1>1, <1>2, <2>1 DEF n
<1>15. WorksAtLatest'
  <2>1. ASSUME NEW v \in GigaWorkers, worker'[v].at \in {"claimed", "working"},
               queue'[worker'[v].event].state = "running", queue'[worker'[v].event].by = v
        PROVE  worker'[v].attempt = queue'[worker'[v].event].attempt
    <3>1. CASE v = w
      BY <1>5, <1>12, <1>14, <3>1
    <3>2. CASE v # w
      <4>1. worker'[v] = worker[v] /\ worker[v].event \in GigaEvents /\ worker[v].event # e
        BY <1>1, <1>5, <1>12, <1>14, <2>1, <3>2 DEF WorkerRow
      <4>2. queue'[worker[v].event] = queue[worker[v].event]
        BY <1>12, <2>1, <4>1, ExpiryKeepsWorkers
      <4> QED
        BY <2>1, <4>1, <4>2 DEF QueueInv, WorksAtLatest
    <3> QED
      BY <3>1, <3>2
  <2> QED
    BY <2>1 DEF WorksAtLatest
<1>16. CandidateKeepsEvent'
  <2>1. \A f \in GigaEvents : queue[f].state # "absent" => queue'[f].state # "absent"
    BY <1>5, <1>12, ExpiredRows
  <2> QED
    BY <1>1, <2>1, CandidatesKept DEF QueueInv
<1>17. Own
  <2>1. ASSUME NEW u \in tries', u.outcome \in Outcomes PROVE u \in tries
    <3>1. u \in Ended(tries, S, "lease_expired")
      BY <1>6, <1>8, <2>1 DEF Outcomes
    <3>2. PICK t \in tries :
             /\ u = IF t.outcome = "open" /\ t.event \in S
                    THEN [t EXCEPT !.outcome = "lease_expired"] ELSE t
             /\ u.outcome = IF t.outcome = "open" /\ t.event \in S THEN "lease_expired" ELSE t.outcome
      BY <1>1, <3>1, EndedTries, SMTT(30)
    <3> QED
      BY <2>1, <3>2 DEF Outcomes
  <2> QED
    BY <1>1, <2>1, NoneFinished
<1> QED
  BY <1>1, <1>12, <1>13, <1>14, <1>15, <1>16, <1>17 DEF QueueInv

\* A finish ends the attempt the lease was given for (giga_event_finish).
LEMMA FinishKeeps ==
  ASSUME QueueInv, NEW w \in GigaWorkers, NEW e \in GigaEvents, e = worker[w].event,
         worker[w].at = "working", NEW outcome \in Outcomes, NEW count \in {0, 1},
         NEW cs \in [GigaEvents -> SUBSET Kinds], \A f \in GigaEvents \ {e} : cs[f] = candidates[f],
         Finish(e, w, outcome, count, cs), worker' = [worker EXCEPT ![w] = Idle]
  PROVE  QueueInv' /\ Own
<1>1. /\ queue \in Queues /\ tries \subseteq TryRow /\ History(queue, tries)
      /\ worker \in [GigaWorkers -> WorkerRow] /\ queue[e] \in QueueRow
  BY DEF QueueInv, Queues
<1>2. /\ queue[e].state = "running" /\ queue[e].by = w
      /\ candidates' = cs /\ tries' = Close(e, outcome)
  BY DEF Finish, MayFinish, Leased
<1>3. tries' = Ended(tries, {e}, outcome)
  <2>1. \A t \in tries : OpenTry(t, e) <=> (t.outcome = "open" /\ t.event \in {e})
    BY <1>1 DEF History, OpenTry, TryRow
  <2> QED
    BY <1>2, <2>1 DEF Close, Ended
<1> DEFINE due == outcome # "retry"
           state == IF outcome = "retry" THEN "pending" ELSE outcome
           row == [queue[e] EXCEPT !.state = state, !.by = NoWorker, !.due = due, !.count = count]
<1>4. due \in BOOLEAN /\ state \in {"pending", "succeeded", "failed"}
  BY DEF Outcomes
<1>5. queue' = [queue EXCEPT ![e] = row]
  BY <1>1 DEF Finish, Queues
<1> HIDE DEF due, state
<1>6. /\ row \in QueueRow /\ row.state = state /\ row.by = NoWorker
      /\ row.replay = queue[e].replay /\ row.attempt = queue[e].attempt
  BY <1>1, <1>4 DEF QueueRow, QueueStates
<1> HIDE DEF row
<1>7. /\ queue' \in Queues /\ queue'[e] = row
      /\ \A f \in GigaEvents \ {e} : queue'[f] = queue[f]
  BY <1>1, <1>5, <1>6 DEF Queues
<1>8. \A f \in GigaEvents :
         /\ queue'[f].replay = queue[f].replay /\ queue'[f].attempt = queue[f].attempt
         /\ f \notin {e} => queue'[f].state = queue[f].state /\ queue'[f].by = queue[f].by
         /\ f \in {e} => queue'[f].state \notin {"running", "absent"}
  BY <1>4, <1>6, <1>7
<1>9. History(queue', tries') /\ tries' \subseteq TryRow
  BY <1>1, <1>3, <1>7, <1>8, EndingKeepsHistory DEF Outcomes
<1>10. /\ worker' \in [GigaWorkers -> WorkerRow] /\ worker'[w].at = "idle"
       /\ \A v \in GigaWorkers \ {w} : worker'[v] = worker[v]
  BY <1>1, EmptyRows
<1>11. WorksAtLatest'
  <2>1. ASSUME NEW v \in GigaWorkers, worker'[v].at \in {"claimed", "working"},
               queue'[worker'[v].event].state = "running", queue'[worker'[v].event].by = v
        PROVE  worker'[v].attempt = queue'[worker'[v].event].attempt
    <3>1. v # w /\ worker'[v] = worker[v] /\ worker[v].event \in GigaEvents
      BY <1>1, <1>10, <2>1 DEF WorkerRow
    <3>2. worker[v].event # e
      BY <1>4, <1>6, <1>7, <2>1, <3>1
    <3> QED
      BY <1>7, <2>1, <3>1, <3>2 DEF QueueInv, WorksAtLatest
  <2> QED
    BY <2>1 DEF WorksAtLatest
<1>12. CandidateKeepsEvent'
  <2>1. ASSUME NEW f \in GigaEvents, Cardinality(candidates'[f]) > 0 PROVE queue'[f].state # "absent"
    <3>1. CASE f = e
      BY <1>4, <1>6, <1>7, <3>1
    <3>2. CASE f # e
      BY <1>2, <1>7, <2>1, <3>2 DEF QueueInv, CandidateKeepsEvent, Stored
    <3> QED
      BY <3>1, <3>2
  <2> QED
    BY <2>1 DEF CandidateKeepsEvent, Stored
<1>13. Own
  <2> SUFFICES ASSUME NEW t \in tries, t.outcome = "open", NEW u \in tries',
                      u.outcome \in Outcomes, [u EXCEPT !.outcome = "open"] = t
               PROVE  t.worker = w /\ t.event = worker[w].event /\ t.attempt = worker[w].attempt
    BY <1>10 DEF Own
  <2>1. PICK s \in tries :
           /\ u = IF s.outcome = "open" /\ s.event \in {e} THEN [s EXCEPT !.outcome = outcome] ELSE s
           /\ SameTry(u, s)
    <3>1. tries \in SUBSET TryRow /\ outcome \in Outcomes \cup {"lease_expired"} /\ u \in tries'
      BY <1>1
    <3>2. \A x \in Ended(tries, {e}, outcome) : \E s \in tries :
             /\ x = IF s.outcome = "open" /\ s.event \in {e} THEN [s EXCEPT !.outcome = outcome] ELSE s
             /\ SameTry(x, s)
      BY <3>1, EndedTries, SMTT(40)
    <3> QED
      BY <1>3, <3>1, <3>2
  <2>2. SameTry(u, t)
    BY <1>9 DEF SameTry, TryRow
  <2>3. s = t
    BY <1>1, <2>1, <2>2 DEF History, SameTry
  <2>4. t.event = e
    BY <2>1, <2>3 DEF Outcomes
  <2>5. t.worker = queue[e].by /\ t.attempt = queue[e].attempt
    BY <1>1, <2>4 DEF History
  <2> QED
    BY <1>2, <2>4, <2>5 DEF QueueInv, WorksAtLatest
<1> QED
  BY <1>2, <1>7, <1>9, <1>10, <1>11, <1>12, <1>13 DEF QueueInv

\* A worker that turns to something else leaves the queue as it is.
LEMMA WorkerPut ==
  ASSUME QueueInv, NEW w \in GigaWorkers, NEW row \in WorkerRow,
         worker' = [worker EXCEPT ![w] = row], UNCHANGED <<queue, tries, candidates>>,
         \/ row.at \notin {"claimed", "working"}
         \/ worker[w].at = "claimed" /\ row.event = worker[w].event /\ row.attempt = worker[w].attempt
  PROVE  QueueInv' /\ Own
<1>1. /\ worker' \in [GigaWorkers -> WorkerRow]
      /\ \A v \in GigaWorkers : worker'[v] = IF v = w THEN row ELSE worker[v]
  BY DEF QueueInv
<1>2. WorksAtLatest'
  BY <1>1 DEF QueueInv, WorksAtLatest
<1>3. CandidateKeepsEvent' /\ Own
  BY CandidatesKept, NoneFinished DEF QueueInv
<1> QED
  BY <1>1, <1>2, <1>3 DEF QueueInv

\* What a worker answers is finished, or refused and dropped.
LEMMA AnswerKeeps ==
  ASSUME QueueInv, NEW w \in GigaWorkers, worker[w].at = "working", NEW outcome \in Outcomes,
         NEW count \in {0, 1}, NEW cs \in [GigaEvents -> SUBSET Kinds],
         \A f \in GigaEvents \ {worker[w].event} : cs[f] = candidates[f],
         Answer(w, outcome, count, cs)
  PROVE  QueueInv' /\ Own
<1>1. worker[w].event \in GigaEvents /\ worker' = [worker EXCEPT ![w] = Idle]
  BY DEF QueueInv, WorkerRow, Answer
<1>2. CASE Finish(worker[w].event, w, outcome, count, cs)
  BY <1>1, <1>2, FinishKeeps
<1>3. CASE UNCHANGED <<queue, tries, candidates>>
  BY <1>1, <1>3, EmptyRows, WorkerPut
<1> QED
  BY <1>2, <1>3 DEF Answer

\* The classification's three ends (giga_process).
LEMMA GigaFinishKeeps ==
  ASSUME QueueInv, NEW w \in GigaWorkers, GigaFinish(w)
  PROVE  QueueInv' /\ Own
<1> DEFINE e == worker[w].event
<1>1. /\ worker[w].at = "working" /\ e \in GigaEvents /\ worker[w].found \in {0, 1}
      /\ candidates \in [GigaEvents -> SUBSET Kinds]
      /\ {"succeeded", "retry", "failed"} \subseteq Outcomes
  BY DEF GigaFinish, QueueInv, WorkerRow, Outcomes
<1>2. CASE Answer(w, "succeeded", worker[w].found, candidates)
  BY <1>1, <1>2, AnswerKeeps
<1>3. ASSUME NEW k \in Kinds, Answer(w, "succeeded", 1, [candidates EXCEPT ![e] = @ \cup {k}])
      PROVE  QueueInv' /\ Own
  <2> DEFINE cs == [candidates EXCEPT ![e] = @ \cup {k}]
  <2>1. cs \in [GigaEvents -> SUBSET Kinds] /\ \A f \in GigaEvents \ {e} : cs[f] = candidates[f]
    BY <1>1
  <2>2. Answer(w, "succeeded", 1, cs)
    BY <1>3
  <2> HIDE DEF cs
  <2> QED
    BY <1>1, <2>1, <2>2, AnswerKeeps
<1>4. CASE Answer(w, "retry", 0, candidates)
  BY <1>1, <1>4, AnswerKeeps
<1>5. CASE Answer(w, "failed", 0, candidates)
  BY <1>1, <1>5, AnswerKeeps
<1> QED
  BY <1>2, <1>3, <1>4, <1>5 DEF GigaFinish

\* A worker validates its claim, or dies.
LEMMA WorkersKeep ==
  ASSUME QueueInv, NEW w \in GigaWorkers, GigaValidate(w) \/ GigaDie(w)
  PROVE  QueueInv' /\ Own
<1>1. worker[w] \in WorkerRow /\ UNCHANGED <<queue, tries, candidates>>
      /\ worker \in [GigaWorkers -> WorkerRow]
  BY DEF QueueInv, GigaValidate, GigaDie
<1>2. CASE worker' = [worker EXCEPT ![w] = Idle]
  BY <1>1, <1>2, EmptyRows, WorkerPut
<1>3. CASE GigaDie(w)
  <2> DEFINE row == [Idle EXCEPT !.at = "dead"]
  <2>1. row \in WorkerRow /\ row.at = "dead"
    BY EmptyRows DEF WorkerRow
  <2>2. worker' = [worker EXCEPT ![w] = row]
    BY <1>3 DEF GigaDie
  <2> HIDE DEF row
  <2> QED
    BY <1>1, <2>1, <2>2, WorkerPut
<1>4. CASE /\ worker[w].at = "claimed" /\ Stored(worker[w].event, candidates) < 2
           /\ worker' = [worker EXCEPT ![w].at = "working",
                                       ![w].found = Stored(worker[w].event, candidates)]
  <2> DEFINE found == Stored(worker[w].event, candidates)
             row == [worker[w] EXCEPT !.at = "working", !.found = found]
  <2>1. found \in {0, 1}
    <3>1. candidates[worker[w].event] \subseteq Kinds
      BY <1>1 DEF QueueInv, WorkerRow
    <3>2. IsFiniteSet(candidates[worker[w].event])
      BY <3>1, FS_Subset, GigaAssumption
    <3>3. found \in Nat
      BY <3>2, FS_CardinalityType DEF Stored
    <3> QED
      BY <1>4, <3>3
  <2>2. worker' = [worker EXCEPT ![w] = row]
    BY <1>1, <1>4
  <2> HIDE DEF found
  <2>3. row \in WorkerRow /\ row.event = worker[w].event /\ row.attempt = worker[w].attempt
    BY <1>1, <2>1 DEF WorkerRow
  <2> HIDE DEF row
  <2> QED
    BY <1>1, <1>4, <2>2, <2>3, WorkerPut
<1> QED
  BY <1>2, <1>3, <1>4 DEF GigaValidate

\* Maintenance deletes what is stuck with its attempts (PurgeStuck).
LEMMA PurgeKeeps == ASSUME QueueInv, GigaPurge PROVE QueueInv' /\ Own
<1> DEFINE gone == {e \in GigaEvents : Stuck(e)}
<1>1. /\ queue \in Queues /\ tries \subseteq TryRow /\ History(queue, tries)
      /\ UNCHANGED <<candidates, worker>>
  BY DEF QueueInv, GigaPurge
<1>2. /\ queue' = [e \in GigaEvents |-> IF e \in gone THEN NoEvent ELSE queue[e]]
      /\ tries' = {t \in tries : t.event \notin gone}
      /\ \A e \in gone : Stored(e, candidates) = 0
  BY DEF GigaPurge, Stuck
<1> HIDE DEF gone
<1>3. /\ queue' \in Queues /\ tries' \subseteq TryRow /\ tries' \subseteq tries
      /\ \A e \in GigaEvents : /\ e \in gone => queue'[e].state = "absent"
                               /\ e \notin gone => queue'[e] = queue[e]
  BY <1>1, <1>2, EmptyRows DEF Queues
<1>4. \A t \in tries' : t \in tries /\ t.event \in GigaEvents /\ queue'[t.event] = queue[t.event]
  BY <1>1, <1>2, <1>3 DEF TryRow
<1>5. History(queue', tries')
  <2>1. ASSUME NEW e \in GigaEvents, queue'[e].state = "running"
        PROVE  \E t \in tries' : t.event = e /\ t.outcome = "open"
    <3>1. e \notin gone /\ queue[e].state = "running"
      BY <1>3, <2>1
    <3>2. PICK t \in tries : t.event = e /\ t.outcome = "open"
      BY <1>1, <3>1 DEF History
    <3> QED
      BY <1>2, <3>1, <3>2
  <2> QED
    BY <1>1, <1>4, <2>1 DEF History
<1>6. WorksAtLatest'
  <2>1. \A e \in GigaEvents : queue'[e].state = "running" => queue'[e] = queue[e]
    BY <1>3
  <2> QED
    BY <1>1, <2>1 DEF QueueInv, WorksAtLatest, WorkerRow
<1>7. CandidateKeepsEvent'
  BY <1>1, <1>2, <1>3 DEF QueueInv, CandidateKeepsEvent, Stored
<1>8. Own
  BY <1>1, <1>3, NoneFinished
<1> QED
  BY <1>1, <1>3, <1>5, <1>6, <1>7, <1>8 DEF QueueInv

\* A candidate is stored for an event on file (giga_candidate_store).
LEMMA StoreKeeps ==
  ASSUME QueueInv, NEW e \in GigaEvents, NEW k \in Kinds, GigaStore(e, k)
  PROVE  QueueInv' /\ Own
<1>1. /\ queue[e].state # "absent" /\ candidates' = [candidates EXCEPT ![e] = @ \cup {k}]
      /\ UNCHANGED <<queue, tries, worker>>
  BY DEF GigaStore
<1>2. /\ candidates' \in [GigaEvents -> SUBSET Kinds]
      /\ \A f \in GigaEvents \ {e} : candidates'[f] = candidates[f]
  BY <1>1 DEF QueueInv
<1>3. CandidateKeepsEvent'
  BY <1>1, <1>2 DEF QueueInv, CandidateKeepsEvent, Stored
<1>4. Own
  BY <1>1, NoneFinished DEF QueueInv
<1> QED
  BY <1>1, <1>2, <1>3, <1>4 DEF QueueInv, WorksAtLatest

\* Every step of the queue.
LEMMA QueueSteps == QueueInv /\ [GigaNext]_gigaVars => QueueInv' /\ [Own]_gigaVars
<1> SUFFICES ASSUME QueueInv, [GigaNext]_gigaVars PROVE QueueInv' /\ [Own]_gigaVars
  OBVIOUS
<1>1. CASE UNCHANGED gigaVars
  BY <1>1 DEF gigaVars, QueueInv, WorksAtLatest, CandidateKeepsEvent
<1>2. CASE \E w \in GigaWorkers : WorkerStep(w) \/ GigaDie(w)
  BY <1>2, ClaimKeeps, SweepKeeps, WorkersKeep, GigaFinishKeeps DEF WorkerStep
<1>3. CASE \E e \in GigaEvents : \/ Ingest(e) \/ GigaReplay(e) \/ LeaseRunsOut(e) \/ RetryDue(e)
                                 \/ \E k \in Kinds : GigaStore(e, k)
  BY <1>3, MovesKeep, LapseKeeps, StoreKeeps
<1>4. CASE GigaPurge
  BY <1>4, PurgeKeeps
<1> QED
  BY <1>1, <1>2, <1>3, <1>4 DEF GigaNext

\* What holds of the queue in every behaviour.
LEMMA QueueStands == GigaSpec => []QueueInv
  BY QueueStarts, QueueSteps, PTL DEF GigaSpec

\* Types of the queue, its attempts, candidates and workers.
THEOREM GigaTypes == GigaSpec => []GigaTypeOK
<1>1. QueueInv => GigaTypeOK
  BY DEF QueueInv, GigaTypeOK, Queues, QueueRow, TryRow, WorkerRow
<1> QED
  BY <1>1, QueueStands, PTL

\* The attempt history tells the truth about the queue: an attempt is open exactly
\* when its event runs, it is the latest, and it names the worker that holds the
\* lease (giga_event_attempts).
THEOREM HistoryIsTrue == GigaSpec => []OneOpenAttempt
<1>1. ASSUME QueueInv, NEW e \in GigaEvents
      PROVE  {t \in tries : t.event = e /\ t.outcome = "open"} =
                IF queue[e].state # "running" THEN {}
                ELSE {[event |-> e, replay |-> queue[e].replay, attempt |-> queue[e].attempt,
                       worker |-> queue[e].by, outcome |-> "open"]}
  <2> DEFINE opened == {t \in tries : t.event = e /\ t.outcome = "open"}
             now == [event |-> e, replay |-> queue[e].replay, attempt |-> queue[e].attempt,
                     worker |-> queue[e].by, outcome |-> "open"]
  <2>1. History(queue, tries) /\ tries \subseteq TryRow
    BY <1>1 DEF QueueInv
  <2>2. \A t \in opened : queue[e].state = "running" /\ t = now
    BY <2>1 DEF History, TryRow
  <2>3. queue[e].state = "running" => \E t \in tries : t \in opened
    BY <2>1 DEF History
  <2> HIDE DEF opened, now
  <2>4. opened = IF queue[e].state # "running" THEN {} ELSE {now}
    BY <2>2, <2>3
  <2> QED
    BY <2>4 DEF opened, now
<1>2. QueueInv => OneOpenAttempt
  BY <1>1 DEF OneOpenAttempt
<1> QED
  BY <1>2, QueueStands, PTL

\* The provenance of a candidate is never purged, however often its event is
\* replayed, lapses or fails.
THEOREM ProvenanceStays == GigaSpec => []CandidateKeepsEvent
<1>1. QueueInv => CandidateKeepsEvent
  BY DEF QueueInv
<1> QED
  BY <1>1, QueueStands, PTL

\* An answer closes only the attempt it was claimed for: a worker that lost its
\* lease cannot finish the work of the one that took it over, although a finish
\* names the worker and not the attempt (giga_event_finish).
THEOREM AnswersCloseTheirOwn == GigaSpec => FinishesItsOwn
<1>1. FinishesItsOwn <=> [][Own]_gigaVars
  BY DEF FinishesItsOwn, Own
<1> QED
  BY <1>1, QueueStands, QueueSteps, PTL DEF GigaSpec

-----------------------------------------------------------------------------
(* Reviews and promotions.                                                   *)

Promoting == {"promote", "prepared", "unprepared"}
Digests == {NoDigest} \cup (Principals \X Titles \X (1..MaxStamps) \X (KeySets \cup {{}}))
Filed == [cand : GigaCandidates, who : Principals, from : ReviewStates, to : ReviewStates,
          at : 1..MaxStamps, digest : Digests]
Verdicts == [GigaCandidates -> [kind : PromotionKinds, state : ReviewStates, ref : 0..MaxRecords]]
RecordRows == [kind : PromotionKinds, key : GigaCandidates \cup Titles,
               by : GigaCandidates \cup {Writer}, keys : KeySets]
Calls == [pc : {"idle", "review"} \cup Promoting, cand : GigaCandidates \cup {Resting0.cand},
          to : ReviewStates, from : ReviewStates, title : Titles \cup {Resting0.title},
          keys : KeySets \cup {Resting0.keys}, at : 0..MaxStamps, got : 0..MaxRecords]

\* What a call under way carries.
Carries(k) ==
    /\ k.pc # "idle" => k.cand \in GigaCandidates /\ k.at \in 1..MaxStamps
    /\ k.pc \in Promoting => k.title \in Titles /\ k.keys \in KeySets

RecordsTyped ==
    /\ lastRecord \in 0..MaxRecords
    /\ DOMAIN records \subseteq 1..lastRecord
    /\ \A i \in DOMAIN records : records[i] \in RecordRows
CallsTyped == call \in [Principals -> Calls] /\ \A p \in Principals : Carries(call[p])

ReviewTyped ==
    /\ verdict \in Verdicts
    /\ reviews \in Seq(Filed)
    /\ RecordsTyped /\ CallsTyped
    /\ stamp \in 1..MaxStamps

\* The reviews of a candidate are a story, and the state that is stored ends it.
ReviewInv == ReviewTyped /\ ReviewsTellTheState

\* No call is under way at first, and a call that ends leaves none.
LEMMA RestingIsTyped == Resting0 \in Calls /\ Carries(Resting0)
<1>1. /\ Resting0.pc = "idle" /\ Resting0.to = "unreviewed" /\ Resting0.from = "unreviewed"
      /\ Resting0.at = 0 /\ Resting0.got = 0
      /\ Resting0 = [pc |-> Resting0.pc, cand |-> Resting0.cand, to |-> Resting0.to,
                     from |-> Resting0.from, title |-> Resting0.title, keys |-> Resting0.keys,
                     at |-> Resting0.at, got |-> Resting0.got]
  BY DEF Resting0, NoRef
<1>2. MaxStamps \in Nat /\ MaxRecords \in Nat
  BY ReviewAssumption
<1> QED
  BY <1>1, <1>2 DEF Calls, Carries, Promoting, ReviewStates

\* The start: nothing reviewed, nothing on file (giga_candidates, giga_reviews).
LEMMA ReviewStarts == ReviewInit => ReviewInv
<1> SUFFICES ASSUME ReviewInit PROVE ReviewInv
  OBVIOUS
<1>1. reviews = <<>> /\ records = <<>> /\ lastRecord = 0 /\ stamp = 1
      /\ call = [p \in Principals |-> Resting0]
  BY DEF ReviewInit
<1>2. MaxStamps \in Nat \ {0} /\ MaxRecords \in Nat
  BY ReviewAssumption
<1>3. PICK kinds \in [GigaCandidates -> PromotionKinds] :
          verdict = [c \in GigaCandidates |->
                       [kind |-> kinds[c], state |-> "unreviewed", ref |-> 0]]
  BY DEF ReviewInit, NoRef
<1>4. verdict \in Verdicts /\ \A c \in GigaCandidates : verdict[c].state = "unreviewed"
  BY <1>2, <1>3 DEF Verdicts, ReviewStates
<1>5. reviews \in Seq(Filed) /\ DOMAIN reviews = {} /\ DOMAIN records = {}
  BY <1>1, EmptySeq
<1>6. RecordsTyped /\ CallsTyped /\ stamp \in 1..MaxStamps
  BY <1>1, <1>2, <1>5, RestingIsTyped DEF RecordsTyped, CallsTyped
<1>7. ReviewsTellTheState
  BY <1>4, <1>5 DEF ReviewsTellTheState, OfCandidate
<1> QED
  BY <1>4, <1>5, <1>6, <1>7 DEF ReviewInv, ReviewTyped

\* A call that is given another place leaves the others theirs.
LEMMA CallPut ==
  ASSUME CallsTyped, NEW p \in Principals, NEW k \in Calls, Carries(k),
         call' = [call EXCEPT ![p] = k]
  PROVE  CallsTyped' /\ \A q \in Principals : call'[q] = IF q = p THEN k ELSE call[q]
  BY DEF CallsTyped, Carries

\* A review from the state that is stored continues the candidate's story
\* (GigaReview's one transaction under the row's lock).
LEMMA LoggedTells ==
  ASSUME ReviewTyped, ReviewsTellTheState, NEW p \in Principals, NEW c \in GigaCandidates,
         NEW to \in ReviewStates, NEW at \in 1..MaxStamps, NEW digest \in Digests,
         NEW ref \in 0..MaxRecords, Logged(p, c, verdict[c].state, to, at, digest, ref)
  PROVE  /\ verdict' \in Verdicts /\ reviews' \in Seq(Filed) /\ ReviewsTellTheState'
         /\ verdict'[c].state = to /\ verdict'[c].ref = ref /\ verdict'[c].kind = verdict[c].kind
<1> DEFINE n == Len(reviews)
           row == [cand |-> c, who |-> p, from |-> verdict[c].state, to |-> to,
                   at |-> at, digest |-> digest]
<1>1. verdict \in Verdicts /\ reviews \in Seq(Filed)
  BY DEF ReviewTyped
<1>2. verdict[c] \in [kind : PromotionKinds, state : ReviewStates, ref : 0..MaxRecords]
  BY <1>1 DEF Verdicts
<1>3. row \in Filed /\ row.cand = c /\ row.from = verdict[c].state /\ row.to = to
  BY <1>2 DEF Filed
<1>4. reviews' = Append(reviews, row)
  BY DEF Logged
<1>5. verdict' = [verdict EXCEPT ![c].state = to, ![c].ref = ref]
  BY DEF Logged
<1>6. /\ verdict' \in Verdicts
      /\ verdict'[c].state = to /\ verdict'[c].ref = ref /\ verdict'[c].kind = verdict[c].kind
      /\ \A d \in GigaCandidates : d # c => verdict'[d] = verdict[d]
  BY <1>1, <1>2, <1>5 DEF Verdicts
<1> HIDE DEF row
<1>7. n \in Nat /\ DOMAIN reviews = 1..n
  BY <1>1, LenProperties
<1> HIDE DEF n
<1>8. /\ reviews' \in Seq(Filed) /\ Len(reviews') = n + 1
      /\ \A i \in 1..n : reviews'[i] = reviews[i]
      /\ reviews'[n + 1] = row
  BY <1>1, <1>3, <1>4, AppendProperties DEF n
<1>9. DOMAIN reviews' = 1..(n + 1)
  BY <1>8, LenProperties
<1>10. \A d \in GigaCandidates : d # c => OfCandidate(d)' = OfCandidate(d)
  BY <1>3, <1>7, <1>8, <1>9 DEF OfCandidate
<1>11. OfCandidate(c)' = OfCandidate(c) \cup {n + 1}
  BY <1>3, <1>7, <1>8, <1>9 DEF OfCandidate
<1>12. \A d \in GigaCandidates : OfCandidate(d) \subseteq 1..n
  BY <1>7 DEF OfCandidate
<1>13. ASSUME NEW d \in GigaCandidates, d # c
       PROVE  /\ OfCandidate(d)' = {} => verdict'[d].state = "unreviewed"
              /\ \A i \in OfCandidate(d)' :
                    LET earlier == {j \in OfCandidate(d)' : j < i} IN
                    /\ earlier = {} => reviews'[i].from = "unreviewed"
                    /\ \A j \in earlier :
                          (\A k \in earlier : k <= j) => reviews'[i].from = reviews'[j].to
                    /\ (\A k \in OfCandidate(d)' : k <= i) => verdict'[d].state = reviews'[i].to
  <2>1. OfCandidate(d)' = OfCandidate(d) /\ verdict'[d] = verdict[d]
    BY <1>6, <1>10, <1>13
  <2>2. \A i \in OfCandidate(d) : reviews'[i] = reviews[i]
    BY <1>8, <1>12
  <2> QED
    BY <2>1, <2>2 DEF ReviewsTellTheState
<1>14. ASSUME NEW i \in OfCandidate(c)'
       PROVE  LET earlier == {j \in OfCandidate(c)' : j < i} IN
              /\ earlier = {} => reviews'[i].from = "unreviewed"
              /\ \A j \in earlier :
                    (\A k \in earlier : k <= j) => reviews'[i].from = reviews'[j].to
              /\ (\A k \in OfCandidate(c)' : k <= i) => verdict'[c].state = reviews'[i].to
  <2>1. CASE i \in OfCandidate(c)
    <3>1. i \in 1..n /\ reviews'[i] = reviews[i]
      BY <1>8, <1>12, <2>1
    <3>2. {j \in OfCandidate(c)' : j < i} = {j \in OfCandidate(c) : j < i}
      BY <1>7, <1>11, <3>1
    <3>3. \A j \in OfCandidate(c) : reviews'[j] = reviews[j]
      BY <1>8, <1>12
    <3>4. ~ \A k \in OfCandidate(c)' : k <= i
      BY <1>7, <1>11, <3>1
    <3> QED
      BY <2>1, <3>1, <3>2, <3>3, <3>4 DEF ReviewsTellTheState
  <2>2. CASE i = n + 1
    <3>1. {j \in OfCandidate(c)' : j < i} = OfCandidate(c)
      BY <1>7, <1>11, <1>12, <2>2
    <3>2. reviews'[i].from = verdict[c].state /\ reviews'[i].to = to
      BY <1>3, <1>8, <2>2
    <3>3. \A j \in OfCandidate(c) : reviews'[j] = reviews[j]
      BY <1>8, <1>12
    <3> QED
      BY <1>6, <3>1, <3>2, <3>3 DEF ReviewsTellTheState
  <2> QED
    BY <1>11, <2>1, <2>2
<1>15. OfCandidate(c)' # {}
  BY <1>11
<1>16. ReviewsTellTheState'
  BY <1>13, <1>14, <1>15 DEF ReviewsTellTheState
<1> QED
  BY <1>6, <1>8, <1>16

\* A record that is written is on file, of the kind and under the key it was
\* written with (the upserts of remember and lesson_remember).
LEMMA UpsertedIsOnFile ==
  ASSUME RecordsTyped, NEW id \in 1..MaxRecords, NEW kind \in PromotionKinds,
         NEW key \in GigaCandidates \cup Titles, NEW by \in GigaCandidates \cup {Writer},
         NEW keys \in KeySets, Upserted(id, kind, key, by, keys)
  PROVE  RecordsTyped' /\ id \in DOMAIN records' /\ records'[id].kind = kind
<1> DEFINE row == [kind |-> kind, key |-> key, by |-> by, keys |-> keys]
<1>1. row \in RecordRows /\ row.kind = kind
  BY DEF RecordRows
<1>2. MaxRecords \in Nat
  BY ReviewAssumption
<1>3. CASE id \in SameRecord(kind, key) /\ records' = [records EXCEPT ![id] = row] /\ UNCHANGED lastRecord
  <2> HIDE DEF row
  <2>1. id \in DOMAIN records
    BY <1>3 DEF SameRecord
  <2> QED
    BY <1>1, <1>3, <2>1 DEF RecordsTyped
<1>4. CASE /\ id = lastRecord + 1
           /\ records' = [i \in DOMAIN records \cup {id} |-> IF i = id THEN row ELSE records[i]]
           /\ lastRecord' = id
  <2> HIDE DEF row
  <2>1. DOMAIN records' = DOMAIN records \cup {id}
    BY <1>4
  <2>2. lastRecord' \in 0..MaxRecords /\ DOMAIN records' \subseteq 1..lastRecord'
    BY <1>2, <1>4, <2>1 DEF RecordsTyped
  <2> QED
    BY <1>1, <1>4, <2>1, <2>2 DEF RecordsTyped
<1> QED
  BY <1>3, <1>4 DEF Upserted

\* What ReceiptIsBacked says of a step.
Backed ==
    \A p \in Principals :
       (call[p].got = NoRef /\ call'[p].got # NoRef) =>
          LET c == call'[p].cand  id == call'[p].got IN
          /\ id \in DOMAIN records' /\ records'[id].kind = KindOf(c)
          /\ verdict'[c].state = "promoted" /\ verdict'[c].ref = id

\* A step that gives no receipt backs those there are.
LEMMA NoReceipt ==
  ASSUME CallsTyped, NEW p \in Principals, NEW k \in Calls, k.got \in {NoRef, call[p].got},
         call' = [call EXCEPT ![p] = k]
  PROVE  Backed
BY DEF CallsTyped, Backed

\* The story is of the reviews and of what is stored alone.
LEMMA StoryStands ==
  ASSUME ReviewInv, UNCHANGED <<verdict, reviews>>
  PROVE  verdict' \in Verdicts /\ reviews' \in Seq(Filed) /\ ReviewsTellTheState'
BY DEF ReviewInv, ReviewTyped, ReviewsTellTheState, OfCandidate

\* A caller's review of its own (giga_review).
LEMMA DirectReviewKeeps ==
  ASSUME ReviewInv, NEW p \in Principals, DirectReview(p)
  PROVE  ReviewInv' /\ Backed
<1>1. ReviewTyped /\ ReviewsTellTheState /\ CallsTyped /\ stamp \in 1..MaxStamps
  BY DEF ReviewInv, ReviewTyped
<1>2. PICK c \in GigaCandidates, from \in ReviewStates, to \in ReviewStates :
           Reviewed(p, c, from, to, stamp)
  BY DEF DirectReview
<1>3. from = verdict[c].state /\ NoDigest \in Digests /\ NoRef \in 0..MaxRecords
  BY <1>2, ReviewAssumption DEF Reviewed, StillFrom, Digests, NoRef
<1>4. Logged(p, c, verdict[c].state, to, stamp, NoDigest, NoRef)
  BY <1>2, <1>3 DEF Reviewed
<1>5. verdict' \in Verdicts /\ reviews' \in Seq(Filed) /\ ReviewsTellTheState'
  BY <1>1, <1>3, <1>4, LoggedTells
<1>6. call' = [call EXCEPT ![p] = Resting0] /\ UNCHANGED <<records, lastRecord, stamp>>
  BY DEF DirectReview
<1>7. CallsTyped' /\ Backed
  BY <1>1, <1>6, RestingIsTyped, CallPut, NoReceipt DEF Resting0
<1> QED
  BY <1>5, <1>6, <1>7 DEF ReviewInv, ReviewTyped, RecordsTyped

\* The tool's first transaction reads the candidate (giga_tool_review).
LEMMA ToolReviewKeeps ==
  ASSUME ReviewInv, NEW p \in Principals, ToolReview(p)
  PROVE  ReviewInv' /\ Backed
<1>1. ReviewTyped /\ CallsTyped /\ stamp \in 1..MaxStamps /\ verdict \in Verdicts
  BY DEF ReviewInv, ReviewTyped
<1>2. PICK c \in GigaCandidates, to \in ReviewStates \ AuthorityStates :
          call' = [call EXCEPT ![p] = [Resting0 EXCEPT !.pc = "review", !.cand = c,
                                         !.from = verdict[c].state, !.to = to, !.at = stamp]]
  BY DEF ToolReview
<1> DEFINE k == [Resting0 EXCEPT !.pc = "review", !.cand = c,
                    !.from = verdict[c].state, !.to = to, !.at = stamp]
<1>3. verdict[c].state \in ReviewStates
  BY <1>1 DEF Verdicts
<1>4. k \in Calls /\ k.pc = "review" /\ k.cand = c /\ k.at = stamp /\ k.got = Resting0.got
  <2>1. stamp \in 0..MaxStamps /\ to \in ReviewStates
    BY <1>1, ReviewAssumption
  <2>2. Resting0 \in Calls
    BY RestingIsTyped
  <2>3. k \in Calls
    BY <1>3, <2>1, <2>2 DEF Calls
  <2> QED
    BY <2>2, <2>3 DEF Calls
<1>5. Carries(k) /\ k.got = NoRef
  BY <1>1, <1>4 DEF Carries, Promoting, Resting0
<1> HIDE DEF k
<1>6. CallsTyped' /\ Backed
  BY <1>1, <1>2, <1>4, <1>5, CallPut, NoReceipt DEF k
<1>7. UNCHANGED <<verdict, reviews, records, lastRecord, stamp>>
  BY DEF ToolReview
<1> QED
  BY <1>1, <1>6, <1>7, StoryStands DEF ReviewInv, ReviewTyped, RecordsTyped

\* Its second commits from the state it read, or is refused.
LEMMA CommitReviewKeeps ==
  ASSUME ReviewInv, NEW p \in Principals, CommitReview(p)
  PROVE  ReviewInv' /\ Backed
<1> DEFINE c == call[p].cand
<1>1. ReviewTyped /\ ReviewsTellTheState /\ CallsTyped /\ stamp \in 1..MaxStamps
  BY DEF ReviewInv, ReviewTyped
<1>2. call[p] \in Calls /\ Carries(call[p]) /\ call[p].pc = "review"
  BY <1>1 DEF CallsTyped, CommitReview
<1>3. c \in GigaCandidates /\ call[p].at \in 1..MaxStamps /\ call[p].to \in ReviewStates
  BY <1>2 DEF Carries, Calls
<1>4. verdict' \in Verdicts /\ reviews' \in Seq(Filed) /\ ReviewsTellTheState'
  <2>1. CASE StillFrom(c, call[p].from)
    <3>1. Reviewed(p, c, call[p].from, call[p].to, call[p].at)
      BY <2>1 DEF CommitReview
    <3>2. Logged(p, c, verdict[c].state, call[p].to, call[p].at, NoDigest, NoRef)
      BY <2>1, <3>1 DEF Reviewed, StillFrom
    <3>3. NoDigest \in Digests /\ NoRef \in 0..MaxRecords
      BY ReviewAssumption DEF Digests, NoRef
    <3> QED
      BY <1>1, <1>3, <3>2, <3>3, LoggedTells
  <2>2. CASE ~StillFrom(c, call[p].from)
    BY <2>2, StoryStands DEF CommitReview
  <2> QED
    BY <2>1, <2>2
<1>5. call' = [call EXCEPT ![p] = Resting0] /\ UNCHANGED <<records, lastRecord, stamp>>
  BY DEF CommitReview
<1>6. CallsTyped' /\ Backed
  BY <1>1, <1>5, RestingIsTyped, CallPut, NoReceipt DEF Resting0
<1> QED
  BY <1>1, <1>4, <1>5, <1>6 DEF ReviewInv, ReviewTyped, RecordsTyped

\* A promotion is asked for (giga_tool_promote, giga_promote).
LEMMA AskedKeeps ==
  ASSUME ReviewInv, NEW p \in Principals, NEW c \in GigaCandidates, NEW title \in Titles,
         NEW keys \in KeySets, NEW at \in 1..MaxStamps, Asked(p, c, title, keys, at)
  PROVE  ReviewInv' /\ Backed
<1> DEFINE k == [Resting0 EXCEPT !.pc = "promote", !.cand = c,
                    !.title = title, !.keys = keys, !.at = at]
<1>1. ReviewTyped /\ CallsTyped
  BY DEF ReviewInv, ReviewTyped
<1>2. call' = [call EXCEPT ![p] = k] /\ UNCHANGED <<verdict, reviews, records, lastRecord, stamp>>
  BY DEF Asked
<1>3. MaxStamps \in Nat
  BY ReviewAssumption
<1>4. k \in Calls /\ k.pc = "promote" /\ k.cand = c /\ k.at = at /\ k.title = title
      /\ k.keys = keys /\ k.got = Resting0.got
  <2>1. at \in 0..MaxStamps
    BY <1>3
  <2>2. Resting0 \in Calls
    BY RestingIsTyped
  <2>3. k \in Calls
    BY <2>1, <2>2 DEF Calls, Promoting
  <2> QED
    BY <2>2, <2>3 DEF Calls
<1>5. Carries(k) /\ k.got = NoRef
  BY <1>4 DEF Carries, Promoting, Resting0
<1> HIDE DEF k
<1>6. CallsTyped' /\ Backed
  BY <1>1, <1>2, <1>4, <1>5, CallPut, NoReceipt
<1> QED
  BY <1>1, <1>2, <1>6, StoryStands DEF ReviewInv, ReviewTyped, RecordsTyped

\* A memory is prepared before the promotion's transaction (promotion.rs).
LEMMA PrepareKeeps ==
  ASSUME ReviewInv, NEW p \in Principals, Prepare(p)
  PROVE  ReviewInv' /\ Backed
<1> DEFINE place == IF verdict[call[p].cand].state = "promoted" THEN "unprepared" ELSE "prepared"
           k == [call[p] EXCEPT !.pc = place]
<1>1. ReviewTyped /\ CallsTyped
  BY DEF ReviewInv, ReviewTyped
<1>2. call[p] \in Calls /\ Carries(call[p]) /\ call[p].pc = "promote"
  BY <1>1 DEF CallsTyped, Prepare
<1>3. place \in {"prepared", "unprepared"}
  OBVIOUS
<1>4. call' = [call EXCEPT ![p] = k] /\ UNCHANGED <<verdict, reviews, records, lastRecord, stamp>>
  BY <1>1, <1>2 DEF CallsTyped, Prepare
<1> HIDE DEF place
<1>5. k \in Calls /\ k.pc = place /\ k.cand = call[p].cand /\ k.at = call[p].at
      /\ k.title = call[p].title /\ k.keys = call[p].keys /\ k.got = call[p].got
  BY <1>2, <1>3 DEF Calls, Promoting
<1>6. Carries(k)
  BY <1>2, <1>3, <1>5 DEF Carries, Promoting
<1> HIDE DEF k
<1>7. CallsTyped' /\ Backed
  BY <1>1, <1>4, <1>5, <1>6, CallPut, NoReceipt
<1> QED
  BY <1>1, <1>4, <1>7, StoryStands DEF ReviewInv, ReviewTyped, RecordsTyped

\* A call that ends or is refused gives no receipt.
LEMMA RefusedKeeps ==
  ASSUME ReviewInv, NEW p \in Principals, Refused(p), UNCHANGED stamp
  PROVE  ReviewInv' /\ Backed
<1>1. ReviewTyped /\ CallsTyped
  BY DEF ReviewInv, ReviewTyped
<1>2. call' = [call EXCEPT ![p] = Resting0] /\ UNCHANGED <<verdict, reviews, records, lastRecord>>
  BY DEF Refused
<1>3. CallsTyped' /\ Backed
  BY <1>1, <1>2, RestingIsTyped, CallPut, NoReceipt DEF Resting0
<1> QED
  BY <1>1, <1>2, <1>3, StoryStands DEF ReviewInv, ReviewTyped, RecordsTyped

\* A receipt names the candidate and the record.
LEMMA ReceiptPut ==
  ASSUME CallsTyped, NEW p \in Principals, NEW c \in GigaCandidates, NEW id \in 0..MaxRecords,
         Receipt(p, c, id)
  PROVE  /\ CallsTyped'
         /\ call'[p].cand = c /\ call'[p].got = id
         /\ \A q \in Principals : q # p => call'[q] = call[q]
<1> DEFINE k == [Resting0 EXCEPT !.cand = c, !.got = id]
<1>1. k \in Calls /\ k.pc = Resting0.pc /\ k.cand = c /\ k.got = id
  BY RestingIsTyped DEF Calls
<1>2. Carries(k)
  BY <1>1 DEF Carries, Resting0, Promoting
<1>3. call' = [call EXCEPT ![p] = k]
  BY DEF Receipt
<1> HIDE DEF k
<1>4. CallsTyped' /\ \A q \in Principals : call'[q] = IF q = p THEN k ELSE call[q]
  BY <1>1, <1>2, <1>3, CallPut
<1>5. call'[p] = k /\ \A q \in Principals : q # p => call'[q] = call[q]
  BY <1>4
<1> QED
  BY <1>1, <1>4, <1>5

\* The promotion's transaction: told again, carried out or refused.
LEMMA PromoteKeeps ==
  ASSUME ReviewInv, NEW p \in Principals, Promote(p)
  PROVE  ReviewInv' /\ Backed
<1> DEFINE c == call[p].cand
<1>1. /\ ReviewTyped /\ ReviewsTellTheState /\ CallsTyped /\ RecordsTyped
      /\ verdict \in Verdicts /\ stamp \in 1..MaxStamps
  BY DEF ReviewInv, ReviewTyped
<1>2. call[p].pc \in Promoting /\ UNCHANGED stamp
  BY DEF Promote, Promoting
<1>3. /\ c \in GigaCandidates /\ call[p].at \in 1..MaxStamps
      /\ call[p].title \in Titles /\ call[p].keys \in KeySets
  BY <1>1, <1>2 DEF CallsTyped, Carries, Promoting
<1>4. verdict[c] \in [kind : PromotionKinds, state : ReviewStates, ref : 0..MaxRecords]
  BY <1>1, <1>3 DEF Verdicts
<1>5. CASE /\ verdict[c].state = "promoted" /\ Standing(c)
           /\ Receipt(p, c, verdict[c].ref)
           /\ UNCHANGED <<verdict, reviews, records, lastRecord>>
  <2>1. /\ CallsTyped' /\ call'[p].cand = c /\ call'[p].got = verdict[c].ref
        /\ \A q \in Principals : q # p => call'[q] = call[q]
    BY <1>1, <1>3, <1>4, <1>5, ReceiptPut
  <2>2. Backed
    BY <1>5, <2>1 DEF Backed, Standing
  <2> QED
    BY <1>1, <1>2, <1>5, <2>1, <2>2, StoryStands DEF ReviewInv, ReviewTyped, RecordsTyped
<1>6. ASSUME MayPromote(p, c), NEW id \in 1..MaxRecords,
             Upserted(id, KindOf(c), RecordKey(p), c, call[p].keys),
             Logged(p, c, "in_review", "promoted", call[p].at, RequestDigest(p), id),
             Receipt(p, c, id)
      PROVE  ReviewInv' /\ Backed
  <2>1. KindOf(c) \in PromotionKinds /\ RecordKey(p) \in GigaCandidates \cup Titles
    BY <1>3, <1>4 DEF KindOf, RecordKey
  <2>2. RecordsTyped' /\ id \in DOMAIN records' /\ records'[id].kind = KindOf(c)
    BY <1>1, <1>3, <1>6, <2>1, UpsertedIsOnFile
  <2>3. RequestDigest(p) \in Digests
    <3>1. (IF KindOf(c) = "project_lesson" THEN call[p].keys ELSE {}) \in KeySets \cup {{}}
      BY <1>3
    <3> QED
      BY <1>3, <3>1 DEF RequestDigest, Digests
  <2>4. verdict[c].state = "in_review" /\ "promoted" \in ReviewStates
    BY <1>6 DEF MayPromote, ReviewStates
  <2>5. id \in 0..MaxRecords
    BY ReviewAssumption
  <2>6. /\ verdict' \in Verdicts /\ reviews' \in Seq(Filed) /\ ReviewsTellTheState'
        /\ verdict'[c].state = "promoted" /\ verdict'[c].ref = id
    BY <1>1, <1>3, <1>6, <2>3, <2>4, <2>5, LoggedTells
  <2>7. /\ CallsTyped' /\ call'[p].cand = c /\ call'[p].got = id
        /\ \A q \in Principals : q # p => call'[q] = call[q]
    BY <1>1, <1>3, <1>6, <2>5, ReceiptPut
  <2>8. Backed
    BY <2>2, <2>6, <2>7 DEF Backed
  <2> QED
    BY <1>1, <1>2, <2>2, <2>6, <2>7, <2>8 DEF ReviewInv, ReviewTyped
<1>7. CASE Refused(p)
  BY <1>2, <1>7, RefusedKeeps
<1> QED
  BY <1>5, <1>6, <1>7 DEF Promote

\* The records' own doors touch neither calls nor reviews
\* (lesson_remember, lesson_update, lesson_delete).
LEMMA LessonsKeep ==
  ASSUME ReviewInv, RememberLesson \/ RetitleLesson \/ DeleteLesson
  PROVE  ReviewInv' /\ Backed
<1>1. RecordsTyped
  BY DEF ReviewInv, ReviewTyped
<1>2. UNCHANGED <<verdict, reviews, call, stamp>>
  BY DEF RememberLesson, RetitleLesson, DeleteLesson
<1>3. CASE RememberLesson
  <2>1. PICK id \in 1..MaxRecords, kind \in PromotionKinds \ {"memory"}, title \in Titles,
              keys \in KeySets : Upserted(id, kind, title, Writer, keys)
    BY <1>3 DEF RememberLesson
  <2>2. RecordsTyped'
    BY <1>1, <2>1, UpsertedIsOnFile
  <2> QED
    BY <1>2, <2>2, StoryStands DEF ReviewInv, ReviewTyped, CallsTyped, Backed
<1>4. CASE RetitleLesson
  <2>1. PICK id \in DOMAIN records, title \in Titles :
              records' = [records EXCEPT ![id].key = title]
    BY <1>4 DEF RetitleLesson
  <2>2. records[id] \in RecordRows /\ UNCHANGED lastRecord
    BY <1>1, <1>4 DEF RecordsTyped, RetitleLesson
  <2>3. [records[id] EXCEPT !.key = title] \in RecordRows
    BY <2>2 DEF RecordRows
  <2>4. /\ DOMAIN records' = DOMAIN records
        /\ \A i \in DOMAIN records :
              records'[i] = IF i = id THEN [records[id] EXCEPT !.key = title] ELSE records[i]
    BY <2>1
  <2>5. RecordsTyped'
    BY <1>1, <2>2, <2>3, <2>4 DEF RecordsTyped
  <2> QED
    BY <1>2, <2>5, StoryStands DEF ReviewInv, ReviewTyped, CallsTyped, Backed
<1>5. CASE DeleteLesson
  <2>1. RecordsTyped'
    BY <1>1, <1>5 DEF RecordsTyped, DeleteLesson
  <2> QED
    BY <1>2, <2>1, StoryStands DEF ReviewInv, ReviewTyped, CallsTyped, Backed
<1> QED
  BY <1>3, <1>4, <1>5

\* Every step of reviewers, promoters and owners of lessons.
LEMMA ReviewSteps == ReviewInv /\ [ReviewNext]_reviewVars => ReviewInv' /\ [Backed]_reviewVars
<1> SUFFICES ASSUME ReviewInv, [ReviewNext]_reviewVars PROVE ReviewInv' /\ [Backed]_reviewVars
  OBVIOUS
<1>1. ASSUME NEW p \in Principals, ToolPromote(p) PROVE ReviewInv' /\ Backed
  <2>1. PICK c \in GigaCandidates, title \in Titles, keys \in KeySets :
            Asked(p, c, title, keys, stamp)
    BY <1>1 DEF ToolPromote
  <2> QED
    BY <2>1, AskedKeeps DEF ReviewInv, ReviewTyped
<1>2. ASSUME NEW p \in Principals, DirectPromote(p) PROVE ReviewInv' /\ Backed
  <2>1. PICK c \in GigaCandidates, title \in Titles, keys \in KeySets, at \in 1..stamp :
            Asked(p, c, title, keys, at)
    BY <1>2 DEF DirectPromote
  <2>2. at \in 1..MaxStamps
    BY ReviewAssumption DEF ReviewInv, ReviewTyped
  <2> QED
    BY <2>1, <2>2, AskedKeeps
<1>3. ASSUME NEW p \in Principals, DropCall(p) PROVE ReviewInv' /\ Backed
  BY <1>3, RefusedKeeps DEF DropCall
<1>4. CASE ReviewTick
  BY <1>4, StoryStands, ReviewAssumption
  DEF ReviewTick, ReviewInv, ReviewTyped, RecordsTyped, CallsTyped, Backed
<1>5. CASE UNCHANGED reviewVars
  BY <1>5, StoryStands DEF reviewVars, ReviewInv, ReviewTyped, RecordsTyped, CallsTyped
<1> QED
  BY <1>1, <1>2, <1>3, <1>4, <1>5, DirectReviewKeeps, ToolReviewKeeps, CommitReviewKeeps,
     PrepareKeeps, PromoteKeeps, LessonsKeep DEF ReviewNext

\* What holds of the reviews in every behaviour.
LEMMA ReviewStands == ReviewSpec => []ReviewInv
  BY ReviewStarts, ReviewSteps, PTL DEF ReviewSpec

\* Types of verdicts, reviews, records and the clock.
THEOREM ReviewTypes == ReviewSpec => []ReviewTypeOK
<1>1. ReviewInv => ReviewTypeOK
  <2> SUFFICES ASSUME ReviewInv PROVE ReviewTypeOK
    OBVIOUS
  <2>1. \A i \in DOMAIN reviews : reviews[i] \in Filed
    BY LenProperties, ElementOfSeq DEF ReviewInv, ReviewTyped
  <2>2. \A i \in DOMAIN reviews :
          /\ reviews[i].cand \in GigaCandidates /\ reviews[i].who \in Principals
          /\ reviews[i].from \in ReviewStates /\ reviews[i].to \in ReviewStates
          /\ reviews[i].at \in 1..MaxStamps
    BY <2>1 DEF Filed
  <2> QED
    BY <2>2 DEF ReviewInv, ReviewTyped, ReviewTypeOK, Verdicts, RecordsTyped, RecordRows
<1> QED
  BY <1>1, ReviewStands, PTL

\* The reviews on file tell each candidate's story without a gap, and the state
\* that is stored ends it: no verdict is committed from a state that another
\* reviewer has moved, and nothing is promoted twice (review.rs, promotion.rs).
THEOREM ReviewsAreAStory == ReviewSpec => []ReviewsTellTheState
<1>1. ReviewInv => ReviewsTellTheState
  BY DEF ReviewInv
<1> QED
  BY <1>1, ReviewStands, PTL

\* A receipt, first or repeated, names a record of the candidate's kind that is on
\* file when it is given, and the one the candidate refers to (promotion.rs).
THEOREM ReceiptsAreBacked == ReviewSpec => ReceiptIsBacked
<1>1. ReceiptIsBacked <=> [][Backed]_reviewVars
  BY DEF ReceiptIsBacked, Backed
<1> QED
  BY <1>1, ReviewStands, ReviewSteps, PTL DEF ReviewSpec

-----------------------------------------------------------------------------
(* Lessons and what was read of them.                                        *)

LessonRow == [pattern : Patterns \cup {"none"}, stamp : Nat]
Snapshots == UNION {[D -> LessonRow] : D \in SUBSET Lessons}
Compiled == [count : Nat, latest : Nat, rows : Snapshots]
Matching == [pc : {"idle", "read", "hit", "fire"}, fence : Fences, text : Patterns \cup {"none"},
             rows : Snapshots, hits : SUBSET Lessons]

\* What a fence still works with: the set in its cache, and the rows of every
\* match that has read and not yet matched.
Reads(f) == {m \in Matches : match[m].pc = "read" /\ match[m].fence = f}
HeldBy(f) == {compiled[f].rows} \cup {match[m].rows : m \in Reads(f)}

\* Nothing older than the newest row that was read has changed since, while that
\* row stands.
Stands(f, X) ==
    (Latest(X) # 0 /\ \E l \in Lessons : lesson[l].stamp = Latest(X)) =>
       \A k \in Visible(f) : lesson[k].stamp <= Latest(X) => k \in DOMAIN X /\ X[k] = lesson[k]

\* One fingerprint, one set of rows.
Alike(X, Y) ==
    (Cardinality(DOMAIN X) = Cardinality(DOMAIN Y) /\ Latest(X) = Latest(Y)) => X = Y

\* A transaction under way has not written yet, and no other has its time.
EditorsAreFresh ==
    \A e \in Editors : editor[e].open =>
       /\ editor[e].stamp \in 1..edits
       /\ \A l \in Lessons : lesson[l].stamp # editor[e].stamp
       /\ \A d \in Editors \ {e} : editor[d].open => editor[d].stamp # editor[e].stamp

\* What was read was written, by a transaction that is over.
WasWritten(X) ==
    \A l \in DOMAIN X : /\ X[l].stamp \in 1..edits
                        /\ \A e \in Editors : editor[e].open => X[l].stamp # editor[e].stamp

LessonsTyped ==
    /\ lesson \in [Lessons -> LessonRow] /\ edits \in 0..MaxEdits
    /\ \A l \in Lessons : /\ lesson[l].stamp <= edits
                          /\ lesson[l].stamp = 0 => lesson[l].pattern = "none"
    /\ editor \in [Editors -> [open : BOOLEAN, stamp : Nat]]
    /\ overtaken \in BOOLEAN
CacheTyped ==
    /\ compiled \in [Fences -> Compiled]
    /\ \A f \in Fences : /\ compiled[f].count = Cardinality(DOMAIN compiled[f].rows)
                         /\ compiled[f].latest = Latest(compiled[f].rows)
    /\ match \in [Matches -> Matching]
LedgerTyped == fires \in [Lessons -> 0..MaxFires] /\ cooled \subseteq CoolingLessons

HeldIsSound ==
    \A f \in Fences :
       /\ \A X \in HeldBy(f) : WasWritten(X) /\ (~overtaken => Stands(f, X))
       /\ ~overtaken => \A X, Y \in HeldBy(f) : Alike(X, Y)

TriggerInv == LessonsTyped /\ CacheTyped /\ LedgerTyped /\ EditorsAreFresh /\ HeldIsSound

\* What MatchesWhatItRead says of a step.
Faithful == \A m \in Matches :
               (MatchSurfaces(m) /\ ~overtaken) => compiled'[match[m].fence].rows = match[m].rows

\* A set of numbers up to some bound, not empty, has a greatest one.
LEMMA HighestStamp ==
  ASSUME NEW N \in Nat, NEW S \in SUBSET (0..N), S # {}
  PROVE  \E m \in S : \A k \in S : k <= m
<1> DEFINE R == {ss \in Nat \X Nat : ss[1] < ss[2]}
           U == {N - t : t \in S}
<1>1. IsWellFoundedOn(R, Nat)
  BY NatLessThanWellFounded DEF OpToRel
<1>2. \A y, x \in U : <<y, x>> \in R <=> y < x
  OBVIOUS
<1>3. U \in SUBSET Nat /\ U # {}
  <2>1. PICK t \in S : TRUE
    OBVIOUS
  <2>2. N - t \in U
    BY <2>1
  <2> QED
    BY <2>2
<1> HIDE DEF R
<1>4. PICK u \in U : \A k \in U : ~ (<<k, u>> \in R)
  BY <1>1, <1>3, WFMin
<1>5. \A k \in U : ~(k < u)
  BY <1>2, <1>4
<1>6. PICK m \in S : u = N - m
  BY <1>4
<1>7. ASSUME NEW k \in S PROVE k <= m
  <2>1. N - k \in U /\ ~(N - k < N - m)
    BY <1>5, <1>6
  <2>2. k \in Nat /\ m \in Nat
    OBVIOUS
  <2> QED
    BY <2>1, <2>2
<1> QED
  BY <1>7

\* The newest time of what was read is one of its rows', or none if it is empty.
LEMMA LatestIsNewest ==
  ASSUME LessonsTyped, NEW X \in Snapshots, WasWritten(X)
  PROVE  /\ Latest(X) \in Nat
         /\ \A l \in DOMAIN X : X[l].stamp \in Nat /\ X[l].stamp # 0 /\ X[l].stamp <= Latest(X)
         /\ Latest(X) # 0 => \E l \in DOMAIN X : X[l].stamp = Latest(X)
<1> DEFINE S == {X[l].stamp : l \in DOMAIN X} \cup {0}
<1>1. edits \in Nat
  BY TriggerAssumption DEF LessonsTyped
<1>2. \A l \in DOMAIN X : X[l].stamp \in 1..edits
  BY DEF WasWritten
<1>3. S \in SUBSET (0..edits) /\ S # {}
  BY <1>1, <1>2
<1>4. \E m \in S : \A k \in S : k <= m
  BY <1>1, <1>3, HighestStamp
<1>5. PICK s \in S : \A l \in DOMAIN X : X[l].stamp <= s
  BY <1>4
<1>6. Latest(X) \in S /\ \A l \in DOMAIN X : X[l].stamp <= Latest(X)
  BY <1>5 DEF Latest
<1> QED
  BY <1>1, <1>2, <1>3, <1>6

\* What a fence sees is a snapshot of rows that were written.
LEMMA RowsAreASnapshot ==
  ASSUME LessonsTyped, EditorsAreFresh, NEW f \in Fences
  PROVE  /\ RowsOf(f) \in Snapshots /\ WasWritten(RowsOf(f)) /\ DOMAIN RowsOf(f) = Visible(f)
         /\ Visible(f) \subseteq Lessons /\ \A l \in Visible(f) : RowsOf(f)[l] = lesson[l]
         /\ Stands(f, RowsOf(f))
<1>1. Visible(f) \subseteq Lessons /\ \A l \in Visible(f) : lesson[l].pattern # "none"
  BY DEF Visible
<1>2. DOMAIN RowsOf(f) = Visible(f) /\ \A l \in Visible(f) : RowsOf(f)[l] = lesson[l]
  BY DEF RowsOf
<1>3. RowsOf(f) \in [Visible(f) -> LessonRow]
  BY <1>1 DEF RowsOf, LessonsTyped
<1>4. RowsOf(f) \in Snapshots
  BY <1>1, <1>3 DEF Snapshots
<1>5. \A l \in Visible(f) : lesson[l] \in LessonRow /\ lesson[l].stamp <= edits /\ lesson[l].stamp # 0
  BY <1>1 DEF LessonsTyped
<1>6. \A l \in Visible(f) : lesson[l].stamp \in 1..edits
  BY <1>5, TriggerAssumption DEF LessonRow, LessonsTyped
<1>7. WasWritten(RowsOf(f))
  BY <1>1, <1>2, <1>6 DEF WasWritten, EditorsAreFresh
<1> QED
  BY <1>1, <1>2, <1>4, <1>7 DEF Stands

\* The set of an empty cache.
LEMMA NothingRead ==
  /\ <<>> \in Snapshots /\ DOMAIN <<>> = {} /\ Latest(<<>>) = 0
  /\ NoSet \in Compiled /\ NoSet.count = Cardinality(DOMAIN NoSet.rows)
  /\ NoSet.latest = Latest(NoSet.rows) /\ NoSet.rows = <<>>
  /\ NotMatching \in Matching /\ NotMatching.pc = "idle"
<1>1. DOMAIN <<>> = {}
  OBVIOUS
<1>2. <<>> \in [{} -> LessonRow]
  BY <1>1
<1>3. <<>> \in Snapshots
  BY <1>2 DEF Snapshots
<1>4. Latest(<<>>) = 0
  BY <1>1 DEF Latest
<1>5. Cardinality({}) = 0
  BY FS_EmptySet
<1>6. NoSet.count = 0 /\ NoSet.latest = 0 /\ NoSet.rows = <<>>
      /\ NoSet = [count |-> 0, latest |-> 0, rows |-> <<>>]
  BY DEF NoSet
<1> DEFINE none == <<>>
<1>7. NoSet \in Compiled /\ NotMatching \in Matching /\ NotMatching.pc = "idle"
  <2>1. none \in Snapshots /\ NoSet = [count |-> 0, latest |-> 0, rows |-> none]
        /\ NotMatching = [pc |-> "idle", fence |-> "room", text |-> "none", rows |-> none, hits |-> {}]
    BY <1>3, <1>6 DEF NotMatching
  <2> HIDE DEF none
  <2> QED
    BY <2>1 DEF Compiled, Matching, Fences
<1> QED
  BY <1>1, <1>3, <1>4, <1>5, <1>6, <1>7

\* What is read now has the fingerprint of what was read before only if it is
\* the same: the newest row stands, so nothing older has changed.
LEMMA ReadAlike ==
  ASSUME LessonsTyped, EditorsAreFresh, NEW f \in Fences, NEW X \in Snapshots, WasWritten(X),
         Stands(f, X)
  PROVE  Alike(X, RowsOf(f)) /\ Alike(RowsOf(f), X)
<1> DEFINE Y == RowsOf(f)
<1>1. /\ Y \in Snapshots /\ WasWritten(Y) /\ DOMAIN Y = Visible(f)
      /\ Visible(f) \subseteq Lessons /\ \A l \in Visible(f) : Y[l] = lesson[l]
  BY RowsAreASnapshot
<1> HIDE DEF Y
<1>2. /\ Latest(X) \in Nat
      /\ \A l \in DOMAIN X : X[l].stamp \in Nat /\ X[l].stamp # 0 /\ X[l].stamp <= Latest(X)
  BY LatestIsNewest
<1>3. /\ Latest(Y) \in Nat
      /\ \A l \in DOMAIN Y : Y[l].stamp \in Nat /\ Y[l].stamp # 0 /\ Y[l].stamp <= Latest(Y)
      /\ Latest(Y) # 0 => \E l \in DOMAIN Y : Y[l].stamp = Latest(Y)
  BY <1>1, LatestIsNewest
<1>4. /\ X = [l \in DOMAIN X |-> X[l]] /\ Y = [l \in DOMAIN Y |-> Y[l]]
      /\ DOMAIN X \subseteq Lessons
  BY <1>1 DEF Snapshots
<1>5. ASSUME Cardinality(DOMAIN X) = Cardinality(DOMAIN Y), Latest(X) = Latest(Y)
      PROVE  X = Y
  <2>1. CASE Latest(Y) = 0
    <3>1. DOMAIN X = {} /\ DOMAIN Y = {}
      <4>1. ASSUME NEW n \in Nat, n # 0, n <= 0 PROVE FALSE
        BY <4>1
      <4>2. ASSUME NEW l \in DOMAIN X PROVE FALSE
        BY <1>2, <1>5, <2>1, <4>1
      <4>3. ASSUME NEW l \in DOMAIN Y PROVE FALSE
        BY <1>3, <2>1, <4>1
      <4> QED
        BY <4>2, <4>3
    <3> QED
      BY <1>4, <3>1
  <2>2. CASE Latest(Y) # 0
    <3>1. PICK l \in DOMAIN Y : Y[l].stamp = Latest(Y)
      BY <1>3, <2>2
    <3>2. l \in Lessons /\ lesson[l].stamp = Latest(X)
      BY <1>1, <1>5, <3>1
    <3>3. \A k \in Visible(f) : lesson[k].stamp <= Latest(X) => k \in DOMAIN X /\ X[k] = lesson[k]
      BY <1>5, <2>2, <3>2 DEF Stands
    <3>4. \A k \in DOMAIN Y : k \in DOMAIN X /\ X[k] = Y[k]
      BY <1>1, <1>3, <1>5, <3>3
    <3>5. DOMAIN Y \subseteq DOMAIN X /\ IsFiniteSet(DOMAIN X)
      <4>1. DOMAIN X \in SUBSET Lessons /\ IsFiniteSet(Lessons)
        BY <1>4, TriggerAssumption
      <4> QED
        BY <3>4, <4>1, FS_Subset
    <3>6. DOMAIN X = DOMAIN Y
      <4>1. DOMAIN Y \in SUBSET DOMAIN X
        BY <3>5
      <4>2. Cardinality(DOMAIN X) = Cardinality(DOMAIN Y) => DOMAIN X = DOMAIN Y
        BY <3>5, <4>1, FS_Subset
      <4> QED
        BY <1>5, <4>2
    <3> QED
      BY <1>4, <3>4, <3>6
  <2> QED
    BY <2>1, <2>2
<1> QED
  BY <1>5 DEF Alike, Y

\* The start: no lesson, nothing read, an empty cache.
LEMMA TriggersStart == TriggerInit => TriggerInv
<1> SUFFICES ASSUME TriggerInit PROVE TriggerInv
  OBVIOUS
<1>1. LessonsTyped
  <2> DEFINE no == FALSE
  <2>1. /\ no \in BOOLEAN /\ overtaken = no /\ edits = 0
        /\ editor = [e \in Editors |-> [open |-> no, stamp |-> 0]]
        /\ \A l \in Lessons : lesson[l] = NoLesson
        /\ lesson = [l \in Lessons |-> NoLesson]
    BY DEF TriggerInit
  <2> HIDE DEF no
  <2>2. NoLesson \in LessonRow /\ NoLesson.stamp = 0 /\ NoLesson.pattern = "none"
    BY DEF NoLesson, LessonRow
  <2>3. lesson \in [Lessons -> LessonRow]
        /\ \A l \in Lessons : lesson[l].stamp = 0 /\ lesson[l].pattern = "none"
    BY <2>1, <2>2
  <2>4. edits \in 0..MaxEdits
    BY <2>1, TriggerAssumption
  <2>5. editor \in [Editors -> [open : BOOLEAN, stamp : Nat]]
    BY <2>1
  <2> QED
    BY <2>1, <2>3, <2>4, <2>5 DEF LessonsTyped
<1>2. CacheTyped
  BY NothingRead DEF TriggerInit, CacheTyped
<1>3. LedgerTyped
  BY TriggerAssumption DEF TriggerInit, LedgerTyped
<1>4. EditorsAreFresh
  BY DEF TriggerInit, EditorsAreFresh
<1>5. \A f \in Fences : HeldBy(f) = {<<>>}
  <2>1. \A m \in Matches : match[m].pc = "idle"
    BY NothingRead DEF TriggerInit
  <2>2. \A f \in Fences : compiled[f].rows = <<>>
    BY NothingRead DEF TriggerInit
  <2> QED
    BY <2>1, <2>2 DEF HeldBy, Reads
<1>6. HeldIsSound
  BY <1>5, NothingRead DEF HeldIsSound, WasWritten, Stands, Alike
<1> QED
  BY <1>1, <1>2, <1>3, <1>4, <1>6 DEF TriggerInv

\* What is held is a snapshot.
LEMMA HeldAreSnapshots ==
  ASSUME CacheTyped, NEW f \in Fences
  PROVE  HeldBy(f) \subseteq Snapshots
<1>1. compiled[f] \in Compiled /\ \A m \in Matches : match[m] \in Matching
  BY DEF CacheTyped
<1> QED
  BY <1>1 DEF HeldBy, Reads, Compiled, Matching

\* A step of the matches that takes up no rows but those held leaves them sound.
LEMMA HoldingLess ==
  ASSUME TriggerInv, UNCHANGED <<lesson, editor, edits, overtaken>>, CacheTyped',
         LedgerTyped', \A f \in Fences : HeldBy(f)' \subseteq HeldBy(f)
  PROVE  TriggerInv'
<1>1. LessonsTyped' /\ EditorsAreFresh'
  BY DEF TriggerInv, LessonsTyped, EditorsAreFresh
<1>2. ASSUME NEW f \in Fences, NEW X \in HeldBy(f)
      PROVE  WasWritten(X)' /\ (~overtaken' => Stands(f, X)')
  <2>1. WasWritten(X) /\ (~overtaken => Stands(f, X))
    BY DEF TriggerInv, HeldIsSound
  <2>2. WasWritten(X)'
    BY <2>1 DEF WasWritten
  <2>3. Latest(X)' = Latest(X) /\ Visible(f)' = Visible(f)
    BY DEF Latest, Visible
  <2>4. ASSUME ~overtaken' PROVE Stands(f, X)'
    BY <2>1, <2>3, <2>4 DEF Stands
  <2> QED
    BY <2>2, <2>4
<1>3. ASSUME NEW f \in Fences, ~overtaken', NEW X \in HeldBy(f), NEW Y \in HeldBy(f)
      PROVE  Alike(X, Y)'
  BY <1>3 DEF TriggerInv, HeldIsSound, Alike, Latest
<1>4. HeldIsSound'
  BY <1>2, <1>3 DEF HeldIsSound
<1> QED
  BY <1>1, <1>4 DEF TriggerInv

\* The cache and the matches, when neither changes.
LEMMA SameCache == ASSUME CacheTyped, UNCHANGED <<compiled, match>> PROVE CacheTyped'
<1>1. compiled' = compiled /\ match' = match
  OBVIOUS
<1> QED
  BY <1>1 DEF CacheTyped, Latest

\* A match that moves on, not to read, holds nothing more.
LEMMA MatchPut ==
  ASSUME CacheTyped, NEW m \in Matches, NEW k \in Matching, k.pc # "read",
         match' = [match EXCEPT ![m] = k], UNCHANGED compiled
  PROVE  CacheTyped' /\ \A f \in Fences : HeldBy(f)' \subseteq HeldBy(f)
<1>1. /\ match' \in [Matches -> Matching]
      /\ \A n \in Matches : match'[n] = IF n = m THEN k ELSE match[n]
  BY DEF CacheTyped
<1>2. \A f \in Fences : \A n \in Matches :
         match'[n].pc = "read" => n # m /\ match'[n] = match[n]
  BY <1>1
<1>3. \A f \in Fences : HeldBy(f)' \subseteq HeldBy(f)
  BY <1>2 DEF HeldBy, Reads
<1> QED
  BY <1>1, <1>3 DEF CacheTyped, Latest

\* An edit begins at a time of its own.
LEMMA BeginKeeps == ASSUME TriggerInv, NEW e \in Editors, BeginEdit(e) PROVE TriggerInv'
<1> DEFINE yes == TRUE
           now == edits + 1
<1>1. /\ edits' = now /\ editor' = [editor EXCEPT ![e] = [open |-> yes, stamp |-> now]]
      /\ yes \in BOOLEAN /\ edits < MaxEdits
      /\ UNCHANGED <<lesson, compiled, match, fires, cooled, overtaken>>
  BY DEF BeginEdit
<1>2. /\ edits \in Nat /\ now \in Nat /\ now > edits /\ now \in 0..MaxEdits /\ now \in 1..now
      /\ \A s \in 0..edits : s <= now /\ s # now
      /\ \A s \in 1..edits : s \in 1..now /\ s # now
  BY <1>1, TriggerAssumption DEF TriggerInv, LessonsTyped
<1>3. \A l \in Lessons : lesson[l].stamp \in 0..edits
  BY <1>2 DEF TriggerInv, LessonsTyped, LessonRow
<1> HIDE DEF yes, now
<1>4. /\ editor' \in [Editors -> [open : BOOLEAN, stamp : Nat]]
      /\ editor'[e].stamp = now /\ \A d \in Editors \ {e} : editor'[d] = editor[d]
  BY <1>1, <1>2 DEF TriggerInv, LessonsTyped
<1>5. LessonsTyped'
  BY <1>1, <1>2, <1>3, <1>4 DEF TriggerInv, LessonsTyped
<1>6. EditorsAreFresh'
  <2>1. ASSUME NEW d \in Editors, editor'[d].open
        PROVE  /\ editor'[d].stamp \in 1..edits'
               /\ \A l \in Lessons : lesson'[l].stamp # editor'[d].stamp
               /\ \A c \in Editors \ {d} : editor'[c].open => editor'[c].stamp # editor'[d].stamp
    <3>1. \A c \in Editors \ {e} : editor'[c].open => editor'[c].stamp \in 1..edits
      BY <1>4 DEF TriggerInv, EditorsAreFresh
    <3>2. CASE d = e
      <4>1. \A l \in Lessons : lesson'[l].stamp # now
        BY <1>1, <1>2, <1>3
      <4> QED
        BY <1>1, <1>2, <1>4, <3>1, <3>2, <4>1
    <3>3. CASE d # e
      BY <1>1, <1>2, <1>4, <2>1, <3>1, <3>3 DEF TriggerInv, EditorsAreFresh
    <3> QED
      BY <3>2, <3>3
  <2> QED
    BY <2>1 DEF EditorsAreFresh
<1>7. CacheTyped' /\ LedgerTyped'
  <2>1. CacheTyped /\ LedgerTyped
    BY DEF TriggerInv
  <2> QED
    BY <1>1, <2>1, SameCache DEF LedgerTyped
<1>8. HeldIsSound'
  <2>1. \A f \in Fences : HeldBy(f)' = HeldBy(f)
    BY <1>1 DEF HeldBy, Reads
  <2>2. ASSUME NEW f \in Fences, NEW X \in HeldBy(f) PROVE WasWritten(X)'
    <3>1. WasWritten(X)
      BY DEF TriggerInv, HeldIsSound
    <3>2. \A l \in DOMAIN X : X[l].stamp \in 1..now /\ X[l].stamp # now
      BY <1>2, <3>1 DEF WasWritten
    <3> QED
      BY <1>1, <1>4, <3>1, <3>2 DEF WasWritten
  <2>3. ASSUME NEW f \in Fences, NEW X \in HeldBy(f), ~overtaken' PROVE Stands(f, X)'
    BY <1>1, <2>3 DEF TriggerInv, HeldIsSound, Stands, Visible, Latest
  <2>4. ASSUME NEW f \in Fences, ~overtaken', NEW X \in HeldBy(f), NEW Y \in HeldBy(f)
        PROVE  Alike(X, Y)'
    BY <1>1, <2>4 DEF TriggerInv, HeldIsSound, Alike, Latest
  <2> QED
    BY <2>1, <2>2, <2>3, <2>4 DEF HeldIsSound
<1> QED
  BY <1>5, <1>6, <1>7, <1>8 DEF TriggerInv

\* A row that is written or deleted, by an edit that began after every row that
\* stands, changes nothing that is older than what was read.
LEMMA WritingKeepsHeld ==
  ASSUME TriggerInv, NEW l \in Lessons,
         \A k \in Lessons \ {l} : lesson'[k] = lesson[k],
         lesson'[l] \in LessonRow,
         \/ lesson'[l].stamp = 0 /\ lesson'[l].pattern = "none"
         \/ /\ \A k \in Lessons : lesson'[l].stamp > lesson[k].stamp
            /\ \A f \in Fences : \A X \in HeldBy(f) : \A i \in DOMAIN X : X[i].stamp # lesson'[l].stamp,
         ~overtaken, NEW f \in Fences, NEW X \in HeldBy(f)
  PROVE  Stands(f, X)'
<1>1. X \in Snapshots /\ WasWritten(X) /\ Stands(f, X) /\ LessonsTyped /\ lesson[l] \in LessonRow
  BY HeldAreSnapshots DEF TriggerInv, HeldIsSound, LessonsTyped
<1>2. Latest(X)' = Latest(X)
  BY DEF Latest
<1>3. /\ Latest(X) \in Nat /\ lesson'[l].stamp \in Nat /\ lesson[l].stamp \in Nat
      /\ Latest(X) # 0 => \E i \in DOMAIN X : X[i].stamp = Latest(X)
      /\ \A k \in Lessons : lesson[k].stamp \in Nat
  BY <1>1, LatestIsNewest DEF LessonRow, LessonsTyped
<1>4. ASSUME Latest(X) # 0, NEW i \in Lessons, lesson'[i].stamp = Latest(X)
      PROVE  i # l
  BY <1>3, <1>4
<1>5. \A k \in Lessons \ {l} : k \in Visible(f)' <=> k \in Visible(f)
  BY DEF Visible
<1>6. ASSUME Latest(X) # 0, NEW i \in Lessons, lesson'[i].stamp = Latest(X), NEW k \in Visible(f)',
             lesson'[k].stamp <= Latest(X)
      PROVE  k \in DOMAIN X /\ X[k] = lesson'[k]
  <2>1. i # l /\ lesson[i].stamp = Latest(X)
    BY <1>4, <1>6
  <2>2. k \in Lessons
    BY DEF Visible
  <2>3. CASE k # l
    BY <1>1, <1>5, <1>6, <2>1, <2>2, <2>3 DEF Stands
  <2>4. CASE k = l
    <3>1. lesson'[l].pattern # "none"
      BY <2>4 DEF Visible
    <3>2. lesson'[l].stamp > lesson[i].stamp /\ lesson'[l].stamp <= lesson[i].stamp
      BY <1>6, <2>1, <2>4, <3>1
    <3>3. lesson'[l].stamp \in Nat /\ lesson[i].stamp \in Nat
      BY <1>3
    <3> QED
      BY <3>2, <3>3
  <2> QED
    BY <2>3, <2>4
<1> QED
  BY <1>2, <1>6 DEF Stands

\* An edit commits at the time it began: later than all that stands, or overtaken.
LEMMA CommitEditKeeps == ASSUME TriggerInv, NEW e \in Editors, CommitEdit(e) PROVE TriggerInv'
<1> DEFINE no == FALSE
           now == editor[e].stamp
<1>1. PICK l \in Lessons, p \in Patterns \cup {"none"} :
         /\ lesson' = [lesson EXCEPT ![l] = [pattern |-> p, stamp |-> now]]
         /\ overtaken' = (overtaken \/ \E s \in Stamps : s > now)
  BY DEF CommitEdit
<1>2. /\ editor[e].open /\ editor' = [editor EXCEPT ![e].open = no] /\ no \in BOOLEAN /\ no = FALSE
      /\ UNCHANGED <<edits, compiled, match, fires, cooled>>
  BY DEF CommitEdit
<1>3. /\ now \in 1..edits /\ \A k \in Lessons : lesson[k].stamp # now
      /\ \A d \in Editors \ {e} : editor[d].open => editor[d].stamp # now
  BY <1>2 DEF TriggerInv, EditorsAreFresh
<1>4. edits \in Nat /\ now \in Nat /\ now # 0 /\ now <= edits
  BY <1>3, TriggerAssumption DEF TriggerInv, LessonsTyped
<1> HIDE DEF no, now
<1> DEFINE row == [pattern |-> p, stamp |-> now]
<1>5. row \in LessonRow /\ row.stamp = now
  BY <1>4 DEF LessonRow
<1> HIDE DEF row
<1>6. /\ lesson' \in [Lessons -> LessonRow]
      /\ \A k \in Lessons : lesson'[k] = IF k = l THEN row ELSE lesson[k]
  BY <1>1, <1>5 DEF TriggerInv, LessonsTyped, row
<1>7. /\ editor' \in [Editors -> [open : BOOLEAN, stamp : Nat]]
      /\ editor'[e].open = no /\ \A d \in Editors \ {e} : editor'[d] = editor[d]
  BY <1>2 DEF TriggerInv, LessonsTyped
<1>8. LessonsTyped'
  <2>1. overtaken' \in BOOLEAN
    BY <1>1
  <2>2. \A k \in Lessons : /\ lesson'[k].stamp <= edits
                           /\ lesson'[k].stamp = 0 => lesson'[k].pattern = "none"
    BY <1>4, <1>5, <1>6 DEF TriggerInv, LessonsTyped
  <2> QED
    BY <1>2, <1>6, <1>7, <2>1, <2>2 DEF TriggerInv, LessonsTyped
<1>9. EditorsAreFresh'
  <2>1. ASSUME NEW d \in Editors, editor'[d].open
        PROVE  /\ editor'[d].stamp \in 1..edits'
               /\ \A k \in Lessons : lesson'[k].stamp # editor'[d].stamp
               /\ \A c \in Editors \ {d} : editor'[c].open => editor'[c].stamp # editor'[d].stamp
    <3>1. d # e /\ editor'[d] = editor[d]
      BY <1>2, <1>7, <2>1
    <3>2. \A c \in Editors : editor'[c].open => c # e /\ editor'[c] = editor[c]
      BY <1>2, <1>7
    <3>3. editor[d].stamp # now
      BY <1>3, <2>1, <3>1
    <3> QED
      BY <1>2, <1>5, <1>6, <2>1, <3>1, <3>2, <3>3 DEF TriggerInv, EditorsAreFresh
  <2> QED
    BY <2>1 DEF EditorsAreFresh
<1>10. CacheTyped' /\ LedgerTyped'
  <2>1. CacheTyped /\ LedgerTyped
    BY DEF TriggerInv
  <2> QED
    BY <1>2, <2>1, SameCache DEF LedgerTyped
<1>11. HeldIsSound'
  <2>1. \A f \in Fences : HeldBy(f)' = HeldBy(f)
    BY <1>2 DEF HeldBy, Reads
  <2>2. ASSUME NEW f \in Fences, NEW X \in HeldBy(f) PROVE WasWritten(X)'
    <3>1. WasWritten(X)
      BY DEF TriggerInv, HeldIsSound
    <3>2. \A d \in Editors : editor'[d].open => editor[d].open /\ editor'[d].stamp = editor[d].stamp
      BY <1>2, <1>7
    <3> QED
      BY <1>2, <3>1, <3>2 DEF WasWritten
  <2>3. ASSUME NEW f \in Fences, NEW X \in HeldBy(f), ~overtaken' PROVE Stands(f, X)'
    <3>1. ~overtaken /\ \A s \in Stamps : ~(s > now)
      BY <1>1, <2>3
    <3>2. \A k \in Lessons : lesson[k].stamp \in Stamps /\ lesson[k].stamp \in Nat
      BY DEF TriggerInv, LessonsTyped, LessonRow, Stamps
    <3>3. \A k \in Lessons : lesson'[l].stamp > lesson[k].stamp
      BY <1>3, <1>4, <1>5, <1>6, <3>1, <3>2
    <3>4. \A g \in Fences : \A Y \in HeldBy(g) : \A i \in DOMAIN Y : Y[i].stamp # lesson'[l].stamp
      <4>1. \A g \in Fences : \A Y \in HeldBy(g) : WasWritten(Y)
        BY DEF TriggerInv, HeldIsSound
      <4> QED
        BY <1>2, <1>5, <1>6, <4>1 DEF WasWritten, now
    <3>5. lesson'[l] \in LessonRow /\ \A k \in Lessons \ {l} : lesson'[k] = lesson[k]
      BY <1>6
    <3> QED
      BY <3>1, <3>3, <3>4, <3>5, WritingKeepsHeld
  <2>4. ASSUME NEW f \in Fences, ~overtaken', NEW X \in HeldBy(f), NEW Y \in HeldBy(f)
        PROVE  Alike(X, Y)'
    <3>1. ~overtaken
      BY <1>1, <2>4
    <3> QED
      BY <3>1 DEF TriggerInv, HeldIsSound, Alike, Latest
  <2> QED
    BY <2>1, <2>2, <2>3, <2>4 DEF HeldIsSound
<1> QED
  BY <1>8, <1>9, <1>10, <1>11 DEF TriggerInv

\* A lesson that is deleted takes its fires with it; what was read stays read.
LEMMA DropLessonKeeps == ASSUME TriggerInv, DropLesson PROVE TriggerInv'
<1>1. PICK l \in Lessons : /\ lesson' = [lesson EXCEPT ![l] = NoLesson]
                           /\ fires' = [fires EXCEPT ![l] = 0]
                           /\ cooled' = cooled \ {l}
  BY DEF DropLesson
<1>2. UNCHANGED <<editor, edits, compiled, match, overtaken>>
  BY DEF DropLesson
<1>3. NoLesson \in LessonRow /\ NoLesson.stamp = 0 /\ NoLesson.pattern = "none"
  BY DEF NoLesson, LessonRow
<1>4. /\ lesson' \in [Lessons -> LessonRow]
      /\ \A k \in Lessons : lesson'[k] = IF k = l THEN NoLesson ELSE lesson[k]
  BY <1>1, <1>3 DEF TriggerInv, LessonsTyped
<1>5. edits \in Nat
  BY TriggerAssumption DEF TriggerInv, LessonsTyped
<1>6. LessonsTyped'
  BY <1>2, <1>3, <1>4, <1>5 DEF TriggerInv, LessonsTyped
<1>7. EditorsAreFresh'
  <2>1. \A e \in Editors : editor[e].open =>
           editor[e].stamp # 0 /\ \A k \in Lessons : lesson'[k].stamp # editor[e].stamp
    BY <1>3, <1>4, <1>5 DEF TriggerInv, EditorsAreFresh
  <2> QED
    BY <1>2, <2>1 DEF TriggerInv, EditorsAreFresh
<1>8. CacheTyped'
  BY <1>2, SameCache DEF TriggerInv
<1>9. LedgerTyped'
  BY <1>1, TriggerAssumption DEF TriggerInv, LedgerTyped
<1>10. HeldIsSound'
  <2>1. \A f \in Fences : HeldBy(f)' = HeldBy(f)
    BY <1>2 DEF HeldBy, Reads
  <2>2. ASSUME NEW f \in Fences, NEW X \in HeldBy(f) PROVE WasWritten(X)'
    BY <1>2 DEF TriggerInv, HeldIsSound, WasWritten
  <2>3. ASSUME NEW f \in Fences, NEW X \in HeldBy(f), ~overtaken' PROVE Stands(f, X)'
    <3>1. ~overtaken /\ lesson'[l] \in LessonRow /\ lesson'[l].stamp = 0
          /\ lesson'[l].pattern = "none" /\ \A k \in Lessons \ {l} : lesson'[k] = lesson[k]
      BY <1>2, <1>3, <1>4, <2>3
    <3> QED
      BY <3>1, WritingKeepsHeld
  <2>4. ASSUME NEW f \in Fences, ~overtaken', NEW X \in HeldBy(f), NEW Y \in HeldBy(f)
        PROVE  Alike(X, Y)'
    BY <1>2, <2>4 DEF TriggerInv, HeldIsSound, Alike, Latest
  <2> QED
    BY <2>1, <2>2, <2>3, <2>4 DEF HeldIsSound
<1> QED
  BY <1>6, <1>7, <1>8, <1>9, <1>10 DEF TriggerInv

\* What a match reads is as sound as what its fence holds, and like it.
LEMMA ReadTriggersKeeps == ASSUME TriggerInv, NEW m \in Matches, ReadTriggers(m) PROVE TriggerInv'
<1>1. PICK f \in Fences, text \in Patterns :
         match' = [match EXCEPT ![m] = [NotMatching EXCEPT
                     !.pc = "read", !.fence = f, !.text = text, !.rows = RowsOf(f)]]
  BY DEF ReadTriggers
<1>2. UNCHANGED <<lesson, editor, edits, compiled, fires, cooled, overtaken>>
  BY DEF ReadTriggers
<1>3. LessonsTyped /\ EditorsAreFresh /\ CacheTyped
  BY DEF TriggerInv
<1> DEFINE Y == RowsOf(f)
<1>4. Y \in Snapshots /\ WasWritten(Y) /\ Stands(f, Y)
  BY <1>3, RowsAreASnapshot
<1>5. \A X \in HeldBy(f) : ~overtaken => Alike(X, Y) /\ Alike(Y, X)
  <2>1. ASSUME NEW X \in HeldBy(f), ~overtaken PROVE Alike(X, Y) /\ Alike(Y, X)
    <3>1. X \in Snapshots /\ WasWritten(X) /\ Stands(f, X)
      BY <1>3, <2>1, HeldAreSnapshots DEF TriggerInv, HeldIsSound
    <3> QED
      BY <1>3, <3>1, ReadAlike
  <2> QED
    BY <2>1
<1> HIDE DEF Y
<1> DEFINE row == [NotMatching EXCEPT !.pc = "read", !.fence = f, !.text = text, !.rows = Y]
<1>6. row \in Matching /\ row.pc = "read" /\ row.fence = f /\ row.rows = Y
  BY <1>4, NothingRead DEF Matching
<1>7. /\ match' \in [Matches -> Matching]
      /\ \A n \in Matches : match'[n] = IF n = m THEN row ELSE match[n]
  <2>1. match' = [match EXCEPT ![m] = row]
    BY <1>1 DEF Y
  <2> HIDE DEF row
  <2> QED
    BY <1>3, <1>6, <2>1 DEF CacheTyped
<1> HIDE DEF row
<1>8. LessonsTyped' /\ LedgerTyped' /\ EditorsAreFresh'
  BY <1>2 DEF TriggerInv, LessonsTyped, LedgerTyped, EditorsAreFresh
<1>9. CacheTyped'
  BY <1>2, <1>3, <1>7 DEF CacheTyped, Latest
<1>10. \A g \in Fences : \A X \in HeldBy(g)' : X \in HeldBy(g) \/ (g = f /\ X = Y)
  BY <1>2, <1>6, <1>7 DEF HeldBy, Reads
<1>11. HeldIsSound'
  <2>1. ASSUME NEW g \in Fences, NEW X \in HeldBy(g)'
        PROVE  WasWritten(X)' /\ (~overtaken' => Stands(g, X)')
    <3>1. WasWritten(X) /\ (~overtaken => Stands(g, X))
      BY <1>4, <1>10 DEF TriggerInv, HeldIsSound
    <3>2. WasWritten(X)'
      BY <1>2, <3>1 DEF WasWritten
    <3>3. Latest(X)' = Latest(X) /\ Visible(g)' = Visible(g)
      BY <1>2 DEF Latest, Visible
    <3>4. ASSUME ~overtaken' PROVE Stands(g, X)'
      BY <1>2, <3>1, <3>3, <3>4 DEF Stands
    <3> QED
      BY <3>2, <3>4
  <2>2. ASSUME NEW g \in Fences, ~overtaken', NEW X \in HeldBy(g)', NEW Z \in HeldBy(g)'
        PROVE  Alike(X, Z)'
    <3>1. Alike(Y, Y)
      BY DEF Alike
    <3>2. ~overtaken
      BY <1>2, <2>2
    <3>3. \A V, W \in HeldBy(g) : Alike(V, W)
      BY <3>2 DEF TriggerInv, HeldIsSound
    <3>4. Alike(X, Z)
      BY <1>5, <1>10, <3>1, <3>2, <3>3
    <3> QED
      BY <3>4 DEF Alike, Latest
  <2> QED
    BY <2>1, <2>2 DEF HeldIsSound
<1> QED
  BY <1>8, <1>9, <1>11 DEF TriggerInv

\* A match that takes the set of the cache takes what it read.
LEMMA CachedIsWhatWasRead ==
  ASSUME TriggerInv, NEW m \in Matches, MatchSurfaces(m), ~overtaken
  PROVE  compiled'[match[m].fence].rows = match[m].rows
<1> DEFINE f == match[m].fence
           read == match[m].rows
           made == [count |-> Cardinality(DOMAIN read), latest |-> Latest(read), rows |-> read]
<1>1. f \in Fences /\ compiled \in [Fences -> Compiled] /\ match[m].pc = "read"
  BY DEF TriggerInv, CacheTyped, Matching, MatchSurfaces
<1>2. compiled' = [compiled EXCEPT ![f] = IF IsFresh(compiled[f], read) THEN compiled[f] ELSE made]
  BY DEF MatchSurfaces
<1>3. compiled[f].rows \in HeldBy(f) /\ read \in HeldBy(f)
  BY <1>1 DEF HeldBy, Reads
<1>4. Alike(compiled[f].rows, read)
  BY <1>1, <1>3 DEF TriggerInv, HeldIsSound
<1>5. compiled[f].count = Cardinality(DOMAIN compiled[f].rows)
      /\ compiled[f].latest = Latest(compiled[f].rows)
  BY <1>1 DEF TriggerInv, CacheTyped
<1> HIDE DEF f, read
<1>6. CASE IsFresh(compiled[f], read)
  <2>1. compiled[f].rows = read
    BY <1>4, <1>5, <1>6 DEF Alike, IsFresh
  <2>2. compiled'[f] = compiled[f]
    BY <1>1, <1>2, <1>6
  <2> QED
    BY <2>1, <2>2 DEF f, read
<1>7. CASE ~IsFresh(compiled[f], read)
  <2>1. compiled'[f] = made
    BY <1>1, <1>2, <1>7
  <2> QED
    BY <2>1 DEF f, read
<1> QED
  BY <1>6, <1>7

\* Matching caches what was read, or keeps what was cached.
LEMMA MatchSurfacesKeeps == ASSUME TriggerInv, NEW m \in Matches, MatchSurfaces(m) PROVE TriggerInv'
<1> DEFINE f == match[m].fence
           read == match[m].rows
           made == [count |-> Cardinality(DOMAIN read), latest |-> Latest(read), rows |-> read]
           set == IF IsFresh(compiled[f], read) THEN compiled[f] ELSE made
           hits == Hits(set.rows, match[m].text)
           row == IF hits = {} THEN NotMatching ELSE [NotMatching EXCEPT !.pc = "hit", !.hits = hits]
<1>1. /\ compiled' = [compiled EXCEPT ![f] = set] /\ match' = [match EXCEPT ![m] = row]
      /\ match[m].pc = "read" /\ UNCHANGED <<lesson, editor, edits, fires, cooled, overtaken>>
  BY DEF MatchSurfaces
<1>2. /\ f \in Fences /\ compiled \in [Fences -> Compiled] /\ compiled[f] \in Compiled
      /\ match \in [Matches -> Matching] /\ read \in Snapshots
      /\ compiled[f].count = Cardinality(DOMAIN compiled[f].rows)
      /\ compiled[f].latest = Latest(compiled[f].rows)
  BY DEF TriggerInv, CacheTyped, Matching
<1>3. read \in HeldBy(f) /\ compiled[f].rows \in HeldBy(f)
  BY <1>1, <1>2 DEF HeldBy, Reads
<1>4. /\ Latest(read) \in Nat /\ DOMAIN read \in SUBSET Lessons /\ IsFiniteSet(DOMAIN read)
      /\ Cardinality(DOMAIN read) \in Nat
  <2>1. WasWritten(read) /\ LessonsTyped
    BY <1>2, <1>3 DEF TriggerInv, HeldIsSound
  <2>2. DOMAIN read \in SUBSET Lessons
    BY <1>2 DEF Snapshots
  <2>3. IsFiniteSet(DOMAIN read)
    BY <2>2, TriggerAssumption, FS_Subset
  <2> QED
    BY <1>2, <2>1, <2>2, <2>3, LatestIsNewest, FS_CardinalityType
<1> HIDE DEF f, read
<1>5. /\ set \in Compiled /\ set.rows \in {compiled[f].rows, read} /\ set.rows \in Snapshots
      /\ set.count = Cardinality(DOMAIN set.rows) /\ set.latest = Latest(set.rows)
  <2>1. made \in Compiled /\ made.rows = read /\ made.count = Cardinality(DOMAIN made.rows)
        /\ made.latest = Latest(made.rows)
    BY <1>2, <1>4 DEF Compiled
  <2> HIDE DEF made
  <2>2. CASE IsFresh(compiled[f], read)
    BY <1>2, <2>2 DEF Compiled
  <2>3. CASE ~IsFresh(compiled[f], read)
    BY <1>2, <2>1, <2>3 DEF Compiled
  <2> QED
    BY <2>2, <2>3
<1> HIDE DEF set
<1>6. hits \in SUBSET Lessons
  BY <1>5 DEF Hits, Snapshots
<1> HIDE DEF hits
<1>7. row \in Matching /\ row.pc # "read"
  BY <1>6, NothingRead DEF Matching
<1> HIDE DEF row
<1>8. /\ compiled' \in [Fences -> Compiled]
      /\ \A g \in Fences : compiled'[g] = IF g = f THEN set ELSE compiled[g]
      /\ match' \in [Matches -> Matching]
      /\ \A n \in Matches : match'[n] = IF n = m THEN row ELSE match[n]
  BY <1>1, <1>2, <1>5, <1>7
<1>9. CacheTyped'
  <2>1. ASSUME NEW g \in Fences
        PROVE  /\ compiled'[g].count = Cardinality(DOMAIN compiled'[g].rows)
               /\ compiled'[g].latest = Latest(compiled'[g].rows)
    <3>1. CASE g = f
      BY <1>5, <1>8, <3>1
    <3>2. CASE g # f
      BY <1>8, <3>2 DEF TriggerInv, CacheTyped
    <3> QED
      BY <3>1, <3>2
  <2> QED
    BY <1>8, <2>1 DEF CacheTyped, Latest
<1>10. \A g \in Fences : HeldBy(g)' \subseteq HeldBy(g)
  <2>1. \A g \in Fences : compiled'[g].rows \in HeldBy(g)
    BY <1>3, <1>5, <1>8 DEF HeldBy
  <2>2. \A g \in Fences : \A n \in Matches :
           (match'[n].pc = "read" /\ match'[n].fence = g) => match'[n].rows \in HeldBy(g)
    BY <1>7, <1>8 DEF HeldBy, Reads
  <2> QED
    BY <2>1, <2>2 DEF HeldBy, Reads
<1>11. LedgerTyped' /\ UNCHANGED <<lesson, editor, edits, overtaken>>
  BY <1>1 DEF TriggerInv, LedgerTyped
<1> QED
  BY <1>9, <1>10, <1>11, HoldingLess

\* The ledger is read.
LEMMA ReadFiresKeeps == ASSUME TriggerInv, NEW m \in Matches, ReadFires(m) PROVE TriggerInv'
<1> DEFINE due == {l \in match[m].hits : Allowed(l)}
           row == IF due = {} THEN NotMatching ELSE [NotMatching EXCEPT !.pc = "fire", !.hits = due]
<1>1. match' = [match EXCEPT ![m] = row] /\ UNCHANGED <<lesson, editor, edits, compiled, fires, cooled, overtaken>>
  BY DEF ReadFires
<1>2. due \in SUBSET Lessons
  BY DEF TriggerInv, CacheTyped, Matching
<1> HIDE DEF due
<1>3. row \in Matching /\ row.pc # "read"
  BY <1>2, NothingRead DEF Matching
<1> HIDE DEF row
<1>4. CacheTyped' /\ \A f \in Fences : HeldBy(f)' \subseteq HeldBy(f)
  BY <1>1, <1>3, MatchPut DEF TriggerInv
<1>5. LedgerTyped'
  BY <1>1 DEF TriggerInv, LedgerTyped
<1> QED
  BY <1>1, <1>4, <1>5, HoldingLess

\* The fires are recorded, or none of them is.
LEMMA FireKeeps == ASSUME TriggerInv, NEW m \in Matches, Fire(m) PROVE TriggerInv'
<1>1. /\ match' = [match EXCEPT ![m] = NotMatching]
      /\ UNCHANGED <<lesson, editor, edits, compiled, overtaken>>
  BY DEF Fire
<1>2. CacheTyped' /\ \A f \in Fences : HeldBy(f)' \subseteq HeldBy(f)
  <2>1. NotMatching \in Matching /\ NotMatching.pc # "read"
    BY NothingRead
  <2> QED
    BY <1>1, <2>1, MatchPut DEF TriggerInv
<1>3. LedgerTyped'
  <2> DEFINE due == match[m].hits
  <2>1. CASE \A l \in due : Present(l)
    <3>1. /\ \A l \in due : fires[l] < MaxFires
          /\ fires' = [l \in Lessons |-> IF l \in due THEN fires[l] + 1 ELSE fires[l]]
          /\ cooled' = cooled \ due
      BY <2>1 DEF Fire
    <3>2. \A l \in Lessons : fires[l] \in 0..MaxFires
      BY DEF TriggerInv, LedgerTyped
    <3>3. \A l \in Lessons : (IF l \in due THEN fires[l] + 1 ELSE fires[l]) \in 0..MaxFires
      BY <3>1, <3>2, TriggerAssumption
    <3> QED
      BY <3>1, <3>3 DEF TriggerInv, LedgerTyped
  <2>2. CASE ~ \A l \in due : Present(l)
    <3>1. fires' = fires /\ cooled' = cooled
      BY <2>2 DEF Fire
    <3> QED
      BY <3>1 DEF TriggerInv, LedgerTyped
  <2> QED
    BY <2>1, <2>2
<1> QED
  BY <1>1, <1>2, <1>3, HoldingLess

\* A cooldown passes.
LEMMA CoolDownKeeps == ASSUME TriggerInv, CoolDown PROVE TriggerInv'
<1>1. UNCHANGED <<lesson, editor, edits, compiled, match, fires, overtaken>>
  BY DEF CoolDown
<1>2. \E l \in CoolingLessons : cooled' = cooled \cup {l}
  BY DEF CoolDown
<1>3. LedgerTyped'
  BY <1>1, <1>2 DEF TriggerInv, LedgerTyped
<1>4. CacheTyped' /\ \A f \in Fences : HeldBy(f)' \subseteq HeldBy(f)
  BY <1>1, SameCache DEF TriggerInv, HeldBy, Reads
<1> QED
  BY <1>1, <1>3, <1>4, HoldingLess

\* A restart leaves an empty cache, and no match.
LEMMA RestartMatcherKeeps == ASSUME TriggerInv, RestartMatcher PROVE TriggerInv'
<1>1. /\ compiled' = [f \in Fences |-> NoSet] /\ match' = [m \in Matches |-> NotMatching]
      /\ UNCHANGED <<lesson, editor, edits, fires, cooled, overtaken>>
  BY DEF RestartMatcher
<1>2. LessonsTyped' /\ LedgerTyped' /\ EditorsAreFresh'
  BY <1>1 DEF TriggerInv, LessonsTyped, LedgerTyped, EditorsAreFresh
<1>3. CacheTyped'
  BY <1>1, NothingRead DEF CacheTyped, Latest
<1>4. \A f \in Fences : HeldBy(f)' = {<<>>}
  <2>1. \A m \in Matches : match'[m].pc = "idle"
    BY <1>1, NothingRead
  <2>2. \A f \in Fences : compiled'[f].rows = <<>>
    BY <1>1, NothingRead
  <2> QED
    BY <2>1, <2>2 DEF HeldBy, Reads
<1>5. HeldIsSound'
  <2>1. WasWritten(<<>>)'
    BY NothingRead DEF WasWritten
  <2>2. ASSUME NEW f \in Fences PROVE Stands(f, <<>>)'
    <3>1. Latest(<<>>)' = 0
      BY NothingRead DEF Latest
    <3> QED
      BY <3>1 DEF Stands
  <2>3. Alike(<<>>, <<>>)'
    BY DEF Alike
  <2> QED
    BY <1>4, <2>1, <2>2, <2>3 DEF HeldIsSound
<1> QED
  BY <1>2, <1>3, <1>5 DEF TriggerInv

\* Every step keeps the invariant, and no match takes from the cache what it has
\* not read, unless a write was overtaken.
LEMMA TriggerSteps == TriggerInv /\ [TriggerNext]_triggerVars => TriggerInv' /\ [Faithful]_triggerVars
<1> SUFFICES ASSUME TriggerInv, [TriggerNext]_triggerVars
             PROVE  TriggerInv' /\ Faithful
  OBVIOUS
<1>1. Faithful
  BY CachedIsWhatWasRead DEF Faithful
<1>2. TriggerInv'
  <2>1. CASE UNCHANGED triggerVars
    <3>1. UNCHANGED <<lesson, editor, edits, compiled, match, fires, cooled, overtaken>>
      BY <2>1 DEF triggerVars
    <3>2. CacheTyped' /\ LedgerTyped' /\ \A f \in Fences : HeldBy(f)' \subseteq HeldBy(f)
      BY <3>1, SameCache DEF TriggerInv, LedgerTyped, HeldBy, Reads
    <3> QED
      BY <3>1, <3>2, HoldingLess
  <2>2. ASSUME NEW e \in Editors, BeginEdit(e) \/ CommitEdit(e) PROVE TriggerInv'
    BY <2>2, BeginKeeps, CommitEditKeeps
  <2>3. ASSUME NEW m \in Matches, ReadTriggers(m) \/ MatchSurfaces(m) \/ ReadFires(m) \/ Fire(m)
        PROVE  TriggerInv'
    BY <2>3, ReadTriggersKeeps, MatchSurfacesKeeps, ReadFiresKeeps, FireKeeps
  <2>4. CASE DropLesson \/ CoolDown \/ RestartMatcher
    BY <2>4, DropLessonKeeps, CoolDownKeeps, RestartMatcherKeeps
  <2> QED
    BY <2>1, <2>2, <2>3, <2>4 DEF TriggerNext
<1> QED
  BY <1>1, <1>2

\* Lessons, cache, matches and ledger keep their types.
THEOREM TriggerTypes == TriggerSpec => []TriggerTypeOK
<1>1. TriggerInv => TriggerTypeOK
  <2> SUFFICES ASSUME TriggerInv PROVE TriggerTypeOK
    OBVIOUS
  <2>1. edits \in Nat /\ edits \in 0..MaxEdits
    BY TriggerAssumption DEF TriggerInv, LessonsTyped
  <2>2. \A l \in Lessons : lesson[l].pattern \in Patterns \cup {"none"} /\ lesson[l].stamp \in 0..edits
    BY <2>1 DEF TriggerInv, LessonsTyped, LessonRow
  <2>3. \A f \in Fences : DOMAIN compiled[f].rows \subseteq Lessons
    BY DEF TriggerInv, CacheTyped, Compiled, Snapshots
  <2>4. \A m \in Matches : /\ match[m].pc \in {"idle", "read", "hit", "fire"}
                           /\ match[m].fence \in Fences /\ match[m].hits \subseteq Lessons
    BY DEF TriggerInv, CacheTyped, Matching
  <2> QED
    BY <2>1, <2>2, <2>3, <2>4 DEF TriggerTypeOK, TriggerInv, LedgerTyped, LessonsTyped
<1> QED
  BY <1>1, TriggersStart, TriggerSteps, PTL DEF TriggerSpec

\* A match fires on the rows it read, whatever set it takes from the cache of
\* compiled patterns (cached_set, store_set), as long as the edits commit in the
\* order in which they began.
THEOREM MatchesFaithfully == TriggerSpec => MatchesWhatItRead
<1>1. MatchesWhatItRead <=> [][Faithful]_triggerVars
  BY DEF MatchesWhatItRead, Faithful
<1> QED
  BY <1>1, TriggersStart, TriggerSteps, PTL DEF TriggerSpec

-----------------------------------------------------------------------------
(* The thread.                                                               *)

Edges == Ids \X Ids

\* What edges never lead out of.
Closed(edges, S) == \A e \in edges : e[1] \in S => e[2] \in S

\* What the edges of x lead to.
After(edges, x) == {e[2] : e \in {d \in edges : d[1] = x}}

\* Each memory has a wall: a set that what follows it stays in, and it is out of.
Walled(edges) ==
  \A x \in Ids : \E A \in SUBSET Ids : After(edges, x) \subseteq A /\ Closed(edges, A) /\ x \notin A

\* What edges lead to holds where they start and is closed under them.
LEMMA DescendantsClosed ==
  ASSUME NEW edges \in SUBSET Edges, NEW from \in SUBSET Ids
  PROVE  /\ Descendants(edges, from) \in SUBSET Ids /\ from \subseteq Descendants(edges, from)
         /\ Closed(edges, Descendants(edges, from))
<1>1. Descendants(edges, from) \in SUBSET Ids /\ from \subseteq Descendants(edges, from)
  BY DEF Descendants
<1>2. ASSUME NEW e \in edges, e[1] \in Descendants(edges, from) PROVE e[2] \in Descendants(edges, from)
  <2>1. e[2] \in Ids
    BY DEF Edges
  <2>2. ASSUME NEW S \in SUBSET Ids, from \subseteq S, \A d \in edges : d[1] \in S => d[2] \in S PROVE e[2] \in S
    <3>1. e[1] \in S
      BY <1>2, <2>2 DEF Descendants
    <3> QED
      BY <2>2, <3>1
  <2> QED
    BY <2>1, <2>2 DEF Descendants
<1> QED
  BY <1>1, <1>2 DEF Closed

\* It is the least such set.
LEMMA DescendantsLeast ==
  ASSUME NEW edges \in SUBSET Edges, NEW from \in SUBSET Ids, NEW S \in SUBSET Ids,
         from \subseteq S, Closed(edges, S)
  PROVE  Descendants(edges, from) \subseteq S
  BY DEF Descendants, Closed

\* A memory behind a wall is not reached from what follows it.
LEMMA WallsOrder ==
  ASSUME NEW edges \in SUBSET Edges, Walled(edges), NEW x \in Ids
  PROVE  x \notin Descendants(edges, After(edges, x))
<1>1. PICK A \in SUBSET Ids : After(edges, x) \subseteq A /\ Closed(edges, A) /\ x \notin A
  BY DEF Walled
<1>2. After(edges, x) \in SUBSET Ids
  BY DEF After, Edges
<1> QED
  BY <1>1, <1>2, DescendantsLeast

\* Edges that are taken away leave the walls.
LEMMA FewerEdges ==
  ASSUME NEW edges \in SUBSET Edges, NEW fewer \in SUBSET edges, Walled(edges)
  PROVE  Walled(fewer)
<1>1. ASSUME NEW x \in Ids
      PROVE  \E A \in SUBSET Ids : After(fewer, x) \subseteq A /\ Closed(fewer, A) /\ x \notin A
  <2>1. PICK A \in SUBSET Ids : After(edges, x) \subseteq A /\ Closed(edges, A) /\ x \notin A
    BY DEF Walled
  <2>2. After(fewer, x) \subseteq A /\ Closed(fewer, A)
    BY <2>1 DEF After, Closed
  <2> QED
    BY <2>1, <2>2
<1> QED
  BY <1>1 DEF Walled

\* An edge to what does not lead back leaves each memory a wall: the old one
\* within what the new edge leads to, or joined with it.
LEMMA LinkKeepsWalls ==
  ASSUME NEW edges \in SUBSET Edges, Walled(edges), NEW p \in Ids, NEW i \in Ids,
         p \notin Descendants(edges, {i})
  PROVE  Walled(edges \cup {<<p, i>>})
<1> DEFINE D == Descendants(edges, {i})
           more == edges \cup {<<p, i>>}
<1>1. D \in SUBSET Ids /\ i \in D /\ Closed(edges, D) /\ p \notin D
  BY DescendantsClosed
<1> HIDE DEF D
<1>2. ASSUME NEW x \in Ids
      PROVE  \E A \in SUBSET Ids : After(more, x) \subseteq A /\ Closed(more, A) /\ x \notin A
  <2>1. PICK A \in SUBSET Ids : After(edges, x) \subseteq A /\ Closed(edges, A) /\ x \notin A
    BY DEF Walled
  <2>2. CASE x \in D
    <3>1. After(more, x) \subseteq A \cap D
      BY <1>1, <2>1, <2>2 DEF After, Closed
    <3>2. Closed(more, A \cap D)
      BY <1>1, <2>1 DEF Closed
    <3> QED
      BY <2>1, <3>1, <3>2
  <2>3. CASE x \notin D
    <3>1. After(more, x) \subseteq A \cup D
      BY <1>1, <2>1 DEF After
    <3>2. Closed(more, A \cup D)
      BY <1>1, <2>1 DEF Closed
    <3>3. A \cup D \in SUBSET Ids /\ x \notin A \cup D
      BY <1>1, <2>1, <2>3
    <3> QED
      BY <3>1, <3>2, <3>3
  <2> QED
    BY <2>2, <2>3
<1> QED
  BY <1>2 DEF Walled

-----------------------------------------------------------------------------
(* The order of the timeline, and its pages.                                 *)

Keys == [born : Nat, id : Nat]

\* The rows of the room are of its ids and instants.
BookRows == Rows \subseteq Ids /\ \A i \in Rows : memory[i].born \in 0..MaxClock

\* The keys of a timeline are in one order.
LEMMA BeforeOrders ==
  /\ \A a \in Keys : ~Before(a, a)
  /\ \A a, b, c \in Keys : Before(a, b) /\ Before(b, c) => Before(a, c)
  /\ \A a, b \in Keys : Before(a, b) => ~Before(b, a)
  /\ \A a, b \in Keys : a.id # b.id => Before(a, b) \/ Before(b, a)
  BY DEF Keys, Before

\* The key of a row.
LEMMA RowKeys == ASSUME BookRows PROVE \A i \in Rows : Key(i) \in Keys /\ Key(i).id = i /\ i \in Nat
<1> SUFFICES ASSUME NEW i \in Rows PROVE Key(i) \in Keys /\ Key(i).id = i /\ i \in Nat
  OBVIOUS
<1>1. i \in Ids /\ memory[i].born \in 0..MaxClock
  BY DEF BookRows
<1>2. i \in Nat /\ memory[i].born \in Nat
  BY <1>1, MemoriesAssumption DEF Ids
<1> QED
  BY <1>2 DEF Key, Keys

\* A set of numbers up to a bound that is not empty has a greatest one.
LEMMA GreatestNumber ==
  ASSUME NEW n \in Nat, NEW S \in SUBSET (0..n), S # {}
  PROVE  \E g \in S : \A k \in S : k <= g
<1> DEFINE R == {ss \in Nat \X Nat : ss[1] < ss[2]}
           D == {d \in 0..n : \E k \in S : k = n - d}
<1>1. IsWellFoundedOn(R, Nat)
  BY NatLessThanWellFounded DEF OpToRel
<1>2. \A y, x \in Nat : <<y, x>> \in R <=> y < x
  OBVIOUS
<1>3. D \in SUBSET Nat /\ D # {}
  <2>1. PICK k \in S : TRUE
    OBVIOUS
  <2>2. n - k \in 0..n /\ k = n - (n - k)
    BY <2>1
  <2>3. n - k \in D /\ D \in SUBSET (0..n)
    BY <2>2
  <2> HIDE DEF D
  <2> QED
    BY <2>3
<1>4. \A k \in S : n - k \in D /\ k \in 0..n
  <2> SUFFICES ASSUME NEW k \in S PROVE n - k \in D /\ k \in 0..n
    OBVIOUS
  <2>1. n - k \in 0..n /\ k = n - (n - k)
    OBVIOUS
  <2> QED
    BY <2>1
<1>5. \A d \in D : \E k \in S : k = n - d
  OBVIOUS
<1> HIDE DEF R, D
<1>6. PICK d \in D : \A e \in D : ~ (<<e, d>> \in R)
  BY <1>1, <1>3, WFMin
<1>7. PICK g \in S : g = n - d
  BY <1>5
<1>8. ASSUME NEW k \in S PROVE k <= g
  <2>1. n - k \in D /\ k \in 0..n /\ d \in Nat /\ n - k \in Nat
    BY <1>3, <1>4
  <2>2. ~(n - k < d)
    BY <1>2, <1>6, <2>1
  <2> QED
    BY <1>7, <2>1, <2>2
<1> QED
  BY <1>8

\* Some row of a set is newer than the others.
LEMMA NewestRow ==
  ASSUME BookRows, NEW B \in SUBSET Rows, B # {}
  PROVE  \E g \in B : \A i \in B \ {g} : Before(Key(i), Key(g))
<1> DEFINE T == {memory[i].born : i \in B}
<1>0. MaxClock \in Nat /\ MaxIds \in Nat
  BY MemoriesAssumption
<1>1. T \in SUBSET (0..MaxClock) /\ T # {}
  BY DEF BookRows
<1>2. \E t \in T : \A k \in T : k <= t
  <2> HIDE DEF T
  <2> QED
    BY <1>0, <1>1, GreatestNumber
<1>3. PICK b \in B : \A i \in B : memory[i].born <= memory[b].born
  BY <1>2
<1> DEFINE C == {i \in B : memory[i].born = memory[b].born}
<1>4. C \in SUBSET (0..MaxIds) /\ b \in C
  <2>1. \A i \in 1..MaxIds : i \in 0..MaxIds
    BY <1>0
  <2>2. C \subseteq B /\ B \subseteq 1..MaxIds /\ b \in C
    BY DEF BookRows, Ids
  <2> HIDE DEF C
  <2> QED
    BY <2>1, <2>2
<1>5. \E g \in C : \A i \in C : i <= g
  <2> HIDE DEF C
  <2> QED
    BY <1>0, <1>4, GreatestNumber
<1>6. PICK g \in C : \A i \in C : i <= g
  BY <1>5
<1>7. ASSUME NEW i \in B \ {g} PROVE Before(Key(i), Key(g))
  <2>1. /\ memory[i].born \in Nat /\ memory[g].born \in Nat /\ i \in Nat /\ g \in Nat
        /\ memory[g].born = memory[b].born /\ memory[i].born <= memory[g].born
    <3>1. g \in B /\ memory[g].born = memory[b].born /\ i \in B
      OBVIOUS
    <3>2. g \in 1..MaxIds /\ i \in 1..MaxIds /\ memory[g].born \in 0..MaxClock /\ memory[i].born \in 0..MaxClock
      BY <3>1 DEF BookRows, Ids
    <3> HIDE DEF C
    <3> QED
      BY <1>3, <3>1, <3>2
  <2>2. memory[i].born = memory[g].born => i <= g
    <3>1. memory[i].born = memory[g].born => i \in C
      BY <2>1
    <3> HIDE DEF C
    <3> QED
      BY <1>6, <3>1
  <2> QED
    BY <2>1, <2>2 DEF Before, Key
<1> QED
  BY <1>7

\* What a page of B shows comes first, the newest before the others.
Heads(page, B) ==
  /\ \A m, n \in DOMAIN page : m < n => Before(Key(page[n]), Key(page[m]))
  /\ \A i \in B \ Range(page) : \A n \in DOMAIN page : Before(Key(i), Key(page[n]))

\* A row newer than all that is left is what comes next.
LEMMA HeadsGrow ==
  ASSUME BookRows, NEW B \in SUBSET Rows, NEW k \in Nat, NEW page \in [1..k -> B], Heads(page, B),
         NEW g \in B \ Range(page), \A i \in (B \ Range(page)) \ {g} : Before(Key(i), Key(g))
  PROVE  \E next \in [1..(k + 1) -> B] : Heads(next, B)
<1> DEFINE next == [n \in 1..(k + 1) |-> IF n = k + 1 THEN g ELSE page[n]]
<1>1. \A n \in 1..(k + 1) : n = k + 1 \/ n \in 1..k
  OBVIOUS
<1>2. next \in [1..(k + 1) -> B]
  BY <1>1
<1>3. /\ DOMAIN next = 1..(k + 1) /\ next[k + 1] = g /\ \A n \in 1..k : next[n] = page[n] /\ n \in 1..(k + 1)
      /\ k + 1 \in 1..(k + 1)
  OBVIOUS
<1> HIDE DEF next
<1>4. Range(page) \subseteq Range(next) /\ g \in Range(next)
  BY <1>3 DEF Range
<1>5. ASSUME NEW m \in 1..(k + 1), NEW n \in 1..(k + 1), m < n PROVE Before(Key(next[n]), Key(next[m]))
  <2>1. m \in 1..k /\ next[m] = page[m]
    BY <1>3, <1>5
  <2>2. CASE n \in 1..k
    BY <1>3, <1>5, <2>1, <2>2 DEF Heads
  <2>3. CASE n = k + 1
    BY <1>3, <2>1, <2>3 DEF Heads
  <2> QED
    BY <1>1, <2>2, <2>3
<1>6. ASSUME NEW i \in B \ Range(next), NEW n \in 1..(k + 1) PROVE Before(Key(i), Key(next[n]))
  <2>1. i \in (B \ Range(page)) \ {g}
    BY <1>4
  <2>2. CASE n \in 1..k
    BY <1>3, <2>1, <2>2 DEF Heads
  <2>3. CASE n = k + 1
    BY <1>3, <2>1, <2>3
  <2> QED
    BY <1>1, <2>2, <2>3
<1> QED
  BY <1>2, <1>3, <1>5, <1>6 DEF Heads

\* What is on a page of what lies behind a cursor.
IsPage(page, B) ==
  /\ page \in UNION {[1..n -> B] : n \in 0..ShelfLimit}
  /\ \A m, n \in DOMAIN page : m < n => Before(Key(page[n]), Key(page[m]))
  /\ \A i \in B \ Range(page) : /\ Len(page) = ShelfLimit
                                /\ \A n \in DOMAIN page : Before(Key(i), Key(page[n]))

\* A set of rows has a page: the newest of them, as many as a page holds.
LEMMA PageExists ==
  ASSUME BookRows, NEW B \in SUBSET Rows
  PROVE  \E page \in UNION {[1..n -> B] : n \in 0..ShelfLimit} : IsPage(page, B)
<1> DEFINE K == {k \in 0..ShelfLimit : \E page \in [1..k -> B] : Heads(page, B)}
<1>0. ShelfLimit \in Nat
  BY MemoriesAssumption
<1>1. 0 \in K
  <2> DEFINE none == [n \in 1..0 |-> n]
  <2>1. none \in [1..0 -> B] /\ DOMAIN none = {}
    <3>1. 1..0 = {}
      OBVIOUS
    <3> QED
      BY <3>1
  <2> HIDE DEF none
  <2>2. Heads(none, B)
    BY <2>1 DEF Heads
  <2>3. \E page \in [1..0 -> B] : Heads(page, B)
    BY <2>1, <2>2
  <2>4. 0 \in 0..ShelfLimit
    BY <1>0
  <2> QED
    BY <2>3, <2>4
<1>2. K \in SUBSET (0..ShelfLimit)
  OBVIOUS
<1>3. \E k \in K : \A j \in K : j <= k
  <2> HIDE DEF K
  <2> QED
    BY <1>0, <1>1, <1>2, GreatestNumber
<1>4. PICK k \in K : \A j \in K : j <= k
  BY <1>3
<1>5. PICK page \in [1..k -> B] : Heads(page, B)
  OBVIOUS
<1>6. k \in 0..ShelfLimit /\ k \in Nat
  BY <1>0, <1>2
<1>7. Len(page) = k /\ DOMAIN page = 1..k
  BY <1>6
<1>8. ASSUME NEW i \in B \ Range(page) PROVE Len(page) = ShelfLimit
  <2>1. SUFFICES ASSUME k < ShelfLimit PROVE FALSE
    BY <1>0, <1>6, <1>7
  <2>2. PICK g \in B \ Range(page) : \A j \in (B \ Range(page)) \ {g} : Before(Key(j), Key(g))
    BY NewestRow
  <2>3. \E next \in [1..(k + 1) -> B] : Heads(next, B)
    BY <1>5, <1>6, <2>2, HeadsGrow
  <2>4. k + 1 \in 0..ShelfLimit /\ ~(k + 1 <= k)
    BY <1>0, <1>6, <2>1
  <2>5. k + 1 \in K
    BY <2>3, <2>4
  <2> HIDE DEF K
  <2> QED
    BY <1>4, <2>4, <2>5
<1>9. IsPage(page, B)
  BY <1>5, <1>6, <1>8 DEF IsPage, Heads
<1>10. page \in UNION {[1..n -> B] : n \in 0..ShelfLimit}
  BY <1>5, <1>6
<1> QED
  BY <1>9, <1>10

\* The page behind a cursor is one of what lies behind it.
LEMMA PageFacts ==
  ASSUME BookRows, NEW c
  PROVE  /\ Page(c) \in Seq(Rows) /\ IsPage(Page(c), Behind(c)) /\ Range(Page(c)) \subseteq Behind(c)
         /\ DOMAIN Page(c) = 1..Len(Page(c)) /\ Len(Page(c)) \in 0..ShelfLimit
<1>1. Behind(c) \in SUBSET Rows
  BY DEF Behind
<1>2. PICK page \in UNION {[1..n -> Behind(c)] : n \in 0..ShelfLimit} : IsPage(page, Behind(c))
  BY <1>1, PageExists
<1>3. IsPage(Page(c), Behind(c))
  BY <1>2 DEF Page, IsPage
<1>4. PICK n \in 0..ShelfLimit : Page(c) \in [1..n -> Behind(c)]
  BY <1>3 DEF IsPage
<1>5. n \in Nat
  BY MemoriesAssumption
<1>6. Page(c) \in Seq(Behind(c)) /\ Len(Page(c)) = n
  BY <1>4, <1>5
<1> QED
  BY <1>1, <1>3, <1>4, <1>6 DEF Range

-----------------------------------------------------------------------------
(* The room's memories and the shelf that walks them.                        *)

Txn == [born : 0..MaxClock, id : Ids \cup {Nothing}]

\* Who has drawn an id alone brings it.
DrawnOK ==
  /\ open \in [Writers -> Txn \cup {Nothing}]
  /\ \A w \in Writers : Drawn(w) => open[w].id < nextId /\ open[w].id \notin Rows
  /\ \A v, w \in Writers : v # w /\ Drawn(v) /\ Drawn(w) => open[v].id # open[w].id
  /\ \A i \in Rows : i < nextId

Shelf == [rows : Seq(Ids), cursor : Keys \cup {Nothing}, exhausted : BOOLEAN, owed : SUBSET Ids, refused : BOOLEAN]

\* The shelf stands at the last of its rows, and the others are not behind it.
StandsAt(sh) ==
  /\ sh \in Shelf
  /\ sh.rows = <<>> => sh.exhausted /\ sh.cursor = Nothing
  /\ sh.rows # <<>> => sh.cursor = Key(sh.rows[Len(sh.rows)])
  /\ \A n \in 1..Len(sh.rows) : sh.cursor \in Keys /\ ~Before(Key(sh.rows[n]), sh.cursor)

\* No row twice, and none that is owed is passed over.
WholeIs(sh) ==
  /\ \A m, n \in 1..Len(sh.rows) : sh.rows[m] = sh.rows[n] => m = n
  /\ \A i \in sh.owed :
        Active(i) /\ (sh.exhausted \/ ~Before(Key(i), sh.cursor)) => i \in Range(sh.rows)

\* A row of the room.
Row == [path : MemoryPaths \cup BoatPaths, born : 0..MaxClock, by : Ids \cup {Nothing}, threaded : BOOLEAN]

MemoriesInv ==
  /\ MemoriesTypeOK /\ DrawnOK /\ memory \in [Rows -> Row]
  /\ Walled(links)
  /\ StandsAt(shelf) /\ WholeIs(shelf)

\* The rows that were there keep their path and their time; what was superseded stays so.
Kept ==
  /\ Rows \subseteq Rows'
  /\ \A i \in Rows : /\ memory'[i].path = memory[i].path /\ memory'[i].born = memory[i].born
                     /\ memory[i].by # Nothing => memory'[i].by # Nothing

\* A shelf is whole whatever is written behind it.
LEMMA ShelfStands ==
  ASSUME MemoriesInv, Kept, shelf' = shelf
  PROVE  StandsAt(shelf)' /\ WholeIs(shelf)' /\ Range(shelf'.rows) \subseteq Rows' /\ shelf'.owed \subseteq Rows'
<1>1. /\ StandsAt(shelf) /\ WholeIs(shelf) /\ shelf \in Shelf /\ shelf.rows \in Seq(Ids)
      /\ Range(shelf.rows) \subseteq Rows /\ shelf.owed \subseteq Rows
  BY DEF MemoriesInv, MemoriesTypeOK, StandsAt, Shelf
<1>2. \A n \in 1..Len(shelf.rows) : shelf.rows[n] \in Rows
  BY <1>1 DEF Range
<1>3. \A i \in Rows : Key(i)' = Key(i)
  BY DEF Kept, Key
<1>4. \A i \in Rows : Active(i)' => Active(i)
  BY DEF Kept, Active, BoatRows
<1>5. Len(shelf.rows) \in Nat /\ (shelf.rows # <<>> => Len(shelf.rows) \in 1..Len(shelf.rows))
  BY <1>1, LenProperties, EmptySeq
<1>6. StandsAt(shelf)'
  <2>1. shelf.rows # <<>> => shelf.cursor = Key(shelf.rows[Len(shelf.rows)])'
    BY <1>1, <1>2, <1>3, <1>5 DEF StandsAt
  <2>2. \A n \in 1..Len(shelf.rows) : Key(shelf.rows[n])' = Key(shelf.rows[n])
    BY <1>2, <1>3
  <2> QED
    BY <1>1, <2>1, <2>2 DEF StandsAt
<1>7. WholeIs(shelf)'
  <2>1. ASSUME NEW i \in shelf.owed, Active(i)', shelf.exhausted \/ ~Before(Key(i)', shelf.cursor)
        PROVE  i \in Range(shelf.rows)
    <3>1. i \in Rows /\ Key(i)' = Key(i) /\ Active(i)
      BY <1>1, <1>3, <1>4, <2>1
    <3> QED
      BY <1>1, <2>1, <3>1 DEF WholeIs
  <2>2. \A m, n \in 1..Len(shelf'.rows) : shelf'.rows[m] = shelf'.rows[n] => m = n
    BY <1>1 DEF WholeIs
  <2>3. \A i \in shelf'.owed : Active(i)' /\ (shelf'.exhausted \/ ~Before(Key(i)', shelf'.cursor)) => i \in Range(shelf'.rows)
    BY <2>1
  <2> QED
    BY <2>2, <2>3 DEF WholeIs
<1> QED
  BY <1>1, <1>6, <1>7 DEF Kept

\* A query shows the newest of what is active, and owes the rest.
LEMMA QueryIsWhole ==
  ASSUME MemoriesInv, QueryShelf
  PROVE  StandsAt(shelf') /\ WholeIs(shelf') /\ Range(shelf'.rows) \subseteq Rows /\ shelf'.owed \subseteq Rows
<1> DEFINE page == Page(Nothing)
           owed == {i \in Rows : Active(i)}
           full == Len(page) < ShelfLimit
           no == FALSE
           at == IF page = <<>> THEN Nothing ELSE Key(Last(page))
<1>1. BookRows
  BY DEF MemoriesInv, MemoriesTypeOK, BookRows
<1>2. shelf' = [rows |-> page, exhausted |-> full, owed |-> owed, refused |-> no, cursor |-> at]
  BY DEF QueryShelf, Shelved
<1>3. full \in BOOLEAN /\ no \in BOOLEAN /\ owed \in SUBSET Rows /\ Rows \subseteq Ids
      /\ (full => Len(page) < ShelfLimit) /\ (Len(page) < ShelfLimit => full) /\ \A i \in owed : i \in Behind(Nothing)
  <2>1. full <=> Len(page) < ShelfLimit
    OBVIOUS
  <2> QED
    BY <1>1, <2>1 DEF BookRows, Behind
<1>4. /\ page \in Seq(Rows) /\ IsPage(page, Behind(Nothing)) /\ Range(page) \subseteq Rows
      /\ DOMAIN page = 1..Len(page) /\ Len(page) \in 0..ShelfLimit
  BY <1>1, PageFacts DEF Behind
<1> HIDE DEF page, full, no, owed
<1>5. Len(page) \in Nat /\ ShelfLimit \in Nat \ {0}
  BY <1>4, MemoriesAssumption
<1>6. page # <<>> => Len(page) \in 1..Len(page) /\ at = Key(page[Len(page)]) /\ at \in Keys
  <2>1. SUFFICES ASSUME page # <<>> PROVE Len(page) \in 1..Len(page) /\ at = Key(page[Len(page)]) /\ at \in Keys
    OBVIOUS
  <2>2. Len(page) \in 1..Len(page)
    BY <1>4, <1>5, <2>1, EmptySeq
  <2>3. at = Key(page[Len(page)]) /\ page[Len(page)] \in Rows
    BY <1>4, <2>1, <2>2 DEF Last
  <2> QED
    BY <1>1, <2>2, <2>3, RowKeys
<1>7. page = <<>> => at = Nothing /\ Len(page) = 0
  BY <1>4, EmptySeq
<1> HIDE DEF at
<1>8. at \in Keys \cup {Nothing}
  BY <1>6, <1>7
<1>9. \A m, n \in 1..Len(page) : m < n => Before(Key(page[n]), Key(page[m]))
  BY <1>4 DEF IsPage
<1>10. \A n \in 1..Len(page) : page[n] \in Rows /\ Key(page[n]) \in Keys
  BY <1>1, <1>4, RowKeys
<1>11. StandsAt(shelf')
  <2>1. shelf' \in Shelf
    <3>1. page \in Seq(Ids) /\ owed \in SUBSET Ids
      BY <1>3, <1>4
    <3> QED
      BY <1>2, <1>3, <1>8, <3>1 DEF Shelf
  <2>2. page = <<>> => full
    BY <1>3, <1>5, <1>7
  <2>3. ASSUME NEW n \in 1..Len(page) PROVE at \in Keys /\ ~Before(Key(page[n]), at)
    <3>1. page # <<>>
      BY <1>5, <1>7
    <3>2. n = Len(page) \/ n < Len(page)
      BY <1>5
    <3>3. CASE n = Len(page)
      BY <1>6, <1>10, <3>1, <3>3, BeforeOrders
    <3>4. CASE n < Len(page)
      <4>1. Before(at, Key(page[n]))
        BY <1>6, <1>9, <3>1, <3>4
      <4> QED
        BY <1>6, <1>10, <3>1, <4>1, BeforeOrders
    <3> QED
      BY <3>2, <3>3, <3>4
  <2> QED
    BY <1>2, <1>6, <1>7, <2>1, <2>2, <2>3 DEF StandsAt
<1>12. WholeIs(shelf')
  <2>1. ASSUME NEW m \in 1..Len(page), NEW n \in 1..Len(page), page[m] = page[n] PROVE m = n
    <3>1. ~(m < n) /\ ~(n < m)
      BY <1>9, <1>10, <2>1, BeforeOrders
    <3> QED
      BY <1>5, <3>1
  <2>2. ASSUME NEW i \in owed, full \/ ~Before(Key(i), at), i \notin Range(page) PROVE FALSE
    <3>1. i \in Behind(Nothing) \ Range(page)
      BY <1>3, <2>2
    <3>2. Len(page) = ShelfLimit /\ \A n \in 1..Len(page) : Before(Key(i), Key(page[n]))
      BY <1>4, <3>1 DEF IsPage
    <3>3. page # <<>> /\ ~full
      BY <1>3, <1>5, <1>7, <3>2
    <3> QED
      BY <1>6, <2>2, <3>2, <3>3
  <2> QED
    BY <1>2, <2>1, <2>2 DEF WholeIs
<1> QED
  BY <1>2, <1>3, <1>4, <1>11, <1>12

\* A walk appends what comes next: all of it lies behind the rows that were
\* there, and what it leaves out lies behind it.
LEMMA WalkIsWholeStep ==
  ASSUME MemoriesInv, WalkOlder
  PROVE  StandsAt(shelf') /\ WholeIs(shelf') /\ Range(shelf'.rows) \subseteq Rows /\ shelf'.owed \subseteq Rows
<1> DEFINE old == shelf.rows
           c == shelf.cursor
           page == Page(c)
           rows == old \o page
           full == Len(page) < ShelfLimit
           no == FALSE
           at == IF rows = <<>> THEN Nothing ELSE Key(Last(rows))
<1>1. BookRows
  BY DEF MemoriesInv, MemoriesTypeOK, BookRows
<1>2. /\ shelf' = [rows |-> rows, exhausted |-> full, owed |-> shelf.owed, refused |-> no, cursor |-> at]
      /\ old # <<>> /\ c # Nothing /\ ~shelf.exhausted
  BY DEF WalkOlder, Shelved
<1>3. full \in BOOLEAN /\ no \in BOOLEAN /\ (full => Len(page) < ShelfLimit) /\ (Len(page) < ShelfLimit => full) /\ Rows \subseteq Ids
  BY <1>1 DEF BookRows
<1>4. /\ page \in Seq(Rows) /\ IsPage(page, Behind(c)) /\ Range(page) \subseteq Behind(c)
      /\ DOMAIN page = 1..Len(page) /\ Len(page) \in 0..ShelfLimit
  BY <1>1, PageFacts
<1>5. /\ StandsAt(shelf) /\ WholeIs(shelf) /\ shelf \in Shelf /\ old \in Seq(Ids)
      /\ Range(old) \subseteq Rows /\ shelf.owed \subseteq Rows
  BY DEF MemoriesInv, MemoriesTypeOK, StandsAt, Shelf
<1>6. Len(old) \in Nat \ {0} /\ DOMAIN old = 1..Len(old) /\ Len(page) \in Nat /\ ShelfLimit \in Nat \ {0}
  BY <1>2, <1>4, <1>5, EmptySeq, LenProperties, MemoriesAssumption
<1>7. /\ c \in Keys /\ c = Key(old[Len(old)])
      /\ \A n \in 1..Len(old) : old[n] \in Rows /\ Key(old[n]) \in Keys /\ ~Before(Key(old[n]), c)
  <2>1. Len(old) \in 1..Len(old)
    BY <1>6
  <2>2. \A n \in 1..Len(old) : old[n] \in Rows
    BY <1>5, <1>6 DEF Range
  <2> QED
    BY <1>1, <1>2, <1>5, <2>1, <2>2, RowKeys DEF StandsAt
<1>8. \A i \in Range(page) : i \in Rows /\ Key(i) \in Keys /\ Before(Key(i), c)
  BY <1>1, <1>2, <1>4, RowKeys DEF Behind
<1>9. \A m, n \in 1..Len(page) : m < n => Before(Key(page[n]), Key(page[m]))
  BY <1>4 DEF IsPage
<1>10. \A n \in 1..Len(page) : page[n] \in Range(page)
  BY <1>4 DEF Range
<1>11. \A i \in Behind(c) \ Range(page) :
          Len(page) = ShelfLimit /\ \A n \in 1..Len(page) : Before(Key(i), Key(page[n]))
  BY <1>4 DEF IsPage
<1>12. \A i \in Rows : Active(i) /\ Before(Key(i), c) => i \in Behind(c)
  BY DEF Behind
<1> HIDE DEF page, full, no
<1>13. /\ Len(rows) = Len(old) + Len(page) /\ rows \in Seq(Rows) /\ Len(rows) \in Nat \ {0} /\ rows # <<>>
       /\ DOMAIN rows = 1..Len(rows)
       /\ \A n \in 1..Len(rows) : rows[n] = IF n <= Len(old) THEN old[n] ELSE page[n - Len(old)]
  <2>1. old \in Seq(Rows) /\ page \in Seq(Rows)
    BY <1>4, <1>5, <1>6, <1>7
  <2>2. /\ rows \in Seq(Rows) /\ Len(rows) = Len(old) + Len(page)
        /\ \A n \in 1..Len(rows) : rows[n] = IF n <= Len(old) THEN old[n] ELSE page[n - Len(old)]
    BY <2>1, ConcatProperties
  <2> QED
    BY <1>6, <2>2, EmptySeq, LenProperties
<1>14. at = Key(rows[Len(rows)])
  BY <1>13 DEF Last
<1> HIDE DEF c, old, rows, at
<1>15. \A n \in 1..Len(rows) :
          \/ n \in 1..Len(old) /\ rows[n] = old[n]
          \/ n - Len(old) \in 1..Len(page) /\ rows[n] = page[n - Len(old)] /\ n > Len(old)
  BY <1>6, <1>13
<1>16. /\ \A n \in 1..Len(old) : n \in 1..Len(rows) /\ rows[n] = old[n]
       /\ \A n \in 1..Len(page) : n + Len(old) \in 1..Len(rows) /\ rows[n + Len(old)] = page[n]
  BY <1>6, <1>13
<1>17. Range(rows) \subseteq Rows /\ Range(old) \subseteq Range(rows) /\ Range(page) \subseteq Range(rows)
  <2>1. \A n \in 1..Len(rows) : rows[n] \in Rows
    BY <1>13
  <2>2. Range(rows) \subseteq Rows
    BY <1>13, <2>1 DEF Range
  <2>3. Range(old) \subseteq Range(rows)
    BY <1>6, <1>13, <1>16 DEF Range
  <2>4. Range(page) \subseteq Range(rows)
    BY <1>4, <1>13, <1>16 DEF Range
  <2> QED
    BY <2>2, <2>3, <2>4
<1>18. /\ Len(page) = 0 => at = c
       /\ Len(page) > 0 => at = Key(page[Len(page)]) /\ Len(page) \in 1..Len(page)
  <2>1. CASE Len(page) = 0
    <3>1. Len(rows) \in 1..Len(old) /\ Len(rows) = Len(old)
      BY <1>6, <1>13, <2>1
    <3> QED
      BY <1>7, <1>14, <1>16, <2>1, <3>1
  <2>2. CASE Len(page) > 0
    <3>1. Len(page) \in 1..Len(page) /\ Len(rows) = Len(page) + Len(old)
      BY <1>6, <1>13, <2>2
    <3> QED
      BY <1>14, <1>16, <2>2, <3>1
  <2> QED
    BY <1>6, <2>1, <2>2
<1>19. at \in Keys /\ (at = c \/ Before(at, c))
  <2>1. CASE Len(page) = 0
    BY <1>7, <1>18, <2>1
  <2>2. CASE Len(page) > 0
    BY <1>8, <1>10, <1>18, <2>2
  <2> QED
    BY <1>6, <2>1, <2>2
<1>20. \A n \in 1..Len(page) : ~Before(Key(page[n]), at)
  <2> SUFFICES ASSUME NEW n \in 1..Len(page) PROVE ~Before(Key(page[n]), at)
    OBVIOUS
  <2>1. Len(page) > 0 /\ Key(page[n]) \in Keys /\ (n = Len(page) \/ n < Len(page))
    BY <1>6, <1>8, <1>10
  <2>2. CASE n = Len(page)
    BY <1>18, <2>1, <2>2, BeforeOrders
  <2>3. CASE n < Len(page)
    <3>1. Before(at, Key(page[n]))
      BY <1>9, <1>18, <2>1, <2>3
    <3> QED
      BY <1>19, <2>1, <3>1, BeforeOrders
  <2> QED
    BY <2>1, <2>2, <2>3
<1>21. \A n \in 1..Len(old) : ~Before(Key(old[n]), at)
  BY <1>7, <1>19, BeforeOrders
<1>22. StandsAt(shelf')
  <2>1. shelf' \in Shelf
    <3>1. rows \in Seq(Ids) /\ shelf.owed \in SUBSET Ids
      BY <1>3, <1>5, <1>13
    <3> QED
      BY <1>2, <1>3, <1>19, <3>1 DEF Shelf
  <2>2. \A n \in 1..Len(rows) : ~Before(Key(rows[n]), at)
    BY <1>15, <1>20, <1>21
  <2> QED
    BY <1>2, <1>13, <1>14, <1>19, <2>1, <2>2 DEF StandsAt
<1>23. WholeIs(shelf')
  <2>1. ASSUME NEW m \in 1..Len(page), NEW n \in 1..Len(page), page[m] = page[n] PROVE m = n
    <3>1. ~(m < n) /\ ~(n < m)
      BY <1>8, <1>9, <1>10, <2>1, BeforeOrders
    <3> QED
      BY <1>6, <3>1
  <2>2. \A m \in 1..Len(old), n \in 1..Len(page) : old[m] # page[n]
    BY <1>7, <1>8, <1>10
  <2>3. \A m, n \in 1..Len(old) : old[m] = old[n] => m = n
    BY <1>5 DEF WholeIs, old
  <2>4. ASSUME NEW m \in 1..Len(rows), NEW n \in 1..Len(rows), rows[m] = rows[n] PROVE m = n
    <3>1. CASE m \in 1..Len(old) /\ rows[m] = old[m] /\ n \in 1..Len(old) /\ rows[n] = old[n]
      BY <2>3, <2>4, <3>1
    <3>2. CASE m - Len(old) \in 1..Len(page) /\ n - Len(old) \in 1..Len(page)
               /\ rows[m] = page[m - Len(old)] /\ rows[n] = page[n - Len(old)]
      <4>1. m - Len(old) = n - Len(old)
        BY <2>1, <2>4, <3>2
      <4> QED
        BY <1>6, <1>13, <4>1
    <3> QED
      BY <1>15, <2>2, <2>4, <3>1, <3>2
  <2>5. ASSUME NEW i \in shelf.owed, Active(i), full \/ ~Before(Key(i), at), i \notin Range(rows) PROVE FALSE
    <3>1. i \in Rows /\ i \notin Range(old) /\ i \notin Range(page)
      BY <1>5, <1>17, <2>5
    <3>2. Before(Key(i), c)
      <4>1. ~(~Before(Key(i), c))
        BY <1>5, <2>5, <3>1 DEF WholeIs, old, c
      <4> QED
        BY <4>1
    <3>3. i \in Behind(c) \ Range(page)
      BY <1>12, <2>5, <3>1, <3>2
    <3>4. Len(page) = ShelfLimit /\ Len(page) > 0 /\ ~full
      BY <1>3, <1>6, <1>11, <3>3
    <3> QED
      BY <1>11, <1>18, <2>5, <3>3, <3>4
  <2> QED
    BY <1>2, <2>4, <2>5 DEF WholeIs
<1> QED
  BY <1>2, <1>5, <1>17, <1>22, <1>23

\* The room at first.
LEMMA MemoriesStart == MemoriesInit => MemoriesInv
<1> SUFFICES ASSUME MemoriesInit PROVE MemoriesInv
  OBVIOUS
<1> DEFINE yes == TRUE
           no == FALSE
           s0 == [rows |-> <<>>, cursor |-> Nothing, exhausted |-> yes, owed |-> {}, refused |-> no]
<1>1. /\ Rows = {} /\ memory \in [Rows -> Row] /\ links = {} /\ clock = 0 /\ nextId = 1 /\ slept = Nothing
      /\ open = [w \in Writers |-> Nothing]
  BY DEF MemoriesInit, Rows
<1>2. shelf = s0 /\ yes \in BOOLEAN /\ no \in BOOLEAN /\ yes
  BY DEF MemoriesInit, NoShelf
<1> HIDE DEF yes, no
<1>3. <<>> \in Seq(Ids) /\ Len(<<>>) = 0 /\ Range(<<>>) = {} /\ 1..0 = {}
  BY DEF Range
<1>4. s0 \in Shelf
  BY <1>2, <1>3 DEF Shelf
<1>5. MemoriesTypeOK
  BY <1>1, <1>2, <1>3, MemoriesAssumption DEF MemoriesTypeOK, InThread
<1>6. DrawnOK
  BY <1>1 DEF DrawnOK, Drawn
<1>7. Walled(links)
  BY <1>1 DEF Walled, After, Closed
<1>8. StandsAt(s0) /\ WholeIs(s0)
  BY <1>2, <1>3, <1>4 DEF StandsAt, WholeIs
<1> QED
  BY <1>1, <1>2, <1>5, <1>6, <1>7, <1>8 DEF MemoriesInv

\* Where the room's memories stand.
LEMMA BookStands ==
  ASSUME MemoriesInv
  PROVE  /\ MemoriesTypeOK /\ DrawnOK /\ memory \in [Rows -> Row] /\ Walled(links)
         /\ Rows \subseteq Ids /\ links \in SUBSET Edges
         /\ (UNCHANGED <<memory, shelf>> => Kept)
<1>1. MemoriesTypeOK /\ DrawnOK /\ memory \in [Rows -> Row] /\ Walled(links) /\ Rows \subseteq Ids
  BY DEF MemoriesInv, MemoriesTypeOK
<1>2. links \in SUBSET Edges
  BY <1>1 DEF MemoriesTypeOK, Edges, InThread
<1> QED
  BY <1>1, <1>2 DEF Kept, Rows

\* What leaves memories, links and shelf alone keeps them.
LEMMA BookStill ==
  ASSUME MemoriesInv, memory' = memory, links' = links, slept' = slept, shelf' = shelf,
         clock' \in 0..MaxClock, nextId' \in 1..(MaxIds + 1), DrawnOK'
  PROVE  MemoriesInv'
<1>1. Rows' = Rows /\ InThread' = InThread /\ BoatRows' = BoatRows
  BY DEF Rows, InThread, BoatRows
<1>2. MemoriesTypeOK'
  BY <1>1 DEF MemoriesInv, MemoriesTypeOK
<1>3. (memory \in [Rows -> Row])' /\ Walled(links)'
  BY <1>1 DEF MemoriesInv, Walled
<1>4. Kept
  BY <1>1 DEF Kept
<1> QED
  BY <1>2, <1>3, <1>4, ShelfStands DEF MemoriesInv

\* Time passes, and transactions begin, draw their ids and are broken off.
LEMMA TxnKeeps ==
  ASSUME MemoriesInv, TimePasses \/ \E w \in Writers : Begin(w) \/ Draw(w) \/ Abort(w)
  PROVE  MemoriesInv'
<1>1. /\ memory' = memory /\ links' = links /\ slept' = slept /\ shelf' = shelf /\ MemoriesTypeOK /\ DrawnOK
      /\ Rows' = Rows /\ Nothing \notin Ids
  BY NothingAssumption DEF TimePasses, Begin, Draw, Abort, MemoriesInv, Rows
<1>2. /\ MaxClock \in Nat /\ MaxIds \in Nat \ {0} /\ clock \in 0..MaxClock /\ nextId \in 1..(MaxIds + 1)
      /\ open \in [Writers -> Txn \cup {Nothing}]
  BY <1>1, MemoriesAssumption DEF MemoriesTypeOK, DrawnOK
<1>3. CASE TimePasses
  <2>1. clock' \in 0..MaxClock /\ nextId' = nextId /\ open' = open
    BY <1>2, <1>3 DEF TimePasses
  <2>2. DrawnOK'
    BY <1>1, <2>1 DEF DrawnOK, Drawn
  <2> QED
    BY <1>1, <1>2, <2>1, <2>2, BookStill
<1>4. ASSUME NEW w \in Writers, Begin(w) PROVE MemoriesInv'
  <2> DEFINE t == [born |-> clock, id |-> Nothing]
  <2>1. open' = [open EXCEPT ![w] = t] /\ clock' = clock /\ nextId' = nextId
    BY <1>4 DEF Begin
  <2>2. t \in Txn /\ t.id = Nothing
    BY <1>2 DEF Txn
  <2> HIDE DEF t
  <2>3. open' \in [Writers -> Txn \cup {Nothing}] /\ \A v \in Writers : open'[v] = IF v = w THEN t ELSE open[v]
    BY <1>2, <2>1, <2>2
  <2>4. \A v \in Writers : Drawn(v)' => v # w /\ Drawn(v) /\ open'[v] = open[v]
    BY <2>2, <2>3 DEF Drawn
  <2>5. DrawnOK'
    BY <1>1, <2>1, <2>3, <2>4 DEF DrawnOK
  <2> QED
    BY <1>1, <1>2, <2>1, <2>5, BookStill
<1>5. ASSUME NEW w \in Writers, Draw(w) PROVE MemoriesInv'
  <2> DEFINE t == [open[w] EXCEPT !.id = nextId]
             next == nextId + 1
  <2>1. /\ open' = [open EXCEPT ![w] = t] /\ clock' = clock /\ nextId' = next
        /\ open[w] \in Txn /\ nextId \in Ids
    BY <1>2, <1>5 DEF Draw
  <2>2. t \in Txn /\ t.id = nextId
    BY <2>1 DEF Txn
  <2>3. next \in 1..(MaxIds + 1) /\ nextId < next /\ \A k \in Ids : k < nextId => k < next
    BY <1>2, <2>1 DEF Ids
  <2> HIDE DEF t, next
  <2>4. open' \in [Writers -> Txn \cup {Nothing}] /\ \A v \in Writers : open'[v] = IF v = w THEN t ELSE open[v]
    BY <1>2, <2>1, <2>2
  <2>5. \A v \in Writers : Drawn(v)' => (v = w /\ open'[v].id = nextId) \/ (v # w /\ Drawn(v) /\ open'[v] = open[v])
    BY <2>2, <2>4 DEF Drawn
  <2>6. \A v \in Writers : Drawn(v) => open[v].id \in Ids /\ open[v].id < nextId
    BY <1>1, <1>2 DEF DrawnOK, Drawn, Txn
  <2>7. nextId \notin Rows /\ \A i \in Rows : i \in Ids /\ i < nextId
    BY <1>1, <1>2 DEF DrawnOK, MemoriesTypeOK, Ids
  <2>8. \A v \in Writers : Drawn(v)' => open'[v].id < next /\ open'[v].id \notin Rows
    BY <1>1, <2>3, <2>5, <2>6, <2>7 DEF DrawnOK
  <2>9. \A u, v \in Writers : u # v /\ Drawn(u)' /\ Drawn(v)' => open'[u].id # open'[v].id
    <3>1. \A v \in Writers : Drawn(v) => open[v].id # nextId
      BY <1>2, <2>6 DEF Ids
    <3> QED
      BY <1>1, <2>5, <3>1 DEF DrawnOK
  <2>10. DrawnOK'
    BY <1>1, <2>1, <2>3, <2>4, <2>7, <2>8, <2>9 DEF DrawnOK
  <2> QED
    BY <1>1, <1>2, <2>1, <2>3, <2>10, BookStill
<1>6. ASSUME NEW w \in Writers, Abort(w) PROVE MemoriesInv'
  <2>1. open' = [open EXCEPT ![w] = Nothing] /\ clock' = clock /\ nextId' = nextId
    BY <1>6 DEF Abort
  <2>2. open' \in [Writers -> Txn \cup {Nothing}] /\ \A v \in Writers : open'[v] = IF v = w THEN Nothing ELSE open[v]
    BY <1>2, <2>1
  <2>3. \A v \in Writers : Drawn(v)' => v # w /\ Drawn(v) /\ open'[v] = open[v]
    BY <2>2 DEF Drawn
  <2>4. DrawnOK'
    BY <1>1, <2>1, <2>2, <2>3 DEF DrawnOK
  <2> QED
    BY <1>1, <1>2, <2>1, <2>4, BookStill
<1> QED
  BY <1>3, <1>4, <1>5, <1>6

\* The shelf asks, walks on, or is refused.
LEMMA ShelfKeeps == ASSUME MemoriesInv, QueryShelf \/ WalkOlder \/ DoorRefuses PROVE MemoriesInv'
<1>1. UNCHANGED bookVars /\ slept' = slept /\ MemoriesTypeOK /\ DrawnOK
  BY DEF QueryShelf, WalkOlder, DoorRefuses, MemoriesInv
<1>2. /\ memory' = memory /\ links' = links /\ open' = open /\ clock' = clock /\ nextId' = nextId
      /\ Rows' = Rows /\ InThread' = InThread /\ BoatRows' = BoatRows
  BY <1>1 DEF bookVars, Rows, InThread, BoatRows
<1>3. StandsAt(shelf') /\ WholeIs(shelf') /\ Range(shelf'.rows) \subseteq Rows /\ shelf'.owed \subseteq Rows
  <2>1. CASE DoorRefuses
    <3> DEFINE yes == TRUE
               s == [shelf EXCEPT !.refused = yes]
    <3>1. shelf' = s /\ yes \in BOOLEAN /\ StandsAt(shelf) /\ WholeIs(shelf) /\ shelf \in Shelf
          /\ Range(shelf.rows) \subseteq Rows /\ shelf.owed \subseteq Rows
      BY <1>1, <2>1 DEF DoorRefuses, MemoriesInv, StandsAt, MemoriesTypeOK
    <3> HIDE DEF yes
    <3>2. s \in Shelf /\ s.rows = shelf.rows /\ s.cursor = shelf.cursor /\ s.exhausted = shelf.exhausted /\ s.owed = shelf.owed
      BY <3>1 DEF Shelf
    <3> HIDE DEF s
    <3>3. StandsAt(s) /\ WholeIs(s)
      BY <3>1, <3>2 DEF StandsAt, WholeIs
    <3> QED
      BY <3>1, <3>2, <3>3
  <2> QED
    BY <2>1, QueryIsWhole, WalkIsWholeStep
<1>4. \A i : Key(i)' = Key(i) /\ Active(i)' = Active(i)
  BY <1>2 DEF Key, Active
<1>5. StandsAt(shelf)' /\ WholeIs(shelf)'
  BY <1>3, <1>4 DEF StandsAt, WholeIs
<1>6. MemoriesTypeOK'
  BY <1>1, <1>2, <1>3 DEF MemoriesTypeOK
<1>7. DrawnOK' /\ (memory \in [Rows -> Row])' /\ Walled(links)'
  BY <1>1, <1>2 DEF DrawnOK, Drawn, MemoriesInv, Walled
<1> QED
  BY <1>5, <1>6, <1>7 DEF MemoriesInv

\* A row that is written, and the mark on what it supersedes.
Marks(i, row, old) == memory' = Written(row, i, old)

\* A row written over an older one keeps its place, whatever it supersedes.
LEMMA WritingKeeps ==
  ASSUME MemoriesInv, NEW i \in Ids, NEW row \in Row, NEW old, Marks(i, row, old),
         i \in Rows => row.path = memory[i].path /\ row.born = memory[i].born /\ row.by = memory[i].by
  PROVE  /\ Rows' = Rows \cup {i} /\ memory' \in [Rows' -> Row] /\ Kept
         /\ memory'[i].threaded = row.threaded /\ memory'[i].path = row.path
         /\ \A j \in Rows : j # i => memory'[j].threaded = memory[j].threaded
<1>1. memory \in [Rows -> Row] /\ Rows \subseteq Ids /\ Nothing \notin Ids
  BY BookStands, NothingAssumption
<1>2. Rows' = Rows \cup {i}
  BY DEF Marks, Written, Rows
<1>3. memory'[i] = row
  BY DEF Marks, Written
<1>4. ASSUME NEW j \in Rows, j # i
      PROVE  /\ memory'[j] \in Row /\ memory'[j].path = memory[j].path /\ memory'[j].born = memory[j].born
             /\ memory'[j].threaded = memory[j].threaded
             /\ memory[j].by # Nothing => memory'[j].by # Nothing
  <2>1. memory'[j] = IF j = old THEN [memory[j] EXCEPT !.by = i] ELSE memory[j]
    BY <1>4 DEF Marks, Written
  <2>2. memory[j] \in Row
    BY <1>1
  <2>3. CASE j = old
    BY <1>1, <2>1, <2>2, <2>3 DEF Row
  <2>4. CASE j # old
    BY <2>1, <2>2, <2>4
  <2> QED
    BY <2>3, <2>4
<1>5. memory' = [j \in Rows' |-> memory'[j]]
  BY <1>2 DEF Marks, Written
<1>6. \A j \in Rows' : memory'[j] \in Row
  BY <1>2, <1>3, <1>4
<1>7. memory' \in [Rows' -> Row]
  BY <1>5, <1>6
<1>8. Kept
  BY <1>2, <1>3, <1>4 DEF Kept
<1> QED
  BY <1>2, <1>3, <1>4, <1>7, <1>8

\* The row a transaction writes: the one at its path, or its own, which no one has.
LEMMA TargetRow ==
  ASSUME MemoriesInv, NEW w \in Writers, Drawn(w), NEW path \in MemoryPaths \cup BoatPaths, NEW threaded \in BOOLEAN
  PROVE  LET i == Target(w, path)
             row == RowAfter(w, path, i, threaded)
         IN  /\ i \in Ids /\ row \in Row /\ row.threaded = threaded /\ row.path = path
             /\ i \in Rows => row.path = memory[i].path /\ row.born = memory[i].born /\ row.by = memory[i].by
             /\ i < nextId /\ (i \in Rows \/ i = open[w].id)
<1> DEFINE i == Target(w, path)
           row == RowAfter(w, path, i, threaded)
<1>1. /\ DrawnOK /\ memory \in [Rows -> Row] /\ Rows \subseteq Ids
      /\ open[w] \in Txn /\ open[w].id \in Ids /\ open[w].id < nextId /\ open[w].id \notin Rows
  BY BookStands DEF DrawnOK, Drawn, Txn
<1>2. CASE At(path) = {}
  <2>1. i = open[w].id
    BY <1>2 DEF Target
  <2>2. row = [path |-> path, born |-> open[w].born, by |-> Nothing, threaded |-> threaded]
    BY <1>1, <2>1 DEF RowAfter
  <2>3. row \in Row
    BY <1>1, <2>2 DEF Row, Txn
  <2> HIDE DEF i, row
  <2> QED
    BY <1>1, <2>1, <2>2, <2>3 DEF i, row
<1>3. CASE At(path) # {}
  <2>1. i \in At(path) /\ i \in Rows /\ memory[i].path = path
    BY <1>3 DEF Target, At
  <2>2. row = [memory[i] EXCEPT !.threaded = threaded] /\ memory[i] \in Row /\ i < nextId
    BY <1>1, <2>1 DEF RowAfter, DrawnOK
  <2> HIDE DEF i, row
  <2>3. row \in Row /\ row.threaded = threaded /\ row.path = path /\ row.born = memory[i].born /\ row.by = memory[i].by
    BY <2>1, <2>2 DEF Row
  <2> QED
    BY <1>1, <2>1, <2>2, <2>3 DEF i, row
<1> QED
  BY <1>2, <1>3

\* Who has written has no transaction, and its id is taken.
LEMMA CommitDrawn ==
  ASSUME MemoriesInv, NEW w \in Writers, NEW i \in Ids, i < nextId, i \in Rows \/ (Drawn(w) /\ i = open[w].id),
         Rows' = Rows \cup {i} \/ Rows' = Rows, open' = [open EXCEPT ![w] = Nothing], nextId' = nextId
  PROVE  DrawnOK'
<1>1. DrawnOK
  BY BookStands
<1>2. open' \in [Writers -> Txn \cup {Nothing}] /\ \A v \in Writers : open'[v] = IF v = w THEN Nothing ELSE open[v]
  BY <1>1 DEF DrawnOK
<1>3. \A v \in Writers : Drawn(v)' => v # w /\ Drawn(v) /\ open'[v] = open[v]
  BY <1>2 DEF Drawn
<1>4. \A v \in Writers : Drawn(v)' => open'[v].id \notin Rows /\ open'[v].id # i /\ open'[v].id < nextId
  BY <1>1, <1>3 DEF DrawnOK
<1>5. \A k \in Rows' : k < nextId
  BY <1>1 DEF DrawnOK
<1>6. \A u, v \in Writers : u # v /\ Drawn(u)' /\ Drawn(v)' => open'[u].id # open'[v].id
  BY <1>1, <1>3 DEF DrawnOK
<1> QED
  BY <1>2, <1>4, <1>5, <1>6 DEF DrawnOK

\* The links of a memory that is written stay within the thread, and in order.
LEMMA LinksStand ==
  ASSUME MemoriesInv, NEW i \in Ids, NEW threaded \in BOOLEAN, NEW prev \in Rows \cup {Nothing},
         MayContinue(prev, i, threaded), links' = Linked(KeptLinks(i, threaded), prev, i),
         Rows' = Rows \cup {i}, memory'[i].threaded = threaded,
         \A j \in Rows : j # i => memory'[j].threaded = memory[j].threaded
  PROVE  links' \subseteq (InThread \X InThread)' /\ Walled(links)'
<1>1. links \subseteq InThread \X InThread /\ links \in SUBSET Edges /\ Walled(links) /\ Rows \subseteq Ids
  BY BookStands DEF MemoriesTypeOK
<1>2. \A j \in InThread : j # i => j \in InThread'
  BY DEF InThread
<1>3. threaded => i \in InThread' /\ \A j \in InThread : j \in InThread'
  BY <1>2 DEF InThread
<1>4. CASE prev = Nothing
  <2>1. links' = KeptLinks(i, threaded)
    BY <1>4 DEF Linked
  <2>2. links' \in SUBSET links
    BY <2>1 DEF KeptLinks
  <2>3. Walled(links)'
    BY <1>1, <2>2, FewerEdges DEF Walled
  <2>4. \A e \in links' : e \in InThread \X InThread /\ (~threaded => e[1] # i /\ e[2] # i)
    BY <1>1, <2>1 DEF KeptLinks
  <2>5. \A e \in links' : e \in (InThread \X InThread)'
    BY <1>2, <1>3, <2>4
  <2> QED
    BY <2>3, <2>5
<1>5. CASE prev # Nothing
  <2>1. threaded /\ prev # i /\ prev \in InThread /\ ~WouldCycle(links, prev, i) /\ KeptLinks(i, threaded) = links
    BY <1>5 DEF MayContinue, KeptLinks
  <2>2. prev \in Ids /\ prev \notin Descendants(links, {i})
    BY <1>1, <2>1 DEF WouldCycle, InThread
  <2>3. links' \in SUBSET (links \cup {<<prev, i>>})
    BY <1>5, <2>1 DEF Linked
  <2>4. Walled(links \cup {<<prev, i>>}) /\ links \cup {<<prev, i>>} \in SUBSET Edges
    BY <1>1, <2>2, LinkKeepsWalls DEF Edges
  <2>5. Walled(links)'
    <3> DEFINE more == links \cup {<<prev, i>>}
               kept == links'
    <3>1. more \in SUBSET Edges /\ kept \in SUBSET more /\ Walled(more)
      BY <2>3, <2>4
    <3> HIDE DEF more, kept
    <3>2. Walled(kept)
      BY <3>1, FewerEdges
    <3> QED
      BY <3>2 DEF kept, Walled
  <2>6. \A e \in links' : e \in (InThread \X InThread)'
    <3>1. prev \in InThread' /\ i \in InThread' /\ InThread \subseteq InThread'
      BY <1>3, <2>1
    <3>2. \A e \in links : e \in InThread' \X InThread'
      BY <1>1, <3>1
    <3>3. <<prev, i>> \in InThread' \X InThread'
      BY <3>1
    <3> QED
      BY <2>3, <3>2, <3>3
  <2> QED
    BY <2>5, <2>6
<1> QED
  BY <1>4, <1>5

\* A commit of remember keeps the rows, the thread and the walk.
LEMMA RememberKeeps == ASSUME MemoriesInv, NEW w \in Writers, Remember(w) PROVE MemoriesInv'
<1>1. PICK path \in MemoryPaths, threaded \in BOOLEAN, old \in Rows \cup {Nothing}, prev \in Rows \cup {Nothing} :
         LET i == Target(w, path)
         IN  /\ MayContinue(prev, i, threaded)
             /\ memory' = Written(RowAfter(w, path, i, threaded), i, old)
             /\ links' = Linked(KeptLinks(i, threaded), prev, i)
  BY DEF Remember
<1> DEFINE i == Target(w, path)
           row == RowAfter(w, path, i, threaded)
<1>2. /\ i \in Ids /\ row \in Row /\ row.threaded = threaded /\ row.path = path
      /\ i \in Rows => row.path = memory[i].path /\ row.born = memory[i].born /\ row.by = memory[i].by
      /\ i < nextId /\ (i \in Rows \/ i = open[w].id) /\ Drawn(w)
  BY TargetRow DEF Remember
<1>3. /\ MayContinue(prev, i, threaded) /\ Marks(i, row, old) /\ links' = Linked(KeptLinks(i, threaded), prev, i)
      /\ open' = [open EXCEPT ![w] = Nothing] /\ clock' = clock /\ nextId' = nextId /\ slept' = slept /\ shelf' = shelf
  BY <1>1 DEF Remember, Marks
<1> HIDE DEF i, row
<1>4. /\ Rows' = Rows \cup {i} /\ memory' \in [Rows' -> Row] /\ Kept
      /\ memory'[i].threaded = threaded
      /\ \A j \in Rows : j # i => memory'[j].threaded = memory[j].threaded
  BY <1>2, <1>3, WritingKeeps
<1>5. links' \subseteq (InThread \X InThread)' /\ Walled(links)'
  BY <1>2, <1>3, <1>4, LinksStand
<1>6. DrawnOK'
  BY <1>2, <1>3, <1>4, CommitDrawn
<1>7. StandsAt(shelf)' /\ WholeIs(shelf)' /\ Range(shelf'.rows) \subseteq Rows' /\ shelf'.owed \subseteq Rows'
  BY <1>3, <1>4, ShelfStands
<1>8. slept' \in BoatRows' \cup {Nothing}
  BY <1>3, <1>4 DEF MemoriesInv, MemoriesTypeOK, BoatRows, Kept
<1>9. MemoriesTypeOK'
  <2>1. Rows' \subseteq Ids /\ clock' \in 0..MaxClock /\ nextId' \in 1..(MaxIds + 1)
    BY <1>2, <1>3, <1>4 DEF MemoriesInv, MemoriesTypeOK
  <2>2. \A j \in Rows' : /\ memory'[j].path \in MemoryPaths \cup BoatPaths /\ memory'[j].born \in 0..MaxClock
                         /\ memory'[j].by \in Ids \cup {Nothing} /\ memory'[j].threaded \in BOOLEAN
    BY <1>4 DEF Row
  <2> QED
    BY <1>5, <1>7, <1>8, <2>1, <2>2 DEF MemoriesTypeOK
<1> QED
  BY <1>4, <1>5, <1>6, <1>7, <1>9 DEF MemoriesInv

\* A commit of sleep leaves the thread alone, and what it was told is a Boat.
LEMMA SleepKeeps == ASSUME MemoriesInv, NEW w \in Writers, Sleep(w) PROVE MemoriesInv'
<1>1. PICK path \in BoatPaths :
         LET i == Target(w, path)
         IN  /\ memory' = IF i \in Rows THEN memory ELSE Written(RowAfter(w, path, i, FALSE), i, Nothing)
             /\ slept' = i
  BY DEF Sleep
<1> DEFINE no == FALSE
           i == Target(w, path)
           row == RowAfter(w, path, i, no)
<1>2. no \in BOOLEAN
  OBVIOUS
<1>3. /\ (i \in Rows /\ memory' = memory) \/ (i \notin Rows /\ Marks(i, row, Nothing))
      /\ slept' = i
      /\ open' = [open EXCEPT ![w] = Nothing] /\ clock' = clock /\ nextId' = nextId /\ links' = links /\ shelf' = shelf
      /\ Drawn(w)
  BY <1>1 DEF Sleep, Marks
<1> HIDE DEF no
<1>4. /\ i \in Ids /\ row \in Row /\ row.path = path
      /\ i \in Rows => row.path = memory[i].path /\ row.born = memory[i].born /\ row.by = memory[i].by
      /\ i < nextId /\ (i \in Rows \/ i = open[w].id)
  BY <1>2, <1>3, TargetRow
<1> HIDE DEF i, row
<1>5. /\ Rows' = Rows \cup {i} /\ memory' \in [Rows' -> Row] /\ Kept
      /\ memory'[i].path \in BoatPaths
      /\ \A j \in Rows : memory'[j].threaded = memory[j].threaded
  <2>1. CASE i \in Rows /\ memory' = memory
    <3>1. Rows' = Rows /\ Rows = Rows \cup {i} /\ memory \in [Rows -> Row] /\ memory[i].path = path
      BY <1>4, <2>1, BookStands DEF Rows
    <3>2. Kept
      BY <2>1, <3>1 DEF Kept
    <3> QED
      BY <2>1, <3>1, <3>2
  <2>2. CASE i \notin Rows /\ Marks(i, row, Nothing)
    <3>1. /\ Rows' = Rows \cup {i} /\ memory' \in [Rows' -> Row] /\ Kept
          /\ memory'[i].path = row.path
          /\ \A j \in Rows : j # i => memory'[j].threaded = memory[j].threaded
      BY <1>4, <2>2, WritingKeeps
    <3> QED
      BY <1>4, <2>2, <3>1
  <2> QED
    BY <1>3, <2>1, <2>2
<1>6. links' \subseteq (InThread \X InThread)' /\ Walled(links)'
  <2>1. links \subseteq InThread \X InThread /\ Walled(links)
    BY DEF MemoriesInv, MemoriesTypeOK
  <2>2. InThread \subseteq InThread'
    BY <1>5 DEF InThread
  <2> QED
    BY <1>3, <2>1, <2>2 DEF Walled
<1>7. DrawnOK'
  BY <1>3, <1>4, <1>5, CommitDrawn
<1>8. StandsAt(shelf)' /\ WholeIs(shelf)' /\ Range(shelf'.rows) \subseteq Rows' /\ shelf'.owed \subseteq Rows'
  BY <1>3, <1>5, ShelfStands
<1>9. slept' \in BoatRows'
  BY <1>3, <1>5 DEF BoatRows
<1>10. MemoriesTypeOK'
  <2>1. Rows' \subseteq Ids /\ clock' \in 0..MaxClock /\ nextId' \in 1..(MaxIds + 1)
    BY <1>3, <1>4, <1>5 DEF MemoriesInv, MemoriesTypeOK
  <2>2. \A j \in Rows' : /\ memory'[j].path \in MemoryPaths \cup BoatPaths /\ memory'[j].born \in 0..MaxClock
                         /\ memory'[j].by \in Ids \cup {Nothing} /\ memory'[j].threaded \in BOOLEAN
    BY <1>5 DEF Row
  <2> QED
    BY <1>6, <1>8, <1>9, <2>1, <2>2 DEF MemoriesTypeOK
<1> QED
  BY <1>5, <1>6, <1>7, <1>8, <1>10 DEF MemoriesInv

\* In every behaviour of a room's memories the thread stays in order and the
\* shelf stands where its last row does.
LEMMA MemoriesHold == MemoriesSpec => []MemoriesInv
<1>1. MemoriesInit => MemoriesInv
  BY MemoriesStart
<1>2. MemoriesInv /\ [MemoriesNext]_memoriesVars => MemoriesInv'
  <2> SUFFICES ASSUME MemoriesInv, [MemoriesNext]_memoriesVars PROVE MemoriesInv'
    OBVIOUS
  <2>1. CASE TimePasses \/ \E w \in Writers : Begin(w) \/ Draw(w) \/ Abort(w)
    BY <2>1, TxnKeeps
  <2>2. CASE QueryShelf \/ WalkOlder \/ DoorRefuses
    BY <2>2, ShelfKeeps
  <2>3. CASE \E w \in Writers : Remember(w) \/ Sleep(w)
    BY <2>3, RememberKeeps, SleepKeeps
  <2>4. CASE UNCHANGED memoriesVars
    <3>1. /\ memory' = memory /\ links' = links /\ slept' = slept /\ shelf' = shelf
          /\ clock' = clock /\ nextId' = nextId /\ open' = open
      BY <2>4 DEF memoriesVars, bookVars
    <3>2. DrawnOK'
      BY <3>1 DEF MemoriesInv, DrawnOK, Drawn, Rows
    <3> QED
      BY <3>1, <3>2, BookStill DEF MemoriesInv, MemoriesTypeOK
  <2> QED
    BY <2>1, <2>2, <2>3, <2>4 DEF MemoriesNext
<1> QED
  BY <1>1, <1>2, PTL DEF MemoriesSpec

\* The room's rows, its links, its transactions' ids and its shelf keep their types.
THEOREM MemoriesTypes == MemoriesSpec => []MemoriesTypeOK
<1>1. MemoriesInv => MemoriesTypeOK
  BY DEF MemoriesInv
<1> QED
  BY <1>1, MemoriesHold, PTL

\* No memory comes before itself in a thread, however continuations, rewrites
\* and departures interleave (substrate_reject_thread_event_link_cycle).
THEOREM ThreadsStayInOrder == MemoriesSpec => []ThreadsAreAcyclic
<1>1. MemoriesInv => ThreadsAreAcyclic
  <2> SUFFICES ASSUME MemoriesInv, NEW i \in Rows
               PROVE  i \notin Descendants(links, {e[2] : e \in {d \in links : d[1] = i}})
    BY DEF ThreadsAreAcyclic
  <2> QED
    BY BookStands, WallsOrder DEF After
<1> QED
  BY <1>1, MemoriesHold, PTL

\* A walk of the shelf gives no row twice, and passes over none that stood
\* active throughout, whatever commits between its pages (askColumn, memory_timeline).
THEOREM TheWalkIsWhole == MemoriesSpec => []WalkIsWhole
<1>1. MemoriesInv => WalkIsWhole
  <2> SUFFICES ASSUME MemoriesInv PROVE WalkIsWhole
    OBVIOUS
  <2>1. WholeIs(shelf) /\ shelf.rows \in Seq(Ids)
    BY DEF MemoriesInv, StandsAt, Shelf
  <2>2. DOMAIN shelf.rows = 1..Len(shelf.rows)
    BY <2>1, LenProperties
  <2> QED
    BY <2>1, <2>2 DEF WalkIsWhole, WholeIs, IsInjective
<1> QED
  BY <1>1, MemoriesHold, PTL

-----------------------------------------------------------------------------
(* The backups and their rotation.                                           *)

\* How many backups of P are newer than i.
Rank(P, i) == Cardinality({j \in DOMAIN P : P[j] > P[i]})

\* What a command that runs may rely on, with D the dumps there are, P what
\* was published and n the instants told apart.
JobOK(job, D, P, n) ==
  /\ job.step # "restore" => job.source \in 1..Lineages /\ job.keep \in Keeps
  /\ job.step \in {"stamp", "publish"} => job.id \in D /\ job.id \notin DOMAIN P
  /\ job.step = "publish" => job.born \in 1..n
  /\ job.step \in {"rotate", "unlist"} => \A i \in job.doomed : i \in DOMAIN P /\ Rank(P, i) >= job.keep
  /\ job.step = "unlist" => job.doomed # {}

Waits(c) == command[c] # Resting /\ command[c].step \in {"stamp", "publish"}

\* Who has dumped and not yet published has a dump of its own.
Apart == \A c, d \in Commands : c # d /\ Waits(c) /\ Waits(d) => command[c].id # command[d].id

\* The newest of P are on file, as many as the least a command keeps.
OnFile(P, D, M) ==
  \A i \in DOMAIN P : (\A keep \in Keeps : Rank(P, i) < keep) => i \in D \cap M

BackupsInv ==
  /\ BackupsTypeOK
  /\ \A c \in Commands : command[c] # Resting => JobOK(command[c], DOMAIN dumps, published, instant)
  /\ Apart
  /\ OnFile(published, DOMAIN dumps, DOMAIN manifests)

\* More is published, and nothing that was is stamped anew.
Publishes(P, Q) == DOMAIN P \subseteq DOMAIN Q /\ \A i \in DOMAIN P : Q[i] = P[i]

\* The ids of the backups are few.
LEMMA FewBackups ==
  ASSUME BackupsTypeOK, NEW T \in SUBSET (DOMAIN published)
  PROVE  IsFiniteSet(T) /\ Cardinality(T) \in Nat /\ T \subseteq 1..MaxBackups
<1>1. DOMAIN published \subseteq 1..taken /\ taken \in 0..MaxBackups /\ MaxBackups \in Nat
  BY BackupsAssumption DEF BackupsTypeOK
<1>2. T \subseteq 1..MaxBackups /\ IsFiniteSet(1..MaxBackups)
  BY <1>1, FS_Interval
<1> QED
  BY <1>2, FS_Subset, FS_CardinalityType

\* What is newer stays newer as more is published.
LEMMA RankGrows ==
  ASSUME NEW P, NEW Q, Publishes(P, Q), DOMAIN Q \subseteq 1..MaxBackups, NEW i \in DOMAIN P
  PROVE  Rank(P, i) \in Nat /\ Rank(Q, i) \in Nat /\ Rank(P, i) <= Rank(Q, i)
<1> DEFINE A == {j \in DOMAIN P : P[j] > P[i]}
           B == {j \in DOMAIN Q : Q[j] > Q[i]}
<1>1. A \in SUBSET B /\ B \in SUBSET (1..MaxBackups)
  BY DEF Publishes
<1>2. IsFiniteSet(1..MaxBackups)
  BY BackupsAssumption, FS_Interval
<1> HIDE DEF A, B
<1>3. IsFiniteSet(B)
  BY <1>1, <1>2, FS_Subset
<1>4. IsFiniteSet(A) /\ Cardinality(A) <= Cardinality(B)
  BY <1>1, <1>3, FS_Subset
<1>5. Cardinality(A) \in Nat /\ Cardinality(B) \in Nat
  BY <1>3, <1>4, FS_CardinalityType
<1> QED
  BY <1>4, <1>5 DEF Rank, A, B

\* A command moves to a job of its own: what the others rely on stands.
LEMMA CommandMoves ==
  ASSUME BackupsInv, NEW c \in Commands, NEW job \in Job \cup {Resting}, Goes(c, job),
         Publishes(published, published'), DOMAIN published' \subseteq 1..MaxBackups,
         instant' \in Nat, instant <= instant',
         job # Resting => JobOK(job, DOMAIN dumps', published', instant'),
         \A d \in Commands \ {c} :
            Waits(d) => /\ command[d].id \in DOMAIN dumps' /\ command[d].id \notin DOMAIN published'
                        /\ job # Resting /\ job.step \in {"stamp", "publish"} => job.id # command[d].id
  PROVE  /\ command' \in [Commands -> Job \cup {Resting}] /\ Apart'
         /\ \A d \in Commands : command'[d] # Resting => JobOK(command'[d], DOMAIN dumps', published', instant')
<1>1. command \in [Commands -> Job \cup {Resting}] /\ instant \in Nat
  BY DEF BackupsInv, BackupsTypeOK
<1>2. /\ command' \in [Commands -> Job \cup {Resting}]
      /\ \A d \in Commands : command'[d] = IF d = c THEN job ELSE command[d]
  BY <1>1 DEF Goes
<1>3. ASSUME NEW d \in Commands \ {c}, command[d] # Resting
      PROVE  JobOK(command[d], DOMAIN dumps', published', instant')
  <2>1. JobOK(command[d], DOMAIN dumps, published, instant) /\ command[d] \in Job
    BY <1>1, <1>3 DEF BackupsInv
  <2>2. command[d].step = "publish" => command[d].born \in 1..instant'
    BY <1>1, <2>1 DEF JobOK
  <2>3. command[d].step \in {"stamp", "publish"} => command[d].id \in DOMAIN dumps' /\ command[d].id \notin DOMAIN published'
    BY <1>3 DEF Waits
  <2>4. ASSUME command[d].step \in {"rotate", "unlist"}, NEW i \in command[d].doomed
        PROVE  i \in DOMAIN published' /\ Rank(published', i) >= command[d].keep
    <3>1. i \in DOMAIN published /\ Rank(published, i) >= command[d].keep /\ command[d].keep \in Nat
      BY <2>1, <2>4, BackupsAssumption DEF JobOK
    <3>2. Rank(published, i) \in Nat /\ Rank(published', i) \in Nat /\ Rank(published, i) <= Rank(published', i)
      BY <3>1, RankGrows
    <3> QED
      BY <3>1, <3>2 DEF Publishes
  <2> QED
    BY <2>1, <2>2, <2>3, <2>4 DEF JobOK
<1>4. \A d \in Commands : command'[d] # Resting => JobOK(command'[d], DOMAIN dumps', published', instant')
  BY <1>2, <1>3
<1>5. \A d \in Commands : Waits(d)' <=> IF d = c THEN job # Resting /\ job.step \in {"stamp", "publish"} ELSE Waits(d)
  BY <1>2 DEF Waits
<1>6. Apart'
  <2>1. Apart
    BY DEF BackupsInv
  <2> QED
    BY <1>2, <1>5, <2>1 DEF Apart
<1> QED
  BY <1>2, <1>4, <1>6

\* Where a command and the files stand.
LEMMA CommandStands ==
  ASSUME BackupsInv, NEW c \in Commands, command[c] # Resting
  PROVE  /\ BackupsTypeOK /\ command[c] \in Job /\ JobOK(command[c], DOMAIN dumps, published, instant)
         /\ Publishes(published, published) /\ DOMAIN published \subseteq 1..MaxBackups /\ instant \in Nat
  BY FewBackups DEF BackupsInv, BackupsTypeOK, Publishes

\* Files that stand.
FilesStand == UNCHANGED filesVars /\ UNCHANGED <<taken, instant>>

\* A command that moves while the files stand keeps the backups.
LEMMA MoveKeeps ==
  ASSUME BackupsInv, NEW c \in Commands, NEW job \in Job \cup {Resting}, Goes(c, job), FilesStand,
         schema' \in 1..Lineages,
         job # Resting => JobOK(job, DOMAIN dumps, published, instant),
         job # Resting /\ job.step \in {"stamp", "publish"} =>
            Waits(c) /\ job.id = command[c].id
  PROVE  BackupsInv'
<1>1. /\ BackupsTypeOK /\ dumps' = dumps /\ manifests' = manifests /\ published' = published
      /\ taken' = taken /\ instant' = instant /\ instant \in Nat
  BY DEF BackupsInv, BackupsTypeOK, FilesStand, filesVars
<1>2. Publishes(published, published') /\ DOMAIN published' \subseteq 1..MaxBackups /\ instant <= instant'
  BY <1>1, FewBackups DEF Publishes
<1>3. \A d \in Commands \ {c} :
         Waits(d) => /\ command[d].id \in DOMAIN dumps' /\ command[d].id \notin DOMAIN published'
                     /\ job # Resting /\ job.step \in {"stamp", "publish"} => job.id # command[d].id
  BY <1>1 DEF BackupsInv, Apart, JobOK, Waits
<1>4. /\ command' \in [Commands -> Job \cup {Resting}] /\ Apart'
      /\ \A d \in Commands : command'[d] # Resting => JobOK(command'[d], DOMAIN dumps', published', instant')
  BY <1>1, <1>2, <1>3, CommandMoves
<1>5. BackupsTypeOK' /\ OnFile(published, DOMAIN dumps, DOMAIN manifests)'
  BY <1>1, <1>4 DEF BackupsInv, BackupsTypeOK, OnFile, Rank
<1> QED
  BY <1>4, <1>5 DEF BackupsInv

\* Commands that start and end, and the schema that moves on.
LEMMA StartsKeep ==
  ASSUME BackupsInv, NEW c \in Commands,
         BeginBackup(c) \/ EndBackup(c) \/ BeginRestore(c) \/ Restore(c) \/ Fail(c)
  PROVE  BackupsInv'
<1>1. BackupsTypeOK /\ FilesStand /\ 0 \in 0..Lineages /\ 0 \in 0..MaxBackups /\ schema \in 1..Lineages
  BY BackupsAssumption DEF BackupsInv, BackupsTypeOK, BeginBackup, EndBackup, BeginRestore, Restore, Fail, FilesStand, filesVars
<1>2. CASE BeginBackup(c)
  <2>1. PICK keep \in Keeps : Goes(c, Begun("dump", keep, schema, 0)) /\ schema' = schema
    BY <1>2 DEF BeginBackup
  <2> DEFINE job == Begun("dump", keep, schema, 0)
  <2>2. job \in Job /\ job.step = "dump" /\ job.source = schema /\ job.keep = keep
    BY <1>1, BackupsAssumption DEF Begun, Job
  <2> HIDE DEF job
  <2>3. JobOK(job, DOMAIN dumps, published, instant)
    BY <1>1, <2>2 DEF JobOK
  <2> QED
    BY <1>1, <2>1, <2>2, <2>3, MoveKeeps DEF job
<1>3. CASE BeginRestore(c)
  <2>1. PICK i \in DOMAIN manifests : Goes(c, Begun("restore", 0, 0, i)) /\ schema' = schema
    BY <1>3 DEF BeginRestore
  <2> DEFINE job == Begun("restore", 0, 0, i)
  <2>2. job \in Job /\ job.step = "restore"
    <3>1. i \in 0..MaxBackups
      BY <1>1, BackupsAssumption DEF BackupsTypeOK
    <3> QED
      BY <1>1, <3>1 DEF Begun, Job
  <2> HIDE DEF job
  <2>3. JobOK(job, DOMAIN dumps, published, instant)
    BY <2>2 DEF JobOK
  <2> QED
    BY <1>1, <2>1, <2>2, <2>3, MoveKeeps DEF job
<1>4. CASE EndBackup(c) \/ Restore(c) \/ Fail(c)
  <2>1. schema' \in 1..Lineages
    <3>1. CASE Restore(c) /\ command[c].id \in DOMAIN dumps
      <4>1. schema' = dumps[command[c].id]
        BY <3>1 DEF Restore
      <4> QED
        BY <1>1, <3>1, <4>1 DEF BackupsTypeOK, Range
    <3>2. CASE ~(Restore(c) /\ command[c].id \in DOMAIN dumps)
      BY <1>1, <1>4, <3>2 DEF Restore, EndBackup, Fail
    <3> QED
      BY <3>1, <3>2
  <2>2. Goes(c, Resting)
    BY <1>4 DEF EndBackup, Restore, Fail, Ends, Goes
  <2> QED
    BY <1>1, <2>1, <2>2, MoveKeeps
<1> QED
  BY <1>2, <1>3, <1>4

\* A dump is taken under an id no one had.
LEMMA DumpKeeps == ASSUME BackupsInv, NEW c \in Commands, Dump(c) PROVE BackupsInv'
<1> DEFINE new == taken + 1
           job == [command[c] EXCEPT !.step = "stamp", !.id = new]
<1>1. /\ Goes(c, job) /\ taken < MaxBackups /\ taken' = new /\ dumps' = WithFile(dumps, new, schema)
      /\ schema' = schema /\ manifests' = manifests /\ published' = published /\ instant' = instant
      /\ command[c] # Resting /\ command[c].step = "dump"
  BY DEF Dump, Doing
<1>2. /\ BackupsTypeOK /\ command[c] \in Job /\ JobOK(command[c], DOMAIN dumps, published, instant)
      /\ Publishes(published, published) /\ DOMAIN published \subseteq 1..MaxBackups /\ instant \in Nat
  BY <1>1, CommandStands
<1>3. /\ new \in 1..MaxBackups /\ new \in 0..MaxBackups /\ new \notin 1..taken /\ new \in 1..new /\ 1..taken \subseteq 1..new
  BY <1>1, <1>2, BackupsAssumption DEF BackupsTypeOK
<1> HIDE DEF new
<1>4. job \in Job /\ job.step = "stamp" /\ job.id = new /\ job.source = command[c].source /\ job.keep = command[c].keep
  BY <1>2, <1>3 DEF Job
<1> HIDE DEF job
<1>5. /\ DOMAIN dumps' = DOMAIN dumps \cup {new} /\ Range(dumps') \subseteq 1..Lineages
      /\ DOMAIN dumps \subseteq 1..taken /\ DOMAIN published \subseteq 1..taken
  BY <1>1, <1>2 DEF WithFile, BackupsTypeOK, Range
<1>6. JobOK(job, DOMAIN dumps', published', instant')
  BY <1>1, <1>2, <1>3, <1>4, <1>5 DEF JobOK
<1>7. \A d \in Commands \ {c} :
         Waits(d) => command[d].id \in DOMAIN dumps' /\ command[d].id \notin DOMAIN published' /\ new # command[d].id
  <2> SUFFICES ASSUME NEW d \in Commands \ {c}, Waits(d)
               PROVE  command[d].id \in DOMAIN dumps' /\ command[d].id \notin DOMAIN published' /\ new # command[d].id
    OBVIOUS
  <2>1. command[d].id \in DOMAIN dumps /\ command[d].id \notin DOMAIN published
    BY DEF BackupsInv, JobOK, Waits
  <2> QED
    BY <1>1, <1>3, <1>5, <2>1
<1>8. /\ command' \in [Commands -> Job \cup {Resting}] /\ Apart'
      /\ \A d \in Commands : command'[d] # Resting => JobOK(command'[d], DOMAIN dumps', published', instant')
  <2>1. instant <= instant' /\ instant' \in Nat /\ Publishes(published, published') /\ DOMAIN published' \subseteq 1..MaxBackups
    BY <1>1, <1>2
  <2> QED
    BY <1>1, <1>4, <1>6, <1>7, <2>1, CommandMoves
<1>9. OnFile(published, DOMAIN dumps, DOMAIN manifests)'
  BY <1>1, <1>5 DEF BackupsInv, OnFile
<1>10. BackupsTypeOK'
  BY <1>1, <1>2, <1>3, <1>5, <1>8 DEF BackupsTypeOK
<1> QED
  BY <1>8, <1>9, <1>10 DEF BackupsInv

\* A manifest is stamped with an instant of its own.
LEMMA StampKeeps == ASSUME BackupsInv, NEW c \in Commands, Stamp(c) PROVE BackupsInv'
<1> DEFINE now == instant + 1
           job == [command[c] EXCEPT !.step = "publish", !.born = now]
<1>1. /\ Goes(c, job) /\ instant' = now /\ taken' = taken /\ schema' = schema
      /\ dumps' = dumps /\ manifests' = manifests /\ published' = published
      /\ command[c] # Resting /\ command[c].step = "stamp"
  BY DEF Stamp, Doing, filesVars
<1>2. /\ BackupsTypeOK /\ command[c] \in Job /\ JobOK(command[c], DOMAIN dumps, published, instant)
      /\ Publishes(published, published) /\ DOMAIN published \subseteq 1..MaxBackups /\ instant \in Nat
  BY <1>1, CommandStands
<1>3. now \in Nat /\ now \in 1..now /\ instant <= now /\ 1..instant \subseteq 1..now
  BY <1>2
<1> HIDE DEF now
<1>4. /\ job \in Job /\ job.step = "publish" /\ job.id = command[c].id /\ job.source = command[c].source
      /\ job.keep = command[c].keep /\ job.born = now
  BY <1>2, <1>3 DEF Job
<1> HIDE DEF job
<1>5. JobOK(job, DOMAIN dumps', published', instant')
  BY <1>1, <1>2, <1>3, <1>4 DEF JobOK
<1>6. \A d \in Commands \ {c} :
         Waits(d) => command[d].id \in DOMAIN dumps' /\ command[d].id \notin DOMAIN published' /\ job.id # command[d].id
  BY <1>1, <1>4 DEF BackupsInv, Apart, JobOK, Waits
<1>7. /\ command' \in [Commands -> Job \cup {Resting}] /\ Apart'
      /\ \A d \in Commands : command'[d] # Resting => JobOK(command'[d], DOMAIN dumps', published', instant')
  BY <1>1, <1>2, <1>3, <1>4, <1>5, <1>6, CommandMoves
<1>8. BackupsTypeOK' /\ OnFile(published, DOMAIN dumps, DOMAIN manifests)'
  BY <1>1, <1>2, <1>3, <1>7 DEF BackupsInv, BackupsTypeOK, OnFile
<1> QED
  BY <1>7, <1>8 DEF BackupsInv

\* A backup that is published has its dump, and makes none of the older newer.
LEMMA PublishKeeps == ASSUME BackupsInv, NEW c \in Commands, Publish(c) PROVE BackupsInv'
<1> DEFINE id == command[c].id
           job == [command[c] EXCEPT !.step = "list"]
           entry == [names |-> command[c].source, born |-> command[c].born]
<1>1. /\ Goes(c, job) /\ manifests' = WithFile(manifests, id, entry) /\ published' = WithFile(published, id, command[c].born)
      /\ schema' = schema /\ dumps' = dumps /\ taken' = taken /\ instant' = instant
      /\ command[c] # Resting /\ command[c].step = "publish"
  BY DEF Publish, Doing
<1>2. /\ BackupsTypeOK /\ command[c] \in Job /\ JobOK(command[c], DOMAIN dumps, published, instant)
      /\ DOMAIN published \subseteq 1..MaxBackups /\ instant \in Nat
  BY <1>1, CommandStands
<1>3. /\ id \in DOMAIN dumps /\ id \notin DOMAIN published /\ command[c].source \in 1..Lineages
      /\ command[c].born \in 1..instant /\ DOMAIN dumps \subseteq 1..taken /\ 1..taken \subseteq 1..MaxBackups
      /\ id \notin DOMAIN manifests
  BY <1>1, <1>2, BackupsAssumption DEF JobOK, BackupsTypeOK
<1>4. job \in Job /\ job.step = "list" /\ job.source = command[c].source /\ job.keep = command[c].keep
  BY <1>2 DEF Job
<1>5. /\ DOMAIN published' = DOMAIN published \cup {id} /\ Publishes(published, published')
      /\ published'[id] = command[c].born
      /\ DOMAIN published' \subseteq 1..MaxBackups /\ DOMAIN published' \subseteq 1..taken
  BY <1>1, <1>2, <1>3 DEF WithFile, Publishes, BackupsTypeOK
<1>6. /\ DOMAIN manifests' = DOMAIN manifests \cup {id} /\ manifests'[id] = entry
      /\ \A i \in DOMAIN manifests : manifests'[i] = manifests[i]
  BY <1>1, <1>3 DEF WithFile
<1>7. \A d \in Commands \ {c} : Waits(d) => command[d].id \in DOMAIN dumps' /\ command[d].id \notin DOMAIN published'
  BY <1>1, <1>5 DEF BackupsInv, Apart, JobOK, Waits
<1>8. entry.names = command[c].source /\ entry.born = command[c].born
  OBVIOUS
<1> HIDE DEF id, job, entry
<1>9. JobOK(job, DOMAIN dumps', published', instant')
  BY <1>1, <1>2, <1>4 DEF JobOK
<1>10. /\ command' \in [Commands -> Job \cup {Resting}] /\ Apart'
       /\ \A d \in Commands : command'[d] # Resting => JobOK(command'[d], DOMAIN dumps', published', instant')
  <2>1. instant' \in Nat /\ instant <= instant' /\ ~(job.step \in {"stamp", "publish"})
    BY <1>1, <1>2, <1>4
  <2> QED
    BY <1>1, <1>4, <1>5, <1>7, <1>9, <2>1, CommandMoves
<1>11. OnFile(published, DOMAIN dumps, DOMAIN manifests)'
  <2>1. ASSUME NEW i \in DOMAIN published', \A keep \in Keeps : Rank(published', i) < keep
        PROVE  i \in DOMAIN dumps' \cap DOMAIN manifests'
    <3>1. CASE i = id
      BY <1>1, <1>3, <1>6, <3>1
    <3>2. CASE i \in DOMAIN published
      <4>1. Rank(published, i) \in Nat /\ Rank(published', i) \in Nat /\ Rank(published, i) <= Rank(published', i)
        BY <1>5, <3>2, RankGrows
      <4>2. \A keep \in Keeps : Rank(published, i) < keep
        BY <2>1, <4>1, BackupsAssumption
      <4> QED
        BY <1>1, <1>6, <3>2, <4>2 DEF BackupsInv, OnFile
    <3> QED
      BY <1>5, <3>1, <3>2
  <2> QED
    BY <2>1 DEF OnFile
<1>12. BackupsTypeOK'
  <2>1. \A i \in DOMAIN manifests' : manifests'[i].names \in 1..Lineages /\ manifests'[i].born = published'[i]
    BY <1>2, <1>3, <1>5, <1>6, <1>8 DEF BackupsTypeOK, Publishes
  <2>2. Range(published') \subseteq 1..instant
    BY <1>2, <1>3, <1>5 DEF BackupsTypeOK, Publishes, Range
  <2> QED
    BY <1>1, <1>2, <1>5, <1>6, <1>10, <2>1, <2>2 DEF BackupsTypeOK
<1> QED
  BY <1>10, <1>11, <1>12 DEF BackupsInv

\* What a listing dooms has the backups to keep ahead of it.
LEMMA ListKeeps == ASSUME BackupsInv, NEW c \in Commands, ListManifests(c) PROVE BackupsInv'
<1> DEFINE doom == Doomed(c)
           job == [command[c] EXCEPT !.step = "rotate", !.doomed = doom]
<1>1. Goes(c, job) /\ FilesStand /\ schema' = schema /\ command[c] # Resting /\ command[c].step = "list"
  BY DEF ListManifests, Doing, FilesStand
<1>2. /\ BackupsTypeOK /\ command[c] \in Job /\ JobOK(command[c], DOMAIN dumps, published, instant)
      /\ DOMAIN manifests \subseteq DOMAIN published /\ schema \in 1..Lineages
  BY <1>1, CommandStands DEF BackupsTypeOK
<1>3. ASSUME NEW i \in doom
      PROVE  i \in DOMAIN published /\ Rank(published, i) >= command[c].keep
  <2> DEFINE A == {j \in DOMAIN manifests : Newer(j, i)}
             B == {j \in DOMAIN published : published[j] > published[i]}
  <2>1. i \in DOMAIN published /\ Cardinality(A) >= command[c].keep
    BY <1>2, <1>3 DEF Doomed, Ahead
  <2>2. A \in SUBSET B /\ B \in SUBSET (DOMAIN published)
    BY <1>2 DEF Newer
  <2> HIDE DEF A, B
  <2>3. IsFiniteSet(B) /\ Cardinality(B) \in Nat
    BY <1>2, <2>2, FewBackups
  <2>4. Cardinality(A) <= Cardinality(B) /\ IsFiniteSet(A)
    BY <2>2, <2>3, FS_Subset
  <2>5. Cardinality(A) \in Nat /\ command[c].keep \in Nat
    BY <1>1, <1>2, <2>4, FS_CardinalityType, BackupsAssumption DEF JobOK
  <2>6. Cardinality(B) >= command[c].keep
    BY <2>1, <2>3, <2>4, <2>5
  <2> QED
    BY <2>1, <2>6 DEF Rank, B
<1>4. doom \in SUBSET (1..MaxBackups)
  BY <1>1, <1>3, CommandStands
<1> HIDE DEF doom
<1>5. job \in Job /\ job.step = "rotate" /\ job.source = command[c].source /\ job.keep = command[c].keep /\ job.doomed = doom
  BY <1>2, <1>4 DEF Job
<1> HIDE DEF job
<1>6. JobOK(job, DOMAIN dumps, published, instant)
  BY <1>1, <1>2, <1>3, <1>5 DEF JobOK
<1> QED
  BY <1>1, <1>2, <1>5, <1>6, MoveKeeps

\* What a rotation removes next is one of those it doomed.
LEMMA NextIsDoomed ==
  ASSUME BackupsInv, NEW c \in Commands, command[c] # Resting, command[c].step \in {"rotate", "unlist"},
         command[c].doomed # {}
  PROVE  /\ NextDoomed(c) \in command[c].doomed /\ NextDoomed(c) \in DOMAIN published
         /\ \E keep \in Keeps : ~(Rank(published, NextDoomed(c)) < keep)
<1> DEFINE D == command[c].doomed
           T == {published[i] : i \in D}
<1>1. /\ D \subseteq DOMAIN published /\ \A i \in D : Rank(published, i) >= command[c].keep
      /\ command[c].keep \in Keeps /\ BackupsTypeOK /\ D # {} /\ instant \in Nat
  BY CommandStands DEF JobOK
<1>2. T \in SUBSET (0..instant) /\ T # {}
  BY <1>1 DEF BackupsTypeOK, Range
<1>3. \E g \in T : \A k \in T : k <= g
  <2> HIDE DEF T
  <2> QED
    BY <1>1, <1>2, GreatestNumber
<1>4. PICK g \in D : \A j \in D : published[j] <= published[g]
  BY <1>3
<1>5. \A j \in D : published[j] \in Nat
  BY <1>2
<1>6. \A j \in D : ~Newer(j, g)
  BY <1>4, <1>5 DEF Newer
<1>7. NextDoomed(c) \in D
  BY <1>6 DEF NextDoomed
<1> HIDE DEF D
<1>8. Rank(published, NextDoomed(c)) >= command[c].keep /\ Rank(published, NextDoomed(c)) \in Nat
  BY <1>1, <1>7, CommandStands, RankGrows
<1>9. command[c].keep \in Keeps /\ command[c].keep \in Nat
  BY <1>1, BackupsAssumption
<1>10. ~(Rank(published, NextDoomed(c)) < command[c].keep)
  BY <1>8, <1>9
<1>11. \E keep \in Keeps : ~(Rank(published, NextDoomed(c)) < keep)
  BY <1>9, <1>10
<1>12. NextDoomed(c) \in DOMAIN published
  BY <1>1, <1>7
<1> QED
  BY <1>7, <1>11, <1>12 DEF D

\* A rotation removes the dump of what it doomed: no one waits with it.
LEMMA RemoveDumpKeeps == ASSUME BackupsInv, NEW c \in Commands, RemoveDump(c) PROVE BackupsInv'
<1> DEFINE job == [command[c] EXCEPT !.step = "unlist"]
           i == NextDoomed(c)
<1>1. /\ Goes(c, job) /\ dumps' = WithoutFile(dumps, i) /\ command[c].doomed # {}
      /\ schema' = schema /\ manifests' = manifests /\ published' = published /\ taken' = taken /\ instant' = instant
      /\ command[c] # Resting /\ command[c].step = "rotate"
  BY DEF RemoveDump, Doing
<1>2. /\ BackupsTypeOK /\ command[c] \in Job /\ JobOK(command[c], DOMAIN dumps, published, instant)
      /\ Publishes(published, published) /\ DOMAIN published \subseteq 1..MaxBackups /\ instant \in Nat
  BY <1>1, CommandStands
<1>3. i \in command[c].doomed /\ i \in DOMAIN published /\ \E keep \in Keeps : ~(Rank(published, i) < keep)
  BY <1>1, NextIsDoomed
<1> HIDE DEF i
<1>4. DOMAIN dumps' = DOMAIN dumps \ {i} /\ Range(dumps') \subseteq 1..Lineages
  BY <1>1, <1>2 DEF WithoutFile, Restrict, BackupsTypeOK, Range
<1>5. job \in Job /\ job.step = "unlist" /\ job.source = command[c].source /\ job.keep = command[c].keep /\ job.doomed = command[c].doomed
  BY <1>2 DEF Job
<1> HIDE DEF job
<1>6. JobOK(job, DOMAIN dumps', published', instant')
  BY <1>1, <1>2, <1>5 DEF JobOK
<1>7. \A d \in Commands \ {c} : Waits(d) => command[d].id \in DOMAIN dumps' /\ command[d].id \notin DOMAIN published'
  BY <1>1, <1>3, <1>4 DEF BackupsInv, JobOK, Waits
<1>8. /\ command' \in [Commands -> Job \cup {Resting}] /\ Apart'
      /\ \A d \in Commands : command'[d] # Resting => JobOK(command'[d], DOMAIN dumps', published', instant')
  <2>1. instant' \in Nat /\ instant <= instant' /\ ~(job.step \in {"stamp", "publish"})
    BY <1>1, <1>2, <1>5
  <2> QED
    BY <1>1, <1>2, <1>5, <1>6, <1>7, <2>1, CommandMoves
<1>9. OnFile(published, DOMAIN dumps, DOMAIN manifests)'
  BY <1>1, <1>3, <1>4 DEF BackupsInv, OnFile
<1>10. BackupsTypeOK'
  BY <1>1, <1>2, <1>4, <1>8 DEF BackupsTypeOK
<1> QED
  BY <1>8, <1>9, <1>10 DEF BackupsInv

\* And then its manifest, unless another rotation did.
LEMMA RemoveManifestKeeps == ASSUME BackupsInv, NEW c \in Commands, RemoveManifest(c) PROVE BackupsInv'
<1> DEFINE i == NextDoomed(c)
           rest == command[c].doomed \ {i}
           job == [command[c] EXCEPT !.step = "rotate", !.doomed = rest]
<1>1. /\ schema' = schema /\ dumps' = dumps /\ published' = published /\ taken' = taken /\ instant' = instant
      /\ command[c] # Resting /\ command[c].step = "unlist"
      /\ (Goes(c, job) /\ manifests' = WithoutFile(manifests, i)) \/ (Goes(c, Resting) /\ manifests' = manifests)
  BY DEF RemoveManifest, Doing, Goes, Ends
<1>2. /\ BackupsTypeOK /\ command[c] \in Job /\ JobOK(command[c], DOMAIN dumps, published, instant)
      /\ Publishes(published, published) /\ DOMAIN published \subseteq 1..MaxBackups /\ instant \in Nat
  BY <1>1, CommandStands
<1>3. i \in command[c].doomed /\ i \in DOMAIN published /\ \E keep \in Keeps : ~(Rank(published, i) < keep)
  BY <1>1, <1>2, NextIsDoomed DEF JobOK
<1>4. rest \in SUBSET (1..MaxBackups) /\ rest \subseteq command[c].doomed
  BY <1>2 DEF Job
<1> HIDE DEF i, rest
<1>5. job \in Job /\ job.step = "rotate" /\ job.source = command[c].source /\ job.keep = command[c].keep /\ job.doomed = rest
  BY <1>2, <1>4 DEF Job
<1> HIDE DEF job
<1>6. JobOK(job, DOMAIN dumps, published, instant)
  BY <1>1, <1>2, <1>4, <1>5 DEF JobOK
<1>7. CASE Goes(c, Resting) /\ manifests' = manifests
  <2>1. FilesStand /\ schema' \in 1..Lineages
    BY <1>1, <1>2, <1>7 DEF FilesStand, filesVars, BackupsTypeOK
  <2> QED
    BY <1>7, <2>1, MoveKeeps
<1>8. CASE Goes(c, job) /\ manifests' = WithoutFile(manifests, i)
  <2>1. DOMAIN manifests' = DOMAIN manifests \ {i} /\ \A j \in DOMAIN manifests' : manifests'[j] = manifests[j]
    BY <1>8 DEF WithoutFile, Restrict
  <2>2. \A d \in Commands \ {c} : Waits(d) => command[d].id \in DOMAIN dumps' /\ command[d].id \notin DOMAIN published'
    BY <1>1 DEF BackupsInv, JobOK, Waits
  <2>3. /\ command' \in [Commands -> Job \cup {Resting}] /\ Apart'
        /\ \A d \in Commands : command'[d] # Resting => JobOK(command'[d], DOMAIN dumps', published', instant')
    <3>1. instant' \in Nat /\ instant <= instant' /\ ~(job.step \in {"stamp", "publish"})
      BY <1>1, <1>2, <1>5
    <3>2. JobOK(job, DOMAIN dumps', published', instant')
      BY <1>1, <1>6
    <3> QED
      BY <1>1, <1>2, <1>5, <1>8, <2>2, <3>1, <3>2, CommandMoves
  <2>4. OnFile(published, DOMAIN dumps, DOMAIN manifests)'
    BY <1>1, <1>3, <2>1 DEF BackupsInv, OnFile
  <2>5. BackupsTypeOK'
    BY <1>1, <1>2, <2>1, <2>3 DEF BackupsTypeOK
  <2> QED
    BY <2>3, <2>4, <2>5 DEF BackupsInv
<1> QED
  BY <1>1, <1>7, <1>8

\* No backup at first.
LEMMA BackupsStart == BackupsInit => BackupsInv
<1> SUFFICES ASSUME BackupsInit PROVE BackupsInv
  OBVIOUS
<1>1. /\ DOMAIN dumps = {} /\ DOMAIN manifests = {} /\ DOMAIN published = {} /\ taken = 0 /\ instant = 0
      /\ \A c \in Commands : command[c] = Resting
      /\ command \in [Commands -> Job \cup {Resting}] /\ schema \in 1..Lineages
  BY DEF BackupsInit
<1>2. BackupsTypeOK
  BY <1>1, BackupsAssumption DEF BackupsTypeOK, Range
<1> QED
  BY <1>1, <1>2 DEF BackupsInv, Apart, Waits, OnFile

\* In every behaviour of the backups what a command relies on stands, and the
\* newest are on file.
LEMMA BackupsHold == BackupsSpec => []BackupsInv
<1>1. BackupsInit => BackupsInv
  BY BackupsStart
<1>2. BackupsInv /\ [BackupsNext]_backupsVars => BackupsInv'
  <2> SUFFICES ASSUME BackupsInv, [BackupsNext]_backupsVars PROVE BackupsInv'
    OBVIOUS
  <2>1. CASE UNCHANGED <<filesVars, command, taken, instant>> /\ schema' \in 1..Lineages
    <3>1. /\ dumps' = dumps /\ manifests' = manifests /\ published' = published /\ command' = command
          /\ taken' = taken /\ instant' = instant
      BY <2>1 DEF filesVars
    <3>2. BackupsTypeOK' /\ Apart' /\ OnFile(published, DOMAIN dumps, DOMAIN manifests)'
      BY <2>1, <3>1 DEF BackupsInv, BackupsTypeOK, Apart, Waits, OnFile
    <3> QED
      BY <3>1, <3>2 DEF BackupsInv
  <2>2. CASE \E binary \in 1..Lineages : Migrate(binary)
    BY <2>1, <2>2 DEF Migrate
  <2>3. CASE UNCHANGED backupsVars
    <3>1. schema' \in 1..Lineages /\ UNCHANGED <<filesVars, command, taken, instant>>
      BY <2>3 DEF backupsVars, BackupsInv, BackupsTypeOK
    <3> QED
      BY <2>1, <3>1
  <2>4. ASSUME NEW c \in Commands,
               BeginBackup(c) \/ EndBackup(c) \/ BeginRestore(c) \/ Restore(c) \/ Fail(c)
        PROVE  BackupsInv'
    BY <2>4, StartsKeep
  <2>5. ASSUME NEW c \in Commands,
               Dump(c) \/ Stamp(c) \/ Publish(c) \/ ListManifests(c) \/ RemoveDump(c) \/ RemoveManifest(c)
        PROVE  BackupsInv'
    BY <2>5, DumpKeeps, StampKeeps, PublishKeeps, ListKeeps, RemoveDumpKeeps, RemoveManifestKeeps
  <2> QED
    BY <2>2, <2>3, <2>4, <2>5 DEF BackupsNext
<1> QED
  BY <1>1, <1>2, PTL DEF BackupsSpec

\* The schema, the files, and the commands under way keep their types.
THEOREM BackupsTypes == BackupsSpec => []BackupsTypeOK
<1>1. BackupsInv => BackupsTypeOK
  BY DEF BackupsInv
<1> QED
  BY <1>1, BackupsHold, PTL

\* Rotations that overlap, fail or are killed half way leave the newest backups,
\* as many as the least number a command keeps (backup_with_migrations, rotate).
THEOREM TheNewestStay == BackupsSpec => []KeepsNewest
<1>1. BackupsInv => KeepsNewest
  BY DEF BackupsInv, OnFile, KeepsNewest, Ahead, Newer, Rank
<1> QED
  BY <1>1, BackupsHold, PTL
=============================================================================
