------------------------------ MODULE GigaQueue ------------------------------
(***************************************************************************)
(* The GIGA memory queue of one room (akasha/src/giga, giga_worker): events *)
(* are ingested, leased by the workers of several processes, classified     *)
(* outside any transaction and finished; a lease that lapses is taken over, *)
(* a failed event can be replayed, and maintenance purges what is stuck.    *)
(*                                                                          *)
(* A worker is a process: its id is minted at start (worker.rs:14) and dies *)
(* with it.  `lapsed` and `due` stand for the database clock passing the    *)
(* lease and the retry delay.                                               *)
(***************************************************************************)
EXTENDS Naturals, FiniteSets

CONSTANTS GigaEvents,       \* event ids
          Kinds,            \* what a classification may find; names its candidate
          GigaWorkers,      \* worker processes
          NoWorker,
          MaxAttempts,      \* GIGA_MAX_EVENT_ATTEMPTS
          MaxReplays        \* bound: replays of one event

ASSUME GigaAssumption == /\ NoWorker \notin GigaWorkers
                         /\ GigaEvents # {} /\ IsFiniteSet(Kinds)
                         /\ MaxAttempts \in Nat \ {0}
                         /\ MaxReplays \in Nat

VARIABLES queue,      \* giga_events, by id
          tries,      \* giga_event_attempts
          candidates, \* giga_candidates: the kinds stored for each event
          worker      \* each worker's place in giga_worker_loop

gigaVars == <<queue, tries, candidates, worker>>

QueueStates == {"absent", "pending", "running", "succeeded", "failed"}
Outcomes == {"succeeded", "retry", "failed"}

NoEvent == [state |-> "absent", replay |-> 0, attempt |-> 0, by |-> NoWorker,
            lapsed |-> FALSE, due |-> TRUE, count |-> 0]
Idle == [at |-> "idle", event |-> CHOOSE e \in GigaEvents : TRUE, attempt |-> 0, found |-> 0]

GigaInit ==
    /\ queue = [e \in GigaEvents |-> NoEvent]
    /\ tries = {}
    /\ candidates = [e \in GigaEvents |-> {}]
    /\ worker = [w \in GigaWorkers |-> Idle]

Stored(e, cs) == Cardinality(cs[e])
Leased(e) == queue[e].state = "running" /\ ~queue[e].lapsed
OpenTry(t, e) == t.event = e /\ t.replay = queue[e].replay
                   /\ t.attempt = queue[e].attempt /\ t.outcome = "open"
Close(e, outcome) == {IF OpenTry(t, e) THEN [t EXCEPT !.outcome = outcome] ELSE t : t \in tries}

----------------------------------------------------------------------------
(* The doors.                                                              *)

\* giga_event_ingest of an event not on file; a second ingest is a duplicate.
Ingest(e) ==
    /\ queue[e].state = "absent"
    /\ queue' = [queue EXCEPT ![e] = [NoEvent EXCEPT !.state = "pending"]]
    /\ UNCHANGED <<tries, candidates, worker>>

OutOfTries(e) == /\ queue[e].state = "running" /\ queue[e].lapsed
                /\ queue[e].attempt >= MaxAttempts
Eligible_PendingOnly(e) ==
    queue[e].attempt < MaxAttempts /\ queue[e].state = "pending" /\ queue[e].due
Eligible(e) ==
    /\ queue[e].attempt < MaxAttempts
    /\ \/ queue[e].state = "pending" /\ queue[e].due
       \/ queue[e].state = "running" /\ queue[e].lapsed

\* giga_event_claim: exhausted leases fail, then one eligible event is leased.
\* Rows another transaction holds are skipped, so any eligible one may be first.
Expired == [e \in GigaEvents |->
              IF OutOfTries(e) THEN [queue[e] EXCEPT !.state = "failed", !.by = NoWorker,
                                                    !.lapsed = FALSE]
              ELSE queue[e]]

Given(e, w) ==
    [Expired[e] EXCEPT !.state = "running", !.attempt = @ + 1, !.by = w,
                       !.lapsed = FALSE, !.due = TRUE, !.count = 0]

Lost(e, t) == OpenTry(t, t.event) /\ (OutOfTries(t.event) \/ t.event = e)

Lease(e, w) ==
    /\ queue' = [Expired EXCEPT ![e] = Given(e, w)]
    /\ tries' = {IF Lost(e, t) THEN [t EXCEPT !.outcome = "lease_expired"] ELSE t : t \in tries}
                  \cup {[event |-> e, replay |-> queue[e].replay,
                         attempt |-> queue[e].attempt + 1, worker |-> w, outcome |-> "open"]}

GigaClaim(w) ==
    /\ worker[w].at = "idle"
    /\ \E e \in GigaEvents :
          /\ Eligible(e)
          /\ Lease(e, w)
          /\ worker' = [worker EXCEPT ![w] = [at |-> "claimed", event |-> e,
                                              attempt |-> queue[e].attempt + 1, found |-> 0]]
    /\ UNCHANGED candidates

\* A claim that leases nothing still fails the exhausted leases.
GigaSweep(w) ==
    /\ worker[w].at = "idle"
    /\ \E e \in GigaEvents : OutOfTries(e)
    /\ queue' = Expired
    /\ tries' = {IF OpenTry(t, t.event) /\ OutOfTries(t.event)
                 THEN [t EXCEPT !.outcome = "lease_expired"] ELSE t : t \in tries}
    /\ UNCHANGED <<candidates, worker>>

\* giga_process up to the classification: the claim must be the active lease.
GigaValidate(w) ==
    LET e == worker[w].event
        found == Stored(e, candidates) IN
    /\ worker[w].at = "claimed"
    /\ \/ /\ Leased(e) /\ queue[e].by = w /\ queue[e].attempt = worker[w].attempt
          /\ found < 2
          /\ worker' = [worker EXCEPT ![w].at = "working", ![w].found = found]
       \/ worker' = [worker EXCEPT ![w] = Idle]
    /\ UNCHANGED <<queue, tries, candidates>>

\* giga_event_finish: by the worker of the lease, before it lapses, with the
\* count of the candidates stored by then.
MayFinish_AnyOwner(e, w, outcome, count, cs) ==
    /\ Leased(e)
    /\ outcome = "retry" => queue[e].attempt < MaxAttempts
    /\ count = Stored(e, cs)
MayFinish(e, w, outcome, count, cs) ==
    /\ Leased(e)
    /\ queue[e].by = w
    /\ outcome = "retry" => queue[e].attempt < MaxAttempts
    /\ count = Stored(e, cs)

Finish(e, w, outcome, count, cs) ==
    /\ MayFinish(e, w, outcome, count, cs)
    /\ queue' = [queue EXCEPT ![e].state = IF outcome = "retry" THEN "pending" ELSE outcome,
                              ![e].by = NoWorker,
                              ![e].due = outcome # "retry",
                              ![e].count = count]
    /\ tries' = Close(e, outcome)
    /\ candidates' = cs

\* What the classification came to: nothing, a candidate stored in the same
\* transaction, or a failure.  A refused finish leaves everything as it was.
Answer(w, outcome, count, cs) ==
    /\ \/ Finish(worker[w].event, w, outcome, count, cs)
       \/ /\ ~MayFinish(worker[w].event, w, outcome, count, cs)
          /\ UNCHANGED <<queue, tries, candidates>>
    /\ worker' = [worker EXCEPT ![w] = Idle]

GigaFinish(w) ==
    LET e == worker[w].event IN
    /\ worker[w].at = "working"
    /\ \/ Answer(w, "succeeded", worker[w].found, candidates)
       \/ /\ worker[w].found = 0
          /\ \E k \in Kinds :
                Answer(w, "succeeded", 1, [candidates EXCEPT ![e] = @ \cup {k}])
       \/ worker[w].attempt < MaxAttempts /\ Answer(w, "retry", 0, candidates)
       \/ Answer(w, "failed", 0, candidates)

\* The process shuts down or dies; a later one has another id.
GigaDie(w) ==
    /\ worker[w].at # "dead"
    /\ \E v \in GigaWorkers \ {w} : worker[v].at # "dead"
    /\ worker' = [worker EXCEPT ![w] = [Idle EXCEPT !.at = "dead"]]
    /\ UNCHANGED <<queue, tries, candidates>>

\* giga_event_replay of failed work, within MaxReplays.
GigaReplay(e) ==
    /\ queue[e].state = "failed"
    /\ queue[e].replay < MaxReplays
    /\ queue' = [queue EXCEPT ![e] = [NoEvent EXCEPT !.state = "pending",
                                                     !.replay = queue[e].replay + 1]]
    /\ UNCHANGED <<tries, candidates, worker>>

\* PurgeStuck deletes what is not done, holds no live lease and has left no
\* candidate; the attempts go with their event.
Stuck(e) ==
    /\ \/ queue[e].state \in {"pending", "failed"}
       \/ queue[e].state = "running" /\ queue[e].lapsed
    /\ Stored(e, candidates) = 0

GigaPurge ==
    LET gone == {e \in GigaEvents : Stuck(e)} IN
    /\ gone # {}
    /\ queue' = [e \in GigaEvents |-> IF e \in gone THEN NoEvent ELSE queue[e]]
    /\ tries' = {t \in tries : t.event \notin gone}
    /\ UNCHANGED <<candidates, worker>>

\* giga_candidate_store from outside the worker: the parent must be on file.
GigaStore(e, k) ==
    /\ queue[e].state # "absent"
    /\ candidates' = [candidates EXCEPT ![e] = @ \cup {k}]
    /\ UNCHANGED <<queue, tries, worker>>

----------------------------------------------------------------------------
\* The lease and the retry delay run out.
LeaseRunsOut(e) ==
    /\ Leased(e)
    /\ queue' = [queue EXCEPT ![e].lapsed = TRUE]
    /\ UNCHANGED <<tries, candidates, worker>>

RetryDue(e) ==
    /\ queue[e].state = "pending" /\ ~queue[e].due
    /\ queue' = [queue EXCEPT ![e].due = TRUE]
    /\ UNCHANGED <<tries, candidates, worker>>

WorkerStep(w) == GigaClaim(w) \/ GigaSweep(w) \/ GigaValidate(w) \/ GigaFinish(w)

GigaNext ==
    \/ \E w \in GigaWorkers : WorkerStep(w) \/ GigaDie(w)
    \/ \E e \in GigaEvents : \/ Ingest(e) \/ GigaReplay(e)
                             \/ LeaseRunsOut(e) \/ RetryDue(e)
                             \/ \E k \in Kinds : GigaStore(e, k)
    \/ GigaPurge

GigaFairness == /\ \A w \in GigaWorkers : WF_gigaVars(WorkerStep(w))
                /\ \A e \in GigaEvents : WF_gigaVars(LeaseRunsOut(e)) /\ WF_gigaVars(RetryDue(e))
GigaSpec == GigaInit /\ [][GigaNext]_gigaVars /\ GigaFairness

----------------------------------------------------------------------------
GigaTypeOK ==
    /\ queue \in [GigaEvents -> [state : QueueStates, replay : 0..MaxReplays,
                                 attempt : 0..MaxAttempts, by : GigaWorkers \cup {NoWorker},
                                 lapsed : BOOLEAN, due : BOOLEAN, count : {0, 1}]]
    /\ tries \subseteq [event : GigaEvents, replay : 0..MaxReplays, attempt : 1..MaxAttempts,
                        worker : GigaWorkers, outcome : Outcomes \cup {"open", "lease_expired"}]
    /\ candidates \in [GigaEvents -> SUBSET Kinds]
    /\ worker \in [GigaWorkers -> [at : {"idle", "claimed", "working", "dead"},
                                   event : GigaEvents, attempt : 0..MaxAttempts,
                                   found : {0, 1}]]

\* The attempt history tells the truth about the queue: an attempt is open
\* exactly when its event runs, it is the event's latest, and it names the
\* worker that holds the lease.
OneOpenAttempt ==
    \A e \in GigaEvents :
       {t \in tries : t.event = e /\ t.outcome = "open"} =
          IF queue[e].state # "running" THEN {}
          ELSE {[event |-> e, replay |-> queue[e].replay, attempt |-> queue[e].attempt,
                 worker |-> queue[e].by, outcome |-> "open"]}

\* An answer closes only the attempt it was claimed for: a worker that lost
\* its lease cannot finish the work of the one that took it over, although a
\* finish names the worker and not the attempt.
FinishesItsOwn ==
    [][\A t \in tries :
          t.outcome = "open" /\ [t EXCEPT !.outcome = "open"] \notin tries'
             /\ (\E u \in tries' : u.outcome \in Outcomes /\ [u EXCEPT !.outcome = "open"] = t)
          => \E w \in GigaWorkers : /\ worker[w].at = "working" /\ worker'[w].at = "idle"
                                    /\ t.worker = w /\ t.event = worker[w].event
                                    /\ t.attempt = worker[w].attempt]_gigaVars

\* The provenance of a candidate is never purged, however often its event is
\* replayed, lapses or fails.
CandidateKeepsEvent ==
    \A e \in GigaEvents : Stored(e, candidates) > 0 => queue[e].state # "absent"

\* While one worker lives, every event is settled or purged.
GigaSettles ==
    \A e \in GigaEvents :
       queue[e].state \in {"pending", "running"}
          ~> queue[e].state \in {"absent", "succeeded", "failed"}
=============================================================================
