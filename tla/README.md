# The Athanor: a formal model

TLA+ modules about The Athanor, checked by TLC on small instances and, where a
theorem is stated, proved with TLAPS for every value of the constants.

Paths of source files are relative to the repository root. `PROJECT.json` is the
machine-readable index: components, runs, mutants, the map from definitions to
source lines, hazards, findings and theorems.

To run it, in this directory:

    tlc -workers 2 -config CraneWorlds.cfg MCCraneWorlds       # one run
    tlapm CraneDeliveryProofs.tla                              # one set of proofs

- [1. What the system is](#1-what-the-system-is)
- [2. Components](#2-components)
- [3. The modules](#3-the-modules)
- [4. The runs](#4-the-runs)
- [5. The proofs](#5-the-proofs)
- [6. Where code and documents disagree](#6-where-code-and-documents-disagree)
- [7. What is not modelled](#7-what-is-not-modelled)
- [8. Plan](#8-plan)

## 1. What the system is

The Athanor is a house for long-lived AI companions ("spirits", each in a
"room"). Its durable state is PostgreSQL (the *substrate*, with the AKASHA
schema); files hold the Vault. A Rust process, the *House*, serves a JSON
protocol on a loopback WebSocket (`crates/host`), runs the domain operations
(`crates/akasha`, `crates/origami`) and, as background tasks, the Crane delivery,
the GIGA worker and the Insula writer. Agents run in a separate process, OMP; a
TypeScript adapter (`adapters/omp`) connects each OMP session to its House and
reacts to the agent's events. NATS JetStream carries deliveries and decides
nothing. A supervisor (`crates/athanor-install`) starts and stops the processes;
a keeper (`crates/omp-keeper`) restarts an OMP session on request.

So the difficult behaviour lies in three places: rows with a lease that several
processes compete for; the gap between a database commit and a message that
leaves the process; and the adapter, which reads state, awaits a call and writes
state when the answer arrives.

## 2. Components

For each: its state, its operations, what is hard, what makes it correct, and the
modules that model it. `PROJECT.json` has the status of each and what a part
leaves out.

### Origami

**Crane delivery** (`crates/origami/src/cranes`) — *CraneDelivery, CraneLedger*.
State: `crane_outbox` (state, lease owner, attempts), `crane_receipts`,
`crane_dead_letters`; two lane streams and their durable consumers in JetStream;
the receipt stream. Operations: a trigger enqueues in the transaction that stores
a Boat; `publish_once` claims, validates, publishes and marks; `consume_lane`
fetches, refuses or records a receipt, projects and acknowledges; `serve`
reconnects after any error. Hard: crashes between commit and acknowledgement,
leases and acknowledgement waits that lapse under a slow worker, duplicates past
the duplicate window, exhausted retries. Correct when every enqueued event is
received exactly once or explained by a dead letter, and nothing else is ever
received.

**Hallway Knocks** (`hallways/knocks.rs`) — *HallwayKnock, KnockTurn*. State:
policies with their history, presences, Knock rows with status, holder and lease.
Operations: `policy`, `knock` (root and child), `claim`, `settle`. Hard: a policy
revoked between request and start, leases that lapse while a settlement is on its
way, sweeps that race completions. Correct when only a permitted, leased turn
starts, one holder runs it, an exchange is a bounded chain, and every turn ends.

**Hallway messages and Bells** (`messages.rs`, `bells.rs`, `channels.rs`, `sea.rs`)
— *HallwayMessages*. State: messages with a per-hallway sequence, session cursors,
per-room read sequence and notification revision, Bell rows. Operations: post and
read, in part create, join, page, inbox. Hard: two cursors (session by id, room by
contiguous sequence) advanced by concurrent readers. Correct when nothing leaves an
inbox unseen, no counter moves back and every change raises the revision.

**Boats** (`boats`, `akasha/paper_boat.rs`) — *Memories*. State: one memory row per
Boat, keyed by room and body digest, and its outbox row. Operations: sleep, wake, the
unboated tail. Hard: a repeated sleep, sleeps that overlap. Correct when a sleep is
stored once and a wake returns the last.

### AKASHA

**GIGA queue and worker** (`giga`, `giga_worker`) — *GigaQueue, GigaReview*. State:
events with queue state, lease, attempt and replay counts; attempts; candidates with
their reviews and the records promoted from them. Operations: ingest, claim, finish,
replay, purge, candidate store; review and promotion, by the House's doors and by tools
of two transactions. Hard: a finish that names its worker but not its attempt, a lease
that expires while candidates are stored, a purge beside a live worker; a promotion sent
again after its record changed, a verdict reached from a state that has moved. Correct
when each attempt is settled once by the one it was given to, every event is settled,
the reviews tell how a candidate came to its state and a receipt names a record on file.

**Docket** (`docket`) — *Docket, DocketClock*. State: quests, attempts with a claim
epoch, item verdicts, events; the clock's pings. Operations: draft, activate, claim,
report, settle with re-arming, the clock sweep. Hard: superseded leases, independent
review, a sweep of two transactions. Correct when a quest has one hand, no one judges
work of their own, a recurrence lives on and each deadline rings.

**Restart** (`restart`, `crates/omp-keeper`, the adapter's restart door) —
*RestartPromise, RestartPlane, RestartLoop*. State: intents, the claim token and the
successor's proof, the event ledger; the keeper's loop; the processes. Operations:
request, claim, transition, verify, status; waiting, claiming, relaunching, giving up.
Hard: lazy expiry at every door, an unclaimed exit swept while the keeper claims it
late, a proof rotated under a child that is about to verify, the storm guard. Correct
when a workspace has one live intent and a bounded number of exits, only the current
attempt's child verifies, and a workspace is never held for ever.

**Insula** (`insula`, `insula_writer`) — *InsulaWriter*. State: a bounded queue with
its sequence, settled and dropped counters; the log. Operations: emit, drain, flush at
exit. Hard: the queue at its limit, the order of drop rows, an exit under load.
Correct when every observation is recorded or counted.

**Memories and timeline** (`remember`, `timeline.rs`, the thread graph of migration
0006) — *Memories*. State: memory rows with their source path, supersession, thread
events and links. Operations: remember (insert or upsert, supersede, thread, continue),
timeline pages. Hard: transactions that commit in another order than their times and
ids, rewrites of a row others point to, a page walk under writes. Correct when a thread
has no cycle, a walk gives each row once, and what is superseded has an heir.

**Lessons** (`lesson`, `hearth/lesson_triggers.rs`) — *LessonTriggers, GigaReview*.
State: rows with a trigger, the compiled sets of the process, the ledger of fires.
Operations: remember, retitle, edit, delete, match. Hard: a cache kept under a count and
a time, edits that commit out of order. Correct when a match fires on the rows it read.
**Canon, clusters, recall**: single statements and numeric ranking; not modelled.

**Presence** (`crates/summoning`, `akasha/presence.rs`, `host/presence.rs`) —
*HostPresence*. State: a frame and a ledger for each session, in memory and in a row;
the replay ledger. Operations: open, compile, settle, close, adopt. Hard: missed
writes, replays of lost answers, a session carried over a restart. Correct when the row
follows memory and what was learned comes back.

**Migrations and backup** (`migrations.rs`, `backup.rs`) — *Backups*. State: the
schema's lineage, dump and manifest files. Operations: migrate, backup with rotation,
restore. Hard: commands of several processes with no lock between them. Correct when
the newest backups survive every rotation and a manifest tells what its dump holds.
Health and settings report; not modelled.

### Host, adapter, operations

**Knock doorman** (`adapters/omp/house-proof/knock.ts`) — *KnockDoorman over
KnockTurn*. State: one object for the active Knock with its flags and deadlines, and
the claiming flag. Operations: a tick every two seconds and the notes of the agent's
turns. Hard: every await. Correct when only the session that holds a Knock is woken and
a Knock is never displaced or kept for ever.

**Host** (`crates/host`) with its **clients** (`gui`, `gui-prototype`, adapter) —
*HostPolicy, ChatRoom, HostPresence*. State: the room's policy with its version,
durable receipts, the chat ring and drafts, sockets with a backlog. Operations:
snapshots, deltas, resync, idempotent commands; say, draft, report, subscribe. Hard:
answers and deltas outside the lock, restarts, retries. Correct when a version names one
content, a command is applied once, and a reply is shown under the say it answers.
Hallway pushes, the receipt bridge, authentication and routes: not modelled.

**Transport to a child process** (`adapters/omp/rust-transport.ts`) — *RustTransport*.
State: pending requests, the write queue, abandoned ids, timers. Hard: a request that is
given up may have been executed. Correct when a caller told "not started" may repeat.

**Installer** (`crates/athanor-install`) — *Installer*. State: release and adapter
pointers, staged trees, dumps, the service. Operations: install, rollback, the two adapter
commands. Hard: one step failing and its undo failing too. Correct when pointers resolve
and nothing is half applied.

**Supervisor and service** (`supervisor.rs`, `service.rs`, `native_runtime.rs`) —
*Supervisor*. State: what the service manager shows, the runner, its children, the
database files. Operations: start in order, stop in reverse, the installer's upkeep of
the database. Hard: a child that cannot be asked, awaited or killed; strays on a port.
Correct when a stop called clean left no child.

**Vault, wire contracts, interactive processes, workspace search, schema and packaging**:
see [7](#7-what-is-not-modelled).

### How they interact

A sleep stores a Boat and its outbox row in one transaction; Crane delivery moves
the row to a stream and back into a receipt. A Hallway post may ask for a turn in
another room by a Knock; the recipient's doorman claims it through the Host,
wakes its agent and settles the row from what it sees. The Docket's clock posts to
a hallway; RestartLoop composes the plane's rows, the keeper, the door and the processes.

Compositions: HallwayKnock implements KnockTurn (theorem ImplementsTurns) and
KnockDoorman runs doormen against KnockTurn's actions; CraneDelivery implements
CraneLedger (theorem ImplementsLedger); RestartLoop extends RestartPlane, which implements
RestartPromise (theorem ImplementsPromise) and whose doors are all the loop uses (theorem
LoopUsesTheDoors); DocketClock extends Docket.

## 3. The modules

### CraneDelivery

One worker is one call of `CraneDelivery::serve`, so two Houses, or one House
before and after a restart, are two workers. `pc[w]` is the worker's place in
`publish_once` and `consume_lane`: each step runs to the next call that can fail
on its own (a transaction, a broker call), and every such place can end in
`Fault` (the `?` that ends the flight) or `Crash`.

| Code | Model |
|---|---|
| `crane_outbox.state`, `lease_owner`, `attempts` | `outbox`, `owner`, `attempts` |
| `lease_expires_at <= NOW()` | `e \in lapsed` |
| `crane_receipts`, `crane_dead_letters` | `receipt`, `letters` |
| a stored message, its consumer state and delivery count | `body`, `copyState`, `deliveries` of a sequence number |
| the duplicate window | `remembered` |
| the receipt stream | `projected` |
| `substrate_enqueue_boat_ready` | `Enqueue` |
| `claim_next`, `mark_published`, `mark_publish_failure`, `dead_letter_claim` | `ClaimNext`, `MarkPublished`, `MarkPublishFailure`, `RefuseClaim` |
| `consume_lane`, in order | `Fetch`, `Refuse`/`Admit`, `Poison`/`MissReceipt`/`RecordReceipt`/`RetryLater`/`Exhaust`, `Project`, `Ack`/`Term` |
| `serve`, `ticks` | `Start`, `Fault`, `Reconnect`, `Stop` |

Abstractions:

- A *fault* is a step after which a worker has abandoned what it held: a call that
  errs, a crash, a Term or Nak that is lost, a lease or acknowledgement wait that
  lapses under a live holder. `faults` counts them and `MaxFaults` bounds them, so
  that a property can say how many faults it takes to break a promise.
- Backoff and the order in which rows are claimed are left out: any claimable row
  may be next, as if due.
- `Malformed` events are the rows whose payload does not parse or disagrees with
  the row; `Mismatched` ones point to a record that is not the declared one. Bodies
  are immutable in the code, so both are constants. `Stray` messages are another
  producer's.
- The publisher's refusals share one reason. The receipt's conflict case (same
  event id, other pointer) needs a producer that reuses ids and is left out, as are
  the counters of repeated dead letters.
- `record_receipt` is two steps when it finds no receipt: it misses (`MissReceipt`), then inserts. A
  transaction that inserted in between makes the insert violate its key (`Beaten`), which is an
  error like any other: a Nak, or on the last delivery a dead letter. It is no fault.
- Only `Survived(w)` limits death: one worker is always left. A House that stays
  down delivers nothing and there is nothing to say about it.
- Bounds: `Copy` (sequence numbers), `MaxFaults`, `MaxAged` (messages a stream's
  limits discard), and the two real limits `MaxPublishAttempts` and `MaxDeliver`,
  which are 10 and 5 in the code and 1 or 2 in the runs.

**CraneLedger** is the promise: `owed`, `received`, `refused`. An event is received
once, only if owed and sound; it may be refused as well (a dead letter written for
a copy whose twin was received). The mapping is `Ledger` in CraneDelivery.

### HallwayKnock

Each operation is one transaction that locks what it decides on: `knock` takes the
message FOR UPDATE and the policy and parent FOR SHARE; `claim` and `settle` take
the Knock FOR UPDATE. So each is one step. A replay of an idempotency key returns
the stored row, and a refusal rolls back: neither changes anything, neither is an
action.

| Code | Model |
|---|---|
| `policy` | `SetPolicy` |
| `admit` | `Admitted`, `Permits` |
| `knock` with and without parent | `KnockRoot`, `KnockChild` |
| `claim`: the sweep, then one candidate or none | `Swept`, `Candidates`, `Claim` |
| `settle` | `Started`, `Completed`, `Failed` |
| `NOW()` | `now`, advanced by `Tick` |

- A caller is a room, a spirit and a session together. One hallway; messages,
  allowed rooms and addressing are constants, since no operation here changes them.
- `claim` uses SKIP LOCKED and an order by age: any candidate may be the one
  taken, and none may be.
- The House's clock and PostgreSQL's are taken as one, and a transaction as
  instantaneous. `policySince` is when a policy took effect.
- `notified` is the room's notification revision as far as Knocks raise it.
- `OmittedTurns` (4) is what a root that names no budget is admitted with and
  `DefaultTurns` (10) what it is stored with: the code has two constants, and so
  has the model. See [6](#6-where-code-and-documents-disagree).
- A pending Knock whose exchange has expired stays pending: no code path touches
  it again.
- Bounds: `MaxTime`, `Knock`, `Offered` (policies asked for), `Named` (budgets).

**KnockTurn** is the ledger its clients may rely on: one holder, starts under a
live lease only, completed and failed are final. It knows neither rooms nor
policies nor clocks: `lapsed` and `expired` grow as time passes.

### KnockDoorman

A doorman runs on one JavaScript thread: a step is the code between two awaits.
Each call to the Host is three events (sent, served, answered) in steps of their
own, and calls are on connections of their own, so they overtake each other. A call
that times out may have been served.

| Code | Model |
|---|---|
| `KnockDoormanState` | `local` |
| the claim under way and its answer | `claim` |
| `settling`, the call under way | `settle` |
| the failure calls under way | `fails` |
| `tickDoorman` | `Poll`, `TickFails`, `TickDelivers`, `TickSettles` |
| `deliverActiveKnock` | `Inject`, `Deliver` |
| `settleObservedTurn` after its awaits | `StartSettled`, `CompletionSettled`, `SettleFails` |
| `failActiveKnock` | `TickFails`, `HostFails`, `FailReturns` |
| `noteHallwayKnockTurnStart`, `noteHallwayKnockTurnEnd` | `BeginKnockTurn`, `NoteEnd` |
| OMP's agent | `agent`, `queued`, `notes` |

- Elapsed time is a choice: a tick may find a deadline passed whenever the flags
  it depends on say the deadline is running.
- A lease outlasts the answer to its own claim and the failure of its injection
  (30 s against two calls of at most 10 s): `Lapses`. Nothing else is assumed of
  durations.
- Whether OMP is idle before the handlers of `agent_end` have finished is a
  choice, since they capture the conversation first.
- `claim` has room for `MaxClaims` calls so that the code's own flag, and not the
  model's shape, is what keeps it to one.
- After an injection that fails, the claiming flag is taken as released; this
  admits slightly more behaviours than the code.
- Left out: a session switch, the failure call that `stop` makes, an `abort` that
  throws, agents without `abort`, calls served after the client has given up.
- Bounds: `MaxClaims`, `MaxFails`, `MaxNotes`.

### RestartPromise, RestartPlane, RestartLoop

`RestartPlane` is the House's half, one workspace, one action a door
(`Request`, `Claim`, `Relaunch`, `Verify` and the rest): a door is one transaction under
the workspace or row lock; a refusal that commits an expiry is a step, one that rolls
back is not. `late` and `recent` say which deadlines have passed, so every length of the
deadlines is covered. `RestartLoop` adds the omp session that asks, the keeper, whose
every call is a step, and the processes, named by the attempt whose proof they carry.
Its `world` is chosen first: *calm*, where nothing disturbs the keeper, or *faulty*, where
it may be stopped, die or lose an answer. `MCRestart` adds a third, the doors called by
anyone. `RestartPromise` is what the rows promise, without clock or lease.

### GigaQueue, Docket, DocketClock, HallwayMessages, Installer, InsulaWriter, GigaReview, LessonTriggers, Supervisor

- **GigaQueue**: workers are processes; validation and storing are steps of their own
  because the classification between claim and finish takes longer than a lease may last.
- **Docket**: every door locks the quest's row, so each is one action. A goal's
  recurrence and deadline are chosen with the quest.
- **DocketClock**: a sweep is four steps (board, pings read, ring, pings written); a ring
  is its key, the set of quests rung, and what it says of each. Sweeps overlap and one may
  be torn anywhere.
- **HallwayMessages**: a post holds the hallway's row, so it is one action; a read is
  three, since it locks nothing of the room's.
- **Installer**: a command is a sequence of steps, each of which may fail (then the undo
  of what was attempted runs, which can fail too) or be killed. A release ships the adapter
  of its own name. `sc.exe stop` and `delete` only request: `Stop` leaves the service
  *stopping* (or *doomed*, *leaving* when it is deleted too) and `StopEnds` ends it later. Until
  then it cannot be started, and the database may be up or not when a migration, a restore or a
  backup needs it (`CannotStep`, `CannotRestore`). A pointer is removed before the new one is
  renamed into its place, so a write that fails or is killed may leave none (`LeftAt`).
  `spent.quiet` is set where the code drops the failure of a start.
- **InsulaWriter**: threads, the bounded channel, the drain task between its awaits, and
  the flush with its ceiling and abort. A group's ingest may fail, and is settled all the
  same (`Forget`).

- **GigaReview**: a principal (reviewer, operator, basis of authority) has one call in
  flight. A door of the House is one transaction; a tool reads the candidate in one and
  commits in another, which are `ToolReview`/`CommitReview` and `ToolPromote`/`Promote`.
  `Prepare` writes a memory before the promotion's own transaction. `got` is the record
  the caller's receipt names. A digest is the parts of the request it covers.
- **LessonTriggers**: an edit begins (its `updated_at`), then commits; a match reads the
  rows, takes or compiles the set of its fence, reads the ledger and fires. `overtaken`
  is history: some edit committed after one that began later.
- **Supervisor**: the runner is at one child of the plan at a time; a child the service
  process lets go of lives on as a stray and keeps its port. `upkeep` is `with_database`.
  Every call of the operating system may fail (`MaxTroubles`).

`MCHouse` runs all of them but GigaQueue side by side: they share no modelled state, and the
first state chooses the part that moves. One run covers the eight, none of whose states mix.
`MCQueues` does the same for GigaQueue and CraneDelivery, whose liveness is checked.

### HostPolicy, HostPresence, RustTransport, ChatRoom, Memories, Backups

- **HostPolicy**: the room file, the Host's copy and cursor, receipts, one socket task a
  client between its awaits, panels that patch deltas, agents that send one command a
  connection. `minted` numbers contents; `shown` is history.
- **HostPresence**: the Host answers under one lock, so a door is a step that works on
  `Held`; its request, its answer and its write may each be lost (`MaxLapses`). A frame is
  what it was assembled from.
- **RustTransport**: a step is one callback of the adapter's thread or one of the child,
  which answers in order. `told` is what the caller was told. An answer may be longer than a
  line may be (`overlong`), for which the transport gives its child up.
- **ChatRoom**: every request has a socket of its own, so what was given up may still be
  handled. A transcript is a sequence of origins and assistant messages. Only what begins a
  turn by `turn-origin.ts` is an origin: an async result wakes the session (`FollowUp`) and is
  answered under the origin before it, so a turn may hold several settled replies.
- **Memories**: `Begin` fixes `NOW()`, `Draw` the id, the commit (`Remember`, `Sleep`)
  writes all, since the locks on the path and the thread are held to it. What is written
  is chosen at the commit, because a caller may name any id or path. One thread, one
  superseded id a write; Boats belong to no thread. The timeline's lesson half is left out.
- **Backups**: steps lie where another process can come between; instants are distinct
  (created_at has the clock's precision). The data of the database is left out: a dump is
  the lineage it holds. A migration is one transaction under its lock.

`MCRuntime` runs these six side by side as `MCHouse` does.

## 4. The runs

Every property of a passing run has a mutant in `PROJECT.json`: a plausible bug in
a definition the map names, with which TLC finds the property violated.

| Run | States | Shows |
|---|---|---|
| `crane_worlds` | 1.8M | two worlds of MCCraneWorlds, one Boat between two loops with 3 faults, and a sound, a mismatched, a malformed event and a foreign message over both lanes: a published row is in the stream; losing an event in silence takes `MaxDeliver` faults; only the sound one is received; every step is one of CraneLedger |
| `queues` | 114k | the two queues of MCQueues. Crane, 1 fault below `MaxDeliver`: every owed event is answered, every receipted Boat projected. GIGA: a finish ends its own attempt, events settle |
| `knock_turns` | 251k | two worlds of MCKnockWorlds, an exchange of two turns and one contested Knock: chains, revocation, turns in time, KnockTurn, and every turn ends |
| `doorman` | 197k | two worlds of MCDoormen, one doorman with every delay and two of one room: no Knock is answered for ever, only the holder is woken |
| `restart` | 559k | three worlds, two requests: the storm bound, an exclusive claim, RestartPromise, only the held child verifies, an armed exit ends |
| `house` | 1.1M | the eight parts of MCHouse: reviews tell the state, receipts are backed; one hand a quest; a ping was rung; what an inbox drops, and every Bell it no longer has, was shown; a match fires on what it read; pointers resolve, nothing half applied; a clean stop is whole; the tail is told |
| `runtime` | 972k | the six parts of MCRuntime: a version names one content, commands apply once, subscribers catch up; the row follows memory; the transport tells the truth and trusts an honest child; answers are their own; a walk is whole, threads acyclic; rotation keeps the newest |
| `knock_budget`, `restart_unseen`, `clock_torn`, `presence_heals`, `rollback_quiet` | small | violations: see [6](#6-where-code-and-documents-disagree) |

**Bounds.** The limits of the code are small in the cfgs where the case at the limit is
what matters; other bounds only end the run.

- Crane: a second worker is what a stale lease or a double delivery needs, a second copy
  what a closed duplicate window needs, three faults exceed both limits of two
  (`MaxPublishAttempts` is 10 in the code, `MaxDeliver` 5). In the first world a stream that
  discards a copy meets one fault beside it; in the second the rows come in one order, there is
  one fault, and a publish fails only of the sound event.
- Knocks: an exchange of two turns has a root, a child and an exhausted budget. A lease (2) is
  longer than the clock's step, so that a Knock claimed before its exchange expires can still
  start after: the late start of `StartsInTime` occurs. The clock (`MaxTime` 4) passes the
  lifetime of an exchange (`TurnWindow` 2 a turn) and the lease after it. The root of the
  exchange is asked for at the first moment (`Begins`); the single Knock at any.
- Doorman: one Knock taken again by its own session, or by another, is what stale answers
  need; `MaxClaims`, `MaxFails`, `MaxNotes` 2. The invariants of one doorman with two Knocks
  are checked by `DoormanSafety.cfg`.
- Restart: two keys; `StormMax` 1 (3 in the code) so that the second meets the guard; two
  launches; sessions: the first, a fresh and a stranger's.
- Queues: one GIGA event with two kinds, two workers, `MaxAttempts` 2, one replay; the Crane's
  first world with one fault.
- House: two quests
  with two items, two rooms and two claims, two sweeps with one torn; two ears of one room,
  two posts, a page of one; three releases with two APIs, four commands, two mishaps of which none in the last
  command, `Keep` 2 (3 in the code), and of two releases of one API the third comes after the
  second (`InstallerBound`); two Insula threads, a channel of one, a batch of two; one candidate,
  two principals, two titles, three reviews; two lessons, one of the project and with a cooldown,
  two editors, three edits; the database and one more child, two troubles.
- Runtime: one panel, one agent, one receipt kept (512), a backlog of one (64), four contents,
  two mishaps; two frames, three turns, two lapses; three requests of which one definitive, two
  pending, two queued; two sessions, two says, a ring of three, one draft, five messages, one
  upset; two writers, two paths and one Boat, three ids, two instants, a page of one; two
  backup commands that keep one or two, two lineages, three dumps.

Every safety and every action property of the passing runs is also a theorem (section 5), so it
holds for every value of the constants; the bounds matter for the liveness properties.

**Reductions.** `DoormanSafety` uses symmetry among Knocks, which no action tells apart, and
the view `Forgetful`, which drops `ended`: it only remembers, no guard reads it. No registered
run uses either.

**Deadlock** is checked in `queues`, whose systems never stop. The others may rest: clocks end
at their bound, queues empty, commands end, and the second world of `crane_worlds` ends where its
bounds forbid the one step left.

**Fairness.**

- Crane: a worker that runs keeps ticking (`serve` loops until cancelled), a House that
  is off is started, leases lapse and undelivered copies come back. Nothing is assumed of
  faults or crashes. `AnswersLedger` needs fewer faults than `MaxDeliver`.
- Knocks: time passes and some session of each room keeps polling (the doorman's two-second
  timer). No session is assumed to settle what it started.
- Doorman: ticks find their deadlines, calls end, turns that began end and are noted.
  Nothing is assumed about answers.
- Restart: the keeper keeps running while it has work, an omp that has armed its exit leaves
  (its timer), deadlines pass. A keeper that is stopped or dead takes no step.
- GIGA: a worker polls (`giga_worker_loop`), leases and retry delays lapse. Workers may die;
  one is left.
- Docket's clock: a sweep that is called goes on (`clock_torn` needs it to be a refutation).
- HostPolicy: the socket tasks of a running Host run. Clients are assumed nothing.

**Further cfgs**, not registered as runs:

| cfg and module | Shows |
|---|---|
| `DoormanSafety` / MCKnockDoorman | `DoormanTypeOK`, `NeverReplaced` hold with two Knocks |
| `HouseMore` / MCHouse | `HouseTypeOK`, `RecurrenceLives`, `InboxIsAnnounced` hold |
| `QueuesMore` / MCQueues | `GigaTypeOK`, `OneOpenAttempt`, `CandidateKeepsEvent` hold |
| `PresenceLearns` / HostPresence | `LearnedComesBack`, `PresenceTypeOK` hold |

Each module also states its type invariant (`TypeOK`, `DoormanTypeOK`, `LoopTypeOK`,
`HostPolicyTypeOK`, `TransportTypeOK`, `MemoriesTypeOK`, `BackupsTypeOK`, and so on) and some
properties that were checked while the module was written and are in no registered run because
another property there says more. Most are theorems as well:

| Properties | |
|---|---|
| `OneLive`, `CalmKeeperFinishes`, `JudgedByOthers`, `RecurrenceLives`, `OneRingPerSet`, `InboxIsAnnounced`, `OneOpenAttempt`, `CandidateKeepsEvent`, `NeverReplaced`, `RecordedBeforeSettled`, `LearnedComesBack`, `AttemptsBounded`, `OutcomesAreFinal`, `StopsInReverse`, `NoLostWakeup` | proved, section 5 |
| `ServiceSettles` | model-checked only |

## 5. The proofs

Eight modules of theorems, checked by `tlapm`. Every safety invariant and every action
property of the passing runs is a theorem of the specification, for every value of the
constants; so are the three refinements. `PROJECT.json` lists the theorems; each
module's own comments say what each lemma is about. Next to each module below stands
what makes its induction go through, since few of the properties are inductive as they
are written.

**Assumptions.** The named ASSUMEs of the modules and nothing else. All but these say
that a limit is a positive number, that a set is finite or that a null value is no value:

- `ConstantsAssumption` of CraneDelivery: malformed and mismatched events are events, a
  stray message is none. That of HallwayKnock gives `RoomOf`, `Addressed` and the budgets
  their types.
- `LimitsAssumption` (RestartPlane): at least one attempt. `BatchMax` of InsulaWriter is
  more than 1.
- `SupervisorAssumption`: the plan names each child once.
- `RequestsAreNumbered`, `SaysAreNumbered`: the numbers the adapter gives requests and
  says (0 is none).
- `MemoriesAssumption`: no memory is written under a Boat's path.
- `SilenceIsAReply` (HostPresence): a turn may say nothing.

Some properties carry a flag of history as a hypothesis, because the code breaks the promise
where it is set: `faults`, `overtaken`, `lossy`, `torn`, `doubtful`, `forgot`, `garbled` and
`spent` (an undo that failed too, a kill, a start whose failure was dropped),
`overlong`, `strayed` and `ledger.failed`. The runs reach the states on either side of each.
In KnockDoorman `Lapses` is part of the specification: a lease outlasts two calls.

**CraneDeliveryProofs**, for every set of events, strays, copies and workers:

- `TypeCorrect`. `TypeOK` is not inductive: that `Admit` yields an event, or `EndClaim`
  writes a row that exists, depends on what a worker holds at each place. `Shape` adds
  it: a publishing worker holds an event, a consuming one a stored copy, which past the
  refusals carries an event.
- `ReceiptsSound` and `ImplementsLedger` use `Owed`: whatever is in a stream, in a
  worker's hand, received or lettered was enqueued before, and a row past validation is
  well formed. Then every action maps to a ledger step or a stutter: `RecordReceipt` to
  `Receive` or nothing, a dead letter to `Refuse` or nothing (lemmas `LetterRefuses`,
  `LedgerStep`). What is proved is `Spec => KeepsLedger`, without the ledger's fairness.
- `PublishedStored` and `LossIsPaid` use `Loss`: a worker at `confirm` and a published row
  have a stored copy; and `Paid(c)`: a copy that is not settled has been delivered at most
  once per fault so far, the delivery a worker still handles excepted, so a spent copy has
  cost `MaxDeliver` faults.
- `SettledIsRecorded` uses `Traced`: whoever is about to acknowledge or terminate a copy
  has its receipt (and projection) or its letter committed, and these only grow.
- `AttemptsArePaid` uses `Charged`: a row on offer has attempts left beyond what faults paid
  for, and a lease nobody works under has cost a fault of its own. `OutcomesStay` goes step
  by step: a stale claim finds its row no longer its own.

**HallwayKnockProofs**:

- `ExchangesAreChains` is inductive given that rows never change and a status never falls
  back behind `started` (`RowsStay`): a parent was started when its child was asked.
- `TurnsStartInTime` and `RevocationHolds` use `LeasesAreShort`: a leased Knock's lease ends
  less than one lease after its exchange expired and, unless the policy permits it still,
  at most one lease after the policy in force was set. A claim tests both; the clock and
  later policies preserve them.
- `ImplementsTurns`: `Spec => KeepsTurns`, one lemma for each kind of step.

**RestartProofs**:

- `PlaneInv` is the type, `RowsCohere` (which fields a row of each state has), `OneLive` and
  `StormBound`, which is inductive since every door into the window counts again. `ClaimStands`
  and `ImplementsPromise` go door by door.
- `LoopUsesTheDoors`: every step of keeper, door and processes is a step of the plane or
  none. So the theorems of the plane hold of the loop, where the storm bound is checked.
- `SupervisedSign` uses `LoopInv`: a keeper that is there works on every claimed row and has
  counted its launches, no process carries the proof of an attempt to come, and the one
  that carries the latest is the one it holds.
- `CalmClaimsAreWorkedOn` adds `LeavesNone`: in the calm world every way to leave passes
  a verdict or a failure of the row.

**DocketProofs**: `BoardInv` describes a quest by its latest attempt (`Held`) and its verdicts
by the room of that attempt (`Judged`), so one lemma about `Writes` serves every door.
`RecurrenceHasOneHeir` uses `Descends`: a quest has at most one heir and was settled before
it had one. `NoBellIsLost` and `SetsAreRungOnce` use `SweepsTell` (a sweep about to write
pings has its ring in the hallway) and `RingsTell` (a ring tells what was live).

**HallwayProofs**: `NothingPassesUnseen` (the read sequence and the Bells) needs that the rows, the page's last sequence and
the count a read carries between its transactions lie within what is posted, and that
what it has counted is covered by its room's read sequence (`ReadsAreSound`). `WakeIsTheHolders`
uses `LeasesHold`: an answer on its way, and a Knock that is active and not delivered, are
covered by a lease of that session; `ClaimsAlone` (one claim at a time, none while active)
keeps two answers from meeting.

**NativeProofs**:

- `InstallIsWhole`. `HalfInv` says for every place of a command what is on disk, in the
  database and in the way back that the command remembers, so that each undo restores a
  whole install, whatever the service is doing meanwhile; `ResolveInv` does the same for the pointers and also holds when killed.
- `CleanStopLeavesNone`: on a stop that has met no failure, the children after the one being
  stopped are not alive or were noted as a failure, in the order of the plan (`StopInv`).
- `LaterChildrenStopFirst` adds `OrderInv`: while children are started none is asked and none
  beyond the one at hand is alive; while they are stopped, only those from the one at hand on
  were asked, and those past it are gone or noted.
- `TheTailIsTold`: a number is in one place at a time (`ApartInv`), what is settled was
  ingested or in an ingest that failed (`CountInv`), and until the drain is aborted what came
  early is ingested, told, in a failed ingest, counted as dropped, in hand or queued (`ToldInv`). Then the count the flush reports is an
  inequality of cardinalities.

**AkashaProofs**:

- GIGA: `History`: attempts are numbered without repeats, none is beyond its event's latest,
  and an open one is that of a running event; with `WorksAtLatest` a finish finds the
  attempt of its worker.
- Reviews: `ReviewsTellTheState` is inductive with the types of the calls under way (`Carries`:
  what a call holds at each place); that a receipt is backed is proved of each step (`Backed`).
- Triggers: `HeldIsSound`: two snapshots with the same count and newest time that edits in
  order could have written are alike (`Alike`), hence so are the cache, the rows read under
  its fence and the lessons while their times stand (`Stands`).
- Memories: `ThreadsAreAcyclic` speaks of everything a thread leads to. The invariant is
  `Walled`: for each memory there is a set, closed under the links, that holds what follows it
  and not itself. A continuation keeps it because the code refuses one whose target leads
  back; no induction over the length of a path is needed. The page walk needs `StandsAt`:
  the cursor is the last row of the shelf and none of the others lies behind it; and
  that the head of an ordered finite set exists, from well-founded recursion on times.
- Backups: `TheNewestStay`. `Rank`, how many younger backups were published, only grows, so
  what a rotation chose by an old listing stays out of reach of the newest (`JobOK`).

**RuntimeProofs**:

- Transport: a request is in one pipe once (`OnceOnly`); who was told `not_started` was not
  dispatched (`HeldSound`), what came out was acted on (`LinesSound`), and, until a forgotten
  one, is waited for or known as given up (`Expected`). `WhatWaitsIsWoken` follows step by
  step: every callback that ends a write or a full pipe flushes, or empties the queue.
- Presence: `OneFrame` and `RowBacks`; for `LearnedStays`, `Knows`: the ledger that memory, or
  the row when memory is gone, holds has what was learned, and a remembered reply of silence
  was learned from (`SilencesKnown`).
- Chat: `Answers` says what a published reply is in terms of the transcript, which only grows:
  the first that settled a turn its say began, with that turn's steps up to it. It follows from
  `Heard` (a doorman that listens heard the turn its say began last, still unsettled while it is
  owned) and `Waits` (a doorman whose say has not strayed belongs to the room's session), which
  `Agreed` keeps when the room moves: doormen that draft at once hold the same say.
- Policy: nothing shown is past the version in force, and a version has one content
  (`VersionsRise`), until a shown version died unsaved (`torn`); what clients, sockets and deltas
  carry was shown (`ClientsSound`); what took effect has its receipt in both copies (`ReceiptsHold`),
  where the newest receipts of a sequence are kept by position.

**Only model-checked**: the seven liveness properties `AnswersLedger`, `EventuallyProjected`,
`TurnsEnd`, `DoormanReleases`, `ArmedExitEnds`, `GigaSettles` and `SubscribersCatchUp`, because
liveness under fairness is beyond the prover; and the properties of the last table of
[4](#4-the-runs) that are marked so there. Induction with a predicate as parameter cannot be
instantiated here, so what `FoldSet`, `SelectSeq` or a sort returns is not proved in general:
where a proof needs it, the model picks by CHOOSE (the latest record, the head of a page) and the
existence is proved from a concrete well-founded relation.

## 6. Where code and documents disagree

Each is found by TLC as a counterexample to a property that states the document. The first
five are registered runs.

| Run or cfg | Document | Code |
|---|---|---|
| `knock_budget` (`PolicyCapsBudget`) | `0031_hallway_knock_turns.sql:4-5`: the recipient's policy caps the budget | `knocks.rs:465` admits a root without `maxTurns` with 4, `knocks.rs:367` stores 10 |
| `restart_unseen` (`ProvenIsNotPutDown`) | `omp-keeper/src/keeper.rs:274`: only a child that did not prove itself inside its window is put down | `keeper.rs:434`: the intent is read before the deadline and not again after it |
| `clock_torn` (`SweepConverges`) | `docket/clock.rs:92-95`: a torn sweep converges | `clock.rs:198`: the ring's key digests the quests, its body and recipients also their state and holder |
| `presence_heals` (`NextTurnHeals`) | `house-proof/presence.ts:77-78`: commands self-heal on the next turn | `presence.ts:119`: the dead frame of the transcript is used turn after turn |
| `rollback_quiet` (`RollbackRestores`) | `athanor-install/FEATURES.md:14`: every step of a rollback restores the newer release when it fails | `installer.rs:418`, `426`, `437`, `450`: the undo starts a service that may still be stopping (`boundaries.rs:534`) and drops the failure |

The others have no registered run. Each is found by naming the property in a cfg with the constants given
here: *D* is `SPECIFICATION DoormanSpec`, one holder, one Knock, `MaxClaims`, `MaxFails`, `MaxNotes` 2, with
MCKnockDoorman (*D2*: two Knocks); *C* is `CraneDelivery` under `Spec` with one event, a Boat, two workers, `Copy = {1}`, both attempt limits 2,
`MaxFaults = 1`, `MaxAged = 0`; *H* is `House.cfg`; *R* is `Runtime.cfg`.

| Property | Constants | Document | Code |
|---|---|---|---|
| `KnockDoorman.CompletionIsItsOwn` | D | `docs/CODE_FLOW_MAP.md:333-335`: the interrupted turn cannot be mistaken for the Knock's completion | `knock.ts:469`: any end that is not the first after an interrupt is taken as the Knock's |
| `KnockDoorman.AbortsAfterStart` | D2 | `docs/RUNTIME_ARCHITECTURE.md:638-640`: an active turn is aborted only after the start is settled | `knock.ts:285`: the flag is set after an await on whatever Knock is active by then |
| `KnockDoorman.ReleasesItsOwn` | D2 | `docs/RUNTIME_ARCHITECTURE.md:643-645`: the wake that has no observed end fails | `knock.ts:217`: the answer to one Knock's failure clears whatever Knock is active |
| `KnockDoorman.StartedBeforeAnswer` | D | `docs/RUNTIME_ARCHITECTURE.md:636-638`: settled as started before the model can answer | `knock.ts:254`: the injection triggers the turn before the settlement is sent |
| `CraneDelivery.RedeliveryReplays` | C, `Boat = {}` | `cranes/FEATURES.md:14`: a redelivery replays the recorded receipt | `delivery.rs:250`: expiry is tested before the receipt is looked up |
| `CraneDelivery.NoneVanishes` | C, `MaxFaults = 2` | `docs/RUNTIME_ARCHITECTURE.md:854-855`: exhausted records produce dead-letter state | `delivery.rs:314`: only a failure handled on the last delivery does; a crash or a lost acknowledgement on it leaves nothing |
| `CraneDelivery.LastAttemptEndsRow` | C | `cranes/FEATURES.md:12`: attempt 10 ends the row | `outbox.rs:183`: the cap is tested when a failure is marked, not when a row is claimed |
| `CraneDelivery.ExitHoldsNoLease` | C | `delivery.rs:64-65`: a claimed row is published or released before exit | `delivery.rs:143`: an error of the marking ends the flight with the row leased, and a cancellation ends `serve` |
| `HostPolicy.PendingIsAnswered` | `HostPolicyFairSpec`, one panel, one agent, `ReceiptLimit`, `Backlog` 1, `MaxContents` 4, `MaxMishaps` 2 | `gui/src/recall_policy.rs:1235`: the Host returns the existing result or a stable conflict | a try repeated to a busy or replaced connection waits for an answer that no one owes it |
| `HostPolicy.DeltasInOrder` | the same | `docs/CODE_FLOW_MAP.md:474`: deltas follow the version | a socket task broadcasts its delta after its answer, outside the lock |
| `Memories.SupersededHasHeir` | `MemoriesSpec`, two paths, one Boat, one writer, `MaxIds` 4, `MaxClock` 0, `ShelfLimit` 1 | `docs/EVIDENCE.md:532`: recall selects the current account after a supersession | `memory_write.rs:145`: a superseded source written again stays superseded, and may supersede its heir |
| `Memories.WakesTheLastSleep` | the same, one path, two Boats, `MaxIds` 3 | `docs/CODE_FLOW_MAP.md:527`: a wake reloads the latest complete Boat | `memory_write.rs:106`: a body slept before keeps its row and date, so the Boat between the two sleeps is woken |
| `Backups.ManifestNamesDump` | `BackupsSpec`, one command, `Keeps = {1}`, `Lineages` 2, `MaxBackups` 1 | a manifest's `schema_migrations` are those of its dump, which `backup.rs:770` compares with the database | `backup.rs:1020`: the lineage is read before `pg_dump` runs, and a migration may come between |
| `Installer.PreviousIsRetained` | H | `INSTALL.md:83-84` | an install under the name of the retained release fails after `installer.rs:290` has cleared it |
| `Installer.RollbackHasDump` | H | `README.md:315` | the rotation removes the dump the active release names |
| `Installer.PointerOutlivesKill` | H | `athanor-install/FEATURES.md:39`: an atomic write is a `.new` file and one rename | `boundaries.rs:320`: the old file is removed first, and a command killed before the rename leaves no pointer |
| `InsulaWriter.CeilingCountsLost` | H | `insula_writer.rs:429-431`: on the ceiling the count of observations never persisted is returned | `insula_writer.rs:616` discards what an ingest came to and `:597` counts it as settled |
| `ChatRoom.StepsAreAlwaysItsTurns` | R | `chat.ts:266-268`: a process carries one session | after a change of session two doormen may hold one say, and the steps of one session's turn are told with the other's reply |
| `InsulaWriter.TailCountIsExact` | H | `insula_writer.rs:429-431` | a batch aborted half way is counted whole, and an observation that was dropped has taken a number that is never settled and is counted among the drops as well |
| `GigaReview.SeparateRecords` | H, two candidates, `MaxReviews` 4 | `docs/HIPPOCAMPUS.md:430`: a promotion creates a separate record | two lesson candidates promoted under one title share the row (`lessons.rs:18`, `:88`) |
| `LessonTriggers.FiresOncePerSession` | H, two matches | `hearth/src/lesson_triggers.rs:88`: without a cooldown, once per session, ever | `trigger/mod.rs:233`: the ledger is read before the transaction that adds to it |

Five more are violated against no document, and say what the code does not promise: `LessonTriggers.AlwaysMatchesWhatItRead`
(an edit that commits after a younger one changes neither count nor newest time, and its old pattern fires on),
`GigaReview.AskedIsStored` (the digest of a coding lesson leaves its keys out; *H* with two key sets),
`GigaReview.DecidedUnderItsReview` (*H*, `MaxReviews` 4), `Supervisor.DatabaseIsMade` (an install that fails between initdb
and createdb leaves files no later call creates the database on) and `Supervisor.RunningIsItsOwn` (a stray answers for a
child that dies beside it).

Two documents give numbers the code does not have: `hallways/FEATURES.md:36` (a first
Knock lives 15 minutes; the code gives three minutes a turn, at least 15) and
`docs/RUNTIME_ARCHITECTURE.md:805` (a ceiling of 1 to 8 turns; the code has 20).

## 7. What is not modelled

- **Ranking and retrieval** (recall, clusters, vault search, workspace search): numeric and
  query-bound, without interleaving. **Canon**: single statements.
- **Vault**: the walk, ignore and rank algorithms are pure; no module yet.
- **GIGA classification** and the resonance score; the **Docket**'s receipts, evidence and charges
  (append-only).
- **Host**: Hallway pushes, the receipt bridge, authentication, routing.
- **Knocks, thread links, the keeper**: the advisory lock under which a link is checked and
  committed (`0006_memory_thread_graph.sql:76`) is taken as given, so the check and the commit are
  one step; a keeper whose `watch_interval_secs` is 0 does not poll its deadlines
  (`keeper.rs:696`), and the model's always may.
- **Installer**: uninstall, the import of a legacy house, the service registration.
- **Wire contracts** (`crates/hearth`, `crates/protocol`): types and their validation, more than
  8,000 lines without state; their limits are constants of the modules.
- **User interfaces** beyond the panel's protocol, the parked Godot client, the site; packaging and
  scripts; interactive processes, which keep no state.
- Health counters, stream configuration checks, logging, wording.
- Values: bodies, digests, names and payloads are model values; what a check on them decides is a
  constant set or a choice.
- Database failure inside a transaction: a transaction happens or does not. Durations, other than
  by the order they enforce.

The map covers the control of the stateful parts, about a seventh of the implementation's lines. The
rest is mostly what this list names: contracts, rendering, argument handling, SQL row mapping and
user interfaces, in which a model would have no interleaving or failure to find.

## 8. Plan

The safety of what the runs check is proved. What is left, in order of what it adds:

1. Modules that could still be added: Hallway pushes and the receipt bridge; the vault's functions
   as operators against a reference definition.
