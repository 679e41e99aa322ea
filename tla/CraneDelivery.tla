---------------------------- MODULE CraneDelivery ----------------------------
(***************************************************************************)
(* The delivery of Cranes (crates/origami/src/cranes): PostgreSQL's outbox, *)
(* receipt and dead-letter tables, the JetStream lane streams with their    *)
(* durable consumers, and the delivery loops that move an event from one    *)
(* to the other.                                                            *)
(*                                                                          *)
(* A worker is one call of CraneDelivery::serve, with its lease owner.  A   *)
(* copy is one message stored in a lane stream, named by its sequence       *)
(* number.  Time is abstract: a lease lapses, an acknowledgement wait or a  *)
(* retry delay passes, a duplicate window closes, each as a step.           *)
(*                                                                          *)
(* A fault is any step that makes a worker abandon what it holds: a call    *)
(* that errs, a crash, a lost acknowledgement, or a hold that outlives its  *)
(* lease.  faults counts them, MaxFaults bounds them.                       *)
(***************************************************************************)
EXTENDS Integers, FiniteSets

CONSTANTS Event,      \* rows of crane_outbox
          Boat,       \* the events and strays of the boat.ready lane
          Stray,      \* messages of other producers, none of them a CraneEvent
          Malformed,  \* events whose payload does not parse or match its row
          Mismatched, \* events whose pointer does not match the record it names
          Copy,       \* stream sequence numbers, which bound the streams
          Worker,     \* the calls of serve, each with its own lease owner
          MaxPublishAttempts,
          MaxDeliver,
          MaxFaults,  \* bound on faults
          MaxAged,    \* bound on the messages a stream's limits discard
          None

ASSUME ConstantsAssumption ==
  /\ Boat \subseteq Event \cup Stray
  /\ Malformed \subseteq Event /\ Mismatched \subseteq Event
  /\ Event \cap Stray = {}
  /\ Copy \subseteq Nat
  /\ None \notin Copy \cup Event \cup Stray \cup Worker
  /\ MaxPublishAttempts \in Nat \ {0} /\ MaxDeliver \in Nat \ {0}
  /\ MaxFaults \in Nat /\ MaxAged \in Nat

VARIABLES
  outbox,      \* crane_outbox.state, "absent" before the Boat is put to sleep
  owner,       \* crane_outbox.lease_owner
  attempts,    \* crane_outbox.attempts
  lapsed,      \* the events whose lease_expires_at has passed
  overdue,     \* the addressed events whose expires_at has passed
  receipt,     \* crane_receipts: the copy each event was first received from
  letters,     \* crane_dead_letters
  body,        \* the event or stray each copy carries
  copyState,   \* what the lane's durable consumer knows of each copy
  deliveries,  \* how often a copy was delivered
  remembered,  \* the event ids in the duplicate window
  projected,   \* the events whose projection is in the receipt stream
  pc,          \* where each worker is in its tick
  holds,       \* the event a worker has claimed or the copy it has fetched
  count,       \* the delivery count a worker read with its copy
  faults

table   == <<outbox, owner, attempts, lapsed>>
stream  == <<body, copyState, deliveries, remembered>>
ledger  == <<receipt, letters>>
workers == <<pc, holds, count>>
vars    == <<outbox, owner, attempts, lapsed, overdue, receipt, letters, body,
             copyState, deliveries, remembered, projected, pc, holds, count, faults>>

Body == Event \cup Stray

OutboxStates == {"absent", "pending", "leased", "published", "dead_letter"}

\* Waiting can be delivered, delayed waits for its Nak's delay, spent was
\* delivered MaxDeliver times and will not be again.
CopyStates == {"absent", "waiting", "inflight", "delayed", "acked", "termed",
               "spent", "aged"}

Publishing == {"claimed", "confirm", "failure"}
Consuming  == {"handle", "apply", "insert", "project", "ack", "term"}
Gone       == {"off", "dead", "stopped"}
Places     == {"publish", "boat", "crane", "reconnect"}
              \cup Publishing \cup Consuming \cup Gone

Sources == {"publisher", "consumer"}
Reasons == {"publish_exhausted", "unknown_event", "record_mismatch", "expired",
            "delivery_exhausted"}

\* Every row, copy and worker is in a state the tables, the consumer and the loop
\* know; only an addressed event can be overdue.
TypeOK ==
  /\ outbox \in [Event -> OutboxStates]
  /\ owner \in [Event -> Worker \cup {None}]
  /\ attempts \in [Event -> Nat]
  /\ lapsed \subseteq Event
  /\ overdue \subseteq Event \ Boat
  /\ receipt \in [Event -> Copy \cup {None}]
  /\ letters \subseteq [source : Sources, about : Body, reason : Reasons]
  /\ body \in [Copy -> Body \cup {None}]
  /\ copyState \in [Copy -> CopyStates]
  /\ deliveries \in [Copy -> Nat]
  /\ remembered \subseteq Event
  /\ projected \subseteq Event
  /\ pc \in [Worker -> Places]
  /\ holds \in [Worker -> Event \cup Copy \cup {None}]
  /\ count \in [Worker -> Nat]
  /\ faults \in Nat

Init ==
  /\ outbox = [e \in Event |-> "absent"]
  /\ owner = [e \in Event |-> None]
  /\ attempts = [e \in Event |-> 0]
  /\ lapsed = {} /\ overdue = {}
  /\ receipt = [e \in Event |-> None]
  /\ letters = {}
  /\ body = [c \in Copy |-> None]
  /\ copyState = [c \in Copy |-> "absent"]
  /\ deliveries = [c \in Copy |-> 0]
  /\ remembered = {} /\ projected = {}
  /\ pc = [w \in Worker |-> "off"]
  /\ holds = [w \in Worker |-> None]
  /\ count = [w \in Worker |-> 0]
  /\ faults = 0

-----------------------------------------------------------------------------
(* The broker: what origami uses of JetStream. *)

\* A copy enters the stream under the next sequence number.
Append(c, b) ==
  /\ copyState[c] = "absent"
  /\ \A d \in Copy : copyState[d] = "absent" => c <= d
  /\ body' = [body EXCEPT ![c] = b]
  /\ copyState' = [copyState EXCEPT ![c] = "waiting"]
  /\ UNCHANGED deliveries

\* publish with Nats-Msg-Id: an id in the duplicate window adds no copy.
Store(e) ==
  IF e \in remembered
    THEN UNCHANGED stream
    ELSE /\ \E c \in Copy : Append(c, e)
         /\ remembered' = remembered \cup {e}

\* An acknowledgement or a termination settles a copy, however late it comes.
Settled(c, how) ==
  [copyState EXCEPT ![c] = IF @ \in {"acked", "termed", "aged"} THEN @ ELSE how]

\* Mutant: the consumer is configured one delivery short of what the loop counts.
Returned_Short(c) ==
  [copyState EXCEPT ![c] = IF deliveries[c] + 1 < MaxDeliver THEN "waiting" ELSE "spent"]

\* A copy comes back after its last delivery was not settled, up to the limit.
Returned(c) ==
  [copyState EXCEPT ![c] = IF deliveries[c] < MaxDeliver THEN "waiting" ELSE "spent"]

-----------------------------------------------------------------------------
(* Workers. *)

Holder(w, c) == pc[w] \in Consuming /\ holds[w] = c /\ count[w] = deliveries[c]
HasLease(w, e) == outbox[e] = "leased" /\ owner[e] = w

Goto(w, place) == pc' = [pc EXCEPT ![w] = place]
Drop(w, place) ==
  /\ Goto(w, place)
  /\ holds' = [holds EXCEPT ![w] = None]
  /\ count' = [count EXCEPT ![w] = 0]

Blame(cost) ==
  IF cost THEN faults < MaxFaults /\ faults' = faults + 1 ELSE UNCHANGED faults

Letter(source, about, reason) ==
  [source |-> source, about |-> about, reason |-> reason]

-----------------------------------------------------------------------------
(* publish_once *)

\* The trigger that enqueues boat.ready in the transaction that stores a Boat.
Enqueue(e) ==
  /\ outbox[e] = "absent"
  /\ outbox' = [outbox EXCEPT ![e] = "pending"]
  /\ UNCHANGED <<owner, attempts, lapsed, overdue, receipt, letters, stream,
                 projected, workers, faults>>

\* Mutant: claim_next forgets the rows whose lease has expired.
Claimable_PendingOnly(e) == outbox[e] = "pending"

Claimable(e) == outbox[e] = "pending" \/ (outbox[e] = "leased" /\ e \in lapsed)

\* A pending row's backoff is abstracted: it may be due at once.
ClaimNext(w, e) ==
  /\ pc[w] = "publish"
  /\ Claimable(e)
  /\ outbox' = [outbox EXCEPT ![e] = "leased"]
  /\ owner' = [owner EXCEPT ![e] = w]
  /\ attempts' = [attempts EXCEPT ![e] = @ + 1]
  /\ lapsed' = lapsed \ {e}
  /\ Goto(w, "claimed")
  /\ holds' = [holds EXCEPT ![w] = e]
  /\ UNCHANGED <<overdue, receipt, letters, stream, projected, count, faults>>

ClaimNothing(w) ==
  /\ pc[w] = "publish"
  /\ \A e \in Event : ~Claimable(e)
  /\ Goto(w, "boat")
  /\ UNCHANGED <<table, overdue, ledger, stream, projected, holds, count, faults>>

\* Every write that ends a claim: WHERE state = 'leased' AND lease_owner = me.
\* When no row matches, the flight ends in an error and reconnects.
EndClaim(w, state) ==
  LET e == holds[w] IN
  IF HasLease(w, e)
    THEN /\ outbox' = [outbox EXCEPT ![e] = state]
         /\ owner' = [owner EXCEPT ![e] = None]
         /\ lapsed' = lapsed \ {e}
         /\ Drop(w, "boat")
    ELSE /\ UNCHANGED <<outbox, owner, lapsed>>
         /\ Drop(w, "reconnect")

DeadLetterClaim(w, reason) ==
  /\ EndClaim(w, "dead_letter")
  /\ letters' = letters \cup
       {l \in {Letter("publisher", holds[w], reason)} : HasLease(w, holds[w])}

\* Mutant: validate_claim lets every row through.
Valid_Always(e) == TRUE

\* parse and validate_claim.
Valid(e) == e \notin Malformed

RefuseClaim(w) ==
  /\ pc[w] = "claimed"
  /\ ~Valid(holds[w])
  /\ DeadLetterClaim(w, "record_mismatch")
  /\ UNCHANGED <<attempts, overdue, receipt, stream, projected, faults>>

\* Mutant: a publish that was sent counts as acknowledged.
Publish_Sent(w) ==
  /\ pc[w] = "claimed"
  /\ Valid(holds[w])
  /\ Store(holds[w]) \/ UNCHANGED stream
  /\ Goto(w, "confirm")
  /\ UNCHANGED <<table, overdue, ledger, projected, holds, count, faults>>

\* The broker stores the message or not; only a stored one is acknowledged.
Publish(w) ==
  /\ pc[w] = "claimed"
  /\ Valid(holds[w])
  /\ \/ Store(holds[w]) /\ Goto(w, "confirm")
     \/ Store(holds[w]) /\ Goto(w, "failure")
     \/ UNCHANGED stream /\ Goto(w, "failure")
  /\ UNCHANGED <<table, overdue, ledger, projected, holds, count, faults>>

MarkPublished(w) ==
  /\ pc[w] = "confirm"
  /\ EndClaim(w, "published")
  /\ UNCHANGED <<attempts, overdue, ledger, stream, projected, faults>>

\* The claimed row's attempts are the row's own while the lease is held.
Exhausted(e) == attempts[e] >= MaxPublishAttempts

MarkPublishFailure(w) ==
  /\ pc[w] = "failure"
  /\ IF Exhausted(holds[w])
       THEN DeadLetterClaim(w, "publish_exhausted")
       ELSE EndClaim(w, "pending") /\ UNCHANGED letters
  /\ UNCHANGED <<attempts, overdue, receipt, stream, projected, faults>>

-----------------------------------------------------------------------------
(* consume_once and consume_lane *)

Lane(b) == IF b \in Boat THEN "boat" ELSE "crane"

Fetchable(lane, c) == copyState[c] = "waiting" /\ Lane(body[c]) = lane

Fetch(w, c) ==
  /\ pc[w] \in {"boat", "crane"}
  /\ Fetchable(pc[w], c)
  /\ copyState' = [copyState EXCEPT ![c] = "inflight"]
  /\ deliveries' = [deliveries EXCEPT ![c] = @ + 1]
  /\ Goto(w, "handle")
  /\ holds' = [holds EXCEPT ![w] = c]
  /\ count' = [count EXCEPT ![w] = deliveries[c] + 1]
  /\ UNCHANGED <<table, overdue, ledger, body, remembered, projected, faults>>

\* The addressed lane is drained only when the boat.ready lane is idle.
FetchNothing(w) ==
  /\ pc[w] \in {"boat", "crane"}
  /\ \A c \in Copy : ~Fetchable(pc[w], c)
  /\ Goto(w, IF pc[w] = "boat" THEN "crane" ELSE "publish")
  /\ UNCHANGED <<table, overdue, ledger, stream, projected, holds, count, faults>>

\* What consume_lane refuses before it opens the ledger.
Refused(b) ==
  IF b \in Stray THEN {"unknown_event"} ELSE IF b \in overdue THEN {"expired"} ELSE {}

\* Mutant: record_receipt does not look at the record.
Poisoned_Never(b) == FALSE

\* What the ledger poisons: a pointer to a record that is not the declared one.
Poisoned(b) == b \in Mismatched /\ receipt[b] = None

\* A dead letter is inserted before the delivery is terminated.
DeadLetterDelivery(w, reason) ==
  /\ letters' = letters \cup {Letter("consumer", body[holds[w]], reason)}
  /\ Goto(w, "term")
  /\ UNCHANGED <<table, overdue, receipt, stream, projected, holds, count>>

Refuse(w) ==
  /\ pc[w] = "handle"
  /\ \E reason \in Refused(body[holds[w]]) : DeadLetterDelivery(w, reason)
  /\ UNCHANGED faults

\* Expiry is tested here and the receipt written in a later step.
Admit(w) ==
  /\ pc[w] = "handle"
  /\ Refused(body[holds[w]]) = {}
  /\ Goto(w, "apply")
  /\ UNCHANGED <<table, overdue, ledger, stream, projected, holds, count, faults>>

Poison(w) ==
  /\ pc[w] = "apply"
  /\ Poisoned(body[holds[w]])
  /\ DeadLetterDelivery(w, "record_mismatch")
  /\ UNCHANGED faults

\* The receipt row: inserted once, then only read.
Recorded(b, c) == [receipt EXCEPT ![b] = IF @ = None THEN c ELSE @]

\* Mutant: only an inserted receipt is projected, a replayed one is not.
AfterReceipt_InsertOnly(b) ==
  IF b \in Boat /\ receipt[b] = None THEN "project" ELSE "ack"

\* The boat.ready lane projects on insert and on replay.
AfterReceipt(b) == IF b \in Boat THEN "project" ELSE "ack"

\* record_receipt finds no receipt, and the record it reads and locks matches.
MissReceipt(w) ==
  LET b == body[holds[w]] IN
  /\ pc[w] = "apply"
  /\ receipt[b] = None /\ ~Poisoned(b)
  /\ Goto(w, "insert")
  /\ UNCHANGED <<table, overdue, ledger, stream, projected, holds, count, faults>>

\* record_receipt commits: the receipt it found is replayed, or its own is inserted.
RecordReceipt(w) ==
  LET b == body[holds[w]] IN
  /\ \/ pc[w] = "apply" /\ receipt[b] # None
     \/ pc[w] = "insert" /\ receipt[b] = None /\ ~Poisoned(b)
  /\ receipt' = Recorded(b, holds[w])
  /\ Goto(w, AfterReceipt(b))
  /\ UNCHANGED <<table, overdue, letters, stream, projected, holds, count, faults>>

\* Another transaction inserted the receipt since: the insert violates its key.
Beaten(w) == pc[w] = "insert" /\ receipt[body[holds[w]]] # None

\* The ledger fails for a reason that may pass: a Nak, which may be lost.
RetryLater(w) ==
  LET c == holds[w] IN
  /\ pc[w] \in {"apply", "insert"}
  /\ count[w] < MaxDeliver
  /\ \/ /\ copyState' = [copyState EXCEPT ![c] = IF @ = "inflight" THEN "delayed" ELSE @]
        /\ Blame(~Beaten(w))
     \/ UNCHANGED copyState /\ Blame(TRUE)
  /\ Drop(w, "publish")
  /\ UNCHANGED <<table, overdue, ledger, body, deliveries, remembered, projected>>

\* The same failure on the last delivery is a dead letter.
Exhaust(w) ==
  /\ pc[w] \in {"apply", "insert"}
  /\ count[w] >= MaxDeliver
  /\ Blame(~Beaten(w))
  /\ DeadLetterDelivery(w, "delivery_exhausted")

\* The boat.ready lane publishes the receipt's projection before it acknowledges.
Project(w) ==
  /\ pc[w] = "project"
  /\ projected' = projected \cup {body[holds[w]]}
  /\ Goto(w, "ack")
  /\ UNCHANGED <<table, overdue, ledger, stream, holds, count, faults>>

Ack(w) ==
  /\ pc[w] = "ack"
  /\ copyState' = Settled(holds[w], "acked")
  /\ Drop(w, "publish")
  /\ UNCHANGED <<table, overdue, ledger, body, deliveries, remembered, projected, faults>>

\* ack_with(Term) is sent without waiting for an answer, so it may be lost.
Term(w) ==
  /\ pc[w] = "term"
  /\ \/ copyState' = Settled(holds[w], "termed") /\ UNCHANGED faults
     \/ UNCHANGED copyState /\ Blame(TRUE)
  /\ Drop(w, "publish")
  /\ UNCHANGED <<table, overdue, ledger, body, deliveries, remembered, projected>>

-----------------------------------------------------------------------------
(* serve: starting, failing, closing *)

Start(w) ==
  /\ pc[w] = "off"
  /\ Goto(w, "publish")
  /\ UNCHANGED <<table, overdue, ledger, stream, projected, holds, count, faults>>

\* An awaited call errs, the flight ends, and serve will connect again.
Fault(w) ==
  /\ pc[w] \in Publishing \cup Consuming
  /\ Blame(TRUE)
  /\ Drop(w, "reconnect")
  /\ UNCHANGED <<table, overdue, ledger, stream, projected>>

Reconnect(w) ==
  /\ pc[w] = "reconnect"
  /\ Goto(w, "publish")
  /\ UNCHANGED <<table, overdue, ledger, stream, projected, holds, count, faults>>

\* One worker is always left: a House that stays down delivers nothing.
Survived(w) == \E v \in Worker \ {w} : pc[v] \notin {"dead", "stopped"}

\* Cancellation is honoured where ticks and serve test it.
Stop(w) ==
  /\ pc[w] \in {"publish", "reconnect"}
  /\ Survived(w)
  /\ Drop(w, "stopped")
  /\ UNCHANGED <<table, overdue, ledger, stream, projected, faults>>

Crash(w) ==
  /\ pc[w] \notin Gone
  /\ Survived(w)
  /\ Blame(pc[w] \in Publishing \cup Consuming)
  /\ Drop(w, "dead")
  /\ UNCHANGED <<table, overdue, ledger, stream, projected>>

-----------------------------------------------------------------------------
(* Time and other producers *)

LeaseLapses(e) ==
  /\ outbox[e] = "leased"
  /\ e \notin lapsed
  /\ lapsed' = lapsed \cup {e}
  /\ Blame(\E w \in Worker : owner[e] = w /\ holds[w] = e /\ pc[w] \in Publishing)
  /\ UNCHANGED <<outbox, owner, attempts, overdue, ledger, stream, projected, workers>>

Return(c) ==
  /\ copyState[c] \in {"inflight", "delayed"}
  /\ Blame(copyState[c] = "inflight" /\ \E w \in Worker : Holder(w, c))
  /\ copyState' = Returned(c)
  /\ UNCHANGED <<table, overdue, ledger, body, deliveries, remembered, projected, workers>>

\* The boat.ready lane refuses an expiry.
Perishable == Event \ Boat

Expire(e) ==
  /\ e \in Perishable \ overdue
  /\ overdue' = overdue \cup {e}
  /\ UNCHANGED <<table, ledger, stream, projected, workers, faults>>

WindowCloses(e) ==
  /\ e \in remembered
  /\ remembered' = remembered \ {e}
  /\ UNCHANGED <<table, overdue, ledger, body, copyState, deliveries, projected, workers, faults>>

\* The stream's limits (max_age, max_messages, discard old) drop a copy.
Age(c) ==
  /\ copyState[c] \notin {"absent", "acked", "termed", "aged"}
  /\ Cardinality({d \in Copy : copyState[d] = "aged"}) < MaxAged
  /\ copyState' = [copyState EXCEPT ![c] = "aged"]
  /\ UNCHANGED <<table, overdue, ledger, body, deliveries, remembered, projected, workers, faults>>

Inject(s) ==
  /\ \A c \in Copy : body[c] # s
  /\ \E c \in Copy : Append(c, s)
  /\ UNCHANGED <<table, overdue, ledger, remembered, projected, workers, faults>>

-----------------------------------------------------------------------------
PublishOnce(w) ==
  \/ \E e \in Event : ClaimNext(w, e)
  \/ ClaimNothing(w)
  \/ RefuseClaim(w)
  \/ Publish(w)
  \/ MarkPublished(w)
  \/ MarkPublishFailure(w)

ConsumeOnce(w) ==
  \/ \E c \in Copy : Fetch(w, c)
  \/ FetchNothing(w)
  \/ Refuse(w)
  \/ Admit(w)
  \/ Poison(w)
  \/ MissReceipt(w)
  \/ RecordReceipt(w)
  \/ RetryLater(w)
  \/ Exhaust(w)
  \/ Project(w)
  \/ Ack(w)
  \/ Term(w)

Tick(w) == PublishOnce(w) \/ ConsumeOnce(w) \/ Reconnect(w)

Next ==
  \/ \E w \in Worker : Tick(w) \/ Start(w) \/ Fault(w) \/ Stop(w) \/ Crash(w)
  \/ \E e \in Event : Enqueue(e) \/ LeaseLapses(e) \/ Expire(e) \/ WindowCloses(e)
  \/ \E c \in Copy : Return(c) \/ Age(c)
  \/ \E s \in Stray : Inject(s)

Spec == Init /\ [][Next]_vars

\* A running worker keeps ticking, a House is started, time passes.
Fairness ==
  /\ \A w \in Worker : WF_vars(Tick(w)) /\ WF_vars(Start(w))
  /\ \A e \in Event : WF_vars(LeaseLapses(e))
  /\ \A c \in Copy : WF_vars(Return(c))

FairSpec == Spec /\ Fairness
-----------------------------------------------------------------------------
(* Properties *)

Lettered(b) == \E l \in letters : l.about = b

\* A row becomes published only after the broker has stored the message: the
\* comment of publish_once on the order of the acknowledgement and the update.
PublishedIsStored ==
  \A e \in Event : outbox[e] = "published" => \E c \in Copy : body[c] = e

\* The commit comes before the acknowledgement: what the broker will never send
\* again left a receipt (and, for a Boat, a projection) or a dead letter.
RecordedBeforeSettled ==
  \A c \in Copy :
    /\ copyState[c] = "acked" =>
         /\ body[c] \in Event
         /\ receipt[body[c]] # None
         /\ body[c] \in Boat => body[c] \in projected
    /\ copyState[c] = "termed" => \E l \in letters : l.source = "consumer" /\ l.about = body[c]

\* A published event no copy of which will come back and of which no receipt and
\* no dead letter tells.
Vanished(e) ==
  /\ outbox[e] = "published"
  /\ receipt[e] = None
  /\ ~Lettered(e)
  /\ \A c \in Copy : body[c] = e => copyState[c] = "spent"

\* MaxDeliver deliveries must each fail before an event can be lost in silence.
LostOnlyAfterFaults == \A e \in Event : Vanished(e) => faults >= MaxDeliver

\* RUNTIME_ARCHITECTURE.md:854: exhausted records produce dead-letter state.
NoneVanishes == \A e \in Event : ~Vanished(e)

\* cranes/FEATURES.md: attempt 10 ends the row.  Each further attempt has cost
\* an abandoned or overrun claim.
AttemptsBounded == \A e \in Event : attempts[e] <= MaxPublishAttempts + faults

\* cranes/FEATURES.md: attempt 10 ends the row.
LastAttemptEndsRow == \A e \in Event : attempts[e] <= MaxPublishAttempts

\* A receipt names a record that matched, and never an event the outbox refused.
ReceiptsAreSound ==
  \A e \in Event : receipt[e] # None =>
    /\ e \notin Malformed \cup Mismatched
    /\ body[receipt[e]] = e

\* delivery.rs: a claimed outbox row is always published or released before exit.
ExitHoldsNoLease ==
  \A w \in Worker, e \in Event : pc[w] = "stopped" => ~HasLease(w, e)

\* cranes/FEATURES.md: a redelivery reads the recorded receipt and replays it.
RedeliveryReplays ==
  [][\A w \in Worker :
       pc[w] \in {"handle", "apply", "insert"} /\ pc'[w] = "term" /\ body[holds[w]] \in Event
         => receipt[body[holds[w]]] = None]_vars

\* Nothing undoes an outcome: a settled row, a first receipt, a dead letter, or
\* the settlement of a copy stays, whichever worker acts on a stale claim.
OutcomesAreFinal ==
  [][/\ \A e \in Event :
          /\ outbox[e] \in {"published", "dead_letter"} => outbox'[e] = outbox[e]
          /\ receipt[e] # None => receipt'[e] = receipt[e]
     /\ letters \subseteq letters'
     /\ \A c \in Copy : copyState[c] \in {"acked", "termed"} => copyState'[c] = copyState[c]]_vars

\* A Boat whose receipt is committed is projected in the end: the gap between
\* the commit and the projection heals by redelivery.
EventuallyProjected ==
  \A e \in Event \cap Boat : receipt[e] # None ~> e \in projected

\* The delivery implements the ledger: the outbox owes, a receipt is the one
\* reception, a dead letter of either source is the refusal.
Ledger == INSTANCE CraneLedger WITH
  Sound    <- Event \ (Malformed \cup Mismatched),
  owed     <- {e \in Event : outbox[e] # "absent"},
  received <- {e \in Event : receipt[e] # None},
  refused  <- {e \in Event : Lettered(e)}

\* No step of any worker receives twice, receives what was never enqueued or does
\* not match its record, or takes an answer back.
KeepsLedger == Ledger!Safe

\* Every owed event is answered too, while the faults stay below MaxDeliver.
AnswersLedger == Ledger!Spec
=============================================================================
