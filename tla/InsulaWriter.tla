----------------------------- MODULE InsulaWriter -----------------------------
(***************************************************************************)
(* The Insula emitter of a process (akasha/src/insula_writer.rs): threads   *)
(* number their observations and offer them to a bounded channel, one drain *)
(* task batches and ingests them, and the process's exit flushes the drain  *)
(* under a ceiling.                                                         *)
(*                                                                          *)
(* An observation is its writer_sequence.  The counter `dropped` is kept as *)
(* the set it counts (its cap, 10^9, is out of reach).  Every binding is a  *)
(* group of its own; a group whose ingest fails is forgotten like one that  *)
(* was recorded (persist_groups discards what ingest_batch returns).        *)
(***************************************************************************)
EXTENDS Naturals, Sequences, FiniteSets

CONSTANTS Threads,
          Capacity,       \* QUEUE_CAPACITY
          BatchMax,       \* INSULA_MAX_BATCH_EVENTS
          MaxObservations \* bound: numbers the threads take

ASSUME InsulaAssumption == Capacity \in Nat \ {0} /\ BatchMax \in Nat \ {0, 1}

VARIABLES writer,  \* WriterState: sequence, settled, dropped, accepting
          channel, \* what the receiver holds, and whether it is there
          thread,  \* where each thread is in observation() and enqueue()
          drain,   \* the drain task: its place, the batch in hand, its length
          flush,   \* flush_insula_emitter: its place and the count it reports
          ledger   \* history: what was ingested or told by a drop row, what
                   \* failed to be, and what was enqueued (or noted as dropped)
                   \* before the flush began

insulaVars == <<writer, channel, thread, drain, flush, ledger>>

InsulaInit ==
    /\ writer = [sequence |-> 0, settled |-> 0, dropped |-> {}, accepting |-> TRUE]
    /\ channel = [open |-> TRUE, queue |-> <<>>]
    /\ thread = [t \in Threads |-> [at |-> "idle", number |-> 0]]
    /\ drain = [at |-> "receive", batch |-> <<>>, size |-> 0]
    /\ flush = [at |-> "running", reported |-> 0]
    /\ ledger = [ingested |-> {}, told |-> {}, failed |-> {}, untold |-> {}, early |-> {}]

Event(n) == [number |-> n, drops |-> {}]

----------------------------------------------------------------------------
(* A thread.  The doors look at `accepting` before they number, but the end *)
(* of a span does not: the look that counts is enqueue's.                   *)

TakeNumber(t) ==
    /\ thread[t].at = "idle"
    /\ writer.sequence < MaxObservations
    /\ writer' = [writer EXCEPT !.sequence = @ + 1]
    /\ thread' = [thread EXCEPT ![t] = [at |-> "numbered", number |-> writer.sequence + 1]]
    /\ UNCHANGED <<channel, drain, flush, ledger>>

LookAccepting(t) ==
    /\ thread[t].at = "numbered"
    /\ thread' = [thread EXCEPT ![t].at = IF writer.accepting THEN "sending" ELSE "idle"]
    /\ UNCHANGED <<writer, channel, drain, flush, ledger>>

Early(n) == ledger' = IF flush.at = "running" THEN [ledger EXCEPT !.early = @ \cup {n}]
                      ELSE ledger

HasRoom == channel.open /\ Len(channel.queue) < Capacity

TrySend(t) ==
    LET n == thread[t].number IN
    /\ thread[t].at = "sending"
    /\ IF HasRoom
       THEN /\ channel' = [channel EXCEPT !.queue = Append(@, Event(n))]
            /\ thread' = [thread EXCEPT ![t].at = "idle"]
            /\ Early(n)
       ELSE /\ thread' = [thread EXCEPT ![t].at = "dropping"]
            /\ UNCHANGED <<channel, ledger>>
    /\ UNCHANGED <<writer, drain, flush>>

NoteDrop(t) ==
    LET n == thread[t].number IN
    /\ thread[t].at = "dropping"
    /\ writer' = [writer EXCEPT !.dropped = @ \cup {n}]
    /\ thread' = [thread EXCEPT ![t].at = "idle"]
    /\ Early(n)
    /\ UNCHANGED <<channel, drain, flush>>

----------------------------------------------------------------------------
(* The drain                                                               *)

ShuttingDown == flush.at \in {"waiting", "aborting", "exited"}

\* recv, or, once the shutdown is seen, try_recv.
Receive ==
    /\ drain.at = "receive"
    /\ \/ /\ channel.queue # <<>>
          /\ drain' = [drain EXCEPT !.at = "swap", !.batch = <<Head(channel.queue)>>]
          /\ channel' = [channel EXCEPT !.queue = Tail(@)]
       \/ /\ channel.queue = <<>> /\ ShuttingDown
          /\ drain' = [drain EXCEPT !.at = "swap"]
          /\ UNCHANGED channel
    /\ UNCHANGED <<writer, thread, flush, ledger>>

NothingLeft_Unswapped == drain.batch = <<>>
NothingLeft == drain.batch = <<>> /\ writer.dropped = {}

\* The count of drops is taken and becomes a numbered row ahead of the batch.
\* With nothing in hand and none dropped the task ends and the channel closes.
SwapDropped ==
    /\ drain.at = "swap"
    /\ IF NothingLeft
       THEN /\ drain' = [drain EXCEPT !.at = "done"]
            /\ channel' = [open |-> FALSE, queue |-> <<>>]
            /\ UNCHANGED writer
       ELSE /\ writer' = [writer EXCEPT !.dropped = {},
                                        !.sequence = @ + IF writer.dropped = {} THEN 0 ELSE 1]
            /\ drain' = [drain EXCEPT !.at = "fill",
                            !.batch = IF writer.dropped = {} THEN @
                                      ELSE <<[number |-> writer'.sequence,
                                              drops |-> writer.dropped]>> \o @]
            /\ UNCHANGED channel
    /\ UNCHANGED <<thread, flush, ledger>>

FillBatch ==
    LET room == BatchMax - Len(drain.batch)
        taken == IF Len(channel.queue) < room THEN Len(channel.queue) ELSE room
        batch == drain.batch \o SubSeq(channel.queue, 1, taken) IN
    /\ drain.at = "fill"
    /\ drain' = [at |-> "ingest", batch |-> batch, size |-> Len(batch)]
    /\ channel' = [channel EXCEPT !.queue = SubSeq(@, taken + 1, Len(@))]
    /\ UNCHANGED <<writer, thread, flush, ledger>>

Record(row) == [ledger EXCEPT !.ingested = @ \cup {row.number}, !.told = @ \cup row.drops]
Forget(row) == [ledger EXCEPT !.failed = @ \cup {row.number}, !.untold = @ \cup row.drops]

\* What the ingest comes to is not looked at.
IngestGroup ==
    /\ drain.at = "ingest" /\ drain.batch # <<>>
    /\ ledger' \in {Record(Head(drain.batch)), Forget(Head(drain.batch))}
    /\ drain' = [drain EXCEPT !.batch = Tail(@)]
    /\ UNCHANGED <<writer, channel, thread, flush>>

Settle ==
    /\ drain.at = "ingest" /\ drain.batch = <<>>
    /\ writer' = [writer EXCEPT !.settled = @ + drain.size]
    /\ drain' = [drain EXCEPT !.at = "receive", !.size = 0]
    /\ UNCHANGED <<channel, thread, flush, ledger>>

----------------------------------------------------------------------------
(* The flush                                                               *)

CloseEmitter ==
    /\ flush.at = "running"
    /\ writer' = [writer EXCEPT !.accepting = FALSE]
    /\ flush' = [flush EXCEPT !.at = "closing"]
    /\ UNCHANGED <<channel, thread, drain, ledger>>

SignalShutdown ==
    /\ flush.at = "closing"
    /\ flush' = [flush EXCEPT !.at = "waiting"]
    /\ UNCHANGED <<writer, channel, thread, drain, ledger>>

DrainSettled ==
    /\ flush.at = "waiting" /\ drain.at = "done"
    /\ flush' = [at |-> "exited", reported |-> 0]
    /\ UNCHANGED <<writer, channel, thread, drain, ledger>>

HitCeiling ==
    /\ flush.at = "waiting"
    /\ flush' = [flush EXCEPT !.at = "aborting"]
    /\ UNCHANGED <<writer, channel, thread, drain, ledger>>

\* The abort lands where the task awaits, in recv or inside an ingest, which
\* has then committed or not; a task that ends first is not aborted.
Abort ==
    /\ flush.at = "aborting"
    /\ \/ drain.at = "receive" /\ UNCHANGED ledger
       \/ /\ drain.at = "ingest" /\ drain.batch # <<>>
          /\ ledger' \in {ledger, Record(Head(drain.batch))}
    /\ drain' = [drain EXCEPT !.at = "aborted"]
    /\ channel' = [open |-> FALSE, queue |-> <<>>]
    /\ UNCHANGED <<writer, thread, flush>>

ReportTail ==
    /\ flush.at = "aborting" /\ drain.at \in {"done", "aborted"}
    /\ flush' = [at |-> "exited",
                 reported |-> writer.sequence - writer.settled + Cardinality(writer.dropped)]
    /\ UNCHANGED <<writer, channel, thread, drain, ledger>>

InsulaNext ==
    \/ \E t \in Threads : TakeNumber(t) \/ LookAccepting(t) \/ TrySend(t) \/ NoteDrop(t)
    \/ Receive \/ SwapDropped \/ FillBatch \/ IngestGroup \/ Settle
    \/ CloseEmitter \/ SignalShutdown \/ DrainSettled \/ HitCeiling \/ Abort \/ ReportTail

InsulaSpec == InsulaInit /\ [][InsulaNext]_insulaVars

----------------------------------------------------------------------------
Rows == Seq([number : Nat, drops : SUBSET Nat])

InsulaTypeOK ==
    /\ writer \in [sequence : Nat, settled : Nat, dropped : SUBSET Nat, accepting : BOOLEAN]
    /\ channel \in [open : BOOLEAN, queue : Rows] /\ Len(channel.queue) <= Capacity
    /\ thread \in [Threads -> [at : {"idle", "numbered", "sending", "dropping"}, number : Nat]]
    /\ drain \in [at : {"receive", "swap", "fill", "ingest", "done", "aborted"},
                  batch : Rows, size : 0..BatchMax]
    /\ Len(drain.batch) <= BatchMax
    /\ flush \in [at : {"running", "closing", "waiting", "aborting", "exited"}, reported : Nat]
    /\ \A seen \in {ledger.ingested, ledger.told, ledger.failed, ledger.untold, ledger.early} :
          seen \subseteq Nat

\* However the flush ends, what was enqueued or noted as dropped before it
\* began was ingested, told by a drop row that was, or is within the count
\* reported ("when the ceiling hits, the dropped count goes to stderr"), but
\* for what was in an ingest that failed: that is counted as settled and told
\* nowhere (insula_writer.rs:597, 616).
Lost == ledger.early \ (ledger.ingested \cup ledger.told)
Untold == Lost \ (ledger.failed \cup ledger.untold)
TailIsTold == flush.at = "exited" => Cardinality(Untold) <= flush.reported

\* drain_with_ceiling: "On the ceiling the task is aborted and the count of
\* observations it never persisted is returned".  It does not hold: a batch
\* whose ingest failed before the ceiling counts as settled.
CeilingCountsLost ==
    flush.at = "exited" /\ drain.at = "aborted" => Cardinality(Lost) <= flush.reported

\* The same sentence read the other way, which does not hold either: a batch
\* aborted half way is counted whole, and a drop once by its own number and
\* once by the counter.
TailCountIsExact ==
    flush.at = "exited" /\ drain.at = "aborted" =>
        flush.reported <= Cardinality((1..writer.sequence) \ ledger.ingested)
=============================================================================
