----------------------------- MODULE HostPolicy -----------------------------
(***************************************************************************)
(* The room Host's versioned recall-policy projection: the policy in the    *)
(* room-state file, the Host's copy with its cursor, the three files beside *)
(* it, the WebSocket tasks, and the clients at the other end: panels that   *)
(* subscribe and apply deltas, agents that send one command a connection.   *)
(***************************************************************************)
EXTENDS Naturals, Sequences, FiniteSets, SequencesExt

CONSTANTS Panels, Agents, None, Mixed,
          ReceiptLimit,     \* RECEIPT_LIMIT, 512 in the code
          Backlog,          \* broadcast::channel(64)
          MaxContents, MaxMishaps

\* Each client sends one command, and sends it again under the same key.
Clients == Panels \cup Agents
Contents == 1..MaxContents
Outcomes == {"accepted", "refused", "failed"}
ReceiptRow == [key : Clients, body : Nat, verdict : Outcomes, try : Nat]
RuntimeRow == [v : Nat, s : Contents, receipts : Seq(ReceiptRow), done : [Clients -> Nat]]
SnapshotRow == [is : {"snapshot"}, v : Nat, s : Nat]
ViewRow == [v : Nat, s : Nat \cup {Mixed}]

ASSUME PolicyAssumption ==
    /\ ReceiptLimit \in Nat \ {0} /\ Backlog \in Nat \ {0} /\ MaxContents \in Nat \ {0}
    /\ None \notin RuntimeRow /\ None \notin SnapshotRow /\ None \notin ViewRow

VARIABLES
    room,      \* the content of recallPolicy in the room-state file
    disk,      \* the cursor, the receipts and the sessions in the state directory
    host,      \* the RuntimeState of the process, None while it is down
    sock,      \* the socket task of each client, None while there is none
    panel,     \* what each client shows and how its one command stands
    minted,    \* contents ever given to the policy
    shown,     \* history: the versions and contents any answer has carried
    torn,      \* history: a version was shown and died unsaved
    doubtful,  \* history: commands that took effect and have no receipt any more
    unheard,   \* history: the version moved and nothing told the subscribers
    mishaps    \* how many edits, write failures, crashes and hang-ups there were

hostVars == <<room, disk, host, sock, panel, minted, shown, torn, doubtful, unheard, mishaps>>

Untouched == [c \in Clients |-> 0]
Fresh == minted + 1
Mishap == mishaps < MaxMishaps /\ mishaps' = mishaps + 1

Snapshot == [do |-> "snapshot"]
NewSocket(asks) == [asks |-> asks, ready |-> None, delta |-> None, subscribed |-> FALSE,
                    feed |-> <<>>, lagged |-> FALSE, gone |-> FALSE]

HostPolicyInit ==
    /\ room = 1 /\ minted = 1
    /\ disk = [v |-> 1, s |-> 1, receipts |-> <<>>, done |-> Untouched]
    /\ host = disk
    /\ sock = [c \in Clients |-> None]
    /\ panel = [c \in Clients |-> [view |-> None, phase |-> "idle", try |-> 0]]
    /\ shown = {} /\ torn = FALSE /\ doubtful = {} /\ unheard = FALSE /\ mishaps = 0

-----------------------------------------------------------------------------
(* What a command does to the process and to its files. n is the number of  *)
(* its writes that succeed: the first that does not ends the command.       *)

\* An outcome is correlated with the try whose message it answers.
Answer(verdict, try) == [is |-> "answer", verdict |-> verdict, try |-> try]

\* What the idempotency hash is taken of: a mode's base, or an agent's facts.
Facts == 0
Body(ask) == IF ask.do = "set" THEN ask.base ELSE Facts
NewReceipt(k, ask, verdict) == [key |-> k, body |-> Body(ask), verdict |-> verdict, try |-> ask.try]

RefreshWrites == IF room = host.s THEN 0 ELSE 2

\* Mutant: the reloaded policy keeps its version.
Refreshed_SameVersion(n) ==
    LET mem == [host EXCEPT !.s = room, !.done = Untouched]
    IN IF room = host.s THEN [mem |-> host, files |-> disk]
       ELSE [mem |-> mem, files |-> [disk EXCEPT !.s = IF n >= 2 THEN mem.s ELSE @]]

\* The room file was edited under the Host: a new version, and fresh sessions.
Refreshed(n) ==
    IF room = host.s THEN [mem |-> host, files |-> disk]
    ELSE LET mem == [host EXCEPT !.v = @ + 1, !.s = room, !.done = Untouched]
         IN [mem |-> mem,
             files |-> [disk EXCEPT !.done = IF n >= 1 THEN mem.done ELSE @,
                                    !.v = IF n >= 2 THEN mem.v ELSE @,
                                    !.s = IF n >= 2 THEN mem.s ELSE @]]

\* Mutant: the drain takes the newest.
Kept_Oldest(receipts, r) == SubSeq(Append(receipts, r), 1, ReceiptLimit)

Kept(receipts, r) == LET all == Append(receipts, r)
                     IN SubSeq(all, Max({1, Len(all) - ReceiptLimit + 1}), Len(all))

\* The room file, the sessions, the cursor and the receipt are written in turn.
CommitWrites == 4
Committed(st, k, ask, effect, n) ==
    LET mem0 == [st.mem EXCEPT !.done = effect]
        mem1 == IF n >= 1 THEN [mem0 EXCEPT !.v = @ + 1, !.s = Fresh] ELSE mem0
        kept == Kept(mem0.receipts, NewReceipt(k, ask, "accepted"))
    IN [mem |-> IF n >= 3 THEN [mem1 EXCEPT !.receipts = kept] ELSE mem1,
        files |-> [st.files EXCEPT !.done = IF n >= 2 THEN effect ELSE @,
                                   !.v = IF n >= 3 THEN mem1.v ELSE @,
                                   !.s = IF n >= 3 THEN mem1.s ELSE @,
                                   !.receipts = IF n >= 4 THEN kept ELSE @],
        room |-> IF n >= 1 THEN Fresh ELSE room,
        minted |-> IF n >= 1 THEN Fresh ELSE minted,
        ready |-> Answer(IF n = 4 THEN "accepted" ELSE "failed", ask.try),
        delta |-> IF n = 4 THEN [is |-> "delta", base |-> st.mem.v, from |-> st.mem.s,
                                 next |-> mem1.v, s |-> mem1.s]
                  ELSE None]

Still(st, ready) == [mem |-> st.mem, files |-> st.files, room |-> room, minted |-> minted,
                     ready |-> ready, delta |-> None]

Here == [mem |-> host, files |-> disk]
ReceiptsOf(k) == {i \in DOMAIN host.receipts : host.receipts[i].key = k}
HasReceipt(k) == ReceiptsOf(k) # {}

\* The outcome of the first try is sent as it was; another body is refused.
Replayed(k, ask) ==
    LET r == host.receipts[Min(ReceiptsOf(k))]
    IN Still(Here, IF r.body = Body(ask) THEN Answer(r.verdict, r.try) ELSE Answer("refused", ask.try))

\* The refusal of a stale base is kept as a receipt; its write may fail unseen.
Refused(st, k, ask, n) ==
    LET kept == Kept(st.mem.receipts, NewReceipt(k, ask, "refused"))
        mem == [st.mem EXCEPT !.receipts = kept]
    IN Still([mem |-> mem, files |-> IF n = 1 THEN [st.files EXCEPT !.receipts = kept] ELSE st.files],
             Answer("refused", ask.try))

ServeSnapshot(n) ==
    LET st == Refreshed(n)
    IN Still(st, IF n = RefreshWrites THEN [is |-> "snapshot", v |-> st.mem.v, s |-> st.mem.s]
                 ELSE [is |-> "failed"])

SetRequestedMode(k, ask, n) ==
    LET st == Refreshed(n)
    IN IF n < RefreshWrites THEN Still(st, Answer("failed", ask.try))
       ELSE IF ask.base # st.mem.v THEN Refused(st, k, ask, n - RefreshWrites)
       ELSE Committed(st, k, ask, st.mem.done, n - RefreshWrites)

Evaluate(k, ask, n) == Committed(Here, k, ask, [host.done EXCEPT ![k] = @ + 1], n)

\* The writes a request of c makes when all of them succeed.
Writes(c, ask) ==
    IF ask.do = "snapshot" THEN RefreshWrites
    ELSE IF HasReceipt(c) THEN 0
    ELSE IF ask.do = "set" THEN RefreshWrites + (IF ask.base = Refreshed(2).mem.v THEN CommitWrites ELSE 1)
    ELSE CommitWrites

Process(c, ask, n) ==
    IF ask.do = "snapshot" THEN ServeSnapshot(n)
    ELSE IF HasReceipt(c) THEN Replayed(c, ask)
    ELSE IF ask.do = "set" THEN SetRequestedMode(c, ask, n)
    ELSE Evaluate(c, ask, n)

-----------------------------------------------------------------------------
(* The Host. *)

Busy(c) == sock[c].ready # None
Pending(c) == sock[c] # None /\ sock[c].asks # <<>> /\ ~Busy(c)

\* A command ran past its effect and not as far as its receipt, or its receipt
\* made room for later ones.
Doubt(c, ask, n, receipts) ==
    doubtful \cup {d \in Clients : HasReceipt(d) /\ \A r \in ToSet(receipts) : r.key # d}
             \cup (IF ask.do = "evaluate" /\ ~HasReceipt(c) /\ n < CommitWrites THEN {c} ELSE {})

\* One request under the runtime lock, and the answer it leaves to be sent.
Handle(c) ==
    /\ host # None /\ Pending(c)
    /\ LET ask == Head(sock[c].asks) IN
       \E n \in 0..Writes(c, ask) :
          LET out == Process(c, ask, n) IN
          /\ out.minted <= MaxContents
          /\ IF n = Writes(c, ask) THEN UNCHANGED mishaps ELSE Mishap
          /\ host' = out.mem /\ disk' = out.files /\ room' = out.room /\ minted' = out.minted
          /\ sock' = [sock EXCEPT ![c].asks = Tail(@), ![c].ready = out.ready,
                                  ![c].delta = out.delta,
                                  ![c].subscribed = @ \/ out.ready.is = "snapshot"]
          /\ shown' = shown \cup {<<out.mem.v, out.mem.s>>}
          /\ doubtful' = Doubt(c, ask, n, out.mem.receipts)
          /\ unheard' = (unheard \/ (out.mem.v # host.v /\ out.delta = None))
    /\ UNCHANGED <<panel, torn>>

Fed(feed, d) == LET all == Append(feed, d) IN SubSeq(all, Max({1, Len(all) - Backlog + 1}), Len(all))
Broadcast(socks, d) ==
    [c \in Clients |-> IF socks[c] = None THEN None
                       ELSE [socks[c] EXCEPT !.feed = Fed(@, d),
                                             !.lagged = @ \/ Len(socks[c].feed) = Backlog]]

\* The mutations carry the fields that changed: laid over another content they
\* leave neither.
Patched(view, d) == [v |-> d.next, s |-> IF view.s = d.from THEN d.s ELSE Mixed]

\* An outcome that is not correlated with the pending try is left aside.
Settled(p, e) == IF p.phase = "pending" /\ p.try = e.try THEN [p EXCEPT !.phase = e.verdict] ELSE p

Told(p, e) == IF e.is = "snapshot" THEN [p EXCEPT !.view = [v |-> e.v, s |-> e.s]]
              ELSE IF e.is = "answer" THEN Settled(p, e) ELSE p

\* The lock is gone: the answer goes to its own client, then the delta to all.
\* An agent closes its connection on the answer.
Respond(c) ==
    /\ sock[c] # None /\ Busy(c)
    /\ LET sent == [sock EXCEPT ![c].ready = None, ![c].delta = None, ![c].gone = @ \/ c \in Agents]
           d == sock[c].delta
       IN IF d = None THEN sock' = sent /\ UNCHANGED unheard
          ELSE sock' = Broadcast(sent, d) /\ unheard' = (unheard /\ host # None /\ d.next # host.v)
    /\ panel' = IF sock[c].gone THEN panel ELSE [panel EXCEPT ![c] = Told(@, sock[c].ready)]
    /\ UNCHANGED <<room, disk, host, minted, shown, torn, doubtful, mishaps>>

\* The client has left and the send fails: the task ends and its delta with it.
FailToRespond(c) ==
    /\ sock[c] # None /\ Busy(c) /\ sock[c].gone
    /\ sock' = [sock EXCEPT ![c] = None]
    /\ unheard' = (unheard \/ sock[c].delta # None)
    /\ UNCHANGED <<room, disk, host, panel, minted, shown, torn, doubtful, mishaps>>

\* Mutant: a delta that does not fit is dropped.
Resyncing_Never(socket) == socket

\* request_snapshot, sent on the panel's own socket.
Resyncing(socket) == [socket EXCEPT !.asks = Append(@, Snapshot)]

\* The next delta of the feed: applied at its base, answered with a request for
\* a snapshot anywhere else.
Forward(c) ==
    /\ sock[c] # None /\ ~Busy(c) /\ sock[c].subscribed /\ sock[c].feed # <<>> /\ ~sock[c].lagged
    /\ LET d == Head(sock[c].feed)
           rest == [sock[c] EXCEPT !.feed = Tail(@)]
       IN \/ /\ sock[c].gone
             /\ sock' = [sock EXCEPT ![c] = rest] /\ UNCHANGED panel
          \/ /\ ~sock[c].gone /\ d.base = panel[c].view.v
             /\ panel' = [panel EXCEPT ![c].view = Patched(@, d)]
             /\ sock' = [sock EXCEPT ![c] = rest]
          \/ /\ ~sock[c].gone /\ d.base # panel[c].view.v
             /\ sock' = [sock EXCEPT ![c] = Resyncing(rest)]
             /\ UNCHANGED panel
    /\ UNCHANGED <<room, disk, host, minted, shown, torn, doubtful, unheard, mishaps>>

Lost(p) == [p EXCEPT !.view = None, !.phase = IF @ = "pending" THEN "failed" ELSE @]

\* The client is gone, or the feed overran: the task returns.
EndTask(c) ==
    /\ sock[c] # None /\ ~Busy(c)
    /\ \/ sock[c].gone /\ sock[c].asks = <<>> /\ UNCHANGED panel
       \/ sock[c].subscribed /\ sock[c].lagged /\ panel' = [panel EXCEPT ![c] = Lost(@)]
    /\ sock' = [sock EXCEPT ![c] = None]
    /\ UNCHANGED <<room, disk, host, minted, shown, torn, doubtful, unheard, mishaps>>

\* The process dies, between two requests or after n writes of one.
Crash ==
    /\ host # None /\ Mishap
    /\ \/ UNCHANGED <<room, disk, minted, doubtful>>
       \/ \E c \in Clients :
            /\ Pending(c)
            /\ LET ask == Head(sock[c].asks) IN
               \E n \in 1..Writes(c, ask) :
                  LET out == Process(c, ask, n) IN
                  /\ out.minted <= MaxContents
                  /\ disk' = out.files /\ room' = out.room /\ minted' = out.minted
                  /\ doubtful' = Doubt(c, ask, n, out.files.receipts)
    /\ torn' = (torn \/ host.v > disk'.v)
    /\ host' = None
    /\ sock' = [c \in Clients |-> None]
    /\ panel' = [c \in Clients |-> Lost(panel[c])]
    /\ UNCHANGED <<shown, unheard>>

\* HostDurableStore::open beside the room-state file as it is now.
Restart ==
    /\ host = None
    /\ disk' = IF disk.s = room THEN disk ELSE [disk EXCEPT !.v = @ + 1, !.s = room]
    /\ host' = disk'
    /\ unheard' = FALSE
    /\ UNCHANGED <<room, sock, panel, minted, shown, torn, doubtful, mishaps>>

\* Another hand writes the room-state file.
EditRoom ==
    /\ Fresh <= MaxContents /\ Mishap
    /\ room' = Fresh /\ minted' = Fresh
    /\ UNCHANGED <<disk, host, sock, panel, shown, torn, doubtful, unheard>>

-----------------------------------------------------------------------------
(* The clients. *)

Reach(c) == sock[c] # None /\ ~sock[c].gone
Sendable(c) == panel[c].phase \in {"idle", "failed"}

Connect(c) ==
    /\ c \in Panels /\ host # None /\ sock[c] = None
    /\ sock' = [sock EXCEPT ![c] = NewSocket(<<Snapshot>>)]
    /\ UNCHANGED <<room, disk, host, panel, minted, shown, torn, doubtful, unheard, mishaps>>

Apply(c) ==
    /\ c \in Panels /\ Reach(c) /\ panel[c].view # None /\ Sendable(c)
    /\ panel' = [panel EXCEPT ![c].phase = "pending", ![c].try = @ + 1]
    /\ sock' = [sock EXCEPT ![c].asks = Append(@, [do |-> "set", base |-> panel[c].view.v,
                                                  try |-> panel[c].try + 1])]
    /\ UNCHANGED <<room, disk, host, minted, shown, torn, doubtful, unheard, mishaps>>

Ask(c) ==
    /\ c \in Agents /\ host # None /\ sock[c] = None /\ Sendable(c)
    /\ panel' = [panel EXCEPT ![c].phase = "pending"]
    /\ sock' = [sock EXCEPT ![c] = NewSocket(<<[do |-> "evaluate", try |-> 0]>>)]
    /\ UNCHANGED <<room, disk, host, minted, shown, torn, doubtful, unheard, mishaps>>

\* Three seconds pass, or the operator closes the panel's connection.
HangUp(c) ==
    /\ Reach(c) /\ Mishap
    /\ sock' = [sock EXCEPT ![c].gone = TRUE]
    /\ panel' = [panel EXCEPT ![c] = Lost(@)]
    /\ UNCHANGED <<room, disk, host, minted, shown, torn, doubtful, unheard>>

\* PENDING_TIMEOUT_SECONDS pass without an answer: the command may be tried again, under the
\* same key and a new message id.
Overdue(c) ==
    /\ c \in Panels /\ panel[c].phase = "pending" /\ Mishap
    /\ panel' = [panel EXCEPT ![c].phase = "failed"]
    /\ UNCHANGED <<room, disk, host, sock, minted, shown, torn, doubtful, unheard>>

HostPolicyNext ==
    \/ Crash \/ Restart \/ EditRoom
    \/ \E c \in Clients :
          \/ Handle(c) \/ Respond(c) \/ FailToRespond(c) \/ Forward(c) \/ EndTask(c)
          \/ Connect(c) \/ Apply(c) \/ Ask(c) \/ HangUp(c) \/ Overdue(c)

TaskStep(c) == Handle(c) \/ Respond(c) \/ Forward(c) \/ EndTask(c)
HostPolicyFairness == \A c \in Clients : WF_hostVars(TaskStep(c))

HostPolicySpec == HostPolicyInit /\ [][HostPolicyNext]_hostVars
HostPolicyFairSpec == HostPolicySpec /\ HostPolicyFairness

-----------------------------------------------------------------------------
(* Properties. *)

HostPolicyTypeOK ==
    /\ room \in Contents /\ minted \in Contents
    /\ disk.v \in Nat /\ disk.s \in Contents
    /\ host # None => host.s \in Contents /\ DOMAIN host.done = Clients
    /\ \A c \in Clients : sock[c] # None => Len(sock[c].feed) <= Backlog

\* However commands, edits, deltas, resyncs and crashes interleave, a version
\* number names one content, and a panel that says it is at a version shows that
\* content, the deltas it patched together included; the one exception is a
\* version that was shown, could not be saved, and died with the process.
VersionNamesContent ==
    ~torn => /\ \A a, b \in shown : a[1] = b[1] => a = b
             /\ \A c \in Panels : panel[c].view # None =>
                    <<panel[c].view.v, panel[c].view.s>> \in shown

\* A command sent again under its key, because its answer was lost or late, is
\* not applied again, unless it stopped between its effect and its receipt or
\* RECEIPT_LIMIT later ones pushed its receipt out.
AppliedOnce == host # None => \A c \in Clients : host.done[c] > 1 => c \in doubtful

\* A panel that stays connected ends at the Host's version, by deltas in whatever
\* order they come or by the snapshots it asks for, unless the version moved and
\* no delta was sent.
SubscribersCatchUp ==
    <>[](\A c \in Panels : (host # None /\ ~unheard /\ Reach(c) /\ panel[c].view # None)
                            => panel[c].view.v = host.v)

\* docs/CODE_FLOW_MAP.md:474, "broadcast ordered delta": deltas leave in the order of
\* their versions.
DeltasInOrder ==
    [][\A c, d \in Clients :
          (/\ sock[c] # None /\ sock[c].delta # None /\ sock'[c] # None /\ sock'[c].delta = None
           /\ sock[d] # None /\ sock[d].delta # None)
          => sock[c].delta.next <= sock[d].delta.next]_hostVars

\* gui/src/recall_policy.rs:1235, "the Host returns the existing result or a stable
\* conflict": while a panel waits and its connection lasts, an answer to the try it
\* waits for is asked for or on its way.
PendingIsAnswered ==
    \A c \in Panels : panel[c].phase = "pending" /\ Reach(c) =>
        \/ \E i \in DOMAIN sock[c].asks : sock[c].asks[i].do = "set" /\ sock[c].asks[i].try = panel[c].try
        \/ Busy(c) /\ sock[c].ready.is = "answer" /\ sock[c].ready.try = panel[c].try
=============================================================================
