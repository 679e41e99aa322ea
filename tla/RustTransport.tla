---------------------------- MODULE RustTransport ----------------------------
(***************************************************************************)
(* RustJsonlTransport: one child process, a queue of writes to its input,   *)
(* and the requests whose callers wait. A step is one callback of the       *)
(* adapter's thread, or one step of the child, which answers in order.      *)
(***************************************************************************)
EXTENDS Naturals, Sequences, FiniteSets, SequencesExt

CONSTANTS Requests,         \* the ids, 1..n, taken in order
          Definitive,           \* the requests that settle definitively
          MaxPending,       \* MAX_PENDING, 1024 in the code
          MaxQueued         \* MAX_QUEUED_BYTES, in requests

ASSUME RequestsAreNumbered == /\ IsFiniteSet(Requests) /\ Requests = 1..Cardinality(Requests)
                              /\ Definitive \subseteq Requests
                              /\ MaxPending \in Nat \ {0} /\ MaxQueued \in Nat \ {0}

VARIABLES
    request,    \* per request: waiting, dispatched, written, and what its caller was told
    queue,      \* writeQueue
    writing,    \* the request whose write callback is to come, 0 if none
    blocked,
    abandoned,  \* answered to nobody, oldest first
    cleaned,    \* the transport is unusable
    unsure,     \* outcomeUnknown
    child,      \* none, starting, up, ending, killed, closed
    forceKill,  \* off, armed, fired
    closing,    \* no, waiting, exited, late
    input, output,   \* the child's pipes
    executed,   \* history: the requests the child acted on
    garbled,    \* history: the child wrote what is no answer
    overlong,   \* history: the requests answered in more than MAX_STDOUT_LINE_BYTES
    forgot,     \* history: an abandoned request was dropped from the list
    distrusted  \* history: the transport was given up for what the child said

heldVars == <<request, queue, writing, blocked, input>>
ends == <<child, forceKill, closing>>
transportVars == <<heldVars, abandoned, cleaned, unsure, ends, output, executed,
                   garbled, overlong, forgot, distrusted>>

Words == {"nothing", "answered", "not_started", "unknown"}
New == [waiting |-> FALSE, dispatched |-> FALSE, written |-> FALSE, told |-> "nothing"]

TransportInit ==
    /\ request = [r \in Requests |-> New]
    /\ queue = <<>> /\ writing = 0 /\ blocked = FALSE /\ abandoned = <<>>
    /\ cleaned = FALSE /\ unsure = FALSE
    /\ child = "none" /\ forceKill = "off" /\ closing = "no"
    /\ input = <<>> /\ output = <<>> /\ executed = {} /\ garbled = FALSE
    /\ overlong = {}
    /\ forgot = FALSE /\ distrusted = FALSE

WaitingRequests == {r \in Requests : request[r].waiting}
Unsent == {r \in Requests : request[r] = New}

-----------------------------------------------------------------------------
(* A callback works on what it holds: [request, queue, writing, blocked, input]. *)

Now == [request |-> request, queue |-> queue, writing |-> writing,
         blocked |-> blocked, input |-> input]
Becomes(h) == /\ request' = h.request /\ queue' = h.queue /\ writing' = h.writing
            /\ blocked' = h.blocked /\ input' = h.input

ToldAs(h, r, word) == [h EXCEPT !.request[r].waiting = FALSE, !.request[r].told = word]

\* What executionFor says of a request that failed.
Outcome(h, r) == IF h.request[r].dispatched THEN "unknown" ELSE "not_started"

\* Mutant: a request counts as dispatched when its write has returned.
Flushed_Late(h, accepted) ==
    IF h.writing # 0 \/ h.blocked \/ h.queue = <<>> THEN h
    ELSE [h EXCEPT !.queue = Tail(@), !.writing = Head(h.queue),
                   !.blocked = ~accepted, !.input = Append(@, Head(h.queue))]

\* One write at a time, and none while the pipe is full.
Flushed(h, accepted) ==
    IF h.writing # 0 \/ h.blocked \/ h.queue = <<>> THEN h
    ELSE [h EXCEPT !.queue = Tail(@), !.writing = Head(h.queue),
                   !.request[Head(h.queue)].dispatched = TRUE,
                   !.blocked = ~accepted, !.input = Append(@, Head(h.queue))]

\* Every waiting caller is told of the failure and the queue is emptied.
Failed(h) ==
    [h EXCEPT !.request = [r \in Requests |->
                 IF h.request[r].waiting THEN ToldAs(h, r, Outcome(h, r)).request[r] ELSE h.request[r]],
              !.queue = <<>>, !.writing = 0, !.blocked = FALSE]

Unsure(h) == \E r \in Definitive : h.request[r].waiting /\ h.request[r].dispatched

\* terminateChild: its input ends, and it is killed when the grace has passed.
Terminated == /\ child' = IF child \in {"starting", "up"} THEN "ending" ELSE child
              /\ forceKill' = IF child # "none" /\ forceKill = "off" THEN "armed" ELSE forceKill

GiveUp(h) == /\ Becomes(Failed(h)) /\ cleaned' = TRUE /\ abandoned' = <<>>
             /\ unsure' = Unsure(h)

Invalidate(h) == GiveUp(h) /\ Terminated

NothingElse == UNCHANGED <<abandoned, cleaned, unsure, ends>>
StillTrusted == UNCHANGED <<forgot, distrusted>>

-----------------------------------------------------------------------------
(* The caller's side. *)

\* An unusable transport and the two limits refuse at once, as a signal that is aborted,
\* a bad timeout and a body that cannot be encoded do at any time.
Refuse(r) ==
    /\ request' = [request EXCEPT ![r].told = "not_started"]
    /\ UNCHANGED <<queue, writing, blocked, input>>
    /\ NothingElse

Admit(r) ==
    /\ ~cleaned /\ Cardinality(WaitingRequests) < MaxPending /\ Len(queue) < MaxQueued
    /\ LET waiting == [Now EXCEPT !.request[r].waiting = TRUE] IN
       \/ \E accepted \in BOOLEAN :
            /\ Becomes(Flushed([waiting EXCEPT !.queue = Append(@, r)], accepted))
            /\ child' = IF child = "none" THEN "starting" ELSE child
            /\ UNCHANGED <<abandoned, cleaned, unsure, forceKill, closing>>
       \/ child = "none" /\ Invalidate(waiting) /\ UNCHANGED closing

Request ==
    /\ \E r \in Unsent : (\A q \in Unsent : r <= q) /\ (Refuse(r) \/ Admit(r))
    /\ UNCHANGED <<output, executed, garbled, overlong>> /\ StillTrusted

\* cancelQueued: the request leaves the queue unsent.
Unqueued(r, accepted) ==
    Flushed([ToldAs(Now, r, "not_started") EXCEPT !.queue = RemoveFirst(@, r)], accepted)

TimeoutRequest(r) ==
    /\ r \in WaitingRequests
    /\ IF request[r].dispatched
       THEN Invalidate(Now) /\ UNCHANGED closing
       ELSE \E accepted \in BOOLEAN : Becomes(Unqueued(r, accepted)) /\ NothingElse
    /\ UNCHANGED <<output, executed, garbled, overlong>> /\ StillTrusted

\* Mutant: the late answer of an abandoned request is a stranger's.
Abandoned_Unlisted(r) == abandoned

\* The ids whose late answers are expected, as many as may be pending.
Abandoned(r) == LET all == Append(abandoned, r)
                IN IF Len(all) > MaxPending THEN Tail(all) ELSE all

\* A write that was dispatched is not cancelled: its answer is awaited.
AbortRequest(r) ==
    /\ r \in WaitingRequests /\ (request[r].dispatched => r \notin Definitive)
    /\ IF ~request[r].dispatched
       THEN \E accepted \in BOOLEAN : Becomes(Unqueued(r, accepted)) /\ NothingElse /\ UNCHANGED forgot
       ELSE IF request[r].written
       THEN /\ Becomes(ToldAs(Now, r, "unknown"))
            /\ abandoned' = Abandoned(r)
            /\ forgot' = (forgot \/ Len(abandoned) >= MaxPending)
            /\ UNCHANGED <<cleaned, unsure, ends>>
       ELSE Invalidate(Now) /\ UNCHANGED <<closing, forgot>>
    /\ UNCHANGED <<output, executed, garbled, overlong, distrusted>>

\* close(): a child that is still there ends its input and is awaited.
Close ==
    /\ closing = "no"
    /\ closing' = IF child \in {"none", "closed"} THEN "exited" ELSE "waiting"
    /\ IF cleaned
       THEN /\ IF child = "closed" THEN UNCHANGED <<child, forceKill>> ELSE Terminated
            /\ UNCHANGED <<heldVars, abandoned, cleaned, unsure>>
       ELSE Invalidate(Now)
    /\ UNCHANGED <<output, executed, garbled, overlong>> /\ StillTrusted

-----------------------------------------------------------------------------
(* The callbacks of the pipes and timers. *)

WriteReturns ==
    /\ writing # 0
    /\ \E accepted \in BOOLEAN :
         Becomes(Flushed([Now EXCEPT !.writing = 0, !.request[writing].written = TRUE], accepted))
    /\ NothingElse /\ UNCHANGED <<output, executed, garbled, overlong>> /\ StillTrusted

Drain ==
    /\ blocked
    /\ \E accepted \in BOOLEAN : Becomes(Flushed([Now EXCEPT !.blocked = FALSE], accepted))
    /\ NothingElse /\ UNCHANGED <<output, executed, garbled, overlong>> /\ StillTrusted

\* A pipe errs: the requests that were sent may have been read.
PipeFails ==
    /\ ~cleaned /\ child # "none"
    /\ Invalidate(Now)
    /\ UNCHANGED <<closing, output, executed, garbled, overlong>> /\ StillTrusted

\* The executable cannot be started: whatever was sent went nowhere.
SpawnFails ==
    /\ child = "starting" /\ ~cleaned
    /\ GiveUp([Now EXCEPT !.input = <<>>,
                  !.request = [r \in Requests |->
                     [request[r] EXCEPT !.dispatched = @ /\ ~request[r].waiting]]])
    /\ child' = "killed" /\ forceKill' = "armed"
    /\ UNCHANGED <<closing, output, executed, garbled, overlong>> /\ StillTrusted

\* One line: an answer, a late one, or something that is neither or is too long.
HandleLine ==
    /\ output # <<>> /\ output' = Tail(output)
    /\ LET id == Head(output) IN
       IF cleaned THEN UNCHANGED <<heldVars, distrusted>> /\ NothingElse
       ELSE IF id \in WaitingRequests \ overlong
       THEN Becomes(ToldAs(Now, id, "answered")) /\ NothingElse /\ UNCHANGED distrusted
       ELSE IF id \in ToSet(abandoned) \ overlong
       THEN /\ abandoned' = RemoveFirst(abandoned, id)
            /\ UNCHANGED <<heldVars, cleaned, unsure, ends, distrusted>>
       ELSE Invalidate(Now) /\ closing' = closing /\ distrusted' = TRUE
    /\ UNCHANGED <<executed, garbled, overlong, forgot>>

ForceKill ==
    /\ forceKill = "armed" /\ forceKill' = "fired"
    /\ \/ child' = "killed" /\ input' = <<>>
       \/ UNCHANGED <<child, input>>
    /\ UNCHANGED <<request, queue, writing, blocked, abandoned, cleaned, unsure, closing,
                   output, executed, garbled, overlong>> /\ StillTrusted

\* close() gives the child up.
ShutdownDeadline ==
    /\ closing = "waiting" /\ closing' = "late" /\ forceKill' = "off"
    /\ UNCHANGED <<heldVars, abandoned, cleaned, unsure, child, output, executed, garbled, overlong>> /\ StillTrusted

\* The close event comes after the last line was read.
ChildCloses ==
    /\ child = "killed" /\ output = <<>>
    /\ closing' = IF closing = "waiting" THEN "exited" ELSE closing
    /\ IF cleaned THEN UNCHANGED <<heldVars, abandoned, cleaned, unsure>>
       ELSE GiveUp(Now)
    /\ child' = "closed" /\ forceKill' = "off"
    /\ UNCHANGED <<output, executed, garbled, overlong>> /\ StillTrusted

-----------------------------------------------------------------------------
(* The child: akasha's loop over the lines of its input. *)

ChildStarts ==
    /\ child = "starting" /\ child' = "up"
    /\ UNCHANGED <<heldVars, abandoned, cleaned, unsure, forceKill, closing, output, executed, garbled, overlong>>
    /\ StillTrusted

\* It may die of a request before it has answered.
ChildActs ==
    /\ child \in {"up", "ending"} /\ input # <<>>
    /\ executed' = executed \cup {Head(input)}
    /\ \/ /\ output' = Append(output, Head(input)) /\ input' = Tail(input) /\ UNCHANGED child
          /\ overlong' \in {overlong, overlong \cup {Head(input)}}
       \/ UNCHANGED <<output, overlong>> /\ child' = "killed" /\ input' = <<>>
    /\ UNCHANGED <<request, queue, writing, blocked, abandoned, cleaned, unsure, forceKill, closing, garbled>>
    /\ StillTrusted

ChildGarbles ==
    /\ child \in {"up", "ending"} /\ ~garbled
    /\ garbled' = TRUE /\ output' = Append(output, 0)
    /\ UNCHANGED <<heldVars, abandoned, cleaned, unsure, ends, executed, overlong>> /\ StillTrusted

\* At the end of its input, or at any time.
ChildDies ==
    /\ child \in {"up", "ending"}
    /\ child' = "killed" /\ input' = <<>>
    /\ UNCHANGED <<request, queue, writing, blocked, abandoned, cleaned, unsure, forceKill, closing,
                   output, executed, garbled, overlong>> /\ StillTrusted

TransportNext ==
    \/ Request \/ Close \/ WriteReturns \/ Drain \/ PipeFails \/ SpawnFails
    \/ \E r \in Requests : TimeoutRequest(r) \/ AbortRequest(r)
    \/ HandleLine \/ ForceKill \/ ShutdownDeadline \/ ChildCloses
    \/ ChildStarts \/ ChildActs \/ ChildGarbles \/ ChildDies

TransportSpec == TransportInit /\ [][TransportNext]_transportVars

-----------------------------------------------------------------------------
(* Properties. *)

TransportTypeOK ==
    /\ \A r \in Requests : request[r].told \in Words /\ (request[r].waiting => request[r].told = "nothing")
    /\ Cardinality(WaitingRequests) <= MaxPending /\ Len(queue) <= MaxQueued /\ Len(abandoned) <= MaxPending
    /\ writing \in Requests \cup {0} /\ child \in {"none", "starting", "up", "ending", "killed", "closed"}

\* docs/CODE_FLOW_MAP.md:324, "replaying a write could duplicate an operation whose
\* response was merely lost": a caller told its request was not started may send it
\* again, since the child never acted on it nor will; one told of an answer got its own.
ToldTheTruth ==
    \A r \in Requests :
       /\ request[r].told = "not_started" => r \notin executed \cup ToSet(input)
       /\ request[r].told = "answered" => r \in executed

\* A child that only answers what it was asked, in lines that are short enough, is never
\* given up for it: a late answer is thrown away, whatever was cancelled, unless the list
\* of them overflowed.
HonestChildIsBelieved == distrusted => garbled \/ forgot \/ overlong # {}

\* What is queued has a callback coming that sends it.
NoLostWakeup == queue # <<>> => writing # 0 \/ blocked
=============================================================================
