------------------------------ MODULE GigaReview ------------------------------
(***************************************************************************)
(* The review of GIGA candidates and their promotion to durable records     *)
(* (akasha/src/giga/review.rs, promotion.rs, tool_review.rs,                 *)
(* tool_promotion.rs, hearth/src/giga): each principal has one call in       *)
(* flight, and a call of the review or promotion tool is two transactions    *)
(* with nothing locked between them.  A principal stands for a reviewer, its *)
(* operator and the basis of its authority.                                  *)
(*                                                                          *)
(* A request that names a source set other than the candidate's, or a kind   *)
(* of record other than the candidate's, is refused whatever the state, so   *)
(* the requests enumerated here name the right ones.                         *)
(***************************************************************************)
EXTENDS Naturals, Sequences

CONSTANTS GigaCandidates,
          Principals,
          Titles,
          KeySets,        \* the language and technology keys a request may carry
          Writer,           \* who wrote a lesson that no promotion wrote
          MaxReviews,     \* bound: rows of giga_reviews
          MaxStamps,      \* bound: distinct times of review
          MaxRecords      \* bound: records ever created

PromotionKinds == {"memory", "coding_lesson", "project_lesson"}
ReviewStates == {"unreviewed", "in_review", "promoted", "merged", "corrected", "dismissed",
                 "unresolved", "curio", "expired", "superseded"}

ASSUME ReviewAssumption ==
    /\ Writer \notin GigaCandidates
    /\ MaxReviews \in Nat /\ MaxStamps \in Nat \ {0} /\ MaxRecords \in Nat

VARIABLES verdict,    \* giga_candidates: kind, review_state and promotion_refs
          reviews,    \* giga_reviews, in the order of their ids
          records,    \* memories and lessons, by id
          lastRecord, \* the last id a record was given
          call,       \* each principal's call
          stamp       \* the database's clock, as far as a request names it

reviewVars == <<verdict, reviews, records, lastRecord, call, stamp>>

KindOf(c) == verdict[c].kind
NoRef == 0
NoDigest == <<>>
Resting0 == [pc |-> "idle", cand |-> CHOOSE c \in GigaCandidates : TRUE, to |-> "unreviewed",
             from |-> "unreviewed", title |-> CHOOSE t \in Titles : TRUE,
             keys |-> CHOOSE k \in KeySets : TRUE, at |-> 0, got |-> NoRef]

ReviewInit ==
    /\ \E kinds \in [GigaCandidates -> PromotionKinds] :
          verdict = [c \in GigaCandidates |->
                       [kind |-> kinds[c], state |-> "unreviewed", ref |-> NoRef]]
    /\ reviews = <<>>
    /\ records = <<>>
    /\ lastRecord = 0
    /\ call = [p \in Principals |-> Resting0]
    /\ stamp = 1

----------------------------------------------------------------------------
(* Reviews.                                                                *)

\* GigaReviewState::can_transition.
CanTransition(from, to) ==
    \/ from = "unreviewed" /\ to \in {"in_review", "dismissed", "expired"}
    \/ from = "in_review" /\ to \in {"promoted", "merged", "corrected", "dismissed",
                                     "unresolved", "curio"}
    \/ from = "unresolved" /\ to = "in_review"
    \/ from = "curio" /\ to \in {"in_review", "dismissed", "expired", "superseded"}
    \/ from \in {"promoted", "merged", "corrected"} /\ to = "superseded"

\* What giga_review has no authority to commit.
AuthorityStates == {"promoted", "merged", "corrected", "superseded"}

\* Only a curio that resonates with a later event returns to review.
NeedsResonance(from, to) == from = "curio" /\ to = "in_review"

Logged(p, c, from, to, at, digest, ref) ==
    /\ Len(reviews) < MaxReviews
    /\ reviews' = Append(reviews, [cand |-> c, who |-> p, from |-> from, to |-> to,
                                   at |-> at, digest |-> digest])
    /\ verdict' = [verdict EXCEPT ![c].state = to, ![c].ref = ref]

\* The stored state, read under the row's lock, is the one the review is from.
StillFrom_Unchecked(c, from) == from \in ReviewStates
StillFrom(c, from) == verdict[c].state = from

\* giga_review: one transaction.
Reviewed(p, c, from, to, at) ==
    /\ StillFrom(c, from) /\ CanTransition(from, to) /\ to \notin AuthorityStates
    /\ Logged(p, c, from, to, at, NoDigest, NoRef)

\* giga_review by a caller of its own: the request says what it is from and
\* carries a resonance exactly when one is needed.
DirectReview(p) ==
    /\ call[p].pc = "idle"
    /\ \E c \in GigaCandidates, from, to \in ReviewStates, resonance \in BOOLEAN :
          /\ resonance = NeedsResonance(from, to)
          /\ Reviewed(p, c, from, to, stamp)
    /\ call' = [call EXCEPT ![p] = Resting0]
    /\ UNCHANGED <<records, lastRecord, stamp>>

\* giga_tool_review: the state and the time are read in a transaction of
\* their own; a transition the review would refuse ends the call there.
ToolReview(p) ==
    /\ call[p].pc = "idle"
    /\ \E c \in GigaCandidates, to \in ReviewStates \ AuthorityStates :
          /\ CanTransition(verdict[c].state, to)
          /\ ~NeedsResonance(verdict[c].state, to)
          /\ call' = [call EXCEPT ![p] = [Resting0 EXCEPT !.pc = "review", !.cand = c,
                                            !.from = verdict[c].state, !.to = to, !.at = stamp]]
    /\ UNCHANGED <<verdict, reviews, records, lastRecord, stamp>>

\* The second transaction, and its refusal.
CommitReview(p) ==
    LET c == call[p].cand IN
    /\ call[p].pc = "review"
    /\ IF StillFrom(c, call[p].from)
       THEN Reviewed(p, c, call[p].from, call[p].to, call[p].at)
       ELSE UNCHANGED <<verdict, reviews>>
    /\ call' = [call EXCEPT ![p] = Resting0]
    /\ UNCHANGED <<records, lastRecord, stamp>>

----------------------------------------------------------------------------
(* Promotion.                                                              *)

Asked(p, c, title, keys, at) ==
    /\ call' = [call EXCEPT ![p] = [Resting0 EXCEPT !.pc = "promote", !.cand = c,
                                      !.title = title, !.keys = keys, !.at = at]]
    /\ UNCHANGED <<verdict, reviews, records, lastRecord, stamp>>

\* giga_tool_promote up to its request: in_review now, stamped by the database.
ToolPromote(p) ==
    /\ call[p].pc = "idle"
    /\ \E c \in GigaCandidates, title \in Titles, keys \in KeySets :
          verdict[c].state = "in_review" /\ Asked(p, c, title, keys, stamp)

\* giga_promote by a caller of its own, which may send again what it sent
\* before: the request carries its own time of review.
DirectPromote(p) ==
    /\ call[p].pc = "idle"
    /\ \E c \in GigaCandidates, title \in Titles, keys \in KeySets, at \in 1..stamp :
          Asked(p, c, title, keys, at)

\* A memory is prepared (embedded, its threads read) before the transaction,
\* unless the candidate is seen to be promoted already.
Prepare(p) ==
    /\ call[p].pc = "promote" /\ KindOf(call[p].cand) = "memory"
    /\ call' = [call EXCEPT ![p].pc = IF verdict[call[p].cand].state = "promoted"
                                      THEN "unprepared" ELSE "prepared"]
    /\ UNCHANGED <<verdict, reviews, records, lastRecord, stamp>>

IsPrepared(p) == call[p].pc = IF KindOf(call[p].cand) = "memory" THEN "prepared" ELSE "promote"

\* promotion_digest: the payload of a coding lesson is digested without its keys.
RequestDigest(p) ==
    <<p, call[p].title, call[p].at,
      IF KindOf(call[p].cand) = "project_lesson" THEN call[p].keys ELSE {}>>

\* A memory's path names its candidate; a lesson's identity is its title.
RecordKey(p) == IF KindOf(call[p].cand) = "memory" THEN call[p].cand ELSE call[p].title

SameRecord(kind, key) == {i \in DOMAIN records : records[i].kind = kind /\ records[i].key = key}

\* The upsert of a record: the row of that identity, else a new one.
Upserted(id, kind, key, by, keys) ==
    LET row == [kind |-> kind, key |-> key, by |-> by, keys |-> keys] IN
    \/ /\ id \in SameRecord(kind, key)
       /\ records' = [records EXCEPT ![id] = row]
       /\ UNCHANGED lastRecord
    \/ /\ SameRecord(kind, key) = {}
       /\ id = lastRecord + 1 /\ id <= MaxRecords
       /\ records' = [i \in DOMAIN records \cup {id} |-> IF i = id THEN row ELSE records[i]]
       /\ lastRecord' = id

\* Who put the candidate in review last.
Starts(c) == {i \in DOMAIN reviews : reviews[i].cand = c /\ reviews[i].to = "in_review"}
StartedBy(p, c) ==
    \E i \in Starts(c) : reviews[i].who = p /\ \A j \in Starts(c) : j <= i

MayPromote(p, c) ==
    /\ verdict[c].state = "in_review"
    /\ KindOf(c) = "project_lesson" => StartedBy(p, c)

\* The review that promoted the candidate is of this very request.
Replays(p, c) ==
    \E i \in DOMAIN reviews :
        /\ reviews[i].cand = c /\ reviews[i].to = "promoted"
        /\ reviews[i].digest = RequestDigest(p)

\* The record the receipt would name is still there.
Standing_Trusted(c) == verdict[c].ref # NoRef
Standing(c) == /\ verdict[c].ref \in DOMAIN records
               /\ records[verdict[c].ref].kind = KindOf(c)

Receipt(p, c, id) == call' = [call EXCEPT ![p] = [Resting0 EXCEPT !.cand = c, !.got = id]]

Refused(p) == /\ call' = [call EXCEPT ![p] = Resting0]
              /\ UNCHANGED <<verdict, reviews, records, lastRecord>>

\* giga_promote's transaction, under the candidate's lock.
Promote(p) ==
    LET c == call[p].cand IN
    /\ call[p].pc \in {"promote", "prepared", "unprepared"}
    /\ KindOf(c) = "memory" => call[p].pc # "promote"
    /\ \/ /\ verdict[c].state = "promoted" /\ Replays(p, c) /\ Standing(c)
          /\ Receipt(p, c, verdict[c].ref)
          /\ UNCHANGED <<verdict, reviews, records, lastRecord>>
       \/ /\ verdict[c].state # "promoted" /\ MayPromote(p, c) /\ IsPrepared(p)
          /\ \E id \in 1..MaxRecords :
                /\ Upserted(id, KindOf(c), RecordKey(p), c, call[p].keys)
                /\ Logged(p, c, "in_review", "promoted", call[p].at, RequestDigest(p), id)
                /\ Receipt(p, c, id)
       \/ /\ IF verdict[c].state = "promoted" THEN ~(Replays(p, c) /\ Standing(c))
             ELSE ~(MayPromote(p, c) /\ IsPrepared(p))
          /\ Refused(p)
    /\ UNCHANGED stamp

\* A call ends between its two transactions: its process dies, the memory
\* cannot be prepared, or the request cannot be built.
DropCall(p) ==
    /\ call[p].pc # "idle"
    /\ Refused(p) /\ UNCHANGED stamp

----------------------------------------------------------------------------
(* The records' own doors, and the clock.                                  *)

Lesson(id) == records[id].kind \in {"coding_lesson", "project_lesson"}

\* remember of a lesson.
RememberLesson ==
    /\ \E id \in 1..MaxRecords, kind \in PromotionKinds \ {"memory"}, title \in Titles,
          keys \in KeySets : Upserted(id, kind, title, Writer, keys)
    /\ UNCHANGED <<verdict, reviews, call, stamp>>

\* lesson_update of a title: the unique index refuses one that is taken.
RetitleLesson ==
    /\ \E id \in DOMAIN records, title \in Titles :
          /\ Lesson(id) /\ SameRecord(records[id].kind, title) = {}
          /\ records' = [records EXCEPT ![id].key = title]
    /\ UNCHANGED <<verdict, reviews, lastRecord, call, stamp>>

DeleteLesson ==
    /\ \E id \in DOMAIN records :
          /\ Lesson(id)
          /\ records' = [i \in DOMAIN records \ {id} |-> records[i]]
    /\ UNCHANGED <<verdict, reviews, lastRecord, call, stamp>>

ReviewTick == /\ stamp < MaxStamps /\ stamp' = stamp + 1
              /\ UNCHANGED <<verdict, reviews, records, lastRecord, call>>

ReviewNext ==
    \/ \E p \in Principals :
          \/ DirectReview(p) \/ ToolReview(p) \/ CommitReview(p)
          \/ ToolPromote(p) \/ DirectPromote(p) \/ Prepare(p) \/ Promote(p) \/ DropCall(p)
    \/ RememberLesson \/ RetitleLesson \/ DeleteLesson \/ ReviewTick

ReviewSpec == ReviewInit /\ [][ReviewNext]_reviewVars

----------------------------------------------------------------------------
(* Properties.                                                             *)

\* Every variable holds a value of its kind.
ReviewTypeOK ==
    /\ verdict \in [GigaCandidates -> [kind : PromotionKinds, state : ReviewStates, ref : 0..MaxRecords]]
    /\ \A i \in DOMAIN reviews :
          /\ reviews[i].cand \in GigaCandidates /\ reviews[i].who \in Principals
          /\ reviews[i].from \in ReviewStates /\ reviews[i].to \in ReviewStates
          /\ reviews[i].at \in 1..MaxStamps
    /\ lastRecord \in 0..MaxRecords
    /\ DOMAIN records \subseteq 1..lastRecord
    /\ \A i \in DOMAIN records :
          records[i] \in [kind : PromotionKinds, key : GigaCandidates \cup Titles,
                          by : GigaCandidates \cup {Writer}, keys : KeySets]
    /\ stamp \in 1..MaxStamps

\* The reviews on file tell a candidate's story without a gap: each starts in
\* the state the one before it left, the first in unreviewed, and the last left
\* the state that is stored.  So nothing is promoted twice, and a verdict
\* reached from a state another reviewer has moved is never committed.
OfCandidate(c) == {i \in DOMAIN reviews : reviews[i].cand = c}
ReviewsTellTheState ==
    \A c \in GigaCandidates :
        /\ OfCandidate(c) = {} => verdict[c].state = "unreviewed"
        /\ \A i \in OfCandidate(c) :
              LET earlier == {j \in OfCandidate(c) : j < i} IN
              /\ earlier = {} => reviews[i].from = "unreviewed"
              /\ \A j \in earlier :
                    (\A k \in earlier : k <= j) => reviews[i].from = reviews[j].to
              /\ (\A k \in OfCandidate(c) : k <= i) => verdict[c].state = reviews[i].to

\* A receipt, first or repeated, names a record of the candidate's kind that is
\* on file when it is given, and the one the candidate itself refers to: a
\* lesson deleted since is not vouched for again.
ReceiptIsBacked ==
    [][\A p \in Principals :
         (call[p].got = NoRef /\ call'[p].got # NoRef) =>
            LET c == call'[p].cand  id == call'[p].got IN
            /\ id \in DOMAIN records' /\ records'[id].kind = KindOf(c)
            /\ verdict'[c].state = "promoted" /\ verdict'[c].ref = id]_reviewVars

\* A promotion creates a record of its own (docs/HIPPOCAMPUS.md:430).  It does
\* not hold: two lesson candidates promoted under one title share the row, and
\* the later one rewrites it.
SeparateRecords ==
    \A c, d \in GigaCandidates :
        (c # d /\ verdict[c].ref # NoRef) => verdict[c].ref # verdict[d].ref

\* A repeated receipt is for the request that was carried out: the record bears
\* the keys asked for.  It does not hold: a coding lesson's digest leaves its
\* language and technology keys out, so a request with others is told the same.
AskedIsStored ==
    [][\A p \in Principals :
         (call[p].got = NoRef /\ call'[p].got # NoRef /\ records'[call'[p].got].by = call[p].cand)
            => records'[call'[p].got].keys = call[p].keys]_reviewVars

\* A promotion is decided no earlier than the review it is committed under.  It
\* does not hold: the tool's two transactions may straddle a candidate being set
\* aside and put in review again by someone else.
DecidedUnderItsReview ==
    \A i \in DOMAIN reviews :
        reviews[i].to = "promoted" =>
            \A j \in Starts(reviews[i].cand) : j < i => reviews[j].at <= reviews[i].at
=============================================================================
