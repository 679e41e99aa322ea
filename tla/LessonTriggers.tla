---------------------------- MODULE LessonTriggers ----------------------------
(***************************************************************************)
(* Lessons that fire on what a session writes                               *)
(* (akasha/src/lesson/registry/trigger, hearth/src/lesson_triggers.rs): the  *)
(* trigger-bearing rows are edited by transactions, compiled once per fence  *)
(* and fingerprint in a cache of the process, matched, and fired against a    *)
(* ledger of what the session was already told.                              *)
(*                                                                          *)
(* A row's text is the pattern it carries; a fence is the room alone, or the *)
(* room with the project the caller stands in.                               *)
(***************************************************************************)
EXTENDS Naturals, FiniteSets

CONSTANTS Lessons,
          ProjectLessons, \* the lessons of the project; the others are seen from both fences
          CoolingLessons, \* repeat_cooldown_secs is set; the others fire once per session
          Patterns,
          Editors,        \* transactions that write lessons
          Matches,        \* calls of lesson_trigger_match of one room and session
          MaxEdits,       \* bound: transactions ever begun
          MaxFires        \* bound: fires of one lesson

ASSUME TriggerAssumption == /\ IsFiniteSet(Lessons) /\ ProjectLessons \subseteq Lessons
                            /\ CoolingLessons \subseteq Lessons
                            /\ MaxEdits \in Nat /\ MaxFires \in Nat

Fences == {"room", "project"}

VARIABLES lesson,     \* lessons with a trigger: pattern and updated_at; absent is stamp 0
          editor,     \* each editor's transaction
          edits,      \* the clock: each transaction begins at a time of its own
          compiled,   \* the compile cache, by fence
          match,      \* each match's place
          fires,      \* lesson_trigger_events of the session, per lesson
          cooled,     \* lessons whose cooldown has passed since their last fire
          overtaken   \* a write was committed after a write that began later

triggerVars == <<lesson, editor, edits, compiled, match, fires, cooled, overtaken>>

NoLesson == [pattern |-> "none", stamp |-> 0]
Present(l) == lesson[l].stamp # 0
NoSet == [count |-> 0, latest |-> 0, rows |-> <<>>]
NotMatching == [pc |-> "idle", fence |-> "room", text |-> "none", rows |-> <<>>,
                hits |-> {}]

TriggerInit ==
    /\ lesson = [l \in Lessons |-> NoLesson]
    /\ editor = [e \in Editors |-> [open |-> FALSE, stamp |-> 0]]
    /\ edits = 0
    /\ compiled = [f \in Fences |-> NoSet]
    /\ match = [m \in Matches |-> NotMatching]
    /\ fires = [l \in Lessons |-> 0]
    /\ cooled = {}
    /\ overtaken = FALSE

----------------------------------------------------------------------------
(* Edits: updated_at is the start of the transaction that wrote the row.    *)

BeginEdit(e) ==
    /\ ~editor[e].open /\ edits < MaxEdits
    /\ edits' = edits + 1
    /\ editor' = [editor EXCEPT ![e] = [open |-> TRUE, stamp |-> edits + 1]]
    /\ UNCHANGED <<lesson, compiled, match, fires, cooled, overtaken>>

Stamps == {lesson[l].stamp : l \in Lessons}

\* remember, or lesson_update of a trigger column: a patch may take the last
\* pattern away.  A transaction that began earlier may write the row later, and
\* then updated_at goes back.
CommitEdit(e) ==
    /\ editor[e].open
    /\ \E l \in Lessons, p \in Patterns \cup {"none"} :
          /\ p = "none" => Present(l)
          /\ lesson' = [lesson EXCEPT ![l] = [pattern |-> p, stamp |-> editor[e].stamp]]
          /\ overtaken' = (overtaken \/ \E s \in Stamps : s > editor[e].stamp)
    /\ editor' = [editor EXCEPT ![e].open = FALSE]
    /\ UNCHANGED <<edits, compiled, match, fires, cooled>>

\* lesson_delete; the lesson's fires go with it.
DropLesson ==
    /\ \E l \in Lessons :
          /\ Present(l)
          /\ lesson' = [lesson EXCEPT ![l] = NoLesson]
          /\ fires' = [fires EXCEPT ![l] = 0]
          /\ cooled' = cooled \ {l}
    /\ UNCHANGED <<editor, edits, compiled, match, overtaken>>

----------------------------------------------------------------------------
(* Matching.                                                               *)

\* trigger_eligibility.
Visible(f) == {l \in Lessons : /\ lesson[l].pattern # "none"
                               /\ (l \in ProjectLessons => f = "project")}
RowsOf(f) == [l \in Visible(f) |-> lesson[l]]

\* The fingerprint of the rows read: how many, and the newest updated_at.
Latest(rows) == CHOOSE s \in {rows[l].stamp : l \in DOMAIN rows} \cup {0} :
                   \A l \in DOMAIN rows : rows[l].stamp <= s
IsFresh_CountOnly(set, rows) == set.count = Cardinality(DOMAIN rows)
IsFresh(set, rows) == set.count = Cardinality(DOMAIN rows) /\ set.latest = Latest(rows)

\* The rows a fence sees, and the pattern that the text offered shows.
ReadTriggers(m) ==
    /\ match[m].pc = "idle"
    /\ \E f \in Fences, text \in Patterns :
          /\ match' = [match EXCEPT ![m] = [NotMatching EXCEPT
                          !.pc = "read", !.fence = f, !.text = text, !.rows = RowsOf(f)]]
    /\ UNCHANGED <<lesson, editor, edits, compiled, fires, cooled, overtaken>>

Hits(rows, text) == {l \in DOMAIN rows : rows[l].pattern = text}

\* cached_set, or compile and store_set: nothing is awaited in between.  A
\* match without a hit ends here.
MatchSurfaces(m) ==
    LET f == match[m].fence
        read == match[m].rows
        set == IF IsFresh(compiled[f], read) THEN compiled[f]
               ELSE [count |-> Cardinality(DOMAIN read), latest |-> Latest(read), rows |-> read]
        hits == Hits(set.rows, match[m].text) IN
    /\ match[m].pc = "read"
    /\ compiled' = [compiled EXCEPT ![f] = set]
    /\ match' = [match EXCEPT ![m] = IF hits = {} THEN NotMatching
                                     ELSE [NotMatching EXCEPT !.pc = "hit", !.hits = hits]]
    /\ UNCHANGED <<lesson, editor, edits, fires, cooled, overtaken>>

\* Cooldown::allows, by the ledger as it is now.
Allowed(l) == fires[l] = 0 \/ (l \in CoolingLessons /\ l \in cooled)

\* The ledger is read before the transaction that adds to it.
ReadFires(m) ==
    LET due == {l \in match[m].hits : Allowed(l)} IN
    /\ match[m].pc = "hit"
    /\ match' = [match EXCEPT ![m] = IF due = {} THEN NotMatching
                                     ELSE [NotMatching EXCEPT !.pc = "fire", !.hits = due]]
    /\ UNCHANGED <<lesson, editor, edits, compiled, fires, cooled, overtaken>>

\* One transaction records every fire; a lesson that is gone fails them all.
Fire(m) ==
    LET due == match[m].hits IN
    /\ match[m].pc = "fire"
    /\ IF \A l \in due : Present(l)
       THEN /\ \A l \in due : fires[l] < MaxFires
            /\ fires' = [l \in Lessons |-> IF l \in due THEN fires[l] + 1 ELSE fires[l]]
            /\ cooled' = cooled \ due
       ELSE UNCHANGED <<fires, cooled>>
    /\ match' = [match EXCEPT ![m] = NotMatching]
    /\ UNCHANGED <<lesson, editor, edits, compiled, overtaken>>

CoolDown == /\ \E l \in CoolingLessons : fires[l] > 0 /\ l \notin cooled /\ cooled' = cooled \cup {l}
            /\ UNCHANGED <<lesson, editor, edits, compiled, match, fires, overtaken>>

\* A restart of the process: the cache goes, and the matches with it.
RestartMatcher ==
    /\ compiled # [f \in Fences |-> NoSet]
    /\ compiled' = [f \in Fences |-> NoSet]
    /\ match' = [m \in Matches |-> NotMatching]
    /\ UNCHANGED <<lesson, editor, edits, fires, cooled, overtaken>>

TriggerNext ==
    \/ \E e \in Editors : BeginEdit(e) \/ CommitEdit(e)
    \/ \E m \in Matches : ReadTriggers(m) \/ MatchSurfaces(m) \/ ReadFires(m) \/ Fire(m)
    \/ DropLesson \/ CoolDown \/ RestartMatcher

TriggerSpec == TriggerInit /\ [][TriggerNext]_triggerVars
----------------------------------------------------------------------------
(* Properties.                                                             *)

\* Every variable holds a value of its kind.
TriggerTypeOK ==
    /\ \A l \in Lessons : /\ lesson[l].pattern \in Patterns \cup {"none"}
                         /\ lesson[l].stamp \in 0..edits
    /\ edits \in 0..MaxEdits
    /\ \A f \in Fences : DOMAIN compiled[f].rows \subseteq Lessons
    /\ \A m \in Matches : /\ match[m].pc \in {"idle", "read", "hit", "fire"}
                         /\ match[m].fence \in Fences
                         /\ match[m].hits \subseteq Lessons
    /\ fires \in [Lessons -> 0..MaxFires]
    /\ cooled \subseteq CoolingLessons
    /\ overtaken \in BOOLEAN

\* A match fires on the rows it read, whatever set it takes from the cache: an
\* edited, added, retired or deleted lesson is seen by the next match of either
\* fence, as long as the edits commit in the order in which they began.
MatchesWhatItRead ==
    [][\A m \in Matches :
         (MatchSurfaces(m) /\ ~overtaken) => compiled'[match[m].fence].rows = match[m].rows]_triggerVars

\* The same without the proviso.  It does not hold: updated_at is the start of a
\* transaction, so an edit that began before the newest one and commits after
\* it changes neither the count nor the newest time, and the old pattern fires
\* until some later edit.
AlwaysMatchesWhatItRead ==
    [][\A m \in Matches :
         MatchSurfaces(m) => compiled'[match[m].fence].rows = match[m].rows]_triggerVars

\* A lesson without a cooldown fires once in a session, ever
\* (hearth/src/lesson_triggers.rs:88).  It does not hold: two matches of a session
\* read the ledger before either adds to it.
FiresOncePerSession == \A l \in Lessons \ CoolingLessons : fires[l] <= 1
=============================================================================
