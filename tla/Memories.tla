------------------------------- MODULE Memories -------------------------------
(***************************************************************************)
(* The memories of one room (akasha/src/remember, paper_boat.rs, timeline.rs *)
(* and origami/src/boats): remember and sleep, each a transaction of its     *)
(* own, the thread that links what continues what, the Boat a wake brings    *)
(* back, and the shelf of the panel (gui-prototype/sediment) that walks the  *)
(* timeline back page by page while others write.                            *)
(*                                                                           *)
(* A transaction takes its time when it begins and its id when it inserts.   *)
(* Its locks on its path and on the thread are held to the commit, so that   *)
(* what it writes is one step, the commit.  One thread is modelled.          *)
(***************************************************************************)
EXTENDS Naturals, Sequences, SequencesExt, FiniteSets

CONSTANTS MemoryPaths,  \* source paths callers give, or that are derived from a memory
          BoatPaths,    \* one for each body a spirit sleeps with
          Writers,
          Nothing,
          MaxIds,       \* bound: transactions that took an id
          MaxClock,     \* bound: instants told apart
          ShelfLimit    \* PAGE_LIMIT

ASSUME MemoriesAssumption == /\ MemoryPaths \cap BoatPaths = {}
                             /\ MaxIds \in Nat \ {0} /\ MaxClock \in Nat
                             /\ ShelfLimit \in Nat \ {0}

Ids == 1..MaxIds

ASSUME NothingAssumption == /\ Nothing \notin Ids \cup MemoryPaths \cup BoatPaths
                            /\ Nothing \notin [born : Nat, id : Nat]

VARIABLES memory,  \* the room's rows of memories
          links,   \* thread_event_links: what continues what
          open, \* the transactions under way
          clock,   \* NOW()
          nextId,  \* memories_id_seq
          slept,   \* the Boat the last sleep to be answered was told of
          shelf    \* the panel's column and what its walk owes

bookVars == <<memory, links, open, clock, nextId>>
memoriesVars == <<bookVars, slept, shelf>>

NoShelf == [rows |-> <<>>, cursor |-> Nothing, exhausted |-> TRUE, owed |-> {}, refused |-> FALSE]

MemoriesInit ==
    /\ memory = [i \in {} |-> Nothing]
    /\ links = {}
    /\ open = [w \in Writers |-> Nothing]
    /\ clock = 0 /\ nextId = 1
    /\ slept = Nothing
    /\ shelf = NoShelf

Rows == DOMAIN memory
At(path) == {i \in Rows : memory[i].path = path}
BoatRows == {i \in Rows : memory[i].path \in BoatPaths}
Active(i) == memory[i].by = Nothing /\ i \notin BoatRows
InThread == {i \in Rows : memory[i].threaded}

\* (created_at, id), as the database orders it.
Key(i) == [born |-> memory[i].born, id |-> i]
Before(a, b) == a.born < b.born \/ (a.born = b.born /\ a.id < b.id)

----------------------------------------------------------------------------
TimePasses == /\ clock < MaxClock /\ clock' = clock + 1
              /\ UNCHANGED <<memory, links, open, nextId, slept, shelf>>

\* BEGIN fixes NOW().
Begin(w) ==
    /\ open[w] = Nothing
    /\ open' = [open EXCEPT ![w] = [born |-> clock, id |-> Nothing]]
    /\ UNCHANGED <<memory, links, clock, nextId, slept, shelf>>

\* The insert draws an id even when its path is taken.  What is written, and
\* under which path, shows at the commit.
Draw(w) ==
    /\ open[w] # Nothing /\ open[w].id = Nothing
    /\ nextId \in Ids
    /\ open' = [open EXCEPT ![w].id = nextId]
    /\ nextId' = nextId + 1
    /\ UNCHANGED <<memory, links, clock, slept, shelf>>

Drawn(w) == open[w] # Nothing /\ open[w].id # Nothing

\* An error of any statement, a deadlock the database breaks, or a lost process.
Abort(w) ==
    /\ open[w] # Nothing
    /\ open' = [open EXCEPT ![w] = Nothing]
    /\ UNCHANGED <<memory, links, clock, nextId, slept, shelf>>

\* What edges lead to from a set of ids, the set included.
Descendants(edges, from) ==
    {i \in Ids : \A S \in SUBSET Ids :
        from \subseteq S /\ (\A e \in edges : e[1] \in S => e[2] \in S) => i \in S}

\* Mutant: the descendants of the wrong end.
WouldCycle_Backwards(edges, prev, next) == next \in Descendants(edges, {prev})

\* substrate_reject_thread_event_link_cycle
WouldCycle(edges, prev, next) == prev \in Descendants(edges, {next})

\* The row a path names, or the one a transaction brings.
Target(w, path) == IF At(path) = {} THEN open[w].id ELSE CHOOSE i \in At(path) : TRUE

\* An upsert keeps the row's id, created_at and superseded_by.
RowAfter(w, path, i, threaded) ==
    IF i \in Rows THEN [memory[i] EXCEPT !.threaded = threaded]
    ELSE [path |-> path, born |-> open[w].born, by |-> Nothing, threaded |-> threaded]

\* The row, then the mark on what it supersedes.
Written(row, i, old) ==
    [j \in Rows \cup {i} |-> IF j = i THEN row
                            ELSE IF j = old THEN [memory[j] EXCEPT !.by = i] ELSE memory[j]]

\* A memory that leaves the thread takes its links along.
KeptLinks(i, threaded) == IF threaded THEN links ELSE {e \in links : i \notin {e[1], e[2]}}

\* One predecessor for each event: a new continuation replaces the old.
Linked(edges, prev, i) ==
    IF prev = Nothing THEN edges ELSE {e \in edges : e[2] # i} \cup {<<prev, i>>}

\* Refused unless both are in the thread and the link makes no cycle.
MayContinue(prev, i, threaded) ==
    prev # Nothing => /\ threaded /\ prev # i /\ prev \in InThread
                      /\ ~WouldCycle(links, prev, i)

\* The caller names its path, its thread and the rows it supersedes or
\* continues; ids that name no row supersede nothing.
Remember(w) ==
    /\ Drawn(w)
    /\ \E path \in MemoryPaths, threaded \in BOOLEAN, old, prev \in Rows \cup {Nothing} :
          LET i == Target(w, path)
          IN  /\ MayContinue(prev, i, threaded)
              /\ memory' = Written(RowAfter(w, path, i, threaded), i, old)
              /\ links' = Linked(KeptLinks(i, threaded), prev, i)
    /\ open' = [open EXCEPT ![w] = Nothing]
    /\ UNCHANGED <<clock, nextId, slept, shelf>>

\* A body that sleeps again is told of the Boat it already is.
Sleep(w) ==
    /\ Drawn(w)
    /\ \E path \in BoatPaths :
          LET i == Target(w, path)
          IN  /\ memory' = IF i \in Rows THEN memory
                           ELSE Written(RowAfter(w, path, i, FALSE), i, Nothing)
              /\ slept' = i
    /\ open' = [open EXCEPT ![w] = Nothing]
    /\ UNCHANGED <<links, clock, nextId, shelf>>

----------------------------------------------------------------------------
\* wake: the newest Boat and what of the room is newer than it.
Woken == CHOOSE b \in BoatRows : \A c \in BoatRows \ {b} : Before(Key(c), Key(b))
UnboatedTail == {i \in Rows \ BoatRows : Before(Key(Woken), Key(i))}

----------------------------------------------------------------------------
\* Mutant: the cursor is a time alone.
Behind_ByTime(cursor) ==
    {i \in Rows : Active(i) /\ (cursor = Nothing \/ memory[i].born < cursor.born)}

\* memory_timeline: the newest active rows behind the cursor.
Behind(cursor) == {i \in Rows : Active(i) /\ (cursor = Nothing \/ Before(Key(i), cursor))}
Page(cursor) ==
    LET behind == Behind(cursor)
    IN  CHOOSE page \in UNION {[1..n -> behind] : n \in 0..ShelfLimit} :
          /\ \A m, n \in DOMAIN page : m < n => Before(Key(page[n]), Key(page[m]))
          /\ \A i \in behind \ Range(page) :
                /\ Len(page) = ShelfLimit
                /\ \A n \in DOMAIN page : Before(Key(i), Key(page[n]))

\* askColumn: a query starts over, a walk appends; the cursor is the last row's.
Shelved(rows, page, owed) ==
    [rows |-> rows, exhausted |-> Len(page) < ShelfLimit, owed |-> owed, refused |-> FALSE,
     cursor |-> IF rows = <<>> THEN Nothing ELSE Key(Last(rows))]

QueryShelf ==
    /\ shelf' = Shelved(Page(Nothing), Page(Nothing), {i \in Rows : Active(i)})
    /\ UNCHANGED <<bookVars, slept>>

WalkOlder ==
    /\ shelf.rows # <<>> /\ shelf.cursor # Nothing
    /\ ~shelf.exhausted /\ ~shelf.refused
    /\ LET page == Page(shelf.cursor)
       IN  shelf' = Shelved(shelf.rows \o page, page, shelf.owed)
    /\ UNCHANGED <<bookVars, slept>>

\* The rows that were there stay, without the button that walks on.
DoorRefuses ==
    /\ shelf' = [shelf EXCEPT !.refused = TRUE]
    /\ UNCHANGED <<bookVars, slept>>

MemoriesNext ==
    \/ TimePasses \/ QueryShelf \/ WalkOlder \/ DoorRefuses
    \/ \E w \in Writers : Begin(w) \/ Draw(w) \/ Abort(w) \/ Remember(w) \/ Sleep(w)

MemoriesSpec == MemoriesInit /\ [][MemoriesNext]_memoriesVars

----------------------------------------------------------------------------
MemoriesTypeOK ==
    /\ Rows \subseteq Ids
    /\ \A i \in Rows : /\ memory[i].path \in MemoryPaths \cup BoatPaths
                       /\ memory[i].born \in 0..MaxClock
                       /\ memory[i].by \in Ids \cup {Nothing}
                       /\ memory[i].threaded \in BOOLEAN
    /\ links \subseteq InThread \X InThread
    /\ clock \in 0..MaxClock /\ nextId \in 1..(MaxIds + 1)
    /\ slept \in BoatRows \cup {Nothing}
    /\ Range(shelf.rows) \subseteq Rows /\ shelf.owed \subseteq Rows

\* gui-prototype/sediment/index.js:160, "rows written between rounds cannot
\* shift the window and hand back a row twice": and none is passed over either.
\* Whatever commits, late or superseding, between the pages of a walk, a row
\* that stood active throughout is on the shelf once the walk is past it.
WalkIsWhole ==
    /\ IsInjective(shelf.rows)
    /\ \A i \in shelf.owed :
          Active(i) /\ (shelf.exhausted \/ ~Before(Key(i), shelf.cursor)) =>
             i \in Range(shelf.rows)

\* 0006_memory_thread_graph.sql:74, "so concurrent writes cannot each validate
\* against a graph that omits the other write": no memory comes before itself in
\* a thread, however continuations, rewrites and departures interleave.
ThreadsAreAcyclic ==
    \A i \in Rows : i \notin Descendants(links, {e[2] : e \in {d \in links : d[1] = i}})

\* docs/EVIDENCE.md:532, "After a newer state claim supersedes an older claim,
\* ordinary recall selects the current account": what is superseded has an heir
\* that recall still selects.
Heirs(i) == Descendants({<<j, memory[j].by>> : j \in {k \in Rows : memory[k].by # Nothing}}, {i})
SupersededHasHeir == \A i \in Rows : \E h \in Heirs(i) : memory[h].by = Nothing

\* docs/CODE_FLOW_MAP.md:527, "It reloads the latest complete Boat": a wake
\* brings the Boat of the last sleep that was answered.
WakesTheLastSleep == slept # Nothing => Woken = slept
=============================================================================
