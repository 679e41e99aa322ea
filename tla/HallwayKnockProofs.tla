------------------------- MODULE HallwayKnockProofs -------------------------
(* Theorems about HallwayKnock for every set of rooms, callers and Knocks. *)
EXTENDS HallwayKnock, TLAPS

-----------------------------------------------------------------------------
(* What the steps do to the rows. *)

\* Every budget has a positive lifetime.
LEMMA LifetimePositive ==
  ASSUME NEW turns \in Turns PROVE Lifetime(turns) \in Nat \ {0}
<1>1. turns \in Nat \ {0}
  BY ConstantsAssumption DEF Turns
<1>2. TurnWindow * turns \in Nat \ {0}
  BY <1>1, ConstantsAssumption
<1> QED
  BY <1>2, ConstantsAssumption DEF Lifetime

\* A root's row, whatever budget its caller named.
LEMMA RootStep ==
  ASSUME TypeOK, NEW c \in Caller, NEW k \in Knock, NEW m \in Message, NEW r \in Room,
         NEW named \in Named \cup {None}, KnockRoot(c, k, m, r, named)
  PROVE  \E new \in Rows :
           /\ Insert(k, new)
           /\ new.parent = None /\ new.root = k /\ new.turn = 1
           /\ new.expires > now
<1> DEFINE turns == IF named = None THEN DefaultTurns ELSE named
           new   == [from |-> RoomOf[c], message |-> m, recipient |-> r,
                     parent |-> None, root |-> k, turn |-> 1, max |-> turns,
                     expires |-> now + Lifetime(turns)]
<1>1. turns \in Turns
  BY ConstantsAssumption DEF Turns
<1>2. Lifetime(turns) \in Nat \ {0}
  BY <1>1, LifetimePositive
<1>3. 1 \in Turns
  BY ConstantsAssumption DEF Turns
<1>4. now \in Nat /\ RoomOf[c] \in Room
  BY ConstantsAssumption DEF TypeOK
<1> HIDE DEF turns
<1>5. new \in Rows
  BY <1>1, <1>2, <1>3, <1>4 DEF Rows
<1>6. Insert(k, new)
  BY DEF KnockRoot, turns
<1>7. new.expires > now
  BY <1>2, <1>4
<1> QED
  BY <1>5, <1>6, <1>7

\* A child's row follows its parent's.
LEMMA ChildStep ==
  ASSUME TypeOK, NEW c \in Caller, NEW k \in Knock, NEW m \in Message, NEW r \in Room,
         NEW parent \in Knock, KnockChild(c, k, m, r, parent)
  PROVE  /\ row[parent] \in Rows
         /\ Answerable(parent)
         /\ \E new \in Rows :
              /\ Insert(k, new)
              /\ new.parent = parent
              /\ new.turn = row[parent].turn + 1 /\ new.turn <= row[parent].max
              /\ new.root = row[parent].root /\ new.max = row[parent].max
              /\ new.expires = row[parent].expires
              /\ new.from = row[parent].recipient /\ new.recipient = row[parent].from
              /\ new.expires > now
<1> DEFINE p   == row[parent]
           new == [from |-> RoomOf[c], message |-> m, recipient |-> r,
                   parent |-> parent, root |-> p.root, turn |-> p.turn + 1,
                   max |-> p.max, expires |-> p.expires]
<1>1. p \in Rows
  BY DEF TypeOK, KnockChild
<1>2. /\ p.root \in Knock /\ p.turn \in Turns /\ p.max \in Turns /\ p.expires \in Nat
      /\ p.recipient \in Room /\ p.from \in Room
  BY <1>1 DEF Rows
<1>3. p.turn + 1 <= p.max
  BY DEF KnockChild, TurnsLeft, NextTurn
<1>4. p.turn + 1 \in Turns
  BY <1>2, <1>3, ConstantsAssumption DEF Turns
<1>5. RoomOf[c] = p.recipient /\ r = p.from /\ p.expires > now /\ Answerable(parent)
  BY DEF KnockChild, Expires
<1>6. Insert(k, new)
  BY DEF KnockChild, NextTurn, Expires
<1> HIDE DEF p
<1>7. new \in Rows
  BY <1>2, <1>4, <1>5 DEF Rows
<1> QED
  BY <1>1, <1>3, <1>5, <1>6, <1>7 DEF p

\* What an insert leaves behind.
LEMMA Inserted ==
  ASSUME TypeOK, NEW k \in Knock, NEW new \in Rows, Insert(k, new)
  PROVE  /\ row[k] = None /\ status[k] = "absent"
         /\ row'[k] = new /\ status'[k] = "pending"
         /\ \A j \in Knock \ {k} : row'[j] = row[j] /\ status'[j] = status[j]
         /\ row' \in [Knock -> Rows \cup {None}]
         /\ status' \in [Knock -> Statuses]
         /\ UNCHANGED <<now, policy, policySince, holder, leaseEnds>>
  BY DEF Insert, TypeOK, Statuses

\* The steps of Next, one name each.
LEMMA NextCases ==
  ASSUME TypeOK, Next
  PROVE  \/ \E c \in Caller, p \in Offered : SetPolicy(c, p)
         \/ \E c \in Caller, k \in Knock, m \in Message, r \in Room,
               named \in Named \cup {None} : KnockRoot(c, k, m, r, named)
         \/ \E c \in Caller, k \in Knock, m \in Message, r \in Room, parent \in Knock :
               KnockChild(c, k, m, r, parent)
         \/ \E c \in Caller : Claim(c)
         \/ \E c \in Caller, k \in Knock : Started(c, k)
         \/ \E c \in Caller, k \in Knock : Completed(c, k)
         \/ \E c \in Caller, k \in Knock : Failed(c, k)
         \/ Tick
  BY DEF Next

\* A claim fails what it sweeps and leases at most one Knock.
LEMMA ClaimStep ==
  ASSUME TypeOK, NEW c \in Caller, Claim(c)
  PROVE  \E taken \in SUBSET Candidates(RoomOf[c]) :
           /\ \A i, j \in taken : i = j
           /\ \A k \in Knock :
                /\ status'[k] = IF k \in taken THEN "claimed"
                                ELSE IF k \in Swept(RoomOf[c]) THEN "failed" ELSE status[k]
                /\ holder'[k] = IF k \in taken THEN c ELSE holder[k]
                /\ leaseEnds'[k] = IF k \in taken THEN now + Lease ELSE leaseEnds[k]
           /\ status' \in [Knock -> Statuses]
           /\ holder' \in [Knock -> Caller \cup {None}]
           /\ leaseEnds' \in [Knock -> Nat]
           /\ presence' \subseteq Caller
           /\ UNCHANGED <<now, policy, policySince, notified, row>>
<1> DEFINE r == RoomOf[c]
           after == [k \in Knock |-> IF k \in Swept(r) THEN "failed" ELSE status[k]]
<1>1. after \in [Knock -> Statuses]
  BY DEF TypeOK, Statuses
<1>2. CASE status' = after /\ UNCHANGED <<presence, holder, leaseEnds>>
  <2>1. UNCHANGED <<now, policy, policySince, notified, row>>
    BY DEF Claim
  <2> WITNESS {} \in SUBSET Candidates(RoomOf[c])
  <2> QED
    BY <1>1, <1>2, <2>1 DEF TypeOK
<1>3. ASSUME NEW k \in Candidates(r), Enter(c),
             status' = [after EXCEPT ![k] = "claimed"],
             holder' = [holder EXCEPT ![k] = c],
             leaseEnds' = [leaseEnds EXCEPT ![k] = now + Lease]
      PROVE  \E taken \in SUBSET Candidates(RoomOf[c]) :
               /\ \A i, j \in taken : i = j
               /\ \A l \in Knock :
                    /\ status'[l] = IF l \in taken THEN "claimed"
                                    ELSE IF l \in Swept(RoomOf[c]) THEN "failed" ELSE status[l]
                    /\ holder'[l] = IF l \in taken THEN c ELSE holder[l]
                    /\ leaseEnds'[l] = IF l \in taken THEN now + Lease ELSE leaseEnds[l]
               /\ status' \in [Knock -> Statuses]
               /\ holder' \in [Knock -> Caller \cup {None}]
               /\ leaseEnds' \in [Knock -> Nat]
               /\ presence' \subseteq Caller
               /\ UNCHANGED <<now, policy, policySince, notified, row>>
  <2>1. UNCHANGED <<now, policy, policySince, notified, row>>
    BY DEF Claim
  <2>2. k \in Knock /\ now + Lease \in Nat
    BY <1>3, ConstantsAssumption DEF Candidates, TypeOK
  <2>3. /\ status' \in [Knock -> Statuses] /\ holder' \in [Knock -> Caller \cup {None}]
        /\ leaseEnds' \in [Knock -> Nat] /\ presence' \subseteq Caller
    <3>1. status' \in [Knock -> Statuses]
      BY <1>1, <1>3 DEF Statuses
    <3>2. holder' \in [Knock -> Caller \cup {None}]
      BY <1>3 DEF TypeOK
    <3>3. leaseEnds' \in [Knock -> Nat]
      BY <1>3, <2>2 DEF TypeOK
    <3>4. presence' \subseteq Caller
      BY <1>3 DEF Enter, TypeOK
    <3> QED
      BY <3>1, <3>2, <3>3, <3>4
  <2>4. \A l \in Knock :
          /\ status'[l] = IF l \in {k} THEN "claimed" ELSE after[l]
          /\ holder'[l] = IF l \in {k} THEN c ELSE holder[l]
          /\ leaseEnds'[l] = IF l \in {k} THEN now + Lease ELSE leaseEnds[l]
    BY <1>1, <1>3, <2>2 DEF TypeOK
  <2> WITNESS {k} \in SUBSET Candidates(RoomOf[c])
  <2> QED
    BY <2>1, <2>3, <2>4
<1> QED
  BY <1>2, <1>3 DEF Claim

-----------------------------------------------------------------------------
(* Types *)

\* Nothing has been asked at first.
LEMMA InitType == ASSUME Init PROVE TypeOK
  BY ConstantsAssumption DEF Init, TypeOK, Statuses

\* Every step keeps the types: one case for each action of Next.
LEMMA StepType ==
  ASSUME TypeOK, [Next]_vars PROVE TypeOK'
<1>1. ASSUME NEW c \in Caller, NEW p \in Offered, SetPolicy(c, p) PROVE TypeOK'
  <2>1. p \in Policies /\ RoomOf[c] \in Room
    BY ConstantsAssumption DEF Policies, Modes, Turns
  <2>2. policy' \in [Room -> Policies \cup {None}] /\ policySince' \in [Room -> Nat]
    BY <1>1, <2>1 DEF SetPolicy, TypeOK
  <2>3. presence' \subseteq Caller
    BY <1>1 DEF SetPolicy, Enter, TypeOK
  <2>4. UNCHANGED <<now, notified, row, status, holder, leaseEnds>>
    BY <1>1 DEF SetPolicy, knocks
  <2> QED
    BY <2>2, <2>3, <2>4 DEF TypeOK
<1>2. ASSUME NEW c \in Caller, NEW k \in Knock, NEW new \in Rows, Insert(k, new), Enter(c)
      PROVE  TypeOK'
  <2>1. /\ row[k] = None /\ status[k] = "absent" /\ row'[k] = new /\ status'[k] = "pending"
        /\ \A j \in Knock \ {k} : row'[j] = row[j] /\ status'[j] = status[j]
        /\ row' \in [Knock -> Rows \cup {None}] /\ status' \in [Knock -> Statuses]
        /\ UNCHANGED <<now, policy, policySince, holder, leaseEnds>>
    BY <1>2, Inserted
  <2>2. new.recipient \in Room
    BY DEF Rows
  <2>3. notified' \in [Room -> Nat]
    BY <1>2, <2>2 DEF Insert, TypeOK
  <2>4. presence' \subseteq Caller
    BY <1>2 DEF Enter, TypeOK
  <2>5. \A j \in Knock : status'[j] = "absent" <=> row'[j] = None
    BY <2>1, NoneAssumption DEF TypeOK
  <2>6. \A j \in Knock : status'[j] \in {"absent", "pending"} <=> holder'[j] = None
    BY <2>1 DEF TypeOK
  <2> QED
    BY <2>1, <2>3, <2>4, <2>5, <2>6 DEF TypeOK
<1>3. ASSUME NEW c \in Caller, Claim(c) PROVE TypeOK'
  <2>1. PICK taken \in SUBSET Candidates(RoomOf[c]) :
           /\ \A k \in Knock :
                /\ status'[k] = IF k \in taken THEN "claimed"
                                ELSE IF k \in Swept(RoomOf[c]) THEN "failed" ELSE status[k]
                /\ holder'[k] = IF k \in taken THEN c ELSE holder[k]
           /\ status' \in [Knock -> Statuses]
           /\ holder' \in [Knock -> Caller \cup {None}]
           /\ leaseEnds' \in [Knock -> Nat]
           /\ presence' \subseteq Caller
           /\ UNCHANGED <<now, policy, policySince, notified, row>>
    BY <1>3, ClaimStep
  <2>2. \A k \in Knock : k \in taken \cup Swept(RoomOf[c]) => row[k] # None
    BY DEF Candidates, Swept
  <2>3. \A k \in Knock : status'[k] = "absent" <=> row'[k] = None
    BY <2>1, <2>2 DEF TypeOK
  <2>4. \A k \in Swept(RoomOf[c]) : status[k] \in Running
    BY DEF Swept, Sweepable
  <2>5. \A k \in Knock : status'[k] \in {"absent", "pending"} <=> holder'[k] = None
    BY <2>1, <2>4, ConstantsAssumption DEF TypeOK, Running
  <2> QED
    BY <2>1, <2>3, <2>5 DEF TypeOK
<1>4. ASSUME NEW k \in Knock, NEW o \in Statuses \ {"absent", "pending"}, Settle(k, o),
             status[k] \in Running
      PROVE  TypeOK'
  BY <1>4 DEF Settle, TypeOK, Running
<1>5. ASSUME Tick PROVE TypeOK'
  BY <1>5 DEF Tick, TypeOK, knocks
<1>6. ASSUME UNCHANGED vars PROVE TypeOK'
  BY <1>6 DEF vars, TypeOK
<1>7. ASSUME NEW c \in Caller, NEW k \in Knock, NEW m \in Message, NEW r \in Room,
             NEW named \in Named \cup {None}, KnockRoot(c, k, m, r, named)
      PROVE  TypeOK'
  <2>1. PICK new \in Rows : Insert(k, new)
    BY <1>7, RootStep
  <2>2. Enter(c)
    BY <1>7 DEF KnockRoot
  <2> QED
    BY <1>2, <2>1, <2>2
<1>8. ASSUME NEW c \in Caller, NEW k \in Knock, NEW m \in Message, NEW r \in Room,
             NEW parent \in Knock, KnockChild(c, k, m, r, parent)
      PROVE  TypeOK'
  <2>1. PICK new \in Rows : Insert(k, new)
    BY <1>8, ChildStep
  <2>2. Enter(c)
    BY <1>8 DEF KnockChild
  <2> QED
    BY <1>2, <2>1, <2>2
<1>9. ASSUME NEW c \in Caller, NEW k \in Knock,
             Started(c, k) \/ Completed(c, k) \/ Failed(c, k)
      PROVE  TypeOK'
  <2>1. status[k] \in Running
    BY <1>9 DEF Started, Completed, Failed, LeaseActive, Running
  <2>2. \E o \in Statuses \ {"absent", "pending"} : Settle(k, o)
    BY <1>9 DEF Started, Completed, Failed, Statuses
  <2> QED
    BY <1>4, <2>1, <2>2
<1> QED
  BY <1>1, <1>3, <1>5, <1>6, <1>7, <1>8, <1>9, NextCases

\* Every column keeps its type, and a row exists exactly while it has a status.
THEOREM TypeCorrect == Spec => []TypeOK
<1>1. Init => TypeOK
  BY InitType
<1>2. TypeOK /\ [Next]_vars => TypeOK'
  BY StepType
<1> QED
  BY <1>1, <1>2, PTL DEF Spec

-----------------------------------------------------------------------------
(* Exchanges *)

\* The rows and the statuses of the rows that started are never taken back.
LEMMA RowsStay ==
  ASSUME TypeOK, [Next]_vars
  PROVE  \A k \in Knock :
           /\ row[k] # None => row'[k] = row[k]
           /\ status[k] \in {"started", "completed", "failed"} =>
                status'[k] \in {"started", "completed", "failed"}
<1> SUFFICES ASSUME NEW k \in Knock
             PROVE  /\ row[k] # None => row'[k] = row[k]
                    /\ status[k] \in {"started", "completed", "failed"} =>
                         status'[k] \in {"started", "completed", "failed"}
  OBVIOUS
<1>1. ASSUME NEW c \in Caller, NEW p \in Offered, SetPolicy(c, p)
      PROVE  row' = row /\ status' = status
  BY <1>1 DEF SetPolicy, knocks
<1>2. ASSUME NEW j \in Knock, NEW new \in Rows, Insert(j, new)
      PROVE  /\ row[k] # None => row'[k] = row[k]
             /\ status[k] \in {"started", "completed", "failed"} => status'[k] = status[k]
  <2>1. /\ row[j] = None /\ status[j] = "absent"
        /\ k # j => row'[k] = row[k] /\ status'[k] = status[k]
    BY <1>2, Inserted
  <2> QED
    BY <2>1
<1>3. ASSUME NEW c \in Caller, Claim(c)
      PROVE  /\ row'[k] = row[k]
             /\ status[k] \in {"started", "completed", "failed"} =>
                  status'[k] \in {"started", "completed", "failed"}
  <2>1. PICK taken \in SUBSET Candidates(RoomOf[c]) :
           /\ status'[k] = IF k \in taken THEN "claimed"
                           ELSE IF k \in Swept(RoomOf[c]) THEN "failed" ELSE status[k]
           /\ UNCHANGED row
    BY <1>3, ClaimStep
  <2>2. k \in taken => status[k] \in {"pending", "claimed"}
    BY DEF Candidates, Available
  <2> QED
    BY <2>1, <2>2
<1>4. ASSUME NEW c \in Caller, NEW j \in Knock,
             Started(c, j) \/ Completed(c, j) \/ Failed(c, j)
      PROVE  /\ row'[k] = row[k]
             /\ status[k] \in {"started", "completed", "failed"} =>
                  status'[k] \in {"started", "completed", "failed"}
  BY <1>4 DEF Started, Completed, Failed, Settle, TypeOK
<1>5. ASSUME Tick \/ UNCHANGED vars PROVE row' = row /\ status' = status
  BY <1>5 DEF Tick, knocks, vars
<1>6. ASSUME NEW c \in Caller, NEW j \in Knock, NEW m \in Message, NEW r \in Room,
             NEW named \in Named \cup {None}, KnockRoot(c, j, m, r, named)
      PROVE  \E new \in Rows : Insert(j, new)
  BY <1>6, RootStep
<1>7. ASSUME NEW c \in Caller, NEW j \in Knock, NEW m \in Message, NEW r \in Room,
             NEW parent \in Knock, KnockChild(c, j, m, r, parent)
      PROVE  \E new \in Rows : Insert(j, new)
  BY <1>7, ChildStep
<1> QED
  BY <1>1, <1>2, <1>3, <1>4, <1>5, <1>6, <1>7, NextCases

\* One row of ChainIsSound, given the row and the status of its parent.
Follows(k, r, p, parentStatus) ==
  /\ r.turn <= r.max
  /\ IF r.parent = None
       THEN r.root = k /\ r.turn = 1
       ELSE /\ p # None
            /\ parentStatus \in {"started", "completed", "failed"}
            /\ r.turn = p.turn + 1
            /\ <<r.root, r.max, r.expires>> = <<p.root, p.max, p.expires>>
            /\ <<r.from, r.recipient>> = <<p.recipient, p.from>>

\* The invariant, said of one row and its parent at a time.
LEMMA ChainUnfolds ==
  /\ ChainIsSound <=>
       \A k \in Knock : row[k] # None =>
         Follows(k, row[k], row[row[k].parent], status[row[k].parent])
  /\ ChainIsSound' <=>
       \A k \in Knock : row'[k] # None =>
         Follows(k, row'[k], row'[row'[k].parent], status'[row'[k].parent])
  BY DEF ChainIsSound, Follows

\* A row that was sound stays sound: its parent's row stays, and has started.
LEMMA OldRowFollows ==
  ASSUME TypeOK, ChainIsSound, [Next]_vars, NEW k \in Knock, row[k] # None
  PROVE  Follows(k, row'[k], row'[row'[k].parent], status'[row'[k].parent])
<1>1. row'[k] = row[k]
  BY RowsStay
<1>2. Follows(k, row[k], row[row[k].parent], status[row[k].parent])
  BY ChainUnfolds
<1>3. row[k].parent \in Knock \cup {None}
  BY DEF TypeOK, Rows
<1>4. CASE row[k].parent = None
  BY <1>1, <1>2, <1>4 DEF Follows
<1>5. CASE row[k].parent # None
  <2> DEFINE q == row[k].parent
  <2>1. q \in Knock /\ row[q] # None /\ status[q] \in {"started", "completed", "failed"}
    BY <1>2, <1>3, <1>5 DEF Follows
  <2>2. row'[q] = row[q] /\ status'[q] \in {"started", "completed", "failed"}
    BY <2>1, RowsStay
  <2> QED
    BY <1>1, <1>2, <1>5, <2>2 DEF Follows
<1> QED
  BY <1>4, <1>5

\* Every step keeps the chains: old rows by RowsStay, a new one by its action.
LEMMA StepChain ==
  ASSUME TypeOK, ChainIsSound, [Next]_vars PROVE ChainIsSound'
<1> SUFFICES ASSUME NEW k \in Knock, row'[k] # None
             PROVE  Follows(k, row'[k], row'[row'[k].parent], status'[row'[k].parent])
  BY ChainUnfolds
<1>1. CASE row[k] # None
  BY <1>1, OldRowFollows
<1>2. CASE row[k] = None
  <2>1. ASSUME NEW c \in Caller, NEW j \in Knock, NEW m \in Message, NEW r \in Room,
               NEW named \in Named \cup {None}, KnockRoot(c, j, m, r, named)
        PROVE  Follows(k, row'[k], row'[row'[k].parent], status'[row'[k].parent])
    <3>1. PICK new \in Rows : /\ Insert(j, new) /\ new.parent = None
                              /\ new.root = j /\ new.turn = 1
      BY <2>1, RootStep
    <3>2. j = k /\ row'[k] = new
      BY <1>2, <3>1, Inserted
    <3>3. new.max \in Turns
      BY DEF Rows
    <3>4. new.turn <= new.max
      BY <3>1, <3>3, ConstantsAssumption DEF Turns
    <3> QED
      BY <3>1, <3>2, <3>4 DEF Follows
  <2>2. ASSUME NEW c \in Caller, NEW j \in Knock, NEW m \in Message, NEW r \in Room,
               NEW parent \in Knock, KnockChild(c, j, m, r, parent)
        PROVE  Follows(k, row'[k], row'[row'[k].parent], status'[row'[k].parent])
    <3>1. row[parent] \in Rows /\ Answerable(parent)
      BY <2>2, ChildStep
    <3>2. PICK new \in Rows :
            /\ Insert(j, new)
            /\ new.parent = parent
            /\ new.turn = row[parent].turn + 1 /\ new.turn <= row[parent].max
            /\ new.root = row[parent].root /\ new.max = row[parent].max
            /\ new.expires = row[parent].expires
            /\ new.from = row[parent].recipient /\ new.recipient = row[parent].from
      BY <2>2, ChildStep
    <3>3. j = k /\ row'[k] = new
      BY <1>2, <3>2, Inserted
    <3>4. row[parent] # None
      BY <3>1, NoneAssumption
    <3>5. row'[parent] = row[parent] /\ status'[parent] \in {"started", "completed", "failed"}
      BY <3>1, <3>4, RowsStay DEF Answerable
    <3>6. parent # None
      BY ConstantsAssumption
    <3> QED
      BY <3>2, <3>3, <3>4, <3>5, <3>6 DEF Follows
  <2>3. ASSUME NEW c \in Caller, NEW p \in Offered, SetPolicy(c, p) PROVE row' = row
    BY <2>3 DEF SetPolicy, knocks
  <2>4. ASSUME NEW c \in Caller, Claim(c) PROVE row' = row
    BY <2>4 DEF Claim
  <2>5. ASSUME NEW c \in Caller, NEW j \in Knock,
               Started(c, j) \/ Completed(c, j) \/ Failed(c, j)
        PROVE  row' = row
    BY <2>5 DEF Started, Completed, Failed, Settle
  <2>6. ASSUME Tick \/ UNCHANGED vars PROVE row' = row
    BY <2>6 DEF Tick, knocks, vars
  <2> QED
    BY <1>2, <2>1, <2>2, <2>3, <2>4, <2>5, <2>6, NextCases
<1> QED
  BY <1>1, <1>2

\* Every exchange is one chain of turns that alternate between two rooms, on one
\* clock and within one budget, each following a turn that started.
THEOREM ExchangesAreChains == Spec => []ChainIsSound
<1>1. Init => TypeOK /\ ChainIsSound
  BY InitType DEF Init, ChainIsSound
<1>2. TypeOK /\ ChainIsSound /\ [Next]_vars => (TypeOK /\ ChainIsSound)'
  BY StepType, StepChain
<1> QED
  BY <1>1, <1>2, PTL DEF Spec
-----------------------------------------------------------------------------
(* Leases *)

\* What a lease taken under a policy and an expiry still vouches for: it ends
\* within a lease from now, from the expiry and from a revocation.
LeaseIsShort(k) ==
  /\ leaseEnds[k] <= now + Lease
  /\ leaseEnds[k] < Expires(k) + Lease
  /\ \/ Permits(row[k].recipient, row[k].from)
     \/ leaseEnds[k] <= policySince[row[k].recipient] + Lease

LeasesAreShort == \A k \in Knock : status[k] = "claimed" => LeaseIsShort(k)

\* A step that keeps the row, the lease and the policies keeps what is claimed
\* short, however much time it takes.
LEMMA ShortStays ==
  ASSUME TypeOK, NEW k \in Knock, status[k] = "claimed", LeaseIsShort(k),
         row'[k] = row[k], leaseEnds'[k] = leaseEnds[k],
         UNCHANGED <<policy, policySince>>, now' \in Nat, now <= now'
  PROVE  LeaseIsShort(k)'
<1>1. Permits(row[k].recipient, row[k].from)' = Permits(row[k].recipient, row[k].from)
  BY DEF Permits
<1>2. leaseEnds[k] \in Nat /\ now \in Nat /\ Lease \in Nat
  BY ConstantsAssumption DEF TypeOK
<1>3. leaseEnds'[k] <= now' + Lease
  BY <1>2 DEF LeaseIsShort
<1>4. leaseEnds'[k] < Expires(k)' + Lease
  BY DEF LeaseIsShort, Expires
<1>5. \/ Permits(row[k].recipient, row[k].from)'
      \/ leaseEnds'[k] <= policySince'[row'[k].recipient] + Lease
  BY <1>1 DEF LeaseIsShort
<1> QED
  BY <1>3, <1>4, <1>5 DEF LeaseIsShort

\* Every step keeps the leases short: a claim tests both clocks, time only shortens.
LEMMA StepLeases ==
  ASSUME TypeOK, LeasesAreShort, [Next]_vars PROVE LeasesAreShort'
<1> SUFFICES ASSUME NEW k \in Knock, status'[k] = "claimed" PROVE LeaseIsShort(k)'
  BY DEF LeasesAreShort
<1> now \in Nat /\ Lease \in Nat \ {0} /\ leaseEnds[k] \in Nat
  BY ConstantsAssumption DEF TypeOK
<1>1. ASSUME status[k] = "claimed", row'[k] = row[k], leaseEnds'[k] = leaseEnds[k],
             UNCHANGED <<policy, policySince>>, now' \in Nat, now <= now'
      PROVE  LeaseIsShort(k)'
  BY <1>1, ShortStays DEF LeasesAreShort
<1>2. ASSUME NEW c \in Caller, NEW p \in Offered, SetPolicy(c, p) PROVE LeaseIsShort(k)'
  <2> DEFINE r == RoomOf[c]
  <2>1. /\ UNCHANGED <<now, row, status, leaseEnds>> /\ r \in Room
        /\ policy' = [policy EXCEPT ![r] = p] /\ policySince' = [policySince EXCEPT ![r] = now]
    BY <1>2, ConstantsAssumption DEF SetPolicy, knocks
  <2>2. LeaseIsShort(k) /\ row[k].recipient \in Room
    BY <2>1 DEF LeasesAreShort, TypeOK, Rows
  <2>3. leaseEnds'[k] <= now' + Lease /\ leaseEnds'[k] < Expires(k)' + Lease
    BY <2>1, <2>2 DEF LeaseIsShort, Expires
  <2>4. CASE row[k].recipient = r
    <3>1. policySince'[row'[k].recipient] = now
      BY <2>1, <2>4 DEF TypeOK
    <3> QED
      BY <2>1, <2>3, <3>1 DEF LeaseIsShort
  <2>5. CASE row[k].recipient # r
    <3>1. /\ policy'[row'[k].recipient] = policy[row[k].recipient]
          /\ policySince'[row'[k].recipient] = policySince[row[k].recipient]
      BY <2>1, <2>2, <2>5 DEF TypeOK
    <3>2. Permits(row[k].recipient, row[k].from)' = Permits(row[k].recipient, row[k].from)
      BY <2>1, <3>1 DEF Permits
    <3> QED
      BY <2>1, <2>2, <2>3, <3>1, <3>2 DEF LeaseIsShort
  <2> QED
    BY <2>4, <2>5
<1>3. ASSUME NEW j \in Knock, NEW new \in Rows, Insert(j, new) PROVE LeaseIsShort(k)'
  <2>1. /\ status'[j] = "pending"
        /\ \A i \in Knock \ {j} : row'[i] = row[i] /\ status'[i] = status[i]
        /\ UNCHANGED <<now, policy, policySince, leaseEnds>>
    BY <1>3, Inserted
  <2> QED
    BY <1>1, <2>1
<1>4. ASSUME NEW c \in Caller, Claim(c) PROVE LeaseIsShort(k)'
  <2>1. PICK taken \in SUBSET Candidates(RoomOf[c]) :
           /\ status'[k] = IF k \in taken THEN "claimed"
                           ELSE IF k \in Swept(RoomOf[c]) THEN "failed" ELSE status[k]
           /\ leaseEnds'[k] = IF k \in taken THEN now + Lease ELSE leaseEnds[k]
           /\ UNCHANGED <<now, policy, policySince, row>>
    BY <1>4, ClaimStep
  <2>2. CASE k \in taken
    <3>1. InTime(k) /\ Permitted(k) /\ row[k] # None
      BY <2>2 DEF Candidates
    <3>2. Permits(row[k].recipient, row[k].from)'
      BY <2>1, <3>1 DEF Permitted, Permits
    <3>3. Expires(k) \in Nat /\ now < Expires(k)
      BY <3>1 DEF InTime, Expires, TypeOK, Rows
    <3>4. leaseEnds'[k] <= now' + Lease /\ leaseEnds'[k] < Expires(k)' + Lease
      BY <2>1, <2>2, <3>3 DEF Expires
    <3> QED
      BY <3>2, <3>4 DEF LeaseIsShort
  <2>3. CASE k \notin taken
    BY <1>1, <2>1, <2>3
  <2> QED
    BY <2>2, <2>3
<1>5. ASSUME NEW c \in Caller, NEW j \in Knock,
             Started(c, j) \/ Completed(c, j) \/ Failed(c, j)
      PROVE  LeaseIsShort(k)'
  <2>1. /\ UNCHANGED <<now, policy, policySince, row, leaseEnds>>
        /\ status'[k] = status[k]
    BY <1>5 DEF Started, Completed, Failed, Settle, TypeOK
  <2> QED
    BY <1>1, <2>1
<1>6. ASSUME Tick \/ UNCHANGED vars PROVE LeaseIsShort(k)'
  <2>1. UNCHANGED <<policy, policySince, row, status, leaseEnds>> /\ now' \in Nat /\ now <= now'
    BY <1>6 DEF Tick, vars, knocks
  <2> QED
    BY <1>1, <2>1
<1>7. ASSUME NEW c \in Caller, NEW j \in Knock, NEW m \in Message, NEW r \in Room,
             NEW named \in Named \cup {None}, KnockRoot(c, j, m, r, named)
      PROVE  LeaseIsShort(k)'
  BY <1>3, <1>7, RootStep
<1>8. ASSUME NEW c \in Caller, NEW j \in Knock, NEW m \in Message, NEW r \in Room,
             NEW parent \in Knock, KnockChild(c, j, m, r, parent)
      PROVE  LeaseIsShort(k)'
  BY <1>3, <1>8, ChildStep
<1> QED
  BY <1>2, <1>4, <1>5, <1>6, <1>7, <1>8, NextCases

\* The two invariants together, as the action properties use them.
LEMMA LeaseInvariant == Spec => [](TypeOK /\ LeasesAreShort)
<1>1. Init => TypeOK /\ LeasesAreShort
  BY InitType DEF Init, LeasesAreShort
<1>2. TypeOK /\ LeasesAreShort /\ [Next]_vars => (TypeOK /\ LeasesAreShort)'
  BY StepType, StepLeases
<1> QED
  BY <1>1, <1>2, PTL DEF Spec

\* Only the settlement of a live lease starts a turn.
LEMMA StartNeedsLease ==
  ASSUME TypeOK, [Next]_vars, NEW k \in Knock, status[k] # "started", status'[k] = "started"
  PROVE  status[k] = "claimed" /\ now < leaseEnds[k]
<1>1. ASSUME NEW c \in Caller, NEW j \in Knock, Started(c, j)
      PROVE  status[k] = "claimed" /\ now < leaseEnds[k]
  BY <1>1 DEF Started, LeaseActive, Settle, TypeOK
<1>2. ASSUME NEW c \in Caller, NEW j \in Knock, Completed(c, j) \/ Failed(c, j)
      PROVE  FALSE
  BY <1>2 DEF Completed, Failed, Settle, TypeOK
<1>3. ASSUME NEW c \in Caller, Claim(c) PROVE FALSE
  BY <1>3, ClaimStep
<1>4. ASSUME NEW j \in Knock, NEW new \in Rows, Insert(j, new) PROVE FALSE
  BY <1>4, Inserted
<1>5. ASSUME NEW c \in Caller, NEW p \in Offered, SetPolicy(c, p) PROVE FALSE
  BY <1>5 DEF SetPolicy, knocks
<1>6. ASSUME Tick \/ UNCHANGED vars PROVE FALSE
  BY <1>6 DEF Tick, knocks, vars
<1>7. ASSUME NEW c \in Caller, NEW j \in Knock, NEW m \in Message, NEW r \in Room,
             NEW named \in Named \cup {None}, KnockRoot(c, j, m, r, named)
      PROVE  FALSE
  BY <1>4, <1>7, RootStep
<1>8. ASSUME NEW c \in Caller, NEW j \in Knock, NEW m \in Message, NEW r \in Room,
             NEW parent \in Knock, KnockChild(c, j, m, r, parent)
      PROVE  FALSE
  BY <1>4, <1>8, ChildStep
<1> QED
  BY <1>1, <1>2, <1>3, <1>5, <1>6, <1>7, <1>8, NextCases

\* A turn that starts late starts less than one lease after its exchange expired.
THEOREM TurnsStartInTime == Spec => StartsInTime
<1>1. ASSUME TypeOK, LeasesAreShort, [Next]_vars, NEW k \in Knock,
             status[k] # "started", status'[k] = "started"
      PROVE  now < Expires(k) + Lease
  <2>1. status[k] = "claimed" /\ now < leaseEnds[k]
    BY <1>1, StartNeedsLease
  <2>2. leaseEnds[k] < Expires(k) + Lease
    BY <1>1, <2>1 DEF LeasesAreShort, LeaseIsShort
  <2>3. now \in Nat /\ leaseEnds[k] \in Nat /\ Expires(k) \in Nat /\ Lease \in Nat
    BY <1>1, <2>1, ConstantsAssumption DEF TypeOK, Expires, Rows
  <2> QED
    BY <2>1, <2>2, <2>3
<1>2. TypeOK /\ LeasesAreShort /\ [Next]_vars =>
        [\A k \in Knock : status[k] # "started" /\ status'[k] = "started" =>
           now < Expires(k) + Lease]_vars
  BY <1>1
<1> QED
  BY <1>2, LeaseInvariant, PTL DEF Spec, StartsInTime

\* No turn starts a lease or more after the policy that permitted it was replaced
\* by one that does not.
THEOREM RevocationHolds == Spec => RevocationStopsWakes
<1>1. ASSUME TypeOK, LeasesAreShort, [Next]_vars, NEW k \in Knock,
             status[k] # "started", status'[k] = "started",
             ~Permits(row[k].recipient, row[k].from)
      PROVE  now < policySince[row[k].recipient] + Lease
  <2>1. status[k] = "claimed" /\ now < leaseEnds[k]
    BY <1>1, StartNeedsLease
  <2>2. leaseEnds[k] <= policySince[row[k].recipient] + Lease
    BY <1>1, <2>1 DEF LeasesAreShort, LeaseIsShort
  <2>3. row[k].recipient \in Room
    BY <1>1, <2>1 DEF TypeOK, Rows
  <2>4. /\ now \in Nat /\ leaseEnds[k] \in Nat /\ Lease \in Nat
        /\ policySince[row[k].recipient] \in Nat
    BY <1>1, <2>3, ConstantsAssumption DEF TypeOK
  <2> QED
    BY <2>1, <2>2, <2>4
<1>2. TypeOK /\ LeasesAreShort /\ [Next]_vars =>
        [\A k \in Knock : status[k] # "started" /\ status'[k] = "started" =>
           \/ Permits(row[k].recipient, row[k].from)
           \/ now < policySince[row[k].recipient] + Lease]_vars
  BY <1>1
<1> QED
  BY <1>2, LeaseInvariant, PTL DEF Spec, RevocationStopsWakes
-----------------------------------------------------------------------------
(* The turn ledger *)

\* The two time sets of the ledger, as the rows keep them.
Lapsed  == {k \in Knock : leaseEnds[k] <= now}
Expired == {k \in Knock : row[k] # None /\ Expires(k) <= now}

\* A step that leaves rows, leases and the clock alone leaves both as they are.
LEMMA TimeStays ==
  ASSUME UNCHANGED <<now, row, leaseEnds>>
  PROVE  UNCHANGED <<Lapsed, Expired>>
  BY DEF Lapsed, Expired, Expires

\* No Knock, no lease: the ledger starts empty.
LEMMA InitTurn == ASSUME Init PROVE Turn!Init
<1>1. Lapsed = Knock /\ Expired = {}
  BY DEF Init, Lapsed, Expired
<1> QED
  BY <1>1 DEF Init, Turn!Init, Lapsed, Expired

\* A new row is a turn that is asked for.
LEMMA InsertAsks ==
  ASSUME TypeOK, NEW k \in Knock, NEW new \in Rows, Insert(k, new), new.expires > now
  PROVE  Turn!Ask(k)
<1>1. /\ row[k] = None /\ status[k] = "absent" /\ row'[k] = new
      /\ \A j \in Knock \ {k} : row'[j] = row[j]
      /\ UNCHANGED <<now, holder, leaseEnds>>
  BY Inserted
<1>2. status' = [status EXCEPT ![k] = "pending"]
  BY DEF Insert
<1>3. Lapsed' = Lapsed
  BY <1>1 DEF Lapsed
<1>4. new.expires \in Nat /\ now \in Nat
  BY DEF Rows, TypeOK
<1>5. Expired' = Expired
  BY <1>1, <1>4 DEF Expired, Expires
<1> QED
  BY <1>1, <1>2, <1>3, <1>5 DEF Turn!Ask, Lapsed, Expired

\* A claim ends what it sweeps and leases what was due.
LEMMA ClaimLeases ==
  ASSUME TypeOK, NEW c \in Caller, Claim(c)
  PROVE  Turn!Claim(c)
<1> DEFINE swept == Swept(RoomOf[c])
<1>1. PICK taken \in SUBSET Candidates(RoomOf[c]) :
         /\ \A i, j \in taken : i = j
         /\ \A k \in Knock :
              /\ status'[k] = IF k \in taken THEN "claimed"
                              ELSE IF k \in swept THEN "failed" ELSE status[k]
              /\ holder'[k] = IF k \in taken THEN c ELSE holder[k]
              /\ leaseEnds'[k] = IF k \in taken THEN now + Lease ELSE leaseEnds[k]
         /\ status' \in [Knock -> Statuses]
         /\ holder' \in [Knock -> Caller \cup {None}]
         /\ leaseEnds' \in [Knock -> Nat]
         /\ UNCHANGED <<now, row>>
  BY ClaimStep, ZenonT(30)
<1>2. now \in Nat /\ Lease \in Nat \ {0}
  BY ConstantsAssumption DEF TypeOK
<1>3. \A k \in taken : k \in Knock /\ row[k] # None /\ InTime(k) /\ Available(k)
  BY DEF Candidates
<1>4. \A k \in Knock : row[k] # None => Expires(k) \in Nat
  BY DEF TypeOK, Rows, Expires
<1>5. \A k \in taken : k \notin Expired /\ k \notin swept
  BY <1>2, <1>3, <1>4 DEF Expired, InTime, Swept
<1>6. swept \in SUBSET {k \in Expired : status[k] \in Turn!Running}
  BY DEF Swept, Sweepable, Running, Expired, Turn!Running
<1>7. \A k \in taken : Turn!Due(k)
  BY <1>3, <1>5 DEF Turn!Due, Available, Expired
<1>8. taken \in {t \in SUBSET {k \in Knock : Turn!Due(k)} : \A i, j \in t : i = j}
  BY <1>1, <1>3, <1>7
<1>9. status' = [k \in Knock |-> IF k \in swept THEN "failed"
                                 ELSE IF k \in taken THEN "claimed" ELSE status[k]]
  BY <1>1, <1>5
<1>10. holder' = [k \in Knock |-> IF k \in taken THEN c ELSE holder[k]]
  BY <1>1
<1>11. Lapsed' = Lapsed \ taken
  BY <1>1, <1>2 DEF Lapsed
<1>12. Expired' = Expired
  BY <1>1 DEF Expired, Expires
<1> HIDE DEF swept
<1> QED
  BY <1>6, <1>8, <1>9, <1>10, <1>11, <1>12 DEF Turn!Claim, Lapsed, Expired

\* A settlement is the holder's step of the ledger.
LEMMA SettlementTurns ==
  ASSUME TypeOK, NEW c \in Caller, NEW k \in Knock
  PROVE  /\ Started(c, k) => Turn!Start(c, k)
         /\ Completed(c, k) => Turn!Complete(c, k)
         /\ Failed(c, k) => Turn!Fail(c, k)
<1>1. ASSUME NEW o, Settle(k, o) PROVE Turn!Settle(k, o)
  <2>1. UNCHANGED <<Lapsed, Expired>>
    BY <1>1, TimeStays DEF Settle
  <2> QED
    BY <1>1, <2>1 DEF Settle, Turn!Settle, Lapsed, Expired
<1>2. LeaseActive(k) => status[k] = "claimed" /\ k \notin Lapsed
  BY DEF LeaseActive, Lapsed, TypeOK
<1>3. Holds(c, k) /\ LeaseActive(k) => Turn!Leases(c, k)
  BY <1>2 DEF Holds, Turn!Leases, Lapsed
<1>4. Holds(c, k) /\ status[k] = "started" => Turn!Runs(c, k)
  BY DEF Holds, Turn!Runs
<1>5. Started(c, k) => Turn!Start(c, k)
  BY <1>1, <1>3 DEF Started, Turn!Start
<1>6. Completed(c, k) => Turn!Complete(c, k)
  BY <1>1, <1>4 DEF Completed, Turn!Complete
<1>7. Failed(c, k) => Turn!Fail(c, k)
  BY <1>1, <1>3, <1>4 DEF Failed, Turn!Fail
<1> QED
  BY <1>5, <1>6, <1>7

\* Time only adds to the lapsed and the expired.
LEMMA TickPassesTime == ASSUME TypeOK, Tick PROVE Turn!TimePasses
<1>1. now' = now + 1 /\ UNCHANGED <<row, status, holder, leaseEnds>>
  BY DEF Tick, knocks
<1>2. now \in Nat /\ \A k \in Knock : leaseEnds[k] \in Nat
  BY DEF TypeOK
<1>3. Lapsed \subseteq Lapsed'
  BY <1>1, <1>2 DEF Lapsed
<1>4. \A k \in Knock : row[k] # None => Expires(k) \in Nat /\ Expires(k)' = Expires(k)
  BY <1>1 DEF TypeOK, Rows, Expires
<1>5. Expired \subseteq Expired'
  BY <1>1, <1>2, <1>4 DEF Expired
<1>6. Lapsed' \subseteq Knock /\ Expired' \subseteq Knock
  BY DEF Lapsed, Expired
<1> QED
  BY <1>1, <1>3, <1>5, <1>6 DEF Turn!TimePasses, Lapsed, Expired

\* Every step of the rows is a step of the ledger or a stutter.
LEMMA StepTurn == ASSUME TypeOK, [Next]_vars PROVE [Turn!Next]_(Turn!vars)
<1>1. ASSUME NEW c \in Caller, NEW p \in Offered, SetPolicy(c, p) PROVE UNCHANGED Turn!vars
  <2>1. UNCHANGED <<now, row, status, holder, leaseEnds>>
    BY <1>1 DEF SetPolicy, knocks
  <2> QED
    BY <2>1, TimeStays DEF Turn!vars, Lapsed, Expired
<1>2. ASSUME NEW k \in Knock, NEW new \in Rows, Insert(k, new), new.expires > now
      PROVE  Turn!Next
  BY <1>2, InsertAsks DEF Turn!Next
<1>3. ASSUME NEW c \in Caller, NEW k \in Knock, NEW m \in Message, NEW r \in Room,
             NEW named \in Named \cup {None}, KnockRoot(c, k, m, r, named)
      PROVE  Turn!Next
  BY <1>2, <1>3, RootStep
<1>4. ASSUME NEW c \in Caller, NEW k \in Knock, NEW m \in Message, NEW r \in Room,
             NEW parent \in Knock, KnockChild(c, k, m, r, parent)
      PROVE  Turn!Next
  BY <1>2, <1>4, ChildStep
<1>5. ASSUME NEW c \in Caller, Claim(c) PROVE Turn!Next
  BY <1>5, ClaimLeases DEF Turn!Next
<1>6. ASSUME NEW c \in Caller, NEW k \in Knock,
             Started(c, k) \/ Completed(c, k) \/ Failed(c, k)
      PROVE  Turn!Next
  BY <1>6, SettlementTurns DEF Turn!Next
<1>7. ASSUME Tick PROVE Turn!Next
  BY <1>7, TickPassesTime DEF Turn!Next
<1>8. ASSUME UNCHANGED vars PROVE UNCHANGED Turn!vars
  <2>1. UNCHANGED <<now, row, status, holder, leaseEnds>>
    BY <1>8 DEF vars
  <2> QED
    BY <2>1, TimeStays DEF Turn!vars, Lapsed, Expired
<1> QED
  BY <1>1, <1>3, <1>4, <1>5, <1>6, <1>7, <1>8, NextCases

\* The rows of hallway_knocks, under every claim, settlement, sweep and passing of
\* time, implement the turn ledger that the sessions rely on.
THEOREM ImplementsTurns == Spec => KeepsTurns
<1>1. Init => Turn!Init
  BY InitTurn
<1>2. TypeOK /\ [Next]_vars => [Turn!Next]_(Turn!vars)
  BY StepTurn
<1> QED
  BY <1>1, <1>2, TypeCorrect, PTL DEF Spec, KeepsTurns, Turn!Spec
=============================================================================
