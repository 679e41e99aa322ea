------------------------- MODULE CraneDeliveryProofs -------------------------
(* Theorems about CraneDelivery for every set of events, workers and copies. *)
EXTENDS CraneDelivery, TLAPS

-----------------------------------------------------------------------------
(* Type correctness needs to know what a worker holds at each place. *)

StoredCopies == \A c \in Copy : copyState[c] # "absent" => body[c] \in Body

HoldsClaim == \A w \in Worker : pc[w] \in Publishing => holds[w] \in Event

HoldsCopy ==
  \A w \in Worker : pc[w] \in Consuming =>
    holds[w] \in Copy /\ copyState[holds[w]] # "absent"

HoldsEvent ==
  \A w \in Worker : pc[w] \in {"apply", "insert", "project", "ack"} => body[holds[w]] \in Event

Shape == TypeOK /\ StoredCopies /\ HoldsClaim /\ HoldsCopy /\ HoldsEvent

\* The steps of Next, one name each: what a proof by cases splits on.
LEMMA NextCases ==
  ASSUME Next
  PROVE  \/ \E w \in Worker, e \in Event : ClaimNext(w, e)
         \/ \E w \in Worker : \/ ClaimNothing(w) \/ RefuseClaim(w) \/ Publish(w)
                              \/ MarkPublished(w) \/ MarkPublishFailure(w)
         \/ \E w \in Worker, c \in Copy : Fetch(w, c)
         \/ \E w \in Worker : \/ FetchNothing(w) \/ Refuse(w) \/ Admit(w) \/ Poison(w)
                              \/ MissReceipt(w) \/ RecordReceipt(w) \/ RetryLater(w) \/ Exhaust(w)
                              \/ Project(w) \/ Ack(w) \/ Term(w)
         \/ \E w \in Worker : Reconnect(w) \/ Start(w) \/ Fault(w) \/ Stop(w) \/ Crash(w)
         \/ \E e \in Event : Enqueue(e) \/ LeaseLapses(e) \/ Expire(e) \/ WindowCloses(e)
         \/ \E c \in Copy : Return(c) \/ Age(c)
         \/ \E s \in Stray : Inject(s)
  BY DEF Next, Tick, PublishOnce, ConsumeOnce

\* The initial state has its type, and no worker holds anything.
LEMMA InitShape == ASSUME Init PROVE Shape
  BY ConstantsAssumption
  DEF Init, Shape, TypeOK, StoredCopies, HoldsClaim, HoldsCopy, HoldsEvent,
      OutboxStates, CopyStates, Places, Publishing, Consuming, Gone

\* A worker that lets its copy go does not disturb what the others hold.
LEMMA CopiesStayHeld ==
  ASSUME HoldsCopy, NEW w \in Worker, pc'[w] \notin Consuming,
         \A v \in Worker \ {w} : pc'[v] = pc[v] /\ holds'[v] = holds[v],
         \A c \in Copy : copyState[c] = "absent" <=> copyState'[c] = "absent"
  PROVE  HoldsCopy'
<1>1. SUFFICES ASSUME NEW v \in Worker, pc'[v] \in Consuming
               PROVE  holds'[v] \in Copy /\ copyState'[holds'[v]] # "absent"
  BY DEF HoldsCopy
<1>2. v # w
  BY <1>1
<1>3. holds'[v] = holds[v] /\ pc[v] \in Consuming
  BY <1>1, <1>2
<1>4. holds[v] \in Copy /\ copyState[holds[v]] # "absent"
  BY <1>3 DEF HoldsCopy
<1> QED
  BY <1>3, <1>4

\* Every step keeps the shape: one case for each action of Next.
LEMMA ShapeStep == ASSUME Shape, [Next]_vars PROVE Shape'
<1> USE ConstantsAssumption
    DEF Shape, TypeOK, StoredCopies, HoldsClaim, HoldsCopy, HoldsEvent,
        Body, OutboxStates, CopyStates, Places, Publishing, Consuming, Gone,
        Goto, Drop, Blame, table, stream, ledger, workers
<1>1. CASE UNCHANGED vars
  BY <1>1 DEF vars
<1>2. ASSUME NEW w \in Worker, NEW e \in Event, ClaimNext(w, e) PROVE Shape'
  BY <1>2 DEF ClaimNext, Claimable
<1>3. ASSUME NEW w \in Worker, ClaimNothing(w) PROVE Shape'
  BY <1>3 DEF ClaimNothing
<1>4. ASSUME NEW w \in Worker, RefuseClaim(w) PROVE Shape'
  BY <1>4 DEF RefuseClaim, DeadLetterClaim, EndClaim, Letter, Sources, Reasons, HasLease
<1>5. ASSUME NEW w \in Worker, Publish(w) PROVE Shape'
  <2>1. CASE UNCHANGED stream
    BY <1>5, <2>1 DEF Publish
  <2>2. ASSUME NEW c \in Copy, Append(c, holds[w]), remembered' = remembered \cup {holds[w]}
        PROVE Shape'
    <3>1. holds[w] \in Event /\ pc[w] = "claimed"
      BY <1>5 DEF Publish
    <3>2. /\ body' \in [Copy -> Body \cup {None}] /\ remembered' \subseteq Event
          /\ copyState' \in [Copy -> CopyStates] /\ deliveries' = deliveries
      BY <2>2, <3>1 DEF Append
    <3>3. pc' \in [Worker -> Places]
      BY <1>5 DEF Publish
    <3>4. TypeOK'
      BY <1>5, <3>2, <3>3 DEF Publish
    <3>5. \A d \in Copy : copyState[d] # "absent" => body'[d] = body[d] /\ copyState'[d] # "absent"
      BY <2>2 DEF Append
    <3>6. StoredCopies'
      BY <2>2, <3>1 DEF Append
    <3>7. /\ \A v \in Worker \ {w} : pc'[v] = pc[v]
          /\ pc'[w] \in Publishing
          /\ holds' = holds
      BY <1>5 DEF Publish
    <3> QED
      BY <3>1, <3>4, <3>5, <3>6, <3>7
  <2> QED
    BY <1>5, <2>1, <2>2 DEF Publish, Store
<1>6. ASSUME NEW w \in Worker, MarkPublished(w) PROVE Shape'
  BY <1>6 DEF MarkPublished, EndClaim
<1>7. ASSUME NEW w \in Worker, MarkPublishFailure(w) PROVE Shape'
  BY <1>7 DEF MarkPublishFailure, DeadLetterClaim, EndClaim, Letter, Sources, Reasons, HasLease
<1>8. ASSUME NEW w \in Worker, NEW c \in Copy, Fetch(w, c) PROVE Shape'
  BY <1>8 DEF Fetch, Fetchable
<1>9. ASSUME NEW w \in Worker, FetchNothing(w) PROVE Shape'
  BY <1>9 DEF FetchNothing
<1>10. ASSUME NEW w \in Worker, Refuse(w) PROVE Shape'
  BY <1>10 DEF Refuse, Refused, DeadLetterDelivery, Letter, Sources, Reasons
<1>11. ASSUME NEW w \in Worker, Admit(w) PROVE Shape'
  <2>1. pc[w] = "handle" /\ holds[w] \in Copy /\ copyState[holds[w]] # "absent"
    BY <1>11 DEF Admit
  <2>2. body[holds[w]] \in Event
    <3>1. body[holds[w]] \notin Stray
      <4>1. Refused(body[holds[w]]) = {}
        BY <1>11 DEF Admit
      <4> QED
        BY <4>1 DEF Refused
    <3> QED
      BY <2>1, <3>1
  <2>3. /\ pc' = [pc EXCEPT ![w] = "apply"] /\ holds' = holds /\ body' = body /\ copyState' = copyState
    BY <1>11 DEF Admit
  <2>4. TypeOK' /\ StoredCopies' /\ HoldsClaim'
    BY <1>11, <2>3 DEF Admit
  <2>5. \A v \in Worker : pc'[v] = IF v = w THEN "apply" ELSE pc[v]
    BY <2>3
  <2>6. HoldsCopy'
    BY <2>1, <2>3, <2>5
  <2>7. HoldsEvent'
    BY <2>2, <2>3, <2>5
  <2> QED
    BY <2>4, <2>6, <2>7
<1>26. ASSUME NEW w \in Worker, MissReceipt(w) PROVE Shape'
  <2>1. /\ pc[w] = "apply" /\ pc' = [pc EXCEPT ![w] = "insert"]
        /\ UNCHANGED <<table, overdue, ledger, stream, projected, holds, count, faults>>
    BY <1>26 DEF MissReceipt
  <2>2. TypeOK' /\ StoredCopies' /\ HoldsClaim'
    BY <2>1
  <2>3. HoldsCopy' /\ HoldsEvent'
    BY <2>1
  <2> QED
    BY <2>2, <2>3
<1>12. ASSUME NEW w \in Worker, Poison(w) PROVE Shape'
  BY <1>12 DEF Poison, DeadLetterDelivery, Letter, Sources, Reasons
<1>13. ASSUME NEW w \in Worker, RecordReceipt(w) PROVE Shape'
  <2>1. /\ holds[w] \in Copy /\ copyState[holds[w]] # "absent"
        /\ body[holds[w]] \in Event
    BY <1>13 DEF RecordReceipt
  <2>2. receipt' \in [Event -> Copy \cup {None}]
    BY <1>13, <2>1 DEF RecordReceipt, Recorded
  <2>3. /\ pc' \in [Worker -> Places]
        /\ pc'[w] \in {"project", "ack"}
        /\ \A v \in Worker \ {w} : pc'[v] = pc[v]
    BY <1>13 DEF RecordReceipt, AfterReceipt
  <2>4. UNCHANGED <<table, overdue, letters, stream, projected, holds, count, faults>>
    BY <1>13 DEF RecordReceipt
  <2>5. TypeOK'
    BY <2>2, <2>3, <2>4
  <2>6. StoredCopies' /\ HoldsClaim'
    BY <2>3, <2>4
  <2>7. HoldsCopy'
    BY <2>1, <2>3, <2>4
  <2>8. HoldsEvent'
    BY <2>1, <2>3, <2>4
  <2> QED
    BY <2>5, <2>6, <2>7, <2>8
<1>14. ASSUME NEW w \in Worker, RetryLater(w) PROVE Shape'
  <2>1. holds[w] \in Copy /\ copyState[holds[w]] # "absent"
    BY <1>14 DEF RetryLater
  <2>2. /\ copyState' \in [Copy -> CopyStates]
        /\ \A c \in Copy : copyState[c] = "absent" <=> copyState'[c] = "absent"
    BY <1>14, <2>1 DEF RetryLater
  <2>3. /\ pc' \in [Worker -> Places] /\ pc'[w] = "publish"
        /\ \A v \in Worker \ {w} : pc'[v] = pc[v] /\ holds'[v] = holds[v]
        /\ holds' \in [Worker -> Event \cup Copy \cup {None}] /\ count' \in [Worker -> Nat]
        /\ faults' \in Nat
    BY <1>14 DEF RetryLater
  <2>4. UNCHANGED <<table, overdue, ledger, body, deliveries, remembered, projected>>
    BY <1>14 DEF RetryLater
  <2>5. TypeOK'
    BY <2>2, <2>3, <2>4
  <2>6. StoredCopies'
    BY <2>2, <2>4
  <2>7. HoldsClaim' /\ HoldsEvent'
    BY <2>3, <2>4
  <2>8. HoldsCopy'
    BY <2>2, <2>3, CopiesStayHeld
  <2> QED
    BY <2>5, <2>6, <2>7, <2>8
<1>15. ASSUME NEW w \in Worker, Exhaust(w) PROVE Shape'
  BY <1>15 DEF Exhaust, DeadLetterDelivery, Letter, Sources, Reasons
<1>16. ASSUME NEW w \in Worker, Project(w) PROVE Shape'
  BY <1>16 DEF Project
<1>17. ASSUME NEW w \in Worker, Ack(w) PROVE Shape'
  <2>1. holds[w] \in Copy
    BY <1>17 DEF Ack
  <2>2. /\ copyState' \in [Copy -> CopyStates]
        /\ \A c \in Copy : copyState[c] = "absent" <=> copyState'[c] = "absent"
    BY <1>17, <2>1 DEF Ack, Settled
  <2>3. /\ pc' \in [Worker -> Places] /\ pc'[w] = "publish"
        /\ \A v \in Worker \ {w} : pc'[v] = pc[v] /\ holds'[v] = holds[v]
        /\ holds' \in [Worker -> Event \cup Copy \cup {None}] /\ count' \in [Worker -> Nat]
        /\ faults' \in Nat
    BY <1>17 DEF Ack
  <2>4. UNCHANGED <<table, overdue, ledger, body, deliveries, remembered, projected>>
    BY <1>17 DEF Ack
  <2>5. TypeOK'
    BY <2>2, <2>3, <2>4
  <2>6. StoredCopies'
    BY <2>2, <2>4
  <2>7. HoldsClaim' /\ HoldsEvent'
    BY <2>3, <2>4
  <2>8. HoldsCopy'
    BY <2>2, <2>3, CopiesStayHeld
  <2> QED
    BY <2>5, <2>6, <2>7, <2>8
<1>18. ASSUME NEW w \in Worker, Term(w) PROVE Shape'
  <2>1. holds[w] \in Copy
    BY <1>18 DEF Term
  <2>2. /\ copyState' \in [Copy -> CopyStates]
        /\ \A c \in Copy : copyState[c] = "absent" <=> copyState'[c] = "absent"
    BY <1>18, <2>1 DEF Term, Settled
  <2>3. /\ pc' \in [Worker -> Places] /\ pc'[w] = "publish"
        /\ \A v \in Worker \ {w} : pc'[v] = pc[v] /\ holds'[v] = holds[v]
        /\ holds' \in [Worker -> Event \cup Copy \cup {None}] /\ count' \in [Worker -> Nat]
        /\ faults' \in Nat
    BY <1>18 DEF Term
  <2>4. UNCHANGED <<table, overdue, ledger, body, deliveries, remembered, projected>>
    BY <1>18 DEF Term
  <2>5. TypeOK'
    BY <2>2, <2>3, <2>4
  <2>6. StoredCopies'
    BY <2>2, <2>4
  <2>7. HoldsClaim' /\ HoldsEvent'
    BY <2>3, <2>4
  <2>8. HoldsCopy'
    BY <2>2, <2>3, CopiesStayHeld
  <2> QED
    BY <2>5, <2>6, <2>7, <2>8
<1>19. ASSUME NEW w \in Worker, Reconnect(w) \/ Start(w) PROVE Shape'
  BY <1>19 DEF Reconnect, Start
<1>20. ASSUME NEW w \in Worker, Fault(w) \/ Stop(w) \/ Crash(w) PROVE Shape'
  BY <1>20 DEF Fault, Stop, Crash
<1>21. ASSUME NEW e \in Event, Enqueue(e) \/ Expire(e) PROVE Shape'
  BY <1>21 DEF Enqueue, Expire, Perishable
<1>25. ASSUME NEW e \in Event, LeaseLapses(e) PROVE Shape'
  BY <1>25 DEF LeaseLapses
<1>22. ASSUME NEW e \in Event, WindowCloses(e) PROVE Shape'
  BY <1>22 DEF WindowCloses
<1>23. ASSUME NEW c \in Copy, Return(c) \/ Age(c) PROVE Shape'
  <2>1. /\ copyState' \in [Copy -> CopyStates]
        /\ \A d \in Copy : copyState[d] = "absent" <=> copyState'[d] = "absent"
    BY <1>23 DEF Return, Age, Returned
  <2>2. /\ UNCHANGED <<table, overdue, ledger, body, deliveries, remembered, projected, workers>>
        /\ faults' \in Nat
    BY <1>23 DEF Return, Age
  <2>3. TypeOK'
    BY <2>1, <2>2
  <2>4. StoredCopies' /\ HoldsClaim' /\ HoldsCopy' /\ HoldsEvent'
    BY <2>1, <2>2
  <2> QED
    BY <2>3, <2>4
<1>24. ASSUME NEW s \in Stray, Inject(s) PROVE Shape'
  BY <1>24 DEF Inject, Append
<1> QED
  BY <1>1, <1>2, <1>3, <1>4, <1>5, <1>6, <1>7, <1>8, <1>9, <1>10, <1>11, <1>12,
     <1>13, <1>14, <1>15, <1>16, <1>17, <1>18, <1>19, <1>20, <1>21, <1>22, <1>23,
     <1>24, <1>25, <1>26, NextCases

\* Every variable keeps its type, whatever the sets of events, workers, copies.
THEOREM TypeCorrect == Spec => []TypeOK
<1>1. Init => Shape
  BY InitShape
<1>2. Shape /\ [Next]_vars => Shape'
  BY ShapeStep
<1>3. Shape => TypeOK
  BY DEF Shape
<1> QED
  BY <1>1, <1>2, <1>3, PTL DEF Spec

-----------------------------------------------------------------------------
(* The ledger: what is received or refused was owed, and what is received is *)
(* sound.  A copy only ever carries an event that was enqueued and validated. *)

CarriesOwed ==
  \A c \in Copy : body[c] \in Event =>
    copyState[c] # "absent" /\ outbox[body[c]] # "absent" /\ body[c] \notin Malformed

ClaimsOwed == \A w \in Worker : pc[w] \in Publishing => outbox[holds[w]] # "absent"

ReceiptsOwed ==
  \A e \in Event : receipt[e] # None =>
    /\ e \notin Malformed \cup Mismatched
    /\ body[receipt[e]] = e

LettersOwed == \A l \in letters : l.about \in Event => outbox[l.about] # "absent"

Rest == CarriesOwed /\ ClaimsOwed /\ ReceiptsOwed /\ LettersOwed

Owed == Shape /\ Rest

\* Nothing is enqueued at first, and nothing is held.
LEMMA InitOwed == ASSUME Init PROVE Owed
<1>1. Shape
  BY InitShape
<1> QED
  BY <1>1, ConstantsAssumption
  DEF Init, Owed, Rest, CarriesOwed, ClaimsOwed, ReceiptsOwed, LettersOwed, Publishing

\* An enqueued row stays enqueued, and a worker that drops its claim leaves the
\* others' claims as they were.
LEMMA ClaimsStay ==
  ASSUME ClaimsOwed, NEW w \in Worker, pc'[w] \notin Publishing, outbox' = outbox,
         \A v \in Worker \ {w} : pc'[v] = pc[v] /\ holds'[v] = holds[v]
  PROVE  ClaimsOwed'
  BY DEF ClaimsOwed

\* What the copies carry does not depend on where their delivery stands.
LEMMA CarriesStay ==
  ASSUME CarriesOwed, body' = body, outbox' = outbox,
         \A c \in Copy : copyState[c] # "absent" => copyState'[c] # "absent"
  PROVE  CarriesOwed'
  BY DEF CarriesOwed

\* Every step keeps what is under way owed: one case for each action of Next.
LEMMA OwedStep == ASSUME Owed, [Next]_vars PROVE Owed'
<1> USE ConstantsAssumption
    DEF Rest, CarriesOwed, ClaimsOwed, ReceiptsOwed, LettersOwed, Body, Publishing, Consuming,
        Goto, Drop, table, stream, ledger, workers
<1>0. Shape /\ Shape'
  BY ShapeStep DEF Owed
<1>A. /\ outbox \in [Event -> OutboxStates] /\ receipt \in [Event -> Copy \cup {None}]
      /\ body \in [Copy -> Body \cup {None}] /\ copyState \in [Copy -> CopyStates]
      /\ pc \in [Worker -> Places] /\ holds \in [Worker -> Event \cup Copy \cup {None}]
      /\ HoldsClaim /\ HoldsCopy /\ HoldsEvent
  BY <1>0 DEF Shape, TypeOK
<1>B. Rest
  BY DEF Owed
<1> USE <1>A, <1>B DEF HoldsClaim, HoldsCopy, HoldsEvent
<1>1. ASSUME UNCHANGED vars PROVE Rest'
  <2>1. CarriesOwed'
    BY <1>1 DEF vars
  <2>2. ClaimsOwed'
    BY <1>1 DEF vars
  <2>3. ReceiptsOwed'
    BY <1>1 DEF vars
  <2>4. LettersOwed'
    BY <1>1 DEF vars
  <2> QED
    BY ONLY <2>1, <2>2, <2>3, <2>4 DEF Rest
<1>2. ASSUME NEW w \in Worker, NEW e \in Event, ClaimNext(w, e) PROVE Rest'
  BY <1>2 DEF ClaimNext, Claimable
<1>3. ASSUME NEW w \in Worker, ClaimNothing(w) PROVE Rest'
  BY <1>3 DEF ClaimNothing
<1>4. ASSUME NEW w \in Worker, RefuseClaim(w) PROVE Rest'
  BY <1>4 DEF RefuseClaim, DeadLetterClaim, EndClaim, Letter, HasLease
<1>5. ASSUME NEW w \in Worker, Publish(w) PROVE Rest'
  <2>1. CarriesOwed'
    BY <1>5 DEF Publish, Store, Append, Valid
  <2>2. ClaimsOwed'
    BY <1>5 DEF Publish, Store, Append, Valid
  <2>3. ReceiptsOwed'
    <3>1. receipt' = receipt /\ (body' = body \/ \E c \in Copy : Append(c, holds[w]))
      BY <1>5 DEF Publish, Store
    <3>2. \A c \in Copy : copyState[c] # "absent" => body'[c] = body[c]
      BY <3>1 DEF Append
    <3>3. \A e \in Event : receipt[e] # None =>
             receipt[e] \in Copy /\ copyState[receipt[e]] # "absent" /\ body[receipt[e]] = e
      BY ONLY <1>A, <1>B DEF Rest, CarriesOwed, ReceiptsOwed
    <3>4. receipt' = receipt /\ \A e \in Event : receipt[e] # None => e \notin Malformed \cup Mismatched
      BY ONLY <1>B, <3>1 DEF Rest, ReceiptsOwed
    <3> QED
      BY ONLY <3>2, <3>3, <3>4 DEF ReceiptsOwed
  <2>4. LettersOwed'
    BY <1>5 DEF Publish, Store, Append, Valid
  <2> QED
    BY ONLY <2>1, <2>2, <2>3, <2>4 DEF Rest
<1>6. ASSUME NEW w \in Worker, MarkPublished(w) PROVE Rest'
  BY <1>6 DEF MarkPublished, EndClaim
<1>7. ASSUME NEW w \in Worker, MarkPublishFailure(w) PROVE Rest'
  BY <1>7 DEF MarkPublishFailure, DeadLetterClaim, EndClaim, Letter, HasLease
<1>8. ASSUME NEW w \in Worker, NEW c \in Copy, Fetch(w, c) PROVE Rest'
  BY <1>8 DEF Fetch
<1>9. ASSUME NEW w \in Worker, FetchNothing(w) \/ Admit(w) \/ MissReceipt(w) PROVE Rest'
  BY <1>9 DEF FetchNothing, Admit, MissReceipt
<1>10. ASSUME NEW w \in Worker, Refuse(w) PROVE Rest'
  <2>1. CarriesOwed'
    BY <1>10 DEF Refuse, DeadLetterDelivery, Letter
  <2>2. ClaimsOwed'
    BY <1>10 DEF Refuse, DeadLetterDelivery, Letter
  <2>3. ReceiptsOwed'
    BY <1>10 DEF Refuse, DeadLetterDelivery, Letter
  <2>4. LettersOwed'
    <3>1. PICK reason : letters' = letters \cup {Letter("consumer", body[holds[w]], reason)}
      BY <1>10 DEF Refuse, DeadLetterDelivery
    <3>2. holds[w] \in Copy /\ outbox' = outbox
      BY <1>10 DEF Refuse, DeadLetterDelivery
    <3>3. ASSUME NEW l \in letters', l.about \in Event
          PROVE  outbox'[l.about] # "absent"
      <4>1. l \in letters \/ l.about = body[holds[w]]
        BY ONLY <3>1, <3>3 DEF Letter
      <4> QED
        BY ONLY <1>B, <3>2, <3>3, <4>1 DEF Rest, LettersOwed, CarriesOwed
    <3> QED
      BY ONLY <3>3 DEF LettersOwed
  <2> QED
    BY ONLY <2>1, <2>2, <2>3, <2>4 DEF Rest
<1>11. ASSUME NEW w \in Worker, Poison(w) \/ Exhaust(w) PROVE Rest'
  <2>1. CarriesOwed'
    BY <1>11 DEF Poison, Exhaust, DeadLetterDelivery, Letter
  <2>2. ClaimsOwed'
    BY <1>11 DEF Poison, Exhaust, DeadLetterDelivery, Letter
  <2>3. ReceiptsOwed'
    BY <1>11 DEF Poison, Exhaust, DeadLetterDelivery, Letter
  <2>4. LettersOwed'
    <3>1. PICK reason : letters' = letters \cup {Letter("consumer", body[holds[w]], reason)}
      BY <1>11 DEF Poison, Exhaust, DeadLetterDelivery
    <3>2. holds[w] \in Copy /\ outbox' = outbox
      BY <1>11 DEF Poison, Exhaust, DeadLetterDelivery
    <3>3. ASSUME NEW l \in letters', l.about \in Event
          PROVE  outbox'[l.about] # "absent"
      <4>1. l \in letters \/ l.about = body[holds[w]]
        BY ONLY <3>1, <3>3 DEF Letter
      <4> QED
        BY ONLY <1>B, <3>2, <3>3, <4>1 DEF Rest, LettersOwed, CarriesOwed
    <3> QED
      BY ONLY <3>3 DEF LettersOwed
  <2> QED
    BY ONLY <2>1, <2>2, <2>3, <2>4 DEF Rest
<1>12. ASSUME NEW w \in Worker, RecordReceipt(w) PROVE Rest'
  <2>1. CarriesOwed'
    BY <1>12 DEF RecordReceipt, Recorded, AfterReceipt, Poisoned
  <2>2. ClaimsOwed'
    BY <1>12 DEF RecordReceipt, Recorded, AfterReceipt, Poisoned
  <2>3. ReceiptsOwed'
    <3>1. /\ holds[w] \in Copy /\ body[holds[w]] \in Event
          /\ body' = body
          /\ receipt' = Recorded(body[holds[w]], holds[w])
      BY <1>12 DEF RecordReceipt
    <3>4. ~Poisoned(body[holds[w]])
      BY <1>12 DEF RecordReceipt, Poisoned
    <3>2. body[holds[w]] \notin Malformed
      BY <3>1
    <3>3. ASSUME NEW e \in Event, receipt'[e] # None
          PROVE  e \notin Malformed \cup Mismatched /\ body'[receipt'[e]] = e
      <4>1. CASE receipt[e] # None
        BY <3>1, <4>1 DEF Recorded
      <4>2. CASE receipt[e] = None
        BY <3>1, <3>2, <3>3, <3>4, <4>2 DEF Recorded, Poisoned
      <4> QED
        BY <4>1, <4>2
    <3> QED
      BY <3>3
  <2>4. LettersOwed'
    BY <1>12 DEF RecordReceipt, Recorded, AfterReceipt, Poisoned
  <2> QED
    BY ONLY <2>1, <2>2, <2>3, <2>4 DEF Rest
<1>13. ASSUME NEW w \in Worker, RetryLater(w) \/ Project(w) PROVE Rest'
  <2>1. CarriesOwed'
    <3>1. /\ body' = body /\ outbox' = outbox
          /\ \A c \in Copy : copyState[c] # "absent" => copyState'[c] # "absent"
      BY <1>13 DEF RetryLater, Project
    <3> QED
      BY <3>1, CarriesStay
  <2>2. ClaimsOwed'
    <3>1. /\ pc'[w] \notin Publishing /\ outbox' = outbox
          /\ \A v \in Worker \ {w} : pc'[v] = pc[v] /\ holds'[v] = holds[v]
      BY <1>13, ZenonT(30) DEF RetryLater, Project
    <3> QED
      BY <3>1, ClaimsStay
  <2>3. ReceiptsOwed'
    BY <1>13 DEF RetryLater, Project
  <2>4. LettersOwed'
    BY <1>13 DEF RetryLater, Project
  <2> QED
    BY ONLY <2>1, <2>2, <2>3, <2>4 DEF Rest
<1>14. ASSUME NEW w \in Worker, Ack(w) \/ Term(w) PROVE Rest'
  <2>1. CarriesOwed'
    <3>1. /\ body' = body /\ outbox' = outbox
          /\ \A c \in Copy : copyState[c] # "absent" => copyState'[c] # "absent"
      BY <1>14, ZenonT(30) DEF Ack, Term, Settled
    <3> QED
      BY <3>1, CarriesStay
  <2>2. ClaimsOwed'
    BY <1>14, ZenonT(30) DEF Ack, Term, Settled
  <2>3. ReceiptsOwed'
    BY <1>14 DEF Ack, Term, Settled
  <2>4. LettersOwed'
    BY <1>14 DEF Ack, Term, Settled
  <2> QED
    BY ONLY <2>1, <2>2, <2>3, <2>4 DEF Rest
<1>15. ASSUME NEW w \in Worker, Reconnect(w) \/ Start(w) \/ Fault(w) \/ Stop(w) \/ Crash(w) PROVE Rest'
  <2>1. CarriesOwed'
    BY <1>15 DEF Reconnect, Start, Fault, Stop, Crash
  <2>2. ClaimsOwed'
    <3>1. /\ pc'[w] \notin Publishing /\ outbox' = outbox
          /\ \A v \in Worker \ {w} : pc'[v] = pc[v] /\ holds'[v] = holds[v]
      <4>1. CASE Reconnect(w) \/ Start(w)
        BY <4>1 DEF Reconnect, Start
      <4>2. CASE Fault(w)
        BY <4>2 DEF Fault
      <4>3. CASE Stop(w)
        BY <4>3 DEF Stop
      <4>4. CASE Crash(w)
        BY <4>4 DEF Crash
      <4> QED
        BY ONLY <1>15, <4>1, <4>2, <4>3, <4>4
    <3> QED
      BY <3>1, ClaimsStay
  <2>3. ReceiptsOwed'
    BY <1>15 DEF Reconnect, Start, Fault, Stop, Crash
  <2>4. LettersOwed'
    BY <1>15 DEF Reconnect, Start, Fault, Stop, Crash
  <2> QED
    BY ONLY <2>1, <2>2, <2>3, <2>4 DEF Rest
<1>16. ASSUME NEW e \in Event, Enqueue(e) PROVE Rest'
  BY <1>16 DEF Enqueue
<1>17. ASSUME NEW e \in Event, LeaseLapses(e) \/ Expire(e) \/ WindowCloses(e) PROVE Rest'
  BY <1>17 DEF LeaseLapses, Expire, WindowCloses
<1>18. ASSUME NEW c \in Copy, Return(c) \/ Age(c) PROVE Rest'
  BY <1>18 DEF Return, Age, Returned
<1>19. ASSUME NEW s \in Stray, Inject(s) PROVE Rest'
  BY <1>19 DEF Inject, Append
<1> QED
  BY <1>0, <1>1, <1>2, <1>3, <1>4, <1>5, <1>6, <1>7, <1>8, <1>9, <1>10, <1>11, <1>12, <1>13, <1>14, <1>15, <1>16, <1>17, <1>18, <1>19, NextCases DEF Owed

\* Receipts are written only for events whose pointer matches their record.
THEOREM ReceiptsSound == Spec => []ReceiptsAreSound
<1>1. Init => Owed
  BY InitOwed
<1>2. Owed /\ [Next]_vars => Owed'
  BY OwedStep
<1>3. Owed => ReceiptsAreSound
  BY DEF Owed, Rest, ReceiptsOwed, ReceiptsAreSound
<1> QED
  BY <1>1, <1>2, <1>3, PTL DEF Spec

\* A step that touches no receipt, no dead letter and enqueues nothing is a
\* stutter of the ledger.
LEMMA LedgerStutters ==
  ASSUME receipt' = receipt, letters' = letters,
         \A e \in Event : outbox'[e] = "absent" <=> outbox[e] = "absent"
  PROVE  UNCHANGED Ledger!vars
  BY DEF Ledger!vars, Lettered

\* A dead letter about an owed event is a refusal, the first time, and about
\* anything else a stutter.
LEMMA LetterRefuses ==
  ASSUME Owed, Owed', receipt' = receipt,
         \A e \in Event : outbox'[e] = "absent" <=> outbox[e] = "absent",
         NEW l, l \in letters', letters' = letters \cup {l}
  PROVE  [Ledger!Next]_(Ledger!vars)
<1>1. \A e \in Event : Lettered(e)' <=> Lettered(e) \/ l.about = e
  BY DEF Lettered
<1>2. CASE l.about \in Event /\ ~Lettered(l.about)
  <2>1. outbox[l.about] # "absent"
    BY <1>2 DEF Owed, Rest, LettersOwed
  <2>2. Ledger!Refuse(l.about)
    BY <1>1, <1>2, <2>1 DEF Ledger!Refuse
  <2> QED
    BY <1>2, <2>2 DEF Ledger!Next
<1>3. CASE ~(l.about \in Event /\ ~Lettered(l.about))
  BY <1>1, <1>3 DEF Ledger!vars
<1> QED
  BY <1>2, <1>3

\* Every step of the delivery is a step of the ledger or a stutter.
LEMMA LedgerStep ==
  ASSUME Owed, Owed', [Next]_vars
  PROVE  [Ledger!Next]_(Ledger!vars)
<1>0. /\ outbox \in [Event -> OutboxStates] /\ receipt \in [Event -> Copy \cup {None}]
      /\ HoldsCopy /\ HoldsEvent /\ HoldsClaim
      /\ CarriesOwed /\ ClaimsOwed
  BY DEF Owed, Shape, TypeOK, Rest
<1> DEFINE SameRows == \A e \in Event : outbox'[e] = "absent" <=> outbox[e] = "absent"
<1>1. CASE UNCHANGED vars
  BY <1>1, LedgerStutters DEF vars
<1>2. ASSUME NEW w \in Worker, NEW e \in Event, ClaimNext(w, e)
      PROVE  [Ledger!Next]_(Ledger!vars)
  BY <1>0, <1>2, LedgerStutters DEF ClaimNext, Claimable
<1>3. ASSUME NEW w \in Worker, NEW state \in {"published", "pending", "dead_letter"},
             pc[w] \in Publishing, EndClaim(w, state)
      PROVE  SameRows
  BY <1>0, <1>3 DEF EndClaim, HasLease
<1>4. ASSUME NEW w \in Worker, NEW reason, pc[w] \in Publishing,
             DeadLetterClaim(w, reason), receipt' = receipt
      PROVE  [Ledger!Next]_(Ledger!vars)
  <2>1. SameRows
    BY <1>3, <1>4 DEF DeadLetterClaim
  <2>2. CASE HasLease(w, holds[w])
    <3>1. letters' = letters \cup {Letter("publisher", holds[w], reason)}
      BY <1>4, <2>2 DEF DeadLetterClaim
    <3> QED
      BY <1>4, <2>1, <3>1, LetterRefuses
  <2>3. CASE ~HasLease(w, holds[w])
    <3>1. letters' = letters
      BY <1>4, <2>3 DEF DeadLetterClaim
    <3> QED
      BY <1>4, <2>1, <3>1, LedgerStutters
  <2> QED
    BY <2>2, <2>3
<1>5. ASSUME NEW w \in Worker, RefuseClaim(w) PROVE [Ledger!Next]_(Ledger!vars)
  BY <1>4, <1>5 DEF RefuseClaim, Publishing
<1>6. ASSUME NEW w \in Worker, MarkPublished(w) PROVE [Ledger!Next]_(Ledger!vars)
  BY <1>3, <1>6, LedgerStutters DEF MarkPublished, Publishing, ledger
<1>7. ASSUME NEW w \in Worker, MarkPublishFailure(w) PROVE [Ledger!Next]_(Ledger!vars)
  <2>1. pc[w] \in Publishing /\ receipt' = receipt
    BY <1>7 DEF MarkPublishFailure, Publishing
  <2>2. CASE DeadLetterClaim(w, "publish_exhausted")
    BY <1>4, <2>1, <2>2
  <2>3. CASE EndClaim(w, "pending") /\ UNCHANGED letters
    BY <1>3, <2>1, <2>3, LedgerStutters
  <2> QED
    BY <1>7, <2>2, <2>3 DEF MarkPublishFailure
<1>8. ASSUME NEW w \in Worker, Refuse(w) \/ Poison(w) \/ Exhaust(w)
      PROVE  [Ledger!Next]_(Ledger!vars)
  <2>1. PICK reason : DeadLetterDelivery(w, reason)
    BY <1>8 DEF Refuse, Poison, Exhaust
  <2>2. SameRows /\ receipt' = receipt
    BY <2>1 DEF DeadLetterDelivery, table
  <2>3. letters' = letters \cup {Letter("consumer", body[holds[w]], reason)}
    BY <2>1 DEF DeadLetterDelivery
  <2> QED
    BY <2>2, <2>3, LetterRefuses
<1>9. ASSUME NEW w \in Worker, RecordReceipt(w) PROVE [Ledger!Next]_(Ledger!vars)
  <2> DEFINE b == body[holds[w]]
  <2>1. /\ holds[w] \in Copy /\ b \in Event /\ holds[w] # None
        /\ receipt' = [receipt EXCEPT ![b] = IF @ = None THEN holds[w] ELSE @]
        /\ letters' = letters /\ outbox' = outbox
    BY <1>0, <1>9, ConstantsAssumption
    DEF RecordReceipt, Recorded, HoldsCopy, HoldsEvent, Consuming, table
  <2>2. CASE receipt[b] # None
    <3>1. receipt' = receipt
      BY <1>0, <2>1, <2>2
    <3> QED
      BY <2>1, <3>1, LedgerStutters
  <2>3. CASE receipt[b] = None
    <3>1. \A e \in Event : receipt'[e] # None <=> receipt[e] # None \/ e = b
      BY <1>0, <2>1, <2>3
    <3>2. b \notin Malformed \cup Mismatched
      <4>1. b \notin Malformed
        BY <1>0, <2>1 DEF CarriesOwed
      <4>2. b \notin Mismatched
        BY <1>9, <2>3 DEF RecordReceipt, Poisoned
      <4> QED
        BY <4>1, <4>2
    <3>3. outbox[b] # "absent"
      BY <1>0, <2>1 DEF CarriesOwed
    <3>4. PICK e \in Event : e = b
      BY <2>1
    <3>5. Ledger!Receive(e)
      BY <2>1, <2>3, <3>1, <3>2, <3>3, <3>4 DEF Ledger!Receive, Lettered
    <3> QED
      BY <3>5 DEF Ledger!Next
  <2> QED
    BY <2>2, <2>3
<1>10. ASSUME NEW e \in Event, Enqueue(e) PROVE [Ledger!Next]_(Ledger!vars)
  <2>1. Ledger!Owe(e)
    BY <1>0, <1>10 DEF Enqueue, Ledger!Owe, Lettered
  <2> QED
    BY <2>1 DEF Ledger!Next
<1>11. ASSUME NEW w \in Worker,
              \/ ClaimNothing(w) \/ Publish(w) \/ FetchNothing(w) \/ Admit(w) \/ MissReceipt(w)
              \/ RetryLater(w) \/ Project(w) \/ Ack(w) \/ Term(w)
              \/ Reconnect(w) \/ Start(w) \/ Fault(w) \/ Stop(w) \/ Crash(w)
       PROVE  [Ledger!Next]_(Ledger!vars)
  <2>1. UNCHANGED <<outbox, receipt, letters>>
    BY <1>11 DEF ClaimNothing, Publish, FetchNothing, Admit, MissReceipt, RetryLater, Project, Ack,
                 Term, Reconnect, Start, Fault, Stop, Crash, table, ledger
  <2> QED
    BY <2>1, LedgerStutters
<1>12. ASSUME NEW w \in Worker, NEW c \in Copy, Fetch(w, c)
       PROVE  [Ledger!Next]_(Ledger!vars)
  BY <1>12, LedgerStutters DEF Fetch, table, ledger
<1>13. ASSUME NEW e \in Event, LeaseLapses(e) \/ Expire(e) \/ WindowCloses(e)
       PROVE  [Ledger!Next]_(Ledger!vars)
  BY <1>13, LedgerStutters DEF LeaseLapses, Expire, WindowCloses, table, ledger
<1>14. ASSUME NEW c \in Copy, Return(c) \/ Age(c) PROVE [Ledger!Next]_(Ledger!vars)
  BY <1>14, LedgerStutters DEF Return, Age, table, ledger
<1>15. ASSUME NEW s \in Stray, Inject(s) PROVE [Ledger!Next]_(Ledger!vars)
  BY <1>15, LedgerStutters DEF Inject, table, ledger
<1> QED
  BY <1>1, <1>2, <1>5, <1>6, <1>7, <1>8, <1>9, <1>10, <1>11, <1>12, <1>13, <1>14,
     <1>15, NextCases

\* The delivery implements the ledger: no loop, crash, duplicate or late message
\* receives an event twice, or one that was never owed or is unsound.
THEOREM ImplementsLedger == Spec => KeepsLedger
<1>1. Init => Owed /\ Ledger!Init
  BY InitOwed DEF Init, Ledger!Init, Lettered
<1>2. Owed /\ [Next]_vars => Owed'
  BY OwedStep
<1>3. Owed /\ Owed' /\ [Next]_vars => [Ledger!Next]_(Ledger!vars)
  BY LedgerStep
<1> QED
  BY <1>1, <1>2, <1>3, PTL DEF Spec, KeepsLedger, Ledger!Safe

-----------------------------------------------------------------------------
(* What is on file stays there.                                              *)

\* The event of a copy has its receipt.
Answered(c) == body[c] \in Event /\ receipt[body[c]] # None

\* Receipts, projections and letters stay.
RecordsGrow ==
  /\ \A e \in Event : receipt[e] # None => receipt'[e] # None
  /\ projected \subseteq projected' /\ letters \subseteq letters'

\* Whatever is recorded stays: one case for each action that records.
LEMMA RecordsStay == ASSUME Shape, [Next]_vars PROVE RecordsGrow
<1>0. receipt \in [Event -> Copy \cup {None}]
  BY DEF Shape, TypeOK
<1>1. CASE UNCHANGED vars
  BY <1>1 DEF vars, RecordsGrow
<1>2. ASSUME UNCHANGED <<receipt, letters, projected>> PROVE RecordsGrow
  BY <1>2 DEF RecordsGrow
<1>3. ASSUME NEW w \in Worker, RecordReceipt(w) PROVE RecordsGrow
  <2>1. \A e \in Event : receipt[e] # None => receipt'[e] # None
    BY <1>0, <1>3 DEF RecordReceipt, Recorded
  <2>2. UNCHANGED <<letters, projected>>
    BY <1>3 DEF RecordReceipt
  <2> QED
    BY <2>1, <2>2 DEF RecordsGrow
<1>4. ASSUME NEW w \in Worker, Project(w) PROVE RecordsGrow
  BY <1>4 DEF Project, ledger, RecordsGrow
<1>5. ASSUME NEW w \in Worker,
             RefuseClaim(w) \/ MarkPublishFailure(w) \/ Refuse(w) \/ Poison(w) \/ Exhaust(w)
      PROVE  RecordsGrow
  BY <1>5 DEF RefuseClaim, MarkPublishFailure, Refuse, Poison, Exhaust, DeadLetterClaim, DeadLetterDelivery,
              RecordsGrow
<1>6. ASSUME NEW w \in Worker, NEW e \in Event, ClaimNext(w, e) PROVE RecordsGrow
  BY <1>2, <1>6 DEF ClaimNext
<1>7. ASSUME NEW w \in Worker, NEW c \in Copy, Fetch(w, c) PROVE RecordsGrow
  BY <1>2, <1>7 DEF Fetch, ledger
<1>8. ASSUME NEW w \in Worker,
             \/ ClaimNothing(w) \/ Publish(w) \/ MarkPublished(w) \/ FetchNothing(w) \/ Admit(w) \/ MissReceipt(w)
             \/ RetryLater(w) \/ Ack(w) \/ Term(w) \/ Reconnect(w) \/ Start(w) \/ Fault(w)
             \/ Stop(w) \/ Crash(w)
      PROVE  RecordsGrow
  BY <1>2, <1>8 DEF ClaimNothing, Publish, MarkPublished, FetchNothing, Admit, MissReceipt, RetryLater, Ack, Term, Reconnect,
              Start, Fault, Stop, Crash, ledger
<1>9. ASSUME NEW e \in Event, Enqueue(e) \/ LeaseLapses(e) \/ Expire(e) \/ WindowCloses(e)
      PROVE  RecordsGrow
  BY <1>2, <1>9 DEF Enqueue, LeaseLapses, Expire, WindowCloses, ledger
<1>10. ASSUME NEW c \in Copy, Return(c) \/ Age(c) PROVE RecordsGrow
  BY <1>2, <1>10 DEF Return, Age, ledger
<1>11. ASSUME NEW s \in Stray, Inject(s) PROVE RecordsGrow
  BY <1>2, <1>11 DEF Inject, ledger
<1> QED
  BY <1>1, <1>2, <1>3, <1>4, <1>5, <1>6, <1>7, <1>8, <1>9, <1>10, <1>11, NextCases

-----------------------------------------------------------------------------
(* Loss: a published event has a copy, and each delivery of a copy without a *)
(* receipt that did not settle it has cost a fault.                          *)

EmptySlots == \A c \in Copy : copyState[c] = "absent" => body[c] = None /\ deliveries[c] = 0

IsStored(e) == \E c \in Copy : body[c] = e

StoredInv ==
  /\ \A e \in remembered : IsStored(e)
  /\ \A w \in Worker : pc[w] = "confirm" => IsStored(holds[w])
  /\ \A e \in Event : outbox[e] = "published" => IsStored(e)

Paid(c) ==
  /\ copyState[c] \in {"waiting", "delayed"} => deliveries[c] <= faults
  /\ copyState[c] = "inflight" =>
       /\ deliveries[c] <= faults + 1
       /\ (\A w \in Worker : ~Holder(w, c)) => deliveries[c] <= faults
  /\ copyState[c] = "spent" => MaxDeliver <= faults

Due(c) == Answered(c) \/ Paid(c)

Loss == Shape /\ EmptySlots /\ StoredInv /\ \A c \in Copy : Due(c)

\* A slot that holds a message keeps it.
LEMMA SlotsStay ==
  ASSUME Shape, [Next]_vars
  PROVE  \A c \in Copy : copyState[c] # "absent" => body'[c] = body[c]
<1>1. body' = body \/ \E c \in Copy, b \in Body : Append(c, b)
  <2>1. ASSUME NEW w \in Worker, Publish(w) PROVE <1>1!1 \/ <1>1!2
    <3>1. holds[w] \in Event
      BY <2>1 DEF Publish, Shape, HoldsClaim, Publishing
    <3> QED
      BY <2>1, <3>1 DEF Publish, Store, stream, Body
  <2> QED
    BY <2>1, NextCases
    DEF vars, ClaimNext, ClaimNothing, RefuseClaim, MarkPublished, MarkPublishFailure, Fetch,
        FetchNothing, Refuse, Admit, MissReceipt, Poison, RecordReceipt, RetryLater, Exhaust, Project, Ack,
        Term, Reconnect, Start, Fault, Stop, Crash, Enqueue, LeaseLapses, Expire, WindowCloses,
        Return, Age, Inject, DeadLetterDelivery, stream, Body
<1> QED
  BY <1>1 DEF Append, Shape, TypeOK

\* Copies are stored once: what is in the stream stays there.
LEMMA BodiesStay ==
  ASSUME Shape, EmptySlots, [Next]_vars
  PROVE  \A b \in Body : IsStored(b) => IsStored(b)'
  BY SlotsStay, ConstantsAssumption DEF EmptySlots, IsStored, Body

\* Nothing is stored or published at first.
LEMMA InitLoss == ASSUME Init PROVE Loss
<1>1. Shape
  BY InitShape
<1> QED
  BY <1>1, ConstantsAssumption DEF Init, Loss, EmptySlots, StoredInv, Due, Paid

\* An empty slot is empty until Append fills it.
LEMMA EmptySlotsStep == ASSUME Shape, EmptySlots, [Next]_vars PROVE EmptySlots'
<1> USE DEF EmptySlots, stream
<1>0. /\ copyState \in [Copy -> CopyStates] /\ deliveries \in [Copy -> Nat]
      /\ body \in [Copy -> Body \cup {None}] /\ HoldsCopy
  BY DEF Shape, TypeOK
<1>1. CASE UNCHANGED stream
  BY <1>1
<1>2. ASSUME NEW c \in Copy, NEW b, Append(c, b) PROVE EmptySlots'
  BY <1>0, <1>2 DEF Append
<1>3. ASSUME NEW w \in Worker, NEW c \in Copy, Fetch(w, c) PROVE EmptySlots'
  BY <1>0, <1>3 DEF Fetch, Fetchable
<1>4. ASSUME NEW w \in Worker, RetryLater(w) \/ Ack(w) \/ Term(w) PROVE EmptySlots'
  <2>1. body' = body /\ deliveries' = deliveries /\ holds[w] \in Copy /\ copyState[holds[w]] # "absent"
    BY <1>0, <1>4 DEF RetryLater, Ack, Term, HoldsCopy, Consuming
  <2>2. \A c \in Copy : copyState'[c] = "absent" => copyState[c] = "absent"
    BY <1>0, <1>4, <2>1 DEF RetryLater, Ack, Term, Settled
  <2> QED
    BY <2>1, <2>2
<1>5. ASSUME NEW c \in Copy, Return(c) \/ Age(c) PROVE EmptySlots'
  BY <1>0, <1>5 DEF Return, Returned, Age
<1>6. ASSUME NEW w \in Worker, Publish(w) PROVE EmptySlots'
  BY <1>1, <1>2, <1>6 DEF Publish, Store
<1>7. ASSUME NEW e \in Event, WindowCloses(e) PROVE EmptySlots'
  BY <1>7 DEF WindowCloses
<1>8. ASSUME NEW s \in Stray, Inject(s) PROVE EmptySlots'
  BY <1>2, <1>8 DEF Inject
<1> QED
  BY <1>1, <1>3, <1>4, <1>5, <1>6, <1>7, <1>8, NextCases
  DEF vars, ClaimNext, ClaimNothing, RefuseClaim, MarkPublished, MarkPublishFailure,
      FetchNothing, Refuse, Admit, MissReceipt, Poison, RecordReceipt, Exhaust, Project,
      Reconnect, Start, Fault, Stop, Crash, Enqueue, LeaseLapses, Expire, DeadLetterDelivery

\* A row becomes published only when its event is in the stream, because confirm
\* is reached only through Store.
LEMMA StoredStep == ASSUME Shape, EmptySlots, StoredInv, [Next]_vars PROVE StoredInv'
<1>0. /\ remembered \subseteq Event /\ HoldsClaim
      /\ outbox \in [Event -> OutboxStates] /\ pc \in [Worker -> Places]
      /\ body \in [Copy -> Body \cup {None}]
      /\ holds \in [Worker -> Event \cup Copy \cup {None}]
  BY DEF Shape, TypeOK
<1>1. \A e \in Event : IsStored(e) => IsStored(e)'
  BY BodiesStay DEF Body
<1>2. ASSUME NEW w \in Worker, Publish(w) PROVE StoredInv'
  <2>1. PICK e \in Event : e = holds[w]
    BY <1>0, <1>2 DEF Publish, HoldsClaim, Publishing
  <2>2. \A c \in Copy : Append(c, e) => IsStored(e)'
    BY <1>0 DEF Append, IsStored
  <2>3. CASE Store(e) /\ Goto(w, "confirm")
    <3>1. IsStored(e)' /\ remembered' \subseteq remembered \cup {e}
      BY <1>0, <1>1, <2>2, <2>3 DEF Store, stream, StoredInv
    <3>2. \A v \in Worker : pc'[v] = "confirm" => v = w \/ pc[v] = "confirm"
      BY <1>0, <2>3 DEF Goto
    <3>3. holds' = holds /\ outbox' = outbox
      BY <1>2 DEF Publish, table
    <3> QED
      BY <1>0, <1>1, <2>1, <3>1, <3>2, <3>3 DEF StoredInv, HoldsClaim, Publishing
  <2>4. CASE (Store(e) \/ UNCHANGED stream) /\ Goto(w, "failure")
    <3>1. \A r \in remembered' : IsStored(r)'
      BY <1>0, <1>1, <2>2, <2>4 DEF Store, stream, StoredInv
    <3>2. \A v \in Worker : pc'[v] = "confirm" => pc[v] = "confirm"
      BY <1>0, <2>4 DEF Goto
    <3>3. holds' = holds /\ outbox' = outbox
      BY <1>2 DEF Publish, table
    <3> QED
      BY <1>0, <1>1, <3>1, <3>2, <3>3 DEF StoredInv, HoldsClaim, Publishing
  <2> QED
    BY <1>2, <2>1, <2>3, <2>4 DEF Publish
<1>3. ASSUME NEW w \in Worker, MarkPublished(w) PROVE StoredInv'
  <2>1. pc[w] = "confirm" /\ holds[w] \in Event /\ IsStored(holds[w])
    BY <1>0, <1>3 DEF MarkPublished, StoredInv, HoldsClaim, Publishing
  <2>2. remembered' = remembered
    BY <1>3 DEF MarkPublished, stream
  <2>3. \A v \in Worker : pc'[v] = "confirm" => pc[v] = "confirm" /\ holds'[v] = holds[v]
    BY <1>0, <1>3 DEF MarkPublished, EndClaim, Drop, Goto
  <2>4. \A e \in Event : outbox'[e] = "published" => outbox[e] = "published" \/ e = holds[w]
    BY <1>0, <1>3 DEF MarkPublished, EndClaim
  <2> QED
    BY <1>0, <1>1, <2>1, <2>2, <2>3, <2>4 DEF StoredInv, HoldsClaim, Publishing
<1>4. ASSUME remembered' \subseteq remembered,
             \A v \in Worker : pc'[v] = "confirm" => pc[v] = "confirm" /\ holds'[v] = holds[v],
             \A e \in Event : outbox'[e] = "published" => outbox[e] = "published"
      PROVE  StoredInv'
  BY <1>0, <1>1, <1>4 DEF StoredInv, HoldsClaim, Publishing
<1>5. CASE UNCHANGED vars
  BY <1>4, <1>5 DEF vars
<1>6. ASSUME NEW w \in Worker, NEW e \in Event, ClaimNext(w, e) PROVE StoredInv'
  BY <1>0, <1>4, <1>6 DEF ClaimNext, Goto, stream
<1>7. ASSUME NEW w \in Worker, NEW state \in {"pending", "dead_letter"},
             EndClaim(w, state), remembered' = remembered
      PROVE  StoredInv'
  <2>1. \A v \in Worker : pc'[v] = "confirm" => pc[v] = "confirm" /\ holds'[v] = holds[v]
    BY <1>0, <1>7 DEF EndClaim, Drop, Goto
  <2>2. \A e \in Event : outbox'[e] = "published" => outbox[e] = "published"
    BY <1>0, <1>7 DEF EndClaim
  <2> QED
    BY <1>4, <1>7, <2>1, <2>2
<1>8. ASSUME NEW w \in Worker, RefuseClaim(w) \/ MarkPublishFailure(w) PROVE StoredInv'
  BY <1>7, <1>8 DEF RefuseClaim, MarkPublishFailure, DeadLetterClaim, stream
<1>9. ASSUME NEW w \in Worker, NEW c \in Copy, Fetch(w, c) PROVE StoredInv'
  BY <1>0, <1>4, <1>9 DEF Fetch, Goto, table
<1>10. ASSUME NEW w \in Worker,
              \/ ClaimNothing(w) \/ FetchNothing(w) \/ Refuse(w) \/ Admit(w) \/ MissReceipt(w) \/ Poison(w)
              \/ Exhaust(w) \/ RecordReceipt(w) \/ Project(w) \/ Reconnect(w) \/ Start(w)
       PROVE  StoredInv'
  <2>1. UNCHANGED <<table, remembered, holds>>
    BY <1>10 DEF ClaimNothing, FetchNothing, Refuse, Admit, MissReceipt, Poison, Exhaust, RecordReceipt,
                 Project, Reconnect, Start, DeadLetterDelivery, table, stream
  <2>2. PICK place \in Places : Goto(w, place) /\ place # "confirm"
    BY <1>10 DEF ClaimNothing, FetchNothing, Refuse, Admit, MissReceipt, Poison, Exhaust, RecordReceipt,
                 AfterReceipt, Project, Reconnect, Start, DeadLetterDelivery, Places, Publishing,
                 Consuming
  <2> QED
    BY <1>0, <1>4, <2>1, <2>2 DEF Goto, table
<1>11. ASSUME NEW w \in Worker,
              RetryLater(w) \/ Ack(w) \/ Term(w) \/ Fault(w) \/ Stop(w) \/ Crash(w)
       PROVE  StoredInv'
  <2>1. UNCHANGED <<table, remembered>>
    BY <1>11 DEF RetryLater, Ack, Term, Fault, Stop, Crash, table, stream
  <2>2. PICK place \in Places : Drop(w, place) /\ place # "confirm"
    BY <1>11 DEF RetryLater, Ack, Term, Fault, Stop, Crash, Places, Gone
  <2> QED
    BY <1>0, <1>4, <2>1, <2>2 DEF Drop, Goto, table
<1>12. ASSUME NEW e \in Event, Enqueue(e) \/ LeaseLapses(e) \/ Expire(e) \/ WindowCloses(e)
       PROVE  StoredInv'
  BY <1>0, <1>4, <1>12 DEF Enqueue, LeaseLapses, Expire, WindowCloses, table, stream, workers
<1>13. ASSUME NEW c \in Copy, Return(c) \/ Age(c) PROVE StoredInv'
  BY <1>4, <1>13 DEF Return, Age, table, workers
<1>14. ASSUME NEW s \in Stray, Inject(s) PROVE StoredInv'
  BY <1>4, <1>14 DEF Inject, table, workers
<1> QED
  BY <1>2, <1>3, <1>5, <1>6, <1>8, <1>9, <1>10, <1>11, <1>12, <1>13, <1>14, NextCases

\* A copy whose delivery goes on where it was stays paid for: who stops holding
\* it pays a fault.
LEMMA PaidKept ==
  ASSUME NEW c \in Copy, Paid(c), faults \in Nat, faults' \in Nat, deliveries[c] \in Nat,
         copyState'[c] = copyState[c], deliveries'[c] = deliveries[c], faults <= faults',
         \A w \in Worker : Holder(w, c) => Holder(w, c)' \/ faults' = faults + 1
  PROVE  Paid(c)'
<1>1. CASE copyState[c] # "inflight"
  BY <1>1, ConstantsAssumption DEF Paid
<1>2. CASE copyState[c] = "inflight"
  <2>1. deliveries[c] <= faults + 1
    BY <1>2 DEF Paid
  <2>2. CASE faults' = faults + 1
    BY <1>2, <2>1, <2>2 DEF Paid
  <2>3. CASE faults' # faults + 1
    <3>1. (\A w \in Worker : ~Holder(w, c))' => \A w \in Worker : ~Holder(w, c)
      BY <2>3
    <3>2. (\A w \in Worker : ~Holder(w, c))' => deliveries[c] <= faults
      BY <1>2, <3>1 DEF Paid
    <3> QED
      BY <1>2, <2>1, <3>2 DEF Paid
  <2> QED
    BY <2>2, <2>3
<1> QED
  BY <1>1, <1>2

\* Only a fault lets a delivered copy without a receipt come back: one case for
\* each action of Next.
LEMMA PaidStep ==
  ASSUME Shape, Shape', EmptySlots, [Next]_vars, NEW c \in Copy, Paid(c), ~Answered(c)
  PROVE  Paid(c)'
<1>0. /\ copyState \in [Copy -> CopyStates] /\ deliveries \in [Copy -> Nat]
      /\ deliveries' \in [Copy -> Nat] /\ faults \in Nat /\ faults' \in Nat
      /\ pc \in [Worker -> Places] /\ holds \in [Worker -> Event \cup Copy \cup {None}]
      /\ count \in [Worker -> Nat]
      /\ HoldsCopy /\ Paid(c) /\ MaxDeliver \in Nat
  BY ConstantsAssumption DEF Shape, TypeOK
<1>1. ASSUME UNCHANGED <<pc, holds, count, copyState, deliveries>>, faults <= faults'
      PROVE  Paid(c)'
  BY <1>0, <1>1, PaidKept DEF Holder
<1>2. ASSUME NEW w \in Worker, pc[w] \notin Consuming,
             UNCHANGED <<copyState, deliveries>>, faults <= faults',
             \A v \in Worker \ {w} : pc'[v] = pc[v] /\ holds'[v] = holds[v] /\ count'[v] = count[v]
      PROVE  Paid(c)'
  <2>1. \A v \in Worker : Holder(v, c) => Holder(v, c)'
    BY <1>2 DEF Holder
  <2> QED
    BY <1>0, <1>2, <2>1, PaidKept
<1>3. ASSUME NEW w \in Worker, pc'[w] \in Consuming, UNCHANGED <<holds, count, copyState, deliveries>>,
             faults <= faults',
             \A v \in Worker \ {w} : pc'[v] = pc[v]
      PROVE  Paid(c)'
  <2>1. \A v \in Worker : Holder(v, c) => Holder(v, c)'
    BY <1>3 DEF Holder
  <2> QED
    BY <1>0, <1>3, <2>1, PaidKept
<1>4. ASSUME faults' = faults + 1, UNCHANGED <<copyState, deliveries>>
      PROVE  Paid(c)'
  BY <1>0, <1>4, PaidKept
<1>5. ASSUME NEW b, NEW d \in Copy, Append(d, b), UNCHANGED <<holds, count, faults>>,
             \A w \in Worker : pc[w] \in Consuming => pc'[w] = pc[w]
      PROVE  Paid(c)'
  <2>1. CASE c = d
    <3>1. deliveries'[c] = 0 /\ copyState'[c] = "waiting"
      BY <1>0, <1>5, <2>1 DEF Append, EmptySlots
    <3> QED
      BY <1>0, <3>1 DEF Paid
  <2>2. CASE c # d
    <3>1. copyState'[c] = copyState[c] /\ deliveries'[c] = deliveries[c]
      BY <1>0, <1>5, <2>2 DEF Append
    <3>2. \A w \in Worker : Holder(w, c) => Holder(w, c)'
      BY <1>5, <3>1 DEF Holder
    <3> QED
      BY <1>0, <1>5, <3>1, <3>2, PaidKept
  <2> QED
    BY <2>1, <2>2
<1>6. ASSUME NEW w \in Worker, Publish(w) PROVE Paid(c)'
  <2>1. /\ pc[w] \notin Consuming /\ UNCHANGED <<holds, count, faults>>
        /\ \A v \in Worker \ {w} : pc'[v] = pc[v]
    BY <1>0, <1>6 DEF Publish, Consuming, Goto
  <2>2. CASE UNCHANGED stream
    BY <1>0, <1>2, <2>1, <2>2 DEF stream
  <2>3. CASE \E d \in Copy : Append(d, holds[w])
    BY <1>5, <2>1, <2>3
  <2> QED
    BY <1>6, <2>2, <2>3 DEF Publish, Store
<1>7. ASSUME NEW w \in Worker, NEW d \in Copy, Fetch(w, d) PROVE Paid(c)'
  <2>1. CASE c = d
    <3>1. /\ copyState[c] = "waiting" /\ copyState'[c] = "inflight"
          /\ deliveries'[c] = deliveries[c] + 1 /\ faults' = faults
      BY <1>0, <1>7, <2>1 DEF Fetch, Fetchable
    <3>2. Holder(w, c)'
      BY <1>0, <1>7, <2>1, <3>1 DEF Fetch, Goto, Holder, Consuming
    <3> QED
      BY <1>0, <3>1, <3>2 DEF Paid
  <2>2. CASE c # d
    <3>1. copyState'[c] = copyState[c] /\ deliveries'[c] = deliveries[c] /\ faults' = faults
      BY <1>0, <1>7, <2>2 DEF Fetch
    <3>2. \A v \in Worker : Holder(v, c) => Holder(v, c)'
      BY <1>0, <1>7, <3>1 DEF Fetch, Goto, Holder, Consuming
    <3> QED
      BY <1>0, <3>1, <3>2, PaidKept
  <2> QED
    BY <2>1, <2>2
<1>8. ASSUME NEW w \in Worker, pc[w] \in Consuming, NEW how \in {"acked", "termed"},
             copyState' = Settled(holds[w], how), UNCHANGED <<deliveries, faults>>,
             Drop(w, "publish")
      PROVE  Paid(c)'
  <2>1. CASE c = holds[w]
    <3>1. copyState'[c] \in {"acked", "termed", "aged"}
      BY <1>0, <1>8, <2>1 DEF Settled
    <3> QED
      BY <3>1 DEF Paid
  <2>2. CASE c # holds[w]
    <3>1. copyState'[c] = copyState[c] /\ deliveries'[c] = deliveries[c]
      BY <1>0, <1>8, <2>2 DEF Settled
    <3>2. \A v \in Worker : Holder(v, c) => Holder(v, c)'
      BY <1>0, <1>8, <2>2, <3>1 DEF Holder, Drop, Goto
    <3> QED
      BY <1>0, <1>8, <3>1, <3>2, PaidKept
  <2> QED
    BY <2>1, <2>2
<1>9. ASSUME NEW w \in Worker, Ack(w) \/ Term(w) PROVE Paid(c)'
  <2>1. CASE Ack(w)
    <3>1. pc[w] \in Consuming
      BY <2>1 DEF Ack, Consuming
    <3> QED
      BY <1>8, <2>1, <3>1 DEF Ack
  <2>2. CASE Term(w)
    <3>1. pc[w] \in Consuming
      BY <2>2 DEF Term, Consuming
    <3>2. CASE copyState' = Settled(holds[w], "termed") /\ UNCHANGED faults
      BY <1>8, <2>2, <3>1, <3>2 DEF Term
    <3>3. CASE UNCHANGED copyState /\ Blame(TRUE)
      BY <1>4, <2>2, <3>3 DEF Term, Blame
    <3> QED
      BY <2>2, <3>2, <3>3 DEF Term
  <2> QED
    BY <1>9, <2>1, <2>2
<1>10. ASSUME NEW w \in Worker, RetryLater(w) PROVE Paid(c)'
  <2>1. /\ deliveries' = deliveries /\ pc[w] \in Consuming /\ holds[w] \in Copy
        /\ \A d \in Copy \ {holds[w]} : copyState'[d] = copyState[d]
        /\ \/ copyState'[holds[w]] = copyState[holds[w]]
           \/ copyState[holds[w]] = "inflight" /\ copyState'[holds[w]] = "delayed"
    BY <1>0, <1>10 DEF RetryLater, Consuming, HoldsCopy
  <2>2. /\ c = holds[w] => faults' = faults + 1
        /\ faults' = faults \/ faults' = faults + 1
    <3>1. faults' = faults + 1 \/ (Beaten(w) /\ faults' = faults)
      BY <1>10 DEF RetryLater, Blame
    <3>2. body[holds[w]] \in Event
      BY <1>10 DEF RetryLater, Shape, HoldsEvent
    <3>3. Beaten(w) => Answered(holds[w])
      BY <3>2 DEF Beaten, Answered
    <3> QED
      BY <3>1, <3>3
  <2>3. CASE c = holds[w] /\ copyState[c] = "inflight" /\ copyState'[c] = "delayed"
    BY <1>0, <2>1, <2>2, <2>3 DEF Paid
  <2>4. CASE c = holds[w] /\ copyState'[c] = copyState[c]
    BY <1>0, <2>1, <2>2, <2>4, PaidKept
  <2>5. CASE c # holds[w]
    <3>1. copyState'[c] = copyState[c] /\ deliveries'[c] = deliveries[c] /\ faults <= faults'
      BY <1>0, <2>1, <2>2, <2>5
    <3>2. \A v \in Worker : Holder(v, c) => Holder(v, c)'
      BY <1>0, <1>10, <2>5, <3>1 DEF RetryLater, Drop, Goto, Holder
    <3> QED
      BY <1>0, <3>1, <3>2, PaidKept
  <2> QED
    BY <2>1, <2>3, <2>4, <2>5
<1>11. ASSUME NEW d \in Copy, Return(d) PROVE Paid(c)'
  <2>0. /\ deliveries' = deliveries /\ UNCHANGED <<pc, holds, count>>
        /\ faults' = faults \/ faults' = faults + 1
    BY <1>11 DEF Return, Blame, workers
  <2>1. CASE c = d
    <3>1. deliveries[c] <= faults'
      <4>1. CASE copyState[c] = "delayed"
        BY <1>0, <2>0, <4>1 DEF Paid
      <4>2. CASE copyState[c] = "inflight" /\ \E w \in Worker : Holder(w, c)
        BY <1>0, <1>11, <2>1, <4>2 DEF Paid, Return, Blame
      <4>3. CASE copyState[c] = "inflight" /\ \A w \in Worker : ~Holder(w, c)
        BY <1>0, <2>0, <4>3 DEF Paid
      <4> QED
        BY <1>11, <2>1, <4>1, <4>2, <4>3 DEF Return
    <3>2. copyState'[c] = IF deliveries[c] < MaxDeliver THEN "waiting" ELSE "spent"
      BY <1>0, <1>11, <2>1 DEF Return, Returned
    <3> QED
      BY <1>0, <2>0, <3>1, <3>2 DEF Paid
  <2>2. CASE c # d
    <3>1. copyState'[c] = copyState[c]
      BY <1>0, <1>11, <2>2 DEF Return, Returned
    <3>2. \A w \in Worker : Holder(w, c) => Holder(w, c)'
      BY <2>0 DEF Holder
    <3> QED
      BY <1>0, <2>0, <3>1, <3>2, PaidKept
  <2> QED
    BY <2>1, <2>2
<1>12. ASSUME NEW d \in Copy, Age(d) PROVE Paid(c)'
  <2>0. UNCHANGED <<deliveries, pc, holds, count, faults>>
    BY <1>12 DEF Age, workers
  <2>1. CASE c = d
    <3>1. copyState'[c] = "aged"
      BY <1>0, <1>12, <2>1 DEF Age
    <3> QED
      BY <3>1 DEF Paid
  <2>2. CASE c # d
    <3>1. copyState'[c] = copyState[c]
      BY <1>0, <1>12, <2>2 DEF Age
    <3>2. \A w \in Worker : Holder(w, c) => Holder(w, c)'
      BY <2>0 DEF Holder
    <3> QED
      BY <1>0, <2>0, <3>1, <3>2, PaidKept
  <2> QED
    BY <2>1, <2>2
<1>13. ASSUME NEW s \in Stray, Inject(s) PROVE Paid(c)'
  BY <1>5, <1>13 DEF Inject, workers
<1>14. ASSUME NEW w \in Worker, Fault(w) PROVE Paid(c)'
  BY <1>4, <1>14 DEF Fault, Blame, stream
<1>23. ASSUME NEW w \in Worker, Exhaust(w) PROVE Paid(c)'
  <2>1. UNCHANGED <<holds, count, copyState, deliveries>>
    BY <1>23 DEF Exhaust, DeadLetterDelivery, stream
  <2>2. pc'[w] \in Consuming /\ \A v \in Worker \ {w} : pc'[v] = pc[v]
    BY <1>0, <1>23 DEF Exhaust, DeadLetterDelivery, Goto, Consuming
  <2>3. faults <= faults'
    BY <1>0, <1>23 DEF Exhaust, Blame
  <2> QED
    BY <1>3, <2>1, <2>2, <2>3
<1>15. ASSUME NEW w \in Worker, Crash(w) PROVE Paid(c)'
  <2>1. UNCHANGED <<copyState, deliveries>>
    BY <1>15 DEF Crash, stream
  <2>2. CASE pc[w] \in Consuming
    BY <1>4, <1>15, <2>1, <2>2 DEF Crash, Blame
  <2>3. CASE pc[w] \notin Consuming
    BY <1>0, <1>2, <1>15, <2>1, <2>3 DEF Crash, Blame, Drop, Goto
  <2> QED
    BY <2>2, <2>3
<1>16. ASSUME NEW w \in Worker,
              Refuse(w) \/ Admit(w) \/ MissReceipt(w) \/ Poison(w) \/ RecordReceipt(w) \/ Project(w)
       PROVE  Paid(c)'
  <2>1. UNCHANGED <<holds, count, copyState, deliveries, faults>>
    BY <1>16 DEF Refuse, Admit, MissReceipt, Poison, RecordReceipt, Project, DeadLetterDelivery, stream
  <2>2. PICK place \in Consuming : Goto(w, place)
    BY <1>16 DEF Refuse, Admit, MissReceipt, Poison, RecordReceipt, AfterReceipt, Project,
                 DeadLetterDelivery, Consuming
  <2>3. pc'[w] \in Consuming /\ \A v \in Worker \ {w} : pc'[v] = pc[v]
    BY <1>0, <2>2 DEF Goto
  <2> QED
    BY <1>0, <1>3, <2>1, <2>3
<1>17. ASSUME NEW w \in Worker, NEW place, pc[w] \notin Consuming,
              Drop(w, place) \/ (Goto(w, place) /\ UNCHANGED <<holds, count>>)
              \/ (Goto(w, place) /\ UNCHANGED count /\ \E e \in Event : holds' = [holds EXCEPT ![w] = e]),
              UNCHANGED <<copyState, deliveries, faults>>
       PROVE  Paid(c)'
  BY <1>0, <1>2, <1>17 DEF Drop, Goto
<1>18. ASSUME NEW w \in Worker, NEW e \in Event, ClaimNext(w, e) PROVE Paid(c)'
  BY <1>17, <1>18 DEF ClaimNext, Consuming, stream
<1>19. ASSUME NEW w \in Worker, ClaimNothing(w) \/ FetchNothing(w) \/ Reconnect(w) \/ Start(w)
       PROVE  Paid(c)'
  <2>1. pc[w] \notin Consuming /\ UNCHANGED <<holds, count, copyState, deliveries, faults>>
    BY <1>19 DEF ClaimNothing, FetchNothing, Reconnect, Start, Consuming, stream
  <2>2. PICK place : Goto(w, place)
    BY <1>19 DEF ClaimNothing, FetchNothing, Reconnect, Start
  <2> QED
    BY <1>17, <2>1, <2>2
<1>20. ASSUME NEW w \in Worker,
              RefuseClaim(w) \/ MarkPublished(w) \/ MarkPublishFailure(w) \/ Stop(w)
       PROVE  Paid(c)'
  <2>1. pc[w] \notin Consuming /\ UNCHANGED <<copyState, deliveries, faults>>
    BY <1>20 DEF RefuseClaim, MarkPublished, MarkPublishFailure, Stop, Consuming, stream
  <2>2. PICK place : Drop(w, place)
    BY <1>20 DEF RefuseClaim, MarkPublished, MarkPublishFailure, Stop, DeadLetterClaim, EndClaim
  <2> QED
    BY <1>17, <2>1, <2>2
<1>21. ASSUME NEW e \in Event, Enqueue(e) \/ LeaseLapses(e) \/ Expire(e) \/ WindowCloses(e)
       PROVE  Paid(c)'
  BY <1>0, <1>1, <1>21 DEF Enqueue, LeaseLapses, Expire, WindowCloses, Blame, stream, workers
<1>22. CASE UNCHANGED vars
  BY <1>0, <1>1, <1>22 DEF vars
<1> QED
  BY <1>6, <1>7, <1>9, <1>10, <1>11, <1>12, <1>13, <1>14, <1>15, <1>16, <1>18, <1>19,
     <1>20, <1>21, <1>22, <1>23, NextCases

\* A copy that has its receipt keeps it, and any other stays paid for.
LEMMA DueStep ==
  ASSUME Shape, Shape', EmptySlots, [Next]_vars, NEW c \in Copy, Due(c)
  PROVE  Due(c)'
<1>1. CASE Answered(c)
  <2>1. body[c] \in Event /\ receipt[body[c]] # None
    BY <1>1 DEF Answered
  <2>2. copyState[c] # "absent"
    BY <2>1, ConstantsAssumption DEF EmptySlots
  <2>3. body'[c] = body[c]
    BY <2>2, SlotsStay
  <2>4. receipt'[body[c]] # None
    BY <2>1, RecordsStay DEF RecordsGrow
  <2> QED
    BY <2>1, <2>3, <2>4 DEF Due, Answered
<1>2. CASE ~Answered(c)
  BY <1>2, PaidStep DEF Due
<1> QED
  BY <1>1, <1>2

\* A published event is in the stream.
THEOREM PublishedStored == Spec => []PublishedIsStored
<1>1. Init => Loss
  BY InitLoss
<1>2. Loss /\ [Next]_vars => Loss'
  BY ShapeStep, EmptySlotsStep, StoredStep, DueStep DEF Loss
<1>3. Loss => PublishedIsStored
  BY DEF Loss, StoredInv, IsStored, PublishedIsStored
<1> QED
  BY <1>1, <1>2, <1>3, PTL DEF Spec

\* An event is lost in silence only after at least MaxDeliver faults, whatever
\* the number of loops and however their steps interleave.
THEOREM LossIsPaid == Spec => []LostOnlyAfterFaults
<1>1. Init => Loss
  BY InitLoss
<1>2. Loss /\ [Next]_vars => Loss'
  BY ShapeStep, EmptySlotsStep, StoredStep, DueStep DEF Loss
<1>3. Loss => LostOnlyAfterFaults
  BY ConstantsAssumption
  DEF Loss, Shape, TypeOK, StoredInv, IsStored, Due, Answered, Paid, LostOnlyAfterFaults, Vanished
<1> QED
  BY <1>1, <1>2, <1>3, PTL DEF Spec

-----------------------------------------------------------------------------
(* What is settled was recorded before.                                      *)

\* And a Boat its projection.
Done(c) == Answered(c) /\ (body[c] \in Boat => body[c] \in projected)

\* The consumer wrote a dead letter about what a copy carries.
Told(c) == \E l \in letters : l.source = "consumer" /\ l.about = body[c]

\* What a worker has on file at the places where it is about to settle its copy.
Traced(w) ==
  /\ pc[w] = "project" => Answered(holds[w])
  /\ pc[w] = "ack" => Done(holds[w])
  /\ pc[w] = "term" => Told(holds[w])

Settling == {"project", "ack", "term"}

\* What was recorded of a copy in the stream stays so.
LEMMA CopiesStayRecorded ==
  ASSUME Shape, [Next]_vars, NEW c \in Copy, copyState[c] # "absent"
  PROVE  /\ body'[c] = body[c]
         /\ Answered(c) => Answered(c)'
         /\ Done(c) => Done(c)'
         /\ Told(c) => Told(c)'
<1>1. body'[c] = body[c]
  BY SlotsStay
<1>2. RecordsGrow
  BY RecordsStay
<1> QED
  BY <1>1, <1>2 DEF Answered, Done, Told, RecordsGrow

\* A worker that comes no nearer to settling its copy keeps its trace.
LEMMA TraceStays ==
  ASSUME Shape, [Next]_vars, NEW w \in Worker, Traced(w),
         pc'[w] \in Settling => pc'[w] = pc[w] /\ holds'[w] = holds[w]
  PROVE  Traced(w)'
<1>1. CASE pc'[w] \notin Settling
  BY <1>1 DEF Traced, Settling
<1>2. CASE pc'[w] \in Settling
  <2>1. pc'[w] = pc[w] /\ holds'[w] = holds[w]
    BY <1>2
  <2>2. holds[w] \in Copy /\ copyState[holds[w]] # "absent"
    BY <1>2, <2>1 DEF Shape, HoldsCopy, Settling, Consuming
  <2>3. /\ Answered(holds[w]) => Answered(holds[w])'
        /\ Done(holds[w]) => Done(holds[w])'
        /\ Told(holds[w]) => Told(holds[w])'
    <3>1. PICK c \in Copy : c = holds[w] /\ copyState[c] # "absent"
      BY <2>2
    <3>2. holds'[w] = c /\ holds[w] = c
      BY <2>1, <3>1
    <3>3. (Answered(c) => Answered(c)') /\ (Done(c) => Done(c)') /\ (Told(c) => Told(c)')
      BY <3>1, CopiesStayRecorded
    <3> QED
      BY <3>2, <3>3 DEF Answered, Done, Told
  <2> QED
    BY <2>1, <2>3 DEF Traced
<1> QED
  BY <1>1, <1>2

\* What is acknowledged was answered, what is terminated was lettered.
LEMMA SettledAreRecorded ==
  ASSUME Shape, [Next]_vars, RecordedBeforeSettled, NEW c \in Copy,
         copyState'[c] \in {"acked", "termed"} => copyState'[c] = copyState[c]
  PROVE  /\ copyState'[c] = "acked" => Done(c)'
         /\ copyState'[c] = "termed" => Told(c)'
<1>1. CASE copyState'[c] \notin {"acked", "termed"}
  BY <1>1
<1>2. CASE copyState'[c] \in {"acked", "termed"}
  <2>1. copyState[c] # "absent" /\ copyState'[c] = copyState[c]
    BY <1>2
  <2>2. (Done(c) => Done(c)') /\ (Told(c) => Told(c)')
    BY <2>1, CopiesStayRecorded
  <2>3. /\ copyState[c] = "acked" => Done(c)
        /\ copyState[c] = "termed" => Told(c)
    BY DEF RecordedBeforeSettled, Answered, Done, Told
  <2> QED
    BY <2>1, <2>2, <2>3
<1> QED
  BY <1>1, <1>2

Recording == (\A w \in Worker : Traced(w)) /\ RecordedBeforeSettled

\* No step but an acknowledgement and a termination settles a copy.
LEMMA SettlingSteps ==
  ASSUME Shape, [Next]_vars, NEW c \in Copy,
         copyState'[c] \in {"acked", "termed"}, copyState'[c] # copyState[c]
  PROVE  \E w \in Worker : \/ Ack(w) /\ holds[w] = c /\ copyState'[c] = "acked"
                           \/ Term(w) /\ holds[w] = c /\ copyState'[c] = "termed"
<1>0. copyState \in [Copy -> CopyStates] /\ HoldsCopy
  BY DEF Shape, TypeOK
<1>1. ASSUME copyState' = copyState PROVE FALSE
  BY <1>1
<1>2. ASSUME NEW d \in Copy, NEW b, Append(d, b) PROVE FALSE
  BY <1>0, <1>2 DEF Append
<1>3. ASSUME NEW w \in Worker, NEW d \in Copy, Fetch(w, d) PROVE FALSE
  BY <1>0, <1>3 DEF Fetch
<1>4. ASSUME NEW w \in Worker, RetryLater(w) PROVE FALSE
  BY <1>0, <1>4 DEF RetryLater, HoldsCopy, Consuming
<1>5. ASSUME NEW d \in Copy, Return(d) \/ Age(d) PROVE FALSE
  BY <1>0, <1>5 DEF Return, Returned, Age
<1>6. ASSUME NEW w \in Worker, Ack(w) PROVE holds[w] = c /\ copyState'[c] = "acked"
  BY <1>0, <1>6 DEF Ack, Settled
<1>7. ASSUME NEW w \in Worker, Term(w) PROVE holds[w] = c /\ copyState'[c] = "termed"
  BY <1>0, <1>7 DEF Term, Settled
<1>8. ASSUME NEW w \in Worker, Publish(w) PROVE FALSE
  BY <1>1, <1>2, <1>8 DEF Publish, Store, stream
<1>9. ASSUME NEW s \in Stray, Inject(s) PROVE FALSE
  BY <1>2, <1>9 DEF Inject
<1>10. ASSUME NEW w \in Worker,
             \/ ClaimNothing(w) \/ RefuseClaim(w) \/ MarkPublished(w) \/ MarkPublishFailure(w)
             \/ FetchNothing(w) \/ Refuse(w) \/ Admit(w) \/ MissReceipt(w) \/ Poison(w) \/ RecordReceipt(w) \/ Exhaust(w)
             \/ Project(w) \/ Reconnect(w) \/ Start(w) \/ Fault(w) \/ Stop(w) \/ Crash(w)
             \/ \E e \in Event : ClaimNext(w, e)
      PROVE  FALSE
  BY <1>1, <1>10 DEF ClaimNothing, RefuseClaim, MarkPublished, MarkPublishFailure, FetchNothing, Refuse,
              Admit, MissReceipt, Poison, RecordReceipt, Exhaust, Project, Reconnect, Start, Fault, Stop, Crash,
              ClaimNext, DeadLetterDelivery, stream
<1>11. ASSUME NEW e \in Event, Enqueue(e) \/ LeaseLapses(e) \/ Expire(e) \/ WindowCloses(e) PROVE FALSE
  BY <1>1, <1>11 DEF Enqueue, LeaseLapses, Expire, WindowCloses, stream
<1>12. CASE UNCHANGED vars
  BY <1>1, <1>12 DEF vars
<1> QED
  BY <1>3, <1>4, <1>5, <1>6, <1>7, <1>8, <1>9, <1>10, <1>11, <1>12, NextCases

\* What is settled in a step was on file before it.
LEMMA SettledStep ==
  ASSUME Shape, [Next]_vars, Recording
  PROVE  RecordedBeforeSettled'
<1>1. SUFFICES ASSUME NEW c \in Copy
               PROVE  /\ copyState'[c] = "acked" => Done(c)'
                      /\ copyState'[c] = "termed" => Told(c)'
  BY DEF RecordedBeforeSettled, Answered, Done, Told
<1>2. CASE copyState'[c] \in {"acked", "termed"} => copyState'[c] = copyState[c]
  BY <1>2, SettledAreRecorded DEF Recording
<1>3. CASE copyState'[c] \in {"acked", "termed"} /\ copyState'[c] # copyState[c]
  <2>1. PICK w \in Worker : \/ Ack(w) /\ holds[w] = c /\ copyState'[c] = "acked"
                            \/ Term(w) /\ holds[w] = c /\ copyState'[c] = "termed"
    BY <1>3, SettlingSteps
  <2>2. copyState[c] # "absent" /\ Traced(w)
    BY <2>1 DEF Shape, HoldsCopy, Consuming, Ack, Term, Recording
  <2>3. (Done(c) => Done(c)') /\ (Told(c) => Told(c)')
    BY <2>2, CopiesStayRecorded
  <2> QED
    BY <2>1, <2>2, <2>3 DEF Traced, Ack, Term
<1> QED
  BY <1>2, <1>3

\* A receipt, a projection or a dead letter is on file before what settles its copy.
LEMMA TraceStep ==
  ASSUME Shape, [Next]_vars, Recording, NEW w \in Worker
  PROVE  Traced(w)'
<1>0. /\ pc \in [Worker -> Places] /\ Traced(w) /\ HoldsCopy /\ HoldsEvent
      /\ receipt \in [Event -> Copy \cup {None}] /\ body \in [Copy -> Body \cup {None}]
  BY DEF Recording, Shape, TypeOK
<1>1. ASSUME pc'[w] = pc[w], holds'[w] = holds[w] PROVE Traced(w)'
  BY <1>0, <1>1, TraceStays
<1>2. ASSUME pc'[w] \notin Settling PROVE Traced(w)'
  BY <1>0, <1>2, TraceStays
<1>3. ASSUME NEW v \in Worker, NEW place \in Places \ Settling, Goto(v, place),
             \A u \in Worker \ {v} : holds'[u] = holds[u]
      PROVE  Traced(w)'
  BY <1>0, <1>1, <1>2, <1>3 DEF Goto
<1>4. ASSUME NEW v \in Worker, NEW place \in Places \ Settling, Drop(v, place) PROVE Traced(w)'
  <2>1. \A u \in Worker \ {v} : holds'[u] = holds[u]
    BY <1>4 DEF Drop
  <2> QED
    BY <1>3, <1>4, <2>1 DEF Drop
<1>5. ASSUME NEW v \in Worker, NEW e \in Event, ClaimNext(v, e) PROVE Traced(w)'
  BY <1>3, <1>5 DEF ClaimNext, Places, Publishing, Settling
<1>6. ASSUME NEW v \in Worker, NEW c \in Copy, Fetch(v, c) PROVE Traced(w)'
  BY <1>3, <1>6 DEF Fetch, Places, Consuming, Settling
<1>7. ASSUME NEW v \in Worker,
             ClaimNothing(v) \/ Publish(v) \/ FetchNothing(v) \/ Admit(v) \/ MissReceipt(v) \/ Reconnect(v) \/ Start(v)
      PROVE  Traced(w)'
  <2>1. holds' = holds
    BY <1>7 DEF ClaimNothing, Publish, FetchNothing, Admit, MissReceipt, Reconnect, Start
  <2>2. PICK place \in Places \ Settling : Goto(v, place)
    BY <1>7 DEF ClaimNothing, Publish, FetchNothing, Admit, MissReceipt, Reconnect, Start, Places, Publishing,
                Consuming, Settling
  <2> QED
    BY <1>3, <2>1, <2>2
<1>8. ASSUME NEW v \in Worker,
             \/ RefuseClaim(v) \/ MarkPublished(v) \/ MarkPublishFailure(v) \/ RetryLater(v)
             \/ Ack(v) \/ Term(v) \/ Fault(v) \/ Stop(v) \/ Crash(v)
      PROVE  Traced(w)'
  <2>1. PICK place \in Places \ Settling : Drop(v, place)
    BY <1>8 DEF RefuseClaim, MarkPublished, MarkPublishFailure, RetryLater, Ack, Term, Fault, Stop, Crash,
                DeadLetterClaim, EndClaim, Places, Gone, Settling
  <2> QED
    BY <1>4, <2>1
<1>9. ASSUME NEW v \in Worker, NEW reason, DeadLetterDelivery(v, reason), pc[v] \in {"handle", "apply", "insert"}
      PROVE  Traced(w)'
  <2>1. /\ holds' = holds /\ pc' = [pc EXCEPT ![v] = "term"] /\ body' = body
        /\ Letter("consumer", body[holds[v]], reason) \in letters'
    BY <1>9 DEF DeadLetterDelivery, Goto, stream
  <2>2. CASE v # w
    BY <1>0, <1>1, <2>1, <2>2
  <2>3. CASE v = w
    <3>1. Told(holds[w])'
      BY <2>1, <2>3 DEF Told, Letter
    <3> QED
      BY <1>0, <2>1, <2>3, <3>1 DEF Traced
  <2> QED
    BY <2>2, <2>3
<1>10. ASSUME NEW v \in Worker, Refuse(v) \/ Poison(v) \/ Exhaust(v) PROVE Traced(w)'
  BY <1>9, <1>10 DEF Refuse, Poison, Exhaust
<1>11. ASSUME NEW v \in Worker, RecordReceipt(v) PROVE Traced(w)'
  <2>1. /\ holds' = holds /\ pc' = [pc EXCEPT ![v] = AfterReceipt(body[holds[v]])] /\ body' = body
        /\ receipt' = Recorded(body[holds[v]], holds[v]) /\ pc[v] \in {"apply", "insert"}
    BY <1>11 DEF RecordReceipt, Goto, stream
  <2>2. CASE v # w
    BY <1>0, <1>1, <2>1, <2>2
  <2>3. CASE v = w
    <3>1. holds[w] \in Copy /\ body[holds[w]] \in Event
      BY <1>0, <2>1, <2>3 DEF HoldsCopy, HoldsEvent, Consuming
    <3>2. receipt'[body[holds[w]]] # None
      BY <1>0, <2>1, <2>3, <3>1, ConstantsAssumption DEF Recorded
    <3>3. Answered(holds[w])'
      BY <2>1, <3>1, <3>2 DEF Answered
    <3>4. pc'[w] = IF body[holds[w]] \in Boat THEN "project" ELSE "ack"
      BY <1>0, <2>1, <2>3 DEF AfterReceipt
    <3> QED
      BY <2>1, <3>3, <3>4 DEF Traced, Done
  <2> QED
    BY <2>2, <2>3
<1>12. ASSUME NEW v \in Worker, Project(v) PROVE Traced(w)'
  <2>1. /\ holds' = holds /\ pc' = [pc EXCEPT ![v] = "ack"] /\ body' = body /\ receipt' = receipt
        /\ projected' = projected \cup {body[holds[v]]} /\ pc[v] = "project"
    BY <1>12 DEF Project, Goto, stream, ledger
  <2>2. CASE v # w
    BY <1>0, <1>1, <2>1, <2>2
  <2>3. CASE v = w
    <3>1. Answered(holds[w])
      BY <1>0, <2>1, <2>3 DEF Traced
    <3>2. Done(holds[w])'
      BY <2>1, <2>3, <3>1 DEF Answered, Done
    <3> QED
      BY <1>0, <2>1, <2>3, <3>2 DEF Traced
  <2> QED
    BY <2>2, <2>3
<1>13. ASSUME NEW e \in Event, Enqueue(e) \/ LeaseLapses(e) \/ Expire(e) \/ WindowCloses(e) PROVE Traced(w)'
  BY <1>1, <1>13 DEF Enqueue, LeaseLapses, Expire, WindowCloses, workers
<1>14. ASSUME NEW c \in Copy, Return(c) \/ Age(c) PROVE Traced(w)'
  BY <1>1, <1>14 DEF Return, Age, workers
<1>15. ASSUME NEW s \in Stray, Inject(s) PROVE Traced(w)'
  BY <1>1, <1>15 DEF Inject, workers
<1>16. CASE UNCHANGED vars
  BY <1>1, <1>16 DEF vars
<1> QED
  BY <1>5, <1>6, <1>7, <1>8, <1>10, <1>11, <1>12, <1>13, <1>14, <1>15, <1>16, NextCases

\* The commit comes before the acknowledgement: a copy the broker will not send again
\* left its receipt, a Boat its projection too, or a dead letter.
THEOREM SettledIsRecorded == Spec => []RecordedBeforeSettled
<1>1. Init => Shape /\ Recording
  BY InitShape DEF Init, Recording, Traced, RecordedBeforeSettled
<1>2. Shape /\ Recording /\ [Next]_vars => Shape' /\ Recording'
  BY ShapeStep, TraceStep, SettledStep DEF Recording
<1>3. Recording => RecordedBeforeSettled
  BY DEF Recording
<1> QED
  BY <1>1, <1>2, <1>3, PTL DEF Spec
-----------------------------------------------------------------------------
(* What an attempt too many has cost.                                        *)

\* The claim that a row is leased under is being worked on.
WorkedOn(e) ==
  e \notin lapsed /\ \E w \in Worker : owner[e] = w /\ holds[w] = e /\ pc[w] \in Publishing

\* A row on offer has attempts left; a lease that nobody works under has cost a fault.
Charged(e) ==
  /\ attempts[e] <= MaxPublishAttempts + faults
  /\ outbox[e] \in {"absent", "pending"} => attempts[e] < MaxPublishAttempts
  /\ outbox[e] = "leased" /\ ~WorkedOn(e) => attempts[e] < MaxPublishAttempts + faults

\* A row that stays as it is stays charged, if whoever stops working on it pays.
LEMMA ChargedKept ==
  ASSUME Shape, NEW e \in Event, Charged(e), attempts'[e] = attempts[e],
         outbox'[e] = outbox[e] \/ outbox'[e] \in {"published", "dead_letter"},
         faults' = faults + 1 \/ (faults' = faults /\ (WorkedOn(e) => WorkedOn(e)'))
  PROVE  Charged(e)'
<1>1. attempts[e] \in Nat /\ faults \in Nat /\ MaxPublishAttempts \in Nat
  BY ConstantsAssumption DEF Shape, TypeOK
<1>2. CASE faults' = faults + 1
  BY <1>1, <1>2 DEF Charged
<1>3. CASE faults' = faults /\ (WorkedOn(e) => WorkedOn(e)')
  <2> DEFINE mine == WorkedOn(e)
  <2>1. outbox'[e] = "leased" /\ ~WorkedOn(e)' => outbox[e] = "leased" /\ ~mine
    BY <1>3
  <2>2. outbox[e] = "leased" /\ ~mine => attempts[e] < MaxPublishAttempts + faults
    BY DEF Charged
  <2> HIDE DEF mine
  <2>3. outbox'[e] = "leased" /\ ~WorkedOn(e)' => attempts'[e] < MaxPublishAttempts + faults'
    BY <1>3, <2>1, <2>2
  <2> QED
    BY <1>1, <1>3, <2>3 DEF Charged
<1> QED
  BY <1>2, <1>3

\* A worker that is not at the row's claim is not missed there.
LEMMA WorkGoesOn ==
  ASSUME NEW e \in Event, NEW v \in Worker, UNCHANGED <<owner, lapsed>>,
         ~(owner[e] = v /\ holds[v] = e /\ pc[v] \in Publishing) \/ (holds'[v] = holds[v] /\ pc'[v] \in Publishing),
         \A u \in Worker \ {v} : pc'[u] = pc[u] /\ holds'[u] = holds[u],
         WorkedOn(e)
  PROVE  WorkedOn(e)'
<1>1. e \notin lapsed' /\ owner'[e] = owner[e]
  BY DEF WorkedOn
<1>2. PICK w \in Worker : owner[e] = w /\ holds[w] = e /\ pc[w] \in Publishing
  BY DEF WorkedOn
<1>3. holds'[w] = e /\ pc'[w] \in Publishing
  BY <1>2
<1> QED
  BY <1>1, <1>2, <1>3 DEF WorkedOn

\* A claim raises a row's attempts where it still has some, or a fault has paid.
LEMMA ClaimIsCharged ==
  ASSUME Shape, NEW e \in Event, Charged(e), NEW w \in Worker, NEW d \in Event, ClaimNext(w, d)
  PROVE  Charged(e)'
<1>0. /\ attempts \in [Event -> Nat] /\ outbox \in [Event -> OutboxStates] /\ faults \in Nat
      /\ owner \in [Event -> Worker \cup {None}] /\ pc \in [Worker -> Places]
      /\ holds \in [Worker -> Event \cup Copy \cup {None}]
      /\ MaxPublishAttempts \in Nat \ {0}
  BY ConstantsAssumption DEF Shape, TypeOK
<1>1. /\ pc' = [pc EXCEPT ![w] = "claimed"] /\ holds' = [holds EXCEPT ![w] = d] /\ pc[w] = "publish"
      /\ owner' = [owner EXCEPT ![d] = w] /\ lapsed' = lapsed \ {d} /\ faults' = faults
      /\ outbox' = [outbox EXCEPT ![d] = "leased"] /\ attempts' = [attempts EXCEPT ![d] = @ + 1]
  BY DEF ClaimNext, Goto
<1>2. CASE d = e
  <2>1. WorkedOn(e)'
    BY <1>0, <1>1, <1>2 DEF WorkedOn, Publishing
  <2>2. attempts[e] < MaxPublishAttempts \/ attempts[e] < MaxPublishAttempts + faults
    BY <1>2 DEF ClaimNext, Claimable, Charged, WorkedOn
  <2>3. attempts'[e] = attempts[e] + 1 /\ outbox'[e] = "leased"
    BY <1>0, <1>1, <1>2
  <2>4. attempts'[e] <= MaxPublishAttempts + faults'
    BY <1>0, <1>1, <2>2, <2>3
  <2> QED
    BY <2>1, <2>3, <2>4 DEF Charged
<1>3. CASE d # e
  <2>1. WorkedOn(e) => WorkedOn(e)'
    <3>1. ASSUME WorkedOn(e) PROVE WorkedOn(e)'
      <4>1. PICK v \in Worker : owner[e] = v /\ holds[v] = e /\ pc[v] \in Publishing
        BY <3>1 DEF WorkedOn
      <4>2. v # w
        BY <1>1, <4>1 DEF Publishing
      <4>3. owner'[e] = v /\ holds'[v] = e /\ pc'[v] \in Publishing
        BY <1>0, <1>1, <1>3, <4>1, <4>2
      <4> QED
        BY <1>1, <1>3, <3>1, <4>3 DEF WorkedOn
    <3> QED
      BY <3>1
  <2>2. attempts'[e] = attempts[e] /\ outbox'[e] = outbox[e]
    BY <1>0, <1>1, <1>3
  <2> QED
    BY <1>1, <2>1, <2>2, ChargedKept
<1> QED
  BY <1>2, <1>3

\* A claim that ends with its lease ends the lease; a row goes back with attempts left.
LEMMA EndIsCharged ==
  ASSUME Shape, NEW e \in Event, Charged(e), NEW w \in Worker, pc[w] \in Publishing,
         NEW state \in {"published", "dead_letter", "pending"}, EndClaim(w, state),
         state = "pending" => attempts[holds[w]] < MaxPublishAttempts, UNCHANGED <<attempts, faults>>
  PROVE  Charged(e)'
<1>0. /\ outbox \in [Event -> OutboxStates] /\ owner \in [Event -> Worker \cup {None}]
      /\ pc \in [Worker -> Places] /\ holds \in [Worker -> Event \cup Copy \cup {None}]
      /\ holds[w] \in Event
  BY DEF Shape, TypeOK, HoldsClaim
<1>1. \A u \in Worker \ {w} : pc'[u] = pc[u] /\ holds'[u] = holds[u]
  BY <1>0 DEF EndClaim, Drop, Goto
<1>2. CASE HasLease(w, holds[w]) /\ holds[w] = e
  <2>1. outbox'[e] = state
    BY <1>0, <1>2 DEF EndClaim
  <2>2. CASE state = "pending"
    BY <1>2, <2>1, <2>2 DEF Charged
  <2>3. CASE state # "pending"
    <3>1. outbox'[e] \in {"published", "dead_letter"}
      BY <2>1, <2>3
    <3> QED
      BY <3>1 DEF Charged
  <2> QED
    BY <2>2, <2>3
<1>3. CASE ~(HasLease(w, holds[w]) /\ holds[w] = e)
  <2>1. outbox'[e] = outbox[e] /\ owner'[e] = owner[e] /\ (e \in lapsed' <=> e \in lapsed)
    BY <1>0, <1>3 DEF EndClaim
  <2>2. CASE outbox[e] # "leased"
    BY <2>1, <2>2 DEF Charged
  <2>3. CASE outbox[e] = "leased"
    <3>1. ASSUME WorkedOn(e) PROVE WorkedOn(e)'
      <4>1. PICK v \in Worker : owner[e] = v /\ holds[v] = e /\ pc[v] \in Publishing
        BY <3>1 DEF WorkedOn
      <4>2. v # w
        BY <1>3, <2>3, <4>1 DEF HasLease
      <4> QED
        BY <1>1, <2>1, <3>1, <4>1, <4>2 DEF WorkedOn
    <3> QED
      BY <2>1, <3>1, ChargedKept
  <2> QED
    BY <2>2, <2>3
<1> QED
  BY <1>2, <1>3

\* Every step keeps the account: one case for each action of Next.
LEMMA ChargedStep ==
  ASSUME Shape, [Next]_vars, NEW e \in Event, Charged(e)
  PROVE  Charged(e)'
<1>0. /\ pc \in [Worker -> Places] /\ holds \in [Worker -> Event \cup Copy \cup {None}]
      /\ outbox \in [Event -> OutboxStates] /\ faults \in Nat
  BY DEF Shape, TypeOK
<1>1. ASSUME UNCHANGED <<table, faults>>, NEW v \in Worker,
             ~(owner[e] = v /\ holds[v] = e /\ pc[v] \in Publishing)
                \/ (holds'[v] = holds[v] /\ pc'[v] \in Publishing),
             \A u \in Worker \ {v} : pc'[u] = pc[u] /\ holds'[u] = holds[u]
      PROVE  Charged(e)'
  <2>1. UNCHANGED <<outbox, owner, attempts, lapsed, faults>>
    BY <1>1 DEF table
  <2>2. WorkedOn(e) => WorkedOn(e)'
    BY <1>1, <2>1, WorkGoesOn
  <2> QED
    BY <2>1, <2>2, ChargedKept
<1>2. ASSUME attempts' = attempts, outbox' = outbox, faults' = faults + 1 PROVE Charged(e)'
  <2>1. attempts'[e] = attempts[e] /\ outbox'[e] = outbox[e]
    BY <1>2
  <2> QED
    BY <1>2, <2>1, ChargedKept
<1>3. ASSUME UNCHANGED <<outbox, owner, attempts, lapsed, workers, faults>> PROVE Charged(e)'
  <2>1. UNCHANGED <<owner, lapsed, holds, pc>> /\ faults' = faults
    BY <1>3 DEF workers
  <2>2. WorkedOn(e)' <=> WorkedOn(e)
    BY <2>1 DEF WorkedOn
  <2> QED
    BY <1>3, <2>2, ChargedKept
<1>4. ASSUME NEW w \in Worker, NEW d \in Event, ClaimNext(w, d) PROVE Charged(e)'
  BY <1>4, ClaimIsCharged
<1>5. ASSUME NEW w \in Worker, RefuseClaim(w) \/ MarkPublished(w) \/ MarkPublishFailure(w)
      PROVE  Charged(e)'
  <2>1. pc[w] \in Publishing /\ UNCHANGED <<attempts, faults>>
    BY <1>5 DEF RefuseClaim, MarkPublished, MarkPublishFailure, Publishing
  <2>2. PICK state \in {"published", "dead_letter", "pending"} :
           EndClaim(w, state) /\ (state = "pending" => ~Exhausted(holds[w]))
    BY <1>5 DEF RefuseClaim, MarkPublished, MarkPublishFailure, DeadLetterClaim
  <2>3. attempts[holds[w]] \in Nat /\ MaxPublishAttempts \in Nat
    BY <2>1, ConstantsAssumption DEF Shape, TypeOK, HoldsClaim
  <2>4. state = "pending" => attempts[holds[w]] < MaxPublishAttempts
    BY <2>2, <2>3 DEF Exhausted
  <2> QED
    BY <2>1, <2>2, <2>4, EndIsCharged
<1>6. ASSUME NEW w \in Worker, Publish(w) PROVE Charged(e)'
  <2>1. UNCHANGED <<table, faults>> /\ holds' = holds
    BY <1>6 DEF Publish
  <2>2. pc'[w] \in Publishing /\ \A u \in Worker \ {w} : pc'[u] = pc[u]
    BY <1>0, <1>6 DEF Publish, Goto, Publishing
  <2> QED
    BY <1>1, <2>1, <2>2
<1>7. ASSUME NEW w \in Worker, pc[w] \notin Publishing, UNCHANGED <<table, faults>>,
             \A u \in Worker \ {w} : pc'[u] = pc[u] /\ holds'[u] = holds[u]
      PROVE  Charged(e)'
  BY <1>1, <1>7
<1>8. ASSUME NEW w \in Worker,
             \/ ClaimNothing(w) \/ FetchNothing(w) \/ Refuse(w) \/ Admit(w) \/ MissReceipt(w) \/ Poison(w) \/ RecordReceipt(w)
             \/ Project(w) \/ Ack(w) \/ Reconnect(w) \/ Start(w) \/ Stop(w)
             \/ \E c \in Copy : Fetch(w, c)
      PROVE  Charged(e)'
  <2>1. pc[w] \notin Publishing /\ UNCHANGED <<table, faults>>
    BY <1>8 DEF ClaimNothing, FetchNothing, Refuse, Admit, MissReceipt, Poison, RecordReceipt, Project, Ack, Reconnect, Start,
                Stop, Fetch, DeadLetterDelivery, Publishing
  <2>2. \A u \in Worker \ {w} : pc'[u] = pc[u] /\ holds'[u] = holds[u]
    BY <1>0, <1>8 DEF ClaimNothing, FetchNothing, Refuse, Admit, MissReceipt, Poison, RecordReceipt, Project, Ack, Reconnect,
                Start, Stop, Fetch, DeadLetterDelivery, Goto, Drop
  <2> QED
    BY <1>7, <2>1, <2>2
<1>9. ASSUME NEW w \in Worker, Fault(w) PROVE Charged(e)'
  BY <1>2, <1>9 DEF Fault, Blame, table
<1>10. ASSUME NEW w \in Worker, RetryLater(w) \/ Exhaust(w) \/ Term(w) \/ Crash(w) PROVE Charged(e)'
  <2>1. UNCHANGED table
    BY <1>10 DEF RetryLater, Exhaust, DeadLetterDelivery, Term, Crash
  <2>2. \A u \in Worker \ {w} : pc'[u] = pc[u] /\ holds'[u] = holds[u]
    BY <1>0, <1>10 DEF RetryLater, Exhaust, DeadLetterDelivery, Term, Crash, Drop, Goto
  <2>3. faults' = faults + 1 \/ (faults' = faults /\ pc[w] \notin Publishing)
    BY <1>10 DEF RetryLater, Exhaust, Term, Crash, Blame, Publishing
  <2>4. CASE faults' = faults + 1
    BY <1>2, <2>1, <2>4 DEF table
  <2>5. CASE faults' = faults /\ pc[w] \notin Publishing
    BY <1>7, <2>1, <2>2, <2>5
  <2> QED
    BY <2>3, <2>4, <2>5
<1>11. ASSUME NEW d \in Event, Enqueue(d) PROVE Charged(e)'
  <2>1. /\ outbox' = [outbox EXCEPT ![d] = "pending"] /\ outbox[d] = "absent"
        /\ UNCHANGED <<owner, attempts, lapsed, workers, faults>>
    BY <1>11 DEF Enqueue
  <2>2. CASE d = e
    BY <1>0, <2>1, <2>2 DEF Charged
  <2>3. CASE d # e
    <3>1. outbox'[e] = outbox[e] /\ faults' = faults
      BY <1>0, <2>1, <2>3
    <3>2. UNCHANGED <<owner, lapsed, holds, pc>>
      BY <2>1 DEF workers
    <3>3. WorkedOn(e)' <=> WorkedOn(e)
      BY <3>2 DEF WorkedOn
    <3> QED
      BY <2>1, <3>1, <3>3, ChargedKept
  <2> QED
    BY <2>2, <2>3
<1>12. ASSUME NEW d \in Event, LeaseLapses(d) PROVE Charged(e)'
  <2>1. /\ UNCHANGED <<outbox, owner, attempts, workers>> /\ lapsed' = lapsed \cup {d}
        /\ Blame(\E w \in Worker : owner[d] = w /\ holds[w] = d /\ pc[w] \in Publishing)
    BY <1>12 DEF LeaseLapses
  <2>2. CASE faults' = faults + 1
    BY <1>2, <2>1, <2>2
  <2>3. CASE faults' = faults /\ ~\E w \in Worker : owner[d] = w /\ holds[w] = d /\ pc[w] \in Publishing
    <3>1. UNCHANGED <<holds, pc>>
      BY <2>1 DEF workers
    <3>2. WorkedOn(e) => e # d
      BY <2>3 DEF WorkedOn
    <3>3. WorkedOn(e) => WorkedOn(e)'
      BY <2>1, <3>1, <3>2 DEF WorkedOn
    <3> QED
      BY <2>1, <2>3, <3>3, ChargedKept
  <2> QED
    BY <2>1, <2>2, <2>3 DEF Blame
<1>13. ASSUME NEW d \in Event, Expire(d) \/ WindowCloses(d) PROVE Charged(e)'
  BY <1>3, <1>13 DEF Expire, WindowCloses, table
<1>14. ASSUME NEW c \in Copy, Return(c) \/ Age(c) PROVE Charged(e)'
  <2>1. UNCHANGED <<table, workers>> /\ (faults' = faults \/ faults' = faults + 1)
    BY <1>14 DEF Return, Age, Blame
  <2> QED
    BY <1>2, <1>3, <2>1 DEF table
<1>15. ASSUME NEW s \in Stray, Inject(s) PROVE Charged(e)'
  BY <1>3, <1>15 DEF Inject, table
<1>16. CASE UNCHANGED vars
  BY <1>3, <1>16 DEF vars, workers
<1> QED
  BY <1>4, <1>5, <1>6, <1>8, <1>9, <1>10, <1>11, <1>12, <1>13, <1>14, <1>15, <1>16, NextCases

\* Each attempt beyond the limit of claim_next's rows has cost an abandoned or overrun
\* claim: nothing else makes a row that has used its attempts claimable again.
THEOREM AttemptsArePaid == Spec => []AttemptsBounded
<1>1. Init => Shape /\ \A e \in Event : Charged(e)
  <2>1. SUFFICES ASSUME Init, NEW e \in Event PROVE Shape /\ Charged(e)
    BY InitShape
  <2>2. attempts[e] = 0 /\ outbox[e] = "absent" /\ faults = 0
    BY <2>1 DEF Init
  <2> QED
    BY <2>1, <2>2, InitShape, ConstantsAssumption DEF Charged
<1>2. Shape /\ (\A e \in Event : Charged(e)) /\ [Next]_vars => (Shape /\ \A e \in Event : Charged(e))'
  BY ShapeStep, ChargedStep
<1>3. (\A e \in Event : Charged(e)) => AttemptsBounded
  BY DEF Charged, AttemptsBounded
<1> QED
  BY <1>1, <1>2, <1>3, PTL DEF Spec
-----------------------------------------------------------------------------
(* What is settled stays settled.                                            *)

\* A row that was published or dead-lettered is neither claimed nor marked again.
LEMMA RowsStaySettled ==
  ASSUME Shape, [Next]_vars, NEW e \in Event, outbox[e] \in {"published", "dead_letter"}
  PROVE  outbox'[e] = outbox[e]
<1>0. outbox \in [Event -> OutboxStates]
  BY DEF Shape, TypeOK
<1>1. ASSUME outbox' = outbox PROVE outbox'[e] = outbox[e]
  BY <1>1
<1>2. ASSUME NEW w \in Worker, NEW d \in Event, ClaimNext(w, d) PROVE outbox'[e] = outbox[e]
  BY <1>0, <1>2 DEF ClaimNext, Claimable
<1>3. ASSUME NEW w \in Worker, NEW state, EndClaim(w, state) PROVE outbox'[e] = outbox[e]
  BY <1>0, <1>3 DEF EndClaim, HasLease
<1>4. ASSUME NEW d \in Event, Enqueue(d) PROVE outbox'[e] = outbox[e]
  BY <1>0, <1>4 DEF Enqueue
<1>5. ASSUME NEW w \in Worker, RefuseClaim(w) \/ MarkPublished(w) \/ MarkPublishFailure(w)
      PROVE  outbox'[e] = outbox[e]
  BY <1>3, <1>5 DEF RefuseClaim, MarkPublished, MarkPublishFailure, DeadLetterClaim
<1>6. ASSUME NEW w \in Worker,
             \/ ClaimNothing(w) \/ Publish(w) \/ FetchNothing(w) \/ Refuse(w) \/ Admit(w) \/ MissReceipt(w) \/ Poison(w)
             \/ RecordReceipt(w) \/ RetryLater(w) \/ Exhaust(w) \/ Project(w) \/ Ack(w) \/ Term(w)
             \/ Reconnect(w) \/ Start(w) \/ Fault(w) \/ Stop(w) \/ Crash(w) \/ \E c \in Copy : Fetch(w, c)
      PROVE  outbox'[e] = outbox[e]
  BY <1>1, <1>6 DEF ClaimNothing, Publish, FetchNothing, Refuse, Admit, MissReceipt, Poison, RecordReceipt, RetryLater,
              Exhaust, Project, Ack, Term, Reconnect, Start, Fault, Stop, Crash, Fetch, DeadLetterDelivery, table
<1>7. ASSUME NEW d \in Event, LeaseLapses(d) \/ Expire(d) \/ WindowCloses(d) PROVE outbox'[e] = outbox[e]
  BY <1>1, <1>7 DEF LeaseLapses, Expire, WindowCloses, table
<1>8. ASSUME NEW c \in Copy, Return(c) \/ Age(c) PROVE outbox'[e] = outbox[e]
  BY <1>1, <1>8 DEF Return, Age, table
<1>9. ASSUME NEW s \in Stray, Inject(s) PROVE outbox'[e] = outbox[e]
  BY <1>1, <1>9 DEF Inject, table
<1>10. CASE UNCHANGED vars
  BY <1>1, <1>10 DEF vars
<1> QED
  BY <1>2, <1>4, <1>5, <1>6, <1>7, <1>8, <1>9, <1>10, NextCases

\* The first receipt of an event is its receipt.
LEMMA ReceiptsStay ==
  ASSUME Shape, [Next]_vars, NEW e \in Event, receipt[e] # None
  PROVE  receipt'[e] = receipt[e]
<1>0. receipt \in [Event -> Copy \cup {None}]
  BY DEF Shape, TypeOK
<1>1. ASSUME receipt' = receipt PROVE receipt'[e] = receipt[e]
  BY <1>1
<1>2. ASSUME NEW w \in Worker, RecordReceipt(w) PROVE receipt'[e] = receipt[e]
  BY <1>0, <1>2 DEF RecordReceipt, Recorded
<1>3. ASSUME NEW w \in Worker,
             \/ ClaimNothing(w) \/ Publish(w) \/ FetchNothing(w) \/ Refuse(w) \/ Admit(w) \/ MissReceipt(w) \/ Poison(w)
             \/ RefuseClaim(w) \/ MarkPublished(w) \/ MarkPublishFailure(w)
             \/ RetryLater(w) \/ Exhaust(w) \/ Project(w) \/ Ack(w) \/ Term(w)
             \/ Reconnect(w) \/ Start(w) \/ Fault(w) \/ Stop(w) \/ Crash(w)
             \/ (\E c \in Copy : Fetch(w, c)) \/ (\E d \in Event : ClaimNext(w, d))
      PROVE  receipt'[e] = receipt[e]
  BY <1>1, <1>3 DEF ClaimNothing, Publish, FetchNothing, Refuse, Admit, MissReceipt, Poison, RefuseClaim, MarkPublished,
              MarkPublishFailure, RetryLater, Exhaust, Project, Ack, Term, Reconnect, Start, Fault, Stop,
              Crash, Fetch, ClaimNext, DeadLetterDelivery, ledger
<1>4. ASSUME NEW d \in Event, Enqueue(d) \/ LeaseLapses(d) \/ Expire(d) \/ WindowCloses(d)
      PROVE  receipt'[e] = receipt[e]
  BY <1>1, <1>4 DEF Enqueue, LeaseLapses, Expire, WindowCloses, ledger
<1>5. ASSUME NEW c \in Copy, Return(c) \/ Age(c) PROVE receipt'[e] = receipt[e]
  BY <1>1, <1>5 DEF Return, Age, ledger
<1>6. ASSUME NEW s \in Stray, Inject(s) PROVE receipt'[e] = receipt[e]
  BY <1>1, <1>6 DEF Inject, ledger
<1>7. CASE UNCHANGED vars
  BY <1>1, <1>7 DEF vars
<1> QED
  BY <1>2, <1>3, <1>4, <1>5, <1>6, <1>7, NextCases

\* A copy that was acknowledged or terminated is not handled again.
LEMMA CopiesStaySettled ==
  ASSUME Shape, [Next]_vars, NEW c \in Copy, copyState[c] \in {"acked", "termed"}
  PROVE  copyState'[c] = copyState[c]
<1>0. copyState \in [Copy -> CopyStates]
  BY DEF Shape, TypeOK
<1>1. ASSUME copyState' = copyState PROVE copyState'[c] = copyState[c]
  BY <1>1
<1>2. ASSUME NEW d \in Copy, NEW b, Append(d, b) PROVE copyState'[c] = copyState[c]
  BY <1>0, <1>2 DEF Append
<1>3. ASSUME NEW w \in Worker, Publish(w) PROVE copyState'[c] = copyState[c]
  BY <1>1, <1>2, <1>3 DEF Publish, Store, stream
<1>4. ASSUME NEW s \in Stray, Inject(s) PROVE copyState'[c] = copyState[c]
  BY <1>2, <1>4 DEF Inject
<1>5. ASSUME NEW w \in Worker, NEW d \in Copy, Fetch(w, d) PROVE copyState'[c] = copyState[c]
  BY <1>0, <1>5 DEF Fetch, Fetchable
<1>6. ASSUME NEW w \in Worker, RetryLater(w) \/ Ack(w) \/ Term(w) PROVE copyState'[c] = copyState[c]
  BY <1>0, <1>6 DEF RetryLater, Ack, Term, Settled
<1>7. ASSUME NEW d \in Copy, Return(d) \/ Age(d) PROVE copyState'[c] = copyState[c]
  BY <1>0, <1>7 DEF Return, Returned, Age
<1>8. ASSUME NEW w \in Worker,
             \/ ClaimNothing(w) \/ RefuseClaim(w) \/ MarkPublished(w) \/ MarkPublishFailure(w)
             \/ FetchNothing(w) \/ Refuse(w) \/ Admit(w) \/ MissReceipt(w) \/ Poison(w) \/ RecordReceipt(w) \/ Exhaust(w)
             \/ Project(w) \/ Reconnect(w) \/ Start(w) \/ Fault(w) \/ Stop(w) \/ Crash(w)
             \/ \E d \in Event : ClaimNext(w, d)
      PROVE  copyState'[c] = copyState[c]
  BY <1>1, <1>8 DEF ClaimNothing, RefuseClaim, MarkPublished, MarkPublishFailure, FetchNothing, Refuse,
              Admit, MissReceipt, Poison, RecordReceipt, Exhaust, Project, Reconnect, Start, Fault, Stop, Crash,
              ClaimNext, DeadLetterDelivery, stream
<1>9. ASSUME NEW d \in Event, Enqueue(d) \/ LeaseLapses(d) \/ Expire(d) \/ WindowCloses(d)
      PROVE  copyState'[c] = copyState[c]
  BY <1>1, <1>9 DEF Enqueue, LeaseLapses, Expire, WindowCloses, stream
<1>10. CASE UNCHANGED vars
  BY <1>1, <1>10 DEF vars
<1> QED
  BY <1>3, <1>4, <1>5, <1>6, <1>7, <1>8, <1>9, <1>10, NextCases

\* Whoever acts on a stale claim or a redelivered copy, a settled row, a first receipt, a
\* dead letter and the settlement of a copy stay what they are.
THEOREM OutcomesStay == Spec => OutcomesAreFinal
<1> DEFINE Final == /\ \A e \in Event :
                          /\ outbox[e] \in {"published", "dead_letter"} => outbox'[e] = outbox[e]
                          /\ receipt[e] # None => receipt'[e] = receipt[e]
                    /\ letters \subseteq letters'
                    /\ \A c \in Copy : copyState[c] \in {"acked", "termed"} => copyState'[c] = copyState[c]
<1>1. Shape /\ [Next]_vars => Final
  BY RowsStaySettled, ReceiptsStay, CopiesStaySettled, RecordsStay DEF RecordsGrow
<1>2. Init => Shape
  BY InitShape
<1>3. Shape /\ [Next]_vars => Shape'
  BY ShapeStep
<1> QED
  BY <1>1, <1>2, <1>3, PTL DEF Spec, OutcomesAreFinal
=============================================================================
