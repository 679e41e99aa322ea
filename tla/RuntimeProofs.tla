---------------------------- MODULE RuntimeProofs ----------------------------
(* Theorems about the running system: the adapter's native transport and its *)
(* child, the Presence Host's door to its table, the room's chat, and the     *)
(* room Host's recall policy.                                                *)
EXTENDS RustTransport, HostPresence, HostPolicy, ChatRoom, SequenceTheorems, FiniteSetTheorems,
        WellFoundedInduction, TLAPS

-----------------------------------------------------------------------------
(* Sequences.                                                                *)

Distinct(s) == \A i, j \in 1..Len(s) : s[i] = s[j] => i = j

\* A set of numbers that is not empty has a least one.
LEMMA LeastNumber ==
  ASSUME NEW S \in SUBSET Nat, S # {}
  PROVE  Min(S) \in S /\ \A k \in S : Min(S) <= k
<1> DEFINE R == {ss \in Nat \X Nat : ss[1] < ss[2]}
<1>1. IsWellFoundedOn(R, Nat)
  BY NatLessThanWellFounded DEF OpToRel
<1>2. \A y, x \in S : <<y, x>> \in R <=> y < x
  OBVIOUS
<1> HIDE DEF R
<1>3. PICK u \in S : \A k \in S : ~ (<<k, u>> \in R)
  BY <1>1, WFMin
<1>4. \A k \in S : u <= k
  <2>1. \A k \in S : ~(k < u)
    BY <1>2, <1>3
  <2>2. \A k \in S : k \in Nat /\ u \in Nat
    OBVIOUS
  <2> QED
    BY <2>1, <2>2
<1> QED
  BY <1>4 DEF Min

\* A set of numbers below a bound that is not empty has a greatest one.
LEMMA GreatestNumber ==
  ASSUME NEW n \in Nat, NEW S \in SUBSET (1..n), S # {}
  PROVE  \E g \in S : \A k \in S : k <= g
<1> DEFINE D == {d \in 0..n : \E k \in S : k = n - d}
<1>1. D \in SUBSET Nat /\ D # {}
  <2>1. PICK k \in S : TRUE
    OBVIOUS
  <2>2. k \in 1..n
    OBVIOUS
  <2>3. n - k \in 0..n /\ k = n - (n - k)
    BY <2>2
  <2>4. n - k \in D /\ D \in SUBSET (0..n)
    BY <2>3
  <2> HIDE DEF D
  <2> QED
    BY <2>4
<1>2. PICK d \in D : \A e \in D : d <= e
  BY <1>1, LeastNumber
<1>3. PICK g \in S : g = n - d
  OBVIOUS
<1>4. ASSUME NEW k \in S PROVE k <= g
  <2>0. k \in 1..n
    OBVIOUS
  <2>1. n - k \in 0..n /\ k = n - (n - k) /\ k \in Nat
    BY <2>0
  <2>2. n - k \in D
    BY <2>1
  <2> HIDE DEF D
  <2>3. d <= n - k /\ d \in Nat
    BY <1>1, <1>2, <2>2
  <2> QED
    BY <1>3, <2>1, <2>3
<1> QED
  BY <1>4

\* What RemoveFirst takes out of a sequence, and what it leaves.
LEMMA Removed ==
  ASSUME NEW S, NEW s \in Seq(S), NEW e
  PROVE  LET t == RemoveFirst(s, e) IN
         /\ t \in Seq(S) /\ Len(t) <= Len(s)
         /\ \A i \in 1..Len(t) : \E j \in 1..Len(s) : t[i] = s[j]
         /\ \A j \in 1..Len(s) : s[j] # e => \E i \in 1..Len(t) : t[i] = s[j]
         /\ Distinct(s) => Distinct(t) /\ \A i \in 1..Len(t) : t[i] # e
<1> DEFINE t == RemoveFirst(s, e)
           I == {i \in 1..Len(s) : s[i] = e}
<1>1. CASE I = {}
  <2>1. t = s
    BY <1>1 DEF RemoveFirst
  <2> QED
    BY <1>1, <2>1
<1>2. CASE I # {}
  <2>1. I \in SUBSET Nat
    OBVIOUS
  <2>2. PICK k \in 1..Len(s) : s[k] = e /\ k = Min(I)
    BY <1>2, <2>1, LeastNumber
  <2>3. t = SubSeq(s, 1, k - 1) \o SubSeq(s, k + 1, Len(s))
    BY <1>2, <2>2 DEF RemoveFirst, RemoveAt, SelectInSeq
  <2> DEFINE a == SubSeq(s, 1, k - 1)
             b == SubSeq(s, k + 1, Len(s))
  <2>4. /\ Len(s) \in Nat /\ k \in Nat
        /\ a \in Seq(S) /\ b \in Seq(S) /\ Len(a) = k - 1 /\ Len(b) = Len(s) - k
        /\ \A i \in 1..(k - 1) : a[i] = s[i]
        /\ \A i \in 1..(Len(s) - k) : b[i] = s[k + i]
    OBVIOUS
  <2> HIDE DEF t, I, a, b
  <2>5. t = a \o b /\ t \in Seq(S) /\ Len(t) = Len(s) - 1 /\ Len(t) <= Len(s)
    <3>1. t = a \o b
      BY <2>3 DEF a, b
    <3>2. a \o b \in Seq(S) /\ Len(a \o b) = Len(a) + Len(b)
      BY <2>4, ConcatProperties
    <3> QED
      BY <2>4, <3>1, <3>2
  <2>6. \A i \in 1..Len(t) : t[i] = IF i < k THEN s[i] ELSE s[i + 1]
    <3>1. ASSUME NEW i \in 1..Len(t) PROVE t[i] = IF i < k THEN s[i] ELSE s[i + 1]
      <4>0. \A n \in 1..(Len(a) + Len(b)) : (a \o b)[n] = IF n <= Len(a) THEN a[n] ELSE b[n - Len(a)]
        BY <2>4, ConcatProperties
      <4>1. CASE i < k
        <5>1. i \in 1..(Len(a) + Len(b)) /\ i <= Len(a) /\ i \in 1..(k - 1)
          BY <2>4, <2>5, <4>1
        <5> QED
          BY <2>4, <2>5, <4>0, <4>1, <5>1
      <4>2. CASE ~(i < k)
        <5>1. /\ i \in 1..(Len(a) + Len(b)) /\ ~(i <= Len(a))
              /\ i - Len(a) \in 1..(Len(s) - k) /\ k + (i - Len(a)) = i + 1
          BY <2>4, <2>5, <4>2
        <5> QED
          BY <2>4, <2>5, <4>0, <4>2, <5>1
      <4> QED
        BY <4>1, <4>2
    <3> QED
      BY <3>1
  <2> DEFINE n(i) == IF i < k THEN i ELSE i + 1
  <2>7. /\ \A i \in 1..Len(t) : n(i) \in 1..Len(s) /\ n(i) # k /\ t[i] = s[n(i)]
        /\ \A i, j \in 1..Len(t) : n(i) = n(j) => i = j
    <3>1. Len(t) \in Nat /\ Len(t) + 1 = Len(s)
      BY <2>4, <2>5
    <3>2. ASSUME NEW i \in 1..Len(t) PROVE n(i) \in 1..Len(s) /\ n(i) # k /\ t[i] = s[n(i)]
      <4>1. n(i) \in 1..Len(s) /\ n(i) # k
        BY <2>4, <3>1
      <4>2. t[i] = s[n(i)]
        BY <2>6
      <4> QED
        BY <4>1, <4>2
    <3>3. ASSUME NEW i \in 1..Len(t), NEW j \in 1..Len(t), n(i) = n(j) PROVE i = j
      BY <2>4, <3>1, <3>3
    <3> QED
      BY <3>2, <3>3
  <2>8. \A j \in 1..Len(s) : j # k => \E i \in 1..Len(t) : n(i) = j
    <3>1. ASSUME NEW j \in 1..Len(s), j # k PROVE \E i \in 1..Len(t) : n(i) = j
      <4>1. CASE j < k
        <5>1. j \in 1..Len(t) /\ n(j) = j
          BY <2>4, <2>5, <4>1
        <5> QED
          BY <5>1
      <4>2. CASE j > k
        <5>1. j - 1 \in 1..Len(t) /\ n(j - 1) = j
          BY <2>4, <2>5, <4>2
        <5> QED
          BY <5>1
      <4> QED
        <5>1. j < k \/ j > k
          BY <2>4, <3>1
        <5> QED
          BY <4>1, <4>2, <5>1
    <3> QED
      BY <3>1
  <2> HIDE DEF n
  <2>9. \A i \in 1..Len(t) : \E j \in 1..Len(s) : t[i] = s[j]
    BY <2>7
  <2>10. \A j \in 1..Len(s) : s[j] # e => \E i \in 1..Len(t) : t[i] = s[j]
    BY <2>2, <2>7, <2>8
  <2>11. ASSUME Distinct(s) PROVE Distinct(t) /\ \A i \in 1..Len(t) : t[i] # e
    BY <2>2, <2>7, <2>11 DEF Distinct
  <2> QED
    BY <2>5, <2>9, <2>10, <2>11 DEF t
<1> QED
  BY <1>1, <1>2

\* What a sequence holds when an element that is new to it is appended.
LEMMA AppendedTo ==
  ASSUME NEW S, NEW s \in Seq(S), NEW e \in S
  PROVE  /\ Append(s, e) \in Seq(S) /\ Len(Append(s, e)) = Len(s) + 1
         /\ \A i \in 1..Len(Append(s, e)) :
               Append(s, e)[i] = IF i = Len(s) + 1 THEN e ELSE s[i]
         /\ Distinct(s) /\ (\A i \in 1..Len(s) : s[i] # e) => Distinct(Append(s, e))
<1>1. /\ Append(s, e) \in Seq(S) /\ Len(Append(s, e)) = Len(s) + 1 /\ Len(s) \in Nat
      /\ \A i \in 1..Len(Append(s, e)) : Append(s, e)[i] = IF i = Len(s) + 1 THEN e ELSE s[i]
  OBVIOUS
<1> DEFINE t == Append(s, e)
<1> HIDE DEF t
<1>2. ASSUME Distinct(s), \A i \in 1..Len(s) : s[i] # e PROVE Distinct(t)
  BY <1>1, <1>2 DEF Distinct, t
<1> QED
  BY <1>1, <1>2 DEF t

\* What a sequence holds when its head is taken.
LEMMA TailOf ==
  ASSUME NEW S, NEW s \in Seq(S), s # <<>>
  PROVE  /\ Head(s) \in S /\ Head(s) = s[1] /\ Tail(s) \in Seq(S) /\ Len(Tail(s)) = Len(s) - 1
         /\ Len(s) \in Nat \ {0} /\ \A i \in 1..Len(Tail(s)) : Tail(s)[i] = s[i + 1]
         /\ Distinct(s) => Distinct(Tail(s)) /\ \A i \in 1..Len(Tail(s)) : Tail(s)[i] # Head(s)
<1>1. /\ Head(s) \in S /\ Head(s) = s[1] /\ Tail(s) \in Seq(S) /\ Len(Tail(s)) = Len(s) - 1
      /\ Len(s) \in Nat \ {0} /\ \A i \in 1..Len(Tail(s)) : Tail(s)[i] = s[i + 1]
  OBVIOUS
<1> DEFINE t == Tail(s)
<1> HIDE DEF t
<1>2. ASSUME Distinct(s) PROVE Distinct(t) /\ \A i \in 1..Len(t) : t[i] # Head(s)
  <2>1. \A i \in 1..Len(t) : i + 1 \in 1..Len(s) /\ t[i] = s[i + 1] /\ i + 1 # 1 /\ 1 \in 1..Len(s)
    BY <1>1 DEF t
  <2> QED
    BY <1>1, <1>2, <2>1 DEF Distinct
<1> QED
  BY <1>1, <1>2 DEF t
-----------------------------------------------------------------------------
(* The transport.                                                            *)

CallRow == [waiting : BOOLEAN, dispatched : BOOLEAN, written : BOOLEAN, told : Words]
HeldRow == [request : [Requests -> CallRow], queue : Seq(Requests), writing : Requests \cup {0},
            blocked : BOOLEAN, input : Seq(Requests)]
ChildStates == {"none", "starting", "up", "ending", "killed", "closed"}

\* What a callback holds: each queued request waits unsent, and once; each one in
\* the pipe was dispatched, and once; who was told of no start was not dispatched.
HeldSound(h) ==
    /\ h \in HeldRow
    /\ Distinct(h.queue) /\ Distinct(h.input)
    /\ \A i \in 1..Len(h.queue) : /\ h.request[h.queue[i]].waiting
                                  /\ ~h.request[h.queue[i]].dispatched
    /\ \A i \in 1..Len(h.input) : h.request[h.input[i]].dispatched
    /\ \A r \in Requests : /\ h.request[r].waiting => h.request[r].told = "nothing"
                           /\ h.request[r].told = "not_started" => ~h.request[r].dispatched

Waiters(h) == {r \in Requests : h.request[r].waiting}
WithinLimits(h) == Cardinality(Waiters(h)) <= MaxPending /\ Len(h.queue) <= MaxQueued

PipesTyped ==
    /\ abandoned \in Seq(Requests) /\ Len(abandoned) <= MaxPending
    /\ output \in Seq(Requests \cup {0}) /\ executed \in SUBSET Requests
    /\ cleaned \in BOOLEAN /\ garbled \in BOOLEAN /\ forgot \in BOOLEAN /\ distrusted \in BOOLEAN
    /\ child \in ChildStates

\* What the child answers it acted on, and what it acted on was dispatched.
LinesSound ==
    /\ \A i \in 1..Len(output) : output[i] = 0 \/ output[i] \in executed
    /\ \A i \in 1..Len(output) : output[i] = 0 => garbled
    /\ \A r \in executed : request[r].dispatched
    /\ \A r \in Requests : request[r].told = "answered" => r \in executed
    /\ child \in {"none", "starting"} => executed = {}

\* A request is in one of the pipes, and once.
OnceOnly ==
    \A i \in 1..Len(output) : output[i] # 0 =>
       /\ \A j \in 1..Len(input) : input[j] # output[i]
       /\ \A j \in 1..Len(output) : output[j] = output[i] => j = i

\* Whatever comes out of the child is waited for, or known to be given up.
Expected ==
    \A x \in Requests :
       (\/ \E i \in 1..Len(input) : input[i] = x
        \/ \E i \in 1..Len(output) : output[i] = x) =>
          request[x].waiting \/ \E i \in 1..Len(abandoned) : abandoned[i] = x

TransportInv ==
    /\ HeldSound(Now) /\ WithinLimits(Now) /\ PipesTyped /\ LinesSound /\ OnceOnly
    /\ cleaned => queue = <<>>
    /\ ~cleaned /\ ~forgot => Expected
    /\ HonestChildIsBelieved

\* A write takes the head of the queue to the pipe, and nothing else.
Onward(h, k) ==
    /\ \A r \in Requests : /\ k.request[r].waiting <=> h.request[r].waiting
                           /\ k.request[r].told = h.request[r].told
                           /\ h.request[r].dispatched => k.request[r].dispatched
    /\ \A i \in 1..Len(k.input) :
          \/ \E j \in 1..Len(h.input) : k.input[i] = h.input[j]
          \/ k.request[k.input[i]].waiting /\ ~h.request[k.input[i]].dispatched
    /\ Len(k.queue) <= Len(h.queue)
\* What is flushed is sound still, and goes only onward.
LEMMA FlushedOnward ==
  ASSUME NEW h, HeldSound(h), NEW a \in BOOLEAN
  PROVE  HeldSound(Flushed(h, a)) /\ Onward(h, Flushed(h, a))
<1> DEFINE k == Flushed(h, a)
<1>0. h \in HeldRow
  BY DEF HeldSound
<1>1. CASE h.writing # 0 \/ h.blocked \/ h.queue = <<>>
  <2>1. k = h
    BY <1>1 DEF Flushed
  <2>2. Onward(h, h)
    <3>1. Len(h.queue) \in Nat
      BY <1>0 DEF HeldRow
    <3> QED
      BY <3>1 DEF Onward
  <2> QED
    BY <2>1, <2>2
<1>2. CASE ~(h.writing # 0 \/ h.blocked \/ h.queue = <<>>)
  <2> DEFINE q == Head(h.queue)
             yes == TRUE
             full == ~a
             entry == [h.request[q] EXCEPT !.dispatched = yes]
             sent == [h.request EXCEPT ![q] = entry]
             rest == Tail(h.queue)
             piped == Append(h.input, q)
  <2>1. /\ q \in Requests /\ rest \in Seq(Requests) /\ Len(rest) = Len(h.queue) - 1
        /\ Len(h.queue) \in Nat \ {0} /\ q = h.queue[1]
        /\ \A i \in 1..Len(rest) : rest[i] = h.queue[i + 1] /\ i + 1 \in 1..Len(h.queue)
        /\ Distinct(rest) /\ \A i \in 1..Len(rest) : rest[i] # q
    <3>1. h.queue \in Seq(Requests) /\ h.queue # <<>> /\ Distinct(h.queue)
      BY <1>0, <1>2 DEF HeldRow, HeldSound
    <3>2. /\ q \in Requests /\ rest \in Seq(Requests) /\ Len(rest) = Len(h.queue) - 1
          /\ Len(h.queue) \in Nat \ {0} /\ q = h.queue[1]
          /\ \A i \in 1..Len(rest) : rest[i] = h.queue[i + 1]
          /\ Distinct(rest) /\ \A i \in 1..Len(rest) : rest[i] # q
      BY <3>1, TailOf
    <3> HIDE DEF rest, q
    <3>3. \A i \in 1..Len(rest) : i + 1 \in 1..Len(h.queue)
      BY <3>2
    <3> QED
      BY <3>2, <3>3
  <2>2. h.request[q].waiting /\ ~h.request[q].dispatched
    BY <2>1 DEF HeldSound
  <2>3. /\ piped \in Seq(Requests) /\ Distinct(piped)
        /\ \A i \in 1..Len(piped) :
              piped[i] = q \/ \E j \in 1..Len(h.input) : piped[i] = h.input[j]
    <3>1. h.input \in Seq(Requests) /\ Distinct(h.input) /\ \A i \in 1..Len(h.input) : h.input[i] # q
      BY <1>0, <2>2 DEF HeldRow, HeldSound
    <3>2. /\ piped \in Seq(Requests) /\ Distinct(piped) /\ Len(piped) = Len(h.input) + 1
          /\ \A i \in 1..Len(piped) : piped[i] = IF i = Len(h.input) + 1 THEN q ELSE h.input[i]
      BY <2>1, <3>1, AppendedTo
    <3>3. Len(h.input) \in Nat
      BY <3>1
    <3> HIDE DEF piped
    <3> QED
      BY <3>2, <3>3
  <2>4. k = [h EXCEPT !.queue = rest, !.writing = q, !.request = sent, !.blocked = full,
                      !.input = piped]
    BY <1>0, <1>2 DEF Flushed, HeldRow
  <2>5. full \in BOOLEAN /\ yes \in BOOLEAN /\ yes = TRUE
    OBVIOUS
  <2> HIDE DEF k, q, yes, full, entry, sent, rest, piped
  <2>6. /\ sent \in [Requests -> CallRow]
        /\ \A r \in Requests : /\ sent[r].waiting = h.request[r].waiting
                               /\ sent[r].told = h.request[r].told
                               /\ r # q => sent[r].dispatched = h.request[r].dispatched
        /\ sent[q].dispatched = yes
    <3>1. h.request \in [Requests -> CallRow]
      BY <1>0 DEF HeldRow
    <3>2. h.request[q] \in CallRow
      BY <2>1, <3>1
    <3>3. /\ entry \in CallRow /\ entry.waiting = h.request[q].waiting /\ entry.told = h.request[q].told
          /\ entry.dispatched = yes
      BY <2>5, <3>2 DEF entry, CallRow
    <3> QED
      BY <2>1, <3>1, <3>3 DEF sent
  <2>7. /\ k \in HeldRow /\ k.request = sent /\ k.queue = rest /\ k.input = piped
    BY <1>0, <2>1, <2>3, <2>4, <2>5, <2>6 DEF HeldRow
  <2>8. HeldSound(k)
    <3>1. \A i \in 1..Len(rest) : sent[rest[i]].waiting /\ ~sent[rest[i]].dispatched
      <4>1. \A i \in 1..Len(rest) : rest[i] \in Requests /\ rest[i] # q
        BY <2>1
      <4>2. \A i \in 1..Len(rest) : h.request[rest[i]].waiting /\ ~h.request[rest[i]].dispatched
        BY <2>1 DEF HeldSound
      <4> QED
        BY <2>6, <4>1, <4>2
    <3>2. \A i \in 1..Len(piped) : sent[piped[i]].dispatched
      <4>1. \A i \in 1..Len(piped) : piped[i] \in Requests
        BY <2>3
      <4>2. \A i \in 1..Len(h.input) : h.request[h.input[i]].dispatched
        BY DEF HeldSound
      <4>3. \A i \in 1..Len(piped) : piped[i] # q => h.request[piped[i]].dispatched
        BY <2>3, <4>2
      <4> QED
        BY <2>5, <2>6, <4>1, <4>3
    <3>3. \A r \in Requests : /\ sent[r].waiting => sent[r].told = "nothing"
                              /\ sent[r].told = "not_started" => ~sent[r].dispatched
      <4>1. sent[q].told = "nothing"
        BY <2>1, <2>2, <2>6 DEF HeldSound
      <4> QED
        BY <2>6, <4>1 DEF HeldSound
    <3> QED
      BY <2>1, <2>3, <2>7, <3>1, <3>2, <3>3 DEF HeldSound
  <2>9. Onward(h, k)
    <3>1. \A r \in Requests : /\ sent[r].waiting <=> h.request[r].waiting
                              /\ sent[r].told = h.request[r].told
                              /\ h.request[r].dispatched => sent[r].dispatched
      BY <2>2, <2>5, <2>6
    <3>2. \A i \in 1..Len(piped) :
             \/ \E j \in 1..Len(h.input) : piped[i] = h.input[j]
             \/ sent[piped[i]].waiting /\ ~h.request[piped[i]].dispatched
      BY <2>1, <2>2, <2>3, <3>1
    <3>3. Len(rest) <= Len(h.queue)
      BY <2>1
    <3> QED
      BY <2>7, <3>1, <3>2, <3>3 DEF Onward
  <2> QED
    BY <2>8, <2>9 DEF k
<1> QED
  BY <1>1, <1>2
\* The garbled line is no request's.
LEMMA NoRequestIsZero == 0 \notin Requests
<1> DEFINE n == Cardinality(Requests)
<1>1. n \in Nat /\ Requests = 1..n
  BY RequestsAreNumbered, FS_CardinalityType
<1> HIDE DEF n
<1> QED
  BY <1>1

\* What the callback left is what is.
LEMMA BecomesNow ==
  ASSUME NEW k \in HeldRow, Becomes(k)
  PROVE  /\ Now' = k /\ request' = k.request /\ queue' = k.queue /\ writing' = k.writing
         /\ blocked' = k.blocked /\ input' = k.input
<1>1. k = [request |-> k.request, queue |-> k.queue, writing |-> k.writing,
           blocked |-> k.blocked, input |-> k.input]
  BY DEF HeldRow
<1> QED
  BY <1>1 DEF Becomes, Now

\* What the parts of a sound transport are.
LEMMA HeldIs ==
  ASSUME HeldSound(Now)
  PROVE  /\ Now.request = request /\ Now.queue = queue /\ Now.writing = writing
         /\ Now.blocked = blocked /\ Now.input = input /\ Now \in HeldRow
         /\ request \in [Requests -> CallRow] /\ queue \in Seq(Requests)
         /\ writing \in Requests \cup {0} /\ input \in Seq(Requests)
         /\ Distinct(queue) /\ Distinct(input)
         /\ \A i \in 1..Len(queue) : request[queue[i]].waiting /\ ~request[queue[i]].dispatched
         /\ \A i \in 1..Len(input) : request[input[i]].dispatched
         /\ \A r \in Requests : /\ request[r].waiting => request[r].told = "nothing"
                                /\ request[r].told = "not_started" => ~request[r].dispatched
<1>1. /\ Now.request = request /\ Now.queue = queue /\ Now.writing = writing
      /\ Now.blocked = blocked /\ Now.input = input
  BY DEF Now
<1>2. Now \in HeldRow
  BY DEF HeldSound
<1>3. /\ request \in [Requests -> CallRow] /\ queue \in Seq(Requests)
      /\ writing \in Requests \cup {0} /\ input \in Seq(Requests)
  BY <1>1, <1>2 DEF HeldRow
<1> QED
  BY <1>1, <1>2, <1>3 DEF HeldSound

\* Fewer callers wait for fewer lines: the limits hold.
LEMMA FewerWait ==
  ASSUME NEW W \in SUBSET Requests, NEW V \in SUBSET W
  PROVE  Cardinality(V) <= Cardinality(W) /\ Cardinality(W) \in Nat /\ Cardinality(V) \in Nat
<1>1. IsFiniteSet(W)
  BY RequestsAreNumbered, FS_Subset
<1> QED
  BY <1>1, FS_Subset, FS_CardinalityType

\* A callback that sends what waited for its turn, and gives nobody up.
LEMMA HeldMoves ==
  ASSUME TransportInv, NEW k, Becomes(k), HeldSound(k), WithinLimits(k),
         UNCHANGED <<abandoned, cleaned, output, executed, garbled, overlong, forgot, distrusted>>,
         child' \in ChildStates, child' \in {"none", "starting"} => child \in {"none", "starting"},
         \A r \in Requests : /\ request[r].dispatched => k.request[r].dispatched
                             /\ k.request[r].told = "answered" => request[r].told = "answered"
                             /\ request[r].waiting /\ request[r].dispatched => k.request[r].waiting,
         \A i \in 1..Len(k.input) :
            \/ \E j \in 1..Len(input) : k.input[i] = input[j]
            \/ k.request[k.input[i]].waiting /\ ~request[k.input[i]].dispatched,
         cleaned => k.queue = <<>>
  PROVE  TransportInv'
<1>1. /\ Now' = k /\ request' = k.request /\ queue' = k.queue /\ writing' = k.writing
      /\ blocked' = k.blocked /\ input' = k.input
  BY BecomesNow DEF HeldSound
<1>2. HeldSound(Now)' /\ WithinLimits(Now)'
  BY <1>1
<1>3. PipesTyped'
  BY DEF TransportInv, PipesTyped
<1>4. executed \in SUBSET Requests
  BY DEF TransportInv, PipesTyped
<1>5. LinesSound'
  <2>1. \A i \in 1..Len(output') : output'[i] = 0 \/ output'[i] \in executed'
    BY DEF TransportInv, LinesSound
  <2>2. \A i \in 1..Len(output') : output'[i] = 0 => garbled'
    BY DEF TransportInv, LinesSound
  <2>3. \A r \in executed' : request'[r].dispatched
    BY <1>1, <1>4 DEF TransportInv, LinesSound
  <2>4. \A r \in Requests : request'[r].told = "answered" => r \in executed'
    BY <1>1 DEF TransportInv, LinesSound
  <2>5. child' \in {"none", "starting"} => executed' = {}
    BY DEF TransportInv, LinesSound
  <2> QED
    BY <2>1, <2>2, <2>3, <2>4, <2>5 DEF LinesSound
<1>6. \A i \in 1..Len(output) : output[i] # 0 => output[i] \in Requests /\ request[output[i]].dispatched
  BY <1>4 DEF TransportInv, LinesSound
<1>7. OnceOnly'
  <2>1. ASSUME NEW i \in 1..Len(output), output[i] # 0, NEW j \in 1..Len(k.input)
        PROVE  k.input[j] # output[i]
    BY <1>6, <2>1 DEF TransportInv, OnceOnly
  <2> QED
    BY <1>1, <2>1 DEF TransportInv, OnceOnly
<1>8. ~cleaned' /\ ~forgot' => Expected'
  <2> SUFFICES ASSUME ~cleaned, ~forgot, NEW x \in Requests,
                      \/ \E i \in 1..Len(k.input) : k.input[i] = x
                      \/ \E i \in 1..Len(output) : output[i] = x
               PROVE  k.request[x].waiting \/ \E i \in 1..Len(abandoned) : abandoned[i] = x
    BY <1>1 DEF Expected
  <2>1. Expected
    BY DEF TransportInv
  <2>2. ASSUME \/ \E i \in 1..Len(input) : input[i] = x
               \/ \E i \in 1..Len(output) : output[i] = x
        PROVE  k.request[x].waiting \/ \E i \in 1..Len(abandoned) : abandoned[i] = x
    <3>1. request[x].waiting \/ \E i \in 1..Len(abandoned) : abandoned[i] = x
      BY <2>1, <2>2 DEF Expected
    <3>2. request[x].dispatched
      <4>1. x # 0
        BY NoRequestIsZero
      <4>2. \A i \in 1..Len(input) : request[input[i]].dispatched
        <5>1. HeldSound(Now)
          BY DEF TransportInv
        <5> QED
          BY <5>1, HeldIs
      <4> QED
        BY <1>6, <2>2, <4>1, <4>2
    <3> QED
      BY <3>1, <3>2
  <2> QED
    BY <2>2
<1>9. HonestChildIsBelieved'
  BY DEF TransportInv, HonestChildIsBelieved
<1>10. cleaned' => queue' = <<>>
  BY <1>1
<1> QED
  BY <1>2, <1>3, <1>5, <1>7, <1>8, <1>9, <1>10 DEF TransportInv

\* Everyone is told of the failure, and nothing is sent any more.
LEMMA FailedSound ==
  ASSUME NEW h, HeldSound(h), WithinLimits(h)
  PROVE  /\ HeldSound(Failed(h)) /\ WithinLimits(Failed(h)) /\ Failed(h).queue = <<>>
         /\ Failed(h).input = h.input
         /\ \A r \in Requests : /\ Failed(h).request[r].dispatched = h.request[r].dispatched
                                /\ Failed(h).request[r].told = "answered" => h.request[r].told = "answered"
<1> DEFINE k == Failed(h)
           no == FALSE
           entry(r) == IF h.request[r].waiting
                     THEN [h.request[r] EXCEPT !.waiting = no, !.told = Outcome(h, r)] ELSE h.request[r]
           rows == [r \in Requests |-> entry(r)]
           none == <<>>
<1>1. h \in HeldRow /\ h.request \in [Requests -> CallRow] /\ no \in BOOLEAN /\ no = FALSE
  BY DEF HeldSound, HeldRow
<1>2. ASSUME NEW r \in Requests, h.request[r].waiting
      PROVE  ToldAs(h, r, Outcome(h, r)).request[r] = entry(r)
  BY <1>1, <1>2 DEF ToldAs, HeldRow
<1>3. k = [h EXCEPT !.request = rows, !.queue = none, !.writing = 0, !.blocked = no]
  <2>1. rows = [r \in Requests |-> IF h.request[r].waiting
                                   THEN ToldAs(h, r, Outcome(h, r)).request[r] ELSE h.request[r]]
    BY <1>2
  <2> HIDE DEF rows
  <2> QED
    BY <2>1 DEF Failed
<1>4. none \in Seq(Requests) /\ none = <<>> /\ Len(none) = 0
  OBVIOUS
<1>5. \A r \in Requests : Outcome(h, r) \in Words /\ Outcome(h, r) # "answered" /\ Outcome(h, r) # "nothing"
                          /\ (Outcome(h, r) = "not_started" => ~h.request[r].dispatched)
  BY DEF Outcome, Words
<1>6. ASSUME NEW r \in Requests
      PROVE  /\ entry(r) \in CallRow /\ ~entry(r).waiting
             /\ entry(r).dispatched = h.request[r].dispatched
             /\ entry(r).told = "answered" => h.request[r].told = "answered"
             /\ entry(r).told = "not_started" => ~entry(r).dispatched
  <2>1. h.request[r] \in CallRow /\ (h.request[r].told = "not_started" => ~h.request[r].dispatched)
    BY <1>1 DEF HeldSound
  <2>2. CASE h.request[r].waiting
    <3> DEFINE w == Outcome(h, r)
    <3>1. entry(r) = [h.request[r] EXCEPT !.waiting = no, !.told = w]
      BY <2>2
    <3>2. w \in Words /\ w # "answered" /\ (w = "not_started" => ~h.request[r].dispatched)
      BY <1>5
    <3> HIDE DEF w, entry, no
    <3>3. /\ entry(r) \in CallRow /\ entry(r).waiting = no /\ entry(r).told = w
          /\ entry(r).dispatched = h.request[r].dispatched
      BY <1>1, <2>1, <3>1, <3>2 DEF CallRow
    <3> QED
      BY <1>1, <3>2, <3>3
  <2>3. CASE ~h.request[r].waiting
    <3>1. entry(r) = h.request[r]
      BY <2>3
    <3> QED
      BY <2>1, <2>3, <3>1
  <2> QED
    BY <2>2, <2>3
<1> HIDE DEF k, no, entry, none
<1>7. rows \in [Requests -> CallRow] /\ \A r \in Requests : rows[r] = entry(r)
  BY <1>6
<1> HIDE DEF rows
<1>8. /\ k \in HeldRow /\ k.request = rows /\ k.queue = none /\ k.input = h.input
  BY <1>1, <1>3, <1>4, <1>7 DEF HeldRow
<1>9. HeldSound(k)
  <2>1. Distinct(none)
    BY <1>4 DEF Distinct
  <2>2. \A i \in 1..Len(h.input) : h.input[i] \in Requests /\ h.request[h.input[i]].dispatched
    BY <1>1 DEF HeldSound, HeldRow
  <2>3. \A r \in Requests : ~rows[r].waiting /\ rows[r].dispatched = h.request[r].dispatched
                            /\ (rows[r].told = "not_started" => ~rows[r].dispatched)
    BY <1>6, <1>7
  <2>4. \A i \in 1..Len(h.input) : rows[h.input[i]].dispatched
    BY <2>2, <2>3
  <2>5. Distinct(h.input)
    BY DEF HeldSound
  <2> QED
    BY <1>4, <1>8, <2>1, <2>3, <2>4, <2>5 DEF HeldSound
<1>10. WithinLimits(k)
  <2>1. Waiters(k) = {}
    BY <1>6, <1>7, <1>8 DEF Waiters
  <2> QED
    BY <1>4, <1>8, <2>1, FS_EmptySet, RequestsAreNumbered DEF WithinLimits
<1> QED
  BY <1>4, <1>6, <1>7, <1>8, <1>9, <1>10 DEF k
\* A transport that is given up: nobody waits, and its late answers are nobody's.
\* The line it was given up for may have been read.
LEMMA GivenUpKeeps ==
  ASSUME TransportInv, NEW k, HeldSound(k), WithinLimits(k), GiveUp(k),
         UNCHANGED <<executed, garbled, overlong, forgot>>, HonestChildIsBelieved',
         distrusted' \in BOOLEAN, output' = output \/ (output # <<>> /\ output' = Tail(output)),
         child' \in ChildStates, child' \in {"none", "starting"} => child \in {"none", "starting"},
         \A r \in Requests : /\ r \in executed => k.request[r].dispatched
                             /\ k.request[r].told = "answered" => request[r].told = "answered",
         \A i \in 1..Len(k.input) : \E j \in 1..Len(input) : k.input[i] = input[j]
  PROVE  TransportInv'
<1> DEFINE f == Failed(k)
           yes == TRUE
           none == <<>>
<1>1. /\ HeldSound(f) /\ WithinLimits(f) /\ f.queue = <<>> /\ f.input = k.input
      /\ \A r \in Requests : /\ f.request[r].dispatched = k.request[r].dispatched
                             /\ f.request[r].told = "answered" => k.request[r].told = "answered"
  BY FailedSound
<1>2. Becomes(f) /\ cleaned' = yes /\ abandoned' = none /\ yes \in BOOLEAN /\ yes = TRUE
      /\ none \in Seq(Requests) /\ Len(none) = 0
  BY DEF GiveUp
<1> HIDE DEF f, yes, none
<1>3. /\ Now' = f /\ request' = f.request /\ queue' = f.queue /\ writing' = f.writing
      /\ blocked' = f.blocked /\ input' = f.input
  BY <1>1, <1>2, BecomesNow DEF HeldSound
<1>4. HeldSound(Now)' /\ WithinLimits(Now)'
  BY <1>1, <1>3
<1>5. output \in Seq(Requests \cup {0}) /\ executed \in SUBSET Requests
  BY DEF TransportInv, PipesTyped
<1>6. PICK d \in {0, 1} :
         /\ output' \in Seq(Requests \cup {0}) /\ Len(output') = Len(output) - d
         /\ Len(output) \in Nat /\ \A i \in 1..Len(output') : output'[i] = output[i + d]
  <2>1. CASE output' = output
    <3>1. Len(output) \in Nat /\ Len(output) = Len(output) - 0 /\ \A i \in 1..Len(output) : i = i + 0
      BY <1>5
    <3> QED
      BY <1>5, <2>1, <3>1
  <2>2. CASE output # <<>> /\ output' = Tail(output)
    BY <1>5, <2>2, TailOf
  <2> QED
    BY <2>1, <2>2
<1>7. \A i \in 1..Len(output') : i + d \in 1..Len(output)
  BY <1>6
<1>8. PipesTyped'
  <2>1. Len(abandoned') <= MaxPending
    BY <1>2, RequestsAreNumbered
  <2> QED
    BY <1>2, <1>6, <2>1 DEF TransportInv, PipesTyped
<1>9. LinesSound'
  <2>1. \A i \in 1..Len(output') : output'[i] = 0 \/ output'[i] \in executed'
    BY <1>6, <1>7 DEF TransportInv, LinesSound
  <2>2. \A i \in 1..Len(output') : output'[i] = 0 => garbled'
    BY <1>6, <1>7 DEF TransportInv, LinesSound
  <2>3. \A r \in executed' : request'[r].dispatched
    BY <1>1, <1>3, <1>5
  <2>4. \A r \in Requests : request'[r].told = "answered" => r \in executed'
    BY <1>1, <1>3 DEF TransportInv, LinesSound
  <2>5. child' \in {"none", "starting"} => executed' = {}
    BY DEF TransportInv, LinesSound
  <2> QED
    BY <2>1, <2>2, <2>3, <2>4, <2>5 DEF LinesSound
<1>10. OnceOnly'
  <2> SUFFICES ASSUME NEW i \in 1..Len(output'), output'[i] # 0
               PROVE  /\ \A j \in 1..Len(input') : input'[j] # output'[i]
                      /\ \A j \in 1..Len(output') : output'[j] = output'[i] => j = i
    BY DEF OnceOnly
  <2>1. i + d \in 1..Len(output) /\ output[i + d] = output'[i]
    BY <1>6, <1>7
  <2>2. /\ \A j \in 1..Len(input) : input[j] # output'[i]
        /\ \A j \in 1..Len(output) : output[j] = output'[i] => j = i + d
    BY <2>1 DEF TransportInv, OnceOnly
  <2>3. \A j \in 1..Len(input') : input'[j] # output'[i]
    BY <1>1, <1>3, <2>2
  <2>4. ASSUME NEW j \in 1..Len(output'), output'[j] = output'[i] PROVE j = i
    <3>1. j + d = i + d
      BY <1>6, <1>7, <2>2, <2>4
    <3> QED
      BY <3>1
  <2> QED
    BY <2>3, <2>4
<1> QED
  BY <1>1, <1>2, <1>3, <1>4, <1>8, <1>9, <1>10 DEF TransportInv

\* The child of a transport that is terminated.
LEMMA TerminatedChild ==
  ASSUME TransportInv, Terminated
  PROVE  child' \in ChildStates /\ (child' \in {"none", "starting"} => child \in {"none", "starting"})
BY DEF Terminated, ChildStates, TransportInv, PipesTyped

\* The transport as it stands is given up.
LEMMA InvalidateKeeps ==
  ASSUME TransportInv, Invalidate(Now), UNCHANGED <<executed, garbled, overlong, forgot>>,
         HonestChildIsBelieved', distrusted' \in BOOLEAN,
         output' = output \/ (output # <<>> /\ output' = Tail(output))
  PROVE  TransportInv'
<1>1. HeldSound(Now) /\ WithinLimits(Now)
  BY DEF TransportInv
<1>2. Now.request = request /\ Now.input = input
  BY <1>1, HeldIs
<1>3. \A r \in Requests : r \in executed => request[r].dispatched
  BY DEF TransportInv, LinesSound
<1>4. GiveUp(Now) /\ Terminated
  BY DEF Invalidate
<1> QED
  BY <1>1, <1>2, <1>3, <1>4, TerminatedChild, GivenUpKeeps
-----------------------------------------------------------------------------
(* The transport's steps.                                                    *)

\* A caller that leaves the queue: the entry of one that never was dispatched.
LEMMA ToldRow ==
  ASSUME HeldSound(Now), NEW r \in Requests, NEW w \in Words, w # "nothing",
         w = "not_started" => ~request[r].dispatched
  PROVE  LET k == ToldAs(Now, r, w) IN
         /\ k.request \in [Requests -> CallRow] /\ k.queue = queue /\ k.input = input
         /\ k.writing = writing /\ k.blocked = blocked /\ k \in HeldRow
         /\ \A q \in Requests : q # r => k.request[q] = request[q]
         /\ k.request[r].dispatched = request[r].dispatched /\ ~k.request[r].waiting
         /\ k.request[r].told = w
<1> DEFINE no == FALSE
           entry == [request[r] EXCEPT !.waiting = no, !.told = w]
           k == ToldAs(Now, r, w)
<1>1. /\ Now \in HeldRow /\ Now.request = request /\ Now.queue = queue /\ Now.input = input
      /\ Now.writing = writing /\ Now.blocked = blocked /\ request \in [Requests -> CallRow]
  BY HeldIs
<1>2. k = [Now EXCEPT !.request = [request EXCEPT ![r] = entry]]
  <2>1. k = [Now EXCEPT !.request[r].waiting = no, !.request[r].told = w]
    BY DEF ToldAs
  <2> QED
    BY <1>1, <2>1 DEF HeldRow
<1>3. no \in BOOLEAN /\ no = FALSE /\ request[r] \in CallRow
  BY <1>1
<1> HIDE DEF no, k
<1>4. entry \in CallRow /\ entry.dispatched = request[r].dispatched /\ entry.waiting = no /\ entry.told = w
  BY <1>3 DEF CallRow
<1> HIDE DEF entry
<1> DEFINE rows == [request EXCEPT ![r] = entry]
<1>5. /\ rows \in [Requests -> CallRow] /\ rows[r] = entry
      /\ \A q \in Requests : q # r => rows[q] = request[q]
  BY <1>1, <1>4
<1> HIDE DEF rows
<1>6. /\ k \in HeldRow /\ k.request = rows /\ k.queue = queue /\ k.input = input
      /\ k.writing = writing /\ k.blocked = blocked
  BY <1>1, <1>2, <1>5 DEF HeldRow, rows
<1> QED
  BY <1>3, <1>4, <1>5, <1>6 DEF k

\* A request that is cancelled in the queue, and the next one that goes.
LEMMA UnqueuedSound ==
  ASSUME TransportInv, NEW r \in Requests, request[r].waiting, ~request[r].dispatched,
         NEW a \in BOOLEAN, Becomes(Unqueued(r, a)), NothingElse,
         UNCHANGED <<output, executed, garbled, overlong, forgot, distrusted>>
  PROVE  TransportInv'
<1> DEFINE w == "not_started"
           t == ToldAs(Now, r, w)
           rest == RemoveFirst(queue, r)
           h == [t EXCEPT !.queue = rest]
           k == Flushed(h, a)
<1>1. HeldSound(Now) /\ WithinLimits(Now) /\ w \in Words /\ w # "nothing" /\ w # "answered"
  BY DEF TransportInv, Words
<1>2. /\ Now.request = request /\ Now.queue = queue /\ request \in [Requests -> CallRow]
      /\ queue \in Seq(Requests) /\ input \in Seq(Requests) /\ Distinct(queue) /\ Distinct(input)
      /\ \A i \in 1..Len(queue) : request[queue[i]].waiting /\ ~request[queue[i]].dispatched
      /\ \A i \in 1..Len(input) : request[input[i]].dispatched
      /\ \A q \in Requests : /\ request[q].waiting => request[q].told = "nothing"
                             /\ request[q].told = "not_started" => ~request[q].dispatched
  BY <1>1, HeldIs
<1>3. /\ t.request \in [Requests -> CallRow] /\ t.queue = queue /\ t.input = input /\ t \in HeldRow
      /\ \A q \in Requests : q # r => t.request[q] = request[q]
      /\ t.request[r].dispatched = request[r].dispatched /\ ~t.request[r].waiting
      /\ t.request[r].told = w
  BY <1>1, ToldRow
<1>4. /\ rest \in Seq(Requests) /\ Len(rest) <= Len(queue) /\ Distinct(rest)
      /\ \A i \in 1..Len(rest) : rest[i] # r /\ \E j \in 1..Len(queue) : rest[i] = queue[j]
  BY <1>2, Removed
<1>5. Becomes(k)
  BY <1>3 DEF Unqueued
<1> HIDE DEF t, rest, w
<1>6. h \in HeldRow /\ h.request = t.request /\ h.queue = rest /\ h.input = input
  BY <1>3, <1>4 DEF HeldRow
<1> HIDE DEF h
<1>7. HeldSound(h)
  <2>1. \A i \in 1..Len(rest) : t.request[rest[i]].waiting /\ ~t.request[rest[i]].dispatched
    <3>1. ASSUME NEW i \in 1..Len(rest)
          PROVE  /\ rest[i] \in Requests /\ rest[i] # r
                 /\ request[rest[i]].waiting /\ ~request[rest[i]].dispatched
      <4>1. PICK j \in 1..Len(queue) : rest[i] = queue[j]
        BY <1>4
      <4>2. request[queue[j]].waiting /\ ~request[queue[j]].dispatched
        BY <1>2
      <4>3. rest[i] # r /\ rest[i] \in Requests
        BY <1>4
      <4> QED
        BY <4>1, <4>2, <4>3
    <3>2. \A q \in Requests : q # r => t.request[q] = request[q]
      BY <1>3
    <3> QED
      BY <3>1, <3>2
  <2>2. \A i \in 1..Len(input) : t.request[input[i]].dispatched
    <3>1. \A i \in 1..Len(input) : input[i] \in Requests
      BY <1>2
    <3> QED
      BY <1>2, <1>3, <3>1
  <2>3. \A q \in Requests : /\ t.request[q].waiting => t.request[q].told = "nothing"
                            /\ t.request[q].told = "not_started" => ~t.request[q].dispatched
    BY <1>2, <1>3
  <2> QED
    BY <1>2, <1>4, <1>6, <2>1, <2>2, <2>3 DEF HeldSound
<1>8. HeldSound(k) /\ Onward(h, k)
  BY <1>7, FlushedOnward
<1> HIDE DEF k
<1>9. WithinLimits(k)
  <2>1. Waiters(k) \in SUBSET Waiters(Now) /\ Waiters(Now) \in SUBSET Requests
    BY <1>2, <1>3, <1>6, <1>8 DEF Waiters, Onward
  <2>2. Cardinality(Waiters(k)) <= Cardinality(Waiters(Now)) /\ Cardinality(Waiters(Now)) \in Nat
        /\ Cardinality(Waiters(k)) \in Nat
    BY <2>1, FewerWait
  <2>3. Len(k.queue) <= Len(rest) /\ Len(rest) \in Nat /\ Len(queue) \in Nat /\ Len(k.queue) \in Nat
    BY <1>2, <1>4, <1>6, <1>8 DEF Onward, HeldSound, HeldRow
  <2> QED
    BY <1>1, <1>2, <1>4, <2>2, <2>3, RequestsAreNumbered DEF WithinLimits
<1>10. \A q \in Requests : /\ request[q].dispatched => k.request[q].dispatched
                           /\ k.request[q].told = "answered" => request[q].told = "answered"
                           /\ request[q].waiting /\ request[q].dispatched => k.request[q].waiting
  BY <1>1, <1>3, <1>6, <1>8 DEF Onward
<1>11. \A i \in 1..Len(k.input) :
          \/ \E j \in 1..Len(input) : k.input[i] = input[j]
          \/ k.request[k.input[i]].waiting /\ ~request[k.input[i]].dispatched
  <2>1. \A i \in 1..Len(k.input) : k.input[i] \in Requests
    BY <1>8 DEF HeldSound, HeldRow
  <2>2. \A q \in Requests : ~t.request[q].dispatched => ~request[q].dispatched
    BY <1>3
  <2> QED
    BY <1>6, <1>8, <2>1, <2>2 DEF Onward
<1>12. cleaned => k.queue = <<>>
  <2>1. cleaned => Len(queue) = 0
    BY <1>2 DEF TransportInv
  <2>2. Len(k.queue) <= Len(queue) /\ Len(k.queue) \in Nat /\ k.queue \in Seq(Requests)
    BY <1>2, <1>4, <1>6, <1>8 DEF Onward, HeldSound, HeldRow
  <2>3. cleaned => Len(k.queue) = 0
    BY <2>1, <2>2
  <2> QED
    BY <2>2, <2>3, EmptySeq
<1>13. child' \in ChildStates /\ (child' \in {"none", "starting"} => child \in {"none", "starting"})
       /\ UNCHANGED <<abandoned, cleaned>>
  BY DEF NothingElse, ends, TransportInv, PipesTyped
<1> QED
  BY <1>5, <1>8, <1>9, <1>10, <1>11, <1>12, <1>13, HeldMoves

\* The write has returned, or the pipe has room again: the next request goes.
LEMMA NextGoes ==
  ASSUME TransportInv, NEW h, HeldSound(h), h.input = input, h.queue = queue,
         \A r \in Requests : /\ h.request[r].dispatched = request[r].dispatched
                             /\ h.request[r].told = request[r].told
                             /\ h.request[r].waiting = request[r].waiting,
         NEW a \in BOOLEAN, Becomes(Flushed(h, a)), NothingElse,
         UNCHANGED <<output, executed, garbled, overlong, forgot, distrusted>>
  PROVE  TransportInv'
<1> DEFINE k == Flushed(h, a)
<1>1. HeldSound(Now) /\ WithinLimits(Now) /\ Now.request = request /\ Now.queue = queue
      /\ queue \in Seq(Requests)
  BY HeldIs DEF TransportInv
<1>2. HeldSound(k) /\ Onward(h, k) /\ Becomes(k)
  BY FlushedOnward
<1> HIDE DEF k
<1>3. k.queue \in Seq(Requests) /\ Len(k.queue) <= Len(queue) /\ Len(k.queue) \in Nat /\ Len(queue) \in Nat
  BY <1>1, <1>2 DEF HeldSound, HeldRow, Onward
<1>4. WithinLimits(k)
  <2>1. Waiters(k) = Waiters(Now)
    BY <1>1, <1>2 DEF Waiters, Onward
  <2> QED
    BY <1>1, <1>3, <2>1, RequestsAreNumbered DEF WithinLimits
<1>5. cleaned => k.queue = <<>>
  <2>1. cleaned => Len(queue) = 0
    BY DEF TransportInv
  <2>2. cleaned => Len(k.queue) = 0
    BY <1>3, <2>1
  <2> QED
    BY <1>3, <2>2, EmptySeq
<1>6. child' \in ChildStates /\ (child' \in {"none", "starting"} => child \in {"none", "starting"})
       /\ UNCHANGED <<abandoned, cleaned>>
  BY DEF NothingElse, ends, TransportInv, PipesTyped
<1>7. \A r \in Requests : /\ request[r].dispatched => k.request[r].dispatched
                          /\ k.request[r].told = "answered" => request[r].told = "answered"
                          /\ request[r].waiting /\ request[r].dispatched => k.request[r].waiting
  BY <1>2 DEF Onward
<1>8. \A i \in 1..Len(k.input) :
         \/ \E j \in 1..Len(input) : k.input[i] = input[j]
         \/ k.request[k.input[i]].waiting /\ ~request[k.input[i]].dispatched
  <2>1. \A i \in 1..Len(k.input) : k.input[i] \in Requests
    BY <1>2 DEF HeldSound, HeldRow
  <2> QED
    BY <1>2, <2>1 DEF Onward
<1> QED
  BY <1>2, <1>4, <1>5, <1>6, <1>7, <1>8, HeldMoves
\* A write that has returned leaves its request sent.
LEMMA WriteReturnsKeeps == ASSUME TransportInv, WriteReturns PROVE TransportInv'
<1> DEFINE yes == TRUE
           entry == [request[writing] EXCEPT !.written = yes]
           rows == [request EXCEPT ![writing] = entry]
           h == [Now EXCEPT !.writing = 0, !.request = rows]
<1>1. /\ HeldSound(Now) /\ writing # 0
  BY DEF TransportInv, WriteReturns
<1>2. /\ Now.request = request /\ Now.queue = queue /\ Now.input = input /\ Now \in HeldRow
      /\ request \in [Requests -> CallRow] /\ writing \in Requests
      /\ \A i \in 1..Len(queue) : request[queue[i]].waiting /\ ~request[queue[i]].dispatched
      /\ \A i \in 1..Len(input) : request[input[i]].dispatched
      /\ \A r \in Requests : /\ request[r].waiting => request[r].told = "nothing"
                             /\ request[r].told = "not_started" => ~request[r].dispatched
      /\ Distinct(queue) /\ Distinct(input) /\ queue \in Seq(Requests) /\ input \in Seq(Requests)
  BY <1>1, HeldIs
<1>3. PICK a \in BOOLEAN : Becomes(Flushed(h, a))
  <2>1. PICK a \in BOOLEAN :
           Becomes(Flushed([Now EXCEPT !.writing = 0, !.request[writing].written = yes], a))
    BY DEF WriteReturns
  <2>2. [Now EXCEPT !.writing = 0, !.request[writing].written = yes] = h
    BY <1>2 DEF HeldRow
  <2> QED
    BY <2>1, <2>2
<1>4. yes \in BOOLEAN
  OBVIOUS
<1> HIDE DEF yes
<1>5. /\ entry \in CallRow /\ entry.waiting = request[writing].waiting
      /\ entry.dispatched = request[writing].dispatched /\ entry.told = request[writing].told
  BY <1>2, <1>4 DEF CallRow
<1> HIDE DEF entry
<1>6. /\ rows \in [Requests -> CallRow]
      /\ \A r \in Requests : /\ rows[r].dispatched = request[r].dispatched
                             /\ rows[r].told = request[r].told
                             /\ rows[r].waiting = request[r].waiting
  BY <1>2, <1>5
<1> HIDE DEF rows
<1>7. h \in HeldRow /\ h.request = rows /\ h.queue = queue /\ h.input = input
  BY <1>2, <1>6 DEF HeldRow
<1> HIDE DEF h
<1>8. HeldSound(h)
  <2>1. /\ \A i \in 1..Len(queue) : queue[i] \in Requests
        /\ \A i \in 1..Len(input) : input[i] \in Requests
    BY <1>2
  <2>2. \A i \in 1..Len(queue) : rows[queue[i]].waiting /\ ~rows[queue[i]].dispatched
    BY <1>2, <1>6, <2>1
  <2>3. \A i \in 1..Len(input) : rows[input[i]].dispatched
    BY <1>2, <1>6, <2>1
  <2>4. \A r \in Requests : /\ rows[r].waiting => rows[r].told = "nothing"
                            /\ rows[r].told = "not_started" => ~rows[r].dispatched
    BY <1>2, <1>6
  <2> QED
    BY <1>2, <1>7, <2>2, <2>3, <2>4 DEF HeldSound
<1>9. NothingElse /\ UNCHANGED <<output, executed, garbled, overlong, forgot, distrusted>>
  BY DEF WriteReturns, StillTrusted
<1> QED
  BY <1>3, <1>6, <1>7, <1>8, <1>9, NextGoes
\* The pipe that has room again takes the next request.
LEMMA DrainKeeps == ASSUME TransportInv, Drain PROVE TransportInv'
<1> DEFINE no == FALSE
           h == [Now EXCEPT !.blocked = no]
<1>1. HeldSound(Now)
  BY DEF TransportInv
<1>2. PICK a \in BOOLEAN : Becomes(Flushed(h, a))
  BY DEF Drain
<1>3. no \in BOOLEAN
  OBVIOUS
<1> HIDE DEF no
<1>4. h \in HeldRow /\ h.request = request /\ h.queue = queue /\ h.input = input
      /\ Now.request = request /\ Now.queue = queue /\ Now.input = input
  BY <1>1, <1>3, HeldIs DEF HeldRow
<1> HIDE DEF h
<1>5. HeldSound(h)
  BY <1>1, <1>4 DEF HeldSound
<1>6. NothingElse /\ UNCHANGED <<output, executed, garbled, overlong, forgot, distrusted>>
  BY DEF Drain, StillTrusted
<1> QED
  BY <1>2, <1>4, <1>5, <1>6, NextGoes
\* A line that was read leaves the rest as it was.
LEMMA LineRead ==
  ASSUME TransportInv, output # <<>>, output' = Tail(output)
  PROVE  /\ output' \in Seq(Requests \cup {0}) /\ Head(output) \in Requests \cup {0}
         /\ 1 \in 1..Len(output) /\ Head(output) = output[1]
         /\ \A i \in 1..Len(output') : i + 1 \in 1..Len(output) /\ output'[i] = output[i + 1]
         /\ \A i \in 1..Len(output') : output'[i] # 0 => output'[i] # Head(output)
<1>1. output \in Seq(Requests \cup {0})
  BY DEF TransportInv, PipesTyped
<1>2. /\ output' \in Seq(Requests \cup {0}) /\ Head(output) \in Requests \cup {0}
      /\ Head(output) = output[1] /\ Len(output') = Len(output) - 1 /\ Len(output) \in Nat \ {0}
      /\ \A i \in 1..Len(output') : output'[i] = output[i + 1]
  BY <1>1, TailOf
<1>3. 1 \in 1..Len(output) /\ \A i \in 1..Len(output') : i + 1 \in 1..Len(output) /\ i + 1 # 1
  BY <1>2
<1>4. \A i \in 1..Len(output') : output'[i] # 0 => output'[i] # Head(output)
  <2>1. OnceOnly
    BY DEF TransportInv
  <2> QED
    BY <1>2, <1>3, <2>1 DEF OnceOnly
<1> QED
  BY <1>2, <1>3, <1>4

\* A callback that changes none of what it holds but a caller that is told, and
\* after which nothing comes out that was not to come.
LEMMA CallerTold ==
  ASSUME TransportInv, NEW r \in Requests, NEW w \in Words, w # "nothing", w # "not_started",
         request[r].waiting, request[r].dispatched, Becomes(ToldAs(Now, r, w)),
         UNCHANGED <<cleaned, child, executed, garbled, overlong, distrusted>>, forgot' \in BOOLEAN,
         forgot => forgot',
         abandoned' \in Seq(Requests), Len(abandoned') <= MaxPending,
         output' \in Seq(Requests \cup {0}),
         \A i \in 1..Len(output') : \E j \in 1..Len(output) : output'[i] = output[j],
         w = "answered" => r \in executed,
         OnceOnly' , ~cleaned /\ ~forgot' => Expected'
  PROVE  TransportInv'
<1> DEFINE k == ToldAs(Now, r, w)
<1>0. \/ w # "not_started"
      \/ ~request[r].dispatched
  OBVIOUS
<1>1. HeldSound(Now) /\ WithinLimits(Now)
  BY DEF TransportInv
<1>2. /\ Now.request = request /\ Now.queue = queue /\ request \in [Requests -> CallRow]
      /\ queue \in Seq(Requests) /\ input \in Seq(Requests) /\ Distinct(queue) /\ Distinct(input)
      /\ \A i \in 1..Len(queue) : request[queue[i]].waiting /\ ~request[queue[i]].dispatched
      /\ \A i \in 1..Len(input) : request[input[i]].dispatched
      /\ \A q \in Requests : /\ request[q].waiting => request[q].told = "nothing"
                             /\ request[q].told = "not_started" => ~request[q].dispatched
  BY <1>1, HeldIs
<1>3. /\ k.queue = queue /\ k.input = input /\ k \in HeldRow
      /\ \A q \in Requests : q # r => k.request[q] = request[q]
      /\ k.request[r].dispatched = request[r].dispatched /\ ~k.request[r].waiting
      /\ k.request[r].told = w
  BY <1>0, <1>1, ToldRow, ZenonT(40)
<1> HIDE DEF k
<1>4. /\ Now' = k /\ request' = k.request /\ queue' = queue /\ input' = input
  BY <1>3, BecomesNow DEF k
<1>5. HeldSound(k)
  <2>1. \A i \in 1..Len(queue) : queue[i] \in Requests /\ queue[i] # r
    BY <1>2
  <2>2. \A i \in 1..Len(queue) : k.request[queue[i]].waiting /\ ~k.request[queue[i]].dispatched
    BY <1>2, <1>3, <2>1
  <2>3. \A i \in 1..Len(input) : k.request[input[i]].dispatched
    <3>1. \A i \in 1..Len(input) : input[i] \in Requests
      BY <1>2
    <3> QED
      BY <1>2, <1>3, <3>1
  <2>4. \A q \in Requests : /\ k.request[q].waiting => k.request[q].told = "nothing"
                            /\ k.request[q].told = "not_started" => ~k.request[q].dispatched
    BY <1>2, <1>3
  <2> QED
    BY <1>2, <1>3, <2>2, <2>3, <2>4 DEF HeldSound
<1>6. WithinLimits(k)
  <2>1. Waiters(k) \in SUBSET Waiters(Now) /\ Waiters(Now) \in SUBSET Requests
    BY <1>2, <1>3 DEF Waiters
  <2>2. Cardinality(Waiters(k)) <= Cardinality(Waiters(Now)) /\ Cardinality(Waiters(Now)) \in Nat
        /\ Cardinality(Waiters(k)) \in Nat
    BY <2>1, FewerWait
  <2> QED
    BY <1>1, <1>2, <1>3, <2>2, RequestsAreNumbered DEF WithinLimits
<1>7. HeldSound(Now)' /\ WithinLimits(Now)'
  BY <1>4, <1>5, <1>6
<1>8. PipesTyped'
  BY DEF TransportInv, PipesTyped
<1>9. LinesSound'
  <2>1. \A i \in 1..Len(output') : output'[i] = 0 \/ output'[i] \in executed'
    BY DEF TransportInv, LinesSound
  <2>2. \A i \in 1..Len(output') : output'[i] = 0 => garbled'
    BY DEF TransportInv, LinesSound
  <2>3. \A q \in executed' : request'[q].dispatched
    <3>1. \A q \in executed : q \in Requests /\ request[q].dispatched
      BY DEF TransportInv, LinesSound, PipesTyped
    <3> QED
      BY <1>3, <1>4, <3>1
  <2>4. \A q \in Requests : request'[q].told = "answered" => q \in executed'
    BY <1>3, <1>4 DEF TransportInv, LinesSound
  <2>5. child' \in {"none", "starting"} => executed' = {}
    BY DEF TransportInv, LinesSound
  <2> QED
    BY <2>1, <2>2, <2>3, <2>4, <2>5 DEF LinesSound
<1>10. HonestChildIsBelieved' /\ (cleaned' => queue' = <<>>)
  BY <1>4 DEF TransportInv, HonestChildIsBelieved
<1> QED
  BY <1>7, <1>8, <1>9, <1>10 DEF TransportInv
\* The held part changes at most by lines the child has taken from its input.
LEMMA PipesMove ==
  ASSUME TransportInv, UNCHANGED <<request, queue, writing, blocked, cleaned>>,
         input' \in Seq(Requests), Distinct(input'),
         \A i \in 1..Len(input') : \E j \in 1..Len(input) : input'[i] = input[j],
         PipesTyped', LinesSound', OnceOnly', ~cleaned /\ ~forgot' => Expected',
         HonestChildIsBelieved'
  PROVE  TransportInv'
<1>1. HeldSound(Now) /\ WithinLimits(Now)
  BY DEF TransportInv
<1>2. /\ Now.request = request /\ Now.queue = queue /\ request \in [Requests -> CallRow]
      /\ Now.writing = writing /\ Now.blocked = blocked /\ Now.input = input /\ Now \in HeldRow
      /\ \A i \in 1..Len(input) : request[input[i]].dispatched
  BY <1>1, HeldIs
<1> DEFINE k == [Now EXCEPT !.input = input']
<1>3. /\ k \in HeldRow /\ k.request = request /\ k.queue = queue /\ k.writing = writing
      /\ k.blocked = blocked /\ k.input = input'
  BY <1>2 DEF HeldRow
<1>4. Now' = k
  <2>1. Now' = [request |-> request, queue |-> queue, writing |-> writing,
                blocked |-> blocked, input |-> input']
    BY DEF Now
  <2> HIDE DEF k
  <2>2. k = [request |-> k.request, queue |-> k.queue, writing |-> k.writing,
             blocked |-> k.blocked, input |-> k.input]
    BY <1>3 DEF HeldRow
  <2> QED
    BY <1>3, <2>1, <2>2
<1> HIDE DEF k
<1>5. HeldSound(k)
  <2>1. \A i \in 1..Len(input') : request[input'[i]].dispatched
    BY <1>2
  <2>2. /\ Distinct(queue)
        /\ \A i \in 1..Len(queue) : request[queue[i]].waiting /\ ~request[queue[i]].dispatched
        /\ \A r \in Requests : /\ request[r].waiting => request[r].told = "nothing"
                               /\ request[r].told = "not_started" => ~request[r].dispatched
    BY <1>1, HeldIs
  <2> QED
    BY <1>3, <2>1, <2>2 DEF HeldSound
<1>6. WithinLimits(k)
  BY <1>1, <1>2, <1>3 DEF WithinLimits, Waiters
<1>7. HeldSound(Now)' /\ WithinLimits(Now)'
  BY <1>4, <1>5, <1>6
<1> QED
  BY <1>7 DEF TransportInv
\* A line is an answer, a late one, or the end of the trust in the child.
LEMMA HandleLineKeeps == ASSUME TransportInv, HandleLine PROVE TransportInv'
<1> DEFINE id == Head(output)
<1>1. output # <<>> /\ output' = Tail(output) /\ UNCHANGED <<executed, garbled, overlong, forgot>>
  BY DEF HandleLine
<1>2. /\ output' \in Seq(Requests \cup {0}) /\ id \in Requests \cup {0}
      /\ 1 \in 1..Len(output) /\ id = output[1]
      /\ \A i \in 1..Len(output') : i + 1 \in 1..Len(output) /\ output'[i] = output[i + 1]
      /\ \A i \in 1..Len(output') : output'[i] # 0 => output'[i] # id
  BY <1>1, LineRead
<1>3. HeldSound(Now) /\ PipesTyped /\ LinesSound /\ OnceOnly /\ (~cleaned /\ ~forgot => Expected)
      /\ HonestChildIsBelieved
  BY DEF TransportInv
<1>4. input \in Seq(Requests) /\ Distinct(input) /\ request \in [Requests -> CallRow]
  BY <1>3, HeldIs
<1>5. ASSUME input' = input PROVE OnceOnly'
  <2> SUFFICES ASSUME NEW i \in 1..Len(output'), output'[i] # 0
               PROVE  /\ \A j \in 1..Len(input) : input[j] # output'[i]
                      /\ \A j \in 1..Len(output') : output'[j] = output'[i] => j = i
    BY <1>5 DEF OnceOnly
  <2>1. i + 1 \in 1..Len(output) /\ output[i + 1] = output'[i]
    BY <1>2
  <2>2. /\ \A j \in 1..Len(input) : input[j] # output'[i]
        /\ \A j \in 1..Len(output) : output[j] = output'[i] => j = i + 1
    BY <1>3, <2>1 DEF OnceOnly
  <2>3. \A j \in 1..Len(output') : output'[j] = output'[i] => j + 1 = i + 1
    BY <1>2, <2>2
  <2> QED
    BY <2>2, <2>3
<1> HIDE DEF id
<1>6. ASSUME child' = child, request' = request PROVE LinesSound'
  <2>1. \A i \in 1..Len(output') : output'[i] = 0 \/ output'[i] \in executed'
    BY <1>1, <1>2, <1>3 DEF LinesSound
  <2>2. \A i \in 1..Len(output') : output'[i] = 0 => garbled'
    BY <1>1, <1>2, <1>3 DEF LinesSound
  <2> QED
    BY <1>1, <1>3, <1>6, <2>1, <2>2 DEF LinesSound
<1>7. CASE cleaned
  <2>1. UNCHANGED <<request, queue, writing, blocked, input, abandoned, cleaned, child, distrusted>>
    BY <1>7 DEF HandleLine, heldVars, NothingElse, ends
  <2>2. PipesTyped'
    BY <1>1, <1>2, <1>3, <2>1 DEF PipesTyped
  <2>3. \A i \in 1..Len(input') : \E j \in 1..Len(input) : input'[i] = input[j]
    BY <2>1
  <2>4. HonestChildIsBelieved'
    BY <1>1, <1>3, <2>1 DEF HonestChildIsBelieved
  <2> QED
    BY <1>4, <1>5, <1>6, <1>7, <2>1, <2>2, <2>3, <2>4, PipesMove
<1>8. CASE ~cleaned /\ id \in WaitingRequests /\ id \notin overlong
  <2> DEFINE w == "answered"
  <2>1. Becomes(ToldAs(Now, id, w)) /\ UNCHANGED <<abandoned, cleaned, child, distrusted>>
    BY <1>8 DEF HandleLine, NothingElse, ends, id
  <2>2. id \in Requests /\ request[id].waiting /\ id # 0
    BY <1>8, NoRequestIsZero DEF WaitingRequests
  <2>3. id \in executed /\ request[id].dispatched
    BY <1>2, <1>3, <2>2 DEF LinesSound
  <2>4. w \in Words /\ w # "nothing" /\ w # "not_started"
    BY DEF Words
  <2>5. /\ ToldAs(Now, id, w) \in HeldRow /\ ToldAs(Now, id, w).input = input
        /\ \A q \in Requests : q # id => ToldAs(Now, id, w).request[q] = request[q]
    BY <1>3, <2>2, <2>4, ToldRow
  <2> HIDE DEF w
  <2>6. input' = input /\ request' = ToldAs(Now, id, w).request
    BY <2>1, <2>5, BecomesNow
  <2>7. ASSUME ~forgot' PROVE Expected'
    <3> SUFFICES ASSUME NEW x \in Requests,
                        \/ \E i \in 1..Len(input) : input[i] = x
                        \/ \E i \in 1..Len(output') : output'[i] = x
                 PROVE  request'[x].waiting \/ \E i \in 1..Len(abandoned) : abandoned[i] = x
      BY <2>1, <2>6 DEF Expected
    <3>1. x # id
      <4>1. \A i \in 1..Len(input) : input[i] # id
        BY <1>2, <1>3, <2>2 DEF OnceOnly
      <4>2. x # 0
        BY NoRequestIsZero
      <4> QED
        BY <1>2, <4>1, <4>2
    <3>2. \/ \E i \in 1..Len(input) : input[i] = x
          \/ \E i \in 1..Len(output) : output[i] = x
      BY <1>2
    <3>3. request[x].waiting \/ \E i \in 1..Len(abandoned) : abandoned[i] = x
      BY <1>1, <1>3, <1>8, <2>7, <3>2 DEF Expected
    <3> QED
      BY <2>5, <2>6, <3>1, <3>3
  <2>8. abandoned' \in Seq(Requests) /\ Len(abandoned') <= MaxPending /\ forgot' \in BOOLEAN
        /\ (forgot => forgot')
    BY <1>1, <1>3, <2>1 DEF PipesTyped
  <2>9. \A i \in 1..Len(output') : \E j \in 1..Len(output) : output'[i] = output[j]
    BY <1>2
  <2>10. OnceOnly'
    BY <1>5, <2>6
  <2> QED
    BY <1>1, <1>2, <2>1, <2>2, <2>3, <2>4, <2>7, <2>8, <2>9, <2>10, CallerTold
<1>9. CASE ~cleaned /\ id \notin WaitingRequests /\ id \in ToSet(abandoned) /\ id \notin overlong
  <2>1. /\ abandoned' = RemoveFirst(abandoned, id)
        /\ UNCHANGED <<request, queue, writing, blocked, input, cleaned, child, distrusted>>
    BY <1>9 DEF HandleLine, heldVars, ends, id
  <2>2. abandoned \in Seq(Requests) /\ Len(abandoned) <= MaxPending
    BY <1>3 DEF PipesTyped
  <2>3. /\ abandoned' \in Seq(Requests) /\ Len(abandoned') <= Len(abandoned)
        /\ \A j \in 1..Len(abandoned) : abandoned[j] # id =>
              \E i \in 1..Len(abandoned') : abandoned'[i] = abandoned[j]
    <3> DEFINE left == RemoveFirst(abandoned, id)
    <3>1. /\ left \in Seq(Requests) /\ Len(left) <= Len(abandoned)
          /\ \A j \in 1..Len(abandoned) : abandoned[j] # id => \E i \in 1..Len(left) : left[i] = abandoned[j]
      BY <2>2, Removed
    <3> HIDE DEF left
    <3>2. abandoned' = left
      BY <2>1 DEF left
    <3> QED
      BY <3>1, <3>2
  <2>4. PipesTyped'
    <3>1. Len(abandoned') \in Nat /\ Len(abandoned) \in Nat /\ MaxPending \in Nat
      BY <2>2, <2>3, RequestsAreNumbered
    <3>2. Len(abandoned') <= MaxPending
      BY <2>2, <2>3, <3>1
    <3> QED
      BY <1>1, <1>2, <1>3, <2>1, <2>3, <3>2 DEF PipesTyped
  <2>5. ASSUME ~forgot' PROVE Expected'
    <3> SUFFICES ASSUME NEW x \in Requests,
                        \/ \E i \in 1..Len(input) : input[i] = x
                        \/ \E i \in 1..Len(output') : output'[i] = x
                 PROVE  request[x].waiting \/ \E i \in 1..Len(abandoned') : abandoned'[i] = x
      BY <2>1 DEF Expected
    <3>1. x # id
      <4>1. id # 0
        BY <1>9, <2>2, NoRequestIsZero DEF ToSet
      <4>2. \A i \in 1..Len(input) : input[i] # id
        BY <1>2, <1>3, <4>1 DEF OnceOnly
      <4>3. x # 0
        BY NoRequestIsZero
      <4> QED
        BY <1>2, <4>2, <4>3
    <3>2. \/ \E i \in 1..Len(input) : input[i] = x
          \/ \E i \in 1..Len(output) : output[i] = x
      BY <1>2
    <3>3. request[x].waiting \/ \E i \in 1..Len(abandoned) : abandoned[i] = x
      BY <1>1, <1>3, <1>9, <2>5, <3>2 DEF Expected
    <3> QED
      BY <2>3, <3>1, <3>3
  <2>6. \A i \in 1..Len(input') : \E j \in 1..Len(input) : input'[i] = input[j]
    BY <2>1
  <2>7. HonestChildIsBelieved'
    BY <1>1, <1>3, <2>1 DEF HonestChildIsBelieved
  <2> QED
    BY <1>4, <1>5, <1>6, <2>1, <2>4, <2>5, <2>6, <2>7, PipesMove
<1>10. CASE ~cleaned /\ (id \in overlong \/ (id \notin WaitingRequests /\ id \notin ToSet(abandoned)))
  <2>1. Invalidate(Now) /\ distrusted' = TRUE
    BY <1>10 DEF HandleLine, id
  <2>2. garbled \/ forgot \/ overlong # {}
    <3>0. CASE id \in overlong
      BY <3>0
    <3>1. CASE id = 0
      BY <1>2, <1>3, <3>1 DEF LinesSound
    <3>2. CASE id # 0 /\ id \notin overlong
      <4>0. ~cleaned /\ id \notin WaitingRequests /\ id \notin ToSet(abandoned)
        BY <1>10, <3>2
      <4>1. id \in Requests /\ ~request[id].waiting
        BY <1>2, <4>0, <3>2 DEF WaitingRequests
      <4>2. abandoned \in Seq(Requests)
        BY <1>3 DEF PipesTyped
      <4>3. \A i \in 1..Len(abandoned) : abandoned[i] # id
        BY <4>0, <4>2 DEF ToSet
      <4> QED
        BY <1>2, <1>3, <4>0, <4>1, <4>3 DEF Expected
    <3> QED
      BY <3>0, <3>1, <3>2
  <2>3. HonestChildIsBelieved'
    BY <1>1, <2>2 DEF HonestChildIsBelieved
  <2>4. distrusted' \in BOOLEAN
    BY <2>1
  <2> QED
    BY <1>1, <2>1, <2>3, <2>4, InvalidateKeeps
<1> QED
  BY <1>7, <1>8, <1>9, <1>10
\* The child or the caller moves on, and the input may be lost.
LEMMA EndsMove ==
  ASSUME TransportInv,
         UNCHANGED <<request, queue, writing, blocked, abandoned, cleaned, output, executed, garbled,
                     overlong, forgot, distrusted>>,
         input' = input \/ input' = <<>>,
         child' \in ChildStates, child' \in {"none", "starting"} => child \in {"none", "starting"}
  PROVE  TransportInv'
<1>1. HeldSound(Now) /\ PipesTyped /\ LinesSound /\ OnceOnly /\ (~cleaned /\ ~forgot => Expected)
      /\ HonestChildIsBelieved
  BY DEF TransportInv
<1>2. input \in Seq(Requests) /\ Distinct(input)
  BY <1>1, HeldIs
<1>3. /\ input' \in Seq(Requests) /\ Distinct(input')
      /\ \A i \in 1..Len(input') : \E j \in 1..Len(input) : input'[i] = input[j]
  <2>1. CASE input' = input
    BY <1>2, <2>1
  <2>2. CASE input' = <<>>
    BY <2>2 DEF Distinct
  <2> QED
    BY <2>1, <2>2
<1>4. PipesTyped' /\ LinesSound'
  BY <1>1 DEF PipesTyped, LinesSound
<1>5. OnceOnly'
  BY <1>1, <1>3 DEF OnceOnly
<1>6. ~cleaned /\ ~forgot' => Expected'
  BY <1>1, <1>3 DEF Expected
<1>7. HonestChildIsBelieved'
  BY <1>1 DEF HonestChildIsBelieved
<1> QED
  BY <1>3, <1>4, <1>5, <1>6, <1>7, PipesMove
\* A caller that waited too long leaves the queue, or the transport is given up.
LEMMA TimeoutRequestKeeps ==
  ASSUME TransportInv, NEW r \in Requests, TimeoutRequest(r) PROVE TransportInv'
<1>1. /\ request[r].waiting /\ UNCHANGED <<output, executed, garbled, overlong, forgot, distrusted>>
  BY DEF TimeoutRequest, WaitingRequests, StillTrusted
<1>2. CASE request[r].dispatched
  <2>1. Invalidate(Now)
    BY <1>2 DEF TimeoutRequest
  <2>2. HonestChildIsBelieved' /\ distrusted' \in BOOLEAN
    BY <1>1 DEF TransportInv, HonestChildIsBelieved, PipesTyped
  <2> QED
    BY <1>1, <2>1, <2>2, InvalidateKeeps
<1>3. CASE ~request[r].dispatched
  <2>1. PICK a \in BOOLEAN : Becomes(Unqueued(r, a)) /\ NothingElse
    BY <1>3 DEF TimeoutRequest
  <2> QED
    BY <1>1, <1>3, <2>1, UnqueuedSound
<1> QED
  BY <1>2, <1>3
\* A caller that no longer waits leaves its late answer to be thrown away.
LEMMA AbortRequestKeeps ==
  ASSUME TransportInv, NEW r \in Requests, AbortRequest(r) PROVE TransportInv'
<1>1. /\ request[r].waiting /\ UNCHANGED <<output, executed, garbled, overlong, distrusted>>
  BY DEF AbortRequest, WaitingRequests
<1>2. CASE ~request[r].dispatched
  <2>1. PICK a \in BOOLEAN : Becomes(Unqueued(r, a)) /\ NothingElse /\ UNCHANGED forgot
    BY <1>2 DEF AbortRequest
  <2> QED
    BY <1>1, <1>2, <2>1, UnqueuedSound
<1>3. CASE request[r].dispatched /\ ~request[r].written
  <2>1. Invalidate(Now) /\ UNCHANGED forgot
    BY <1>3 DEF AbortRequest
  <2>2. HonestChildIsBelieved' /\ distrusted' \in BOOLEAN
    BY <1>1, <2>1 DEF TransportInv, HonestChildIsBelieved, PipesTyped
  <2> QED
    BY <1>1, <2>1, <2>2, InvalidateKeeps
<1>4. CASE request[r].dispatched /\ request[r].written
  <2> DEFINE w == "unknown"
             full == Len(abandoned) >= MaxPending
             all == Append(abandoned, r)
  <2>1. /\ Becomes(ToldAs(Now, r, w)) /\ abandoned' = Abandoned(r)
        /\ forgot' = (forgot \/ full)
        /\ UNCHANGED <<cleaned, child>>
    BY <1>4 DEF AbortRequest, ends
  <2>2. HeldSound(Now) /\ PipesTyped /\ OnceOnly /\ (~cleaned /\ ~forgot => Expected)
    BY DEF TransportInv
  <2>3. /\ abandoned \in Seq(Requests) /\ Len(abandoned) <= MaxPending /\ forgot \in BOOLEAN
        /\ output \in Seq(Requests \cup {0})
    BY <2>2 DEF PipesTyped
  <2>4. w \in Words /\ w # "nothing" /\ w # "not_started" /\ w # "answered"
    BY DEF Words
  <2>5. /\ ToldAs(Now, r, w) \in HeldRow /\ ToldAs(Now, r, w).input = input
        /\ \A q \in Requests : q # r => ToldAs(Now, r, w).request[q] = request[q]
    BY <2>2, <2>4, ToldRow
  <2> HIDE DEF w
  <2>6. input' = input /\ request' = ToldAs(Now, r, w).request
    BY <2>1, <2>5, BecomesNow
  <2>7. /\ all \in Seq(Requests) /\ Len(all) = Len(abandoned) + 1 /\ Len(abandoned) \in Nat
        /\ \A i \in 1..Len(all) : all[i] = IF i = Len(abandoned) + 1 THEN r ELSE abandoned[i]
    BY <2>3, AppendedTo
  <2>8. abandoned' = IF Len(all) > MaxPending THEN Tail(all) ELSE all
    BY <2>1 DEF Abandoned
  <2> HIDE DEF all
  <2>9. abandoned' \in Seq(Requests) /\ Len(abandoned') <= MaxPending
    <3>1. CASE Len(all) > MaxPending
      <4>1. all # <<>>
        BY <2>7
      <4>2. Tail(all) \in Seq(Requests) /\ Len(Tail(all)) = Len(all) - 1
        BY <2>7, <4>1, TailOf
      <4> QED
        BY <2>3, <2>7, <2>8, <3>1, <4>2, RequestsAreNumbered
    <3>2. CASE ~(Len(all) > MaxPending)
      BY <2>7, <2>8, <3>2, RequestsAreNumbered
    <3> QED
      BY <3>1, <3>2
  <2>10. ~full => abandoned' = all
    BY <2>3, <2>7, <2>8, RequestsAreNumbered
  <2>11. ASSUME ~cleaned, ~forgot' PROVE Expected'
    <3> SUFFICES ASSUME NEW x \in Requests,
                        \/ \E i \in 1..Len(input) : input[i] = x
                        \/ \E i \in 1..Len(output) : output[i] = x
                 PROVE  request'[x].waiting \/ \E i \in 1..Len(all) : all[i] = x
      <4>1. ~full /\ output' = output
        BY <1>1, <2>1, <2>11
      <4>2. abandoned' = all
        BY <2>10, <4>1
      <4> QED
        BY <2>6, <4>1, <4>2 DEF Expected
    <3>1. request[x].waiting \/ \E i \in 1..Len(abandoned) : abandoned[i] = x
      BY <2>1, <2>2, <2>11 DEF Expected
    <3>2. \A i \in 1..Len(abandoned) : i \in 1..Len(all) /\ i # Len(abandoned) + 1
      BY <2>7
    <3>3. Len(all) \in 1..Len(all) /\ all[Len(all)] = r
      BY <2>7
    <3>4. CASE x = r
      BY <3>3, <3>4
    <3>5. CASE x # r
      BY <2>5, <2>6, <2>7, <3>1, <3>2, <3>5
    <3> QED
      BY <3>4, <3>5
  <2>12. OnceOnly'
    BY <1>1, <2>2, <2>6 DEF OnceOnly
  <2>13. forgot' \in BOOLEAN /\ (forgot => forgot') /\ output' \in Seq(Requests \cup {0})
         /\ \A i \in 1..Len(output') : \E j \in 1..Len(output) : output'[i] = output[j]
    BY <1>1, <2>1, <2>3
  <2> QED
    BY <1>1, <1>4, <2>1, <2>4, <2>9, <2>11, <2>12, <2>13, CallerTold
<1> QED
  BY <1>2, <1>3, <1>4
\* The transport that is closed is given up.
LEMMA CloseKeeps == ASSUME TransportInv, Close PROVE TransportInv'
<1>1. UNCHANGED <<output, executed, garbled, overlong, forgot, distrusted>>
  BY DEF Close, StillTrusted
<1>2. CASE cleaned
  <2>1. UNCHANGED <<request, queue, writing, blocked, input, abandoned, cleaned>>
    BY <1>2 DEF Close, heldVars
  <2>2. child' = child \/ Terminated
    BY <1>2 DEF Close
  <2>3. child' \in ChildStates /\ (child' \in {"none", "starting"} => child \in {"none", "starting"})
    BY <2>2, TerminatedChild DEF TransportInv, PipesTyped
  <2> QED
    BY <1>1, <2>1, <2>3, EndsMove
<1>3. CASE ~cleaned
  <2>1. Invalidate(Now)
    BY <1>3 DEF Close
  <2>2. HonestChildIsBelieved' /\ distrusted' \in BOOLEAN
    BY <1>1 DEF TransportInv, HonestChildIsBelieved, PipesTyped
  <2> QED
    BY <1>1, <2>1, <2>2, InvalidateKeeps
<1> QED
  BY <1>2, <1>3
\* A pipe that errs gives the transport up.
LEMMA PipeFailsKeeps == ASSUME TransportInv, PipeFails PROVE TransportInv'
<1>1. Invalidate(Now) /\ UNCHANGED <<output, executed, garbled, overlong, forgot, distrusted>>
  BY DEF PipeFails, StillTrusted
<1>2. HonestChildIsBelieved' /\ distrusted' \in BOOLEAN
  BY <1>1 DEF TransportInv, HonestChildIsBelieved, PipesTyped
<1> QED
  BY <1>1, <1>2, InvalidateKeeps
\* A child that is gone gives the transport up.
LEMMA ChildClosesKeeps == ASSUME TransportInv, ChildCloses PROVE TransportInv'
<1>1. /\ UNCHANGED <<output, executed, garbled, overlong, forgot, distrusted>> /\ child' = "closed"
  BY DEF ChildCloses, StillTrusted
<1>2. child' \in ChildStates /\ (child' \in {"none", "starting"} => child \in {"none", "starting"})
  BY <1>1 DEF ChildStates
<1>3. CASE cleaned
  <2>1. UNCHANGED <<request, queue, writing, blocked, input, abandoned, cleaned>>
    BY <1>3 DEF ChildCloses, heldVars
  <2> QED
    BY <1>1, <1>2, <2>1, EndsMove
<1>4. CASE ~cleaned
  <2>1. GiveUp(Now)
    BY <1>4 DEF ChildCloses
  <2>2. HonestChildIsBelieved' /\ distrusted' \in BOOLEAN /\ HeldSound(Now) /\ WithinLimits(Now)
    BY <1>1 DEF TransportInv, HonestChildIsBelieved, PipesTyped
  <2>3. Now.request = request /\ Now.input = input
    BY <2>2, HeldIs
  <2>4. \A r \in Requests : r \in executed => request[r].dispatched
    BY DEF TransportInv, LinesSound
  <2> QED
    BY <1>1, <1>2, <2>1, <2>2, <2>3, <2>4, GivenUpKeeps
<1> QED
  BY <1>3, <1>4
\* A child that never was has acted on nothing: whatever was sent was not started.
LEMMA SpawnFailsKeeps == ASSUME TransportInv, SpawnFails PROVE TransportInv'
<1> DEFINE left(r) == request[r].dispatched /\ ~request[r].waiting
           rows == [r \in Requests |-> [request[r] EXCEPT !.dispatched = left(r)]]
           none == <<>>
           k == [Now EXCEPT !.input = none, !.request = rows]
<1>1. /\ UNCHANGED <<output, executed, garbled, overlong, forgot, distrusted>> /\ child' = "killed"
      /\ child = "starting" /\ GiveUp(k)
  BY DEF SpawnFails, StillTrusted
<1>2. HeldSound(Now) /\ WithinLimits(Now) /\ executed = {}
  BY <1>1 DEF TransportInv, LinesSound
<1>3. /\ Now.request = request /\ Now.queue = queue /\ request \in [Requests -> CallRow]
      /\ Now \in HeldRow
      /\ queue \in Seq(Requests) /\ Distinct(queue)
      /\ \A i \in 1..Len(queue) : request[queue[i]].waiting /\ ~request[queue[i]].dispatched
      /\ \A q \in Requests : /\ request[q].waiting => request[q].told = "nothing"
                             /\ request[q].told = "not_started" => ~request[q].dispatched
  BY <1>2, HeldIs
<1>4. \A r \in Requests : left(r) \in BOOLEAN /\ (left(r) => request[r].dispatched)
  OBVIOUS
<1>5. none \in Seq(Requests) /\ Len(none) = 0 /\ Distinct(none)
  BY DEF Distinct
<1> HIDE DEF left, none
<1>6. /\ rows \in [Requests -> CallRow]
      /\ \A r \in Requests : /\ rows[r].waiting = request[r].waiting
                             /\ rows[r].told = request[r].told
                             /\ rows[r].dispatched = left(r)
  BY <1>3, <1>4 DEF CallRow
<1> HIDE DEF rows
<1>7. k \in HeldRow /\ k.request = rows /\ k.queue = queue /\ k.input = none
  BY <1>3, <1>5, <1>6 DEF HeldRow
<1> HIDE DEF k
<1>8. HeldSound(k)
  <2>1. \A i \in 1..Len(queue) : queue[i] \in Requests
    BY <1>3
  <2>2. \A i \in 1..Len(queue) : rows[queue[i]].waiting /\ ~rows[queue[i]].dispatched
    BY <1>3, <1>4, <1>6, <2>1
  <2>3. \A r \in Requests : /\ rows[r].waiting => rows[r].told = "nothing"
                            /\ rows[r].told = "not_started" => ~rows[r].dispatched
    <3>1. ASSUME NEW r \in Requests, rows[r].waiting PROVE rows[r].told = "nothing"
      BY <1>3, <1>6, <3>1
    <3>2. ASSUME NEW r \in Requests, rows[r].told = "not_started" PROVE ~rows[r].dispatched
      <4>1. ~request[r].dispatched
        BY <1>3, <1>6, <3>2
      <4>2. ~left(r)
        BY <1>4, <4>1
      <4> QED
        BY <1>6, <4>2
    <3> QED
      BY <3>1, <3>2
  <2>4. \A i \in 1..Len(none) : rows[none[i]].dispatched
    <3>1. ASSUME NEW i \in 1..Len(none) PROVE FALSE
      BY <1>5
    <3> QED
      BY <3>1
  <2>5. Distinct(queue) /\ Distinct(none)
    BY <1>3, <1>5
  <2> QED
    BY <1>7, <2>2, <2>3, <2>4, <2>5 DEF HeldSound
<1>9. WithinLimits(k)
  <2>1. Waiters(k) = Waiters(Now)
    BY <1>3, <1>6, <1>7 DEF Waiters
  <2> QED
    BY <1>2, <1>3, <1>7, <2>1 DEF WithinLimits
<1>10. child' \in ChildStates /\ (child' \in {"none", "starting"} => child \in {"none", "starting"})
  BY <1>1 DEF ChildStates
<1>11. HonestChildIsBelieved' /\ distrusted' \in BOOLEAN
  BY <1>1 DEF TransportInv, HonestChildIsBelieved, PipesTyped
<1>12. \A r \in Requests : /\ r \in executed => k.request[r].dispatched
                           /\ k.request[r].told = "answered" => request[r].told = "answered"
  BY <1>2, <1>6, <1>7
<1>13. \A i \in 1..Len(k.input) : \E j \in 1..Len(input) : k.input[i] = input[j]
  BY <1>5, <1>7
<1> QED
  BY <1>1, <1>8, <1>9, <1>10, <1>11, <1>12, <1>13, GivenUpKeeps

\* A request that is taken on waits, unsent, within the limit.
LEMMA TakenOn ==
  ASSUME TransportInv, NEW r \in Requests, request[r] = New,
         Cardinality(WaitingRequests) < MaxPending
  PROVE  LET k == [Now EXCEPT !.request[r].waiting = TRUE] IN
         /\ HeldSound(k) /\ WithinLimits(k) /\ k.queue = queue /\ k.input = input
         /\ k.writing = writing /\ k.blocked = blocked
         /\ \A q \in Requests : /\ k.request[q].dispatched = request[q].dispatched
                                /\ k.request[q].told = request[q].told
                                /\ request[q].waiting => k.request[q].waiting
         /\ k.request[r].waiting
<1> DEFINE yes == TRUE
           entry == [request[r] EXCEPT !.waiting = yes]
           rows == [request EXCEPT ![r] = entry]
           k == [Now EXCEPT !.request[r].waiting = TRUE]
<1>1. HeldSound(Now) /\ WithinLimits(Now)
  BY DEF TransportInv
<1>2. /\ Now.request = request /\ Now.queue = queue /\ Now.input = input /\ Now \in HeldRow
      /\ Now.writing = writing /\ Now.blocked = blocked
      /\ request \in [Requests -> CallRow] /\ queue \in Seq(Requests) /\ input \in Seq(Requests)
      /\ \A i \in 1..Len(queue) : request[queue[i]].waiting /\ ~request[queue[i]].dispatched
      /\ \A i \in 1..Len(input) : request[input[i]].dispatched
      /\ \A q \in Requests : /\ request[q].waiting => request[q].told = "nothing"
                             /\ request[q].told = "not_started" => ~request[q].dispatched
      /\ Distinct(queue) /\ Distinct(input)
  BY <1>1, HeldIs
<1>3. k = [Now EXCEPT !.request = rows]
  BY <1>2 DEF HeldRow
<1>4. yes \in BOOLEAN /\ yes = TRUE /\ request[r].told = "nothing" /\ request[r] \in CallRow
  <2>1. request[r].told = "nothing"
    BY DEF New
  <2>2. request[r] \in CallRow
    BY <1>2
  <2> QED
    BY <2>1, <2>2
<1> HIDE DEF yes, k
<1>5. /\ entry \in CallRow /\ entry.waiting = yes /\ entry.dispatched = request[r].dispatched
      /\ entry.told = request[r].told
  BY <1>4 DEF CallRow
<1> HIDE DEF entry
<1>6. /\ rows \in [Requests -> CallRow]
      /\ \A q \in Requests : /\ rows[q].dispatched = request[q].dispatched
                             /\ rows[q].told = request[q].told
                             /\ q # r => rows[q].waiting = request[q].waiting
      /\ rows[r].waiting = yes
  BY <1>2, <1>5
<1>7. \A q \in Requests : (q = r => rows[q].waiting) /\ (request[q].waiting => rows[q].waiting)
  BY <1>4, <1>6
<1> HIDE DEF rows
<1>8. /\ k \in HeldRow /\ k.request = rows /\ k.queue = queue /\ k.input = input
      /\ k.writing = writing /\ k.blocked = blocked
  BY <1>2, <1>3, <1>6 DEF HeldRow
<1>9. HeldSound(k)
  <2>1. /\ \A i \in 1..Len(queue) : queue[i] \in Requests
        /\ \A i \in 1..Len(input) : input[i] \in Requests
    BY <1>2
  <2>2. \A i \in 1..Len(queue) : rows[queue[i]].waiting /\ ~rows[queue[i]].dispatched
    BY <1>2, <1>6, <1>7, <2>1
  <2>3. \A i \in 1..Len(input) : rows[input[i]].dispatched
    BY <1>2, <1>6, <2>1
  <2>4. \A q \in Requests : /\ rows[q].waiting => rows[q].told = "nothing"
                            /\ rows[q].told = "not_started" => ~rows[q].dispatched
    BY <1>2, <1>4, <1>6
  <2> QED
    BY <1>2, <1>8, <2>2, <2>3, <2>4 DEF HeldSound
<1>10. WithinLimits(k)
  <2> DEFINE W == WaitingRequests
             V == Waiters(k)
  <2>1. W \in SUBSET Requests /\ V = W \cup {r}
    <3>1. \A q \in Requests : q \in V <=> (q \in W \/ q = r)
      BY <1>6, <1>7, <1>8 DEF Waiters, WaitingRequests
    <3> QED
      BY <3>1 DEF Waiters, WaitingRequests
  <2> HIDE DEF W, V
  <2>2. IsFiniteSet(W)
    BY <2>1, RequestsAreNumbered, FS_Subset
  <2>3. Cardinality(W) \in Nat /\ (Cardinality(V) = Cardinality(W) \/ Cardinality(V) = Cardinality(W) + 1)
    BY <2>1, <2>2, FS_AddElement, FS_CardinalityType
  <2>4. Cardinality(W) < MaxPending
    BY DEF W
  <2>5. Cardinality(V) <= MaxPending
    BY <2>3, <2>4, RequestsAreNumbered
  <2> QED
    BY <1>1, <1>2, <1>8, <2>5 DEF WithinLimits, V
<1> QED
  BY <1>6, <1>7, <1>8, <1>9, <1>10 DEF k

\* A request that is refused is told so, and was never sent.
LEMMA RefuseKeeps ==
  ASSUME TransportInv, NEW r \in Requests, request[r] = New, Refuse(r),
         UNCHANGED <<output, executed, garbled, overlong, forgot, distrusted>>
  PROVE  TransportInv'
<1> DEFINE w == "not_started"
           entry == [request[r] EXCEPT !.told = w]
           rows == [request EXCEPT ![r] = entry]
           k == [Now EXCEPT !.request = rows]
<1>1. HeldSound(Now) /\ WithinLimits(Now)
  BY DEF TransportInv
<1>2. /\ Now.request = request /\ Now.queue = queue /\ Now.input = input /\ Now \in HeldRow
      /\ Now.writing = writing /\ Now.blocked = blocked
      /\ request \in [Requests -> CallRow] /\ queue \in Seq(Requests) /\ input \in Seq(Requests)
      /\ \A i \in 1..Len(queue) : request[queue[i]].waiting /\ ~request[queue[i]].dispatched
      /\ \A i \in 1..Len(input) : request[input[i]].dispatched
      /\ \A q \in Requests : /\ request[q].waiting => request[q].told = "nothing"
                             /\ request[q].told = "not_started" => ~request[q].dispatched
      /\ Distinct(queue) /\ Distinct(input)
  BY <1>1, HeldIs
<1>3. /\ request' = rows /\ UNCHANGED <<queue, writing, blocked, input, abandoned, cleaned, child>>
  BY DEF Refuse, NothingElse, ends
<1>4. /\ w \in Words /\ w # "nothing" /\ w # "answered" /\ request[r] \in CallRow
      /\ ~request[r].waiting /\ ~request[r].dispatched
  <2>1. ~request[r].waiting /\ ~request[r].dispatched
    BY DEF New
  <2>2. request[r] \in CallRow /\ w \in Words /\ w # "nothing" /\ w # "answered"
    BY <1>2 DEF Words
  <2> QED
    BY <2>1, <2>2
<1> HIDE DEF w
<1>5. /\ entry \in CallRow /\ entry.waiting = request[r].waiting /\ entry.told = w
      /\ entry.dispatched = request[r].dispatched
  BY <1>4 DEF CallRow
<1> HIDE DEF entry
<1>6. /\ rows \in [Requests -> CallRow] /\ rows[r].told = w
      /\ \A q \in Requests : /\ rows[q].dispatched = request[q].dispatched
                             /\ rows[q].waiting = request[q].waiting
                             /\ q # r => rows[q].told = request[q].told
  BY <1>2, <1>5
<1> HIDE DEF rows
<1>7. /\ k \in HeldRow /\ k.request = rows /\ k.queue = queue /\ k.input = input
      /\ k.writing = writing /\ k.blocked = blocked
  BY <1>2, <1>6 DEF HeldRow
<1> HIDE DEF k
<1>8. HeldSound(k)
  <2>1. /\ \A i \in 1..Len(queue) : queue[i] \in Requests
        /\ \A i \in 1..Len(input) : input[i] \in Requests
    BY <1>2
  <2>2. \A i \in 1..Len(queue) : rows[queue[i]].waiting /\ ~rows[queue[i]].dispatched
    BY <1>2, <1>6, <2>1
  <2>3. \A i \in 1..Len(input) : rows[input[i]].dispatched
    BY <1>2, <1>6, <2>1
  <2>4. ASSUME NEW q \in Requests
        PROVE  /\ rows[q].waiting => rows[q].told = "nothing"
               /\ rows[q].told = "not_started" => ~rows[q].dispatched
    <3>1. CASE q = r
      BY <1>4, <1>6, <3>1
    <3>2. CASE q # r
      BY <1>2, <1>6, <3>2
    <3> QED
      BY <3>1, <3>2
  <2> QED
    BY <1>2, <1>7, <2>2, <2>3, <2>4 DEF HeldSound
<1>9. WithinLimits(k)
  <2>1. Waiters(k) = Waiters(Now)
    BY <1>2, <1>6, <1>7 DEF Waiters
  <2> QED
    BY <1>1, <1>2, <1>7, <2>1 DEF WithinLimits
<1>10. Becomes(k)
  BY <1>3, <1>7 DEF Becomes
<1>11. child' \in ChildStates /\ (child' \in {"none", "starting"} => child \in {"none", "starting"})
  BY <1>3 DEF TransportInv, PipesTyped
<1>12. \A q \in Requests : /\ request[q].dispatched => k.request[q].dispatched
                           /\ k.request[q].told = "answered" => request[q].told = "answered"
                           /\ request[q].waiting /\ request[q].dispatched => k.request[q].waiting
  BY <1>4, <1>6, <1>7
<1>13. \A i \in 1..Len(k.input) : \E j \in 1..Len(input) : k.input[i] = input[j]
  BY <1>7
<1>14. cleaned => k.queue = <<>>
  BY <1>7 DEF TransportInv
<1> QED
  BY <1>3, <1>8, <1>9, <1>10, <1>11, <1>12, <1>13, <1>14, HeldMoves

\* A request that is admitted joins the queue, or finds the child missing.
LEMMA AdmitKeeps ==
  ASSUME TransportInv, NEW r \in Requests, request[r] = New, Admit(r),
         UNCHANGED <<output, executed, garbled, overlong, forgot, distrusted>>
  PROVE  TransportInv'
<1> DEFINE w == [Now EXCEPT !.request[r].waiting = TRUE]
<1>1. ~cleaned /\ Cardinality(WaitingRequests) < MaxPending /\ Len(queue) < MaxQueued
  BY DEF Admit
<1>2. /\ HeldSound(w) /\ WithinLimits(w) /\ w.queue = queue /\ w.input = input
      /\ \A q \in Requests : /\ w.request[q].dispatched = request[q].dispatched
                             /\ w.request[q].told = request[q].told
                             /\ request[q].waiting => w.request[q].waiting
      /\ w.request[r].waiting
  BY <1>1, TakenOn
<1>3. /\ queue \in Seq(Requests) /\ Distinct(queue)
      /\ \A i \in 1..Len(queue) : queue[i] \in Requests /\ request[queue[i]].waiting
      /\ ~request[r].waiting /\ ~request[r].dispatched
  BY HeldIs DEF TransportInv, New
<1>4. CASE \E a \in BOOLEAN :
              /\ Becomes(Flushed([w EXCEPT !.queue = Append(@, r)], a))
              /\ child' = IF child = "none" THEN "starting" ELSE child
              /\ UNCHANGED <<abandoned, cleaned, unsure, forceKill, closing>>
  <2> DEFINE q == Append(queue, r)
             h == [w EXCEPT !.queue = q]
  <2>1. PICK a \in BOOLEAN :
           /\ Becomes(Flushed([w EXCEPT !.queue = Append(@, r)], a))
           /\ child' = IF child = "none" THEN "starting" ELSE child
           /\ UNCHANGED <<abandoned, cleaned>>
    BY <1>4
  <2> HIDE DEF w
  <2>2. w \in HeldRow
    BY <1>2 DEF HeldSound
  <2>3. [w EXCEPT !.queue = Append(@, r)] = h
    BY <1>2
  <2>4. /\ q \in Seq(Requests) /\ Len(q) = Len(queue) + 1 /\ Distinct(q) /\ Len(queue) \in Nat
        /\ \A i \in 1..Len(q) : q[i] = IF i = Len(queue) + 1 THEN r ELSE queue[i]
    <3>1. \A i \in 1..Len(queue) : queue[i] # r
      BY <1>3
    <3> QED
      BY <1>3, <3>1, AppendedTo
  <2> HIDE DEF q
  <2>5. h \in HeldRow /\ h.request = w.request /\ h.queue = q /\ h.input = input
    BY <1>2, <2>2, <2>4 DEF HeldRow
  <2> HIDE DEF h
  <2>6. HeldSound(h)
    <3>1. \A i \in 1..Len(q) : q[i] = r \/ \E j \in 1..Len(queue) : q[i] = queue[j]
      BY <2>4
    <3>2. \A j \in 1..Len(queue) : w.request[queue[j]].waiting /\ ~w.request[queue[j]].dispatched
      BY <1>2 DEF HeldSound
    <3>3. w.request[r].waiting /\ ~w.request[r].dispatched
      BY <1>2, <1>3
    <3>4. \A i \in 1..Len(q) : w.request[q[i]].waiting /\ ~w.request[q[i]].dispatched
      BY <3>1, <3>2, <3>3
    <3>5. /\ \A i \in 1..Len(input) : w.request[input[i]].dispatched
          /\ Distinct(input)
          /\ \A x \in Requests : /\ w.request[x].waiting => w.request[x].told = "nothing"
                                 /\ w.request[x].told = "not_started" => ~w.request[x].dispatched
      BY <1>2 DEF HeldSound
    <3> QED
      BY <2>4, <2>5, <3>4, <3>5 DEF HeldSound
  <2> DEFINE k == Flushed(h, a)
  <2>7. HeldSound(k) /\ Onward(h, k) /\ Becomes(k)
    BY <2>1, <2>3, <2>6, FlushedOnward
  <2> HIDE DEF k
  <2>8. WithinLimits(k)
    <3>1. Waiters(k) = Waiters(w)
      BY <2>5, <2>7 DEF Waiters, Onward
    <3>2. Len(k.queue) <= Len(q) /\ Len(k.queue) \in Nat /\ Len(q) \in Nat
      BY <2>4, <2>5, <2>7 DEF Onward, HeldSound, HeldRow
    <3>3. Len(k.queue) <= MaxQueued
      BY <1>1, <2>4, <3>2, RequestsAreNumbered
    <3> QED
      BY <1>2, <3>1, <3>3 DEF WithinLimits
  <2>9. child' \in ChildStates /\ (child' \in {"none", "starting"} => child \in {"none", "starting"})
    BY <2>1 DEF TransportInv, PipesTyped, ChildStates
  <2>10. \A x \in Requests : /\ request[x].dispatched => k.request[x].dispatched
                             /\ k.request[x].told = "answered" => request[x].told = "answered"
                             /\ request[x].waiting /\ request[x].dispatched => k.request[x].waiting
    BY <1>2, <2>5, <2>7 DEF Onward
  <2>11. \A i \in 1..Len(k.input) :
            \/ \E j \in 1..Len(input) : k.input[i] = input[j]
            \/ k.request[k.input[i]].waiting /\ ~request[k.input[i]].dispatched
    <3>1. \A i \in 1..Len(k.input) : k.input[i] \in Requests
      BY <2>7 DEF HeldSound, HeldRow
    <3> QED
      BY <1>2, <2>5, <2>7, <3>1 DEF Onward
  <2> QED
    BY <1>1, <2>1, <2>7, <2>8, <2>9, <2>10, <2>11, HeldMoves
<1>5. CASE child = "none" /\ Invalidate(w)
  <2>1. GiveUp(w) /\ Terminated
    BY <1>5 DEF Invalidate
  <2> HIDE DEF w
  <2>2. child' \in ChildStates /\ (child' \in {"none", "starting"} => child \in {"none", "starting"})
    BY <2>1, TerminatedChild
  <2>3. HonestChildIsBelieved' /\ distrusted' \in BOOLEAN
    BY DEF TransportInv, HonestChildIsBelieved, PipesTyped
  <2>4. \A x \in Requests : /\ x \in executed => w.request[x].dispatched
                            /\ w.request[x].told = "answered" => request[x].told = "answered"
    BY <1>2 DEF TransportInv, LinesSound
  <2>5. \A i \in 1..Len(w.input) : \E j \in 1..Len(input) : w.input[i] = input[j]
    BY <1>2
  <2> QED
    BY <1>2, <2>1, <2>2, <2>3, <2>4, <2>5, GivenUpKeeps
<1> QED
  BY <1>4, <1>5 DEF Admit

\* A request that is asked for is refused or admitted.
LEMMA RequestKeeps == ASSUME TransportInv, Request PROVE TransportInv'
<1>1. PICK r \in Unsent : Refuse(r) \/ Admit(r)
  BY DEF Request
<1>2. r \in Requests /\ request[r] = New
  BY DEF Unsent
<1>3. UNCHANGED <<output, executed, garbled, overlong, forgot, distrusted>>
  BY DEF Request, StillTrusted
<1> QED
  BY <1>1, <1>2, <1>3, RefuseKeeps, AdmitKeeps

\* The grace is over: the child is killed, or was gone.
LEMMA ForceKillKeeps == ASSUME TransportInv, ForceKill PROVE TransportInv'
<1>1. /\ UNCHANGED <<request, queue, writing, blocked, abandoned, cleaned, output, executed, garbled,
                     overlong, forgot, distrusted>>
      /\ input' = input \/ input' = <<>>
      /\ child' = "killed" \/ child' = child
  BY DEF ForceKill, StillTrusted
<1>2. child' \in ChildStates /\ (child' \in {"none", "starting"} => child \in {"none", "starting"})
  BY <1>1 DEF TransportInv, PipesTyped, ChildStates
<1> QED
  BY <1>1, <1>2, EndsMove

\* The caller stops waiting for the child, which may still be there.
LEMMA ShutdownDeadlineKeeps == ASSUME TransportInv, ShutdownDeadline PROVE TransportInv'
<1>1. UNCHANGED <<request, queue, writing, blocked, input, child, abandoned, cleaned, output, executed,
                  garbled, overlong, forgot, distrusted>>
  BY DEF ShutdownDeadline, StillTrusted, heldVars
<1>2. child' \in ChildStates /\ (child' \in {"none", "starting"} => child \in {"none", "starting"})
  BY <1>1 DEF TransportInv, PipesTyped
<1> QED
  BY <1>1, <1>2, EndsMove

\* The child that starts has acted on nothing yet.
LEMMA ChildStartsKeeps == ASSUME TransportInv, ChildStarts PROVE TransportInv'
<1>1. /\ UNCHANGED <<request, queue, writing, blocked, input, abandoned, cleaned, output, executed,
                     garbled, overlong, forgot, distrusted>>
      /\ child' = "up"
  BY DEF ChildStarts, StillTrusted, heldVars
<1>2. child' \in ChildStates /\ (child' \in {"none", "starting"} => child \in {"none", "starting"})
  BY <1>1 DEF ChildStates
<1> QED
  BY <1>1, <1>2, EndsMove

\* A child that dies leaves the lines it has written.
LEMMA ChildDiesKeeps == ASSUME TransportInv, ChildDies PROVE TransportInv'
<1>1. /\ UNCHANGED <<request, queue, writing, blocked, abandoned, cleaned, output, executed,
                     garbled, overlong, forgot, distrusted>>
      /\ child' = "killed" /\ input' = <<>>
  BY DEF ChildDies, StillTrusted
<1>2. child' \in ChildStates /\ (child' \in {"none", "starting"} => child \in {"none", "starting"})
  BY <1>1 DEF ChildStates
<1> QED
  BY <1>1, <1>2, EndsMove

\* Nothing happens to the transport.
LEMMA TransportStutters ==
  ASSUME TransportInv, UNCHANGED transportVars PROVE TransportInv'
<1>1. UNCHANGED <<request, queue, writing, blocked, input, child, abandoned, cleaned, output, executed,
                  garbled, overlong, forgot, distrusted>>
  BY DEF transportVars, heldVars, ends
<1>2. child' \in ChildStates /\ (child' \in {"none", "starting"} => child \in {"none", "starting"})
  BY <1>1 DEF TransportInv, PipesTyped
<1> QED
  BY <1>1, <1>2, EndsMove

\* What the child acts on was dispatched; it answers, or dies before it has.
LEMMA ChildActsKeeps == ASSUME TransportInv, ChildActs PROVE TransportInv'
<1> DEFINE x == Head(input)
           none == <<>>
           left == IF input' = none THEN none ELSE Tail(input)
<1>1. /\ input # <<>> /\ child \in {"up", "ending"} /\ executed' = executed \cup {x}
      /\ UNCHANGED <<request, queue, writing, blocked, abandoned, cleaned, garbled, forgot, distrusted>>
      /\ overlong \subseteq overlong'
      /\ child' = child \/ child' = "killed"
  BY DEF ChildActs, StillTrusted
<1>2. /\ HeldSound(Now) /\ PipesTyped /\ LinesSound /\ OnceOnly /\ (~cleaned /\ ~forgot => Expected)
      /\ HonestChildIsBelieved
  BY DEF TransportInv
<1>3. /\ input \in Seq(Requests) /\ Distinct(input)
      /\ \A i \in 1..Len(input) : request[input[i]].dispatched
  BY <1>2, HeldIs
<1>4. /\ x \in Requests /\ x = input[1] /\ Tail(input) \in Seq(Requests) /\ 1 \in 1..Len(input)
      /\ \A i \in 1..Len(Tail(input)) : i + 1 \in 1..Len(input) /\ Tail(input)[i] = input[i + 1]
      /\ Distinct(Tail(input)) /\ \A i \in 1..Len(Tail(input)) : Tail(input)[i] # x
  <2>1. /\ x \in Requests /\ x = input[1] /\ Tail(input) \in Seq(Requests)
        /\ Len(Tail(input)) = Len(input) - 1 /\ Len(input) \in Nat \ {0}
        /\ \A i \in 1..Len(Tail(input)) : Tail(input)[i] = input[i + 1]
        /\ Distinct(Tail(input)) /\ \A i \in 1..Len(Tail(input)) : Tail(input)[i] # x
    BY <1>1, <1>3, TailOf
  <2>2. 1 \in 1..Len(input) /\ \A i \in 1..Len(Tail(input)) : i + 1 \in 1..Len(input)
    BY <2>1
  <2> QED
    BY <2>1, <2>2
<1>5. x # 0 /\ request[x].dispatched
  BY <1>3, <1>4, NoRequestIsZero
<1>6. /\ output \in Seq(Requests \cup {0}) /\ executed \in SUBSET Requests
      /\ Len(output) \in Nat
  BY <1>2 DEF PipesTyped
<1>7. \A i \in 1..Len(output) : output[i] # x
  BY <1>2, <1>4, <1>5 DEF OnceOnly
<1>8. child' \in ChildStates /\ child' \notin {"none", "starting"}
  BY <1>1 DEF ChildStates
<1>9. \A r \in executed' : request[r].dispatched
  BY <1>1, <1>2, <1>5 DEF LinesSound
<1>10. executed' \in SUBSET Requests /\ executed \in SUBSET executed' /\ x \in executed'
  BY <1>1, <1>4, <1>6
<1> HIDE DEF x
<1>11. HonestChildIsBelieved'
  BY <1>1, <1>2 DEF HonestChildIsBelieved
<1>12. CASE output' = Append(output, x) /\ input' = Tail(input)
  <2>1. /\ output' \in Seq(Requests \cup {0}) /\ Len(output') = Len(output) + 1
        /\ \A i \in 1..Len(output') : output'[i] = IF i = Len(output) + 1 THEN x ELSE output[i]
    BY <1>4, <1>6, <1>12, AppendedTo
  <2>2. \A i \in 1..Len(output') : i # Len(output) + 1 => i \in 1..Len(output)
    BY <1>6, <2>1
  <2>3. PipesTyped'
    BY <1>1, <1>2, <1>8, <1>10, <2>1 DEF PipesTyped
  <2>4. LinesSound'
    <3>1. \A i \in 1..Len(output') : output'[i] = 0 \/ output'[i] \in executed'
      BY <1>2, <1>10, <2>1, <2>2 DEF LinesSound
    <3>2. \A i \in 1..Len(output') : output'[i] = 0 => garbled'
      BY <1>1, <1>2, <1>5, <2>1, <2>2 DEF LinesSound
    <3>3. \A r \in Requests : request'[r].told = "answered" => r \in executed'
      BY <1>1, <1>2, <1>10 DEF LinesSound
    <3> QED
      BY <1>1, <1>8, <1>9, <3>1, <3>2, <3>3 DEF LinesSound
  <2>5. \A i \in 1..Len(input') : \E j \in 1..Len(input) : input'[i] = input[j]
    BY <1>4, <1>12
  <2>6. OnceOnly'
    <3> SUFFICES ASSUME NEW i \in 1..Len(output'), output'[i] # 0
                 PROVE  /\ \A j \in 1..Len(input') : input'[j] # output'[i]
                        /\ \A j \in 1..Len(output') : output'[j] = output'[i] => j = i
      BY DEF OnceOnly
    <3>1. CASE i = Len(output) + 1
      <4>1. output'[i] = x
        BY <2>1, <3>1
      <4>2. \A j \in 1..Len(output') : output'[j] = x => j = i
        BY <1>7, <2>1, <2>2, <3>1
      <4> QED
        BY <1>4, <1>12, <4>1, <4>2
    <3>2. CASE i # Len(output) + 1
      <4>1. i \in 1..Len(output) /\ output'[i] = output[i] /\ output[i] # x /\ output[i] # 0
        BY <1>7, <2>1, <2>2, <3>2
      <4>2. /\ \A j \in 1..Len(input) : input[j] # output[i]
            /\ \A j \in 1..Len(output) : output[j] = output[i] => j = i
        BY <1>2, <4>1 DEF OnceOnly
      <4>3. \A j \in 1..Len(output') : output'[j] = output[i] => j = i
        BY <2>1, <2>2, <4>1, <4>2
      <4>4. \A j \in 1..Len(input') : input'[j] # output[i]
        BY <2>5, <4>2
      <4> QED
        BY <4>1, <4>3, <4>4
    <3> QED
      BY <3>1, <3>2
  <2>7. ASSUME ~cleaned, ~forgot' PROVE Expected'
    <3> SUFFICES ASSUME NEW y \in Requests,
                        \/ \E i \in 1..Len(input') : input'[i] = y
                        \/ \E i \in 1..Len(output') : output'[i] = y
                 PROVE  request[y].waiting \/ \E i \in 1..Len(abandoned) : abandoned[i] = y
      BY <1>1 DEF Expected
    <3>1. \/ \E i \in 1..Len(input) : input[i] = y
          \/ \E i \in 1..Len(output) : output[i] = y
      <4>1. CASE \E i \in 1..Len(input') : input'[i] = y
        BY <2>5, <4>1
      <4>2. CASE \E i \in 1..Len(output') : output'[i] = y
        BY <1>4, <2>1, <2>2, <4>2
      <4> QED
        BY <4>1, <4>2
    <3> QED
      BY <1>1, <1>2, <2>7, <3>1 DEF Expected
  <2>8. input' \in Seq(Requests) /\ Distinct(input')
    BY <1>4, <1>12
  <2> QED
    BY <1>1, <1>11, <2>3, <2>4, <2>5, <2>6, <2>7, <2>8, PipesMove
<1>13. CASE output' = output /\ input' = <<>>
  <2>1. input' \in Seq(Requests) /\ Distinct(input') /\ Len(input') = 0
    BY <1>13 DEF Distinct
  <2>2. PipesTyped'
    BY <1>1, <1>2, <1>8, <1>10, <1>13 DEF PipesTyped
  <2>3. LinesSound'
    BY <1>1, <1>2, <1>8, <1>9, <1>10, <1>13 DEF LinesSound
  <2>4. OnceOnly'
    BY <1>2, <1>13, <2>1 DEF OnceOnly
  <2>5. ~cleaned /\ ~forgot' => Expected'
    BY <1>1, <1>2, <1>13, <2>1 DEF Expected
  <2> QED
    BY <1>1, <1>11, <2>1, <2>2, <2>3, <2>4, <2>5, PipesMove
<1> QED
  BY <1>12, <1>13 DEF ChildActs, x

\* A line that is no answer is no request's line.
LEMMA ChildGarblesKeeps == ASSUME TransportInv, ChildGarbles PROVE TransportInv'
<1>1. /\ garbled' = TRUE /\ output' = Append(output, 0)
      /\ UNCHANGED <<request, queue, writing, blocked, input, abandoned, cleaned, child, executed,
                     overlong, forgot, distrusted>>
  BY DEF ChildGarbles, StillTrusted, heldVars, ends
<1>2. /\ HeldSound(Now) /\ PipesTyped /\ LinesSound /\ OnceOnly /\ (~cleaned /\ ~forgot => Expected)
      /\ HonestChildIsBelieved
  BY DEF TransportInv
<1>3. input \in Seq(Requests) /\ Distinct(input)
  BY <1>2, HeldIs
<1>4. output \in Seq(Requests \cup {0}) /\ Len(output) \in Nat
  BY <1>2 DEF PipesTyped
<1>5. /\ output' \in Seq(Requests \cup {0}) /\ Len(output') = Len(output) + 1
      /\ \A i \in 1..Len(output') : output'[i] = IF i = Len(output) + 1 THEN 0 ELSE output[i]
  BY <1>1, <1>4, AppendedTo
<1>6. \A i \in 1..Len(output') :
         /\ i # Len(output) + 1 => i \in 1..Len(output)
         /\ output'[i] # 0 => i \in 1..Len(output) /\ output'[i] = output[i]
  BY <1>4, <1>5
<1>7. PipesTyped'
  BY <1>1, <1>2, <1>5 DEF PipesTyped
<1>8. LinesSound'
  <2>1. \A i \in 1..Len(output') : output'[i] = 0 \/ output'[i] \in executed'
    BY <1>1, <1>2, <1>6 DEF LinesSound
  <2> QED
    BY <1>1, <1>2, <2>1 DEF LinesSound
<1>9. OnceOnly'
  BY <1>1, <1>2, <1>6 DEF OnceOnly
<1>10. ~cleaned /\ ~forgot' => Expected'
  <2>1. \A y \in Requests : (\E i \in 1..Len(output') : output'[i] = y) => \E i \in 1..Len(output) : output[i] = y
    BY <1>6, NoRequestIsZero
  <2> QED
    BY <1>1, <1>2, <2>1 DEF Expected
<1>11. HonestChildIsBelieved'
  BY <1>1 DEF HonestChildIsBelieved
<1> QED
  BY <1>1, <1>3, <1>7, <1>8, <1>9, <1>10, <1>11, PipesMove

\* A transport starts with nothing sent and nobody waiting.
LEMMA TransportStarts == ASSUME TransportInit PROVE TransportInv
<1> DEFINE no == FALSE
           none == <<>>
           nothing == "nothing"
           entry == [waiting |-> no, dispatched |-> no, written |-> no, told |-> nothing]
           rows == [r \in Requests |-> entry]
<1>1. /\ request = rows /\ queue = none /\ writing = 0 /\ blocked = no /\ abandoned = none
      /\ cleaned = no /\ child = "none" /\ input = none /\ output = none /\ executed = {}
      /\ garbled = no /\ forgot = no /\ distrusted = no
  BY DEF TransportInit, New
<1>2. no \in BOOLEAN /\ no = FALSE /\ nothing \in Words /\ nothing = "nothing" /\ none = <<>>
  BY DEF Words
<1>3. /\ none \in Seq(Requests) /\ none \in Seq(Requests \cup {0}) /\ Len(none) = 0
      /\ Distinct(none)
  BY DEF Distinct
<1> HIDE DEF no, none, nothing
<1>4. entry \in CallRow /\ entry.waiting = no /\ entry.dispatched = no /\ entry.told = nothing
  BY <1>2 DEF CallRow
<1> HIDE DEF entry
<1>5. /\ rows \in [Requests -> CallRow]
      /\ \A r \in Requests : rows[r].waiting = no /\ rows[r].dispatched = no /\ rows[r].told = nothing
  BY <1>4
<1> HIDE DEF rows
<1>6. /\ Now \in HeldRow /\ Now.request = rows /\ Now.queue = none /\ Now.input = none
  BY <1>1, <1>2, <1>3, <1>5 DEF Now, HeldRow
<1>7. HeldSound(Now)
  <2>1. \A r \in Requests : /\ rows[r].waiting => rows[r].told = "nothing"
                            /\ rows[r].told = "not_started" => ~rows[r].dispatched
    BY <1>2, <1>5
  <2> QED
    BY <1>3, <1>6, <2>1 DEF HeldSound
<1>8. WithinLimits(Now)
  <2>1. Waiters(Now) = {}
    BY <1>2, <1>5, <1>6 DEF Waiters
  <2>2. Cardinality(Waiters(Now)) = 0
    BY <2>1, FS_EmptySet
  <2> QED
    BY <1>3, <1>6, <2>2, RequestsAreNumbered DEF WithinLimits
<1>9. PipesTyped
  <2>1. child \in ChildStates /\ executed \in SUBSET Requests
    BY <1>1 DEF ChildStates
  <2>2. Len(abandoned) <= MaxPending
    BY <1>1, <1>3, RequestsAreNumbered
  <2> QED
    BY <1>1, <1>2, <1>3, <2>1, <2>2 DEF PipesTyped
<1>10. LinesSound
  <2>1. \A r \in Requests : request[r].told # "answered"
    BY <1>1, <1>2, <1>5
  <2> QED
    BY <1>1, <1>3, <2>1 DEF LinesSound
<1>11. OnceOnly
  BY <1>1, <1>3 DEF OnceOnly
<1>12. Expected
  BY <1>1, <1>3 DEF Expected
<1>13. HonestChildIsBelieved
  BY <1>1, <1>2 DEF HonestChildIsBelieved
<1> QED
  BY <1>1, <1>2, <1>7, <1>8, <1>9, <1>10, <1>11, <1>12, <1>13 DEF TransportInv

\* Every step of the transport keeps the invariant.
LEMMA TransportSteps == ASSUME TransportInv, [TransportNext]_transportVars PROVE TransportInv'
<1>1. CASE Request
  BY <1>1, RequestKeeps
<1>2. CASE Close
  BY <1>2, CloseKeeps
<1>3. CASE WriteReturns
  BY <1>3, WriteReturnsKeeps
<1>4. CASE Drain
  BY <1>4, DrainKeeps
<1>5. CASE PipeFails
  BY <1>5, PipeFailsKeeps
<1>6. CASE SpawnFails
  BY <1>6, SpawnFailsKeeps
<1>7. ASSUME NEW r \in Requests, TimeoutRequest(r) PROVE TransportInv'
  BY <1>7, TimeoutRequestKeeps
<1>8. ASSUME NEW r \in Requests, AbortRequest(r) PROVE TransportInv'
  BY <1>8, AbortRequestKeeps
<1>9. CASE HandleLine
  BY <1>9, HandleLineKeeps
<1>10. CASE ForceKill
  BY <1>10, ForceKillKeeps
<1>11. CASE ShutdownDeadline
  BY <1>11, ShutdownDeadlineKeeps
<1>12. CASE ChildCloses
  BY <1>12, ChildClosesKeeps
<1>13. CASE ChildStarts
  BY <1>13, ChildStartsKeeps
<1>14. CASE ChildActs
  BY <1>14, ChildActsKeeps
<1>15. CASE ChildGarbles
  BY <1>15, ChildGarblesKeeps
<1>16. CASE ChildDies
  BY <1>16, ChildDiesKeeps
<1>17. CASE UNCHANGED transportVars
  BY <1>17, TransportStutters
<1> QED
  BY <1>1, <1>2, <1>3, <1>4, <1>5, <1>6, <1>7, <1>8, <1>9, <1>10, <1>11, <1>12, <1>13, <1>14,
     <1>15, <1>16, <1>17 DEF TransportNext

\* The invariant holds of the transport as long as it runs.
LEMMA TransportStands == TransportSpec => []TransportInv
BY TransportStarts, TransportSteps, PTL DEF TransportSpec

\* The transport's types, and its limits: never more callers, queued writes and
\* answers to throw away than rust-transport.ts admits.
THEOREM TransportTypes == TransportSpec => []TransportTypeOK
<1>1. ASSUME TransportInv PROVE TransportTypeOK
  <2>1. /\ request \in [Requests -> CallRow] /\ writing \in Requests \cup {0}
        /\ \A r \in Requests : request[r].waiting => request[r].told = "nothing"
        /\ Now.request = request /\ Now.queue = queue
    BY <1>1, HeldIs DEF TransportInv
  <2>2. \A r \in Requests : request[r].told \in Words
    BY <2>1 DEF CallRow
  <2>3. Waiters(Now) = WaitingRequests
    BY <2>1 DEF Waiters, WaitingRequests
  <2>4. Cardinality(WaitingRequests) <= MaxPending /\ Len(queue) <= MaxQueued
    BY <1>1, <2>1, <2>3 DEF TransportInv, WithinLimits
  <2>5. Len(abandoned) <= MaxPending /\ child \in {"none", "starting", "up", "ending", "killed", "closed"}
    BY <1>1 DEF TransportInv, PipesTyped, ChildStates
  <2> QED
    BY <2>1, <2>2, <2>4, <2>5 DEF TransportTypeOK
<1> QED
  BY <1>1, TransportStands, PTL

\* A caller that is told its request was not started may send it again: the child
\* has not acted on it and never reads it. One told of an answer has the child's.
THEOREM CallersAreToldTheTruth == TransportSpec => []ToldTheTruth
<1>1. ASSUME TransportInv PROVE ToldTheTruth
  <2>1. /\ \A r \in Requests : request[r].told = "not_started" => ~request[r].dispatched
        /\ \A i \in 1..Len(input) : request[input[i]].dispatched
    BY <1>1, HeldIs DEF TransportInv
  <2>2. /\ \A r \in executed : request[r].dispatched
        /\ \A r \in Requests : request[r].told = "answered" => r \in executed
    BY <1>1 DEF TransportInv, LinesSound
  <2>3. \A r \in ToSet(input) : request[r].dispatched
    BY <2>1 DEF ToSet
  <2> QED
    BY <2>1, <2>2, <2>3 DEF ToldTheTruth
<1> QED
  BY <1>1, TransportStands, PTL

\* The transport gives its child up for what it says only when the child wrote what
\* is no answer or an answer longer than a line may be, or when more requests were
\* given up than the list of them holds.
THEOREM HonestIsBelieved == TransportSpec => []HonestChildIsBelieved
BY TransportStands, PTL DEF TransportInv

\* What a callback leaves queued has a callback to come that sends it.
Comes(h) == h.queue # <<>> => h.writing # 0 \/ h.blocked

\* A flush sends the head of the queue unless a callback is to come that will.
LEMMA FlushedComes == ASSUME NEW h \in HeldRow, NEW a \in BOOLEAN PROVE Comes(Flushed(h, a))
<1>1. CASE h.writing # 0 \/ h.blocked \/ h.queue = <<>>
  BY <1>1 DEF Flushed, Comes
<1>2. CASE ~(h.writing # 0 \/ h.blocked \/ h.queue = <<>>)
  <2>1. Flushed(h, a).writing = Head(h.queue)
    BY <1>2 DEF Flushed, HeldRow
  <2>2. h.queue \in Seq(Requests) /\ h.queue # <<>>
    BY <1>2 DEF HeldRow
  <2>3. Head(h.queue) \in Requests
    BY <2>2, TailOf
  <2> QED
    BY <2>1, <2>3, NoRequestIsZero DEF Comes
<1> QED
  BY <1>1, <1>2

\* What a callback leaves is what waits after it.
LEMMA ComesOf == ASSUME NEW k, Comes(k), Becomes(k) PROVE NoLostWakeup'
BY DEF Comes, Becomes, NoLostWakeup

\* A transport that fails leaves nothing queued.
LEMMA FailedComes == ASSUME NEW h \in HeldRow, GiveUp(h) PROVE NoLostWakeup'
<1>1. Failed(h).queue = <<>>
  BY DEF Failed, HeldRow
<1> QED
  BY <1>1 DEF GiveUp, Becomes, NoLostWakeup

\* A request that is asked for is refused, or is sent or waits for a callback.
LEMMA RequestWakes == ASSUME TransportInv, NoLostWakeup, Request PROVE NoLostWakeup'
<1>1. PICK r \in Unsent : Refuse(r) \/ Admit(r)
  BY DEF Request
<1>2. r \in Requests /\ request[r] = New
  BY DEF Unsent
<1>3. CASE Refuse(r)
  BY <1>3 DEF Refuse, NoLostWakeup
<1>4. CASE Admit(r)
  <2> DEFINE w == [Now EXCEPT !.request[r].waiting = TRUE]
  <2>1. Cardinality(WaitingRequests) < MaxPending
    BY <1>4 DEF Admit
  <2>2. w \in HeldRow /\ w.queue = queue
    BY <1>2, <2>1, TakenOn DEF HeldSound
  <2>3. CASE \E a \in BOOLEAN : Becomes(Flushed([w EXCEPT !.queue = Append(@, r)], a))
    <3>1. PICK a \in BOOLEAN : Becomes(Flushed([w EXCEPT !.queue = Append(@, r)], a))
      BY <2>3
    <3> HIDE DEF w
    <3>2. Append(w.queue, r) \in Seq(Requests)
      BY <1>2, <2>2 DEF HeldRow
    <3> DEFINE q == Append(w.queue, r)
    <3> HIDE DEF q
    <3>3. [w EXCEPT !.queue = q] \in HeldRow
      BY <2>2, <3>2 DEF HeldRow, q
    <3>4. [w EXCEPT !.queue = Append(@, r)] \in HeldRow
      BY <3>3 DEF q
    <3> QED
      BY <3>1, <3>4, FlushedComes, ComesOf
  <2>4. CASE GiveUp(w)
    BY <2>2, <2>4, FailedComes
  <2> QED
    BY <1>4, <2>3, <2>4 DEF Admit, Invalidate
<1> QED
  BY <1>1, <1>3, <1>4

\* The request after one that is cancelled in the queue is sent, or is still to be.
LEMMA UnqueuedWakes ==
  ASSUME TransportInv, NEW r \in Requests, ~request[r].dispatched,
         NEW a \in BOOLEAN, Becomes(Unqueued(r, a))
  PROVE  NoLostWakeup'
<1> DEFINE w == "not_started"
           t == ToldAs(Now, r, w)
           rest == RemoveFirst(queue, r)
           h == [t EXCEPT !.queue = rest]
<1>1. HeldSound(Now) /\ w \in Words /\ w # "nothing"
  BY DEF TransportInv, Words
<1>2. t \in HeldRow /\ t.queue = queue
  BY <1>1, ToldRow
<1>3. rest \in Seq(Requests)
  BY <1>1, HeldIs, Removed
<1>4. Becomes(Flushed(h, a))
  BY <1>2 DEF Unqueued
<1> HIDE DEF t, rest
<1>5. h \in HeldRow
  BY <1>2, <1>3 DEF HeldRow
<1> QED
  BY <1>4, <1>5, FlushedComes, ComesOf

\* A write that has returned sends the next request, or the pipe is full.
LEMMA WriteReturnsWakes == ASSUME TransportInv, WriteReturns PROVE NoLostWakeup'
<1> DEFINE yes == TRUE
           entry == [request[writing] EXCEPT !.written = yes]
           rows == [request EXCEPT ![writing] = entry]
           h == [Now EXCEPT !.writing = 0, !.request = rows]
<1>1. /\ HeldSound(Now) /\ writing # 0
  BY DEF TransportInv, WriteReturns
<1>2. /\ Now \in HeldRow /\ Now.request = request
      /\ request \in [Requests -> CallRow] /\ writing \in Requests
  BY <1>1, HeldIs
<1>3. PICK a \in BOOLEAN : Becomes(Flushed(h, a))
  <2>1. PICK a \in BOOLEAN :
           Becomes(Flushed([Now EXCEPT !.writing = 0, !.request[writing].written = yes], a))
    BY DEF WriteReturns
  <2>2. [Now EXCEPT !.writing = 0, !.request[writing].written = yes] = h
    BY <1>2 DEF HeldRow
  <2> QED
    BY <2>1, <2>2
<1>4. yes \in BOOLEAN
  OBVIOUS
<1> HIDE DEF yes
<1>5. entry \in CallRow
  BY <1>2, <1>4 DEF CallRow
<1> HIDE DEF entry
<1>6. rows \in [Requests -> CallRow]
  BY <1>2, <1>5
<1> HIDE DEF rows
<1>7. h \in HeldRow
  BY <1>2, <1>6 DEF HeldRow
<1> QED
  BY <1>3, <1>7, FlushedComes, ComesOf

\* The pipe that has room again takes the next request, or a write is under way.
LEMMA DrainWakes == ASSUME TransportInv, Drain PROVE NoLostWakeup'
<1> DEFINE no == FALSE
           h == [Now EXCEPT !.blocked = no]
<1>1. Now \in HeldRow
  BY HeldIs DEF TransportInv
<1>2. PICK a \in BOOLEAN : Becomes(Flushed(h, a))
  BY DEF Drain
<1>3. no \in BOOLEAN
  OBVIOUS
<1> HIDE DEF no
<1>4. h \in HeldRow
  BY <1>1, <1>3 DEF HeldRow
<1> QED
  BY <1>2, <1>4, FlushedComes, ComesOf

\* A caller that gives up leaves the others a callback to come, or nothing queued.
LEMMA GivingUpWakes ==
  ASSUME TransportInv, NoLostWakeup, NEW r \in Requests, TimeoutRequest(r) \/ AbortRequest(r)
  PROVE  NoLostWakeup'
<1>1. HeldSound(Now) /\ Now \in HeldRow
  BY HeldIs DEF TransportInv
<1>2. CASE ~request[r].dispatched
  <2>1. PICK a \in BOOLEAN : Becomes(Unqueued(r, a))
    BY <1>2 DEF TimeoutRequest, AbortRequest
  <2> QED
    BY <1>2, <2>1, UnqueuedWakes
<1>3. CASE request[r].dispatched /\ Invalidate(Now)
  BY <1>1, <1>3, FailedComes DEF Invalidate
<1>4. CASE Becomes(ToldAs(Now, r, "unknown"))
  <2>1. "unknown" \in Words
    BY DEF Words
  <2>2. Comes(ToldAs(Now, r, "unknown"))
    BY <1>1, <2>1, ToldRow DEF Comes, NoLostWakeup
  <2> QED
    BY <1>4, <2>2, ComesOf
<1> QED
  BY <1>2, <1>3, <1>4 DEF TimeoutRequest, AbortRequest

\* A line the transport has read sends nothing and queues nothing.
LEMMA HandleLineWakes == ASSUME TransportInv, NoLostWakeup, HandleLine PROVE NoLostWakeup'
<1> DEFINE id == Head(output)
<1>1. HeldSound(Now) /\ Now \in HeldRow
  BY HeldIs DEF TransportInv
<1>2. CASE id \in WaitingRequests /\ Becomes(ToldAs(Now, id, "answered"))
  <2>1. "answered" \in Words /\ id \in Requests
    BY <1>2 DEF Words, WaitingRequests
  <2>2. Comes(ToldAs(Now, id, "answered"))
    BY <1>1, <2>1, ToldRow DEF Comes, NoLostWakeup
  <2> QED
    BY <1>2, <2>2, ComesOf
<1>3. CASE Invalidate(Now)
  BY <1>1, <1>3, FailedComes DEF Invalidate
<1>4. CASE UNCHANGED <<queue, writing, blocked>>
  BY <1>4 DEF NoLostWakeup
<1> QED
  BY <1>2, <1>3, <1>4 DEF HandleLine, heldVars

\* Closing, or a pipe or a child that goes, leaves nothing queued.
LEMMA GoingWakes ==
  ASSUME TransportInv, NoLostWakeup, Close \/ PipeFails \/ ChildCloses PROVE NoLostWakeup'
<1>1. Now \in HeldRow
  BY HeldIs DEF TransportInv
<1>2. CASE GiveUp(Now)
  BY <1>1, <1>2, FailedComes
<1>3. CASE UNCHANGED <<queue, writing, blocked>>
  BY <1>3 DEF NoLostWakeup
<1> QED
  BY <1>2, <1>3 DEF Close, PipeFails, ChildCloses, Invalidate, heldVars

\* An executable that does not start leaves nothing queued.
LEMMA SpawnFailsWakes == ASSUME SpawnFails PROVE NoLostWakeup'
<1> DEFINE h == [Now EXCEPT !.input = <<>>,
                   !.request = [r \in Requests |->
                      [request[r] EXCEPT !.dispatched = @ /\ ~request[r].waiting]]]
<1>1. Becomes(Failed(h))
  BY DEF SpawnFails, GiveUp
<1>2. Failed(h).queue = <<>>
  BY DEF Failed, Now
<1> QED
  BY <1>1, <1>2 DEF Becomes, NoLostWakeup

\* What is queued is sent by a callback that is to come: the one of the write under
\* way, or the drain of a full pipe. flushQueue is called wherever one of them ends.
THEOREM WhatWaitsIsWoken == TransportSpec => []NoLostWakeup
<1>1. TransportInit => NoLostWakeup
  BY DEF TransportInit, NoLostWakeup
<1>2. TransportInv /\ NoLostWakeup /\ [TransportNext]_transportVars => NoLostWakeup'
  <2> SUFFICES ASSUME TransportInv, NoLostWakeup, [TransportNext]_transportVars
               PROVE  NoLostWakeup'
    OBVIOUS
  <2>1. CASE Request
    BY <2>1, RequestWakes
  <2>2. CASE Close \/ PipeFails \/ ChildCloses
    BY <2>2, GoingWakes
  <2>3. CASE WriteReturns
    BY <2>3, WriteReturnsWakes
  <2>4. CASE Drain
    BY <2>4, DrainWakes
  <2>5. CASE SpawnFails
    BY <2>5, SpawnFailsWakes
  <2>6. ASSUME NEW r \in Requests, TimeoutRequest(r) \/ AbortRequest(r) PROVE NoLostWakeup'
    BY <2>6, GivingUpWakes
  <2>7. CASE HandleLine
    BY <2>7, HandleLineWakes
  <2>8. CASE ForceKill \/ ShutdownDeadline \/ ChildStarts \/ ChildActs \/ ChildGarbles \/ ChildDies
    <3>1. UNCHANGED <<queue, writing, blocked>>
      BY <2>8 DEF ForceKill, ShutdownDeadline, ChildStarts, ChildActs, ChildGarbles, ChildDies, heldVars
    <3> QED
      BY <3>1 DEF NoLostWakeup
  <2>9. CASE UNCHANGED transportVars
    BY <2>9 DEF transportVars, heldVars, NoLostWakeup
  <2> QED
    BY <2>1, <2>2, <2>3, <2>4, <2>5, <2>6, <2>7, <2>8, <2>9 DEF TransportNext
<1> QED
  BY <1>1, <1>2, TransportStands, PTL DEF TransportSpec
-----------------------------------------------------------------------------
(* Presence.                                                                 *)

Ledgers == [contracts : Nat, repair : BOOLEAN]
FrameRow == [live : BOOLEAN, frame : Materials, ledger : Ledgers]
Contracts == [frame : Materials, turn : Nat, number : Nat]
SessionRow == [frame : Materials, ledger : Ledgers, active : Contracts \cup {Nil}]
DoorTyped(h) == h \in [row : FrameRow \cup {Nil}, session : SessionRow \cup {Nil},
                       replay : {h.replay}, missed : BOOLEAN]

\* A row that is live is the session's, whatever was missed.
OneFrame(h) == h.session # Nil /\ h.row # Nil /\ h.row.live => h.row.frame = h.session.frame

\* What was not missed is in the row.
RowBacks(h) ==
    h.session # Nil /\ ~h.missed =>
       h.row = [live |-> TRUE, frame |-> h.session.frame, ledger |-> h.session.ledger]

PresenceInv == DoorTyped(Held) /\ OneFrame(Held) /\ RowBacks(Held) /\ turn \in Nat

\* What a door holds when the answer is put on record.
LEMMA RecordedKeeps ==
  ASSUME NEW h, DoorTyped(h), NEW key, NEW body, NEW outcome
  PROVE  LET k == Record(h, key, body, outcome) IN
         /\ DoorTyped(k) /\ k.row = h.row /\ k.session = h.session /\ k.missed = h.missed
<1> DEFINE k == Record(h, key, body, outcome)
<1>1. PICK x : k = [h EXCEPT !.replay = x]
  BY DEF Record
<1> HIDE DEF k
<1> QED
  BY <1>1 DEF DoorTyped, k

\* A session that is taken from the row is the row's.
LEMMA AdoptedKeeps ==
  ASSUME NEW h, DoorTyped(h), OneFrame(h), RowBacks(h)
  PROVE  DoorTyped(Adopted(h)) /\ OneFrame(Adopted(h)) /\ RowBacks(Adopted(h))
<1>1. CASE h.session = Nil /\ h.row # Nil /\ h.row.live
  <2> DEFINE s == [frame |-> h.row.frame, ledger |-> h.row.ledger, active |-> Nil]
             k == [h EXCEPT !.session = s]
  <2>1. Adopted(h) = k
    BY <1>1 DEF Adopted
  <2>2. h.row \in FrameRow
    BY <1>1 DEF DoorTyped
  <2>3. s \in SessionRow /\ s.frame = h.row.frame /\ s.ledger = h.row.ledger
    BY <2>2 DEF FrameRow, SessionRow
  <2> HIDE DEF s
  <2>4. DoorTyped(k) /\ k.row = h.row /\ k.session = s
    BY <2>3 DEF DoorTyped
  <2>5. h.row = [live |-> TRUE, frame |-> s.frame, ledger |-> s.ledger]
    <3>1. h.row.live = TRUE
      BY <1>1, <2>2 DEF FrameRow
    <3> QED
      BY <2>2, <2>3, <3>1 DEF FrameRow
  <2> HIDE DEF k
  <2> QED
    BY <2>1, <2>3, <2>4, <2>5 DEF OneFrame, RowBacks
<1>2. CASE ~(h.session = Nil /\ h.row # Nil /\ h.row.live)
  BY <1>2 DEF Adopted
<1> QED
  BY <1>1, <1>2

\* The next write repairs what was missed.
LEMMA PersistedBacks ==
  ASSUME NEW h, DoorTyped(h), OneFrame(h), NEW ok \in BOOLEAN
  PROVE  DoorTyped(Persisted(h, ok)) /\ OneFrame(Persisted(h, ok)) /\ RowBacks(Persisted(h, ok))
<1> DEFINE yes == TRUE
           no == FALSE
           k == Persisted(h, ok)
<1>1. CASE h.session = Nil
  BY <1>1 DEF Persisted, OneFrame, RowBacks
<1>2. CASE h.session # Nil /\ ~ok
  <2>1. k = [h EXCEPT !.missed = yes]
    BY <1>2 DEF Persisted
  <2>2. yes \in BOOLEAN /\ yes = TRUE
    OBVIOUS
  <2> HIDE DEF k, yes
  <2>3. DoorTyped(k) /\ k.row = h.row /\ k.session = h.session /\ k.missed = yes
    BY <2>1, <2>2 DEF DoorTyped
  <2> QED
    BY <2>2, <2>3 DEF OneFrame, RowBacks, k
<1>3. CASE h.session # Nil /\ ok
  <2> DEFINE row1 == [h.row EXCEPT !.ledger = h.session.ledger]
             row2 == [live |-> yes, frame |-> h.session.frame, ledger |-> h.session.ledger]
             new == IF h.row # Nil /\ h.row.live THEN row1 ELSE row2
  <2>1. k = [h EXCEPT !.missed = no, !.row = new]
    BY <1>3 DEF Persisted, DoorTyped
  <2>2. h.session \in SessionRow
    BY <1>3 DEF DoorTyped
  <2>3. yes \in BOOLEAN /\ no \in BOOLEAN /\ yes = TRUE /\ no = FALSE
    OBVIOUS
  <2> HIDE DEF k, yes, no
  <2>4. row2 \in FrameRow
    BY <2>2, <2>3 DEF FrameRow, SessionRow
  <2>5. new = row2
    <3>1. CASE h.row # Nil /\ h.row.live
      <4>1. h.row \in FrameRow /\ h.row.frame = h.session.frame
        BY <1>3, <3>1 DEF DoorTyped, OneFrame
      <4>2. h.row.live = yes
        BY <2>3, <3>1, <4>1 DEF FrameRow
      <4>3. row1 = row2
        BY <2>2, <4>1, <4>2 DEF FrameRow
      <4> QED
        BY <3>1, <4>3
    <3>2. CASE ~(h.row # Nil /\ h.row.live)
      BY <3>2
    <3> QED
      BY <3>1, <3>2
  <2>6. row2 = [live |-> TRUE, frame |-> h.session.frame, ledger |-> h.session.ledger]
        /\ row2.frame = h.session.frame
    BY <2>3
  <2> HIDE DEF new, row1, row2
  <2>7. DoorTyped(k) /\ k.row = row2 /\ k.session = h.session
    BY <2>1, <2>3, <2>4, <2>5 DEF DoorTyped
  <2> QED
    BY <2>6, <2>7 DEF OneFrame, RowBacks, k
<1> QED
  BY <1>1, <1>2, <1>3

\* An open leaves a session for the frame it names, or the one that is there.
LEMMA OpenedKeeps ==
  ASSUME NEW h, DoorTyped(h), OneFrame(h), RowBacks(h), NEW m \in Materials
  PROVE  DoorTyped(Opened(h, m).held) /\ OneFrame(Opened(h, m).held)
<1> DEFINE a == Adopted(h)
           key == <<"open">>
           again == Recorded(a, key, m)
<1>1. DoorTyped(a) /\ OneFrame(a) /\ RowBacks(a)
  BY AdoptedKeeps
<1>2. CASE again # {}
  <2>1. Opened(h, m).held = a
    BY <1>2 DEF Opened, Answered
  <2> QED
    BY <1>1, <2>1
<1>3. CASE again = {} /\ a.session # Nil
  <2>1. Opened(h, m).held = Record(a, key, m, a.session.frame)
    BY <1>3 DEF Opened, Answered
  <2> HIDE DEF a, key
  <2> DEFINE k == Record(a, key, m, a.session.frame)
  <2>2. DoorTyped(k) /\ k.row = a.row /\ k.session = a.session
    BY <1>1, RecordedKeeps
  <2> HIDE DEF k
  <2> QED
    BY <1>1, <2>1, <2>2 DEF OneFrame, k
<1>4. CASE again = {} /\ a.session = Nil
  <2> DEFINE fresh == [frame |-> m, ledger |-> Carried(a), active |-> Nil]
             b == [a EXCEPT !.session = fresh]
             k == Record(b, key, m, m)
  <2>1. Opened(h, m).held = k
    BY <1>4 DEF Opened, Answered
  <2>2. Carried(a) \in Ledgers
    BY <1>1 DEF Carried, DoorTyped, FrameRow, NoLedger, Ledgers
  <2>3. fresh \in SessionRow
    BY <2>2 DEF SessionRow
  <2>4. ~(a.row # Nil /\ a.row.live)
    <3>1. CASE h.session = Nil /\ h.row # Nil /\ h.row.live
      <4> DEFINE s == [frame |-> h.row.frame, ledger |-> h.row.ledger, active |-> Nil]
      <4>1. a = [h EXCEPT !.session = s]
        BY <3>1 DEF Adopted
      <4>2. h.row \in FrameRow
        BY <3>1 DEF DoorTyped
      <4>3. s \in [frame : Materials, ledger : Ledgers, active : {Nil}]
        BY <4>2 DEF FrameRow
      <4> HIDE DEF s
      <4>4. a.session = s
        BY <4>1 DEF DoorTyped
      <4> QED
        BY <1>4, <4>3, <4>4, NilIsNothing DEF Ledgers, Contracts
    <3>2. CASE ~(h.session = Nil /\ h.row # Nil /\ h.row.live)
      BY <1>4, <3>2 DEF Adopted
    <3> QED
      BY <3>1, <3>2
  <2> HIDE DEF a, fresh
  <2>5. DoorTyped(b) /\ b.row = a.row
    BY <1>1, <2>3 DEF DoorTyped
  <2> HIDE DEF b, key
  <2>6. DoorTyped(k) /\ k.row = a.row
    BY <2>5, RecordedKeeps
  <2> HIDE DEF k
  <2> QED
    BY <2>1, <2>4, <2>6 DEF OneFrame
<1> QED
  BY <1>2, <1>3, <1>4

\* A contract is compiled for the frame of the session; a refusal leaves it as it was.
LEMMA CompiledKeeps ==
  ASSUME NEW h, DoorTyped(h), OneFrame(h), RowBacks(h), NEW target, NEW t \in Nat
  PROVE  /\ DoorTyped(Compiled(h, target, t).held) /\ OneFrame(Compiled(h, target, t).held)
         /\ Compiled(h, target, t).outcome = Nil => RowBacks(Compiled(h, target, t).held)
<1> DEFINE a == Adopted(h)
           key == <<"compile", t>>
           again == Recorded(a, key, target)
<1>1. DoorTyped(a) /\ OneFrame(a) /\ RowBacks(a)
  BY AdoptedKeeps
<1>2. CASE again # {} \/ Conflict(a, key, target) \/ a.session = Nil \/ a.session.frame # target
  <2>1. Compiled(h, target, t).held = a
    BY <1>2 DEF Compiled, Answered, Refusal
  <2> QED
    BY <1>1, <2>1
<1>3. CASE ~(again # {} \/ Conflict(a, key, target) \/ a.session = Nil \/ a.session.frame # target)
  <2> DEFINE number == a.session.ledger.contracts + 1
             contract == [frame |-> target, turn |-> t, number |-> number]
             b == [a EXCEPT !.session.ledger.contracts = number, !.session.active = contract]
             k == Record(b, key, target, contract)
  <2>1. Compiled(h, target, t) = Answered(k, contract)
    BY <1>3 DEF Compiled
  <2>2. a.session \in SessionRow /\ a.session.frame = target
    BY <1>1, <1>3 DEF DoorTyped
  <2>3. a.session.ledger \in Ledgers
    BY <2>2 DEF SessionRow
  <2>4. number \in Nat
    BY <2>3 DEF Ledgers
  <2> HIDE DEF a, number
  <2>5. contract \in Contracts
    BY <2>2, <2>4 DEF Contracts, SessionRow
  <2>6. contract # Nil
    BY <2>5, NilIsNothing DEF Contracts
  <2> HIDE DEF contract, key
  <2> DEFINE l == [a.session.ledger EXCEPT !.contracts = number]
             s == [a.session EXCEPT !.ledger = l, !.active = contract]
  <2>7. l \in Ledgers
    BY <2>3, <2>4 DEF Ledgers
  <2>8. b = [a EXCEPT !.session = s]
    BY <1>1, <2>2 DEF DoorTyped, SessionRow
  <2> HIDE DEF l
  <2>9. s \in SessionRow /\ s.frame = a.session.frame
    BY <2>2, <2>5, <2>7 DEF SessionRow
  <2> HIDE DEF s, b
  <2>10. DoorTyped(b) /\ b.row = a.row /\ b.session = s
    BY <1>1, <2>8, <2>9 DEF DoorTyped
  <2>11. DoorTyped(k) /\ k.row = a.row /\ k.session = s
    BY <2>10, RecordedKeeps
  <2> HIDE DEF k
  <2>12. OneFrame(k)
    <3>1. a.session # Nil
      BY <1>3 DEF a
    <3> QED
      BY <1>1, <2>9, <2>11, <3>1 DEF OneFrame
  <2> QED
    BY <2>1, <2>6, <2>11, <2>12 DEF Answered
<1> QED
  BY <1>2, <1>3

\* A settled turn changes the ledger of the session in memory.
LEMMA SettledKeeps ==
  ASSUME NEW h, DoorTyped(h), OneFrame(h), RowBacks(h), NEW contract, contract # Nil, NEW reply
  PROVE  /\ DoorTyped(SettledBy(h, contract, reply).held) /\ OneFrame(SettledBy(h, contract, reply).held)
         /\ SettledBy(h, contract, reply).outcome = Nil => RowBacks(SettledBy(h, contract, reply).held)
<1> DEFINE key == <<"settle", contract>>
           again == Recorded(h, key, reply)
<1>1. CASE again # {} \/ Conflict(h, key, reply) \/ h.session = Nil \/ h.session.active # contract
  <2>1. SettledBy(h, contract, reply).held = h
    BY <1>1 DEF SettledBy, Answered, Refusal
  <2> QED
    BY <2>1
<1>2. CASE ~(again # {} \/ Conflict(h, key, reply) \/ h.session = Nil \/ h.session.active # contract)
  <2> DEFINE now == h.session.ledger.repair \/ reply = Silence
             b == [h EXCEPT !.session.ledger.repair = now]
             k == Record(b, key, reply, contract)
             l == [h.session.ledger EXCEPT !.repair = now]
             s == [h.session EXCEPT !.ledger = l]
  <2>1. h.session \in SessionRow
    BY <1>2 DEF DoorTyped
  <2>2. h.session.ledger \in Ledgers /\ now \in BOOLEAN
    BY <2>1 DEF SessionRow
  <2>3. b = [h EXCEPT !.session = s]
    BY <2>1 DEF DoorTyped, SessionRow
  <2>4. SettledBy(h, contract, reply) = Answered(k, contract)
    <3>1. [h EXCEPT !.session.ledger.repair = @ \/ reply = Silence] = b
      BY <2>1 DEF DoorTyped, SessionRow
    <3> HIDE DEF b
    <3>2. SettledBy(h, contract, reply)
            = Answered(Record([h EXCEPT !.session.ledger.repair = @ \/ reply = Silence],
                              key, reply, contract), contract)
      BY <1>2 DEF SettledBy
    <3> QED
      BY <3>1, <3>2
  <2> HIDE DEF now, key
  <2>5. l \in Ledgers
    BY <2>2 DEF Ledgers
  <2> HIDE DEF l
  <2>6. s \in SessionRow /\ s.frame = h.session.frame
    BY <2>1, <2>5 DEF SessionRow
  <2> HIDE DEF s, b
  <2>7. DoorTyped(b) /\ b.row = h.row /\ b.session = s
    BY <2>3, <2>6 DEF DoorTyped
  <2>8. DoorTyped(k) /\ k.row = h.row /\ k.session = s
    BY <2>7, RecordedKeeps
  <2> HIDE DEF k
  <2>9. OneFrame(k)
    <3>1. h.session # Nil
      BY <1>2
    <3> QED
      BY <2>6, <2>8, <3>1 DEF OneFrame
  <2> QED
    BY <2>4, <2>8, <2>9 DEF Answered
<1> QED
  BY <1>1, <1>2

\* A close that seals the session leaves none; one that replays leaves what is there,
\* and a miss when it closed the row under it.
LEMMA ClosedKeeps ==
  ASSUME NEW h, DoorTyped(h), OneFrame(h), RowBacks(h), NEW boat, NEW ok \in BOOLEAN
  PROVE  LET k == ClosedBy(h, boat, ok).held IN DoorTyped(k) /\ OneFrame(k) /\ RowBacks(k)
<1> DEFINE key == <<"close", boat>>
           a == Adopted(h)
           again == Recorded(a, key, Nil) # {}
           b == [a EXCEPT !.session = Nil]
           sealed == Record(b, key, Nil, a.session)
           gone == IF again THEN a ELSE sealed
           late == again /\ (ok \/ h.missed)
           no == FALSE
<1>1. DoorTyped(a) /\ OneFrame(a) /\ RowBacks(a) /\ a.row = h.row /\ a.missed = h.missed
  <2>1. a.row = h.row /\ a.missed = h.missed
    BY DEF Adopted, DoorTyped
  <2> QED
    BY <2>1, AdoptedKeeps
<1>2. CASE a.session = Nil
  <2>1. ClosedBy(h, boat, ok).held = a
    BY <1>2 DEF ClosedBy, Answered, Refusal
  <2> QED
    BY <1>1, <2>1
<1>3. CASE a.session # Nil
  <2> DEFINE shutRow == [a.row EXCEPT !.live = no, !.ledger = a.session.ledger]
             shut == IF ok /\ a.row # Nil /\ a.row.live THEN [gone EXCEPT !.row = shutRow] ELSE gone
             k == [shut EXCEPT !.missed = late]
  <2>1. a.session \in SessionRow /\ a.session.ledger \in Ledgers
    BY <1>1, <1>3 DEF DoorTyped, SessionRow
  <2>2. DoorTyped(gone) /\ gone.row = a.row /\ gone.missed = a.missed
        /\ (again => gone = a) /\ (~again => gone.session = Nil)
    <3>1. DoorTyped(b) /\ b.row = a.row /\ b.missed = a.missed /\ b.session = Nil
      BY <1>1 DEF DoorTyped
    <3> HIDE DEF a, b, key
    <3>2. DoorTyped(sealed) /\ sealed.row = b.row /\ sealed.session = b.session /\ sealed.missed = b.missed
      BY <3>1, RecordedKeeps
    <3> HIDE DEF sealed
    <3> QED
      BY <1>1, <3>1, <3>2
  <2>3. ClosedBy(h, boat, ok).held = k
    <3> DEFINE g == IF Recorded(a, key, Nil) # {} THEN a ELSE Record([a EXCEPT !.session = Nil], key, Nil, a.session)
               u == IF ok /\ a.row # Nil /\ a.row.live
                    THEN [g EXCEPT !.row.live = FALSE, !.row.ledger = a.session.ledger] ELSE g
    <3>1. ClosedBy(h, boat, ok).held = [u EXCEPT !.missed = again /\ (ok \/ @)]
      BY <1>3 DEF ClosedBy, Answered
    <3>2. g = gone
      OBVIOUS
    <3> HIDE DEF g, gone, again, a
    <3>3. u = shut
      BY <2>2, <3>2 DEF DoorTyped
    <3>4. u.missed = h.missed /\ u = [u EXCEPT !.missed = u.missed]
      BY <1>1, <2>2, <3>2 DEF DoorTyped
    <3> HIDE DEF u, shut
    <3> QED
      BY <3>1, <3>3, <3>4
  <2>4. late \in BOOLEAN /\ no \in BOOLEAN /\ no = FALSE
    BY <1>1 DEF DoorTyped
  <2> HIDE DEF gone, a, no
  <2>5. a.row # Nil => a.row \in FrameRow
    BY <1>1 DEF DoorTyped
  <2>6. a.row # Nil => shutRow \in FrameRow
    BY <2>1, <2>4, <2>5 DEF FrameRow
  <2>7. DoorTyped(shut) /\ shut.session = gone.session
        /\ shut.row = (IF ok /\ a.row # Nil /\ a.row.live THEN shutRow ELSE a.row)
    BY <2>2, <2>6 DEF DoorTyped
  <2> HIDE DEF shut, late
  <2>8. DoorTyped(k) /\ k.session = shut.session /\ k.row = shut.row /\ k.missed = late
    BY <2>4, <2>7 DEF DoorTyped
  <2> HIDE DEF k
  <2>9. CASE ~again
    BY <2>2, <2>3, <2>7, <2>8, <2>9 DEF OneFrame, RowBacks
  <2>10. CASE again /\ ok
    <3>1. late
      BY <2>10 DEF late
    <3>2. CASE a.row # Nil /\ a.row.live
      <4>1. ~shutRow.live
        BY <2>4, <2>5, <3>2 DEF FrameRow
      <4> QED
        BY <2>3, <2>7, <2>8, <2>10, <3>1, <3>2, <4>1 DEF OneFrame, RowBacks
    <3>3. CASE ~(a.row # Nil /\ a.row.live)
      BY <2>3, <2>7, <2>8, <3>1, <3>3 DEF OneFrame, RowBacks
    <3> QED
      BY <3>2, <3>3
  <2>11. CASE again /\ ~ok
    <3>1. late <=> a.missed
      BY <1>1, <2>11 DEF late
    <3>2. k.row = a.row /\ k.session = a.session
      BY <2>2, <2>7, <2>8, <2>11
    <3> QED
      BY <1>1, <2>3, <2>8, <3>1, <3>2 DEF OneFrame, RowBacks
  <2> QED
    BY <2>9, <2>10, <2>11
<1> QED
  BY <1>2, <1>3

\* What a door leaves is what the Host and the store hold.
LEMMA HoldsHeld ==
  ASSUME NEW k, DoorTyped(k), OneFrame(k), RowBacks(k), Holds(k), turn' \in Nat
  PROVE  PresenceInv'
<1>1. k = [row |-> k.row, session |-> k.session, replay |-> k.replay, missed |-> k.missed]
  BY DEF DoorTyped
<1>2. Held' = k
  BY <1>1 DEF Holds, Held
<1> QED
  BY <1>2 DEF PresenceInv

\* The adapter moves, and neither the Host nor the store.
LEMMA AdapterMoves ==
  ASSUME PresenceInv, UNCHANGED <<row, session, missed>>, turn' \in Nat PROVE PresenceInv'
<1> DEFINE h == Held
           k == [h EXCEPT !.replay = replay']
<1>1. /\ h.row = row /\ h.session = session /\ h.missed = missed
      /\ DoorTyped(h) /\ OneFrame(h) /\ RowBacks(h)
  BY DEF PresenceInv, Held
<1>2. Holds(k) /\ k.row = h.row /\ k.session = h.session /\ k.missed = h.missed
  BY DEF Holds, Held
<1> HIDE DEF h
<1>3. DoorTyped(k)
  BY <1>1 DEF DoorTyped
<1> HIDE DEF k
<1>4. OneFrame(k) /\ RowBacks(k)
  BY <1>1, <1>2 DEF OneFrame, RowBacks
<1> QED
  BY <1>2, <1>3, <1>4, HoldsHeld

\* An open is answered and persisted, or lost on its way.
LEMMA OpenFrameKeeps == ASSUME PresenceInv, OpenFrame PROVE PresenceInv'
<1>0. turn' \in Nat /\ DoorTyped(Held) /\ OneFrame(Held) /\ RowBacks(Held)
  BY DEF OpenFrame, PresenceInv
<1>1. ASSUME NEW m \in Materials, NEW ok \in BOOLEAN, Holds(Persisted(Opened(Held, m).held, ok))
      PROVE  PresenceInv'
  <2> DEFINE h == Opened(Held, m).held
  <2>1. DoorTyped(h) /\ OneFrame(h)
    BY <1>0, OpenedKeeps
  <2> HIDE DEF h
  <2>2. Holds(Persisted(h, ok))
    BY <1>1 DEF h
  <2> QED
    BY <1>0, <2>1, <2>2, PersistedBacks, HoldsHeld
<1>2. CASE UNCHANGED <<row, session, replay, missed>>
  BY <1>0, <1>2, AdapterMoves
<1> QED
  BY <1>1, <1>2 DEF OpenFrame

\* A contract is persisted before it is answered; a refusal changes no row.
LEMMA CompileTurnKeeps == ASSUME PresenceInv, CompileTurn PROVE PresenceInv'
<1>0. turn' \in Nat /\ turn \in Nat /\ DoorTyped(Held) /\ OneFrame(Held) /\ RowBacks(Held)
  BY DEF CompileTurn, PresenceInv
<1> DEFINE out == Compiled(Held, frame, turn)
<1>1. /\ DoorTyped(out.held) /\ OneFrame(out.held)
      /\ out.outcome = Nil => RowBacks(out.held)
  BY <1>0, CompiledKeeps
<1>2. \/ out.outcome = Nil /\ Holds(out.held)
      \/ \E ok \in BOOLEAN : Holds(Persisted(out.held, ok))
      \/ UNCHANGED <<row, session, replay, missed>>
  BY DEF CompileTurn
<1> HIDE DEF out
<1>3. CASE out.outcome = Nil /\ Holds(out.held)
  BY <1>0, <1>1, <1>3, HoldsHeld
<1>4. ASSUME NEW ok \in BOOLEAN, Holds(Persisted(out.held, ok)) PROVE PresenceInv'
  BY <1>0, <1>1, <1>4, PersistedBacks, HoldsHeld
<1>5. CASE UNCHANGED <<row, session, replay, missed>>
  BY <1>0, <1>5, AdapterMoves
<1> QED
  BY <1>2, <1>3, <1>4, <1>5

\* A turn is settled in memory and in the row.
LEMMA SettleTurnKeeps == ASSUME PresenceInv, SettleTurn PROVE PresenceInv'
<1>0. turn' \in Nat /\ DoorTyped(Held) /\ OneFrame(Held) /\ RowBacks(Held) /\ pending # Nil
  BY DEF SettleTurn, PresenceInv
<1>1. PICK reply \in Replies, ok \in BOOLEAN :
         LET out == SettledBy(Held, pending, reply)
         IN  \/ out.outcome = Nil /\ Holds(out.held)
             \/ Holds(Persisted(out.held, ok))
  BY DEF SettleTurn
<1> DEFINE out == SettledBy(Held, pending, reply)
<1>2. /\ DoorTyped(out.held) /\ OneFrame(out.held)
      /\ out.outcome = Nil => RowBacks(out.held)
  BY <1>0, SettledKeeps
<1>3. (out.outcome = Nil /\ Holds(out.held)) \/ Holds(Persisted(out.held, ok))
  BY <1>1
<1> HIDE DEF out
<1>4. CASE out.outcome = Nil /\ Holds(out.held)
  BY <1>0, <1>2, <1>4, HoldsHeld
<1>5. CASE Holds(Persisted(out.held, ok))
  BY <1>0, <1>2, <1>5, PersistedBacks, HoldsHeld
<1> QED
  BY <1>3, <1>4, <1>5

\* A session goes to sleep.
LEMMA CloseFrameKeeps == ASSUME PresenceInv, CloseFrame PROVE PresenceInv'
<1>0. turn' \in Nat /\ DoorTyped(Held) /\ OneFrame(Held) /\ RowBacks(Held)
  BY DEF CloseFrame, PresenceInv
<1>1. PICK boat \in Boats, ok \in BOOLEAN : Holds(ClosedBy(Held, boat, ok).held)
  BY DEF CloseFrame
<1> DEFINE k == ClosedBy(Held, boat, ok).held
<1>2. DoorTyped(k) /\ OneFrame(k) /\ RowBacks(k)
  BY <1>0, ClosedKeeps
<1>3. Holds(k)
  BY <1>1
<1> HIDE DEF k
<1> QED
  BY <1>0, <1>2, <1>3, HoldsHeld

\* A Host that starts again holds no session.
LEMMA RestartHostKeeps == ASSUME PresenceInv, RestartHost PROVE PresenceInv'
<1> DEFINE h == Held
           no == FALSE
           none == <<>>
           k == [h EXCEPT !.session = Nil, !.replay = none, !.missed = no]
<1>1. DoorTyped(h) /\ no \in BOOLEAN /\ turn' \in Nat
  BY DEF PresenceInv, RestartHost
<1>2. Holds(k)
  BY DEF RestartHost, Holds, Held
<1> HIDE DEF h, no, none
<1>3. DoorTyped(k) /\ k.session = Nil
  BY <1>1 DEF DoorTyped
<1> HIDE DEF k
<1>4. OneFrame(k) /\ RowBacks(k)
  BY <1>3 DEF OneFrame, RowBacks
<1> QED
  BY <1>1, <1>2, <1>3, <1>4, HoldsHeld

\* No session has been opened yet.
LEMMA PresenceStarts == ASSUME PresenceInit PROVE PresenceInv
<1>1. /\ Held.row = Nil /\ Held.session = Nil /\ turn \in Nat
      /\ Held \in [row : {Nil}, session : {Nil}, replay : {Held.replay}, missed : BOOLEAN]
  BY DEF PresenceInit, Held
<1> QED
  BY <1>1 DEF PresenceInv, DoorTyped, OneFrame, RowBacks

\* Every step of the adapter and the Host keeps the invariant.
LEMMA PresenceSteps == ASSUME PresenceInv, [PresenceNext]_presenceVars PROVE PresenceInv'
<1>1. CASE BeginTurn
  <2>1. UNCHANGED <<row, session, missed>> /\ turn' \in Nat
    BY <1>1 DEF BeginTurn, PresenceInv
  <2> QED
    BY <2>1, AdapterMoves
<1>2. CASE OpenFrame
  BY <1>2, OpenFrameKeeps
<1>3. CASE CompileTurn
  BY <1>3, CompileTurnKeeps
<1>4. CASE SettleTurn
  BY <1>4, SettleTurnKeeps
<1>5. CASE CloseFrame
  BY <1>5, CloseFrameKeeps
<1>6. CASE RestartHost
  BY <1>6, RestartHostKeeps
<1>7. CASE EndTurn \/ CompactTranscript \/ ResumeSession \/ OtherSessions \/ UNCHANGED presenceVars
  <2>1. UNCHANGED <<row, session, missed>> /\ turn' \in Nat
    BY <1>7 DEF EndTurn, CompactTranscript, ResumeSession, OtherSessions, presenceVars, PresenceInv
  <2> QED
    BY <2>1, AdapterMoves
<1> QED
  BY <1>1, <1>2, <1>3, <1>4, <1>5, <1>6, <1>7 DEF PresenceNext

\* A missed write is repaired by the next (server.rs:1086): the row is live with the
\* frame and the ledger of the session in memory unless the last write of them failed.
THEOREM RowIsTheSessions == PresenceSpec => []RowFollowsMemory
<1>1. ASSUME PresenceInv PROVE RowFollowsMemory
  BY <1>1 DEF PresenceInv, RowBacks, RowFollowsMemory, Held
<1> QED
  BY <1>1, PresenceStarts, PresenceSteps, PTL DEF PresenceSpec

-----------------------------------------------------------------------------
(* What a session learned.                                                   *)

\* The ledger that counts says that a repair is owed: the session's, or while
\* there is none the row's.
Knows(h) == IF h.session # Nil THEN h.session.ledger.repair = TRUE
            ELSE h.row # Nil /\ h.row.ledger.repair = TRUE

\* The settling of a silence.
Silent(key, body) == key[1] = "settle" /\ body = Silence

\* No silence is on record before the session has learned of one.
SilencesKnown(replays, known) ==
    \E S : replays \in Seq(S) /\ \A r \in S : Silent(r.key, r.body) => known

Learning ==
    /\ learned /\ ~lossy => Knows(Held)
    /\ SilencesKnown(replay, learned)

\* The entry of another request is not a silence, and takes the place of one at most.
LEMMA RecordedTells ==
  ASSUME NEW h, DoorTyped(h), NEW key, NEW body, NEW outcome, NEW known,
         SilencesKnown(h.replay, known), Silent(key, body) => known
  PROVE  SilencesKnown(Record(h, key, body, outcome).replay, known)
<1> DEFINE entry == [key |-> key, body |-> body, outcome |-> outcome]
           old == {i \in DOMAIN h.replay : h.replay[i].key = key}
           i0 == CHOOSE i \in old : TRUE
           others == IF old = {} THEN h.replay ELSE RemoveAt(h.replay, i0)
           all == Append(others, entry)
           x == IF Len(all) > ReplayLimit THEN Tail(all) ELSE all
<1>1. PICK S : h.replay \in Seq(S) /\ \A r \in S : Silent(r.key, r.body) => known
  BY DEF SilencesKnown
<1>2. others \in Seq(S)
  <2>1. CASE old # {}
    <3>1. i0 \in old
      BY <2>1
    <3>2. i0 \in 1..Len(h.replay)
      BY <1>1, <3>1
    <3> HIDE DEF i0, old
    <3>3. SubSeq(h.replay, 1, i0 - 1) \in Seq(S) /\ SubSeq(h.replay, i0 + 1, Len(h.replay)) \in Seq(S)
      <4>1. Len(h.replay) \in Nat /\ \A i \in 1..Len(h.replay) : h.replay[i] \in S
        BY <1>1
      <4>2. \A i \in 1..(i0 - 1) : h.replay[i] \in S
        BY <3>2, <4>1
      <4>3. \A i \in (i0 + 1)..Len(h.replay) : h.replay[i] \in S
        BY <3>2, <4>1
      <4> QED
        BY <1>1, <3>2, <4>1, <4>2, <4>3, SubSeqProperties
    <3>4. RemoveAt(h.replay, i0) = SubSeq(h.replay, 1, i0 - 1) \o SubSeq(h.replay, i0 + 1, Len(h.replay))
      BY DEF RemoveAt
    <3> HIDE DEF others
    <3>5. RemoveAt(h.replay, i0) \in Seq(S)
      BY <3>3, <3>4, ConcatProperties
    <3> QED
      BY <2>1, <3>5 DEF others
  <2>2. CASE old = {}
    BY <1>1, <2>2
  <2> QED
    BY <2>1, <2>2
<1> DEFINE T == S \cup {entry}
<1>3. \A r \in T : Silent(r.key, r.body) => known
  BY <1>1
<1> HIDE DEF others, entry
<1>4. all \in Seq(T) /\ all # <<>>
  <2>1. others \in Seq(T)
    BY <1>2
  <2> QED
    BY <2>1
<1> HIDE DEF all, T
<1>5. x \in Seq(T)
  BY <1>4
<1>6. Record(h, key, body, outcome) = [h EXCEPT !.replay = x]
  BY DEF Record, x, all, others, entry
<1> HIDE DEF x
<1>7. Record(h, key, body, outcome).replay = x
  BY <1>6 DEF DoorTyped
<1> QED
  BY <1>3, <1>5, <1>7 DEF SilencesKnown

\* A session that is taken from the row knows what the row does.
LEMMA AdoptedKnows ==
  ASSUME NEW h, DoorTyped(h)
  PROVE  /\ Knows(h) => Knows(Adopted(h))
         /\ Adopted(h).replay = h.replay /\ Adopted(h).row = h.row /\ Adopted(h).missed = h.missed
         /\ Adopted(h).session = Nil => h.session = Nil /\ ~(h.row # Nil /\ h.row.live)
<1>1. CASE h.session = Nil /\ h.row # Nil /\ h.row.live
  <2> DEFINE s == [frame |-> h.row.frame, ledger |-> h.row.ledger, active |-> Nil]
  <2>1. Adopted(h) = [h EXCEPT !.session = s]
    BY <1>1 DEF Adopted
  <2>2. h.row \in FrameRow
    BY <1>1 DEF DoorTyped
  <2>3. s \in [frame : Materials, ledger : Ledgers, active : {Nil}] /\ s.ledger = h.row.ledger
    BY <2>2 DEF FrameRow
  <2> HIDE DEF s
  <2>4. s # Nil
    BY <2>3, NilIsNothing DEF Ledgers, Contracts
  <2>5. Adopted(h).session = s /\ Adopted(h).replay = h.replay /\ Adopted(h).row = h.row
        /\ Adopted(h).missed = h.missed
    BY <2>1 DEF DoorTyped
  <2> QED
    BY <1>1, <2>3, <2>4, <2>5 DEF Knows
<1>2. CASE ~(h.session = Nil /\ h.row # Nil /\ h.row.live)
  BY <1>2 DEF Adopted
<1> QED
  BY <1>1, <1>2

\* A write changes nothing of the session, and without one nothing of the row.
LEMMA PersistedKnows ==
  ASSUME NEW h, DoorTyped(h), NEW ok \in BOOLEAN
  PROVE  /\ Knows(h) => Knows(Persisted(h, ok))
         /\ Persisted(h, ok).replay = h.replay
<1>1. CASE h.session = Nil
  BY <1>1 DEF Persisted
<1>2. CASE h.session # Nil
  <2>1. PICK m, w : Persisted(h, ok) = [h EXCEPT !.missed = m, !.row = w]
    <3>1. CASE ok
      <4>1. PICK v : Persisted(h, ok) = [h EXCEPT !.missed = FALSE, !.row = v]
        BY <1>2, <3>1 DEF Persisted, DoorTyped
      <4> QED
        BY <4>1
    <3>2. CASE ~ok
      <4>1. Persisted(h, ok) = [h EXCEPT !.missed = TRUE]
        BY <1>2, <3>2 DEF Persisted
      <4>2. \A k, m : k = [h EXCEPT !.missed = m] => k = [h EXCEPT !.missed = m, !.row = h.row]
        BY DEF DoorTyped
      <4> QED
        BY <4>1, <4>2
    <3> QED
      BY <3>1, <3>2
  <2>2. Persisted(h, ok).session = h.session /\ Persisted(h, ok).replay = h.replay
    BY <2>1 DEF DoorTyped
  <2> QED
    BY <1>2, <2>2 DEF Knows
<1> QED
  BY <1>1, <1>2

\* An open takes the ledger of the row that slept.
LEMMA OpenedKnows ==
  ASSUME NEW h, DoorTyped(h), OneFrame(h), RowBacks(h), NEW m \in Materials, NEW known,
         SilencesKnown(h.replay, known)
  PROVE  /\ Knows(h) => Knows(Opened(h, m).held)
         /\ SilencesKnown(Opened(h, m).held.replay, known)
<1> DEFINE a == Adopted(h)
           key == <<"open">>
           again == Recorded(a, key, m)
<1>1. /\ DoorTyped(a) /\ (Knows(h) => Knows(a)) /\ SilencesKnown(a.replay, known)
      /\ a.session = Nil => ~(a.row # Nil /\ a.row.live)
  BY AdoptedKeeps, AdoptedKnows
<1>2. ~Silent(key, m)
  BY DEF Silent
<1>3. CASE again # {}
  <2>1. Opened(h, m).held = a
    BY <1>3 DEF Opened, Answered
  <2> QED
    BY <1>1, <2>1
<1>4. CASE again = {} /\ a.session # Nil
  <2>1. Opened(h, m).held = Record(a, key, m, a.session.frame)
    BY <1>4 DEF Opened, Answered
  <2> HIDE DEF a, key
  <2> DEFINE k == Record(a, key, m, a.session.frame)
  <2>2. k.session = a.session /\ SilencesKnown(k.replay, known)
    BY <1>1, <1>2, RecordedKeeps, RecordedTells
  <2> HIDE DEF k
  <2> QED
    BY <1>1, <1>4, <2>1, <2>2 DEF Knows, k
<1>5. CASE again = {} /\ a.session = Nil
  <2> DEFINE fresh == [frame |-> m, ledger |-> Carried(a), active |-> Nil]
             b == [a EXCEPT !.session = fresh]
             k == Record(b, key, m, m)
  <2>1. Opened(h, m).held = k
    BY <1>5 DEF Opened, Answered
  <2>2. Carried(a) \in Ledgers
    BY <1>1 DEF Carried, DoorTyped, FrameRow, NoLedger, Ledgers
  <2>3. fresh \in SessionRow /\ fresh # Nil /\ fresh.ledger = Carried(a)
    BY <2>2, NilIsNothing DEF SessionRow, Ledgers, Contracts
  <2> HIDE DEF a, fresh
  <2>4. DoorTyped(b) /\ b.session = fresh /\ b.replay = a.replay
    BY <1>1, <2>3 DEF DoorTyped
  <2> HIDE DEF b, key
  <2>5. k.session = fresh /\ SilencesKnown(k.replay, known)
    BY <1>1, <1>2, <2>4, RecordedKeeps, RecordedTells
  <2> HIDE DEF k
  <2>6. Knows(a) => Carried(a).repair = TRUE
    BY <1>1, <1>5 DEF Knows, Carried
  <2> QED
    BY <1>1, <2>1, <2>3, <2>5, <2>6 DEF Knows
<1> QED
  BY <1>3, <1>4, <1>5

\* A contract is counted in the ledger and learns nothing.
LEMMA CompiledKnows ==
  ASSUME NEW h, DoorTyped(h), OneFrame(h), RowBacks(h), NEW target, NEW t \in Nat, NEW known,
         SilencesKnown(h.replay, known)
  PROVE  /\ Knows(h) => Knows(Compiled(h, target, t).held)
         /\ SilencesKnown(Compiled(h, target, t).held.replay, known)
<1> DEFINE a == Adopted(h)
           key == <<"compile", t>>
           again == Recorded(a, key, target)
<1>1. DoorTyped(a) /\ (Knows(h) => Knows(a)) /\ SilencesKnown(a.replay, known)
  BY AdoptedKeeps, AdoptedKnows
<1>2. ~Silent(key, target)
  BY DEF Silent
<1>3. CASE again # {} \/ Conflict(a, key, target) \/ a.session = Nil \/ a.session.frame # target
  <2>1. Compiled(h, target, t).held = a
    BY <1>3 DEF Compiled, Answered, Refusal
  <2> QED
    BY <1>1, <2>1
<1>4. CASE ~(again # {} \/ Conflict(a, key, target) \/ a.session = Nil \/ a.session.frame # target)
  <2> DEFINE number == a.session.ledger.contracts + 1
             contract == [frame |-> target, turn |-> t, number |-> number]
             b == [a EXCEPT !.session.ledger.contracts = number, !.session.active = contract]
             k == Record(b, key, target, contract)
  <2>1. Compiled(h, target, t).held = k
    BY <1>4 DEF Compiled, Answered
  <2>2. a.session \in SessionRow /\ a.session # Nil /\ a.session.frame = target
    BY <1>1, <1>4 DEF DoorTyped
  <2>3. a.session.ledger \in Ledgers
    BY <2>2 DEF SessionRow
  <2>4. number \in Nat
    BY <2>3 DEF Ledgers
  <2> HIDE DEF a, number
  <2>5. contract \in Contracts
    BY <2>2, <2>4 DEF Contracts, SessionRow
  <2> HIDE DEF contract, key
  <2> DEFINE l == [a.session.ledger EXCEPT !.contracts = number]
             s == [a.session EXCEPT !.ledger = l, !.active = contract]
  <2>6. l \in Ledgers /\ l.repair = a.session.ledger.repair
    BY <2>3, <2>4 DEF Ledgers
  <2>7. b = [a EXCEPT !.session = s]
    BY <1>1, <2>2 DEF DoorTyped, SessionRow
  <2> HIDE DEF l
  <2>8. s \in SessionRow /\ s.ledger = l
    BY <2>2, <2>5, <2>6 DEF SessionRow
  <2>9. s # Nil
    BY <2>8, NilIsNothing DEF SessionRow, Ledgers, Contracts
  <2> HIDE DEF s, b
  <2>10. DoorTyped(b) /\ b.session = s /\ b.replay = a.replay
    BY <1>1, <2>7, <2>8 DEF DoorTyped
  <2>11. k.session = s /\ SilencesKnown(k.replay, known)
    BY <1>1, <1>2, <2>10, RecordedKeeps, RecordedTells
  <2> HIDE DEF k
  <2> QED
    BY <1>1, <2>1, <2>2, <2>6, <2>8, <2>9, <2>11 DEF Knows
<1> QED
  BY <1>3, <1>4

\* A settled turn that was silent is learned of, and one that was settled before was
\* learned of then.
LEMMA SettledKnows ==
  ASSUME NEW h, DoorTyped(h), NEW contract, contract # Nil, NEW reply, NEW known \in BOOLEAN,
         SilencesKnown(h.replay, known)
  PROVE  LET out == SettledBy(h, contract, reply) IN
         /\ Knows(h) => Knows(out.held)
         /\ out.outcome = Nil => out.held = h
         /\ out.outcome # Nil /\ reply = Silence => known \/ Knows(out.held)
         /\ SilencesKnown(out.held.replay, known \/ reply = Silence)
<1> DEFINE key == <<"settle", contract>>
           again == Recorded(h, key, reply)
           out == SettledBy(h, contract, reply)
           told == known \/ reply = Silence
<1>1. SilencesKnown(h.replay, told)
  BY DEF SilencesKnown
<1>2. CASE again # {}
  <2>1. out.held = h
    BY <1>2 DEF SettledBy, Answered
  <2>2. reply = Silence => known
    <3>1. PICK S : h.replay \in Seq(S) /\ \A r \in S : Silent(r.key, r.body) => known
      BY DEF SilencesKnown
    <3>2. PICK r \in ToSet(h.replay) : r.key = key /\ r.body = reply
      BY <1>2 DEF Recorded
    <3>3. r \in S
      BY <3>1, <3>2 DEF ToSet
    <3> QED
      BY <3>1, <3>2, <3>3 DEF Silent
  <2> QED
    BY <1>1, <2>1, <2>2
<1>3. CASE again = {} /\ (Conflict(h, key, reply) \/ h.session = Nil \/ h.session.active # contract)
  <2>1. out.held = h /\ out.outcome = Nil
    BY <1>3 DEF SettledBy, Answered, Refusal
  <2> QED
    BY <1>1, <2>1
<1>4. CASE ~(again # {} \/ Conflict(h, key, reply) \/ h.session = Nil \/ h.session.active # contract)
  <2> DEFINE now == h.session.ledger.repair \/ reply = Silence
             b == [h EXCEPT !.session.ledger.repair = now]
             k == Record(b, key, reply, contract)
             l == [h.session.ledger EXCEPT !.repair = now]
             s == [h.session EXCEPT !.ledger = l]
  <2>1. h.session \in SessionRow /\ h.session # Nil
    BY <1>4 DEF DoorTyped
  <2>2. h.session.ledger \in Ledgers /\ now \in BOOLEAN
        /\ (h.session.ledger.repair = TRUE => now = TRUE) /\ (reply = Silence => now = TRUE)
    BY <2>1 DEF SessionRow
  <2>3. b = [h EXCEPT !.session = s]
    BY <2>1 DEF DoorTyped, SessionRow
  <2>4. out = Answered(k, contract)
    <3>1. [h EXCEPT !.session.ledger.repair = @ \/ reply = Silence] = b
      BY <2>1 DEF DoorTyped, SessionRow
    <3> HIDE DEF b
    <3>2. out = Answered(Record([h EXCEPT !.session.ledger.repair = @ \/ reply = Silence],
                                key, reply, contract), contract)
      BY <1>4 DEF SettledBy
    <3> QED
      BY <3>1, <3>2
  <2> HIDE DEF now
  <2>5. l \in Ledgers /\ l.repair = now
    BY <2>2 DEF Ledgers
  <2> HIDE DEF l
  <2>6. s \in SessionRow /\ s.ledger = l
    BY <2>1, <2>5 DEF SessionRow
  <2>7. s # Nil
    BY <2>6, NilIsNothing DEF SessionRow, Ledgers, Contracts
  <2> HIDE DEF s, b
  <2>8. DoorTyped(b) /\ b.session = s /\ b.replay = h.replay
    BY <2>3, <2>6 DEF DoorTyped
  <2>9. Silent(key, reply) => told
    BY DEF Silent
  <2> HIDE DEF key, told
  <2>10. k.session = s /\ SilencesKnown(k.replay, told)
    BY <1>1, <2>8, <2>9, RecordedKeeps, RecordedTells
  <2> HIDE DEF k
  <2>11. out.held = k /\ out.outcome = contract
    BY <2>4 DEF Answered
  <2>12. Knows(k) <=> now = TRUE
    BY <2>5, <2>6, <2>7, <2>10 DEF Knows
  <2>13. Knows(h) => now = TRUE
    BY <2>1, <2>2 DEF Knows
  <2> QED
    BY <2>2, <2>10, <2>11, <2>12, <2>13 DEF told
<1> QED
  BY <1>2, <1>3, <1>4

\* A close that seals leaves what was learned in the row, if no write of it was
\* missed or the close itself writes; one that replays leaves the session.
LEMMA ClosedKnows ==
  ASSUME NEW h, DoorTyped(h), OneFrame(h), RowBacks(h), NEW boat, NEW ok \in BOOLEAN, NEW known,
         SilencesKnown(h.replay, known)
  PROVE  LET k == ClosedBy(h, boat, ok).held IN
         /\ Knows(h) /\ ~(h.missed /\ ~(ok /\ h.row # Nil /\ h.row.live)) => Knows(k)
         /\ SilencesKnown(k.replay, known)
<1> DEFINE key == <<"close", boat>>
           a == Adopted(h)
           again == Recorded(a, key, Nil) # {}
           b == [a EXCEPT !.session = Nil]
           sealed == Record(b, key, Nil, a.session)
           gone == IF again THEN a ELSE sealed
           late == again /\ (ok \/ h.missed)
           no == FALSE
<1>1. /\ DoorTyped(a) /\ RowBacks(a) /\ a.row = h.row /\ a.missed = h.missed
      /\ (Knows(h) => Knows(a)) /\ SilencesKnown(a.replay, known)
  BY AdoptedKeeps, AdoptedKnows
<1>2. CASE a.session = Nil
  <2>1. ClosedBy(h, boat, ok).held = a
    BY <1>2 DEF ClosedBy, Answered, Refusal
  <2> QED
    BY <1>1, <2>1
<1>3. CASE a.session # Nil
  <2> DEFINE shutRow == [a.row EXCEPT !.live = no, !.ledger = a.session.ledger]
             shut == IF ok /\ a.row # Nil /\ a.row.live THEN [gone EXCEPT !.row = shutRow] ELSE gone
             k == [shut EXCEPT !.missed = late]
  <2>1. a.session \in SessionRow /\ a.session.ledger \in Ledgers
    BY <1>1, <1>3 DEF DoorTyped, SessionRow
  <2>2. DoorTyped(gone) /\ gone.row = a.row /\ gone.missed = a.missed
        /\ (again => gone = a) /\ (~again => gone.session = Nil) /\ SilencesKnown(gone.replay, known)
    <3>1. DoorTyped(b) /\ b.row = a.row /\ b.missed = a.missed /\ b.session = Nil /\ b.replay = a.replay
      BY <1>1 DEF DoorTyped
    <3>2. ~Silent(key, Nil)
      BY DEF Silent
    <3> HIDE DEF a, b, key
    <3>3. /\ DoorTyped(sealed) /\ sealed.row = b.row /\ sealed.session = b.session
          /\ sealed.missed = b.missed /\ SilencesKnown(sealed.replay, known)
      BY <1>1, <3>1, <3>2, RecordedKeeps, RecordedTells
    <3> HIDE DEF sealed
    <3> QED
      BY <1>1, <3>1, <3>3
  <2>3. ClosedBy(h, boat, ok).held = k
    <3> DEFINE g == IF Recorded(a, key, Nil) # {} THEN a ELSE Record([a EXCEPT !.session = Nil], key, Nil, a.session)
               u == IF ok /\ a.row # Nil /\ a.row.live
                    THEN [g EXCEPT !.row.live = FALSE, !.row.ledger = a.session.ledger] ELSE g
    <3>1. ClosedBy(h, boat, ok).held = [u EXCEPT !.missed = again /\ (ok \/ @)]
      BY <1>3 DEF ClosedBy, Answered
    <3>2. g = gone
      OBVIOUS
    <3> HIDE DEF g, gone, again, a
    <3>3. u = shut
      BY <2>2, <3>2 DEF DoorTyped
    <3>4. u.missed = h.missed /\ u = [u EXCEPT !.missed = u.missed]
      BY <1>1, <2>2, <3>2 DEF DoorTyped
    <3> HIDE DEF u, shut
    <3> QED
      BY <3>1, <3>3, <3>4
  <2>4. late \in BOOLEAN /\ no \in BOOLEAN /\ no = FALSE
    BY <1>1 DEF DoorTyped
  <2> HIDE DEF gone, a, no
  <2>5. a.row # Nil => a.row \in FrameRow
    BY <1>1 DEF DoorTyped
  <2>6. a.row # Nil => shutRow \in FrameRow /\ shutRow.ledger = a.session.ledger
    BY <2>1, <2>4, <2>5 DEF FrameRow
  <2>7. a.row # Nil => shutRow # Nil
    BY <2>6, NilIsNothing DEF FrameRow, Ledgers
  <2>8. DoorTyped(shut) /\ shut.session = gone.session /\ shut.replay = gone.replay
        /\ shut.row = (IF ok /\ a.row # Nil /\ a.row.live THEN shutRow ELSE a.row)
    BY <2>2, <2>6 DEF DoorTyped
  <2> HIDE DEF shut, late
  <2>9. k.session = shut.session /\ k.row = shut.row /\ k.replay = shut.replay
    BY <2>4, <2>8 DEF DoorTyped
  <2> HIDE DEF k, shutRow
  <2>10. CASE ~again
    <3>1. CASE ok /\ a.row # Nil /\ a.row.live
      BY <1>1, <1>3, <2>2, <2>3, <2>6, <2>7, <2>8, <2>9, <2>10, <3>1 DEF Knows
    <3>2. CASE ~(ok /\ a.row # Nil /\ a.row.live)
      <4>1. ~h.missed => a.row = [live |-> TRUE, frame |-> a.session.frame, ledger |-> a.session.ledger]
        BY <1>1, <1>3 DEF RowBacks
      <4>2. ~h.missed => a.row # Nil /\ a.row.ledger = a.session.ledger
        <5> DEFINE w == [live |-> TRUE, frame |-> a.session.frame, ledger |-> a.session.ledger]
        <5>1. w \in FrameRow /\ w.ledger = a.session.ledger
          BY <2>1 DEF FrameRow, SessionRow
        <5> HIDE DEF w
        <5>2. w # Nil
          BY <5>1, NilIsNothing DEF FrameRow, Ledgers
        <5>3. ~h.missed => a.row = w
          BY <4>1 DEF w
        <5> QED
          BY <5>1, <5>2, <5>3
      <4> QED
        BY <1>1, <1>3, <2>2, <2>3, <2>8, <2>9, <2>10, <3>2, <4>2 DEF Knows
    <3> QED
      BY <3>1, <3>2
  <2>11. CASE again
    BY <1>1, <1>3, <2>2, <2>3, <2>8, <2>9, <2>11 DEF Knows
  <2> QED
    BY <2>10, <2>11
<1> QED
  BY <1>2, <1>3

\* What the Host and the store hold has learned, and has on record, what k does.
LEMMA HoldsLearning ==
  ASSUME NEW k, DoorTyped(k), Holds(k), learned' /\ ~lossy' => Knows(k), SilencesKnown(k.replay, learned')
  PROVE  Learning'
<1>1. k = [row |-> k.row, session |-> k.session, replay |-> k.replay, missed |-> k.missed]
  BY DEF DoorTyped
<1>2. Held' = k /\ replay' = k.replay
  BY <1>1 DEF Holds, Held
<1> QED
  BY <1>2 DEF Learning

LearnInv == PresenceInv /\ Learning /\ learned \in BOOLEAN

\* Nothing of the session, the row or the record moves, or the record loses its oldest.
LEMMA NothingLearned ==
  ASSUME LearnInv, UNCHANGED <<row, session, learned, lossy>>,
         replay' = replay \/ (replay # <<>> /\ replay' = Tail(replay))
  PROVE  Learning'
<1>1. PICK S : replay \in Seq(S) /\ \A r \in S : Silent(r.key, r.body) => learned
  BY DEF LearnInv, Learning, SilencesKnown
<1>2. replay' \in Seq(S)
  BY <1>1
<1>3. SilencesKnown(replay', learned')
  BY <1>1, <1>2 DEF SilencesKnown
<1>4. Knows(Held)' <=> Knows(Held)
  BY DEF Knows, Held
<1> QED
  BY <1>3, <1>4 DEF LearnInv, Learning

\* An open loses nothing that was learned.
LEMMA OpenFrameLearns == ASSUME LearnInv, OpenFrame PROVE Learning'
<1>0. /\ DoorTyped(Held) /\ OneFrame(Held) /\ RowBacks(Held) /\ UNCHANGED <<learned, lossy>>
      /\ (learned /\ ~lossy => Knows(Held)) /\ SilencesKnown(Held.replay, learned)
  BY DEF OpenFrame, LearnInv, PresenceInv, Learning, Held
<1>1. ASSUME NEW m \in Materials, NEW ok \in BOOLEAN, Holds(Persisted(Opened(Held, m).held, ok))
      PROVE  Learning'
  <2> DEFINE h == Opened(Held, m).held
  <2>1. /\ DoorTyped(h) /\ OneFrame(h) /\ (Knows(Held) => Knows(h)) /\ SilencesKnown(h.replay, learned)
    BY <1>0, OpenedKeeps, OpenedKnows
  <2> HIDE DEF h
  <2>2. Holds(Persisted(h, ok))
    BY <1>1 DEF h
  <2> QED
    BY <1>0, <2>1, <2>2, PersistedBacks, PersistedKnows, HoldsLearning
<1>2. CASE UNCHANGED <<row, session, replay, missed>>
  BY <1>0, <1>2, NothingLearned
<1> QED
  BY <1>1, <1>2 DEF OpenFrame

\* A compile loses nothing that was learned.
LEMMA CompileTurnLearns == ASSUME LearnInv, CompileTurn PROVE Learning'
<1>0. /\ DoorTyped(Held) /\ OneFrame(Held) /\ RowBacks(Held) /\ UNCHANGED <<learned, lossy>>
      /\ (learned /\ ~lossy => Knows(Held)) /\ SilencesKnown(Held.replay, learned) /\ turn \in Nat
  BY DEF CompileTurn, LearnInv, PresenceInv, Learning, Held
<1> DEFINE out == Compiled(Held, frame, turn)
<1>1. /\ DoorTyped(out.held) /\ OneFrame(out.held)
      /\ (Knows(Held) => Knows(out.held)) /\ SilencesKnown(out.held.replay, learned)
  BY <1>0, CompiledKeeps, CompiledKnows
<1>2. \/ Holds(out.held)
      \/ \E ok \in BOOLEAN : Holds(Persisted(out.held, ok))
      \/ UNCHANGED <<row, session, replay, missed>>
  BY DEF CompileTurn
<1> HIDE DEF out
<1>3. CASE Holds(out.held)
  BY <1>0, <1>1, <1>3, HoldsLearning
<1>4. ASSUME NEW ok \in BOOLEAN, Holds(Persisted(out.held, ok)) PROVE Learning'
  BY <1>0, <1>1, <1>4, PersistedBacks, PersistedKnows, HoldsLearning
<1>5. CASE UNCHANGED <<row, session, replay, missed>>
  BY <1>0, <1>5, NothingLearned
<1> QED
  BY <1>2, <1>3, <1>4, <1>5

\* A settled silence is learned of when the Host answers.
LEMMA SettleTurnLearns == ASSUME LearnInv, SettleTurn PROVE Learning' /\ learned' \in BOOLEAN
<1>0. /\ DoorTyped(Held) /\ OneFrame(Held) /\ RowBacks(Held) /\ UNCHANGED lossy /\ pending # Nil
      /\ (learned /\ ~lossy => Knows(Held)) /\ SilencesKnown(Held.replay, learned) /\ learned \in BOOLEAN
  BY DEF SettleTurn, LearnInv, PresenceInv, Learning, Held
<1>1. PICK reply \in Replies, ok \in BOOLEAN :
         LET out == SettledBy(Held, pending, reply)
         IN  \/ out.outcome = Nil /\ Holds(out.held) /\ UNCHANGED learned
             \/ /\ out.outcome # Nil /\ Holds(Persisted(out.held, ok))
                /\ learned' = (learned \/ reply = Silence)
  BY DEF SettleTurn
<1> DEFINE out == SettledBy(Held, pending, reply)
<1>2. /\ DoorTyped(out.held) /\ OneFrame(out.held) /\ (Knows(Held) => Knows(out.held))
      /\ out.outcome = Nil => out.held = Held
      /\ out.outcome # Nil /\ reply = Silence => learned \/ Knows(out.held)
      /\ SilencesKnown(out.held.replay, learned \/ reply = Silence)
  BY <1>0, SettledKeeps, SettledKnows
<1>3. \/ out.outcome = Nil /\ Holds(out.held) /\ UNCHANGED learned
      \/ /\ out.outcome # Nil /\ Holds(Persisted(out.held, ok))
         /\ learned' = (learned \/ reply = Silence)
  BY <1>1
<1> HIDE DEF out
<1>4. CASE out.outcome = Nil /\ Holds(out.held) /\ UNCHANGED learned
  BY <1>0, <1>2, <1>4, HoldsLearning
<1>5. CASE /\ out.outcome # Nil /\ Holds(Persisted(out.held, ok))
           /\ learned' = (learned \/ reply = Silence)
  <2>1. learned' /\ ~lossy' => Knows(Persisted(out.held, ok))
    BY <1>0, <1>2, <1>5, PersistedKnows
  <2>2. SilencesKnown(Persisted(out.held, ok).replay, learned') /\ DoorTyped(Persisted(out.held, ok))
    BY <1>2, <1>5, PersistedKnows, PersistedBacks
  <2> QED
    BY <1>0, <1>5, <2>1, <2>2, HoldsLearning
<1> QED
  BY <1>3, <1>4, <1>5

\* A session that sleeps leaves what it learned in its row, or is told of as lost.
LEMMA CloseFrameLearns == ASSUME LearnInv, CloseFrame PROVE Learning'
<1>0. /\ DoorTyped(Held) /\ OneFrame(Held) /\ RowBacks(Held) /\ UNCHANGED learned
      /\ (learned /\ ~lossy => Knows(Held)) /\ SilencesKnown(Held.replay, learned)
      /\ Held.row = row /\ Held.missed = missed
  BY DEF CloseFrame, LearnInv, PresenceInv, Learning, Held
<1>1. PICK boat \in Boats, ok \in BOOLEAN :
         /\ Holds(ClosedBy(Held, boat, ok).held)
         /\ lossy' = (lossy \/ (missed /\ ~(ok /\ row # Nil /\ row.live)))
  BY DEF CloseFrame
<1> DEFINE k == ClosedBy(Held, boat, ok).held
<1>2. /\ DoorTyped(k) /\ SilencesKnown(k.replay, learned)
      /\ Knows(Held) /\ ~(missed /\ ~(ok /\ row # Nil /\ row.live)) => Knows(k)
  BY <1>0, ClosedKeeps, ClosedKnows
<1>3. Holds(k)
  BY <1>1
<1> HIDE DEF k
<1> QED
  BY <1>0, <1>1, <1>2, <1>3, HoldsLearning

\* A Host that stops takes what was missed with it, and the row keeps the rest.
LEMMA RestartHostLearns == ASSUME LearnInv, RestartHost PROVE Learning'
<1>1. /\ DoorTyped(Held) /\ RowBacks(Held) /\ UNCHANGED <<learned, row>>
      /\ (learned /\ ~lossy => Knows(Held)) /\ lossy' = (lossy \/ missed)
      /\ session' = Nil /\ replay' = <<>>
      /\ Held.row = row /\ Held.session = session /\ Held.missed = missed
  BY DEF RestartHost, LearnInv, PresenceInv, Learning, Held
<1>2. SilencesKnown(replay', learned')
  <2>1. replay' \in Seq({})
    BY <1>1
  <2> QED
    BY <2>1 DEF SilencesKnown
<1>3. Held'.session = Nil /\ Held'.row = row
  BY <1>1 DEF Held
<1>4. ASSUME learned', ~lossy' PROVE Knows(Held')
  <2>1. Knows(Held) /\ ~missed
    BY <1>1, <1>4
  <2>2. CASE session = Nil
    BY <1>1, <1>3, <2>1, <2>2 DEF Knows
  <2>3. CASE session # Nil
    <3> DEFINE w == [live |-> TRUE, frame |-> session.frame, ledger |-> session.ledger]
    <3>1. row = w
      BY <1>1, <2>1, <2>3 DEF RowBacks
    <3>2. w \in FrameRow /\ w.ledger = session.ledger
      BY <1>1, <2>3 DEF DoorTyped, FrameRow, SessionRow
    <3> HIDE DEF w
    <3>3. w # Nil
      BY <3>2, NilIsNothing DEF FrameRow, Ledgers
    <3> QED
      BY <1>1, <1>3, <2>1, <2>3, <3>1, <3>2, <3>3 DEF Knows
  <2> QED
    BY <2>2, <2>3
<1> QED
  BY <1>2, <1>4 DEF Learning

\* Every step of the adapter and the Host keeps what was learned.
LEMMA LearnSteps == ASSUME LearnInv, [PresenceNext]_presenceVars PROVE LearnInv'
<1>0. PresenceInv' /\ learned \in BOOLEAN
  BY PresenceSteps DEF LearnInv
<1>1. CASE SettleTurn
  BY <1>0, <1>1, SettleTurnLearns DEF LearnInv
<1>2. CASE OpenFrame
  BY <1>0, <1>2, OpenFrameLearns DEF LearnInv, OpenFrame
<1>3. CASE CompileTurn
  BY <1>0, <1>3, CompileTurnLearns DEF LearnInv, CompileTurn
<1>4. CASE CloseFrame
  BY <1>0, <1>4, CloseFrameLearns DEF LearnInv, CloseFrame
<1>5. CASE RestartHost
  BY <1>0, <1>5, RestartHostLearns DEF LearnInv, RestartHost
<1>6. CASE BeginTurn \/ EndTurn \/ CompactTranscript \/ ResumeSession \/ OtherSessions \/ UNCHANGED presenceVars
  <2>1. /\ UNCHANGED <<row, session, learned, lossy>>
        /\ replay' = replay \/ (replay # <<>> /\ replay' = Tail(replay))
    BY <1>6 DEF BeginTurn, EndTurn, CompactTranscript, ResumeSession, OtherSessions, presenceVars
  <2> QED
    BY <1>0, <2>1, NothingLearned DEF LearnInv
<1> QED
  BY <1>1, <1>2, <1>3, <1>4, <1>5, <1>6 DEF PresenceNext

\* The repair rules a session learned before it slept come back with it (presence.rs:145):
\* through sleep, reopening, replayed answers and restarts of the Host, the session that
\* is live holds what was settled, unless memory was lost with a write that had failed.
THEOREM LearnedStays == PresenceSpec => []LearnedComesBack
<1>1. ASSUME PresenceInit PROVE LearnInv
  <2>1. replay \in Seq({}) /\ learned = FALSE
    BY <1>1 DEF PresenceInit
  <2>2. SilencesKnown(replay, learned)
    BY <2>1 DEF SilencesKnown
  <2> QED
    BY <1>1, <2>1, <2>2, PresenceStarts DEF LearnInv, Learning
<1>2. ASSUME LearnInv PROVE LearnedComesBack
  BY <1>2 DEF LearnInv, Learning, LearnedComesBack, Knows, Held
<1> QED
  BY <1>1, <1>2, LearnSteps, PTL DEF PresenceSpec

-----------------------------------------------------------------------------
(* The chat.                                                                 *)

Shown == Sessions \X Nat
ChatLine == [kind : {"origin", "reply"}, say : Says \cup {0}, settled : BOOLEAN]
RingLine == [author : {"operator", "spirit"}, say : Says, message : (Sessions \cup {0}) \X Nat,
             steps : SUBSET Shown]
TurnMessage == [kind : {"turn"}, from : Sessions, say : Says, message : Nat, steps : SUBSET Shown]
WireMessage == [kind : {"say"}, say : Says] \cup TurnMessage
               \cup [kind : {"draft"}, from : Sessions, say : Says \cup {0}, shows : SUBSET Shown]
               \cup [kind : {"subscribe"}, from : Sessions]
ReportRow == [say : Says \cup {0}, message : Nat, steps : SUBSET Shown]
DoormanRow == [up : BOOLEAN, pending : Says \cup {0}, owned : BOOLEAN, shows : SUBSET Shown,
               dirty : BOOLEAN, flushing : BOOLEAN, report : ReportRow, ticking : BOOLEAN,
               seen : Says \cup {0}, reporting : BOOLEAN]
Transcripts == [Sessions -> Seq(ChatLine)]

\* The say y began a turn of the session s with its message o.
Begins(T, s, o, y) == s \in Sessions /\ o \in 1..Len(T[s]) /\ T[s][o] = Origin(y)

\* And has begun none of that session since.
LastBegins(T, s, o, y) ==
    Begins(T, s, o, y) /\ \A j \in (o + 1)..Len(T[s]) : T[s][j] # Origin(y)

\* From o to e nothing began another turn, and no reply settled this one.
StaysOpen(T, s, o, e) ==
    \A j \in (o + 1)..e : T[s][j].kind # "origin" /\ T[s][j] # Reply(TRUE)

\* The message e was said in the turn that o began, before a reply had settled it.
Follows(T, s, o, e) ==
    e \in (o + 1)..Len(T[s]) /\ StaysOpen(T, s, o, e - 1) /\ T[s][e].kind # "origin"

\* The reply e is the first that settled a turn of y; its steps are that turn's up to
\* it, unless y is one of the says S that strayed.
Answers(T, S, y, s, e, steps) ==
    y \in Says /\ \E o \in Nat :
       /\ Begins(T, s, o, y) /\ Follows(T, s, o, e) /\ T[s][e] = Reply(TRUE)
       /\ y \notin S => \A n \in steps : n[1] = s /\ n[2] \in (o + 1)..e

DoormanSound(T, S, s, d) ==
    /\ d \in DoormanRow
    /\ d.report # NoReport => Answers(T, S, d.report.say, s, d.report.message, d.report.steps)

\* A doorman that listens, or has listened, heard the turn its say began last, and
\* shows what was said in it before it was settled.
Heard(T, s, d) ==
    d.owned \/ d.shows # {} =>
       \E o \in Nat : /\ LastBegins(T, s, o, d.pending)
                      /\ d.owned => StaysOpen(T, s, o, Len(T[s]))
                      /\ \A n \in d.shows : n[1] = s /\ Follows(T, s, o, n[2])

\* A doorman whose say has not strayed is the room's: the say is still to be
\* dispatched, or was, and then the doorman knows its turn.
Waits(T, S, top, box, s, d) ==
    d.pending # 0 /\ d.pending \notin S /\ d.report = NoReport =>
       /\ d.up /\ top = s
       /\ \/ box[s] = <<d.pending>> /\ ~d.owned /\ d.shows = {}
          \/ box[s] = <<>> /\ Heard(T, s, d)

\* It drafts what is said.
Hears(d) == d.up /\ d.pending # 0 /\ d.owned /\ d.report = NoReport

Agreed(D) ==
    \A s, t \in Sessions : Hears(D[s]) /\ Hears(D[t]) => D[s].pending = D[t].pending

DoormenSound(T, S, top, box, D) ==
    /\ D \in [Sessions -> DoormanRow] /\ Agreed(D)
    /\ \A s \in Sessions : DoormanSound(T, S, s, D[s]) /\ Waits(T, S, top, box, s, D[s])

RingTrue(T, S, lines) ==
    /\ lines \in Seq(RingLine)
    /\ \A k \in 1..Len(lines) :
          lines[k].author = "spirit" =>
             Answers(T, S, lines[k].say, lines[k].message[1], lines[k].message[2], lines[k].steps)

WireTrue(T, S, messages) ==
    /\ messages \in SUBSET WireMessage
    /\ \A r \in messages : r.kind = "turn" => Answers(T, S, r.say, r.from, r.message, r.steps)

OmpTyped(T, work, box) ==
    /\ T \in Transcripts /\ work \in [Sessions -> {"idle", "running"}]
    /\ box \in [Sessions -> Seq(Says)]

ChatInv ==
    /\ OmpTyped(transcript, agent, inbox) /\ RingTrue(transcript, strayed, ring)
    /\ WireTrue(transcript, strayed, wire)
    /\ DoormenSound(transcript, strayed, topSession, inbox, doormen)

Grows(T, U) ==
    \A s \in Sessions : /\ Len(T[s]) <= Len(U[s])
                        /\ \A i \in 1..Len(T[s]) : U[s][i] = T[s][i]

Takes(T, U, s, line) == U = [T EXCEPT ![s] = Append(@, line)]

\* What was said stays where it is as the transcript grows.
LEMMA TurnsStay ==
  ASSUME NEW T \in Transcripts, NEW U \in Transcripts, Grows(T, U), NEW s \in Sessions, NEW o \in Nat
  PROVE  /\ \A y : Begins(T, s, o, y) => Begins(U, s, o, y)
         /\ \A e \in Nat : e <= Len(T[s]) /\ StaysOpen(T, s, o, e) => StaysOpen(U, s, o, e)
         /\ \A e : Follows(T, s, o, e) => Follows(U, s, o, e) /\ U[s][e] = T[s][e] /\ e \in Nat
<1>1. /\ Len(T[s]) \in Nat /\ Len(U[s]) \in Nat /\ Len(T[s]) <= Len(U[s])
      /\ \A i \in 1..Len(T[s]) : U[s][i] = T[s][i]
  BY DEF Grows, Transcripts
<1>2. ASSUME NEW y, Begins(T, s, o, y) PROVE Begins(U, s, o, y)
  BY <1>1, <1>2 DEF Begins
<1>3. ASSUME NEW e \in Nat, e <= Len(T[s]), StaysOpen(T, s, o, e) PROVE StaysOpen(U, s, o, e)
  <2>1. \A j \in (o + 1)..e : j \in 1..Len(T[s])
    BY <1>1, <1>3
  <2> QED
    BY <1>1, <1>3, <2>1 DEF StaysOpen
<1>4. ASSUME NEW e, Follows(T, s, o, e) PROVE Follows(U, s, o, e) /\ U[s][e] = T[s][e] /\ e \in Nat
  <2>1. /\ e \in (o + 1)..Len(T[s]) /\ StaysOpen(T, s, o, e - 1) /\ T[s][e].kind # "origin"
    BY <1>4 DEF Follows
  <2>2. /\ e \in Nat /\ e \in 1..Len(T[s]) /\ e - 1 \in Nat /\ e - 1 <= Len(T[s])
        /\ e \in (o + 1)..Len(U[s])
    BY <1>1, <2>1
  <2>3. StaysOpen(U, s, o, e - 1)
    BY <1>3, <2>1, <2>2
  <2> QED
    BY <1>1, <2>1, <2>2, <2>3 DEF Follows
<1> QED
  BY <1>2, <1>3, <1>4

\* So does what a line answers, though more says stray.
LEMMA AnswersStay ==
  ASSUME NEW T \in Transcripts, NEW U \in Transcripts, Grows(T, U), NEW S, NEW R, S \subseteq R,
         NEW y, NEW s \in Sessions, NEW e, NEW steps, Answers(T, S, y, s, e, steps)
  PROVE  Answers(U, R, y, s, e, steps)
<1>1. PICK o \in Nat :
         /\ Begins(T, s, o, y) /\ Follows(T, s, o, e) /\ T[s][e] = Reply(TRUE)
         /\ y \notin S => \A n \in steps : n[1] = s /\ n[2] \in (o + 1)..e
  BY DEF Answers
<1>2. Begins(U, s, o, y) /\ Follows(U, s, o, e) /\ U[s][e] = Reply(TRUE)
  <2>1. /\ \A z : Begins(T, s, o, z) => Begins(U, s, o, z)
        /\ \A f : Follows(T, s, o, f) => Follows(U, s, o, f) /\ U[s][f] = T[s][f]
    BY TurnsStay
  <2>2. Begins(U, s, o, y) /\ Follows(U, s, o, e) /\ U[s][e] = T[s][e]
    BY <1>1, <2>1
  <2> QED
    BY <1>1, <2>2
<1>3. y \notin R => \A n \in steps : n[1] = s /\ n[2] \in (o + 1)..e
  BY <1>1
<1>4. y \in Says
  BY DEF Answers
<1> QED
  BY <1>2, <1>3, <1>4 DEF Answers

\* So do the ring, the requests that were sent, and what a doorman reports.
LEMMA LinesStay ==
  ASSUME NEW T \in Transcripts, NEW U \in Transcripts, Grows(T, U), NEW S, NEW R, S \subseteq R
  PROVE  /\ \A lines : RingTrue(T, S, lines) => RingTrue(U, R, lines)
         /\ \A messages : WireTrue(T, S, messages) => WireTrue(U, R, messages)
         /\ \A d : \A s \in Sessions : DoormanSound(T, S, s, d) => DoormanSound(U, R, s, d)
<1>0. ASSUME NEW y, NEW s, NEW e, NEW steps, Answers(T, S, y, s, e, steps)
      PROVE  Answers(U, R, y, s, e, steps)
  <2>1. s \in Sessions
    BY <1>0 DEF Answers, Begins
  <2> QED
    BY <1>0, <2>1, AnswersStay
<1>1. ASSUME NEW lines, RingTrue(T, S, lines) PROVE RingTrue(U, R, lines)
  BY <1>0, <1>1 DEF RingTrue
<1>2. ASSUME NEW messages, WireTrue(T, S, messages) PROVE WireTrue(U, R, messages)
  BY <1>0, <1>2 DEF WireTrue
<1>3. ASSUME NEW s \in Sessions, NEW d, DoormanSound(T, S, s, d) PROVE DoormanSound(U, R, s, d)
  BY <1>0, <1>3 DEF DoormanSound
<1> QED
  BY <1>1, <1>2, <1>3

\* A transcript that takes a message.
LEMMA TranscriptGrows ==
  ASSUME NEW T \in Transcripts, NEW s \in Sessions, NEW line \in ChatLine,
         NEW U, Takes(T, U, s, line)
  PROVE  /\ U \in Transcripts /\ Grows(T, U) /\ Len(T[s]) \in Nat /\ Len(U[s]) = Len(T[s]) + 1
         /\ U[s][Len(T[s]) + 1] = line
         /\ \A i \in 1..Len(T[s]) : U[s][i] = T[s][i]
<1> DEFINE a == Append(T[s], line)
<1>1. T[s] \in Seq(ChatLine)
  BY DEF Transcripts
<1>2. /\ a \in Seq(ChatLine) /\ Len(a) = Len(T[s]) + 1 /\ Len(T[s]) \in Nat
      /\ a[Len(T[s]) + 1] = line /\ \A i \in 1..Len(T[s]) : a[i] = T[s][i]
  BY <1>1
<1> HIDE DEF a
<1>3. /\ U \in [Sessions -> Seq(ChatLine)] /\ U[s] = a
      /\ \A t \in Sessions : t # s => U[t] = T[t]
  <2>1. U = [T EXCEPT ![s] = a]
    BY DEF a, Takes
  <2> QED
    BY <1>2, <2>1 DEF Transcripts
<1>4. Grows(T, U)
  <2>1. ASSUME NEW t \in Sessions PROVE Len(T[t]) <= Len(U[t]) /\ \A i \in 1..Len(T[t]) : U[t][i] = T[t][i]
    <3>1. CASE t = s
      BY <1>2, <1>3, <3>1
    <3>2. CASE t # s
      <4>1. Len(T[t]) \in Nat
        BY DEF Transcripts
      <4> QED
        BY <1>3, <3>2, <4>1
    <3> QED
      BY <3>1, <3>2
  <2> QED
    BY <2>1 DEF Grows
<1> QED
  BY <1>2, <1>3, <1>4 DEF Transcripts

\* One doorman of them changes, with what is injected into its session.
LEMMA OneDoorman ==
  ASSUME NEW T, NEW S, NEW top, NEW box, NEW D, DoormenSound(T, S, top, box, D),
         NEW s \in Sessions, NEW d, NEW more, \A t \in Sessions : t # s => more[t] = box[t],
         DoormanSound(T, S, s, d), Waits(T, S, top, more, s, d),
         Hears(d) => Hears(D[s]) /\ d.pending = D[s].pending
  PROVE  DoormenSound(T, S, top, more, [D EXCEPT ![s] = d])
<1> DEFINE E == [D EXCEPT ![s] = d]
<1>1. /\ D \in [Sessions -> DoormanRow] /\ Agreed(D) /\ d \in DoormanRow
      /\ \A t \in Sessions : DoormanSound(T, S, t, D[t]) /\ Waits(T, S, top, box, t, D[t])
  BY DEF DoormenSound, DoormanSound
<1>2. E \in [Sessions -> DoormanRow] /\ E[s] = d /\ \A t \in Sessions : t # s => E[t] = D[t]
  BY <1>1
<1> HIDE DEF E
<1>3. ASSUME NEW t \in Sessions PROVE DoormanSound(T, S, t, E[t]) /\ Waits(T, S, top, more, t, E[t])
  <2>1. CASE t = s
    BY <1>2, <2>1
  <2>2. CASE t # s
    <3>1. more[t] = box[t] /\ E[t] = D[t] /\ DoormanSound(T, S, t, D[t]) /\ Waits(T, S, top, box, t, D[t])
      BY <1>1, <1>2, <2>2
    <3> QED
      BY <3>1 DEF Waits
  <2> QED
    BY <2>1, <2>2
<1>4. ASSUME NEW t \in Sessions, Hears(E[t]) PROVE Hears(D[t]) /\ E[t].pending = D[t].pending
  BY <1>2, <1>4
<1>5. Agreed(E)
  BY <1>1, <1>4 DEF Agreed
<1>6. DoormenSound(T, S, top, more, E)
  BY <1>2, <1>3, <1>5 DEF DoormenSound
<1> QED
  BY <1>6 DEF E

\* A doorman that keeps its turn, whatever else it does.
LEMMA KeepsItsTurn ==
  ASSUME NEW T, NEW S, NEW top, NEW box, NEW D, DoormenSound(T, S, top, box, D),
         NEW s \in Sessions, NEW e, e \in DoormanRow, e.up = D[s].up, e.pending = D[s].pending,
         e.owned = D[s].owned, e.report = D[s].report, e.shows = D[s].shows
  PROVE  DoormenSound(T, S, top, box, [D EXCEPT ![s] = e])
<1>1. DoormanSound(T, S, s, D[s]) /\ Waits(T, S, top, box, s, D[s])
  BY DEF DoormenSound
<1>2. DoormanSound(T, S, s, e)
  BY <1>1 DEF DoormanSound
<1>3. Waits(T, S, top, box, s, e)
  BY <1>1 DEF Waits, Heard
<1>4. Hears(e) => Hears(D[s])
  BY DEF Hears
<1> QED
  BY <1>2, <1>3, <1>4, OneDoorman

\* The rows of a new doorman.
LEMMA NewDoormanRow ==
  ASSUME NEW up \in BOOLEAN
  PROVE  LET d == [NewDoorman EXCEPT !.up = up] IN
         d \in DoormanRow /\ d.pending = 0 /\ d.report = NoReport /\ d.shows = {} /\ NoReport \in ReportRow
         /\ NewDoorman \in DoormanRow /\ NewDoorman.report = NoReport /\ NewDoorman.shows = {}
<1> DEFINE no == FALSE
           yes == TRUE
           none == {}
           e == [up |-> yes, pending |-> 0, owned |-> no, shows |-> none, dirty |-> no,
                 flushing |-> no, report |-> NoReport, ticking |-> no, seen |-> 0, reporting |-> no]
           d == [e EXCEPT !.up = up]
<1>1. NoReport \in ReportRow
  BY DEF NoReport, ReportRow
<1>2. no \in BOOLEAN /\ yes \in BOOLEAN /\ none \in SUBSET Shown /\ none = {}
  OBVIOUS
<1>3. NewDoorman = e
  BY DEF NewDoorman
<1> HIDE DEF no, yes, none
<1>4. e \in DoormanRow /\ e.pending = 0 /\ e.report = NoReport /\ e.shows = none
  BY <1>1, <1>2 DEF DoormanRow
<1> HIDE DEF e
<1>5. d \in DoormanRow /\ d.pending = 0 /\ d.report = NoReport /\ d.shows = none
  BY <1>4 DEF DoormanRow
<1> QED
  BY <1>1, <1>2, <1>3, <1>4, <1>5

\* A line joins the ring, and the oldest makes room for it.
LEMMA RingTakes ==
  ASSUME RingTrue(transcript, strayed, ring), NEW line \in RingLine,
         line.author = "spirit" => Answers(transcript, strayed, line.say, line.message[1], line.message[2],
                                           line.steps)
  PROVE  RingTrue(transcript, strayed, Appended(line))
<1> DEFINE all == Append(ring, line)
<1>1. ring \in Seq(RingLine)
  BY DEF RingTrue
<1>2. /\ all \in Seq(RingLine) /\ Len(all) = Len(ring) + 1 /\ Len(ring) \in Nat /\ all # <<>>
      /\ \A i \in 1..Len(all) : all[i] = IF i = Len(ring) + 1 THEN line ELSE ring[i]
  BY <1>1
<1>3. Appended(line) = IF Len(all) > RingSize THEN Tail(all) ELSE all
  BY DEF Appended
<1> HIDE DEF all
<1>4. /\ Tail(all) \in Seq(RingLine) /\ Len(Tail(all)) = Len(all) - 1
      /\ \A i \in 1..Len(Tail(all)) : Tail(all)[i] = all[i + 1]
  BY <1>2
<1>5. /\ \A i \in 1..Len(all) : i # Len(ring) + 1 => i \in 1..Len(ring)
      /\ \A i \in 1..Len(Tail(all)) : i + 1 \in 1..Len(all)
  BY <1>2, <1>4
<1>6. RingTrue(transcript, strayed, all)
  BY <1>2, <1>5 DEF RingTrue
<1>7. RingTrue(transcript, strayed, Tail(all))
  BY <1>4, <1>5, <1>6 DEF RingTrue
<1> QED
  BY <1>3, <1>6, <1>7

\* A say that is delivered is a line of the operator's.
LEMMA HandleSayKeeps ==
  ASSUME ChatInv, NEW r \in wire, HandleSay(r) PROVE RingTrue(transcript, strayed, ring') /\ doormen' = doormen
<1> DEFINE nobody == <<0, 0>>
           none == {}
           line == [author |-> "operator", say |-> r.say, message |-> nobody, steps |-> none]
<1>1. r \in WireMessage /\ r.kind = "say" /\ RingTrue(transcript, strayed, ring)
  BY DEF ChatInv, WireTrue, HandleSay
<1>2. r.say \in Says
  BY <1>1 DEF WireMessage, TurnMessage
<1>3. nobody \in (Sessions \cup {0}) \X Nat /\ none \in SUBSET Shown
  OBVIOUS
<1>4. ring' = IF HasLine("operator", r.say) THEN ring ELSE Appended(line)
  BY DEF HandleSay
<1> HIDE DEF nobody, none
<1>5. line \in RingLine /\ line.author # "spirit"
  BY <1>2, <1>3 DEF RingLine
<1> HIDE DEF line
<1>6. RingTrue(transcript, strayed, Appended(line))
  BY <1>1, <1>5, RingTakes
<1> QED
  BY <1>1, <1>4, <1>6 DEF HandleSay

\* A settled turn is a line of the spirit's, and its doorman is done with it.
LEMMA HandleTurnKeeps ==
  ASSUME ChatInv, NEW r \in wire, HandleTurn(r)
  PROVE  RingTrue(transcript, strayed, ring') /\ DoormenSound(transcript, strayed, topSession, inbox, doormen')
<1> DEFINE line == [author |-> "spirit", say |-> r.say, message |-> <<r.from, r.message>>, steps |-> r.steps]
           s == r.from
           no == FALSE
           none == {}
           d == doormen[s]
           e == [d EXCEPT !.pending = 0, !.owned = no, !.shows = none, !.dirty = no,
                          !.flushing = no, !.report = NoReport, !.reporting = no]
           f == IF d.reporting /\ d.report.say = r.say THEN e ELSE d
<1>1. /\ r \in WireMessage /\ r.kind = "turn" /\ RingTrue(transcript, strayed, ring)
      /\ Answers(transcript, strayed, r.say, r.from, r.message, r.steps)
  BY DEF ChatInv, WireTrue, HandleTurn
<1>2. r \in TurnMessage
  BY <1>1 DEF WireMessage, TurnMessage
<1>3. /\ line \in RingLine /\ line.say = r.say /\ line.message = <<r.from, r.message>>
      /\ line.steps = r.steps /\ s \in Sessions
  BY <1>2 DEF TurnMessage, RingLine
<1>4. ring' = IF HasLine("spirit", r.say) THEN ring ELSE Appended(line)
  BY DEF HandleTurn
<1>5. doormen' = [doormen EXCEPT ![s] = f]
  BY DEF HandleTurn
<1> HIDE DEF line
<1>6. RingTrue(transcript, strayed, ring')
  BY <1>1, <1>3, <1>4, RingTakes
<1>7. DoormenSound(transcript, strayed, topSession, inbox, doormen)
  BY DEF ChatInv
<1>8. d \in DoormanRow /\ DoormanSound(transcript, strayed, s, d)
      /\ Waits(transcript, strayed, topSession, inbox, s, d)
  BY <1>3, <1>7 DEF DoormenSound
<1>9. no \in BOOLEAN /\ none \in SUBSET Shown /\ none = {} /\ NoReport \in ReportRow
  BY NewDoormanRow
<1> HIDE DEF no, none, d, s
<1>10. e \in DoormanRow /\ e.pending = 0 /\ e.report = NoReport
  BY <1>8, <1>9 DEF DoormanRow
<1> HIDE DEF e
<1>11. /\ DoormanSound(transcript, strayed, s, e) /\ Waits(transcript, strayed, topSession, inbox, s, e)
       /\ ~Hears(e)
  BY <1>10 DEF DoormanSound, Waits, Hears
<1>12. /\ DoormanSound(transcript, strayed, s, f) /\ Waits(transcript, strayed, topSession, inbox, s, f)
       /\ Hears(f) => f = d
  BY <1>8, <1>11
<1> HIDE DEF f
<1> QED
  BY <1>3, <1>5, <1>6, <1>7, <1>12, OneDoorman DEF d

\* The oldest line without an answer is a say, and there may be none.
LEMMA UnansweredIsASay == ASSUME RingTrue(transcript, strayed, ring) PROVE FirstUnanswered \in Says \cup {0}
<1> DEFINE open == {k \in DOMAIN ring : ring[k].author = "operator" /\ ring[k].say \in Unanswered}
<1>1. FirstUnanswered = IF open = {} THEN 0 ELSE ring[Min(open)].say
  BY DEF FirstUnanswered
<1>2. ring \in Seq(RingLine) /\ DOMAIN ring = 1..Len(ring) /\ Len(ring) \in Nat
  BY DEF RingTrue
<1>3. open \in SUBSET Nat /\ \A k \in open : k \in 1..Len(ring)
  BY <1>2
<1> HIDE DEF open
<1>4. ASSUME open # {} PROVE ring[Min(open)].say \in Says
  <2>1. Min(open) \in 1..Len(ring)
    BY <1>3, <1>4, LeastNumber
  <2>2. ring[Min(open)] \in RingLine
    BY <1>2, <2>1
  <2> QED
    BY <2>2 DEF RingLine
<1> QED
  BY <1>1, <1>4

\* A draft that is delivered ends the flush of its doorman.
LEMMA HandleDraftKeeps ==
  ASSUME ChatInv, NEW r \in wire, HandleDraft(r)
  PROVE  ring' = ring /\ DoormenSound(transcript, strayed, topSession, inbox, doormen')
<1> DEFINE s == r.from
           d == doormen[s]
           v == d.flushing /\ d.pending # r.say
           e == [d EXCEPT !.flushing = v]
<1>1. r \in WireMessage /\ r.kind = "draft"
  BY DEF ChatInv, WireTrue, HandleDraft
<1>2. s \in Sessions
  BY <1>1 DEF WireMessage, TurnMessage
<1>3. DoormenSound(transcript, strayed, topSession, inbox, doormen) /\ v \in BOOLEAN
  BY DEF ChatInv
<1>4. d \in DoormanRow /\ DoormanSound(transcript, strayed, s, d)
  BY <1>2, <1>3 DEF DoormenSound
<1>5. doormen' = [doormen EXCEPT ![s] = e] /\ ring' = ring
  BY DEF HandleDraft
<1> HIDE DEF v, d, s
<1>6. /\ e \in DoormanRow /\ e.up = d.up /\ e.pending = d.pending /\ e.owned = d.owned
      /\ e.report = d.report /\ e.shows = d.shows
  BY <1>3, <1>4 DEF DoormanRow
<1> HIDE DEF e
<1> QED
  BY <1>2, <1>3, <1>5, <1>6, KeepsItsTurn DEF d

\* A snapshot that is delivered tells a doorman what it sees.
LEMMA HandleSubscribeKeeps ==
  ASSUME ChatInv, NEW r \in wire, HandleSubscribe(r)
  PROVE  ring' = ring /\ DoormenSound(transcript, strayed, topSession, inbox, doormen')
<1> DEFINE s == r.from
           d == doormen[s]
           v == IF d.ticking THEN FirstUnanswered ELSE d.seen
           e == [d EXCEPT !.seen = v]
<1>1. r \in WireMessage /\ r.kind = "subscribe" /\ RingTrue(transcript, strayed, ring)
  BY DEF ChatInv, WireTrue, HandleSubscribe
<1>2. s \in Sessions
  BY <1>1 DEF WireMessage, TurnMessage
<1>3. DoormenSound(transcript, strayed, topSession, inbox, doormen)
  BY DEF ChatInv
<1>4. d \in DoormanRow /\ DoormanSound(transcript, strayed, s, d)
  BY <1>2, <1>3 DEF DoormenSound
<1>5. doormen' = [doormen EXCEPT ![s] = e] /\ ring' = ring
  BY DEF HandleSubscribe, chatHost
<1> HIDE DEF d, s
<1>6. v \in Says \cup {0}
  BY <1>1, <1>4, UnansweredIsASay DEF DoormanRow
<1> HIDE DEF v
<1>7. /\ e \in DoormanRow /\ e.up = d.up /\ e.pending = d.pending /\ e.owned = d.owned
      /\ e.report = d.report /\ e.shows = d.shows
  BY <1>4, <1>6 DEF DoormanRow
<1> HIDE DEF e
<1> QED
  BY <1>2, <1>3, <1>5, <1>7, KeepsItsTurn DEF d

\* A request is handled, and is gone.
LEMMA HandleChatKeeps == ASSUME ChatInv, HandleChat PROVE ChatInv'
<1>1. PICK r \in wire : /\ wire' = wire \ {r}
                        /\ (HandleSay(r) \/ HandleTurn(r) \/ HandleDraft(r) \/ HandleSubscribe(r))
  BY DEF HandleChat
<1>2. transcript' = transcript /\ agent' = agent /\ inbox' = inbox /\ topSession' = topSession /\ strayed' = strayed
  BY DEF HandleChat, omp
<1>3. /\ OmpTyped(transcript, agent, inbox) /\ RingTrue(transcript, strayed, ring)
      /\ WireTrue(transcript, strayed, wire)
      /\ DoormenSound(transcript, strayed, topSession, inbox, doormen)
  BY DEF ChatInv
<1>4. WireTrue(transcript, strayed, wire')
  BY <1>1, <1>3 DEF WireTrue
<1>5. RingTrue(transcript, strayed, ring') /\ DoormenSound(transcript, strayed, topSession, inbox, doormen')
  <2>1. CASE HandleSay(r)
    BY <1>3, <2>1, HandleSayKeeps
  <2>2. CASE HandleTurn(r)
    BY <2>2, HandleTurnKeeps
  <2>3. CASE HandleDraft(r)
    BY <1>3, <2>3, HandleDraftKeeps
  <2>4. CASE HandleSubscribe(r)
    BY <1>3, <2>4, HandleSubscribeKeeps
  <2> QED
    BY <1>1, <2>1, <2>2, <2>3, <2>4
<1> QED
  BY <1>2, <1>3, <1>4, <1>5 DEF ChatInv

\* A request that tells no settled turn is sent.
LEMMA WireTakes ==
  ASSUME NEW T, NEW S, WireTrue(T, S, wire), NEW m \in WireMessage, m.kind # "turn"
  PROVE  WireTrue(T, S, wire \cup {m})
BY DEF WireTrue

\* A report is sent: what it tells is true.
LEMMA ReportIsSent ==
  ASSUME NEW T, NEW S, WireTrue(T, S, wire), NEW s \in Sessions, NEW report \in ReportRow,
         Answers(T, S, report.say, s, report.message, report.steps)
  PROVE  WireTrue(T, S, wire \cup {TurnReport(s, report)})
<1> DEFINE m == TurnReport(s, report)
<1>1. report.say \in Says /\ report.message \in Nat /\ report.steps \in SUBSET Shown
  BY DEF Answers, ReportRow
<1>2. /\ m \in TurnMessage /\ m.say = report.say /\ m.message = report.message /\ m.from = s
      /\ m.steps = report.steps
  BY <1>1 DEF TurnMessage, TurnReport
<1> HIDE DEF m
<1>3. m \in WireMessage /\ Answers(T, S, m.say, m.from, m.message, m.steps)
  BY <1>2 DEF WireMessage
<1>4. WireTrue(T, S, wire \cup {m})
  BY <1>3 DEF WireTrue
<1> QED
  BY <1>4 DEF m

\* The Host starts again, or a request is lost.
LEMMA RequestsAreLost == ASSUME ChatInv, RestartChatHost \/ LoseRequest PROVE ChatInv'
<1>1. /\ OmpTyped(transcript, agent, inbox) /\ RingTrue(transcript, strayed, ring)
      /\ WireTrue(transcript, strayed, wire)
      /\ DoormenSound(transcript, strayed, topSession, inbox, doormen)
  BY DEF ChatInv
<1>2. /\ transcript' = transcript /\ agent' = agent /\ inbox' = inbox /\ topSession' = topSession /\ strayed' = strayed
      /\ doormen' = doormen
  BY DEF RestartChatHost, LoseRequest, omp
<1>3. WireTrue(transcript, strayed, wire')
  BY <1>1 DEF WireTrue, RestartChatHost, LoseRequest
<1>4. RingTrue(transcript, strayed, ring')
  <2>1. CASE ring' = <<>>
    <3>1. ring' \in Seq(RingLine) /\ Len(ring') = 0
      BY <2>1
    <3> QED
      BY <3>1 DEF RingTrue
  <2> QED
    BY <1>1, <2>1 DEF RestartChatHost, LoseRequest, chatHost
<1> QED
  BY <1>1, <1>2, <1>3, <1>4 DEF ChatInv

\* A line is said, or was not delivered.
LEMMA SayKeeps == ASSUME ChatInv, Say \/ SayFails PROVE ChatInv'
<1>1. /\ OmpTyped(transcript, agent, inbox) /\ RingTrue(transcript, strayed, ring)
      /\ WireTrue(transcript, strayed, wire)
      /\ DoormenSound(transcript, strayed, topSession, inbox, doormen)
  BY DEF ChatInv
<1>2. /\ transcript' = transcript /\ agent' = agent /\ inbox' = inbox /\ topSession' = topSession /\ strayed' = strayed
      /\ doormen' = doormen /\ ring' = ring
  BY DEF Say, SayFails, omp, chatHost
<1>3. WireTrue(transcript, strayed, wire')
  <2>1. CASE Say
    <3>1. PICK i \in Says : wire' = wire \cup {[kind |-> "say", say |-> i]}
      BY <2>1 DEF Say
    <3>2. [kind |-> "say", say |-> i] \in WireMessage
      BY DEF WireMessage
    <3> QED
      BY <1>1, <3>1, <3>2, WireTakes
  <2>2. CASE SayFails
    BY <1>1, <2>2 DEF SayFails
  <2> QED
    BY <2>1, <2>2
<1> QED
  BY <1>1, <1>2, <1>3 DEF ChatInv

\* A report is sent again until it is answered.
LEMMA DeliverKeeps == ASSUME ChatInv, NEW s \in Sessions, DeliverChatReport(s) PROVE ChatInv'
<1> DEFINE d == doormen[s]
           yes == TRUE
           e == [d EXCEPT !.reporting = yes]
<1>1. /\ OmpTyped(transcript, agent, inbox) /\ RingTrue(transcript, strayed, ring)
      /\ WireTrue(transcript, strayed, wire)
      /\ DoormenSound(transcript, strayed, topSession, inbox, doormen)
  BY DEF ChatInv
<1>2. d \in DoormanRow /\ DoormanSound(transcript, strayed, s, d)
  BY <1>1 DEF DoormenSound
<1>3. /\ doormen' = [doormen EXCEPT ![s] = e] /\ wire' = wire \cup {TurnReport(s, d.report)}
      /\ d.report # NoReport
  BY DEF DeliverChatReport, Report
<1>4. /\ transcript' = transcript /\ agent' = agent /\ inbox' = inbox /\ topSession' = topSession /\ strayed' = strayed
      /\ ring' = ring /\ yes \in BOOLEAN
  BY DEF DeliverChatReport, omp, chatHost
<1> HIDE DEF d, yes
<1>5. d.report \in ReportRow /\ Answers(transcript, strayed, d.report.say, s, d.report.message, d.report.steps)
  BY <1>2, <1>3 DEF DoormanRow, DoormanSound
<1>6. WireTrue(transcript, strayed, wire')
  BY <1>1, <1>3, <1>5, ReportIsSent
<1>7. /\ e \in DoormanRow /\ e.up = d.up /\ e.pending = d.pending /\ e.owned = d.owned
      /\ e.report = d.report /\ e.shows = d.shows
  BY <1>2, <1>4 DEF DoormanRow
<1> HIDE DEF e
<1>9. DoormenSound(transcript, strayed, topSession, inbox, doormen')
  BY <1>1, <1>3, <1>7, KeepsItsTurn DEF d
<1> QED
  BY <1>1, <1>4, <1>6, <1>9 DEF ChatInv

\* A doorman at rest asks for the room.
LEMMA TickKeeps == ASSUME ChatInv, NEW s \in Sessions, TickChatDoorman(s) PROVE ChatInv'
<1> DEFINE d == doormen[s]
           yes == TRUE
           e == [d EXCEPT !.ticking = yes, !.seen = 0]
           m == [kind |-> "subscribe", from |-> s]
<1>1. /\ OmpTyped(transcript, agent, inbox) /\ RingTrue(transcript, strayed, ring)
      /\ WireTrue(transcript, strayed, wire)
      /\ DoormenSound(transcript, strayed, topSession, inbox, doormen)
  BY DEF ChatInv
<1>2. d \in DoormanRow /\ DoormanSound(transcript, strayed, s, d)
  BY <1>1 DEF DoormenSound
<1>3. /\ doormen' = [doormen EXCEPT ![s] = e] /\ wire' = wire \cup {m}
  BY DEF TickChatDoorman
<1>4. /\ transcript' = transcript /\ agent' = agent /\ inbox' = inbox /\ topSession' = topSession /\ strayed' = strayed
      /\ ring' = ring /\ yes \in BOOLEAN
  BY DEF TickChatDoorman, omp, chatHost
<1> HIDE DEF d, yes
<1>5. m \in WireMessage /\ m.kind # "turn"
  BY DEF WireMessage
<1> HIDE DEF m
<1>6. WireTrue(transcript, strayed, wire')
  BY <1>1, <1>3, <1>5, WireTakes
<1>7. /\ e \in DoormanRow /\ e.up = d.up /\ e.pending = d.pending /\ e.owned = d.owned
      /\ e.report = d.report /\ e.shows = d.shows
  BY <1>2, <1>4 DEF DoormanRow
<1> HIDE DEF e
<1>9. DoormenSound(transcript, strayed, topSession, inbox, doormen')
  BY <1>1, <1>3, <1>7, KeepsItsTurn DEF d
<1> QED
  BY <1>1, <1>4, <1>6, <1>9 DEF ChatInv

\* A doorman injects the say it saw, and has no turn of it yet.
LEMMA InjectKeeps == ASSUME ChatInv, NEW s \in Sessions, Inject(s) PROVE ChatInv'
<1> DEFINE d == doormen[s]
           no == FALSE
           none == {}
           rests == [d EXCEPT !.ticking = no]
           waits == [d EXCEPT !.ticking = no, !.pending = d.seen, !.owned = no, !.shows = none,
                              !.dirty = no, !.flushing = no]
<1>1. /\ OmpTyped(transcript, agent, inbox) /\ RingTrue(transcript, strayed, ring)
      /\ WireTrue(transcript, strayed, wire)
      /\ DoormenSound(transcript, strayed, topSession, inbox, doormen)
  BY DEF ChatInv
<1>2. d \in DoormanRow /\ DoormanSound(transcript, strayed, s, d)
  BY <1>1 DEF DoormenSound
<1>3. /\ transcript' = transcript /\ agent' = agent /\ topSession' = topSession /\ strayed' = strayed
      /\ ring' = ring /\ wire' = wire
      /\ no \in BOOLEAN /\ none = {} /\ none \in SUBSET Shown /\ ~no
  BY DEF Inject, chatHost
<1>4. \/ /\ doormen' = [doormen EXCEPT ![s] = waits] /\ inbox' = [inbox EXCEPT ![s] = Append(@, d.seen)]
         /\ d.seen # 0 /\ d.up /\ topSession = s /\ inbox[s] = <<>>
      \/ doormen' = [doormen EXCEPT ![s] = rests] /\ inbox' = inbox
  BY DEF Inject, Mine, Idle
<1> HIDE DEF d, no, none
<1>5. /\ rests \in DoormanRow /\ rests.up = d.up /\ rests.pending = d.pending /\ rests.owned = d.owned
      /\ rests.report = d.report /\ rests.shows = d.shows
  BY <1>2, <1>3 DEF DoormanRow
<1>6. /\ waits \in DoormanRow /\ waits.owned = no /\ waits.report = d.report /\ waits.shows = none
      /\ waits.up = d.up /\ waits.pending = d.seen
  BY <1>2, <1>3 DEF DoormanRow
<1> HIDE DEF rests, waits
<1>7. inbox \in [Sessions -> Seq(Says)] /\ d.seen \in Says \cup {0}
  BY <1>1, <1>2 DEF OmpTyped, DoormanRow
<1>8. CASE /\ doormen' = [doormen EXCEPT ![s] = waits] /\ inbox' = [inbox EXCEPT ![s] = Append(@, d.seen)]
           /\ d.seen # 0 /\ d.up /\ topSession = s /\ inbox[s] = <<>>
  <2>1. Append(inbox[s], d.seen) \in Seq(Says) /\ Append(inbox[s], d.seen) = <<d.seen>>
    BY <1>7, <1>8
  <2>2. /\ inbox' \in [Sessions -> Seq(Says)] /\ inbox'[s] = <<d.seen>>
        /\ \A t \in Sessions : t # s => inbox'[t] = inbox[t]
    BY <1>7, <1>8, <2>1
  <2>3. DoormanSound(transcript, strayed, s, waits)
    BY <1>2, <1>6 DEF DoormanSound
  <2> DEFINE more == inbox'
  <2>4. more[s] = <<d.seen>> /\ \A t \in Sessions : t # s => more[t] = inbox[t]
    BY <2>2
  <2> HIDE DEF more
  <2>5. Waits(transcript, strayed, topSession, more, s, waits) /\ ~Hears(waits)
    BY <1>3, <1>6, <1>8, <2>4 DEF Waits, Hears
  <2>6. DoormenSound(transcript, strayed, topSession, more, doormen')
    BY <1>1, <1>8, <2>3, <2>4, <2>5, OneDoorman
  <2>7. OmpTyped(transcript, agent, inbox')
    BY <1>1, <2>2 DEF OmpTyped
  <2> QED
    BY <1>1, <1>3, <2>6, <2>7 DEF ChatInv, more
<1>9. CASE doormen' = [doormen EXCEPT ![s] = rests] /\ inbox' = inbox
  <2>1. DoormenSound(transcript, strayed, topSession, inbox, doormen')
    BY <1>1, <1>5, <1>9, KeepsItsTurn DEF d
  <2> QED
    BY <1>1, <1>3, <1>9, <2>1 DEF ChatInv
<1> QED
  BY <1>4, <1>8, <1>9

\* A request fails, and what it was about is kept.
LEMMA RequestFailsKeeps == ASSUME ChatInv, NEW s \in Sessions, RequestFails(s) PROVE ChatInv'
<1> DEFINE d == doormen[s]
           no == FALSE
           KeptBy(e) == /\ e \in DoormanRow /\ e.up = d.up /\ e.pending = d.pending /\ e.owned = d.owned
                      /\ e.report = d.report /\ e.shows = d.shows
<1>1. /\ OmpTyped(transcript, agent, inbox) /\ RingTrue(transcript, strayed, ring)
      /\ WireTrue(transcript, strayed, wire)
      /\ DoormenSound(transcript, strayed, topSession, inbox, doormen)
  BY DEF ChatInv
<1>2. d \in DoormanRow /\ DoormanSound(transcript, strayed, s, d)
  BY <1>1 DEF DoormenSound
<1>3. /\ transcript' = transcript /\ agent' = agent /\ inbox' = inbox /\ topSession' = topSession /\ strayed' = strayed
      /\ ring' = ring /\ wire' = wire /\ no \in BOOLEAN
  BY DEF RequestFails, omp, chatHost
<1>4. \/ doormen' = [doormen EXCEPT ![s] = [d EXCEPT !.reporting = no]]
      \/ doormen' = [doormen EXCEPT ![s] = [d EXCEPT !.flushing = no]]
      \/ doormen' = [doormen EXCEPT ![s] = [d EXCEPT !.ticking = no]]
  BY DEF RequestFails
<1> HIDE DEF d, no
<1>5. KeptBy([d EXCEPT !.reporting = no]) /\ KeptBy([d EXCEPT !.flushing = no]) /\ KeptBy([d EXCEPT !.ticking = no])
  BY <1>2, <1>3 DEF DoormanRow
<1>6. \E e : doormen' = [doormen EXCEPT ![s] = e] /\ KeptBy(e)
  <2> HIDE DEF KeptBy
  <2> QED
    BY <1>4, <1>5
<1>7. PICK e : doormen' = [doormen EXCEPT ![s] = e] /\ KeptBy(e)
  BY <1>6
<1>9. DoormenSound(transcript, strayed, topSession, inbox, doormen')
  <2>1. /\ e \in DoormanRow /\ e.up = doormen[s].up /\ e.pending = doormen[s].pending
        /\ e.owned = doormen[s].owned /\ e.report = doormen[s].report /\ e.shows = doormen[s].shows
    BY <1>7 DEF d
  <2>2. DoormenSound(transcript, strayed, topSession, inbox, [doormen EXCEPT ![s] = e])
    BY <1>1, <2>1, KeepsItsTurn
  <2> QED
    BY <1>7, <2>2
<1> QED
  BY <1>1, <1>3, <1>9 DEF ChatInv

\* A draft is flushed.
LEMMA FlushKeeps == ASSUME ChatInv, NEW s \in Sessions, FlushDraft(s) PROVE ChatInv'
<1> DEFINE d == doormen[s]
           yes == TRUE
           no == FALSE
           e == [d EXCEPT !.flushing = yes, !.dirty = no]
           m == [kind |-> "draft", from |-> s, say |-> d.pending, shows |-> d.shows]
<1>1. /\ OmpTyped(transcript, agent, inbox) /\ RingTrue(transcript, strayed, ring)
      /\ WireTrue(transcript, strayed, wire)
      /\ DoormenSound(transcript, strayed, topSession, inbox, doormen)
  BY DEF ChatInv
<1>2. d \in DoormanRow /\ DoormanSound(transcript, strayed, s, d)
  BY <1>1 DEF DoormenSound
<1>3. /\ doormen' = [doormen EXCEPT ![s] = e] /\ wire' = wire \cup {m}
  BY DEF FlushDraft
<1>4. /\ transcript' = transcript /\ agent' = agent /\ inbox' = inbox /\ topSession' = topSession /\ strayed' = strayed
      /\ ring' = ring /\ yes \in BOOLEAN /\ no \in BOOLEAN
  BY DEF FlushDraft, omp, chatHost
<1> HIDE DEF d, yes, no
<1>5. m \in WireMessage /\ m.kind # "turn"
  BY <1>2 DEF WireMessage, DoormanRow
<1> HIDE DEF m
<1>6. WireTrue(transcript, strayed, wire')
  BY <1>1, <1>3, <1>5, WireTakes
<1>7. /\ e \in DoormanRow /\ e.up = d.up /\ e.pending = d.pending /\ e.owned = d.owned
      /\ e.report = d.report /\ e.shows = d.shows
  BY <1>2, <1>4 DEF DoormanRow
<1> HIDE DEF e
<1>9. DoormenSound(transcript, strayed, topSession, inbox, doormen')
  BY <1>1, <1>3, <1>7, KeepsItsTurn DEF d
<1> QED
  BY <1>1, <1>4, <1>6, <1>9 DEF ChatInv

\* A turn ends without a settled message, or an async result begins one.
LEMMA AgentMoves ==
  ASSUME ChatInv, NEW s \in Sessions, TurnVanishes(s) \/ FollowUp(s) PROVE ChatInv'
<1>1. /\ OmpTyped(transcript, agent, inbox) /\ RingTrue(transcript, strayed, ring)
      /\ WireTrue(transcript, strayed, wire)
      /\ DoormenSound(transcript, strayed, topSession, inbox, doormen)
  BY DEF ChatInv
<1>2. /\ transcript' = transcript /\ inbox' = inbox /\ topSession' = topSession /\ strayed' = strayed
      /\ doormen' = doormen /\ ring' = ring /\ wire' = wire
      /\ agent' = [agent EXCEPT ![s] = "idle"] \/ agent' = [agent EXCEPT ![s] = "running"]
  BY DEF TurnVanishes, FollowUp, chatHost
<1>3. OmpTyped(transcript, agent', inbox)
  BY <1>1, <1>2 DEF OmpTyped
<1> QED
  BY <1>1, <1>2, <1>3 DEF ChatInv

\* A message that begins a turn: the doormen that wait listen to it if it is their say.
LEMMA OriginatedKeeps ==
  ASSUME ChatInv, NEW s \in Sessions, topSession = s, NEW say \in Says \cup {0}, Originated(say),
         transcript' = [transcript EXCEPT ![s] = Append(@, Origin(say))],
         NEW box, \A t \in Sessions : t # s => box[t] = inbox[t],
         \/ say = 0 /\ box = inbox
         \/ say # 0 /\ inbox[s] # <<>> /\ say = Head(inbox[s]) /\ box[s] = Tail(inbox[s])
  PROVE  /\ transcript' \in Transcripts /\ Grows(transcript, transcript')
         /\ DoormenSound(transcript', strayed, s, box, doormen')
<1>1. /\ OmpTyped(transcript, agent, inbox)
      /\ DoormenSound(transcript, strayed, topSession, inbox, doormen)
  BY DEF ChatInv
<1> DEFINE no == FALSE
           line == Origin(say)
           U == transcript'
           n == Len(transcript[s]) + 1
           Free(d) == d.up /\ d.pending # 0 /\ d.report = NoReport
<1>2. line \in ChatLine /\ transcript \in Transcripts /\ line.kind = "origin" /\ line.say = say
  <2>1. no \in BOOLEAN /\ line = [kind |-> "origin", say |-> say, settled |-> no]
    BY DEF Origin
  <2> HIDE DEF no, line
  <2> QED
    BY <1>1, <2>1 DEF ChatLine, OmpTyped
<1> HIDE DEF line
<1>3. /\ U \in Transcripts /\ Grows(transcript, U) /\ n \in Nat /\ n >= 1
      /\ Len(U[s]) = n /\ U[s][n] = line /\ \A i \in 1..n - 1 : U[s][i] = transcript[s][i]
  <2>1. Takes(transcript, U, s, line)
    BY DEF Takes, line
  <2> HIDE DEF U
  <2>2. /\ U \in Transcripts /\ Grows(transcript, U) /\ Len(transcript[s]) \in Nat
        /\ Len(U[s]) = Len(transcript[s]) + 1 /\ U[s][Len(transcript[s]) + 1] = line
        /\ \A i \in 1..Len(transcript[s]) : U[s][i] = transcript[s][i]
    BY <1>2, <2>1, TranscriptGrows
  <2> QED
    BY <2>2
<1>4. \A t \in Sessions : /\ doormen[t] \in DoormanRow
                           /\ DoormanSound(U, strayed, t, doormen[t])
                           /\ Waits(transcript, strayed, s, inbox, t, doormen[t])
  BY <1>1, <1>2, <1>3, LinesStay DEF DoormenSound
<1>5. doormen' = [t \in Sessions |-> IF Free(doormen[t])
                                      THEN [doormen[t] EXCEPT !.owned = (say = doormen[t].pending)]
                                      ELSE doormen[t]]
  BY DEF Originated
<1>6. n = Len(transcript[s]) + 1 /\ Len(transcript[s]) \in Nat
  BY <1>3
<1> HIDE DEF n, U
<1>7. ASSUME NEW t \in Sessions
      PROVE  /\ DoormanSound(U, strayed, t, doormen'[t]) /\ Waits(U, strayed, s, box, t, doormen'[t])
             /\ Hears(doormen'[t]) => doormen'[t].pending = say
  <2> DEFINE d == doormen[t]
             v == say = d.pending
             e == [d EXCEPT !.owned = v]
  <2>0. v \in BOOLEAN /\ (v <=> say = d.pending)
    OBVIOUS
  <2>1. /\ d \in DoormanRow /\ DoormanSound(U, strayed, t, d)
        /\ Waits(transcript, strayed, s, inbox, t, d)
    BY <1>4
  <2>2. doormen'[t] = IF Free(d) THEN e ELSE d
    BY <1>5
  <2> HIDE DEF v, d
  <2>3. CASE Free(d)
    <3>1. /\ e \in DoormanRow /\ e.report = d.report /\ e.shows = d.shows /\ e.pending = d.pending
          /\ e.owned = v /\ e.up = d.up
      BY <2>0, <2>1 DEF DoormanRow
    <3> HIDE DEF e
    <3>2. DoormanSound(U, strayed, t, e)
      BY <2>1, <3>1 DEF DoormanSound
    <3>3. Hears(e) => e.pending = say
      BY <2>0, <3>1 DEF Hears
    <3>4. ASSUME d.pending \notin strayed
          PROVE  /\ d.up /\ s = t
                 /\ \/ box[t] = <<d.pending>> /\ ~v /\ d.shows = {}
                    \/ box[t] = <<>> /\ Heard(U, t, e)
      <4>1. /\ d.up /\ s = t
            /\ \/ inbox[t] = <<d.pending>> /\ ~d.owned /\ d.shows = {}
               \/ inbox[t] = <<>> /\ Heard(transcript, t, d)
        BY <2>1, <2>3, <3>4 DEF Waits
      <4>2. CASE inbox[t] = <<d.pending>> /\ d.shows = {} /\ say = 0
        BY <2>0, <2>3, <4>1, <4>2
      <4>3. CASE inbox[t] = <<d.pending>> /\ d.shows = {} /\ say # 0
        <5>1. say = d.pending /\ box[t] = <<>>
          BY <4>1, <4>3
        <5>2. LastBegins(U, s, n, say)
          <6>1. n \in 1..n /\ \A j \in (n + 1)..n : FALSE
            BY <1>3
          <6> QED
            BY <1>3, <6>1 DEF LastBegins, Begins, line
        <5>3. StaysOpen(U, s, n, n)
          BY <1>3 DEF StaysOpen
        <5>4. Heard(U, t, e)
          BY <1>3, <3>1, <4>1, <4>3, <5>1, <5>2, <5>3 DEF Heard
        <5> QED
          BY <4>1, <5>1, <5>4
      <4>4. CASE inbox[t] = <<>> /\ Heard(transcript, t, d)
        <5>1. say = 0 /\ box[t] = <<>> /\ ~v
          BY <2>0, <2>3, <4>1, <4>4
        <5>2. ASSUME d.shows # {} PROVE Heard(U, t, e)
          <6>1. PICK o \in Nat : /\ LastBegins(transcript, t, o, d.pending)
                                 /\ \A m \in d.shows : m[1] = t /\ Follows(transcript, t, o, m[2])
            BY <4>4, <5>2 DEF Heard
          <6>2. Begins(U, t, o, d.pending) /\ \A m \in d.shows : m[1] = t /\ Follows(U, t, o, m[2])
            BY <1>2, <1>3, <6>1, TurnsStay DEF LastBegins
          <6>3. \A j \in (o + 1)..Len(U[t]) : U[t][j] # Origin(d.pending)
            <7>1. ASSUME NEW j \in (o + 1)..n, j # n PROVE U[s][j] # Origin(d.pending)
              <8>1. j \in (o + 1)..Len(transcript[s]) /\ j \in 1..n - 1
                BY <1>6, <7>1
              <8> QED
                BY <1>3, <4>1, <6>1, <8>1 DEF LastBegins
            <7>2. U[s][n] # Origin(d.pending)
              <8>1. Origin(d.pending).say = d.pending
                BY DEF Origin
              <8> QED
                BY <1>2, <1>3, <2>3, <5>1, <8>1
            <7> QED
              BY <1>3, <4>1, <7>1, <7>2
          <6>4. LastBegins(U, t, o, e.pending)
            BY <3>1, <6>2, <6>3 DEF LastBegins
          <6> QED
            BY <3>1, <5>1, <6>2, <6>4 DEF Heard
        <5>3. CASE d.shows = {}
          BY <3>1, <4>1, <5>1, <5>3 DEF Heard
        <5> QED
          BY <4>1, <5>1, <5>2, <5>3
      <4> QED
        BY <4>1, <4>2, <4>3, <4>4
    <3>5. Waits(U, strayed, s, box, t, e)
      BY <3>1, <3>4 DEF Waits
    <3> QED
      BY <2>2, <2>3, <3>2, <3>3, <3>5
  <2>4. CASE ~Free(d)
    <3>1. ~Hears(d) /\ Waits(U, strayed, s, box, t, d)
      BY <2>1, <2>4 DEF Waits, Hears
    <3> QED
      BY <2>1, <2>2, <2>4, <3>1
  <2> QED
    BY <2>3, <2>4
<1>8. doormen' \in [Sessions -> DoormanRow]
  <2>1. \A t \in Sessions : doormen'[t] \in DoormanRow
    BY <1>7 DEF DoormanSound
  <2> QED
    BY <1>5, <2>1
<1>9. Agreed(doormen')
  BY <1>7 DEF Agreed
<1>10. DoormenSound(U, strayed, s, box, doormen')
  BY <1>7, <1>8, <1>9 DEF DoormenSound
<1> QED
  BY <1>3, <1>10 DEF U

\* A turn begins: an injected say is dispatched, or another message comes.
LEMMA TurnBegins == ASSUME ChatInv, NEW s \in Sessions, DispatchSay(s) \/ Prompt(s) PROVE ChatInv'
<1>1. /\ OmpTyped(transcript, agent, inbox) /\ RingTrue(transcript, strayed, ring)
      /\ WireTrue(transcript, strayed, wire)
      /\ DoormenSound(transcript, strayed, topSession, inbox, doormen)
  BY DEF ChatInv
<1>2. topSession = s /\ topSession' = s /\ ring' = ring /\ wire' = wire /\ strayed' = strayed
      /\ agent' = [agent EXCEPT ![s] = "running"]
  BY DEF DispatchSay, Prompt, chatHost
<1>3. transcript \in Transcripts /\ agent' \in [Sessions -> {"idle", "running"}]
      /\ inbox \in [Sessions -> Seq(Says)]
  BY <1>1, <1>2 DEF OmpTyped
<1> DEFINE more == inbox'
           Arrives(say) == /\ transcript' = [transcript EXCEPT ![s] = Append(@, Origin(say))]
                         /\ Originated(say)
                         /\ \/ say = 0 /\ more = inbox
                            \/ say # 0 /\ inbox[s] # <<>> /\ say = Head(inbox[s]) /\ more[s] = Tail(inbox[s])
<1>4. /\ more \in [Sessions -> Seq(Says)] /\ \A t \in Sessions : t # s => more[t] = inbox[t]
      /\ \E say \in Says \cup {0} : Arrives(say)
  <2>1. CASE DispatchSay(s)
    <3>1. inbox[s] \in Seq(Says) /\ inbox[s] # <<>> /\ more = [inbox EXCEPT ![s] = Tail(inbox[s])]
      BY <1>3, <2>1 DEF DispatchSay
    <3> HIDE DEF more
    <3>2. Tail(inbox[s]) \in Seq(Says) /\ Head(inbox[s]) \in Says /\ Head(inbox[s]) # 0
      BY <3>1, SaysAreNumbered
    <3>3. /\ more \in [Sessions -> Seq(Says)] /\ \A t \in Sessions : t # s => more[t] = inbox[t]
          /\ more[s] = Tail(inbox[s])
      BY <1>3, <3>1, <3>2
    <3>4. Arrives(Head(inbox[s]))
      BY <2>1, <3>1, <3>2, <3>3 DEF DispatchSay
    <3> QED
      BY <3>2, <3>3, <3>4
  <2>2. CASE Prompt(s)
    <3>1. Arrives(0) /\ more = inbox
      BY <2>2 DEF Prompt
    <3> QED
      BY <1>3, <3>1
  <2> QED
    BY <2>1, <2>2
<1> HIDE DEF more
<1>5. /\ transcript' \in Transcripts /\ Grows(transcript, transcript')
      /\ DoormenSound(transcript', strayed, s, more, doormen')
  <2>1. PICK say \in Says \cup {0} : Arrives(say)
    BY <1>4
  <2> QED
    BY <1>2, <1>4, <2>1, OriginatedKeeps
<1>6. RingTrue(transcript', strayed, ring) /\ WireTrue(transcript', strayed, wire)
  BY <1>1, <1>3, <1>5, LinesStay
<1> QED
  BY <1>2, <1>3, <1>4, <1>5, <1>6 DEF ChatInv, OmpTyped, more

\* A message is said: the doorman that hears it shows it with its turn.
LEMMA SpeakKeeps ==
  ASSUME ChatInv, NEW s \in Sessions, NEW settled \in BOOLEAN, Speak(s, settled) PROVE ChatInv'
<1>1. /\ OmpTyped(transcript, agent, inbox) /\ RingTrue(transcript, strayed, ring)
      /\ WireTrue(transcript, strayed, wire)
      /\ DoormenSound(transcript, strayed, topSession, inbox, doormen)
  BY DEF ChatInv
<1> DEFINE line == Reply(settled)
           U == transcript'
           n == Len(transcript[s]) + 1
           yes == TRUE
           unsettled == ~settled
           Noted(d) == [d EXCEPT !.shows = @ \cup {<<s, n>>}, !.dirty = yes, !.owned = unsettled]
<1>2. /\ topSession = s /\ topSession' = s /\ ring' = ring /\ wire' = wire /\ inbox' = inbox
      /\ strayed' = strayed
      /\ agent' = [agent EXCEPT ![s] = IF settled THEN "idle" ELSE @] /\ agent[s] = "running"
      /\ U = [transcript EXCEPT ![s] = Append(@, line)]
  BY DEF Speak, chatHost
<1>3. /\ line \in ChatLine /\ line.kind # "origin" /\ transcript \in Transcripts
      /\ (~settled => line # Reply(TRUE)) /\ \A y : line # Origin(y)
  BY <1>1 DEF Reply, Origin, ChatLine, OmpTyped
<1> HIDE DEF line
<1>4. /\ U \in Transcripts /\ Grows(transcript, U) /\ n \in Nat /\ n - 1 = Len(transcript[s])
      /\ Len(U[s]) = n /\ U[s][n] = line /\ \A i \in 1..n - 1 : U[s][i] = transcript[s][i]
  <2>1. Takes(transcript, U, s, line)
    BY <1>2 DEF Takes
  <2> HIDE DEF U
  <2>2. /\ U \in Transcripts /\ Grows(transcript, U) /\ Len(transcript[s]) \in Nat
        /\ Len(U[s]) = Len(transcript[s]) + 1 /\ U[s][Len(transcript[s]) + 1] = line
        /\ \A i \in 1..Len(transcript[s]) : U[s][i] = transcript[s][i]
    BY <1>3, <2>1, TranscriptGrows
  <2> QED
    BY <2>2
<1>5. agent' \in [Sessions -> {"idle", "running"}]
  BY <1>1, <1>2 DEF OmpTyped
<1>6. \A t \in Sessions : /\ doormen[t] \in DoormanRow
                           /\ DoormanSound(U, strayed, t, doormen[t])
                           /\ Waits(transcript, strayed, s, inbox, t, doormen[t])
  BY <1>1, <1>2, <1>3, <1>4, LinesStay DEF DoormenSound
<1>7. \A t \in Sessions : doormen'[t] = IF t \in Drafting /\ \A u \in Drafting : t <= u
                                        THEN Noted(doormen[t]) ELSE doormen[t]
  BY DEF Speak, Ended
<1>8. DOMAIN doormen' = Sessions /\ doormen' = [t \in Sessions |-> doormen'[t]]
  BY DEF Speak
<1>9. yes \in BOOLEAN /\ unsettled \in BOOLEAN /\ (unsettled <=> ~settled) /\ <<s, n>> \in Shown
  BY <1>4 DEF Shown
<1> HIDE DEF n, yes, unsettled, U
<1>10. ASSUME NEW o \in Nat, NEW y, LastBegins(transcript, s, o, y)
       PROVE  /\ LastBegins(U, s, o, y)
              /\ \A e : Follows(transcript, s, o, e) => Follows(U, s, o, e)
              /\ StaysOpen(transcript, s, o, Len(transcript[s])) =>
                    Follows(U, s, o, n) /\ (~settled => StaysOpen(U, s, o, n))
  <2>1. Begins(transcript, s, o, y) /\ o \in 1..n - 1
    BY <1>4, <1>10 DEF LastBegins, Begins
  <2>2. Begins(U, s, o, y)
    BY <1>3, <1>4, <2>1, TurnsStay
  <2>3. \A j \in (o + 1)..n : j # n => j \in (o + 1)..(n - 1) /\ j \in 1..(n - 1)
    BY <1>4, <2>1
  <2>4. \A j \in (o + 1)..n : U[s][j] # Origin(y)
    BY <1>3, <1>4, <1>10, <2>3 DEF LastBegins
  <2>5. LastBegins(U, s, o, y)
    BY <1>4, <2>2, <2>4 DEF LastBegins
  <2>6. ASSUME StaysOpen(transcript, s, o, n - 1)
        PROVE  Follows(U, s, o, n) /\ (~settled => StaysOpen(U, s, o, n))
    <3>1. StaysOpen(U, s, o, n - 1)
      BY <1>3, <1>4, <2>1, <2>6, TurnsStay
    <3>2. n \in (o + 1)..n
      BY <1>4, <2>1
    <3>3. Follows(U, s, o, n)
      BY <1>3, <1>4, <3>1, <3>2 DEF Follows
    <3>4. ~settled => StaysOpen(U, s, o, n)
      BY <1>3, <1>4, <2>3, <3>1 DEF StaysOpen
    <3> QED
      BY <3>3, <3>4
  <2>7. \A e : Follows(transcript, s, o, e) => Follows(U, s, o, e)
    BY <1>3, <1>4, TurnsStay
  <2> QED
    BY <1>4, <2>5, <2>6, <2>7
<1>11. ASSUME NEW t \in Sessions, NEW u \in Sessions, Hears(doormen[t]), Hears(doormen[u]),
              doormen[t].pending \notin strayed
       PROVE  t = s /\ u = s
  <2>1. doormen[t].pending = doormen[u].pending
    BY <1>1, <1>11 DEF DoormenSound, Agreed
  <2> QED
    BY <1>6, <1>11, <2>1 DEF Waits, Hears
<1>12. ASSUME NEW t \in Sessions
       PROVE  /\ DoormanSound(U, strayed, t, doormen'[t]) /\ Waits(U, strayed, s, inbox, t, doormen'[t])
              /\ doormen'[t].pending = doormen[t].pending
              /\ Hears(doormen'[t]) => Hears(doormen[t])
  <2> DEFINE d == doormen[t]
             e == Noted(d)
             first == t \in Drafting /\ \A u \in Drafting : t <= u
  <2>1. d \in DoormanRow /\ DoormanSound(U, strayed, t, d) /\ Waits(transcript, strayed, s, inbox, t, d)
    BY <1>6
  <2>2. doormen'[t] = IF first THEN e ELSE d
    BY <1>7
  <2>3. first => Hears(d)
    BY DEF Drafting, Hears
  <2>4. Hears(d) /\ d.pending \notin strayed => first /\ t = s
    <3>1. ASSUME Hears(d), d.pending \notin strayed PROVE first /\ t = s
      <4>1. t \in Drafting /\ t = s
        BY <1>11, <3>1 DEF Drafting, Hears
      <4>2. ASSUME NEW u \in Drafting PROVE t <= u
        <5>1. u \in Sessions /\ Hears(doormen[u])
          BY <4>2 DEF Drafting, Hears
        <5>2. u = t /\ t \in Nat
          BY <1>11, <3>1, <5>1, SessionsAreNumbered
        <5> QED
          BY <5>2
      <4> QED
        BY <4>1, <4>2
    <3> QED
      BY <3>1
  <2> HIDE DEF d, first
  <2>5. CASE first
    <3>1. d.shows \cup {<<s, n>>} \in SUBSET Shown
      BY <1>9, <2>1 DEF DoormanRow
    <3>2. /\ e \in DoormanRow /\ e.report = d.report /\ e.shows = d.shows \cup {<<s, n>>}
          /\ e.pending = d.pending /\ e.up = d.up /\ e.owned = unsettled
      BY <1>9, <2>1, <3>1 DEF DoormanRow
    <3> HIDE DEF e
    <3>3. DoormanSound(U, strayed, t, e)
      BY <2>1, <3>2 DEF DoormanSound
    <3>4. ASSUME d.pending \notin strayed PROVE s = t /\ inbox[t] = <<>> /\ Heard(U, t, e) /\ d.up
      <4>1. d.pending # 0 /\ d.owned /\ d.report = NoReport
        BY <2>3, <2>5 DEF Hears
      <4>2. /\ s = t /\ d.up
            /\ \/ inbox[t] = <<d.pending>> /\ ~d.owned
               \/ inbox[t] = <<>> /\ Heard(transcript, t, d)
        BY <2>1, <3>4, <4>1 DEF Waits
      <4>3. PICK o \in Nat : /\ LastBegins(transcript, t, o, d.pending)
                             /\ StaysOpen(transcript, t, o, Len(transcript[t]))
                             /\ \A m \in d.shows : m[1] = t /\ Follows(transcript, t, o, m[2])
        BY <4>1, <4>2 DEF Heard
      <4>4. /\ LastBegins(U, t, o, d.pending) /\ Follows(U, t, o, n)
            /\ ~settled => StaysOpen(U, t, o, Len(U[t]))
            /\ \A m \in d.shows : m[1] = t /\ Follows(U, t, o, m[2])
        BY <1>4, <1>10, <4>2, <4>3
      <4>5. \A m \in e.shows : m[1] = t /\ Follows(U, t, o, m[2])
        BY <3>2, <4>2, <4>4
      <4>6. Heard(U, t, e)
        BY <1>9, <3>2, <4>4, <4>5 DEF Heard
      <4> QED
        BY <4>1, <4>2, <4>6
    <3>5. Waits(U, strayed, s, inbox, t, e)
      BY <3>2, <3>4 DEF Waits
    <3> QED
      BY <2>2, <2>3, <2>5, <3>2, <3>3, <3>5 DEF d
  <2>6. CASE ~first
    <3>1. ASSUME d.pending # 0, d.pending \notin strayed, d.report = NoReport
          PROVE  /\ d.up /\ s = t
                 /\ \/ inbox[t] = <<d.pending>> /\ ~d.owned /\ d.shows = {}
                    \/ inbox[t] = <<>> /\ Heard(U, t, d)
      <4>1. /\ d.up /\ s = t
            /\ \/ inbox[t] = <<d.pending>> /\ ~d.owned /\ d.shows = {}
               \/ inbox[t] = <<>> /\ Heard(transcript, t, d)
        BY <2>1, <3>1 DEF Waits
      <4>2. ~d.owned
        BY <2>4, <2>6, <3>1, <4>1 DEF Hears
      <4>3. ASSUME Heard(transcript, t, d), d.shows # {} PROVE Heard(U, t, d)
        <5>1. PICK o \in Nat : /\ LastBegins(transcript, t, o, d.pending)
                               /\ \A m \in d.shows : m[1] = t /\ Follows(transcript, t, o, m[2])
          BY <4>3 DEF Heard
        <5>2. /\ LastBegins(U, t, o, d.pending)
              /\ \A m \in d.shows : m[1] = t /\ Follows(U, t, o, m[2])
          BY <1>10, <4>1, <5>1
        <5> QED
          BY <4>2, <5>2 DEF Heard
      <4>4. d.shows = {} => Heard(U, t, d)
        BY <4>2 DEF Heard
      <4> QED
        BY <4>1, <4>3, <4>4
    <3>2. Waits(U, strayed, s, inbox, t, d)
      BY <3>1 DEF Waits
    <3> QED
      BY <2>1, <2>2, <2>6, <3>2 DEF d
  <2> QED
    BY <2>5, <2>6
<1>13. doormen' \in [Sessions -> DoormanRow]
  <2>1. \A t \in Sessions : doormen'[t] \in DoormanRow
    BY <1>12 DEF DoormanSound
  <2> QED
    BY <1>8, <2>1
<1>14. Agreed(doormen')
  BY <1>1, <1>12 DEF DoormenSound, Agreed
<1>15. DoormenSound(U, strayed, s, inbox, doormen')
  BY <1>12, <1>13, <1>14 DEF DoormenSound
<1>16. RingTrue(U, strayed, ring) /\ WireTrue(U, strayed, wire)
  BY <1>1, <1>3, <1>4, LinesStay
<1> QED
  BY <1>1, <1>2, <1>4, <1>5, <1>15, <1>16 DEF ChatInv, OmpTyped, U

\* The reply a doorman finds for its say is the first that settled the last turn it began.
LEMMA SettledReplyAnswers ==
  ASSUME transcript \in Transcripts, NEW s \in Sessions, NEW y \in Says, SettledReply(s, y) # 0
  PROVE  \E o \in Nat : /\ LastBegins(transcript, s, o, y)
                        /\ Follows(transcript, s, o, SettledReply(s, y))
                        /\ transcript[s][SettledReply(s, y)] = Reply(TRUE)
<1> DEFINE said == transcript[s]
           origins == {i \in DOMAIN said : said[i] = Origin(y)}
           last == CHOOSE i \in origins : \A j \in origins : j <= i
           settled == {i \in Owned(s, last) : said[i] = Reply(TRUE)}
           found == CHOOSE i \in settled : \A j \in settled : i <= j
<1>1. origins # {} /\ settled # {} /\ SettledReply(s, y) = found
  BY DEF SettledReply
<1>2. said \in Seq(ChatLine) /\ DOMAIN said = 1..Len(said) /\ Len(said) \in Nat
  BY DEF Transcripts
<1>3. last \in 1..Len(said) /\ said[last] = Origin(y) /\ \A j \in origins : j <= last
  <2>1. origins \in SUBSET (1..Len(said))
    BY <1>2
  <2> HIDE DEF origins
  <2>2. \E g \in origins : \A k \in origins : k <= g
    BY <1>1, <1>2, <2>1, GreatestNumber
  <2>3. last \in origins /\ \A j \in origins : j <= last
    BY <2>2
  <2> QED
    BY <1>2, <2>3 DEF origins
<1> HIDE DEF last
<1>4. \A i : i \in settled <=> /\ i \in (last + 1)..Len(said) /\ said[i] = Reply(TRUE)
                             /\ \A j \in (last + 1)..i : said[j].kind # "origin"
  BY DEF Owned
<1> HIDE DEF settled
<1>5. found \in settled /\ \A j \in settled : found <= j
  <2>1. settled \in SUBSET Nat
    <3>1. ASSUME NEW i \in settled PROVE i \in Nat
      <4>1. i \in (last + 1)..Len(said)
        BY <1>4
      <4> QED
        BY <1>2, <1>3, <4>1
    <3> QED
      BY <3>1
  <2>2. \E u \in settled : \A k \in settled : u <= k
    BY <1>1, <2>1, LeastNumber
  <2> QED
    BY <2>2
<1> HIDE DEF found
<1>6. /\ found \in (last + 1)..Len(said) /\ said[found] = Reply(TRUE)
      /\ \A j \in (last + 1)..found : said[j].kind # "origin"
  BY <1>4, <1>5
<1>7. LastBegins(transcript, s, last, y)
  <2>1. ASSUME NEW j \in (last + 1)..Len(said) PROVE said[j] # Origin(y)
    <3>1. j \in DOMAIN said /\ ~(j <= last)
      BY <1>2, <1>3, <2>1
    <3> QED
      BY <1>3, <3>1
  <2> QED
    BY <1>3, <2>1 DEF LastBegins, Begins
<1>8. ASSUME NEW j \in (last + 1)..(found - 1) PROVE said[j] # Reply(TRUE)
  <2>1. /\ j \in (last + 1)..Len(said) /\ \A i \in (last + 1)..j : i \in (last + 1)..found
        /\ ~(found <= j)
    BY <1>2, <1>3, <1>6, <1>8
  <2>2. j \notin settled
    BY <1>5, <2>1
  <2> QED
    BY <1>4, <1>6, <2>1, <2>2
<1>9. StaysOpen(transcript, s, last, found - 1)
  <2>1. \A j \in (last + 1)..(found - 1) : j \in (last + 1)..found
    BY <1>2, <1>3, <1>6
  <2> QED
    BY <1>6, <1>8, <2>1 DEF StaysOpen
<1>10. found \in (last + 1)..found
  BY <1>2, <1>3, <1>6
<1>11. Follows(transcript, s, last, found)
  BY <1>6, <1>9, <1>10 DEF Follows
<1>12. last \in Nat
  BY <1>2, <1>3
<1> QED
  BY <1>1, <1>6, <1>7, <1>11, <1>12

\* The end of a turn is heard: its doorman reports what settled it.
LEMMA AgentEndKeeps == ASSUME ChatInv, NEW s \in Sessions, AgentEnd(s) PROVE ChatInv'
<1> DEFINE d == doormen[s]
           i == IF d.pending = 0 THEN 0 ELSE SettledReply(s, d.pending)
           report == [say |-> d.pending, message |-> i, steps |-> d.shows]
           yes == TRUE
           e == [d EXCEPT !.report = report, !.reporting = yes]
           ReportGoes == /\ d.pending # 0 /\ i # 0 /\ d.report = NoReport
                         /\ doormen' = [doormen EXCEPT ![s] = e]
                         /\ wire' = wire \cup {TurnReport(s, report)}
<1>1. /\ OmpTyped(transcript, agent, inbox) /\ RingTrue(transcript, strayed, ring)
      /\ WireTrue(transcript, strayed, wire)
      /\ DoormenSound(transcript, strayed, topSession, inbox, doormen)
  BY DEF ChatInv
<1>2. /\ d \in DoormanRow /\ DoormanSound(transcript, strayed, s, d)
      /\ Waits(transcript, strayed, topSession, inbox, s, d)
  BY <1>1 DEF DoormenSound
<1>3. /\ transcript' = transcript /\ agent' = agent /\ inbox' = inbox /\ topSession' = topSession
      /\ strayed' = strayed /\ ring' = ring /\ yes \in BOOLEAN
  BY DEF AgentEnd, chatHost
<1>4. ReportGoes \/ (doormen' = doormen /\ wire' = wire)
  BY DEF AgentEnd, Report
<1>5. CASE ReportGoes
  <2>1. i = SettledReply(s, d.pending) /\ d.pending \in Says /\ i # 0 /\ d.report = NoReport
        /\ d.pending # 0
    BY <1>2, <1>5 DEF DoormanRow
  <2>2. /\ doormen' = [doormen EXCEPT ![s] = e] /\ wire' = wire \cup {TurnReport(s, report)}
    BY <1>5
  <2> HIDE DEF d, yes, i
  <2>3. PICK o \in Nat : /\ LastBegins(transcript, s, o, d.pending)
                         /\ Follows(transcript, s, o, i) /\ transcript[s][i] = Reply(TRUE)
    BY <1>1, <2>1, SettledReplyAnswers DEF OmpTyped
  <2>4. /\ o \in 1..Len(transcript[s]) /\ transcript[s][o] = Origin(d.pending) /\ i \in Nat
        /\ Len(transcript[s]) \in Nat /\ i \in (o + 1)..Len(transcript[s])
        /\ \A j \in (o + 1)..Len(transcript[s]) : transcript[s][j] # Origin(d.pending)
    BY <1>1, <2>3 DEF LastBegins, Begins, Follows, OmpTyped, Transcripts
  <2>5. ASSUME d.pending \notin strayed, NEW n \in d.shows PROVE n[1] = s /\ n[2] \in (o + 1)..i
    <3>1. Heard(transcript, s, d)
      BY <1>2, <2>1, <2>5 DEF Waits
    <3>2. PICK p \in Nat : /\ LastBegins(transcript, s, p, d.pending)
                           /\ n[1] = s /\ Follows(transcript, s, p, n[2])
      BY <2>5, <3>1 DEF Heard
    <3>3. /\ p \in 1..Len(transcript[s]) /\ transcript[s][p] = Origin(d.pending)
          /\ \A j \in (p + 1)..Len(transcript[s]) : transcript[s][j] # Origin(d.pending)
      BY <3>2 DEF LastBegins, Begins
    <3>4. ~(p \in (o + 1)..Len(transcript[s])) /\ ~(o \in (p + 1)..Len(transcript[s]))
      BY <2>4, <3>3
    <3>5. p = o
      BY <2>4, <3>3, <3>4
    <3>6. n[2] \in (o + 1)..Len(transcript[s]) /\ StaysOpen(transcript, s, o, n[2] - 1)
      BY <3>2, <3>5 DEF Follows
    <3>7. ~(i \in (o + 1)..(n[2] - 1))
      BY <2>3, <3>6 DEF StaysOpen
    <3> QED
      BY <2>4, <3>2, <3>6, <3>7
  <2>6. Answers(transcript, strayed, d.pending, s, i, d.shows)
    BY <2>1, <2>3, <2>5 DEF Answers, LastBegins
  <2>7. report \in ReportRow /\ report.say = d.pending /\ report.message = i /\ report.steps = d.shows
    BY <1>2, <2>1, <2>4 DEF ReportRow, DoormanRow
  <2> HIDE DEF report
  <2>8. WireTrue(transcript, strayed, wire')
    BY <1>1, <2>2, <2>6, <2>7, ReportIsSent
  <2>9. e \in DoormanRow /\ e.report = report /\ e.pending = d.pending
    BY <1>2, <1>3, <2>7 DEF DoormanRow
  <2> HIDE DEF e
  <2>10. DoormanSound(transcript, strayed, s, e)
    BY <2>6, <2>7, <2>9 DEF DoormanSound
  <2>11. report # NoReport
    <3>1. NoReport.say = 0 /\ 0 \notin Says
      BY SaysAreNumbered DEF NoReport
    <3> QED
      BY <2>1, <2>7, <3>1
  <2>12. Waits(transcript, strayed, topSession, inbox, s, e) /\ ~Hears(e)
    BY <2>9, <2>11 DEF Waits, Hears
  <2>13. DoormenSound(transcript, strayed, topSession, inbox, doormen')
    BY <1>1, <2>2, <2>10, <2>12, OneDoorman
  <2> QED
    BY <1>1, <1>3, <2>8, <2>13 DEF ChatInv
<1>6. CASE doormen' = doormen /\ wire' = wire
  BY <1>1, <1>3, <1>6 DEF ChatInv
<1> QED
  BY <1>4, <1>5, <1>6

\* A new doorman has no turn.
LEMMA NewDoormanSound ==
  ASSUME NEW T, NEW S, NEW top, NEW box, NEW s, NEW up \in BOOLEAN
  PROVE  LET d == [NewDoorman EXCEPT !.up = up] IN
         /\ d \in DoormanRow /\ DoormanSound(T, S, s, d) /\ Waits(T, S, top, box, s, d) /\ ~Hears(d)
BY NewDoormanRow DEF DoormanSound, Waits, Hears

\* The room's session is another: the says that doormen hold have strayed.
LEMMA SwitchKeeps == ASSUME ChatInv, NEW s \in Sessions, SwitchSession(s) PROVE ChatInv'
<1> DEFINE S == strayed'
           top == topSession'
           e == IF doormen[s].up THEN doormen[s] ELSE NewDoorman
<1>1. /\ OmpTyped(transcript, agent, inbox) /\ RingTrue(transcript, strayed, ring)
      /\ WireTrue(transcript, strayed, wire)
      /\ DoormenSound(transcript, strayed, topSession, inbox, doormen)
  BY DEF ChatInv
<1>2. /\ transcript' = transcript /\ ring' = ring /\ wire' = wire /\ inbox' = inbox
      /\ agent' = [t \in Sessions |-> "idle"]
      /\ S = strayed \cup ({doormen[t].pending : t \in Sessions} \ {0})
      /\ doormen' = [doormen EXCEPT ![s] = e]
  BY DEF SwitchSession, chatHost
<1> HIDE DEF S, top
<1>3. OmpTyped(transcript, agent', inbox)
  BY <1>1, <1>2 DEF OmpTyped
<1>4. Grows(transcript, transcript) /\ transcript \in Transcripts /\ strayed \subseteq S
  BY <1>1, <1>2 DEF Grows, Transcripts, OmpTyped
<1>5. RingTrue(transcript, S, ring) /\ WireTrue(transcript, S, wire)
  BY <1>1, <1>4, LinesStay
<1>6. ASSUME NEW t \in Sessions
      PROVE  /\ DoormanSound(transcript, S, t, doormen[t])
             /\ Waits(transcript, S, top, inbox, t, doormen[t])
  <2>1. DoormanSound(transcript, strayed, t, doormen[t])
    BY <1>1 DEF DoormenSound
  <2>2. doormen[t].pending # 0 => doormen[t].pending \in S
    BY <1>2
  <2> QED
    BY <1>4, <2>1, <2>2, LinesStay DEF Waits
<1>7. DoormenSound(transcript, S, top, inbox, doormen)
  BY <1>1, <1>6 DEF DoormenSound
<1>8. /\ DoormanSound(transcript, S, s, e) /\ Waits(transcript, S, top, inbox, s, e)
      /\ Hears(e) => e = doormen[s]
  <2> DEFINE yes == TRUE
  <2>1. NewDoorman.pending = 0
    BY DEF NewDoorman
  <2>2. yes \in BOOLEAN
    OBVIOUS
  <2> HIDE DEF yes
  <2>3. NewDoorman \in DoormanRow /\ NewDoorman.report = NoReport
    BY <2>2, NewDoormanRow
  <2>4. DoormanSound(transcript, S, s, NewDoorman) /\ Waits(transcript, S, top, inbox, s, NewDoorman)
        /\ ~Hears(NewDoorman)
    BY <2>1, <2>3 DEF DoormanSound, Waits, Hears
  <2> QED
    BY <1>6, <2>4
<1> HIDE DEF e
<1>9. DoormenSound(transcript, S, top, inbox, doormen')
  BY <1>2, <1>7, <1>8, OneDoorman
<1> QED
  BY <1>2, <1>3, <1>5, <1>9 DEF ChatInv, S, top

\* The process is new, and so are its doormen.
LEMMA OmpRestarts == ASSUME ChatInv, RestartOmp PROVE ChatInv'
<1> DEFINE box == inbox'
           D == doormen'
<1>1. /\ OmpTyped(transcript, agent, inbox) /\ RingTrue(transcript, strayed, ring)
      /\ WireTrue(transcript, strayed, wire)
  BY DEF ChatInv
<1>2. /\ transcript' = transcript /\ ring' = ring /\ wire' = wire /\ strayed' = strayed
      /\ topSession' = topSession
      /\ agent' = [t \in Sessions |-> "idle"] /\ box = [t \in Sessions |-> <<>>]
      /\ D = [t \in Sessions |-> [NewDoorman EXCEPT !.up = (t = topSession)]]
  BY DEF RestartOmp, chatHost
<1> HIDE DEF box, D
<1>3. OmpTyped(transcript, agent', box)
  <2>1. <<>> \in Seq(Says)
    OBVIOUS
  <2> QED
    BY <1>1, <1>2, <2>1 DEF OmpTyped
<1>4. ASSUME NEW t \in Sessions
      PROVE  /\ D[t] \in DoormanRow /\ DoormanSound(transcript, strayed, t, D[t])
             /\ Waits(transcript, strayed, topSession, box, t, D[t]) /\ ~Hears(D[t])
  <2> DEFINE up == t = topSession
  <2>1. D[t] = [NewDoorman EXCEPT !.up = up] /\ up \in BOOLEAN
    BY <1>2
  <2> HIDE DEF up
  <2> QED
    BY <2>1, NewDoormanSound
<1>5. DoormenSound(transcript, strayed, topSession, box, D)
  <2>1. D \in [Sessions -> DoormanRow]
    BY <1>2, <1>4
  <2> QED
    BY <1>4, <2>1 DEF DoormenSound, Agreed
<1> QED
  BY <1>1, <1>2, <1>3, <1>5 DEF ChatInv, box, D

\* Nothing is said at first.
LEMMA ChatStarts == ASSUME ChatInit PROVE ChatInv
<1>1. /\ transcript = [s \in Sessions |-> <<>>] /\ agent = [s \in Sessions |-> "idle"]
      /\ inbox = [s \in Sessions |-> <<>>] /\ ring = <<>> /\ wire = {}
      /\ doormen = [s \in Sessions |-> [NewDoorman EXCEPT !.up = (s = 1)]]
  BY DEF ChatInit
<1>2. /\ <<>> \in Seq(ChatLine) /\ <<>> \in Seq(Says) /\ <<>> \in Seq(RingLine)
  OBVIOUS
<1>3. OmpTyped(transcript, agent, inbox) /\ RingTrue(transcript, strayed, ring)
      /\ WireTrue(transcript, strayed, wire)
  BY <1>1, <1>2 DEF OmpTyped, Transcripts, RingTrue, WireTrue
<1>4. ASSUME NEW s \in Sessions
      PROVE  /\ doormen[s] \in DoormanRow /\ DoormanSound(transcript, strayed, s, doormen[s])
             /\ Waits(transcript, strayed, topSession, inbox, s, doormen[s]) /\ ~Hears(doormen[s])
  <2> DEFINE up == s = 1
  <2>1. doormen[s] = [NewDoorman EXCEPT !.up = up] /\ up \in BOOLEAN
    BY <1>1
  <2> HIDE DEF up
  <2> QED
    BY <2>1, NewDoormanSound
<1>5. doormen \in [Sessions -> DoormanRow]
  BY <1>1, <1>4
<1> QED
  BY <1>3, <1>4, <1>5 DEF ChatInv, DoormenSound, Agreed

\* No step of the chat breaks it.
LEMMA ChatSteps == ASSUME ChatInv, [ChatNext]_chatVars PROVE ChatInv'
<1>1. CASE UNCHANGED chatVars
  BY <1>1 DEF chatVars, chatHost, omp, ChatInv
<1>2. CASE HandleChat
  BY <1>2, HandleChatKeeps
<1>3. CASE RestartChatHost \/ LoseRequest
  BY <1>3, RequestsAreLost
<1>4. CASE Say \/ SayFails
  BY <1>4, SayKeeps
<1>5. CASE RestartOmp
  BY <1>5, OmpRestarts
<1>6. ASSUME NEW s \in Sessions,
             \/ DeliverChatReport(s) \/ TickChatDoorman(s) \/ Inject(s) \/ RequestFails(s) \/ FlushDraft(s)
             \/ DispatchSay(s) \/ Prompt(s) \/ FollowUp(s) \/ Speak(s, TRUE) \/ Speak(s, FALSE)
             \/ TurnVanishes(s) \/ AgentEnd(s) \/ SwitchSession(s)
      PROVE  ChatInv'
  BY <1>6, DeliverKeeps, TickKeeps, InjectKeeps, RequestFailsKeeps, FlushKeeps, TurnBegins, SpeakKeeps,
     AgentMoves, AgentEndKeeps, SwitchKeeps
<1> QED
  BY <1>1, <1>2, <1>3, <1>4, <1>5, <1>6 DEF ChatNext

\* The turn of a reply is the one that the last origin before it began.
LEMMA OriginIsTheLast ==
  ASSUME transcript \in Transcripts, NEW s \in Sessions, NEW o \in Nat, NEW e, NEW y,
         Begins(transcript, s, o, y), Follows(transcript, s, o, e)
  PROVE  OriginOf(<<s, e>>) = o
<1> DEFINE said == transcript[s]
           origins == {i \in 1..e : said[i].kind = "origin"}
           last == CHOOSE i \in origins : \A j \in origins : j <= i
<1>1. OriginOf(<<s, e>>) = IF origins = {} THEN 0 ELSE last
  BY DEF OriginOf
<1>2. /\ o \in 1..Len(said) /\ said[o] = Origin(y) /\ e \in (o + 1)..Len(said) /\ Len(said) \in Nat
      /\ said[e].kind # "origin" /\ \A j \in (o + 1)..(e - 1) : said[j].kind # "origin"
  <2>1. o \in 1..Len(said) /\ said[o] = Origin(y)
    BY DEF Begins
  <2>2. /\ e \in (o + 1)..Len(said) /\ said[e].kind # "origin"
        /\ StaysOpen(transcript, s, o, e - 1)
    BY DEF Follows
  <2>3. \A j \in (o + 1)..(e - 1) : said[j].kind # "origin"
    BY <2>2 DEF StaysOpen
  <2>4. Len(said) \in Nat
    BY DEF Transcripts
  <2> QED
    BY <2>1, <2>2, <2>3, <2>4
<1>3. Origin(y).kind = "origin"
  BY DEF Origin
<1> HIDE DEF said
<1>4. o \in origins /\ e \in Nat
  BY <1>2, <1>3
<1>5. ASSUME NEW j \in origins PROVE j <= o
  <2>1. j \in 1..e /\ said[j].kind = "origin"
    BY <1>5
  <2>2. j # e /\ ~(j \in (o + 1)..(e - 1))
    BY <1>2, <2>1
  <2> QED
    BY <1>2, <2>1, <2>2
<1>6. \A i \in origins : i \in Nat
  BY <1>4
<1> HIDE DEF origins
<1>7. last \in origins /\ \A j \in origins : j <= last
  BY <1>4, <1>5
<1> HIDE DEF last
<1>8. last = o
  BY <1>4, <1>5, <1>6, <1>7
<1> QED
  BY <1>1, <1>4, <1>8

\* chat.ts:215-217, 227-228: for any number of sessions, says, messages, faults and
\* async results, the line that answers a say is the first settled reply of a turn which
\* that say began, and its steps are that turn's up to that reply, unless the say was
\* held while the room's session changed.
THEOREM TheAnswerIsItsOwn == ChatSpec => []AnswersAreTheirOwn
<1>1. ASSUME ChatInv PROVE AnswersAreTheirOwn
  <2>1. /\ transcript \in Transcripts /\ ring \in Seq(RingLine) /\ DOMAIN ring = 1..Len(ring)
        /\ \A k \in 1..Len(ring) : /\ ring[k] \in RingLine
                                   /\ ring[k].author = "spirit" =>
                                        Answers(transcript, strayed, ring[k].say, ring[k].message[1],
                                                ring[k].message[2], ring[k].steps)
    BY <1>1 DEF ChatInv, OmpTyped, RingTrue
  <2>2. ASSUME NEW k \in SpiritLines
        PROVE  FirstSettledOf(k) /\ (ring[k].say \in strayed \/ StepsOfTheTurn(k))
    <3> DEFINE s == ring[k].message[1]
               e == ring[k].message[2]
               said == transcript[s]
    <3>1. /\ k \in 1..Len(ring) /\ ring[k] \in RingLine
          /\ Answers(transcript, strayed, ring[k].say, s, e, ring[k].steps)
      BY <2>1, <2>2 DEF SpiritLines
    <3>2. PICK o \in Nat :
             /\ Begins(transcript, s, o, ring[k].say) /\ Follows(transcript, s, o, e)
             /\ said[e] = Reply(TRUE)
             /\ ring[k].say \notin strayed => \A n \in ring[k].steps : n[1] = s /\ n[2] \in (o + 1)..e
      BY <3>1 DEF Answers
    <3>3. ring[k].message = <<s, e>> /\ s \in Sessions /\ ring[k].steps \in SUBSET Shown
      BY <3>1, <3>2 DEF RingLine, Begins
    <3> HIDE DEF s, e
    <3>4. /\ o \in 1..Len(said) /\ said[o] = Origin(ring[k].say) /\ e \in (o + 1)..Len(said)
          /\ Len(said) \in Nat /\ \A j \in (o + 1)..(e - 1) : said[j] # Reply(TRUE)
      <4>1. o \in 1..Len(said) /\ said[o] = Origin(ring[k].say)
        BY <3>2 DEF Begins
      <4>2. e \in (o + 1)..Len(said) /\ StaysOpen(transcript, s, o, e - 1)
        BY <3>2 DEF Follows
      <4>3. \A j \in (o + 1)..(e - 1) : said[j] # Reply(TRUE)
        BY <4>2 DEF StaysOpen
      <4>4. Len(said) \in Nat
        BY <2>1, <3>3 DEF Transcripts
      <4> QED
        BY <4>1, <4>2, <4>3, <4>4
    <3>5. OriginOf(ring[k].message) = o
      BY <2>1, <3>2, <3>3, OriginIsTheLast
    <3>6. TurnTo(ring[k].message) = (o + 1)..e
      BY <3>3, <3>5 DEF TurnTo
    <3>7. {i \in (o + 1)..e : said[i] = Reply(TRUE)} = {e}
      <4> HIDE DEF said
      <4>1. ASSUME NEW i \in (o + 1)..e, said[i] = Reply(TRUE) PROVE i = e
        <5>1. ~(i \in (o + 1)..(e - 1))
          BY <3>4, <4>1
        <5> QED
          BY <3>4, <4>1, <5>1
      <4>2. e \in (o + 1)..e
        BY <3>4
      <4> QED
        BY <3>2, <4>1, <4>2
    <3>8. FirstSettledOf(k)
      <4>1. ring[k].message[1] = s /\ ring[k].message[2] = e /\ o # 0
        BY <3>3, <3>4
      <4> QED
        BY <3>4, <3>5, <3>6, <3>7, <4>1 DEF FirstSettledOf
    <3>9. ASSUME ring[k].say \notin strayed PROVE StepsOfTheTurn(k)
      <4>1. ASSUME NEW n \in ring[k].steps PROVE n \in {s} \X ((o + 1)..e)
        <5>1. n = <<n[1], n[2]>> /\ n[1] = s /\ n[2] \in (o + 1)..e
          BY <3>2, <3>3, <3>9, <4>1 DEF Shown
        <5> QED
          BY <5>1
      <4> QED
        BY <3>3, <3>6, <4>1 DEF StepsOfTheTurn
    <3> QED
      BY <3>8, <3>9
  <2> QED
    BY <2>2 DEF AnswersAreTheirOwn
<1> QED
  BY <1>1, ChatStarts, ChatSteps, PTL DEF ChatSpec

-----------------------------------------------------------------------------
(* The recall policy.                                                        *)

Asked == [do : {"snapshot"}] \cup [do : {"set"}, base : Nat, try : Nat]
         \cup [do : {"evaluate"}, try : Nat]
ReadyRow == [is : {"answer"}, verdict : Outcomes, try : Nat] \cup SnapshotRow \cup [is : {"failed"}]
DeltaRow == [is : {"delta"}, base : Nat, from : Nat, next : Nat, s : Nat]
SocketRow == [asks : Seq(Asked), ready : ReadyRow \cup {None}, delta : DeltaRow \cup {None},
              subscribed : BOOLEAN, feed : Seq(DeltaRow), lagged : BOOLEAN, gone : BOOLEAN]
PanelRow == [view : ViewRow \cup {None}, phase : {"idle", "pending"} \cup Outcomes, try : Nat]

Keys(receipts) == {r.key : r \in ToSet(receipts)}

\* The state k comes after h, or is h's version and has its content.
Later(h, k) == h.v <= k.v /\ (h.v = k.v => h.s = k.s)

\* Files that are at the state they were, or past what any answer has carried.
FilesSound(files, mem) ==
    Later(files, mem) /\ (host.v < files.v \/ (files.v = disk.v /\ files.s = disk.s))

\* What a runtime under the lock may have come to before a command takes effect.
Ready(st) ==
    /\ st.mem \in RuntimeRow /\ st.files \in RuntimeRow
    /\ Later(host, st.mem) /\ FilesSound(st.files, st.mem)
    /\ st.mem.receipts = host.receipts /\ st.files.receipts = disk.receipts
    /\ \A d \in Clients : st.mem.done[d] <= host.done[d] /\ st.files.done[d] <= disk.done[d]

\* A delta leads from the newest version that was shown to one that is.
Leads(delta, mem) ==
    /\ delta \in DeltaRow /\ delta.base < delta.next /\ host.v <= delta.base
    /\ host.v = delta.base => host.s = delta.from
    /\ delta.next = mem.v /\ delta.s = mem.s

\* The command of d that takes effect now, if it does.
Effects(c, ask, d) == IF ask.do = "evaluate" /\ ~HasReceipt(c) /\ d = c THEN 1 ELSE 0

\* What a command leaves.
LeavesSound(c, ask, n, out) ==
    /\ out.mem \in RuntimeRow /\ out.files \in RuntimeRow /\ out.room \in Contents
    /\ out.minted \in Contents /\ out.ready \in ReadyRow /\ out.delta \in DeltaRow \cup {None}
    /\ Later(host, out.mem) /\ FilesSound(out.files, out.mem)
    /\ out.delta # None => Leads(out.delta, out.mem)
    /\ out.ready.is = "snapshot" => out.ready.v = out.mem.v /\ out.ready.s = out.mem.s
    /\ out.files.receipts = disk.receipts \/ out.files.receipts = out.mem.receipts
    /\ \A d \in Clients :
          /\ out.mem.done[d] <= host.done[d] + Effects(c, ask, d)
          /\ \/ out.files.done[d] <= disk.done[d]
             \/ out.files.done[d] <= host.done[d] + Effects(c, ask, d)
    /\ ask.do = "evaluate" /\ ~HasReceipt(c) /\ n >= CommitWrites =>
          out.files.receipts = out.mem.receipts /\ c \in Keys(out.mem.receipts)

FilesTyped == host \in RuntimeRow /\ disk \in RuntimeRow /\ room \in Contents /\ minted \in Contents

\* The newest entries of a list that takes another.
Newest(s, e, limit) ==
    LET all == Append(s, e) IN SubSeq(all, Max({1, Len(all) - limit + 1}), Len(all))

\* The limit of a list keeps its newest entries.
LEMMA LimitedTo ==
  ASSUME NEW S, NEW s \in Seq(S), NEW e \in S, NEW limit \in Nat \ {0}
  PROVE  LET kept == Newest(s, e, limit)
         IN /\ kept \in Seq(S) /\ e \in ToSet(kept) /\ Len(kept) <= limit
            /\ \A i \in 1..Len(kept) : kept[i] = e \/ \E j \in 1..Len(s) : kept[i] = s[j]
<1> DEFINE all == Append(s, e)
           m == Len(all) - limit + 1
           k == Max({1, m})
           kept == SubSeq(all, k, Len(all))
<1>1. /\ all \in Seq(S) /\ Len(all) = Len(s) + 1 /\ Len(s) \in Nat /\ all[Len(s) + 1] = e
      /\ \A i \in 1..Len(s) : all[i] = s[i]
  OBVIOUS
<1> HIDE DEF all
<1>2. m \in Int /\ m <= Len(all)
  BY <1>1
<1>3. k \in 1..Len(all) /\ m <= k
  <2> DEFINE T == {1, m}
  <2>1. \E u \in T : \A x \in T : u >= x
    <3>1. CASE m >= 1
      BY <1>2, <3>1
    <3>2. CASE ~(m >= 1)
      BY <1>2, <3>2
    <3> QED
      BY <3>1, <3>2
  <2>2. k \in T /\ \A x \in T : k >= x
    BY <2>1 DEF Max
  <2>3. (k = 1 \/ k = m) /\ k >= 1 /\ k >= m
    BY <2>2
  <2> HIDE DEF k, m
  <2> QED
    BY <1>1, <1>2, <2>3
<1> DEFINE len == Len(all) - k + 1
<1>4. /\ kept \in Seq(S) /\ Len(kept) = len /\ len \in 1..limit
      /\ \A i \in 1..len : kept[i] = all[k + i - 1]
  <2> HIDE DEF k
  <2>1. len \in 1..limit
    BY <1>1, <1>3
  <2>2. k \in 1..Len(all) /\ Len(all) \in 1..Len(all)
    BY <1>1, <1>3
  <2>3. kept \in Seq(S) /\ Len(kept) = len /\ \A i \in 1..len : kept[i] = all[k + i - 1]
    BY <1>1, <2>2, SubSeqProperties
  <2> QED
    BY <2>1, <2>3
<1> HIDE DEF k, kept
<1>5. e \in ToSet(kept)
  <2>1. len \in 1..Len(kept) /\ k + len - 1 = Len(s) + 1
    BY <1>1, <1>3, <1>4
  <2>2. kept[len] = e /\ len \in DOMAIN kept
    BY <1>1, <1>4, <2>1
  <2> QED
    BY <2>2 DEF ToSet
<1>6. ASSUME NEW i \in 1..Len(kept)
      PROVE  kept[i] = e \/ \E j \in 1..Len(s) : kept[i] = s[j]
  <2>1. k + i - 1 \in 1..Len(all) /\ kept[i] = all[k + i - 1]
    BY <1>1, <1>3, <1>4
  <2>2. k + i - 1 = Len(s) + 1 \/ k + i - 1 \in 1..Len(s)
    BY <1>1, <2>1
  <2> QED
    BY <1>1, <2>1, <2>2
<1>7. kept \in Seq(S) /\ Len(kept) <= limit
  BY <1>4
<1> QED
  BY <1>5, <1>6, <1>7 DEF Newest, kept, k, all

\* The runtime as it is, and as the room-state file leaves it.
LEMMA RefreshedReady ==
  ASSUME FilesTyped, Later(disk, host), NEW n
  PROVE  Ready(Here) /\ Ready(Refreshed(n))
<1> DEFINE st == Refreshed(n)
           mem == [host EXCEPT !.v = @ + 1, !.s = room, !.done = Untouched]
           e == IF n >= 1 THEN Untouched ELSE disk.done
           v == IF n >= 2 THEN host.v + 1 ELSE disk.v
           s == IF n >= 2 THEN room ELSE disk.s
           files == [disk EXCEPT !.done = e, !.v = v, !.s = s]
<1>1. host \in RuntimeRow /\ disk \in RuntimeRow /\ room \in Contents
  BY DEF FilesTyped
<1>2. Later(host, host) /\ Later(disk, host)
  BY <1>1 DEF Later, RuntimeRow
<1>3. \A d \in Clients : host.done[d] \in Nat /\ disk.done[d] \in Nat
  BY <1>1 DEF RuntimeRow
<1>4. Here.mem = host /\ Here.files = disk
  BY DEF Here
<1>5. Ready(Here)
  BY <1>1, <1>2, <1>3, <1>4 DEF Ready, FilesSound
<1>6. CASE room = host.s
  <2>1. st = Here
    BY <1>6 DEF Refreshed, Here
  <2> QED
    BY <1>5, <2>1
<1>7. CASE room # host.s
  <2>1. st.mem = mem /\ st.files = files
    <3>1. mem.done = Untouched /\ mem.v = host.v + 1 /\ mem.s = room
      BY <1>1 DEF RuntimeRow
    <3>2. st = [mem |-> mem, files |-> [disk EXCEPT !.done = IF n >= 1 THEN mem.done ELSE @,
                                                    !.v = IF n >= 2 THEN mem.v ELSE @,
                                                    !.s = IF n >= 2 THEN mem.s ELSE @]]
      BY <1>7 DEF Refreshed
    <3> QED
      BY <3>1, <3>2
  <2>2. Untouched \in [Clients -> Nat] /\ \A d \in Clients : Untouched[d] = 0
    BY DEF Untouched
  <2>3. /\ mem \in RuntimeRow /\ mem.v = host.v + 1 /\ mem.s = room /\ mem.receipts = host.receipts
        /\ mem.done = Untouched /\ host.v \in Nat /\ disk.v \in Nat
    <3> DEFINE w == host.v + 1
    <3>1. w \in Nat /\ host.v \in Nat /\ disk.v \in Nat
      BY <1>1 DEF RuntimeRow
    <3>2. mem = [host EXCEPT !.v = w, !.s = room, !.done = Untouched]
      OBVIOUS
    <3> HIDE DEF w, mem
    <3>3. /\ mem \in RuntimeRow /\ mem.v = w /\ mem.s = room /\ mem.receipts = host.receipts
          /\ mem.done = Untouched
      BY <1>1, <2>2, <3>1, <3>2 DEF RuntimeRow
    <3> QED
      BY <3>1, <3>3 DEF w
  <2>4. e \in [Clients -> Nat] /\ \A d \in Clients : e[d] <= disk.done[d]
    BY <1>1, <1>3, <2>2 DEF RuntimeRow
  <2>5. v \in Nat /\ s \in Contents
    BY <1>1 DEF RuntimeRow
  <2>6. (v = disk.v /\ s = disk.s) \/ (v = host.v + 1 /\ s = room)
    OBVIOUS
  <2> HIDE DEF mem, e, v, s
  <2>7. /\ files \in RuntimeRow /\ files.v = v /\ files.s = s /\ files.done = e
        /\ files.receipts = disk.receipts
    BY <1>1, <2>4, <2>5 DEF RuntimeRow
  <2> HIDE DEF files
  <2>8. Later(host, mem)
    BY <2>3 DEF Later
  <2>9. Later(files, mem) /\ (host.v < files.v \/ (files.v = disk.v /\ files.s = disk.s))
    BY <1>2, <2>3, <2>6, <2>7 DEF Later
  <2>10. \A d \in Clients : mem.done[d] <= host.done[d] /\ files.done[d] <= disk.done[d]
    BY <1>3, <2>2, <2>3, <2>4, <2>7
  <2> HIDE DEF st
  <2>11. Ready(st)
    BY <2>1, <2>3, <2>7, <2>8, <2>9, <2>10 DEF Ready, FilesSound
  <2> QED
    BY <1>5, <2>11 DEF st
<1> QED
  BY <1>5, <1>6, <1>7

\* A receipt that is kept is the newest.
LEMMA KeptHas ==
  ASSUME NEW receipts \in Seq(ReceiptRow), NEW r \in ReceiptRow
  PROVE  Kept(receipts, r) \in Seq(ReceiptRow) /\ r.key \in Keys(Kept(receipts, r))
<1>1. Kept(receipts, r) \in Seq(ReceiptRow) /\ r \in ToSet(Kept(receipts, r))
  <2>1. Kept(receipts, r) = Newest(receipts, r, ReceiptLimit) /\ ReceiptLimit \in Nat \ {0}
    BY PolicyAssumption DEF Kept, Newest
  <2> QED
    BY <2>1, LimitedTo
<1> QED
  BY <1>1 DEF Keys

\* The receipt of a command is its client's.
LEMMA ReceiptTyped ==
  ASSUME NEW c \in Clients, NEW ask \in Asked, ask.do # "snapshot", NEW verdict \in Outcomes
  PROVE  NewReceipt(c, ask, verdict) \in ReceiptRow /\ NewReceipt(c, ask, verdict).key = c
         /\ ask.try \in Nat
<1>1. Body(ask) \in Nat /\ ask.try \in Nat
  BY DEF Asked, Body, Facts
<1> QED
  BY <1>1 DEF NewReceipt, ReceiptRow

\* Nothing took effect, and what was answered is no snapshot, or the runtime's.
LEMMA StillLeaves ==
  ASSUME FilesTyped, NEW c \in Clients, NEW ask, NEW n, NEW st, NEW ready, Ready(st),
         ready \in ReadyRow, ready.is = "snapshot" => ready.v = st.mem.v /\ ready.s = st.mem.s,
         ask.do # "evaluate" \/ HasReceipt(c)
  PROVE  LeavesSound(c, ask, n, Still(st, ready))
<1> DEFINE out == Still(st, ready)
<1>1. /\ out.mem = st.mem /\ out.files = st.files /\ out.room = room /\ out.minted = minted
      /\ out.ready = ready /\ out.delta = None
  BY DEF Still
<1> HIDE DEF out
<1>2. \A d \in Clients : Effects(c, ask, d) = 0
  BY DEF Effects
<1>3. \A d \in Clients : /\ host.done[d] \in Nat /\ disk.done[d] \in Nat
                          /\ st.mem.done[d] \in Nat /\ st.files.done[d] \in Nat
  BY DEF FilesTyped, Ready, RuntimeRow
<1>4. \A d \in Clients : /\ out.mem.done[d] <= host.done[d] + Effects(c, ask, d)
                          /\ out.files.done[d] <= disk.done[d]
  BY <1>1, <1>2, <1>3 DEF Ready
<1>5. LeavesSound(c, ask, n, out)
  BY <1>1, <1>4 DEF LeavesSound, Ready, FilesTyped
<1> QED
  BY <1>5 DEF out

\* The refusal of a stale base leaves a receipt and nothing else.
LEMMA RefusedLeaves ==
  ASSUME FilesTyped, NEW c \in Clients, NEW ask \in Asked, ask.do = "set", NEW n, NEW m, NEW st, Ready(st)
  PROVE  LeavesSound(c, ask, n, Refused(st, c, ask, m))
<1> DEFINE kept == Kept(st.mem.receipts, NewReceipt(c, ask, "refused"))
           mem == [st.mem EXCEPT !.receipts = kept]
           files == IF m = 1 THEN [st.files EXCEPT !.receipts = kept] ELSE st.files
           ready == Answer("refused", ask.try)
           out == Refused(st, c, ask, m)
<1>1. /\ out.mem = mem /\ out.files = files /\ out.room = room /\ out.minted = minted
      /\ out.ready = ready /\ out.delta = None
  BY DEF Refused, Still
<1> HIDE DEF out
<1>2. kept \in Seq(ReceiptRow) /\ ask.try \in Nat
  <2>1. NewReceipt(c, ask, "refused") \in ReceiptRow /\ ask.try \in Nat
    BY ReceiptTyped DEF Outcomes
  <2>2. st.mem.receipts \in Seq(ReceiptRow)
    BY DEF Ready, RuntimeRow
  <2> QED
    BY <2>1, <2>2, KeptHas
<1> HIDE DEF kept
<1>3. /\ st.mem \in RuntimeRow /\ st.files \in RuntimeRow /\ Later(host, st.mem)
      /\ FilesSound(st.files, st.mem) /\ st.files.receipts = disk.receipts
  BY DEF Ready
<1>4. mem \in RuntimeRow /\ mem.v = st.mem.v /\ mem.s = st.mem.s /\ mem.done = st.mem.done
      /\ mem.receipts = kept
  BY <1>2, <1>3 DEF RuntimeRow
<1>5. files \in RuntimeRow /\ files.v = st.files.v /\ files.s = st.files.s /\ files.done = st.files.done
      /\ (files.receipts = kept \/ files.receipts = disk.receipts)
  BY <1>2, <1>3 DEF RuntimeRow
<1> HIDE DEF mem, files
<1>6. ready \in ReadyRow /\ ready.is = "answer"
  BY <1>2 DEF ReadyRow, Answer, Outcomes
<1> HIDE DEF ready
<1>7. Later(host, mem) /\ FilesSound(files, mem)
  BY <1>3, <1>4, <1>5 DEF Later, FilesSound
<1>8. \A d \in Clients : Effects(c, ask, d) = 0
  BY DEF Effects
<1>9. \A d \in Clients : /\ host.done[d] \in Nat /\ disk.done[d] \in Nat
                          /\ st.mem.done[d] \in Nat /\ st.files.done[d] \in Nat
  BY DEF FilesTyped, Ready, RuntimeRow
<1>10. \A d \in Clients : /\ mem.done[d] <= host.done[d] + Effects(c, ask, d)
                          /\ files.done[d] <= disk.done[d]
  BY <1>4, <1>5, <1>8, <1>9 DEF Ready
<1>11. ask.do # "evaluate" /\ ready.is # "snapshot" /\ room \in Contents /\ minted \in Contents
  BY <1>6 DEF FilesTyped
<1>12. LeavesSound(c, ask, n, out)
  BY <1>1, <1>4, <1>5, <1>6, <1>7, <1>10, <1>11 DEF LeavesSound
<1> QED
  BY <1>12 DEF out

\* A command that takes effect, as far as its writes succeed.
LEMMA CommittedLeaves ==
  ASSUME FilesTyped, NEW c \in Clients, NEW ask \in Asked, ask.do # "snapshot", NEW n, NEW m \in Nat,
         NEW st, Ready(st), NEW effect \in [Clients -> Nat],
         \A d \in Clients : effect[d] <= host.done[d] + Effects(c, ask, d),
         ask.do = "evaluate" /\ n >= CommitWrites => m >= CommitWrites,
         Committed(st, c, ask, effect, m).minted <= MaxContents
  PROVE  LeavesSound(c, ask, n, Committed(st, c, ask, effect, m))
<1> DEFINE out == Committed(st, c, ask, effect, m)
           mem0 == [st.mem EXCEPT !.done = effect]
           v == IF m >= 1 THEN st.mem.v + 1 ELSE st.mem.v
           s == IF m >= 1 THEN Fresh ELSE st.mem.s
           mem1 == IF m >= 1 THEN [mem0 EXCEPT !.v = @ + 1, !.s = Fresh] ELSE mem0
           kept == Kept(mem0.receipts, NewReceipt(c, ask, "accepted"))
           mem == IF m >= 3 THEN [mem1 EXCEPT !.receipts = kept] ELSE mem1
           files == [st.files EXCEPT !.done = IF m >= 2 THEN effect ELSE @,
                                     !.v = IF m >= 3 THEN mem1.v ELSE @,
                                     !.s = IF m >= 3 THEN mem1.s ELSE @,
                                     !.receipts = IF m >= 4 THEN kept ELSE @]
           ready == Answer(IF m = 4 THEN "accepted" ELSE "failed", ask.try)
           delta == [is |-> "delta", base |-> st.mem.v, from |-> st.mem.s, next |-> mem1.v, s |-> mem1.s]
<1>1. /\ out.mem = mem /\ out.files = files /\ out.room = (IF m >= 1 THEN Fresh ELSE room)
      /\ out.minted = (IF m >= 1 THEN Fresh ELSE minted) /\ out.ready = ready
      /\ out.delta = (IF m = 4 THEN delta ELSE None)
  BY DEF Committed
<1>2. /\ st.mem \in RuntimeRow /\ st.files \in RuntimeRow /\ Later(host, st.mem)
      /\ FilesSound(st.files, st.mem) /\ st.files.receipts = disk.receipts
      /\ st.mem.receipts = host.receipts
  BY DEF Ready
<1>3. /\ host.v \in Nat /\ disk.v \in Nat /\ minted \in Contents /\ room \in Contents
      /\ st.mem.v \in Nat /\ st.files.v \in Nat /\ st.mem.s \in Contents
  BY <1>2 DEF FilesTyped, RuntimeRow
<1>4. m >= 1 => Fresh \in Contents
  BY <1>1, <1>3, PolicyAssumption DEF Contents, Fresh
<1> HIDE DEF out
<1>5. v \in Nat /\ s \in Contents
  BY <1>3, <1>4
<1>6. mem0 \in RuntimeRow /\ mem0.v = st.mem.v /\ mem0.s = st.mem.s /\ mem0.done = effect
      /\ mem0.receipts = host.receipts
  BY <1>2 DEF RuntimeRow
<1>7. mem1 \in RuntimeRow /\ mem1.v = v /\ mem1.s = s /\ mem1.done = effect /\ mem1.receipts = host.receipts
  <2>1. CASE m >= 1
    <3>1. mem1 = [mem0 EXCEPT !.v = v, !.s = s]
      BY <1>6, <2>1
    <3> HIDE DEF mem0, mem1, v, s
    <3> QED
      BY <1>5, <1>6, <3>1 DEF RuntimeRow
  <2>2. CASE ~(m >= 1)
    BY <1>6, <2>2
  <2> QED
    BY <2>1, <2>2
<1>8. kept \in Seq(ReceiptRow) /\ c \in Keys(kept) /\ ask.try \in Nat
  <2>1. /\ NewReceipt(c, ask, "accepted") \in ReceiptRow /\ NewReceipt(c, ask, "accepted").key = c
        /\ ask.try \in Nat
    BY ReceiptTyped DEF Outcomes
  <2>2. mem0.receipts \in Seq(ReceiptRow)
    BY <1>6 DEF RuntimeRow
  <2> QED
    BY <2>1, <2>2, KeptHas
<1> HIDE DEF mem0, mem1, kept
<1>9. mem \in RuntimeRow /\ mem.v = v /\ mem.s = s /\ mem.done = effect
      /\ (mem.receipts = IF m >= 3 THEN kept ELSE host.receipts)
  BY <1>7, <1>8 DEF RuntimeRow
<1> DEFINE fd == IF m >= 2 THEN effect ELSE st.files.done
           fv == IF m >= 3 THEN v ELSE st.files.v
           fs == IF m >= 3 THEN s ELSE st.files.s
           fr == IF m >= 4 THEN kept ELSE disk.receipts
<1>10. files \in RuntimeRow /\ files.v = fv /\ files.s = fs /\ files.done = fd /\ files.receipts = fr
  <2>1. files = [st.files EXCEPT !.done = fd, !.v = fv, !.s = fs, !.receipts = fr]
    BY <1>2, <1>7
  <2>2. fd \in [Clients -> Nat] /\ fv \in Nat /\ fs \in Contents /\ fr \in Seq(ReceiptRow)
    BY <1>2, <1>3, <1>5, <1>8 DEF RuntimeRow
  <2> HIDE DEF files, fd, fv, fs, fr
  <2> QED
    BY <1>2, <2>1, <2>2 DEF RuntimeRow
<1> HIDE DEF mem, files
<1>11. Later(host, mem)
  BY <1>2, <1>3, <1>9 DEF Later
<1>12. FilesSound(files, mem)
  <2>1. CASE m >= 3
    <3>1. files.v = st.mem.v + 1 /\ files.v = mem.v /\ files.s = mem.s
      BY <1>9, <1>10, <2>1
    <3>2. host.v < files.v
      BY <1>2, <1>3, <3>1 DEF Later
    <3> QED
      BY <1>3, <3>1, <3>2 DEF FilesSound, Later
  <2>2. CASE ~(m >= 3)
    <3>1. files.v = st.files.v /\ files.s = st.files.s
      BY <1>10, <2>2
    <3> QED
      BY <1>2, <1>3, <1>9, <3>1 DEF FilesSound, Later
  <2> QED
    BY <2>1, <2>2
<1>13. ready \in ReadyRow /\ ready.is # "snapshot"
  BY <1>8 DEF ReadyRow, Answer, Outcomes
<1> HIDE DEF ready
<1>14. out.delta \in DeltaRow \cup {None} /\ (out.delta # None => Leads(out.delta, out.mem))
  <2>1. CASE m = 4
    <3>0. \A x \in Contents : x \in Nat
      BY PolicyAssumption DEF Contents
    <3>1. /\ delta \in DeltaRow /\ delta.base = st.mem.v /\ delta.from = st.mem.s /\ delta.next = v
          /\ delta.s = s
      BY <1>3, <1>5, <1>7, <3>0 DEF DeltaRow
    <3>2. v = st.mem.v + 1
      BY <2>1
    <3> HIDE DEF delta, v, s
    <3>3. delta.base < delta.next /\ host.v <= delta.base /\ (host.v = delta.base => host.s = delta.from)
      BY <1>2, <1>3, <3>1, <3>2 DEF Later
    <3> QED
      BY <1>1, <1>9, <2>1, <3>1, <3>3 DEF Leads
  <2>2. CASE m # 4
    BY <1>1, <2>2
  <2> QED
    BY <2>1, <2>2
<1> HIDE DEF delta
<1>15. \A d \in Clients : /\ mem.done[d] <= host.done[d] + Effects(c, ask, d)
                           /\ \/ files.done[d] <= disk.done[d]
                              \/ files.done[d] <= host.done[d] + Effects(c, ask, d)
  BY <1>9, <1>10 DEF Ready
<1>16. out.room \in Contents /\ out.minted \in Contents
  BY <1>1, <1>3, <1>4
<1>17. files.receipts = disk.receipts \/ files.receipts = mem.receipts
  BY <1>9, <1>10
<1>18. ask.do = "evaluate" /\ n >= CommitWrites => files.receipts = mem.receipts /\ c \in Keys(mem.receipts)
  <2>1. ask.do = "evaluate" /\ n >= CommitWrites => m >= 4
    BY DEF CommitWrites
  <2> QED
    BY <1>8, <1>9, <1>10, <2>1
<1>19. LeavesSound(c, ask, n, out)
  BY <1>1, <1>9, <1>10, <1>11, <1>12, <1>13, <1>14, <1>15, <1>16, <1>17, <1>18 DEF LeavesSound
<1> QED
  BY <1>19 DEF out

\* Whatever is asked, the runtime moves on and its files follow.
LEMMA ProcessLeaves ==
  ASSUME FilesTyped, Later(disk, host), NEW c \in Clients, NEW ask \in Asked,
         NEW n \in Nat, Process(c, ask, n).minted <= MaxContents
  PROVE  LeavesSound(c, ask, n, Process(c, ask, n))
<1>1. Ready(Here) /\ Ready(Refreshed(n))
  BY RefreshedReady
<1>2. CASE ask.do = "snapshot"
  <2> DEFINE st == Refreshed(n)
             ready == IF n = RefreshWrites THEN [is |-> "snapshot", v |-> st.mem.v, s |-> st.mem.s]
                      ELSE [is |-> "failed"]
  <2>1. Process(c, ask, n) = Still(st, ready)
    <3>1. Process(c, ask, n) = ServeSnapshot(n)
      BY <1>2 DEF Process
    <3>2. ServeSnapshot(n) = Still(st, ready)
      BY DEF ServeSnapshot
    <3> QED
      BY <3>1, <3>2
  <2>2. Ready(st) /\ st.mem.v \in Nat /\ st.mem.s \in Nat
    <3>1. \A x \in Contents : x \in Nat
      BY PolicyAssumption DEF Contents
    <3> QED
      BY <1>1, <3>1 DEF Ready, RuntimeRow
  <2> HIDE DEF st
  <2>3. ready \in ReadyRow /\ (ready.is = "snapshot" => ready.v = st.mem.v /\ ready.s = st.mem.s)
    BY <2>2 DEF ReadyRow, SnapshotRow
  <2> HIDE DEF ready
  <2>4. ask.do # "evaluate"
    BY <1>2
  <2> QED
    BY <2>1, <2>2, <2>3, <2>4, StillLeaves
<1>3. CASE ask.do # "snapshot" /\ HasReceipt(c)
  <2> DEFINE r == host.receipts[Min(ReceiptsOf(c))]
             ready == IF r.body = Body(ask) THEN Answer(r.verdict, r.try) ELSE Answer("refused", ask.try)
  <2>1. Process(c, ask, n) = Still(Here, ready)
    <3>1. Process(c, ask, n) = Replayed(c, ask)
      BY <1>3 DEF Process
    <3>2. Replayed(c, ask) = Still(Here, ready)
      BY DEF Replayed
    <3> QED
      BY <3>1, <3>2
  <2>2. host.receipts \in Seq(ReceiptRow)
    BY DEF FilesTyped, RuntimeRow
  <2>3. ReceiptsOf(c) \in SUBSET Nat /\ ReceiptsOf(c) # {}
    BY <1>3, <2>2 DEF ReceiptsOf, HasReceipt
  <2>4. Min(ReceiptsOf(c)) \in DOMAIN host.receipts
    BY <2>3, LeastNumber DEF ReceiptsOf
  <2>5. r \in ReceiptRow
    BY <2>2, <2>4
  <2>6. ask.try \in Nat
    BY <1>3 DEF Asked
  <2> HIDE DEF r
  <2>7. ready \in ReadyRow /\ ready.is # "snapshot"
    BY <2>5, <2>6 DEF ReadyRow, ReceiptRow, Answer, Outcomes
  <2> HIDE DEF ready
  <2> QED
    BY <1>1, <1>3, <2>1, <2>7, StillLeaves
<1>4. CASE ask.do = "set" /\ ~HasReceipt(c)
  <2> DEFINE st == Refreshed(n)
  <2>1. Process(c, ask, n) = SetRequestedMode(c, ask, n) /\ Ready(st) /\ ask.try \in Nat
    BY <1>1, <1>4 DEF Process, Asked
  <2>2. CASE n < RefreshWrites
    <3>1. Process(c, ask, n) = Still(st, Answer("failed", ask.try))
      BY <2>1, <2>2 DEF SetRequestedMode
    <3>2. Answer("failed", ask.try) \in ReadyRow /\ Answer("failed", ask.try).is # "snapshot"
      BY <2>1 DEF ReadyRow, Answer, Outcomes
    <3>3. ask.do # "evaluate"
      BY <1>4
    <3> QED
      BY <2>1, <3>1, <3>2, <3>3, StillLeaves
  <2>3. CASE ~(n < RefreshWrites) /\ ask.base # st.mem.v
    <3>1. Process(c, ask, n) = Refused(st, c, ask, n - RefreshWrites)
      BY <2>1, <2>3 DEF SetRequestedMode
    <3> QED
      BY <1>4, <2>1, <3>1, RefusedLeaves
  <2>4. CASE ~(n < RefreshWrites) /\ ask.base = st.mem.v
    <3> DEFINE m == n - RefreshWrites
               effect == st.mem.done
    <3>1. Process(c, ask, n) = Committed(st, c, ask, effect, m)
      BY <2>1, <2>4 DEF SetRequestedMode
    <3>2. m \in Nat
      BY <2>4 DEF RefreshWrites
    <3>3. effect \in [Clients -> Nat]
      BY <2>1 DEF Ready, RuntimeRow
    <3>4. \A d \in Clients : effect[d] <= host.done[d] + Effects(c, ask, d)
      <4>1. \A d \in Clients : Effects(c, ask, d) = 0 /\ host.done[d] \in Nat /\ effect[d] \in Nat
        BY <1>4, <3>3 DEF Effects, FilesTyped, RuntimeRow
      <4> QED
        BY <2>1, <4>1 DEF Ready
    <3>5. ask.do # "snapshot" /\ ask.do # "evaluate"
      BY <1>4
    <3> HIDE DEF st, m, effect
    <3> QED
      BY <2>1, <3>1, <3>2, <3>3, <3>4, <3>5, CommittedLeaves
  <2> QED
    BY <2>2, <2>3, <2>4
<1>5. CASE ask.do = "evaluate" /\ ~HasReceipt(c)
  <2> DEFINE effect == [host.done EXCEPT ![c] = @ + 1]
  <2>1. Process(c, ask, n) = Committed(Here, c, ask, effect, n)
    BY <1>5 DEF Process, Evaluate
  <2>2. host.done \in [Clients -> Nat]
    BY DEF FilesTyped, RuntimeRow
  <2>3. effect \in [Clients -> Nat] /\ \A d \in Clients : effect[d] = host.done[d] + (IF d = c THEN 1 ELSE 0)
    BY <2>2
  <2> HIDE DEF effect
  <2>4. \A d \in Clients : effect[d] <= host.done[d] + Effects(c, ask, d)
    BY <1>5, <2>2, <2>3 DEF Effects
  <2>5. ask.do # "snapshot"
    BY <1>5
  <2> QED
    BY <1>1, <2>1, <2>3, <2>4, <2>5, CommittedLeaves
<1>6. ask.do \in {"snapshot", "set", "evaluate"}
  BY DEF Asked
<1> QED
  BY <1>2, <1>3, <1>4, <1>5, <1>6

\* What was shown is not past the state k, and is k's content at k's version.
ShownBefore(k) ==
    \A a \in shown : a[1] <= k.v /\ (a[1] = k.v => a[2] = k.s)

\* A delta leads from what was shown at its base to what was shown.
DeltaSound(delta, S) ==
    /\ delta.base < delta.next /\ <<delta.next, delta.s>> \in S
    /\ \A a \in S : a[1] = delta.base => a[2] = delta.from

SocketSound(socket, S) ==
    /\ socket.delta # None => DeltaSound(socket.delta, S)
    /\ \A i \in 1..Len(socket.feed) : DeltaSound(socket.feed[i], S)
    /\ socket.ready \in SnapshotRow => <<socket.ready.v, socket.ready.s>> \in S

\* A client that hears deltas has a view, or a snapshot on its way.
Listening(socket, p) ==
    socket.subscribed /\ ~socket.gone => p.view # None \/ socket.ready \in SnapshotRow

PolicyTyped ==
    /\ room \in Contents /\ minted \in Contents /\ disk \in RuntimeRow
    /\ host \in RuntimeRow \cup {None} /\ (host # None => Later(disk, host))
    /\ sock \in [Clients -> SocketRow \cup {None}] /\ panel \in [Clients -> PanelRow] /\ shown \subseteq Nat \X Nat
    /\ \A c \in Clients : sock[c] # None => Len(sock[c].feed) <= Backlog

\* The version only goes forward, in the process and in its files.
VersionsRise ==
    /\ host # None => ShownBefore(host)
    /\ host = None => ShownBefore(disk)
    /\ \A a, b \in shown : a[1] = b[1] => a = b

ClientsSound ==
    \A c \in Clients : /\ sock[c] # None => SocketSound(sock[c], shown)
                       /\ panel[c].view # None => <<panel[c].view.v, panel[c].view.s>> \in shown

Subscribed == \A c \in Clients : sock[c] # None => Listening(sock[c], panel[c])

\* What took effect has its receipt in the process and in its files, or is in doubt.
ReceiptsHold ==
    \A d \in Clients \ doubtful :
       /\ disk.done[d] <= 1 /\ (disk.done[d] = 1 => d \in Keys(disk.receipts))
       /\ host # None =>
             /\ host.done[d] <= 1
             /\ host.done[d] = 1 \/ disk.done[d] = 1 => d \in Keys(host.receipts) /\ d \in Keys(disk.receipts)

PolicyInv ==
    PolicyTyped /\ Subscribed /\ ReceiptsHold /\ (~torn => VersionsRise /\ ClientsSound)

\* One client's socket and panel move, and nothing of the Host's.
Moves(c, w, p) ==
    /\ sock' = [sock EXCEPT ![c] = w] /\ panel' = [panel EXCEPT ![c] = p]
    /\ UNCHANGED <<room, disk, host, minted, shown, torn, doubtful>>

\* A move of one client that leaves its socket and its panel sound keeps the invariant.
LEMMA OneClientMoves ==
  ASSUME PolicyInv, NEW c \in Clients, NEW w \in SocketRow \cup {None}, NEW p \in PanelRow, Moves(c, w, p),
         w # None => Len(w.feed) <= Backlog /\ Listening(w, p),
         ~torn => (w # None => SocketSound(w, shown)) /\ (p.view # None => <<p.view.v, p.view.s>> \in shown)
  PROVE  PolicyInv'
<1>1. /\ sock' = [sock EXCEPT ![c] = w] /\ panel' = [panel EXCEPT ![c] = p]
      /\ room' = room /\ disk' = disk /\ host' = host /\ minted' = minted /\ shown' = shown /\ torn' = torn
      /\ doubtful' = doubtful
  BY DEF Moves
<1>2. PolicyTyped /\ Subscribed /\ ReceiptsHold /\ (~torn => VersionsRise /\ ClientsSound)
  BY DEF PolicyInv
<1>3. sock \in [Clients -> SocketRow \cup {None}] /\ panel \in [Clients -> PanelRow]
  BY <1>2 DEF PolicyTyped
<1>4. \A d \in Clients : /\ sock'[d] = (IF d = c THEN w ELSE sock[d])
                         /\ panel'[d] = (IF d = c THEN p ELSE panel[d])
  BY <1>1, <1>3
<1>5. sock' \in [Clients -> SocketRow \cup {None}] /\ panel' \in [Clients -> PanelRow]
  BY <1>1, <1>3
<1>6. PolicyTyped'
  BY <1>1, <1>2, <1>4, <1>5 DEF PolicyTyped
<1>7. Subscribed'
  BY <1>2, <1>4 DEF Subscribed
<1>8. ReceiptsHold'
  BY <1>1, <1>2 DEF ReceiptsHold
<1>9. ASSUME ~torn' PROVE VersionsRise' /\ ClientsSound'
  <2>1. VersionsRise /\ ClientsSound
    BY <1>1, <1>2, <1>9
  <2>2. VersionsRise'
    BY <1>1, <2>1 DEF VersionsRise, ShownBefore
  <2>3. ClientsSound'
    BY <1>1, <1>4, <1>9, <2>1 DEF ClientsSound
  <2> QED
    BY <2>2, <2>3
<1> QED
  BY <1>6, <1>7, <1>8, <1>9 DEF PolicyInv

\* What a client has.
LEMMA ClientHas ==
  ASSUME PolicyInv, NEW c \in Clients
  PROVE  /\ panel[c] \in PanelRow /\ sock[c] \in SocketRow \cup {None}
         /\ sock[c] # None => Len(sock[c].feed) <= Backlog /\ Listening(sock[c], panel[c])
         /\ ~torn => /\ sock[c] # None => SocketSound(sock[c], shown)
                     /\ panel[c].view # None => <<panel[c].view.v, panel[c].view.s>> \in shown
         /\ panel = [panel EXCEPT ![c] = panel[c]]
<1>1. /\ PolicyTyped /\ Subscribed /\ (~torn => ClientsSound)
  BY DEF PolicyInv
<1>2. panel \in [Clients -> PanelRow] /\ sock \in [Clients -> SocketRow \cup {None}]
  BY <1>1 DEF PolicyTyped
<1>3. panel = [panel EXCEPT ![c] = panel[c]]
  BY <1>2
<1> QED
  BY <1>1, <1>2, <1>3 DEF PolicyTyped, Subscribed, ClientsSound

\* A connection ends before its answer is sent.
LEMMA FailToRespondKeeps == ASSUME PolicyInv, NEW c \in Clients, FailToRespond(c) PROVE PolicyInv'
<1>1. Moves(c, None, panel[c])
  BY ClientHas DEF FailToRespond, Moves
<1> QED
  BY <1>1, ClientHas, OneClientMoves

\* What is lost of a panel is its view.
LEMMA LostRow == ASSUME NEW p \in PanelRow PROVE Lost(p) \in PanelRow /\ Lost(p).view = None
BY DEF Lost, PanelRow, Outcomes

\* A task returns.
LEMMA EndTaskKeeps == ASSUME PolicyInv, NEW c \in Clients, EndTask(c) PROVE PolicyInv'
<1>1. panel[c] \in PanelRow /\ Lost(panel[c]) \in PanelRow /\ Lost(panel[c]).view = None
  BY ClientHas, LostRow
<1>2. Moves(c, None, panel[c]) \/ Moves(c, None, Lost(panel[c]))
  BY ClientHas DEF EndTask, Moves
<1>3. CASE Moves(c, None, panel[c])
  BY <1>3, ClientHas, OneClientMoves
<1>4. CASE Moves(c, None, Lost(panel[c]))
  BY <1>1, <1>4, OneClientMoves
<1> QED
  BY <1>2, <1>3, <1>4

\* A client hangs up.
LEMMA HangUpKeeps == ASSUME PolicyInv, NEW c \in Clients, HangUp(c) PROVE PolicyInv'
<1> DEFINE p == panel[c]
           yes == TRUE
           w == [sock[c] EXCEPT !.gone = yes]
<1>1. sock[c] # None /\ Moves(c, w, Lost(p)) /\ yes \in BOOLEAN /\ yes
  BY DEF HangUp, Moves, Reach
<1>2. p \in PanelRow /\ sock[c] \in SocketRow /\ Len(sock[c].feed) <= Backlog
      /\ (~torn => SocketSound(sock[c], shown))
  BY <1>1, ClientHas
<1> HIDE DEF yes, p
<1>3. w \in SocketRow /\ w.gone = yes /\ w.delta = sock[c].delta /\ w.feed = sock[c].feed
      /\ w.ready = sock[c].ready
  BY <1>1, <1>2 DEF SocketRow
<1> HIDE DEF w
<1>4. Listening(w, Lost(p))
  BY <1>1, <1>3 DEF Listening
<1>5. Lost(p) \in PanelRow /\ Lost(p).view = None
  BY <1>2, LostRow
<1>6. ~torn => SocketSound(w, shown)
  BY <1>2, <1>3 DEF SocketSound
<1> QED
  BY <1>1, <1>2, <1>3, <1>4, <1>5, <1>6, OneClientMoves

\* A panel waits no longer.
LEMMA OverdueKeeps == ASSUME PolicyInv, NEW c \in Clients, Overdue(c) PROVE PolicyInv'
<1> DEFINE p == [panel[c] EXCEPT !.phase = "failed"]
<1>1. panel[c] \in PanelRow /\ sock[c] \in SocketRow \cup {None}
      /\ sock = [sock EXCEPT ![c] = sock[c]]
  <2>1. sock \in [Clients -> SocketRow \cup {None}]
    BY DEF PolicyInv, PolicyTyped
  <2> QED
    BY <2>1, ClientHas
<1>2. Moves(c, sock[c], p)
  BY <1>1 DEF Overdue, Moves
<1>3. p \in PanelRow /\ p.view = panel[c].view
  BY <1>1 DEF PanelRow, Outcomes
<1> HIDE DEF p
<1>4. Listening(sock[c], panel[c]) => Listening(sock[c], p)
  BY <1>3 DEF Listening
<1>5. sock[c] # None => Len(sock[c].feed) <= Backlog /\ Listening(sock[c], p)
  BY <1>4, ClientHas
<1>6. ~torn => /\ sock[c] # None => SocketSound(sock[c], shown)
               /\ p.view # None => <<p.view.v, p.view.s>> \in shown
  BY <1>3, ClientHas
<1> QED
  BY <1>1, <1>2, <1>3, <1>5, <1>6, OneClientMoves

\* A new connection has heard nothing.
LEMMA NewSocketRow ==
  ASSUME NEW asks \in Seq(Asked), NEW p
  PROVE  /\ NewSocket(asks) \in SocketRow /\ Len(NewSocket(asks).feed) <= Backlog
         /\ Listening(NewSocket(asks), p) /\ SocketSound(NewSocket(asks), shown)
<1> DEFINE no == FALSE
           feed == <<>>
           w == [asks |-> asks, ready |-> None, delta |-> None, subscribed |-> no,
                 feed |-> feed, lagged |-> no, gone |-> no]
<1>1. NewSocket(asks) = w
  BY DEF NewSocket
<1>2. no \in BOOLEAN /\ ~no /\ feed \in Seq(DeltaRow) /\ Len(feed) = 0 /\ Backlog \in Nat
  BY PolicyAssumption
<1>3. None \notin SnapshotRow
  BY PolicyAssumption DEF SnapshotRow
<1> HIDE DEF no, feed
<1>4. w \in SocketRow /\ w.feed = feed /\ w.ready = None /\ w.delta = None /\ w.subscribed = no
  BY <1>2 DEF SocketRow
<1> HIDE DEF w
<1>5. Listening(w, p) /\ SocketSound(w, shown)
  BY <1>2, <1>3, <1>4 DEF Listening, SocketSound
<1> QED
  BY <1>1, <1>2, <1>4, <1>5

\* A panel connects, and an agent connects to ask.
LEMMA ConnectKeeps == ASSUME PolicyInv, NEW c \in Clients, Connect(c) \/ Ask(c) PROVE PolicyInv'
<1> DEFINE p == [panel[c] EXCEPT !.phase = "pending"]
           one == <<Snapshot>>
           two == <<[do |-> "evaluate", try |-> 0]>>
<1>1. panel[c] \in PanelRow
  BY ClientHas
<1>2. one \in Seq(Asked) /\ two \in Seq(Asked)
  <2>1. Snapshot \in Asked /\ [do |-> "evaluate", try |-> 0] \in Asked
    BY DEF Asked, Snapshot
  <2> QED
    BY <2>1
<1>3. p \in PanelRow /\ p.view = panel[c].view
  BY <1>1 DEF PanelRow, Outcomes
<1>4. Moves(c, NewSocket(one), panel[c]) \/ Moves(c, NewSocket(two), p)
  BY ClientHas DEF Connect, Ask, Moves
<1> HIDE DEF p, one, two
<1>5. CASE Moves(c, NewSocket(one), panel[c])
  BY <1>1, <1>2, <1>5, NewSocketRow, ClientHas, OneClientMoves
<1>6. CASE Moves(c, NewSocket(two), p)
  BY <1>2, <1>3, <1>6, NewSocketRow, ClientHas, OneClientMoves
<1> QED
  BY <1>4, <1>5, <1>6

\* A panel that has a view sends its command.
LEMMA ApplyKeeps == ASSUME PolicyInv, NEW c \in Clients, Apply(c) PROVE PolicyInv'
<1> DEFINE u == panel[c]
           h == sock[c]
           p == [u EXCEPT !.phase = "pending", !.try = @ + 1]
           m == [do |-> "set", base |-> u.view.v, try |-> u.try + 1]
           w == [h EXCEPT !.asks = Append(@, m)]
<1>1. h # None /\ u.view # None
  BY DEF Apply, Reach
<1>2. /\ u \in PanelRow /\ h \in SocketRow /\ Len(h.feed) <= Backlog /\ Listening(h, u)
      /\ (~torn => SocketSound(h, shown) /\ <<u.view.v, u.view.s>> \in shown)
  BY <1>1, ClientHas
<1>3. Moves(c, w, p)
  <2>1. panel' = [panel EXCEPT ![c] = p]
    <3>1. panel' = [panel EXCEPT ![c].phase = "pending", ![c].try = @ + 1]
      BY DEF Apply
    <3>2. panel \in [Clients -> PanelRow]
      BY DEF PolicyInv, PolicyTyped
    <3> QED
      BY <3>1, <3>2 DEF PanelRow
  <2>2. sock' = [sock EXCEPT ![c] = w]
    BY DEF Apply
  <2> QED
    BY <2>1, <2>2 DEF Apply, Moves
<1>4. m \in Asked
  <2> DEFINE b == u.view.v
             y == u.try + 1
  <2>1. u.view \in ViewRow /\ u.try \in Nat
    BY <1>1, <1>2 DEF PanelRow
  <2>2. b \in Nat /\ y \in Nat
    BY <2>1 DEF ViewRow
  <2> HIDE DEF b, y
  <2>3. [do |-> "set", base |-> b, try |-> y] \in Asked
    BY <2>2 DEF Asked
  <2> QED
    BY <2>3 DEF b, y
<1> HIDE DEF u, h, m
<1>5. p \in PanelRow /\ p.view = u.view
  <2> DEFINE y == u.try + 1
  <2>1. y \in Nat
    BY <1>2 DEF PanelRow
  <2> HIDE DEF y
  <2>2. LET q == [u EXCEPT !.phase = "pending", !.try = y] IN q \in PanelRow /\ q.view = u.view
    BY <1>2, <2>1 DEF PanelRow, Outcomes
  <2> QED
    BY <2>2 DEF y
<1>6. /\ w \in SocketRow /\ w.feed = h.feed /\ w.delta = h.delta /\ w.ready = h.ready
      /\ w.subscribed = h.subscribed /\ w.gone = h.gone
  <2>1. Append(h.asks, m) \in Seq(Asked)
    BY <1>2, <1>4 DEF SocketRow
  <2> QED
    BY <1>2, <2>1 DEF SocketRow
<1> HIDE DEF p, w
<1>7. Listening(w, p)
  BY <1>2, <1>5, <1>6 DEF Listening
<1>8. ~torn => SocketSound(w, shown) /\ (p.view # None => <<p.view.v, p.view.s>> \in shown)
  BY <1>2, <1>5, <1>6 DEF SocketSound
<1> QED
  BY <1>2, <1>3, <1>5, <1>6, <1>7, <1>8, OneClientMoves

\* A delta is applied at its base, or a snapshot is asked for.
LEMMA ForwardKeeps == ASSUME PolicyInv, NEW c \in Clients, Forward(c) PROVE PolicyInv'
<1> DEFINE u == panel[c]
           h == sock[c]
           d == Head(h.feed)
           rest == [h EXCEPT !.feed = Tail(@)]
           again == [rest EXCEPT !.asks = Append(@, Snapshot)]
           p == [u EXCEPT !.view = Patched(@, d)]
           Less(w) == /\ w \in SocketRow /\ w.feed = Tail(h.feed) /\ w.delta = h.delta
                      /\ w.ready = h.ready /\ w.subscribed = h.subscribed /\ w.gone = h.gone
<1>1. h # None /\ ~Busy(c) /\ h.subscribed /\ h.feed # <<>>
  BY DEF Forward
<1>2. /\ u \in PanelRow /\ h \in SocketRow /\ Len(h.feed) <= Backlog /\ Listening(h, u)
      /\ (~torn => SocketSound(h, shown) /\ (u.view # None => <<u.view.v, u.view.s>> \in shown))
  BY <1>1, ClientHas
<1>3. h.ready = None /\ None \notin SnapshotRow /\ None \notin ViewRow
  BY <1>1, PolicyAssumption DEF Busy, SnapshotRow, ViewRow
<1>4. \/ Moves(c, rest, u) \/ Moves(c, again, u)
      \/ ~h.gone /\ d.base = u.view.v /\ Moves(c, rest, p)
  BY ClientHas DEF Forward, Moves, Resyncing
<1> HIDE DEF u, h
<1>5. /\ h.feed \in Seq(DeltaRow) /\ Len(Tail(h.feed)) <= Backlog /\ Tail(h.feed) \in Seq(DeltaRow)
      /\ d \in DeltaRow /\ d = h.feed[1] /\ 1 \in 1..Len(h.feed)
      /\ \A i \in 1..Len(Tail(h.feed)) : i + 1 \in 1..Len(h.feed) /\ Tail(h.feed)[i] = h.feed[i + 1]
  <2>1. h.feed \in Seq(DeltaRow) /\ h.feed # <<>> /\ Len(h.feed) <= Backlog /\ Backlog \in Nat
    BY <1>1, <1>2, PolicyAssumption DEF SocketRow
  <2> QED
    BY <2>1
<1> HIDE DEF d
<1>6. Less(rest) /\ Less(again)
  <2>1. Less(rest) /\ rest.asks = h.asks
    BY <1>2, <1>5 DEF SocketRow
  <2>2. Append(rest.asks, Snapshot) \in Seq(Asked)
    <3>1. Snapshot \in Asked /\ rest.asks \in Seq(Asked)
      BY <2>1 DEF Asked, Snapshot, SocketRow
    <3> QED
      BY <3>1
  <2> HIDE DEF rest
  <2>3. Less(again)
    BY <2>1, <2>2 DEF SocketRow
  <2> QED
    BY <2>1, <2>3
<1> HIDE DEF rest, again
<1>7. ASSUME NEW w, Less(w)
      PROVE  /\ w \in SocketRow /\ Len(w.feed) <= Backlog /\ Listening(w, u) /\ (~torn => SocketSound(w, shown))
  <2>1. Listening(w, u)
    BY <1>2, <1>7 DEF Listening
  <2>2. ASSUME ~torn PROVE SocketSound(w, shown)
    <3>1. /\ h.delta # None => DeltaSound(h.delta, shown)
          /\ \A i \in 1..Len(h.feed) : DeltaSound(h.feed[i], shown)
          /\ h.ready \in SnapshotRow => <<h.ready.v, h.ready.s>> \in shown
      BY <1>2, <2>2 DEF SocketSound
    <3>2. \A i \in 1..Len(w.feed) : DeltaSound(w.feed[i], shown)
      BY <1>5, <1>7, <3>1
    <3> QED
      BY <1>7, <3>1, <3>2 DEF SocketSound
  <2> QED
    BY <1>5, <1>7, <2>1, <2>2
<1>8. ASSUME NEW w, Less(w), Moves(c, w, u) PROVE PolicyInv'
  BY <1>2, <1>7, <1>8, OneClientMoves
<1>9. CASE ~h.gone /\ d.base = u.view.v /\ Moves(c, rest, p)
  <2> DEFINE z == Patched(u.view, d)
  <2>1. u.view # None
    BY <1>1, <1>2, <1>3, <1>9 DEF Listening
  <2>2. z \in ViewRow /\ z.v = d.next /\ (u.view.s = d.from => z.s = d.s)
    BY <1>5 DEF Patched, ViewRow, DeltaRow
  <2> HIDE DEF z
  <2>3. p = [u EXCEPT !.view = z]
    BY DEF z
  <2> HIDE DEF p
  <2>4. p \in PanelRow /\ p.view = z
    BY <1>2, <2>2, <2>3 DEF PanelRow
  <2>5. /\ rest \in SocketRow /\ Len(rest.feed) <= Backlog /\ (~torn => SocketSound(rest, shown))
    BY <1>6, <1>7
  <2>6. Listening(rest, p)
    BY <1>3, <2>2, <2>4 DEF Listening
  <2>7. ASSUME ~torn PROVE <<p.view.v, p.view.s>> \in shown
    <3>1. DeltaSound(d, shown) /\ <<u.view.v, u.view.s>> \in shown
      BY <1>2, <1>5, <2>1, <2>7 DEF SocketSound
    <3>2. u.view.s = d.from
      BY <1>9, <3>1 DEF DeltaSound
    <3> QED
      BY <2>2, <2>4, <3>1, <3>2 DEF DeltaSound
  <2> QED
    BY <1>9, <2>4, <2>5, <2>6, <2>7, OneClientMoves
<1> QED
  BY <1>4, <1>6, <1>8, <1>9

\* A client is told an answer: a snapshot is its view.
LEMMA ToldPanel ==
  ASSUME NEW p \in PanelRow, NEW e \in ReadyRow
  PROVE  /\ Told(p, e) \in PanelRow
         /\ e \in SnapshotRow => Told(p, e).view = [v |-> e.v, s |-> e.s] /\ Told(p, e).view \in ViewRow
         /\ e \notin SnapshotRow => Told(p, e).view = p.view
<1>1. CASE e \in SnapshotRow
  <2> DEFINE z == [v |-> e.v, s |-> e.s]
  <2>1. e.is = "snapshot" /\ z \in ViewRow
    BY <1>1 DEF SnapshotRow, ViewRow
  <2>2. Told(p, e) = [p EXCEPT !.view = z]
    BY <2>1 DEF Told
  <2> HIDE DEF z
  <2>3. [p EXCEPT !.view = z] \in PanelRow /\ [p EXCEPT !.view = z].view = z
    BY <2>1 DEF PanelRow
  <2> QED
    BY <1>1, <2>1, <2>2, <2>3 DEF z
<1>2. CASE e \in [is : {"answer"}, verdict : Outcomes, try : Nat]
  <2>1. e.is = "answer" /\ e.verdict \in Outcomes /\ e \notin SnapshotRow
    BY <1>2 DEF SnapshotRow
  <2>2. Told(p, e) = p \/ Told(p, e) = [p EXCEPT !.phase = e.verdict]
    BY <2>1 DEF Told, Settled
  <2> QED
    BY <2>1, <2>2 DEF PanelRow
<1>3. CASE e \in [is : {"failed"}]
  <2>1. e.is = "failed" /\ e \notin SnapshotRow
    BY <1>3 DEF SnapshotRow
  <2> QED
    BY <2>1 DEF Told
<1> QED
  BY <1>1, <1>2, <1>3 DEF ReadyRow

\* A feed that takes a delta keeps its newest.
LEMMA FedSound ==
  ASSUME NEW feed \in Seq(DeltaRow), NEW d \in DeltaRow
  PROVE  /\ Fed(feed, d) \in Seq(DeltaRow) /\ Len(Fed(feed, d)) <= Backlog
         /\ \A i \in 1..Len(Fed(feed, d)) : Fed(feed, d)[i] = d \/ \E j \in 1..Len(feed) : Fed(feed, d)[i] = feed[j]
<1>1. Fed(feed, d) = Newest(feed, d, Backlog) /\ Backlog \in Nat \ {0}
  BY PolicyAssumption DEF Fed, Newest
<1> QED
  BY <1>1, LimitedTo

\* A delta goes to every connection.
LEMMA BroadcastKeeps ==
  ASSUME PolicyInv, NEW socks \in [Clients -> SocketRow \cup {None}], NEW d \in DeltaRow,
         NEW panels \in [Clients -> PanelRow],
         \A c \in Clients : socks[c] # None => /\ Len(socks[c].feed) <= Backlog
                                              /\ Listening(socks[c], panels[c])
                                              /\ (~torn => SocketSound(socks[c], shown)),
         ~torn => DeltaSound(d, shown),
         ~torn => \A c \in Clients : panels[c].view # None => <<panels[c].view.v, panels[c].view.s>> \in shown,
         sock' = Broadcast(socks, d), panel' = panels,
         UNCHANGED <<room, disk, host, minted, shown, torn, doubtful>>
  PROVE  PolicyInv'
<1>1. /\ PolicyTyped /\ Subscribed /\ ReceiptsHold /\ (~torn => VersionsRise /\ ClientsSound)
  BY DEF PolicyInv
<1> DEFINE Late(h) == h.lagged \/ Len(h.feed) = Backlog
           Given(h) == [h EXCEPT !.feed = Fed(h.feed, d), !.lagged = Late(h)]
<1>2. DOMAIN sock' = Clients /\ sock' = [c \in Clients |-> sock'[c]]
      /\ \A c \in Clients : sock'[c] = IF socks[c] = None THEN None ELSE Given(socks[c])
  BY DEF Broadcast
<1>3. ASSUME NEW c \in Clients, socks[c] # None
      PROVE  LET w == Given(socks[c]) IN
             /\ w \in SocketRow /\ Len(w.feed) <= Backlog /\ Listening(w, panels[c])
             /\ ~torn => SocketSound(w, shown)
  <2> DEFINE h == socks[c]
             f == Fed(h.feed, d)
             late == Late(h)
             w == [h EXCEPT !.feed = f, !.lagged = late]
  <2>1. h \in SocketRow /\ h.feed \in Seq(DeltaRow) /\ late \in BOOLEAN
    BY <1>3 DEF SocketRow
  <2>2. /\ f \in Seq(DeltaRow) /\ Len(f) <= Backlog
        /\ \A i \in 1..Len(f) : f[i] = d \/ \E j \in 1..Len(h.feed) : f[i] = h.feed[j]
    BY <2>1, FedSound
  <2>3. Given(h) = w
    OBVIOUS
  <2>4. Listening(h, panels[c]) /\ (~torn => SocketSound(h, shown))
    BY <1>3
  <2> HIDE DEF f, late, h
  <2>5. /\ w \in SocketRow /\ w.feed = f /\ w.delta = h.delta /\ w.ready = h.ready
        /\ w.subscribed = h.subscribed /\ w.gone = h.gone
    BY <2>1, <2>2 DEF SocketRow
  <2> HIDE DEF w
  <2>6. Listening(w, panels[c])
    BY <2>4, <2>5 DEF Listening
  <2>7. ASSUME ~torn PROVE SocketSound(w, shown)
    <3>1. /\ h.delta # None => DeltaSound(h.delta, shown)
          /\ \A i \in 1..Len(h.feed) : DeltaSound(h.feed[i], shown)
          /\ h.ready \in SnapshotRow => <<h.ready.v, h.ready.s>> \in shown
      BY <2>4, <2>7 DEF SocketSound
    <3>2. \A i \in 1..Len(w.feed) : DeltaSound(w.feed[i], shown)
      BY <2>2, <2>5, <2>7, <3>1
    <3> QED
      BY <2>5, <3>1, <3>2 DEF SocketSound
  <2>8. w \in SocketRow /\ Len(w.feed) <= Backlog /\ Listening(w, panels[c]) /\ (~torn => SocketSound(w, shown))
    BY <2>2, <2>5, <2>6, <2>7
  <2>9. Given(h) = w
    BY <2>3
  <2> HIDE DEF Given
  <2>10. LET z == Given(h) IN
         z \in SocketRow /\ Len(z.feed) <= Backlog /\ Listening(z, panels[c]) /\ (~torn => SocketSound(z, shown))
    BY <2>8, <2>9
  <2> QED
    BY <2>10 DEF h
<1> HIDE DEF Given
<1>4. \A c \in Clients : sock'[c] # None =>
         /\ sock'[c] \in SocketRow /\ Len(sock'[c].feed) <= Backlog /\ Listening(sock'[c], panels[c])
         /\ (~torn => SocketSound(sock'[c], shown))
  BY <1>2, <1>3
<1>5. sock' \in [Clients -> SocketRow \cup {None}]
  <2>1. \A c \in Clients : sock'[c] \in SocketRow \cup {None}
    BY <1>4
  <2> QED
    BY <1>2, <2>1
<1>6. PolicyTyped'
  BY <1>1, <1>4, <1>5 DEF PolicyTyped
<1>7. Subscribed'
  BY <1>4 DEF Subscribed
<1>8. ReceiptsHold'
  BY <1>1 DEF ReceiptsHold
<1>9. ASSUME ~torn' PROVE VersionsRise' /\ ClientsSound'
  <2>1. VersionsRise'
    BY <1>1, <1>9 DEF VersionsRise, ShownBefore
  <2>2. ClientsSound'
    BY <1>4, <1>9 DEF ClientsSound, SocketSound, DeltaSound
  <2> QED
    BY <2>1, <2>2
<1> QED
  BY <1>6, <1>7, <1>8, <1>9 DEF PolicyInv

\* The answer goes to its own client, then the delta to all.
LEMMA RespondKeeps == ASSUME PolicyInv, NEW c \in Clients, Respond(c) PROVE PolicyInv'
<1> DEFINE u == panel[c]
           h == sock[c]
           e == h.ready
           p == IF h.gone THEN u ELSE Told(u, e)
           left == h.gone \/ c \in Agents
           w == [h EXCEPT !.ready = None, !.delta = None, !.gone = left]
           sent == [sock EXCEPT ![c] = w]
           panels == [panel EXCEPT ![c] = p]
<1>1. /\ h # None /\ e # None /\ panel' = panels
      /\ UNCHANGED <<room, disk, host, minted, shown, torn, doubtful>>
      /\ \/ h.delta = None /\ sock' = sent
         \/ h.delta # None /\ sock' = Broadcast(sent, h.delta)
  <2>1. sock \in [Clients -> SocketRow \cup {None}] /\ h # None
    BY DEF PolicyInv, PolicyTyped, Respond
  <2>2. h \in SocketRow
    BY <2>1
  <2>3. [sock EXCEPT ![c].ready = None, ![c].delta = None, ![c].gone = @ \/ c \in Agents] = sent
    BY <2>1, <2>2 DEF SocketRow
  <2>4. panel' = panels
    BY ClientHas DEF Respond
  <2> HIDE DEF sent, panels
  <2>5. \/ h.delta = None /\ sock' = sent
        \/ h.delta # None /\ sock' = Broadcast(sent, h.delta)
    BY <2>3 DEF Respond
  <2> QED
    BY <2>1, <2>4, <2>5 DEF Respond, Busy
<1>2. /\ u \in PanelRow /\ h \in SocketRow /\ Len(h.feed) <= Backlog /\ Listening(h, u)
      /\ (~torn => SocketSound(h, shown) /\ (u.view # None => <<u.view.v, u.view.s>> \in shown))
  BY <1>1, ClientHas
<1>3. e \in ReadyRow
  BY <1>1, <1>2 DEF SocketRow
<1>4. left \in BOOLEAN /\ (h.gone => left)
  OBVIOUS
<1>5. None \notin SnapshotRow /\ None \notin ViewRow
  BY PolicyAssumption DEF SnapshotRow, ViewRow
<1> HIDE DEF left, h, u, e
<1>6. /\ Told(u, e) \in PanelRow
      /\ e \in SnapshotRow => Told(u, e).view = [v |-> e.v, s |-> e.s] /\ Told(u, e).view \in ViewRow
      /\ e \notin SnapshotRow => Told(u, e).view = u.view
  BY <1>2, <1>3, ToldPanel
<1>7. p \in PanelRow
  BY <1>2, <1>6
<1>8. /\ w \in SocketRow /\ w.feed = h.feed /\ w.delta = None /\ w.ready = None
      /\ w.subscribed = h.subscribed /\ w.gone = left
  BY <1>2, <1>4 DEF SocketRow
<1> HIDE DEF w
<1>9. Listening(w, p)
  <2>1. ASSUME w.subscribed, ~w.gone PROVE p.view # None
    <3>1. h.subscribed /\ ~h.gone /\ p = Told(u, e)
      BY <1>4, <1>8, <2>1
    <3>2. u.view # None \/ e \in SnapshotRow
      BY <1>2, <3>1 DEF Listening, e
    <3> QED
      BY <1>5, <1>6, <3>1, <3>2
  <2> QED
    BY <2>1 DEF Listening
<1>10. ASSUME ~torn PROVE SocketSound(w, shown) /\ (p.view # None => <<p.view.v, p.view.s>> \in shown)
  <2>1. /\ h.delta # None => DeltaSound(h.delta, shown)
        /\ \A i \in 1..Len(h.feed) : DeltaSound(h.feed[i], shown)
        /\ e \in SnapshotRow => <<e.v, e.s>> \in shown
    BY <1>2, <1>10 DEF SocketSound, e
  <2>2. SocketSound(w, shown)
    BY <1>5, <1>8, <2>1 DEF SocketSound
  <2>3. p.view # None => <<p.view.v, p.view.s>> \in shown
    <3>1. Told(u, e).view # None => <<Told(u, e).view.v, Told(u, e).view.s>> \in shown
      <4>1. CASE e \in SnapshotRow
        BY <1>6, <2>1, <4>1
      <4>2. CASE e \notin SnapshotRow
        BY <1>2, <1>6, <1>10, <4>2
      <4> QED
        BY <4>1, <4>2
    <3> QED
      BY <1>2, <1>10, <3>1
  <2> QED
    BY <2>2, <2>3
<1> HIDE DEF p
<1>11. CASE h.delta = None /\ sock' = sent
  <2>1. Moves(c, w, p)
    BY <1>1, <1>11 DEF Moves
  <2> QED
    BY <1>2, <1>7, <1>8, <1>9, <1>10, <2>1, OneClientMoves
<1>12. CASE h.delta # None /\ sock' = Broadcast(sent, h.delta)
  <2>1. sock \in [Clients -> SocketRow \cup {None}] /\ panel \in [Clients -> PanelRow]
    BY DEF PolicyInv, PolicyTyped
  <2>2. /\ sent \in [Clients -> SocketRow \cup {None}] /\ panels \in [Clients -> PanelRow]
        /\ \A d \in Clients : /\ sent[d] = (IF d = c THEN w ELSE sock[d])
                              /\ panels[d] = (IF d = c THEN p ELSE panel[d])
    BY <1>7, <1>8, <2>1
  <2> HIDE DEF sent, panels
  <2>3. \A d \in Clients : sent[d] # None => /\ Len(sent[d].feed) <= Backlog
                                            /\ Listening(sent[d], panels[d])
                                            /\ (~torn => SocketSound(sent[d], shown))
    BY <1>2, <1>8, <1>9, <1>10, <2>2, ClientHas
  <2>4. ~torn => \A d \in Clients : panels[d].view # None => <<panels[d].view.v, panels[d].view.s>> \in shown
    BY <1>10, <2>2, ClientHas
  <2>5. h.delta \in DeltaRow /\ (~torn => DeltaSound(h.delta, shown))
    BY <1>2, <1>12 DEF SocketRow, SocketSound
  <2> QED
    BY <1>1, <1>12, <2>2, <2>3, <2>4, <2>5, BroadcastKeeps
<1> QED
  BY <1>1, <1>11, <1>12

\* A receipt is looked up by its key.
LEMMA ReceiptsAreKeyed == \A k : HasReceipt(k) <=> k \in Keys(host.receipts)
BY DEF HasReceipt, ReceiptsOf, Keys, ToSet

\* What takes effect took none before, or is in doubt.
LEMMA TakesOnce ==
  ASSUME PolicyInv, host # None, NEW c \in Clients, NEW ask, NEW n, NEW out, LeavesSound(c, ask, n, out),
         NEW d \in Clients, d \notin doubtful,
         ask.do = "evaluate" /\ ~HasReceipt(c) /\ d = c => n >= CommitWrites
  PROVE  /\ out.mem.done[d] <= 1 /\ out.files.done[d] <= 1
         /\ out.mem.done[d] = 1 \/ out.files.done[d] = 1 =>
               \/ d \in Keys(host.receipts) /\ d \in Keys(disk.receipts)
               \/ out.files.receipts = out.mem.receipts /\ d \in Keys(out.mem.receipts)
<1>1. /\ host.done[d] <= 1 /\ disk.done[d] <= 1
      /\ host.done[d] = 1 \/ disk.done[d] = 1 => d \in Keys(host.receipts) /\ d \in Keys(disk.receipts)
  BY DEF PolicyInv, ReceiptsHold
<1>2. /\ host.done[d] \in Nat /\ disk.done[d] \in Nat /\ out.mem.done[d] \in Nat /\ out.files.done[d] \in Nat
  BY DEF PolicyInv, PolicyTyped, RuntimeRow, LeavesSound
<1>3. /\ out.mem.done[d] <= host.done[d] + Effects(c, ask, d)
      /\ \/ out.files.done[d] <= disk.done[d]
         \/ out.files.done[d] <= host.done[d] + Effects(c, ask, d)
      /\ ask.do = "evaluate" /\ ~HasReceipt(c) /\ n >= CommitWrites =>
            out.files.receipts = out.mem.receipts /\ c \in Keys(out.mem.receipts)
  BY DEF LeavesSound
<1>4. CASE ask.do = "evaluate" /\ ~HasReceipt(c) /\ d = c
  <2>1. Effects(c, ask, d) = 1 /\ d \notin Keys(host.receipts)
    BY <1>4, ReceiptsAreKeyed DEF Effects
  <2>2. host.done[d] = 0 /\ disk.done[d] = 0
    BY <1>1, <1>2, <2>1
  <2> QED
    BY <1>2, <1>3, <1>4, <2>1, <2>2
<1>5. CASE ~(ask.do = "evaluate" /\ ~HasReceipt(c) /\ d = c)
  <2>1. Effects(c, ask, d) = 0
    BY <1>5 DEF Effects
  <2> QED
    BY <1>1, <1>2, <1>3, <2>1
<1> QED
  BY <1>4, <1>5

\* S is what has been shown once an answer carries k.
Grown(S, k) == S = shown \cup {<<k.v, k.s>>}

\* An answer that carries a state not before the newest that was shown leaves every
\* version one content and every delta that led to what was shown leading to it.
LEMMA ShownGrows ==
  ASSUME NEW k, NEW S, Grown(S, k), shown \subseteq Nat \X Nat, host \in RuntimeRow,
         k \in RuntimeRow, ShownBefore(host), Later(host, k), \A a, b \in shown : a[1] = b[1] => a = b
  PROVE  /\ \A a \in S : a[1] <= k.v /\ (a[1] = k.v => a[2] = k.s)
         /\ \A a, b \in S : a[1] = b[1] => a = b
         /\ \A delta \in DeltaRow : DeltaSound(delta, shown) => DeltaSound(delta, S)
         /\ \A delta : Leads(delta, k) => DeltaSound(delta, S)
<1> DEFINE new == <<k.v, k.s>>
<1>1. host.v \in Nat /\ k.v \in Nat /\ host.v <= k.v /\ (host.v = k.v => host.s = k.s)
  BY DEF RuntimeRow, Later
<1>2. \A a \in shown : a[1] \in Nat /\ a = <<a[1], a[2]>> /\ a[1] <= host.v /\ (a[1] = host.v => a[2] = host.s)
  BY DEF ShownBefore
<1>0. S = shown \cup {<<k.v, k.s>>}
  BY DEF Grown
<1>3. new[1] = k.v /\ new[2] = k.s /\ \A a \in S : a \in shown \/ a = new
  BY <1>0
<1> HIDE DEF new
<1>4. \A a \in S : a[1] <= k.v /\ (a[1] = k.v => a[2] = k.s)
  BY <1>1, <1>2, <1>3
<1>5. ASSUME NEW a \in S, NEW b \in S, a[1] = b[1] PROVE a = b
  <2>1. ASSUME NEW x \in shown, x[1] = k.v PROVE x = new
    BY <1>1, <1>2, <1>3, <2>1 DEF new
  <2> QED
    BY <1>3, <1>5, <2>1
<1>6. ASSUME NEW delta \in DeltaRow, DeltaSound(delta, shown)
      PROVE  DeltaSound(delta, S)
  <2> DEFINE y == <<delta.next, delta.s>>
  <2>1. /\ y \in shown /\ delta.base \in Nat /\ delta.next \in Nat /\ delta.base < delta.next
        /\ y[1] = delta.next /\ \A a \in shown : a[1] = delta.base => a[2] = delta.from
    BY <1>6 DEF DeltaSound, DeltaRow
  <2> HIDE DEF y
  <2>2. delta.next <= host.v
    BY <1>2, <2>1
  <2>3. k.v # delta.base
    BY <1>1, <2>1, <2>2
  <2>4. y \in S
    BY <1>0, <2>1
  <2> QED
    BY <1>3, <2>1, <2>3, <2>4 DEF y, DeltaSound
<1>7. ASSUME NEW delta, Leads(delta, k)
      PROVE  DeltaSound(delta, S)
  <2>1. /\ delta.base \in Nat /\ delta.next \in Nat /\ delta.base < delta.next /\ host.v <= delta.base
        /\ (host.v = delta.base => host.s = delta.from) /\ delta.next = k.v /\ delta.s = k.s
    BY <1>7 DEF Leads, DeltaRow
  <2>2. <<delta.next, delta.s>> \in S
    BY <1>0, <2>1
  <2>3. ASSUME NEW a \in S, a[1] = delta.base PROVE a[2] = delta.from
    BY <1>1, <1>2, <1>3, <2>1, <2>3
  <2> QED
    BY <2>1, <2>2, <2>3 DEF DeltaSound
<1> QED
  BY <1>4, <1>5, <1>6, <1>7

\* A request is handled under the lock.
LEMMA HandleKeeps == ASSUME PolicyInv, NEW c \in Clients, Handle(c) PROVE PolicyInv'
<1> DEFINE h == sock[c]
           ask == Head(h.asks)
<1>1. /\ host # None /\ h # None /\ h.asks # <<>> /\ h.ready = None /\ panel' = panel /\ torn' = torn
  BY DEF Handle, Pending, Busy
<1>2. /\ PolicyTyped /\ Subscribed /\ ReceiptsHold /\ (~torn => VersionsRise /\ ClientsSound)
  BY DEF PolicyInv
<1>3. FilesTyped /\ Later(disk, host) /\ h \in SocketRow /\ Listening(h, panel[c])
      /\ (~torn => SocketSound(h, shown)) /\ Len(h.feed) <= Backlog
  BY <1>1, <1>2, ClientHas DEF PolicyTyped, FilesTyped
<1>4. ask \in Asked /\ Tail(h.asks) \in Seq(Asked)
  <2>1. h.asks \in Seq(Asked) /\ h.asks # <<>>
    BY <1>1, <1>3 DEF SocketRow
  <2> QED
    BY <2>1
<1>5. PICK n \in 0..Writes(c, ask) :
         LET out == Process(c, ask, n) IN
         /\ out.minted <= MaxContents
         /\ host' = out.mem /\ disk' = out.files /\ room' = out.room /\ minted' = out.minted
         /\ sock' = [sock EXCEPT ![c].asks = Tail(@), ![c].ready = out.ready,
                                 ![c].delta = out.delta,
                                 ![c].subscribed = @ \/ out.ready.is = "snapshot"]
         /\ shown' = shown \cup {<<out.mem.v, out.mem.s>>}
         /\ doubtful' = Doubt(c, ask, n, out.mem.receipts)
  BY DEF Handle
<1> DEFINE out == Process(c, ask, n)
           hears == h.subscribed \/ out.ready.is = "snapshot"
           rest == Tail(h.asks)
           w == [h EXCEPT !.asks = rest, !.ready = out.ready, !.delta = out.delta, !.subscribed = hears]
<1>6. /\ out.minted <= MaxContents
      /\ host' = out.mem /\ disk' = out.files /\ room' = out.room /\ minted' = out.minted
      /\ shown' = shown \cup {<<out.mem.v, out.mem.s>>} /\ doubtful' = Doubt(c, ask, n, out.mem.receipts)
  BY <1>5
<1>7. sock' = [sock EXCEPT ![c] = w]
  <2>1. sock \in [Clients -> SocketRow \cup {None}]
    BY <1>2 DEF PolicyTyped
  <2>2. sock' = [sock EXCEPT ![c].asks = Tail(@), ![c].ready = out.ready, ![c].delta = out.delta,
                             ![c].subscribed = @ \/ out.ready.is = "snapshot"]
    BY <1>5
  <2> HIDE DEF out
  <2> QED
    BY <1>3, <2>1, <2>2 DEF SocketRow
<1>8. n \in Nat
  BY <1>5 DEF Writes, RefreshWrites, CommitWrites
<1>9. LeavesSound(c, ask, n, out)
  BY <1>3, <1>4, <1>6, <1>8, ProcessLeaves
<1> HIDE DEF out, ask
<1>10. hears \in BOOLEAN /\ (hears <=> h.subscribed \/ out.ready.is = "snapshot")
  BY <1>3 DEF SocketRow
<1> HIDE DEF hears
<1>11. /\ out.mem \in RuntimeRow /\ out.files \in RuntimeRow /\ out.room \in Contents
       /\ out.minted \in Contents /\ out.ready \in ReadyRow /\ out.delta \in DeltaRow \cup {None}
       /\ Later(host, out.mem) /\ Later(out.files, out.mem)
       /\ (out.delta # None => Leads(out.delta, out.mem))
       /\ (out.ready.is = "snapshot" => out.ready.v = out.mem.v /\ out.ready.s = out.mem.s)
       /\ (out.files.receipts = disk.receipts \/ out.files.receipts = out.mem.receipts)
  BY <1>9 DEF LeavesSound, FilesSound
<1>12. /\ w \in SocketRow /\ w.feed = h.feed /\ w.ready = out.ready /\ w.delta = out.delta
       /\ w.subscribed = hears /\ w.gone = h.gone
  <2> DEFINE q == Tail(h.asks)
  <2>1. rest \in Seq(Asked)
    BY <1>4
  <2> HIDE DEF rest
  <2> QED
    BY <1>3, <1>10, <1>11, <2>1 DEF SocketRow
<1> HIDE DEF w
<1>13. out.ready.is = "snapshot" <=> out.ready \in SnapshotRow
  BY <1>11 DEF ReadyRow, SnapshotRow
<1>14. \A d \in Clients : sock'[d] = IF d = c THEN w ELSE sock[d]
  BY <1>2, <1>7 DEF PolicyTyped
<1>15. Listening(w, panel[c])
  <2>1. ASSUME w.subscribed, ~w.gone PROVE panel[c].view # None \/ w.ready \in SnapshotRow
    <3>1. CASE out.ready.is = "snapshot"
      BY <1>12, <1>13, <3>1
    <3>2. CASE out.ready.is # "snapshot"
      <4>1. h.subscribed /\ ~h.gone /\ h.ready \notin SnapshotRow
        BY <1>1, <1>10, <1>12, <2>1, <3>2, PolicyAssumption DEF SnapshotRow
      <4> QED
        BY <1>3, <4>1 DEF Listening
    <3> QED
      BY <3>1, <3>2
  <2> QED
    BY <2>1 DEF Listening
<1>16. PolicyTyped'
  <2>1. sock' \in [Clients -> SocketRow \cup {None}]
    BY <1>2, <1>7, <1>12 DEF PolicyTyped
  <2>2. \A d \in Clients : sock'[d] # None => Len(sock'[d].feed) <= Backlog
    BY <1>2, <1>3, <1>12, <1>14 DEF PolicyTyped
  <2>3. shown' \subseteq Nat \X Nat
    <3>1. out.mem.v \in Nat /\ out.mem.s \in Nat
      BY <1>11, PolicyAssumption DEF RuntimeRow, Contents
    <3> QED
      BY <1>2, <1>6, <3>1 DEF PolicyTyped
  <2> QED
    BY <1>1, <1>2, <1>6, <1>11, <2>1, <2>2, <2>3 DEF PolicyTyped
<1>17. Subscribed'
  BY <1>1, <1>2, <1>14, <1>15 DEF Subscribed
<1>18. ReceiptsHold'
  <2>1. ASSUME NEW d \in Clients \ doubtful'
        PROVE  /\ out.mem.done[d] <= 1 /\ out.files.done[d] <= 1
               /\ out.mem.done[d] = 1 \/ out.files.done[d] = 1 =>
                     d \in Keys(out.mem.receipts) /\ d \in Keys(out.files.receipts)
    <3>1. /\ d \notin doubtful
          /\ ~(HasReceipt(d) /\ \A r \in ToSet(out.mem.receipts) : r.key # d)
          /\ ~(ask.do = "evaluate" /\ ~HasReceipt(c) /\ n < CommitWrites /\ d = c)
      BY <1>6, <2>1 DEF Doubt
    <3>2. d \in Keys(host.receipts) => d \in Keys(out.mem.receipts)
      BY <3>1, ReceiptsAreKeyed DEF Keys
    <3>3. ask.do = "evaluate" /\ ~HasReceipt(c) /\ d = c => n >= CommitWrites
      BY <1>8, <3>1 DEF CommitWrites
    <3>4. /\ out.mem.done[d] <= 1 /\ out.files.done[d] <= 1
          /\ out.mem.done[d] = 1 \/ out.files.done[d] = 1 =>
                \/ d \in Keys(host.receipts) /\ d \in Keys(disk.receipts)
                \/ out.files.receipts = out.mem.receipts /\ d \in Keys(out.mem.receipts)
      BY <1>1, <1>9, <3>1, <3>3, TakesOnce
    <3> QED
      BY <1>11, <3>2, <3>4
  <2> QED
    BY <1>6, <2>1 DEF ReceiptsHold
<1>19. ASSUME ~torn' PROVE VersionsRise' /\ ClientsSound'
  <2>1. VersionsRise /\ ClientsSound /\ SocketSound(h, shown) /\ ShownBefore(host)
    BY <1>1, <1>2, <1>3, <1>19 DEF VersionsRise
  <2>2. /\ \A a \in shown' : a[1] <= out.mem.v /\ (a[1] = out.mem.v => a[2] = out.mem.s)
        /\ \A a, b \in shown' : a[1] = b[1] => a = b
        /\ \A delta \in DeltaRow : DeltaSound(delta, shown) => DeltaSound(delta, shown')
        /\ \A delta : Leads(delta, out.mem) => DeltaSound(delta, shown')
    <3>1. shown \subseteq Nat \X Nat /\ host \in RuntimeRow /\ \A a, b \in shown : a[1] = b[1] => a = b
      BY <1>2, <1>3, <2>1 DEF PolicyTyped, FilesTyped, VersionsRise
    <3>2. out.mem \in RuntimeRow /\ Later(host, out.mem) /\ Grown(shown', out.mem)
      BY <1>6, <1>11 DEF Grown
    <3> QED
      BY <2>1, <3>1, <3>2, ShownGrows
  <2>3. VersionsRise'
    <3>1. host' # None => ShownBefore(host)'
      BY <1>6, <2>2 DEF ShownBefore
    <3>2. host' = None => ShownBefore(disk)'
      <4>1. host' # None
        BY <1>6, <1>11, PolicyAssumption
      <4> QED
        BY <4>1
    <3> QED
      BY <2>2, <3>1, <3>2 DEF VersionsRise
  <2>4. \A delta \in DeltaRow : DeltaSound(delta, shown) => DeltaSound(delta, shown')
    BY <2>2
  <2>5. \A delta : Leads(delta, out.mem) => DeltaSound(delta, shown')
    BY <2>2
  <2>6. shown \subseteq shown' /\ <<out.mem.v, out.mem.s>> \in shown'
    BY <1>6
  <2>7. ASSUME NEW z \in SocketRow, SocketSound(z, shown) PROVE SocketSound(z, shown')
    <3>1. z.delta \in DeltaRow \cup {None} /\ \A i \in 1..Len(z.feed) : z.feed[i] \in DeltaRow
      BY <2>7 DEF SocketRow
    <3> QED
      BY <2>4, <2>6, <2>7, <3>1 DEF SocketSound
  <2>8. SocketSound(w, shown')
    <3>1. \A i \in 1..Len(w.feed) : DeltaSound(w.feed[i], shown')
      BY <1>3, <1>12, <2>1, <2>7 DEF SocketSound
    <3>2. w.delta # None => DeltaSound(w.delta, shown')
      BY <1>11, <1>12, <2>5
    <3>3. w.ready \in SnapshotRow => <<w.ready.v, w.ready.s>> \in shown'
      BY <1>11, <1>12, <1>13, <2>6
    <3> QED
      BY <3>1, <3>2, <3>3 DEF SocketSound
  <2>9. ClientsSound'
    <3>1. ASSUME NEW d \in Clients, sock'[d] # None PROVE SocketSound(sock'[d], shown')
      <4>1. CASE d = c
        BY <1>14, <2>8, <4>1
      <4>2. CASE d # c
        <5>1. sock'[d] = sock[d] /\ sock[d] \in SocketRow /\ SocketSound(sock[d], shown)
          BY <1>2, <1>14, <2>1, <3>1, <4>2 DEF PolicyTyped, ClientsSound
        <5> QED
          BY <2>7, <5>1
      <4> QED
        BY <4>1, <4>2
    <3>2. \A d \in Clients : panel'[d].view # None => <<panel'[d].view.v, panel'[d].view.s>> \in shown'
      BY <1>1, <2>1, <2>6 DEF ClientsSound
    <3> QED
      BY <3>1, <3>2 DEF ClientsSound
  <2> QED
    BY <2>3, <2>9
<1> QED
  BY <1>16, <1>17, <1>18, <1>19 DEF PolicyInv

\* The files are what they were, or past what any answer has carried.
LEMMA FilesLead ==
  ASSUME VersionsRise, host \in RuntimeRow, disk \in RuntimeRow, Later(disk, host), shown \subseteq Nat \X Nat,
         NEW k \in RuntimeRow, host.v <= k.v, host.v < k.v \/ (k.v = disk.v /\ k.s = disk.s)
  PROVE  ShownBefore(k)
<1>1. ShownBefore(host)
  BY PolicyAssumption DEF VersionsRise
<1>2. /\ host.v \in Nat /\ disk.v \in Nat /\ k.v \in Nat
      /\ disk.v <= host.v /\ (disk.v = host.v => disk.s = host.s)
  BY DEF RuntimeRow, Later
<1>3. ASSUME NEW a \in shown PROVE a[1] <= k.v /\ (a[1] = k.v => a[2] = k.s)
  <2>1. a[1] \in Nat /\ a[1] <= host.v /\ (a[1] = host.v => a[2] = host.s)
    BY <1>1, <1>3 DEF ShownBefore
  <2> QED
    BY <1>2, <2>1
<1> QED
  BY <1>3 DEF ShownBefore

\* The process dies, between two requests or after some of the writes of one.
LEMMA CrashKeeps == ASSUME PolicyInv, Crash PROVE PolicyInv'
<1>1. /\ host # None /\ host' = None /\ shown' = shown /\ (torn' <=> torn \/ host.v > disk'.v)
      /\ sock' = [c \in Clients |-> None] /\ panel' = [c \in Clients |-> Lost(panel[c])]
  BY DEF Crash
<1>2. /\ PolicyTyped /\ Subscribed /\ ReceiptsHold /\ (~torn => VersionsRise /\ ClientsSound)
  BY DEF PolicyInv
<1>3. FilesTyped /\ Later(disk, host) /\ panel \in [Clients -> PanelRow]
  BY <1>1, <1>2 DEF PolicyTyped, FilesTyped
<1>4. /\ disk' \in RuntimeRow /\ room' \in Contents /\ minted' \in Contents
      /\ host.v < disk'.v \/ (disk'.v = disk.v /\ disk'.s = disk.s)
      /\ \A d \in Clients \ doubtful' :
            disk'.done[d] <= 1 /\ (disk'.done[d] = 1 => d \in Keys(disk'.receipts))
  <2>1. CASE UNCHANGED <<room, disk, minted, doubtful>>
    <3>1. room' = room /\ disk' = disk /\ minted' = minted /\ doubtful' = doubtful
      BY <2>1
    <3>2. \A d \in Clients \ doubtful' :
             disk'.done[d] <= 1 /\ (disk'.done[d] = 1 => d \in Keys(disk'.receipts))
      BY <1>2, <3>1 DEF ReceiptsHold
    <3> QED
      BY <1>3, <3>1, <3>2 DEF FilesTyped
  <2>2. ASSUME NEW c \in Clients, Pending(c), NEW n \in 1..Writes(c, Head(sock[c].asks)),
               LET out == Process(c, Head(sock[c].asks), n)
               IN /\ out.minted <= MaxContents
                  /\ disk' = out.files /\ room' = out.room /\ minted' = out.minted
                  /\ doubtful' = Doubt(c, Head(sock[c].asks), n, out.files.receipts)
        PROVE  <1>4!1 /\ <1>4!2 /\ <1>4!3
    <3> DEFINE ask == Head(sock[c].asks)
               out == Process(c, ask, n)
    <3>1. ask \in Asked
      <4>1. sock[c] \in SocketRow /\ sock[c].asks # <<>>
        BY <1>2, <2>2 DEF PolicyTyped, Pending
      <4>2. sock[c].asks \in Seq(Asked) /\ sock[c].asks # <<>>
        BY <4>1 DEF SocketRow
      <4> QED
        BY <4>2
    <3>2. n \in Nat
      BY <2>2 DEF Writes, RefreshWrites, CommitWrites
    <3>3. /\ out.minted <= MaxContents /\ disk' = out.files /\ room' = out.room /\ minted' = out.minted
          /\ doubtful' = Doubt(c, ask, n, out.files.receipts)
      BY <2>2
    <3>4. LeavesSound(c, ask, n, out)
      BY <1>3, <3>1, <3>2, <3>3, ProcessLeaves
    <3> HIDE DEF out, ask
    <3>5. disk' \in RuntimeRow /\ room' \in Contents /\ minted' \in Contents
      BY <3>3, <3>4 DEF LeavesSound
    <3>6. host.v < disk'.v \/ (disk'.v = disk.v /\ disk'.s = disk.s)
      BY <3>3, <3>4 DEF LeavesSound, FilesSound
    <3>7. ASSUME NEW d \in Clients \ doubtful'
          PROVE  out.files.done[d] <= 1 /\ (out.files.done[d] = 1 => d \in Keys(out.files.receipts))
      <4>1. /\ d \notin doubtful
            /\ ~(HasReceipt(d) /\ \A r \in ToSet(out.files.receipts) : r.key # d)
            /\ ~(ask.do = "evaluate" /\ ~HasReceipt(c) /\ n < CommitWrites /\ d = c)
        BY <3>3, <3>7 DEF Doubt
      <4>2. d \in Keys(host.receipts) => d \in Keys(out.files.receipts)
        BY <4>1, ReceiptsAreKeyed DEF Keys
      <4>3. ask.do = "evaluate" /\ ~HasReceipt(c) /\ d = c => n >= CommitWrites
        BY <3>2, <4>1 DEF CommitWrites
      <4>4. /\ out.files.done[d] <= 1
            /\ out.mem.done[d] = 1 \/ out.files.done[d] = 1 =>
                  \/ d \in Keys(host.receipts) /\ d \in Keys(disk.receipts)
                  \/ out.files.receipts = out.mem.receipts /\ d \in Keys(out.mem.receipts)
        BY <1>1, <3>4, <4>1, <4>3, TakesOnce
      <4> QED
        BY <4>2, <4>4
    <3> QED
      BY <3>3, <3>5, <3>6, <3>7
  <2>3. \/ UNCHANGED <<room, disk, minted, doubtful>>
        \/ \E c \in Clients :
             /\ Pending(c)
             /\ \E n \in 1..Writes(c, Head(sock[c].asks)) :
                   LET out == Process(c, Head(sock[c].asks), n)
                   IN /\ out.minted <= MaxContents
                      /\ disk' = out.files /\ room' = out.room /\ minted' = out.minted
                      /\ doubtful' = Doubt(c, Head(sock[c].asks), n, out.files.receipts)
    BY DEF Crash
  <2> QED
    BY <2>1, <2>2, <2>3
<1>5. \A c \in Clients : sock'[c] = None /\ panel'[c] = Lost(panel[c])
  BY <1>1
<1>6. \A c \in Clients : Lost(panel[c]) \in PanelRow /\ Lost(panel[c]).view = None
  BY <1>3, LostRow
<1>7. PolicyTyped'
  <2>1. panel' \in [Clients -> PanelRow] /\ sock' \in [Clients -> SocketRow \cup {None}]
    BY <1>1, <1>6
  <2> QED
    BY <1>1, <1>2, <1>4, <1>5, <2>1 DEF PolicyTyped
<1>8. Subscribed'
  BY <1>5 DEF Subscribed
<1>9. ReceiptsHold'
  BY <1>1, <1>4 DEF ReceiptsHold
<1>10. ASSUME ~torn' PROVE VersionsRise' /\ ClientsSound'
  <2>1. VersionsRise /\ ClientsSound /\ ~(host.v > disk'.v) /\ shown \subseteq Nat \X Nat
    BY <1>1, <1>2, <1>10 DEF PolicyTyped
  <2>2. host \in RuntimeRow /\ disk \in RuntimeRow /\ host.v <= disk'.v
    <3>1. host \in RuntimeRow /\ disk \in RuntimeRow /\ host.v \in Nat /\ disk'.v \in Nat
      BY <1>3, <1>4 DEF FilesTyped, RuntimeRow
    <3> QED
      BY <2>1, <3>1
  <2>3. ShownBefore(disk')
    BY <1>3, <1>4, <2>1, <2>2, FilesLead
  <2>4. VersionsRise'
    BY <1>1, <2>1, <2>3 DEF VersionsRise, ShownBefore
  <2>5. ClientsSound'
    BY <1>5, <1>6 DEF ClientsSound
  <2> QED
    BY <2>4, <2>5
<1> QED
  BY <1>7, <1>8, <1>9, <1>10 DEF PolicyInv

\* A new process takes its state from the files and the policy from the room's.
LEMMA RestartKeeps == ASSUME PolicyInv, Restart PROVE PolicyInv'
<1>1. /\ host = None /\ host' = disk' /\ room' = room /\ sock' = sock /\ panel' = panel
      /\ minted' = minted /\ shown' = shown /\ torn' = torn /\ doubtful' = doubtful
      /\ disk' = IF disk.s = room THEN disk ELSE [disk EXCEPT !.v = @ + 1, !.s = room]
  BY DEF Restart
<1>2. /\ PolicyTyped /\ Subscribed /\ ReceiptsHold /\ (~torn => VersionsRise /\ ClientsSound)
  BY DEF PolicyInv
<1>3. /\ disk' \in RuntimeRow /\ disk'.done = disk.done /\ disk'.receipts = disk.receipts
      /\ disk.v \in Nat /\ disk'.v \in Nat
      /\ disk.v < disk'.v \/ (disk'.v = disk.v /\ disk'.s = disk.s)
  <2>1. disk \in RuntimeRow /\ room \in Contents
    BY <1>2 DEF PolicyTyped
  <2>2. CASE disk.s = room
    BY <1>1, <2>1, <2>2 DEF RuntimeRow
  <2>3. CASE disk.s # room
    <3>1. disk.v \in Nat /\ disk' = [disk EXCEPT !.v = @ + 1, !.s = room]
      BY <1>1, <2>1, <2>3 DEF RuntimeRow
    <3> DEFINE next == disk.v + 1
    <3>2. next \in Nat /\ disk.v < next /\ disk' = [disk EXCEPT !.v = next, !.s = room]
      BY <3>1
    <3> HIDE DEF next
    <3>3. disk' \in RuntimeRow /\ disk'.done = disk.done /\ disk'.receipts = disk.receipts /\ disk'.v = next
      BY <2>1, <3>2 DEF RuntimeRow
    <3> QED
      BY <3>1, <3>2, <3>3
  <2> QED
    BY <2>2, <2>3
<1>4. Later(disk', host')
  BY <1>1, <1>3 DEF Later
<1>5. PolicyTyped'
  BY <1>1, <1>2, <1>3, <1>4 DEF PolicyTyped
<1>6. Subscribed'
  BY <1>1, <1>2 DEF Subscribed
<1>7. ReceiptsHold'
  BY <1>1, <1>2, <1>3 DEF ReceiptsHold
<1>8. ASSUME ~torn' PROVE VersionsRise' /\ ClientsSound'
  <2>1. VersionsRise /\ ClientsSound /\ ShownBefore(disk) /\ shown \subseteq Nat \X Nat
    BY <1>1, <1>2, <1>8 DEF VersionsRise, PolicyTyped
  <2>2. \A a \in shown : a[1] <= disk'.v /\ (a[1] = disk'.v => a[2] = disk'.s)
    BY <1>3, <2>1 DEF ShownBefore
  <2>3. VersionsRise'
    BY <1>1, <2>1, <2>2 DEF VersionsRise, ShownBefore
  <2>4. ClientsSound'
    BY <1>1, <2>1 DEF ClientsSound
  <2> QED
    BY <2>3, <2>4
<1> QED
  BY <1>5, <1>6, <1>7, <1>8 DEF PolicyInv

\* Another hand writes the room's file, and nothing else moves.
LEMMA EditRoomKeeps == ASSUME PolicyInv, EditRoom PROVE PolicyInv'
<1>1. /\ room' = Fresh /\ minted' = Fresh /\ Fresh <= MaxContents
      /\ disk' = disk /\ host' = host /\ sock' = sock /\ panel' = panel /\ shown' = shown
      /\ torn' = torn /\ doubtful' = doubtful
  BY DEF EditRoom
<1>2. /\ PolicyTyped /\ Subscribed /\ ReceiptsHold /\ (~torn => VersionsRise /\ ClientsSound)
  BY DEF PolicyInv
<1>3. Fresh \in Contents
  <2>1. minted \in Contents
    BY <1>2 DEF PolicyTyped
  <2> QED
    BY <1>1, <2>1, PolicyAssumption DEF Fresh, Contents
<1>4. PolicyTyped'
  BY <1>1, <1>2, <1>3 DEF PolicyTyped
<1>5. Subscribed' /\ ReceiptsHold'
  BY <1>1, <1>2 DEF Subscribed, ReceiptsHold
<1>6. ~torn' => VersionsRise' /\ ClientsSound'
  BY <1>1, <1>2 DEF VersionsRise, ClientsSound, ShownBefore
<1> QED
  BY <1>4, <1>5, <1>6 DEF PolicyInv

\* A Host that opens on a room's first policy satisfies the invariant.
LEMMA PolicyStarts == HostPolicyInit => PolicyInv
<1> SUFFICES ASSUME HostPolicyInit PROVE PolicyInv
  OBVIOUS
<1>1. /\ room = 1 /\ minted = 1 /\ disk = [v |-> 1, s |-> 1, receipts |-> <<>>, done |-> Untouched]
      /\ host = disk /\ sock = [c \in Clients |-> None] /\ shown = {}
      /\ panel = [c \in Clients |-> [view |-> None, phase |-> "idle", try |-> 0]]
  BY DEF HostPolicyInit
<1>2. 1 \in Contents
  BY PolicyAssumption DEF Contents
<1>3. disk \in RuntimeRow
  <2>1. Untouched \in [Clients -> Nat] /\ <<>> \in Seq(ReceiptRow)
    BY DEF Untouched
  <2> QED
    BY <1>1, <1>2, <2>1 DEF RuntimeRow
<1>4. panel \in [Clients -> PanelRow] /\ \A c \in Clients : sock[c] = None /\ panel[c].view = None
  BY <1>1 DEF PanelRow
<1>5. PolicyTyped
  BY <1>1, <1>2, <1>3, <1>4 DEF PolicyTyped, Later
<1>6. \A d \in Clients : disk.done[d] = 0 /\ host.done[d] = 0
  BY <1>1 DEF Untouched
<1>7. Subscribed /\ ReceiptsHold
  BY <1>4, <1>6 DEF Subscribed, ReceiptsHold
<1>8. VersionsRise /\ ClientsSound
  BY <1>1, <1>4 DEF VersionsRise, ShownBefore, ClientsSound
<1> QED
  BY <1>5, <1>7, <1>8 DEF PolicyInv

\* Every step of the Host and of its clients keeps the invariant.
LEMMA PolicySteps == PolicyInv /\ [HostPolicyNext]_hostVars => PolicyInv'
<1> SUFFICES ASSUME PolicyInv, [HostPolicyNext]_hostVars PROVE PolicyInv'
  OBVIOUS
<1>1. CASE Crash
  BY <1>1, CrashKeeps
<1>2. CASE Restart
  BY <1>2, RestartKeeps
<1>3. CASE EditRoom
  BY <1>3, EditRoomKeeps
<1>4. ASSUME NEW c \in Clients, Handle(c) PROVE PolicyInv'
  BY <1>4, HandleKeeps
<1>5. ASSUME NEW c \in Clients, Respond(c) PROVE PolicyInv'
  BY <1>5, RespondKeeps
<1>6. ASSUME NEW c \in Clients, FailToRespond(c) PROVE PolicyInv'
  BY <1>6, FailToRespondKeeps
<1>7. ASSUME NEW c \in Clients, Forward(c) PROVE PolicyInv'
  BY <1>7, ForwardKeeps
<1>8. ASSUME NEW c \in Clients, EndTask(c) PROVE PolicyInv'
  BY <1>8, EndTaskKeeps
<1>9. ASSUME NEW c \in Clients, Connect(c) \/ Ask(c) PROVE PolicyInv'
  BY <1>9, ConnectKeeps
<1>10. ASSUME NEW c \in Clients, Apply(c) PROVE PolicyInv'
  BY <1>10, ApplyKeeps
<1>11. ASSUME NEW c \in Clients, HangUp(c) PROVE PolicyInv'
  BY <1>11, HangUpKeeps
<1>12. ASSUME NEW c \in Clients, Overdue(c) PROVE PolicyInv'
  BY <1>12, OverdueKeeps
<1>13. CASE UNCHANGED hostVars
  <2>1. /\ room' = room /\ disk' = disk /\ host' = host /\ sock' = sock /\ panel' = panel
        /\ minted' = minted /\ shown' = shown /\ torn' = torn /\ doubtful' = doubtful
    BY <1>13 DEF hostVars
  <2> QED
    BY <2>1 DEF PolicyInv, PolicyTyped, Subscribed, ReceiptsHold, VersionsRise, ClientsSound, ShownBefore
<1> QED
  BY <1>1, <1>2, <1>3, <1>4, <1>5, <1>6, <1>7, <1>8, <1>9, <1>10, <1>11, <1>12, <1>13 DEF HostPolicyNext

\* The Host's files, its state, the sockets and the panels keep their types, and no
\* feed is longer than the broadcast channel's backlog.
THEOREM PolicyTypes == HostPolicySpec => []HostPolicyTypeOK
<1>1. PolicyInv => HostPolicyTypeOK
  <2> SUFFICES ASSUME PolicyInv PROVE HostPolicyTypeOK
    OBVIOUS
  <2>1. PolicyTyped
    BY DEF PolicyInv
  <2>2. disk.v \in Nat /\ disk.s \in Contents
    BY <2>1 DEF PolicyTyped, RuntimeRow
  <2>3. host # None => host.s \in Contents /\ DOMAIN host.done = Clients
    BY <2>1 DEF PolicyTyped, RuntimeRow
  <2> QED
    BY <2>1, <2>2, <2>3 DEF HostPolicyTypeOK, PolicyTyped
<1> QED
  BY <1>1, PolicyStarts, PolicySteps, PTL DEF HostPolicySpec

\* However commands, edits, deltas, resyncs and crashes interleave, a version number
\* names one content and a panel shows the content of the version it says it is at,
\* unless a version was shown, could not be saved, and died with the process.
THEOREM AVersionIsOneContent == HostPolicySpec => []VersionNamesContent
<1>1. PolicyInv => VersionNamesContent
  <2> SUFFICES ASSUME PolicyInv, ~torn PROVE VersionNamesContent!2
    BY DEF VersionNamesContent
  <2>1. VersionsRise /\ ClientsSound
    BY DEF PolicyInv
  <2> QED
    BY <2>1 DEF VersionsRise, ClientsSound, Clients
<1> QED
  BY <1>1, PolicyStarts, PolicySteps, PTL DEF HostPolicySpec

\* A command sent again under its key takes effect once, unless it stopped between its
\* effect and its receipt or RECEIPT_LIMIT later ones pushed its receipt out.
THEOREM ACommandAppliesOnce == HostPolicySpec => []AppliedOnce
<1>1. PolicyInv => AppliedOnce
  <2> SUFFICES ASSUME PolicyInv, host # None, NEW c \in Clients, host.done[c] > 1, c \notin doubtful
               PROVE  FALSE
    BY DEF AppliedOnce
  <2>1. host.done[c] \in Nat
    BY DEF PolicyInv, PolicyTyped, RuntimeRow
  <2>2. host.done[c] <= 1
    BY DEF PolicyInv, ReceiptsHold
  <2> QED
    BY <2>1, <2>2
<1> QED
  BY <1>1, PolicyStarts, PolicySteps, PTL DEF HostPolicySpec
=============================================================================
