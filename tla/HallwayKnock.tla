---------------------------- MODULE HallwayKnock ----------------------------
(***************************************************************************)
(* Knocks of one hallway (crates/origami/src/hallways/knocks.rs): the       *)
(* standing policy of each room, and the rows of hallway_knocks from the    *)
(* request of a bounded turn to its settlement.                             *)
(*                                                                          *)
(* Every operation is one PostgreSQL transaction that locks the rows it     *)
(* decides on (the message and the Knock FOR UPDATE, the recipient's policy *)
(* and the parent FOR SHARE), so each is one step.  A request that repeats  *)
(* an idempotency key is replayed or refused and changes nothing, as does   *)
(* every other refusal: the transaction rolls back.                         *)
(*                                                                          *)
(* A caller is a room, a spirit and a session together.  now counts units   *)
(* of time; NOW() and the House's clock are one clock.                      *)
(***************************************************************************)
EXTENDS Integers, FiniteSets

CONSTANTS Room,
          Allowed,        \* hallway_allowed_rooms
          Caller,
          RoomOf,         \* the room a caller speaks for
          SessionOf,
          Message,        \* addressed messages, none of which ever changes
          Author,         \* the caller a message was posted by
          Addressed,      \* the rooms a message names
          Continues,      \* the message each replies to in its thread, or None
          Knock,          \* ids, in the order of creation
          Offered,        \* the policies rooms ask for
          Named,          \* the budgets callers name
          MaxTurns,       \* HALLWAY_MAX_KNOCK_TURNS
          DefaultTurns,   \* HALLWAY_DEFAULT_KNOCK_TURNS
          OmittedTurns,   \* the budget a root that names none is admitted with
          TurnWindow,     \* KNOCK_TURN_WINDOW
          MinLifetime,    \* KNOCK_MIN_LIFETIME
          Lease,          \* KNOCK_CLAIM_LEASE_SECONDS
          MaxTime,        \* bound on the clock
          None

ASSUME ConstantsAssumption ==
  /\ Allowed \subseteq Room /\ None \notin Room
  /\ RoomOf \in [Caller -> Room] /\ None \notin Caller
  /\ Author \in [Message -> Caller]
  /\ Addressed \in [Message -> SUBSET Room]
  /\ Continues \in [Message -> Message \cup {None}] /\ None \notin Message
  /\ Knock \subseteq Nat /\ None \notin Knock
  /\ MaxTurns \in Nat \ {0}
  /\ DefaultTurns \in 1..MaxTurns /\ OmittedTurns \in 1..MaxTurns
  /\ TurnWindow \in Nat \ {0} /\ MinLifetime \in Nat \ {0} /\ Lease \in Nat \ {0}
  /\ MaxTime \in Nat
  /\ Offered \subseteq [mode : {"manual", "allow_list"}, rooms : SUBSET Allowed, max : 1..MaxTurns]
  /\ Named \subseteq 1..MaxTurns /\ None \notin Named

VARIABLES
  now,
  policy,        \* the current row of hallway_knock_policies of each room
  policySince,   \* its created_at
  presence,      \* hallway_presences
  notified,      \* notification_revision, as far as Knocks raise it
  row,           \* what a row of hallway_knocks keeps for its life
  status,        \* hallway_knocks.status, "absent" before the insert
  holder,        \* claimed_by_room, claimed_by_spirit and claimed_by_session
  leaseEnds      \* lease_expires_at

knocks == <<row, status, holder, leaseEnds>>
vars   == <<now, policy, policySince, presence, notified, row, status, holder, leaseEnds>>

Turns    == 1..MaxTurns
Modes    == {"manual", "allow_list"}
Policies == [mode : Modes, rooms : SUBSET Allowed, max : Turns]
Statuses == {"absent", "pending", "claimed", "started", "completed", "failed"}
Running  == {"claimed", "started"}
Rows     == [from : Room, message : Message, recipient : Room,
             parent : Knock \cup {None}, root : Knock, turn : Turns, max : Turns,
             expires : Nat]

ASSUME NoneAssumption == None \notin Policies /\ None \notin Rows

\* Rows and statuses are of the tables' types; a Knock has a row once it was asked
\* and a holder once it was leased, which the sweep of claim never takes away.
TypeOK ==
  /\ now \in Nat
  /\ policy \in [Room -> Policies \cup {None}]
  /\ policySince \in [Room -> Nat]
  /\ presence \subseteq Caller
  /\ notified \in [Room -> Nat]
  /\ row \in [Knock -> Rows \cup {None}]
  /\ status \in [Knock -> Statuses]
  /\ \A k \in Knock : status[k] = "absent" <=> row[k] = None
  /\ holder \in [Knock -> Caller \cup {None}]
  /\ \A k \in Knock : status[k] \in {"absent", "pending"} <=> holder[k] = None
  /\ leaseEnds \in [Knock -> Nat]

Init ==
  /\ now = 0
  /\ policy = [r \in Room |-> None]
  /\ policySince = [r \in Room |-> 0]
  /\ presence = {}
  /\ notified = [r \in Room |-> 0]
  /\ row = [k \in Knock |-> None]
  /\ status = [k \in Knock |-> "absent"]
  /\ holder = [k \in Knock |-> None]
  /\ leaseEnds = [k \in Knock |-> 0]

\* ensure_presence: a known presence, or a new one in an allowed room.
MayEnter(c) == c \in presence \/ RoomOf[c] \in Allowed
Enter(c)    == presence' = presence \cup {c}
-----------------------------------------------------------------------------
(* policy *)

\* A session that sits in another room cannot speak for this one.
Sibling(c) ==
  \E d \in presence : SessionOf[d] = SessionOf[c] /\ RoomOf[d] # RoomOf[c]

\* A new policy supersedes the room's current one.
SetPolicy(c, p) ==
  LET r == RoomOf[c] IN
  /\ ~Sibling(c)
  /\ MayEnter(c)
  /\ p.mode = "manual" => p.rooms = {}
  /\ policy' = [policy EXCEPT ![r] = p]
  /\ policySince' = [policySince EXCEPT ![r] = now]
  /\ Enter(c)
  /\ UNCHANGED <<now, notified, knocks>>

-----------------------------------------------------------------------------
(* knock *)

\* The current policy of the recipient lists the asking room.
Permits(recipient, from) ==
  /\ policy[recipient] # None
  /\ policy[recipient].mode = "allow_list"
  /\ from \in policy[recipient].rooms

\* admit: the caller wrote the message to this recipient, whose policy allows
\* the caller's room and this many turns.
Admitted(c, m, recipient, turns) ==
  /\ Author[m] = c
  /\ recipient \in Addressed[m]
  /\ recipient \in Allowed
  /\ Permits(recipient, RoomOf[c])
  /\ turns <= policy[recipient].max

Lifetime(turns) ==
  IF TurnWindow * turns > MinLifetime THEN TurnWindow * turns ELSE MinLifetime

Expires(k) == row[k].expires

\* UNIQUE (message_id, recipient_room)
Asked(m, recipient) ==
  \E k \in Knock : row[k] # None /\ row[k].message = m /\ row[k].recipient = recipient

Insert(k, r) ==
  /\ row[k] = None
  /\ \A j \in Knock : j < k => row[j] # None
  /\ ~Asked(r.message, r.recipient)
  /\ row' = [row EXCEPT ![k] = r]
  /\ status' = [status EXCEPT ![k] = "pending"]
  /\ notified' = [notified EXCEPT ![r.recipient] = @ + 1]
  /\ UNCHANGED <<now, policy, policySince, holder, leaseEnds>>

\* A root that names no budget is admitted with OmittedTurns and stored with
\* DefaultTurns.
KnockRoot(c, k, m, recipient, named) ==
  LET turns == IF named = None THEN DefaultTurns ELSE named IN
  /\ recipient # RoomOf[c]
  /\ Admitted(c, m, recipient, IF named = None THEN OmittedTurns ELSE named)
  /\ MayEnter(c) /\ Enter(c)
  /\ now + Lifetime(turns) <= MaxTime
  /\ Insert(k, [from |-> RoomOf[c], message |-> m, recipient |-> recipient,
                parent |-> None, root |-> k, turn |-> 1, max |-> turns,
                expires |-> now + Lifetime(turns)])

\* Mutant: a claimed parent may be answered as well.
Answerable_Claimed(parent) == status[parent] \in {"claimed", "started", "completed"}

\* Only a turn that started can be answered by the next.
Answerable(parent) == status[parent] \in {"started", "completed"}

NextTurn(parent) == row[parent].turn + 1

TurnsLeft(parent) == NextTurn(parent) <= row[parent].max

\* chain_position of a child, whose budget if named is its parent's.
KnockChild(c, k, m, recipient, parent) ==
  LET p == row[parent] IN
  /\ p # None
  /\ Admitted(c, m, recipient, p.max)
  /\ MayEnter(c) /\ Enter(c)
  /\ Answerable(parent)
  /\ TurnsLeft(parent)
  /\ RoomOf[c] = p.recipient /\ recipient = p.from
  /\ Continues[m] = p.message
  /\ Expires(parent) > now
  /\ Insert(k, [from |-> RoomOf[c], message |-> m, recipient |-> recipient,
                parent |-> parent, root |-> p.root, turn |-> NextTurn(parent),
                max |-> p.max, expires |-> Expires(parent)])

-----------------------------------------------------------------------------
(* claim *)

\* Mutant: only claimed rows are swept.
Sweepable_Claimed(k) == status[k] = "claimed"

\* What the sweep of a claim fails, once its exchange has expired.
Sweepable(k) == status[k] \in Running

\* Mutant: a started turn whose lease has passed is leased again.
Available_Started(k) ==
  \/ status[k] = "pending"
  \/ status[k] \in Running /\ leaseEnds[k] <= now

Available(k) ==
  \/ status[k] = "pending"
  \/ status[k] = "claimed" /\ leaseEnds[k] <= now

\* Mutant: a Knock admitted once may be claimed under any later policy.
Permitted_OnceAdmitted(k) == TRUE

\* The recipient's policy is read again at the claim.
Permitted(k) == Permits(row[k].recipient, row[k].from)

\* Mutant: a Knock is claimed however old it is.
InTime_Always(k) == TRUE

InTime(k) == Expires(k) > now

Swept(r) ==
  {k \in Knock : row[k] # None /\ row[k].recipient = r /\ Sweepable(k) /\ Expires(k) <= now}

\* The oldest candidate that no other transaction has locked is taken: any may be
\* the one, and there may be none.
Candidates(r) ==
  {k \in Knock : row[k] # None /\ row[k].recipient = r /\ Permitted(k) /\ InTime(k) /\ Available(k)}

Claim(c) ==
  LET r     == RoomOf[c]
      after == [k \in Knock |-> IF k \in Swept(r) THEN "failed" ELSE status[k]]
  IN
  /\ \/ /\ status' = after
        /\ UNCHANGED <<presence, holder, leaseEnds>>
     \/ \E k \in Candidates(r) \ Swept(r) :
          /\ MayEnter(c) /\ Enter(c)
          /\ status' = [after EXCEPT ![k] = "claimed"]
          /\ holder' = [holder EXCEPT ![k] = c]
          /\ leaseEnds' = [leaseEnds EXCEPT ![k] = now + Lease]
  /\ UNCHANGED <<now, policy, policySince, notified, row>>

-----------------------------------------------------------------------------
(* settle *)

LeaseActive(k) == status[k] = "claimed" /\ leaseEnds[k] > now

Holds(c, k) == holder[k] = c

Settle(k, outcome) ==
  /\ status' = [status EXCEPT ![k] = outcome]
  /\ UNCHANGED <<now, policy, policySince, presence, notified, row, holder, leaseEnds>>

Started(c, k) ==
  /\ Holds(c, k)
  /\ LeaseActive(k)
  /\ Settle(k, "started")

\* Neither the lease nor the exchange's clock is looked at.
Completed(c, k) ==
  /\ Holds(c, k)
  /\ status[k] = "started"
  /\ Settle(k, "completed")

Failed(c, k) ==
  /\ Holds(c, k)
  /\ status[k] = "started" \/ LeaseActive(k)
  /\ Settle(k, "failed")

Tick ==
  /\ now < MaxTime
  /\ now' = now + 1
  /\ UNCHANGED <<policy, policySince, presence, notified, knocks>>

-----------------------------------------------------------------------------
Next ==
  \/ \E c \in Caller, p \in Offered : SetPolicy(c, p)
  \/ \E c \in Caller, k \in Knock, m \in Message, r \in Room :
       \/ \E named \in Named \cup {None} : KnockRoot(c, k, m, r, named)
       \/ \E parent \in Knock : KnockChild(c, k, m, r, parent)
  \/ \E c \in Caller : Claim(c)
  \/ \E c \in Caller, k \in Knock : Started(c, k) \/ Completed(c, k) \/ Failed(c, k)
  \/ Tick

Spec == Init /\ [][Next]_vars

\* Time passes and some session of each room keeps polling for Knocks.
Fairness ==
  /\ WF_vars(Tick)
  /\ \A r \in Room : WF_vars(\E c \in Caller : RoomOf[c] = r /\ Claim(c))

FairSpec == Spec /\ Fairness
-----------------------------------------------------------------------------
(* Properties *)

\* An exchange is one chain: each turn follows a turn that started, of the
\* same budget and on the same clock, back to the room that asked.
ChainIsSound ==
  \A k \in Knock : row[k] # None =>
    /\ row[k].turn <= row[k].max
    /\ IF row[k].parent = None
         THEN row[k].root = k /\ row[k].turn = 1
         ELSE LET p == row[row[k].parent] IN
              /\ p # None
              /\ status[row[k].parent] \in {"started", "completed", "failed"}
              /\ row[k].turn = p.turn + 1
              /\ <<row[k].root, row[k].max, row[k].expires>> = <<p.root, p.max, p.expires>>
              /\ <<row[k].from, row[k].recipient>> = <<p.recipient, p.from>>

\* A revoked permission stops the wakes: a turn starts only while the recipient's
\* policy permits it, or less than one lease after the policy that replaced it.
RevocationStopsWakes ==
  [][\A k \in Knock : status[k] # "started" /\ status'[k] = "started" =>
       \/ Permits(row[k].recipient, row[k].from)
       \/ now < policySince[row[k].recipient] + Lease]_vars

\* A turn overruns its exchange by less than one lease when it starts.
StartsInTime ==
  [][\A k \in Knock : status[k] # "started" /\ status'[k] = "started" =>
       now < Expires(k) + Lease]_vars

\* 0031_hallway_knock_turns.sql:5: the recipient's policy still caps the budget.
PolicyCapsBudget ==
  [][\A k \in Knock : row[k] = None /\ row'[k] # None =>
       row'[k].max <= policy[row'[k].recipient].max]_vars

\* Every leased or started turn is settled in the end, by its session or, when
\* that session is gone, by the sweep of a later claim.
TurnsEnd ==
  \A k \in Knock : status[k] \in Running ~> status[k] \in {"completed", "failed"}

\* The rows implement the turn ledger: one holder at a time, starts under a live
\* lease only, and nothing moves a turn once it is completed or failed.
Turn == INSTANCE KnockTurn WITH
  Holder  <- Caller,
  lapsed  <- {k \in Knock : leaseEnds[k] <= now},
  expired <- {k \in Knock : row[k] # None /\ Expires(k) <= now}

KeepsTurns == Turn!Spec
=============================================================================
