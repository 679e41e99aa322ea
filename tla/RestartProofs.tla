---------------------------- MODULE RestartProofs ----------------------------
(* Theorems about the restart plane and the restart loop, for every set of  *)
(* keys and sessions and every limit.                                       *)
EXTENDS RestartLoop, FiniteSetTheorems, TLAPS

-----------------------------------------------------------------------------
(* The plane: what its doors preserve.                                      *)

\* What a row's stage says of its lease and of its launches.
Coherent(row) ==
    /\ row.state \in {"absent", "requested", "exiting"} => row.epoch = 0
    /\ row.state \in {"claimed", "relaunching", "verified"} => row.epoch = 1
    /\ row.state = "expired" => row.epoch = 0
    /\ row.epoch = 0 => row.attempts = 0
    /\ row.state = "claimed" => row.attempts = 0
    /\ row.state \in {"relaunching", "verified"} => row.attempts > 0

RowsCohere == \A k \in Keys : Coherent(intent[k])

PlaneInv == PlaneTypeOK /\ RowsCohere /\ OneLive /\ StormBound

\* The row a key has before anyone asks under it.
LEMMA NoRowIsARow == NoRow \in Rows /\ Coherent(NoRow) /\ NoRow.state = "absent"
<1>1. (CHOOSE s \in Sessions : TRUE) \in Sessions
  BY SomeSession
<1> QED
  BY <1>1, LimitsAssumption DEF NoRow, Rows, Coherent, States, Modes

\* The plane starts without a row, so every part of its invariant holds.
LEMMA PlaneStarts == PlaneInit => PlaneInv
<1> SUFFICES ASSUME PlaneInit PROVE PlaneInv
  OBVIOUS
<1>1. PlaneTypeOK
  BY NoRowIsARow DEF PlaneInit, PlaneTypeOK
<1>2. RowsCohere /\ OneLive
  BY NoRowIsARow DEF PlaneInit, RowsCohere, OneLive, Live
<1>3. StormBound
  BY FS_EmptySet, LimitsAssumption DEF PlaneInit, StormBound
<1> QED
  BY <1>1, <1>2, <1>3 DEF PlaneInv

\* A step that gives one key another row, no more alive than the one it had.
LEMMA OneRowChanges ==
  ASSUME PlaneInv, NEW k \in Keys, NEW row \in Rows, Coherent(row),
         row.state \in Live => intent[k].state \in Live,
         intent' = [intent EXCEPT ![k] = row]
  PROVE  /\ intent' \in [Keys -> Rows]
         /\ RowsCohere'
         /\ OneLive'
<1>1. intent' \in [Keys -> Rows]
  BY DEF PlaneInv, PlaneTypeOK
<1>2. \A j \in Keys : intent'[j] = IF j = k THEN row ELSE intent[j]
  BY DEF PlaneInv, PlaneTypeOK
<1>3. RowsCohere'
  BY <1>2 DEF PlaneInv, RowsCohere
<1>4. OneLive'
  BY <1>2 DEF PlaneInv, OneLive
<1> QED
  BY <1>1, <1>3, <1>4

\* The exit door counts before it lets another through.
LEMMA CountsTheStorm ==
  ASSUME PlaneInv, NEW k \in Keys, ~Stormy, recent' = recent \cup {k}
  PROVE  StormBound'
<1>1. IsFiniteSet(recent)
  BY KeysAreFinite, FS_Subset DEF PlaneInv, PlaneTypeOK
<1>2. Cardinality(recent) \in Nat
  BY <1>1, FS_CardinalityType
<1>3. Cardinality(recent') <= Cardinality(recent) + 1
  <2>1. Cardinality(recent \cup {k}) = IF k \in recent THEN Cardinality(recent)
                                                       ELSE Cardinality(recent) + 1
    BY <1>1, FS_AddElement
  <2> QED
    BY <1>2, <2>1
<1>4. IsFiniteSet(recent')
  BY <1>1, FS_AddElement
<1>5. Cardinality(recent') \in Nat
  BY <1>4, FS_CardinalityType
<1>6. Cardinality(recent) < StormMax
  BY <1>2, LimitsAssumption DEF Stormy
<1>7. Cardinality(recent') <= StormMax
  BY <1>2, <1>3, <1>5, <1>6, LimitsAssumption
<1> QED
  BY <1>7 DEF StormBound

\* Nothing is left alive beside the row that restart_request inserts.
LEMMA RequestKeeps ==
  ASSUME PlaneInv, NEW k \in Keys, NEW mode \in Modes, NEW s \in Sessions,
         Request(k, mode, s)
  PROVE  PlaneInv'
<1> DEFINE new == [intent[k] EXCEPT !.state = "requested", !.mode = mode, !.session = s]
<1>1. \A j \in Keys : intent[j] \in Rows /\ Coherent(intent[j])
  BY DEF PlaneInv, PlaneTypeOK, RowsCohere
<1>2. \A j \in Keys : intent'[j] = IF j = k THEN new ELSE Swept(j)
  BY DEF Request
<1>3. new \in Rows /\ Coherent(new)
  BY <1>1 DEF Request, Is, Rows, Coherent, States, Live
<1>4. \A j \in Keys : Swept(j) \in Rows /\ Coherent(Swept(j))
  BY <1>1 DEF Swept, Lapsed, Stranded, Is, Rows, Coherent, States, Live, Terminal
<1> HIDE DEF new
<1>5. PlaneTypeOK'
  <2>1. intent' \in [Keys -> Rows]
    BY <1>3, <1>4 DEF Request, new
  <2>2. late' \subseteq Keys /\ recent' \subseteq Keys
    BY DEF Request, PlaneInv, PlaneTypeOK
  <2> QED
    BY <2>1, <2>2 DEF PlaneTypeOK
<1>6. RowsCohere'
  BY <1>2, <1>3, <1>4 DEF RowsCohere
<1>7. OneLive'
  BY <1>2 DEF Request, OneLive
<1>8. StormBound'
  BY DEF Request, PlaneInv, StormBound
<1> QED
  BY <1>5, <1>6, <1>7, <1>8 DEF PlaneInv

\* A door that moves one row and lets nobody into the storm window.
LEMMA DoorKeeps ==
  ASSUME PlaneInv, NEW k \in Keys, NEW row \in Rows, Coherent(row),
         row.state \in Live => intent[k].state \in Live,
         intent' = [intent EXCEPT ![k] = row],
         late' \subseteq Keys, UNCHANGED recent
  PROVE  PlaneInv'
<1>1. PlaneTypeOK'
  BY OneRowChanges DEF PlaneInv, PlaneTypeOK
<1>2. RowsCohere' /\ OneLive'
  BY OneRowChanges
<1>3. StormBound'
  BY DEF PlaneInv, StormBound
<1> QED
  BY <1>1, <1>2, <1>3 DEF PlaneInv

\* What each door but restart_request writes into the row of its key.
Writes(k, row) ==
    /\ row \in Rows /\ Coherent(row)
    /\ intent[k].state \in Live
    /\ intent' = [intent EXCEPT ![k] = row]
    /\ late' \in {late, late \ {k}}

\* A door that touches a lapsed request writes one row, which is expired and
\* was never claimed.
LEMMA ExpireWrites ==
  ASSUME PlaneInv, NEW k \in Keys, ExpireOnTouch(k)
  PROVE  /\ Writes(k, [intent[k] EXCEPT !.state = "expired"])
         /\ UNCHANGED recent
<1>1. intent[k] \in Rows /\ Coherent(intent[k])
  BY DEF PlaneInv, PlaneTypeOK, RowsCohere
<1>2. [intent EXCEPT ![k].state = "expired"]
         = [intent EXCEPT ![k] = [intent[k] EXCEPT !.state = "expired"]]
  OBVIOUS
<1> QED
  BY <1>1, <1>2
  DEF ExpireOnTouch, Lapsed, Is, Writes, Rows, Coherent, States, Live, Terminal

\* A claim writes one row: claimed, under the one lease the intent ever has.
LEMMA ClaimWrites ==
  ASSUME PlaneInv, NEW k \in Keys, Claim(k)
  PROVE  /\ intent[k].epoch = 0
         /\ Writes(k, [intent[k] EXCEPT !.state = "claimed", !.epoch = 1])
         /\ UNCHANGED recent
<1>1. intent[k] \in Rows /\ Coherent(intent[k])
  BY DEF PlaneInv, PlaneTypeOK, RowsCohere
<1>2. intent[k].epoch = 0
  BY <1>1 DEF Claim, Coherent
<1>3. intent' = [intent EXCEPT ![k] = [intent[k] EXCEPT !.state = "claimed", !.epoch = 1]]
  BY <1>1, <1>2 DEF Claim, PlaneInv, PlaneTypeOK, Rows
<1> QED
  BY <1>1, <1>2, <1>3 DEF Claim, Writes, Rows, Coherent, States, Live

\* Arming the exit writes one row, and counts one more recent exit.
LEMMA ArmWrites ==
  ASSUME PlaneInv, NEW k \in Keys, NEW s \in Sessions, Arm(k, s)
  PROVE  /\ Writes(k, [intent[k] EXCEPT !.state = "exiting"])
         /\ ~Stormy /\ recent' = recent \cup {k}
<1>1. intent[k] \in Rows /\ Coherent(intent[k])
  BY DEF PlaneInv, PlaneTypeOK, RowsCohere
<1>2. [intent EXCEPT ![k].state = "exiting"]
         = [intent EXCEPT ![k] = [intent[k] EXCEPT !.state = "exiting"]]
  OBVIOUS
<1> QED
  BY <1>1, <1>2 DEF Arm, Is, Writes, Rows, Coherent, States, Live

\* A relaunch writes one row: one attempt more, and a proof minted for it.
LEMMA RelaunchWrites ==
  ASSUME PlaneInv, NEW k \in Keys, NEW token \in {0, 1}, Relaunch(k, token)
  PROVE  /\ intent[k].attempts < AttemptLimit
         /\ Writes(k, [intent[k] EXCEPT !.state = "relaunching",
                                        !.attempts = intent[k].attempts + 1,
                                        !.proof = intent[k].attempts + 1])
         /\ UNCHANGED recent
<1>1. intent[k] \in Rows /\ Coherent(intent[k])
  BY DEF PlaneInv, PlaneTypeOK, RowsCohere
<1>2. intent[k].attempts < AttemptLimit
  BY <1>1, LimitsAssumption DEF Relaunch, Is, Coherent
<1>3. intent[k].epoch = 1
  BY <1>1 DEF Relaunch, Holds, Rows
<1>4. intent' = [intent EXCEPT ![k] = [intent[k] EXCEPT !.state = "relaunching",
                                                        !.attempts = intent[k].attempts + 1,
                                                        !.proof = intent[k].attempts + 1]]
  BY <1>1 DEF Relaunch, PlaneInv, PlaneTypeOK, Rows
<1>5. intent[k].attempts + 1 \in 0..AttemptLimit /\ intent[k].attempts + 1 > 0
  BY <1>1, <1>2, LimitsAssumption DEF Rows
<1> DEFINE new == [intent[k] EXCEPT !.state = "relaunching",
                                    !.attempts = intent[k].attempts + 1,
                                    !.proof = intent[k].attempts + 1]
<1>6. new \in Rows
  BY <1>1, <1>5 DEF Rows, States, Live
<1>7. Coherent(new)
  BY <1>1, <1>3, <1>5 DEF Coherent, Rows
<1>8. intent[k].state \in Live /\ late' = late \ {k} /\ UNCHANGED recent
  BY DEF Relaunch, Is, Live
<1> QED
  BY <1>2, <1>4, <1>6, <1>7, <1>8 DEF Writes

\* A failure writes one row, whose lease and attempts stay as they were.
LEMMA FailWrites ==
  ASSUME PlaneInv, NEW k \in Keys, NEW token \in {0, 1}, NEW to, Fail(k, token, to)
  PROVE  /\ intent[k].epoch = 1
         /\ Writes(k, [intent[k] EXCEPT !.state = "failed", !.proof = 0])
         /\ UNCHANGED recent
<1>1. intent[k] \in Rows /\ Coherent(intent[k])
  BY DEF PlaneInv, PlaneTypeOK, RowsCohere
<1>2. intent[k].epoch = 1
  BY <1>1 DEF Fail, Holds, Rows
<1>3. intent' = [intent EXCEPT ![k] = [intent[k] EXCEPT !.state = "failed", !.proof = 0]]
  BY <1>1 DEF Fail, PlaneInv, PlaneTypeOK, Rows
<1> DEFINE new == [intent[k] EXCEPT !.state = "failed", !.proof = 0]
<1>4. new \in Rows
  <2>1. 0 \in 0..AttemptLimit /\ "failed" \in States /\ "verified" \in States
    BY LimitsAssumption DEF States, Terminal
  <2> QED
    BY <1>1, <2>1 DEF Rows
<1>5. Coherent(new)
  BY <1>1, <1>2 DEF Coherent, Rows
<1>6. intent[k].state \in Live /\ UNCHANGED <<late, recent>>
  BY DEF Fail, Is, Live
<1> QED
  BY <1>2, <1>3, <1>4, <1>5, <1>6 DEF Writes

\* A verification writes one row, whose lease and attempts stay as they were.
LEMMA VerifyWrites ==
  ASSUME PlaneInv, NEW k \in Keys, NEW s, NEW proof, Verify(k, s, proof)
  PROVE  /\ intent[k].epoch = 1 /\ intent[k].attempts > 0
         /\ Writes(k, [intent[k] EXCEPT !.state = "verified", !.proof = 0])
         /\ UNCHANGED recent
<1>1. intent[k] \in Rows /\ Coherent(intent[k])
  BY DEF PlaneInv, PlaneTypeOK, RowsCohere
<1>2. intent' = [intent EXCEPT ![k] = [intent[k] EXCEPT !.state = "verified", !.proof = 0]]
  BY <1>1 DEF Verify, PlaneInv, PlaneTypeOK, Rows
<1> DEFINE new == [intent[k] EXCEPT !.state = "verified", !.proof = 0]
<1>3. intent[k].state = "relaunching"
  BY DEF Verify, Is
<1>4. intent[k].epoch = 1 /\ intent[k].attempts > 0
  BY <1>1, <1>3 DEF Coherent
<1>5. new \in Rows
  <2>1. 0 \in 0..AttemptLimit /\ "failed" \in States /\ "verified" \in States
    BY LimitsAssumption DEF States, Terminal
  <2> QED
    BY <1>1, <2>1 DEF Rows
<1>6. Coherent(new)
  BY <1>1, <1>4 DEF Coherent, Rows
<1>7. intent[k].state \in Live /\ UNCHANGED <<late, recent>>
  BY <1>3 DEF Verify, Live
<1> QED
  BY <1>2, <1>4, <1>5, <1>6, <1>7 DEF Writes

\* The steps of the plane that are not the exit door's nor restart_request's
\* write one row or move a clock.
LEMMA WriteKeeps ==
  ASSUME PlaneInv, NEW k \in Keys, NEW row, Writes(k, row), UNCHANGED recent
  PROVE  PlaneInv'
<1>1. late' \subseteq Keys
  BY DEF Writes, PlaneInv, PlaneTypeOK
<1> QED
  BY <1>1, DoorKeeps DEF Writes

\* The exit door arms a row and lets it into the storm window.
LEMMA ArmKeeps ==
  ASSUME PlaneInv, NEW k \in Keys, NEW s \in Sessions, Arm(k, s)
  PROVE  PlaneInv'
<1>1. StormBound'
  BY ArmWrites, CountsTheStorm
<1>2. /\ intent' \in [Keys -> Rows] /\ RowsCohere' /\ OneLive'
  BY ArmWrites, OneRowChanges DEF Writes
<1>3. late' \subseteq Keys /\ recent' \subseteq Keys
  BY DEF Arm, PlaneInv, PlaneTypeOK
<1> QED
  BY <1>1, <1>2, <1>3 DEF PlaneInv, PlaneTypeOK

\* Deadlines pass and arms leave the storm window.
LEMMA ClocksKeep ==
  ASSUME PlaneInv, NEW k \in Keys, Lapse(k) \/ AgeOut(k)
  PROVE  PlaneInv' /\ UNCHANGED intent
<1>1. UNCHANGED intent /\ late' \subseteq Keys /\ recent' \subseteq recent
  BY DEF Lapse, AgeOut, PlaneInv, PlaneTypeOK
<1>2. StormBound'
  <2>1. IsFiniteSet(recent)
    BY KeysAreFinite, FS_Subset DEF PlaneInv, PlaneTypeOK
  <2>2. Cardinality(recent') <= Cardinality(recent)
    BY <1>1, <2>1, FS_Subset
  <2>3. IsFiniteSet(recent')
    BY <1>1, <2>1, FS_Subset
  <2>4. Cardinality(recent') \in Nat /\ Cardinality(recent) \in Nat
    BY <2>1, <2>3, FS_CardinalityType
  <2>5. Cardinality(recent) <= StormMax
    BY DEF PlaneInv, StormBound
  <2>6. Cardinality(recent') <= StormMax
    BY <2>2, <2>4, <2>5, LimitsAssumption
  <2> QED
    BY <2>6 DEF StormBound
<1>3. PlaneTypeOK' /\ RowsCohere' /\ OneLive'
  BY <1>1 DEF PlaneInv, PlaneTypeOK, RowsCohere, OneLive
<1> QED
  BY <1>1, <1>2, <1>3 DEF PlaneInv

\* The invariant of the plane.
LEMMA PlaneStep == ASSUME PlaneInv, [PlaneNext]_planeVars PROVE PlaneInv'
<1>1. CASE UNCHANGED planeVars
  BY <1>1 DEF planeVars, PlaneInv, PlaneTypeOK, RowsCohere, OneLive, StormBound
<1>2. CASE PlaneNext
  BY <1>2, RequestKeeps, ExpireWrites, ClaimWrites, ArmKeeps, RelaunchWrites, FailWrites,
     VerifyWrites, WriteKeeps, ClocksKeep DEF PlaneNext
<1> QED
  BY <1>1, <1>2

\* In every behaviour of the plane the rows are typed and coherent, one live
\* intent owns the workspace, and the storm window is not overfull.
LEMMA PlaneInvariant == PlaneSpec => []PlaneInv
  BY PlaneStarts, PlaneStep, PTL DEF PlaneSpec

\* Whatever doors are called in whatever order, no more intents reach exiting
\* inside one storm window than STORM_MAX_EXITING_PER_WINDOW.
THEOREM StormIsBounded == PlaneSpec => []StormBound
<1>1. PlaneInv => StormBound
  BY DEF PlaneInv
<1> QED
  BY <1>1, PlaneInvariant, PTL

\* One live intent owns the workspace.
THEOREM OneIntentLives == PlaneSpec => []OneLive
<1>1. PlaneInv => OneLive
  BY DEF PlaneInv
<1> QED
  BY <1>1, PlaneInvariant, PTL

-----------------------------------------------------------------------------
(* The plane: what its steps may never do.                                  *)

\* A door that writes the row of k leaves every other row alone.
LEMMA WritesOne ==
  ASSUME PlaneInv, NEW k \in Keys, NEW row, Writes(k, row)
  PROVE  \A j \in Keys : intent'[j] = IF j = k THEN row ELSE intent[j]
  BY DEF Writes, PlaneInv, PlaneTypeOK

\* restart_request sweeps no row that a keeper has claimed.
LEMMA RequestSparesClaims ==
  ASSUME PlaneInv, NEW k \in Keys, NEW mode \in Modes, NEW s \in Sessions,
         Request(k, mode, s), NEW j \in Keys, intent[j].epoch = 1
  PROVE  intent'[j] = intent[j]
<1>1. j # k
  BY DEF Request, Is, PlaneInv, RowsCohere, Coherent
<1>2. Swept(j) = intent[j]
  BY DEF Swept, Lapsed, Stranded, Is, PlaneInv, RowsCohere, Coherent
<1> QED
  BY <1>1, <1>2 DEF Request

\* What a step may do to a row that is claimed.
Exclusive ==
    \A k \in Keys :
       intent[k].epoch = 1 =>
          /\ intent'[k].epoch = 1
          /\ intent'[k].state \notin {"requested", "exiting", "expired"}
          /\ intent'[k].state # intent[k].state =>
                \A j \in Keys \ {k} : intent'[j] = intent[j]

\* A claimed row is past the states that can be claimed or swept.
LEMMA ClaimedIsPast ==
  ASSUME PlaneInv, NEW k \in Keys, intent[k].epoch = 1
  PROVE  intent[k].state \notin {"absent", "requested", "exiting", "expired"}
  BY DEF PlaneInv, RowsCohere, Coherent

\* Every step of the plane leaves a claimed row to the keeper that holds it.
LEMMA ExclusiveStep == ASSUME PlaneInv, [PlaneNext]_planeVars PROVE Exclusive
<1> SUFFICES ASSUME NEW k \in Keys, intent[k].epoch = 1
             PROVE  /\ intent'[k].epoch = 1
                    /\ intent'[k].state \notin {"requested", "exiting", "expired"}
                    /\ intent'[k].state # intent[k].state =>
                          \A j \in Keys \ {k} : intent'[j] = intent[j]
  BY DEF Exclusive
<1>1. intent[k].state \notin {"absent", "requested", "exiting", "expired"}
  BY ClaimedIsPast
<1>2. ASSUME NEW i \in Keys, NEW row, Writes(i, row),
             row.state \in {"requested", "exiting", "expired"} => intent[i].epoch = 0,
             row.epoch = 1 \/ intent[i].epoch = 0
      PROVE  /\ intent'[k].epoch = 1
             /\ intent'[k].state \notin {"requested", "exiting", "expired"}
             /\ intent'[k].state # intent[k].state =>
                   \A j \in Keys \ {k} : intent'[j] = intent[j]
  BY <1>1, <1>2, WritesOne
<1>3. ASSUME intent'[k] = intent[k]
      PROVE  /\ intent'[k].epoch = 1
             /\ intent'[k].state \notin {"requested", "exiting", "expired"}
             /\ intent'[k].state # intent[k].state =>
                   \A j \in Keys \ {k} : intent'[j] = intent[j]
  BY <1>1, <1>3
<1>4. CASE UNCHANGED planeVars
  BY <1>3, <1>4 DEF planeVars
<1>5. ASSUME NEW i \in Keys, NEW mode \in Modes, NEW s \in Sessions, Request(i, mode, s)
      PROVE  intent'[k] = intent[k]
  BY <1>5, RequestSparesClaims
<1>6. \A i \in Keys : intent[i] \in Rows /\ Coherent(intent[i])
  BY DEF PlaneInv, PlaneTypeOK, RowsCohere
<1>7. ASSUME NEW i \in Keys, ExpireOnTouch(i)
      PROVE  intent[i].epoch = 0
  BY <1>6, <1>7 DEF ExpireOnTouch, Lapsed, Is, Coherent
<1>8. ASSUME NEW i \in Keys, NEW s \in Sessions, Arm(i, s)
      PROVE  intent[i].epoch = 0
  BY <1>6, <1>8 DEF Arm, Is, Coherent
<1>9. ASSUME NEW i \in Keys, NEW token \in {0, 1}, Relaunch(i, token)
      PROVE  intent[i].epoch = 1
  BY <1>6, <1>9 DEF Relaunch, Holds, Rows
<1> DEFINE Spared == /\ intent'[k].epoch = 1
                     /\ intent'[k].state \notin {"requested", "exiting", "expired"}
                     /\ intent'[k].state # intent[k].state =>
                           \A j \in Keys \ {k} : intent'[j] = intent[j]
<1>10. ASSUME NEW i \in Keys, ExpireOnTouch(i) PROVE Spared
  BY <1>2, <1>7, <1>10, ExpireWrites
<1>11. ASSUME NEW i \in Keys, Claim(i) PROVE Spared
  BY <1>2, <1>11, ClaimWrites
<1>12. ASSUME NEW i \in Keys, NEW s \in Sessions, Arm(i, s) PROVE Spared
  BY <1>2, <1>8, <1>12, ArmWrites
<1>13. ASSUME NEW i \in Keys, NEW token \in {0, 1}, Relaunch(i, token) PROVE Spared
  <2>1. [intent[i] EXCEPT !.state = "relaunching", !.attempts = intent[i].attempts + 1,
                          !.proof = intent[i].attempts + 1].epoch = 1
    BY <1>6, <1>9, <1>13 DEF Rows
  <2>2. [intent[i] EXCEPT !.state = "relaunching", !.attempts = intent[i].attempts + 1,
                          !.proof = intent[i].attempts + 1].state = "relaunching"
    BY <1>6 DEF Rows
  <2> QED
    BY <1>2, <1>13, <2>1, <2>2, RelaunchWrites
<1>14. ASSUME NEW i \in Keys, NEW token \in {0, 1}, NEW to, Fail(i, token, to) PROVE Spared
  <2>1. [intent[i] EXCEPT !.state = "failed", !.proof = 0].epoch = 1
    BY <1>6, <1>14, FailWrites DEF Rows
  <2>2. [intent[i] EXCEPT !.state = "failed", !.proof = 0].state = "failed"
    BY <1>6 DEF Rows
  <2> QED
    BY <1>2, <1>14, <2>1, <2>2, FailWrites
<1>15. ASSUME NEW i \in Keys, NEW s, NEW proof, Verify(i, s, proof) PROVE Spared
  <2>1. [intent[i] EXCEPT !.state = "verified", !.proof = 0].epoch = 1
    BY <1>6, <1>15, VerifyWrites DEF Rows
  <2>2. [intent[i] EXCEPT !.state = "verified", !.proof = 0].state = "verified"
    BY <1>6 DEF Rows
  <2> QED
    BY <1>2, <1>15, <2>1, <2>2, VerifyWrites
<1>16. ASSUME NEW i \in Keys, Lapse(i) \/ AgeOut(i) PROVE Spared
  BY <1>3, <1>16, ClocksKeep
<1>17. ASSUME NEW i \in Keys, NEW mode \in Modes, NEW s \in Sessions, Request(i, mode, s)
       PROVE  Spared
  BY <1>3, <1>5, <1>17
<1> HIDE DEF Spared
<1>18. CASE PlaneNext
  BY <1>18, <1>10, <1>11, <1>12, <1>13, <1>14, <1>15, <1>16, <1>17 DEF PlaneNext, Spared
<1> QED
  BY <1>4, <1>18

\* A row is never taken from the keeper that claimed it: it ends by that
\* keeper's token or by a verify, and is not claimed again.
THEOREM ClaimStands == PlaneSpec => ClaimIsExclusive
<1>1. PlaneInv /\ [PlaneNext]_planeVars => [Exclusive]_planeVars
  BY ExclusiveStep
<1>2. ClaimIsExclusive <=> [][Exclusive]_planeVars
  BY DEF ClaimIsExclusive, Exclusive
<1> QED
  BY <1>1, <1>2, PlaneInvariant, PTL DEF PlaneSpec

-----------------------------------------------------------------------------
(* The plane keeps the promise of RestartPromise, step by step.             *)

\* What the promise sees of the rows.
Fates == [k \in Keys |-> FateOf(intent[k].state)]
Launches == [k \in Keys |-> intent[k].attempts]

\* The fate of a row by its stage.
LEMMA FateCases ==
  ASSUME NEW state \in States
  PROVE  /\ FateOf(state) = "none" <=> state = "absent"
         /\ FateOf(state) = "open" <=> state \in Live
         /\ state \in Terminal => FateOf(state) = state
  BY DEF FateOf, States, Live, Terminal

\* No row is on file before the first request.
LEMMA InitPromise == PlaneInit => Promise!PromiseInit
<1> SUFFICES ASSUME PlaneInit PROVE Promise!PromiseInit
  OBVIOUS
<1>1. \A k \in Keys : intent[k].state = "absent" /\ intent[k].attempts = 0
  BY NoRowIsARow DEF PlaneInit, NoRow
<1>2. FateOf("absent") = "none"
  BY DEF FateOf
<1> QED
  BY <1>1, <1>2 DEF Promise!PromiseInit

\* Rows with the same stage and launches look the same to the promise.
LEMMA SameToPromise ==
  ASSUME \A k \in Keys : /\ FateOf(intent'[k].state) = FateOf(intent[k].state)
                         /\ intent'[k].attempts = intent[k].attempts
  PROVE  UNCHANGED Promise!promiseVars
<1>1. Fates' = Fates /\ Launches' = Launches
  BY DEF Fates, Launches
<1> QED
  BY <1>1 DEF Promise!promiseVars, Fates, Launches

\* A door that ends the one row it writes, launching nothing.
LEMMA WriteEnds ==
  ASSUME PlaneInv, NEW k \in Keys, NEW row, Writes(k, row),
         row.state \in Terminal, row.attempts = intent[k].attempts,
         row.state = "expired" => intent[k].attempts = 0,
         row.state = "verified" => intent[k].attempts > 0
  PROVE  Promise!End(k, row.state) /\ row.state \in Promise!Ends
<1>1. intent[k].state \in Live /\ row \in Rows /\ intent[k] \in Rows
  BY DEF Writes, PlaneInv, PlaneTypeOK
<1>2. FateOf(intent[k].state) = "open" /\ FateOf(row.state) = row.state
  BY <1>1, FateCases DEF Rows
<1>3. \A j \in Keys : intent'[j] = IF j = k THEN row ELSE intent[j]
  BY WritesOne
<1>4. Fates' = [Fates EXCEPT ![k] = row.state]
  BY <1>2, <1>3 DEF Fates
<1>5. Launches' = Launches
  BY <1>3 DEF Launches
<1>6. Fates[k] = "open" /\ Launches[k] = intent[k].attempts
  BY <1>2 DEF Fates, Launches
<1>7. row.state \in Promise!Ends
  BY DEF Terminal, Promise!Ends
<1> QED
  BY <1>4, <1>5, <1>6, <1>7 DEF Promise!End, Promise!Open, Fates, Launches

\* A door that keeps the row it writes alive without a launch.
LEMMA WriteStays ==
  ASSUME PlaneInv, NEW k \in Keys, NEW row, Writes(k, row),
         row.state \in Live, row.attempts = intent[k].attempts
  PROVE  UNCHANGED Promise!promiseVars
<1>1. intent[k].state \in Live /\ row \in Rows /\ intent[k] \in Rows
  BY DEF Writes, PlaneInv, PlaneTypeOK
<1>2. FateOf(intent[k].state) = "open" /\ FateOf(row.state) = "open"
  BY <1>1, FateCases DEF Rows
<1>3. \A j \in Keys : intent'[j] = IF j = k THEN row ELSE intent[j]
  BY WritesOne
<1> QED
  BY <1>2, <1>3, SameToPromise

\* A relaunch spends one launch of the key's budget.
LEMMA RelaunchLaunches ==
  ASSUME PlaneInv, NEW k \in Keys, NEW token \in {0, 1}, Relaunch(k, token)
  PROVE  Promise!Launch(k)
<1> DEFINE row == [intent[k] EXCEPT !.state = "relaunching",
                                    !.attempts = intent[k].attempts + 1,
                                    !.proof = intent[k].attempts + 1]
<1>1. intent[k].attempts < AttemptLimit /\ Writes(k, row)
  BY RelaunchWrites
<1>2. intent[k].state \in Live /\ row \in Rows /\ intent[k] \in Rows
  BY <1>1 DEF Writes, PlaneInv, PlaneTypeOK
<1>3. row.state = "relaunching" /\ row.attempts = intent[k].attempts + 1
  BY <1>2 DEF Rows
<1>4. \A j \in Keys : intent'[j] = IF j = k THEN row ELSE intent[j]
  BY <1>1, WritesOne
<1> HIDE DEF row
<1>5. FateOf(intent[k].state) = "open" /\ FateOf(row.state) = "open"
  BY <1>2, <1>3, FateCases DEF Rows, Live
<1>6. Fates' = Fates
  BY <1>4, <1>5 DEF Fates
<1>7. Launches' = [Launches EXCEPT ![k] = @ + 1]
  BY <1>3, <1>4 DEF Launches
<1>8. Fates[k] = "open" /\ Launches[k] = intent[k].attempts
  BY <1>5 DEF Fates, Launches
<1> QED
  BY <1>1, <1>6, <1>7, <1>8 DEF Promise!Launch, Promise!Open, Fates, Launches

\* restart_request opens one restart and buries what it swept.
LEMMA RequestBegins ==
  ASSUME PlaneInv, NEW k \in Keys, NEW mode \in Modes, NEW s \in Sessions,
         Request(k, mode, s)
  PROVE  Promise!Begin(k)
<1> DEFINE open == {j \in Keys : Fates[j] = "open"}
           buried == [j \in open |-> Swept(j).state]
<1>1. \A j \in Keys : intent[j] \in Rows
  BY DEF PlaneInv, PlaneTypeOK
<1>2. \A j \in Keys : intent[j].state \in States
  BY <1>1 DEF Rows
<1>3. \A j \in Keys : Fates[j] = FateOf(intent[j].state)
  BY DEF Fates
<1>4. \A j \in open : intent[j].state \in Live
  BY <1>2, <1>3, FateCases
<1>5. \A j \in open : Swept(j).state \in {"expired", "failed"}
  BY <1>1, <1>4 DEF Request, Swept, Rows
<1>6. \A j \in Keys \ open : Swept(j) = intent[j]
  <2> SUFFICES ASSUME NEW j \in Keys \ open PROVE Swept(j) = intent[j]
    OBVIOUS
  <2>1. intent[j].state \notin Live
    BY <1>2, <1>3, FateCases
  <2> QED
    BY <2>1 DEF Swept, Lapsed, Stranded, Is, Live
<1>7. \A j \in Keys : Swept(j).attempts = intent[j].attempts
  BY <1>1 DEF Swept, Rows
<1>8. intent'[k].state = "requested" /\ intent'[k].attempts = intent[k].attempts
  BY <1>1 DEF Request, Rows
<1>9. \A j \in Keys \ {k} : intent'[j] = Swept(j)
  BY DEF Request
<1>10. FateOf("requested") = "open" /\ FateOf("expired") = "expired" /\ FateOf("failed") = "failed"
  BY DEF FateOf, Live
<1>11. buried \in [open -> {"expired", "failed"}]
  BY <1>5
<1>12. \A j \in Keys : FateOf(intent'[j].state) = IF j = k THEN "open"
                                                 ELSE IF Fates[j] = "open" THEN buried[j]
                                                 ELSE Fates[j]
  BY <1>3, <1>5, <1>6, <1>8, <1>9, <1>10
<1>13. \A j \in Keys : intent'[j].attempts = intent[j].attempts
  BY <1>7, <1>8, <1>9
<1>14. Fates' = [j \in Keys |-> IF j = k THEN "open"
                               ELSE IF Fates[j] = "open" THEN buried[j] ELSE Fates[j]]
  BY <1>12 DEF Fates
<1>15. Launches' = Launches
  BY <1>13 DEF Launches
<1>16. Fates[k] = "none"
  BY <1>2, <1>3, FateCases DEF Request, Is
<1> HIDE DEF buried
<1>17. \E b \in [open -> {"expired", "failed"}] :
          Fates' = [j \in Keys |-> IF j = k THEN "open"
                                  ELSE IF Fates[j] = "open" THEN b[j] ELSE Fates[j]]
  BY <1>11, <1>14
<1> QED
  BY <1>15, <1>16, <1>17 DEF Promise!Begin, Promise!Open, Fates, Launches

\* Every step of the plane is a step of the promise or a stutter.
LEMMA PromiseStep == ASSUME PlaneInv, [PlaneNext]_planeVars
                     PROVE  [Promise!PromiseNext]_(Promise!promiseVars)
<1>1. \A k \in Keys : intent[k] \in Rows /\ Coherent(intent[k])
  BY DEF PlaneInv, PlaneTypeOK, RowsCohere
<1>2. CASE UNCHANGED planeVars
  BY <1>2, SameToPromise DEF planeVars
<1>3. ASSUME NEW k \in Keys, Lapse(k) \/ AgeOut(k) PROVE UNCHANGED Promise!promiseVars
  BY <1>3, ClocksKeep, SameToPromise
<1>4. ASSUME NEW k \in Keys, NEW mode \in Modes, NEW s \in Sessions, Request(k, mode, s)
      PROVE  Promise!PromiseNext
  BY <1>4, RequestBegins DEF Promise!PromiseNext
<1>5. ASSUME NEW k \in Keys, ExpireOnTouch(k) PROVE Promise!PromiseNext
  <2> DEFINE row == [intent[k] EXCEPT !.state = "expired"]
  <2>1. row.state = "expired" /\ row.attempts = intent[k].attempts
    BY <1>1 DEF Rows
  <2>2. intent[k].attempts = 0
    BY <1>1, <1>5 DEF ExpireOnTouch, Lapsed, Is, Coherent
  <2>3. Writes(k, row)
    BY <1>5, ExpireWrites
  <2> HIDE DEF row
  <2>4. Promise!End(k, row.state) /\ row.state \in Promise!Ends
    BY <2>1, <2>2, <2>3, WriteEnds DEF Terminal
  <2> QED
    BY <2>4 DEF Promise!PromiseNext
<1>6. ASSUME NEW k \in Keys, Claim(k) PROVE UNCHANGED Promise!promiseVars
  <2> DEFINE row == [intent[k] EXCEPT !.state = "claimed", !.epoch = 1]
  <2>1. row.state = "claimed" /\ row.attempts = intent[k].attempts
    BY <1>1 DEF Rows
  <2>2. Writes(k, row)
    BY <1>6, ClaimWrites
  <2> HIDE DEF row
  <2> QED
    BY <2>1, <2>2, WriteStays DEF Live
<1>7. ASSUME NEW k \in Keys, NEW s \in Sessions, Arm(k, s) PROVE UNCHANGED Promise!promiseVars
  <2> DEFINE row == [intent[k] EXCEPT !.state = "exiting"]
  <2>1. row.state = "exiting" /\ row.attempts = intent[k].attempts
    BY <1>1 DEF Rows
  <2>2. Writes(k, row)
    BY <1>7, ArmWrites
  <2> HIDE DEF row
  <2> QED
    BY <2>1, <2>2, WriteStays DEF Live
<1>8. ASSUME NEW k \in Keys, NEW token \in {0, 1}, Relaunch(k, token) PROVE Promise!PromiseNext
  BY <1>8, RelaunchLaunches DEF Promise!PromiseNext
<1>9. ASSUME NEW k \in Keys, NEW token \in {0, 1}, NEW to, Fail(k, token, to)
      PROVE  Promise!PromiseNext
  <2> DEFINE row == [intent[k] EXCEPT !.state = "failed", !.proof = 0]
  <2>1. row.state = "failed" /\ row.attempts = intent[k].attempts
    BY <1>1 DEF Rows
  <2>2. Writes(k, row)
    BY <1>9, FailWrites
  <2> HIDE DEF row
  <2>3. Promise!End(k, row.state) /\ row.state \in Promise!Ends
    BY <2>1, <2>2, WriteEnds DEF Terminal
  <2> QED
    BY <2>3 DEF Promise!PromiseNext
<1>10. ASSUME NEW k \in Keys, NEW s, NEW proof, Verify(k, s, proof) PROVE Promise!PromiseNext
  <2> DEFINE row == [intent[k] EXCEPT !.state = "verified", !.proof = 0]
  <2>1. row.state = "verified" /\ row.attempts = intent[k].attempts
    BY <1>1 DEF Rows
  <2>2. Writes(k, row) /\ intent[k].attempts > 0
    BY <1>10, VerifyWrites
  <2> HIDE DEF row
  <2>3. Promise!End(k, row.state) /\ row.state \in Promise!Ends
    BY <2>1, <2>2, WriteEnds DEF Terminal
  <2> QED
    BY <2>3 DEF Promise!PromiseNext
<1>11. CASE PlaneNext
  BY <1>11, <1>3, <1>4, <1>5, <1>6, <1>7, <1>8, <1>9, <1>10 DEF PlaneNext
<1> QED
  BY <1>2, <1>11

\* The five doors, called by anyone in any order, with deadlines and the storm
\* window passing as they will, implement the promise: a key opens one restart,
\* one is open at a time, it ends once, within its budget of launches, and is
\* verified only after one.
THEOREM ImplementsPromise == PlaneSpec => KeepsPromise
<1>1. PlaneInit => Promise!PromiseInit
  BY InitPromise
<1>2. PlaneInv /\ [PlaneNext]_planeVars => [Promise!PromiseNext]_(Promise!promiseVars)
  BY PromiseStep
<1> QED
  BY <1>1, <1>2, PlaneInvariant, PTL DEF PlaneSpec, KeepsPromise, Promise!PromiseSpec

-----------------------------------------------------------------------------
(* The loop: what the House's doors do to a keeper's claim.                 *)

\* No row is launched, and none is claimed or relaunching that was not.
Stays == \A k \in Keys :
            /\ intent'[k].attempts = intent[k].attempts
            /\ intent'[k].state \in {"claimed", "relaunching"} =>
                  intent'[k].state = intent[k].state

\* No relaunching row becomes verified.
NoneSigned == \A k \in Keys : Is(k, "relaunching") => intent'[k].state # "verified"

\* A write of one row that launches and claims nothing.
LEMMA WriteStaysPut ==
  ASSUME PlaneInv, NEW k \in Keys, NEW row, Writes(k, row),
         row.attempts = intent[k].attempts, row.state \notin {"claimed", "relaunching"}
  PROVE  /\ Stays
         /\ row.state # "verified" => NoneSigned
<1>1. \A j \in Keys : intent'[j] = IF j = k THEN row ELSE intent[j]
  BY WritesOne
<1> QED
  BY <1>1 DEF Stays, NoneSigned, Is

\* The doors other than a claim, a relaunch and a verify.
LEMMA OthersStay ==
  ASSUME PlaneInv, NEW k \in Keys,
         \/ \E mode \in Modes, s \in Sessions : Request(k, mode, s)
         \/ ExpireOnTouch(k)
         \/ \E s \in Sessions : Arm(k, s)
         \/ \E token \in {0, 1}, to \in {"failed", "relaunching"} : Fail(k, token, to)
         \/ Lapse(k) \/ AgeOut(k)
         \/ UNCHANGED intent
  PROVE  Stays /\ NoneSigned
<1>1. \A j \in Keys : intent[j] \in Rows
  BY DEF PlaneInv, PlaneTypeOK
<1>2. ASSUME UNCHANGED intent PROVE Stays /\ NoneSigned
  BY <1>2 DEF Stays, NoneSigned, Is
<1>3. ASSUME NEW mode \in Modes, NEW s \in Sessions, Request(k, mode, s)
      PROVE  Stays /\ NoneSigned
  <2>1. intent'[k].state = "requested" /\ intent'[k].attempts = intent[k].attempts
    BY <1>1, <1>3 DEF Request, Rows
  <2>2. \A j \in Keys \ {k} : intent'[j] = Swept(j)
    BY <1>3 DEF Request
  <2>3. \A j \in Keys : /\ Swept(j).attempts = intent[j].attempts
                        /\ Swept(j).state \in {"expired", "failed", intent[j].state}
    BY <1>1 DEF Swept, Rows
  <2> QED
    BY <1>3, <2>1, <2>2, <2>3 DEF Stays, NoneSigned, Is, Request
<1>4. CASE ExpireOnTouch(k)
  <2> DEFINE row == [intent[k] EXCEPT !.state = "expired"]
  <2>1. row.state = "expired" /\ row.attempts = intent[k].attempts
    BY <1>1 DEF Rows
  <2>2. Writes(k, row)
    BY <1>4, ExpireWrites
  <2> HIDE DEF row
  <2> QED
    BY <2>1, <2>2, WriteStaysPut
<1>5. ASSUME NEW s \in Sessions, Arm(k, s) PROVE Stays /\ NoneSigned
  <2> DEFINE row == [intent[k] EXCEPT !.state = "exiting"]
  <2>1. row.state = "exiting" /\ row.attempts = intent[k].attempts
    BY <1>1 DEF Rows
  <2>2. Writes(k, row)
    BY <1>5, ArmWrites
  <2> HIDE DEF row
  <2> QED
    BY <2>1, <2>2, WriteStaysPut
<1>6. ASSUME NEW token \in {0, 1}, NEW to, Fail(k, token, to) PROVE Stays /\ NoneSigned
  <2> DEFINE row == [intent[k] EXCEPT !.state = "failed", !.proof = 0]
  <2>1. row.state = "failed" /\ row.attempts = intent[k].attempts
    BY <1>1 DEF Rows
  <2>2. Writes(k, row)
    BY <1>6, FailWrites
  <2> HIDE DEF row
  <2> QED
    BY <2>1, <2>2, WriteStaysPut
<1>7. ASSUME Lapse(k) \/ AgeOut(k) PROVE Stays /\ NoneSigned
  BY <1>2, <1>7, ClocksKeep
<1> QED
  BY <1>2, <1>3, <1>4, <1>5, <1>6, <1>7

\* A verify signs the one row it names.
LEMMA VerifySigns ==
  ASSUME PlaneInv, NEW k \in Keys, NEW s, NEW proof, Verify(k, s, proof)
  PROVE  /\ Stays
         /\ \A j \in Keys \ {k} : intent'[j] = intent[j]
         /\ Is(k, "relaunching") /\ proof = intent[k].attempts
<1>1. intent[k] \in Rows
  BY DEF PlaneInv, PlaneTypeOK
<1> DEFINE row == [intent[k] EXCEPT !.state = "verified", !.proof = 0]
<1>2. row.state = "verified" /\ row.attempts = intent[k].attempts
  BY <1>1 DEF Rows
<1>3. Writes(k, row)
  BY VerifyWrites
<1> HIDE DEF row
<1>4. Stays /\ \A j \in Keys \ {k} : intent'[j] = intent[j]
  BY <1>2, <1>3, WriteStaysPut, WritesOne
<1> QED
  BY <1>4 DEF Verify

-----------------------------------------------------------------------------
(* The loop: its invariant.                                                 *)

CallersTypeOK ==
    /\ world \in Worlds
    /\ procs \subseteq Procs /\ held \in Procs /\ signer \in Procs
    /\ armed \in Keys \cup {NoKey} /\ leaving \in BOOLEAN
    /\ keeper \in Keeper

\* Where the keeper is at work on the intent it claimed.
Working == {"relaunch", "spawn", "window", "observe", "check", "unproven", "fail"}
Engaged(k) == intent[k].state \in {"claimed", "relaunching"}

\* A keeper that is there works on every row that is claimed.
OwnsWork == ~At("gone") => \A k \in Keys : Engaged(k) => k0 = k /\ keeper.at \in Working

\* It has counted the launches the House has.
CountsTries == /\ At("claim") => k0 \in Keys
               /\ keeper.at \in Working => k0 \in Keys /\ keeper.tries = intent[k0].attempts

\* No process was launched for an attempt that is yet to come.
NoneAhead == \A p \in procs : p.of \in Keys =>
                /\ p.try <= intent[p.of].attempts
                /\ At("spawn") /\ p.of = k0 => p.try < intent[p.of].attempts

\* Who carries the proof of the latest attempt is the process that is held.
HoldsLatest == ~At("gone") =>
                  \A p \in procs :
                     p.of \in Keys /\ Is(p.of, "relaunching") /\ p.try = intent[p.of].attempts
                        => p = held

LoopInv == PlaneInv /\ CallersTypeOK /\ OwnsWork /\ CountsTries /\ NoneAhead /\ HoldsLatest

\* The loop starts with the first omp and nothing on file.
LEMMA LoopStarts == Init => LoopInv
<1> SUFFICES ASSUME Init PROVE LoopInv
  OBVIOUS
<1>1. PlaneInv
  BY PlaneStarts DEF Init
<1>2. First \in Procs
  BY SessionsAssumption, LimitsAssumption DEF First, Procs
<1>3. keeper \in Keeper
  BY LimitsAssumption DEF Init, Keeper, Places
<1>4. CallersTypeOK
  BY <1>2, <1>3 DEF Init, CallersTypeOK, Worlds
<1>5. \A k \in Keys : intent[k].state = "absent"
  BY NoRowIsARow DEF Init, PlaneInit
<1>6. OwnsWork /\ CountsTries
  BY <1>5 DEF Init, OwnsWork, CountsTries, Engaged, At, Working
<1>7. \A p \in procs : p.of \notin Keys
  BY SessionsAssumption DEF Init, First
<1>8. NoneAhead /\ HoldsLatest
  BY <1>7 DEF NoneAhead, HoldsLatest
<1> QED
  BY <1>1, <1>4, <1>6, <1>8 DEF LoopInv

\* A step in which the keeper claims, launches and starts nothing.
Quiet ==
    /\ Stays
    /\ procs' \subseteq procs /\ held' = held
    /\ keeper'.tries = keeper.tries
    /\ \/ keeper' = keeper
       \/ keeper'.at = "gone"
       \/ /\ keeper'.at \in Working \ {"spawn"} /\ keeper.at \in Working
          /\ keeper'.key = keeper.key
       \/ /\ keeper'.at \in {"watch", "ask", "claim"} /\ ~At("gone")
          /\ \A k \in Keys : ~Engaged(k)
          /\ keeper'.at = "claim" => keeper'.key \in Keys

\* Such a step keeps the keeper's part of the invariant.
LEMMA QuietKeeps ==
  ASSUME LoopInv, Quiet
  PROVE  OwnsWork' /\ CountsTries' /\ NoneAhead' /\ HoldsLatest'
<1>1. \A k \in Keys : /\ Engaged(k)' => Engaged(k)
                      /\ intent'[k].attempts = intent[k].attempts
                      /\ Is(k, "relaunching")' => Is(k, "relaunching")
  BY DEF Quiet, Stays, Engaged, Is
<1>2. NoneAhead'
  <2>1. At("spawn")' => At("spawn") /\ k0' = k0
    BY DEF Quiet, At, k0, Working
  <2> QED
    BY <1>1, <2>1 DEF Quiet, LoopInv, NoneAhead
<1>3. At("gone") => At("gone")'
  BY DEF Quiet, At, Working, LoopInv, OwnsWork, Engaged
<1>4. HoldsLatest'
  BY <1>1, <1>3 DEF Quiet, LoopInv, HoldsLatest
<1>5. OwnsWork'
  BY <1>1, <1>3 DEF Quiet, LoopInv, OwnsWork, At, k0, Working
<1>6. CountsTries'
  BY <1>1 DEF Quiet, LoopInv, CountsTries, At, k0, Working
<1> QED
  BY <1>2, <1>4, <1>5, <1>6

\* What the loop relies on in a step: the plane moves by its own doors, and
\* whom a verify comes from.
Supervised ==
    \A k \in Keys : Is(k, "relaunching") /\ intent'[k].state = "verified" /\ ~At("gone")
                       => signer' = held
Sound == [PlaneNext]_planeVars /\ CallersTypeOK' /\ Supervised

\* The doors that only others use leave the keeper's part alone.
LEMMA DoorsAreSound ==
  ASSUME LoopInv, CallersTypeOK', NEW k \in Keys,
         \/ \E mode \in Modes, s \in Sessions : Request(k, mode, s)
         \/ ExpireOnTouch(k)
         \/ \E s \in Sessions : Arm(k, s)
         \/ \E token \in {0, 1}, to \in {"failed", "relaunching"} : Fail(k, token, to)
         \/ Lapse(k) \/ AgeOut(k)
         \/ UNCHANGED planeVars
  PROVE  Sound /\ Stays
<1>1. Stays /\ NoneSigned
  BY OthersStay DEF LoopInv, planeVars
<1>2. [PlaneNext]_planeVars
  BY DEF PlaneNext
<1> QED
  BY <1>1, <1>2 DEF Sound, Supervised, NoneSigned

\* A step that keeps the keeper where it is and starts no process.
LEMMA OthersAreQuiet ==
  ASSUME Stays, procs' \subseteq procs, UNCHANGED <<held, keeper>>
  PROVE  Quiet
  BY DEF Quiet

\* The adapter's and the stranger's steps.
LEMMA AskSound ==
  ASSUME LoopInv, NEW k \in Keys, NEW mode \in Modes, AskRestart(k, mode)
  PROVE  Sound /\ Quiet
<1>1. held.session \in Sessions
  BY DEF LoopInv, CallersTypeOK, Procs
<1>2. CallersTypeOK'
  BY DEF AskRestart, LoopInv, CallersTypeOK
<1>3. Request(k, mode, held.session) \/ UNCHANGED planeVars
  BY DEF AskRestart
<1>4. Sound /\ Stays
  BY <1>1, <1>2, <1>3, DoorsAreSound
<1> QED
  BY <1>4, OthersAreQuiet DEF AskRestart

\* The end of the agent's turn, which spends the arming whether or not the exit
\* door lets it through, keeps the loop's invariant.
LEMMA AgentEndSound == ASSUME LoopInv, AgentEnd PROVE Sound /\ Quiet
<1>1. held.session \in Sessions /\ armed \in Keys
  BY DEF LoopInv, CallersTypeOK, Procs, AgentEnd
<1>2. CallersTypeOK'
  BY DEF AgentEnd, LoopInv, CallersTypeOK
<1>3. Arm(armed, held.session) \/ ExpireOnTouch(armed) \/ UNCHANGED planeVars
  BY DEF AgentEnd
<1>4. Sound /\ Stays
  BY <1>1, <1>2, <1>3, DoorsAreSound
<1> QED
  BY <1>4, OthersAreQuiet DEF AgentEnd

\* Another omp of the workspace that asks or arms, and the clock, keep the loop's
\* invariant.
LEMMA StrangerSound ==
  ASSUME LoopInv, NEW k \in Keys,
         (\E mode \in Modes : StrangerAsks(k, mode)) \/ StrangerArms(k) \/ Clock(k)
  PROVE  Sound /\ Quiet
<1>1. Stranger \in Sessions
  BY SessionsAssumption
<1>2. UNCHANGED <<world, callers>>
  BY DEF StrangerAsks, StrangerArms, Clock
<1>3. CallersTypeOK'
  BY <1>2 DEF callers, LoopInv, CallersTypeOK
<1>4. \/ \E mode \in Modes : Request(k, mode, Stranger)
      \/ Arm(k, Stranger) \/ Lapse(k) \/ AgeOut(k)
  BY DEF StrangerAsks, StrangerArms, Clock
<1>5. Sound /\ Stays
  BY <1>1, <1>3, <1>4, DoorsAreSound
<1> QED
  BY <1>2, <1>5, OthersAreQuiet DEF callers

\* The end of an omp process, for whatever reason, keeps the loop's invariant.
LEMMA ExitSound ==
  ASSUME LoopInv, NEW p \in procs, Exit(p)
  PROVE  Sound /\ Quiet
<1>1. CallersTypeOK' /\ UNCHANGED planeVars
  BY DEF Exit, LoopInv, CallersTypeOK
<1>2. UNCHANGED intent
  BY <1>1 DEF planeVars
<1>3. Sound /\ Stays
  BY <1>1, <1>2 DEF Sound, Supervised, Stays, Is
<1> QED
  BY <1>3, OthersAreQuiet DEF Exit

\* Only the process that is held can sign while its keeper is there.
LEMMA VerifySound ==
  ASSUME LoopInv, NEW p \in procs, VerifySuccessor(p)
  PROVE  Sound /\ Quiet
<1>1. p \in Procs /\ p.of \in Keys /\ p.session \in Sessions /\ p.try \in 0..AttemptLimit
  BY DEF LoopInv, CallersTypeOK, Procs, VerifySuccessor
<1>2. Verify(p.of, p.session, p.try)
  BY DEF VerifySuccessor
<1>3. /\ Stays /\ \A j \in Keys \ {p.of} : intent'[j] = intent[j]
      /\ Is(p.of, "relaunching") /\ p.try = intent[p.of].attempts
  BY <1>1, <1>2, VerifySigns DEF LoopInv
<1>4. CallersTypeOK'
  BY <1>1 DEF VerifySuccessor, LoopInv, CallersTypeOK
<1>5. ~At("gone") => p = held
  BY <1>1, <1>3 DEF LoopInv, HoldsLatest
<1>6. Supervised
  BY <1>3, <1>5 DEF Supervised, VerifySuccessor, Is
<1>7. [PlaneNext]_planeVars
  BY <1>1, <1>2 DEF PlaneNext
<1> QED
  BY <1>3, <1>4, <1>6, <1>7, OthersAreQuiet DEF VerifySuccessor, Sound

\* A keeper that goes to another place has the same claim and the same count.
LEMMA GoToMoves ==
  ASSUME LoopInv, NEW place \in Places, GoTo(place)
  PROVE  /\ keeper' \in Keeper /\ keeper'.at = place
         /\ keeper'.key = keeper.key /\ keeper'.tries = keeper.tries
  BY DEF GoTo, LoopInv, CallersTypeOK, Keeper

\* A process put down, or left alone.
LEMMA KillKeeps ==
  ASSUME LoopInv, NEW p, Kill(p) \/ UNCHANGED <<procs, armed, leaving>>
  PROVE  /\ procs' \subseteq procs /\ procs' \subseteq Procs
         /\ armed' \in Keys \cup {NoKey} /\ leaving' \in BOOLEAN
  BY DEF Kill, LoopInv, CallersTypeOK

\* A step of the keeper away from its claim, or on with it, that leaves the
\* House alone.
LEMMA KeeperMoves ==
  ASSUME LoopInv, UNCHANGED planeVars, UNCHANGED <<world, held, signer>>,
         procs' \subseteq procs, armed' \in Keys \cup {NoKey}, leaving' \in BOOLEAN,
         keeper' \in Keeper, keeper'.tries = keeper.tries,
         \/ keeper' = keeper
         \/ keeper'.at = "gone"
         \/ /\ keeper'.at \in Working \ {"spawn"} /\ keeper.at \in Working
            /\ keeper'.key = keeper.key
         \/ /\ keeper'.at \in {"watch", "ask", "claim"} /\ ~At("gone")
            /\ \A k \in Keys : ~Engaged(k)
            /\ keeper'.at = "claim" => keeper'.key \in Keys
  PROVE  Sound /\ Quiet
<1>1. UNCHANGED intent
  BY DEF planeVars
<1>2. Stays /\ Supervised
  BY <1>1 DEF Stays, Supervised, Is
<1>3. CallersTypeOK'
  BY DEF LoopInv, CallersTypeOK
<1> QED
  BY <1>2, <1>3 DEF Sound, Quiet

\* Before its claim the keeper finds nobody else's.
LEMMA NothingEngaged ==
  ASSUME LoopInv, keeper.at \in {"watch", "ask", "claim"}
  PROVE  ~At("gone") /\ \A k \in Keys : ~Engaged(k)
  BY DEF LoopInv, OwnsWork, At, Working

\* A keeper that finds its child gone, or ends it because the armed exit is
\* overdue, keeps the loop's invariant.
LEMMA WatchSound == ASSUME LoopInv, Watch PROVE Sound /\ Quiet
<1>1. ~At("gone") /\ \A k \in Keys : ~Engaged(k)
  BY NothingEngaged DEF Watch, At
<1>2. GoTo("ask") /\ UNCHANGED planeVars /\ UNCHANGED <<world, held, signer>>
  BY DEF Watch
<1>3. Kill(held) \/ UNCHANGED <<procs, armed, leaving>>
  BY DEF Watch
<1> QED
  BY <1>1, <1>2, <1>3, GoToMoves, KillKeeps, KeeperMoves DEF Places

\* A keeper that asks the House for the pending intent keeps the loop's
\* invariant: whichever it is given, it holds no claim yet.
LEMMA AskKeeperSound == ASSUME LoopInv, Ask PROVE Sound /\ Quiet
<1>1. ~At("gone") /\ \A k \in Keys : ~Engaged(k)
  BY NothingEngaged DEF Ask, At
<1>2. UNCHANGED planeVars /\ UNCHANGED <<world, procs, held, armed, leaving, signer>>
  BY DEF Ask
<1>3. procs' \subseteq procs /\ armed' \in Keys \cup {NoKey} /\ leaving' \in BOOLEAN
  BY <1>2 DEF LoopInv, CallersTypeOK
<1>4. CASE GoTo("gone")
  BY <1>2, <1>3, <1>4, GoToMoves, KeeperMoves DEF Places
<1>5. ASSUME NEW k \in Pending, keeper' = [keeper EXCEPT !.at = "claim", !.key = k]
      PROVE  Sound /\ Quiet
  <2>1. k \in Keys
    BY <1>5 DEF Pending
  <2>2. /\ keeper' \in Keeper /\ keeper'.at = "claim" /\ keeper'.key = k
        /\ keeper'.tries = keeper.tries
    BY <1>5, <2>1 DEF LoopInv, CallersTypeOK, Keeper, Places
  <2> QED
    BY <1>1, <1>2, <1>3, <2>1, <2>2, KeeperMoves
<1> QED
  BY <1>4, <1>5 DEF Ask

\* A keeper that reads how many attempts were made keeps the loop's invariant.
LEMMA ReadWindowSound == ASSUME LoopInv, ReadWindow PROVE Sound /\ Quiet
<1>1. UNCHANGED planeVars /\ UNCHANGED <<world, procs, held, armed, leaving, signer>>
  BY DEF ReadWindow
<1>2. procs' \subseteq procs /\ armed' \in Keys \cup {NoKey} /\ leaving' \in BOOLEAN
  BY <1>1 DEF LoopInv, CallersTypeOK
<1>3. keeper.at \in Working /\ k0 \in Keys
  BY DEF ReadWindow, At, Working, LoopInv, CountsTries
<1>4. CASE GoTo("unproven") \/ GoTo("observe")
  BY <1>1, <1>2, <1>3, <1>4, GoToMoves, KeeperMoves DEF Places, Working
<1>5. CASE keeper' = [keeper EXCEPT !.at = "observe", !.window = intent[k0].attempts]
  <2>1. intent[k0].attempts \in 0..AttemptLimit
    BY <1>3 DEF LoopInv, PlaneInv, PlaneTypeOK, Rows
  <2>2. /\ keeper' \in Keeper /\ keeper'.at = "observe"
        /\ keeper'.key = keeper.key /\ keeper'.tries = keeper.tries
    BY <1>5, <2>1 DEF LoopInv, CallersTypeOK, Keeper, Places
  <2> QED
    BY <1>1, <1>2, <1>3, <2>2, KeeperMoves DEF Working
<1> QED
  BY <1>4, <1>5 DEF ReadWindow

\* A verified row is not one that is worked on any more.
LEMMA VerifiedEndsWork ==
  ASSUME LoopInv, keeper.at \in Working, Is(k0, "verified")
  PROVE  ~At("gone") /\ \A k \in Keys : ~Engaged(k)
  BY DEF LoopInv, OwnsWork, At, Working, Engaged, Is

\* A look at the intent while its successor starts keeps the loop's invariant.
LEMMA ObserveSound == ASSUME LoopInv, Observe PROVE Sound /\ Quiet
<1>1. UNCHANGED planeVars /\ UNCHANGED <<world, procs, held, armed, leaving, signer>>
  BY DEF Observe
<1>2. procs' \subseteq procs /\ armed' \in Keys \cup {NoKey} /\ leaving' \in BOOLEAN
  BY <1>1 DEF LoopInv, CallersTypeOK
<1>3. keeper.at \in Working
  BY DEF Observe, At, Working
<1>4. CASE Is(k0, "verified") /\ GoTo("watch")
  BY <1>1, <1>2, <1>3, <1>4, VerifiedEndsWork, GoToMoves, KeeperMoves DEF Places
<1>5. CASE GoTo("unproven") \/ GoTo("check")
  BY <1>1, <1>2, <1>3, <1>5, GoToMoves, KeeperMoves DEF Places, Working
<1> QED
  BY <1>4, <1>5 DEF Observe, GoTo

\* The last look, after the verify window, keeps the loop's invariant.
LEMMA CheckSound == ASSUME LoopInv, Check PROVE Sound /\ Quiet
<1>1. UNCHANGED planeVars /\ UNCHANGED <<world, procs, held, armed, leaving, signer>>
  BY DEF Check
<1>2. procs' \subseteq procs /\ armed' \in Keys \cup {NoKey} /\ leaving' \in BOOLEAN
  BY <1>1 DEF LoopInv, CallersTypeOK
<1>3. keeper.at \in Working
  BY DEF Check, At, Working
<1>4. CASE Is(k0, "verified") /\ GoTo("watch")
  BY <1>1, <1>2, <1>3, <1>4, VerifiedEndsWork, GoToMoves, KeeperMoves DEF Places
<1>5. CASE GoTo("unproven") \/ GoTo("observe")
  BY <1>1, <1>2, <1>3, <1>5, GoToMoves, KeeperMoves DEF Places, Working
<1> QED
  BY <1>4, <1>5 DEF Check

\* Killing a successor that did not prove itself keeps the loop's invariant.
LEMMA PutDownSound == ASSUME LoopInv, PutDown PROVE Sound /\ Quiet
<1>1. UNCHANGED planeVars /\ UNCHANGED <<world, held, signer>>
  BY DEF PutDown
<1>2. Kill(held) \/ UNCHANGED <<procs, armed, leaving>>
  BY DEF PutDown
<1>3. GoTo("relaunch") \/ GoTo("fail")
  BY DEF PutDown
<1>4. keeper.at \in Working
  BY DEF PutDown, At, Working
<1> QED
  BY <1>1, <1>2, <1>3, <1>4, GoToMoves, KillKeeps, KeeperMoves DEF Places, Working

\* A keeper that is stopped or dies keeps the loop's invariant: the row it had
\* claimed stays behind, and nobody works on it.
LEMMA StopSound == ASSUME LoopInv, Stop \/ Crash PROVE Sound /\ Quiet
<1>1. UNCHANGED planeVars /\ UNCHANGED <<world, held, signer>> /\ GoTo("gone")
  BY DEF Stop, Crash
<1>2. Kill(held) \/ UNCHANGED <<procs, armed, leaving>>
  BY DEF Stop, Crash
<1> QED
  BY <1>1, <1>2, GoToMoves, KillKeeps, KeeperMoves DEF Places

\* A step of the keeper that fails or leaves its intent by a door.
LEMMA KeeperLeaves ==
  ASSUME LoopInv, k0 \in Keys, GoTo("gone"),
         UNCHANGED <<world, procs, held, armed, leaving, signer>>,
         \/ ExpireOnTouch(k0)
         \/ \E token \in {0, 1}, to \in {"failed", "relaunching"} : Fail(k0, token, to)
         \/ UNCHANGED planeVars
  PROVE  Sound /\ Quiet
<1>1. /\ keeper' \in Keeper /\ keeper'.at = "gone"
      /\ keeper'.key = keeper.key /\ keeper'.tries = keeper.tries
  BY GoToMoves DEF Places
<1>2. CallersTypeOK'
  BY <1>1 DEF LoopInv, CallersTypeOK
<1>3. Sound /\ Stays
  BY <1>2, DoorsAreSound
<1> QED
  BY <1>1, <1>3 DEF Quiet

\* The one token of a row that was claimed.
LEMMA TokenIsAToken == ASSUME LoopInv, k0 \in Keys PROVE Token \in {0, 1}
  BY DEF LoopInv, PlaneInv, PlaneTypeOK, Rows, Token

\* Giving an intent up keeps the loop's invariant.
LEMMA FailSound == ASSUME LoopInv, FailIntent PROVE Sound /\ Quiet
<1>1. k0 \in Keys
  BY DEF FailIntent, At, Working, LoopInv, CountsTries
<1>2. Token \in {0, 1}
  BY <1>1, TokenIsAToken
<1>3. Fail(k0, Token, "failed") \/ UNCHANGED planeVars
  BY DEF FailIntent
<1>4. GoTo("gone") /\ UNCHANGED <<world, procs, held, armed, leaving, signer>>
  BY DEF FailIntent
<1>5. \/ \E token \in {0, 1}, to \in {"failed", "relaunching"} : Fail(k0, token, to)
      \/ UNCHANGED planeVars
  BY <1>2, <1>3
<1> QED
  BY <1>1, <1>4, <1>5, KeeperLeaves

\* What a claim leaves the keeper with: the only row at work is its own, and
\* nothing was launched for it.
LEMMA ClaimKeeps ==
  ASSUME LoopInv, ClaimIntent, Claim(k0)
  PROVE  Sound /\ OwnsWork' /\ CountsTries' /\ NoneAhead' /\ HoldsLatest'
<1>1. keeper.at = "claim" /\ k0 \in Keys
  BY DEF ClaimIntent, At, LoopInv, CountsTries
<1>2. intent[k0] \in Rows /\ Coherent(intent[k0])
  BY <1>1 DEF LoopInv, PlaneInv, PlaneTypeOK, RowsCohere
<1> DEFINE row == [intent[k0] EXCEPT !.state = "claimed", !.epoch = 1]
<1>3. Writes(k0, row) /\ intent[k0].epoch = 0
  BY <1>1, ClaimWrites DEF LoopInv
<1>4. row.state = "claimed" /\ row.attempts = intent[k0].attempts /\ row.attempts = 0
  BY <1>2, <1>3 DEF Rows, Coherent
<1> HIDE DEF row
<1>5. \A j \in Keys : intent'[j] = IF j = k0 THEN row ELSE intent[j]
  BY <1>1, <1>3, WritesOne DEF LoopInv
<1>6. \A j \in Keys : ~Engaged(j)
  BY <1>1, NothingEngaged
<1>7. UNCHANGED <<world, procs, held, armed, leaving, signer>>
  BY DEF ClaimIntent
<1>8. \/ keeper' = [keeper EXCEPT !.at = "relaunch", !.tries = 0, !.window = 0]
      \/ keeper' = [keeper EXCEPT !.at = "gone"]
  BY DEF ClaimIntent, GoTo
<1>9. /\ keeper' \in Keeper /\ keeper'.key = keeper.key
      /\ \/ keeper'.at = "relaunch" /\ keeper'.tries = 0
         \/ keeper'.at = "gone"
  <2>1. keeper \in Keeper /\ 0 \in 0..AttemptLimit
    BY LimitsAssumption DEF LoopInv, CallersTypeOK
  <2>2. CASE keeper' = [keeper EXCEPT !.at = "relaunch", !.tries = 0, !.window = 0]
    BY <2>1, <2>2 DEF Keeper, Places
  <2>3. CASE keeper' = [keeper EXCEPT !.at = "gone"]
    BY <2>1, <2>3 DEF Keeper, Places
  <2> QED
    BY <1>8, <2>2, <2>3
<1>10. \A j \in Keys : /\ Engaged(j)' => j = k0
                       /\ ~Is(j, "relaunching")'
                       /\ intent'[j].attempts = intent[j].attempts
  BY <1>4, <1>5, <1>6 DEF Engaged, Is
<1>11. OwnsWork'
  BY <1>9, <1>10 DEF OwnsWork, At, k0, Working
<1>12. CountsTries'
  BY <1>1, <1>4, <1>5, <1>9 DEF CountsTries, At, k0, Working
<1>13. NoneAhead'
  BY <1>7, <1>9, <1>10 DEF LoopInv, NoneAhead, At
<1>14. HoldsLatest'
  BY <1>10 DEF HoldsLatest
<1>15. CallersTypeOK'
  BY <1>7, <1>9 DEF LoopInv, CallersTypeOK
<1>16. Supervised
  BY <1>6 DEF Supervised, Engaged, Is
<1>17. [PlaneNext]_planeVars
  BY <1>1 DEF PlaneNext
<1> QED
  BY <1>11, <1>12, <1>13, <1>14, <1>15, <1>16, <1>17 DEF Sound

\* The keeper's claim, granted or refused, keeps the loop's invariant.
LEMMA ClaimSound ==
  ASSUME LoopInv, ClaimIntent
  PROVE  Sound /\ OwnsWork' /\ CountsTries' /\ NoneAhead' /\ HoldsLatest'
<1>1. k0 \in Keys
  BY DEF ClaimIntent, At, LoopInv, CountsTries
<1>2. CASE Claim(k0)
  BY <1>2, ClaimKeeps
<1>3. CASE ~Claim(k0)
  <2>1. GoTo("gone") /\ (ExpireOnTouch(k0) \/ UNCHANGED planeVars)
    BY <1>3 DEF ClaimIntent
  <2>2. UNCHANGED <<world, procs, held, armed, leaving, signer>>
    BY DEF ClaimIntent
  <2> QED
    BY <1>1, <2>1, <2>2, KeeperLeaves, QuietKeeps
<1> QED
  BY <1>2, <1>3

\* A relaunch is of an attempt that no process was launched for.
LEMMA RelaunchKeeps ==
  ASSUME LoopInv, RelaunchIntent, Relaunch(k0, Token)
  PROVE  Sound /\ OwnsWork' /\ CountsTries' /\ NoneAhead' /\ HoldsLatest'
<1>1. keeper.at = "relaunch" /\ k0 \in Keys /\ keeper.tries = intent[k0].attempts
  BY DEF RelaunchIntent, At, Working, LoopInv, CountsTries
<1>2. Token \in {0, 1}
  BY <1>1, TokenIsAToken
<1> DEFINE row == [intent[k0] EXCEPT !.state = "relaunching",
                                     !.attempts = intent[k0].attempts + 1,
                                     !.proof = intent[k0].attempts + 1]
<1>3. Writes(k0, row) /\ intent[k0].attempts < AttemptLimit
  BY <1>1, <1>2, RelaunchWrites DEF LoopInv
<1>4. \A j \in Keys : intent[j] \in Rows
  BY DEF LoopInv, PlaneInv, PlaneTypeOK
<1>5. row.state = "relaunching" /\ row.attempts = intent[k0].attempts + 1
  BY <1>1, <1>4 DEF Rows
<1> HIDE DEF row
<1>6. \A j \in Keys : intent'[j] = IF j = k0 THEN row ELSE intent[j]
  BY <1>1, <1>3, WritesOne DEF LoopInv
<1>7. UNCHANGED <<world, procs, held, armed, leaving, signer>>
  BY DEF RelaunchIntent
<1>8. ~Fail(k0, Token, "relaunching") /\ intent[k0].state \in {"claimed", "relaunching"}
  <2>1. intent[k0].state \in {"claimed", "relaunching"}
    BY DEF Relaunch, Is
  <2>2. intent'[k0].state = "relaunching"
    BY <1>1, <1>5, <1>6
  <2>3. Fail(k0, Token, "relaunching") => intent'[k0].state = "failed"
    BY <1>1, <1>4 DEF Fail, LoopInv, PlaneInv, PlaneTypeOK, Rows
  <2> QED
    BY <2>1, <2>2, <2>3
<1>9. \/ keeper' = [keeper EXCEPT !.at = "spawn", !.tries = @ + 1]
      \/ keeper' = [keeper EXCEPT !.at = "gone"]
  BY <1>8 DEF RelaunchIntent, GoTo
<1>10. keeper.tries + 1 \in 0..AttemptLimit
  BY <1>1, <1>3, <1>4, LimitsAssumption DEF Rows
<1>11. /\ keeper' \in Keeper /\ keeper'.key = keeper.key
       /\ \/ keeper'.at = "spawn" /\ keeper'.tries = keeper.tries + 1
          \/ keeper'.at = "gone"
  BY <1>9, <1>10 DEF LoopInv, CallersTypeOK, Keeper, Places
<1>12. \A j \in Keys : Engaged(j) => j = k0
  BY <1>1 DEF LoopInv, OwnsWork, At
<1>13. \A j \in Keys : Engaged(j)' => j = k0
  BY <1>6, <1>12 DEF Engaged
<1>14. OwnsWork'
  BY <1>11, <1>13 DEF OwnsWork, At, k0, Working
<1>15. CountsTries'
  BY <1>1, <1>5, <1>6, <1>11 DEF CountsTries, At, k0, Working
<1>16. \A p \in procs' : p.of \in Keys =>
          /\ p.try <= intent'[p.of].attempts
          /\ p.of = k0 => p.try < intent'[p.of].attempts
  <2> SUFFICES ASSUME NEW p \in procs, p.of \in Keys
               PROVE  /\ p.try <= intent'[p.of].attempts
                      /\ p.of = k0 => p.try < intent'[p.of].attempts
    BY <1>7
  <2>1. p.try <= intent[p.of].attempts /\ p.try \in Nat /\ intent[p.of].attempts \in Nat
    BY <1>4, LimitsAssumption DEF LoopInv, NoneAhead, CallersTypeOK, Procs, Rows
  <2> QED
    BY <1>5, <1>6, <2>1
<1>17. NoneAhead'
  BY <1>11, <1>16 DEF NoneAhead, k0
<1>18. HoldsLatest'
  <2> SUFFICES ASSUME NEW p \in procs, p.of \in Keys, Is(p.of, "relaunching")',
                      p.try = intent'[p.of].attempts
               PROVE  FALSE
    BY <1>7 DEF HoldsLatest
  <2>1. p.of = k0
    BY <1>13 DEF Engaged, Is
  <2>2. p.try < intent'[p.of].attempts
    BY <1>7, <1>16, <2>1
  <2>3. p.try \in Nat
    BY LimitsAssumption DEF LoopInv, CallersTypeOK, Procs
  <2> QED
    BY <2>2, <2>3
<1>19. CallersTypeOK'
  BY <1>7, <1>11 DEF LoopInv, CallersTypeOK
<1>20. Supervised
  BY <1>1, <1>5, <1>6 DEF Supervised, Is
<1>21. [PlaneNext]_planeVars
  BY <1>1, <1>2 DEF PlaneNext
<1> QED
  BY <1>14, <1>15, <1>17, <1>18, <1>19, <1>20, <1>21 DEF Sound

\* A relaunch, granted or refused, keeps the loop's invariant: the successor it
\* starts is the one the attempt counts.
LEMMA RelaunchSound ==
  ASSUME LoopInv, RelaunchIntent
  PROVE  Sound /\ OwnsWork' /\ CountsTries' /\ NoneAhead' /\ HoldsLatest'
<1>1. k0 \in Keys
  BY DEF RelaunchIntent, At, Working, LoopInv, CountsTries
<1>2. CASE Relaunch(k0, Token)
  BY <1>2, RelaunchKeeps
<1>3. CASE ~Relaunch(k0, Token)
  <2>1. GoTo("gone") /\ (Fail(k0, Token, "relaunching") \/ UNCHANGED planeVars)
    BY <1>3 DEF RelaunchIntent
  <2>2. UNCHANGED <<world, procs, held, armed, leaving, signer>>
    BY DEF RelaunchIntent
  <2>3. Token \in {0, 1}
    BY <1>1, TokenIsAToken
  <2>4. \/ \E token \in {0, 1}, to \in {"failed", "relaunching"} : Fail(k0, token, to)
        \/ UNCHANGED planeVars
    BY <2>1, <2>3
  <2> QED
    BY <1>1, <2>1, <2>2, <2>4, KeeperLeaves, QuietKeeps
<1> QED
  BY <1>2, <1>3

\* The process that is launched is the one that is held, and the only one that
\* carries the proof of its attempt.
LEMMA SpawnSound ==
  ASSUME LoopInv, Spawn
  PROVE  Sound /\ OwnsWork' /\ CountsTries' /\ NoneAhead' /\ HoldsLatest'
<1>1. keeper.at = "spawn" /\ k0 \in Keys /\ keeper.tries = intent[k0].attempts
  BY DEF Spawn, At, Working, LoopInv, CountsTries
<1>2. UNCHANGED planeVars /\ UNCHANGED <<world, signer>> /\ armed' = NoKey /\ leaving' = FALSE
  BY DEF Spawn
<1>3. CASE GoTo("unproven") /\ UNCHANGED <<procs, held>>
  <2>1. Sound /\ Quiet
    BY <1>1, <1>2, <1>3, GoToMoves, KeeperMoves DEF Places, Working
  <2> QED
    BY <2>1, QuietKeeps
<1>4. ASSUME NEW s \in Successors(k0),
             procs' = procs \cup {[of |-> k0, try |-> keeper.tries, session |-> s]},
             held' = [of |-> k0, try |-> keeper.tries, session |-> s],
             GoTo("window")
      PROVE  Sound /\ OwnsWork' /\ CountsTries' /\ NoneAhead' /\ HoldsLatest'
  <2>1. s \in Sessions
    <3>1. intent[k0].session \in Sessions
      BY <1>1 DEF LoopInv, PlaneInv, PlaneTypeOK, Rows
    <3> QED
      BY <1>4, <3>1, SessionsAssumption DEF Successors
  <2>2. held' \in Procs /\ held'.of = k0 /\ held'.try = keeper.tries
    BY <1>1, <1>4, <2>1 DEF LoopInv, CallersTypeOK, Keeper, Procs
  <2>3. /\ keeper' \in Keeper /\ keeper'.at = "window"
        /\ keeper'.key = keeper.key /\ keeper'.tries = keeper.tries
    BY <1>4, GoToMoves DEF Places
  <2>4. CallersTypeOK'
    BY <1>2, <1>4, <2>2, <2>3 DEF LoopInv, CallersTypeOK
  <2>5. UNCHANGED intent
    BY <1>2 DEF planeVars
  <2>6. OwnsWork'
    BY <1>1, <2>3, <2>5 DEF LoopInv, OwnsWork, At, k0, Engaged, Working
  <2>7. CountsTries'
    BY <1>1, <2>3, <2>5 DEF CountsTries, At, k0, Working
  <2>8. intent[k0].attempts \in Nat
    BY <1>1, LimitsAssumption DEF LoopInv, PlaneInv, PlaneTypeOK, Rows
  <2>9. NoneAhead'
    BY <1>1, <1>4, <2>2, <2>3, <2>5, <2>8 DEF LoopInv, NoneAhead, At
  <2>10. \A p \in procs : p.of = k0 => p.try < intent[k0].attempts
    BY <1>1 DEF LoopInv, NoneAhead, At
  <2>11. \A p \in procs : p.of \in Keys /\ Is(p.of, "relaunching") => p.of = k0
    BY <1>1 DEF LoopInv, OwnsWork, At, Engaged, Is
  <2>12. \A p \in procs : p.try \in Nat
    BY LimitsAssumption DEF LoopInv, CallersTypeOK, Procs
  <2>13. HoldsLatest'
    <3> SUFFICES ASSUME NEW p \in procs', p.of \in Keys, Is(p.of, "relaunching")',
                        p.try = intent'[p.of].attempts
                 PROVE  p = held'
      BY DEF HoldsLatest
    <3>1. CASE p \in procs
      BY <2>5, <2>8, <2>10, <2>11, <2>12, <3>1 DEF Is
    <3> QED
      BY <1>4, <3>1
  <2>14. Supervised
    BY <2>5 DEF Supervised, Is
  <2> QED
    BY <1>2, <2>4, <2>6, <2>7, <2>9, <2>13, <2>14 DEF Sound
<1> QED
  BY <1>3, <1>4 DEF Spawn

\* Every step of the loop keeps its invariant, moves the plane only by its own
\* doors, and signs only for what the keeper holds.
LEMMA LoopStep == ASSUME LoopInv, [Next]_vars PROVE LoopInv' /\ Sound
<1>1. ASSUME Sound, OwnsWork' /\ CountsTries' /\ NoneAhead' /\ HoldsLatest'
      PROVE  LoopInv' /\ Sound
  BY <1>1, PlaneStep DEF LoopInv, Sound
<1>2. ASSUME Sound, Quiet PROVE LoopInv' /\ Sound
  BY <1>1, <1>2, QuietKeeps
<1>3. CASE UNCHANGED vars
  <2>1. UNCHANGED planeVars /\ UNCHANGED <<world, held, signer, procs, armed, leaving, keeper>>
    BY <1>3 DEF vars, planeVars, callers
  <2>2. Sound /\ Quiet
    BY <2>1, KeeperMoves DEF LoopInv, CallersTypeOK
  <2> QED
    BY <1>2, <2>2
<1>4. ASSUME NEW k \in Keys, NEW mode \in Modes, AskRestart(k, mode) PROVE LoopInv' /\ Sound
  BY <1>2, <1>4, AskSound
<1>5. ASSUME NEW k \in Keys,
             (\E mode \in Modes : StrangerAsks(k, mode)) \/ StrangerArms(k) \/ Clock(k)
      PROVE  LoopInv' /\ Sound
  BY <1>2, <1>5, StrangerSound
<1>6. ASSUME AgentEnd PROVE LoopInv' /\ Sound
  BY <1>2, <1>6, AgentEndSound
<1>7. ASSUME NEW p \in procs, Exit(p) \/ VerifySuccessor(p) PROVE LoopInv' /\ Sound
  BY <1>2, <1>7, ExitSound, VerifySound
<1>8. ASSUME KeeperStep PROVE LoopInv' /\ Sound
  BY <1>1, <1>2, <1>8, WatchSound, AskKeeperSound, ClaimSound, RelaunchSound, SpawnSound,
     ReadWindowSound, ObserveSound, CheckSound, PutDownSound, FailSound DEF KeeperStep
<1>9. ASSUME Stop \/ Crash PROVE LoopInv' /\ Sound
  BY <1>2, <1>9, StopSound
<1>10. CASE Next
  BY <1>10, <1>4, <1>5, <1>6, <1>7, <1>8, <1>9 DEF Next
<1> QED
  BY <1>3, <1>10

\* The loop's invariant holds in every behaviour of the loop.
LEMMA LoopInvariant == Spec => []LoopInv
  BY LoopStarts, LoopStep, PTL DEF Spec

\* Types of the loop.
THEOREM LoopTypes == Spec => []LoopTypeOK
<1>1. LoopInv => LoopTypeOK
  BY DEF LoopInv, PlaneInv, CallersTypeOK, LoopTypeOK
<1> QED
  BY <1>1, LoopInvariant, PTL

\* The loop moves the House's rows by the five doors alone, so that whatever
\* holds of the doors holds of the loop.
THEOREM LoopUsesTheDoors == Spec => PlaneSpec
<1>1. Init => PlaneInit
  BY DEF Init
<1>2. LoopInv /\ [Next]_vars => [PlaneNext]_planeVars
  BY LoopStep DEF Sound
<1> QED
  BY <1>1, <1>2, LoopInvariant, PTL DEF Spec, PlaneSpec

\* An intent is verified by the process its keeper holds: a child of an earlier
\* attempt that outlived its kill never signs for the later one, whatever is
\* lost, late or killed.
THEOREM SupervisedSign == Spec => VerifiedIsSupervised
<1>1. LoopInv /\ [Next]_vars => [Supervised]_vars
  BY LoopStep DEF Sound
<1>2. VerifiedIsSupervised <=> [][Supervised]_vars
  BY DEF VerifiedIsSupervised, Supervised
<1> QED
  BY <1>1, <1>2, LoopInvariant, PTL DEF Spec

-----------------------------------------------------------------------------
(* The loop: a keeper that nothing disturbs leaves no claim behind.         *)

NoneEngaged == \A k \in Keys : ~Engaged(k)
LeavesNone == world = "calm" /\ At("gone") => NoneEngaged

\* The intent a working keeper holds is the only one engaged: once a door has ended
\* it, or it is found ended, none is.
LEMMA WorkEnds ==
  ASSUME LoopInv, keeper.at \in Working,
         \/ \E to \in {"failed", "relaunching"} : Fail(k0, Token, to)
         \/ ~Engaged(k0) /\ UNCHANGED planeVars
  PROVE  NoneEngaged'
<1>1. k0 \in Keys /\ \A k \in Keys : Engaged(k) => k = k0
  BY DEF LoopInv, CountsTries, OwnsWork, At, Working
<1>2. CASE ~Engaged(k0) /\ UNCHANGED planeVars
  BY <1>1, <1>2 DEF NoneEngaged, Engaged, planeVars
<1>3. ASSUME NEW to \in {"failed", "relaunching"}, Fail(k0, Token, to) PROVE NoneEngaged'
  <2> DEFINE row == [intent[k0] EXCEPT !.state = "failed", !.proof = 0]
  <2>1. intent[k0] \in Rows
    BY <1>1 DEF LoopInv, PlaneInv, PlaneTypeOK
  <2>2. row.state = "failed"
    BY <2>1 DEF Rows
  <2>3. Token \in {0, 1}
    BY <1>1, TokenIsAToken
  <2>4. Writes(k0, row)
    BY <1>1, <1>3, <2>3, FailWrites DEF LoopInv
  <2> HIDE DEF row
  <2>5. \A j \in Keys : intent'[j] = IF j = k0 THEN row ELSE intent[j]
    BY <1>1, <2>4, WritesOne DEF LoopInv
  <2> QED
    BY <1>1, <2>2, <2>5 DEF NoneEngaged, Engaged
<1> QED
  BY <1>2, <1>3

\* A step that leaves the keeper where it is engages no row.
LEMMA BystandersEngageNone ==
  ASSUME LoopInv, LeavesNone, Stays, UNCHANGED <<world, keeper>> PROVE LeavesNone'
  BY DEF LeavesNone, NoneEngaged, Engaged, Stays, At

\* A step of the keeper: it goes only when its intent has ended, or before it has one.
LEMMA KeeperGoesDone ==
  ASSUME LoopInv, KeeperStep, world = "calm" PROVE keeper'.at = "gone" => NoneEngaged'
<1>0. ~Faulty
  BY DEF Faulty
<1>1. ASSUME NEW place \in Places \ {"gone"}, GoTo(place) PROVE keeper'.at # "gone"
  BY <1>1, GoToMoves
<1>2. CASE Watch \/ Check \/ PutDown
  BY <1>1, <1>2 DEF Watch, Check, PutDown, Places
<1>3. CASE Spawn
  BY <1>1, <1>3 DEF Spawn, Places
<1>4. CASE ReadWindow
  <2>1. keeper' = [keeper EXCEPT !.at = "observe", !.window = intent[k0].attempts]
    BY <1>0, <1>4 DEF ReadWindow
  <2> QED
    BY <2>1 DEF LoopInv, CallersTypeOK, Keeper
<1>5. CASE Observe
  BY <1>0, <1>1, <1>5 DEF Observe, Places
<1>6. CASE Ask
  BY <1>6, NothingEngaged DEF Ask, At, NoneEngaged, Engaged, planeVars
<1>7. CASE ClaimIntent
  <2>1. keeper.at = "claim" /\ k0 \in Keys /\ \A k \in Keys : ~Engaged(k)
    BY <1>7, NothingEngaged DEF ClaimIntent, At, LoopInv, CountsTries
  <2>2. CASE keeper' = [keeper EXCEPT !.at = "relaunch", !.tries = 0, !.window = 0]
    BY <2>2 DEF LoopInv, CallersTypeOK, Keeper
  <2>3. CASE ExpireOnTouch(k0) \/ UNCHANGED planeVars
    <3>1. Stays
      BY <2>1, <2>3, OthersStay DEF LoopInv, planeVars
    <3> QED
      BY <2>1, <3>1 DEF NoneEngaged, Engaged, Stays
  <2> QED
    BY <1>0, <1>7, <2>2, <2>3 DEF ClaimIntent
<1>8. CASE RelaunchIntent
  <2>1. keeper.at \in Working
    BY <1>8 DEF RelaunchIntent, At, Working
  <2>2. CASE keeper' = [keeper EXCEPT !.at = "spawn", !.tries = @ + 1]
    BY <2>2 DEF LoopInv, CallersTypeOK, Keeper
  <2>3. CASE \/ Fail(k0, Token, "relaunching")
             \/ intent[k0].state \notin {"claimed", "relaunching"} /\ UNCHANGED planeVars
    BY <2>1, <2>3, WorkEnds DEF Engaged
  <2> QED
    BY <1>0, <1>8, <2>2, <2>3 DEF RelaunchIntent
<1>9. CASE FailIntent
  <2>1. keeper.at \in Working
    BY <1>9 DEF FailIntent, At, Working
  <2>2. \/ Fail(k0, Token, "failed")
        \/ ~Engaged(k0) /\ UNCHANGED planeVars
    BY <1>0, <1>9 DEF FailIntent, Engaged
  <2> QED
    BY <2>1, <2>2, WorkEnds
<1> QED
  BY <1>2, <1>3, <1>4, <1>5, <1>6, <1>7, <1>8, <1>9 DEF KeeperStep

\* Every step keeps it so.
LEMMA LeavesNoneStep == ASSUME LoopInv, LeavesNone, [Next]_vars PROVE LeavesNone'
<1>1. CASE UNCHANGED vars
  BY <1>1 DEF vars, callers, LeavesNone, NoneEngaged, Engaged, At
<1>2. ASSUME NEW k \in Keys, NEW mode \in Modes, AskRestart(k, mode) PROVE LeavesNone'
  BY <1>2, AskSound, BystandersEngageNone DEF Quiet, AskRestart
<1>3. ASSUME NEW k \in Keys,
             (\E mode \in Modes : StrangerAsks(k, mode)) \/ StrangerArms(k) \/ Clock(k)
      PROVE  LeavesNone'
  <2>1. UNCHANGED <<world, keeper>>
    BY <1>3 DEF StrangerAsks, StrangerArms, Clock, callers
  <2> QED
    BY <1>3, <2>1, StrangerSound, BystandersEngageNone DEF Quiet
<1>4. CASE AgentEnd
  BY <1>4, AgentEndSound, BystandersEngageNone DEF Quiet, AgentEnd
<1>5. ASSUME NEW p \in procs, Exit(p) \/ VerifySuccessor(p) PROVE LeavesNone'
  <2>1. UNCHANGED <<world, keeper>>
    BY <1>5 DEF Exit, VerifySuccessor
  <2> QED
    BY <1>5, <2>1, ExitSound, VerifySound, BystandersEngageNone DEF Quiet
<1>6. CASE KeeperStep
  <2>1. world' = world
    BY <1>6 DEF KeeperStep, Watch, Ask, ClaimIntent, RelaunchIntent, Spawn, ReadWindow, Observe,
                Check, PutDown, FailIntent
  <2> QED
    BY <1>6, <2>1, KeeperGoesDone DEF LeavesNone, At
<1>7. CASE Stop \/ Crash
  BY <1>7 DEF Stop, Crash, Faulty, LeavesNone
<1> QED
  BY <1>1, <1>2, <1>3, <1>4, <1>5, <1>6, <1>7 DEF Next

\* A keeper that is neither stopped nor cut off never walks away from its claim: while
\* a row is claimed or relaunching, the keeper is at work on that row, however many
\* attempts fail, expire or are refused.
THEOREM CalmClaimsAreWorkedOn == Spec => []CalmKeeperFinishes
<1>1. Init => LeavesNone
  BY DEF Init, LeavesNone, At
<1>2. LoopInv /\ LeavesNone /\ [Next]_vars => LeavesNone'
  BY LeavesNoneStep
<1>3. LoopInv /\ LeavesNone => CalmKeeperFinishes
  BY DEF LoopInv, OwnsWork, LeavesNone, NoneEngaged, Engaged, CalmKeeperFinishes, At, Working
<1> QED
  BY <1>1, <1>2, <1>3, LoopInvariant, PTL DEF Spec
=============================================================================
