------------------------------- MODULE MCHouse -------------------------------
(***************************************************************************)
(* The parts of the house that share no state, each in its own behaviours:  *)
(* the first state chooses the part that runs and the others stay at rest.  *)
(***************************************************************************)
EXTENDS DocketClock, HallwayMessages, Installer, InsulaWriter,
        GigaReview, LessonTriggers, Supervisor, TLC

CONSTANTS y, z, ClockQuest

VARIABLE part

houseVars == <<clockVars, messagesVars, installerVars, insulaVars, reviewVars,
               triggerVars, supervisorVars, part>>

Parts == {"docket", "clock", "messages", "installer", "insula", "review", "triggers",
          "service"}

MCHome == (y :> "B") @@ (z :> "B")
MCApi == [r \in Releases |-> IF r = 1 THEN 1 ELSE 2]
MCPlan == <<"postgresql", "nats">>

HouseInit ==
    /\ part \in Parts
    /\ ClockInit /\ MessagesInit /\ InstallerInit /\ InsulaInit
    /\ ReviewInit /\ (part # "review" => \A c \in GigaCandidates : KindOf(c) = "memory")
    /\ TriggerInit /\ SupervisorInit

\* The clock watches one quest, claimed once, and what it re-arms; the board
\* alone has two, of which one is claimed a second time.
ClockBound == /\ \A q \in Quests \ {ClockQuest} :
                    /\ quest'[q].parent = NoQuest => UNCHANGED quest[q]
                    /\ attempts'[q] = <<>>
              /\ Len(attempts'[ClockQuest]) <= 1
BoardBound == \A q \in Quests \ {ClockQuest} : Len(attempts'[q]) <= 1
\* The last command of a machine meets no mishap.  Two releases of one API are
\* alike: the third comes to a machine that knows the second.
Known(v) == \/ v \in disk.versions \cup disk.adapters \cup Kept(disk.adapter)
            \/ v \in {disk.current.version, disk.current.previous, database, command.target}
            \/ \E n \in DOMAIN dumps : dumps[n] = v
InstallerBound ==
    /\ spent'.commands = MaxCommands => spent'.mishaps = 0
    /\ ~Known(3) /\ Known(3)' => Known(2)
\* A third review is made only while the clock has not moved.
ReviewBound == Len(reviews') = MaxReviews => stamp' = 1

HouseNext ==
    \/ /\ part = "docket" /\ DocketNext /\ BoardBound
       /\ UNCHANGED <<sweepVars, messagesVars, installerVars, insulaVars,
                      reviewVars, triggerVars, supervisorVars, part>>
    \/ /\ part = "clock" /\ ClockNext /\ ClockBound
       /\ UNCHANGED <<messagesVars, installerVars, insulaVars, reviewVars,
                      triggerVars, supervisorVars, part>>
    \/ /\ part = "messages" /\ MessagesNext
       /\ UNCHANGED <<clockVars, installerVars, insulaVars, reviewVars,
                      triggerVars, supervisorVars, part>>
    \/ /\ part = "installer" /\ InstallerNext /\ InstallerBound
       /\ UNCHANGED <<clockVars, messagesVars, insulaVars, reviewVars,
                      triggerVars, supervisorVars, part>>
    \/ /\ part = "insula" /\ InsulaNext
       /\ UNCHANGED <<clockVars, messagesVars, installerVars, reviewVars,
                      triggerVars, supervisorVars, part>>
    \/ /\ part = "review" /\ ReviewNext /\ ReviewBound
       /\ UNCHANGED <<clockVars, messagesVars, installerVars, insulaVars,
                      triggerVars, supervisorVars, part>>
    \/ /\ part = "triggers" /\ TriggerNext
       /\ UNCHANGED <<clockVars, messagesVars, installerVars, insulaVars,
                      reviewVars, supervisorVars, part>>
    \/ /\ part = "service" /\ SupervisorNext
       /\ UNCHANGED <<clockVars, messagesVars, installerVars, insulaVars,
                      reviewVars, triggerVars, part>>

HouseSpec == HouseInit /\ [][HouseNext]_houseVars

HouseTypeOK == /\ ClockTypeOK /\ MessagesTypeOK
               /\ InstallerTypeOK /\ InsulaTypeOK
               /\ ReviewTypeOK /\ TriggerTypeOK /\ SupervisorTypeOK
=============================================================================
