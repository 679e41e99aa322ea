------------------------------ MODULE Supervisor ------------------------------
(***************************************************************************)
(* The Windows service that runs the managed children                       *)
(* (athanor-install/src/service.rs, supervisor.rs), and the installer's     *)
(* maintenance of the managed PostgreSQL (native_runtime.rs), which wants    *)
(* the server to itself.                                                    *)
(*                                                                          *)
(* A child serves once its port accepts.  One that the service process lets  *)
(* go of lives on as a stray and keeps its port: a new child of that name    *)
(* cannot serve beside it and exits.                                         *)
(***************************************************************************)
EXTENDS Naturals, Sequences

CONSTANTS Plan,            \* the children in the order they are started
          MaxTroubles      \* bound: faults

Children == {Plan[i] : i \in DOMAIN Plan}
Database == Plan[1]

ASSUME SupervisorAssumption == /\ Plan \in Seq(Children) /\ Plan # <<>> /\ MaxTroubles \in Nat
                               /\ \A i, j \in DOMAIN Plan : Plan[i] = Plan[j] => i = j

VARIABLES scm,      \* what the service manager shows: the state and a failure code
          runner,   \* the service process: where it is, at which child, and what it met
          child,    \* each child of the service process, and a stray of its name
          stopSent, \* the stop control has been accepted
          upkeep,   \* with_database
          cluster,  \* the database files: absent, initialized, or with the database made
          troubles  \* faults so far

supervisorVars == <<scm, runner, child, stopSent, upkeep, cluster, troubles>>

Off == [pc |-> "off", at |-> 0, after |-> "none", failures |-> {}]
NoChild == [own |-> "none", asked |-> FALSE, stray |-> FALSE]

SupervisorInit ==
    /\ scm = [state |-> "stopped", failed |-> FALSE]
    /\ runner = Off
    /\ child = [c \in Children |-> NoChild]
    /\ stopSent = FALSE
    /\ upkeep = [pc |-> "idle", fresh |-> FALSE]
    /\ cluster = "absent"
    /\ troubles = 0

Trouble == troubles < MaxTroubles /\ troubles' = troubles + 1
NoTrouble == UNCHANGED troubles

Alive(c) == child[c].own \in {"starting", "serving"}
UpkeepServes == upkeep.pc \in {"create", "act", "stop"}
\* Something answers on the child's port.
PortOpen(c) == \/ child[c].own = "serving" \/ child[c].stray
               \/ c = Database /\ UpkeepServes
PortTaken(c) == child[c].stray \/ (c = Database /\ UpkeepServes)

----------------------------------------------------------------------------
(* The service process.                                                    *)

Others == <<stopSent, upkeep, cluster>>
Here == Plan[runner.at]

\* The process ends: what it still owns is nobody's.
Ended(failed) ==
    /\ scm' = [state |-> "stopped", failed |-> failed]
    /\ runner' = Off
    /\ child' = [c \in Children |->
                   [NoChild EXCEPT !.stray = child[c].stray \/ Alive(c)]]
    /\ stopSent' = FALSE
    /\ UNCHANGED <<upkeep, cluster>>

Goes(pc, i) == runner' = [runner EXCEPT !.pc = pc, !.at = i]

\* stop_names of the children started so far; then the run has failed.
CleansUp(upTo) ==
    /\ runner' = [runner EXCEPT !.pc = IF upTo = 0 THEN "stopped" ELSE "ask", !.at = upTo,
                                !.after = "failed"]
    /\ UNCHANGED <<scm, child, Others>>

\* run_registered before the first child; a configuration it cannot use ends it.
BeginRun ==
    /\ runner.pc = "begin"
    /\ \/ NoTrouble /\ Goes("spawn", 1) /\ UNCHANGED <<scm, child, Others>>
       \/ Trouble /\ Ended(TRUE)

\* A child that cannot be started ends the run with those before it stopped.
SpawnChild ==
    /\ runner.pc = "spawn"
    /\ \/ /\ NoTrouble /\ Goes("wait", runner.at)
          /\ child' = [child EXCEPT ![Here].own = "starting", ![Here].asked = FALSE]
          /\ UNCHANGED <<scm, Others>>
       \/ Trouble /\ CleansUp(runner.at - 1)

\* A report of progress fails: the run ends and its children are not stopped.
ReportFails == runner.pc = "wait" /\ Trouble /\ Ended(TRUE)

\* Ready: not seen to exit, and something accepts on its port.
IsReady(c) == Alive(c) /\ PortOpen(c)

ChildReady ==
    /\ runner.pc = "wait" /\ IsReady(Here)
    /\ IF runner.at < Len(Plan)
       THEN Goes("spawn", runner.at + 1) /\ UNCHANGED scm
       ELSE Goes("running", 0) /\ scm' = [scm EXCEPT !.state = "running"]
    /\ NoTrouble
    /\ UNCHANGED <<child, Others>>

\* It exited before it was ready, or START_TIMEOUT passed.
ChildNotReady ==
    /\ runner.pc = "wait" /\ ~IsReady(Here)
    /\ NoTrouble /\ CleansUp(runner.at)

\* The stop is received; a report that fails ends the run with its children.
TakeStop ==
    /\ runner.pc = "running" /\ stopSent
    /\ \/ /\ NoTrouble
          /\ scm' = [scm EXCEPT !.state = "stop_pending"]
          /\ runner' = [runner EXCEPT !.pc = "ask", !.at = Len(Plan), !.after = "clean"]
          /\ stopSent' = FALSE
          /\ UNCHANGED <<child, upkeep, cluster>>
       \/ Trouble /\ Ended(TRUE)

NextToStop(i) == IF i = 1 THEN "stopped" ELSE "ask"
OnToNext(failed) ==
    runner' = [runner EXCEPT !.pc = NextToStop(runner.at), !.at = @ - 1, !.failures = @ \cup failed]

\* request_stop: one that fails leaves the child be, and the next is asked.  To
\* ask a child that has exited may fail of itself.
AskStop ==
    /\ runner.pc = "ask"
    /\ \/ /\ NoTrouble /\ Goes("await", runner.at)
          /\ child' = [child EXCEPT ![Here].asked = TRUE]
       \/ /\ IF child[Here].own = "exited" THEN NoTrouble ELSE Trouble
          /\ OnToNext({Here}) /\ UNCHANGED child
    /\ UNCHANGED <<scm, Others>>

\* wait_exit: it is gone, or STOP_TIMEOUT passes and it is killed.  A wait or a
\* kill that fails leaves it.
AwaitExit ==
    /\ runner.pc = "await"
    /\ \/ /\ child[Here].own = "exited" /\ NoTrouble
          /\ OnToNext({}) /\ UNCHANGED child
       \/ /\ Alive(Here) /\ NoTrouble
          /\ OnToNext({}) /\ child' = [child EXCEPT ![Here].own = "exited"]
       \/ Trouble /\ OnToNext({Here}) /\ UNCHANGED child
    /\ UNCHANGED <<scm, Others>>

FailedRun_StartOnly(r) == r.after = "failed"
FailedRun(r) == r.after = "failed" \/ r.failures # {}

\* The last report: a failed start, or a stop that left anything, is a failure.
EndRun ==
    /\ runner.pc = "stopped"
    /\ \/ NoTrouble /\ Ended(FailedRun(runner))
       \/ Trouble /\ Ended(TRUE)

RunnerDies == runner.pc \notin {"off", "stopped"} /\ Trouble /\ Ended(TRUE)

RunnerStep ==
    \/ BeginRun \/ SpawnChild \/ ChildReady \/ ChildNotReady \/ TakeStop \/ AskStop
    \/ AwaitExit \/ EndRun

----------------------------------------------------------------------------
(* The children.                                                           *)

Self == <<scm, runner, stopSent, upkeep, cluster>>

\* PostgreSQL needs its files and serves one server on them; NATS its port.
CanServe(c) == ~PortTaken(c) /\ (c = Database => cluster # "absent")

ChildServes(c) ==
    /\ child[c].own = "starting" /\ CanServe(c)
    /\ child' = [child EXCEPT ![c].own = "serving"]
    /\ NoTrouble /\ UNCHANGED Self

\* It cannot serve, obeys, or dies.
ChildExits(c) ==
    /\ Alive(c)
    /\ IF child[c].asked \/ (child[c].own = "starting" /\ ~CanServe(c)) THEN NoTrouble ELSE Trouble
    /\ child' = [child EXCEPT ![c].own = "exited"]
    /\ UNCHANGED Self

StrayEnds(c) ==
    /\ child[c].stray
    /\ child' = [child EXCEPT ![c].stray = FALSE]
    /\ NoTrouble /\ UNCHANGED Self

----------------------------------------------------------------------------
(* Whoever starts and stops the service.                                   *)

\* At boot, by the operator, the installer or ensure_running, which otherwise
\* only looks at the status and the ports.
StartedByOther ==
    /\ scm.state = "stopped"
    /\ scm' = [state |-> "start_pending", failed |-> FALSE]
    /\ runner' = [Off EXCEPT !.pc = "begin"]
    /\ NoTrouble /\ UNCHANGED <<child, stopSent, upkeep, cluster>>

\* The control is accepted while running; whoever sends it does not wait.
StoppedByOther ==
    /\ scm.state = "running" /\ ~stopSent
    /\ stopSent' = TRUE
    /\ NoTrouble /\ UNCHANGED <<scm, runner, child, upkeep, cluster>>

----------------------------------------------------------------------------
(* with_database, of the installer's migrate and restore.                  *)

Service == <<scm, runner>>
UpkeepAt(pc) == upkeep.pc = pc
UpkeepGoes(pc) == upkeep' = [upkeep EXCEPT !.pc = pc]
UpkeepEnds == upkeep' = [pc |-> "idle", fresh |-> FALSE]

\* What a failed pg_ctl leaves of the server.
ServerLeft(left) == child' = [child EXCEPT ![Database].stray = @ \/ left]

\* The service is told to stop first; one that is starting, or stopping
\* already, refuses the control and the installer goes no further.
BeginUpkeep ==
    /\ UpkeepAt("idle") /\ scm.state \in {"running", "stopped"} /\ ~stopSent
    /\ stopSent' = (scm.state = "running")
    /\ UpkeepGoes("files")
    /\ NoTrouble /\ UNCHANGED <<Service, child, cluster>>

\* initialize_postgres: only where there are no files.
InitializePostgres ==
    /\ UpkeepAt("files")
    /\ \/ /\ cluster # "absent" /\ NoTrouble
          /\ UpkeepGoes("start") /\ UNCHANGED cluster
       \/ /\ cluster = "absent" /\ NoTrouble
          /\ upkeep' = [pc |-> "start", fresh |-> TRUE] /\ cluster' = "initialized"
       \/ /\ cluster = "absent" /\ Trouble
          /\ UpkeepEnds /\ UNCHANGED cluster
    /\ UNCHANGED <<Service, child, stopSent>>

\* pg_ctl start is refused while a server has the files.
StartPostgres ==
    /\ UpkeepAt("start")
    /\ \/ /\ ~Alive(Database) /\ ~child[Database].stray /\ NoTrouble
          /\ UpkeepGoes(IF upkeep.fresh THEN "create" ELSE "act") /\ UNCHANGED child
       \/ /\ Alive(Database) \/ child[Database].stray
          /\ NoTrouble /\ UpkeepEnds /\ UNCHANGED child
       \/ /\ Trouble /\ UpkeepEnds
          /\ \E left \in BOOLEAN : ServerLeft(left /\ ~Alive(Database))
    /\ UNCHANGED <<Service, stopSent, cluster>>

\* createdb, only on files made by this very call; its failure stops the server.
CreateDatabase ==
    /\ UpkeepAt("create")
    /\ \/ NoTrouble /\ UpkeepGoes("act") /\ cluster' = "made" /\ UNCHANGED child
       \/ /\ Trouble /\ UpkeepEnds /\ UNCHANGED cluster
          /\ \E left \in BOOLEAN : ServerLeft(left)
    /\ UNCHANGED <<Service, stopSent>>

\* The action, whatever comes of it, and then the stop.
Act == /\ UpkeepAt("act") /\ UpkeepGoes("stop")
       /\ NoTrouble /\ UNCHANGED <<Service, child, stopSent, cluster>>

StopPostgres ==
    /\ UpkeepAt("stop") /\ UpkeepEnds
    /\ \/ NoTrouble /\ UNCHANGED child
       \/ Trouble /\ ServerLeft(TRUE)
    /\ UNCHANGED <<Service, stopSent, cluster>>

KillUpkeep ==
    /\ upkeep.pc # "idle" /\ Trouble /\ UpkeepEnds
    /\ ServerLeft(UpkeepServes)
    /\ UNCHANGED <<Service, stopSent, cluster>>

UpkeepStep == \/ BeginUpkeep \/ InitializePostgres \/ StartPostgres \/ CreateDatabase \/ Act
              \/ StopPostgres \/ KillUpkeep

SupervisorNext ==
    \/ RunnerStep \/ ReportFails \/ RunnerDies
    \/ \E c \in Children : ChildServes(c) \/ ChildExits(c) \/ StrayEnds(c)
    \/ StartedByOther \/ StoppedByOther \/ UpkeepStep

\* The service process is scheduled and its waits end at their timeouts.
SupervisorSpec == SupervisorInit /\ [][SupervisorNext]_supervisorVars
                  /\ WF_supervisorVars(RunnerStep)

----------------------------------------------------------------------------
(* Properties.                                                             *)

\* Every variable holds a value of its kind.
SupervisorTypeOK ==
    /\ scm \in [state : {"stopped", "start_pending", "running", "stop_pending"}, failed : BOOLEAN]
    /\ runner.pc \in {"off", "begin", "spawn", "wait", "running", "ask", "await", "stopped"}
    /\ runner.at \in 0..Len(Plan) /\ runner.after \in {"none", "failed", "clean"}
    /\ runner.failures \subseteq Children
    /\ child \in [Children -> [own : {"none", "starting", "serving", "exited"},
                               asked : BOOLEAN, stray : BOOLEAN]]
    /\ stopSent \in BOOLEAN
    /\ upkeep.pc \in {"idle", "files", "start", "create", "act", "stop"} /\ upkeep.fresh \in BOOLEAN
    /\ cluster \in {"absent", "initialized", "made"}
    /\ troubles \in 0..MaxTroubles

\* A stop that the service manager shows as clean has left no child behind:
\* whatever failed or timed out on the way to it, each child of that run is gone.
CleanStopIsWhole ==
    [][(scm.state # "stopped" /\ scm'.state = "stopped" /\ ~scm'.failed) =>
         \A c \in Children : ~Alive(c)]_supervisorVars

\* PostgreSQL is asked to stop only when NATS has gone, or could not be stopped.
StopsInReverse ==
    \A i, j \in DOMAIN Plan :
        (i < j /\ child[Plan[i]].own # "none" /\ child[Plan[i]].asked) =>
            ~Alive(Plan[j]) \/ Plan[j] \in runner.failures

\* The service does not stay between two states: a start ends in running or
\* stopped, a stop in stopped, however the children behave.
ServiceSettles == /\ scm.state = "start_pending" ~> scm.state \in {"running", "stopped"}
                  /\ scm.state = "stop_pending" ~> scm.state = "stopped"

\* A cluster that is served by the service holds the database.  It does not
\* hold: an install that fails between initdb and createdb leaves files that no
\* later call creates the database on.
DatabaseIsMade == child[Database].own = "serving" => cluster = "made"

\* A running service owns what serves its ports.  It does not hold: a stray of
\* an earlier run answers for a child that cannot serve beside it and dies.
RunningIsItsOwn ==
    [][(scm.state # "running" /\ scm'.state = "running") =>
         \A c \in Children : child[c].own = "serving"]_supervisorVars
=============================================================================
