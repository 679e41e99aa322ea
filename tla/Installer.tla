------------------------------ MODULE Installer ------------------------------
(***************************************************************************)
(* The native installer (athanor-install/src/installer.rs) with its managed *)
(* database (native_runtime.rs): install and upgrade, rollback, and the two *)
(* adapter commands.  The operation lock admits one command at a time; each *)
(* step of it may fail, and the process may be killed between two steps.    *)
(*                                                                          *)
(* The service owns PostgreSQL.  sc.exe only requests a stop: the service   *)
(* goes down later, and until then it cannot be started again and the       *)
(* database may still be up (boundaries.rs, native_runtime.rs).  A pointer  *)
(* is written by removing the old file and renaming the new one, so a write *)
(* that fails or is killed may leave no pointer.                            *)
(*                                                                          *)
(* A release ships the adapter of its own name; an adapter fits a release   *)
(* when both have the same API.  Configuration, secrets and operator files  *)
(* are restored from the same snapshot as the pointers and are left out, as *)
(* is the external database, whose first install alone takes a backup later.*)
(***************************************************************************)
EXTENDS Naturals, Sequences

CONSTANTS Releases,
          NoRelease,
          Api,         \* the API each release and its adapter speak
          Keep,        \* backups --keep retains (native_runtime.rs)
          MaxCommands, \* bound: commands
          MaxMishaps   \* bound: steps that fail by themselves and commands killed

ASSUME InstallerAssumption == /\ NoRelease \notin Releases
                              /\ Keep \in Nat \ {0}
                              /\ {MaxCommands, MaxMishaps} \subseteq Nat

VARIABLES disk,      \* the releases retained and the two activation pointers
          database,  \* the release whose migrations ran last on it
          dumps,     \* every backup taken; the last Keep are on disk
          service,   \* doomed and leaving: running and stopping, marked for deletion
          command,   \* the command that holds the operation lock
          spent      \* commands and mishaps so far, whether one was a kill, the
                     \* restore steps reported failed, and a start that
                     \* failed unreported

installerVars == <<disk, database, dumps, service, command, spent>>

NoPointer == [version |-> NoRelease, previous |-> NoRelease]
NoCurrent == [version |-> NoRelease, previous |-> NoRelease, dump |-> 0]
NoCommand == [kind |-> "none", at |-> "none", target |-> NoRelease, current |-> NoCurrent,
              adapter |-> NoPointer, next |-> NoPointer, had |-> FALSE, served |-> FALSE,
              dump |-> 0]

InstallerInit ==
    /\ disk = [versions |-> {}, adapters |-> {}, current |-> NoCurrent, adapter |-> NoPointer]
    /\ database = NoRelease
    /\ dumps = <<>>
    /\ service = "absent"
    /\ command = NoCommand
    /\ spent = [commands |-> 0, mishaps |-> 0, killed |-> FALSE, hurt |-> {}, quiet |-> FALSE]

Installed == disk.current.version # NoRelease
Fits(a, v) == Api[a] = Api[v]
OnDisk(n) == n \in 1..Len(dumps) /\ n + Keep > Len(dumps)

\* The Service Control Manager: what a requested stop and a delete come to.
Up == service \in {"running", "doomed"}
Stopping == service \in {"stopping", "leaving"}
Stop == service' = CASE service = "running" -> "stopping"
                     [] service = "doomed"  -> "leaving"
                     [] OTHER               -> service
Delete == /\ service \notin {"doomed", "leaving"}
          /\ service' = CASE service = "running"  -> "doomed"
                         [] service = "stopping" -> "leaving"
                         [] OTHER                -> "absent"

\* A release starts when its service is down and its pointer names it; a
\* backup needs the database up, a migration and a restore need it down.
Startable == /\ service \in {"absent", "stopped"}
             /\ Installed /\ disk.current.version \in disk.versions
ServiceStarts == Startable /\ service # "absent"
BackupWorks == Up \/ Stopping
DatabaseFree == ~Up /\ Installed

At(kind, at) == command.kind = kind /\ command.at = at
GoTo(at) == command' = [command EXCEPT !.at = at]
EndCommand == command' = NoCommand

\* component_transition_for: the active adapter stays if it fits, or else the
\* one the release ships is retained and pointed to.  The pointer is read with
\* both releases it names.
Kept(p) == {p.version, p.previous}
AdapterReads == disk.adapter.version # NoRelease =>
                   Kept(disk.adapter) \subseteq disk.adapters \cup {NoRelease}
Transition(v) ==
    IF disk.adapter.version # NoRelease /\ Fits(disk.adapter.version, v) THEN NoPointer
    ELSE [version |-> v, previous |-> disk.adapter.version]
Adopted(next) == disk.adapters \cup (IF next = NoPointer THEN {} ELSE {next.version})

\* The disks a command may leave when it ends at this step: the pointer it was
\* writing may be gone, or, in the undo of a rollback, be back already.
CurrentLeftAt(at) ==
    CASE at \in {"point", "repoint"} -> {disk.current, NoCurrent}
      [] at \in {"undo", "undo_all"} -> {disk.current, NoCurrent, command.current}
      [] OTHER                       -> {disk.current}
AdapterLeftAt(at) ==
    CASE at = "readapt" \/ (at = "adapter" /\ command.next # NoPointer) ->
            {disk.adapter, NoPointer}
      [] at \in {"undo", "undo_all"} -> {disk.adapter, NoPointer, command.adapter}
      [] OTHER                       -> {disk.adapter}
LeftAt(at) == [versions : {disk.versions}, adapters : {disk.adapters},
               current : CurrentLeftAt(at), adapter : AdapterLeftAt(at)]

Begins == /\ command = NoCommand /\ spent.commands < MaxCommands
          /\ spent' = [spent EXCEPT !.commands = @ + 1]
TakeDump == dumps' = Append(dumps, database)

----------------------------------------------------------------------------
(* install                                                                 *)

BeginInstall(v) ==
    /\ v # disk.current.version
    /\ Begins
    /\ command' = [NoCommand EXCEPT !.kind = "install", !.at = "backup", !.target = v,
                                    !.current = disk.current, !.adapter = disk.adapter,
                                    !.had = v \in disk.adapters,
                                    !.served = service # "absent"]
    /\ UNCHANGED <<disk, database, dumps, service>>

Backup ==
    /\ At("install", "backup")
    /\ IF Installed
       THEN /\ BackupWorks /\ TakeDump
            /\ command' = [command EXCEPT !.at = "adopt", !.dump = Len(dumps) + 1]
       ELSE GoTo("adopt") /\ UNCHANGED dumps
    /\ UNCHANGED <<disk, database, service, spent>>

Adopt ==
    LET next == Transition(command.target) IN
    /\ At("install", "adopt") /\ AdapterReads
    /\ disk' = [disk EXCEPT !.adapters = Adopted(next)]
    /\ command' = [command EXCEPT !.at = "stop", !.next = next]
    /\ UNCHANGED <<database, dumps, service, spent>>

StopService ==
    /\ At("install", "stop")
    /\ IF command.served THEN Stop ELSE UNCHANGED service
    /\ GoTo("clear")
    /\ UNCHANGED <<disk, database, dumps, spent>>

\* Whatever was retained under the release's name goes before it is staged.
Clear ==
    /\ At("install", "clear")
    /\ disk' = [disk EXCEPT !.versions = @ \ {command.target}]
    /\ GoTo("stage")
    /\ UNCHANGED <<database, dumps, service, spent>>

\* Staged, verified, renamed into place and verified again.
Stage ==
    /\ At("install", "stage")
    /\ disk' = [disk EXCEPT !.versions = @ \cup {command.target}]
    /\ GoTo("point")
    /\ UNCHANGED <<database, dumps, service, spent>>

Point ==
    /\ At("install", "point")
    /\ disk' = [disk EXCEPT !.current = [version |-> command.target,
                                         previous |-> command.current.version,
                                         dump |-> command.dump]]
    /\ GoTo("adapter")
    /\ UNCHANGED <<database, dumps, service, spent>>

PointAdapter ==
    /\ At("install", "adapter")
    /\ disk' = IF command.next = NoPointer THEN disk
               ELSE [disk EXCEPT !.adapter = command.next]
    /\ GoTo("migrate")
    /\ UNCHANGED <<database, dumps, service, spent>>

Migrate ==
    /\ At("install", "migrate") /\ DatabaseFree
    /\ database' = command.target
    /\ GoTo("start")
    /\ UNCHANGED <<disk, dumps, service, spent>>

StartService ==
    /\ At("install", "start") /\ Startable
    /\ service' = "running"
    /\ spent' = [spent EXCEPT !.quiet = FALSE]
    /\ GoTo("integrate")
    /\ UNCHANGED <<disk, database, dumps>>

\* Pruning spares what a pointer names, a native release younger than the
\* grace, and what cannot be removed, which is a warning.
PruneAll ==
    \E old \in SUBSET (disk.versions \ Kept(disk.current)),
       idle \in SUBSET (disk.adapters \ Kept(disk.adapter)) :
          disk' = [disk EXCEPT !.versions = @ \ old, !.adapters = @ \ idle]

Integrate ==
    /\ At("install", "integrate")
    /\ PruneAll
    /\ EndCommand
    /\ UNCHANGED <<database, dumps, service, spent>>

----------------------------------------------------------------------------
(* A failed install: restore_failed_install tries every step, whatever the *)
(* one before came to.                                                     *)

InstallSteps == {"backup", "adopt", "stop", "clear", "stage", "point", "adapter", "migrate",
                 "start", "integrate"}
Mishap == spent.mishaps < MaxMishaps
Fault == Mishap /\ spent' = [spent EXCEPT !.mishaps = @ + 1]

\* A step that is bound to fail where the last command left the service, or
\* may fail while the service is still stopping.
CannotStep == CASE command.at = "backup"  -> Installed /\ ~Up
             [] command.at = "adopt"   -> ~AdapterReads
             [] command.at = "stop"    -> command.served /\ Stopping
             [] command.at = "migrate" -> ~DatabaseFree \/ Stopping
             [] command.at = "start"   -> ~Startable
             [] OTHER                  -> FALSE

\* The migration may have run, and the service may be there or even up, when
\* the step fails.
InstallFails ==
    /\ command.kind = "install" /\ command.at \in InstallSteps
    /\ GoTo("restop")
    /\ \/ CannotStep /\ UNCHANGED <<disk, database, service, spent>>
       \/ /\ Fault
          /\ disk' \in LeftAt(command.at)
          /\ database' \in {database} \cup (IF command.at = "migrate" /\ DatabaseFree
                             THEN {command.target} ELSE {})
          /\ service' \in {service} \cup (IF command.at = "start" /\ Startable
                            THEN {"stopped", "running"} ELSE {})
    /\ UNCHANGED dumps

AfterRestore(at) == CASE at = "restop"  -> "repoint"
                      [] at = "repoint" -> "readapt"
                      [] at = "readapt" -> "restore"
                      [] at = "restore" -> "remove"
                      [] at = "remove"  -> "unadopt"
                      [] at = "unadopt" -> "restart"
RestoreSteps == {"restop", "repoint", "readapt", "restore", "remove", "unadopt", "restart"}

Unadopted_Always == disk.adapters \ {command.target}
Unadopted == IF command.had THEN disk.adapters ELSE disk.adapters \ {command.target}

Restore(at) ==
    CASE at = "restop" ->
            /\ Stop
            /\ UNCHANGED <<disk, database, spent>>
      [] at = "repoint" ->
            /\ disk' = [disk EXCEPT !.current = command.current]
            /\ UNCHANGED <<database, service, spent>>
      [] at = "readapt" ->
            /\ disk' = [disk EXCEPT !.adapter = command.adapter]
            /\ UNCHANGED <<database, service, spent>>
      [] at = "restore" ->
            /\ IF OnDisk(command.dump)
               THEN DatabaseFree /\ database' = dumps[command.dump]
               ELSE UNCHANGED database
            /\ UNCHANGED <<disk, service, spent>>
      [] at = "remove" ->
            /\ disk' = [disk EXCEPT !.versions = @ \ {command.target}]
            /\ UNCHANGED <<database, service, spent>>
      [] at = "unadopt" ->
            /\ disk' = [disk EXCEPT !.adapters = Unadopted]
            /\ UNCHANGED <<database, service, spent>>
      [] at = "restart" ->
            /\ IF command.served
               THEN /\ Startable /\ service' = "running"
                    /\ spent' = [spent EXCEPT !.quiet = FALSE]
               ELSE Delete /\ UNCHANGED spent
            /\ UNCHANGED <<disk, database>>

Proceed == IF command.at = "restart" THEN EndCommand ELSE GoTo(AfterRestore(command.at))

RestoreStep ==
    /\ command.kind = "install" /\ command.at \in RestoreSteps
    /\ Restore(command.at)
    /\ Proceed
    /\ UNCHANGED dumps

CannotRestore ==
    CASE command.at = "restop"  -> Stopping
      [] command.at = "restore" -> OnDisk(command.dump) /\ (~DatabaseFree \/ Stopping)
      [] command.at = "restart" -> IF command.served THEN ~Startable
                                   ELSE service \in {"doomed", "leaving"}
      [] OTHER                  -> FALSE

\* The service that is restored may be there and not up, or up and not ready.
RestartLeaves ==
    IF command.at # "restart" \/ ~command.served THEN {service}
    ELSE {service} \cup (IF service = "absent" THEN {"stopped"} ELSE {})
                   \cup (IF Startable THEN {"running"} ELSE {})

\* The failure is kept for the report and the restore goes on.
RestoreFails ==
    /\ command.kind = "install" /\ command.at \in RestoreSteps
    /\ \/ /\ CannotRestore
          /\ spent' = [spent EXCEPT !.hurt = @ \cup {command.at}]
          /\ UNCHANGED disk
       \/ /\ Mishap
          /\ spent' = [spent EXCEPT !.mishaps = @ + 1, !.hurt = @ \cup {command.at}]
          /\ disk' \in LeftAt(command.at)
    /\ service' \in RestartLeaves
    /\ Proceed
    /\ UNCHANGED <<database, dumps>>

----------------------------------------------------------------------------
(* rollback                                                                *)

\* The previous release must be retained; its adapter is adopted and an undo
\* backup taken while the service still runs.  A backup that fails ends the
\* command with the adapter adopted.
BeginRollback ==
    LET v == disk.current.previous
        next == Transition(v) IN
    /\ v # NoRelease /\ disk.current.dump # 0
    /\ v \in disk.versions
    /\ AdapterReads
    /\ Begins
    /\ disk' = [disk EXCEPT !.adapters = Adopted(next)]
    /\ \/ /\ BackupWorks /\ TakeDump
          /\ command' = [NoCommand EXCEPT !.kind = "rollback", !.at = "stop", !.target = v,
                                          !.current = disk.current, !.adapter = disk.adapter,
                                          !.next = next, !.dump = Len(dumps) + 1]
       \/ ~Up /\ UNCHANGED <<dumps, command>>
    /\ UNCHANGED <<database, service>>

StopForRollback ==
    /\ At("rollback", "stop")
    /\ \/ Stop /\ GoTo("point") /\ UNCHANGED spent
       \/ Stopping /\ EndCommand /\ UNCHANGED <<service, spent>>
       \/ Fault /\ EndCommand /\ UNCHANGED service
    /\ UNCHANGED <<disk, database, dumps>>

PointBack ==
    /\ At("rollback", "point")
    /\ \/ /\ disk' = [disk EXCEPT !.current = [version |-> command.target,
                                               previous |-> command.current.version,
                                               dump |-> command.dump]]
          /\ GoTo("adapter") /\ UNCHANGED spent
       \/ Fault /\ GoTo("undo") /\ disk' \in LeftAt("point")
    /\ UNCHANGED <<database, dumps, service>>

PointAdapterBack ==
    /\ At("rollback", "adapter")
    /\ \/ /\ disk' = IF command.next = NoPointer THEN disk
                     ELSE [disk EXCEPT !.adapter = command.next]
          /\ GoTo("restore") /\ UNCHANGED spent
       \/ Fault /\ GoTo("undo") /\ disk' \in LeftAt("adapter")
    /\ UNCHANGED <<database, dumps, service>>

\* The backup may have been rotated away since the upgrade took it, and the
\* database may still be up.
RestoreBack ==
    LET dump == command.current.dump IN
    /\ At("rollback", "restore")
    /\ \/ /\ OnDisk(dump) /\ DatabaseFree
          /\ database' = dumps[dump]
          /\ GoTo("start") /\ UNCHANGED spent
       \/ /\ ~OnDisk(dump) \/ ~DatabaseFree \/ Stopping
          /\ GoTo("undo_all") /\ UNCHANGED <<database, spent>>
       \/ Fault /\ GoTo("undo_all") /\ UNCHANGED database
    /\ UNCHANGED <<disk, dumps, service>>

\* A service that does not start, or is up and not ready, is stopped again.
StartBack ==
    /\ At("rollback", "start")
    /\ \/ /\ ServiceStarts
          /\ service' = "running"
          /\ PruneAll
          /\ EndCommand /\ spent' = [spent EXCEPT !.quiet = FALSE]
       \/ ~ServiceStarts /\ GoTo("undo_all") /\ Stop /\ UNCHANGED <<disk, spent>>
       \/ /\ Fault /\ GoTo("undo_all")
          /\ service' \in {service} \cup (IF ServiceStarts THEN {"stopping"} ELSE {})
          /\ UNCHANGED disk
    /\ UNCHANGED <<database, dumps>>

\* restore_activation_pointers, the undo backup, and the service again.  The
\* first to fail leaves the rest undone and is reported; only the start is
\* tried without looking at what came of it (installer.rs:418).
Undo_Pointers == UNCHANGED database
Undo == IF command.at = "undo_all" THEN ~Up /\ database' = dumps[command.dump]
        ELSE UNCHANGED database

Undoing == At("rollback", "undo") \/ At("rollback", "undo_all")
Undone == disk' = [disk EXCEPT !.current = command.current, !.adapter = command.adapter]

UndoRollback ==
    /\ Undoing /\ Undone /\ Undo
    /\ \/ /\ service = "stopped" /\ service' = "running"
          /\ spent' = [spent EXCEPT !.quiet = FALSE]
       \/ /\ service # "stopped"
          /\ spent' = [spent EXCEPT !.quiet = TRUE]
          /\ UNCHANGED service
       \/ /\ Mishap
          /\ spent' = [spent EXCEPT !.mishaps = @ + 1, !.quiet = TRUE]
          /\ UNCHANGED service
    /\ EndCommand
    /\ UNCHANGED dumps

UndoFails ==
    /\ Undoing
    /\ \/ /\ command.at = "undo_all" /\ (Up \/ Stopping) /\ Undone
          /\ spent' = [spent EXCEPT !.hurt = @ \cup {"undo"}]
       \/ /\ Mishap
          /\ spent' = [spent EXCEPT !.mishaps = @ + 1, !.hurt = @ \cup {"undo"}]
          /\ disk' \in LeftAt(command.at)
    /\ EndCommand
    /\ UNCHANGED <<database, dumps, service>>

----------------------------------------------------------------------------
(* The adapter commands: retain, point, prune; one that fails to point has *)
(* retained the release all the same, and has restored the pointer unless  *)
(* that failed too or it was killed between removing and renaming it.      *)

PointTo(a) == [version |-> a, previous |-> disk.adapter.version]

AdapterTorn(adapters) ==
    /\ Mishap
    /\ disk' = [disk EXCEPT !.adapter = NoPointer, !.adapters = adapters]
    /\ spent' = [spent EXCEPT !.commands = @ + 1, !.mishaps = @ + 1, !.killed = TRUE]

InstallAdapter(a) ==
    /\ command = NoCommand /\ spent.commands < MaxCommands
    /\ Installed /\ disk.current.version \in disk.versions /\ Fits(a, disk.current.version)
    /\ LET next == IF disk.adapter.version = a THEN disk.adapter ELSE PointTo(a) IN
          \/ /\ AdapterReads
             /\ disk' = [disk EXCEPT !.adapter = next,
                                     !.adapters = (@ \cup {a}) \cap Kept(next)]
             /\ spent' = [spent EXCEPT !.commands = @ + 1]
          \/ /\ disk' = [disk EXCEPT !.adapters = @ \cup {a}]
             /\ spent' = [spent EXCEPT !.commands = @ + 1]
          \/ AdapterReads /\ next # disk.adapter /\ AdapterTorn(disk.adapters \cup {a})
    /\ UNCHANGED <<database, dumps, service, command>>

RollbackAdapter(a) ==
    /\ command = NoCommand /\ spent.commands < MaxCommands
    /\ AdapterReads /\ disk.adapter.version \notin {NoRelease, a}
    /\ a \in disk.adapters
    /\ Installed /\ disk.current.version \in disk.versions /\ Fits(a, disk.current.version)
    /\ \/ /\ disk' = [disk EXCEPT !.adapter = PointTo(a), !.adapters = @ \cap Kept(PointTo(a))]
          /\ spent' = [spent EXCEPT !.commands = @ + 1]
       \/ AdapterTorn(disk.adapters)
    /\ UNCHANGED <<database, dumps, service, command>>

----------------------------------------------------------------------------
\* The end of a stop that was requested.
StopEnds ==
    /\ Stopping
    /\ service' = IF service = "stopping" THEN "stopped" ELSE "absent"
    /\ UNCHANGED <<disk, database, dumps, command, spent>>

\* The command's process killed.
Kill ==
    /\ command # NoCommand
    /\ Mishap
    /\ spent' = [spent EXCEPT !.mishaps = @ + 1, !.killed = TRUE]
    /\ disk' \in LeftAt(command.at)
    /\ EndCommand
    /\ UNCHANGED <<database, dumps, service>>

InstallStep == \/ Backup \/ Adopt \/ StopService \/ Clear \/ Stage \/ Point \/ PointAdapter
               \/ Migrate \/ StartService \/ Integrate
RollbackStep == \/ StopForRollback \/ PointBack \/ PointAdapterBack \/ RestoreBack \/ StartBack
                \/ UndoRollback \/ UndoFails

InstallerNext ==
    \/ \E v \in Releases : BeginInstall(v) \/ InstallAdapter(v) \/ RollbackAdapter(v)
    \/ BeginRollback
    \/ InstallStep \/ InstallFails \/ RestoreStep \/ RestoreFails
    \/ RollbackStep
    \/ StopEnds \/ Kill

InstallerSpec == InstallerInit /\ [][InstallerNext]_installerVars

----------------------------------------------------------------------------
Pointers == [version : Releases \cup {NoRelease}, previous : Releases \cup {NoRelease}]

InstallerTypeOK ==
    /\ disk.versions \subseteq Releases /\ disk.adapters \subseteq Releases
    /\ disk.adapter \in Pointers /\ command.adapter \in Pointers /\ command.next \in Pointers
    /\ \A c \in {disk.current, command.current} :
          /\ [version |-> c.version, previous |-> c.previous] \in Pointers
          /\ c.dump \in 0..Len(dumps)
    /\ database \in Releases \cup {NoRelease}
    /\ service \in {"absent", "stopped", "running", "stopping", "doomed", "leaving"}
    /\ spent.hurt \subseteq RestoreSteps \cup {"undo"}
    /\ command.dump \in 0..Len(dumps)

\* Whenever the machine stops, however a command fails or is killed, what a
\* pointer activates is there: the native release, the adapter and the adapter
\* to go back to.  (A restore of the pointers that fails on top of the failure
\* is spared: the code goes on and removes the release they still name.)
PointersResolve ==
    {"repoint", "readapt"} \cap spent.hurt = {} =>
       /\ Installed => disk.current.version \in disk.versions
       /\ AdapterReads

\* Nothing is silently half applied (FEATURES.md:12): between commands, none of
\* them killed, whichever step failed, and unless the restore itself reported
\* a failure, the active release has an adapter that fits it and a database
\* its own migrations left; and it runs, except after the undo of a rollback
\* whose start failed: that one failure is reported nowhere (installer.rs:418,
\* 426, 437, 450), so the property names it.
NothingHalfApplied ==
    command = NoCommand /\ ~spent.killed /\ spent.hurt \subseteq {"remove", "unadopt"} =>
       IF Installed THEN /\ Fits(disk.adapter.version, disk.current.version)
                         /\ database = disk.current.version
                         /\ service = "running" \/ spent.quiet
       ELSE disk.adapter = NoPointer /\ service \in {"absent", "leaving"}

\* FEATURES.md:14, of a rollback: "Every step restores the newer release when
\* it fails."  It does not hold: the service may still be stopping when the
\* undo starts it again, and stays down.
RollbackRestores ==
    command = NoCommand /\ ~spent.killed /\ spent.hurt = {} /\ Installed =>
       service = "running"

\* FEATURES.md:39: "An atomic write goes through a `.new` file and one rename."
\* It does not hold: the old pointer is removed first, and a command killed in
\* between leaves a machine with releases and no pointer.
PointerOutlivesKill ==
    command = NoCommand /\ disk.current = NoCurrent => ~spent.killed \/ disk.versions = {}

\* INSTALL.md:83: at least the active and the previous release are retained.
PreviousIsRetained ==
    Installed /\ disk.current.previous # NoRelease => disk.current.previous \in disk.versions

\* README.md:315: a rollback has its pre-change backup.
RollbackHasDump == disk.current.dump # 0 => OnDisk(disk.current.dump)
=============================================================================
