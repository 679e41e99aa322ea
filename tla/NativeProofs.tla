---------------------------- MODULE NativeProofs ----------------------------
(* Theorems about the native machine: the installer's commands, the service  *)
(* that runs the managed children and the Insula emitter of a process.       *)
EXTENDS Installer, Supervisor, InsulaWriter, SequenceTheorems, FiniteSetTheorems, TLAPS

-----------------------------------------------------------------------------
(* The installer: what its disk, its database and its command hold.          *)

Names == Releases \cup {NoRelease}
Currents == [version : Names, previous : Names, dump : Nat]
Disks == [versions : SUBSET Releases, adapters : SUBSET Releases, current : Currents,
          adapter : Pointers]
RollbackPlaces == {"stop", "point", "adapter", "restore", "start", "undo", "undo_all"}
Places == {"none"} \cup InstallSteps \cup RestoreSteps \cup RollbackPlaces
Commands ==
    [kind : {"none", "install", "rollback"}, at : Places,
     target : Names, current : Currents, adapter : Pointers, next : Pointers,
     had : BOOLEAN, served : BOOLEAN, dump : Nat]
Spendings == [commands : Nat, mishaps : Nat, killed : BOOLEAN,
              hurt : SUBSET (RestoreSteps \cup {"undo"}), quiet : BOOLEAN]
Services == {"absent", "stopped", "running", "stopping", "doomed", "leaving"}

\* A command is where its kind may be and about a release; an install has no
\* dump before it takes one, and a rollback has its own from the start.
Placed(c) ==
    /\ c.kind = "install" => c.at \in InstallSteps \cup RestoreSteps
    /\ c.kind = "rollback" => c.at \in RollbackPlaces
    /\ c.kind # "none" => c.target \in Releases
    /\ c.kind = "none" => c.at = "none"
    /\ c.at = "backup" => c.dump = 0
    /\ c.kind = "rollback" => c.dump # 0

InstallerTypes ==
    /\ disk \in Disks /\ database \in Names /\ dumps \in Seq(Names)
    /\ service \in Services
    /\ command \in Commands /\ spent \in Spendings
    /\ Placed(command)
    /\ command.dump <= Len(dumps) /\ disk.current.dump <= Len(dumps)
    /\ command.current.dump <= Len(dumps)

Commanded == command.kind # "none"
InInstall(places) == command.kind = "install" /\ command.at \in places
InRollback(places) == command.kind = "rollback" /\ command.at \in places

\* No pointer's restore failed; no restore failed that a whole machine needs.
Pointed == {"repoint", "readapt"} \cap spent.hurt = {}
Sound == ~spent.killed /\ spent.hurt \subseteq {"remove", "unadopt"}

ResolveInv == Pointed =>
    /\ disk.current.version \in disk.versions \cup {NoRelease}
    /\ Kept(disk.adapter) \subseteq disk.adapters \cup {NoRelease}
    /\ Commanded =>
          /\ command.current.version \in disk.versions \cup {NoRelease}
          /\ Kept(command.adapter) \subseteq disk.adapters \cup {NoRelease}
    /\ InInstall({"stop", "clear", "stage", "point", "adapter"})
          \/ InRollback({"stop", "point", "adapter"}) =>
          Kept(command.next) \subseteq disk.adapters \cup {NoRelease}
    /\ command.kind = "install" =>
          /\ command.target # command.current.version
          /\ ~command.had => command.target \notin Kept(command.adapter)
    /\ InInstall({"backup", "adopt", "stop", "clear", "stage", "point",
                  "readapt", "restore", "remove", "unadopt", "restart"}) =>
          disk.current = command.current
    /\ InInstall({"restore", "remove", "unadopt", "restart"}) => disk.adapter = command.adapter
    /\ InInstall({"point"}) \/ command.kind = "rollback" => command.target \in disk.versions

Rooted(cur) == cur.version = NoRelease => cur = NoCurrent
DumpOf(cur) == cur.dump # 0 => dumps[cur.dump] = cur.previous
Whole(cur, ad) == IF cur.version # NoRelease THEN Fits(ad.version, cur.version)
                  ELSE ad = NoPointer

Unmarked == service \in {"running", "stopping", "stopped"}
Runs == Unmarked /\ (service = "running" \/ spent.quiet)
Serves == IF Installed THEN database = disk.current.version /\ Runs
          ELSE service \in {"absent", "leaving"}

HalfInv == Sound =>
    /\ Rooted(disk.current) /\ DumpOf(disk.current)
    /\ ~Commanded => Whole(disk.current, disk.adapter) /\ Serves
    /\ Commanded =>
          /\ Rooted(command.current) /\ DumpOf(command.current)
          /\ Whole(command.current, command.adapter)
          /\ command.dump # 0 => /\ command.dump = Len(dumps)
                                 /\ dumps[command.dump] = command.current.version
    /\ command.kind = "install" =>
          /\ command.current.version # NoRelease => command.served
          /\ command.dump = 0 /\ command.current.version # NoRelease =>
                /\ command.at \in {"backup"} \cup RestoreSteps
                /\ database = command.current.version
    /\ command.kind = "rollback" =>
          /\ command.target = command.current.previous
          /\ command.current.version # NoRelease /\ command.current.dump # 0 /\ command.dump # 0
    /\ InInstall({"adapter", "migrate", "start", "integrate"}) =>
          disk.current.version = command.target
    /\ InInstall({"backup", "adopt", "stop", "clear", "stage", "point",
                  "readapt", "restore", "remove", "unadopt", "restart"}) =>
          disk.current = command.current
    /\ InInstall({"backup", "adopt", "stop", "clear", "stage", "point", "adapter",
                  "restore", "remove", "unadopt", "restart"}) =>
          disk.adapter = command.adapter
    /\ InInstall({"stop", "clear", "stage", "point", "adapter"})
          \/ InRollback({"stop", "point", "adapter"}) =>
          IF command.next = NoPointer THEN Fits(command.adapter.version, command.target)
          ELSE command.next.version = command.target
    /\ InInstall({"migrate", "start", "integrate"}) \/ InRollback({"restore", "start"}) =>
          Fits(disk.adapter.version, command.target)
    /\ InInstall({"start", "integrate"}) \/ InRollback({"start"}) =>
          database = command.target
    /\ InInstall({"integrate"}) => service = "running"
    /\ InInstall({"remove", "unadopt", "restart"}) /\ command.current.version # NoRelease =>
          database = command.current.version
    /\ InRollback({"stop"}) => Runs
    /\ Commanded /\ command.current.version # NoRelease => Unmarked
    /\ InInstall({"repoint", "readapt", "restore", "remove", "unadopt", "restart"}) => ~Up
    /\ InRollback({"stop", "point"}) => disk.current = command.current
    /\ InRollback({"stop", "point", "adapter"}) => disk.adapter = command.adapter
    /\ InRollback({"stop", "point", "adapter", "restore", "undo"}) =>
          database = command.current.version
    /\ InRollback({"adapter", "restore", "start"}) => disk.current.version = command.target
InstallerInv == InstallerTypes /\ ResolveInv /\ HalfInv

\* The command's errand: all of it but its place.
SameErrand ==
    /\ command'.kind = command.kind /\ command'.target = command.target
    /\ command'.current = command.current /\ command'.adapter = command.adapter
    /\ command'.next = command.next /\ command'.had = command.had
    /\ command'.served = command.served /\ command'.dump = command.dump

\* What is spent but for the commands and the mishaps.
SameSpoils == /\ spent'.killed = spent.killed /\ spent'.hurt = spent.hurt
              /\ spent'.quiet = spent.quiet

\* A command that goes elsewhere keeps its errand.
LEMMA CommandGoes ==
  ASSUME InstallerTypes, NEW at \in Places, GoTo(at)
  PROVE  command' \in Commands /\ command'.at = at /\ SameErrand
  BY DEF InstallerTypes, GoTo, Commands, SameErrand

\* The command there is when none runs.
LEMMA NoCommandIsOne ==
  /\ NoCommand \in Commands /\ NoCommand.kind = "none" /\ NoCommand.dump = 0
  /\ NoCommand.at = "none"
  /\ NoCommand.current = NoCurrent /\ NoCommand.current.dump = 0
  /\ NoCommand.next = NoPointer /\ NoPointer \in Pointers /\ NoCurrent \in Currents
  /\ NoPointer.version = NoRelease /\ NoPointer.previous = NoRelease
  /\ NoCurrent.version = NoRelease /\ NoCurrent.dump = 0
  BY DEF NoCommand, Commands, Places, Currents, NoCurrent, NoPointer, Pointers, Names

\* What a command that ends at a step may leave of the disk.
LEMMA DiskIsLeft ==
  ASSUME InstallerTypes, NEW at, disk' \in LeftAt(at)
  PROVE  /\ disk' \in Disks
         /\ disk'.versions = disk.versions /\ disk'.adapters = disk.adapters
         /\ disk'.current \in {disk.current, NoCurrent, command.current}
         /\ disk'.adapter \in {disk.adapter, NoPointer, command.adapter}
         /\ at \notin {"point", "repoint", "undo", "undo_all"} => disk'.current = disk.current
         /\ at \notin {"undo", "undo_all"} =>
               /\ disk'.current \in {disk.current, NoCurrent}
               /\ disk'.adapter \in {disk.adapter, NoPointer}
         /\ at \notin {"adapter", "readapt", "undo", "undo_all"} => disk'.adapter = disk.adapter
<1>1. disk' \in [versions : {disk.versions}, adapters : {disk.adapters},
                   current : CurrentLeftAt(at), adapter : AdapterLeftAt(at)]
  BY DEF LeftAt
<1>2. /\ disk' = [versions |-> disk'.versions, adapters |-> disk'.adapters,
                  current |-> disk'.current, adapter |-> disk'.adapter]
      /\ disk'.versions = disk.versions /\ disk'.adapters = disk.adapters
      /\ disk'.current \in CurrentLeftAt(at) /\ disk'.adapter \in AdapterLeftAt(at)
  BY <1>1
<1>3. /\ disk'.current \in {disk.current, NoCurrent, command.current}
      /\ at \notin {"point", "repoint", "undo", "undo_all"} => disk'.current = disk.current
      /\ at \notin {"undo", "undo_all"} => disk'.current \in {disk.current, NoCurrent}
  BY <1>2 DEF CurrentLeftAt
<1>4. /\ disk'.adapter \in {disk.adapter, NoPointer, command.adapter}
      /\ at \notin {"adapter", "readapt", "undo", "undo_all"} => disk'.adapter = disk.adapter
      /\ at \notin {"undo", "undo_all"} => disk'.adapter \in {disk.adapter, NoPointer}
  BY <1>2 DEF AdapterLeftAt
<1>5. disk'.current \in Currents /\ disk'.adapter \in Pointers
  BY <1>3, <1>4, NoCommandIsOne DEF InstallerTypes, Disks, Commands
<1>6. disk' \in Disks
  BY <1>2, <1>5 DEF InstallerTypes, Disks
<1> QED
  BY <1>2, <1>3, <1>4, <1>6

\* A stop that is requested leaves the service down or on its way.
LEMMA StopsSoon ==
  ASSUME InstallerTypes, Stop
  PROVE  service' \in Services /\ ~Up' /\ (Unmarked => Unmarked')
  BY DEF InstallerTypes, Services, Stop, Up, Unmarked

\* A dump is added to those there are.
LEMMA DumpIsTaken ==
  ASSUME InstallerTypes, TakeDump
  PROVE  /\ dumps' \in Seq(Names) /\ Len(dumps) \in Nat /\ Len(dumps') = Len(dumps) + 1
         /\ dumps'[Len(dumps) + 1] = database
         /\ \A n \in 1..Len(dumps) : dumps'[n] = dumps[n]
  BY LenProperties DEF InstallerTypes, TakeDump

\* A dump that is on disk is a database.
LEMMA DumpIsABase ==
  ASSUME InstallerTypes, NEW n, OnDisk(n) PROVE dumps[n] \in Names
  BY ElementOfSeq DEF InstallerTypes, OnDisk

\* The adapter a release goes with: the one in use when it fits, or its own,
\* which goes back to the one in use.
LEMMA TransitionFits ==
  ASSUME InstallerTypes, NEW v \in Releases
  PROVE  /\ Transition(v) \in Pointers
         /\ Adopted(Transition(v)) \subseteq Releases
         /\ disk.adapters \subseteq Adopted(Transition(v))
         /\ Transition(v) = NoPointer => /\ disk.adapter.version # NoRelease
                                         /\ Fits(disk.adapter.version, v)
         /\ Transition(v) # NoPointer => /\ Transition(v).version = v
                                         /\ Transition(v).previous = disk.adapter.version
                                         /\ v \in Adopted(Transition(v))
<1> DEFINE own == [version |-> v, previous |-> disk.adapter.version]
<1>1. disk.adapter \in Pointers /\ disk.adapters \subseteq Releases
  BY DEF InstallerTypes, Disks
<1>2. own \in Pointers /\ own.version = v /\ own.previous = disk.adapter.version
  BY <1>1 DEF Pointers
<1>3. own # NoPointer
  BY <1>2, InstallerAssumption DEF NoPointer
<1>4. CASE disk.adapter.version # NoRelease /\ Fits(disk.adapter.version, v)
  BY <1>1, <1>4, NoCommandIsOne DEF Transition, Adopted
<1>5. CASE ~(disk.adapter.version # NoRelease /\ Fits(disk.adapter.version, v))
  <2>1. Transition(v) = own
    BY <1>5 DEF Transition
  <2> HIDE DEF own
  <2> QED
    BY <1>1, <1>2, <1>3, <2>1 DEF Adopted
<1> QED
  BY <1>4, <1>5

\* A release that is cleared is not the one in use.
LEMMA ClearKeeps == ASSUME InstallerInv, Clear PROVE InstallerInv'
<1>1. command.kind = "install" /\ command.at = "clear" /\ UNCHANGED <<database, dumps, service, spent>>
  BY DEF Clear, At
<1>2. command' \in Commands /\ command'.at = "stage" /\ SameErrand
  BY CommandGoes DEF Clear, InstallerInv, Places, InstallSteps, RollbackPlaces
<1>3. /\ disk' \in Disks
      /\ disk'.versions = disk.versions \ {command.target}
      /\ disk'.adapters = disk.adapters
      /\ disk'.current = disk.current
      /\ disk'.adapter = disk.adapter
  BY DEF Clear, InstallerInv, InstallerTypes, Disks
<1>4. InstallerTypes'
  BY <1>1, <1>2, <1>3
  DEF InstallerInv, InstallerTypes, Placed, SameErrand, InstallSteps, RestoreSteps, RollbackPlaces
<1>5. ResolveInv'
  BY <1>1, <1>2, <1>3
  DEF InstallerInv, ResolveInv, Pointed, InInstall, InRollback, Commanded, SameErrand, Kept
<1>6. HalfInv'
  BY <1>1, <1>2, <1>3
  DEF InstallerInv, HalfInv, Sound, InInstall, InRollback, Commanded, SameErrand, RestoreSteps,
      Rooted, DumpOf, Whole, Fits, Serves, Runs, Unmarked, Up, Installed
<1> QED
  BY <1>4, <1>5, <1>6 DEF InstallerInv

\* A release is staged before a pointer names it.
LEMMA StageKeeps == ASSUME InstallerInv, Stage PROVE InstallerInv'
<1>1. command.kind = "install" /\ command.at = "stage" /\ UNCHANGED <<database, dumps, service, spent>>
  BY DEF Stage, At
<1>2. command' \in Commands /\ command'.at = "point" /\ SameErrand
  BY CommandGoes DEF Stage, InstallerInv, Places, InstallSteps, RollbackPlaces
<1>3. command.target \in Releases
  BY <1>1 DEF InstallerInv, InstallerTypes, Placed
<1>4. /\ disk' \in Disks
      /\ disk'.versions = disk.versions \cup {command.target}
      /\ disk'.adapters = disk.adapters
      /\ disk'.current = disk.current
      /\ disk'.adapter = disk.adapter
  BY <1>3 DEF Stage, InstallerInv, InstallerTypes, Disks
<1>5. InstallerTypes'
  BY <1>1, <1>2, <1>3, <1>4
  DEF InstallerInv, InstallerTypes, Placed, SameErrand, InstallSteps, RestoreSteps, RollbackPlaces
<1>6. ResolveInv'
  BY <1>1, <1>2, <1>3, <1>4
  DEF InstallerInv, ResolveInv, Pointed, InInstall, InRollback, Commanded, SameErrand, Kept
<1>7. HalfInv'
  BY <1>1, <1>2, <1>3, <1>4
  DEF InstallerInv, HalfInv, Sound, InInstall, InRollback, Commanded, SameErrand, RestoreSteps,
      Rooted, DumpOf, Whole, Fits, Serves, Runs, Unmarked, Up, Installed
<1> QED
  BY <1>5, <1>6, <1>7 DEF InstallerInv

\* The pointer names what was staged, and the dump of what it leaves.
LEMMA PointKeeps == ASSUME InstallerInv, Point PROVE InstallerInv'
<1>1. command.kind = "install" /\ command.at = "point" /\ UNCHANGED <<database, dumps, service, spent>>
  BY DEF Point, At
<1>2. command' \in Commands /\ command'.at = "adapter" /\ SameErrand
  BY CommandGoes DEF Point, InstallerInv, Places, InstallSteps, RollbackPlaces
<1>3. command.target \in Releases /\ command.current \in Currents /\ command.dump \in Nat
  BY <1>1 DEF InstallerInv, InstallerTypes, Placed, Commands
<1>4. /\ disk' \in Disks /\ disk'.versions = disk.versions /\ disk'.adapters = disk.adapters
      /\ disk'.adapter = disk.adapter
      /\ disk'.current.version = command.target
      /\ disk'.current.previous = command.current.version
      /\ disk'.current.dump = command.dump
  BY <1>3 DEF Point, InstallerInv, InstallerTypes, Disks, Currents, Names
<1>5. InstallerTypes'
  BY <1>1, <1>2, <1>3, <1>4
  DEF InstallerInv, InstallerTypes, Placed, SameErrand, InstallSteps, RestoreSteps, RollbackPlaces
<1>6. ResolveInv'
  BY <1>1, <1>2, <1>3, <1>4
  DEF InstallerInv, ResolveInv, Pointed, InInstall, InRollback, Commanded, SameErrand, Kept
<1>7. HalfInv'
  BY <1>1, <1>2, <1>3, <1>4, InstallerAssumption
  DEF InstallerInv, HalfInv, Sound, InInstall, InRollback, Commanded, SameErrand, RestoreSteps,
      Rooted, DumpOf, Whole, Fits, Serves, Runs, Unmarked, Up, Installed
<1> QED
  BY <1>5, <1>6, <1>7 DEF InstallerInv

\* The adapter pointer names the adapter that was retained.
LEMMA PointAdapterKeeps == ASSUME InstallerInv, PointAdapter PROVE InstallerInv'
<1>1. command.kind = "install" /\ command.at = "adapter" /\ UNCHANGED <<database, dumps, service, spent>>
  BY DEF PointAdapter, At
<1>2. command' \in Commands /\ command'.at = "migrate" /\ SameErrand
  BY CommandGoes DEF PointAdapter, InstallerInv, Places, InstallSteps, RollbackPlaces
<1>3. command.next \in Pointers
  BY DEF InstallerInv, InstallerTypes, Commands
<1>4. /\ disk' \in Disks
      /\ disk'.versions = disk.versions
      /\ disk'.adapters = disk.adapters
      /\ disk'.current = disk.current
      /\ disk'.adapter = IF command.next = NoPointer THEN disk.adapter ELSE command.next
  BY <1>3 DEF PointAdapter, InstallerInv, InstallerTypes, Disks
<1>5. InstallerTypes'
  BY <1>1, <1>2, <1>3, <1>4
  DEF InstallerInv, InstallerTypes, Placed, SameErrand, InstallSteps, RestoreSteps, RollbackPlaces
<1>6. ResolveInv'
  BY <1>1, <1>2, <1>3, <1>4
  DEF InstallerInv, ResolveInv, Pointed, InInstall, InRollback, Commanded, SameErrand, Kept
<1>7. HalfInv'
  BY <1>1, <1>2, <1>3, <1>4
  DEF InstallerInv, HalfInv, Sound, InInstall, InRollback, Commanded, SameErrand, RestoreSteps,
      Rooted, DumpOf, Whole, Fits, Serves, Runs, Unmarked, Up, Installed
<1> QED
  BY <1>5, <1>6, <1>7 DEF InstallerInv

\* The migrations leave the schema of the release installed.
LEMMA MigrateKeeps == ASSUME InstallerInv, Migrate PROVE InstallerInv'
<1>1. command.kind = "install" /\ command.at = "migrate" /\ UNCHANGED <<disk, dumps, service, spent>>
  BY DEF Migrate, At
<1>2. command' \in Commands /\ command'.at = "start" /\ SameErrand
  BY CommandGoes DEF Migrate, InstallerInv, Places, InstallSteps, RollbackPlaces
<1>3. command.target \in Releases
  BY <1>1 DEF InstallerInv, InstallerTypes, Placed
<1>4. database' \in Names /\ database' = command.target
  BY <1>3 DEF Migrate, Names
<1>5. InstallerTypes'
  BY <1>1, <1>2, <1>3, <1>4
  DEF InstallerInv, InstallerTypes, Placed, SameErrand, InstallSteps, RestoreSteps, RollbackPlaces
<1>6. ResolveInv'
  BY <1>1, <1>2, <1>3, <1>4
  DEF InstallerInv, ResolveInv, Pointed, InInstall, InRollback, Commanded, SameErrand, Kept
<1>7. HalfInv'
  BY <1>1, <1>2, <1>3, <1>4
  DEF InstallerInv, HalfInv, Sound, InInstall, InRollback, Commanded, SameErrand, RestoreSteps,
      Rooted, DumpOf, Whole, Fits, Serves, Runs, Unmarked, Up, Installed
<1> QED
  BY <1>5, <1>6, <1>7 DEF InstallerInv

\* A service that is started is no longer one whose start failed.
LEMMA ServiceIsUp ==
  ASSUME spent \in Spendings, spent' = [spent EXCEPT !.quiet = FALSE]
  PROVE  spent' \in Spendings /\ spent'.killed = spent.killed /\ spent'.hurt = spent.hurt
<1> DEFINE no == FALSE
<1>1. no \in BOOLEAN /\ spent' = [spent EXCEPT !.quiet = no]
  OBVIOUS
<1> HIDE DEF no
<1> QED
  BY <1>1 DEF Spendings

\* The service runs on what was installed.
LEMMA StartKeeps == ASSUME InstallerInv, StartService PROVE InstallerInv'
<1>1. command.kind = "install" /\ command.at = "start" /\ UNCHANGED <<disk, database, dumps>>
  BY DEF StartService, At
<1>2. command' \in Commands /\ command'.at = "integrate" /\ SameErrand
  BY CommandGoes DEF StartService, InstallerInv, Places, InstallSteps, RollbackPlaces
<1>3. service' = "running" /\ service' \in Services
  BY DEF StartService, Services
<1>4. spent' \in Spendings /\ spent'.killed = spent.killed /\ spent'.hurt = spent.hurt
  BY ServiceIsUp DEF StartService, InstallerInv, InstallerTypes
<1>5. InstallerTypes'
  BY <1>1, <1>2, <1>3, <1>4
  DEF InstallerInv, InstallerTypes, Placed, SameErrand, InstallSteps, RestoreSteps, RollbackPlaces
<1>6. ResolveInv'
  BY <1>1, <1>2, <1>4
  DEF InstallerInv, ResolveInv, Pointed, InInstall, InRollback, Commanded, SameErrand, Kept
<1>7. HalfInv'
  BY <1>1, <1>2, <1>3, <1>4
  DEF InstallerInv, HalfInv, Sound, InInstall, InRollback, Commanded, SameErrand, RestoreSteps,
      Rooted, DumpOf, Whole, Fits, Serves, Runs, Unmarked, Up, Installed
<1> QED
  BY <1>5, <1>6, <1>7 DEF InstallerInv

\* The service stops before the release under its feet may go.
LEMMA StopServiceKeeps == ASSUME InstallerInv, StopService PROVE InstallerInv'
<1>1. command.kind = "install" /\ command.at = "stop" /\ UNCHANGED <<disk, database, dumps, spent>>
  BY DEF StopService, At
<1>2. command' \in Commands /\ command'.at = "clear" /\ SameErrand
  BY CommandGoes DEF StopService, InstallerInv, Places, InstallSteps, RollbackPlaces
<1>3. service' \in Services /\ (Unmarked => Unmarked')
  <2>1. CASE command.served
    BY <2>1, StopsSoon DEF StopService, InstallerInv
  <2>2. CASE ~command.served
    BY <2>2 DEF StopService, InstallerInv, InstallerTypes, Unmarked
  <2> QED
    BY <2>1, <2>2
<1>4. InstallerTypes'
  BY <1>1, <1>2, <1>3
  DEF InstallerInv, InstallerTypes, Placed, SameErrand, InstallSteps, RestoreSteps, RollbackPlaces
<1>5. ResolveInv'
  BY <1>1, <1>2, <1>3
  DEF InstallerInv, ResolveInv, Pointed, InInstall, InRollback, Commanded, SameErrand, Kept
<1>6. HalfInv'
  BY <1>1, <1>2, <1>3
  DEF InstallerInv, HalfInv, Sound, InInstall, InRollback, Commanded, SameErrand, RestoreSteps,
      Rooted, DumpOf, Whole, Fits, Serves, Runs, Up, Installed
<1> QED
  BY <1>4, <1>5, <1>6 DEF InstallerInv

\* Pruning spares what the pointers name, and ends the install.
LEMMA IntegrateKeeps == ASSUME InstallerInv, Integrate PROVE InstallerInv'
<1>1. command.kind = "install" /\ command.at = "integrate" /\ UNCHANGED <<database, dumps, service, spent>>
  BY DEF Integrate, At
<1>2. command' = NoCommand
  BY DEF Integrate, EndCommand
<1>3. /\ disk' \in Disks /\ disk'.current = disk.current /\ disk'.adapter = disk.adapter
      /\ disk.versions \cap Kept(disk.current) \subseteq disk'.versions
      /\ disk.adapters \cap Kept(disk.adapter) \subseteq disk'.adapters
  BY DEF Integrate, PruneAll, InstallerInv, InstallerTypes, Disks
<1>4. InstallerTypes'
  BY <1>1, <1>2, <1>3, NoCommandIsOne
  DEF InstallerInv, InstallerTypes, Placed, SameErrand, InstallSteps, RestoreSteps, RollbackPlaces
<1>5. ResolveInv'
  BY <1>1, <1>2, <1>3, NoCommandIsOne
  DEF InstallerInv, ResolveInv, Pointed, InInstall, InRollback, Commanded, SameErrand, Kept
<1>6. HalfInv'
  BY <1>1, <1>2, <1>3, NoCommandIsOne, InstallerAssumption
  DEF InstallerInv, HalfInv, Sound, InInstall, InRollback, Commanded, SameErrand, RestoreSteps,
      Rooted, DumpOf, Whole, Fits, Serves, Runs, Unmarked, Up, Installed, InstallerTypes, Placed
<1> QED
  BY <1>4, <1>5, <1>6 DEF InstallerInv

\* An install begins with what it would restore, and moves nothing.
LEMMA BeginInstallKeeps == 
  ASSUME InstallerInv, NEW v \in Releases, BeginInstall(v) PROVE InstallerInv'
<1>1. /\ v # disk.current.version /\ command = NoCommand
      /\ UNCHANGED <<disk, database, dumps, service>>
  BY DEF BeginInstall, Begins
<1>2. /\ command' \in Commands /\ command'.kind = "install" /\ command'.at = "backup"
      /\ command'.target = v /\ command'.current = disk.current
      /\ command'.adapter = disk.adapter /\ command'.dump = 0
      /\ (command'.had <=> v \in disk.adapters) /\ (command'.served <=> service # "absent")
  <2> DEFINE had == v \in disk.adapters
             served == service # "absent"
  <2>1. had \in BOOLEAN /\ served \in BOOLEAN
    OBVIOUS
  <2>2. command' = [NoCommand EXCEPT !.kind = "install", !.at = "backup", !.target = v,
                                     !.current = disk.current, !.adapter = disk.adapter,
                                     !.had = had, !.served = served]
    BY DEF BeginInstall, Begins
  <2>3. disk.current \in Currents /\ disk.adapter \in Pointers
    BY DEF InstallerInv, InstallerTypes, Disks
  <2> HIDE DEF had, served
  <2>4. command' \in Commands
    BY <2>1, <2>2, <2>3, NoCommandIsOne DEF Commands, Places, InstallSteps, Names
  <2>5. /\ command'.kind = "install" /\ command'.at = "backup"
        /\ command'.target = v /\ command'.current = disk.current
        /\ command'.adapter = disk.adapter /\ command'.dump = 0
        /\ command'.had = had /\ command'.served = served
    BY <2>2, NoCommandIsOne DEF Commands
  <2> QED
    BY <2>4, <2>5 DEF had, served
<1>3. spent' \in Spendings /\ SameSpoils
  BY DEF BeginInstall, Begins, InstallerInv, InstallerTypes, Spendings, SameSpoils
<1>4. InstallerTypes'
  BY <1>1, <1>2, <1>3, NoCommandIsOne, LenProperties
  DEF InstallerInv, InstallerTypes, Placed, SameErrand, InstallSteps, RestoreSteps, RollbackPlaces
<1>5. ResolveInv'
  BY <1>1, <1>2, <1>3, NoCommandIsOne, InstallerAssumption
  DEF InstallerInv, ResolveInv, Pointed, InInstall, InRollback, Commanded, SameErrand, Kept, SameSpoils
<1>6. HalfInv'
  BY <1>1, <1>2, <1>3, NoCommandIsOne
  DEF InstallerInv, HalfInv, Sound, InInstall, InRollback, Commanded, SameErrand, RestoreSteps,
      Rooted, DumpOf, Whole, Fits, Serves, Runs, Unmarked, Up, Installed, SameSpoils
<1> QED
  BY <1>4, <1>5, <1>6 DEF InstallerInv

\* An install takes a dump of what it would upgrade before anything else.
LEMMA BackupKeeps == ASSUME InstallerInv, Backup PROVE InstallerInv'
<1>1. command.kind = "install" /\ command.at = "backup" /\ UNCHANGED <<disk, database, service, spent>>
  BY DEF Backup, At
<1>2. /\ Len(dumps) \in Nat /\ command \in Commands
      /\ disk.current.dump \in 0..Len(dumps) /\ command.current.dump \in 0..Len(dumps)
  BY LenProperties DEF InstallerInv, InstallerTypes, Disks, Commands, Currents
<1>3. CASE Installed
  <2> DEFINE taken == Len(dumps) + 1
  <2>1. TakeDump /\ command' = [command EXCEPT !.at = "adopt", !.dump = taken]
    BY <1>1, <1>3 DEF Backup
  <2>2. /\ dumps' \in Seq(Names) /\ Len(dumps') = taken /\ dumps'[taken] = database
        /\ \A n \in 1..Len(dumps) : dumps'[n] = dumps[n]
    BY <2>1, DumpIsTaken DEF InstallerInv
  <2>3. taken \in Nat /\ taken # 0 /\ Len(dumps) < taken
    BY <1>2
  <2> HIDE DEF taken
  <2>4. /\ command' \in Commands /\ command'.at = "adopt" /\ command'.dump = taken
        /\ command'.kind = command.kind
        /\ command'.target = command.target /\ command'.current = command.current
        /\ command'.adapter = command.adapter /\ command'.next = command.next
        /\ command'.had = command.had /\ command'.served = command.served
    BY <1>2, <2>1, <2>3 DEF Commands, Places, InstallSteps
  <2>5. /\ disk.current.dump # 0 => dumps'[disk.current.dump] = dumps[disk.current.dump]
        /\ command.current.dump # 0 => dumps'[command.current.dump] = dumps[command.current.dump]
    BY <1>2, <2>2
  <2>6. InstallerTypes'
    BY <1>1, <1>2, <2>2, <2>3, <2>4
    DEF InstallerInv, InstallerTypes, Placed, InstallSteps, RestoreSteps, RollbackPlaces
  <2>7. ResolveInv'
    BY <1>1, <2>4 DEF InstallerInv, ResolveInv, Pointed, InInstall, InRollback, Commanded, Kept
  <2>8. HalfInv'
    BY <1>1, <1>3, <2>2, <2>3, <2>4, <2>5
    DEF InstallerInv, InstallerTypes, Placed, HalfInv, Sound, InInstall, InRollback, Commanded, RestoreSteps,
        Rooted, DumpOf, Whole, Fits, Serves, Runs, Unmarked, Up, Installed
  <2> QED
    BY <2>6, <2>7, <2>8 DEF InstallerInv
<1>4. CASE ~Installed
  <2>1. GoTo("adopt") /\ UNCHANGED dumps
    BY <1>4 DEF Backup
  <2>2. command' \in Commands /\ command'.at = "adopt" /\ SameErrand
    BY <2>1, CommandGoes DEF InstallerInv, Places, InstallSteps
  <2>3. InstallerTypes'
    BY <1>1, <2>1, <2>2 DEF InstallerInv, InstallerTypes, Placed, SameErrand, InstallSteps, RestoreSteps, RollbackPlaces
  <2>4. ResolveInv'
    BY <1>1, <2>2 DEF InstallerInv, ResolveInv, Pointed, InInstall, InRollback, Commanded, SameErrand, Kept
  <2>5. HalfInv'
    BY <1>1, <1>4, <2>1, <2>2
    DEF InstallerInv, HalfInv, Sound, InInstall, InRollback, Commanded, SameErrand, RestoreSteps,
      Rooted, DumpOf, Whole, Fits, Serves, Runs, Unmarked, Up, Installed
  <2> QED
    BY <2>3, <2>4, <2>5 DEF InstallerInv
<1> QED
  BY <1>3, <1>4

\* An install retains the adapter it will point to.
LEMMA AdoptKeeps == ASSUME InstallerInv, Adopt PROVE InstallerInv'
<1>1. command.kind = "install" /\ command.at = "adopt" /\ UNCHANGED <<database, dumps, service, spent>>
  BY DEF Adopt, At
<1>2. command.target \in Releases
  BY <1>1 DEF InstallerInv, InstallerTypes, Placed
<1>3. /\ Transition(command.target) \in Pointers
      /\ Adopted(Transition(command.target)) \subseteq Releases
      /\ disk.adapters \subseteq Adopted(Transition(command.target))
      /\ \/ /\ Transition(command.target) = NoPointer
            /\ Fits(disk.adapter.version, command.target)
         \/ /\ Transition(command.target) # NoPointer
            /\ Transition(command.target).version = command.target
            /\ Transition(command.target).previous = disk.adapter.version
            /\ command.target \in Adopted(Transition(command.target))
  BY <1>2, TransitionFits DEF InstallerInv
<1>4. /\ command' \in Commands /\ command'.at = "stop" /\ command'.kind = command.kind
      /\ command'.target = command.target /\ command'.current = command.current
      /\ command'.adapter = command.adapter /\ command'.next = Transition(command.target)
      /\ command'.had = command.had /\ command'.served = command.served
      /\ command'.dump = command.dump
  BY <1>3 DEF Adopt, InstallerInv, InstallerTypes, Commands, Places, InstallSteps
<1>5. /\ disk' \in Disks
      /\ disk'.versions = disk.versions
      /\ disk'.adapters = Adopted(Transition(command.target))
      /\ disk'.current = disk.current
      /\ disk'.adapter = disk.adapter
  BY <1>3 DEF Adopt, InstallerInv, InstallerTypes, Disks
<1>6. InstallerTypes'
  BY <1>1, <1>2, <1>3, <1>4, <1>5
  DEF InstallerInv, InstallerTypes, Placed, SameErrand, InstallSteps, RestoreSteps, RollbackPlaces
<1>7. ResolveInv'
  BY <1>1, <1>2, <1>3, <1>4, <1>5, NoCommandIsOne
  DEF InstallerInv, ResolveInv, Pointed, InInstall, InRollback, Commanded, SameErrand, Kept
<1>8. HalfInv'
  BY <1>1, <1>2, <1>3, <1>4, <1>5
  DEF InstallerInv, HalfInv, Sound, InInstall, InRollback, Commanded, SameErrand, RestoreSteps,
      Rooted, DumpOf, Whole, Fits, Serves, Runs, Unmarked, Up, Installed
<1> QED
  BY <1>6, <1>7, <1>8 DEF InstallerInv

\* What a step that fails costs.
LEMMA FaultIsSpent ==
  ASSUME InstallerTypes, Fault
  PROVE  spent' \in Spendings /\ SameSpoils
  BY DEF Fault, InstallerTypes, Spendings, SameSpoils

\* The step of an install that fails sends it to what it restores, with the
\* migrations run, the service up or a pointer gone, if it was theirs.
LEMMA InstallFailsKeeps == ASSUME InstallerInv, InstallFails PROVE InstallerInv'
<1>1. command.kind = "install" /\ command.at \in InstallSteps /\ UNCHANGED dumps
  BY DEF InstallFails
<1>2. command' \in Commands /\ command'.at = "restop" /\ SameErrand
  BY CommandGoes DEF InstallFails, InstallerInv, Places, RestoreSteps
<1>3. command.target \in Releases
  BY <1>1 DEF InstallerInv, InstallerTypes, Placed
<1>4. spent' \in Spendings /\ SameSpoils
  <2>1. CASE UNCHANGED spent
    BY <2>1 DEF InstallerInv, InstallerTypes, SameSpoils
  <2>2. CASE Fault
    BY <2>2, FaultIsSpent DEF InstallerInv
  <2> QED
    BY <2>1, <2>2 DEF InstallFails
<1>5. /\ database' \in Names /\ service' \in Services /\ (Unmarked => Unmarked')
      /\ database' # database => command.at = "migrate"
  BY <1>3 DEF InstallFails, InstallerInv, InstallerTypes, Names, Services, Unmarked
<1>6. /\ disk' \in Disks
      /\ disk'.versions = disk.versions /\ disk'.adapters = disk.adapters
      /\ disk'.current \in {disk.current, NoCurrent}
      /\ disk'.adapter \in {disk.adapter, NoPointer}
  <2>1. CASE disk' = disk
    BY <2>1 DEF InstallerInv, InstallerTypes
  <2>2. CASE disk' \in LeftAt(command.at)
    BY <1>1, <2>2, DiskIsLeft DEF InstallerInv, InstallSteps
  <2> QED
    BY <2>1, <2>2 DEF InstallFails
<1>7. InstallerTypes'
  BY <1>1, <1>2, <1>4, <1>5, <1>6, NoCommandIsOne, LenProperties
  DEF InstallerInv, InstallerTypes, Placed, SameErrand, InstallSteps, RestoreSteps, RollbackPlaces
<1>8. ResolveInv'
  BY <1>1, <1>2, <1>4, <1>5, <1>6, NoCommandIsOne
  DEF InstallerInv, ResolveInv, Pointed, InInstall, InRollback, Commanded, SameErrand, Kept, SameSpoils
<1>9. HalfInv'
  BY <1>1, <1>2, <1>4, <1>5, <1>6, NoCommandIsOne
  DEF InstallerInv, HalfInv, Sound, InInstall, InRollback, Commanded, SameErrand, RestoreSteps,
      Rooted, DumpOf, Whole, Fits, Serves, Runs, Up, Installed, InstallSteps, SameSpoils
<1> QED
  BY <1>7, <1>8, <1>9 DEF InstallerInv

\* A restore goes on to its next step, and ends with the last.
LEMMA RestoreProceeds ==
  ASSUME InstallerTypes, command.kind = "install", command.at \in RestoreSteps, Proceed
  PROVE  /\ command.at = "restart" => command' = NoCommand
         /\ command.at # "restart" =>
               /\ command' \in Commands /\ SameErrand
               /\ command'.at = AfterRestore(command.at) /\ command'.at \in RestoreSteps
<1>1. CASE command.at = "restart"
  BY <1>1 DEF Proceed, EndCommand
<1>2. CASE command.at # "restart"
  <2>1. GoTo(AfterRestore(command.at))
    BY <1>2 DEF Proceed
  <2>2. AfterRestore(command.at) \in RestoreSteps
    BY <1>2 DEF RestoreSteps, AfterRestore
  <2>3. AfterRestore(command.at) \in Places
    BY <2>2 DEF Places
  <2> QED
    BY <1>2, <2>1, <2>2, <2>3, CommandGoes
<1> QED
  BY <1>1, <1>2

\* Each step of a restore puts back what it is there for, and the last has
\* the service run again if there was one.
LEMMA RestoreKeeps == ASSUME InstallerInv, RestoreStep PROVE InstallerInv'
<1>1. /\ command.kind = "install" /\ command.at \in RestoreSteps /\ UNCHANGED dumps
      /\ Restore(command.at) /\ Proceed /\ InstallerTypes
  BY DEF RestoreStep, InstallerInv
<1>2. /\ command.at = "restart" => command' = NoCommand
      /\ command.at # "restart" =>
            /\ command' \in Commands /\ SameErrand
            /\ command'.at = AfterRestore(command.at) /\ command'.at \in RestoreSteps
  BY <1>1, RestoreProceeds
<1>3. CASE command.at = "restop"
  <2>1. command' \in Commands /\ SameErrand /\ command'.at = "repoint"
    BY <1>2, <1>3 DEF AfterRestore
  <2>2. /\ service' \in Services /\ ~Up' /\ (Unmarked => Unmarked')
        /\ UNCHANGED <<disk, database, spent>>
    BY <1>1, <1>3, StopsSoon DEF Restore
  <2>3. InstallerTypes'
    BY <1>1, <1>3, <2>1, <2>2
    DEF InstallerInv, InstallerTypes, Placed, SameErrand, InstallSteps, RestoreSteps, RollbackPlaces
  <2>4. ResolveInv'
    BY <1>1, <1>3, <2>1, <2>2, InstallerAssumption
    DEF InstallerInv, ResolveInv, Pointed, InInstall, InRollback, Commanded, SameErrand, Kept
  <2>5. HalfInv'
    BY <1>1, <1>3, <2>1, <2>2
    DEF InstallerInv, HalfInv, Sound, InInstall, InRollback, Commanded, SameErrand, RestoreSteps,
      Rooted, DumpOf, Whole, Fits, Serves, Runs, Installed
  <2> QED
    BY <2>3, <2>4, <2>5 DEF InstallerInv
<1>4. CASE command.at = "repoint"
  <2>1. command' \in Commands /\ SameErrand /\ command'.at = "readapt"
    BY <1>2, <1>4 DEF AfterRestore
  <2>2. /\ disk' \in Disks /\ disk'.versions = disk.versions /\ disk'.adapters = disk.adapters
        /\ disk'.current = command.current /\ disk'.adapter = disk.adapter
        /\ UNCHANGED <<database, service, spent>>
    BY <1>1, <1>4 DEF Restore, InstallerInv, InstallerTypes, Disks, Commands
  <2>3. InstallerTypes'
    BY <1>1, <1>4, <2>1, <2>2
    DEF InstallerInv, InstallerTypes, Placed, SameErrand, InstallSteps, RestoreSteps, RollbackPlaces
  <2>4. ResolveInv'
    BY <1>1, <1>4, <2>1, <2>2, InstallerAssumption
    DEF InstallerInv, ResolveInv, Pointed, InInstall, InRollback, Commanded, SameErrand, Kept
  <2>5. HalfInv'
    BY <1>1, <1>4, <2>1, <2>2
    DEF InstallerInv, HalfInv, Sound, InInstall, InRollback, Commanded, SameErrand, RestoreSteps,
      Rooted, DumpOf, Whole, Fits, Serves, Runs, Unmarked, Up, Installed
  <2> QED
    BY <2>3, <2>4, <2>5 DEF InstallerInv
<1>5. CASE command.at = "readapt"
  <2>1. command' \in Commands /\ SameErrand /\ command'.at = "restore"
    BY <1>2, <1>5 DEF AfterRestore
  <2>2. /\ disk' \in Disks /\ disk'.versions = disk.versions /\ disk'.adapters = disk.adapters
        /\ disk'.current = disk.current /\ disk'.adapter = command.adapter
        /\ UNCHANGED <<database, service, spent>>
    BY <1>1, <1>5 DEF Restore, InstallerInv, InstallerTypes, Disks, Commands
  <2>3. InstallerTypes'
    BY <1>1, <1>5, <2>1, <2>2
    DEF InstallerInv, InstallerTypes, Placed, SameErrand, InstallSteps, RestoreSteps, RollbackPlaces
  <2>4. ResolveInv'
    BY <1>1, <1>5, <2>1, <2>2, InstallerAssumption
    DEF InstallerInv, ResolveInv, Pointed, InInstall, InRollback, Commanded, SameErrand, Kept
  <2>5. HalfInv'
    BY <1>1, <1>5, <2>1, <2>2
    DEF InstallerInv, HalfInv, Sound, InInstall, InRollback, Commanded, SameErrand, RestoreSteps,
      Rooted, DumpOf, Whole, Fits, Serves, Runs, Unmarked, Up, Installed
  <2> QED
    BY <2>3, <2>4, <2>5 DEF InstallerInv
<1>6. CASE command.at = "restore"
  <2>1. command' \in Commands /\ SameErrand /\ command'.at = "remove"
    BY <1>2, <1>6 DEF AfterRestore
  <2>2. /\ database' \in Names /\ UNCHANGED <<disk, service, spent>>
        /\ command.dump # 0 /\ command.dump = Len(dumps) => database' = dumps[command.dump]
        /\ command.dump = 0 => database' = database
    <3>1. UNCHANGED <<disk, service, spent>> /\ database' = IF OnDisk(command.dump) THEN dumps[command.dump] ELSE database
      BY <1>1, <1>6 DEF Restore, DatabaseFree
    <3>2. database' \in Names
      BY <1>1, <3>1, DumpIsABase DEF InstallerTypes
    <3>3. Len(dumps) \in Nat /\ command.dump \in Nat /\ command.dump <= Len(dumps)
      BY <1>1, LenProperties DEF InstallerTypes, Commands
    <3>4. command.dump # 0 /\ command.dump = Len(dumps) => OnDisk(command.dump)
      BY <3>3, InstallerAssumption DEF OnDisk
    <3>5. command.dump = 0 => ~OnDisk(command.dump)
      BY <3>3 DEF OnDisk
    <3> QED
      BY <3>1, <3>2, <3>4, <3>5
  <2>3. InstallerTypes'
    BY <1>1, <1>6, <2>1, <2>2
    DEF InstallerInv, InstallerTypes, Placed, SameErrand, InstallSteps, RestoreSteps, RollbackPlaces
  <2>4. ResolveInv'
    BY <1>1, <1>6, <2>1, <2>2, InstallerAssumption
    DEF InstallerInv, ResolveInv, Pointed, InInstall, InRollback, Commanded, SameErrand, Kept
  <2>5. HalfInv'
    BY <1>1, <1>6, <2>1, <2>2
    DEF InstallerInv, HalfInv, Sound, InInstall, InRollback, Commanded, SameErrand, RestoreSteps,
      Rooted, DumpOf, Whole, Fits, Serves, Runs, Unmarked, Up, Installed
  <2> QED
    BY <2>3, <2>4, <2>5 DEF InstallerInv
<1>7. CASE command.at = "remove"
  <2>1. command' \in Commands /\ SameErrand /\ command'.at = "unadopt"
    BY <1>2, <1>7 DEF AfterRestore
  <2>2. /\ disk' \in Disks /\ disk'.versions = disk.versions \ {command.target}
        /\ disk'.adapters = disk.adapters
        /\ disk'.current = disk.current /\ disk'.adapter = disk.adapter
        /\ UNCHANGED <<database, service, spent>>
    BY <1>1, <1>7 DEF Restore, InstallerInv, InstallerTypes, Disks, Commands
  <2>3. InstallerTypes'
    BY <1>1, <1>7, <2>1, <2>2
    DEF InstallerInv, InstallerTypes, Placed, SameErrand, InstallSteps, RestoreSteps, RollbackPlaces
  <2>4. ResolveInv'
    BY <1>1, <1>7, <2>1, <2>2, InstallerAssumption
    DEF InstallerInv, ResolveInv, Pointed, InInstall, InRollback, Commanded, SameErrand, Kept
  <2>5. HalfInv'
    BY <1>1, <1>7, <2>1, <2>2
    DEF InstallerInv, HalfInv, Sound, InInstall, InRollback, Commanded, SameErrand, RestoreSteps,
      Rooted, DumpOf, Whole, Fits, Serves, Runs, Unmarked, Up, Installed
  <2> QED
    BY <2>3, <2>4, <2>5 DEF InstallerInv
<1>8. CASE command.at = "unadopt"
  <2>1. command' \in Commands /\ SameErrand /\ command'.at = "restart"
    BY <1>2, <1>8 DEF AfterRestore
  <2>2. /\ disk' \in Disks /\ disk'.versions = disk.versions
        /\ disk'.adapters = Unadopted
        /\ disk'.current = disk.current /\ disk'.adapter = disk.adapter
        /\ UNCHANGED <<database, service, spent>>
    BY <1>1, <1>8 DEF Restore, Unadopted, InstallerInv, InstallerTypes, Disks, Commands
  <2>3. InstallerTypes'
    BY <1>1, <1>8, <2>1, <2>2
    DEF InstallerInv, InstallerTypes, Placed, SameErrand, InstallSteps, RestoreSteps, RollbackPlaces
  <2>4. ResolveInv'
    BY <1>1, <1>8, <2>1, <2>2, InstallerAssumption
    DEF InstallerInv, ResolveInv, Pointed, InInstall, InRollback, Commanded, SameErrand, Kept, Unadopted
  <2>5. HalfInv'
    BY <1>1, <1>8, <2>1, <2>2
    DEF InstallerInv, HalfInv, Sound, InInstall, InRollback, Commanded, SameErrand, RestoreSteps,
      Rooted, DumpOf, Whole, Fits, Serves, Runs, Unmarked, Up, Installed
  <2> QED
    BY <2>3, <2>4, <2>5 DEF InstallerInv
<1>9. CASE command.at = "restart"
  <2>1. command' = NoCommand
    BY <1>2, <1>9
  <2>2. /\ service' \in Services /\ spent' \in Spendings /\ UNCHANGED <<disk, database>>
        /\ spent'.killed = spent.killed /\ spent'.hurt = spent.hurt
        /\ command.served => service' = "running" /\ Installed
        /\ ~command.served /\ ~Up => service' \in {"absent", "leaving"}
    <3>1. CASE command.served
      <4>1. /\ service' = "running" /\ spent' = [spent EXCEPT !.quiet = FALSE]
            /\ Installed /\ UNCHANGED <<disk, database>>
        BY <1>1, <1>9, <3>1 DEF Restore, Startable
      <4> QED
        BY <1>1, <3>1, <4>1, ServiceIsUp DEF Services, InstallerTypes
    <3>2. CASE ~command.served
      BY <1>1, <1>9, <3>2 DEF Restore, Delete, Up, Services, InstallerTypes
    <3> QED
      BY <3>1, <3>2
  <2>3. InstallerTypes'
    BY <1>1, <1>9, <2>1, <2>2, NoCommandIsOne, LenProperties
    DEF InstallerInv, InstallerTypes, Placed, SameErrand, InstallSteps, RestoreSteps, RollbackPlaces
  <2>4. ResolveInv'
    BY <1>1, <1>9, <2>1, <2>2, NoCommandIsOne
    DEF InstallerInv, ResolveInv, Pointed, InInstall, InRollback, Commanded, SameErrand, Kept
  <2>5. HalfInv'
    <3>1. SUFFICES ASSUME Sound' PROVE HalfInv'
      BY DEF HalfInv
    <3>2. /\ disk.current = command.current /\ disk.adapter = command.adapter
          /\ Rooted(command.current) /\ DumpOf(command.current)
          /\ Whole(command.current, command.adapter) /\ ~Up
          /\ command.current.version # NoRelease => /\ command.served
                                                     /\ database = command.current.version
      BY <1>1, <1>9, <2>2, <3>1 DEF InstallerInv, HalfInv, Sound, InInstall, Commanded, RestoreSteps
    <3>3. Serves'
      BY <2>2, <3>2 DEF Serves, Runs, Unmarked, Installed
    <3> QED
      BY <1>1, <2>1, <2>2, <3>2, <3>3, NoCommandIsOne
      DEF HalfInv, InInstall, InRollback, Commanded, Rooted, DumpOf, Whole, Fits
  <2> QED
    BY <2>3, <2>4, <2>5 DEF InstallerInv
<1> QED
  BY <1>1, <1>3, <1>4, <1>5, <1>6, <1>7, <1>8, <1>9 DEF RestoreSteps

\* What a restore that fails on top of the failure costs.
LEMMA HurtIsSpent ==
  ASSUME spent \in Spendings, NEW at \in RestoreSteps \cup {"undo"},
         \/ spent' = [spent EXCEPT !.hurt = @ \cup {at}]
         \/ spent' = [spent EXCEPT !.mishaps = @ + 1, !.hurt = @ \cup {at}]
  PROVE  /\ spent' \in Spendings
         /\ spent'.hurt = spent.hurt \cup {at} /\ spent'.killed = spent.killed
<1> DEFINE hurt == spent.hurt \cup {at}
           mishaps == spent.mishaps + 1
<1>1. hurt \in SUBSET (RestoreSteps \cup {"undo"}) /\ mishaps \in Nat
  BY DEF Spendings
<1>2. \/ spent' = [spent EXCEPT !.hurt = hurt]
      \/ spent' = [spent EXCEPT !.mishaps = mishaps, !.hurt = hurt]
  OBVIOUS
<1> HIDE DEF hurt, mishaps
<1>3. spent' \in Spendings /\ spent'.hurt = hurt /\ spent'.killed = spent.killed
  BY <1>1, <1>2 DEF Spendings
<1> QED
  BY <1>3 DEF hurt

\* A restore step that fails is told; the pointers it did not write stay, and
\* what only tidies up leaves the rest of the machine whole.
LEMMA RestoreFailsKeeps == ASSUME InstallerInv, RestoreFails PROVE InstallerInv'
<1>1. /\ command.kind = "install" /\ command.at \in RestoreSteps /\ Proceed /\ InstallerTypes
      /\ UNCHANGED <<database, dumps>>
  BY DEF RestoreFails, InstallerInv
<1>2. spent' \in Spendings /\ spent'.hurt = spent.hurt \cup {command.at} /\ spent'.killed = spent.killed
  BY <1>1, HurtIsSpent DEF RestoreFails, InstallerTypes
<1>3. /\ command.at = "restart" => command' = NoCommand
      /\ command.at # "restart" =>
            /\ command' \in Commands /\ SameErrand
            /\ command'.at = AfterRestore(command.at) /\ command'.at \in RestoreSteps
  BY <1>1, RestoreProceeds
<1>4. service' \in Services /\ (command.at # "restart" => service' = service)
  BY <1>1 DEF RestoreFails, RestartLeaves, InstallerTypes, Services
<1>5. /\ disk' \in Disks
      /\ disk'.versions = disk.versions /\ disk'.adapters = disk.adapters
      /\ disk'.current \in {disk.current, NoCurrent}
      /\ disk'.adapter \in {disk.adapter, NoPointer}
      /\ command.at # "repoint" => disk'.current = disk.current
      /\ command.at # "readapt" => disk'.adapter = disk.adapter
  <2>1. CASE disk' = disk
    BY <1>1, <2>1 DEF InstallerTypes
  <2>2. CASE disk' \in LeftAt(command.at)
    BY <1>1, <2>2, DiskIsLeft DEF RestoreSteps
  <2> QED
    BY <2>1, <2>2 DEF RestoreFails
<1>6. InstallerTypes'
  <2>1. CASE command.at = "restart"
    BY <1>1, <1>2, <1>3, <1>4, <1>5, <2>1, NoCommandIsOne, LenProperties DEF InstallerTypes, Placed
  <2>2. CASE command.at # "restart"
    BY <1>1, <1>2, <1>3, <1>4, <1>5, <2>2, NoCommandIsOne, LenProperties
    DEF InstallerTypes, Placed, SameErrand, RestoreSteps
  <2> QED
    BY <2>1, <2>2
<1>7. ResolveInv'
  <2>1. SUFFICES ASSUME Pointed' PROVE ResolveInv'
    BY DEF ResolveInv
  <2>2. Pointed /\ command.at \notin {"repoint", "readapt"}
    BY <1>2, <2>1 DEF Pointed
  <2>3. CASE command.at = "restart"
    BY <1>1, <1>3, <1>5, <2>2, <2>3, NoCommandIsOne
    DEF InstallerInv, ResolveInv, InInstall, InRollback, Commanded, Kept
  <2>4. CASE command.at # "restart"
    BY <1>1, <1>3, <1>5, <2>2, <2>4
    DEF InstallerInv, ResolveInv, InInstall, InRollback, Commanded, Kept, SameErrand, RestoreSteps,
        AfterRestore
  <2> QED
    BY <2>3, <2>4
<1>8. HalfInv'
  <2>1. SUFFICES ASSUME Sound' PROVE HalfInv'
    BY DEF HalfInv
  <2>2. Sound /\ command.at \in {"remove", "unadopt"}
    BY <1>2, <2>1 DEF Sound
  <2>3. command'.at \in {"unadopt", "restart"}
    BY <1>3, <2>2 DEF AfterRestore
  <2> QED
    BY <1>1, <1>3, <1>4, <1>5, <2>2, <2>3
    DEF InstallerInv, HalfInv, InInstall, InRollback, Commanded, SameErrand, RestoreSteps,
        Rooted, DumpOf, Whole, Fits, Unmarked, Up
<1> QED
  BY <1>6, <1>7, <1>8 DEF InstallerInv

\* A rollback goes to a release that is there, with a dump to come back by;
\* one that cannot take its dump has retained an adapter and moved nothing.
LEMMA BeginRollbackKeeps == ASSUME InstallerInv, BeginRollback PROVE InstallerInv'
<1> DEFINE v == disk.current.previous
           next == Transition(v)
           taken == Len(dumps) + 1
           begun == [NoCommand EXCEPT !.kind = "rollback", !.at = "stop", !.target = v,
                                      !.current = disk.current, !.adapter = disk.adapter,
                                      !.next = next, !.dump = taken]
<1>1. /\ v # NoRelease /\ v \in disk.versions /\ command = NoCommand
      /\ disk.current.dump # 0 /\ UNCHANGED <<database, service>>
      /\ disk' = [disk EXCEPT !.adapters = Adopted(next)]
      /\ spent' = [spent EXCEPT !.commands = @ + 1]
      /\ (TakeDump /\ command' = begun) \/ UNCHANGED <<dumps, command>>
  BY DEF BeginRollback, Begins
<1>2. /\ disk.current \in Currents /\ disk.adapter \in Pointers
      /\ disk.versions \subseteq Releases /\ v \in Releases
  BY <1>1 DEF InstallerInv, InstallerTypes, Disks
<1>3. /\ next \in Pointers /\ Adopted(next) \subseteq Releases
      /\ disk.adapters \subseteq Adopted(next)
      /\ next = NoPointer => Fits(disk.adapter.version, v)
      /\ next # NoPointer => /\ next.version = v /\ next.previous = disk.adapter.version
                             /\ v \in Adopted(next)
  BY <1>2, TransitionFits DEF InstallerInv
<1>4. spent' \in Spendings /\ SameSpoils
  BY <1>1 DEF InstallerInv, InstallerTypes, Spendings, SameSpoils
<1> HIDE DEF next
<1>5. /\ disk' \in Disks /\ disk'.versions = disk.versions /\ disk'.adapters = Adopted(next)
      /\ disk'.current = disk.current /\ disk'.adapter = disk.adapter
  BY <1>1, <1>3 DEF InstallerInv, InstallerTypes, Disks
<1>6. CASE TakeDump /\ command' = begun
  <2>1. /\ dumps' \in Seq(Names) /\ Len(dumps) \in Nat /\ Len(dumps') = taken
        /\ dumps'[taken] = database /\ \A n \in 1..Len(dumps) : dumps'[n] = dumps[n]
        /\ disk.current.dump \in 1..Len(dumps) /\ taken \in Nat /\ taken # 0
        /\ Len(dumps) < taken
    BY <1>1, <1>2, <1>6, DumpIsTaken DEF InstallerInv, InstallerTypes, Currents
  <2> HIDE DEF taken, v
  <2>2. /\ command' \in Commands /\ command'.kind = "rollback" /\ command'.at = "stop"
        /\ command'.target = v /\ command'.current = disk.current
        /\ command'.adapter = disk.adapter /\ command'.next = next /\ command'.dump = taken
    BY <1>2, <1>3, <1>6, <2>1, NoCommandIsOne DEF Commands, Places, RollbackPlaces, Names
  <2>3. dumps'[disk.current.dump] = dumps[disk.current.dump] /\ disk.current.dump <= Len(dumps)
    BY <2>1
  <2> HIDE DEF begun
  <2>4. InstallerTypes'
    BY <1>1, <1>2, <1>4, <1>5, <2>1, <2>2, <2>3, NoCommandIsOne
    DEF InstallerInv, InstallerTypes, Placed, InstallSteps, RestoreSteps, RollbackPlaces
  <2>5. ResolveInv'
    BY <1>1, <1>2, <1>3, <1>4, <1>5, <2>2, NoCommandIsOne
    DEF InstallerInv, ResolveInv, Pointed, InInstall, InRollback, Commanded, Kept, SameSpoils, v
  <2>6. HalfInv'
    BY <1>1, <1>2, <1>3, <1>4, <1>5, <2>1, <2>2, <2>3, NoCommandIsOne
    DEF InstallerInv, HalfInv, Sound, InInstall, InRollback, Commanded, RestoreSteps,
        Rooted, DumpOf, Whole, Fits, Serves, Runs, Unmarked, Up, Installed, SameSpoils, v
  <2> QED
    BY <2>4, <2>5, <2>6 DEF InstallerInv
<1>7. CASE UNCHANGED <<dumps, command>>
  <2>1. InstallerTypes'
    BY <1>1, <1>3, <1>4, <1>5, <1>7, NoCommandIsOne, LenProperties
    DEF InstallerInv, InstallerTypes, Placed, SameErrand, InstallSteps, RestoreSteps, RollbackPlaces
  <2>2. ResolveInv'
    BY <1>1, <1>3, <1>4, <1>5, <1>7, NoCommandIsOne
    DEF InstallerInv, ResolveInv, Pointed, InInstall, InRollback, Commanded, SameErrand, Kept, SameSpoils
  <2>3. HalfInv'
    BY <1>1, <1>3, <1>4, <1>5, <1>7, NoCommandIsOne
    DEF InstallerInv, HalfInv, Sound, InInstall, InRollback, Commanded, SameErrand, RestoreSteps,
      Rooted, DumpOf, Whole, Fits, Serves, Runs, Unmarked, Up, Installed, SameSpoils
  <2> QED
    BY <2>1, <2>2, <2>3 DEF InstallerInv
<1> QED
  BY <1>1, <1>6, <1>7

\* A rollback requests the stop of the service, or ends with it as it was.
LEMMA StopForRollbackKeeps == ASSUME InstallerInv, StopForRollback PROVE InstallerInv'
<1>1. command.kind = "rollback" /\ command.at = "stop" /\ UNCHANGED <<disk, database, dumps>>
  BY DEF StopForRollback, At
<1>2. CASE Stop /\ GoTo("point") /\ UNCHANGED spent
  <2>1. command' \in Commands /\ command'.at = "point" /\ SameErrand
    BY CommandGoes, <1>2 DEF InstallerInv, Places, RollbackPlaces
  <2>2. service' \in Services /\ (Unmarked => Unmarked')
    BY <1>2, StopsSoon DEF InstallerInv
  <2>3. InstallerTypes'
    BY <1>1, <1>2, <2>1, <2>2
    DEF InstallerInv, InstallerTypes, Placed, SameErrand, InstallSteps, RestoreSteps, RollbackPlaces
  <2>4. ResolveInv'
    BY <1>1, <1>2, <2>1, <2>2
    DEF InstallerInv, ResolveInv, Pointed, InInstall, InRollback, Commanded, SameErrand, Kept, SameSpoils
  <2>5. HalfInv'
    BY <1>1, <1>2, <2>1, <2>2
    DEF InstallerInv, HalfInv, Sound, InInstall, InRollback, Commanded, SameErrand, RestoreSteps,
      Rooted, DumpOf, Whole, Fits, Serves, Runs, Installed, SameSpoils
  <2> QED
    BY <2>3, <2>4, <2>5 DEF InstallerInv
<1>3. CASE EndCommand /\ UNCHANGED service /\ (Fault \/ UNCHANGED spent)
  <2>1. command' = NoCommand
    BY <1>3 DEF EndCommand
  <2>2. spent' \in Spendings /\ SameSpoils
    BY <1>3, FaultIsSpent DEF InstallerInv, InstallerTypes, SameSpoils
  <2>3. InstallerTypes'
    BY <1>1, <1>3, <2>1, <2>2, NoCommandIsOne, LenProperties
    DEF InstallerInv, InstallerTypes, Placed, SameErrand, InstallSteps, RestoreSteps, RollbackPlaces
  <2>4. ResolveInv'
    BY <1>1, <1>3, <2>1, <2>2, NoCommandIsOne, InstallerAssumption
    DEF InstallerInv, ResolveInv, Pointed, InInstall, InRollback, Commanded, SameErrand, Kept, SameSpoils
  <2>5. HalfInv'
    BY <1>1, <1>3, <2>1, <2>2, NoCommandIsOne, InstallerAssumption
    DEF InstallerInv, HalfInv, Sound, InInstall, InRollback, Commanded, SameErrand, RestoreSteps,
      Rooted, DumpOf, Whole, Fits, Serves, Runs, Unmarked, Up, Installed, SameSpoils
  <2> QED
    BY <2>3, <2>4, <2>5 DEF InstallerInv
<1> QED
  BY <1>2, <1>3 DEF StopForRollback

\* A step of a rollback that fails sends it to the undo, with the pointer it
\* was writing gone, if one was.
LEMMA RollbackUndoes ==
  ASSUME InstallerInv, command.kind = "rollback", command.at \in {"point", "adapter", "restore", "start"},
         NEW at \in {"undo", "undo_all"}, GoTo(at),
         at = "undo" => command.at \in {"point", "adapter"},
         UNCHANGED <<database, dumps>>, Fault \/ UNCHANGED spent,
         service' \in Services, Unmarked => Unmarked',
         disk' = disk \/ disk' \in LeftAt(command.at)
  PROVE  InstallerInv'
<1>1. command' \in Commands /\ command'.at = at /\ SameErrand
  BY CommandGoes DEF InstallerInv, Places, RollbackPlaces
<1>2. spent' \in Spendings /\ SameSpoils
  BY FaultIsSpent DEF InstallerInv, InstallerTypes, SameSpoils
<1>3. /\ disk' \in Disks
      /\ disk'.versions = disk.versions /\ disk'.adapters = disk.adapters
      /\ disk'.current \in {disk.current, NoCurrent}
      /\ disk'.adapter \in {disk.adapter, NoPointer}
  <2>1. CASE disk' = disk
    BY <2>1 DEF InstallerInv, InstallerTypes
  <2>2. CASE disk' \in LeftAt(command.at)
    BY <2>2, DiskIsLeft DEF InstallerInv
  <2> QED
    BY <2>1, <2>2
<1>4. InstallerTypes'
  BY <1>1, <1>2, <1>3, NoCommandIsOne, LenProperties
  DEF InstallerInv, InstallerTypes, Placed, SameErrand, InstallSteps, RestoreSteps, RollbackPlaces
<1>5. ResolveInv'
  BY <1>1, <1>2, <1>3, NoCommandIsOne
  DEF InstallerInv, ResolveInv, Pointed, InInstall, InRollback, Commanded, SameErrand, Kept, SameSpoils
<1>6. HalfInv'
  BY <1>1, <1>2, <1>3, NoCommandIsOne
  DEF InstallerInv, HalfInv, Sound, InInstall, InRollback, Commanded, SameErrand, RestoreSteps,
      Rooted, DumpOf, Whole, Fits, Serves, Runs, Installed, SameSpoils
<1> QED
  BY <1>4, <1>5, <1>6 DEF InstallerInv

\* The pointer goes back to a release that is there, or nothing moves.
LEMMA PointBackKeeps == ASSUME InstallerInv, PointBack PROVE InstallerInv'
<1>1. command.kind = "rollback" /\ command.at = "point" /\ UNCHANGED <<database, dumps, service>>
  BY DEF PointBack, At
<1>2. CASE /\ disk' = [disk EXCEPT !.current = [version |-> command.target,
                                                previous |-> command.current.version,
                                                dump |-> command.dump]]
           /\ GoTo("adapter") /\ UNCHANGED spent
  <2>1. command' \in Commands /\ command'.at = "adapter" /\ SameErrand
    BY CommandGoes, <1>2 DEF InstallerInv, Places, RollbackPlaces
  <2>2. command.target \in Releases /\ command.current \in Currents /\ command.dump \in Nat
    BY <1>1 DEF InstallerInv, InstallerTypes, Placed, Commands
  <2>3. /\ disk' \in Disks /\ disk'.versions = disk.versions
        /\ disk'.adapters = disk.adapters /\ disk'.adapter = disk.adapter
        /\ disk'.current.version = command.target
        /\ disk'.current.previous = command.current.version
        /\ disk'.current.dump = command.dump
    BY <1>2, <2>2 DEF InstallerInv, InstallerTypes, Disks, Currents, Names
  <2>4. InstallerTypes'
    BY <1>1, <1>2, <2>1, <2>2, <2>3
    DEF InstallerInv, InstallerTypes, Placed, SameErrand, InstallSteps, RestoreSteps, RollbackPlaces
  <2>5. ResolveInv'
    BY <1>1, <1>2, <2>1, <2>2, <2>3
    DEF InstallerInv, ResolveInv, Pointed, InInstall, InRollback, Commanded, SameErrand, Kept
  <2>6. HalfInv'
    BY <1>1, <1>2, <2>1, <2>2, <2>3, InstallerAssumption
    DEF InstallerInv, HalfInv, Sound, InInstall, InRollback, Commanded, SameErrand, RestoreSteps,
      Rooted, DumpOf, Whole, Fits, Serves, Runs, Unmarked, Up, Installed
  <2> QED
    BY <2>4, <2>5, <2>6 DEF InstallerInv
<1>3. CASE Fault /\ GoTo("undo") /\ disk' \in LeftAt("point")
  <2>1. service' \in Services /\ (Unmarked => Unmarked')
    BY <1>1 DEF InstallerInv, InstallerTypes, Unmarked
  <2> QED
    BY <1>1, <1>3, <2>1, RollbackUndoes
<1> QED
  BY <1>2, <1>3 DEF PointBack

\* The adapter's pointer follows, or nothing moves.
LEMMA PointAdapterBackKeeps == ASSUME InstallerInv, PointAdapterBack PROVE InstallerInv'
<1>1. command.kind = "rollback" /\ command.at = "adapter" /\ UNCHANGED <<database, dumps, service>>
  BY DEF PointAdapterBack, At
<1>2. CASE /\ disk' = IF command.next = NoPointer THEN disk
                      ELSE [disk EXCEPT !.adapter = command.next]
           /\ GoTo("restore") /\ UNCHANGED spent
  <2>1. command' \in Commands /\ command'.at = "restore" /\ SameErrand
    BY CommandGoes, <1>2 DEF InstallerInv, Places, RollbackPlaces
  <2>2. command.next \in Pointers
    BY DEF InstallerInv, InstallerTypes, Commands
  <2>3. /\ disk' \in Disks /\ disk'.versions = disk.versions
        /\ disk'.adapters = disk.adapters /\ disk'.current = disk.current
        /\ disk'.adapter = IF command.next = NoPointer THEN disk.adapter ELSE command.next
    BY <1>2, <2>2 DEF InstallerInv, InstallerTypes, Disks
  <2>4. InstallerTypes'
    BY <1>1, <1>2, <2>1, <2>2, <2>3
    DEF InstallerInv, InstallerTypes, Placed, SameErrand, InstallSteps, RestoreSteps, RollbackPlaces
  <2>5. ResolveInv'
    BY <1>1, <1>2, <2>1, <2>2, <2>3
    DEF InstallerInv, ResolveInv, Pointed, InInstall, InRollback, Commanded, SameErrand, Kept
  <2>6. HalfInv'
    BY <1>1, <1>2, <2>1, <2>2, <2>3
    DEF InstallerInv, HalfInv, Sound, InInstall, InRollback, Commanded, SameErrand, RestoreSteps,
      Rooted, DumpOf, Whole, Fits, Serves, Runs, Unmarked, Up, Installed
  <2> QED
    BY <2>4, <2>5, <2>6 DEF InstallerInv
<1>3. CASE Fault /\ GoTo("undo") /\ disk' \in LeftAt("adapter")
  <2>1. service' \in Services /\ (Unmarked => Unmarked')
    BY <1>1 DEF InstallerInv, InstallerTypes, Unmarked
  <2> QED
    BY <1>1, <1>3, <2>1, RollbackUndoes
<1> QED
  BY <1>2, <1>3 DEF PointAdapterBack

\* The database is what the upgrade dumped, or all of it is undone.
LEMMA RestoreBackKeeps == ASSUME InstallerInv, RestoreBack PROVE InstallerInv'
<1>1. command.kind = "rollback" /\ command.at = "restore" /\ UNCHANGED <<disk, dumps, service>>
  BY DEF RestoreBack, At
<1>2. CASE /\ OnDisk(command.current.dump) /\ database' = dumps[command.current.dump]
           /\ GoTo("start") /\ UNCHANGED spent
  <2>1. command' \in Commands /\ command'.at = "start" /\ SameErrand
    BY CommandGoes, <1>2 DEF InstallerInv, Places, RollbackPlaces
  <2>2. database' \in Names
    BY <1>2, DumpIsABase DEF InstallerInv
  <2>3. command.current.dump # 0
    BY <1>2, LenProperties DEF OnDisk, InstallerInv, InstallerTypes
  <2>4. InstallerTypes'
    BY <1>1, <1>2, <2>1, <2>2, <2>3
    DEF InstallerInv, InstallerTypes, Placed, SameErrand, InstallSteps, RestoreSteps, RollbackPlaces
  <2>5. ResolveInv'
    BY <1>1, <1>2, <2>1, <2>2, <2>3
    DEF InstallerInv, ResolveInv, Pointed, InInstall, InRollback, Commanded, SameErrand, Kept
  <2>6. HalfInv'
    BY <1>1, <1>2, <2>1, <2>2, <2>3
    DEF InstallerInv, HalfInv, Sound, InInstall, InRollback, Commanded, SameErrand, RestoreSteps,
      Rooted, DumpOf, Whole, Fits, Serves, Runs, Unmarked, Up, Installed
  <2> QED
    BY <2>4, <2>5, <2>6 DEF InstallerInv
<1>3. CASE GoTo("undo_all") /\ UNCHANGED database /\ (Fault \/ UNCHANGED spent)
  <2>1. service' \in Services /\ (Unmarked => Unmarked')
    BY <1>1 DEF InstallerInv, InstallerTypes, Unmarked
  <2> QED
    BY <1>1, <1>3, <2>1, RollbackUndoes
<1> QED
  BY <1>2, <1>3 DEF RestoreBack, DatabaseFree

\* The service runs on the release gone back to, or all of it is undone.
LEMMA StartBackKeeps == ASSUME InstallerInv, StartBack PROVE InstallerInv'
<1>1. command.kind = "rollback" /\ command.at = "start" /\ UNCHANGED <<database, dumps>>
  BY DEF StartBack, At
<1>2. CASE service' = "running" /\ PruneAll /\ EndCommand /\ spent' = [spent EXCEPT !.quiet = FALSE]
  <2>1. command' = NoCommand
    BY <1>2 DEF EndCommand
  <2>2. /\ disk' \in Disks /\ disk'.current = disk.current /\ disk'.adapter = disk.adapter
        /\ disk.versions \cap Kept(disk.current) \subseteq disk'.versions
        /\ disk.adapters \cap Kept(disk.adapter) \subseteq disk'.adapters
    BY <1>2 DEF PruneAll, InstallerInv, InstallerTypes, Disks
  <2>3. /\ spent' \in Spendings /\ spent'.killed = spent.killed /\ spent'.hurt = spent.hurt
        /\ service' \in Services
    BY <1>2, ServiceIsUp DEF InstallerInv, InstallerTypes, Services
  <2>4. InstallerTypes'
    BY <1>1, <1>2, <2>1, <2>2, <2>3, NoCommandIsOne, LenProperties
    DEF InstallerInv, InstallerTypes, Placed, SameErrand, InstallSteps, RestoreSteps, RollbackPlaces
  <2>5. ResolveInv'
    BY <1>1, <1>2, <2>1, <2>2, <2>3, NoCommandIsOne, InstallerAssumption
    DEF InstallerInv, ResolveInv, Pointed, InInstall, InRollback, Commanded, SameErrand, Kept, SameSpoils
  <2>6. HalfInv'
    BY <1>1, <1>2, <2>1, <2>2, <2>3, NoCommandIsOne, InstallerAssumption
    DEF InstallerInv, HalfInv, Sound, InInstall, InRollback, Commanded, SameErrand, RestoreSteps,
      Rooted, DumpOf, Whole, Fits, Serves, Runs, Unmarked, Up, Installed, InstallerTypes, Placed, SameSpoils
  <2> QED
    BY <2>4, <2>5, <2>6 DEF InstallerInv
<1>3. CASE GoTo("undo_all") /\ Stop /\ UNCHANGED <<disk, spent>>
  BY <1>1, <1>3, StopsSoon, RollbackUndoes DEF InstallerInv
<1>4. CASE /\ Fault /\ GoTo("undo_all") /\ UNCHANGED disk
           /\ service' \in {service} \cup (IF ServiceStarts THEN {"stopping"} ELSE {})
  <2>1. service' \in Services /\ (Unmarked => Unmarked')
    BY <1>4 DEF InstallerInv, InstallerTypes, Services, Unmarked
  <2> QED
    BY <1>1, <1>4, <2>1, RollbackUndoes
<1> QED
  BY <1>2, <1>3, <1>4 DEF StartBack

\* A start that fails unreported leaves a mark of its own.
LEMMA QuietIsSpent ==
  ASSUME spent \in Spendings,
         \/ spent' = [spent EXCEPT !.quiet = TRUE]
         \/ spent' = [spent EXCEPT !.mishaps = @ + 1, !.quiet = TRUE]
  PROVE  /\ spent' \in Spendings /\ spent'.killed = spent.killed /\ spent'.hurt = spent.hurt
         /\ spent'.quiet = TRUE
<1> DEFINE yes == TRUE
           mishaps == spent.mishaps + 1
<1>1. yes \in BOOLEAN /\ mishaps \in Nat
  BY DEF Spendings
<1>2. \/ spent' = [spent EXCEPT !.quiet = yes]
      \/ spent' = [spent EXCEPT !.mishaps = mishaps, !.quiet = yes]
  OBVIOUS
<1> HIDE DEF yes, mishaps
<1>3. /\ spent' \in Spendings /\ spent'.killed = spent.killed /\ spent'.hurt = spent.hurt
      /\ spent'.quiet = yes
  BY <1>1, <1>2 DEF Spendings
<1> QED
  BY <1>3 DEF yes

\* What is undone is all that the rollback had moved, but that the service may
\* not have been started again.
LEMMA UndoKeeps == ASSUME InstallerInv, UndoRollback PROVE InstallerInv'
<1>1. /\ command.kind = "rollback" /\ command.at \in {"undo", "undo_all"}
      /\ UNCHANGED dumps /\ command' = NoCommand
      /\ disk' = [disk EXCEPT !.current = command.current, !.adapter = command.adapter]
      /\ database' = IF command.at = "undo_all" THEN dumps[command.dump] ELSE database
  BY DEF UndoRollback, Undoing, Undone, At, EndCommand, Undo
<1>2. command.current \in Currents /\ command.adapter \in Pointers /\ command.dump \in Nat
  BY DEF InstallerInv, InstallerTypes, Commands
<1>3. /\ disk' \in Disks /\ disk'.versions = disk.versions /\ disk'.adapters = disk.adapters
      /\ disk'.current = command.current /\ disk'.adapter = command.adapter
  BY <1>1, <1>2 DEF InstallerInv, InstallerTypes, Disks
<1>4. command.dump # 0
  BY <1>1 DEF InstallerInv, InstallerTypes, Placed
<1>5. dumps[command.dump] \in Names
  BY <1>2, <1>4, LenProperties, ElementOfSeq DEF InstallerInv, InstallerTypes
<1>6. database' \in Names
  BY <1>1, <1>5 DEF InstallerInv, InstallerTypes
<1>7. /\ spent' \in Spendings /\ spent'.killed = spent.killed /\ spent'.hurt = spent.hurt
      /\ service' \in Services /\ (Unmarked => Runs')
  <2>1. CASE service' = "running" /\ spent' = [spent EXCEPT !.quiet = FALSE]
    BY <2>1, ServiceIsUp DEF InstallerInv, InstallerTypes, Services, Runs, Unmarked
  <2>2. CASE /\ UNCHANGED service
             /\ \/ spent' = [spent EXCEPT !.quiet = TRUE]
                \/ spent' = [spent EXCEPT !.mishaps = @ + 1, !.quiet = TRUE]
    <3>1. /\ spent' \in Spendings /\ spent'.killed = spent.killed /\ spent'.hurt = spent.hurt
          /\ spent'.quiet = TRUE
      BY <2>2, QuietIsSpent DEF InstallerInv, InstallerTypes
    <3> QED
      BY <2>2, <3>1 DEF InstallerInv, InstallerTypes, Services, Runs, Unmarked
  <2> QED
    BY <2>1, <2>2 DEF UndoRollback
<1>8. InstallerTypes'
  BY <1>1, <1>3, <1>4, <1>6, <1>7, NoCommandIsOne, LenProperties
  DEF InstallerInv, InstallerTypes, Placed, SameErrand, InstallSteps, RestoreSteps, RollbackPlaces
<1>9. ResolveInv'
  BY <1>1, <1>3, <1>4, <1>6, <1>7, NoCommandIsOne
  DEF InstallerInv, ResolveInv, Pointed, InInstall, InRollback, Commanded, SameErrand, Kept, SameSpoils
<1>10. HalfInv'
  BY <1>1, <1>3, <1>4, <1>6, <1>7, NoCommandIsOne
  DEF InstallerInv, HalfInv, Sound, InInstall, InRollback, Commanded, SameErrand, RestoreSteps,
      Rooted, DumpOf, Whole, Fits, Serves, Installed, SameSpoils
<1> QED
  BY <1>8, <1>9, <1>10 DEF InstallerInv

\* An undo that fails is told, and leaves what its pointers name.
LEMMA UndoFailsKeeps == ASSUME InstallerInv, UndoFails PROVE InstallerInv'
<1>1. /\ command.kind = "rollback" /\ UNCHANGED <<database, dumps, service>> /\ command' = NoCommand
  BY DEF UndoFails, Undoing, At, EndCommand
<1>2. spent' \in Spendings /\ spent'.hurt = spent.hurt \cup {"undo"}
  BY HurtIsSpent DEF UndoFails, InstallerInv, InstallerTypes
<1>3. /\ disk' \in Disks
      /\ disk'.versions = disk.versions /\ disk'.adapters = disk.adapters
      /\ disk'.current \in {disk.current, NoCurrent, command.current}
      /\ disk'.adapter \in {disk.adapter, NoPointer, command.adapter}
  <2>1. CASE Undone
    BY <2>1 DEF Undone, InstallerInv, InstallerTypes, Disks, Commands
  <2>2. CASE disk' \in LeftAt(command.at)
    BY <2>2, DiskIsLeft DEF InstallerInv
  <2> QED
    BY <2>1, <2>2 DEF UndoFails
<1>4. InstallerTypes'
  BY <1>1, <1>2, <1>3, NoCommandIsOne, LenProperties DEF InstallerInv, InstallerTypes, Placed
<1>5. ResolveInv'
  BY <1>1, <1>2, <1>3, NoCommandIsOne
  DEF InstallerInv, ResolveInv, Pointed, InInstall, InRollback, Commanded, Kept
<1>6. HalfInv'
  BY <1>2 DEF HalfInv, Sound
<1> QED
  BY <1>4, <1>5, <1>6 DEF InstallerInv

\* An adapter command killed while it writes leaves no pointer.
LEMMA AdapterIsTorn ==
  ASSUME InstallerInv, command = NoCommand, NEW adapters \in SUBSET Releases,
         AdapterTorn(adapters), UNCHANGED <<database, dumps, service, command>>
  PROVE  InstallerInv'
<1>1. /\ disk' \in Disks /\ disk'.versions = disk.versions /\ disk'.current = disk.current
      /\ disk'.adapter = NoPointer
  BY NoCommandIsOne DEF AdapterTorn, InstallerInv, InstallerTypes, Disks
<1>2. spent' \in Spendings /\ spent'.hurt = spent.hurt /\ spent'.killed = TRUE
  <2> DEFINE yes == TRUE
             commands == spent.commands + 1
             mishaps == spent.mishaps + 1
  <2>1. yes \in BOOLEAN /\ commands \in Nat /\ mishaps \in Nat /\ spent \in Spendings
    BY DEF Spendings, InstallerInv, InstallerTypes
  <2>2. spent' = [spent EXCEPT !.commands = commands, !.mishaps = mishaps, !.killed = yes]
    BY DEF AdapterTorn
  <2> HIDE DEF yes, commands, mishaps
  <2>3. spent' \in Spendings /\ spent'.hurt = spent.hurt /\ spent'.killed = yes
    BY <2>1, <2>2 DEF Spendings
  <2> QED
    BY <2>3 DEF yes
<1>3. InstallerTypes'
  BY <1>1, <1>2 DEF InstallerInv, InstallerTypes, Placed
<1>4. ResolveInv'
  BY <1>1, <1>2, NoCommandIsOne
  DEF InstallerInv, ResolveInv, Pointed, InInstall, InRollback, Commanded, Kept
<1>5. HalfInv'
  BY <1>2 DEF HalfInv, Sound
<1> QED
  BY <1>3, <1>4, <1>5 DEF InstallerInv

\* An adapter command retains what it points to, and points to what fits.
LEMMA InstallAdapterKeeps ==
  ASSUME InstallerInv, NEW a \in Releases, InstallAdapter(a) PROVE InstallerInv'
<1> DEFINE next == IF disk.adapter.version = a THEN disk.adapter ELSE PointTo(a)
<1>1. /\ command = NoCommand /\ Installed /\ Fits(a, disk.current.version)
      /\ UNCHANGED <<database, dumps, service, command>>
      /\ \/ /\ spent' = [spent EXCEPT !.commands = @ + 1]
            /\ \/ disk' = [disk EXCEPT !.adapter = next, !.adapters = (@ \cup {a}) \cap Kept(next)]
               \/ disk' = [disk EXCEPT !.adapters = @ \cup {a}]
         \/ AdapterTorn(disk.adapters \cup {a})
  BY DEF InstallAdapter
<1>2. disk.adapter \in Pointers /\ disk \in Disks
  BY DEF InstallerInv, InstallerTypes, Disks
<1>3. /\ next \in Pointers /\ next.version = a
      /\ next.previous \in {disk.adapter.version, disk.adapter.previous}
  BY <1>2 DEF PointTo, Pointers
<1> HIDE DEF next
<1>4. CASE /\ spent' = [spent EXCEPT !.commands = @ + 1]
           /\ \/ disk' = [disk EXCEPT !.adapter = next, !.adapters = (@ \cup {a}) \cap Kept(next)]
              \/ disk' = [disk EXCEPT !.adapters = @ \cup {a}]
  <2>1. spent' \in Spendings /\ SameSpoils
    BY <1>4 DEF InstallerInv, InstallerTypes, Spendings, SameSpoils
  <2>2. /\ disk' \in Disks /\ disk'.versions = disk.versions /\ disk'.current = disk.current
        /\ \/ disk'.adapter = next /\ disk'.adapters = (disk.adapters \cup {a}) \cap Kept(next)
           \/ disk'.adapter = disk.adapter /\ disk'.adapters = disk.adapters \cup {a}
    <3>1. CASE disk' = [disk EXCEPT !.adapter = next, !.adapters = (@ \cup {a}) \cap Kept(next)]
      BY <1>2, <1>3, <3>1 DEF Disks
    <3>2. CASE disk' = [disk EXCEPT !.adapters = @ \cup {a}]
      BY <1>2, <3>2 DEF Disks
    <3> QED
      BY <1>4, <3>1, <3>2
  <2>3. InstallerTypes'
    BY <1>1, <1>3, <2>1, <2>2, NoCommandIsOne
    DEF InstallerInv, InstallerTypes, Placed, SameErrand, InstallSteps, RestoreSteps, RollbackPlaces
  <2>4. ResolveInv'
    BY <1>1, <1>3, <2>1, <2>2, NoCommandIsOne
    DEF InstallerInv, ResolveInv, Pointed, InInstall, InRollback, Commanded, SameErrand, Kept, SameSpoils
  <2>5. HalfInv'
    BY <1>1, <1>3, <2>1, <2>2, NoCommandIsOne
    DEF InstallerInv, HalfInv, Sound, InInstall, InRollback, Commanded, SameErrand, RestoreSteps,
      Rooted, DumpOf, Whole, Fits, Serves, Runs, Unmarked, Up, Installed, SameSpoils
  <2> QED
    BY <2>3, <2>4, <2>5 DEF InstallerInv
<1>5. CASE AdapterTorn(disk.adapters \cup {a})
  BY <1>1, <1>5, AdapterIsTorn DEF InstallerInv, InstallerTypes, Disks
<1> QED
  BY <1>1, <1>4, <1>5

\* An adapter gone back to is one that was retained.
LEMMA RollbackAdapterKeeps ==
  ASSUME InstallerInv, NEW a \in Releases, RollbackAdapter(a) PROVE InstallerInv'
<1> DEFINE next == PointTo(a)
<1>1. /\ command = NoCommand /\ Installed /\ Fits(a, disk.current.version)
      /\ a \in disk.adapters /\ AdapterReads /\ disk.adapter.version # NoRelease
      /\ UNCHANGED <<database, dumps, service, command>>
      /\ \/ /\ spent' = [spent EXCEPT !.commands = @ + 1]
            /\ disk' = [disk EXCEPT !.adapter = next, !.adapters = @ \cap Kept(next)]
         \/ AdapterTorn(disk.adapters)
  BY DEF RollbackAdapter
<1>2. disk.adapter \in Pointers /\ disk \in Disks
  BY DEF InstallerInv, InstallerTypes, Disks
<1>3. next \in Pointers /\ next.version = a /\ next.previous = disk.adapter.version
  BY <1>2 DEF PointTo, Pointers
<1> HIDE DEF next
<1>4. CASE /\ spent' = [spent EXCEPT !.commands = @ + 1]
           /\ disk' = [disk EXCEPT !.adapter = next, !.adapters = @ \cap Kept(next)]
  <2>1. spent' \in Spendings /\ SameSpoils
    BY <1>4 DEF InstallerInv, InstallerTypes, Spendings, SameSpoils
  <2>2. /\ disk' \in Disks /\ disk'.versions = disk.versions /\ disk'.current = disk.current
        /\ disk'.adapter = next /\ disk'.adapters = disk.adapters \cap Kept(next)
    BY <1>2, <1>3, <1>4 DEF Disks
  <2>3. InstallerTypes'
    BY <1>1, <1>3, <2>1, <2>2, NoCommandIsOne
    DEF InstallerInv, InstallerTypes, Placed, SameErrand, InstallSteps, RestoreSteps, RollbackPlaces
  <2>4. ResolveInv'
    BY <1>1, <1>3, <2>1, <2>2, NoCommandIsOne
    DEF InstallerInv, ResolveInv, Pointed, InInstall, InRollback, Commanded, SameErrand, Kept, SameSpoils
  <2>5. HalfInv'
    BY <1>1, <1>3, <2>1, <2>2, NoCommandIsOne
    DEF InstallerInv, HalfInv, Sound, InInstall, InRollback, Commanded, SameErrand, RestoreSteps,
      Rooted, DumpOf, Whole, Fits, Serves, Runs, Unmarked, Up, Installed, SameSpoils
  <2> QED
    BY <2>3, <2>4, <2>5 DEF InstallerInv
<1>5. CASE AdapterTorn(disk.adapters)
  BY <1>1, <1>2, <1>5, AdapterIsTorn DEF Disks
<1> QED
  BY <1>1, <1>4, <1>5

\* A stop that ends leaves the service down, or gone if it was to go.
LEMMA StopEndsKeeps == ASSUME InstallerInv, StopEnds PROVE InstallerInv'
<1>1. /\ UNCHANGED <<disk, database, dumps, command, spent>> /\ service \in {"stopping", "leaving"}
      /\ service' = IF service = "stopping" THEN "stopped" ELSE "absent"
  BY DEF StopEnds, Stopping
<1>2. InstallerTypes'
  BY <1>1 DEF InstallerInv, InstallerTypes, Placed, Services
<1>3. ResolveInv'
  BY <1>1 DEF InstallerInv, ResolveInv, Pointed, InInstall, InRollback, Commanded, Kept
<1>4. HalfInv'
  BY <1>1
  DEF InstallerInv, HalfInv, Sound, InInstall, InRollback, Commanded, DumpOf, Serves, Runs, Unmarked,
      Up, Installed
<1> QED
  BY <1>2, <1>3, <1>4 DEF InstallerInv

\* A command that is killed leaves what its pointers name.
LEMMA KillKeeps == ASSUME InstallerInv, Kill PROVE InstallerInv'
<1>1. UNCHANGED <<database, dumps, service>> /\ command' = NoCommand /\ command # NoCommand
  BY DEF Kill, EndCommand
<1>2. spent' \in Spendings /\ spent'.hurt = spent.hurt /\ spent'.killed = TRUE
  <2> DEFINE yes == TRUE
             mishaps == spent.mishaps + 1
  <2>1. yes \in BOOLEAN /\ mishaps \in Nat /\ spent \in Spendings
    BY DEF Spendings, InstallerInv, InstallerTypes
  <2>2. spent' = [spent EXCEPT !.mishaps = mishaps, !.killed = yes]
    BY DEF Kill
  <2> HIDE DEF yes, mishaps
  <2>3. spent' \in Spendings /\ spent'.hurt = spent.hurt /\ spent'.killed = yes
    BY <2>1, <2>2 DEF Spendings
  <2> QED
    BY <2>3 DEF yes
<1>3. /\ disk' \in Disks
      /\ disk'.versions = disk.versions /\ disk'.adapters = disk.adapters
      /\ disk'.current \in {disk.current, NoCurrent, command.current}
      /\ disk'.adapter \in {disk.adapter, NoPointer, command.adapter}
      /\ command.at \notin {"undo", "undo_all"} =>
            /\ disk'.current \in {disk.current, NoCurrent}
            /\ disk'.adapter \in {disk.adapter, NoPointer}
  BY DiskIsLeft DEF Kill, InstallerInv
<1>4. command.at \in {"undo", "undo_all"} => Commanded
  BY DEF Commanded, InstallerInv, InstallerTypes, Placed, Commands
<1>5. InstallerTypes'
  BY <1>1, <1>2, <1>3, NoCommandIsOne, LenProperties DEF InstallerInv, InstallerTypes, Placed
<1>6. ResolveInv'
  BY <1>1, <1>2, <1>3, <1>4, NoCommandIsOne
  DEF InstallerInv, ResolveInv, Pointed, InInstall, InRollback, Commanded, Kept
<1>7. HalfInv'
  BY <1>2 DEF HalfInv, Sound
<1> QED
  BY <1>5, <1>6, <1>7 DEF InstallerInv

\* Nothing is installed at first.
LEMMA InstallerStarts == ASSUME InstallerInit PROVE InstallerInv
<1>1. /\ disk.versions = {} /\ disk.adapters = {} /\ disk.current = NoCurrent
      /\ disk.adapter = NoPointer /\ disk \in Disks
  BY NoCommandIsOne DEF InstallerInit, Disks
<1>2. database \in Names /\ dumps \in Seq(Names) /\ Len(dumps) = 0
  BY DEF InstallerInit, Names
<1>3. command = NoCommand /\ service = "absent"
  BY DEF InstallerInit
<1>4. spent \in Spendings
  BY DEF InstallerInit, Spendings
<1>5. InstallerTypes
  BY <1>1, <1>2, <1>3, <1>4, NoCommandIsOne DEF InstallerTypes, Placed, Services
<1>6. ResolveInv
  BY <1>1, <1>3, NoCommandIsOne DEF ResolveInv, Pointed, InInstall, InRollback, Commanded, Kept
<1>7. HalfInv
  BY <1>1, <1>3, NoCommandIsOne
  DEF HalfInv, Sound, InInstall, InRollback, Commanded, Rooted, DumpOf, Whole, Serves, Installed
<1> QED
  BY <1>5, <1>6, <1>7 DEF InstallerInv

\* Every step of the installer keeps its invariant.
LEMMA InstallerSteps == ASSUME InstallerInv, [InstallerNext]_installerVars PROVE InstallerInv'
<1>1. CASE UNCHANGED installerVars
  BY <1>1 DEF installerVars, InstallerInv, InstallerTypes, ResolveInv, HalfInv, Serves,
              Commanded, InInstall, InRollback, DumpOf, Installed, Sound, Pointed,
              Runs, Unmarked, Up
<1>2. CASE \E v \in Releases : BeginInstall(v) \/ InstallAdapter(v) \/ RollbackAdapter(v)
  BY <1>2, BeginInstallKeeps, InstallAdapterKeeps, RollbackAdapterKeeps
<1>3. CASE InstallStep
  BY <1>3, BackupKeeps, AdoptKeeps, StopServiceKeeps, ClearKeeps, StageKeeps, PointKeeps,
     PointAdapterKeeps, MigrateKeeps, StartKeeps, IntegrateKeeps DEF InstallStep
<1>4. CASE RollbackStep
  BY <1>4, StopForRollbackKeeps, PointBackKeeps, PointAdapterBackKeeps, RestoreBackKeeps,
     StartBackKeeps, UndoKeeps, UndoFailsKeeps DEF RollbackStep
<1>5. CASE BeginRollback \/ InstallFails \/ RestoreStep \/ RestoreFails \/ StopEnds \/ Kill
  BY <1>5, BeginRollbackKeeps, InstallFailsKeeps, RestoreKeeps, RestoreFailsKeeps,
     StopEndsKeeps, KillKeeps
<1> QED
  BY <1>1, <1>2, <1>3, <1>4, <1>5 DEF InstallerNext

\* The installer keeps its invariant (installer.rs, native_runtime.rs).
LEMMA InstallerStands == InstallerSpec => []InstallerInv
  BY InstallerStarts, InstallerSteps, PTL DEF InstallerSpec

\* Whenever the machine stops, what a pointer that is there activates is on disk:
\* the release, its adapter and the adapter to go back to, however a command
\* failed or was killed, between removing a pointer and renaming it too, unless
\* the restore of a pointer failed itself (installer.rs, boundaries.rs:315).
THEOREM PointersStand == InstallerSpec => []PointersResolve
<1>1. InstallerInv => PointersResolve
  BY DEF InstallerInv, ResolveInv, Pointed, PointersResolve, AdapterReads, Installed
<1> QED
  BY <1>1, InstallerStands, PTL

\* Between commands, none of them killed, whichever step failed and was restored,
\* the active release has an adapter that fits it and a database its own
\* migrations left; it runs unless the start at the end of a rollback's undo
\* failed, which installer.rs:418, 426, 437 and 450 report nowhere.
THEOREM InstallIsWhole == InstallerSpec => []NothingHalfApplied
<1>1. InstallerInv => NothingHalfApplied
  BY NoCommandIsOne
  DEF InstallerInv, HalfInv, Sound, NothingHalfApplied, Commanded, Whole, Serves, Runs, Installed, Fits
<1> QED
  BY <1>1, InstallerStands, PTL

-----------------------------------------------------------------------------
(* The service: a stop that is shown as clean has left no child.             *)

Rungs == {"off", "begin", "spawn", "wait", "running", "ask", "await", "stopped"}
Runners == [pc : Rungs, at : Nat, after : {"none", "failed", "clean"},
            failures : SUBSET Children]
OwnChildren == [own : {"none", "starting", "serving", "exited"}, asked : BOOLEAN,
                stray : BOOLEAN]
AreChildren == child \in [Children -> OwnChildren]

\* The run that stops has been through the children after its place: each has
\* gone, or is told of as one that could not be stopped.
AtTheStop == runner.pc \in {"ask", "await", "stopped"}
StopInv ==
    /\ runner \in Runners /\ AreChildren
    /\ runner.pc \in {"spawn", "wait", "ask", "await"} => runner.at \in 1..Len(Plan)
    /\ runner.pc = "stopped" => runner.at = 0
    /\ AtTheStop => runner.after \in {"failed", "clean"}
    /\ AtTheStop /\ runner.after = "clean" =>
          \A i \in 1..Len(Plan) : runner.at < i =>
              ~Alive(Plan[i]) \/ Plan[i] \in runner.failures

\* The children are those of the plan.
LEMMA PlanHolds ==
  /\ Len(Plan) \in Nat /\ Len(Plan) >= 1 /\ DOMAIN Plan = 1..Len(Plan)
  /\ \A i \in 1..Len(Plan) : Plan[i] \in Children
  /\ \A c \in Children : \E i \in 1..Len(Plan) : Plan[i] = c
  /\ \A i, j \in 1..Len(Plan) : Plan[i] = Plan[j] => i = j
<1>1. Plan \in Seq(Children) /\ Plan # <<>>
  BY SupervisorAssumption
<1>2. Len(Plan) \in Nat /\ DOMAIN Plan = 1..Len(Plan)
  BY <1>1, LenProperties
<1>3. Len(Plan) # 0
  BY <1>1, EmptySeq
<1> QED
  BY <1>2, <1>3, SupervisorAssumption DEF Children

\* A child that is asked, or whose stray comes or goes, is otherwise the same.
LEMMA ChildIsSame ==
  ASSUME AreChildren, NEW c \in Children, NEW said \in BOOLEAN,
         \/ child' = [child EXCEPT ![c].asked = said]
         \/ child' = [child EXCEPT ![c].stray = said]
  PROVE  AreChildren' /\ \A d \in Children : child'[d].own = child[d].own
  BY DEF AreChildren, OwnChildren

\* A child that serves or exits is not another.
LEMMA ChildBecomes ==
  ASSUME AreChildren, NEW c \in Children, NEW own \in {"serving", "exited"},
         child' = [child EXCEPT ![c].own = own]
  PROVE  /\ AreChildren' /\ child'[c].own = own
         /\ \A d \in Children : d # c => child'[d] = child[d]
  BY DEF AreChildren, OwnChildren

\* A child that starts is not another.
LEMMA ChildBegins ==
  ASSUME AreChildren, NEW c \in Children,
         child' = [child EXCEPT ![c].own = "starting", ![c].asked = FALSE]
  PROVE  AreChildren'
<1> DEFINE no == FALSE
<1>1. child' = [child EXCEPT ![c].own = "starting", ![c].asked = no] /\ no \in BOOLEAN
  OBVIOUS
<1> HIDE DEF no
<1>2. child[c] \in OwnChildren
  BY DEF AreChildren
<1>3. [child[c] EXCEPT !.own = "starting", !.asked = no] \in OwnChildren
  BY <1>1, <1>2 DEF OwnChildren
<1>4. child' = [child EXCEPT ![c] = [child[c] EXCEPT !.own = "starting", !.asked = no]]
  BY <1>1
<1> QED
  BY <1>3, <1>4 DEF AreChildren

\* Where the run goes, what it met stays with it.
LEMMA RunnerGoes ==
  ASSUME runner \in Runners, NEW pc \in Rungs, NEW i \in Nat, Goes(pc, i)
  PROVE  /\ runner' \in Runners /\ runner'.pc = pc /\ runner'.at = i
         /\ runner'.after = runner.after /\ runner'.failures = runner.failures
  BY DEF Goes, Runners

\* A run that fails to start goes to the children before its place.
LEMMA CleaningUp ==
  ASSUME StopInv, NEW upTo \in 0..Len(Plan), CleansUp(upTo) PROVE StopInv'
<1>1. upTo \in Nat
  BY PlanHolds
<1>2. /\ runner' \in Runners /\ runner'.pc = (IF upTo = 0 THEN "stopped" ELSE "ask")
      /\ runner'.at = upTo /\ runner'.after = "failed"
  BY <1>1 DEF CleansUp, StopInv, Runners, Rungs
<1>3. UNCHANGED child
  BY DEF CleansUp
<1> QED
  BY <1>2, <1>3, PlanHolds DEF StopInv, AtTheStop, AreChildren

\* The next to be stopped, and what could not be.
LEMMA RunnerGoesOn ==
  ASSUME StopInv, runner.at \in 1..Len(Plan), NEW failed \in SUBSET Children, OnToNext(failed)
  PROVE  /\ runner' \in Runners /\ runner'.pc = NextToStop(runner.at)
         /\ runner'.at = runner.at - 1
         /\ runner'.after = runner.after /\ runner'.failures = runner.failures \cup failed
<1> DEFINE at == runner.at - 1
           failures == runner.failures \cup failed
           pc == NextToStop(runner.at)
<1>1. runner.at \in Nat /\ at \in Nat /\ failures \subseteq Children /\ pc \in Rungs
  BY PlanHolds DEF StopInv, Runners, NextToStop, Rungs
<1>2. runner' = [runner EXCEPT !.pc = pc, !.at = at, !.failures = failures]
  BY DEF OnToNext
<1> HIDE DEF at, failures, pc
<1>3. /\ runner' \in Runners /\ runner'.pc = pc /\ runner'.at = at
      /\ runner'.after = runner.after /\ runner'.failures = failures
  BY <1>1, <1>2 DEF StopInv, Runners
<1> QED
  BY <1>3 DEF at, failures, pc

\* Children none of which is any longer of a run.
LEMMA NoChildren ==
  ASSUME NEW stray \in [Children -> BOOLEAN],
         child' = [c \in Children |-> [NoChild EXCEPT !.stray = stray[c]]]
  PROVE  AreChildren'
<1> DEFINE no == FALSE
<1>1. child' = [c \in Children |-> [[own |-> "none", asked |-> no, stray |-> no]
                                       EXCEPT !.stray = stray[c]]]
  BY DEF NoChild
<1>2. no \in BOOLEAN
  OBVIOUS
<1> HIDE DEF no
<1> QED
  BY <1>1, <1>2 DEF AreChildren, OwnChildren

\* A run that ends leaves nothing of it to stop.
LEMMA EndedStops == ASSUME NEW failed, Ended(failed) PROVE StopInv'
<1> DEFINE stray == [c \in Children |-> child[c].stray \/ Alive(c)]
<1>1. stray \in [Children -> BOOLEAN]
  OBVIOUS
<1>2. child' = [c \in Children |-> [NoChild EXCEPT !.stray = stray[c]]]
  BY DEF Ended
<1> HIDE DEF stray
<1>3. AreChildren'
  BY <1>1, <1>2, NoChildren
<1>4. runner' = Off
  BY DEF Ended
<1> QED
  BY <1>3, <1>4 DEF Off, StopInv, AtTheStop, Runners, Rungs

\* A child that lives is one that the run started: none comes alive while the
\* run stops.
LEMMA StillStopping ==
  ASSUME StopInv, UNCHANGED runner, AreChildren',
         AtTheStop => \A c \in Children : Alive(c)' => Alive(c)
  PROVE  StopInv'
  BY PlanHolds DEF StopInv, AtTheStop

\* The children's own steps bring none to life.
LEMMA ChildrenStop ==
  ASSUME StopInv, NEW c \in Children, ChildServes(c) \/ ChildExits(c) \/ StrayEnds(c)
  PROVE  StopInv'
<1>1. UNCHANGED runner
  BY DEF ChildServes, ChildExits, StrayEnds, Self
<1>2. AreChildren' /\ \A d \in Children : Alive(d)' => Alive(d)
  <2>1. CASE ChildServes(c)
    <3>1. child[c].own = "starting" /\ child' = [child EXCEPT ![c].own = "serving"]
      BY <2>1 DEF ChildServes
    <3> QED
      BY <3>1, ChildBecomes DEF StopInv, Alive
  <2>2. CASE ChildExits(c)
    <3>1. child' = [child EXCEPT ![c].own = "exited"]
      BY <2>2 DEF ChildExits
    <3> QED
      BY <3>1, ChildBecomes DEF StopInv, Alive
  <2>3. CASE StrayEnds(c)
    <3> DEFINE no == FALSE
    <3>1. no \in BOOLEAN /\ child' = [child EXCEPT ![c].stray = no]
      BY <2>3 DEF StrayEnds
    <3> HIDE DEF no
    <3> QED
      BY <3>1, ChildIsSame DEF StopInv, Alive
  <2> QED
    BY <2>1, <2>2, <2>3
<1> QED
  BY <1>1, <1>2, StillStopping

\* Whoever is beside the service has no child of it: with_database leaves a
\* stray at most.
LEMMA UpkeepStops == ASSUME StopInv, UpkeepStep PROVE StopInv'
<1>1. UNCHANGED runner
  BY DEF UpkeepStep, BeginUpkeep, InitializePostgres, StartPostgres, CreateDatabase, Act,
         StopPostgres, KillUpkeep, Service
<1>2. UNCHANGED child \/ \E left : ServerLeft(left)
  BY DEF UpkeepStep, BeginUpkeep, InitializePostgres, StartPostgres, CreateDatabase, Act,
         StopPostgres, KillUpkeep
<1>3. AreChildren' /\ \A d \in Children : child'[d].own = child[d].own
  <2>1. CASE UNCHANGED child
    BY <2>1 DEF StopInv, AreChildren
  <2>2. CASE \E left : ServerLeft(left)
    <3>1. PICK left : child' = [child EXCEPT ![Database].stray = @ \/ left]
      BY <2>2 DEF ServerLeft
    <3> DEFINE stray == child[Database].stray \/ left
    <3>2. stray \in BOOLEAN /\ child' = [child EXCEPT ![Database].stray = stray]
      BY <3>1
    <3>3. Database \in Children
      BY PlanHolds DEF Database
    <3> HIDE DEF stray
    <3> QED
      BY <3>2, <3>3, ChildIsSame DEF StopInv
  <2> QED
    BY <1>2, <2>1, <2>2
<1> QED
  BY <1>1, <1>3, StillStopping DEF Alive

\* The service process starts its children in order and stops them in the
\* reverse of it.
LEMMA RunnerStops == ASSUME StopInv, RunnerStep PROVE StopInv'
<1>1. CASE BeginRun
  <2>1. CASE Goes("spawn", 1) /\ UNCHANGED child
    <3>1. runner' \in Runners /\ runner'.pc = "spawn" /\ runner'.at = 1
      BY <2>1, RunnerGoes DEF StopInv, Rungs
    <3> QED
      BY <2>1, <3>1, PlanHolds DEF StopInv, AtTheStop, AreChildren
  <2> QED
    BY <1>1, <2>1, EndedStops DEF BeginRun
<1>2. CASE SpawnChild
  <2>1. runner.pc = "spawn" /\ runner.at \in 1..Len(Plan) /\ Here \in Children
    BY <1>2, PlanHolds DEF SpawnChild, StopInv, Here
  <2>2. CASE /\ Goes("wait", runner.at)
             /\ child' = [child EXCEPT ![Here].own = "starting", ![Here].asked = FALSE]
    <3>1. runner' \in Runners /\ runner'.pc = "wait" /\ runner'.at = runner.at
      BY <2>1, <2>2, RunnerGoes, PlanHolds DEF StopInv, Rungs
    <3>2. AreChildren'
      BY <2>1, <2>2, ChildBegins DEF StopInv
    <3> QED
      BY <2>1, <3>1, <3>2 DEF StopInv, AtTheStop
  <2>3. CASE CleansUp(runner.at - 1)
    BY <2>1, <2>3, CleaningUp, PlanHolds
  <2> QED
    BY <1>2, <2>2, <2>3 DEF SpawnChild
<1>3. CASE ChildReady
  <2>1. runner.at \in 1..Len(Plan) /\ UNCHANGED child
    BY <1>3, PlanHolds DEF ChildReady, StopInv, Others
  <2>2. /\ runner' \in Runners
        /\ (runner'.pc = "spawn" /\ runner'.at \in 1..Len(Plan)) \/ runner'.pc = "running"
    BY <1>3, <2>1, RunnerGoes, PlanHolds DEF ChildReady, StopInv, Rungs
  <2> QED
    BY <2>1, <2>2 DEF StopInv, AtTheStop, AreChildren
<1>4. CASE ChildNotReady
  BY <1>4, CleaningUp, PlanHolds DEF ChildNotReady, StopInv
<1>5. CASE TakeStop
  <2>1. CASE /\ runner' = [runner EXCEPT !.pc = "ask", !.at = Len(Plan), !.after = "clean"]
             /\ UNCHANGED child
    <3>1. /\ runner' \in Runners /\ runner'.pc = "ask" /\ runner'.at = Len(Plan)
          /\ runner'.after = "clean"
      BY <2>1, PlanHolds DEF StopInv, Runners, Rungs
    <3> QED
      BY <2>1, <3>1, PlanHolds DEF StopInv, AtTheStop, AreChildren
  <2> QED
    BY <1>5, <2>1, EndedStops DEF TakeStop
<1>6. CASE AskStop
  <2>1. runner.pc = "ask" /\ runner.at \in 1..Len(Plan) /\ Here \in Children
    BY <1>6, PlanHolds DEF AskStop, StopInv, Here
  <2>2. CASE /\ Goes("await", runner.at)
             /\ child' = [child EXCEPT ![Here].asked = TRUE]
    <3>1. /\ runner' \in Runners /\ runner'.pc = "await" /\ runner'.at = runner.at
          /\ runner'.after = runner.after /\ runner'.failures = runner.failures
      BY <2>1, <2>2, RunnerGoes, PlanHolds DEF StopInv, Rungs
    <3>2. AreChildren' /\ \A d \in Children : child'[d].own = child[d].own
      <4> DEFINE yes == TRUE
      <4>1. yes \in BOOLEAN /\ child' = [child EXCEPT ![Here].asked = yes]
        BY <2>2
      <4> HIDE DEF yes
      <4> QED
        BY <2>1, <4>1, ChildIsSame DEF StopInv
    <3> QED
      BY <2>1, <3>1, <3>2, PlanHolds DEF StopInv, AtTheStop, Alive
  <2>3. CASE OnToNext({Here}) /\ UNCHANGED child
    <3>1. /\ runner' \in Runners /\ runner'.pc = NextToStop(runner.at)
          /\ runner'.at = runner.at - 1
          /\ runner'.after = runner.after /\ runner'.failures = runner.failures \cup {Here}
      BY <2>1, <2>3, RunnerGoesOn
    <3> QED
      BY <2>1, <2>3, <3>1, PlanHolds DEF StopInv, AtTheStop, NextToStop, Alive, Here, AreChildren
  <2> QED
    BY <1>6, <2>2, <2>3 DEF AskStop
<1>7. CASE AwaitExit
  <2>1. runner.pc = "await" /\ runner.at \in 1..Len(Plan) /\ Here \in Children
    BY <1>7, PlanHolds DEF AwaitExit, StopInv, Here
  <2>2. /\ AreChildren'
        /\ \A d \in Children : Alive(d)' => Alive(d)
        /\ \/ OnToNext({}) /\ child'[Here].own = "exited"
           \/ OnToNext({Here})
    <3>1. CASE child[Here].own = "exited" /\ OnToNext({}) /\ UNCHANGED child
      BY <3>1 DEF StopInv, AreChildren, Alive
    <3>2. CASE OnToNext({Here}) /\ UNCHANGED child
      BY <3>2 DEF StopInv, AreChildren, Alive
    <3>3. CASE OnToNext({}) /\ child' = [child EXCEPT ![Here].own = "exited"]
      <4>1. /\ AreChildren' /\ child'[Here].own = "exited"
            /\ \A d \in Children \ {Here} : child'[d] = child[d]
        BY <2>1, <3>3, ChildBecomes DEF StopInv
      <4> QED
        BY <3>3, <4>1 DEF Alive
    <3> QED
      BY <1>7, <3>1, <3>2, <3>3 DEF AwaitExit
  <2>3. PICK failed \in SUBSET Children :
           OnToNext(failed) /\ (child'[Here].own = "exited" \/ Here \in failed)
    BY <2>1, <2>2
  <2>4. /\ runner' \in Runners /\ runner'.pc = NextToStop(runner.at)
        /\ runner'.at = runner.at - 1
        /\ runner'.after = runner.after /\ runner'.failures = runner.failures \cup failed
    BY <2>1, <2>3, RunnerGoesOn
  <2> QED
    BY <2>1, <2>2, <2>3, <2>4, PlanHolds DEF StopInv, AtTheStop, NextToStop, Here, Alive
<1>8. CASE EndRun
  BY <1>8, EndedStops DEF EndRun
<1> QED
  BY <1>1, <1>2, <1>3, <1>4, <1>5, <1>6, <1>7, <1>8 DEF RunnerStep

\* Every step of the service keeps what its stop has been through.
LEMMA SupervisorSteps == ASSUME StopInv, [SupervisorNext]_supervisorVars PROVE StopInv'
<1>1. CASE UNCHANGED supervisorVars
  BY <1>1 DEF supervisorVars, StopInv, AtTheStop, Alive, AreChildren
<1>2. CASE ReportFails \/ RunnerDies
  BY <1>2, EndedStops DEF ReportFails, RunnerDies
<1>3. CASE StartedByOther
  BY <1>3 DEF StartedByOther, Off, StopInv, AtTheStop, Runners, Rungs, AreChildren
<1>4. CASE StoppedByOther
  BY <1>4 DEF StoppedByOther, StopInv, AtTheStop, Alive, AreChildren
<1> QED
  BY <1>1, <1>2, <1>3, <1>4, RunnerStops, ChildrenStop, UpkeepStops DEF SupervisorNext

\* A service that is off stops nothing.
LEMMA SupervisorStarts == ASSUME SupervisorInit PROVE StopInv
<1> DEFINE no == FALSE
<1>1. child = [c \in Children |-> [own |-> "none", asked |-> no, stray |-> no]]
  BY DEF SupervisorInit, NoChild
<1>2. no \in BOOLEAN
  OBVIOUS
<1> HIDE DEF no
<1>3. AreChildren
  BY <1>1, <1>2 DEF AreChildren, OwnChildren
<1>4. runner = Off
  BY DEF SupervisorInit
<1> QED
  BY <1>3, <1>4 DEF Off, StopInv, AtTheStop, Runners, Rungs

\* What the service manager shows has its two parts.
Shown == scm = [state |-> scm.state, failed |-> scm.failed]

\* What is shown keeps its two parts.
LEMMA ShownSteps == ASSUME Shown, [SupervisorNext]_supervisorVars PROVE Shown'
<1>1. CASE \E failed : Ended(failed)
  BY <1>1 DEF Ended, Shown
<1>2. CASE scm' = [scm EXCEPT !.state = "running"] \/ scm' = [scm EXCEPT !.state = "stop_pending"]
  BY <1>2 DEF Shown
<1>3. CASE StartedByOther
  <2> DEFINE no == FALSE
  <2>1. scm' = [state |-> "start_pending", failed |-> no]
    BY <1>3 DEF StartedByOther
  <2> HIDE DEF no
  <2> QED
    BY <2>1 DEF Shown
<1>4. CASE UNCHANGED scm
  BY <1>4 DEF Shown
<1>5. (\E failed : Ended(failed)) \/ StartedByOther \/ UNCHANGED scm
         \/ scm' = [scm EXCEPT !.state = "running"] \/ scm' = [scm EXCEPT !.state = "stop_pending"]
  <2>1. CASE RunnerStep
    BY <2>1 DEF RunnerStep, BeginRun, SpawnChild, CleansUp, ChildReady, ChildNotReady, TakeStop,
                AskStop, AwaitExit, EndRun, Others
  <2>2. CASE ReportFails \/ RunnerDies
    BY <2>2 DEF ReportFails, RunnerDies
  <2>3. CASE UNCHANGED supervisorVars
    BY <2>3 DEF supervisorVars
  <2>4. CASE \E c \in Children : ChildServes(c) \/ ChildExits(c) \/ StrayEnds(c)
    BY <2>4 DEF ChildServes, ChildExits, StrayEnds, Self
  <2>5. CASE StartedByOther \/ StoppedByOther
    BY <2>5 DEF StoppedByOther
  <2>6. CASE UpkeepStep
    BY <2>6 DEF UpkeepStep, BeginUpkeep, InitializePostgres, StartPostgres, CreateDatabase, Act,
                StopPostgres, KillUpkeep, Service
  <2> QED
    BY <2>1, <2>2, <2>3, <2>4, <2>5, <2>6 DEF SupervisorNext
<1> QED
  BY <1>1, <1>2, <1>3, <1>4, <1>5

\* A service seen to stop cleanly ended its run, with nothing that it failed
\* to stop.
LEMMA CleanStopEnds ==
  ASSUME Shown, [SupervisorNext]_supervisorVars,
         scm.state # "stopped", scm'.state = "stopped", ~scm'.failed
  PROVE  EndRun /\ ~FailedRun(runner)
<1>1. scm' # scm
  OBVIOUS
<1>2. ~Ended(TRUE)
  <2> DEFINE yes == TRUE
  <2>1. SUFFICES ASSUME Ended(TRUE) PROVE FALSE
    OBVIOUS
  <2>2. scm' = [state |-> "stopped", failed |-> yes]
    BY <2>1 DEF Ended
  <2> HIDE DEF yes
  <2>3. scm'.failed = yes
    BY <2>2
  <2> QED
    BY <2>3 DEF yes
<1>3. RunnerStep \/ ReportFails \/ RunnerDies
  <2>1. ~StartedByOther
    BY DEF StartedByOther
  <2> QED
    BY <1>1, <2>1
    DEF SupervisorNext, supervisorVars, ChildServes, ChildExits, StrayEnds, Self,
        StoppedByOther, UpkeepStep, BeginUpkeep, InitializePostgres, StartPostgres,
        CreateDatabase, Act, StopPostgres, KillUpkeep, Service
<1>4. /\ scm' # [scm EXCEPT !.state = "running"]
      /\ scm' # [scm EXCEPT !.state = "stop_pending"]
  BY DEF Shown
<1>5. EndRun
  BY <1>1, <1>2, <1>3, <1>4
  DEF RunnerStep, ReportFails, RunnerDies, BeginRun, SpawnChild, CleansUp, ChildReady,
      ChildNotReady, TakeStop, AskStop, AwaitExit, Others
<1> DEFINE failed == FailedRun(runner)
<1>6. Ended(failed)
  BY <1>2, <1>5 DEF EndRun
<1>7. ~failed
  <2>1. failed \in BOOLEAN
    BY DEF FailedRun
  <2> HIDE DEF failed
  <2>2. scm'.failed = failed
    BY <1>6 DEF Ended
  <2> QED
    BY <2>1, <2>2
<1> QED
  BY <1>5, <1>7

\* A stop that the service manager shows as clean has left no child behind,
\* whatever failed or timed out on the way to it (service.rs, supervisor.rs).
THEOREM CleanStopLeavesNone == SupervisorSpec => CleanStopIsWhole
<1>1. ASSUME StopInv, Shown, [SupervisorNext]_supervisorVars
      PROVE  [(scm.state # "stopped" /\ scm'.state = "stopped" /\ ~scm'.failed) =>
                 \A c \in Children : ~Alive(c)]_supervisorVars
  <2> SUFFICES ASSUME scm.state # "stopped", scm'.state = "stopped", ~scm'.failed
               PROVE  \A c \in Children : ~Alive(c)
    OBVIOUS
  <2>1. runner.pc = "stopped" /\ runner.after # "failed" /\ runner.failures = {}
    BY <1>1, CleanStopEnds DEF EndRun, FailedRun
  <2> QED
    BY <1>1, <2>1, PlanHolds DEF StopInv, AtTheStop
<1>2. CleanStopIsWhole <=>
        [][(scm.state # "stopped" /\ scm'.state = "stopped" /\ ~scm'.failed) =>
             \A c \in Children : ~Alive(c)]_supervisorVars
  BY DEF CleanStopIsWhole
<1>3. SupervisorInit => Shown
  <2> DEFINE no == FALSE
  <2>1. SupervisorInit => scm = [state |-> "stopped", failed |-> no]
    BY DEF SupervisorInit
  <2> HIDE DEF no
  <2> QED
    BY <2>1 DEF Shown
<1> QED
  BY <1>1, <1>2, <1>3, SupervisorStarts, SupervisorSteps, ShownSteps, PTL DEF SupervisorSpec

-----------------------------------------------------------------------------
(* The service: a child is asked to stop after those that started later.     *)

Asked(c) == child[c].asked

\* No child is asked before the run stops, and none is alive that it has not come
\* to; while it stops, it has been through the children after its place, and asked
\* those alone.
OrderInv ==
    /\ scm.state = "stopped" => runner.pc = "off"
    /\ ~AtTheStop => \A c \in Children : ~Asked(c)
    /\ runner.pc \in {"off", "begin"} => \A i \in 1..Len(Plan) : ~Alive(Plan[i])
    /\ runner.pc = "spawn" => \A i \in 1..Len(Plan) : runner.at <= i => ~Alive(Plan[i])
    /\ runner.pc = "wait" => \A i \in 1..Len(Plan) : runner.at < i => ~Alive(Plan[i])
    /\ AtTheStop => \A i \in 1..Len(Plan) :
          /\ Asked(Plan[i]) => runner.at <= i
          /\ runner.at < i => ~Alive(Plan[i]) \/ Plan[i] \in runner.failures

\* A run that ends leaves no child of its own, asked or alive.
LEMMA EndedInOrder == ASSUME NEW failed, Ended(failed) PROVE OrderInv'
<1>1. runner' = Off
  BY DEF Ended
<1> DEFINE no == FALSE
           stray == [c \in Children |-> child[c].stray \/ Alive(c)]
<1>2. child' = [c \in Children |-> [[own |-> "none", asked |-> no, stray |-> no] EXCEPT !.stray = stray[c]]]
  BY DEF Ended, NoChild
<1>3. ~no
  OBVIOUS
<1> HIDE DEF no, stray
<1>4. \A c \in Children : child'[c].own = "none" /\ child'[c].asked = no
  BY <1>2
<1>5. \A c \in Children : ~Asked(c)' /\ ~Alive(c)'
  BY <1>3, <1>4 DEF Asked, Alive
<1> QED
  BY <1>1, <1>5, PlanHolds DEF OrderInv, Off, AtTheStop

\* Nobody is asked, and nobody comes alive.
LEMMA StaysInOrder ==
  ASSUME OrderInv, UNCHANGED runner, scm'.state = "stopped" => runner.pc = "off",
         \A c \in Children : (Alive(c)' => Alive(c)) /\ (Asked(c)' => Asked(c))
  PROVE  OrderInv'
  BY PlanHolds DEF OrderInv, AtTheStop

\* The children's own steps and those of with_database ask nobody to stop.
LEMMA OthersInOrder ==
  ASSUME StopInv, OrderInv,
         UpkeepStep \/ \E c \in Children : ChildServes(c) \/ ChildExits(c) \/ StrayEnds(c)
  PROVE  OrderInv'
<1>0. child \in [Children -> OwnChildren]
  BY DEF StopInv, AreChildren
<1>1. UNCHANGED <<runner, scm>>
  BY DEF UpkeepStep, BeginUpkeep, InitializePostgres, StartPostgres, CreateDatabase, Act,
         StopPostgres, KillUpkeep, Service, ChildServes, ChildExits, StrayEnds, Self
<1>2. ASSUME NEW c \in Children, NEW own, own = "serving" => Alive(c), own \in {"serving", "exited"},
             child' = [child EXCEPT ![c].own = own]
      PROVE  \A d \in Children : (Alive(d)' => Alive(d)) /\ (Asked(d)' => Asked(d))
  <2>1. \A d \in Children : child'[d].asked = child[d].asked /\ (d # c => child'[d].own = child[d].own)
    BY <1>0, <1>2 DEF OwnChildren
  <2>2. child'[c].own = own
    BY <1>0, <1>2 DEF OwnChildren
  <2> QED
    BY <1>2, <2>1, <2>2 DEF Alive, Asked
<1>3. ASSUME NEW c \in Children, NEW said, child' = [child EXCEPT ![c].stray = said]
      PROVE  \A d \in Children : (Alive(d)' => Alive(d)) /\ (Asked(d)' => Asked(d))
  <2>1. \A d \in Children : child'[d].asked = child[d].asked /\ child'[d].own = child[d].own
    BY <1>0, <1>3 DEF OwnChildren
  <2> QED
    BY <2>1 DEF Alive, Asked
<1>4. Database \in Children
  BY PlanHolds DEF Database
<1>5. \A d \in Children : (Alive(d)' => Alive(d)) /\ (Asked(d)' => Asked(d))
  <2>1. CASE UpkeepStep
    <3>1. UNCHANGED child \/ \E said : child' = [child EXCEPT ![Database].stray = said]
      BY <2>1 DEF UpkeepStep, BeginUpkeep, InitializePostgres, StartPostgres, CreateDatabase, Act,
                  StopPostgres, KillUpkeep, ServerLeft
    <3>2. CASE UNCHANGED child
      BY <3>2 DEF Alive, Asked
    <3> QED
      BY <1>3, <1>4, <3>1, <3>2
  <2>2. ASSUME NEW c \in Children, ChildServes(c) PROVE \A d \in Children : (Alive(d)' => Alive(d)) /\ (Asked(d)' => Asked(d))
    <3>1. child' = [child EXCEPT ![c].own = "serving"] /\ Alive(c)
      BY <2>2 DEF ChildServes, Alive
    <3> QED
      BY <1>2, <3>1
  <2>3. ASSUME NEW c \in Children, ChildExits(c) PROVE \A d \in Children : (Alive(d)' => Alive(d)) /\ (Asked(d)' => Asked(d))
    <3>1. child' = [child EXCEPT ![c].own = "exited"]
      BY <2>3 DEF ChildExits
    <3> QED
      BY <1>2, <3>1
  <2>4. ASSUME NEW c \in Children, StrayEnds(c) PROVE \A d \in Children : (Alive(d)' => Alive(d)) /\ (Asked(d)' => Asked(d))
    BY <1>3, <2>4 DEF StrayEnds
  <2> QED
    BY <2>1, <2>2, <2>3, <2>4
<1> QED
  BY <1>1, <1>5, StaysInOrder DEF OrderInv

\* A run that fails to start comes to the children before its place; no later one is alive.
LEMMA CleaningInOrder ==
  ASSUME StopInv, OrderInv, ~AtTheStop, runner.pc # "off", NEW upTo \in 0..Len(Plan), CleansUp(upTo),
         \A i \in 1..Len(Plan) : upTo < i => ~Alive(Plan[i])
  PROVE  OrderInv'
<1>1. upTo \in Nat
  BY PlanHolds
<1>2. runner'.pc \in {"stopped", "ask"} /\ runner'.at = upTo
  BY <1>1 DEF CleansUp, StopInv, Runners, Rungs
<1>3. UNCHANGED <<child, scm>>
  BY DEF CleansUp
<1>4. scm.state # "stopped" /\ \A c \in Children : ~Asked(c)
  BY DEF OrderInv
<1> QED
  BY <1>2, <1>3, <1>4, PlanHolds DEF OrderInv, AtTheStop, Asked, Alive

\* The run starts its children in the order of the plan, and is at the next one only when the
\* one it stopped is gone or told of.
LEMMA RunnerInOrder == ASSUME StopInv, OrderInv, RunnerStep PROVE OrderInv'
<1>0. child \in [Children -> OwnChildren] /\ runner \in Runners
  BY DEF StopInv, AreChildren
<1>1. CASE BeginRun
  <2>1. CASE Goes("spawn", 1) /\ UNCHANGED <<scm, child>>
    <3>1. runner'.pc = "spawn" /\ runner'.at = 1 /\ runner.pc = "begin"
      BY <1>0, <1>1, <2>1, RunnerGoes DEF Rungs, BeginRun
    <3> QED
      BY <2>1, <3>1, PlanHolds DEF OrderInv, AtTheStop, Alive, Asked
  <2> QED
    BY <1>1, <2>1, EndedInOrder DEF BeginRun
<1>2. CASE SpawnChild
  <2>1. runner.pc = "spawn" /\ runner.at \in 1..Len(Plan) /\ Here \in Children
    BY <1>2, PlanHolds DEF SpawnChild, StopInv, Here
  <2>2. CASE /\ Goes("wait", runner.at) /\ UNCHANGED scm
             /\ child' = [child EXCEPT ![Here].own = "starting", ![Here].asked = FALSE]
    <3>1. runner'.pc = "wait" /\ runner'.at = runner.at
      BY <1>0, <2>1, <2>2, RunnerGoes, PlanHolds DEF Rungs
    <3> DEFINE no == FALSE
    <3>2. ~no /\ child' = [child EXCEPT ![Here].own = "starting", ![Here].asked = no]
      BY <2>2
    <3> HIDE DEF no
    <3>3. child'[Here].asked = no /\ \A c \in Children \ {Here} : child'[c] = child[c]
      BY <1>0, <2>1, <3>2 DEF OwnChildren
    <3>4. \A c \in Children : ~Asked(c)'
      BY <2>1, <3>2, <3>3 DEF OrderInv, AtTheStop, Asked
    <3>5. \A i \in 1..Len(Plan) : runner.at < i => ~Alive(Plan[i])'
      <4>1. SUFFICES ASSUME NEW i \in 1..Len(Plan), runner.at < i PROVE ~Alive(Plan[i])'
        OBVIOUS
      <4>2. Plan[i] # Here /\ Plan[i] \in Children /\ runner.at <= i
        BY <2>1, <4>1, PlanHolds DEF Here
      <4> QED
        BY <2>1, <3>3, <4>1, <4>2 DEF OrderInv, Alive
    <3> QED
      BY <2>1, <2>2, <3>1, <3>4, <3>5, PlanHolds DEF OrderInv, AtTheStop
  <2>3. CASE CleansUp(runner.at - 1)
    <3>1. \A i \in 1..Len(Plan) : runner.at - 1 < i => ~Alive(Plan[i])
      BY <2>1, PlanHolds DEF OrderInv
    <3> QED
      BY <2>1, <2>3, <3>1, CleaningInOrder, PlanHolds DEF AtTheStop
  <2> QED
    BY <1>2, <2>2, <2>3 DEF SpawnChild
<1>3. CASE ChildReady
  <2>1. runner.pc = "wait" /\ runner.at \in 1..Len(Plan) /\ UNCHANGED child
    BY <1>3 DEF ChildReady, StopInv
  <2>2. CASE runner.at < Len(Plan) /\ Goes("spawn", runner.at + 1) /\ UNCHANGED scm
    <3>1. runner'.pc = "spawn" /\ runner'.at = runner.at + 1
      BY <1>0, <2>1, <2>2, RunnerGoes, PlanHolds DEF Rungs
    <3> QED
      BY <2>1, <2>2, <3>1, PlanHolds DEF OrderInv, AtTheStop, Alive, Asked
  <2>3. CASE Goes("running", 0) /\ scm' = [scm EXCEPT !.state = "running"]
    <3>1. runner'.pc = "running"
      BY <1>0, <2>3, RunnerGoes DEF Rungs
    <3>2. scm'.state # "stopped" \/ scm' = scm
      BY <2>3
    <3> QED
      BY <2>1, <3>1, <3>2 DEF OrderInv, AtTheStop, Alive, Asked
  <2> QED
    BY <1>3, <2>1, <2>2, <2>3 DEF ChildReady
<1>4. CASE ChildNotReady
  BY <1>4, CleaningInOrder, PlanHolds DEF ChildNotReady, StopInv, OrderInv, AtTheStop
<1>5. CASE TakeStop
  <2>1. CASE /\ runner' = [runner EXCEPT !.pc = "ask", !.at = Len(Plan), !.after = "clean"]
             /\ UNCHANGED child /\ scm' = [scm EXCEPT !.state = "stop_pending"]
    <3>1. runner'.pc = "ask" /\ runner'.at = Len(Plan) /\ runner.pc = "running"
      BY <1>0, <1>5, <2>1 DEF Runners, TakeStop
    <3>2. scm'.state # "stopped" \/ scm' = scm
      BY <2>1
    <3> QED
      BY <2>1, <3>1, <3>2, PlanHolds DEF OrderInv, AtTheStop, Alive, Asked
  <2> QED
    BY <1>5, <2>1, EndedInOrder DEF TakeStop
<1>6. CASE AskStop
  <2>1. runner.pc = "ask" /\ runner.at \in 1..Len(Plan) /\ Here \in Children /\ UNCHANGED scm
    BY <1>6, PlanHolds DEF AskStop, StopInv, Here
  <2>2. CASE Goes("await", runner.at) /\ child' = [child EXCEPT ![Here].asked = TRUE]
    <3>1. runner'.pc = "await" /\ runner'.at = runner.at /\ runner'.failures = runner.failures
      BY <1>0, <2>1, <2>2, RunnerGoes, PlanHolds DEF Rungs
    <3> DEFINE yes == TRUE
    <3>2. child' = [child EXCEPT ![Here].asked = yes]
      BY <2>2
    <3> HIDE DEF yes
    <3>3. /\ \A c \in Children : child'[c].own = child[c].own
          /\ \A c \in Children \ {Here} : child'[c].asked = child[c].asked
      BY <1>0, <2>1, <3>2 DEF OwnChildren
    <3>4. \A i \in 1..Len(Plan) : Asked(Plan[i])' => runner'.at <= i
      <4>1. SUFFICES ASSUME NEW i \in 1..Len(Plan), Asked(Plan[i])' PROVE runner'.at <= i
        OBVIOUS
      <4>2. CASE Plan[i] = Here
        BY <2>1, <3>1, <4>2, PlanHolds DEF Here
      <4>3. CASE Plan[i] # Here
        <5>1. Asked(Plan[i])
          BY <3>3, <4>1, <4>3, PlanHolds DEF Asked
        <5> QED
          BY <2>1, <3>1, <5>1 DEF OrderInv, AtTheStop
      <4> QED
        BY <4>2, <4>3
    <3>5. \A i \in 1..Len(Plan) : runner'.at < i => ~Alive(Plan[i])' \/ Plan[i] \in runner'.failures
      BY <2>1, <3>1, <3>3, PlanHolds DEF OrderInv, AtTheStop, Alive
    <3> QED
      BY <2>1, <3>1, <3>4, <3>5 DEF OrderInv, AtTheStop
  <2>3. CASE OnToNext({Here}) /\ UNCHANGED child
    <3>1. /\ runner'.pc = NextToStop(runner.at) /\ runner'.at = runner.at - 1
          /\ runner'.failures = runner.failures \cup {Here}
      BY <2>1, <2>3, RunnerGoesOn
    <3>2. \A i \in 1..Len(Plan) : /\ Asked(Plan[i])' => runner'.at <= i
                                  /\ runner'.at < i => ~Alive(Plan[i])' \/ Plan[i] \in runner'.failures
      BY <2>1, <2>3, <3>1, PlanHolds DEF OrderInv, AtTheStop, Alive, Asked, Here
    <3> QED
      BY <2>1, <3>1, <3>2 DEF OrderInv, AtTheStop, NextToStop
  <2> QED
    BY <1>6, <2>2, <2>3 DEF AskStop
<1>7. CASE AwaitExit
  <2>1. runner.pc = "await" /\ runner.at \in 1..Len(Plan) /\ Here \in Children /\ UNCHANGED scm
    BY <1>7, PlanHolds DEF AwaitExit, StopInv, Here
  <2>2. PICK failed \in SUBSET Children :
           /\ OnToNext(failed) /\ (child'[Here].own = "exited" \/ Here \in failed)
           /\ \A c \in Children : (Alive(c)' => Alive(c)) /\ (Asked(c)' => Asked(c))
    <3>1. CASE child[Here].own = "exited" /\ OnToNext({}) /\ UNCHANGED child
      BY <3>1 DEF Alive, Asked
    <3>2. CASE OnToNext({Here}) /\ UNCHANGED child
      BY <2>1, <3>2 DEF Alive, Asked
    <3>3. CASE OnToNext({}) /\ child' = [child EXCEPT ![Here].own = "exited"]
      <4>1. /\ child'[Here].own = "exited" /\ \A c \in Children : child'[c].asked = child[c].asked
            /\ \A c \in Children \ {Here} : child'[c] = child[c]
        BY <1>0, <2>1, <3>3 DEF OwnChildren
      <4>2. \A c \in Children : (Alive(c)' => Alive(c)) /\ (Asked(c)' => Asked(c))
        BY <4>1 DEF Alive, Asked
      <4> QED
        BY <3>3, <4>1, <4>2
    <3> QED
      BY <1>7, <3>1, <3>2, <3>3 DEF AwaitExit
  <2>3. /\ runner'.pc = NextToStop(runner.at) /\ runner'.at = runner.at - 1
        /\ runner'.failures = runner.failures \cup failed
    BY <2>1, <2>2, RunnerGoesOn
  <2>4. \A i \in 1..Len(Plan) : Asked(Plan[i])' => runner'.at <= i
    BY <2>1, <2>2, <2>3, PlanHolds DEF OrderInv, AtTheStop
  <2>5. \A i \in 1..Len(Plan) : runner'.at < i => ~Alive(Plan[i])' \/ Plan[i] \in runner'.failures
    <3>1. SUFFICES ASSUME NEW i \in 1..Len(Plan), runner'.at < i
                   PROVE  ~Alive(Plan[i])' \/ Plan[i] \in runner'.failures
      OBVIOUS
    <3>2. CASE i = runner.at
      BY <2>2, <2>3, <3>2 DEF Here, Alive
    <3>3. CASE i # runner.at
      BY <2>1, <2>2, <2>3, <3>1, <3>3, PlanHolds DEF OrderInv, AtTheStop
    <3> QED
      BY <3>2, <3>3
  <2> QED
    BY <2>1, <2>3, <2>4, <2>5 DEF OrderInv, AtTheStop, NextToStop
<1>8. CASE EndRun
  BY <1>8, EndedInOrder DEF EndRun
<1> QED
  BY <1>1, <1>2, <1>3, <1>4, <1>5, <1>6, <1>7, <1>8 DEF RunnerStep

\* Every step keeps the order.
LEMMA OrderSteps == ASSUME StopInv, OrderInv, [SupervisorNext]_supervisorVars PROVE OrderInv'
<1>1. CASE UNCHANGED supervisorVars
  BY <1>1 DEF supervisorVars, OrderInv, AtTheStop, Alive, Asked
<1>2. CASE ReportFails \/ RunnerDies
  BY <1>2, EndedInOrder DEF ReportFails, RunnerDies
<1>3. CASE StartedByOther
  <2>1. scm.state = "stopped" /\ UNCHANGED child /\ runner' = [Off EXCEPT !.pc = "begin"]
    BY <1>3 DEF StartedByOther
  <2> DEFINE no == FALSE
  <2>2. scm' = [state |-> "start_pending", failed |-> no]
    BY <1>3 DEF StartedByOther
  <2> HIDE DEF no
  <2>3. scm'.state = "start_pending" /\ runner'.pc = "begin" /\ runner.pc = "off"
    BY <2>1, <2>2 DEF Off, OrderInv
  <2> QED
    BY <2>1, <2>3 DEF OrderInv, AtTheStop, Alive, Asked
<1>4. CASE StoppedByOther
  BY <1>4 DEF StoppedByOther, OrderInv, AtTheStop, Alive, Asked
<1> QED
  BY <1>1, <1>2, <1>3, <1>4, RunnerInOrder, OthersInOrder DEF SupervisorNext

\* A service that is off has asked nobody.
LEMMA OrderStarts == ASSUME SupervisorInit PROVE OrderInv
<1> DEFINE no == FALSE
<1>1. child = [c \in Children |-> [own |-> "none", asked |-> no, stray |-> no]] /\ ~no
  BY DEF SupervisorInit, NoChild
<1> HIDE DEF no
<1>2. \A c \in Children : child[c].own = "none" /\ child[c].asked = no
  BY <1>1
<1>3. \A c \in Children : ~Asked(c) /\ ~Alive(c)
  BY <1>1, <1>2 DEF Asked, Alive
<1>4. runner.pc = "off"
  BY DEF SupervisorInit, Off
<1> QED
  BY <1>3, <1>4, PlanHolds DEF OrderInv, AtTheStop

\* A child that was asked to stop does not run beside one that the plan starts after it,
\* unless that one could not be stopped (supervisor.rs, stop_names in reverse).
THEOREM LaterChildrenStopFirst == SupervisorSpec => []StopsInReverse
<1>1. StopInv /\ OrderInv => StopsInReverse
  <2>1. SUFFICES ASSUME StopInv, OrderInv, NEW i \in 1..Len(Plan), NEW j \in 1..Len(Plan), i < j,
                        child[Plan[i]].asked
                 PROVE  ~Alive(Plan[j]) \/ Plan[j] \in runner.failures
    BY PlanHolds DEF StopsInReverse
  <2>2. AtTheStop /\ runner.at <= i
    BY <2>1, PlanHolds DEF OrderInv, Asked
  <2>3. runner.at < j
    BY <2>1, <2>2, PlanHolds DEF StopInv, Runners
  <2> QED
    BY <2>1, <2>2, <2>3 DEF OrderInv
<1> QED
  BY <1>1, SupervisorStarts, SupervisorSteps, OrderStarts, OrderSteps, PTL DEF SupervisorSpec

-----------------------------------------------------------------------------
(* The emitter: an observation that was enqueued or noted as dropped before  *)
(* the flush is on its way until it is ingested or told, and numbers that    *)
(* were never settled cover what is lost.                                    *)

Row == [number : Nat, drops : SUBSET Nat]
Ledgers == [ingested : SUBSET Nat, told : SUBSET Nat, failed : SUBSET Nat, untold : SUBSET Nat,
            early : SUBSET Nat]
NumbersOf(rows) == {rows[i].number : i \in 1..Len(rows)}
DropsOf(rows) == UNION {rows[i].drops : i \in 1..Len(rows)}
Injective(rows) == \A i, j \in 1..Len(rows) : i # j => rows[i].number # rows[j].number

InsulaTypes ==
    /\ writer \in [sequence : Nat, settled : Nat, dropped : SUBSET Nat, accepting : BOOLEAN]
    /\ channel \in [open : BOOLEAN, queue : Rows]
    /\ thread \in [Threads -> [at : {"idle", "numbered", "sending", "dropping"}, number : Nat]]
    /\ drain \in [at : {"receive", "swap", "fill", "ingest", "done", "aborted"},
                  batch : Rows, size : Nat]
    /\ flush \in [at : {"running", "closing", "waiting", "aborting", "exited"}, reported : Nat]
    /\ ledger \in Ledgers

Busy(t) == thread[t].at # "idle"
Numbers == 1..writer.sequence
Queued == NumbersOf(channel.queue)
InHand == NumbersOf(drain.batch)
Telling == DropsOf(drain.batch)
Aborted == drain.at = "aborted"
\* What an ingest was tried of, and the drops that its rows were to tell.
Tried == ledger.ingested \cup ledger.failed
Spoken == ledger.told \cup ledger.untold

\* A number is in one place at a time.
ApartInv ==
    /\ Queued \cup InHand \cup Tried \cup ledger.early \cup writer.dropped
          \subseteq Numbers
    /\ \A t \in Threads : Busy(t) =>
          /\ thread[t].number \in Numbers
          /\ thread[t].number \notin Queued \cup InHand \cup Tried \cup ledger.early
          /\ \A u \in Threads : Busy(u) /\ u # t => thread[u].number # thread[t].number
    /\ Injective(channel.queue) /\ Injective(drain.batch)
    /\ Queued \cap InHand = {}
    /\ ~Aborted => (Queued \cup InHand) \cap Tried = {}

\* What is settled had its ingest tried.
CountInv ==
    /\ drain.at # "ingest" => writer.settled <= Cardinality(Tried)
    /\ drain.at = "ingest" =>
          /\ Len(drain.batch) <= drain.size
          /\ writer.settled + drain.size <= Cardinality(Tried) + Len(drain.batch)
    /\ drain.at = "receive" => drain.batch = <<>>
    /\ drain.at = "swap" => Len(drain.batch) <= 1
    /\ drain.at = "fill" => Len(drain.batch) <= 2

\* Nothing early is lost until the drain is aborted.
OnTheWay == Tried \cup Spoken \cup writer.dropped \cup Telling \cup InHand \cup Queued
ToldInv ==
    /\ ~Aborted => ledger.early \subseteq OnTheWay
    /\ drain.at = "swap" /\ drain.batch = <<>> =>
          ShuttingDown /\ ledger.early \subseteq Tried \cup Spoken \cup writer.dropped
    /\ drain.at = "done" => ShuttingDown /\ Untold = {}

InsulaInv == InsulaTypes /\ ApartInv /\ CountInv /\ ToldInv /\ TailIsTold

\* A row added to rows.
LEMMA RowAdded ==
  ASSUME NEW rows \in Rows, NEW row \in Row
  PROVE  /\ Append(rows, row) \in Rows
         /\ NumbersOf(Append(rows, row)) = NumbersOf(rows) \cup {row.number}
         /\ Injective(rows) /\ row.number \notin NumbersOf(rows) => Injective(Append(rows, row))
<1> DEFINE more == Append(rows, row)
<1>1. /\ more \in Rows /\ Len(rows) \in Nat /\ Len(more) = Len(rows) + 1
      /\ \A i \in 1..Len(rows) : more[i] = rows[i]
      /\ more[Len(rows) + 1] = row
  BY LenProperties, AppendProperties DEF Rows, Row
<1> HIDE DEF more
<1>2. NumbersOf(more) = NumbersOf(rows) \cup {row.number}
  <2>1. \A i \in 1..Len(more) : i \in 1..Len(rows) \/ i = Len(rows) + 1
    BY <1>1
  <2>2. Len(rows) + 1 \in 1..Len(more) /\ \A i \in 1..Len(rows) : i \in 1..Len(more)
    BY <1>1
  <2>3. ASSUME NEW n \in NumbersOf(more) PROVE n \in NumbersOf(rows) \cup {row.number}
    BY <1>1, <2>1 DEF NumbersOf
  <2>4. ASSUME NEW n \in NumbersOf(rows) \cup {row.number} PROVE n \in NumbersOf(more)
    BY <1>1, <2>2 DEF NumbersOf
  <2> QED
    BY <2>3, <2>4
<1>3. ASSUME Injective(rows), row.number \notin NumbersOf(rows) PROVE Injective(more)
  BY <1>1, <1>3 DEF Injective, NumbersOf
<1> QED
  BY <1>1, <1>2, <1>3 DEF more

\* The first row and the others.
LEMMA RowTaken ==
  ASSUME NEW rows \in Rows, rows # <<>>
  PROVE  /\ Head(rows) \in Row /\ Tail(rows) \in Rows
         /\ Len(rows) \in Nat /\ Len(Tail(rows)) \in Nat /\ Len(rows) = Len(Tail(rows)) + 1
         /\ NumbersOf(rows) = NumbersOf(Tail(rows)) \cup {Head(rows).number}
         /\ DropsOf(rows) = DropsOf(Tail(rows)) \cup Head(rows).drops
         /\ Injective(rows) => /\ Injective(Tail(rows))
                               /\ Head(rows).number \notin NumbersOf(Tail(rows))
<1> DEFINE head == Head(rows)
           tail == Tail(rows)
<1>1. /\ head \in Row /\ tail \in Rows /\ head = rows[1]
      /\ Len(rows) \in Nat /\ Len(tail) \in Nat /\ Len(rows) = Len(tail) + 1
      /\ \A i \in 1..Len(tail) : tail[i] = rows[i + 1]
  <2>1. /\ head \in Row /\ tail \in Rows /\ Len(tail) = Len(rows) - 1
        /\ \A i \in 1..Len(tail) : tail[i] = rows[i + 1]
    BY HeadTailProperties DEF Rows, Row
  <2>2. Len(rows) \in Nat /\ Len(rows) # 0
    BY LenProperties, EmptySeq DEF Rows
  <2>3. head = rows[1]
    OBVIOUS
  <2> HIDE DEF head, tail
  <2> QED
    BY <2>1, <2>2, <2>3
<1> HIDE DEF head, tail
<1>2. /\ 1 \in 1..Len(rows) /\ \A i \in 1..Len(tail) : i + 1 \in 1..Len(rows) /\ i + 1 # 1
      /\ \A i \in 1..Len(rows) : i = 1 \/ (i - 1 \in 1..Len(tail) /\ (i - 1) + 1 = i)
  BY <1>1
<1>3. ASSUME NEW i \in 1..Len(rows)
      PROVE  rows[i] = head \/ \E j \in 1..Len(tail) : rows[i] = tail[j]
  <2>1. CASE i = 1
    BY <1>1, <2>1
  <2>2. CASE i # 1
    <3> DEFINE j == i - 1
    <3>1. j \in 1..Len(tail) /\ j + 1 = i
      BY <1>2, <2>2
    <3> HIDE DEF j
    <3>2. tail[j] = rows[i]
      BY <1>1, <3>1
    <3> QED
      BY <3>1, <3>2
  <2> QED
    BY <2>1, <2>2
<1>4. /\ \E i \in 1..Len(rows) : rows[i] = head
      /\ \A j \in 1..Len(tail) : \E i \in 1..Len(rows) : rows[i] = tail[j]
  <2>1. \E i \in 1..Len(rows) : rows[i] = head
    BY <1>1, <1>2
  <2>2. ASSUME NEW j \in 1..Len(tail) PROVE \E i \in 1..Len(rows) : rows[i] = tail[j]
    <3>1. j + 1 \in 1..Len(rows) /\ rows[j + 1] = tail[j]
      BY <1>1, <1>2
    <3> QED
      BY <3>1
  <2> QED
    BY <2>1, <2>2
<1>5. NumbersOf(rows) = NumbersOf(tail) \cup {head.number}
  <2>1. ASSUME NEW n \in NumbersOf(rows) PROVE n \in NumbersOf(tail) \cup {head.number}
    <3>1. PICK i \in 1..Len(rows) : n = rows[i].number
      BY DEF NumbersOf
    <3>2. CASE rows[i] = head
      BY <3>1, <3>2
    <3>3. CASE \E j \in 1..Len(tail) : rows[i] = tail[j]
      BY <3>1, <3>3 DEF NumbersOf
    <3> QED
      BY <1>3, <3>2, <3>3
  <2>2. ASSUME NEW n \in NumbersOf(tail) PROVE n \in NumbersOf(rows)
    <3>1. PICK j \in 1..Len(tail) : n = tail[j].number
      BY DEF NumbersOf
    <3>2. PICK i \in 1..Len(rows) : rows[i] = tail[j]
      BY <1>4
    <3> QED
      BY <3>1, <3>2 DEF NumbersOf
  <2>3. {head.number} \subseteq NumbersOf(rows)
    BY <1>4 DEF NumbersOf
  <2> QED
    BY <2>1, <2>2, <2>3
<1>6. DropsOf(rows) = DropsOf(tail) \cup head.drops
  <2>1. ASSUME NEW n \in DropsOf(rows) PROVE n \in DropsOf(tail) \cup head.drops
    <3>1. PICK i \in 1..Len(rows) : n \in rows[i].drops
      BY DEF DropsOf
    <3>2. CASE rows[i] = head
      BY <3>1, <3>2
    <3>3. CASE \E j \in 1..Len(tail) : rows[i] = tail[j]
      BY <3>1, <3>3 DEF DropsOf
    <3> QED
      BY <1>3, <3>2, <3>3
  <2>2. ASSUME NEW n \in DropsOf(tail) PROVE n \in DropsOf(rows)
    <3>1. PICK j \in 1..Len(tail) : n \in tail[j].drops
      BY DEF DropsOf
    <3>2. PICK i \in 1..Len(rows) : rows[i] = tail[j]
      BY <1>4
    <3> QED
      BY <3>1, <3>2 DEF DropsOf
  <2>3. head.drops \subseteq DropsOf(rows)
    BY <1>4 DEF DropsOf
  <2> QED
    BY <2>1, <2>2, <2>3
<1>7. ASSUME Injective(rows) PROVE Injective(tail) /\ head.number \notin NumbersOf(tail)
  <2>1. head.number \notin NumbersOf(tail)
    BY <1>1, <1>2, <1>7 DEF Injective, NumbersOf
  <2>2. Injective(tail)
    BY <1>1, <1>2, <1>7 DEF Injective
  <2> QED
    BY <2>1, <2>2
<1> QED
  BY <1>1, <1>5, <1>6, <1>7 DEF head, tail

\* One row.
LEMMA OneRow ==
  ASSUME NEW row \in Row
  PROVE  /\ <<row>> \in Rows /\ NumbersOf(<<row>>) = {row.number} /\ DropsOf(<<row>>) = row.drops
         /\ Injective(<<row>>) /\ <<row>> # <<>> /\ Len(<<row>>) = 1
<1> DEFINE one == <<row>>
<1>1. one \in Rows /\ Len(one) = 1 /\ one[1] = row
  BY DEF Rows, Row
<1> HIDE DEF one
<1>2. one # <<>>
  BY <1>1
<1> QED
  BY <1>1, <1>2 DEF one, NumbersOf, DropsOf, Injective

\* Rows after rows.
LEMMA RowsJoined ==
  ASSUME NEW left \in Rows, NEW right \in Rows
  PROVE  /\ left \o right \in Rows
         /\ Len(left) \in Nat /\ Len(right) \in Nat /\ Len(left \o right) = Len(left) + Len(right)
         /\ NumbersOf(left \o right) = NumbersOf(left) \cup NumbersOf(right)
         /\ DropsOf(left \o right) = DropsOf(left) \cup DropsOf(right)
         /\ Injective(left) /\ Injective(right) /\ NumbersOf(left) \cap NumbersOf(right) = {} =>
               Injective(left \o right)
<1> DEFINE both == left \o right
<1>1. /\ both \in Rows /\ Len(left) \in Nat /\ Len(right) \in Nat
      /\ Len(both) = Len(left) + Len(right)
      /\ \A i \in 1..Len(both) : both[i] = IF i <= Len(left) THEN left[i]
                                           ELSE right[i - Len(left)]
  BY ConcatProperties, LenProperties DEF Rows
<1> HIDE DEF both
<1>2. /\ \A i \in 1..Len(left) : i \in 1..Len(both) /\ both[i] = left[i]
      /\ \A i \in 1..Len(right) : i + Len(left) \in 1..Len(both) /\ both[i + Len(left)] = right[i]
      /\ \A i \in 1..Len(both) : \/ i \in 1..Len(left) /\ both[i] = left[i]
                                 \/ /\ i - Len(left) \in 1..Len(right)
                                    /\ both[i] = right[i - Len(left)]
  BY <1>1
<1>3. NumbersOf(both) = NumbersOf(left) \cup NumbersOf(right)
  <2>1. ASSUME NEW n \in NumbersOf(both) PROVE n \in NumbersOf(left) \cup NumbersOf(right)
    BY <1>2 DEF NumbersOf
  <2>2. ASSUME NEW n \in NumbersOf(left) \cup NumbersOf(right) PROVE n \in NumbersOf(both)
    BY <1>2 DEF NumbersOf
  <2> QED
    BY <2>1, <2>2
<1>4. DropsOf(both) = DropsOf(left) \cup DropsOf(right)
  <2>1. ASSUME NEW n \in DropsOf(both) PROVE n \in DropsOf(left) \cup DropsOf(right)
    <3>1. PICK i \in 1..Len(both) : n \in both[i].drops
      BY DEF DropsOf
    <3>2. \/ \E j \in 1..Len(left) : both[i] = left[j]
          \/ \E j \in 1..Len(right) : both[i] = right[j]
      BY <1>2
    <3> QED
      BY <3>1, <3>2 DEF DropsOf
  <2>2. ASSUME NEW n \in DropsOf(left) \cup DropsOf(right) PROVE n \in DropsOf(both)
    BY <1>2 DEF DropsOf
  <2> QED
    BY <2>1, <2>2
<1>5. ASSUME Injective(left), Injective(right), NumbersOf(left) \cap NumbersOf(right) = {}
      PROVE  Injective(both)
  <2>1. \A i \in 1..Len(left), j \in 1..Len(right) : left[i].number # right[j].number
    BY <1>5 DEF NumbersOf
  <2> SUFFICES ASSUME NEW i \in 1..Len(both), NEW j \in 1..Len(both), i # j
               PROVE  both[i].number # both[j].number
    BY DEF Injective
  <2>2. CASE i <= Len(left) /\ j <= Len(left)
    BY <1>1, <1>5, <2>2 DEF Injective
  <2>3. CASE i <= Len(left) /\ j > Len(left)
    BY <1>1, <2>1, <2>3
  <2>4. CASE i > Len(left) /\ j <= Len(left)
    BY <1>1, <2>1, <2>4
  <2>5. CASE i > Len(left) /\ j > Len(left)
    <3> DEFINE a == i - Len(left)
               b == j - Len(left)
    <3>1. /\ a \in 1..Len(right) /\ b \in 1..Len(right) /\ a # b
          /\ both[i] = right[a] /\ both[j] = right[b]
      BY <1>1, <2>5
    <3> HIDE DEF a, b
    <3> QED
      BY <1>5, <3>1 DEF Injective
  <2> QED
    BY <1>1, <2>2, <2>3, <2>4, <2>5
<1> QED
  BY <1>1, <1>3, <1>4, <1>5 DEF both

\* Rows parted after the first k.
LEMMA RowsParted ==
  ASSUME NEW rows \in Rows, NEW k \in 0..Len(rows)
  PROVE  LET first == SubSeq(rows, 1, k)
             rest == SubSeq(rows, k + 1, Len(rows)) IN
         /\ first \in Rows /\ rest \in Rows
         /\ NumbersOf(rows) = NumbersOf(first) \cup NumbersOf(rest)
         /\ Injective(rows) => /\ Injective(first) /\ Injective(rest)
                               /\ NumbersOf(first) \cap NumbersOf(rest) = {}
<1> DEFINE first == SubSeq(rows, 1, k)
           rest == SubSeq(rows, k + 1, Len(rows))
<1>1. /\ Len(rows) \in Nat /\ k \in Nat /\ k <= Len(rows)
  BY LenProperties DEF Rows
<1>2. first \in Rows /\ rest \in Rows
  <2>1. \A i \in 1..Len(rows) : rows[i] \in Row
    BY ElementOfSeq DEF Rows, Row
  <2> QED
    BY <1>1, <2>1, SubSeqProperties DEF Rows, Row
<1>3. /\ Len(first) = k /\ Len(rest) = Len(rows) - k
      /\ \A i \in 1..k : first[i] = rows[i]
      /\ \A i \in 1..(Len(rows) - k) : rest[i] = rows[k + i]
  BY <1>1, SubSeqProperties DEF Rows
<1> HIDE DEF first, rest
<1>4. /\ \A i \in 1..k : i \in 1..Len(rows)
      /\ \A i \in 1..(Len(rows) - k) : k + i \in 1..Len(rows)
      /\ \A i \in 1..Len(rows) : i \in 1..k \/ (i - k \in 1..(Len(rows) - k) /\ k + (i - k) = i)
  BY <1>1
<1>5. NumbersOf(rows) = NumbersOf(first) \cup NumbersOf(rest)
  <2>1. ASSUME NEW n \in NumbersOf(rows) PROVE n \in NumbersOf(first) \cup NumbersOf(rest)
    <3>1. PICK i \in 1..Len(rows) : n = rows[i].number
      BY DEF NumbersOf
    <3>2. CASE i \in 1..k
      BY <1>3, <3>1, <3>2 DEF NumbersOf
    <3>3. CASE i \notin 1..k
      <4> DEFINE j == i - k
      <4>1. j \in 1..(Len(rows) - k) /\ k + j = i
        BY <1>4, <3>3
      <4> HIDE DEF j
      <4>2. j \in 1..Len(rest) /\ rest[j] = rows[i]
        BY <1>3, <4>1
      <4> QED
        BY <3>1, <4>2 DEF NumbersOf
    <3> QED
      BY <3>2, <3>3
  <2>2. ASSUME NEW n \in NumbersOf(first) PROVE n \in NumbersOf(rows)
    BY <1>3, <1>4 DEF NumbersOf
  <2>3. ASSUME NEW n \in NumbersOf(rest) PROVE n \in NumbersOf(rows)
    <3>1. PICK j \in 1..Len(rest) : n = rest[j].number
      BY DEF NumbersOf
    <3>2. k + j \in 1..Len(rows) /\ rest[j] = rows[k + j]
      BY <1>3, <1>4
    <3> QED
      BY <3>1, <3>2 DEF NumbersOf
  <2> QED
    BY <2>1, <2>2, <2>3
<1>6. ASSUME Injective(rows)
      PROVE  /\ Injective(first) /\ Injective(rest)
             /\ NumbersOf(first) \cap NumbersOf(rest) = {}
  <2>1. Injective(first)
    BY <1>3, <1>4, <1>6 DEF Injective
  <2>2. Injective(rest)
    <3> SUFFICES ASSUME NEW i \in 1..Len(rest), NEW j \in 1..Len(rest), i # j
                 PROVE  rest[i].number # rest[j].number
      BY DEF Injective
    <3>1. k + i # k + j /\ k + i \in 1..Len(rows) /\ k + j \in 1..Len(rows)
      BY <1>1, <1>3, <1>4
    <3>2. rest[i] = rows[k + i] /\ rest[j] = rows[k + j]
      BY <1>3
    <3> QED
      BY <1>6, <3>1, <3>2 DEF Injective
  <2>3. \A i \in 1..k, j \in 1..(Len(rows) - k) : first[i].number # rest[j].number
    BY <1>1, <1>3, <1>4, <1>6 DEF Injective
  <2> QED
    BY <1>3, <2>1, <2>2, <2>3 DEF NumbersOf
<1> QED
  BY <1>2, <1>5, <1>6 DEF first, rest

\* What is taken, held and told are numbers; a set of numbers is finite.
LEMMA InsulaHolds ==
  ASSUME InsulaTypes
  PROVE  /\ writer.sequence \in Nat /\ writer.settled \in Nat /\ writer.dropped \subseteq Nat
         /\ channel.queue \in Rows /\ drain.batch \in Rows /\ drain.size \in Nat
         /\ flush.reported \in Nat
         /\ \A t \in Threads : thread[t].number \in Nat
         /\ IsFiniteSet(Numbers)
         /\ Tried \subseteq Nat /\ Spoken \subseteq Nat /\ ledger.early \subseteq Nat
<1>1. /\ writer.sequence \in Nat /\ writer.settled \in Nat /\ writer.dropped \subseteq Nat
      /\ channel.queue \in Rows /\ drain.batch \in Rows /\ drain.size \in Nat
      /\ flush.reported \in Nat
  BY DEF Tried, Spoken, Ledgers, InsulaTypes
<1>2. \A t \in Threads : thread[t].number \in Nat
  BY DEF Tried, Spoken, Ledgers, InsulaTypes
<1>3. IsFiniteSet(Numbers)
  <2>1. 1 \in Int /\ writer.sequence \in Int
    BY <1>1
  <2> QED
    BY <2>1, FS_Interval, Zenon DEF Numbers
<1>4. Tried \subseteq Nat /\ Spoken \subseteq Nat /\ ledger.early \subseteq Nat
  BY DEF Tried, Spoken, Ledgers, InsulaTypes
<1> QED
  BY <1>1, <1>2, <1>3, <1>4

\* What is ingested is finite, and so is what is dropped.
LEMMA SetsAreFinite ==
  ASSUME InsulaTypes, ApartInv
  PROVE  /\ IsFiniteSet(Tried) /\ Cardinality(Tried) \in Nat
         /\ Cardinality(writer.dropped) \in Nat
         /\ Cardinality(Numbers) = writer.sequence
         /\ Cardinality(Numbers \ Tried) = writer.sequence - Cardinality(Tried)
         /\ Cardinality(Tried) <= writer.sequence
<1>1. IsFiniteSet(Numbers) /\ Cardinality(Numbers) = writer.sequence
  <2>1. writer.sequence \in Nat /\ 1 \in Int /\ writer.sequence \in Int
    BY InsulaHolds
  <2>2. /\ IsFiniteSet(1..writer.sequence)
        /\ Cardinality(1..writer.sequence)
              = IF 1 > writer.sequence THEN 0 ELSE writer.sequence - 1 + 1
    BY <2>1, FS_Interval, Zenon
  <2> QED
    BY <2>1, <2>2 DEF Numbers
<1>2. Tried \subseteq Numbers /\ writer.dropped \subseteq Numbers
  BY DEF Tried, Spoken, ApartInv
<1>3. /\ IsFiniteSet(Tried) /\ IsFiniteSet(writer.dropped)
      /\ Cardinality(Tried) <= Cardinality(Numbers)
  BY <1>1, <1>2, FS_Subset
<1>4. Cardinality(Tried) \in Nat /\ Cardinality(writer.dropped) \in Nat
  BY <1>3, FS_CardinalityType
<1>5. Cardinality(Numbers \ Tried)
         = Cardinality(Numbers) - Cardinality(Numbers \cap Tried)
  BY <1>1, FS_Difference
<1>6. Numbers \cap Tried = Tried
  BY <1>2
<1> QED
  BY <1>1, <1>3, <1>4, <1>5, <1>6

\* The channel when the drain has ended.
LEMMA ClosedIsAChannel ==
  [open |-> FALSE, queue |-> <<>>] \in [open : BOOLEAN, queue : Rows]
<1> DEFINE no == FALSE
<1>1. no \in BOOLEAN /\ <<>> \in Rows
  BY DEF Rows
<1> HIDE DEF no
<1>2. [open |-> no, queue |-> <<>>] \in [open : BOOLEAN, queue : Rows]
  BY <1>1
<1> QED
  BY <1>2 DEF no

\* What was within the count stays so, as long as no more comes early.
LEMMA TailStays ==
  ASSUME InsulaTypes, ApartInv, TailIsTold, flush.at # "exited" => flush'.at # "exited",
         flush'.reported = flush.reported,
         Tried \subseteq Tried', Spoken \subseteq Spoken',
         flush.at # "running" => ledger'.early = ledger.early
  PROVE  TailIsTold'
<1>1. CASE flush'.at = "exited"
  <2>1. flush.at = "exited" /\ ledger'.early = ledger.early
    BY <1>1
  <2>2. Untold' \subseteq Untold
    BY <2>1 DEF Tried, Spoken, Lost, Untold
  <2>3. IsFiniteSet(Untold)
    <3>1. Untold \subseteq Numbers
      BY DEF Tried, Spoken, Lost, Untold, ApartInv
    <3> QED
      BY <3>1, InsulaHolds, FS_Subset
  <2>4. Cardinality(Untold') <= Cardinality(Untold) /\ Cardinality(Untold') \in Nat
        /\ Cardinality(Untold) \in Nat
    BY <2>2, <2>3, FS_Subset, FS_CardinalityType
  <2>5. Cardinality(Untold) <= flush.reported
    BY <2>1 DEF TailIsTold
  <2> QED
    BY <2>4, <2>5, InsulaHolds DEF TailIsTold
<1>2. CASE flush'.at # "exited"
  BY <1>2 DEF TailIsTold
<1> QED
  BY <1>1, <1>2

\* What the rows of the queue and of the batch stand for, where both stay.
LEMMA RowsStay ==
  /\ channel'.queue = channel.queue => Queued' = Queued
  /\ drain'.batch = drain.batch => InHand' = InHand /\ Telling' = Telling
  BY DEF Queued, InHand, Telling

\* A number is taken that none had.
LEMMA TakeNumberKeeps ==
  ASSUME InsulaInv, NEW t \in Threads, TakeNumber(t) PROVE InsulaInv'
<1>1. /\ UNCHANGED <<channel, drain, flush, ledger>> /\ thread[t].at = "idle"
      /\ writer' = [writer EXCEPT !.sequence = @ + 1]
      /\ thread' = [thread EXCEPT ![t] = [at |-> "numbered", number |-> writer.sequence + 1]]
  BY DEF TakeNumber
<1>2. writer.sequence + 1 \in Nat
  BY InsulaHolds DEF InsulaInv
<1>3. /\ writer' \in [sequence : Nat, settled : Nat, dropped : SUBSET Nat, accepting : BOOLEAN]
      /\ writer'.sequence = writer.sequence + 1 /\ writer'.settled = writer.settled
      /\ writer'.dropped = writer.dropped
  BY <1>1, <1>2 DEF Tried, Spoken, Ledgers, InsulaInv, InsulaTypes
<1>4. /\ thread' \in [Threads -> [at : {"idle", "numbered", "sending", "dropping"}, number : Nat]]
      /\ \A u \in Threads : u # t => thread'[u] = thread[u]
      /\ thread'[t].number = writer.sequence + 1
  BY <1>1, <1>2 DEF Tried, Spoken, Ledgers, InsulaInv, InsulaTypes
<1>5. Queued' = Queued /\ InHand' = InHand /\ Telling' = Telling
  BY <1>1, RowsStay
<1>6. InsulaTypes'
  BY <1>1, <1>3, <1>4 DEF Tried, Spoken, Ledgers, InsulaInv, InsulaTypes
<1>7. ApartInv'
  <2>1. Numbers' = Numbers \cup {writer.sequence + 1} /\ writer.sequence + 1 \notin Numbers
    BY <1>3, InsulaHolds DEF Numbers, InsulaInv
  <2> QED
    BY <1>1, <1>3, <1>4, <1>5, <2>1 DEF Tried, Spoken, InsulaInv, ApartInv, Busy, Aborted
<1>8. CountInv'
  BY <1>1, <1>3 DEF Tried, Spoken, InsulaInv, CountInv
<1>9. ToldInv'
  BY <1>1, <1>3, <1>5 DEF Tried, Spoken, Lost, InsulaInv, ToldInv, OnTheWay, Aborted, ShuttingDown, Untold
<1>10. TailIsTold'
  BY <1>1, TailStays DEF InsulaInv, Tried, Spoken
<1> QED
  BY <1>6, <1>7, <1>8, <1>9, <1>10 DEF InsulaInv

\* A thread looks whether the emitter accepts.
LEMMA LookKeeps ==
  ASSUME InsulaInv, NEW t \in Threads, LookAccepting(t) PROVE InsulaInv'
<1>1. /\ UNCHANGED <<writer, channel, drain, flush, ledger>> /\ thread[t].at = "numbered"
      /\ thread' = [thread EXCEPT ![t].at = IF writer.accepting THEN "sending" ELSE "idle"]
  BY DEF LookAccepting
<1>2. /\ thread' \in [Threads -> [at : {"idle", "numbered", "sending", "dropping"}, number : Nat]]
      /\ \A u \in Threads : u # t => thread'[u] = thread[u]
      /\ thread'[t].number = thread[t].number
  BY <1>1 DEF Tried, Spoken, Ledgers, InsulaInv, InsulaTypes
<1>3. Queued' = Queued /\ InHand' = InHand /\ Telling' = Telling
  BY <1>1, RowsStay
<1>4. InsulaTypes'
  BY <1>1, <1>2 DEF Tried, Spoken, Ledgers, InsulaInv, InsulaTypes
<1>5. ApartInv'
  BY <1>1, <1>2, <1>3 DEF Tried, Spoken, InsulaInv, ApartInv, Busy, Aborted, Numbers
<1>6. CountInv'
  BY <1>1 DEF Tried, Spoken, InsulaInv, CountInv
<1>7. ToldInv'
  BY <1>1, <1>3 DEF Tried, Spoken, Lost, InsulaInv, ToldInv, OnTheWay, Aborted, ShuttingDown, Untold
<1>8. TailIsTold'
  BY <1>1, TailStays DEF InsulaInv, Tried, Spoken
<1> QED
  BY <1>4, <1>5, <1>6, <1>7, <1>8 DEF InsulaInv

\* What is enqueued, or noted as dropped, before the flush is early.
LEMMA EarlyAdds ==
  ASSUME InsulaTypes, NEW n \in Nat, Early(n)
  PROVE  /\ ledger' \in Ledgers
         /\ Tried' = Tried /\ Spoken' = Spoken
         /\ ledger'.early \subseteq ledger.early \cup {n}
         /\ flush.at # "running" => ledger'.early = ledger.early
         /\ ledger.early \subseteq ledger'.early
  BY DEF Tried, Spoken, Ledgers, Early, InsulaTypes

\* A number goes from its thread to the queue, or stays where there is no room.
LEMMA TrySendKeeps ==
  ASSUME InsulaInv, NEW t \in Threads, TrySend(t) PROVE InsulaInv'
<1> DEFINE n == thread[t].number
<1>1. UNCHANGED <<writer, drain, flush>> /\ thread[t].at = "sending" /\ n \in Nat
  BY InsulaHolds DEF TrySend, InsulaInv
<1>2. CASE ~HasRoom
  <2>1. thread' = [thread EXCEPT ![t].at = "dropping"] /\ UNCHANGED <<channel, ledger>>
    BY <1>2 DEF TrySend
  <2>2. /\ thread' \in [Threads -> [at : {"idle", "numbered", "sending", "dropping"}, number : Nat]]
        /\ \A u \in Threads : u # t => thread'[u] = thread[u]
        /\ thread'[t].number = n
    BY <2>1 DEF Tried, Spoken, Ledgers, InsulaInv, InsulaTypes
  <2>3. Queued' = Queued /\ InHand' = InHand /\ Telling' = Telling
    BY <1>1, <2>1, RowsStay
  <2>4. InsulaTypes'
    BY <1>1, <2>1, <2>2 DEF Tried, Spoken, Ledgers, InsulaInv, InsulaTypes
  <2>5. ApartInv'
    BY <1>1, <2>1, <2>2, <2>3 DEF Tried, Spoken, InsulaInv, ApartInv, Busy, Aborted, Numbers
  <2>6. CountInv'
    BY <1>1, <2>1 DEF Tried, Spoken, InsulaInv, CountInv
  <2>7. ToldInv'
    BY <1>1, <2>1, <2>3 DEF Tried, Spoken, Lost, InsulaInv, ToldInv, OnTheWay, Aborted, ShuttingDown, Untold
  <2>8. TailIsTold'
    BY <1>1, <2>1, TailStays DEF InsulaInv, Tried, Spoken
  <2> QED
    BY <2>4, <2>5, <2>6, <2>7, <2>8 DEF InsulaInv
<1>3. CASE HasRoom
  <2>1. /\ channel' = [channel EXCEPT !.queue = Append(@, Event(n))]
        /\ thread' = [thread EXCEPT ![t].at = "idle"] /\ Early(n)
    BY <1>3 DEF TrySend
  <2>2. /\ thread' \in [Threads -> [at : {"idle", "numbered", "sending", "dropping"}, number : Nat]]
        /\ \A u \in Threads : u # t => thread'[u] = thread[u]
        /\ thread'[t].at = "idle"
    BY <2>1 DEF Tried, Spoken, Ledgers, InsulaInv, InsulaTypes
  <2>3. /\ ledger' \in Ledgers
        /\ Tried' = Tried /\ Spoken' = Spoken
        /\ ledger'.early \subseteq ledger.early \cup {n}
        /\ flush.at # "running" => ledger'.early = ledger.early
    BY <1>1, <2>1, EarlyAdds DEF InsulaInv
  <2>4. Event(n) \in Row /\ Event(n).number = n /\ channel.queue \in Rows
    BY <1>1, InsulaHolds DEF Event, Row, InsulaInv
  <2> DEFINE queue == Append(channel.queue, Event(n))
  <2>5. /\ n \in Numbers /\ n \notin Queued \cup InHand \cup Tried \cup ledger.early
        /\ \A u \in Threads : Busy(u) /\ u # t => thread[u].number # n
    BY <1>1 DEF Tried, Spoken, InsulaInv, ApartInv, Busy
  <2>6. queue \in Rows /\ NumbersOf(queue) = Queued \cup {n} /\ Injective(queue)
    BY <2>4, <2>5, RowAdded DEF Tried, Spoken, InsulaInv, ApartInv, Queued
  <2> HIDE DEF queue
  <2>7. channel' \in [open : BOOLEAN, queue : Rows] /\ channel'.queue = queue
    BY <2>1, <2>6 DEF Tried, Spoken, Ledgers, InsulaInv, InsulaTypes, queue
  <2>8. Queued' = Queued \cup {n} /\ InHand' = InHand /\ Telling' = Telling
    BY <1>1, <2>6, <2>7, RowsStay DEF Queued
  <2> HIDE DEF n
  <2>9. InsulaTypes'
    BY <1>1, <2>2, <2>3, <2>7 DEF Tried, Spoken, Ledgers, InsulaInv, InsulaTypes
  <2>10. ApartInv'
    BY <1>1, <2>2, <2>3, <2>5, <2>6, <2>7, <2>8
    DEF Tried, Spoken, InsulaInv, ApartInv, Busy, Aborted, Numbers
  <2>11. CountInv'
    BY <1>1, <2>3 DEF Tried, Spoken, InsulaInv, CountInv
  <2>12. ToldInv'
    BY <1>1, <2>3, <2>8 DEF Tried, Spoken, Lost, InsulaInv, ToldInv, OnTheWay, Aborted, ShuttingDown, Untold
  <2>13. TailIsTold'
    BY <1>1, <2>3, TailStays DEF InsulaInv, Tried, Spoken
  <2> QED
    BY <2>9, <2>10, <2>11, <2>12, <2>13 DEF InsulaInv
<1> QED
  BY <1>2, <1>3

\* A number goes from its thread to the count of drops.
LEMMA NoteDropKeeps ==
  ASSUME InsulaInv, NEW t \in Threads, NoteDrop(t) PROVE InsulaInv'
<1> DEFINE n == thread[t].number
<1>1. /\ UNCHANGED <<channel, drain, flush>> /\ thread[t].at = "dropping" /\ n \in Nat
      /\ writer' = [writer EXCEPT !.dropped = @ \cup {n}]
      /\ thread' = [thread EXCEPT ![t].at = "idle"] /\ Early(n)
  BY InsulaHolds DEF NoteDrop, InsulaInv
<1>2. /\ thread' \in [Threads -> [at : {"idle", "numbered", "sending", "dropping"}, number : Nat]]
      /\ \A u \in Threads : u # t => thread'[u] = thread[u]
      /\ thread'[t].at = "idle"
  BY <1>1 DEF Tried, Spoken, Ledgers, InsulaInv, InsulaTypes
<1>3. /\ ledger' \in Ledgers
      /\ Tried' = Tried /\ Spoken' = Spoken
      /\ ledger'.early \subseteq ledger.early \cup {n}
      /\ flush.at # "running" => ledger'.early = ledger.early
  BY <1>1, EarlyAdds DEF InsulaInv
<1>4. /\ writer' \in [sequence : Nat, settled : Nat, dropped : SUBSET Nat, accepting : BOOLEAN]
      /\ writer'.sequence = writer.sequence /\ writer'.settled = writer.settled
      /\ writer'.dropped = writer.dropped \cup {n}
  BY <1>1 DEF Tried, Spoken, Ledgers, InsulaInv, InsulaTypes
<1>5. /\ n \in Numbers /\ n \notin Queued \cup InHand \cup Tried \cup ledger.early
      /\ \A u \in Threads : Busy(u) /\ u # t => thread[u].number # n
  BY <1>1 DEF Tried, Spoken, InsulaInv, ApartInv, Busy
<1>6. Queued' = Queued /\ InHand' = InHand /\ Telling' = Telling
  BY <1>1, RowsStay
<1> HIDE DEF n
<1>7. InsulaTypes'
  BY <1>1, <1>2, <1>3, <1>4 DEF Tried, Spoken, Ledgers, InsulaInv, InsulaTypes
<1>8. ApartInv'
  BY <1>1, <1>2, <1>3, <1>4, <1>5, <1>6 DEF Tried, Spoken, InsulaInv, ApartInv, Busy, Aborted, Numbers
<1>9. CountInv'
  BY <1>1, <1>3, <1>4 DEF Tried, Spoken, InsulaInv, CountInv
<1>10. ToldInv'
  BY <1>1, <1>3, <1>4, <1>6 DEF Tried, Spoken, Lost, InsulaInv, ToldInv, OnTheWay, Aborted, ShuttingDown, Untold
<1>11. TailIsTold'
  BY <1>1, <1>3, TailStays DEF InsulaInv, Tried, Spoken
<1> QED
  BY <1>7, <1>8, <1>9, <1>10, <1>11 DEF InsulaInv

\* A batch begins with the head of the queue, or with nothing when the flush
\* is under way and the queue is empty.
LEMMA ReceiveKeeps == ASSUME InsulaInv, Receive PROVE InsulaInv'
<1>1. UNCHANGED <<writer, thread, flush, ledger>> /\ drain.at = "receive" /\ drain.batch = <<>>
  BY DEF Tried, Spoken, Receive, InsulaInv, CountInv
<1>2. channel.queue \in Rows
  BY InsulaHolds DEF InsulaInv
<1>3. InHand = {} /\ Telling = {}
  BY <1>1 DEF InHand, Telling, NumbersOf, DropsOf
<1>4. CASE /\ channel.queue # <<>>
           /\ drain' = [drain EXCEPT !.at = "swap", !.batch = <<Head(channel.queue)>>]
           /\ channel' = [channel EXCEPT !.queue = Tail(@)]
  <2> DEFINE head == Head(channel.queue)
             tail == Tail(channel.queue)
             batch == <<head>>
  <2>1. /\ head \in Row /\ tail \in Rows /\ Queued = NumbersOf(tail) \cup {head.number}
        /\ Injective(tail) /\ head.number \notin NumbersOf(tail)
    BY <1>2, <1>4, RowTaken DEF Tried, Spoken, InsulaInv, ApartInv, Queued
  <2>2. /\ batch \in Rows /\ NumbersOf(batch) = {head.number} /\ Injective(batch)
        /\ batch # <<>> /\ Len(batch) = 1
    BY <2>1, OneRow
  <2> HIDE DEF head, tail, batch
  <2>3. /\ drain' \in [at : {"receive", "swap", "fill", "ingest", "done", "aborted"},
                       batch : Rows, size : Nat]
        /\ drain'.at = "swap" /\ drain'.batch = batch
    BY <1>4, <2>2 DEF Tried, Spoken, Ledgers, InsulaInv, InsulaTypes, batch, head
  <2>4. channel' \in [open : BOOLEAN, queue : Rows] /\ channel'.queue = tail
    BY <1>4, <2>1 DEF Tried, Spoken, Ledgers, InsulaInv, InsulaTypes, tail
  <2>5. Queued = Queued' \cup InHand' /\ Queued' \cap InHand' = {}
    BY <2>1, <2>2, <2>3, <2>4 DEF Queued, InHand
  <2>6. InsulaTypes'
    BY <1>1, <2>3, <2>4 DEF Tried, Spoken, Ledgers, InsulaInv, InsulaTypes
  <2>7. ApartInv'
    BY <1>1, <1>3, <2>1, <2>2, <2>3, <2>4, <2>5 DEF Tried, Spoken, InsulaInv, ApartInv, Busy, Aborted, Numbers
  <2>8. CountInv'
    <3>1. Len(drain'.batch) <= 1
      <4>1. Len(batch) <= 1
        BY <2>2
      <4> QED
        BY <2>3, <4>1
    <3>2. writer.settled <= Cardinality(Tried)
      BY <1>1 DEF Tried, Spoken, InsulaInv, CountInv
    <3> QED
      BY <1>1, <2>3, <3>1, <3>2 DEF Tried, Spoken, CountInv
  <2>9. ToldInv'
    BY <1>1, <1>3, <2>2, <2>3, <2>5 DEF Tried, Spoken, InsulaInv, ToldInv, OnTheWay, Aborted
  <2>10. TailIsTold'
    BY <1>1, TailStays DEF InsulaInv, Tried, Spoken
  <2> QED
    BY <2>6, <2>7, <2>8, <2>9, <2>10 DEF InsulaInv
<1>5. CASE /\ channel.queue = <<>> /\ ShuttingDown
           /\ drain' = [drain EXCEPT !.at = "swap"] /\ UNCHANGED channel
  <2>1. /\ drain' \in [at : {"receive", "swap", "fill", "ingest", "done", "aborted"},
                       batch : Rows, size : Nat]
        /\ drain'.at = "swap" /\ drain'.batch = drain.batch
    BY <1>5 DEF Tried, Spoken, Ledgers, InsulaInv, InsulaTypes
  <2>2. Queued' = Queued /\ InHand' = InHand /\ Telling' = Telling
    BY <1>5, <2>1, RowsStay
  <2>3. Queued = {}
    BY <1>5 DEF Queued, NumbersOf
  <2>4. InsulaTypes'
    BY <1>1, <1>5, <2>1 DEF Tried, Spoken, Ledgers, InsulaInv, InsulaTypes
  <2>5. ApartInv'
    BY <1>1, <1>5, <2>1, <2>2 DEF Tried, Spoken, InsulaInv, ApartInv, Busy, Aborted, Numbers
  <2>6. CountInv'
    <3>1. Len(drain'.batch) = 0
      BY <1>1, <2>1
    <3> QED
      BY <1>1, <2>1, <3>1 DEF Tried, Spoken, InsulaInv, CountInv
  <2>7. ToldInv'
    BY <1>1, <1>3, <1>5, <2>1, <2>2, <2>3
    DEF Tried, Spoken, InsulaInv, ToldInv, OnTheWay, Aborted, ShuttingDown
  <2>8. TailIsTold'
    BY <1>1, TailStays DEF InsulaInv, Tried, Spoken
  <2> QED
    BY <2>4, <2>5, <2>6, <2>7, <2>8 DEF InsulaInv
<1> QED
  BY <1>4, <1>5 DEF Receive

\* The drops become a row of a number none had; with nothing to ingest and
\* nothing dropped the drain is done.
LEMMA SwapKeeps == ASSUME InsulaInv, SwapDropped PROVE InsulaInv'
<1>1. UNCHANGED <<thread, flush, ledger>> /\ drain.at = "swap" /\ drain.batch \in Rows
  BY InsulaHolds DEF SwapDropped, InsulaInv
<1>2. CASE NothingLeft
  <2>1. /\ drain' = [drain EXCEPT !.at = "done"] /\ UNCHANGED writer
        /\ channel' = [open |-> FALSE, queue |-> <<>>]
        /\ drain.batch = <<>> /\ writer.dropped = {}
    BY <1>2 DEF SwapDropped, NothingLeft
  <2>2. /\ drain' \in [at : {"receive", "swap", "fill", "ingest", "done", "aborted"},
                       batch : Rows, size : Nat]
        /\ drain'.at = "done" /\ drain'.batch = drain.batch
    BY <2>1 DEF Tried, Spoken, Ledgers, InsulaInv, InsulaTypes
  <2>3. channel' \in [open : BOOLEAN, queue : Rows] /\ channel'.queue = <<>>
    BY <2>1, ClosedIsAChannel
  <2>4. Queued' = {} /\ InHand' = InHand /\ Telling' = Telling /\ Injective(channel'.queue)
    BY <2>2, <2>3, RowsStay DEF Queued, NumbersOf, Injective
  <2>5. InsulaTypes'
    BY <1>1, <2>1, <2>2, <2>3 DEF Tried, Spoken, Ledgers, InsulaInv, InsulaTypes
  <2>6. ApartInv'
    BY <1>1, <2>1, <2>2, <2>4 DEF Tried, Spoken, InsulaInv, ApartInv, Busy, Aborted, Numbers
  <2>7. CountInv'
    BY <1>1, <2>1, <2>2 DEF Tried, Spoken, InsulaInv, CountInv
  <2>8. ToldInv'
    <3>1. ShuttingDown /\ ledger.early \subseteq Tried \cup Spoken
      BY <1>1, <2>1 DEF Tried, Spoken, InsulaInv, ToldInv
    <3> QED
      BY <1>1, <2>1, <2>2, <3>1 DEF Tried, Spoken, Lost, ToldInv, OnTheWay, Aborted, ShuttingDown, Untold
  <2>9. TailIsTold'
    BY <1>1, TailStays DEF InsulaInv, Tried, Spoken
  <2> QED
    BY <2>5, <2>6, <2>7, <2>8, <2>9 DEF InsulaInv
<1>3. CASE ~NothingLeft /\ writer.dropped = {}
  <2>1. /\ writer' = [writer EXCEPT !.dropped = {}, !.sequence = @ + 0]
        /\ drain' = [drain EXCEPT !.at = "fill", !.batch = @] /\ UNCHANGED channel
        /\ drain.batch # <<>>
    BY <1>3 DEF SwapDropped, NothingLeft
  <2>2. /\ writer' \in [sequence : Nat, settled : Nat, dropped : SUBSET Nat, accepting : BOOLEAN]
        /\ writer'.sequence = writer.sequence /\ writer'.settled = writer.settled
        /\ writer'.dropped = writer.dropped
    <3>1. writer.sequence + 0 = writer.sequence
      BY InsulaHolds DEF InsulaInv
    <3> QED
      BY <1>3, <2>1, <3>1 DEF Tried, Spoken, Ledgers, InsulaInv, InsulaTypes
  <2>3. /\ drain' \in [at : {"receive", "swap", "fill", "ingest", "done", "aborted"},
                       batch : Rows, size : Nat]
        /\ drain'.at = "fill" /\ drain'.batch = drain.batch
    BY <2>1 DEF Tried, Spoken, Ledgers, InsulaInv, InsulaTypes
  <2>4. Queued' = Queued /\ InHand' = InHand /\ Telling' = Telling
    BY <2>1, <2>3, RowsStay
  <2>5. InsulaTypes'
    BY <1>1, <2>1, <2>2, <2>3 DEF Tried, Spoken, Ledgers, InsulaInv, InsulaTypes
  <2>6. ApartInv'
    BY <1>1, <2>1, <2>2, <2>3, <2>4 DEF Tried, Spoken, InsulaInv, ApartInv, Busy, Aborted, Numbers
  <2>7. CountInv'
    BY <1>1, <2>2, <2>3 DEF Tried, Spoken, InsulaInv, CountInv
  <2>8. ToldInv'
    BY <1>1, <2>2, <2>3, <2>4 DEF Tried, Spoken, InsulaInv, ToldInv, OnTheWay, Aborted
  <2>9. TailIsTold'
    BY <1>1, TailStays DEF InsulaInv, Tried, Spoken
  <2> QED
    BY <2>5, <2>6, <2>7, <2>8, <2>9 DEF InsulaInv
<1>4. CASE ~NothingLeft /\ writer.dropped # {}
  <2> DEFINE n == writer.sequence + 1
             row == [number |-> n, drops |-> writer.dropped]
             batch == <<row>> \o drain.batch
  <2>1. n \in Nat /\ Numbers \cup {n} = 1..n /\ n \notin Numbers /\ writer.dropped \subseteq Nat
    BY InsulaHolds DEF InsulaInv, Numbers
  <2>2. writer' = [writer EXCEPT !.dropped = {}, !.sequence = n]
    BY <1>4 DEF SwapDropped
  <2>3. /\ writer' \in [sequence : Nat, settled : Nat, dropped : SUBSET Nat, accepting : BOOLEAN]
        /\ writer'.sequence = n /\ writer'.settled = writer.settled /\ writer'.dropped = {}
    BY <2>1, <2>2 DEF Tried, Spoken, Ledgers, InsulaInv, InsulaTypes
  <2>4. drain' = [drain EXCEPT !.at = "fill", !.batch = batch] /\ UNCHANGED channel
    BY <1>4, <2>3 DEF SwapDropped
  <2>5. row \in Row /\ row.number = n /\ row.drops = writer.dropped
    BY <2>1 DEF Row
  <2> HIDE DEF row
  <2>6. /\ <<row>> \in Rows /\ NumbersOf(<<row>>) = {n} /\ DropsOf(<<row>>) = writer.dropped
        /\ Injective(<<row>>) /\ Len(<<row>>) = 1
    BY <2>5, OneRow
  <2>7. n \notin InHand /\ n \notin Queued
    BY <2>1 DEF Tried, Spoken, InsulaInv, ApartInv
  <2>8. /\ batch \in Rows /\ NumbersOf(batch) = {n} \cup InHand
        /\ DropsOf(batch) = writer.dropped \cup Telling /\ Injective(batch)
        /\ Len(drain.batch) \in Nat /\ Len(batch) = 1 + Len(drain.batch)
    <3> DEFINE one == <<row>>
    <3>1. /\ one \in Rows /\ NumbersOf(one) = {n} /\ DropsOf(one) = writer.dropped
          /\ Injective(one) /\ Len(one) = 1 /\ batch = one \o drain.batch
      BY <2>6
    <3>2. Injective(drain.batch) /\ NumbersOf(one) \cap NumbersOf(drain.batch) = {}
      BY <2>7, <3>1 DEF Tried, Spoken, InsulaInv, ApartInv, InHand
    <3> HIDE DEF one, batch
    <3>3. /\ one \o drain.batch \in Rows
          /\ Len(drain.batch) \in Nat /\ Len(one \o drain.batch) = Len(one) + Len(drain.batch)
          /\ NumbersOf(one \o drain.batch) = NumbersOf(one) \cup NumbersOf(drain.batch)
          /\ DropsOf(one \o drain.batch) = DropsOf(one) \cup DropsOf(drain.batch)
          /\ Injective(one \o drain.batch)
      BY <1>1, <3>1, <3>2, RowsJoined
    <3> QED
      BY <3>1, <3>3 DEF InHand, Telling
  <2> HIDE DEF n, batch
  <2>9. /\ drain' \in [at : {"receive", "swap", "fill", "ingest", "done", "aborted"},
                       batch : Rows, size : Nat]
        /\ drain'.at = "fill" /\ drain'.batch = batch
    BY <2>4, <2>8 DEF Tried, Spoken, Ledgers, InsulaInv, InsulaTypes
  <2>10. Queued' = Queued /\ InHand' = InHand \cup {n} /\ Telling' = Telling \cup writer.dropped
    BY <2>4, <2>8, <2>9, RowsStay DEF InHand, Telling
  <2>11. Numbers' = Numbers \cup {n}
    BY <2>1, <2>3 DEF Numbers
  <2>12. InsulaTypes'
    BY <1>1, <2>3, <2>4, <2>9 DEF Tried, Spoken, Ledgers, InsulaInv, InsulaTypes
  <2>13. ApartInv'
    BY <1>1, <2>1, <2>3, <2>4, <2>7, <2>8, <2>9, <2>10, <2>11
    DEF Tried, Spoken, InsulaInv, ApartInv, Busy, Aborted
  <2>14. CountInv'
    BY <1>1, <2>3, <2>8, <2>9 DEF Tried, Spoken, InsulaInv, CountInv
  <2>15. ToldInv'
    BY <1>1, <2>3, <2>9, <2>10 DEF Tried, Spoken, InsulaInv, ToldInv, OnTheWay, Aborted
  <2>16. TailIsTold'
    BY <1>1, TailStays DEF InsulaInv, Tried, Spoken
  <2> QED
    BY <2>12, <2>13, <2>14, <2>15, <2>16 DEF InsulaInv
<1> QED
  BY <1>2, <1>3, <1>4

\* The batch fills from the queue, in order.
LEMMA FillKeeps == ASSUME InsulaInv, FillBatch PROVE InsulaInv'
<1> DEFINE room == BatchMax - Len(drain.batch)
           taken == IF Len(channel.queue) < room THEN Len(channel.queue) ELSE room
           first == SubSeq(channel.queue, 1, taken)
           rest == SubSeq(channel.queue, taken + 1, Len(channel.queue))
           batch == drain.batch \o first
<1>1. /\ UNCHANGED <<writer, thread, flush, ledger>> /\ drain.at = "fill"
      /\ drain' = [at |-> "ingest", batch |-> batch, size |-> Len(batch)]
      /\ channel' = [channel EXCEPT !.queue = rest]
  BY DEF FillBatch
<1>2. room \in Nat /\ Len(channel.queue) \in Nat
  <2>1. Len(channel.queue) \in Nat /\ Len(drain.batch) \in Nat
    BY InsulaHolds, LenProperties DEF InsulaInv, Rows
  <2>2. Len(drain.batch) <= 2
    BY <1>1 DEF Tried, Spoken, InsulaInv, CountInv
  <2>3. BatchMax \in Nat /\ BatchMax >= 2
    BY InsulaAssumption
  <2> QED
    BY <2>1, <2>2, <2>3
<1>3. taken \in 0..Len(channel.queue)
  BY <1>2
<1> HIDE DEF taken
<1>4. /\ first \in Rows /\ rest \in Rows
      /\ Queued = NumbersOf(first) \cup NumbersOf(rest)
      /\ Injective(first) /\ Injective(rest) /\ NumbersOf(first) \cap NumbersOf(rest) = {}
  BY <1>3, InsulaHolds, RowsParted DEF Tried, Spoken, InsulaInv, ApartInv, Queued
<1> HIDE DEF first, rest
<1>5. /\ batch \in Rows /\ Len(batch) \in Nat
      /\ NumbersOf(batch) = InHand \cup NumbersOf(first)
      /\ Telling \subseteq DropsOf(batch) /\ Injective(batch)
  <2>1. NumbersOf(first) \cap InHand = {}
    BY <1>4 DEF Tried, Spoken, InsulaInv, ApartInv
  <2>2. drain.batch \in Rows /\ Injective(drain.batch)
    BY InsulaHolds DEF Tried, Spoken, InsulaInv, ApartInv
  <2>3. /\ batch \in Rows /\ Len(batch) \in Nat
        /\ NumbersOf(batch) = NumbersOf(drain.batch) \cup NumbersOf(first)
        /\ DropsOf(batch) = DropsOf(drain.batch) \cup DropsOf(first)
        /\ Injective(batch)
    BY <1>4, <2>1, <2>2, RowsJoined DEF InHand
  <2> QED
    BY <2>3 DEF InHand, Telling
<1> HIDE DEF batch
<1>6. /\ drain' \in [at : {"receive", "swap", "fill", "ingest", "done", "aborted"},
                     batch : Rows, size : Nat]
      /\ drain'.at = "ingest" /\ drain'.batch = batch /\ drain'.size = Len(batch)
  BY <1>1, <1>5
<1>7. channel' \in [open : BOOLEAN, queue : Rows] /\ channel'.queue = rest
  BY <1>1, <1>4 DEF Tried, Spoken, Ledgers, InsulaInv, InsulaTypes
<1>8. /\ Queued' \cup InHand' = Queued \cup InHand /\ Queued' \cap InHand' = {}
      /\ Telling \subseteq Telling'
  <2>1. Queued \cap InHand = {}
    BY DEF Tried, Spoken, InsulaInv, ApartInv
  <2>2. Queued' = NumbersOf(rest) /\ InHand' = NumbersOf(batch) /\ Telling' = DropsOf(batch)
    BY <1>6, <1>7 DEF Queued, InHand, Telling
  <2> QED
    BY <1>4, <1>5, <2>1, <2>2
<1>9. InsulaTypes'
  BY <1>1, <1>6, <1>7 DEF Tried, Spoken, Ledgers, InsulaInv, InsulaTypes
<1>10. ApartInv'
  BY <1>1, <1>4, <1>5, <1>6, <1>7, <1>8 DEF Tried, Spoken, InsulaInv, ApartInv, Busy, Aborted, Numbers
<1>11. CountInv'
  <2>1. Cardinality(Tried) \in Nat /\ writer.settled <= Cardinality(Tried)
    BY <1>1, SetsAreFinite DEF Tried, Spoken, InsulaInv, CountInv
  <2> QED
    BY <1>1, <1>5, <1>6, <2>1, InsulaHolds DEF Tried, Spoken, InsulaInv, CountInv
<1>12. ToldInv'
  BY <1>1, <1>6, <1>8 DEF Tried, Spoken, InsulaInv, ToldInv, OnTheWay, Aborted
<1>13. TailIsTold'
  BY <1>1, TailStays DEF InsulaInv, Tried, Spoken
<1> QED
  BY <1>9, <1>10, <1>11, <1>12, <1>13 DEF InsulaInv

\* A row that is recorded, or forgotten, was tried.
LEMMA RowIsTried ==
  ASSUME InsulaTypes, NEW row \in Row, ledger' \in {Record(row), Forget(row)}
  PROVE  /\ ledger' \in Ledgers /\ ledger'.early = ledger.early
         /\ Tried' = Tried \cup {row.number} /\ Spoken' = Spoken \cup row.drops
<1>1. CASE ledger' = Record(row)
  BY <1>1 DEF Record, InsulaTypes, Ledgers, Row, Tried, Spoken
<1>2. CASE ledger' = Forget(row)
  BY <1>2 DEF Forget, InsulaTypes, Ledgers, Row, Tried, Spoken
<1> QED
  BY <1>1, <1>2

\* A group's ingest is tried that was not.
LEMMA IngestKeeps == ASSUME InsulaInv, IngestGroup PROVE InsulaInv'
<1> DEFINE head == Head(drain.batch)
           tail == Tail(drain.batch)
<1>1. /\ UNCHANGED <<writer, channel, thread, flush>> /\ drain.at = "ingest"
      /\ drain.batch # <<>> /\ drain.batch \in Rows
      /\ ledger' \in {Record(head), Forget(head)} /\ drain' = [drain EXCEPT !.batch = tail]
  BY InsulaHolds DEF IngestGroup, InsulaInv
<1>2. /\ head \in Row /\ tail \in Rows /\ InHand = NumbersOf(tail) \cup {head.number}
      /\ Len(tail) \in Nat /\ Len(drain.batch) = Len(tail) + 1
      /\ Telling = DropsOf(tail) \cup head.drops
      /\ Injective(tail) /\ head.number \notin NumbersOf(tail)
  BY <1>1, RowTaken DEF Tried, Spoken, InsulaInv, ApartInv, InHand, Telling
<1> HIDE DEF head, tail
<1>3. /\ ledger' \in Ledgers
      /\ Tried' = Tried \cup {head.number}
      /\ Spoken' = Spoken \cup head.drops /\ ledger'.early = ledger.early
  BY <1>1, <1>2, RowIsTried DEF InsulaInv
<1>4. /\ drain' \in [at : {"receive", "swap", "fill", "ingest", "done", "aborted"},
                     batch : Rows, size : Nat]
      /\ drain'.at = "ingest" /\ drain'.batch = tail /\ drain'.size = drain.size
  BY <1>1, <1>2 DEF Tried, Spoken, Ledgers, InsulaInv, InsulaTypes
<1>5. Queued' = Queued /\ InHand' = NumbersOf(tail) /\ Telling' = DropsOf(tail)
  BY <1>1, <1>4, RowsStay DEF InHand, Telling
<1>6. head.number \notin Tried /\ head.number \in Numbers /\ head.number \notin Queued
  BY <1>1, <1>2 DEF Tried, Spoken, InsulaInv, ApartInv, Aborted
<1>7. InsulaTypes'
  BY <1>1, <1>3, <1>4 DEF Tried, Spoken, Ledgers, InsulaInv, InsulaTypes
<1>8. ApartInv'
  <2>1. Numbers' = Numbers /\ \A t \in Threads : Busy(t)' = Busy(t)
    BY <1>1 DEF Numbers, Busy
  <2>2. /\ Queued' \cup InHand' \cup Tried' \cup ledger'.early \cup writer'.dropped
            = Queued \cup InHand \cup Tried \cup ledger.early \cup writer.dropped
        /\ Queued' \cup InHand' \cup Tried' \cup ledger'.early
            = Queued \cup InHand \cup Tried \cup ledger.early
    BY <1>1, <1>2, <1>3, <1>5
  <2>3. Injective(channel'.queue) /\ Injective(drain'.batch) /\ Queued' \cap InHand' = {}
    BY <1>1, <1>2, <1>4, <1>5 DEF Tried, Spoken, InsulaInv, ApartInv
  <2>4. (Queued' \cup InHand') \cap Tried' = {}
    BY <1>1, <1>2, <1>3, <1>5, <1>6 DEF Tried, Spoken, InsulaInv, ApartInv, Aborted
  <2> QED
    BY <1>1, <2>1, <2>2, <2>3, <2>4 DEF Tried, Spoken, InsulaInv, ApartInv
<1>9. CountInv'
  <2>1. /\ Cardinality(Tried) \in Nat
        /\ Cardinality(Tried') = Cardinality(Tried) + 1
    <3>1. IsFiniteSet(Tried)
      BY SetsAreFinite DEF InsulaInv
    <3> QED
      BY <1>3, <1>6, <3>1, FS_CardinalityType, FS_AddElement
  <2>2. /\ drain.size \in Nat /\ writer.settled \in Nat
        /\ Len(drain.batch) <= drain.size
        /\ writer.settled + drain.size <= Cardinality(Tried) + Len(drain.batch)
    BY <1>1, InsulaHolds DEF Tried, Spoken, InsulaInv, CountInv
  <2>3. /\ Len(tail) <= drain.size
        /\ writer.settled + drain.size <= Cardinality(Tried') + Len(tail)
    BY <1>2, <2>1, <2>2
  <2> QED
    BY <1>1, <1>4, <2>3 DEF Tried, Spoken, CountInv
<1>10. ToldInv'
  BY <1>1, <1>2, <1>3, <1>4, <1>5 DEF Tried, Spoken, InsulaInv, ToldInv, OnTheWay, Aborted
<1>11. TailIsTold'
  BY <1>1, <1>3, TailStays DEF InsulaInv, Tried, Spoken
<1> QED
  BY <1>7, <1>8, <1>9, <1>10, <1>11 DEF InsulaInv

\* A batch that is ingested is settled.
LEMMA SettleKeeps == ASSUME InsulaInv, Settle PROVE InsulaInv'
<1>1. /\ UNCHANGED <<channel, thread, flush, ledger>> /\ drain.at = "ingest"
      /\ drain.batch = <<>>
      /\ writer' = [writer EXCEPT !.settled = @ + drain.size]
      /\ drain' = [drain EXCEPT !.at = "receive", !.size = 0]
  BY DEF Settle
<1>2. /\ writer' \in [sequence : Nat, settled : Nat, dropped : SUBSET Nat, accepting : BOOLEAN]
      /\ writer'.sequence = writer.sequence /\ writer'.settled = writer.settled + drain.size
      /\ writer'.dropped = writer.dropped
  <2>1. writer.settled + drain.size \in Nat
    BY InsulaHolds DEF InsulaInv
  <2> QED
    BY <1>1, <2>1 DEF Tried, Spoken, Ledgers, InsulaInv, InsulaTypes
<1>3. /\ drain' \in [at : {"receive", "swap", "fill", "ingest", "done", "aborted"},
                     batch : Rows, size : Nat]
      /\ drain'.at = "receive" /\ drain'.batch = drain.batch
  BY <1>1 DEF Tried, Spoken, Ledgers, InsulaInv, InsulaTypes
<1>4. Queued' = Queued /\ InHand' = InHand /\ Telling' = Telling
  BY <1>1, <1>3, RowsStay
<1>5. InsulaTypes'
  BY <1>1, <1>2, <1>3 DEF Tried, Spoken, Ledgers, InsulaInv, InsulaTypes
<1>6. ApartInv'
  BY <1>1, <1>2, <1>3, <1>4 DEF Tried, Spoken, InsulaInv, ApartInv, Busy, Aborted, Numbers
<1>7. CountInv'
  <2>1. Len(drain.batch) = 0
    BY <1>1
  <2>2. /\ writer.settled + drain.size <= Cardinality(Tried) + Len(drain.batch)
        /\ Cardinality(Tried) \in Nat
    BY <1>1, SetsAreFinite DEF Tried, Spoken, InsulaInv, CountInv
  <2> QED
    BY <1>1, <1>2, <1>3, <2>1, <2>2 DEF Tried, Spoken, CountInv
<1>8. ToldInv'
  BY <1>1, <1>2, <1>3, <1>4 DEF Tried, Spoken, InsulaInv, ToldInv, OnTheWay, Aborted
<1>9. TailIsTold'
  BY <1>1, TailStays DEF InsulaInv, Tried, Spoken
<1> QED
  BY <1>5, <1>6, <1>7, <1>8, <1>9 DEF InsulaInv

\* The flush goes on to its next place and touches nothing of the drain.
LEMMA FlushKeeps ==
  ASSUME InsulaInv, CloseEmitter \/ SignalShutdown \/ HitCeiling PROVE InsulaInv'
<1>1. /\ UNCHANGED <<channel, thread, drain, ledger>>
      /\ writer'.sequence = writer.sequence /\ writer'.settled = writer.settled
      /\ writer'.dropped = writer.dropped
      /\ writer' \in [sequence : Nat, settled : Nat, dropped : SUBSET Nat, accepting : BOOLEAN]
  <2>1. CASE CloseEmitter
    <3> DEFINE no == FALSE
    <3>1. writer' = [writer EXCEPT !.accepting = no] /\ no \in BOOLEAN
      BY <2>1 DEF CloseEmitter
    <3> HIDE DEF no
    <3> QED
      BY <2>1, <3>1 DEF Tried, Spoken, Ledgers, CloseEmitter, InsulaInv, InsulaTypes
  <2>2. CASE SignalShutdown \/ HitCeiling
    BY <2>2 DEF Tried, Spoken, Ledgers, SignalShutdown, HitCeiling, InsulaInv, InsulaTypes
  <2> QED
    BY <2>1, <2>2
<1>2. /\ flush' \in [at : {"running", "closing", "waiting", "aborting", "exited"}, reported : Nat]
      /\ flush'.at \in {"closing", "waiting", "aborting"} /\ flush'.reported = flush.reported
      /\ flush.at # "exited" /\ (ShuttingDown => ShuttingDown')
  BY DEF Tried, Spoken, Ledgers, CloseEmitter, SignalShutdown, HitCeiling, ShuttingDown, InsulaInv, InsulaTypes
<1>3. Queued' = Queued /\ InHand' = InHand /\ Telling' = Telling
  BY <1>1, RowsStay
<1>4. InsulaTypes'
  BY <1>1, <1>2 DEF Tried, Spoken, Ledgers, InsulaInv, InsulaTypes
<1>5. ApartInv'
  BY <1>1, <1>3 DEF Tried, Spoken, InsulaInv, ApartInv, Busy, Aborted, Numbers
<1>6. CountInv'
  BY <1>1 DEF Tried, Spoken, InsulaInv, CountInv
<1>7. ToldInv'
  BY <1>1, <1>2, <1>3 DEF Tried, Spoken, Lost, InsulaInv, ToldInv, OnTheWay, Aborted, Untold
<1>8. TailIsTold'
  BY <1>2 DEF TailIsTold
<1> QED
  BY <1>4, <1>5, <1>6, <1>7, <1>8 DEF InsulaInv

\* A flush that saw the drain end has nothing to report; one that aborted it
\* reports no less than the numbers it never settled.
LEMMA ReportKeeps == ASSUME InsulaInv, DrainSettled \/ ReportTail PROVE InsulaInv'
<1>1. UNCHANGED <<writer, channel, thread, drain, ledger>> /\ flush'.at = "exited"
  BY DEF DrainSettled, ReportTail
<1>2. Queued' = Queued /\ InHand' = InHand /\ Telling' = Telling /\ Untold' = Untold
  BY <1>1, RowsStay DEF Tried, Spoken, Lost, Untold
<1>3. /\ flush' \in [at : {"running", "closing", "waiting", "aborting", "exited"}, reported : Nat]
      /\ Cardinality(Untold) <= flush'.reported
  <2>1. CASE DrainSettled
    <3>1. flush' = [at |-> "exited", reported |-> 0] /\ Untold = {}
      BY <2>1 DEF Tried, Spoken, DrainSettled, InsulaInv, ToldInv
    <3>2. Cardinality(Untold) = 0
      BY <3>1, FS_EmptySet
    <3> QED
      BY <3>1, <3>2
  <2>2. CASE ReportTail
    <3> DEFINE count == writer.sequence - writer.settled + Cardinality(writer.dropped)
    <3>1. flush' = [at |-> "exited", reported |-> count]
      BY <2>2 DEF ReportTail
    <3>2. /\ writer.settled <= Cardinality(Tried)
          /\ Cardinality(Tried) \in Nat /\ Cardinality(writer.dropped) \in Nat
          /\ Cardinality(Tried) <= writer.sequence
          /\ Cardinality(Numbers \ Tried)
                = writer.sequence - Cardinality(Tried)
      BY <2>2, SetsAreFinite DEF Tried, Spoken, ReportTail, InsulaInv, CountInv
    <3>3. Cardinality(Untold) <= Cardinality(Numbers \ Tried)
      <4>1. Untold \subseteq Numbers \ Tried
        BY DEF Tried, Spoken, Lost, Untold, InsulaInv, ApartInv
      <4>2. IsFiniteSet(Numbers \ Tried)
        BY InsulaHolds, FS_Difference DEF InsulaInv
      <4> QED
        BY <4>1, <4>2, FS_Subset
    <3>4. IsFiniteSet(Untold)
      <4>1. Untold \subseteq Numbers
        BY DEF Tried, Spoken, Lost, Untold, InsulaInv, ApartInv
      <4> QED
        BY <4>1, InsulaHolds, FS_Subset DEF InsulaInv
    <3>5. Cardinality(Untold) \in Nat
      BY <3>4, FS_CardinalityType
    <3>6. count \in Nat /\ Cardinality(Untold) <= count
      BY <3>2, <3>3, <3>5, InsulaHolds DEF InsulaInv
    <3> HIDE DEF count
    <3> QED
      BY <3>1, <3>6
  <2> QED
    BY <2>1, <2>2
<1>4. InsulaTypes'
  BY <1>1, <1>3 DEF Tried, Spoken, Ledgers, InsulaInv, InsulaTypes
<1>5. ApartInv'
  BY <1>1, <1>2 DEF Tried, Spoken, InsulaInv, ApartInv, Busy, Aborted, Numbers
<1>6. CountInv'
  BY <1>1 DEF Tried, Spoken, InsulaInv, CountInv
<1>7. ToldInv'
  BY <1>1, <1>2 DEF Tried, Spoken, InsulaInv, ToldInv, OnTheWay, Aborted, ShuttingDown
<1>8. TailIsTold'
  BY <1>2, <1>3 DEF TailIsTold
<1> QED
  BY <1>4, <1>5, <1>6, <1>7, <1>8 DEF InsulaInv

\* A drain that is aborted settles nothing more.
LEMMA AbortKeeps == ASSUME InsulaInv, Abort PROVE InsulaInv'
<1>1. /\ UNCHANGED <<writer, thread, flush>> /\ flush.at = "aborting"
      /\ drain' = [drain EXCEPT !.at = "aborted"]
      /\ channel' = [open |-> FALSE, queue |-> <<>>]
  BY DEF Abort
<1>2. /\ drain' \in [at : {"receive", "swap", "fill", "ingest", "done", "aborted"},
                     batch : Rows, size : Nat]
      /\ drain'.at = "aborted" /\ drain'.batch = drain.batch
  BY <1>1 DEF Tried, Spoken, Ledgers, InsulaInv, InsulaTypes
<1>3. channel' \in [open : BOOLEAN, queue : Rows] /\ channel'.queue = <<>>
  BY <1>1, ClosedIsAChannel
<1>4. Queued' = {} /\ InHand' = InHand /\ Telling' = Telling /\ Injective(channel'.queue)
  BY <1>2, <1>3, RowsStay DEF Queued, NumbersOf, Injective
<1>5. /\ ledger' \in Ledgers
      /\ Tried \subseteq Tried'
      /\ Tried' \subseteq Tried \cup InHand
      /\ Spoken \subseteq Spoken' /\ ledger'.early = ledger.early
  <2>1. CASE UNCHANGED ledger
    BY <2>1 DEF Tried, Spoken, Ledgers, InsulaInv, InsulaTypes
  <2>2. CASE drain.batch # <<>> /\ ledger' = Record(Head(drain.batch))
    <3> DEFINE head == Head(drain.batch)
    <3>1. head \in Row /\ head.number \in InHand
      BY <2>2, InsulaHolds, RowTaken DEF InsulaInv, InHand
    <3> HIDE DEF head
    <3>2. ledger' \in {Record(head), Forget(head)}
      BY <2>2 DEF head
    <3> QED
      BY <3>1, <3>2, RowIsTried DEF InsulaInv
  <2> QED
    BY <2>1, <2>2 DEF Abort
<1>6. InsulaTypes'
  BY <1>1, <1>2, <1>3, <1>5 DEF Tried, Spoken, Ledgers, InsulaInv, InsulaTypes
<1>7. ApartInv'
  BY <1>1, <1>2, <1>4, <1>5 DEF Tried, Spoken, InsulaInv, ApartInv, Busy, Aborted, Numbers
<1>8. CountInv'
  <2>1. /\ writer.settled \in Nat /\ Cardinality(Tried) \in Nat
        /\ drain.size \in Nat /\ Len(drain.batch) \in Nat
    BY InsulaHolds, SetsAreFinite, LenProperties DEF InsulaInv, Rows
  <2>2. writer.settled <= Cardinality(Tried)
    BY <2>1 DEF Tried, Spoken, InsulaInv, CountInv
  <2>3. IsFiniteSet(Tried')
    <3>1. Tried' \subseteq Numbers
      BY <1>5 DEF Tried, Spoken, InsulaInv, ApartInv
    <3> QED
      BY <3>1, InsulaHolds, FS_Subset DEF InsulaInv
  <2>4. Cardinality(Tried) <= Cardinality(Tried')
    BY <1>5, <2>3, FS_Subset
  <2>5. Cardinality(Tried') \in Nat
    BY <2>3, FS_CardinalityType
  <2> QED
    BY <1>1, <1>2, <2>1, <2>2, <2>4, <2>5 DEF Tried, Spoken, CountInv
<1>9. ToldInv'
  BY <1>2 DEF Tried, Spoken, ToldInv, Aborted
<1>10. TailIsTold'
  BY <1>1, <1>5, TailStays DEF InsulaInv, Tried, Spoken
<1> QED
  BY <1>6, <1>7, <1>8, <1>9, <1>10 DEF InsulaInv

\* Nothing is numbered at first.
LEMMA InsulaStarts == ASSUME InsulaInit PROVE InsulaInv
<1>1. InsulaTypes
  <2> DEFINE yes == TRUE
  <2>1. /\ writer = [sequence |-> 0, settled |-> 0, dropped |-> {}, accepting |-> yes]
        /\ channel = [open |-> yes, queue |-> <<>>] /\ yes \in BOOLEAN /\ <<>> \in Rows
    BY DEF InsulaInit, Rows
  <2> HIDE DEF yes
  <2>2. /\ writer \in [sequence : Nat, settled : Nat, dropped : SUBSET Nat, accepting : BOOLEAN]
        /\ channel \in [open : BOOLEAN, queue : Rows]
    BY <2>1
  <2> QED
    BY <2>1, <2>2 DEF Tried, Spoken, Ledgers, InsulaInit, InsulaTypes
<1>2. Queued = {} /\ InHand = {} /\ Injective(channel.queue) /\ Injective(drain.batch)
  <2>1. channel.queue = <<>> /\ drain.batch = <<>>
    BY DEF InsulaInit
  <2> QED
    BY <2>1 DEF Queued, InHand, NumbersOf, Injective
<1>3. ApartInv
  BY <1>2 DEF Tried, Spoken, InsulaInit, ApartInv, Busy, Aborted, Numbers
<1>4. CountInv
  <2>1. writer.settled = 0 /\ drain.at = "receive" /\ drain.batch = <<>> /\ Tried = {}
    BY DEF InsulaInit, Tried
  <2> QED
    BY <2>1, FS_EmptySet DEF Tried, Spoken, CountInv
<1>5. ToldInv /\ TailIsTold
  BY DEF Tried, Spoken, InsulaInit, ToldInv, Aborted, OnTheWay, TailIsTold
<1> QED
  BY <1>1, <1>3, <1>4, <1>5 DEF InsulaInv

\* Every step of the emitter keeps its invariant.
LEMMA InsulaSteps == ASSUME InsulaInv, [InsulaNext]_insulaVars PROVE InsulaInv'
<1>1. CASE UNCHANGED insulaVars
  BY <1>1 DEF Tried, Spoken, Lost, Ledgers, insulaVars, InsulaInv, InsulaTypes, ApartInv, CountInv, ToldInv, TailIsTold, Busy,
              Numbers, Queued, InHand, Telling, Aborted, OnTheWay, Untold, ShuttingDown
<1>2. CASE \E t \in Threads : TakeNumber(t) \/ LookAccepting(t) \/ TrySend(t) \/ NoteDrop(t)
  BY <1>2, TakeNumberKeeps, LookKeeps, TrySendKeeps, NoteDropKeeps
<1>3. CASE Receive \/ SwapDropped \/ FillBatch \/ IngestGroup \/ Settle
  BY <1>3, ReceiveKeeps, SwapKeeps, FillKeeps, IngestKeeps, SettleKeeps
<1>4. CASE CloseEmitter \/ SignalShutdown \/ DrainSettled \/ HitCeiling \/ Abort \/ ReportTail
  BY <1>4, FlushKeeps, ReportKeeps, AbortKeeps
<1> QED
  BY <1>1, <1>2, <1>3, <1>4 DEF InsulaNext

\* However the flush ends, what was enqueued or noted as dropped before it
\* began was ingested, told by a drop row that was, within the count it reports,
\* or in an ingest that failed, which insula_writer.rs:616 does not look at and
\* :597 counts as settled: nothing else is lost untold.
THEOREM TheTailIsTold == InsulaSpec => []TailIsTold
<1>1. InsulaInv => TailIsTold
  BY DEF InsulaInv
<1> QED
  BY <1>1, InsulaStarts, InsulaSteps, PTL DEF InsulaSpec
=============================================================================
