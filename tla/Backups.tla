-------------------------------- MODULE Backups --------------------------------
(***************************************************************************)
(* The database and its backups (akasha/src/backup.rs, migrations.rs): the   *)
(* commands of several processes dump the database, publish the dump under a *)
(* manifest and rotate what is old, while others migrate the schema and      *)
(* restore.  Nothing but the file system lies between two commands; each may *)
(* be killed between any two of its steps.                                   *)
(*                                                                           *)
(* The data of the database is left out: a dump is known by its id and the   *)
(* lineage of the schema it holds.                                           *)
(***************************************************************************)
EXTENDS Naturals, FiniteSets, Functions

CONSTANTS Commands,  \* processes that run a command
          Keeps,     \* what rooms and callers keep: backup_keep_count, --keep
          Lineages,  \* the newest lineage a binary knows
          Resting,
          MaxBackups \* bound: dumps taken

ASSUME BackupsAssumption == /\ Keeps # {} /\ Keeps \subseteq Nat \ {0}
                            /\ Lineages \in Nat \ {0} /\ MaxBackups \in Nat

VARIABLES schema,    \* lineage of the database's schema
          dumps,     \* dump files, by id: the lineage inside
          manifests, \* manifest files, by id: the lineage they name, and created_at
          command,   \* the commands under way
          taken,     \* dumps taken so far
          instant,   \* Utc::now()
          published  \* created_at of every backup that was ever published

filesVars == <<dumps, manifests, published>>
backupsVars == <<schema, filesVars, command, taken, instant>>

Doing(c, step) == command[c] # Resting /\ command[c].step = step
Ends(c) == command' = [command EXCEPT ![c] = Resting]
Goes(c, job) == command' = [command EXCEPT ![c] = job]

\* A command, and what it holds before it has dumped, stamped or listed.
Job == [step : {"dump", "stamp", "publish", "list", "rotate", "unlist", "restore"},
        keep : Keeps \cup {0}, source : 0..Lineages, id : 0..MaxBackups, born : Nat,
        doomed : SUBSET (1..MaxBackups)]
Begun(step, keep, source, id) ==
    [step |-> step, keep |-> keep, source |-> source, id |-> id, born |-> 0, doomed |-> {}]

\* A file is written under an id, over the one that was there.
WithFile(f, id, file) == [i \in DOMAIN f \cup {id} |-> IF i = id THEN file ELSE f[i]]
WithoutFile(f, id) == Restrict(f, DOMAIN f \ {id})

BackupsInit ==
    /\ schema \in 1..Lineages
    /\ dumps = [i \in {} |-> 0] /\ manifests = [i \in {} |-> 0] /\ published = [i \in {} |-> 0]
    /\ command = [c \in Commands |-> Resting]
    /\ taken = 0 /\ instant = 0

----------------------------------------------------------------------------
\* run_migrations: one transaction under a lock, which reads the lineage again
\* and refuses one its binary does not know.
Migrate(binary) ==
    /\ schema < binary
    /\ schema' = binary
    /\ UNCHANGED <<filesVars, command, taken, instant>>

\* source_migrations, and the lineages the binary knows.
BeginBackup(c) ==
    /\ command[c] = Resting
    /\ taken < MaxBackups
    /\ \E keep \in Keeps, binary \in 1..Lineages :
          /\ schema <= binary
          /\ Goes(c, Begun("dump", keep, schema, 0))
    /\ UNCHANGED <<schema, filesVars, taken, instant>>

\* pg_dump to a temporary file, the look at its contents, and the rename.
Dump(c) ==
    /\ Doing(c, "dump")
    /\ taken < MaxBackups
    /\ taken' = taken + 1
    /\ dumps' = WithFile(dumps, taken + 1, schema)
    /\ Goes(c, [command[c] EXCEPT !.step = "stamp", !.id = taken + 1])
    /\ UNCHANGED <<schema, manifests, published, instant>>

\* created_at, taken before the manifest is written and renamed.
Stamp(c) ==
    /\ Doing(c, "stamp")
    /\ instant' = instant + 1
    /\ Goes(c, [command[c] EXCEPT !.step = "publish", !.born = instant + 1])
    /\ UNCHANGED <<schema, filesVars, taken>>

Publish(c) ==
    /\ Doing(c, "publish")
    /\ LET job == command[c]
       IN  /\ manifests' = WithFile(manifests, job.id, [names |-> job.source, born |-> job.born])
           /\ published' = WithFile(published, job.id, job.born)
    /\ Goes(c, [command[c] EXCEPT !.step = "list"])
    /\ UNCHANGED <<schema, dumps, taken, instant>>

\* By created_at; no two backups are stamped in one instant.
Newer(a, b) == published[a] > published[b]
Ahead(listed, i) == Cardinality({j \in listed : Newer(j, i)})

\* Mutant: one fewer is kept.
Doomed_OffByOne(c) == {i \in DOMAIN manifests : Ahead(DOMAIN manifests, i) + 1 >= command[c].keep}

\* rotate: what the listing holds beyond the newest keep is doomed.
Doomed(c) == {i \in DOMAIN manifests : Ahead(DOMAIN manifests, i) >= command[c].keep}

\* The newest of them goes first.
NextDoomed(c) == CHOOSE i \in command[c].doomed : \A j \in command[c].doomed : ~Newer(j, i)

ListManifests(c) ==
    /\ Doing(c, "list")
    /\ Goes(c, [command[c] EXCEPT !.step = "rotate", !.doomed = Doomed(c)])
    /\ UNCHANGED <<schema, filesVars, taken, instant>>

\* The dump, if it exists.
RemoveDump(c) ==
    /\ Doing(c, "rotate") /\ command[c].doomed # {}
    /\ dumps' = WithoutFile(dumps, NextDoomed(c))
    /\ Goes(c, [command[c] EXCEPT !.step = "unlist"])
    /\ UNCHANGED <<schema, manifests, published, taken, instant>>

\* The manifest; one that another rotation removed is an error.
RemoveManifest(c) ==
    /\ Doing(c, "unlist")
    /\ LET i == NextDoomed(c)
       IN  IF i \in DOMAIN manifests
           THEN /\ manifests' = WithoutFile(manifests, i)
                /\ Goes(c, [command[c] EXCEPT !.step = "rotate", !.doomed = @ \ {i}])
           ELSE Ends(c) /\ UNCHANGED manifests
    /\ UNCHANGED <<schema, dumps, published, taken, instant>>

EndBackup(c) ==
    /\ Doing(c, "rotate") /\ command[c].doomed = {}
    /\ Ends(c)
    /\ UNCHANGED <<schema, filesVars, taken, instant>>

\* restore_checked: the manifest must name the lineage the database has, which
\* the binary must know.
BeginRestore(c) ==
    /\ command[c] = Resting
    /\ \E i \in DOMAIN manifests, binary \in 1..Lineages :
          /\ schema <= binary
          /\ manifests[i].names = schema
          /\ Goes(c, Begun("restore", 0, 0, i))
    /\ UNCHANGED <<schema, filesVars, taken, instant>>

\* pg_restore in one transaction, when the dump is there.
Restore(c) ==
    /\ Doing(c, "restore")
    /\ schema' = IF command[c].id \in DOMAIN dumps THEN dumps[command[c].id] ELSE schema
    /\ Ends(c)
    /\ UNCHANGED <<filesVars, taken, instant>>

\* A process killed, or a tool, a file or the database that fails it.
Fail(c) ==
    /\ command[c] # Resting
    /\ Ends(c)
    /\ UNCHANGED <<schema, filesVars, taken, instant>>

BackupsNext ==
    \/ \E binary \in 1..Lineages : Migrate(binary)
    \/ \E c \in Commands :
          \/ BeginBackup(c) \/ Dump(c) \/ Stamp(c) \/ Publish(c) \/ ListManifests(c)
          \/ RemoveDump(c) \/ RemoveManifest(c) \/ EndBackup(c)
          \/ BeginRestore(c) \/ Restore(c) \/ Fail(c)

BackupsSpec == BackupsInit /\ [][BackupsNext]_backupsVars

----------------------------------------------------------------------------
BackupsTypeOK ==
    /\ schema \in 1..Lineages
    /\ DOMAIN dumps \subseteq 1..taken /\ Range(dumps) \subseteq 1..Lineages
    /\ DOMAIN manifests \subseteq DOMAIN published /\ DOMAIN published \subseteq 1..taken
    /\ \A i \in DOMAIN manifests : /\ manifests[i].names \in 1..Lineages
                                   /\ manifests[i].born = published[i]
    /\ Range(published) \subseteq 1..instant
    /\ taken \in 0..MaxBackups /\ instant \in Nat
    /\ command \in [Commands -> Job \cup {Resting}]

\* Rotations that overlap, fail or are killed half way, each with a number of
\* its own to keep, leave the newest backups that were ever published, as many
\* as the least of these numbers, with their dumps and their manifests.
KeepsNewest ==
    \A i \in DOMAIN published :
       (\A keep \in Keeps : Ahead(DOMAIN published, i) < keep)
          => i \in DOMAIN dumps \cap DOMAIN manifests

\* A manifest names the lineage of the schema its dump holds, which is what
\* restore compares with the database.
ManifestNamesDump == \A i \in DOMAIN manifests \cap DOMAIN dumps : manifests[i].names = dumps[i]
=============================================================================
