------------------------------ MODULE AppLifespan ------------------------------
(***************************************************************************)
(* The life of the program's processes: main and the lifespan (app.py),    *)
(* the file that keeps a second instance out (infra/lock.py), the database *)
(* they open, create or migrate (infra/sqlite/init_db.py, migrations.py,   *)
(* connection.py), the supervisor of their threads                         *)
(* (infra/thread_supervisor.py), and the license that ends them            *)
(* (services/license_expiry.py over the shutdown cell and uvicorn).        *)
(*                                                                         *)
(* Processes share the lock file and the database.  A file is a name that  *)
(* points to an inode; flock locks the inode, and unlink takes the name    *)
(* away from it.  Any process may be killed between any two steps.         *)
(***************************************************************************)
EXTENDS Migrations

CONSTANTS Proc,         \* processes alive at once
          Inode,        \* inodes of the lock file; an unused one is reused
          Date,         \* dates of subscription an old database may hold
          None

ASSUME NoneAssumption == None \notin Proc \cup Inode
ASSUME DateAssumption == Date \subseteq [Macro -> Nat]

VARIABLES
  name,        \* the inode app.lock points to
  flock,       \* the process that holds each inode's lock
  db,          \* the database (see Migrations)
  dates,       \* history: the subscriptions' dates in the database that was found
  torn,        \* history: a process ended with the version stamped, not the tables
  stolen,      \* history: an unlink took away the name of the file another
               \* process had opened, and one of the processes is still there
  inst         \* every process

vars == <<name, flock, db, dates, torn, stolen, inst>>
fileVars == <<name, flock, stolen>>
dbVars == <<db, dates, torn>>

\* pc: where main and the lifespan stand; fd: the lock file's descriptor;
\* opening: a thread is between ConnectionProvider's check and its registry;
\* conn: a connection is open, "late" if since close_all; license: the license
\* thread; watchdog: its timer; triggered: _license_expiry_triggered.
Off == [pc |-> "off", fd |-> None, opening |-> FALSE, conn |-> "none",
        license |-> "none", watchdog |-> FALSE, triggered |-> FALSE]

Init ==
  /\ name = None /\ flock = [i \in Inode |-> None]
  /\ dates \in Date \cup {NoDates}
  /\ \/ dates = NoDates
        /\ db \in {Empty} \cup {[Empty EXCEPT !.version = v, !.objects = SchemaObjects] :
                                 v \in {0, LATEST_SCHEMA_VERSION + 1}}
     \/ \E v \in 1..LATEST_SCHEMA_VERSION, placed \in BOOLEAN :
          (v < 4 => dates = NoDates) /\ db = OldDatabase(v, placed, dates)
  /\ torn = FALSE /\ stolen = FALSE
  /\ inst = [p \in Proc |-> Off]

Goto(p, pc) == inst' = [inst EXCEPT ![p].pc = pc]

At(p, pc) == inst[p].pc = pc

-----------------------------------------------------------------------------
(* The lock file                                                           *)

Unused(i) == i # name /\ flock[i] = None /\ \A p \in Proc : inst[p].fd # i

\* main: a license key that is missing, invalid or over ends it with 1; else
\* the server runs the lifespan.
Main(p) ==
  /\ At(p, "off")
  /\ Goto(p, "main")
  /\ UNCHANGED <<fileVars, dbVars>>

\* acquire opens the file, O_CREAT ...
Open(p) ==
  /\ At(p, "main")
  /\ \E i \in Inode :
       /\ IF name = None THEN Unused(i) ELSE i = name
       /\ name' = i
       /\ inst' = [inst EXCEPT ![p].pc = "opened", ![p].fd = i]
  /\ UNCHANGED <<flock, stolen, dbVars>>

\* Mutant: the lock is taken whoever has it.
Flock_Always(p) ==
  /\ At(p, "opened")
  /\ flock' = [flock EXCEPT ![inst[p].fd] = p]
  /\ Goto(p, "locked")
  /\ UNCHANGED <<name, stolen, dbVars>>

\* ... and locks what it opened, or gives up: AlreadyRunningError.
Flock(p) ==
  /\ At(p, "opened")
  /\ IF flock[inst[p].fd] = None
     THEN flock' = [flock EXCEPT ![inst[p].fd] = p] /\ Goto(p, "locked")
     ELSE UNCHANGED flock /\ inst' = [inst EXCEPT ![p] = Off]
  /\ UNCHANGED <<name, stolen, dbVars>>

\* release: LOCK_UN and close ...
Unlock(p) ==
  /\ At(p, "unlock")
  /\ flock' = [i \in Inode |-> IF flock[i] = p THEN None ELSE flock[i]]
  /\ inst' = [inst EXCEPT ![p].pc = "unlink", ![p].fd = None]
  /\ UNCHANGED <<name, stolen, dbVars>>

\* ... then the name goes, whatever it points to by now.
Unlink(p) ==
  /\ At(p, "unlink")
  /\ name' = None
  /\ stolen' = (stolen \/ (name # None /\ \E q \in Proc \ {p} : inst[q].fd = name))
  /\ Goto(p, "exit")
  /\ UNCHANGED <<flock, dbVars>>

-----------------------------------------------------------------------------
(* Startup: the container opens the database, init_db brings it up to date *)

\* Mutant: a startup that fails is left where it is.
Abort_Stuck(p) == Goto(p, "failed")

\* What an error leads to while there is no container: the shutdown has nothing
\* to do but release the lock.  A connection that init_db opened stays open until
\* the process ends.
Abort(p) == Goto(p, "unlock")

\* Mutant: a newer database is taken for one that is up to date.
ReadVersion_Newer(p) ==
  /\ At(p, "locked")
  /\ inst' = [inst EXCEPT ![p].conn = "open",
       ![p].pc = IF db.version >= LATEST_SCHEMA_VERSION THEN "built"
                 ELSE IF db.version = 0 /\ db.objects = {} THEN "create"
                 ELSE "migrate"]
  /\ UNCHANGED <<fileVars, dbVars>>

\* PRAGMA user_version, outside of any transaction.
ReadVersion(p) ==
  /\ At(p, "locked")
  /\ inst' = [inst EXCEPT ![p].conn = "open",
       ![p].pc = IF db.version = LATEST_SCHEMA_VERSION THEN "built"
                 ELSE IF db.version > LATEST_SCHEMA_VERSION THEN "unlock"
                 ELSE IF db.version = 0 /\ db.objects = {} THEN "create"
                 ELSE "migrate"]
  /\ UNCHANGED <<fileVars, dbVars>>

\* executescript(schema_sql) commits every statement by itself, and the stamp of
\* the version comes before the tables.
StampVersion(p) ==
  /\ At(p, "create")
  /\ db' = Stamped(db)
  /\ Goto(p, "tables")
  /\ UNCHANGED <<fileVars, dates, torn>>

CreateTables(p) ==
  /\ At(p, "tables")
  /\ db' = Created(db)
  /\ Goto(p, "built")
  /\ UNCHANGED <<fileVars, dates, torn>>

\* run_pending: one transaction from the check of the version to its stamp.  It
\* finds the version moved (ConcurrentMigrationError) or no migration to start
\* from (a legacy 0: MigrationChainBroken) and rolls back.
Migrate(p) ==
  /\ At(p, "migrate")
  /\ IF HasChain(db)
     THEN db' = Migrated(db) /\ Goto(p, "built")
     ELSE UNCHANGED db /\ Abort(p)
  /\ UNCHANGED <<fileVars, dates, torn>>

\* Pools, supervisor, and the five threads; the license's runs its first check.
StartThreads(p) ==
  /\ At(p, "built")
  /\ inst' = [inst EXCEPT ![p].pc = "up", ![p].license = "check"]
  /\ UNCHANGED <<fileVars, dbVars>>

\* The schema, a migration or a repository raises.  Half the script may be
\* committed, the stamp first: the next start takes it for the whole.
StartFails(p) ==
  /\ inst[p].pc \in {"locked", "create", "tables", "migrate", "built"}
  /\ Abort(p)
  /\ torn' = (torn \/ At(p, "tables"))
  /\ UNCHANGED <<fileVars, db, dates>>

\* A pool or a thread cannot be started, or what follows raises: the container is
\* there, the license thread may be, and the whole shutdown runs.
ThreadsFail(p) ==
  /\ At(p, "built")
  /\ \E license \in {"none", "check"} :
       inst' = [inst EXCEPT ![p].pc = "stopping", ![p].license = license]
  /\ UNCHANGED <<fileVars, dbVars>>

-----------------------------------------------------------------------------
(* Threads and their connections                                           *)

Closed(p) == inst[p].pc \in {"unlock", "unlink", "exit", "flush"}

\* ConnectionProvider.get: _closed is looked at without the lock ...
GetConnection(p) ==
  /\ inst[p].pc \in {"up", "stopping", "pools", "closing"} /\ ~inst[p].opening
  /\ inst' = [inst EXCEPT ![p].opening = TRUE]
  /\ UNCHANGED <<fileVars, dbVars>>

\* ... and the connection is open, and registered, when close_all may be over.
OpenConnection(p) ==
  /\ inst[p].opening
  /\ inst' = [inst EXCEPT ![p].opening = FALSE,
                          ![p].conn = IF Closed(p) THEN "late" ELSE "open"]
  /\ UNCHANGED <<fileVars, dbVars>>

-----------------------------------------------------------------------------
(* The license                                                             *)

\* _check_once, at the start and every day: a key that is gone or invalid, a
\* license that is over and an error all are handled, once.
CheckLicense(p) ==
  /\ inst[p].license = "check"
  /\ \E valid \in BOOLEAN :
       inst' = [inst EXCEPT ![p].license = IF valid THEN "wait" ELSE "handle"]
  /\ UNCHANGED <<fileVars, dbVars>>

\* stop_event.wait until the next 00:01, or the stop.
WaitForCheck(p) ==
  /\ inst[p].license = "wait"
  /\ inst' = [inst EXCEPT ![p].license = IF At(p, "up") THEN "check" ELSE "done"]
  /\ UNCHANGED <<fileVars, dbVars>>

\* Mutant: the watchdog is not armed.
ArmWatchdog_Not(p) ==
  /\ inst[p].license = "handle"
  /\ inst' = [inst EXCEPT ![p].license = "armed"]
  /\ UNCHANGED <<fileVars, dbVars>>

\* The banner and the event come first; the timer's thread is no daemon.
ArmWatchdog(p) ==
  /\ inst[p].license = "handle"
  /\ inst' = [inst EXCEPT ![p].license = "armed", ![p].watchdog = TRUE]
  /\ UNCHANGED <<fileVars, dbVars>>

\* The banner, the clock or the timer's thread raises.  run_forever handles the
\* error as an expiry, which was handled: nothing ends the process any more.
ArmFails(p) ==
  /\ inst[p].license = "handle"
  /\ inst' = [inst EXCEPT ![p].license = "failed"]
  /\ UNCHANGED <<fileVars, dbVars>>

\* The bound cell hands the request to uvicorn: the flag, then should_exit
\* through the loop, which may be closed by now.
RequestShutdown(p) ==
  /\ inst[p].license = "armed"
  /\ inst' = [inst EXCEPT ![p].license = "done", ![p].triggered = TRUE]
  /\ UNCHANGED <<fileVars, dbVars>>

-----------------------------------------------------------------------------
(* Shutdown and the end of a process                                       *)

\* A signal or should_exit: uvicorn leaves, and the stop events are set.
Stop(p) ==
  /\ At(p, "up")
  /\ Goto(p, "stopping")
  /\ UNCHANGED <<fileVars, dbVars>>

\* supervisor.shutdown: all threads have joined, or 35 s are over and some have
\* not.
JoinThreads(p) ==
  /\ At(p, "stopping")
  /\ Goto(p, "pools")
  /\ UNCHANGED <<fileVars, dbVars>>

\* cancel_active_job (LoginService!CancelActiveJob); the pools are shut down, the
\* browser's within 5 s, the others without waiting.
ShutPools(p) ==
  /\ At(p, "pools")
  /\ Goto(p, "closing")
  /\ UNCHANGED <<fileVars, dbVars>>

\* Mutant: the connections are left to the end of the process.
CloseConnections_Not(p) ==
  /\ At(p, "closing")
  /\ Goto(p, "unlock")
  /\ UNCHANGED <<fileVars, dbVars>>

\* close_all, then the config's observer is stopped.
CloseConnections(p) ==
  /\ At(p, "closing")
  /\ inst' = [inst EXCEPT ![p].pc = "unlock", ![p].conn = "none"]
  /\ UNCHANGED <<fileVars, dbVars>>

\* What the kernel does when a process ends.
Vanish(p) ==
  /\ inst' = [inst EXCEPT ![p] = Off]
  /\ flock' = [i \in Inode |-> IF flock[i] = p THEN None ELSE flock[i]]
  /\ torn' = (torn \/ At(p, "tables"))
  /\ stolen' = (stolen /\ \E q \in Proc \ {p} : ~At(q, "off"))
  /\ UNCHANGED <<name, db, dates>>

\* The watchdog of a shutdown that a license asked for is cancelled ...
CancelWatchdog(p) ==
  /\ At(p, "exit")
  /\ inst' = [inst EXCEPT ![p].pc = "flush", ![p].watchdog = @ /\ ~inst[p].triggered]
  /\ UNCHANGED <<fileVars, dbVars>>

\* ... then logging is shut down, and os._exit(1) ends the process; without a
\* license's request the interpreter ends and takes the daemon threads along, once
\* the timer of a watchdog that nobody cancelled has fired.
Exit(p) ==
  /\ At(p, "flush")
  /\ inst[p].triggered \/ ~inst[p].watchdog
  /\ Vanish(p)

\* 45 s after it was armed the watchdog ends the process, where that still is.
WatchdogFires(p) ==
  /\ inst[p].watchdog
  /\ Vanish(p)

Crash(p) ==
  /\ ~At(p, "off")
  /\ Vanish(p)

ProcStep(p) ==
  \/ Main(p) \/ Open(p) \/ Flock(p) \/ Unlock(p) \/ Unlink(p)
  \/ ReadVersion(p) \/ StampVersion(p) \/ CreateTables(p) \/ Migrate(p)
  \/ StartThreads(p) \/ StartFails(p) \/ ThreadsFail(p)
  \/ GetConnection(p) \/ OpenConnection(p)
  \/ CheckLicense(p) \/ WaitForCheck(p) \/ ArmWatchdog(p) \/ ArmFails(p)
  \/ RequestShutdown(p)
  \/ Stop(p) \/ JoinThreads(p) \/ ShutPools(p) \/ CloseConnections(p)
  \/ CancelWatchdog(p) \/ Exit(p) \/ WatchdogFires(p) \/ Crash(p)

Next == \E p \in Proc : ProcStep(p)

\* The license thread is scheduled and the timer fires.  Nothing is assumed of
\* uvicorn or of the shutdown, which may hang.
Fairness ==
  \A p \in Proc : WF_vars(ArmWatchdog(p) \/ ArmFails(p)) /\ WF_vars(RequestShutdown(p))
                  /\ WF_vars(WatchdogFires(p))

Spec == Init /\ [][Next]_vars
FairSpec == Spec /\ Fairness
-----------------------------------------------------------------------------
(* Properties                                                              *)

ProcType ==
  [pc : {"off", "main", "opened", "locked", "create", "tables", "migrate", "built", "up",
         "stopping", "pools", "closing", "unlock", "unlink", "exit", "flush"},
   fd : Inode \cup {None}, opening : BOOLEAN, conn : {"none", "open", "late"},
   license : {"none", "check", "wait", "handle", "armed", "done", "failed"},
   watchdog : BOOLEAN, triggered : BOOLEAN]

\* The shapes of the state.
LifespanTypeOK ==
  /\ name \in Inode \cup {None} /\ flock \in [Inode -> Proc \cup {None}]
  /\ db \in [version : 0..(LATEST_SCHEMA_VERSION + 1),
              objects : SUBSET (SchemaObjects \cup {"starred"}), sent : BOOLEAN,
              region_id : [Title -> Macro \cup Subject \cup {NoRegion}],
              subs : [Macro \cup Subject -> Nat]]
  /\ dates \in [Macro -> Nat] /\ torn \in BOOLEAN /\ stolen \in BOOLEAN
  /\ inst \in [Proc -> ProcType]

\* Past acquire, and the lock not given back.
Running(p) == inst[p].pc \notin {"off", "main", "opened", "unlink", "exit", "flush"}

\* Two processes run on one data directory only after a release has unlinked a
\* file that another process had opened in between (lock.py, release).
OneInstance == \A p, q \in Proc : Running(p) /\ Running(q) /\ ~stolen => p = q

\* A process that has given its lock back holds no connection, unless its
\* startup failed or a thread got past ConnectionProvider's check before
\* close_all (app.py, "close_all connections - ONLY after phase 2").
ClosedBeforeRelease ==
  \A p \in Proc : inst[p].conn = "open" => Running(p) \/ inst[p].license = "none"

\* A process is up on the database its schema.sql describes, whatever the one it
\* found: the same objects, no old notification to be sent again, lots and
\* subscriptions under the subjects' own ids, and each subscription with the date
\* it had, the earliest where macro-regions share a subject (migrations_v*.py).
\* The one exception is a database with the stamp of the version and no tables,
\* when a process was killed or failed while it created them, or a second
\* instance is at it.
SchemaIsLatest ==
  \A p \in Proc : inst[p].pc \in {"built", "up"} =>
    \/ /\ db.version = LATEST_SCHEMA_VERSION
       /\ db.objects = SchemaObjects
       /\ db.sent
       /\ \A t \in Title : db.region_id[t] = SiteOf(t)
       /\ db.subs = OldDatabase(LATEST_SCHEMA_VERSION, TRUE, dates).subs
    \/ (torn \/ stolen) /\ db = Stamped(Empty)

\* A license that is over ends the process, even if uvicorn or a phase of the
\* shutdown hangs, or brings it to the flush of its logs, the lock given back and
\* the watchdog cancelled - unless the watchdog could not be armed
\* (license_expiry.py, _handle_expiry; app.py, "cancel watchdog BEFORE
\* logging.shutdown()").
ExpiryEnds ==
  \A p \in Proc :
    inst[p].license = "handle" ~> \/ inst[p].pc \in {"off", "flush"}
                                  \/ inst[p].license = "failed"
=============================================================================
