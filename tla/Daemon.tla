------------------------------- MODULE Daemon -------------------------------
(***************************************************************************)
(* The life of barterd (barterd/barterd.cc): barterd.start, the pid file,  *)
(* the lock of the database directory (bom/db.cc), recovery and the root   *)
(* account, the accept loop, the shutdown command, barterd.stop, and       *)
(* crashes anywhere.                                                       *)
(*                                                                         *)
(* The pid file is tested and then written; the lock is the kernel's flock *)
(* and goes with its process.  Several daemons may be started at once.     *)
(***************************************************************************)
CONSTANTS
  Proc,   \* processes
  None

ASSUME NoneAssumption == None \notin Proc

VARIABLES
  phase,     \* how far each process has come, "off" without one
  pidfile,   \* the process that barterd.pid names, None without a file
  lock,      \* the process that holds the flock
  rootRow,   \* the database has the root account
  stopping,  \* barterd.stop has killed and will remove the pid file
  failed     \* processes that crashed, were killed or exited with an error

daemonVars == <<phase, pidfile, lock, rootRow, stopping, failed>>

Phase == {"off", "test", "create", "init", "root", "ready", "serve", "dying"}

(* The process opens and changes the database.                             *)
InDatabase(p) == phase[p] \in {"root", "ready", "serve", "dying"}

Go(p, ph) == phase' = [phase EXCEPT ![p] = ph]

(* The kernel takes back the lock of a process that ends.                  *)
Gone(p) ==
  /\ Go(p, "off")
  /\ lock' = IF lock = p THEN None ELSE lock

-----------------------------------------------------------------------------
Start(p) ==
  /\ phase[p] = "off"
  /\ Go(p, "test")
  /\ failed' = failed \ {p}
  /\ UNCHANGED <<pidfile, lock, rootRow, stopping>>

(* write_pid: first fopen(..., "r"), and exit(1) if that succeeds;         *)
TestPid(p) ==
  /\ phase[p] = "test"
  /\ \/ pidfile = None /\ Go(p, "create") /\ UNCHANGED failed
     \/ pidfile # None /\ Go(p, "off") /\ failed' = failed \cup {p}
  /\ UNCHANGED <<pidfile, lock, rootRow, stopping>>

(* then fopen(..., "w").                                                   *)
WritePid(p) ==
  /\ phase[p] = "create"
  /\ pidfile' = p
  /\ Go(p, "init")
  /\ UNCHANGED <<lock, rootRow, stopping, failed>>

(* Mutant: the lock is opened and not acquired.                            *)
db_initUnlocked(p) ==
  /\ phase[p] = "init"
  /\ Go(p, "root") /\ lock' = p
  /\ UNCHANGED <<pidfile, rootRow, stopping, failed>>

(* Without the lock, exit(1) leaves the pid file.                          *)
db_init(p) ==
  /\ phase[p] = "init"
  /\ \/ lock = None /\ Go(p, "root") /\ lock' = p /\ UNCHANGED failed
     \/ lock # None /\ Gone(p) /\ failed' = failed \cup {p}
  /\ UNCHANGED <<pidfile, rootRow, stopping>>

(* One transaction finds or creates root, tried again on EAGAIN.  On any   *)
(* other error the daemon exits.                                           *)
CreateRoot(p) ==
  /\ phase[p] = "root"
  /\ \/ Go(p, "ready") /\ rootRow' = TRUE /\ UNCHANGED <<lock, failed>>
     \/ Gone(p) /\ failed' = failed \cup {p} /\ UNCHANGED rootRow
  /\ UNCHANGED <<pidfile, stopping>>

(* The accept loop, a step of its own: until then no shell of this daemon  *)
(* runs, but one of another daemon would, did it have the database open.   *)
Accept(p) ==
  /\ phase[p] = "ready"
  /\ Go(p, "serve")
  /\ UNCHANGED <<pidfile, lock, rootRow, stopping, failed>>

(* acct_destroy of root, by a superuser connected to the daemon.           *)
RootDestroyed(p) ==
  /\ phase[p] = "serve" /\ rootRow
  /\ rootRow' = FALSE
  /\ UNCHANGED <<phase, pidfile, lock, stopping, failed>>

(* Mutant: death leaves the pid file.                                      *)
deathKeepsPid(p) ==
  /\ phase[p] = "serve"
  /\ Go(p, "dying")
  /\ UNCHANGED <<pidfile, lock, rootRow, stopping, failed>>

(* death, from the command shutdown: the pid file goes first, whatever it  *)
(* contains,                                                               *)
death(p) ==
  /\ phase[p] = "serve"
  /\ pidfile' = None
  /\ Go(p, "dying")
  /\ UNCHANGED <<lock, rootRow, stopping, failed>>

(* then db_exit closes the database and the lock, and the process ends.    *)
db_exit(p) ==
  /\ phase[p] = "dying"
  /\ Gone(p)
  /\ UNCHANGED <<pidfile, rootRow, stopping, failed>>

Crash(p) ==
  /\ phase[p] # "off"
  /\ Gone(p)
  /\ failed' = failed \cup {p}
  /\ UNCHANGED <<pidfile, rootRow, stopping>>

(* barterd.stop: kill `cat barterd.pid` (there is no handler for SIGTERM), *)
StopKill ==
  /\ ~stopping
  /\ stopping' = TRUE
  /\ IF pidfile # None /\ phase[pidfile] # "off"
       THEN Gone(pidfile) /\ failed' = failed \cup {pidfile}
       ELSE UNCHANGED <<phase, lock, failed>>
  /\ UNCHANGED <<pidfile, rootRow>>

(* then rm -f barterd.pid.                                                 *)
StopRemove ==
  /\ stopping
  /\ stopping' = FALSE
  /\ pidfile' = None
  /\ UNCHANGED <<phase, lock, rootRow, failed>>

-----------------------------------------------------------------------------
DaemonInit ==
  /\ phase = [p \in Proc |-> "off"]
  /\ pidfile = None /\ lock = None
  /\ rootRow = FALSE
  /\ stopping = FALSE /\ failed = {}

DaemonNext ==
  \/ \E p \in Proc :
       \/ Start(p) \/ TestPid(p) \/ WritePid(p) \/ db_init(p) \/ CreateRoot(p)
       \/ Accept(p) \/ RootDestroyed(p) \/ death(p) \/ db_exit(p) \/ Crash(p)
  \/ StopKill \/ StopRemove

DaemonSpec == DaemonInit /\ [][DaemonNext]_daemonVars

-----------------------------------------------------------------------------
(* Properties                                                              *)

(* At most one process has the database open, however many are started at  *)
(* once, pass the test of the pid file together, or have their pid file    *)
(* removed by a barterd.stop that came late.                               *)
OneServer == \A p, q \in Proc : InDatabase(p) /\ InDatabase(q) => p = q

(* When a daemon begins to accept connections the root account exists,     *)
(* whatever happened to earlier daemons while they created it, and although *)
(* root can be destroyed: between the transaction that finds or creates it *)
(* and the accept loop only a shell of another daemon could do that.       *)
RootBeforeClients ==
  [][\A p \in Proc : phase[p] # "serve" /\ phase'[p] = "serve" => rootRow']_daemonVars

(* write_pid refuses to start with "Already running or exited abnormally": *)
(* the pid file names a process that runs, or one that crashed, was killed *)
(* or gave up with an error, never one that was shut down.                 *)
PidFileExplained ==
  pidfile # None => phase[pidfile] \notin {"off", "dying"} \/ pidfile \in failed
=============================================================================
