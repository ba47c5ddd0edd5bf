------------------------------ MODULE Processes ------------------------------
(***************************************************************************)
(* The processes and threads of the daemon: the threads that must be ready *)
(* before subprocesses are spawned, the subprocesses and the signal that   *)
(* tells of their death (core/pctl.c), the main thread (core/swupdate.c)   *)
(* and a local installation (core/install_from_file.c) with the thread of  *)
(* the client library (ipc/network_ipc-if.c) that does it.                 *)
(***************************************************************************)
EXTENDS Naturals, FiniteSets

CONSTANTS
  N,           \* subprocesses
  Tries,       \* attempts to start a local installation: 3
  LockFirst,   \* the mutex is locked before the library is called
  Spurious     \* may pthread_cond_wait return without a signal?

ASSUME ProcessesAssumption == N \in Nat /\ Tries \in Nat \ {0}

Proc == 1..N

(* Who starts a thread *)
Thread == {"notifier", "network_initializer", "progress_bar", "network", "subprocess"}
StartedBy == [t \in Thread |-> CASE t = "network" -> "network_initializer"
                                 [] t = "subprocess" -> "network"
                                 [] OTHER -> "main"]

VARIABLES
  mpc,              \* the main thread
  opt_i,           \* an image was given on the command line
  threads,         \* new or ready
  threads_towait,
  nprocs,
  child,           \* the subprocesses
  status,          \* with which they exited
  kills,           \* subprocesses a SIGTERM was sent to
  sigchld,         \* "none", "pending" or "ignored"
  sigterm,         \* a SIGTERM to the daemon itself is pending
  canceled,        \* network_daemon
  exit_code,
  tries, mutex, running, created,
  async,           \* the thread of the library
  signaled,        \* cv_end, while main waits
  end_status, installed,
  noticed          \* subprocesses that died while they were in procs[]

start == <<threads, threads_towait>>
family == <<nprocs, child, status, kills, sigchld, noticed>>
signals == <<sigterm, canceled>>
local == <<tries, mutex, running, created, async, signaled, end_status, installed>>
pvars == <<mpc, opt_i, start, family, signals, exit_code, local>>

Code == {"EXIT_SUCCESS", "EXIT_FAILURE"}

PInit ==
  /\ mpc = "start" /\ opt_i \in BOOLEAN
  /\ threads = [t \in Thread |-> "none"] /\ threads_towait = 0
  /\ nprocs = 0
  /\ child = [i \in Proc |-> "none"] /\ status = [i \in Proc |-> "EXIT_SUCCESS"]
  /\ kills = {} /\ sigchld = "none" /\ noticed = {}
  /\ sigterm = FALSE /\ canceled = FALSE /\ exit_code = "EXIT_SUCCESS"
  /\ tries = 0 /\ mutex = "free" /\ running = "INIT" /\ created = FALSE
  /\ async = "none" /\ signaled = FALSE
  /\ end_status = "EXIT_SUCCESS" /\ installed = FALSE

Exited == mpc \in {"exit", "killed"}

-----------------------------------------------------------------------------
(* Threads *)

(* The counter is raised before the thread exists. *)
start_thread(t) ==
  /\ threads[t] = "none"
  /\ threads' = [threads EXCEPT ![t] = "new"]
  /\ threads_towait' = threads_towait + 1

(* notify_init, then network_initializer and progress_bar_thread *)
main_starts(t) ==
  /\ mpc = "start" /\ StartedBy[t] = "main"
  /\ t # "notifier" => threads["notifier"] # "none"
  /\ start_thread(t)
  /\ mpc' = IF \A u \in Thread : StartedBy[u] = "main" => threads'[u] # "none"
           THEN "wait_threads_ready" ELSE mpc
  /\ UNCHANGED <<opt_i, family, signals, exit_code, local>>

thread_starts(t) ==
  /\ ~Exited
  /\ StartedBy[t] \in Thread
  /\ threads[StartedBy[t]] = "new"
  /\ start_thread(t)
  /\ UNCHANGED <<mpc, opt_i, family, signals, exit_code, local>>

thread_ready_First(t) ==   \* mutant: ready before the threads it starts
  /\ ~Exited
  /\ threads[t] = "new"
  /\ threads' = [u \in Thread |-> IF u = t THEN "ready" ELSE threads[u]]
  /\ threads_towait' = threads_towait - 1
  /\ UNCHANGED <<mpc, opt_i, family, signals, exit_code, local>>

(* A thread says that it is ready after it started the ones it starts. *)
thread_ready(t) ==
  /\ ~Exited
  /\ threads[t] = "new"
  /\ \A u \in Thread : StartedBy[u] = t => threads[u] # "none"
  /\ threads' = [threads EXCEPT ![t] = "ready"]
  /\ threads_towait' = threads_towait - 1
  /\ UNCHANGED <<mpc, opt_i, family, signals, exit_code, local>>

wait_threads_ready ==
  /\ mpc = "wait_threads_ready"
  /\ threads_towait = 0
  /\ mpc' = "spawn"
  /\ UNCHANGED <<opt_i, start, family, signals, exit_code, local>>

-----------------------------------------------------------------------------
(* Subprocesses *)

(* spawn_process *)
fork ==
  /\ mpc = "spawn" /\ nprocs < N
  /\ child' = [child EXCEPT ![nprocs + 1] = "forked"]
  /\ mpc' = "forked"
  /\ UNCHANGED <<opt_i, start, nprocs, status, kills, sigchld, noticed, signals, exit_code, local>>

(* start_swupdate_subprocess: only now sigchld_handler looks at it. *)
register ==
  /\ mpc = "forked"
  /\ nprocs' = nprocs + 1
  /\ mpc' = "spawn"
  /\ UNCHANGED <<opt_i, start, child, status, kills, sigchld, noticed, signals, exit_code, local>>

(* The child asks for a signal when its parent dies. *)
prctl(i) ==
  /\ child[i] = "forked"
  /\ child' = [child EXCEPT ![i] = IF Exited THEN "orphan" ELSE "running"]
  /\ UNCHANGED <<mpc, opt_i, start, nprocs, status, kills, sigchld, noticed, signals, exit_code,
                 local>>

(* A subprocess ends by itself or by a signal.  An ignored SIGCHLD leaves no
   zombie. *)
Dies(i, s) ==
  /\ child' = [child EXCEPT ![i] = IF sigchld = "ignored" \/ Exited THEN "gone" ELSE "zombie"]
  /\ status' = [status EXCEPT ![i] = s]
  /\ sigchld' = IF sigchld = "ignored" THEN "ignored" ELSE "pending"
  /\ noticed' = IF i <= nprocs THEN noticed \cup {i} ELSE noticed
  /\ UNCHANGED <<mpc, opt_i, start, nprocs, kills, signals, exit_code, local>>

child_exits(i) ==
  /\ child[i] \in {"forked", "running"}
  /\ \E s \in Code : Dies(i, s)

(* SIGTERM, or SIGUSR1 when the daemon is gone (parent_dead_handler) *)
child_killed_Stays(i) ==   \* mutant: parent_dead_handler does not exit
  /\ child[i] = "running"
  /\ i \in kills
  /\ Dies(i, "EXIT_FAILURE")

child_killed(i) ==
  /\ child[i] = "running"
  /\ i \in kills \/ Exited
  /\ Dies(i, "EXIT_FAILURE")

sigchld_handler_Quiet ==   \* mutant: only the other subprocesses are told
  LET dead == {i \in 1..nprocs : child[i] = "zombie"} IN
  /\ ~Exited
  /\ sigchld = "pending"
  /\ IF dead = {}
     THEN sigchld' = "none" /\ UNCHANGED <<child, kills, exit_code, sigterm>>
     ELSE LET first == CHOOSE i \in dead : \A j \in dead : i <= j IN
          /\ child' = [child EXCEPT ![first] = "gone"]
          /\ exit_code' = status[first]
          /\ sigchld' = "ignored"
          /\ kills' = kills \cup (1..nprocs \ {first})
          /\ UNCHANGED sigterm
  /\ UNCHANGED <<mpc, opt_i, start, nprocs, status, noticed, canceled, local>>

(* sigchld_handler, in whatever thread the signal arrives: the first dead
   subprocess of procs[] brings the others and the daemon down. *)
sigchld_handler ==
  LET dead == {i \in 1..nprocs : child[i] = "zombie"} IN
  /\ ~Exited
  /\ sigchld = "pending"
  /\ IF dead = {}
     THEN sigchld' = "none" /\ UNCHANGED <<child, kills, exit_code, sigterm>>
     ELSE LET first == CHOOSE i \in dead : \A j \in dead : i <= j IN
          /\ child' = [child EXCEPT ![first] = "gone"]
          /\ exit_code' = status[first]
          /\ sigchld' = "ignored"
          /\ kills' = kills \cup (1..nprocs \ {first})
          /\ sigterm' = TRUE
  /\ UNCHANGED <<mpc, opt_i, start, nprocs, status, noticed, canceled, local>>

(* SIGTERM kills the daemon until sigterm_handler is installed; then it
   cancels the installer thread that main waits for. *)
sigterm_handler ==
  /\ ~Exited /\ sigterm
  /\ sigterm' = FALSE
  /\ IF mpc \in {"join", "return"} THEN canceled' = TRUE /\ UNCHANGED mpc
     ELSE mpc' = "killed" /\ UNCHANGED canceled
  /\ UNCHANGED <<opt_i, start, family, exit_code, local>>

-----------------------------------------------------------------------------
(* install_from_file and swupdate_async_start in the main thread *)

spawned ==
  /\ mpc = "spawn" /\ nprocs = N
  /\ \/ ~opt_i /\ mpc' = "sigaction" /\ UNCHANGED <<mutex, end_status>>
     \/ /\ opt_i /\ mpc' = "async_start"
        /\ mutex' = IF LockFirst THEN "main" ELSE "free"
        /\ UNCHANGED end_status
     \/ opt_i /\ mpc' = "result" /\ end_status' = "EXIT_FAILURE" /\ UNCHANGED mutex   \* no file
  /\ UNCHANGED <<opt_i, start, family, signals, exit_code, tries, running, created, async,
                 signaled, installed>>

swupdate_async_start_More ==   \* mutant: one attempt too many
  /\ mpc = "async_start"
  /\ \/ mpc' = "pthread_create" /\ UNCHANGED <<tries, end_status>>
     \/ /\ tries' = tries + 1
        /\ IF tries' <= Tries THEN UNCHANGED <<mpc, end_status>>
           ELSE mpc' = "result" /\ end_status' = "EXIT_FAILURE"
  /\ UNCHANGED <<opt_i, start, family, signals, exit_code, mutex, running, created, async,
                 signaled, installed>>

(* The request is refused while another installation runs. *)
swupdate_async_start ==
  /\ mpc = "async_start"
  /\ \/ mpc' = "pthread_create" /\ UNCHANGED <<tries, end_status>>
     \/ /\ tries' = tries + 1
        /\ IF tries' < Tries THEN UNCHANGED <<mpc, end_status>>
           ELSE mpc' = "result" /\ end_status' = "EXIT_FAILURE"
  /\ UNCHANGED <<opt_i, start, family, signals, exit_code, mutex, running, created, async,
                 signaled, installed>>

(* Without a thread the function returns 0, which the caller takes for a
   start. *)
start_ipc_thread ==
  /\ mpc = "pthread_create"
  /\ \/ mpc' = "running" /\ async' = "install" /\ created' = TRUE
     \/ mpc' = "lock" /\ UNCHANGED <<async, created>>
  /\ UNCHANGED <<opt_i, start, family, signals, exit_code, tries, mutex, running, signaled,
                 end_status, installed>>

set_running ==
  /\ mpc = "running"
  /\ running' = "RUNNING"
  /\ mpc' = "lock"
  /\ UNCHANGED <<opt_i, start, family, signals, exit_code, tries, mutex, created, async,
                 signaled, end_status, installed>>

(* The mutex is given up while main waits. *)
wait_cv_end ==
  /\ mpc = "lock"
  /\ mutex \in {"free", "main"}
  /\ mutex' = "free"
  /\ signaled' = FALSE
  /\ mpc' = "cond_wait"
  /\ UNCHANGED <<opt_i, start, family, signals, exit_code, tries, running, created, async,
                 end_status, installed>>

awake ==
  /\ mpc = "cond_wait"
  /\ signaled \/ Spurious
  /\ mutex = "free"
  /\ mpc' = "result"
  /\ UNCHANGED <<opt_i, start, family, signals, exit_code, local>>

install_from_file ==
  /\ mpc = "result"
  /\ mutex' = "free"
  /\ exit_code' = end_status
  /\ mpc' = "sigaction"
  /\ UNCHANGED <<opt_i, start, family, signals, tries, running, created, async, signaled,
                 end_status, installed>>

(* The supervisor loop *)
sigaction ==
  /\ mpc = "sigaction"
  /\ mpc' = IF opt_i THEN "return" ELSE "join"
  /\ UNCHANGED <<opt_i, start, family, signals, exit_code, local>>

main_returns ==
  /\ mpc = "return" \/ (mpc = "join" /\ canceled)
  /\ mpc' = "exit"
  /\ UNCHANGED <<opt_i, start, family, signals, exit_code, local>>

-----------------------------------------------------------------------------
(* swupdate_async_thread *)

(* The image is sent and the result awaited, see UpdateIpc. *)
swupdate_async_thread ==
  /\ ~Exited /\ async = "install"
  /\ installed' \in BOOLEAN
  /\ running' = "DONE"
  /\ async' = "endupdate"
  /\ UNCHANGED <<mpc, opt_i, start, family, signals, exit_code, tries, mutex, created, signaled,
                 end_status>>

endupdate_Optimist ==   \* mutant: end_status is left to its first value
  /\ ~Exited /\ async = "endupdate"
  /\ end_status' \in IF installed THEN Code ELSE {"EXIT_SUCCESS"}
  /\ async' = "lock"
  /\ UNCHANGED <<mpc, opt_i, start, family, signals, exit_code, tries, mutex, running, created,
                 signaled, installed>>

(* The post-update command may fail. *)
endupdate ==
  /\ ~Exited /\ async = "endupdate"
  /\ end_status' \in IF installed THEN Code ELSE {"EXIT_FAILURE"}
  /\ async' = "lock"
  /\ UNCHANGED <<mpc, opt_i, start, family, signals, exit_code, tries, mutex, running, created,
                 signaled, installed>>

end_signal_Unlocked ==   \* mutant: signals without the mutex
  /\ ~Exited /\ async = "lock"
  /\ signaled' = (mpc = "cond_wait")
  /\ async' = "exited"
  /\ UNCHANGED <<mpc, opt_i, start, family, signals, exit_code, tries, mutex, running, created,
                 end_status, installed>>

(* The signal reaches main only if it waits. *)
end_signal ==
  /\ ~Exited /\ async = "lock"
  /\ mutex = "free"
  /\ signaled' = (mpc = "cond_wait")
  /\ async' = "exited"
  /\ UNCHANGED <<mpc, opt_i, start, family, signals, exit_code, tries, mutex, running, created,
                 end_status, installed>>

-----------------------------------------------------------------------------
MainThread ==
  \/ \E t \in Thread : main_starts(t)
  \/ wait_threads_ready \/ fork \/ register \/ spawned
  \/ swupdate_async_start \/ start_ipc_thread \/ set_running \/ wait_cv_end \/ awake
  \/ install_from_file \/ sigaction \/ main_returns

Threads == \E t \in Thread : thread_starts(t) \/ thread_ready(t)
Async == swupdate_async_thread \/ endupdate \/ end_signal
Signals == sigchld_handler \/ sigterm_handler
Kernel == \E i \in Proc : prctl(i) \/ child_killed(i)

(* The daemon ends only with its subprocesses or after a local installation. *)
Stays == (Exited \/ mpc \in {"join", "cond_wait"}) /\ UNCHANGED pvars

PNext == MainThread \/ Threads \/ Async \/ Signals \/ Kernel \/ (\E i \in Proc : child_exits(i)) \/ Stays

PSpec == PInit /\ [][PNext]_pvars

(* Every thread runs, signals arrive; a subprocess need not end by itself. *)
PFairSpec ==
  /\ PSpec
  /\ WF_pvars(MainThread) /\ WF_pvars(Threads) /\ WF_pvars(Async) /\ WF_pvars(Signals) /\ WF_pvars(Kernel)

-----------------------------------------------------------------------------
(* Properties *)

(* Every variable has its type, and threads_towait counts the threads that are
   started and not ready. *)
PTypeOK ==
  /\ mpc \in {"start", "wait_threads_ready", "spawn", "forked", "async_start", "pthread_create",
             "running", "lock", "cond_wait", "result", "sigaction", "join", "return", "exit",
             "killed"}
  /\ opt_i \in BOOLEAN
  /\ threads \in [Thread -> {"none", "new", "ready"}]
  /\ threads_towait = Cardinality({t \in Thread : threads[t] = "new"})
  /\ nprocs \in 0..N
  /\ child \in [Proc -> {"none", "forked", "running", "orphan", "zombie", "gone"}]
  /\ status \in [Proc -> Code]
  /\ kills \subseteq Proc /\ noticed \subseteq Proc
  /\ sigchld \in {"none", "pending", "ignored"}
  /\ sigterm \in BOOLEAN /\ canceled \in BOOLEAN /\ exit_code \in Code
  /\ tries \in 0..Tries /\ mutex \in {"free", "main"} /\ running \in {"INIT", "RUNNING", "DONE"}
  /\ created \in BOOLEAN /\ async \in {"none", "install", "endupdate", "lock", "exited"}
  /\ signaled \in BOOLEAN /\ end_status \in Code /\ installed \in BOOLEAN

(* No subprocess exists before every thread of the daemon, the ones started by
   other threads included, has its socket (wait_threads_ready). *)
ReadyBeforeSpawn ==
  (\E i \in Proc : child[i] # "none") => \A t \in Thread : threads[t] = "ready"

(* swupdate -i returns success only if the image was installed, unless a
   subprocess died meanwhile, whose exit code then replaces the result. *)
LocalExit ==
  mpc = "exit" /\ opt_i /\ exit_code = "EXIT_SUCCESS" /\ sigchld # "ignored" => installed

(* A local installation that was started comes to an end: the thread of the
   library cannot signal it before the main thread waits, because
   install_from_file locks the mutex before it starts the thread. *)
LocalReturns == created ~> Exited

(* The death of a subprocess that is in procs[] ends the daemon, whatever it
   was doing and however many die at once. *)
Supervised == \A i \in Proc : i \in noticed ~> Exited

(* When the daemon is gone, so are the subprocesses, but one that had not yet
   asked for the signal. *)
NoOrphans == \A i \in Proc : Exited /\ child[i] = "running" ~> child[i] = "gone"

(* The daemon has no subprocess before it is ready, and its exit code is the
   one of the installation. *)
ProcessesRight == PTypeOK /\ ReadyBeforeSpawn /\ LocalExit

(* "if one of them dies, SWUpdate exits and sends a SIGTERM signal to all other
   subprocesses" (sigchld_handler) *)
DeathEndsSwupdate == \A i \in Proc : child[i] = "zombie" ~> Exited
=============================================================================
