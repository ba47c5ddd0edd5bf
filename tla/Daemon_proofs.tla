---------------------------- MODULE Daemon_proofs ----------------------------
(***************************************************************************)
(* The daemon and its suricatta.  The daemon: its threads, subprocesses    *)
(* and signals, for any number of subprocesses.  Suricatta: its commands,  *)
(* for any number of clients: who gets which answer, and that a trigger is *)
(* never slept over.                                                       *)
(***************************************************************************)
EXTENDS Processes, Suricatta, SequenceTheorems, FiniteSetTheorems, WellFoundedInduction,
        NaturalsInduction, TLAPS

-----------------------------------------------------------------------------
(* Processes, threads and signals.                                         *)

(* No thread is ready before the ones it starts exist, and main goes on    *)
(* only when its own were started.                                         *)
Started ==
  /\ \A t \in Thread : StartedBy[t] \in Thread /\ threads[StartedBy[t]] = "ready" => threads[t] # "none"
  /\ mpc # "start" => \A t \in Thread : StartedBy[t] = "main" => threads[t] # "none"

(* Before main has waited for the threads there is nothing else; after it  *)
(* they are ready.                                                         *)
Spawning ==
  IF mpc \in {"start", "wait_threads_ready"}
  THEN /\ \A i \in Proc : child[i] = "none"
       /\ nprocs = 0 /\ sigchld = "none" /\ ~sigterm
  ELSE \A t \in Thread : threads[t] = "ready"

(* Where main may register a subprocess or ask for an installation again.  *)
Counting ==
  /\ mpc = "forked" => nprocs < N
  /\ mpc \in {"start", "wait_threads_ready", "spawn", "forked", "async_start"} => tries < Tries

(* The library's thread, and what main knows of it.                        *)
Early == {"start", "wait_threads_ready", "spawn", "forked", "async_start", "pthread_create"}
LocalResult ==
  /\ mpc \in Early => async = "none"
  /\ signaled => async = "exited"
  /\ async \in {"lock", "exited"} /\ end_status = "EXIT_SUCCESS" => installed
  /\ mpc = "result" => async \in {"none", "exited"} /\ (end_status = "EXIT_SUCCESS" => installed)
  /\ mpc \in {"sigaction", "return", "exit"} /\ opt_i =>
       async \in {"none", "exited"} /\ (exit_code = "EXIT_SUCCESS" /\ sigchld # "ignored" => installed)
  /\ mpc = "join" => ~opt_i

PInv == PTypeOK /\ Started /\ Spawning /\ Counting /\ LocalResult

-----------------------------------------------------------------------------
(* The threads started and not yet ready.                                  *)
NewThreads == {t \in Thread : threads[t] = "new"}

(* StartedBy, thread by thread.                                            *)
LEMMA Starters ==
  /\ StartedBy["notifier"] = "main" /\ StartedBy["network_initializer"] = "main"
  /\ StartedBy["progress_bar"] = "main"
  /\ StartedBy["network"] = "network_initializer" /\ StartedBy["subprocess"] = "network"
  BY DEF StartedBy, Thread

(* There are finitely many threads to wait for.                            *)
LEMMA NewFinite == IsFiniteSet(NewThreads)
<1>1. IsFiniteSet({"notifier"} \cup {"network_initializer"} \cup {"progress_bar"})
  BY FS_Singleton, FS_Union, Zenon
<1>2. IsFiniteSet({"network"} \cup {"subprocess"})
  BY FS_Singleton, FS_Union, Zenon
<1>3. Thread = ({"notifier"} \cup {"network_initializer"} \cup {"progress_bar"})
               \cup ({"network"} \cup {"subprocess"})
  BY DEF Thread
<1>4. IsFiniteSet(Thread)
  BY <1>1, <1>2, <1>3, FS_Union, Zenon
<1> QED
  BY <1>4, FS_Subset DEF NewThreads

(* start_thread counts the thread, and leaves the others as they are.      *)
LEMMA StartThread ==
  ASSUME PTypeOK, NEW t \in Thread, start_thread(t)
  PROVE  /\ threads' \in [Thread -> {"none", "new", "ready"}]
         /\ threads_towait' = Cardinality(NewThreads')
         /\ \A u \in Thread : threads[u] # "none" => threads'[u] = threads[u]
         /\ \A u \in Thread : threads'[u] = "ready" => threads[u] = "ready"
<1>1. NewThreads' = NewThreads \cup {t} /\ t \notin NewThreads
  BY DEF NewThreads, PTypeOK, start_thread
<1>2. Cardinality(NewThreads') = Cardinality(NewThreads) + 1
  BY <1>1, NewFinite, FS_AddElement, Zenon
<1> QED
  BY <1>2 DEF NewThreads, PTypeOK, start_thread

(* thread_ready uncounts it.                                               *)
LEMMA ThreadReady ==
  ASSUME PTypeOK, NEW t \in Thread, thread_ready(t)
  PROVE  /\ threads' \in [Thread -> {"none", "new", "ready"}]
         /\ threads_towait' = Cardinality(NewThreads')
<1>1. NewThreads' = NewThreads \ {t} /\ t \in NewThreads
  BY DEF NewThreads, PTypeOK, thread_ready
<1>2. Cardinality(NewThreads') = Cardinality(NewThreads) - 1
  BY <1>1, NewFinite, FS_RemoveElement, Zenon
<1> QED
  BY <1>2 DEF NewThreads, PTypeOK, thread_ready

(* When main has started its threads and none is counted, all are ready:   *)
(* a ready thread has started the ones it starts.                          *)
LEMMA NoneToWait ==
  ASSUME PInv, mpc # "start", threads_towait = 0
  PROVE  \A t \in Thread : threads[t] = "ready"
<1>1. NewThreads = {}
  BY NewFinite, FS_EmptySet, Zenon DEF PInv, PTypeOK, NewThreads
<1>2. \A t \in Thread : threads[t] # "none" => threads[t] = "ready"
  BY <1>1 DEF NewThreads, PInv, PTypeOK
<1>3. /\ threads["notifier"] = "ready" /\ threads["network_initializer"] = "ready"
      /\ threads["progress_bar"] = "ready"
  BY <1>2, Starters DEF PInv, Started, Thread
<1>4. threads["network"] = "ready"
  BY <1>2, <1>3, Starters DEF PInv, Started, Thread
<1>5. threads["subprocess"] = "ready"
  BY <1>2, <1>4, Starters DEF PInv, Started, Thread
<1> QED
  BY <1>3, <1>4, <1>5 DEF Thread

(* The first dead subprocess that sigchld_handler finds is one.            *)
LEMMA FirstDead ==
  ASSUME NEW S \in SUBSET Nat, S # {}
  PROVE  (CHOOSE i \in S : \A j \in S : i <= j) \in S
<1> DEFINE R == {p \in Nat \X Nat : p[1] < p[2]}
<1>1. IsWellFoundedOn(R, Nat)
  BY NatLessThanWellFounded, Zenon DEF OpToRel
<1>2. PICK x \in S : \A y \in S : ~(<<y, x>> \in R)
  <2> HIDE DEF R
  <2> QED
    BY <1>1, WFMin, Zenon
<1>3. ASSUME NEW y \in S PROVE x <= y
  <2>1. ~(<<y, x>> \in R)
    BY <1>2
  <2>2. ~(y < x)
    BY <2>1
  <2> QED
    BY <2>2
<1> QED
  BY <1>3, Zenon

(* The initial state.                                                      *)
LEMMA PInitial == PInit => PInv
<1> SUFFICES ASSUME PInit PROVE PInv
  OBVIOUS
<1>1. {t \in Thread : threads[t] = "new"} = {}
  BY DEF PInit
<1>2. threads_towait = Cardinality({t \in Thread : threads[t] = "new"})
  BY <1>1, FS_EmptySet DEF PInit
<1>3. sigterm \in BOOLEAN /\ canceled \in BOOLEAN /\ created \in BOOLEAN /\ signaled \in BOOLEAN
      /\ installed \in BOOLEAN /\ opt_i \in BOOLEAN
  BY Zenon DEF PInit
<1>4. 0 \in 0..N /\ 0 \in 0..Tries
  BY ProcessesAssumption
<1>5. PTypeOK
  BY <1>2, <1>3, <1>4 DEF PInit, PTypeOK, Code
<1> QED
  BY <1>5, Starters, ProcessesAssumption
     DEF PInit, PInv, Started, Spawning, Counting, LocalResult, Early, Thread

(* A step that starts no thread and makes none ready keeps what is said of *)
(* the threads, once main does not go back to starting them.               *)
LEMMA SameThreads ==
  ASSUME PInv, UNCHANGED start, mpc' = "start" => mpc = "start",
         mpc = "start" => mpc' = "start"
  PROVE  /\ threads' \in [Thread -> {"none", "new", "ready"}]
         /\ threads_towait' = Cardinality({t \in Thread : threads'[t] = "new"})
         /\ Started'
  BY DEF PInv, PTypeOK, Started, start

-----------------------------------------------------------------------------
(* The main thread *)
LEMMA MainStep ==
  ASSUME PInv, Spurious = FALSE, MainThread PROVE PInv'
<1> USE DEF PInv
<1>1. ASSUME NEW t \in Thread, main_starts(t) PROVE PInv'
  <2>1. start_thread(t) /\ mpc = "start" /\ mpc' \in {"start", "wait_threads_ready"}
    BY <1>1 DEF main_starts
  <2>2. PTypeOK'
    BY <1>1, <2>1, StartThread
       DEF main_starts, NewThreads, PTypeOK, family, signals, local
  <2>3. Started'
    <3>1. ASSUME NEW u \in Thread, StartedBy[u] \in Thread, threads'[StartedBy[u]] = "ready"
          PROVE  threads'[u] # "none"
      BY <2>1, <3>1, StartThread DEF Started
    <3>2. mpc' # "start" => \A u \in Thread : StartedBy[u] = "main" => threads'[u] # "none"
      BY <1>1, <2>1 DEF main_starts
    <3> QED
      BY <3>1, <3>2 DEF Started
  <2> QED
    BY <1>1, <2>1, <2>2, <2>3
       DEF main_starts, Spawning, Counting, LocalResult, Early, family, signals, local
<1>2. CASE wait_threads_ready
  <2>1. \A t \in Thread : threads[t] = "ready"
    BY <1>2, NoneToWait DEF wait_threads_ready
  <2> QED
    BY <1>2, <2>1, SameThreads
       DEF wait_threads_ready, PTypeOK, Spawning, Counting, LocalResult, Early,
           start, family, signals, local
<1>3. CASE fork
  BY <1>3, SameThreads, ProcessesAssumption
     DEF fork, Proc, PTypeOK, Spawning, Counting, LocalResult, Early,
         start, family, signals, local, Code
<1>4. CASE register
  BY <1>4, SameThreads, ProcessesAssumption
     DEF register, PTypeOK, Spawning, Counting, LocalResult, Early,
         start, family, signals, local, Code
<1>5. CASE spawned
  BY <1>5, SameThreads, ProcessesAssumption
     DEF spawned, PTypeOK, Spawning, Counting, LocalResult, Early,
         start, family, signals, local, Code
<1>6. CASE swupdate_async_start
  BY <1>6, SameThreads, ProcessesAssumption
     DEF swupdate_async_start, PTypeOK, Spawning, Counting, LocalResult, Early,
         start, family, signals, local, Code
<1>7. CASE start_ipc_thread
  <2>1. created' \in BOOLEAN
    BY <1>7, Zenon DEF start_ipc_thread, PTypeOK
  <2>2. PTypeOK'
    BY <1>7, <2>1, SameThreads DEF start_ipc_thread, PTypeOK, start, family, signals, local
  <2> QED
    BY <1>7, <2>2, SameThreads
       DEF start_ipc_thread, Spawning, Counting, LocalResult, Early, start, family, signals, local
<1>8. CASE set_running
  BY <1>8, SameThreads, ProcessesAssumption
     DEF set_running, PTypeOK, Spawning, Counting, LocalResult, Early,
         start, family, signals, local, Code
<1>9. CASE wait_cv_end
  <2>1. signaled' \in BOOLEAN
    BY <1>9, Zenon DEF wait_cv_end, PTypeOK
  <2>2. PTypeOK'
    BY <1>9, <2>1, SameThreads DEF wait_cv_end, PTypeOK, start, family, signals, local
  <2> QED
    BY <1>9, <2>2, SameThreads
       DEF wait_cv_end, Spawning, Counting, LocalResult, Early, start, family, signals, local
<1>10. CASE awake
  BY <1>10, SameThreads, ProcessesAssumption
     DEF awake, PTypeOK, Spawning, Counting, LocalResult, Early,
         start, family, signals, local, Code
<1>11. CASE install_from_file
  BY <1>11, SameThreads, ProcessesAssumption
     DEF install_from_file, PTypeOK, Spawning, Counting, LocalResult, Early,
         start, family, signals, local, Code
<1>12. CASE sigaction
  BY <1>12, SameThreads, ProcessesAssumption
     DEF sigaction, PTypeOK, Spawning, Counting, LocalResult, Early,
         start, family, signals, local, Code
<1>13. CASE main_returns
  BY <1>13, SameThreads, ProcessesAssumption
     DEF main_returns, PTypeOK, Spawning, Counting, LocalResult, Early,
         start, family, signals, local, Code
<1> QED
  BY <1>1, <1>2, <1>3, <1>4, <1>5, <1>6, <1>7, <1>8, <1>9, <1>10, <1>11, <1>12, <1>13 DEF MainThread

-----------------------------------------------------------------------------
(* The threads of the daemon *)
LEMMA ThreadStep ==
  ASSUME PInv, Threads PROVE PInv'
<1> USE DEF PInv
<1>1. ASSUME NEW t \in Thread, thread_starts(t) PROVE PInv'
  <2>1. start_thread(t) /\ threads[StartedBy[t]] = "new" /\ threads[t] = "none"
    BY <1>1 DEF thread_starts, start_thread
  <2>2. PTypeOK'
    BY <1>1, <2>1, StartThread DEF thread_starts, NewThreads, PTypeOK, family, signals, local
  <2>3. Started'
    <3>1. ASSUME NEW u \in Thread, threads[u] # "none" PROVE threads'[u] # "none"
      BY <2>1, <3>1, StartThread
    <3>2. ASSUME NEW u \in Thread, threads'[u] = "ready" PROVE threads[u] = "ready"
      BY <2>1, <3>2, StartThread
    <3> QED
      BY <1>1, <3>1, <3>2 DEF Started, thread_starts
  <2>4. mpc \in {"start", "wait_threads_ready"}
    BY <2>1 DEF Spawning
  <2> QED
    BY <1>1, <2>2, <2>3, <2>4
       DEF thread_starts, Spawning, Counting, LocalResult, Early, family, signals, local
<1>2. ASSUME NEW t \in Thread, thread_ready(t) PROVE PInv'
  <2>1. PTypeOK'
    <3>1. /\ threads' \in [Thread -> {"none", "new", "ready"}]
          /\ threads_towait' = Cardinality({u \in Thread : threads'[u] = "new"})
      BY <1>2, ThreadReady DEF NewThreads
    <3>2. UNCHANGED <<mpc, opt_i, family, signals, exit_code, local>>
      BY <1>2 DEF thread_ready
    <3> QED
      BY <3>1, <3>2 DEF PTypeOK, family, signals, local
  <2>2. threads' = [threads EXCEPT ![t] = "ready"] /\ threads[t] = "new"
    BY <1>2 DEF thread_ready
  <2>3. Started'
    <3>1. \A u \in Thread : threads'[u] = IF u = t THEN "ready" ELSE threads[u]
      BY <2>2 DEF PTypeOK
    <3>2. ASSUME NEW u \in Thread, threads[u] # "none" PROVE threads'[u] # "none"
      BY <3>1, <3>2
    <3>3. ASSUME NEW u \in Thread, StartedBy[u] \in Thread, threads'[StartedBy[u]] = "ready"
          PROVE  threads'[u] # "none"
      <4>1. CASE StartedBy[u] = t
        BY <1>2, <3>2, <4>1 DEF thread_ready
      <4>2. CASE StartedBy[u] # t
        BY <3>1, <3>2, <3>3, <4>2 DEF Started
      <4> QED
        BY <4>1, <4>2
    <3>4. mpc' = mpc
      BY <1>2 DEF thread_ready
    <3> QED
      BY <3>2, <3>3, <3>4 DEF Started
  <2>4. mpc \in {"start", "wait_threads_ready"}
    BY <2>2 DEF Spawning
  <2> QED
    BY <1>2, <2>1, <2>3, <2>4
       DEF thread_ready, Spawning, Counting, LocalResult, Early, family, signals, local
<1> QED
  BY <1>1, <1>2 DEF Threads

-----------------------------------------------------------------------------
(* The subprocesses *)
LEMMA DiesStep ==
  ASSUME PInv, NEW i \in Proc, child[i] # "none", NEW s \in Code, Dies(i, s) PROVE PInv'
<1> USE DEF PInv
<1>1. PTypeOK'
  BY SameThreads DEF Dies, PTypeOK, start, signals, local
<1>2. mpc \notin {"start", "wait_threads_ready"}
  BY DEF Spawning
<1> QED
  BY <1>1, <1>2, SameThreads
     DEF Dies, Spawning, Counting, LocalResult, Early, start, signals, local

LEMMA ChildStep ==
  ASSUME PInv, NEW i \in Proc, prctl(i) \/ child_killed(i) \/ child_exits(i) PROVE PInv'
<1> USE DEF PInv
<1>1. CASE prctl(i)
  <2>1. PTypeOK'
    BY <1>1, SameThreads DEF prctl, PTypeOK, start, signals, local
  <2>2. mpc \notin {"start", "wait_threads_ready"}
    BY <1>1 DEF prctl, Spawning
  <2> QED
    BY <1>1, <2>1, <2>2, SameThreads
       DEF prctl, Spawning, Counting, LocalResult, Early, start, signals, local
<1>2. CASE child_killed(i)
  BY <1>2, DiesStep DEF child_killed, Code
<1>3. CASE child_exits(i)
  BY <1>3, DiesStep DEF child_exits
<1> QED
  BY <1>1, <1>2, <1>3

-----------------------------------------------------------------------------
(* The signals.  sigchld_handler runs only after a subprocess died, and so *)
(* after main went on; its exit code is one that a subprocess left.        *)
LEMMA SignalStep ==
  ASSUME PInv, Signals PROVE PInv'
<1> USE DEF PInv
<1>1. CASE sigchld_handler
  <2> DEFINE dead == {i \in 1..nprocs : child[i] = "zombie"}
             first == CHOOSE i \in dead : \A j \in dead : i <= j
  <2>0. mpc \notin {"start", "wait_threads_ready"} /\ mpc' = mpc /\ UNCHANGED start
    BY <1>1 DEF sigchld_handler, Spawning, start
  <2>1. CASE dead = {}
    <3>1. PTypeOK'
      BY <1>1, <2>0, <2>1, SameThreads DEF sigchld_handler, PTypeOK, start, local
    <3> QED
      BY <1>1, <2>0, <2>1, <3>1, SameThreads
         DEF sigchld_handler, Spawning, Counting, LocalResult, Early, start, local
  <2>2. CASE dead # {}
    <3>1. dead \subseteq Nat /\ dead \subseteq Proc /\ 1..nprocs \subseteq Proc
      BY ProcessesAssumption DEF PTypeOK, Proc
    <3>2. first \in dead
      <4> HIDE DEF dead
      <4> QED
        BY <2>2, <3>1, FirstDead
    <3>3. /\ child' = [child EXCEPT ![first] = "gone"] /\ exit_code' = status[first]
          /\ sigchld' = "ignored" /\ kills' = kills \cup (1..nprocs \ {first}) /\ sigterm' = TRUE
          /\ UNCHANGED <<opt_i, nprocs, status, noticed, canceled, local>>
      BY <1>1, <2>2, Zenon DEF sigchld_handler
    <3> HIDE DEF dead, first
    <3>4. first \in Proc
      BY <3>1, <3>2
    <3>5. sigterm' \in BOOLEAN
      BY <3>3, Zenon
    <3>6. PTypeOK'
      BY <2>0, <3>1, <3>3, <3>4, <3>5, SameThreads DEF PTypeOK, local
    <3> QED
      BY <2>0, <3>3, <3>6, SameThreads DEF Spawning, Counting, LocalResult, Early, start, local
  <2> QED
    BY <2>1, <2>2
<1>2. CASE sigterm_handler
  <2>0. mpc \notin {"start", "wait_threads_ready"}
    BY <1>2 DEF sigterm_handler, Spawning
  <2>1. sigterm' \in BOOLEAN /\ canceled' \in BOOLEAN
    BY <1>2, Zenon DEF sigterm_handler, PTypeOK
  <2>2. PTypeOK'
    BY <1>2, <2>0, <2>1, SameThreads DEF sigterm_handler, PTypeOK, start, family, local
  <2> QED
    BY <1>2, <2>0, <2>2, SameThreads
       DEF sigterm_handler, Spawning, Counting, LocalResult, Early, start, family, local
<1> QED
  BY <1>1, <1>2 DEF Signals

-----------------------------------------------------------------------------
(* The thread of the client library.  While it works main is between       *)
(* pthread_create and cond_wait: it has no result to return yet.           *)
LEMMA AsyncStep ==
  ASSUME PInv, Async PROVE PInv'
<1> USE DEF PInv
<1>1. CASE swupdate_async_thread
  BY <1>1, SameThreads
     DEF swupdate_async_thread, PTypeOK, Spawning, Counting, LocalResult, Early, Exited,
         start, family, signals, local
<1>2. CASE endupdate
  BY <1>2, SameThreads
     DEF endupdate, PTypeOK, Spawning, Counting, LocalResult, Early, Exited, Code,
         start, family, signals, local
<1>3. CASE end_signal
  <2>1. signaled' \in BOOLEAN
    BY <1>3, Zenon DEF end_signal
  <2>2. PTypeOK'
    BY <1>3, <2>1, SameThreads DEF end_signal, PTypeOK, start, family, signals, local
  <2> QED
    BY <1>3, <2>2, SameThreads
       DEF end_signal, Spawning, Counting, LocalResult, Early, Exited, start, family, signals, local
<1> QED
  BY <1>1, <1>2, <1>3 DEF Async

-----------------------------------------------------------------------------
(* No subprocess is spawned before every thread of the daemon has its      *)
(* socket (wait_threads_ready), and "swupdate -i" returns success only if  *)
(* the image was installed (install_from_file), however many subprocesses  *)
(* there are, in whatever order they die, the threads run and the signals  *)
(* arrive, and whether or not the mutex is locked first; if                *)
(* pthread_cond_wait returns only when it was signaled.                    *)
THEOREM ProcessesCorrect ==
  ASSUME Spurious = FALSE
  PROVE  PSpec => []ProcessesRight
<1>1. PInv /\ [PNext]_pvars => PInv'
  <2> SUFFICES ASSUME PInv, [PNext]_pvars PROVE PInv'
    OBVIOUS
  <2>1. CASE UNCHANGED pvars
    <3>1. PTypeOK'
      BY <2>1, SameThreads DEF pvars, PInv, PTypeOK, start, family, signals, local
    <3>2. Started'
      BY <2>1, SameThreads DEF pvars
    <3>3. Spawning' /\ Counting' /\ LocalResult'
      BY <2>1
         DEF pvars, PInv, Spawning, Counting, LocalResult, start, family, signals, local
    <3> QED
      BY <3>1, <3>2, <3>3 DEF PInv
  <2>2. CASE PNext
    BY <2>1, <2>2, MainStep, ThreadStep, AsyncStep, SignalStep, ChildStep, Zenon DEF PNext, Kernel, Stays
  <2> QED
    BY <2>1, <2>2
<1>2. PInv => ProcessesRight
  BY DEF ProcessesRight, PInv, Spawning, ReadyBeforeSpawn, LocalResult, LocalExit
<1> QED
  BY <1>1, <1>2, PInitial, PTL DEF PSpec

-----------------------------------------------------------------------------
(* Commands for suricatta.                                                 *)

(* The types of what the answers depend on.                                *)
AnswerTypes ==
  /\ clpc \in [Sender -> {"start", "sent", "done"}]
  /\ told \in [Sender -> Sender \cup {"NACK", None}]
  /\ owed \in [Sender -> SUBSET Sender]
  /\ subprocess_messages \in Seq(Sender)
  /\ down \in Seq(Sender) /\ up \in Seq(Sender)
  /\ cur \in Sender \cup {None} /\ handling \in Sender \cup {None}
  /\ spc \in {"loop", "nack", "empty", "write", "answer"}
  /\ ithread \in {"select", "post", "write"}
  /\ (handling = None) = (ithread = "select")

(* Every client waits in one place: in the queue, or served.               *)
Waiting ==
  /\ spc # "loop" => cur \in Sender /\ clpc[cur] = "sent"
  /\ \A i \in 1..Len(subprocess_messages) :
       /\ clpc[subprocess_messages[i]] = "sent"
       /\ spc # "loop" => subprocess_messages[i] # cur
  /\ \A i, j \in 1..Len(subprocess_messages) :
       subprocess_messages[i] = subprocess_messages[j] => i = j

(* After empty_pipe, whatever is on its way answers the client that is     *)
(* served or one that was owed an answer at that time.                     *)
OnItsWay ==
  spc \in {"write", "answer"} =>
    /\ \A i \in 1..Len(up) : up[i] \in {cur} \cup owed[cur]
    /\ \A i \in 1..Len(down) : down[i] \in {cur} \cup owed[cur]
    /\ handling # None => handling \in {cur} \cup owed[cur]

AnswerInv == AnswerTypes /\ Waiting /\ OnItsWay /\ OldAnswersDropped

(* Nobody waits at the start.                                              *)
LEMMA AnswerInvInit == SubInit => AnswerInv
<1> SUFFICES ASSUME SubInit PROVE AnswerInv
  OBVIOUS
<1>1. <<>> \in Seq(Sender) /\ Len(<<>>) = 0
  BY EmptySeq
<1> QED
  BY <1>1, SenderAssumption
     DEF SubInit, AnswerInv, AnswerTypes, Waiting, OnItsWay, OldAnswersDropped

(* A queue with a message behind it.                                       *)
LEMMA Queued ==
  ASSUME NEW s \in Seq(Sender), NEW e \in Sender
  PROVE  /\ Len(s) \in Nat
         /\ \A i \in 1..Len(Append(s, e)) : i \in 1..Len(s) \/ i = Len(s) + 1
         /\ \A i \in 1..Len(s) : Append(s, e)[i] = s[i]
         /\ Append(s, e)[Len(s) + 1] = e
  BY AppendProperties

(* Every step of the threads keeps the invariant.                          *)
LEMMA AnswerInvNext == AnswerInv /\ [SubNext]_subvars => AnswerInv'
<1> SUFFICES ASSUME AnswerInv, [SubNext]_subvars PROVE AnswerInv'
  OBVIOUS
<1> USE DEF AnswerInv
<1>1. ASSUME NEW c \in Sender, SWUPDATE_SUBPROCESS(c) PROVE AnswerInv'
  <2> DEFINE q == subprocess_messages
  <2>1. q \in Seq(Sender)
    BY DEF AnswerTypes
  <2>2. /\ q' = Append(q, c) /\ clpc[c] = "start" /\ clpc' = [clpc EXCEPT ![c] = "sent"]
        /\ UNCHANGED <<told, owed, down, up, cur, handling, spc, ithread>>
    BY <1>1 DEF SWUPDATE_SUBPROCESS, pair, ipcThread
  <2>3. AnswerTypes'
    BY <2>1, <2>2, AppendProperties DEF AnswerTypes
  <2>4. \A i \in 1..Len(q) : q[i] \in Sender /\ q[i] # c
    BY <2>1, <2>2, ElementOfSeq, Zenon DEF Waiting
  <2>5. Waiting'
    <3>0. q' = Append(q, c)
      BY <2>2
    <3>1. \A i \in 1..Len(q') : i \in 1..Len(q) \/ i = Len(q) + 1
      BY <2>1, <3>0, Queued, Zenon
    <3>2. Len(q) \in Nat /\ \A i \in 1..Len(q) : q'[i] = q[i]
      BY <2>1, <3>0, Queued, Zenon
    <3>3. q'[Len(q) + 1] = c
      BY <2>1, <3>0, Queued, Zenon
    <3> HIDE DEF q
    <3>4. \A i \in 1..Len(q') : clpc'[q'[i]] = "sent"
      BY <2>2, <2>4, <3>1, <3>2, <3>3 DEF AnswerTypes, Waiting, q
    <3>5. spc # "loop" => cur # c /\ clpc'[cur] = "sent"
      BY <2>2 DEF AnswerTypes, Waiting
    <3>6. \A i \in 1..Len(q') : spc # "loop" => q'[i] # cur
      BY <3>1, <3>2, <3>3, <3>5 DEF Waiting, q
    <3>7. \A i, j \in 1..Len(q') : q'[i] = q'[j] => i = j
      BY <2>4, <3>1, <3>2, <3>3 DEF Waiting, q
    <3> QED
      BY <2>2, <3>4, <3>5, <3>6, <3>7, Zenon DEF Waiting, q
  <2>6. OnItsWay'
    BY <2>2 DEF OnItsWay
  <2>7. OldAnswersDropped'
    BY <2>2 DEF OldAnswersDropped, AnswerTypes
  <2> QED
    BY <2>3, <2>5, <2>6, <2>7
<1>2. CASE subprocess_thread
  <2> DEFINE q == subprocess_messages
  <2>1. q \in Seq(Sender) /\ q # <<>> /\ spc = "loop"
    BY <1>2 DEF AnswerTypes, subprocess_thread
  <2>2. /\ q' = Tail(q) /\ cur' = Head(q) /\ spc' \in {"nack", "empty"}
        /\ UNCHANGED <<clpc, told, owed, down, up, handling, ithread>>
    BY <1>2 DEF subprocess_thread, senders, pair, ipcThread
  <2>3. AnswerTypes'
    BY <2>1, <2>2, HeadTailProperties, EmptySeq, LenProperties DEF AnswerTypes
  <2>4. /\ Len(q) \in Nat /\ Len(q) >= 1 /\ cur' = q[1] /\ cur' \in Sender
        /\ \A i \in 1..Len(q') : i + 1 \in 1..Len(q) /\ q'[i] = q[i + 1]
    BY <2>1, <2>2, HeadTailProperties, EmptySeq, LenProperties
  <2>5. Len(q') = Len(q) - 1
    BY <2>1, <2>2, HeadTailProperties, EmptySeq, LenProperties
  <2> HIDE DEF q
  <2>6. Waiting'
    <3>1. clpc'[cur'] = "sent"
      BY <2>2, <2>4 DEF Waiting, q
    <3>2. \A i \in 1..Len(q') : clpc'[q'[i]] = "sent" /\ q'[i] # cur'
      BY <2>2, <2>4, <2>5 DEF Waiting, q
    <3>3. \A i, j \in 1..Len(q') : q'[i] = q'[j] => i = j
      BY <2>4, <2>5 DEF Waiting, q
    <3> QED
      BY <2>4, <3>1, <3>2, <3>3 DEF Waiting, q
  <2> QED
    BY <2>2, <2>3, <2>6 DEF OnItsWay, OldAnswersDropped
<1>3. CASE empty_pipe
  <2>1. <<>> \in Seq(Sender) /\ Len(<<>>) = 0
    BY EmptySeq
  <2>2. /\ up' = <<>> /\ owed' = [owed EXCEPT ![cur] = Owing]
        /\ spc = "empty" /\ spc' = "write" /\ cur \in Sender /\ clpc[cur] = "sent"
        /\ UNCHANGED <<clpc, told, subprocess_messages, down, cur, handling, ithread>>
    BY <1>3 DEF empty_pipe, senders, ipcThread, Waiting
  <2>3. Owing \in SUBSET Sender
    BY ElementOfSeq DEF Owing, AnswerTypes
  <2>4. AnswerTypes'
    BY <2>1, <2>2, <2>3 DEF AnswerTypes
  <2>5. owed'[cur] = Owing /\ \A c \in Sender : c # cur => owed'[c] = owed[c]
    BY <2>2 DEF AnswerTypes
  <2>6. OnItsWay'
    BY <2>1, <2>2, <2>5 DEF OnItsWay, Owing
  <2>7. OldAnswersDropped'
    BY <2>2, <2>5 DEF OldAnswersDropped
  <2>8. Waiting'
    BY <2>2 DEF Waiting
  <2> QED
    BY <2>4, <2>6, <2>7, <2>8
<1>4. CASE write_pipe
  <2>1. /\ down' = Append(down, cur) /\ spc = "write" /\ spc' = "answer"
        /\ UNCHANGED <<clpc, told, owed, subprocess_messages, up, cur, handling, ithread>>
    BY <1>4 DEF write_pipe, senders, ipcThread
  <2>2. cur \in Sender /\ down \in Seq(Sender)
    BY <2>1 DEF Waiting, AnswerTypes
  <2>3. AnswerTypes'
    BY <2>1, <2>2, AppendProperties DEF AnswerTypes
  <2>4. OnItsWay'
    <3>1. \A i \in 1..Len(down') : down'[i] = cur \/ (i \in 1..Len(down) /\ down'[i] = down[i])
      BY <2>1, <2>2, AppendProperties
    <3> QED
      BY <2>1, <3>1, Zenon DEF OnItsWay
  <2> QED
    BY <2>1, <2>3, <2>4 DEF Waiting, OldAnswersDropped
<1>5. CASE read_reply \/ reply_nack
  <2>1. PICK r \in Sender \cup {"NACK"} :
          /\ Reply(r) /\ r \in {cur, "NACK"} \cup owed[cur]
          /\ up' \in Seq(Sender) /\ spc \in {"nack", "answer"}
    <3>1. CASE read_reply
      <4>1. up \in Seq(Sender) /\ up # <<>> /\ spc = "answer"
        BY <3>1 DEF read_reply, AnswerTypes
      <4>2. Head(up) = up[1] /\ Head(up) \in Sender /\ 1 \in 1..Len(up) /\ Tail(up) \in Seq(Sender)
        BY <4>1, HeadTailProperties, EmptySeq, LenProperties
      <4> QED
        BY <3>1, <4>1, <4>2 DEF read_reply, OnItsWay
    <3>2. CASE reply_nack
      BY <3>2 DEF reply_nack, AnswerTypes
    <3> QED
      BY <1>5, <3>1, <3>2
  <2>2. /\ told' = [told EXCEPT ![cur] = r] /\ clpc' = [clpc EXCEPT ![cur] = "done"]
        /\ spc' = "loop" /\ cur' = None
        /\ UNCHANGED <<subprocess_messages, owed, down, handling, ithread>>
    BY <2>1 DEF Reply, ipcThread
  <2>3. cur \in Sender /\ clpc[cur] = "sent"
    BY <2>1 DEF Waiting
  <2>4. AnswerTypes'
    BY <2>1, <2>2, <2>3 DEF AnswerTypes
  <2>5. Waiting'
    <3>1. \A i \in 1..Len(subprocess_messages) : subprocess_messages[i] \in Sender
      BY ElementOfSeq DEF AnswerTypes
    <3> QED
      BY <2>1, <2>2, <2>3, <3>1 DEF Waiting, AnswerTypes
  <2>6. OldAnswersDropped'
    BY <2>1, <2>2, <2>3 DEF OldAnswersDropped, AnswerTypes
  <2> QED
    BY <2>2, <2>4, <2>5, <2>6 DEF OnItsWay
<1>6. CASE suricatta_ipc
  <2>1. down \in Seq(Sender) /\ down # <<>> /\ ithread = "select"
    BY <1>6 DEF suricatta_ipc, AnswerTypes
  <2>2. /\ handling' = Head(down) /\ down' = Tail(down) /\ ithread' \in {"write", "post"}
        /\ UNCHANGED <<clpc, told, owed, subprocess_messages, up, cur, spc>>
    BY <1>6 DEF suricatta_ipc, senders, daemon
  <2>3. /\ Head(down) = down[1] /\ Head(down) \in Sender /\ 1 \in 1..Len(down)
        /\ Tail(down) \in Seq(Sender)
        /\ \A i \in 1..Len(Tail(down)) : i + 1 \in 1..Len(down) /\ Tail(down)[i] = down[i + 1]
    BY <2>1, HeadTailProperties, EmptySeq, LenProperties
  <2>4. AnswerTypes'
    BY <2>2, <2>3, SenderAssumption, Zenon DEF AnswerTypes
  <2>5. OnItsWay'
    BY <2>2, <2>3 DEF OnItsWay
  <2> QED
    BY <2>2, <2>4, <2>5 DEF Waiting, OldAnswersDropped
<1>7. CASE write_answer
  <2>1. /\ ithread = "write" /\ up' = Append(up, handling) /\ ithread' = "select" /\ handling' = None
        /\ UNCHANGED <<clpc, told, owed, subprocess_messages, down, cur, spc>>
    BY <1>7 DEF write_answer, senders, daemon
  <2>2. handling \in Sender /\ handling # None /\ up \in Seq(Sender)
    BY <2>1, SenderAssumption DEF AnswerTypes
  <2>3. AnswerTypes'
    BY <2>1, <2>2, AppendProperties DEF AnswerTypes
  <2>4. OnItsWay'
    <3>1. \A i \in 1..Len(up') : up'[i] = handling \/ (i \in 1..Len(up) /\ up'[i] = up[i])
      BY <2>1, <2>2, AppendProperties
    <3> QED
      BY <2>1, <2>2, <3>1 DEF OnItsWay
  <2> QED
    BY <2>1, <2>3, <2>4 DEF Waiting, OldAnswersDropped
<1>8. CASE sem_post
  BY <1>8, SenderAssumption DEF sem_post, senders, daemon, pair, AnswerTypes, Waiting, OnItsWay, OldAnswersDropped
<1>9. CASE UNCHANGED <<senders, subprocess_messages, spc, cur, owed, pair, ipcThread>>
  BY <1>9 DEF senders, pair, ipcThread, AnswerTypes, Waiting, OnItsWay, OldAnswersDropped
<1>10. CASE cond_wait \/ MainLoop \/ sem_timeout \/ UNCHANGED subvars
  BY <1>9, <1>10, Zenon DEF cond_wait, MainLoop, check_enabled, clear_trigger, has_pending_action,
     handle_action, suricatta_wait, sem_wait, sem_timeout, Main, subvars, daemon
<1> QED
  BY <1>1, <1>2, <1>3, <1>4, <1>5, <1>6, <1>7, <1>8, <1>10
     DEF SubNext, SubprocessThread, IpcThread

(* For any number of clients and commands: no client gets an answer that   *)
(* was in the pipe before its turn (empty_pipe).                           *)
THEOREM AnswersCorrect == SubSpec => []OldAnswersDropped
<1>1. AnswerInv => OldAnswersDropped
  BY DEF AnswerInv
<1> QED
  BY <1>1, AnswerInvInit, AnswerInvNext, PTL DEF SubSpec

-----------------------------------------------------------------------------
(* A trigger that is not followed by a poll is still set, or its poll is   *)
(* next; and from the poll to the next sleep it is counted.                *)
TriggerInv ==
  /\ sema \in Nat /\ due \in BOOLEAN /\ trigger \in BOOLEAN
  /\ due => trigger \/ main = "poll"
  /\ due /\ main \in {"polling", "interval", "sleep"} => sema > 0 \/ ithread = "post"

(* No trigger is due at the start.                                         *)
LEMMA TriggerInvInit == SubInit => TriggerInv
<1> SUFFICES ASSUME SubInit PROVE TriggerInv
  OBVIOUS
<1>1. sema \in Nat
  BY DEF SubInit
<1>2. due = FALSE /\ trigger = FALSE
  BY DEF SubInit
<1> QED
  BY <1>1, <1>2, Zenon DEF TriggerInv

(* Every step of the three threads keeps the invariant.                    *)
LEMMA TriggerInvNext == TriggerInv /\ [SubNext]_subvars => TriggerInv'
<1> SUFFICES ASSUME TriggerInv, [SubNext]_subvars PROVE TriggerInv'
  OBVIOUS
<1> USE DEF TriggerInv
<1>1. CASE suricatta_ipc
  BY <1>1 DEF suricatta_ipc, loop
<1>2. CASE sem_post
  BY <1>2 DEF sem_post, loop
<1>3. CASE write_answer
  BY <1>3 DEF write_answer, loop, shared
<1>4. CASE check_enabled
  BY <1>4 DEF check_enabled, Main, ipcThread
<1>5. CASE clear_trigger
  <2>1. main' = "poll" /\ trigger' = FALSE /\ due' = due /\ sema' = sema
    BY <1>5 DEF clear_trigger, Main
  <2> QED
    BY <2>1, Zenon
<1>6. CASE has_pending_action
  <2>1. due' = FALSE /\ trigger' = trigger /\ sema' = sema
    BY <1>6 DEF has_pending_action
  <2> QED
    BY <2>1, Zenon
<1>7. CASE handle_action
  <2>1. /\ main = "polling" /\ main' = "interval" /\ trigger' \in {trigger, TRUE}
        /\ due' = due /\ sema' = sema /\ ithread' = ithread
    BY <1>7, Zenon DEF handle_action, Main, ipcThread
  <2>2. trigger' \in BOOLEAN /\ (trigger => trigger')
    BY <2>1, Zenon
  <2> QED
    BY <2>1, <2>2
<1>8. CASE suricatta_wait
  BY <1>8 DEF suricatta_wait, Main, ipcThread
<1>9. CASE sem_wait \/ sem_timeout
  BY <1>9 DEF sem_wait, sem_timeout, Main, ipcThread
<1>10. CASE UNCHANGED <<ipcThread, loop, shared>>
  BY <1>10 DEF ipcThread, loop, shared
<1>11. CASE (\E c \in Sender : SWUPDATE_SUBPROCESS(c)) \/ SubprocessThread \/ UNCHANGED subvars
  BY <1>10, <1>11 DEF SWUPDATE_SUBPROCESS, SubprocessThread, cond_wait, subprocess_thread,
     empty_pipe, write_pipe, read_reply, reply_nack, Reply, subvars
<1> QED
  BY <1>1, <1>2, <1>3, <1>4, <1>5, <1>6, <1>7, <1>8, <1>9, <1>11 DEF SubNext, IpcThread, MainLoop

(* For any number of commands: the main loop does not sleep over a         *)
(* trigger (suricatta_wait and the semaphore of suricatta_ipc).            *)
THEOREM TriggerCorrect == SubSpec => []NoTriggerMissed
<1>1. TriggerInv => NoTriggerMissed
  BY DEF TriggerInv, NoTriggerMissed
<1> QED
  BY <1>1, TriggerInvInit, TriggerInvNext, PTL DEF SubSpec
=============================================================================
