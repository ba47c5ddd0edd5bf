----------------------------- MODULE Suricatta ------------------------------
(***************************************************************************)
(* Commands for a subprocess (core/network_thread.c, core/pctl.c) and the  *)
(* subprocess they are mostly for, suricatta (suricatta/suricatta.c).      *)
(*                                                                         *)
(* A client's command is queued by the network thread, the subprocess      *)
(* thread passes one at a time over a socket pair to suricatta's IPC       *)
(* thread and waits a limited time for the answer.  The IPC thread changes *)
(* enable or trigger and posts the semaphore that suricatta's main loop    *)
(* sleeps on between two polls of the update server.                       *)
(***************************************************************************)
EXTENDS Naturals, Sequences, FiniteSets

CONSTANTS
  Sender,      \* each sends one command
  None,        \* no client
  Commands     \* what they may send, a set of functions on Sender

(* {"enable": true}, {"enable": false}, {"trigger": true}, a command of the
   server's own, and one for a subprocess that does not run *)
Command == {"enable", "disable", "trigger", "other", "nobody"}

ASSUME SenderAssumption ==
  None \notin Sender /\ Commands \subseteq [Sender -> Command]

VARIABLES
  clpc, cmd,            \* the clients and their commands
  told,                 \* answer: NACK from the daemon or the client it is for
  subprocess_messages,  \* queue of the network thread
  asleep,               \* subprocess thread is in pthread_cond_wait
  spc, cur,             \* where it is, whom it serves
  down, up,             \* the socket pair
  owed,                 \* answers still owed when the client's turn came
  ithread, handling,    \* suricatta's IPC thread
  main, enable_entry,   \* suricatta's main loop
  enable, trigger,
  sema,                 \* suricatta_enable_sema
  due                   \* a trigger was not followed by a poll yet

senders == <<clpc, cmd, told>>
daemon == <<subprocess_messages, asleep, spc, cur, owed>>
pair == <<down, up>>
ipcThread == <<ithread, handling>>
loop == <<main, enable_entry>>
shared == <<enable, trigger, sema, due>>
subvars == <<senders, daemon, pair, ipcThread, loop, shared>>

SubInit ==
  /\ clpc = [c \in Sender |-> "start"]
  /\ cmd \in Commands
  /\ told = [c \in Sender |-> None]
  /\ subprocess_messages = <<>> /\ asleep = TRUE
  /\ spc = "loop" /\ cur = None
  /\ down = <<>> /\ up = <<>>
  /\ owed = [c \in Sender |-> {}]
  /\ ithread = "select" /\ handling = None
  /\ main = "check" /\ enable_entry = FALSE
  /\ enable \in BOOLEAN /\ trigger = FALSE /\ sema = 0 /\ due = FALSE

-----------------------------------------------------------------------------
(* The daemon *)

SWUPDATE_SUBPROCESS_Silent(c) ==   \* mutant: nobody is woken up
  /\ clpc[c] = "start"
  /\ clpc' = [clpc EXCEPT ![c] = "sent"]
  /\ subprocess_messages' = Append(subprocess_messages, c)
  /\ UNCHANGED <<asleep, cmd, told, spc, cur, owed, pair, ipcThread, loop, shared>>

(* ipc_send_cmd writes the command, network_thread queues it. *)
SWUPDATE_SUBPROCESS(c) ==
  /\ clpc[c] = "start"
  /\ clpc' = [clpc EXCEPT ![c] = "sent"]
  /\ subprocess_messages' = Append(subprocess_messages, c)
  /\ asleep' = FALSE
  /\ UNCHANGED <<cmd, told, spc, cur, owed, pair, ipcThread, loop, shared>>

cond_wait ==
  /\ spc = "loop"
  /\ ~asleep
  /\ subprocess_messages = <<>>
  /\ asleep' = TRUE
  /\ UNCHANGED <<senders, subprocess_messages, spc, cur, owed, pair, ipcThread,
                 loop, shared>>

(* The next command is handled without the lock.  Without a process for it
   the answer is NACK. *)
subprocess_thread ==
  /\ spc = "loop"
  /\ ~asleep
  /\ subprocess_messages # <<>>
  /\ LET c == Head(subprocess_messages)
     IN /\ cur' = c
        /\ spc' = IF cmd[c] = "nobody" THEN "nack" ELSE "empty"
  /\ subprocess_messages' = Tail(subprocess_messages)
  /\ UNCHANGED <<senders, asleep, owed, pair, ipcThread, loop, shared>>

Owing == {down[i] : i \in 1..Len(down)} \cup ({handling} \ {None})

empty_pipe_Not ==   \* mutant: old answers are not dropped
  /\ spc = "empty"
  /\ owed' = [owed EXCEPT ![cur] = Owing]
  /\ spc' = "write"
  /\ UNCHANGED <<senders, subprocess_messages, asleep, cur, pair, ipcThread, loop,
                 shared>>

(* What is in the pipe answers a command that timed out. *)
empty_pipe ==
  /\ spc = "empty"
  /\ up' = <<>>
  /\ owed' = [owed EXCEPT ![cur] = Owing]
  /\ spc' = "write"
  /\ UNCHANGED <<senders, subprocess_messages, asleep, cur, down, ipcThread, loop,
                 shared>>

write_pipe ==
  /\ spc = "write"
  /\ down' = Append(down, cur)
  /\ spc' = "answer"
  /\ UNCHANGED <<senders, subprocess_messages, asleep, cur, owed, up, ipcThread,
                 loop, shared>>

(* The reply is written and the connection closed. *)
Reply(r) ==
  /\ told' = [told EXCEPT ![cur] = r]
  /\ clpc' = [clpc EXCEPT ![cur] = "done"]
  /\ spc' = "loop"
  /\ cur' = None
  /\ UNCHANGED <<cmd, subprocess_messages, asleep, owed, down, ipcThread, loop, shared>>

read_reply ==
  /\ spc = "answer"
  /\ up # <<>>
  /\ up' = Tail(up)
  /\ Reply(Head(up))

(* No process for the command, or no answer in time *)
reply_nack ==
  /\ \/ spc = "nack"
     \/ spc = "answer" /\ up = <<>>
  /\ UNCHANGED up
  /\ Reply("NACK")

-----------------------------------------------------------------------------
(* suricatta's IPC thread: suricatta_ipc and suricatta_enable *)

suricatta_ipc ==
  /\ ithread = "select"
  /\ down # <<>>
  /\ handling' = Head(down)
  /\ down' = Tail(down)
  /\ LET m == cmd[Head(down)]
     IN /\ enable' = IF m \in {"enable", "disable"} THEN m = "enable" ELSE enable
        /\ trigger' = (trigger \/ m = "trigger")
        /\ due' = (due \/ m = "trigger")
        /\ ithread' = IF m = "other" THEN "write" ELSE "post"
  /\ UNCHANGED <<senders, daemon, up, loop, sema>>

sem_post_Never ==   \* mutant: the semaphore is not posted
  /\ ithread = "post"
  /\ ithread' = "write"
  /\ UNCHANGED <<sema, senders, daemon, pair, handling, loop, enable, trigger, due>>

sem_post ==
  /\ ithread = "post"
  /\ sema' = sema + 1
  /\ ithread' = "write"
  /\ UNCHANGED <<senders, daemon, pair, handling, loop, enable, trigger, due>>

write_answer ==
  /\ ithread = "write"
  /\ up' = Append(up, handling)
  /\ ithread' = "select"
  /\ handling' = None
  /\ UNCHANGED <<senders, daemon, down, loop, shared>>

-----------------------------------------------------------------------------
(* suricatta's main loop *)

Main(from, to) ==
  /\ main = from
  /\ main' = to
  /\ UNCHANGED <<senders, daemon, pair, ipcThread, enable>>

check_enabled ==
  /\ Main("check", IF enable \/ trigger THEN "clear" ELSE "interval")
  /\ UNCHANGED <<enable_entry, trigger, sema, due>>

clear_trigger ==
  /\ Main("clear", "poll")
  /\ trigger' = FALSE
  /\ UNCHANGED <<enable_entry, sema, due>>

has_pending_action ==
  /\ Main("poll", "polling")
  /\ due' = FALSE
  /\ UNCHANGED <<enable_entry, trigger, sema>>

handle_action_Clear ==   \* mutant: trigger is reset after the poll
  /\ Main("polling", "interval")
  /\ trigger' = FALSE
  /\ UNCHANGED <<enable_entry, sema, due>>

(* install_update or nothing to do, or the server asked for the identity and
   send_target_data sets trigger *)
handle_action ==
  /\ Main("polling", "interval")
  /\ trigger' \in {trigger, TRUE}
  /\ UNCHANGED <<enable_entry, sema, due>>

suricatta_wait ==
  /\ Main("interval", "sleep")
  /\ enable_entry' = enable
  /\ UNCHANGED <<trigger, sema, due>>

(* Woken up by a command: poll at once, or sleep for the time that is left *)
sem_wait ==
  /\ sema > 0
  /\ \E next \in {"check", "interval"} :
       /\ trigger \/ (enable /\ ~enable_entry) => next = "check"
       /\ Main("sleep", next)
  /\ sema' = sema - 1
  /\ UNCHANGED <<enable_entry, trigger, due>>

sem_timeout ==
  /\ sema = 0
  /\ Main("sleep", "check")
  /\ UNCHANGED <<enable_entry, trigger, sema, due>>

-----------------------------------------------------------------------------
SubprocessThread ==
  cond_wait \/ subprocess_thread \/ empty_pipe \/ write_pipe \/ read_reply \/ reply_nack

IpcThread == suricatta_ipc \/ sem_post \/ write_answer

MainLoop ==
  check_enabled \/ clear_trigger \/ has_pending_action \/ handle_action
    \/ suricatta_wait \/ sem_wait

SubNext ==
  \/ \E c \in Sender : SWUPDATE_SUBPROCESS(c)
  \/ SubprocessThread \/ IpcThread \/ MainLoop \/ sem_timeout

SubSpec == SubInit /\ [][SubNext]_subvars

(* The threads run.  The polling interval may be as long as it likes: nothing
   relies on its end. *)
SubFairSpec ==
  SubSpec /\ WF_subvars(SubprocessThread) /\ WF_subvars(IpcThread) /\ WF_subvars(MainLoop)

-----------------------------------------------------------------------------
SubTypeOK ==
  /\ clpc \in [Sender -> {"start", "sent", "done"}]
  /\ told \in [Sender -> Sender \cup {"NACK", None}]
  /\ cur \in Sender \cup {None} /\ handling \in Sender \cup {None}
  /\ spc \in {"loop", "nack", "empty", "write", "answer"}
  /\ ithread \in {"select", "post", "write"}
  /\ main \in {"check", "clear", "poll", "polling", "interval", "sleep"}
  /\ \A i \in 1..Len(subprocess_messages) : subprocess_messages[i] \in Sender
  /\ sema \in 0..Cardinality(Sender)

(* A client gets the answer to its own command, NACK, or the answer to a
   command that timed out and that suricatta had not answered yet when the
   client's turn came: every older one is dropped (empty_pipe). *)
OldAnswersDropped ==
  \A c \in Sender : clpc[c] = "done" => told[c] \in {c, "NACK"} \cup owed[c]

(* The semaphore counts what the main loop has not noticed: if a trigger waits
   and the loop sleeps, the loop is about to be woken up. *)
NoTriggerMissed ==
  main = "sleep" /\ due => sema > 0 \/ ithread = "post"

(* Every command is answered, also when suricatta takes too long for the one
   before (subprocess_thread and its condition variable). *)
CommandAnswered == \A c \in Sender : clpc[c] = "sent" ~> clpc[c] = "done"

(* A trigger is followed by a poll that begins after it, without the help of
   the polling interval (main loop, suricatta_wait). *)
TriggerPolled == due ~> ~due

(* Nothing that was asked of suricatta stays undone: a command is answered, a
   trigger leads to a poll (SWUPDATE_SUBPROCESS, start_suricatta). *)
RequestsServed == CommandAnswered /\ TriggerPolled
=============================================================================
