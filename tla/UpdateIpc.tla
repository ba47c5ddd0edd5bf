----------------------------- MODULE UpdateIpc -----------------------------
(***************************************************************************)
(* Who is installed when several clients ask: the network thread           *)
(* (core/network_thread.c) that accepts REQ_INSTALL and POST_UPDATE, the   *)
(* installer thread (network_initializer, core/stream_interface.c) that it *)
(* wakes up, the progress interface (core/progress_thread.c) and clients   *)
(* that use the library (ipc/network_ipc.c, ipc/network_ipc-if.c).         *)
(*                                                                         *)
(* An image is a number of chunks that go through a socket buffer; what    *)
(* the installer does with it is in module Install.  File descriptors of   *)
(* the daemon are modelled, because the installer keeps a number.          *)
(***************************************************************************)
EXTENDS Naturals, FiniteSets

CONSTANTS
  Client, NoClient,
  Fds,          \* number of file descriptors the daemon can have
  Chunks,       \* chunks of an image
  BufSize,      \* chunks that fit into a socket buffer
  DryClient,    \* clients that ask for a dry run
  BadClient,    \* clients that ask for a selection that is not allowed
  DirsOutcome   \* may removing the temporary directories fail? {TRUE} or BOOLEAN

ASSUME SizeAssumption == Fds \in Nat \ {0} /\ Chunks \in Nat \ {0} /\ BufSize \in Nat \ {0}
ASSUME ClientAssumption == /\ NoClient \notin Client
                           /\ DryClient \subseteq Client
                           /\ BadClient \subseteq Client
ASSUME DirsAssumption == DirsOutcome \subseteq BOOLEAN

Fd == 1..Fds
NoFd == 0

VARIABLES
  \* the daemon
  net,          \* the client whose message the network thread is serving
  ctrlconnfd,   \* and the descriptor of its connection
  fdtab,        \* file descriptors of the control connections
  status, stream_wkup, inst_fd, inst_req, last_install,   \* inst
  ipc,          \* control point of the installer
  ret,          \* its result so far
  dry_run,      \* software->parms.dry_run
  conns,        \* the progress connections
  \* the clients
  cpc, reply, unsent, buf, closed, event, result,
  \* history
  job,          \* client whose connection the installer was woken up for
  woken,        \* all those clients so far
  got,          \* chunks the installer read from each client
  served,       \* result of the installation of each client's image
  posted        \* clients for which the post-update command was run

inst == <<status, stream_wkup, inst_fd, inst_req, last_install>>
client == <<cpc, reply, unsent, buf, closed, event, result>>
history == <<job, woken, got, served, posted>>
vars == <<net, ctrlconnfd, fdtab, inst, ipc, ret, dry_run, conns, client, history>>

Result == {"none", "SUCCESS", "FAILURE", "REFUSED"}

Init ==
  /\ net = NoClient
  /\ ctrlconnfd = NoFd
  /\ fdtab = [f \in Fd |-> NoClient]
  /\ status = "IDLE" /\ stream_wkup = FALSE /\ inst_fd = NoFd
  /\ inst_req = NoClient /\ last_install = "none"
  /\ ipc = "wait"
  /\ ret = TRUE
  /\ dry_run = FALSE
  /\ conns = {}
  /\ cpc = [c \in Client |-> "idle"]
  /\ reply = [c \in Client |-> "none"]
  /\ unsent = [c \in Client |-> Chunks]
  /\ buf = [c \in Client |-> 0]
  /\ closed = {}
  /\ event = [c \in Client |-> "none"]
  /\ result = [c \in Client |-> "none"]
  /\ job = NoClient
  /\ woken = {}
  /\ got = [c \in Client |-> 0]
  /\ served = [c \in Client |-> "none"]
  /\ posted = {}

(* The daemon's end of the connection of c is open. *)
Open(c) == \E f \in Fd : fdtab[f] = c
(* The client behind a descriptor, if it is open. *)
Peer(f) == IF f \in Fd THEN fdtab[f] ELSE NoClient

-----------------------------------------------------------------------------
(* The client *)

(* ipc_inst_start_ext: connect and write REQ_INSTALL, *)
ipc_inst_start_ext(c) ==
  /\ cpc[c] = "idle"
  /\ cpc' = [cpc EXCEPT ![c] = "request"]
  /\ UNCHANGED <<net, ctrlconnfd, fdtab, inst, ipc, ret, dry_run, conns, reply, unsent, buf,
                 closed, event, result, history>>

(* ... and read the answer. *)
read_answer(c) ==
  /\ cpc[c] = "request"
  /\ reply[c] # "none"
  /\ cpc' = [cpc EXCEPT ![c] = IF reply[c] = "ACK" THEN "connect" ELSE "done"]
  /\ result' = [result EXCEPT ![c] = IF reply[c] = "ACK" THEN @ ELSE "REFUSED"]
  /\ closed' = IF reply[c] = "ACK" THEN closed ELSE closed \cup {c}
  /\ UNCHANGED <<net, ctrlconnfd, fdtab, inst, ipc, ret, dry_run, conns, reply, unsent, buf,
                 event, history>>

(* progress_ipc_connect and progress_bar_thread: the ACK is sent and the
   connection registered under the progress lock. *)
progress_ipc_connect(c) ==
  /\ cpc[c] = "connect"
  /\ cpc' = [cpc EXCEPT ![c] = "send"]
  /\ conns' = conns \cup {c}
  /\ UNCHANGED <<net, ctrlconnfd, fdtab, inst, ipc, ret, dry_run, reply, unsent, buf, closed,
                 event, result, history>>

(* No ACK within 5 seconds. *)
progress_ipc_timeout(c) ==
  /\ cpc[c] = "connect"
  /\ cpc' = [cpc EXCEPT ![c] = "done"]
  /\ closed' = closed \cup {c}
  /\ result' = [result EXCEPT ![c] = "FAILURE"]
  /\ UNCHANGED <<net, ctrlconnfd, fdtab, inst, ipc, ret, dry_run, conns, reply, unsent, buf,
                 event, history>>

(* swupdate_image_write: blocks while the buffer is full. *)
swupdate_image_write(c) ==
  /\ cpc[c] = "send"
  /\ Open(c)
  /\ buf[c] < BufSize
  /\ buf' = [buf EXCEPT ![c] = @ + 1]
  /\ unsent' = [unsent EXCEPT ![c] = @ - 1]
  /\ cpc' = [cpc EXCEPT ![c] = "events"]
  /\ UNCHANGED <<net, ctrlconnfd, fdtab, inst, ipc, ret, dry_run, conns, reply, closed, event,
                 result, history>>

(* EPIPE.  The thread ends without closing its sockets. *)
swupdate_image_write_fails(c) ==
  /\ cpc[c] = "send"
  /\ ~Open(c)
  /\ cpc' = [cpc EXCEPT ![c] = "done"]
  /\ result' = [result EXCEPT ![c] = "FAILURE"]
  /\ UNCHANGED <<net, ctrlconnfd, fdtab, inst, ipc, ret, dry_run, conns, reply, unsent, buf,
                 closed, event, history>>

(* consume_progress_events: a result ends the transfer early. *)
consume_progress_events(c) ==
  /\ cpc[c] = "events"
  /\ IF event[c] # "none"
     THEN /\ cpc' = [cpc EXCEPT ![c] = "done"]
          /\ result' = [result EXCEPT ![c] = event[c]]
          /\ conns' = conns \ {c}
          /\ closed' = closed \cup {c}
     ELSE /\ cpc' = [cpc EXCEPT ![c] = IF unsent[c] > 0 THEN "send" ELSE "wait"]
          /\ closed' = IF unsent[c] > 0 THEN closed ELSE closed \cup {c}
          /\ UNCHANGED <<result, conns>>
  /\ UNCHANGED <<net, ctrlconnfd, fdtab, inst, ipc, ret, dry_run, reply, unsent, buf, event,
                 history>>

inst_wait_for_complete(c) ==
  /\ cpc[c] = "wait"
  /\ event[c] # "none"
  /\ cpc' = [cpc EXCEPT ![c] = "done"]
  /\ result' = [result EXCEPT ![c] = event[c]]
  /\ conns' = conns \ {c}
  /\ UNCHANGED <<net, ctrlconnfd, fdtab, inst, ipc, ret, dry_run, reply, unsent, buf, closed,
                 event, history>>

(* ipc_postupdate after a successful installation *)
ipc_postupdate(c) ==
  /\ cpc[c] = "done"
  /\ result[c] = "SUCCESS"
  /\ cpc' = [cpc EXCEPT ![c] = "post"]
  /\ UNCHANGED <<net, ctrlconnfd, fdtab, inst, ipc, ret, dry_run, conns, reply, unsent, buf,
                 closed, event, result, history>>

-----------------------------------------------------------------------------
(* The network thread *)

(* accept and read of an installation request: the lowest free descriptor *)
accept(c) ==
  /\ net = NoClient
  /\ cpc[c] = "request"
  /\ reply[c] = "none"
  /\ \E f \in Fd :
       /\ fdtab[f] = NoClient
       /\ \A g \in 1..(f - 1) : fdtab[g] # NoClient
       /\ fdtab' = [fdtab EXCEPT ![f] = c]
       /\ ctrlconnfd' = f
  /\ net' = c
  /\ UNCHANGED <<inst, ipc, ret, dry_run, conns, client, history>>

(* The answer does not arrive if the installer closed the connection, which
   happens when it was left with the number of a descriptor closed before. *)
Answer(a) ==
  reply' = [reply EXCEPT ![net] = IF fdtab[ctrlconnfd] = net THEN a ELSE "EOF"]

REQ_INSTALL_Busy ==   \* mutant: accepts while an update is running
  /\ net # NoClient
  /\ inst_fd' = ctrlconnfd /\ inst_req' = net
  /\ stream_wkup' = TRUE
  /\ Answer("ACK")
  /\ net' = NoClient /\ ctrlconnfd' = NoFd
  /\ UNCHANGED <<fdtab, status, last_install, ipc, ret, dry_run, conns, cpc, unsent,
                 buf, closed, event, result, history>>

REQ_INSTALL_Overwrite ==   \* mutant: the request is stored although it is refused
  LET c == net
      ok == status = "IDLE" /\ c \notin BadClient
  IN
  /\ net # NoClient
  /\ inst_req' = c
  /\ inst_fd' = IF status = "IDLE" THEN ctrlconnfd ELSE inst_fd
  /\ stream_wkup' = (stream_wkup \/ ok)
  /\ Answer(IF ok THEN "ACK" ELSE "NACK")
  /\ fdtab' = IF ok THEN fdtab ELSE [fdtab EXCEPT ![ctrlconnfd] = NoClient]
  /\ net' = NoClient /\ ctrlconnfd' = NoFd
  /\ UNCHANGED <<status, last_install, ipc, ret, dry_run, conns, cpc, unsent, buf,
                 closed, event, result, history>>

(* REQ_INSTALL, under stream_mutex.  The descriptor and the request are
   stored before they are found to be acceptable. *)
REQ_INSTALL ==
  LET c == net
      ok == status = "IDLE" /\ c \notin BadClient
  IN
  /\ net # NoClient
  /\ IF status = "IDLE"
     THEN inst_fd' = ctrlconnfd /\ inst_req' = c
     ELSE UNCHANGED <<inst_fd, inst_req>>
  /\ stream_wkup' = (stream_wkup \/ ok)
  /\ Answer(IF ok THEN "ACK" ELSE "NACK")
  /\ fdtab' = IF ok THEN fdtab ELSE [fdtab EXCEPT ![ctrlconnfd] = NoClient]
  /\ net' = NoClient /\ ctrlconnfd' = NoFd
  /\ UNCHANGED <<status, last_install, ipc, ret, dry_run, conns, cpc, unsent, buf,
                 closed, event, result, history>>

(* POST_UPDATE: postupdate, under stream_mutex *)
POST_UPDATE(c) ==
  /\ net = NoClient
  /\ cpc[c] = "post"
  /\ posted' = IF dry_run THEN posted ELSE posted \cup {c}
  /\ cpc' = [cpc EXCEPT ![c] = "end"]
  /\ UNCHANGED <<net, ctrlconnfd, fdtab, inst, ipc, ret, dry_run, conns, reply, unsent, buf,
                 closed, event, result, job, woken, got, served>>

-----------------------------------------------------------------------------
(* The installer thread *)

wakeup ==
  /\ ipc = "wait"
  /\ stream_wkup
  /\ stream_wkup' = FALSE
  /\ status' = "RUN"
  /\ ret' = TRUE
  /\ ipc' = "dirs"
  /\ job' = Peer(inst_fd)
  /\ woken' = woken \cup ({job'} \ {NoClient})
  /\ UNCHANGED <<net, ctrlconnfd, fdtab, inst_fd, inst_req, last_install, dry_run, conns,
                 client, got, served, posted>>

(* The directories for scripts; "skipping..." goes to the top of the loop. *)
remove_directories ==
  /\ ipc = "dirs"
  /\ \E ok \in DirsOutcome : ipc' = IF ok THEN "parms" ELSE "wait"
  /\ UNCHANGED <<net, ctrlconnfd, fdtab, inst, ret, dry_run, conns, client, history>>

set_parms ==
  /\ ipc = "parms"
  /\ dry_run' = (inst_req \in DryClient)
  /\ ipc' = "read"
  /\ UNCHANGED <<net, ctrlconnfd, fdtab, inst, ret, conns, client, history>>

(* save_stream and extract_files, a chunk at a time *)
read_chunk ==
  LET c == Peer(inst_fd) IN
  /\ ipc = "read"
  /\ c # NoClient
  /\ buf[c] > 0
  /\ buf' = [buf EXCEPT ![c] = @ - 1]
  /\ got' = [got EXCEPT ![c] = @ + 1]
  /\ ipc' = IF got[c] + 1 = Chunks THEN "close" ELSE "read"
  /\ UNCHANGED <<net, ctrlconnfd, fdtab, inst, ret, dry_run, conns, cpc, reply, unsent, closed,
                 event, result, job, woken, served, posted>>

(* A bad image or no space, at any time *)
read_error ==
  /\ ipc = "read"
  /\ ret' = FALSE
  /\ ipc' = "close"
  /\ UNCHANGED <<net, ctrlconnfd, fdtab, inst, dry_run, conns, client, history>>

(* The end of the stream, or EBADF *)
read_eof ==
  /\ ipc = "read"
  /\ Peer(inst_fd) \in closed => buf[Peer(inst_fd)] = 0
  /\ Peer(inst_fd) \in closed \cup {NoClient}
  /\ ret' = FALSE
  /\ ipc' = "close"
  /\ UNCHANGED <<net, ctrlconnfd, fdtab, inst, dry_run, conns, client, history>>

close_fd_OnSuccess ==   \* mutant: the error path does not close
  /\ ipc = "close"
  /\ fdtab' = IF ret /\ inst_fd \in Fd THEN [fdtab EXCEPT ![inst_fd] = NoClient] ELSE fdtab
  /\ ipc' = "install"
  /\ UNCHANGED <<net, ctrlconnfd, inst, ret, dry_run, conns, client, history>>

close_fd ==
  /\ ipc = "close"
  /\ fdtab' = IF inst_fd \in Fd THEN [fdtab EXCEPT ![inst_fd] = NoClient] ELSE fdtab
  /\ ipc' = "install"
  /\ UNCHANGED <<net, ctrlconnfd, inst, ret, dry_run, conns, client, history>>

(* install_images, or "Error happened. Not installing ..." *)
install_images ==
  /\ ipc = "install"
  /\ \E r \in {"SUCCESS", "FAILURE"} :
       /\ ~ret => r = "FAILURE"
       /\ last_install' = r
       /\ served' = IF job \in Client THEN [served EXCEPT ![job] = r] ELSE served
  /\ ipc' = "end"
  /\ UNCHANGED <<net, ctrlconnfd, fdtab, status, stream_wkup, inst_fd, inst_req, ret, dry_run,
                 conns, client, job, woken, got, posted>>

(* Everyone who listens gets the result; a client looks at the first one. *)
swupdate_progress_end ==
  /\ ipc = "end"
  /\ event' = [c \in Client |->
                IF c \in conns /\ event[c] = "none" THEN last_install ELSE event[c]]
  /\ ipc' = "restore"
  /\ UNCHANGED <<net, ctrlconnfd, fdtab, inst, ret, dry_run, conns, cpc, reply, unsent, buf,
                 closed, result, history>>

restore_parms_Failed ==   \* mutant: not reloaded after a failure
  /\ ipc = "restore"
  /\ dry_run' = (dry_run /\ last_install = "FAILURE")
  /\ ipc' = "idle"
  /\ UNCHANGED <<net, ctrlconnfd, fdtab, inst, ret, conns, client, history>>

(* "Reload default values for update" *)
restore_parms ==
  /\ ipc = "restore"
  /\ dry_run' = FALSE
  /\ ipc' = "idle"
  /\ UNCHANGED <<net, ctrlconnfd, fdtab, inst, ret, conns, client, history>>

set_idle_Failed ==   \* mutant: a failed update goes straight back to waiting
  /\ ipc = "idle"
  /\ status' = IF last_install = "FAILURE" THEN status ELSE "IDLE"
  /\ ipc' = "wait"
  /\ job' = NoClient
  /\ UNCHANGED <<net, ctrlconnfd, fdtab, stream_wkup, inst_fd, inst_req, last_install, ret,
                 dry_run, conns, client, woken, got, served, posted>>

set_idle ==
  /\ ipc = "idle"
  /\ status' = "IDLE"
  /\ ipc' = "wait"
  /\ job' = NoClient
  /\ UNCHANGED <<net, ctrlconnfd, fdtab, stream_wkup, inst_fd, inst_req, last_install, ret,
                 dry_run, conns, client, woken, got, served, posted>>

-----------------------------------------------------------------------------
Library(c) ==
  \/ read_answer(c) \/ progress_ipc_connect(c)
  \/ swupdate_image_write(c) \/ swupdate_image_write_fails(c)
  \/ consume_progress_events(c) \/ inst_wait_for_complete(c)

NetworkThread ==
  \/ \E c \in Client : accept(c) \/ POST_UPDATE(c)
  \/ REQ_INSTALL

Installer ==
  \/ wakeup \/ remove_directories \/ set_parms
  \/ read_chunk \/ read_eof \/ close_fd
  \/ install_images \/ swupdate_progress_end \/ restore_parms \/ set_idle

Next ==
  \/ \E c \in Client : ipc_inst_start_ext(c) \/ progress_ipc_timeout(c) \/ ipc_postupdate(c)
  \/ \E c \in Client : Library(c)
  \/ NetworkThread
  \/ Installer
  \/ read_error

Spec == Init /\ [][Next]_vars

(* The threads of the daemon and of the clients run whenever they can.
   Nobody has to ask for an update or for the post-update command, no image
   has to be bad and no progress connection has to time out. *)
FairSpec ==
  /\ Spec
  /\ WF_vars(NetworkThread)
  /\ WF_vars(Installer)
  /\ \A c \in Client : WF_vars(Library(c))

-----------------------------------------------------------------------------
TypeOK ==
  /\ net \in Client \cup {NoClient}
  /\ ctrlconnfd \in Fd \cup {NoFd}
  /\ fdtab \in [Fd -> Client \cup {NoClient}]
  /\ status \in {"IDLE", "RUN"}
  /\ stream_wkup \in BOOLEAN
  /\ inst_fd \in Fd \cup {NoFd}
  /\ inst_req \in Client \cup {NoClient}
  /\ last_install \in Result
  /\ ipc \in {"wait", "dirs", "parms", "read", "close", "install", "end",
              "restore", "idle"}
  /\ ret \in BOOLEAN
  /\ dry_run \in BOOLEAN
  /\ conns \in SUBSET Client
  /\ cpc \in [Client -> {"idle", "request", "connect", "send", "events", "wait",
                         "done", "post", "end"}]
  /\ reply \in [Client -> {"none", "ACK", "NACK", "EOF"}]
  /\ unsent \in [Client -> 0..Chunks]
  /\ buf \in [Client -> 0..BufSize]
  /\ closed \in SUBSET Client
  /\ event \in [Client -> Result]
  /\ result \in [Client -> Result]
  /\ job \in Client \cup {NoClient}
  /\ woken \in SUBSET Client
  /\ got \in [Client -> 0..Chunks]
  /\ served \in [Client -> Result]
  /\ posted \in SUBSET Client

(* A client of the library that the installer was woken up for is given the
   result of the installation of its own image, although results go to
   everybody who listens (swupdate_async_thread registers before it sends,
   network_initializer closes before it reports), and the post-update command
   is run for it only if that installation succeeded. *)
OwnResult ==
  \A c \in woken : /\ result[c] = "SUCCESS" => served[c] = "SUCCESS"
                   /\ result[c] = "FAILURE" => served[c] # "SUCCESS"
                   /\ c \in posted => served[c] = "SUCCESS"

(* Whatever happened to the last update, the next one starts from the
   configured parameters and not from the request before it. *)
ParmsRestored == ipc \in {"wait", "dirs", "parms"} => ~dry_run

(* The client, if it is one whose request was acknowledged. *)
IfAcked(c) ==
  IF c # NoClient THEN (IF reply[c] = "ACK" THEN c ELSE NoClient) ELSE NoClient

(* An image is installed as its own client asked for, whatever requests came
   in meanwhile: inst.req and inst.fd stay together. *)
OwnParms == IfAcked(job) # NoClient /\ ipc \in {"read", "close", "install"} =>
              dry_run = (job \in DryClient)

(* The installer serves the last request that was acknowledged, and none is
   acknowledged while it works. *)
Service == INSTANCE InstallService WITH
  pending <- IF stream_wkup THEN IfAcked(Peer(inst_fd)) ELSE NoClient,
  running <- IfAcked(job)
OneAtATime == Service!SSpec

(* The daemon keeps no descriptor for ever: with nothing requested, pending or
   running, all control connections are closed but those of acknowledged
   clients that were overtaken before the installer woke up. *)
NoLeak ==
  net = NoClient /\ ~stream_wkup /\ status = "IDLE" =>
    \A f \in Fd : fdtab[f] # NoClient => IfAcked(fdtab[f]) \notin woken \cup {NoClient}

(* Every client the installer was woken up for comes to a result, and is not
   left blocked in a write or waiting for an event that it missed. *)
AckedEnds ==
  \A c \in Client : c \in woken /\ reply[c] = "ACK" ~> result[c] # "none"

(* "Any error lets SWUpdate to leave the update state": status RUN is left. *)
UpdateStateLeft == status = "RUN" ~> status = "IDLE"

(* "SWUpdate sends back ACK or NACK, if for example an update is already in
   progress": a client that was acknowledged and then told that the update
   succeeded has had its image installed. *)
AckedIsInstalled ==
  \A c \in Client : result[c] = "SUCCESS" => served[c] = "SUCCESS"
=============================================================================
