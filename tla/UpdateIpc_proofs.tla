-------------------------- MODULE UpdateIpc_proofs --------------------------
(***************************************************************************)
(* Requests for updates, for any number of clients, descriptors and chunks *)
(* and whether or not the temporary directories can be removed.            *)
(***************************************************************************)
EXTENDS UpdateIpc, TLAPS

(* A chunk of an image is with the client, in the socket buffer or with    *)
(* the installer.                                                          *)
ChunkInv ==
  \A c \in Client :
    /\ got[c] + buf[c] + unsent[c] = Chunks
    /\ cpc[c] = "send" => unsent[c] > 0
    /\ cpc[c] \in {"idle", "request", "connect"} => unsent[c] = Chunks

TypeInv == TypeOK /\ ChunkInv

(* The variables have their types when the daemon starts.                  *)
LEMMA TypeInvInit == Init => TypeInv
<1> SUFFICES ASSUME Init PROVE TypeInv
  OBVIOUS
<1>1. Chunks \in Nat /\ BufSize \in Nat
  BY SizeAssumption
<1>2. /\ unsent \in [Client -> 0..Chunks] /\ buf \in [Client -> 0..BufSize]
      /\ got \in [Client -> 0..Chunks]
  BY <1>1 DEF Init
<1>3. ChunkInv
  BY <1>1 DEF Init, ChunkInv
<1>4. /\ event \in [Client -> Result] /\ result \in [Client -> Result]
      /\ served \in [Client -> Result] /\ last_install \in Result
  BY DEF Init, Result
<1>5. /\ stream_wkup \in BOOLEAN /\ ret \in BOOLEAN /\ dry_run \in BOOLEAN
  BY Zenon DEF Init
<1> QED
  BY <1>2, <1>3, <1>4, <1>5 DEF Init, TypeInv, TypeOK

(* What a client of the library does keeps the types.                      *)
LEMMA TypeInvLibrary ==
  ASSUME TypeInv, NEW c \in Client,
         \/ ipc_inst_start_ext(c) \/ progress_ipc_timeout(c) \/ ipc_postupdate(c)
         \/ Library(c)
  PROVE  TypeInv'
<1> USE SizeAssumption, ClientAssumption DEF TypeInv, TypeOK, ChunkInv, Result, inst, history
<1>1. CASE ipc_inst_start_ext(c)
  BY <1>1 DEF ipc_inst_start_ext
<1>2. CASE progress_ipc_timeout(c)
  BY <1>2 DEF progress_ipc_timeout
<1>3. CASE ipc_postupdate(c)
  BY <1>3 DEF ipc_postupdate
<1>4. CASE read_answer(c)
  BY <1>4 DEF read_answer
<1>5. CASE progress_ipc_connect(c)
  BY <1>5 DEF progress_ipc_connect
<1>6. CASE swupdate_image_write(c)
  <2>1. /\ buf[c] \in 0..BufSize /\ unsent[c] \in 0..Chunks /\ got[c] \in 0..Chunks
        /\ buf[c] < BufSize /\ unsent[c] > 0 /\ cpc[c] = "send"
    BY <1>6 DEF swupdate_image_write
  <2>2. /\ buf[c] + 1 \in 0..BufSize /\ unsent[c] - 1 \in 0..Chunks
        /\ got[c] + (buf[c] + 1) + (unsent[c] - 1) = Chunks
    BY <2>1
  <2>3. /\ buf' \in [Client -> 0..BufSize] /\ unsent' \in [Client -> 0..Chunks]
        /\ cpc' = [cpc EXCEPT ![c] = "events"]
    BY <1>6, <2>2 DEF swupdate_image_write
  <2>4. TypeOK'
    BY <1>6, <2>3 DEF swupdate_image_write
  <2>5. ChunkInv'
    BY <1>6, <2>2, <2>3 DEF swupdate_image_write
  <2> QED
    BY <2>4, <2>5
<1>7. CASE swupdate_image_write_fails(c)
  BY <1>7 DEF swupdate_image_write_fails
<1>8. CASE consume_progress_events(c)
  BY <1>8 DEF consume_progress_events
<1>9. CASE inst_wait_for_complete(c)
  BY <1>9 DEF inst_wait_for_complete
<1> QED
  BY <1>1, <1>2, <1>3, <1>4, <1>5, <1>6, <1>7, <1>8, <1>9 DEF Library

(* So does the network thread.                                             *)
LEMMA TypeInvNetwork == TypeInv /\ NetworkThread => TypeInv'
<1> SUFFICES ASSUME TypeInv, NetworkThread PROVE TypeInv'
  OBVIOUS
<1> USE SizeAssumption, ClientAssumption DEF TypeInv, TypeOK, ChunkInv, inst, client, history
<1>1. ASSUME NEW c \in Client, accept(c) PROVE TypeInv'
  BY <1>1 DEF accept
<1>2. ASSUME NEW c \in Client, POST_UPDATE(c) PROVE TypeInv'
  BY <1>2 DEF POST_UPDATE
<1>3. CASE REQ_INSTALL
  BY <1>3, Zenon DEF REQ_INSTALL, Answer
<1> QED
  BY <1>1, <1>2, <1>3 DEF NetworkThread

(* set_parms takes the request's dry_run.                                  *)
LEMMA SetParms == set_parms => dry_run' \in BOOLEAN /\ (dry_run' <=> inst_req \in DryClient)
<1> SUFFICES ASSUME set_parms
             PROVE  dry_run' \in BOOLEAN /\ (dry_run' <=> inst_req \in DryClient)
  OBVIOUS
<1>1. dry_run' = (inst_req \in DryClient)
  BY DEF set_parms
<1>2. CASE inst_req \in DryClient
  <2>1. dry_run' = TRUE
    BY <1>1, <1>2, Zenon
  <2> QED
    BY <1>2, <2>1
<1>3. CASE ~(inst_req \in DryClient)
  <2>1. (inst_req \in DryClient) = FALSE
    BY <1>3, SMT
  <2>2. dry_run' = FALSE
    BY <1>1, <2>1, Zenon
  <2> QED
    BY <1>3, <2>2, Zenon
<1> QED
  BY <1>2, <1>3

(* And the installer.                                                      *)
LEMMA TypeInvInstaller == TypeInv /\ (Installer \/ read_error) => TypeInv'
<1> SUFFICES ASSUME TypeInv, Installer \/ read_error PROVE TypeInv'
  OBVIOUS
<1> USE SizeAssumption, ClientAssumption, DirsAssumption
    DEF TypeInv, TypeOK, ChunkInv, inst, client, history
<1>1. CASE wakeup
  BY <1>1, Zenon DEF wakeup, Peer
<1>2. CASE remove_directories
  BY <1>2 DEF remove_directories
<1>9. CASE set_parms
  BY <1>9, SetParms DEF set_parms
<1>3. CASE read_chunk
  BY <1>3 DEF read_chunk, Peer
<1>4. CASE read_eof \/ read_error
  BY <1>4, Zenon DEF read_eof, read_error
<1>5. CASE close_fd
  BY <1>5 DEF close_fd
<1>6. CASE install_images
  BY <1>6 DEF install_images, Result
<1>7. CASE swupdate_progress_end
  BY <1>7 DEF swupdate_progress_end
<1>8. CASE restore_parms \/ set_idle
  BY <1>8, Zenon DEF restore_parms, set_idle
<1> QED
  BY <1>1, <1>2, <1>3, <1>4, <1>5, <1>6, <1>7, <1>8, <1>9 DEF Installer

(* And so does every step.                                                *)
LEMMA TypeInvNext == TypeInv /\ [Next]_vars => TypeInv'
<1> SUFFICES ASSUME TypeInv, [Next]_vars PROVE TypeInv'
  OBVIOUS
<1>1. CASE UNCHANGED vars
  BY <1>1 DEF TypeInv, TypeOK, ChunkInv, vars, inst, client, history
<1> QED
  BY <1>1, TypeInvLibrary, TypeInvNetwork, TypeInvInstaller DEF Next

(* For any numbers of clients, descriptors and chunks the variables keep   *)
(* their types: a buffer is never overrun, no chunk is sent twice.         *)
THEOREM IpcTypeCorrect == Spec => []TypeOK
<1>1. TypeInv => TypeOK
  BY DEF TypeInv
<1> QED
  BY <1>1, TypeInvInit, TypeInvNext, PTL DEF Spec

-----------------------------------------------------------------------------
(* An open connection belongs to the client that is served or to one that  *)
(* was acknowledged; one the installer was woken up for is the one it is   *)
(* going to close.                                                         *)
ConnInv ==
  /\ net # NoClient =>
       /\ ctrlconnfd \in Fd /\ fdtab[ctrlconnfd] \in {net, NoClient}
       /\ reply[net] = "none"
  /\ \A f \in Fd : fdtab[f] # NoClient =>
       \/ reply[fdtab[f]] = "ACK"
       \/ net = fdtab[f] /\ ctrlconnfd = f
  /\ \A f, g \in Fd : fdtab[f] # NoClient /\ fdtab[f] = fdtab[g] => f = g
  /\ \A c \in woken : reply[c] # "none" \/ net = c
  /\ \A f \in Fd : fdtab[f] \in woken =>
       /\ f = inst_fd /\ status = "RUN"
       /\ ipc \in {"wait", "dirs", "parms", "read", "close"}
  /\ status = "RUN" => ~stream_wkup
  /\ ipc # "wait" \/ job # NoClient => status = "RUN"

(* Nobody is connected at the start.                                       *)
LEMMA ConnInvInit == Init => ConnInv
BY DEF Init, ConnInv

(* Only accept, REQ_INSTALL and four steps of the installer touch what     *)
(* ConnInv speaks of.                                                      *)
LEMMA ConnInvNext == TypeInv /\ ConnInv /\ [Next]_vars => ConnInv'
<1> SUFFICES ASSUME TypeInv, ConnInv, [Next]_vars PROVE ConnInv'
  OBVIOUS
<1>0. /\ fdtab \in [Fd -> Client \cup {NoClient}] /\ reply \in [Client -> {"none", "ACK", "NACK", "EOF"}]
      /\ net \in Client \cup {NoClient} /\ woken \in SUBSET Client
      /\ inst_fd \in Fd \cup {NoFd} /\ status \in {"IDLE", "RUN"} /\ stream_wkup \in BOOLEAN
  BY DEF TypeInv, TypeOK
<1> USE ClientAssumption
<1>1. ASSUME NEW c \in Client, accept(c) PROVE ConnInv'
  <2>1. PICK f \in Fd : /\ fdtab[f] = NoClient
                        /\ fdtab' = [fdtab EXCEPT ![f] = c] /\ ctrlconnfd' = f
    BY <1>1, Zenon DEF accept
  <2>2. /\ net = NoClient /\ net' = c /\ reply[c] = "none"
        /\ UNCHANGED <<reply, woken, inst_fd, status, stream_wkup, ipc, job>>
    BY <1>1 DEF accept, inst, client, history
  <2>3. /\ fdtab'[f] = c /\ \A g \in Fd : g # f => fdtab'[g] = fdtab[g]
        /\ \A g \in Fd : fdtab[g] # c
    BY <1>0, <2>1, <2>2 DEF ConnInv
  <2>4. c \notin woken
    BY <2>2 DEF ConnInv
  <2> QED
    BY <1>0, <2>1, <2>2, <2>3, <2>4 DEF ConnInv
<1>2. CASE REQ_INSTALL
  <2>1. /\ net # NoClient /\ net \in Client /\ net' = NoClient /\ UNCHANGED <<status, ipc, job, woken>>
        /\ ctrlconnfd \in Fd /\ fdtab[ctrlconnfd] \in {net, NoClient}
    BY <1>0, <1>2 DEF REQ_INSTALL, history, ConnInv
  <2>2. /\ fdtab' \in {fdtab, [fdtab EXCEPT ![ctrlconnfd] = NoClient]}
        /\ reply' = [reply EXCEPT ![net] = reply'[net]] /\ reply'[net] # "none"
        /\ fdtab'[ctrlconnfd] # NoClient => reply'[net] = "ACK"
    BY <1>0, <1>2, <2>1 DEF REQ_INSTALL, Answer
  <2>3. /\ status = "RUN" => inst_fd' = inst_fd /\ stream_wkup' = stream_wkup
        /\ \A f \in Fd : fdtab'[f] = fdtab[f] \/ fdtab'[f] = NoClient
    BY <1>0, <1>2, <2>2 DEF REQ_INSTALL
  <2>4. \A f \in Fd : fdtab'[f] # NoClient => reply'[fdtab'[f]] = "ACK"
    <3> SUFFICES ASSUME NEW f \in Fd, fdtab'[f] # NoClient PROVE reply'[fdtab'[f]] = "ACK"
      OBVIOUS
    <3>1. CASE f = ctrlconnfd
      BY <1>0, <2>1, <2>2, <2>3, <3>1
    <3>2. CASE f # ctrlconnfd
      <4>1. fdtab'[f] = fdtab[f] /\ reply[fdtab[f]] = "ACK" /\ fdtab[f] # net
        BY <1>0, <2>1, <2>3, <3>2 DEF ConnInv
      <4> QED
        BY <1>0, <2>1, <2>2, <4>1
    <3> QED
      BY <3>1, <3>2
  <2>5. \A c \in woken : reply'[c] # "none"
    BY <1>0, <2>1, <2>2 DEF ConnInv
  <2> QED
    BY <1>0, <2>1, <2>3, <2>4, <2>5 DEF ConnInv
<1>3. CASE wakeup
  <2>1. /\ stream_wkup /\ status' = "RUN" /\ ipc' = "dirs" /\ ~stream_wkup'
        /\ job' = Peer(inst_fd) /\ woken' = woken \cup ({job'} \ {NoClient})
        /\ UNCHANGED <<net, ctrlconnfd, fdtab, inst_fd, reply>>
    BY <1>3 DEF wakeup, client
  <2>2. \A f \in Fd : fdtab[f] \notin woken
    BY <1>0, <2>1 DEF ConnInv
  <2>3. \A c \in woken' \ woken : /\ inst_fd \in Fd /\ c = fdtab[inst_fd] /\ c # NoClient
    BY <1>0, <2>1 DEF Peer
  <2> QED
    BY <1>0, <2>1, <2>2, <2>3 DEF ConnInv
<1>4. CASE close_fd
  <2>1. /\ ipc = "close" /\ ipc' = "install"
        /\ fdtab' = IF inst_fd \in Fd THEN [fdtab EXCEPT ![inst_fd] = NoClient] ELSE fdtab
        /\ UNCHANGED <<net, ctrlconnfd, inst_fd, reply, woken, status, stream_wkup, job>>
    BY <1>4 DEF close_fd, inst, client, history
  <2>2. \A f \in Fd : /\ fdtab'[f] = fdtab[f] \/ fdtab'[f] = NoClient
                      /\ fdtab'[f] \notin woken
    BY <1>0, <2>1 DEF ConnInv
  <2> QED
    BY <1>0, <2>1, <2>2 DEF ConnInv
<1>5. CASE set_idle
  BY <1>0, <1>5 DEF set_idle, client, ConnInv
<1>6. CASE /\ ipc \notin {"wait", "close"} /\ ipc' \in {"wait", "parms", "read", "close", "end", "restore", "idle"}
           /\ ipc \in {"dirs", "parms", "read"} => ipc' \in {"wait", "parms", "read", "close"}
           /\ ipc' = "wait" => ipc = "dirs"
           /\ UNCHANGED <<net, ctrlconnfd, fdtab, inst_fd, reply, woken, status, stream_wkup, job>>
  BY <1>0, <1>6 DEF ConnInv
<1>7. CASE UNCHANGED <<net, ctrlconnfd, fdtab, inst_fd, reply, woken, status, stream_wkup, job, ipc>>
  BY <1>7 DEF ConnInv
<1>8. CASE remove_directories \/ set_parms \/ read_chunk \/ read_eof \/ read_error
             \/ install_images \/ swupdate_progress_end \/ restore_parms
  BY <1>6, <1>8 DEF remove_directories, set_parms, read_chunk, read_eof, read_error,
     install_images, swupdate_progress_end, restore_parms, inst, client, history
<1>9. ASSUME NEW c \in Client,
             \/ ipc_inst_start_ext(c) \/ progress_ipc_timeout(c) \/ ipc_postupdate(c)
             \/ Library(c) \/ POST_UPDATE(c)
      PROVE  ConnInv'
  BY <1>7, <1>9 DEF ipc_inst_start_ext, progress_ipc_timeout, ipc_postupdate, Library,
     read_answer, progress_ipc_connect, swupdate_image_write, swupdate_image_write_fails,
     consume_progress_events, inst_wait_for_complete, POST_UPDATE, inst, history
<1>10. CASE UNCHANGED vars
  BY <1>7, <1>10 DEF vars, inst, client, history
<1> QED
  BY <1>1, <1>2, <1>3, <1>4, <1>5, <1>8, <1>9, <1>10 DEF Next, NetworkThread, Installer

(* With any number of clients no connection of a client that was served    *)
(* stays open: close_fd closes what the installer was woken up for.        *)
THEOREM LeakCorrect == Spec => []NoLeak
<1>1. TypeInv /\ ConnInv => NoLeak
  BY ClientAssumption DEF TypeInv, TypeOK, ConnInv, NoLeak, IfAcked
<1> QED
  BY <1>1, TypeInvInit, TypeInvNext, ConnInvInit, ConnInvNext, PTL DEF Spec

-----------------------------------------------------------------------------
(* inst.fd and inst.req name the same request, and the parameters follow.  *)
ParmsInv ==
  /\ IfAcked(Peer(inst_fd)) # NoClient => inst_req = Peer(inst_fd)
  /\ ipc \in {"dirs", "parms"} /\ IfAcked(job) # NoClient => inst_req = job
  /\ ipc \in {"wait", "dirs", "parms", "idle"} => ~dry_run
  /\ IfAcked(job) # NoClient /\ ipc \in {"read", "close", "install"} =>
       (dry_run <=> job \in DryClient)

(* There is no request at the start.                                       *)
LEMMA ParmsInvInit == Init => ParmsInv
<1> SUFFICES ASSUME Init PROVE ParmsInv
  OBVIOUS
<1>1. inst_fd \notin Fd /\ job = NoClient /\ ipc = "wait"
  BY DEF Init, Fd, NoFd
<1>2. ~dry_run
  BY DEF Init
<1> QED
  BY <1>1, <1>2 DEF ParmsInv, IfAcked, Peer

(* A client is not acknowledged while the installer works, and nothing     *)
(* else changes who is behind inst.fd but a new connection or its end.     *)
LEMMA ParmsInvNext == TypeInv /\ ConnInv /\ ParmsInv /\ [Next]_vars => ParmsInv'
<1> SUFFICES ASSUME TypeInv, ConnInv, ParmsInv, [Next]_vars PROVE ParmsInv'
  OBVIOUS
<1>0. /\ fdtab \in [Fd -> Client \cup {NoClient}] /\ reply \in [Client -> {"none", "ACK", "NACK", "EOF"}]
      /\ net \in Client \cup {NoClient} /\ job \in Client \cup {NoClient}
      /\ inst_fd \in Fd \cup {NoFd} /\ status \in {"IDLE", "RUN"} /\ dry_run \in BOOLEAN
  BY DEF TypeInv, TypeOK
<1> USE ClientAssumption
<1>1. ASSUME NEW c \in Client, accept(c) PROVE ParmsInv'
  <2>1. /\ \E f \in Fd : fdtab' = [fdtab EXCEPT ![f] = c]
        /\ reply[c] = "none" /\ UNCHANGED <<reply, inst_fd, inst_req, ipc, job, dry_run>>
    BY <1>1, Zenon DEF accept, inst, client, history
  <2>2. Peer(inst_fd)' = Peer(inst_fd) \/ Peer(inst_fd)' = c
    BY <1>0, <2>1 DEF Peer
  <2> QED
    BY <1>0, <2>1, <2>2 DEF ParmsInv, IfAcked
<1>2. CASE REQ_INSTALL
  <2>1. /\ net # NoClient /\ net \in Client /\ UNCHANGED <<status, ipc, job, dry_run>>
        /\ ctrlconnfd \in Fd /\ fdtab[ctrlconnfd] \in {net, NoClient}
        /\ fdtab' \in {fdtab, [fdtab EXCEPT ![ctrlconnfd] = NoClient]}
        /\ reply' = [reply EXCEPT ![net] = reply'[net]]
    BY <1>0, <1>2, Zenon DEF REQ_INSTALL, Answer, history, ConnInv
  <2>2. CASE status = "IDLE"
    <3>1. inst_fd' = ctrlconnfd /\ inst_req' = net /\ Peer(inst_fd)' \in {net, NoClient}
      BY <1>0, <1>2, <2>1, <2>2 DEF REQ_INSTALL, Peer
    <3>2. job = NoClient /\ ipc = "wait"
      BY <2>2 DEF ConnInv
    <3> QED
      BY <2>1, <3>1, <3>2 DEF ParmsInv, IfAcked
  <2>3. CASE status = "RUN"
    <3>1. inst_fd' = inst_fd /\ inst_req' = inst_req /\ reply'[net] \in {"NACK", "EOF"}
      BY <1>0, <1>2, <2>1, <2>3 DEF REQ_INSTALL, Answer
    <3>2. Peer(inst_fd)' \in {Peer(inst_fd), NoClient}
      BY <1>0, <2>1, <3>1 DEF Peer
    <3>3. ASSUME NEW c \in Client \cup {NoClient}, IfAcked(c)' # NoClient
          PROVE  IfAcked(c) # NoClient
      BY <1>0, <2>1, <3>1, <3>3 DEF IfAcked
    <3>4. Peer(inst_fd) \in Client \cup {NoClient}
      BY <1>0 DEF Peer
    <3>5. IfAcked(NoClient)' = NoClient
      BY DEF IfAcked
    <3>6. IfAcked(Peer(inst_fd))' # NoClient =>
            Peer(inst_fd)' = Peer(inst_fd) /\ IfAcked(Peer(inst_fd)) # NoClient
      BY <1>0, <2>1, <3>1, <3>2, <3>4 DEF IfAcked
    <3>7. IfAcked(job)' # NoClient => IfAcked(job) # NoClient
      BY <1>0, <2>1, <3>1 DEF IfAcked
    <3> QED
      BY <2>1, <3>1, <3>6, <3>7 DEF ParmsInv
  <2> QED
    BY <1>0, <2>2, <2>3
<1>3. CASE wakeup
  BY <1>3 DEF wakeup, client, ParmsInv, IfAcked, Peer
<1>4. CASE set_parms
  BY <1>4, SetParms DEF set_parms, inst, client, history, ParmsInv, IfAcked, Peer
<1>5. CASE close_fd
  <2>1. /\ ipc = "close" /\ ipc' = "install"
        /\ fdtab' = IF inst_fd \in Fd THEN [fdtab EXCEPT ![inst_fd] = NoClient] ELSE fdtab
        /\ UNCHANGED <<inst_fd, inst_req, reply, job, dry_run>>
    BY <1>5 DEF close_fd, inst, client, history
  <2>2. Peer(inst_fd)' = NoClient
    BY <1>0, <2>1 DEF Peer
  <2> QED
    BY <2>1, <2>2 DEF ParmsInv, IfAcked
<1>6. CASE set_idle
  BY <1>6, Zenon DEF set_idle, client, ParmsInv, IfAcked, Peer
<1>7. CASE restore_parms
  BY <1>7, Zenon DEF restore_parms, inst, client, history, ParmsInv, IfAcked, Peer
<1>8. CASE /\ UNCHANGED <<fdtab, inst_fd, inst_req, reply, job, dry_run>>
           /\ \/ ipc' = ipc
              \/ ipc = "dirs" /\ ipc' \in {"wait", "parms"}
              \/ ipc \in {"read", "close"} /\ ipc' \in {"read", "close"}
              \/ ipc' \in {"end", "restore"}
  BY <1>8 DEF ParmsInv, IfAcked, Peer
<1>9. CASE remove_directories \/ read_chunk \/ read_eof \/ read_error
             \/ install_images \/ swupdate_progress_end \/ UNCHANGED vars
  BY <1>8, <1>9 DEF remove_directories, read_chunk, read_eof, read_error,
     install_images, swupdate_progress_end, vars, inst, client, history
<1>10. ASSUME NEW c \in Client,
             \/ ipc_inst_start_ext(c) \/ progress_ipc_timeout(c) \/ ipc_postupdate(c)
             \/ Library(c) \/ POST_UPDATE(c)
      PROVE  ParmsInv'
  BY <1>8, <1>10 DEF ipc_inst_start_ext, progress_ipc_timeout, ipc_postupdate, Library,
     read_answer, progress_ipc_connect, swupdate_image_write, swupdate_image_write_fails,
     consume_progress_events, inst_wait_for_complete, POST_UPDATE, inst, history
<1> QED
  BY <1>1, <1>2, <1>3, <1>4, <1>5, <1>6, <1>7, <1>9, <1>10
     DEF Next, NetworkThread, Installer

(* The next update starts from the configured parameters, whatever became  *)
(* of this one.                                                            *)
THEOREM ParmsCorrect == Spec => []ParmsRestored
<1>1. ParmsInv => ParmsRestored
  BY DEF ParmsInv, ParmsRestored
<1> QED
  BY <1>1, TypeInvInit, TypeInvNext, ConnInvInit, ConnInvNext, ParmsInvInit, ParmsInvNext,
     PTL DEF Spec

(* Every acknowledged image is installed with the parameters its own       *)
(* client sent, however the requests of others interleave.                 *)
THEOREM OwnParmsCorrect == Spec => []OwnParms
<1>1. TypeInv /\ ParmsInv => OwnParms
  <2> SUFFICES ASSUME TypeInv, ParmsInv, IfAcked(job) # NoClient,
                      ipc \in {"read", "close", "install"}
               PROVE  dry_run = (job \in DryClient)
    BY DEF OwnParms
  <2>1. dry_run <=> job \in DryClient
    BY DEF ParmsInv
  <2>2. dry_run \in BOOLEAN
    BY DEF TypeInv, TypeOK
  <2> QED
    BY <2>1, <2>2, SMT
<1> QED
  BY <1>1, TypeInvInit, TypeInvNext, ConnInvInit, ConnInvNext, ParmsInvInit, ParmsInvNext,
     PTL DEF Spec

-----------------------------------------------------------------------------
(* A client that is not acknowledged has sent nothing and hears nothing;   *)
(* one that sends or waits is registered; the post-update command follows  *)
(* a success.                                                              *)
AckInv ==
  /\ net # NoClient => cpc[net] = "request"
  /\ \A c \in Client : reply[c] # "ACK" =>
       /\ cpc[c] \in {"idle", "request", "done"} /\ c \notin conns
       /\ event[c] = "none" /\ result[c] \in {"none", "REFUSED"}
       /\ unsent[c] = Chunks
  /\ \A c \in Client : cpc[c] \in {"send", "events", "wait"} => c \in conns
  /\ \A c \in Client : cpc[c] \in {"post", "end"} => result[c] = "SUCCESS"
  /\ \A c \in Client : cpc[c] \notin {"done", "post", "end"} => result[c] = "none"
  /\ \A c \in posted : cpc[c] = "end"

(* The client behind inst.fd that the installer is not yet woken up for    *)
(* has not heard of a result.                                              *)
PendingInv ==
  \A c \in Client :
    c = Peer(inst_fd) /\ c \notin woken /\ reply[c] = "ACK" =>
      /\ status = "IDLE" /\ event[c] = "none" /\ result[c] # "SUCCESS"
      /\ result[c] = "FAILURE" => unsent[c] > 0

(* Until its image is installed the client of this update has not heard of *)
(* a result either, and only a complete image can be installed.            *)
JobInv ==
  /\ job \in woken \cup {NoClient}
  /\ \A f \in Fd : fdtab[f] \in woken => job = fdtab[f]
  /\ job # NoClient /\ ipc \in {"wait", "dirs", "parms", "read", "close", "install"} =>
       served[job] = "none" /\ event[job] = "none" /\ result[job] # "SUCCESS"
  /\ job # NoClient /\ ipc = "end" =>
       /\ served[job] = last_install /\ served[job] # "none"
       /\ event[job] = "none" /\ result[job] # "SUCCESS"
  /\ job # NoClient /\ ipc \in {"close", "install"} /\ ret => got[job] = Chunks

(* What a client that was served hears, if it still listens, is its own    *)
(* result.                                                                 *)
ResultInv ==
  /\ \A c \in Client : served[c] # "none" => c \in woken
  /\ \A c \in Client : served[c] = "SUCCESS" => got[c] = Chunks
  /\ \A c \in woken :
       /\ result[c] = "SUCCESS" => served[c] = "SUCCESS"
       /\ result[c] = "FAILURE" => served[c] # "SUCCESS"
       /\ result[c] = "FAILURE" /\ served[c] = "none" => unsent[c] > 0
       /\ cpc[c] \in {"events", "wait"} =>
            \/ /\ event[c] = "none" /\ job = c
               /\ ipc \in {"wait", "dirs", "parms", "read", "close", "install", "end"}
            \/ event[c] = served[c] /\ served[c] # "none"

(* Nobody has asked at the start.                                          *)
LEMMA ResultInit == Init => AckInv /\ PendingInv /\ JobInv /\ ResultInv
<1> SUFFICES ASSUME Init PROVE AckInv /\ PendingInv /\ JobInv /\ ResultInv
  OBVIOUS
<1>1. inst_fd \notin Fd
  BY DEF Init, Fd, NoFd
<1> QED
  BY <1>1, ClientAssumption DEF Init, AckInv, PendingInv, JobInv, ResultInv, Peer

(* The types these proofs use.                                             *)
ResultTypes ==
  /\ fdtab \in [Fd -> Client \cup {NoClient}]
  /\ net \in Client \cup {NoClient} /\ job \in Client \cup {NoClient}
  /\ inst_fd \in Fd \cup {NoFd} /\ status \in {"IDLE", "RUN"}
  /\ reply \in [Client -> {"none", "ACK", "NACK", "EOF"}]
  /\ cpc \in [Client -> {"idle", "request", "connect", "send", "events", "wait",
                         "done", "post", "end"}]
  /\ event \in [Client -> Result] /\ result \in [Client -> Result]
  /\ served \in [Client -> Result]
  /\ unsent \in [Client -> Nat] /\ buf \in [Client -> Nat] /\ got \in [Client -> Nat]
  /\ woken \in SUBSET Client /\ conns \in SUBSET Client /\ posted \in SUBSET Client

(* They follow from the type invariant.                                    *)
LEMMA ResultTypesHold == TypeInv => ResultTypes
BY SizeAssumption DEF TypeInv, TypeOK, ResultTypes

(* Acknowledged clients: one step for each action that concerns them.      *)
LEMMA AckInvNext == TypeInv /\ ConnInv /\ AckInv /\ [Next]_vars => AckInv'
<1> SUFFICES ASSUME TypeInv, ConnInv, AckInv, [Next]_vars PROVE AckInv'
  OBVIOUS
<1>0. ResultTypes /\ ChunkInv
  BY ResultTypesHold DEF TypeInv
<1> USE ClientAssumption DEF ResultTypes
<1>1. ASSUME NEW c \in Client, accept(c) PROVE AckInv'
  BY <1>0, <1>1 DEF accept, client, history, AckInv
<1>2. CASE REQ_INSTALL
  <2>1. /\ net # NoClient /\ net' = NoClient /\ reply' = [reply EXCEPT ![net] = reply'[net]]
        /\ UNCHANGED <<cpc, conns, event, result, unsent, posted>>
    BY <1>0, <1>2, Zenon DEF REQ_INSTALL, Answer, history
  <2>2. reply[net] = "none"
    BY <2>1 DEF ConnInv
  <2> QED
    BY <1>0, <2>1, <2>2 DEF AckInv
<1>3. ASSUME NEW c \in Client, POST_UPDATE(c) PROVE AckInv'
  BY <1>0, <1>3 DEF POST_UPDATE, AckInv
<1>4. ASSUME NEW c \in Client, ipc_inst_start_ext(c) PROVE AckInv'
  BY <1>0, <1>4 DEF ipc_inst_start_ext, history, AckInv
<1>5. ASSUME NEW c \in Client, progress_ipc_timeout(c) PROVE AckInv'
  BY <1>0, <1>5 DEF progress_ipc_timeout, history, AckInv
<1>6. ASSUME NEW c \in Client, ipc_postupdate(c) PROVE AckInv'
  BY <1>0, <1>6 DEF ipc_postupdate, history, AckInv
<1>7. ASSUME NEW c \in Client, read_answer(c) PROVE AckInv'
  BY <1>0, <1>7 DEF read_answer, history, AckInv, ConnInv
<1>8. ASSUME NEW c \in Client, progress_ipc_connect(c) PROVE AckInv'
  BY <1>0, <1>8 DEF progress_ipc_connect, history, AckInv
<1>9. ASSUME NEW c \in Client, swupdate_image_write(c) PROVE AckInv'
  BY <1>0, <1>9 DEF swupdate_image_write, history, AckInv
<1>10. ASSUME NEW c \in Client, swupdate_image_write_fails(c) PROVE AckInv'
  BY <1>0, <1>10 DEF swupdate_image_write_fails, history, AckInv
<1>11. ASSUME NEW c \in Client, consume_progress_events(c) PROVE AckInv'
  BY <1>0, <1>11 DEF consume_progress_events, history, AckInv
<1>12. ASSUME NEW c \in Client, inst_wait_for_complete(c) PROVE AckInv'
  BY <1>0, <1>12 DEF inst_wait_for_complete, history, AckInv
<1>13. CASE swupdate_progress_end
  BY <1>0, <1>13 DEF swupdate_progress_end, history, AckInv
<1>14. CASE UNCHANGED <<net, cpc, reply, conns, event, result, unsent, posted>>
  BY <1>14 DEF AckInv
<1>15. CASE wakeup \/ remove_directories \/ set_parms \/ read_chunk \/ read_eof \/ read_error
              \/ close_fd \/ install_images \/ restore_parms \/ set_idle \/ UNCHANGED vars
  BY <1>14, <1>15 DEF wakeup, remove_directories, set_parms, read_chunk, read_eof, read_error,
     close_fd, install_images, restore_parms, set_idle, vars, client, history
<1> QED
  BY <1>1, <1>2, <1>3, <1>4, <1>5, <1>6, <1>7, <1>8, <1>9, <1>10, <1>11, <1>12, <1>13, <1>15
     DEF Next, NetworkThread, Installer, Library

AllInv == TypeInv /\ ConnInv /\ AckInv /\ PendingInv /\ JobInv /\ ResultInv

(* What a client does: it takes a result only from an event of its own     *)
(* update, and gives up only before all of its image was sent.             *)
LEMMA ResultLibrary ==
  ASSUME AllInv, NEW c \in Client,
         \/ ipc_inst_start_ext(c) \/ progress_ipc_timeout(c) \/ ipc_postupdate(c)
         \/ Library(c) \/ POST_UPDATE(c)
  PROVE  PendingInv' /\ JobInv' /\ ResultInv'
<1>0. ResultTypes /\ ChunkInv
  BY ResultTypesHold DEF TypeInv, AllInv
<1> USE ClientAssumption, SizeAssumption DEF ResultTypes, AllInv
<1>1. ASSUME UNCHANGED <<fdtab, inst_fd, reply, woken, status, job, ipc, ret, last_install,
                         event, served, got>>
      PROVE  Peer(inst_fd)' = Peer(inst_fd)
  BY <1>1 DEF Peer
<1>2. CASE ipc_inst_start_ext(c) \/ ipc_postupdate(c) \/ POST_UPDATE(c)
             \/ progress_ipc_connect(c) \/ read_answer(c)
  <2>1. /\ UNCHANGED <<fdtab, inst_fd, reply, woken, status, job, ipc, ret, last_install,
                       event, served, got, unsent>>
        /\ cpc'[c] \notin {"events", "wait"} /\ cpc' = [cpc EXCEPT ![c] = cpc'[c]]
        /\ result' = result \/ result' = [result EXCEPT ![c] = "REFUSED"]
    <3>1. CASE ipc_inst_start_ext(c)
      BY <1>0, <3>1 DEF ipc_inst_start_ext, inst, history
    <3>2. CASE ipc_postupdate(c) \/ POST_UPDATE(c)
      BY <1>0, <3>2 DEF ipc_postupdate, POST_UPDATE, inst, history
    <3>3. CASE progress_ipc_connect(c)
      BY <1>0, <3>3 DEF progress_ipc_connect, inst, history
    <3>4. CASE read_answer(c)
      BY <1>0, <3>4, Zenon DEF read_answer, inst, history
    <3> QED
      BY <1>2, <3>1, <3>2, <3>3, <3>4
  <2>2. PendingInv'
    BY <1>0, <1>1, <2>1 DEF PendingInv
  <2>3. JobInv'
    BY <1>0, <2>1 DEF JobInv
  <2>4. ResultInv'
    BY <1>0, <2>1 DEF ResultInv
  <2> QED
    BY <2>2, <2>3, <2>4
<1>3. CASE progress_ipc_timeout(c) \/ swupdate_image_write_fails(c)
  <2>1. /\ UNCHANGED <<fdtab, inst_fd, reply, woken, status, job, ipc, ret, last_install,
                       event, served, got, unsent>>
        /\ cpc' = [cpc EXCEPT ![c] = "done"] /\ result' = [result EXCEPT ![c] = "FAILURE"]
    BY <1>3 DEF progress_ipc_timeout, swupdate_image_write_fails, inst, history
  <2>2. unsent[c] > 0 /\ got[c] # Chunks
    BY <1>0, <1>3 DEF ChunkInv, progress_ipc_timeout, swupdate_image_write_fails
  <2>3. PendingInv'
    BY <1>0, <1>1, <2>1, <2>2 DEF PendingInv
  <2>4. JobInv'
    BY <1>0, <2>1 DEF JobInv
  <2>5. ResultInv'
    BY <1>0, <2>1, <2>2 DEF ResultInv
  <2> QED
    BY <2>3, <2>4, <2>5
<1>4. CASE swupdate_image_write(c)
  <2>1. /\ UNCHANGED <<fdtab, inst_fd, reply, woken, status, job, ipc, ret, last_install,
                       event, served, got, result>>
        /\ cpc' = [cpc EXCEPT ![c] = "events"] /\ unsent' = [unsent EXCEPT ![c] = @ - 1]
        /\ cpc[c] = "send" /\ \E f \in Fd : fdtab[f] = c
    BY <1>4 DEF swupdate_image_write, Open, inst, history
  <2>2. result[c] # "FAILURE"
    BY <1>0, <2>1 DEF AckInv
  <2>3. PendingInv'
    BY <1>0, <1>1, <2>1, <2>2 DEF PendingInv
  <2>4. JobInv'
    BY <1>0, <2>1 DEF JobInv
  <2>5. c \in woken => /\ job = c /\ event[c] = "none"
                       /\ ipc \in {"wait", "dirs", "parms", "read", "close"}
    BY <1>0, <2>1 DEF JobInv, ConnInv
  <2>6. ResultInv'
    BY <1>0, <2>1, <2>2, <2>5 DEF ResultInv
  <2> QED
    BY <2>3, <2>4, <2>6
<1>5. CASE consume_progress_events(c) \/ inst_wait_for_complete(c)
  <2>1. /\ UNCHANGED <<fdtab, inst_fd, reply, woken, status, job, ipc, ret, last_install,
                       event, served, got, unsent>>
        /\ cpc[c] \in {"events", "wait"}
        /\ \/ /\ event[c] # "none" /\ cpc' = [cpc EXCEPT ![c] = "done"]
              /\ result' = [result EXCEPT ![c] = event[c]]
           \/ /\ event[c] = "none" /\ result' = result
              /\ cpc' = [cpc EXCEPT ![c] = cpc'[c]] /\ cpc'[c] \in {"send", "wait"}
    BY <1>0, <1>5 DEF consume_progress_events, inst_wait_for_complete, inst, history
  <2>2. c \in woken /\ event[c] # "none" => event[c] = served[c] /\ served[c] # "none"
    BY <2>1, Zenon DEF ResultInv
  <2>3. PendingInv'
    BY <1>0, <1>1, <2>1 DEF PendingInv
  <2>4. JobInv'
    <3>1. job = c /\ ipc \in {"wait", "dirs", "parms", "read", "close", "install", "end"}
            => event[c] = "none"
      BY <1>0 DEF JobInv
    <3> QED
      BY <1>0, <2>1, <3>1 DEF JobInv
  <2>5. ResultInv'
    <3>1. CASE event[c] # "none"
      BY <1>0, <2>1, <2>2, <3>1 DEF ResultInv
    <3>2. CASE event[c] = "none"
      BY <1>0, <2>1, <3>2 DEF ResultInv
    <3> QED
      BY <3>1, <3>2
  <2> QED
    BY <2>3, <2>4, <2>5
<1> QED
  BY <1>2, <1>3, <1>4, <1>5 DEF Library

(* What the network thread does: nobody is acknowledged while the          *)
(* installer works.                                                        *)
LEMMA ResultNetwork ==
  ASSUME AllInv, (\E c \in Client : accept(c)) \/ REQ_INSTALL
  PROVE  PendingInv' /\ JobInv' /\ ResultInv'
<1>0. ResultTypes /\ ChunkInv
  BY ResultTypesHold DEF TypeInv, AllInv
<1> USE ClientAssumption, SizeAssumption DEF ResultTypes, AllInv
<1>1. ASSUME NEW c \in Client, accept(c) PROVE PendingInv' /\ JobInv' /\ ResultInv'
  <2>1. PICK f \in Fd : fdtab' = [fdtab EXCEPT ![f] = c]
    BY <1>1, Zenon DEF accept
  <2>2. /\ UNCHANGED <<inst_fd, reply, woken, status, job, ipc, ret, last_install,
                       event, served, got, unsent, cpc, result>>
        /\ net = NoClient /\ reply[c] = "none" /\ c \notin woken
    BY <1>1 DEF accept, inst, client, history, ConnInv
  <2>3. Peer(inst_fd)' \in {Peer(inst_fd), c}
    BY <1>0, <2>1, <2>2 DEF Peer
  <2>4. PendingInv'
    BY <2>2, <2>3, Zenon DEF PendingInv
  <2>5. JobInv'
    BY <1>0, <2>1, <2>2 DEF JobInv
  <2>6. ResultInv'
    BY <2>2, Zenon DEF ResultInv
  <2> QED
    BY <2>4, <2>5, <2>6
<1>2. CASE REQ_INSTALL
  <2>1. /\ net \in Client /\ ctrlconnfd \in Fd /\ fdtab[ctrlconnfd] \in {net, NoClient}
        /\ reply[net] = "none" /\ reply' = [reply EXCEPT ![net] = reply'[net]]
        /\ fdtab' \in {fdtab, [fdtab EXCEPT ![ctrlconnfd] = NoClient]}
        /\ UNCHANGED <<woken, status, job, ipc, ret, last_install, event, served, got,
                       unsent, cpc, result>>
    BY <1>0, <1>2, Zenon DEF REQ_INSTALL, Answer, history, ConnInv
  <2>2. PendingInv'
    <3>1. CASE status = "IDLE"
      <4>1. inst_fd' = ctrlconnfd /\ Peer(inst_fd)' \in {net, NoClient}
        BY <1>0, <1>2, <2>1, <3>1 DEF REQ_INSTALL, Peer
      <4>2. /\ event[net] = "none" /\ result[net] \in {"none", "REFUSED"}
            /\ status' = "IDLE" /\ event' = event /\ result' = result /\ net \in Client
        BY <2>1, <3>1, Zenon DEF AckInv
      <4>3. ASSUME NEW d \in Client, d = Peer(inst_fd)' PROVE d = net
        BY <4>1, <4>3
      <4> QED
        BY <4>2, <4>3, Zenon DEF PendingInv
    <3>2. CASE status = "RUN"
      <4>1. inst_fd' = inst_fd /\ reply'[net] # "ACK"
        BY <1>0, <1>2, <2>1, <3>2 DEF REQ_INSTALL, Answer
      <4>2. Peer(inst_fd)' \in {Peer(inst_fd), NoClient}
        BY <1>0, <2>1, <4>1 DEF Peer
      <4>3. ASSUME NEW d \in Client, d = Peer(inst_fd)', reply'[d] = "ACK"
            PROVE  d = Peer(inst_fd) /\ reply[d] = "ACK"
        BY <1>0, <2>1, <4>1, <4>2, <4>3
      <4>4. \A d \in Client : d = Peer(inst_fd) /\ reply[d] = "ACK" => d \in woken'
        BY <2>1, <3>2, Zenon DEF PendingInv
      <4> QED
        BY <4>3, <4>4 DEF PendingInv
    <3> QED
      BY <1>0, <3>1, <3>2
  <2>3. JobInv'
    BY <1>0, <2>1 DEF JobInv
  <2>4. ResultInv'
    BY <2>1, Zenon DEF ResultInv
  <2> QED
    BY <2>2, <2>3, <2>4
<1> QED
  BY <1>1, <1>2

(* What the installer does: it reads from the client it was woken up for,  *)
(* and tells the result before it can be woken up for another.             *)
LEMMA ResultInstaller ==
  ASSUME AllInv, Installer \/ read_error
  PROVE  PendingInv' /\ JobInv' /\ ResultInv'
<1>0. ResultTypes /\ ChunkInv
  BY ResultTypesHold DEF TypeInv, AllInv
<1> USE ClientAssumption, SizeAssumption DEF ResultTypes, AllInv
<1>1. CASE wakeup
  <2>1. /\ stream_wkup /\ ipc' = "dirs" /\ job' = Peer(inst_fd)
        /\ woken' = woken \cup ({job'} \ {NoClient})
        /\ UNCHANGED <<fdtab, inst_fd, reply, event, served, got, unsent, cpc, result, last_install>>
    BY <1>1 DEF wakeup, client
  <2>2. job = NoClient /\ \A f \in Fd : fdtab[f] \notin woken
    BY <1>0, <2>1 DEF ConnInv
  <2>3. job' # NoClient => /\ job' \in Client /\ job' \notin woken
                           /\ served[job'] = "none" /\ event[job'] = "none"
                           /\ result[job'] # "SUCCESS"
                           /\ result[job'] = "FAILURE" => unsent[job'] > 0
    BY <1>0, <2>1, <2>2 DEF Peer, PendingInv, AckInv, ResultInv
  <2>4. PendingInv'
    BY <2>1, Zenon DEF PendingInv, Peer
  <2>5. JobInv'
    <3>1. \A f \in Fd : fdtab'[f] \in woken' => job' = fdtab'[f]
      BY <2>1, <2>2
    <3> QED
      BY <2>1, <2>3, <3>1, Zenon DEF JobInv
  <2>6. ResultInv'
    <3>1. \A c \in woken : cpc[c] \in {"events", "wait"} =>
                             event[c] = served[c] /\ served[c] # "none"
      BY <1>0, <2>2 DEF ResultInv
    <3> QED
      BY <1>0, <2>1, <2>3, <3>1 DEF ResultInv
  <2> QED
    BY <2>4, <2>5, <2>6
<1>2. CASE read_chunk
  <2> DEFINE c == Peer(inst_fd)
  <2>1. /\ c # NoClient /\ buf[c] > 0 /\ ipc = "read" /\ got' = [got EXCEPT ![c] = @ + 1]
        /\ ipc' = IF got[c] + 1 = Chunks THEN "close" ELSE "read"
        /\ UNCHANGED <<fdtab, inst_fd, reply, woken, status, job, ret, last_install, event,
                       served, unsent, cpc, result>>
    BY <1>2 DEF read_chunk, inst
  <2>2. c \in Client /\ inst_fd \in Fd /\ fdtab[inst_fd] = c
    BY <1>0, <2>1 DEF Peer
  <2>3. Peer(inst_fd)' = c
    BY <2>1 DEF Peer
  <2> HIDE DEF c
  <2>4. reply[c] = "ACK" /\ status = "RUN"
    <3>1. got[c] \in Nat /\ unsent[c] \in Nat /\ buf[c] \in Nat /\ unsent[c] # Chunks
      BY <1>0, <2>1, <2>2 DEF ChunkInv
    <3>2. net # c
      BY <1>0, <2>2, <3>1 DEF ChunkInv, AckInv
    <3> QED
      BY <2>1, <2>2, <3>2 DEF ConnInv
  <2>5. c \in woken /\ job = c
    BY <2>2, <2>4, Zenon DEF PendingInv, JobInv, c
  <2>6. PendingInv'
    BY <2>1, <2>3, <2>5 DEF PendingInv
  <2>7. served[c] = "none"
    BY <1>0, <2>1, <2>2, <2>5 DEF JobInv
  <2>8. JobInv'
    BY <1>0, <2>1, <2>2, <2>5 DEF JobInv
  <2>9. ResultInv'
    BY <1>0, <2>1, <2>2, <2>5, <2>7 DEF ResultInv
  <2> QED
    BY <2>6, <2>8, <2>9
<1>3. CASE close_fd
  <2>1. /\ ipc = "close" /\ ipc' = "install"
        /\ fdtab' = IF inst_fd \in Fd THEN [fdtab EXCEPT ![inst_fd] = NoClient] ELSE fdtab
        /\ UNCHANGED <<inst_fd, reply, woken, status, job, ret, last_install, event,
                       served, got, unsent, cpc, result>>
    BY <1>3 DEF close_fd, inst, client, history
  <2>2. Peer(inst_fd)' = NoClient
    BY <1>0, <2>1 DEF Peer
  <2>3. PendingInv'
    BY <2>2, Zenon DEF PendingInv
  <2>4. JobInv'
    BY <1>0, <2>1 DEF JobInv
  <2>5. ResultInv'
    BY <2>1, Zenon DEF ResultInv
  <2> QED
    BY <2>3, <2>4, <2>5
<1>4. CASE install_images
  <2>1. PICK r \in {"SUCCESS", "FAILURE"} :
          /\ ~ret => r = "FAILURE"
          /\ last_install' = r
          /\ served' = IF job \in Client THEN [served EXCEPT ![job] = r] ELSE served
    BY <1>4, Zenon DEF install_images
  <2>2. /\ ipc = "install" /\ ipc' = "end" /\ (~ret => r = "FAILURE") /\ last_install' = r
        /\ UNCHANGED <<fdtab, inst_fd, reply, woken, status, job, ret, event, got, unsent,
                       cpc, result>>
    BY <1>4, <2>1 DEF install_images, client
  <2>3. PendingInv'
    BY <2>2 DEF PendingInv, Peer
  <2>4. JobInv'
    BY <1>0, <2>1, <2>2 DEF JobInv
  <2>5. job # NoClient => /\ job \in Client /\ job \in woken /\ served[job] = "none" /\ event[job] = "none"
                          /\ result[job] # "SUCCESS"
                          /\ ret => got[job] = Chunks
    BY <1>0, <2>2 DEF JobInv
  <2>6. job # NoClient /\ r = "SUCCESS" => got[job] = Chunks /\ result[job] # "FAILURE"
    BY <1>0, <2>2, <2>5 DEF ChunkInv, ResultInv
  <2>7. ResultInv'
    BY <1>0, <2>1, <2>2, <2>5, <2>6 DEF ResultInv
  <2> QED
    BY <2>3, <2>4, <2>7
<1>5. CASE swupdate_progress_end
  <2>1. /\ ipc = "end" /\ ipc' = "restore"
        /\ event' = [c \in Client |->
                IF c \in conns /\ event[c] = "none" THEN last_install ELSE event[c]]
        /\ UNCHANGED <<fdtab, inst_fd, reply, woken, status, job, ret, last_install, served,
                       got, unsent, cpc, result>>
    BY <1>5 DEF swupdate_progress_end, inst, history
  <2>2. status = "RUN"
    BY <2>1 DEF ConnInv
  <2>3. PendingInv'
    BY <2>1, <2>2 DEF PendingInv, Peer
  <2>4. JobInv'
    BY <2>1 DEF JobInv
  <2>5. ASSUME NEW c \in woken, cpc[c] \in {"events", "wait"}
        PROVE  event'[c] = served[c] /\ served[c] # "none"
    <3>1. c \in conns /\ c \in Client
      BY <1>0, <2>5 DEF AckInv
    <3>2. CASE event[c] = "none" /\ job = c
      BY <2>1, <3>1, <3>2, Zenon DEF JobInv
    <3>3. CASE event[c] = served[c] /\ served[c] # "none"
      BY <2>1, <3>1, <3>3, Zenon
    <3> QED
      BY <2>5, <3>2, <3>3 DEF ResultInv
  <2>6. ResultInv'
    BY <2>1, <2>5, Zenon DEF ResultInv
  <2> QED
    BY <2>3, <2>4, <2>6
<1>6. CASE set_idle
  <2>1. /\ ipc = "idle" /\ ipc' = "wait" /\ job' = NoClient
        /\ UNCHANGED <<fdtab, inst_fd, reply, woken, ret, last_install, event, served,
                       got, unsent, cpc, result>>
    BY <1>6 DEF set_idle, client
  <2>2. status = "RUN" /\ \A f \in Fd : fdtab[f] \notin woken
    BY <2>1 DEF ConnInv
  <2>3. PendingInv'
    BY <2>1, <2>2 DEF PendingInv, Peer
  <2>4. JobInv'
    BY <2>1, <2>2 DEF JobInv
  <2>5. ResultInv'
    BY <2>1 DEF ResultInv
  <2> QED
    BY <2>3, <2>4, <2>5
<1>7. CASE remove_directories \/ set_parms \/ read_eof \/ read_error \/ restore_parms
  <2>1. /\ UNCHANGED <<fdtab, inst_fd, reply, woken, status, job, last_install, event, served,
                       got, unsent, cpc, result>>
        /\ \/ ipc \in {"dirs", "parms"} /\ ipc' \in {"wait", "parms", "read"}
           \/ ipc = "read" /\ ipc' = "close" /\ ~ret'
           \/ ipc = "restore" /\ ipc' = "idle"
    BY <1>7 DEF remove_directories, set_parms, read_eof, read_error, restore_parms, inst,
       client, history
  <2>2. PendingInv'
    BY <2>1, Zenon DEF PendingInv, Peer
  <2>3. JobInv'
    BY <2>1, Zenon DEF JobInv
  <2>4. ResultInv'
    BY <2>1, Zenon DEF ResultInv
  <2> QED
    BY <2>2, <2>3, <2>4
<1> QED
  BY <1>1, <1>2, <1>3, <1>4, <1>5, <1>6, <1>7 DEF Installer

(* The whole invariant is inductive.                                       *)
LEMMA AllInvNext == AllInv /\ [Next]_vars => AllInv'
<1> SUFFICES ASSUME AllInv, [Next]_vars PROVE AllInv'
  OBVIOUS
<1>1. TypeInv' /\ ConnInv' /\ AckInv'
  BY TypeInvNext, ConnInvNext, AckInvNext DEF AllInv
<1>2. CASE UNCHANGED vars
  BY <1>1, <1>2, Zenon DEF AllInv, PendingInv, JobInv, ResultInv, Peer, vars, inst, client, history
<1>3. CASE Next
  BY <1>1, <1>3, ResultLibrary, ResultNetwork, ResultInstaller DEF Next, NetworkThread, AllInv
<1> QED
  BY <1>2, <1>3

(* For any number of clients: a client the installer was woken up for is   *)
(* told the result of its own image, and the post-update command is run    *)
(* only after a success of its own.                                        *)
THEOREM OwnResultCorrect == Spec => []OwnResult
<1>1. Init => AllInv
  BY TypeInvInit, ConnInvInit, ResultInit DEF AllInv
<1>2. AllInv => OwnResult
  <2> SUFFICES ASSUME AllInv PROVE OwnResult
    OBVIOUS
  <2>1. woken \in SUBSET Client
    BY DEF AllInv, TypeInv, TypeOK
  <2> QED
    BY <2>1, Zenon DEF AllInv, AckInv, ResultInv, OwnResult
<1> QED
  BY <1>1, <1>2, AllInvNext, PTL DEF Spec

-----------------------------------------------------------------------------
(* Every step is one of the abstract service or leaves alone who is        *)
(* pending and who is served.                                              *)
LEMMA ServiceStep ==
  TypeInv /\ ConnInv /\ [Next]_vars => [Service!SNext]_(Service!svars)
<1> SUFFICES ASSUME TypeInv, ConnInv, [Next]_vars PROVE [Service!SNext]_(Service!svars)
  OBVIOUS
<1>0. ResultTypes /\ stream_wkup \in BOOLEAN
  BY ResultTypesHold DEF TypeInv, TypeOK
<1> DEFINE p == IF stream_wkup THEN IfAcked(Peer(inst_fd)) ELSE NoClient
           r == IfAcked(job)
<1>1. SUFFICES \/ p' = p /\ r' = r
               \/ r = NoClient /\ r' = NoClient /\ p' \in Client \cup {NoClient}
               \/ r = NoClient /\ p # NoClient /\ r' = p /\ p' = NoClient
               \/ r # NoClient /\ r' = NoClient /\ p' = p
  BY <1>1 DEF Service!SNext, Service!svars, Service!Accept, Service!Withdraw,
     Service!Serve, Service!Finish
<1> USE ClientAssumption DEF ResultTypes
<1>2. CASE UNCHANGED <<stream_wkup, inst_fd, fdtab, reply, job>>
  BY <1>2, Zenon DEF IfAcked, Peer
<1>3. ASSUME NEW c \in Client, accept(c) PROVE p' = p /\ r' = r
  <2>1. PICK f \in Fd : fdtab[f] = NoClient /\ fdtab' = [fdtab EXCEPT ![f] = c]
    BY <1>3, Zenon DEF accept
  <2>2. reply[c] = "none" /\ UNCHANGED <<stream_wkup, inst_fd, reply, job>>
    BY <1>3, Zenon DEF accept, inst, client, history
  <2>3. Peer(inst_fd)' = Peer(inst_fd) \/ (Peer(inst_fd) = NoClient /\ Peer(inst_fd)' = c)
    BY <1>0, <2>1, <2>2 DEF Peer
  <2> QED
    BY <1>0, <2>2, <2>3 DEF IfAcked
<1>4. CASE REQ_INSTALL
  <2>1. /\ net \in Client /\ ctrlconnfd \in Fd /\ fdtab[ctrlconnfd] \in {net, NoClient}
        /\ reply[net] = "none" /\ reply' = [reply EXCEPT ![net] = reply'[net]]
        /\ fdtab' \in {fdtab, [fdtab EXCEPT ![ctrlconnfd] = NoClient]} /\ job' = job
    BY <1>0, <1>4, Zenon DEF REQ_INSTALL, Answer, history, ConnInv
  <2>2. CASE status = "IDLE"
    <3>1. inst_fd' = ctrlconnfd /\ Peer(inst_fd)' \in {net, NoClient}
      BY <1>0, <1>4, <2>1, <2>2 DEF REQ_INSTALL, Peer
    <3>2. job = NoClient
      BY <2>2, Zenon DEF ConnInv
    <3> QED
      BY <2>1, <3>1, <3>2, Zenon DEF IfAcked
  <2>3. CASE status = "RUN"
    <3>1. ~stream_wkup /\ ~stream_wkup' /\ reply'[net] # "ACK"
      BY <1>0, <1>4, <2>1, <2>3 DEF REQ_INSTALL, Answer, ConnInv
    <3> QED
      BY <1>0, <2>1, <3>1, Zenon DEF IfAcked
  <2> QED
    BY <1>0, <2>2, <2>3, Zenon
<1>5. CASE wakeup
  <2>1. /\ stream_wkup /\ ~stream_wkup' /\ job' = Peer(inst_fd) /\ reply' = reply
    BY <1>5 DEF wakeup, client
  <2>2. job = NoClient
    BY <1>0, <2>1 DEF ConnInv
  <2> QED
    BY <2>1, <2>2, Zenon DEF IfAcked
<1>6. CASE close_fd
  <2>1. ~stream_wkup /\ UNCHANGED <<stream_wkup, job, reply>>
    BY <1>6, Zenon DEF close_fd, inst, client, history, ConnInv
  <2> QED
    BY <2>1, Zenon DEF IfAcked
<1>7. CASE set_idle
  <2>1. ~stream_wkup /\ stream_wkup' = stream_wkup /\ job' = NoClient
    BY <1>7, Zenon DEF set_idle, ConnInv
  <2> QED
    BY <2>1, Zenon DEF IfAcked
<1>8. CASE remove_directories \/ set_parms \/ read_chunk \/ read_eof \/ read_error
             \/ install_images \/ swupdate_progress_end \/ restore_parms \/ UNCHANGED vars
  BY <1>2, <1>8, Zenon DEF remove_directories, set_parms, read_chunk, read_eof, read_error,
     install_images, swupdate_progress_end, restore_parms, vars, inst, client, history
<1>9. ASSUME NEW c \in Client,
             \/ ipc_inst_start_ext(c) \/ progress_ipc_timeout(c) \/ ipc_postupdate(c)
             \/ Library(c) \/ POST_UPDATE(c)
      PROVE  UNCHANGED <<stream_wkup, inst_fd, fdtab, reply, job>>
  BY <1>9, Zenon DEF ipc_inst_start_ext, progress_ipc_timeout, ipc_postupdate, Library,
     read_answer, progress_ipc_connect, swupdate_image_write, swupdate_image_write_fails,
     consume_progress_events, inst_wait_for_complete, POST_UPDATE, inst, history
<1> QED
  BY <1>2, <1>3, <1>4, <1>5, <1>6, <1>7, <1>8, <1>9, Zenon DEF Next, NetworkThread, Installer

(* The daemon implements the abstract installation service: one request at *)
(* a time, none accepted while one is served, and the last accepted one is *)
(* the one that is served.                                                 *)
THEOREM ServiceRefinement == Spec => OneAtATime
<1>1. Init => Service!SInit
  BY DEF Init, Service!SInit, IfAcked
<1> QED
  BY <1>1, TypeInvInit, TypeInvNext, ConnInvInit, ConnInvNext, ServiceStep, PTL
     DEF Spec, OneAtATime, Service!SSpec
=============================================================================
