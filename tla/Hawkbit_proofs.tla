--------------------------- MODULE Hawkbit_proofs ---------------------------
(***************************************************************************)
(* The hawkBit server for any number of deployments, chunks, faults and    *)
(* local commands: the main loop is alone when it closes or gives up a     *)
(* deployment, an installed update is not installed again, and a result is *)
(* not forgotten before it was reported.                                   *)
(***************************************************************************)
EXTENDS Hawkbit, WellFoundedInduction, TLAPS

(* A set of numbers has a least one.                                       *)
LEMMA MinInSet == ASSUME NEW S \in SUBSET Nat, S # {} PROVE Min(S) \in S
<1> DEFINE R == {p \in Nat \X Nat : p[1] < p[2]}
<1>0. IsWellFoundedOn(R, Nat)
  BY NatLessThanWellFounded, Zenon DEF OpToRel
<1>1. \E x \in S : \A y \in S : ~(<<y, x>> \in R)
  <2> HIDE DEF R
  <2> QED
    BY <1>0, WFMin, Zenon
<1>2. PICK x \in S : \A y \in S : ~(<<y, x>> \in R)
  BY <1>1
<1>3. ASSUME NEW y \in S PROVE x <= y
  <2>1. ~(<<y, x>> \in R)
    BY <1>2
  <2>2. ~(y < x)
    BY <2>1
  <2> QED
    BY <2>2
<1> QED
  BY <1>3, Zenon DEF Min

-----------------------------------------------------------------------------
(* The deployments the server has assigned, and no deployment.             *)
Known == {0} \cup {a \in Action : srv[a] # "none"}

(* Where the main loop works on a deployment, and on one of its chunks.    *)
AtChunk == {"chunk", "artifact", "download", "wait", "abort", "join", "installed"}
AtDeployment == AtChunk \cup {"report", "clear", "save", "skip", "closefail"}
Streaming == {"download", "wait", "abort"}

(* The installer works for the main loop only while that waits for it, and *)
(* the notification thread lives only then.                                *)
Joined ==
  /\ inst \in {"stream", "run"} => pc \in Streaming
  /\ inst \in {"ok", "fail"} => pc \in Streaming \cup {"join"}
  /\ thread => pc \in Streaming \cup {"join"}
  /\ pc \in AtDeployment => id # 0

(* A chunk is counted once it is installed, and no more than there are.    *)
Counted ==
  /\ pc \in AtChunk => chunk < Chunks
  /\ pc \notin AtChunk \cup {"ackcancel", "closefail", "post"} => chunk = 0
  /\ pc \in {"chunk", "artifact"} /\ chunk > 0 => done[id] <= chunk
  /\ inst \in {"stream", "run"} => done[id] <= chunk
  /\ pc \in {"download", "wait", "abort", "join", "installed"} => done[id] <= chunk + 1

(* Nothing is begun on top of an update that waits for the reboot.         *)
NotInstalled == pc \in {"install", "chunk", "artifact"} /\ chunk = 0 => ustate # "installed"

(* A result is reported before it is reset.                                *)
Reported ==
  ustate \in {"testing", "failed"} =>
    /\ pc = "report" => res # "proceeding"
    /\ pc \in {"clear", "save"} => srv[id] = "closed"

IInv == TypeOK /\ Joined /\ Counted /\ NotInstalled /\ Reported

(* The daemon is down at the start.                                        *)
LEMMA InvInit == Init => IInv
<1> SUFFICES ASSUME Init PROVE IInv
  OBVIOUS
<1>1. Joined /\ Counted /\ NotInstalled /\ Reported
  BY ConstantAssumption
     DEF Init, Joined, Counted, NotInstalled, Reported, AtChunk, AtDeployment, Streaming
<1>2. TypeOK
  <2>1. /\ srv \in [Action -> {"none", "open", "canceling", "closed"}]
        /\ done \in [Action -> 0..Chunks] /\ chunk \in 0..Chunks /\ faults \in 0..MaxFault
        /\ attrsSeen \in 0..MaxAttr /\ attrs \in 1..MaxAttr /\ built \in 0..MaxAttr
    BY ConstantAssumption DEF Init
  <2>2. {cancelDuringUpdate, has_to_send_configData, thread, fed} \subseteq BOOLEAN /\ skip \in BOOLEAN
    BY Zenon DEF Init
  <2> QED
    BY <2>1, <2>2 DEF Init, TypeOK
<1> QED
  BY <1>1, <1>2 DEF IInv

(* What the server answers: a deployment it has assigned, by its state.    *)
LEMMA AnswerFacts ==
  ASSUME IInv, NEW r \in Replies
  PROVE  /\ r.id \in Known /\ r.what \in {"error", "none", "cancel", "deploy", "skip"}
         /\ r.what \in {"error", "none"} <=> r.id = 0
<1> DEFINE C == {a \in Action : srv[a] = "canceling"}
           O == {a \in Action : srv[a] = "open"}
<1>1. C \in SUBSET Nat /\ O \in SUBSET Nat /\ C \cup O \subseteq Known \ {0}
  BY ConstantAssumption DEF Action, Known
<1>2. C # {} => Min(C) \in Known \ {0}
  BY <1>1, MinInSet
<1>3. O # {} => Min(O) \in Known \ {0}
  BY <1>1, MinInSet
<1>4. CASE r = Failed
  BY <1>4 DEF Failed, Known
<1>5. CASE r = Answer
  BY <1>2, <1>3, <1>5 DEF Answer, Known
<1> QED
  BY <1>4, <1>5 DEF Replies

(* What server_get_deployment_info leaves behind.                          *)
LEMMA InfoFacts ==
  ASSUME IInv, NEW r \in Replies, server_get_deployment_info(r)
  PROVE  {stop_id', cancel_url'} \subseteq Known /\ has_to_send_configData' \in BOOLEAN
<1>1. has_to_send_configData' \in BOOLEAN
  BY Zenon DEF server_get_deployment_info
<1> QED
  BY <1>1, AnswerFacts DEF server_get_deployment_info, IInv, TypeOK, Known

(* A feedback closes a deployment or leaves it as it is.                   *)
LEMMA ReplyFacts ==
  ASSUME IInv, NEW a \in Known \ {0}, NEW s, server_send_deployment_reply(a, s)
  PROVE  /\ srv' \in [Action -> {"none", "open", "canceling", "closed"}]
         /\ Known \subseteq Known'
         /\ \A b \in Action : srv[b] = "closed" => srv'[b] = "closed"
         /\ s # "lost" => srv'[a] = "closed"
BY DEF server_send_deployment_reply, IInv, TypeOK, Known

LEMMA CancelFacts ==
  ASSUME IInv, NEW s, server_send_cancel_reply(s)
  PROVE  /\ srv' \in [Action -> {"none", "open", "canceling", "closed"}]
         /\ Known \subseteq Known'
         /\ \A b \in Action : srv[b] = "closed" => srv'[b] = "closed"
BY DEF server_send_cancel_reply, IInv, TypeOK, Known

-----------------------------------------------------------------------------
(* What disturbs the device is bounded.                                    *)
LEMMA FaultFacts == ASSUME IInv, NEW ok, Tolerated(ok) PROVE faults' \in 0..MaxFault
BY ConstantAssumption DEF Tolerated, IInv, TypeOK

(* Every step keeps the invariant, one lemma for each thread.              *)

LEMMA StartStep ==
  ASSUME IInv,
         \/ server_start \/ (Crash /\ Tolerated(FALSE)) \/ (Reboot /\ Tolerated(TRUE))
         \/ (clear_action_id /\ Tolerated(TRUE))
         \/ \E ok \in BOOLEAN : save_initial_state(ok) /\ Tolerated(ok)
         \/ \E s \in Sending : handle_feedback(s) /\ Tolerated(s = "ok")
         \/ \E r \in Replies : server_handle_initial_state(r) /\ Tolerated(r # Failed)
  PROVE  IInv'
<1> USE ConstantAssumption
    DEF IInv, TypeOK, Joined, Counted, NotInstalled, Reported, AtChunk, AtDeployment, Streaming,
        Goto, server, persistent, loop, cancelInfo, config, activation, stream
<1>1. CASE server_start
  BY <1>1 DEF server_start, BootState
<1>2. CASE (Crash /\ Tolerated(FALSE)) \/ (Reboot /\ Tolerated(TRUE))
  <2>1. Down /\ faults' \in 0..MaxFault
    BY <1>2 DEF Crash, Reboot, Tolerated
  <2>2. attrs' \in 1..MaxAttr /\ built' \in 0..MaxAttr /\ chunk' \in 0..Chunks
    BY <2>1 DEF Down
  <2>3. {cancelDuringUpdate', has_to_send_configData', thread', fed'} \subseteq BOOLEAN
    BY <2>1, Zenon DEF Down
  <2>4. TypeOK'
    BY <2>1, <2>2, <2>3 DEF Down
  <2> QED
    BY <2>1, <2>4 DEF Down
<1>3. CASE clear_action_id /\ Tolerated(TRUE)
  BY <1>3 DEF clear_action_id, Tolerated
<1>4. ASSUME NEW ok \in BOOLEAN, save_initial_state(ok), Tolerated(ok) PROVE IInv'
  <2>1. faults' \in 0..MaxFault
    BY <1>4, FaultFacts
  <2> QED
    BY <1>4, <2>1 DEF save_initial_state
<1>5. ASSUME NEW s \in Sending, handle_feedback(s), Tolerated(s = "ok") PROVE IInv'
  <2>1. faults' \in 0..MaxFault
    BY <1>5, FaultFacts
  <2>2. id \in Known \ {0}
    BY <1>5 DEF handle_feedback, Known
  <2>3. /\ srv' \in [Action -> {"none", "open", "canceling", "closed"}] /\ Known \subseteq Known'
        /\ \A b \in Action : srv[b] = "closed" => srv'[b] = "closed"
        /\ s # "lost" /\ res # "proceeding" => srv'[id] = "closed"
    BY <1>5, <2>2, ReplyFacts DEF handle_feedback, Known
  <2>4. {env_id, id, ipcId, stop_id, cancel_url}' \subseteq Known'
    BY <1>5, <2>3 DEF handle_feedback, Known
  <2>5. TypeOK'
    BY <1>5, <2>1, <2>3, <2>4 DEF handle_feedback, Known
  <2> QED
    BY <1>5, <2>3, <2>5 DEF handle_feedback
<1>6. ASSUME NEW r \in Replies, server_handle_initial_state(r), Tolerated(r # Failed) PROVE IInv'
  <2>1. faults' \in 0..MaxFault
    BY <1>6, FaultFacts
  <2>2. {stop_id', cancel_url'} \subseteq Known /\ has_to_send_configData' \in BOOLEAN
    BY <1>6, InfoFacts DEF server_handle_initial_state, Known
  <2>3. r.id \in Known /\ (r.what \in {"deploy", "skip"} => r.id # 0)
    BY AnswerFacts
  <2> QED
    BY <1>6, <2>1, <2>2, <2>3 DEF server_handle_initial_state, Known, Reportable, Verdict
<1> QED
  BY <1>1, <1>2, <1>3, <1>4, <1>5, <1>6, Zenon

LEMMA PollStep ==
  ASSUME IInv,
         \/ ((save_canceled \/ build_target_data \/ target_data_sent) /\ Tolerated(TRUE))
         \/ \E s \in Sending : (cancel_reply(s) \/ put_target_data(s)) /\ Tolerated(s = "ok")
         \/ \E r \in Replies : server_has_pending_action(r) /\ Tolerated(r # Failed)
  PROVE  IInv'
<1> USE ConstantAssumption
    DEF IInv, TypeOK, Joined, Counted, NotInstalled, Reported, AtChunk, AtDeployment, Streaming,
        Goto, server, persistent, loop, cancelInfo, config, activation, stream
<1>1. CASE save_canceled /\ Tolerated(TRUE)
  BY <1>1 DEF save_canceled, Tolerated
<1>2. CASE build_target_data /\ Tolerated(TRUE)
  BY <1>2 DEF build_target_data, Tolerated
<1>3. CASE target_data_sent /\ Tolerated(TRUE)
  <2>1. has_to_send_configData' \in BOOLEAN
    BY <1>3, Zenon DEF target_data_sent
  <2> QED
    BY <1>3, <2>1 DEF target_data_sent, Tolerated
<1>4. ASSUME NEW s \in Sending, cancel_reply(s), Tolerated(s = "ok") PROVE IInv'
  <2>1. faults' \in 0..MaxFault
    BY <1>4, FaultFacts
  <2>2. /\ srv' \in [Action -> {"none", "open", "canceling", "closed"}] /\ Known \subseteq Known'
    BY <1>4, CancelFacts DEF cancel_reply, Known
  <2>3. {env_id', id', ipcId', stop_id', cancel_url'} \subseteq Known'
    BY <1>4, <2>2 DEF cancel_reply, Known
  <2> QED
    BY <1>4, <2>1, <2>2, <2>3 DEF cancel_reply, Known
<1>5. ASSUME NEW s \in Sending, put_target_data(s), Tolerated(s = "ok") PROVE IInv'
  <2>1. faults' \in 0..MaxFault
    BY <1>5, FaultFacts
  <2> QED
    BY <1>5, <2>1 DEF put_target_data
<1>6. ASSUME NEW r \in Replies, server_has_pending_action(r), Tolerated(r # Failed) PROVE IInv'
  <2>1. faults' \in 0..MaxFault
    BY <1>6, FaultFacts
  <2>2. {stop_id', cancel_url'} \subseteq Known /\ has_to_send_configData' \in BOOLEAN
    BY <1>6, InfoFacts DEF server_has_pending_action, Known
  <2>3. /\ pc' \in {"cancel", "poll", "identify", "install"}
        /\ pc' = "install" => ustate # "installed"
    BY <1>6 DEF server_has_pending_action, Pending
  <2> QED
    BY <1>6, <2>1, <2>2, <2>3 DEF server_has_pending_action, Known
<1> QED
  BY <1>1, <1>2, <1>3, <1>4, <1>5, <1>6, Zenon

LEMMA InstallStep ==
  ASSUME IInv,
         \/ (server_process_update_artifact \/ last_data \/ get_file \/ wait_for_complete) /\ Tolerated(TRUE)
         \/ (pthread_join \/ chunk_installed \/ postupdate) /\ Tolerated(TRUE)
         \/ \E s \in Sending : chunk_reply(s) /\ Tolerated(s = "ok")
         \/ \E s \in Sending : (skip_reply(s) \/ ack_cancel(s) \/ close_failure(s)) /\ Tolerated(s = "ok")
         \/ \E r \in Replies : (server_install_update(r) \/ server_check_during_dwl(r)) /\ Tolerated(r # Failed)
  PROVE  IInv'
<1> USE ConstantAssumption
    DEF IInv, TypeOK, Joined, Counted, NotInstalled, Reported, AtChunk, AtDeployment, Streaming,
        Goto, server, persistent, loop, cancelInfo, config, activation, stream
<1>1. CASE server_process_update_artifact /\ Tolerated(TRUE)
  <2>1. {cancelDuringUpdate', thread', fed'} \subseteq BOOLEAN
    BY <1>1, Zenon DEF server_process_update_artifact
  <2>2. /\ id \in Action /\ done' \in [Action -> 0..Chunks] /\ done'[id] <= chunk
        /\ id' = id /\ chunk' = chunk
    BY <1>1 DEF server_process_update_artifact
  <2>3. TypeOK'
    BY <1>1, <2>1, <2>2 DEF server_process_update_artifact, Tolerated
  <2> QED
    BY <1>1, <2>2, <2>3 DEF server_process_update_artifact
<1>2. CASE last_data /\ Tolerated(TRUE)
  BY <1>2 DEF last_data, Tolerated
<1>3. CASE get_file /\ Tolerated(TRUE)
  BY <1>3 DEF get_file, Tolerated
<1>4. CASE wait_for_complete /\ Tolerated(TRUE)
  BY <1>4 DEF wait_for_complete, Tolerated
<1>5. CASE pthread_join /\ Tolerated(TRUE)
  <2>1. fed' \in BOOLEAN /\ ~thread'
    BY <1>5, Zenon DEF pthread_join
  <2>2. pc' \in {"installed", "ackcancel", "closefail"}
    BY <1>5 DEF pthread_join
  <2>3. TypeOK'
    BY <1>5, <2>1, <2>2 DEF pthread_join, Tolerated
  <2> QED
    BY <1>5, <2>1, <2>2, <2>3 DEF pthread_join
<1>6. CASE chunk_installed /\ Tolerated(TRUE)
  BY <1>6 DEF chunk_installed, Tolerated
<1>7. CASE postupdate /\ Tolerated(TRUE)
  BY <1>7 DEF postupdate, Tolerated
<1>8. ASSUME NEW s \in Sending, chunk_reply(s), Tolerated(s = "ok") PROVE IInv'
  <2>1. faults' \in 0..MaxFault
    BY <1>8, FaultFacts
  <2> QED
    BY <1>8, <2>1 DEF chunk_reply
<1>9. ASSUME NEW s \in Sending, skip_reply(s) \/ ack_cancel(s) \/ close_failure(s), Tolerated(s = "ok")
      PROVE  IInv'
  <2>1. faults' \in 0..MaxFault
    BY <1>9, FaultFacts
  <2>2. pc \in {"skip", "closefail"} => id \in Known \ {0}
    BY DEF Known
  <2>3. /\ srv' \in [Action -> {"none", "open", "canceling", "closed"}] /\ Known \subseteq Known'
    BY <1>9, <2>2, ReplyFacts, CancelFacts, Zenon DEF skip_reply, ack_cancel, close_failure, Known
  <2>4. pc' = "poll" /\ id' = 0 /\ chunk' = 0 /\ res' = "ok" /\ built' = 0
    BY <1>9 DEF skip_reply, ack_cancel, close_failure
  <2>5. /\ UNCHANGED <<skip, attrsSeen, persistent, update_state, cancelInfo, cancelDuringUpdate>>
        /\ UNCHANGED <<config, activation, stream, done>> /\ pc \in {"skip", "ackcancel", "closefail"}
    BY <1>9 DEF skip_reply, ack_cancel, close_failure
  <2>6. {env_id', id', ipcId', stop_id', cancel_url'} \subseteq Known'
    BY <2>3, <2>4, <2>5 DEF Known
  <2> QED
    BY <2>1, <2>3, <2>4, <2>5, <2>6 DEF Known
<1>10. ASSUME NEW r \in Replies, server_install_update(r), Tolerated(r # Failed) PROVE IInv'
  <2>1. faults' \in 0..MaxFault
    BY <1>10, FaultFacts
  <2>2. {stop_id', cancel_url'} \subseteq Known /\ has_to_send_configData' \in BOOLEAN
    BY <1>10, InfoFacts DEF server_install_update, Known
  <2>3. r.id \in Known /\ (r.what \notin {"error", "none"} => r.id # 0)
    BY AnswerFacts
  <2> QED
    BY <1>10, <2>1, <2>2, <2>3 DEF server_install_update, Known
<1>11. ASSUME NEW r \in Replies, server_check_during_dwl(r), Tolerated(r # Failed) PROVE IInv'
  <2>1. faults' \in 0..MaxFault
    BY <1>11, FaultFacts
  <2>2. {stop_id', cancel_url'} \subseteq Known /\ has_to_send_configData' \in BOOLEAN
    BY <1>11, InfoFacts DEF server_check_during_dwl, Known
  <2>3. cancelDuringUpdate' \in BOOLEAN
    BY <1>11, Zenon DEF server_check_during_dwl
  <2> QED
    BY <1>11, <2>1, <2>2, <2>3 DEF server_check_during_dwl, Known
<1> QED
  BY <1>1, <1>2, <1>3, <1>4, <1>5, <1>6, <1>7, <1>8, <1>9, <1>10, <1>11, Zenon

(* The installer, the notification thread and the operator of the server.  *)
LEMMA OtherStep ==
  ASSUME IInv, Installer \/ process_notification_thread \/ Operator, Tolerated(TRUE)
  PROVE  IInv'
<1> USE ConstantAssumption
    DEF IInv, TypeOK, Joined, Counted, NotInstalled, Reported, AtChunk, AtDeployment, Streaming,
        Tolerated, server, persistent, loop, cancelInfo, config, activation, stream
<1>1. CASE InstallerBegins
  BY <1>1 DEF InstallerBegins, Installing
<1>2. CASE InstallerFails
  <2>1. ustate' \in {ustate, "failed"}
    BY <1>2 DEF InstallerFails
  <2> QED
    BY <1>2, <2>1 DEF InstallerFails, Installing
<1>3. CASE InstallerSucceeds
  <2>1. id \in Action /\ pc \in Streaming /\ done[id] <= chunk /\ chunk < Chunks
    BY <1>3 DEF InstallerSucceeds
  <2>2. done' \in [Action -> 0..Chunks] /\ done'[id] <= chunk + 1
    BY <1>3, <2>1 DEF InstallerSucceeds
  <2> QED
    BY <1>3, <2>1, <2>2 DEF InstallerSucceeds, Installing
<1>4. CASE process_notification_thread
  <2>1. thread' \in BOOLEAN /\ ~thread'
    BY <1>4, Zenon DEF process_notification_thread
  <2> QED
    BY <1>4, <2>1 DEF process_notification_thread
<1>5. CASE Operator
  <2>1. /\ UNCHANGED <<attrsSeen, persistent, loop, update_state, cancelInfo, cancelDuringUpdate>>
        /\ UNCHANGED <<config, activation, stream, done>>
    BY <1>5 DEF Operator, Window, Assign, Cancel, ForceQuit
  <2>2. /\ srv' \in [Action -> {"none", "open", "canceling", "closed"}]
        /\ Known \subseteq Known'
        /\ \A b \in Action : srv[b] = "closed" => srv'[b] = "closed"
    BY <1>5 DEF Operator, Window, Assign, Cancel, ForceQuit, Known
  <2>3. skip' \in BOOLEAN
    BY <1>5, Zenon DEF Operator, Window, Assign, Cancel, ForceQuit
  <2>4. {env_id', id', ipcId', stop_id', cancel_url'} \subseteq Known'
    BY <2>1, <2>2 DEF Known
  <2> QED
    BY <2>1, <2>2, <2>3, <2>4 DEF Known
<1> HIDE DEF IInv
<1> QED
  BY <1>1, <1>2, <1>3, <1>4, <1>5, Zenon DEF Installer

(* The IPC thread, which does not wait for the main loop.                  *)
LEMMA IpcStep ==
  ASSUME IInv, IpcThread \/ Commands
  PROVE  IInv'
<1> USE ConstantAssumption
    DEF IInv, TypeOK, Joined, Counted, NotInstalled, Reported, AtChunk, AtDeployment, Streaming,
        server, persistent, loop, cancelInfo, config, activation, stream
<1>1. CASE ipc_save /\ Tolerated(TRUE)
  BY <1>1 DEF ipc_save, Tolerated
<1>2. ASSUME NEW s \in Sending, ipc_cancel_reply(s), Tolerated(s = "ok") PROVE IInv'
  <2>1. faults' \in 0..MaxFault
    BY <1>2, FaultFacts
  <2>2. /\ srv' \in [Action -> {"none", "open", "canceling", "closed"}] /\ Known \subseteq Known'
        /\ \A b \in Action : srv[b] = "closed" => srv'[b] = "closed"
    BY <1>2, CancelFacts DEF ipc_cancel_reply, Known
  <2>3. {env_id', id', ipcId', stop_id', cancel_url'} \subseteq Known'
    BY <1>2, <2>2 DEF ipc_cancel_reply, Known
  <2> QED
    BY <1>2, <2>1, <2>2, <2>3 DEF ipc_cancel_reply, Known
<1>3. ASSUME NEW s \in Sending, ipc_feedback(s), Tolerated(s = "ok") PROVE IInv'
  <2>1. faults' \in 0..MaxFault
    BY <1>3, FaultFacts
  <2>2. ipcId \in Known \ {0}
    BY <1>3 DEF ipc_feedback, Known
  <2>3. /\ srv' \in [Action -> {"none", "open", "canceling", "closed"}] /\ Known \subseteq Known'
        /\ \A b \in Action : srv[b] = "closed" => srv'[b] = "closed"
    BY <1>3, <2>2, ReplyFacts DEF ipc_feedback, Known
  <2>4. {env_id', id', ipcId', stop_id', cancel_url'} \subseteq Known'
    BY <1>3, <2>3 DEF ipc_feedback, Known
  <2> QED
    BY <1>3, <2>1, <2>3, <2>4 DEF ipc_feedback, Known
<1>4. CASE server_configuration_ipc /\ Tolerated(FALSE)
  <2>1. has_to_send_configData' \in BOOLEAN
    BY <1>4, Zenon DEF server_configuration_ipc
  <2>2. faults' \in 0..MaxFault
    BY <1>4 DEF Tolerated
  <2> QED
    BY <1>4, <2>1, <2>2 DEF server_configuration_ipc
<1>5. ASSUME NEW r \in Replies, NEW a \in Action, NEW closing \in BOOLEAN,
             server_activation_ipc(r, a, closing), Tolerated(FALSE)
      PROVE  IInv'
  <2>1. faults' \in 0..MaxFault
    BY <1>5 DEF Tolerated
  <2>2. {stop_id', cancel_url'} \subseteq Known /\ has_to_send_configData' \in BOOLEAN
    BY <1>5, InfoFacts DEF server_activation_ipc, Known
  <2>3. a \in Known \ {0}
    BY <1>5 DEF server_activation_ipc, Known, Action
  <2>4. \/ ipcId' = a /\ ipc' \in {"close", "proceed"}
        \/ ipcId' = 0 /\ ipc' \in {"idle", "cancel", "save"}
    BY <1>5 DEF server_activation_ipc
  <2> QED
    BY <1>5, <2>1, <2>2, <2>3, <2>4 DEF server_activation_ipc, Known
<1> HIDE DEF IInv
<1>6. CASE IpcThread
  BY <1>1, <1>2, <1>3, <1>6, Zenon DEF IpcThread
<1>7. CASE Commands
  BY <1>4, <1>5, <1>7, Zenon DEF Commands
<1> QED
  BY <1>6, <1>7

LEMMA InvNext == IInv /\ [Next]_vars => IInv'
<1> SUFFICES ASSUME IInv, [Next]_vars PROVE IInv'
  OBVIOUS
<1>1. CASE server_start \/ (Crash /\ Tolerated(FALSE))
  BY <1>1, StartStep, Zenon
<1>2. CASE MainLoop
  <2>1. CASE Steps /\ Tolerated(TRUE)
    BY <2>1, StartStep, PollStep, InstallStep, Zenon DEF Steps
  <2>2. CASE \E ok \in BOOLEAN : save_initial_state(ok) /\ Tolerated(ok)
    BY <2>2, StartStep, Zenon
  <2>3. ASSUME NEW r \in Replies, Polls(r), Tolerated(r # Failed) PROVE IInv'
    BY <2>3, StartStep, PollStep, InstallStep, Zenon DEF Polls
  <2>4. ASSUME NEW s \in Sending, Sends(s), Tolerated(s = "ok") PROVE IInv'
    BY <2>4, StartStep, PollStep, InstallStep, Zenon DEF Sends
  <2> QED
    BY <1>2, <2>1, <2>2, <2>3, <2>4, Zenon DEF MainLoop
<1>3. CASE Others
  BY <1>3, OtherStep, StartStep, Zenon DEF Others
<1>4. CASE \E r \in Replies : server_check_during_dwl(r) /\ Tolerated(r # Failed)
  BY <1>4, InstallStep, Zenon
<1>5. CASE Operator /\ Tolerated(TRUE)
  BY <1>5, OtherStep
<1>6. CASE IpcThread \/ Commands
  BY <1>6, IpcStep
<1>7. CASE UNCHANGED vars
  <2> USE <1>7 DEF vars, server, persistent, loop, cancelInfo, config, activation, stream
  <2>1. Known' = Known
    BY Zenon DEF Known
  <2>2. TypeOK'
    BY <2>1 DEF IInv, TypeOK
  <2>3. Joined' /\ Counted'
    BY DEF IInv, Joined, Counted, Streaming
  <2>4. NotInstalled' /\ Reported'
    BY DEF IInv, NotInstalled, Reported, AtChunk, AtDeployment, Streaming
  <2> QED
    BY <2>1, <2>2, <2>3, <2>4 DEF IInv
<1> QED
  BY <1>1, <1>2, <1>3, <1>4, <1>5, <1>6, <1>7, Zenon DEF Next

-----------------------------------------------------------------------------
(* The invariant holds throughout.                                         *)
LEMMA Invariance == Spec => []IInv
BY InvInit, InvNext, PTL DEF Spec

(* The main loop is alone when it closes or gives up a deployment: the     *)
(* notification thread is joined and the installer is done on every way    *)
(* out of server_process_update_artifact, and every action id is one the   *)
(* server assigned.                                                        *)
THEOREM QuietCorrect == Spec => []Quiet
<1>1. IInv => Quiet
  BY DEF IInv, Joined, Quiet, NoLateProgress, QuietWhenCanceled, Streaming
<1> QED
  BY <1>1, Invariance, PTL

(* Only server_process_update_artifact starts an installation.             *)
LEMMA WhoStarts == ASSUME Next, inst = "idle", inst' = "stream" PROVE pc = "artifact"
<1> USE DEF stream
<1>1. CASE Steps
  BY <1>1 DEF Steps, clear_action_id, save_canceled, build_target_data, target_data_sent,
              server_process_update_artifact, last_data, get_file, wait_for_complete,
              pthread_join, chunk_installed, postupdate
<1>2. ASSUME NEW r, Polls(r) \/ server_check_during_dwl(r) PROVE FALSE
  BY <1>2 DEF Polls, server_handle_initial_state, server_has_pending_action,
              server_install_update, server_check_during_dwl
<1>3. ASSUME NEW s, Sends(s) PROVE FALSE
  BY <1>3 DEF Sends, handle_feedback, cancel_reply, put_target_data, skip_reply, chunk_reply,
              ack_cancel, close_failure
<1>4. ASSUME NEW ok, save_initial_state(ok) PROVE FALSE
  BY <1>4 DEF save_initial_state
<1>5. ~(server_start \/ Crash \/ Reboot)
  BY DEF server_start, Crash, Reboot, Down
<1>6. ~(Installer \/ process_notification_thread)
  BY DEF Installer, InstallerBegins, InstallerFails, InstallerSucceeds, Installing,
         process_notification_thread
<1>7. ~Operator
  BY DEF Operator, Window, Assign, Cancel, ForceQuit
<1>8. ~IpcThread /\ ~Commands
  BY DEF IpcThread, Commands, ipc_save, ipc_cancel_reply, ipc_feedback,
         server_configuration_ipc, server_activation_ipc
<1>9. CASE MainLoop
  BY <1>1, <1>2, <1>3, <1>4, <1>9, Zenon DEF MainLoop
<1> QED
  BY <1>2, <1>5, <1>6, <1>7, <1>8, <1>9, Zenon DEF Next, Others

(* No update is begun on top of one that waits for the reboot: nothing     *)
(* installs between the check in server_has_pending_action and the start   *)
(* of the download.                                                        *)
THEOREM NoReinstallCorrect == Spec => NoReinstall
<1>1. IInv /\ [Next]_vars
        => [(inst = "idle" /\ inst' = "stream" /\ chunk = 0) => ustate # "installed"]_vars
  <2> SUFFICES ASSUME IInv, Next, inst = "idle", inst' = "stream", chunk = 0
               PROVE  ustate # "installed"
    OBVIOUS
  <2>1. pc = "artifact"
    BY WhoStarts
  <2> QED
    BY <2>1 DEF IInv, NotInstalled
<1> QED
  BY <1>1, Invariance, PTL DEF Spec, NoReinstall

(* Who resets a result.                                                    *)
LEMMA WhoResets ==
  ASSUME Next, ustate \in {"testing", "failed"}, ustate' = "ok"
  PROVE  pc \in {"canceled", "save"} \/ ipc = "save"
<1> USE DEF persistent
<1>1. CASE Steps
  BY <1>1 DEF Steps, clear_action_id, save_canceled, build_target_data, target_data_sent,
              server_process_update_artifact, last_data, get_file, wait_for_complete,
              pthread_join, chunk_installed, postupdate
<1>2. ASSUME NEW r, Polls(r) \/ server_check_during_dwl(r) PROVE FALSE
  BY <1>2 DEF Polls, server_handle_initial_state, server_has_pending_action,
              server_install_update, server_check_during_dwl
<1>3. ASSUME NEW s, Sends(s) PROVE FALSE
  BY <1>3 DEF Sends, handle_feedback, cancel_reply, put_target_data, skip_reply, chunk_reply,
              ack_cancel, close_failure
<1>4. ASSUME NEW ok, save_initial_state(ok) PROVE pc = "save"
  BY <1>4 DEF save_initial_state
<1>5. ~(server_start \/ Crash \/ Reboot)
  BY DEF server_start, BootState, Crash, Reboot, Down
<1>6. ~(Installer \/ process_notification_thread)
  BY DEF Installer, InstallerBegins, InstallerFails, InstallerSucceeds,
         process_notification_thread
<1>7. ~Operator
  BY DEF Operator, Window, Assign, Cancel, ForceQuit
<1>8. ~Commands /\ (IpcThread => ipc = "save")
  BY Zenon DEF IpcThread, Commands, ipc_save, ipc_cancel_reply, ipc_feedback,
         server_configuration_ipc, server_activation_ipc
<1>9. CASE MainLoop
  BY <1>1, <1>2, <1>3, <1>4, <1>9, Zenon DEF MainLoop
<1> QED
  BY <1>2, <1>5, <1>6, <1>7, <1>8, <1>9, Zenon DEF Next, Others

(* A result is forgotten only after the server received it, unless the     *)
(* deployment is cancelled or a local command confirms it: the state is    *)
(* reset by save_state(STATE_OK), after the feedback was acknowledged.     *)
THEOREM ResultCorrect == Spec => ResultKept
<1>1. IInv /\ [Next]_vars
        => [(ustate \in {"testing", "failed"} /\ ustate' = "ok")
              => \/ pc = "canceled" \/ ipc = "save"
                 \/ pc = "save" /\ srv[id] = "closed"]_vars
  BY WhoResets DEF IInv, Reported
<1> QED
  BY <1>1, Invariance, PTL DEF Spec, ResultKept
=============================================================================
