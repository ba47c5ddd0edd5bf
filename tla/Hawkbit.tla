------------------------------ MODULE Hawkbit -------------------------------
(***************************************************************************)
(* Suricatta's hawkBit server (suricatta/server_hawkbit.c): how a device   *)
(* learns about a deployment, installs it, and reports the result, which   *)
(* for a successful update happens after the next start.                   *)
(*                                                                         *)
(* Three threads share the module's state: suricatta's main loop, the IPC  *)
(* thread that serves local commands, and the thread that reports log      *)
(* messages while an artifact is installed.  What survives a restart is    *)
(* the update state and the action id in the bootloader's environment.     *)
(* The server, the network and the installer are external.                 *)
(***************************************************************************)
EXTENDS Naturals, FiniteSets, FiniteSetsExt

CONSTANTS
  MaxAction,    \* deployments the server may assign, in this order
  Chunks,       \* chunks of a deployment, one artifact each
  Confirm,      \* what -c may say: "none" (no override) or "wait"
  MaxFault,     \* crashes, failed requests and writes, and local commands
  MaxAttr       \* different attributes the device may have

Action == 1..MaxAction

ASSUME ConstantAssumption ==
  /\ {MaxAction, MaxFault} \subseteq Nat /\ {Chunks, MaxAttr} \subseteq Nat \ {0}
  /\ Confirm \subseteq {"none", "wait"} /\ Confirm # {}

VARIABLES
  (* the server *)
  srv,                 \* how far each deployment is
  skip,                \* it answers "update": "skip"
  attrsSeen,           \* version of the attributes it received
  (* persistent state of the device *)
  ustate, env_id,
  (* the main loop *)
  pc,
  id,                  \* action_id, 0 if none
  chunk,               \* json_data_chunk_count
  res,                 \* result of the last artifact
  built,               \* attributes in the request being sent
  (* server_hawkbit *)
  update_state, stop_id, cancel_url, cancelDuringUpdate,
  has_to_send_configData,
  attrs,               \* version of configdata
  (* the IPC thread *)
  ipc, ipcId,
  (* the notification thread and the installer *)
  thread, inst, fed,
  (* history *)
  done,                \* chunks of each deployment installed by its last attempt
  faults               \* so far

server == <<srv, skip, attrsSeen>>
persistent == <<ustate, env_id>>
loop == <<pc, id, chunk, res, built>>
cancelInfo == <<stop_id, cancel_url>>
config == <<has_to_send_configData, attrs>>
activation == <<ipc, ipcId>>
stream == <<thread, inst, fed>>
vars == <<server, persistent, loop, update_state, cancelInfo, cancelDuringUpdate,
          config, activation, stream, done, faults>>

Init ==
  /\ srv = [a \in Action |-> "none"] /\ skip = FALSE
  /\ attrsSeen = 0
  /\ ustate = "ok" /\ env_id = 0
  /\ pc = "down" /\ id = 0 /\ chunk = 0 /\ res = "ok" /\ built = 0
  /\ update_state = "none" /\ stop_id = 0 /\ cancel_url = 0
  /\ cancelDuringUpdate = FALSE
  /\ has_to_send_configData = FALSE /\ attrs = 1
  /\ ipc = "idle" /\ ipcId = 0
  /\ thread = FALSE /\ inst = "idle" /\ fed = FALSE
  /\ done = [a \in Action |-> 0] /\ faults = 0

-----------------------------------------------------------------------------
(* The operator of the server.  One deployment is active at a time: the next
   one is assigned when the former was closed or is being cancelled.  A
   deployment may be closed by force, without the device being asked. *)

Assign(a) ==
  /\ srv[a] = "none"
  /\ \A b \in Action : b < a => srv[b] \in {"canceling", "closed"}
  /\ srv' = [srv EXCEPT ![a] = "open"]
  /\ skip' = FALSE
  /\ UNCHANGED <<attrsSeen, persistent, loop, update_state, cancelInfo,
                 cancelDuringUpdate, config, activation, stream, done>>

Cancel(a) ==
  /\ srv[a] = "open"
  /\ srv' = [srv EXCEPT ![a] = "canceling"]
  /\ UNCHANGED <<skip, attrsSeen, persistent, loop, update_state, cancelInfo,
                 cancelDuringUpdate, config, activation, stream, done>>

ForceQuit(a) ==
  /\ srv[a] = "canceling"
  /\ srv' = [srv EXCEPT ![a] = "closed"]
  /\ UNCHANGED <<skip, attrsSeen, persistent, loop, update_state, cancelInfo,
                 cancelDuringUpdate, config, activation, stream, done>>

(* The deployment must be skipped for now. *)
Window ==
  /\ \E a \in Action : srv[a] = "open"
  /\ skip' = TRUE
  /\ UNCHANGED <<srv, attrsSeen, persistent, loop, update_state, cancelInfo,
                 cancelDuringUpdate, config, activation, stream, done>>

Operator ==
  Window \/ \E a \in Action : Assign(a) \/ Cancel(a) \/ ForceQuit(a)

-----------------------------------------------------------------------------
(* Requests.  A request fails, or the server answers it; of a feedback that
   failed the device does not know whether it arrived. *)

Failed == [what |-> "error", id |-> 0]

Answer ==
  LET canceling == {a \in Action : srv[a] = "canceling"}
      open == {a \in Action : srv[a] = "open"}
  IN IF canceling # {} THEN [what |-> "cancel", id |-> Min(canceling)]
     ELSE IF open # {}
     THEN [what |-> IF skip THEN "skip" ELSE "deploy", id |-> Min(open)]
     ELSE [what |-> "none", id |-> 0]

Replies == {Answer, Failed}
Sending == {"ok", "unsure", "lost"}

(* It asks for the attributes until it has some. *)
Asks(r) == r # Failed /\ attrsSeen = 0

server_get_deployment_info_Once(r) ==   \* mutant: a cancel_url is not replaced
  /\ stop_id' = IF r.id = 0 THEN stop_id ELSE r.id
  /\ cancel_url' = IF r.what = "cancel" /\ cancel_url = 0 THEN r.id ELSE cancel_url
  /\ has_to_send_configData' = (has_to_send_configData \/ Asks(r))

(* Both requests of server_get_deployment_info; what it leaves behind for
   server_send_cancel_reply is shared by all callers. *)
server_get_deployment_info(r) ==
  /\ stop_id' = IF r.id = 0 THEN stop_id ELSE r.id
  /\ cancel_url' = IF r.what = "cancel" THEN r.id ELSE cancel_url
  /\ has_to_send_configData' = (has_to_send_configData \/ Asks(r))

(* A closed feedback about a *)
server_send_deployment_reply(a, s) ==
  srv' = IF s = "lost" THEN srv ELSE [srv EXCEPT ![a] = "closed"]

(* The acknowledge names stop_id in its body and goes to cancel_url. *)
server_send_cancel_reply(s) ==
  IF s = "lost" \/ stop_id # cancel_url \/ srv[cancel_url] # "canceling"
  THEN UNCHANGED srv
  ELSE srv' = [srv EXCEPT ![cancel_url] = "closed"]

(* The main loop goes to next; what a function had in local variables is gone
   when it returns to the loop. *)
Goto(next) ==
  /\ pc' = next
  /\ IF next = "poll" THEN id' = 0 /\ chunk' = 0 /\ res' = "ok" /\ built' = 0
     ELSE UNCHANGED <<id, chunk, res, built>>

-----------------------------------------------------------------------------
(* Start.  The bootloader of the new software, or its fallback, has turned
   "installed" into "testing" or "failed"; a restart of the daemon alone has
   not. *)

Down ==
  /\ pc' = "down"
  /\ ipc' = "idle" /\ thread' = FALSE /\ inst' = "idle" /\ fed' = FALSE
  /\ id' = 0 /\ chunk' = 0 /\ res' = "ok" /\ built' = 0
  /\ ipcId' = 0 /\ stop_id' = 0 /\ cancel_url' = 0
  /\ cancelDuringUpdate' = FALSE /\ update_state' = "none"
  /\ has_to_send_configData' = FALSE
  /\ attrs' = 1     \* configdata is read from the configuration again
  /\ UNCHANGED <<server, persistent, done>>

Crash ==
  /\ pc # "down"
  /\ Down

(* The reboot into the new software *)
Reboot ==
  /\ pc = "poll"
  /\ ustate = "installed"
  /\ Down

BootState ==
  IF ustate # "installed" THEN {ustate}
  ELSE {"testing", "failed"} \cup (IF faults < MaxFault THEN {"installed"} ELSE {})

server_start ==
  /\ pc = "down"
  /\ ustate' \in BootState
  /\ faults' = IF ustate' = "installed" THEN faults + 1 ELSE faults
  /\ update_state' \in Confirm
  /\ has_to_send_configData' = TRUE
  /\ Goto(IF update_state' = "wait" THEN "poll" ELSE "start")
  /\ UNCHANGED <<server, env_id, cancelInfo,
                 cancelDuringUpdate, attrs, activation, stream, done>>

Reportable_Bad == {"installed", "failed"}   \* mutant: success is not reported

Reportable == {"installed", "testing", "failed"}

Verdict(state) ==
  CASE state = "testing" -> "success"
    [] state = "failed" -> "failure"
    [] OTHER -> "proceeding"

(* server_handle_initial_state, until it succeeds *)
server_handle_initial_state(r) ==
  /\ pc = "start"
  /\ IF ustate \notin Reportable
     THEN Goto("poll") /\ UNCHANGED <<cancelInfo, has_to_send_configData>>
     ELSE /\ server_get_deployment_info(r)
          /\ \/ r.what = "error" /\ Goto("start")
             \/ r.what \in {"none", "cancel"} /\ Goto("poll")
             \/ /\ r.what \in {"deploy", "skip"}
                /\ pc' = "report"
                /\ id' = IF env_id > 0 THEN env_id ELSE r.id
                /\ res' = Verdict(ustate)
                /\ UNCHANGED <<chunk, built>>
  /\ UNCHANGED <<server, persistent, update_state,
                 cancelDuringUpdate, attrs, activation, stream, done>>

handle_feedback_Early(s) ==   \* mutant: a failed report counts as done
  /\ pc = "report"
  /\ server_send_deployment_reply(id, s)
  /\ Goto("clear")
  /\ UNCHANGED <<skip, attrsSeen, persistent, update_state,
                 cancelInfo, cancelDuringUpdate, config, activation, stream, done>>

handle_feedback(s) ==
  /\ pc = "report"
  /\ IF res = "proceeding" THEN UNCHANGED srv
     ELSE server_send_deployment_reply(id, s)
  /\ Goto(IF s = "ok" THEN "clear" ELSE "start")
  /\ UNCHANGED <<skip, attrsSeen, persistent, update_state,
                 cancelInfo, cancelDuringUpdate, config, activation, stream, done>>

clear_action_id ==
  /\ pc = "clear"
  /\ env_id' = 0
  /\ Goto("save")
  /\ UNCHANGED <<server, ustate, update_state, cancelInfo,
                 cancelDuringUpdate, config, activation, stream, done>>

(* save_state(STATE_OK), which may fail *)
save_initial_state(ok) ==
  /\ pc = "save"
  /\ ustate' = IF ok THEN "ok" ELSE ustate
  /\ Goto(IF ok THEN "poll" ELSE "start")
  /\ UNCHANGED <<server, env_id, update_state, cancelInfo, cancelDuringUpdate,
                 config, activation, stream, done>>

-----------------------------------------------------------------------------
(* The main loop between two updates *)

Pending_Ignored(r) ==   \* mutant: an installed update is not waited for
  CASE update_state = "wait" -> "poll"
    [] update_state # "wait" /\ has_to_send_configData' -> "identify"
    [] OTHER -> IF r.what \in {"deploy", "skip"} THEN "install" ELSE "poll"

(* Where suricatta's main loop goes after a poll that found no cancel *)
Pending(r) ==
  CASE update_state = "wait" -> "poll"
    [] update_state # "wait" /\ has_to_send_configData' -> "identify"
    [] OTHER -> IF r.what \in {"deploy", "skip"} /\ ustate # "installed"
                THEN "install" ELSE "poll"

server_has_pending_action(r) ==
  /\ pc = "poll"
  /\ server_get_deployment_info(r)
  /\ Goto(IF r.what = "cancel" THEN "cancel" ELSE Pending(r))
  /\ UNCHANGED <<server, persistent, update_state,
                 cancelDuringUpdate, attrs, activation, stream, done>>

cancel_reply(s) ==
  /\ pc = "cancel"
  /\ server_send_cancel_reply(s)
  /\ Goto("canceled")
  /\ UNCHANGED <<skip, attrsSeen, persistent, update_state,
                 cancelInfo, cancelDuringUpdate, config, activation, stream, done>>

save_canceled ==
  /\ pc = "canceled"
  /\ update_state' = "ok"
  /\ ustate' \in {"ok", ustate}
  /\ Goto("poll")
  /\ UNCHANGED <<server, env_id, cancelInfo,
                 cancelDuringUpdate, config, activation, stream, done>>

(* server_send_target_data: the request is put together under ipc_lock and
   sent without it; the flag is reset after the answer. *)
build_target_data ==
  /\ pc = "identify"
  /\ built' = attrs
  /\ pc' = "put"
  /\ UNCHANGED <<server, persistent, id, chunk, res, update_state, cancelInfo,
                 cancelDuringUpdate, config, activation, stream, done>>

put_target_data(s) ==
  /\ pc = "put"
  /\ attrsSeen' = IF s = "lost" THEN attrsSeen ELSE built
  /\ Goto(IF s = "ok" THEN "identified" ELSE "poll")
  /\ UNCHANGED <<srv, skip, persistent, update_state,
                 cancelInfo, cancelDuringUpdate, config, activation, stream, done>>

target_data_sent ==
  /\ pc = "identified"
  /\ has_to_send_configData' = FALSE
  /\ Goto("poll")
  /\ UNCHANGED <<server, persistent, update_state, cancelInfo,
                 cancelDuringUpdate, attrs, activation, stream, done>>

-----------------------------------------------------------------------------
(* server_install_update *)

(* The deployment is read again.  The answer to a cancelled one has no
   "update" field, which counts as skip. *)
server_install_update(r) ==
  /\ pc = "install"
  /\ server_get_deployment_info(r)
  /\ IF r.what \in {"error", "none"} THEN Goto("poll")
     ELSE /\ id' = r.id
          /\ pc' = IF r.what = "deploy" THEN "chunk" ELSE "skip"
          /\ UNCHANGED <<chunk, res, built>>
  /\ UNCHANGED <<server, persistent, update_state, cancelDuringUpdate, attrs,
                 activation, stream, done>>

skip_reply(s) ==
  /\ pc = "skip"
  /\ server_send_deployment_reply(id, s)
  /\ Goto("poll")
  /\ UNCHANGED <<skip, attrsSeen, persistent, update_state,
                 cancelInfo, cancelDuringUpdate, config, activation, stream, done>>

(* "Installing Update Chunk Artifacts."  When it cannot be sent the result is
   the one of the chunk before. *)
chunk_reply(s) ==
  /\ pc = "chunk"
  /\ Goto(CASE s = "ok" -> "artifact"
             [] s # "ok" /\ chunk > 0 -> "post"
             [] OTHER -> "poll")
  /\ UNCHANGED <<server, persistent, update_state, cancelInfo,
                 cancelDuringUpdate, config, activation, stream, done>>

(* server_process_update_artifact for the one artifact of the chunk: action_id
   is stored, the notification thread started and the download begun. *)
server_process_update_artifact ==
  /\ pc = "artifact"
  /\ env_id' = id
  /\ cancelDuringUpdate' = FALSE
  /\ thread' = TRUE
  /\ inst' = "stream" /\ fed' = FALSE
  /\ done' = IF chunk = 0 THEN [done EXCEPT ![id] = 0] ELSE done
  /\ Goto("download")
  /\ UNCHANGED <<server, ustate, update_state, cancelInfo,
                 config, activation>>

(* All data were passed to the installer. *)
last_data ==
  /\ pc = "download" /\ ~fed
  /\ fed' = TRUE
  /\ UNCHANGED <<server, persistent, loop, update_state, cancelInfo,
                 cancelDuringUpdate, config, activation, thread, inst, done>>

get_file ==
  /\ pc = "download"
  /\ \/ fed /\ Goto("wait")
     \/ Goto("abort")          \* the download fails
  /\ UNCHANGED <<server, persistent, update_state, cancelInfo, cancelDuringUpdate,
                 config, activation, stream, done, faults>>

(* Called with each block of data; a cancelled or skipped deployment ends the
   download. *)
server_check_during_dwl(r) ==
  /\ pc = "download"
  /\ server_get_deployment_info(r)
  /\ cancelDuringUpdate' = (cancelDuringUpdate \/ r.what = "cancel")
  /\ Goto(IF r.what \in {"cancel", "skip"} THEN "abort" ELSE pc)
  /\ UNCHANGED <<server, persistent, update_state, attrs,
                 activation, stream, done>>

wait_for_complete_Not ==   \* mutant: after an error nobody waits for the installer
  /\ pc \in {"wait", "abort"}
  /\ pc = "wait" => inst \in {"ok", "fail"}
  /\ res' = IF pc = "wait" /\ inst = "ok" THEN "ok" ELSE "err"
  /\ pc' = "join"
  /\ UNCHANGED <<server, persistent, id, chunk, built, update_state, cancelInfo,
                 cancelDuringUpdate, config, activation, stream, done>>

(* ipc_wait_for_complete; after an error only to collect messages *)
wait_for_complete ==
  /\ pc \in {"wait", "abort"}
  /\ inst \in {"ok", "fail"}
  /\ res' = IF pc = "wait" /\ inst = "ok" THEN "ok" ELSE "err"
  /\ pc' = "join"
  /\ UNCHANGED <<server, persistent, id, chunk, built, update_state, cancelInfo,
                 cancelDuringUpdate, config, activation, stream, done>>

pthread_join_Not ==   \* mutant: the thread is not waited for
  /\ pc = "join"
  /\ inst' = "idle" /\ fed' = FALSE
  /\ Goto(CASE res = "ok" -> "installed"
             [] res # "ok" /\ cancelDuringUpdate -> "ackcancel"
             [] OTHER -> "closefail")
  /\ UNCHANGED <<server, persistent, update_state, cancelInfo,
                 cancelDuringUpdate, config, activation, thread, done>>

(* notifylock was released, which ends the thread. *)
pthread_join ==
  /\ pc = "join"
  /\ ~thread
  /\ inst' = "idle" /\ fed' = FALSE
  /\ Goto(CASE res = "ok" -> "installed"
             [] res # "ok" /\ cancelDuringUpdate -> "ackcancel"
             [] OTHER -> "closefail")
  /\ UNCHANGED <<server, persistent, update_state, cancelInfo,
                 cancelDuringUpdate, config, activation, thread, done>>

chunk_installed_Over ==   \* mutant: one chunk too many
  /\ pc = "installed"
  /\ chunk' = chunk + 1
  /\ pc' = IF chunk < Chunks THEN "chunk" ELSE "post"
  /\ UNCHANGED <<server, persistent, id, res, built, update_state, cancelInfo,
                 cancelDuringUpdate, config, activation, stream, done>>

(* "Installed Chunk.", and after the last one "All Chunks Installed." *)
chunk_installed ==
  /\ pc = "installed"
  /\ chunk' = chunk + 1
  /\ pc' = IF chunk + 1 < Chunks THEN "chunk" ELSE "post"
  /\ UNCHANGED <<server, persistent, id, res, built, update_state, cancelInfo,
                 cancelDuringUpdate, config, activation, stream, done>>

ack_cancel(s) ==
  /\ pc = "ackcancel"
  /\ server_send_cancel_reply(s)
  /\ Goto("poll")
  /\ UNCHANGED <<skip, attrsSeen, persistent, update_state,
                 cancelInfo, cancelDuringUpdate, config, activation, stream, done>>

close_failure(s) ==
  /\ pc = "closefail"
  /\ server_send_deployment_reply(id, s)
  /\ Goto("poll")
  /\ UNCHANGED <<skip, attrsSeen, persistent, update_state,
                 cancelInfo, cancelDuringUpdate, config, activation, stream, done>>

(* ipc_postupdate *)
postupdate ==
  /\ pc = "post"
  /\ Goto("poll")
  /\ UNCHANGED <<server, persistent, update_state, cancelInfo,
                 cancelDuringUpdate, config, activation, stream, done>>

-----------------------------------------------------------------------------
(* The installer, as seen from here: the update state is written when the
   installation begins and when it ends; of the errors before and while the
   images are extracted the state says nothing. *)

Installing(now) ==
  /\ inst' = now
  /\ UNCHANGED <<server, env_id, loop, update_state, cancelInfo, cancelDuringUpdate,
                 config, activation, thread, fed>>

InstallerBegins ==
  /\ inst = "stream"
  /\ ustate' = "in_progress"
  /\ UNCHANGED done
  /\ Installing("run")

InstallerFails ==
  /\ inst \in {"stream", "run"}
  /\ ustate' \in IF inst = "run" /\ fed THEN {ustate, "failed"} ELSE {ustate}
  /\ UNCHANGED done
  /\ Installing("fail")

InstallerSucceeds ==
  /\ inst = "run" /\ fed
  /\ ustate' = "installed"
  /\ done' = [done EXCEPT ![id] = @ + 1]
  /\ Installing("ok")

Installer == InstallerBegins \/ InstallerFails \/ InstallerSucceeds

(* process_notification_thread reports messages while the main loop holds
   notifylock, which it does until it is about to join the thread; then the
   rest is sent and the thread ends. *)
process_notification_thread ==
  /\ thread
  /\ pc \notin {"download", "wait", "abort"}
  /\ thread' = FALSE
  /\ UNCHANGED <<server, persistent, loop, update_state, cancelInfo,
                 cancelDuringUpdate, config, activation, inst, fed, done>>

-----------------------------------------------------------------------------
(* The IPC thread.  It does not wait for the main loop. *)

(* server_activation_ipc: the action id is the command's or the stored one *)
server_activation_ipc(r, a, closing) ==
  /\ pc # "down" /\ ipc = "idle"
  /\ a \in {b \in Action : srv[b] # "none"} \cup ({env_id} \ {0})
  /\ server_get_deployment_info(r)
  /\ IF r.what \in {"deploy", "skip"} /\ r.id = a
     THEN ipcId' = a /\ ipc' = (IF closing THEN "close" ELSE "proceed")
     ELSE /\ ipc' = CASE r.what = "error" -> "idle"
                     [] r.what = "cancel" -> "cancel"
                     [] OTHER -> "save"
          /\ UNCHANGED ipcId
  /\ UNCHANGED <<server, persistent, loop, update_state, cancelDuringUpdate, attrs,
                 stream, done>>

ipc_cancel_reply(s) ==
  /\ ipc = "cancel"
  /\ server_send_cancel_reply(s)
  /\ ipc' = "save"
  /\ UNCHANGED <<skip, attrsSeen, persistent, loop, update_state, cancelInfo,
                 cancelDuringUpdate, config, ipcId, stream, done>>

ipc_feedback(s) ==
  /\ ipc \in {"close", "proceed"}
  /\ IF ipc = "close" THEN server_send_deployment_reply(ipcId, s) ELSE UNCHANGED srv
  /\ ipc' = IF s = "ok" THEN "save" ELSE "idle"
  /\ ipcId' = 0
  /\ UNCHANGED <<skip, attrsSeen, persistent, loop, update_state, cancelInfo,
                 cancelDuringUpdate, config, stream, done>>

ipc_save ==
  /\ ipc = "save"
  /\ update_state' = "ok"
  /\ ustate' = "ok"
  /\ ipc' = "idle"
  /\ UNCHANGED <<server, env_id, loop, cancelInfo, cancelDuringUpdate, config, ipcId, stream, done>>

(* "identify", under ipc_lock; the attributes may be what they were. *)
server_configuration_ipc ==
  /\ pc # "down" /\ ipc = "idle"
  /\ attrs' \in {attrs, attrs + 1} \cap (1..MaxAttr)
  /\ has_to_send_configData' = TRUE
  /\ UNCHANGED <<server, persistent, loop, update_state, cancelInfo,
                 cancelDuringUpdate, activation, stream, done>>

-----------------------------------------------------------------------------
Steps ==    \* of the main loop that need no server
  \/ clear_action_id \/ save_canceled \/ build_target_data \/ target_data_sent
  \/ server_process_update_artifact \/ last_data \/ get_file
  \/ wait_for_complete \/ pthread_join \/ chunk_installed \/ postupdate

Polls(r) ==
  \/ server_handle_initial_state(r) \/ server_has_pending_action(r)
  \/ server_install_update(r)

Sends(s) ==
  \/ handle_feedback(s) \/ cancel_reply(s) \/ put_target_data(s)
  \/ skip_reply(s) \/ chunk_reply(s) \/ ack_cancel(s) \/ close_failure(s)

(* What disturbs the main loop is counted. *)
Tolerated(ok) ==
  IF ok THEN UNCHANGED faults ELSE faults < MaxFault /\ faults' = faults + 1

MainLoop ==
  \/ Steps /\ Tolerated(TRUE)
  \/ \E ok \in BOOLEAN : save_initial_state(ok) /\ Tolerated(ok)
  \/ \E r \in Replies : Polls(r) /\ Tolerated(r # Failed)
  \/ \E s \in Sending : Sends(s) /\ Tolerated(s = "ok")

IpcThread ==
  \/ ipc_save /\ Tolerated(TRUE)
  \/ \E s \in Sending : (ipc_cancel_reply(s) \/ ipc_feedback(s)) /\ Tolerated(s = "ok")

Commands ==
  \/ server_configuration_ipc /\ Tolerated(FALSE)
  \/ \E r \in Replies, a \in Action, closing \in BOOLEAN :
       server_activation_ipc(r, a, closing) /\ Tolerated(FALSE)

Others ==
  (Installer \/ process_notification_thread \/ Reboot) /\ Tolerated(TRUE)

Next ==
  \/ server_start
  \/ MainLoop \/ IpcThread \/ Others
  \/ \E r \in Replies : server_check_during_dwl(r) /\ Tolerated(r # Failed)
  \/ Commands
  \/ Operator /\ Tolerated(TRUE)
  \/ Crash /\ Tolerated(FALSE)

Spec == Init /\ [][Next]_vars

(* Daemon, installer and threads go on, and the device is rebooted after an
   update. *)
FairSpec ==
  /\ Spec
  /\ WF_vars(server_start) /\ WF_vars(MainLoop) /\ WF_vars(IpcThread)
  /\ WF_vars(Others)

-----------------------------------------------------------------------------
(* Properties *)

(* Every variable has its type: an action id is 0 or one the server assigned,
   the IPC thread has an id only while it sends a feedback. *)
TypeOK ==
  /\ srv \in [Action -> {"none", "open", "canceling", "closed"}]
  /\ skip \in BOOLEAN
  /\ attrsSeen \in 0..MaxAttr /\ attrs \in 1..MaxAttr /\ built \in 0..MaxAttr
  /\ ustate \in {"ok", "in_progress", "installed", "testing", "failed"}
  /\ {env_id, id, ipcId, stop_id, cancel_url} \subseteq {0} \cup {a \in Action : srv[a] # "none"}
  /\ pc \in {"down", "start", "report", "clear", "save", "poll", "cancel", "canceled",
            "identify", "put", "identified", "install", "skip", "chunk", "artifact",
            "download", "wait", "abort", "join", "installed", "ackcancel", "closefail",
            "post"}
  /\ pc \in {"report", "skip", "chunk", "artifact", "download", "closefail"} => id # 0
  /\ chunk \in 0..Chunks /\ done \in [Action -> 0..Chunks]
  /\ res \in {"ok", "err", "success", "failure", "proceeding"}
  /\ update_state \in {"none", "wait", "ok"}
  /\ {cancelDuringUpdate, has_to_send_configData, thread, fed} \subseteq BOOLEAN
  /\ ipc \in {"idle", "cancel", "close", "proceed", "save"}
  /\ (ipc \in {"close", "proceed"}) = (ipcId # 0)
  /\ inst \in {"idle", "stream", "run", "ok", "fail"}
  /\ faults \in 0..MaxFault

(* The result of an update that was tested or failed is forgotten only after
   the server received it, whatever requests are lost and wherever the daemon
   is restarted, unless the deployment is cancelled or a local command confirms
   it: server_handle_initial_state resets the state after the report. *)
ResultKept ==
  [][(ustate \in {"testing", "failed"} /\ ustate' = "ok")
       => \/ pc = "canceled" \/ ipc = "save"
          \/ pc = "save" /\ srv[id] = "closed"]_vars

(* After an update was installed no other one is begun until the next start,
   unless the state was reset: the state is read by server_has_pending_action,
   the deployment again by server_install_update. *)
NoReinstall ==
  [][(inst = "idle" /\ inst' = "stream" /\ chunk = 0) => ustate # "installed"]_vars

(* The notification thread shares the main loop's action id and sends progress
   for it: it is never alive when the main loop closes the deployment, polls
   or begins the next chunk, because every way out of an artifact joins it. *)
NoLateProgress ==
  thread => pc \in {"download", "wait", "abort", "join"}

(* When the main loop acknowledges a cancel the installer is not working on
   the deployment, also when the cancel was detected in the middle of a
   download: the errors are collected until the installer is done. *)
QuietWhenCanceled ==
  pc \in {"cancel", "canceled", "join", "ackcancel"} => inst \notin {"stream", "run"}

(* The variables have their types, and nobody but the main loop is at work when
   it closes or gives up a deployment. *)
Quiet == TypeOK /\ NoLateProgress /\ QuietWhenCanceled

(* A cancelled deployment is acknowledged in the end, wherever the device was
   when it was cancelled. *)
CancelAnswered ==
  \A a \in Action : srv[a] = "canceling" ~> srv[a] = "closed"

(* A deployment does not stay open forever: it is installed and reported after
   the reboot, or fails and is closed, however often requests are lost; a
   daemon that waits for a local command may leave it alone. *)
DeploymentEnds ==
  \A a \in Action : srv[a] = "open" ~> (srv[a] # "open" \/ update_state = "wait")

(* A deployment that was reported as successful is installed completely. *)
SuccessIsInstalled ==
  (pc = "report" /\ res = "success") => done[id] = Chunks

(* The server learns the attributes that were set by a local command. *)
AttributesReported ==
  \A v \in 1..MaxAttr : attrs = v ~> (attrsSeen = v \/ attrs # v)

=============================================================================
