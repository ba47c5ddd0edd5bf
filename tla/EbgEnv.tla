------------------------------- MODULE EbgEnv -------------------------------
(***************************************************************************)
(* The environment of EFI Boot Guard (bootloader/ebg.c) under updates,     *)
(* acknowledgements, restarts of the daemon and power cuts.                *)
(*                                                                         *)
(* The disk holds Slots environments.  The boot loader starts the one that *)
(* is not in progress and has the highest revision, the boot path.         *)
(* libebgenv keeps a copy of all of them in memory and writes one when it  *)
(* is closed; ebg.c builds a transaction on top of that: IN_PROGRESS makes *)
(* a working copy, INSTALLED writes it.  The callers are the installer     *)
(* thread (core/stream_interface.c, core/installer.c) and, for a backend   *)
(* or a client, the network thread (core/state.c).                         *)
(*                                                                         *)
(* The value of a variable is the number of the update that set it.        *)
(***************************************************************************)
EXTENDS Integers, FiniteSets

CONSTANTS
  Slots,       \* environments on the disk
  Var,         \* variables an update may set
  MaxUpdates,  \* bound: updates in a behaviour
  MaxBoots,    \* bound: reboots and restarts of the daemon
  MaxFaults    \* bound: calls of libebgenv that fail

ASSUME EbgAssumption == /\ Slots \in Nat \ {0, 1}
                        /\ Var \cap {"transaction", "ustate", "in_progress"} = {}
                        /\ {MaxUpdates, MaxBoots, MaxFaults} \subseteq Nat

VARIABLES
  disk,     \* the environments on the disk
  lib,      \* ebgenv and inflight: what the process has in memory
  running,  \* the environment the device was booted with
  booted,   \* history: its contents at that time
  commits,  \* history: environments committed since the device was booted
  pc,       \* where the installer thread is
  upd,      \* the last update: number, variables it sets, its two markers
  todo,     \* variables it has not set yet
  last,     \* its result
  failed,   \* history: the updates that ended with a failure
  seen,     \* the update state the backend got since it was started
  acked,    \* history: it acknowledged TESTING and was answered ACK
  fresh,    \* history: no update was begun since the device was booted
  boots, faults

vars == <<disk, lib, running, booted, commits, pc, upd, todo, last, failed,
          seen, acked, fresh, boots, faults>>
installer == <<pc, upd, todo, last, failed, fresh>>
server == <<seen, acked>>
history == <<running, booted, commits, boots, faults>>

Env == 1..Slots
State == {"ok", "installed", "testing", "failed"}
Name == {"transaction", "ustate"} \cup Var

Environment == [revision: Nat, in_progress: 0..1, ustate: State,
                vars: [Var -> 0..MaxUpdates]]

TypeOK ==
  /\ disk \in [Env -> Environment]
  /\ lib \in [open: BOOLEAN, mem: [Env -> Environment], cur: Env, inflight: BOOLEAN]
  /\ running \in Env /\ booted \in Environment /\ commits \in 0..MaxUpdates
  /\ pc \in {"idle", "begin", "begin2", "bootenv", "fail", "fail2", "commit", "commit2"}
  /\ upd \in [no: 0..MaxUpdates, vars: SUBSET Var, transaction: BOOLEAN, state: BOOLEAN]
  /\ todo \subseteq upd.vars
  /\ last \in {"none", "success", "failure"}
  /\ failed \subseteq 1..MaxUpdates
  /\ seen \in State \cup {"none"}
  /\ acked \in BOOLEAN /\ fresh \in BOOLEAN
  /\ boots \in 0..MaxBoots /\ faults \in 0..MaxFaults

(* The environment of the highest revision among E: the first one probed   *)
(* wins a tie.                                                             *)
Newest(d, E) ==
  CHOOSE e \in E : \A f \in E : \/ d[f].revision < d[e].revision
                                \/ d[f].revision = d[e].revision /\ e <= f

Oldest(d) ==
  CHOOSE e \in Env : \A f \in Env : \/ d[e].revision < d[f].revision
                                    \/ d[e].revision = d[f].revision /\ e >= f

BootPath(d) == Newest(d, {e \in Env : d[e].in_progress = 0})

Closed == [open |-> FALSE, mem |-> disk, cur |-> running, inflight |-> FALSE]

Init ==
  /\ disk = [e \in Env |-> [revision |-> e, in_progress |-> 0, ustate |-> "ok",
                            vars |-> [v \in Var |-> 0]]]
  /\ running = Slots /\ booted = disk[Slots] /\ commits = 0
  /\ lib = Closed
  /\ pc = "idle" /\ todo = {} /\ last = "none" /\ failed = {}
  /\ upd = [no |-> 0, vars |-> {}, transaction |-> TRUE, state |-> TRUE]
  /\ seen = "none" /\ acked = FALSE /\ fresh = TRUE
  /\ boots = 0 /\ faults = 0

-----------------------------------------------------------------------------
(* libebgenv, as ebg.c uses it and describes it                            *)

(* The first call reads the disk, the later ones keep the copy in memory.  *)
env_open_current(l) ==
  IF l.open THEN l
  ELSE [l EXCEPT !.open = TRUE, !.mem = disk, !.cur = Newest(disk, Env)]

Current(l) == l.mem[l.cur]

(* The least recent environment becomes a copy of the current one, with    *)
(* the next revision and in progress.                                      *)
env_create_new(l) ==
  LET o == Oldest(l.mem)
  IN  [l EXCEPT !.cur = o,
                !.mem[o] = [Current(l) EXCEPT !.revision = @ + 1, !.in_progress = 1]]

env_set(l, field, value) ==
  IF field \in Var THEN [l EXCEPT !.mem[l.cur].vars[field] = value]
  ELSE [l EXCEPT !.mem[l.cur][field] = value]

(* A rolled back environment hides the state of the current one.           *)
env_getglobalstate(l) ==
  IF \E e \in Env : l.mem[e].revision = 0 /\ l.mem[e].ustate = "failed"
  THEN "failed" ELSE Current(l).ustate

env_finalize_update(l) == env_set(env_set(l, "in_progress", 0), "ustate", "installed")

(* What a call makes of the memory and of the disk, and what it returns.   *)
Returns(ok, l, d) == [ok |-> ok, lib |-> l, disk |-> d]

(* The current environment is written, and forgotten, unless that fails.   *)
env_close(l, works) ==
  IF works THEN Returns(TRUE, [l EXCEPT !.open = FALSE], [disk EXCEPT ![l.cur] = Current(l)])
  ELSE Returns(FALSE, l, disk)
-----------------------------------------------------------------------------
(* bootloader/ebg.c                                                        *)

(* Mutant: the transaction is made in the current environment.             *)
create_new_environment_InPlace(l) ==
  IF l.inflight \/ Current(l).in_progress = 1 THEN l
  ELSE [env_set(env_set(l, "in_progress", 1), "revision", Current(l).revision + 1)
          EXCEPT !.inflight = TRUE]

create_new_environment(l) ==
  IF l.inflight \/ Current(l).in_progress = 1 THEN l
  ELSE [env_create_new(l) EXCEPT !.inflight = TRUE]

(* Without a transaction only its start and an acknowledgement are allowed. *)
Allowed(name, value) ==
  \/ lib.inflight
  \/ name = "transaction" /\ value = "in_progress"
  \/ name = "ustate" /\ value \in {"ok", "in_progress"}

(* Mutants: a blessing that is not written; one of any installed update.   *)
acknowledge_Memory(l, works) == Returns(TRUE, env_set(l, "ustate", "ok"), disk)

acknowledge_Any(l, works) ==
  IF l.inflight THEN Returns(TRUE, env_set(l, "ustate", "ok"), disk)
  ELSE env_close(env_set(l, "ustate", "ok"), works)

(* STATE_OK: within a transaction a change of the working copy; otherwise  *)
(* it clears a rollback on the other environments, or blesses this one.    *)
acknowledge(l, works) ==
  LET Cleared(d) == [e \in Env |-> IF e = l.cur THEN d[e] ELSE [d[e] EXCEPT !.ustate = "ok"]]
  IN  IF l.inflight THEN Returns(TRUE, env_set(l, "ustate", "ok"), disk)
      ELSE IF env_getglobalstate(l) = "failed"
      THEN IF works THEN Returns(TRUE, [l EXCEPT !.mem = Cleared(@)], Cleared(disk))
           ELSE Returns(FALSE, l, disk)
      ELSE IF Current(l).ustate = "testing"
      THEN env_close(env_set(l, "ustate", "ok"), works)
      ELSE Returns(FALSE, l, disk)

(* Mutant: the update is not finalized before it is written.               *)
commit_Unfinished(l, works) ==
  LET r == env_close(env_set(l, "in_progress", 0), works)
  IN  IF r.ok THEN [r EXCEPT !.lib.inflight = FALSE] ELSE r

(* STATE_INSTALLED: the working copy becomes the boot path.                *)
commit(l, works) ==
  LET r == env_close(env_finalize_update(l), works)
  IN  IF r.ok THEN [r EXCEPT !.lib.inflight = FALSE] ELSE r

(* Mutant: the working copy is written whatever the state is.              *)
do_env_set_Writes(name, value, works) ==
  LET l == env_open_current(lib)
  IN  IF name \in Var THEN Returns(TRUE, env_set(l, name, value), disk)
      ELSE IF value = "in_progress" THEN Returns(TRUE, create_new_environment(l), disk)
      ELSE commit(l, works)

do_env_set(name, value, works) ==
  LET l == env_open_current(lib)
  IN  CASE ~Allowed(name, value) -> Returns(FALSE, lib, disk)
        [] Allowed(name, value) /\ name = "transaction" ->
             Returns(TRUE, IF value = "in_progress" THEN create_new_environment(l)
                           ELSE env_set(l, "in_progress", 0), disk)
        [] Allowed(name, value) /\ name \in Var ->
             Returns(works, IF works THEN env_set(l, name, value) ELSE l, disk)
        [] Allowed(name, value) /\ name = "ustate" ->
             CASE value = "in_progress" -> Returns(TRUE, create_new_environment(l), disk)
               [] value = "ok" -> acknowledge(l, works)
               [] value = "installed" -> commit(l, works)
               [] value = "failed" -> Returns(TRUE, l, disk)

(* The transaction variable stands for the field in_progress.              *)
do_env_unset(name) ==
  LET l == env_open_current(lib)
  IN  IF lib.inflight THEN Returns(TRUE, env_set(l, "in_progress", 0), disk)
      ELSE Returns(FALSE, l, disk)

do_env_get_ustate ==
  LET l == env_open_current(lib)
  IN  IF l.inflight THEN Current(l).ustate ELSE env_getglobalstate(l)

(* The outcomes of a call that changes the environment: a write may fail.  *)
Calls(name, value) ==
  {do_env_set(name, value, works) :
     works \in {TRUE} \cup (IF faults < MaxFaults THEN {FALSE} ELSE {})}

(* The call came to the outcome r, by a fault if it should have another.   *)
Becomes(r, name, value) ==
  /\ lib' = r.lib /\ disk' = r.disk
  /\ faults' = IF r = do_env_set(name, value, TRUE) THEN faults ELSE faults + 1

-----------------------------------------------------------------------------
(* The installer thread                                                    *)

(* Mutant: what the update before did not set is left to do.               *)
network_initializer_Stale ==
  /\ pc = "idle" /\ upd.no < MaxUpdates
  /\ \E V \in SUBSET Var, t, s \in BOOLEAN :
       /\ upd' = [no |-> upd.no + 1, vars |-> V, transaction |-> t, state |-> s]
       /\ todo' = todo \cup V
  /\ pc' = "begin" /\ last' = "none" /\ fresh' = FALSE
  /\ UNCHANGED <<disk, lib, failed, server, history>>

(* An update whose images are there: the variables of its list and its     *)
(* markers come from its sw-description.                                   *)
network_initializer ==
  /\ pc = "idle" /\ upd.no < MaxUpdates
  /\ \E V \in SUBSET Var, t, s \in BOOLEAN :
       /\ upd' = [no |-> upd.no + 1, vars |-> V, transaction |-> t, state |-> s]
       /\ todo' = V
  /\ pc' = "begin" /\ last' = "none" /\ fresh' = FALSE
  /\ UNCHANGED <<disk, lib, failed, server, history>>

(* The two halves of update_transaction_state: the transaction marker,     *)
(* whose result is ignored, and save_state.                                *)
marker(from, to, value) ==
  /\ pc = from /\ pc' = to
  /\ IF ~upd.transaction THEN UNCHANGED <<disk, lib, faults>>
     ELSE IF value = "installed"
     THEN /\ lib' = do_env_unset("transaction").lib
          /\ UNCHANGED <<disk, faults>>
     ELSE \E r \in Calls("transaction", value) : Becomes(r, "transaction", value)
  /\ UNCHANGED <<upd, todo, last, failed, fresh, running, booted, commits, boots, server>>

save_state(value, ok) ==
  IF upd.state THEN \E r \in Calls("ustate", value) : ok = r.ok /\ Becomes(r, "ustate", value)
  ELSE ok /\ UNCHANGED <<disk, lib, faults>>

begin == marker("begin", "begin2", "in_progress")

begin2 ==
  /\ pc = "begin2" /\ pc' = "bootenv"
  /\ \E ok \in BOOLEAN : save_state("in_progress", ok)
  /\ UNCHANGED <<upd, todo, last, failed, fresh, running, booted, commits, boots, server>>

Ends(result) ==
  /\ pc' = "idle" /\ last' = result
  /\ failed' = IF result = "failure" THEN failed \cup {upd.no} ELSE failed

(* extract_files, which has set the markers for an image it streams, fails: *)
(* they are not set to FAILED.                                             *)
extract_fails ==
  /\ pc = "bootenv" /\ todo = upd.vars
  /\ Ends("failure")
  /\ UNCHANGED <<disk, lib, upd, todo, fresh, server, history>>

(* A step of install_images fails, before the variables are set or, when   *)
(* the list of versions cannot be written, after that.                     *)
install_fails ==
  /\ pc = "bootenv" /\ todo \in {{}, upd.vars} /\ pc' = "fail"
  /\ UNCHANGED <<disk, lib, upd, todo, last, failed, fresh, server, history>>

(* do_apply_list sets one variable after the other and stops at an error.  *)
do_apply_list ==
  /\ pc = "bootenv"
  /\ \E v \in todo :
       /\ todo' = todo \ {v}
       /\ \E r \in Calls(v, upd.no) : /\ Becomes(r, v, upd.no)
                                      /\ pc' = IF r.ok THEN pc ELSE "fail"
  /\ UNCHANGED <<upd, last, failed, fresh, running, booted, commits, boots, server>>

installed ==
  /\ pc = "bootenv" /\ todo = {} /\ pc' = "commit"
  /\ UNCHANGED <<disk, lib, upd, todo, last, failed, fresh, server, history>>

fail == marker("fail", "fail2", "failed")

fail2 ==
  /\ pc = "fail2"
  /\ \E ok \in BOOLEAN : save_state("failed", ok)
  /\ Ends("failure")
  /\ UNCHANGED <<upd, todo, fresh, running, booted, commits, boots, server>>

unset_marker == marker("commit", "commit2", "installed")

commit2 ==
  /\ pc = "commit2"
  /\ \E ok \in BOOLEAN : /\ save_state("installed", ok)
                         /\ Ends(IF ok THEN "success" ELSE "failure")
  /\ commits' = IF disk' # disk THEN commits + 1 ELSE commits
  /\ UNCHANGED <<upd, todo, fresh, running, booted, boots, server>>
-----------------------------------------------------------------------------
(* The network thread, for a backend and for clients                       *)

(* GET_UPDATE_STATE at the start of the backend.  Asking opens the         *)
(* environment.                                                            *)
get_state ==
  /\ seen = "none"
  /\ seen' = do_env_get_ustate
  /\ lib' = env_open_current(lib)
  /\ UNCHANGED <<disk, installer, acked, history>>

(* SET_UPDATE_STATE, once the server took the report of the state.         *)
set_state_ok ==
  /\ seen \in {"installed", "testing", "failed"}
  /\ seen' = "ok"
  /\ \E r \in Calls("ustate", "ok") : /\ Becomes(r, "ustate", "ok")
                                      /\ acked' = (acked \/ (r.ok /\ seen = "testing"))
  /\ UNCHANGED <<installer, running, booted, commits, boots>>

(* A client commits an update that was installed without its state marker. *)
activate ==
  /\ pc = "idle" /\ last = "success" /\ ~upd.state /\ lib.inflight
  /\ \E r \in Calls("ustate", "installed") : Becomes(r, "ustate", "installed")
  /\ commits' = IF disk' # disk THEN commits + 1 ELSE commits
  /\ UNCHANGED <<installer, server, running, booted, boots>>

-----------------------------------------------------------------------------
(* Restarts: at any time the process is gone, and with it its copy.        *)

Forget(d, r) ==
  /\ lib' = [open |-> FALSE, mem |-> d, cur |-> r, inflight |-> FALSE]
  /\ pc' = "idle" /\ todo' = {}
  /\ last' = IF pc = "idle" THEN last ELSE "none"
  /\ seen' = "none"

restart ==
  /\ boots < MaxBoots /\ boots' = boots + 1
  /\ Forget(disk, running)
  /\ UNCHANGED <<disk, running, booted, commits, upd, failed, acked, fresh, faults>>

(* EFI Boot Guard: an installed environment is tried once; one that was    *)
(* tried and not blessed has failed, and the next best is booted.          *)
Tried(d) ==
  LET p == BootPath(d)
  IN  CASE d[p].ustate = "installed" -> [d EXCEPT ![p].ustate = "testing"]
        [] d[p].ustate = "testing" -> [d EXCEPT ![p].ustate = "failed", ![p].revision = 0]
        [] OTHER -> d

reboot ==
  /\ boots < MaxBoots /\ boots' = boots + 1
  /\ disk' = Tried(disk)
  /\ running' = BootPath(disk')
  /\ booted' = disk'[running'] /\ commits' = 0
  /\ Forget(disk', running')
  /\ acked' = FALSE /\ fresh' = TRUE
  /\ UNCHANGED <<upd, failed, faults>>

Next ==
  \/ network_initializer \/ begin \/ begin2
  \/ extract_fails \/ install_fails \/ do_apply_list \/ installed
  \/ fail \/ fail2 \/ unset_marker \/ commit2
  \/ get_state \/ set_state_ok \/ activate
  \/ restart \/ reboot

Spec == Init /\ [][Next]_vars

-----------------------------------------------------------------------------
(* Nothing SWUpdate does changes the boot path except that it blesses it,  *)
(* from TESTING to OK; a step may only make another environment the boot   *)
(* path.  (The rule at the top of bootloader/ebg.c.)                       *)
OnlyBlessed ==
  [][boots' # boots \/
     LET p == BootPath(disk)
     IN  disk'[p] \in {disk[p], [disk[p] EXCEPT !.ustate = IF @ = "testing" THEN "ok" ELSE @]}]_vars

(* Whatever fails and whenever the power is cut, no variable of the last   *)
(* update is on the disk before it is committed or if it failed.           *)
UncommittedOffDisk ==
  (upd.no > 0 /\ (pc # "idle" \/ last # "success")) =>
     \A e \in Env, v \in Var : disk[e].vars[v] # upd.no

(* An update with the state marker that reported success is what the boot  *)
(* loader tries next, with all of its variables.                           *)
SuccessIsNext ==
  (pc = "idle" /\ last = "success" /\ upd.state /\ ~fresh) =>
     LET p == BootPath(disk)
     IN  disk[p].ustate = "installed" /\ \A v \in upd.vars : disk[p].vars[v] = upd.no

(* What was booted stays on the disk, as it was but for its state, until   *)
(* as many updates as there are environments are committed: a rollback     *)
(* finds it.                                                               *)
RunningKept ==
  commits < Slots => /\ disk[running].vars = booted.vars
                     /\ disk[running].revision = booted.revision
                     /\ disk[running].in_progress = 0

(* Until it reboots into an update that was committed as a whole, a device *)
(* can go back to what it runs.                                            *)
RollbackKept == TypeOK /\ UncommittedOffDisk /\ RunningKept

(* An acknowledgement that is answered with ACK before any update is begun *)
(* is on the disk: the next boot does not roll back.                       *)
AckHolds == (acked /\ fresh) => disk[running].ustate = "ok"

(* What do_env_set does for an acknowledgement reaches the disk, and it is *)
(* the only thing that is changed of the boot path.                        *)
AckKept == []AckHolds /\ OnlyBlessed

(* "In this case, the transaction is simply not committed, so nothing to   *)
(* do": a variable of an update that failed never gets to the disk.        *)
FailedNotCommitted == \A e \in Env, v \in Var : disk[e].vars[v] \notin failed

(* The same of an acknowledgement at any time.                             *)
AckHoldsAlways == acked => disk[running].ustate # "testing"
=============================================================================
