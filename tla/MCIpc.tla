------------------------------- MODULE MCIpc --------------------------------
(***************************************************************************)
(* The requests of the IPC library, checked in one run: updates, and       *)
(* commands for a subprocess.  A behaviour is about one of the two; they   *)
(* share no state but the socket, and the network thread serves one        *)
(* message at a time.                                                      *)
(***************************************************************************)
EXTENDS UpdateIpc, Suricatta, TLC

CONSTANTS s1, s2

VARIABLE scope    \* what this behaviour is about

all == <<scope, vars, subvars>>

(* Two clients with commands: pairs of commands that race.                 *)
MCSender == {s1, s2}

Give(x, y) == s1 :> x @@ s2 :> y

MCCommands ==
  {Give("trigger", x) : x \in {"trigger", "enable", "disable", "other", "nobody"}}
    \cup {Give("enable", "disable")}

IpcInit ==
  /\ scope \in {"updates", "commands"}
  /\ Init /\ SubInit
  /\ scope = "updates" => cmd = Give("enable", "disable") /\ enable

UpdatesRun(A) == scope = "updates" /\ A /\ UNCHANGED <<scope, subvars>>
CommandsRun(A) == scope = "commands" /\ A /\ UNCHANGED <<scope, vars>>

IpcNext == UpdatesRun(Next) \/ CommandsRun(SubNext)

(* The fairness of the two specifications.                                 *)
IpcSpec ==
  /\ IpcInit /\ [][IpcNext]_all
  /\ WF_all(UpdatesRun(NetworkThread)) /\ WF_all(UpdatesRun(Installer))
  /\ \A c \in Client : WF_all(UpdatesRun(Library(c)))
  /\ WF_all(CommandsRun(SubprocessThread)) /\ WF_all(CommandsRun(IpcThread))
  /\ WF_all(CommandsRun(MainLoop))
=============================================================================
