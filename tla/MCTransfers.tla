---------------------------- MODULE MCTransfers -----------------------------
(***************************************************************************)
(* What gets an image onto the device, checked in one run: the download of *)
(* a file, delta updates, the parser of multipart answers, the copy of the *)
(* files of an archive, and the processes that do the work.  A behaviour   *)
(* is about one of the five.  In Delta the parser is abstracted to the     *)
(* callbacks it makes; Multipart shows that it makes these, however a body *)
(* is cut into packages.                                                   *)
(***************************************************************************)
EXTENDS Download, Delta, Multipart, CpioCopy, Processes

MCBoundary == <<"hyphen", "b">>

VARIABLE scope    \* what this behaviour is about

all == <<scope, vars, dvars, mpvars, cpvars, pvars>>

(* Chunks of one and of two units next to each other, either way; the      *)
(* parts a behaviour is not about are in one of their initial states.      *)
ScopeInit ==
  /\ scope \in {"download", "delta", "parser", "copy", "processes"}
  /\ Init /\ (scope # "download" => retries = 0 /\ cached = 0)
  /\ PInit /\ (scope # "processes" => opt_i = FALSE)
  /\ DInit /\ size[1] # size[2] /\ size[2] # size[3]
  /\ scope # "delta" => src = {} /\ size[1] = 1 /\ max_ranges = 1
  /\ MInit /\ (scope # "parser" => given = <<<<>>>>)
  /\ IF scope = "copy" THEN CInit ELSE file = Filler /\ fend = End /\ Begin

DownloadRuns(A) == scope = "download" /\ A /\ UNCHANGED <<scope, dvars, mpvars, cpvars, pvars>>
DeltaRuns(A) == scope = "delta" /\ A /\ UNCHANGED <<scope, vars, mpvars, cpvars, pvars>>
ParserRuns(A) == scope = "parser" /\ A /\ UNCHANGED <<scope, vars, dvars, cpvars, pvars>>
CopyRuns(A) == scope = "copy" /\ A /\ UNCHANGED <<scope, vars, dvars, mpvars, pvars>>
ProcessesRun(A) == scope = "processes" /\ A /\ UNCHANGED <<scope, vars, dvars, mpvars, cpvars>>

ScopeNext ==
  DownloadRuns(Next) \/ DeltaRuns(DNext) \/ ParserRuns(MNext) \/ CopyRuns(CNext)
  \/ ProcessesRun(PNext)

(* The fairness of the five specifications.                                *)
ScopeSpec ==
  /\ ScopeInit /\ [][ScopeNext]_all
  /\ WF_all(DownloadRuns(Next))
  /\ WF_all(DeltaRuns(Handler)) /\ WF_all(DeltaRuns(Downloader))
  /\ WF_all(CopyRuns(CNext))
  /\ WF_all(ProcessesRun(MainThread)) /\ WF_all(ProcessesRun(Threads))
  /\ WF_all(ProcessesRun(Async)) /\ WF_all(ProcessesRun(Signals))
  /\ WF_all(ProcessesRun(Kernel))

(* A download, a delta update (unless an answer is empty), the copy of an
   archive and a local installation come to an end, whatever is cut,
   refused or fails; the daemon ends with a subprocess that it has
   registered, and its subprocesses with it. *)
TransfersEnd ==
  Ends /\ DeltaEnds /\ CopyEnds /\ LocalReturns /\ Supervised /\ NoOrphans
=============================================================================
