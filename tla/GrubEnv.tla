------------------------------ MODULE GrubEnv ------------------------------
(***************************************************************************)
(* The environment block of GRUB (bootloader/grub.c): each call reads the  *)
(* block, changes it in memory and replaces the file by a new one.         *)
(*                                                                         *)
(* The calls come from the installer thread and from the network thread,   *)
(* which nothing keeps apart.  A file is a number and a directory entry    *)
(* refers to it; the block is small enough for the buffer of stdio, so it  *)
(* is written when the file is closed, after the rename.  The file system  *)
(* is the kindest one: what was written or renamed survives a power cut.   *)
(***************************************************************************)
EXTENDS Integers, FiniteSets

CONSTANTS
  Thread,    \* the installer thread and the network thread
  GVar,      \* variables of the block
  Room,      \* how many of them fit into the block
  MaxCalls   \* bound: calls in a behaviour

ASSUME GrubAssumption == /\ IsFiniteSet(Thread) /\ GVar # {}
                         /\ Room \in Nat /\ MaxCalls \in Nat

VARIABLES
  grubenv, new,   \* directory entries; 0 is no file
  content,        \* what the files hold
  gpc, vars_,     \* per thread: where it is, and its dictionary
  fd,             \* per thread: the file it writes
  change,         \* per thread: the function called, its variables and value (0: unset)
  calls,
  told,           \* history: last value of each variable a call reported as set
  alone,          \* history: no two calls overlapped and no call was cut
  torn            \* history: a power cut came between a rename and its fclose

gvars == <<grubenv, new, content, gpc, vars_, fd, change, calls, told, alone, torn>>

Block == [GVar -> 0..MaxCalls]
Empty == <<>>
File == 0..Cardinality(Thread) + 2
Function == {"do_env_set", "do_env_unset", "do_apply_list"}
Change == [fn: Function, names: SUBSET GVar, value: 0..MaxCalls]

GTypeOK ==
  /\ grubenv \in File \ {0} /\ new \in File
  /\ content \in [File -> Block \cup {Empty}]
  /\ gpc \in [Thread -> {"idle", "write", "rename", "fclose", "error"}]
  /\ vars_ \in [Thread -> Block] /\ fd \in [Thread -> File]
  /\ change \in [Thread -> Change]
  /\ calls \in 0..MaxCalls
  /\ told \in Block /\ alone \in BOOLEAN /\ torn \in BOOLEAN

GInit ==
  LET b == [v \in GVar |-> 0]
  IN  /\ grubenv = 1 /\ new = 0 /\ content = [f \in File |-> IF f = 1 THEN b ELSE Empty]
      /\ gpc = [t \in Thread |-> "idle"] /\ vars_ = [t \in Thread |-> b]
      /\ fd = [t \in Thread |-> 0]
      /\ change = [t \in Thread |-> [fn |-> "do_env_set", names |-> {}, value |-> 0]]
      /\ calls = 0 /\ told = b /\ alone = TRUE /\ torn = FALSE

Goto(t, p) == gpc' = [gpc EXCEPT ![t] = p]

(* Mutant: the dictionary of an earlier call is still there and is used.   *)
grubenv_open_Stale(t, fn) ==
  /\ gpc[t] = "idle" /\ calls < MaxCalls /\ calls' = calls + 1
  /\ \E v \in GVar :
       /\ change' = [change EXCEPT ![t] = [fn |-> fn, names |-> {v}, value |-> calls + 1]]
       /\ vars_' = [vars_ EXCEPT ![t][v] = calls + 1]
       /\ Goto(t, "write")
  /\ alone' = (alone /\ \A u \in Thread : gpc[u] = "idle")
  /\ UNCHANGED <<grubenv, new, content, fd, told, torn>>

(* The block is read, or the call fails, and changed in memory.  Each      *)
(* function has one dictionary for all its callers: two threads in the     *)
(* same function at once are a data race, and left out.                    *)
grubenv_open(t, fn) ==
  /\ gpc[t] = "idle" /\ calls < MaxCalls /\ calls' = calls + 1
  /\ \A u \in Thread : gpc[u] # "idle" => change[u].fn # fn
  /\ \E V \in SUBSET GVar \ {{}} :
       LET value == IF fn = "do_env_unset" THEN 0 ELSE calls + 1
       IN  /\ fn # "do_apply_list" => Cardinality(V) = 1
           /\ change' = [change EXCEPT ![t] = [fn |-> fn, names |-> V, value |-> value]]
           /\ IF content[grubenv] = Empty THEN UNCHANGED <<gpc, vars_>>
              ELSE /\ vars_' = [vars_ EXCEPT ![t] =
                        [v \in GVar |-> IF v \in V THEN value ELSE content[grubenv][v]]]
                   /\ Goto(t, "write")
  /\ alone' = (alone /\ \A u \in Thread : gpc[u] = "idle")
  /\ UNCHANGED <<grubenv, new, content, fd, told, torn>>

grub_env_set(t) == grubenv_open(t, "do_env_set")
grub_env_unset(t) == grubenv_open(t, "do_env_unset")
grub_apply_list(t) == grubenv_open(t, "do_apply_list")

(* A file nobody refers to.                                                *)
Fresh == CHOOSE f \in File \ {0, grubenv, new} : \A t \in Thread : fd[t] # f

Fits(b) == Cardinality({v \in GVar : b[v] # 0}) <= Room

(* The file grubenv.new is created, or one that is there is emptied; the   *)
(* block goes into the buffer of the stream.                               *)
grubenv_write(t) ==
  /\ gpc[t] = "write"
  /\ IF ~Fits(vars_[t]) THEN Goto(t, "idle") /\ UNCHANGED <<new, content, fd>>
     ELSE /\ new' = IF new # 0 THEN new ELSE Fresh
          /\ content' = [content EXCEPT ![new'] = Empty]
          /\ fd' = [fd EXCEPT ![t] = new']
          /\ Goto(t, "rename")
  /\ UNCHANGED <<grubenv, vars_, change, calls, told, alone, torn>>

(* Mutant: a rename that failed is taken for one that did not.             *)
rename_Unchecked(t) ==
  /\ gpc[t] = "rename"
  /\ grubenv' = new /\ new' = 0
  /\ Goto(t, "fclose")
  /\ UNCHANGED <<content, vars_, fd, change, calls, told, alone, torn>>

(* The rename fails if the other thread has just done it.                  *)
rename(t) ==
  /\ gpc[t] = "rename"
  /\ grubenv' = IF new # 0 THEN new ELSE grubenv
  /\ Goto(t, IF new # 0 THEN "fclose" ELSE "error")
  /\ new' = 0
  /\ UNCHANGED <<content, vars_, fd, change, calls, told, alone, torn>>

(* Mutant: the stream is left open, and never written.                     *)
fclose_Open(t) ==
  /\ gpc[t] \in {"fclose", "error"}
  /\ fd' = [fd EXCEPT ![t] = 0]
  /\ Goto(t, "idle")
  /\ UNCHANGED <<grubenv, new, content, vars_, change, calls, told, alone, torn>>

(* The buffer is written and the call returns.                             *)
fclose(t) ==
  /\ gpc[t] \in {"fclose", "error"}
  /\ content' = [content EXCEPT ![fd[t]] = vars_[t]]
  /\ told' = [v \in GVar |-> IF gpc[t] = "fclose" /\ v \in change[t].names
                             THEN change[t].value ELSE told[v]]
  /\ fd' = [fd EXCEPT ![t] = 0]
  /\ Goto(t, "idle")
  /\ UNCHANGED <<grubenv, new, vars_, change, calls, alone, torn>>

(* The power is cut: nothing is left of the calls but the files.           *)
power_cut ==
  /\ \E t \in Thread : gpc[t] # "idle"
  /\ gpc' = [t \in Thread |-> "idle"] /\ fd' = [t \in Thread |-> 0]
  /\ alone' = FALSE
  /\ torn' = (torn \/ \E t \in Thread : fd[t] = grubenv)
  /\ UNCHANGED <<grubenv, new, content, vars_, change, calls, told>>

GNext ==
  \/ \E t \in Thread : \/ grub_env_set(t) \/ grub_env_unset(t) \/ grub_apply_list(t)
                      \/ grubenv_write(t) \/ rename(t) \/ fclose(t)
  \/ power_cut

GSpec == GInit /\ [][GNext]_gvars

-----------------------------------------------------------------------------
(* The block is whole at all times, power cuts and two calls at once       *)
(* included, except after a rename, by either thread, of a file that is    *)
(* not closed yet, and after a power cut at that time.                     *)
GrubWhole ==
  content[grubenv] = Empty => torn \/ \E t \in Thread : fd[t] = grubenv

(* As long as calls do not overlap and none is cut, a call that reported   *)
(* success is in the block, and one that was refused has changed nothing.  *)
GrubDurable ==
  (alone /\ \A t \in Thread : gpc[t] = "idle") => content[grubenv] = told

(* What grubenv_write leaves is whole, and it is what was asked for.       *)
GrubRight == GTypeOK /\ GrubWhole /\ GrubDurable

(* "Variables are written into temporary file and after successful         *)
(* operation rename instruction is called": a power cut finds a block.     *)
GrubPowerSafe == content[grubenv] # Empty
=============================================================================
