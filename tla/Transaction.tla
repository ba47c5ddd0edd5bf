---------------------------- MODULE Transaction ----------------------------
(***************************************************************************)
(* What the transaction marker promises to the bootloader: flash is only   *)
(* written under a marker that is not "unset", a marker is only removed    *)
(* from a running update that wrote everything, and an update known as     *)
(* failed stays so until another one begins.                               *)
(***************************************************************************)
VARIABLES
  marker,   \* recovery_status, as the bootloader reads it
  dirty     \* flash was written and not committed

tvars == <<marker, dirty>>

TInit == marker = "unset" /\ dirty = FALSE

Begin ==
  /\ marker' = "in_progress"
  /\ UNCHANGED dirty

Write ==
  /\ marker # "unset"
  /\ dirty' = TRUE
  /\ UNCHANGED marker

Commit ==
  /\ marker = "in_progress"
  /\ marker' = "unset"
  /\ dirty' = FALSE

Abort ==
  /\ marker = "in_progress"
  /\ marker' = "failed"
  /\ UNCHANGED dirty

TNext == Begin \/ Write \/ Commit \/ Abort

TSpec == TInit /\ [][TNext]_tvars
=============================================================================
