-------------------------- MODULE InstallService ---------------------------
(***************************************************************************)
(* What the daemon promises to those who ask for an installation: one at a *)
(* time, nothing is accepted while one runs, and the one that runs is the  *)
(* last one accepted.  An accepted request that did not start yet is       *)
(* replaced by a newer one, and lost if the newer one is refused.          *)
(***************************************************************************)
CONSTANTS Client, NoClient
VARIABLES pending, running

svars == <<pending, running>>

SInit == pending = NoClient /\ running = NoClient

Accept(c) ==
  /\ running = NoClient
  /\ pending' = c
  /\ UNCHANGED running

Withdraw ==
  /\ running = NoClient
  /\ pending' = NoClient
  /\ UNCHANGED running

Serve ==
  /\ running = NoClient
  /\ pending # NoClient
  /\ running' = pending
  /\ pending' = NoClient

Finish ==
  /\ running # NoClient
  /\ running' = NoClient
  /\ UNCHANGED pending

SNext == (\E c \in Client : Accept(c)) \/ Withdraw \/ Serve \/ Finish

SSpec == SInit /\ [][SNext]_svars
=============================================================================
