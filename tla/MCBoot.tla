------------------------------- MODULE MCBoot -------------------------------
(***************************************************************************)
(* The three ways in which a device switches to its new software, checked  *)
(* in one run: a device has one of them (set_bootloader in                 *)
(* core/bootloader.c picks a boot loader; a handler of the update rewrites *)
(* the administration sectors).                                            *)
(***************************************************************************)
EXTENDS EbgEnv, GrubEnv, SsblSwitch

VARIABLE device    \* the way of this device

bvars == <<device, vars, gvars, svars>>

BootInit ==
  /\ device \in {"ebg", "grub", "ssbl"}
  /\ Init /\ GInit /\ SInit
  /\ device # "ssbl" => \A i \in Copy : sector[i] = [magic |-> TRUE, age |-> i, whole |-> TRUE]

BootNext ==
  /\ UNCHANGED device
  /\ \/ device = "ebg" /\ Next /\ UNCHANGED <<gvars, svars>>
     \/ device = "grub" /\ GNext /\ UNCHANGED <<vars, svars>>
     \/ device = "ssbl" /\ SNext /\ UNCHANGED <<vars, gvars>>

BootSpec == BootInit /\ [][BootNext]_bvars
=============================================================================
