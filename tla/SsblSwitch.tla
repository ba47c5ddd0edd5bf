----------------------------- MODULE SsblSwitch -----------------------------
(***************************************************************************)
(* The switch between two copies of a second stage boot loader             *)
(* (handlers/ssbl_handler.c).                                              *)
(*                                                                         *)
(* Each copy has an administration sector in flash with a magic number and *)
(* an age modulo 3.  The copy with the newer valid sector is the active    *)
(* one; the switch rewrites the sector of the other copy: it erases it,    *)
(* writes it without the magic number, then writes the magic number.  The  *)
(* power may be cut at any time, also within a write.                      *)
(***************************************************************************)
EXTENDS Integers

VARIABLES
  sector,    \* the two administration sectors in flash
  admins,    \* what ssbl_swap read of them
  spc,       \* the next write of ssbl_swap
  target,    \* the copy it makes the active one
  was        \* history: the active copy when the last switch began

svars == <<sector, admins, spc, target, was>>

Copy == {0, 1}

(* whole: image_offs and image_size are the ones of the copy.  An erased   *)
(* sector has all the bits of its age set.                                 *)
Sector == [magic: BOOLEAN, age: 0..7, whole: BOOLEAN]
Erased == [magic |-> FALSE, age |-> 7, whole |-> FALSE]

STypeOK ==
  /\ sector \in [Copy -> Sector] /\ admins \in [Copy -> Sector]
  /\ spc \in {"idle", "erase", "admin", "magic", "done"}
  /\ target \in Copy /\ was \in Copy

get_ssbl_age(s) == s.age % 3

(* Mutant: the ages are compared as numbers.                               *)
get_inactive_ssbl_Plain(s) ==
  IF ~s[0].magic THEN 0
  ELSE IF ~s[1].magic THEN 1
  ELSE IF get_ssbl_age(s[1]) > get_ssbl_age(s[0]) THEN 0 ELSE 1

(* The first sector without magic number, else the older one; an age of 0  *)
(* is newer than 2.                                                        *)
get_inactive_ssbl(s) ==
  LET age0 == get_ssbl_age(s[0])
      age1 == get_ssbl_age(s[1])
      Aged(a, b) == IF a = 0 /\ b = 2 THEN 3 ELSE a
  IN  IF ~s[0].magic THEN 0
      ELSE IF ~s[1].magic THEN 1
      ELSE IF Aged(age1, age0) > Aged(age0, age1) THEN 0 ELSE 1

get_active_ssbl(s) == 1 - get_inactive_ssbl(s)

(* "At least one of the two SSBL Admin block must contain valid data."     *)
SInit ==
  /\ sector \in [Copy -> Sector]
  /\ \A i \in Copy : sector[i] = Erased \/ (sector[i].whole /\ sector[i].age < 3)
  /\ \E i \in Copy : sector[i].magic
  /\ admins = sector /\ spc = "idle" /\ target = 0 /\ was = get_active_ssbl(sector)

(* Mutant: the active copy is rewritten.                                   *)
ssbl_swap_Active ==
  /\ spc \in {"idle", "done"} /\ spc' = "erase"
  /\ admins' = sector
  /\ target' = get_active_ssbl(sector) /\ was' = target'
  /\ UNCHANGED sector

(* The post-install call: both sectors are read.                           *)
ssbl_swap ==
  /\ spc \in {"idle", "done"} /\ spc' = "erase"
  /\ admins' = sector
  /\ target' = get_inactive_ssbl(sector)
  /\ was' = get_active_ssbl(sector)
  /\ UNCHANGED sector

flash_erase ==
  /\ spc = "erase" /\ spc' = "admin"
  /\ sector' = [sector EXCEPT ![target] = Erased]
  /\ UNCHANGED <<admins, target, was>>

(* Mutants: the magic number is written at once; the age is only added to. *)
write_admin_Valid ==
  /\ spc = "admin" /\ spc' = "magic"
  /\ sector' = [sector EXCEPT ![target] =
                  [magic |-> TRUE, whole |-> TRUE,
                   age |-> (get_ssbl_age(admins[get_active_ssbl(admins)]) + 1) % 3]]
  /\ UNCHANGED <<admins, target, was>>

write_admin_Counts ==
  /\ spc = "admin" /\ spc' = "magic"
  /\ sector' = [sector EXCEPT ![target] =
                  [magic |-> FALSE, whole |-> TRUE,
                   age |-> admins[get_active_ssbl(admins)].age + 1]]
  /\ UNCHANGED <<admins, target, was>>

(* The sector with the age after the one of the active copy.               *)
write_admin ==
  /\ spc = "admin" /\ spc' = "magic"
  /\ sector' = [sector EXCEPT ![target] =
                  [magic |-> FALSE, whole |-> TRUE,
                   age |-> (get_ssbl_age(admins[get_active_ssbl(admins)]) + 1) % 3]]
  /\ UNCHANGED <<admins, target, was>>

(* "Last but not least, write the magic to make the SSBL valid"            *)
write_magic ==
  /\ spc = "magic" /\ spc' = "done"
  /\ sector' = [sector EXCEPT ![target].magic = TRUE]
  /\ UNCHANGED <<admins, target, was>>

(* A power cut, or an error that ends the handler, between two writes or   *)
(* within one.  Taken of the flash: an erase that is cut does not leave a  *)
(* valid magic number, and a written word that is cut has some of its bits. *)
cut ==
  /\ spc \notin {"idle", "done"} /\ spc' = "idle"
  /\ \/ UNCHANGED sector
     \/ /\ spc = "erase"
        /\ \E s \in {[sector[target] EXCEPT !.magic = FALSE, !.whole = FALSE], Erased} :
             sector' = [sector EXCEPT ![target] = s]
     \/ /\ spc = "admin"
        /\ \E a \in 0..7 : sector' = [sector EXCEPT ![target].age = a]
  /\ UNCHANGED <<admins, target, was>>

SNext == ssbl_swap \/ flash_erase \/ write_admin \/ write_magic \/ cut

SSpec == SInit /\ [][SNext]_svars

-----------------------------------------------------------------------------
(* Whenever the power is cut the boot loader finds an active copy whose    *)
(* sector is valid and complete (the order of the writes in ssbl_swap).    *)
ActiveValid ==
  LET a == get_active_ssbl(sector) IN sector[a].magic /\ sector[a].whole

(* A switch that is interrupted, at any time, leaves the active copy.      *)
OldUntilDone == spc # "done" => get_active_ssbl(sector) = was

(* A switch that came to its end has made the other copy the active one,   *)
(* whatever the ages, the wrap from 2 to 0 included.                       *)
Switched == spc = "done" => get_active_ssbl(sector) = 1 - was

(* The switch is atomic: at all times there is a valid copy to boot, and   *)
(* it is the old one until the last write of ssbl_swap, the new one after. *)
SwitchAtomic == STypeOK /\ ActiveValid /\ OldUntilDone /\ Switched
=============================================================================
