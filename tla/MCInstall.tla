----------------------------- MODULE MCInstall -----------------------------
(***************************************************************************)
(* Instances of Install for TLC: a partitioner p and two images a and b,   *)
(* two versions, and sw-descriptions that differ in how a and b arrive.    *)
(***************************************************************************)
EXTENDS Install

CONSTANTS p, a, b

MCImage == {p, a, b}
MCVersion == {1, 2}

Base == [images |-> {a, b}, parts |-> {}, direct |-> {}, ifdiff |-> {},
         ifhigher |-> {}, sized |-> {}, version |-> 2, script |-> FALSE,
         bootvars |-> TRUE, store |-> FALSE, dry |-> FALSE,
         tmark |-> TRUE, smark |-> TRUE]

(* A partitioner, a streamed and a copied image; the copied one has a size. *)
Streamed == [Base EXCEPT !.images = {p, a, b}, !.parts = {p}, !.direct = {a},
                         !.sized = {b}]
(* The older release, with version checks, stored before it is installed. *)
Older == [Base EXCEPT !.version = 1, !.ifdiff = {a}, !.ifhigher = {b},
                      !.store = TRUE]
(* No marker, a script and no bootloader variables. *)
Unmarked == [Base EXCEPT !.tmark = FALSE, !.images = {a}, !.script = TRUE,
                         !.bootvars = FALSE]
(* A dry run that would write everything. *)
Dry == [Streamed EXCEPT !.dry = TRUE, !.ifdiff = {b}]

MCSwu == {Streamed, Older, Unmarked, Dry}

(* For the runs about one sw-description *)
Checked == [Base EXCEPT !.ifdiff = {a}]
MCSwuStream == {Streamed}
MCSwuSized == {[Streamed EXCEPT !.sized = {a}]}
MCSwuChecked == {Checked, [Checked EXCEPT !.dry = TRUE]}
=============================================================================
