------------------------------ MODULE Install ------------------------------
(***************************************************************************)
(* One installer thread working through SWU files, one after the other,    *)
(* with the power failing at any step: extract_files and the body of       *)
(* network_initializer (core/stream_interface.c), install_images           *)
(* (core/installer.c), and what they leave behind in flash and in the      *)
(* bootloader environment.                                                 *)
(*                                                                         *)
(* A SWU is abstracted to a record of Swu (what its sw-description says);  *)
(* the cpio stream is the sequence of data actions taken between           *)
(* STREAM_DATA and STREAM_END, in any order and with repetitions.          *)
(***************************************************************************)
EXTENDS Naturals

CONSTANTS
  Image,          \* the artifacts a SWU may carry
  Version,        \* their versions, positive numbers
  Swu,            \* the sw-descriptions that may arrive
  NoImage,        \* "no handler is running"
  EnvOutcome,     \* may bootloader_env_set/unset fail? {TRUE} or BOOLEAN
  StateOutcome    \* may save_state fail? {TRUE} or BOOLEAN

Torn == 0         \* flash contents of no known version; also "no version known"

(* What sw-description and the install request determine.  images is the
   list of artifacts (partitioners included), parts the partitioners, direct
   the ones with installed-directly, ifdiff / ifhigher the ones with a version
   check, sized the ones with a "size" attribute. *)
SwuRecord ==
  [images : SUBSET Image, parts : SUBSET Image, direct : SUBSET Image,
   ifdiff : SUBSET Image, ifhigher : SUBSET Image, sized : SUBSET Image,
   version : Version, script : BOOLEAN, bootvars : BOOLEAN, store : BOOLEAN,
   dry : BOOLEAN, tmark : BOOLEAN, smark : BOOLEAN]

ASSUME VersionAssumption == Version \subseteq Nat \ {0}
ASSUME NoImageAssumption == NoImage \notin Image
ASSUME OutcomeAssumption == EnvOutcome \subseteq BOOLEAN /\ StateOutcome \subseteq BOOLEAN
\* installed-directly has no meaning for a partitioner, which has no file
ASSUME SwuAssumption ==
  /\ Swu \subseteq SwuRecord
  /\ \A s \in Swu : /\ s.parts \subseteq s.images
                     /\ s.direct \subseteq s.images \ s.parts

VARIABLES
  pc,                  \* control point of the installer thread, or "off"
  sw,                  \* software: the parsed sw-description of this update
  installed_directly,  \* local of extract_files: marker already written
  provided,            \* img->provided
  copied,              \* files extracted and verified in TMPDIR
  scripted,            \* the script file is in TMPDIR
  cur,                 \* the streamed image being handled by extract_files
  hnd,                 \* the image whose handler is running
  last_install,        \* inst.last_install
  swlist,              \* software->installed_sw_list
  flash,               \* contents of each artifact's destination
  bootenv,             \* version whose bootloader variables are active
  recovery_status,     \* BOOTVAR_TRANSACTION
  ustate,              \* STATE_KEY
  done,                \* history: images whose handler returned 0
  skipped,             \* history: images dropped as already installed
  dirty                \* history: a marked update wrote flash since the last commit

volatile == <<sw, installed_directly, provided, copied, scripted, cur, hnd,
              done, skipped>>
persistent == <<flash, bootenv, recovery_status, ustate, dirty>>
stream == <<provided, copied, scripted>>
vars == <<pc, volatile, last_install, swlist, persistent>>

(* The sw-description of nothing. *)
NoSwu == [images |-> {}, parts |-> {}, direct |-> {}, ifdiff |-> {},
          ifhigher |-> {}, sized |-> {}, version |-> Torn, script |-> FALSE,
          bootvars |-> FALSE, store |-> FALSE, dry |-> FALSE,
          tmark |-> FALSE, smark |-> FALSE]

(* Nothing is being installed: the lists were freed by cleanup_files. *)
VolatileReset ==
  /\ sw' = NoSwu
  /\ installed_directly' = FALSE
  /\ provided' = {} /\ copied' = {} /\ scripted' = FALSE
  /\ cur' = NoImage /\ hnd' = NoImage
  /\ done' = {} /\ skipped' = {}

Init ==
  /\ pc = "idle"
  /\ sw = NoSwu
  /\ installed_directly = FALSE
  /\ provided = {} /\ copied = {} /\ scripted = FALSE
  /\ cur = NoImage /\ hnd = NoImage
  /\ done = {} /\ skipped = {}
  /\ last_install = "NONE"
  /\ flash \in [Image -> Version]
  /\ swlist = flash
  /\ bootenv \in Version
  /\ recovery_status = "unset"
  /\ ustate = "ok"
  /\ dirty = FALSE

-----------------------------------------------------------------------------
(* update_transaction_state: two writes to the bootloader environment, with
   room for a power cut between them.  The result of the first is ignored by
   the code; the result of the second is its return value. *)

WriteMarker_NoUnset(s) ==   \* mutant: "installed" is written like the others
  IF sw.dry \/ ~sw.tmark
  THEN UNCHANGED recovery_status
  ELSE \E ok \in EnvOutcome :
         recovery_status' = IF ~ok THEN recovery_status ELSE s

WriteMarker_Dry(s) ==       \* mutant: the dry run is forgotten
  IF ~sw.tmark
  THEN UNCHANGED recovery_status
  ELSE recovery_status' = IF s = "installed" THEN "unset" ELSE s

WriteMarker(s) ==
  IF sw.dry \/ ~sw.tmark
  THEN UNCHANGED recovery_status
  ELSE \E ok \in EnvOutcome :
         recovery_status' = IF ~ok THEN recovery_status
                            ELSE IF s = "installed" THEN "unset" ELSE s

WriteState(s, ok) ==
  IF sw.dry \/ ~sw.smark
  THEN ok /\ UNCHANGED ustate
  ELSE ok \in StateOutcome /\ ustate' = IF ok THEN s ELSE ustate

(* The handler of image i, install_single_image: flash is neither the old nor
   the new contents until it returns 0.  A dry run uses the dummy handler. *)
HandlerStarts(i) ==
  /\ hnd' = i
  /\ flash' = IF sw.dry THEN flash ELSE [flash EXCEPT ![i] = Torn]
  /\ dirty' = (dirty \/ (sw.tmark /\ ~sw.dry))

(* A failing handler, or a failing postinstall function after a complete
   write, leaves the destination torn or written. *)
HandlerReturns(ok) ==
  /\ hnd' = NoImage
  /\ \E v \in {Torn, sw.version} :
       /\ ok => v = sw.version
       /\ flash' = IF sw.dry THEN flash ELSE [flash EXCEPT ![hnd] = v]
  /\ done' = IF ok THEN done \cup {hnd} ELSE done

(* update_installed_image_version *)
VersionRecorded(i) == swlist' = [swlist EXCEPT ![i] = sw.version]

-----------------------------------------------------------------------------
(* network_initializer up to extract_files *)

(* The installer is woken up with a new SWU. *)
Start(s) ==
  /\ pc = "idle"
  /\ sw' = s
  /\ pc' = IF s.store THEN "save" ELSE "description"
  /\ UNCHANGED <<installed_directly, stream, cur, hnd, done, skipped,
                 last_install, swlist, persistent>>

(* save_stream copies the SWU to software->output and parses it once. *)
save_stream(ok) ==
  /\ pc = "save"
  /\ pc' = IF ok THEN "description" ELSE "refused"
  /\ UNCHANGED <<volatile, last_install, swlist, persistent>>

(* STREAM_WAIT_DESCRIPTION: sw-description must come first. *)
wait_description(ok) ==
  /\ pc = "description"
  /\ pc' = IF ok THEN "parse" ELSE "refused"
  /\ UNCHANGED <<volatile, last_install, swlist, persistent>>

(* is_image_installed and is_image_higher against installed_sw_list *)
AlreadyInstalled(i) ==
  \/ i \in sw.ifdiff /\ swlist[i] = sw.version
  \/ i \in sw.ifhigher /\ sw.version <= swlist[i]

Dropped == {i \in sw.images : AlreadyInstalled(i)}

(* STREAM_WAIT_SIGNATURE: verify, parse, check the hardware, run the
   preupdate command.  Skipped artifacts leave the list; a description with
   nothing left is refused ("Found nothing to install"). *)
parse(ok) ==
  /\ pc = "parse"
  /\ ok => sw.images # Dropped \/ sw.script \/ sw.bootvars
  /\ pc' = IF ok THEN "data" ELSE "refused"
  /\ sw' = [sw EXCEPT !.images = @ \ Dropped, !.parts = @ \ Dropped,
                      !.direct = @ \ Dropped]
  /\ skipped' = Dropped
  /\ UNCHANGED <<installed_directly, stream, cur, hnd, done,
                 last_install, swlist, persistent>>

-----------------------------------------------------------------------------
(* STREAM_DATA: one cpio entry after the other *)

Files == sw.images \ sw.parts

(* A file that is in no list, and a header or a file that cannot be read. *)
skip_file(ok) ==
  /\ pc = "data"
  /\ pc' = IF ok THEN "data" ELSE "refused"
  /\ UNCHANGED <<volatile, last_install, swlist, persistent>>

(* COPY_FILE of an image; a failure ends the extraction. *)
copy_file(i) ==
  /\ pc = "data"
  /\ i \in Files \ sw.direct
  /\ provided' = provided \cup {i}
  /\ copied' = copied \cup {i}
  /\ UNCHANGED <<pc, sw, installed_directly, scripted, cur, hnd, done, skipped,
                 last_install, swlist, persistent>>

(* COPY_FILE of the script *)
copy_script ==
  /\ pc = "data"
  /\ sw.script
  /\ scripted' = TRUE
  /\ UNCHANGED <<pc, sw, installed_directly, provided, copied, cur, hnd, done,
                 skipped, last_install, swlist, persistent>>

(* check_if_required answers -EINVAL because the cpio size is not the size of
   sw-description: no case of the switch matches, the entry's data is not
   consumed and the next header is read at once.  With an empty entry that
   header is the right one; otherwise it is not a header (skip_file(FALSE)). *)
size_mismatch(i) ==
  /\ pc = "data"
  /\ i \in Files \cap sw.sized
  /\ provided' = provided \cup {i}
  /\ UNCHANGED <<pc, sw, installed_directly, copied, scripted, cur, hnd, done,
                 skipped, last_install, swlist, persistent>>

install_from_stream_Unmarked(i) ==   \* mutant: streams without the marker
  /\ pc = "data"
  /\ i \in Files \cap sw.direct
  /\ provided' = provided \cup {i}
  /\ cur' = i
  /\ pc' = "streamParts"
  /\ UNCHANGED <<sw, installed_directly, copied, scripted, hnd, done, skipped,
                 last_install, swlist, persistent>>

(* INSTALL_FROM_STREAM: the first streamed image sets the marker. *)
install_from_stream(i) ==
  /\ pc = "data"
  /\ i \in Files \cap sw.direct
  /\ provided' = provided \cup {i}
  /\ cur' = i
  /\ pc' = IF installed_directly THEN "streamParts" ELSE "streamMark"
  /\ UNCHANGED <<sw, installed_directly, copied, scripted, hnd, done, skipped,
                 last_install, swlist, persistent>>

stream_mark ==
  /\ pc = "streamMark"
  /\ pc' = "streamMark2"
  /\ WriteMarker("in_progress")
  /\ UNCHANGED <<volatile, last_install, swlist, flash, bootenv, ustate, dirty>>

stream_mark2 ==
  /\ pc = "streamMark2"
  /\ pc' = "streamParts"
  /\ \E ok \in BOOLEAN : WriteState("in_progress", ok)
  /\ installed_directly' = TRUE
  /\ UNCHANGED <<sw, stream, cur, hnd, done, skipped, last_install, swlist,
                 flash, bootenv, recovery_status, dirty>>

(* Adjust the partitions before streaming into one of them. *)
stream_part(p) ==
  /\ pc = "streamParts"
  /\ p \in sw.parts \ sw.direct
  /\ pc' = "streamPart"
  /\ HandlerStarts(p)
  /\ UNCHANGED <<sw, installed_directly, stream, cur, done, skipped,
                 last_install, swlist, bootenv, recovery_status, ustate>>

stream_part_end_Again(ok) ==   \* mutant: the partition is not marked as done
  /\ pc = "streamPart"
  /\ pc' = IF ok THEN "streamParts" ELSE "refused"
  /\ HandlerReturns(ok)
  /\ UNCHANGED <<sw, installed_directly, stream, cur, skipped, last_install,
                 swlist, bootenv, recovery_status, ustate, dirty>>

stream_part_end(ok) ==
  /\ pc = "streamPart"
  /\ pc' = IF ok THEN "streamParts" ELSE "refused"
  /\ HandlerReturns(ok)
  /\ sw' = IF ok THEN [sw EXCEPT !.direct = @ \cup {hnd}] ELSE sw
  /\ UNCHANGED <<installed_directly, stream, cur, skipped, last_install, swlist,
                 bootenv, recovery_status, ustate, dirty>>

stream_image_Early ==   \* mutant: does not adjust the partitions first
  /\ pc = "streamParts"
  /\ pc' = "streamImage"
  /\ HandlerStarts(cur)
  /\ UNCHANGED <<sw, installed_directly, stream, cur, done, skipped,
                 last_install, swlist, bootenv, recovery_status, ustate>>

stream_image ==
  /\ pc = "streamParts"
  /\ sw.parts \subseteq sw.direct
  /\ pc' = "streamImage"
  /\ HandlerStarts(cur)
  /\ UNCHANGED <<sw, installed_directly, stream, cur, done, skipped,
                 last_install, swlist, bootenv, recovery_status, ustate>>

stream_image_end(ok) ==
  /\ pc = "streamImage"
  /\ pc' = IF ok THEN "data" ELSE "refused"
  /\ HandlerReturns(ok)
  /\ IF ok THEN VersionRecorded(hnd) ELSE UNCHANGED swlist
  /\ cur' = NoImage
  /\ UNCHANGED <<sw, installed_directly, stream, skipped, last_install,
                 bootenv, recovery_status, ustate, dirty>>

stream_end_Partial ==   \* mutant: missing files are not noticed
  /\ pc = "data"
  /\ pc' = "mark"
  /\ UNCHANGED <<volatile, last_install, swlist, persistent>>

(* TRAILER!!!, then STREAM_END: every file in the list must have been there. *)
stream_end ==
  /\ pc = "data"
  /\ pc' = IF Files \subseteq provided THEN "mark" ELSE "refused"
  /\ UNCHANGED <<volatile, last_install, swlist, persistent>>

-----------------------------------------------------------------------------
(* The installation proper: marker, install_images, marker again *)

mark ==
  /\ pc = "mark"
  /\ pc' = "mark2"
  /\ WriteMarker("in_progress")
  /\ UNCHANGED <<volatile, last_install, swlist, flash, bootenv, ustate, dirty>>

mark2 ==
  /\ pc = "mark2"
  /\ pc' = "scripts"
  /\ \E ok \in BOOLEAN : WriteState("in_progress", ok)
  /\ UNCHANGED <<volatile, last_install, swlist, flash, bootenv, recovery_status,
                 dirty>>

(* extract_scripts *)
extract_scripts(ok) ==
  /\ pc = "scripts"
  /\ ok => (sw.script => scripted)
  /\ pc' = IF ok THEN "preinstall" ELSE "failMark"
  /\ UNCHANGED <<volatile, last_install, swlist, persistent>>

(* run_prepost_scripts(PREINSTALL), not in a dry run *)
preinstall(ok) ==
  /\ pc = "preinstall"
  /\ sw.dry => ok
  /\ pc' = IF ok THEN "images" ELSE "failMark"
  /\ UNCHANGED <<volatile, last_install, swlist, persistent>>

(* Images still to be installed by install_images; the partitioners were put
   at the head of the list by the parser. *)
Todo == sw.images \ (sw.direct \cup done)

(* stat or open of the extracted file fails *)
file_missing(i) ==
  /\ pc = "images"
  /\ i \in Todo \ sw.parts
  /\ sw.parts \cap Todo = {}
  /\ i \notin copied
  /\ pc' = "failMark"
  /\ UNCHANGED <<volatile, last_install, swlist, persistent>>

install_image(i) ==
  /\ pc = "images"
  /\ i \in Todo
  /\ i \in sw.parts \/ (sw.parts \cap Todo = {} /\ i \in copied)
  /\ pc' = "image"
  /\ HandlerStarts(i)
  /\ UNCHANGED <<sw, installed_directly, stream, cur, done, skipped,
                 last_install, swlist, bootenv, recovery_status, ustate>>

install_image_end_Ignored(ok) ==   \* mutant: the handler's result is ignored
  /\ pc = "image"
  /\ pc' = "images"
  /\ hnd' = NoImage
  /\ flash' = IF ok /\ ~sw.dry THEN [flash EXCEPT ![hnd] = sw.version] ELSE flash
  /\ done' = done \cup {hnd}
  /\ VersionRecorded(hnd)
  /\ UNCHANGED <<sw, installed_directly, stream, cur, skipped, last_install,
                 bootenv, recovery_status, ustate, dirty>>

(* The version is recorded before the handler's result is looked at. *)
install_image_end(ok) ==
  /\ pc = "image"
  /\ pc' = IF ok THEN "images" ELSE "failMark"
  /\ HandlerReturns(ok)
  /\ VersionRecorded(hnd)
  /\ UNCHANGED <<sw, installed_directly, stream, cur, skipped, last_install,
                 bootenv, recovery_status, ustate, dirty>>

images_done ==
  /\ pc = "images"
  /\ Todo = {}
  /\ pc' = IF sw.dry THEN "commit" ELSE "postinstall"
  /\ UNCHANGED <<volatile, last_install, swlist, persistent>>

postinstall(ok) ==
  /\ pc = "postinstall"
  /\ pc' = IF ok THEN "bootvars" ELSE "failMark"
  /\ UNCHANGED <<volatile, last_install, swlist, persistent>>

(* update_swupdate_vars and update_bootloader_env *)
update_bootloader_env(ok) ==
  /\ pc = "bootvars"
  /\ pc' = IF ok THEN "swversions" ELSE "failMark"
  /\ bootenv' = IF ok /\ sw.bootvars THEN sw.version ELSE bootenv
  /\ UNCHANGED <<volatile, last_install, swlist, flash, recovery_status, ustate,
                 dirty>>

generate_swversions(ok) ==
  /\ pc = "swversions"
  /\ pc' = IF ok THEN "commit" ELSE "failMark"
  /\ UNCHANGED <<volatile, last_install, swlist, persistent>>

commit ==
  /\ pc = "commit"
  /\ pc' = "commit2"
  /\ WriteMarker("installed")
  /\ dirty' = (dirty /\ (sw.dry \/ ~sw.tmark))
  /\ UNCHANGED <<volatile, last_install, swlist, flash, bootenv, ustate>>

(* Only here is the result of update_transaction_state looked at. *)
commit2(ok) ==
  /\ pc = "commit2"
  /\ pc' = "cleanup"
  /\ WriteState("installed", ok)
  /\ last_install' = IF ok THEN "SUCCESS" ELSE "FAILURE"
  /\ UNCHANGED <<volatile, swlist, flash, bootenv, recovery_status, dirty>>

fail_mark_Unset ==   \* mutant: a failed update removes the marker
  /\ pc = "failMark"
  /\ pc' = "failMark2"
  /\ WriteMarker("installed")
  /\ UNCHANGED <<volatile, last_install, swlist, flash, bootenv, ustate, dirty>>

fail_mark ==
  /\ pc = "failMark"
  /\ pc' = "failMark2"
  /\ WriteMarker("failed")
  /\ UNCHANGED <<volatile, last_install, swlist, flash, bootenv, ustate, dirty>>

fail_mark2 ==
  /\ pc = "failMark2"
  /\ pc' = IF sw.dry THEN "cleanup" ELSE "postfailure"
  /\ \E ok \in BOOLEAN : WriteState("failed", ok)
  /\ last_install' = "FAILURE"
  /\ UNCHANGED <<volatile, swlist, flash, bootenv, recovery_status, dirty>>

(* The POSTFAILURE scripts; their result is ignored. *)
postfailure ==
  /\ pc = "postfailure"
  /\ pc' = "cleanup"
  /\ UNCHANGED <<volatile, last_install, swlist, persistent>>

(* save_stream or extract_files failed: "Error happened. Not installing" *)
refused ==
  /\ pc = "refused"
  /\ pc' = "cleanup"
  /\ last_install' = "FAILURE"
  /\ UNCHANGED <<volatile, swlist, persistent>>

(* swupdate_progress_end, cleanup_files, back to the top of the loop *)
cleanup_files ==
  /\ pc = "cleanup"
  /\ pc' = "idle"
  /\ VolatileReset
  /\ UNCHANGED <<last_install, swlist, persistent>>

-----------------------------------------------------------------------------
(* The power fails; what is in RAM is gone. *)
PowerCut ==
  /\ pc # "off"
  /\ pc' = "off"
  /\ VolatileReset
  /\ last_install' = "NONE"
  /\ UNCHANGED <<swlist, persistent>>

(* SWUpdate is started again; get_sw_versions reads the list of versions that
   the system generated from what is installed. *)
Boot ==
  /\ pc = "off"
  /\ pc' = "idle"
  /\ swlist' = flash
  /\ UNCHANGED <<volatile, last_install, persistent>>

Extract ==
  \/ \E ok \in BOOLEAN : save_stream(ok) \/ wait_description(ok) \/ parse(ok)
  \/ \E ok \in BOOLEAN : skip_file(ok)
  \/ \E i \in Image : copy_file(i) \/ size_mismatch(i) \/ install_from_stream(i)
  \/ copy_script
  \/ stream_mark \/ stream_mark2
  \/ \E i \in Image : stream_part(i)
  \/ stream_image
  \/ \E ok \in BOOLEAN : stream_part_end(ok) \/ stream_image_end(ok)
  \/ stream_end

Installation ==
  \/ mark \/ mark2
  \/ \E ok \in BOOLEAN : extract_scripts(ok) \/ preinstall(ok)
  \/ \E i \in Image : file_missing(i) \/ install_image(i)
  \/ \E ok \in BOOLEAN : install_image_end(ok)
  \/ images_done
  \/ \E ok \in BOOLEAN :
       postinstall(ok) \/ update_bootloader_env(ok) \/ generate_swversions(ok)
  \/ commit
  \/ \E ok \in BOOLEAN : commit2(ok)
  \/ fail_mark \/ fail_mark2 \/ postfailure \/ refused
  \/ cleanup_files

Next ==
  \/ \E s \in Swu : Start(s)
  \/ Extract
  \/ Installation
  \/ PowerCut
  \/ Boot

Spec == Init /\ [][Next]_vars

(* The thread runs whenever it can, and a SWU is a finite stream: whoever
   sends it comes to the trailer.  Nobody has to start an update, and the power
   does not have to fail or to come back. *)
FairSpec ==
  /\ Spec
  /\ WF_vars(Extract)
  /\ SF_vars(stream_end)
  /\ WF_vars(Installation)

-----------------------------------------------------------------------------
StreamPC == {"save", "description", "parse", "data", "streamMark", "streamMark2",
             "streamParts", "streamPart", "streamImage"}
InstallPC == {"mark", "mark2", "scripts", "preinstall", "images", "image",
              "postinstall", "bootvars", "swversions", "commit", "commit2",
              "failMark", "failMark2", "postfailure"}
PC == {"off", "idle", "refused", "cleanup"} \cup StreamPC \cup InstallPC

TypeOK ==
  /\ pc \in PC
  /\ sw \in SwuRecord \cup {NoSwu}
  /\ installed_directly \in BOOLEAN
  /\ provided \in SUBSET Image
  /\ copied \in SUBSET Image
  /\ scripted \in BOOLEAN
  /\ cur \in Image \cup {NoImage}
  /\ hnd \in Image \cup {NoImage}
  /\ last_install \in {"NONE", "SUCCESS", "FAILURE"}
  /\ swlist \in [Image -> Version \cup {Torn}]
  /\ flash \in [Image -> Version \cup {Torn}]
  /\ bootenv \in Version
  /\ recovery_status \in {"unset", "in_progress", "failed"}
  /\ ustate \in {"ok", "in_progress", "failed", "installed"}
  /\ done \in SUBSET Image
  /\ skipped \in SUBSET Image
  /\ dirty \in BOOLEAN

(* An update with the transaction marker that writes flash and is not
   committed is visible to the bootloader, whatever the cause that stopped it
   and whatever updates came after: recovery_status is not empty
   (update_transaction_state, network_initializer). *)
MarkedWhileDirty == dirty => recovery_status # "unset"

(* The update is complete: the transaction is about to be committed, or the
   update was reported as successful. *)
Committed ==
  \/ pc \in {"commit", "commit2"}
  \/ pc = "cleanup" /\ last_install = "SUCCESS"

(* When network_initializer commits, every artifact of the sw-description that
   was not skipped has the new contents, whether streamed, copied or a
   partition adjusted on the way, and the new bootloader variables are active.
   Streamed images with a "size" are left out, see SizeErrorFound. *)
SuccessMeansInstalled ==
  Committed /\ ~sw.dry =>
    /\ \A i \in sw.images \ (sw.direct \cap sw.sized) : flash[i] = sw.version
    /\ sw.bootvars => bootenv = sw.version

(* The handler of an image that comes from a file runs only once all
   partitioners of the update have run, streamed images included
   (extract_files, install_images, order of the list). *)
PartitionsFirst == hnd \in Files => sw.parts \subseteq done

(* An artifact that is not streamed is written only after the whole SWU was
   received, each file checked: an incomplete SWU changes nothing but what is
   streamed (STREAM_END of extract_files).  Files with a "size" are left out,
   see size_mismatch. *)
WrittenAfterVerified ==
  hnd \in Files \ sw.direct =>
    Files \ sw.sized \subseteq provided \cap (copied \cup sw.direct)

(* The bootloader variables of a new release become active only when every
   artifact of it is in place (order of install_images). *)
BootenvAfterImages ==
  [][bootenv' # bootenv =>
       \A i \in sw.images \ (sw.direct \cap sw.sized) : flash[i] = sw.version]_vars

(* A dry run leaves flash and the bootloader environment alone. *)
DryRunTouchesNothing == [][sw.dry => UNCHANGED persistent]_vars

(* The flash and the marker behave as a transaction. *)
Tx == INSTANCE Transaction WITH marker <- recovery_status
Transactional == Tx!TSpec

(* Every update comes to an end: the installer is back at waiting for a
   request (or the power is off). *)
UpdateEnds == pc \notin {"idle", "off"} ~> pc \in {"idle", "off"}

-----------------------------------------------------------------------------
(* Why the properties hold: the inductive invariant of Install_proofs *)

(* The update writes under the marker at these points. *)
WritingPC == {"streamMark2", "streamParts", "streamPart", "streamImage", "mark2",
              "scripts", "preinstall", "images", "image", "postinstall",
              "bootvars", "swversions", "commit", "failMark"}
HandlerPC == {"streamPart", "streamImage", "image"}
FailPC == {"refused", "failMark", "failMark2", "postfailure"}

(* Where what is in done is still as its handler left it *)
Sound == pc \notin FailPC /\ (pc = "cleanup" => last_install = "SUCCESS")

ControlInv ==
  /\ pc \notin {"idle", "off"} => sw \in SwuRecord
  /\ pc \in HandlerPC <=> hnd \in Image
  /\ pc \in {"streamMark", "streamMark2", "streamParts", "streamPart",
              "streamImage"} => cur \in Files \cap sw.direct
  /\ pc = "streamPart" => hnd \in sw.parts
  /\ pc = "streamImage" => hnd = cur
  /\ pc \in {"data"} \cup InstallPC \/ Committed => cur = NoImage
  /\ pc \in {"off", "idle", "save", "description", "parse"} =>
       /\ ~installed_directly /\ cur = NoImage
       /\ done = {} /\ provided = {} /\ copied = {}
  /\ pc \in {"postinstall", "bootvars", "swversions"} => ~sw.dry
  /\ pc = "postfailure" => last_install = "FAILURE"
  /\ sw.parts \subseteq sw.images

MarkerInv ==
  /\ MarkedWhileDirty
  /\ sw.tmark /\ ~sw.dry /\ (pc \in WritingPC \/ (pc = "data" /\ installed_directly))
       => recovery_status = "in_progress"
  /\ pc \in {"streamParts", "streamPart", "streamImage"} => installed_directly

CompleteInv ==
  /\ Sound /\ ~sw.dry => \A i \in done \ {hnd} : flash[i] = sw.version
  /\ pc \in {"off", "idle", "save", "description", "parse"} => sw.parts \cap sw.direct = {}
  /\ sw.parts \cap sw.direct \subseteq done
  /\ Sound => (Files \cap sw.direct \cap provided) \ sw.sized \subseteq done \cup {cur}
  /\ (Files \cap provided) \ (sw.sized \cup sw.direct) \subseteq copied
  /\ pc \in InstallPC \/ (pc = "cleanup" /\ Sound) => Files \subseteq provided
  /\ pc \in {"postinstall", "bootvars", "swversions"} \/ Committed =>
       sw.images \subseteq sw.direct \cup done
  /\ pc = "swversions" \/ Committed =>
       (sw.bootvars /\ ~sw.dry => bootenv = sw.version)
  /\ pc = "image" => hnd \in sw.images /\ hnd \notin sw.direct
  /\ PartitionsFirst

IndInv == TypeOK /\ ControlInv /\ MarkerInv /\ CompleteInv

-----------------------------------------------------------------------------
(* Statements of the documentation that the code does not keep *)

(* "If the update ends with an error, recovery_status has the value
   "failed"": extract_files fails after streaming an image. *)
FailureIsMarked ==
  pc = "cleanup" /\ last_install = "FAILURE" /\ installed_directly
    /\ sw.tmark /\ ~sw.dry
      => recovery_status = "failed"

(* install-if-different: what is skipped is already installed in this version;
   installed_sw_list must not be ahead of flash. *)
SkippedIsInstalled ==
  \A i \in skipped \cap sw.ifdiff : flash[i] = sw.version

(* check_if_required: "-1= error found".  A streamed image whose size in the
   cpio header is not the one of sw-description must not end in a successful
   update without it. *)
SizeErrorFound ==
  Committed /\ ~sw.dry => \A i \in sw.images : flash[i] = sw.version
=============================================================================
