------------------------------ MODULE Download ------------------------------
(***************************************************************************)
(* The downloader (corelib/downloader.c) and the download it does over the *)
(* network (channel_get_file in corelib/channel_curl.c): blocks of a SWU   *)
(* go to the installer while they arrive, an interrupted transfer is       *)
(* resumed where it stopped, and a cache file may hold the beginning.      *)
(* libcurl, the server and the installer are external.                     *)
(***************************************************************************)
EXTENDS Naturals, Sequences

CONSTANTS
  Blocks,       \* length of the file
  MaxRetries,   \* -r is at most this
  TryMod        \* try_count wraps here: 256, unsigned char

ASSUME ConstantAssumption ==
  Blocks \in Nat \ {0} /\ MaxRetries \in Nat /\ TryMod \in Nat \ {0}

(* try_count does not wrap before the retries are used up; a cache file adds
   one to both. *)
ASSUME NoWrapAssumption == MaxRetries + 2 < TryMod

VARIABLES
  pc,
  result,       \* of channel_get_file
  opens,        \* attempts to start the installation
  retries,      \* channel_data->retries
  try_count,
  total,        \* total_bytes_downloaded
  pos,          \* where the current transfer is in the file
  http,         \* kind of the response code of the current transfer
  cached,       \* blocks in the cache file
  delivered,    \* what was passed to the installer
  refused,      \* of which sources the callback refused a block
  broken,       \* the stream to the installer is broken
  inst,         \* the installer
  final         \* of download_from_url

transfer == <<retries, try_count, total, pos, http, cached>>
sink == <<delivered, refused, broken>>
vars == <<pc, result, opens, transfer, sink, inst, final>>

Page == 0       \* a block of an error page
File == [i \in 1..Blocks |-> i]

Init ==
  /\ pc = "setup" /\ result = "ok" /\ opens = 0
  /\ retries \in 0..MaxRetries
  /\ try_count = 0 /\ total = 0 /\ pos = 0 /\ http = "none"
  /\ cached \in 0..Blocks
  /\ delivered = <<>> /\ refused = {} /\ broken = FALSE
  /\ inst = "idle" /\ final = "none"

Go(next) == pc' = next /\ UNCHANGED result

Fail(r) == pc' = "close" /\ result' = r

-----------------------------------------------------------------------------
(* channel_get_file until the first byte *)

(* Any option libcurl does not take ends the download. *)
channel_set_options == Go("start") \/ Fail("EINIT")

setup ==
  /\ pc = "setup"
  /\ channel_set_options
  /\ UNCHANGED <<opens, transfer, sink, inst, final>>

ipc_inst_start_ext_Five ==   \* mutant: a fifth attempt
  /\ pc = "start"
  /\ \/ Go("cache") /\ inst' = "stream" /\ UNCHANGED opens
     \/ /\ opens' = opens + 1
        /\ IF opens' <= 4 THEN Go("start") ELSE Fail("EIO")
        /\ UNCHANGED inst
  /\ UNCHANGED <<transfer, sink, final>>

(* ipc_inst_start_ext is tried four times. *)
ipc_inst_start_ext ==
  /\ pc = "start"
  /\ \/ Go("cache") /\ inst' = "stream" /\ UNCHANGED opens
     \/ /\ opens' = opens + 1
        /\ IF opens' < 4 THEN Go("start") ELSE Fail("EIO")
        /\ UNCHANGED inst
  /\ UNCHANGED <<transfer, sink, final>>

(* channel_callback_ipc: the block is sent; then the caller's callback may
   refuse it. *)
channel_callback_ipc(block, outcome) ==
  /\ outcome = "failed" \/ ~broken
  /\ broken' = (outcome = "failed")
  /\ delivered' = IF outcome = "failed" THEN delivered ELSE Append(delivered, block)

Outcome == {"ok", "refused", "failed"}

resume_cache_file(outcome) ==
  /\ pc = "cache" /\ total < cached
  /\ channel_callback_ipc(total + 1, outcome)
  /\ refused' = IF outcome = "refused" THEN {"cache"} ELSE {}
  /\ total' = IF outcome = "ok" THEN total + 1 ELSE total
  /\ Go(IF outcome = "ok" THEN "cache" ELSE "cached")
  /\ UNCHANGED <<opens, retries, try_count, pos, http, cached, inst, final>>

(* The file is unlinked; what it held counts as a first attempt. *)
unlink_cache_file ==
  /\ pc = "cached" \/ (pc = "cache" /\ total = cached)
  /\ cached' = 0
  /\ retries' = IF total > 0 THEN retries + 1 ELSE retries
  /\ try_count' = IF total > 0 THEN try_count + 1 ELSE try_count
  /\ Go("try")
  /\ UNCHANGED <<opens, total, pos, http, sink, inst, final>>

-----------------------------------------------------------------------------
(* The loop of channel_get_file *)

try_Again ==   \* mutant: off by one
  /\ pc = "try"
  /\ \/ /\ try_count > 0 /\ retries = 0 /\ Fail("interrupted")
        /\ UNCHANGED <<pos, http>>
     \/ /\ try_count > 0 /\ retries > 0 /\ try_count > retries + 1 /\ Fail("ELOOP")
        /\ UNCHANGED <<pos, http>>
     \/ /\ try_count = 0 \/ (try_count <= retries + 1 /\ retries > 0)
        /\ pos' = total /\ http' = "none"
        /\ Go("perform")
  /\ UNCHANGED <<opens, retries, try_count, total, cached, sink, inst, final>>

(* Another attempt begins where the former one stopped. *)
try ==
  /\ pc = "try"
  /\ \/ /\ try_count > 0 /\ retries = 0 /\ Fail("interrupted")
        /\ UNCHANGED <<pos, http>>
     \/ /\ try_count > 0 /\ retries > 0 /\ try_count > retries /\ Fail("ELOOP")
        /\ UNCHANGED <<pos, http>>
     \/ /\ try_count = 0 \/ (try_count <= retries /\ retries > 0)
        /\ pos' = total /\ http' = "none"
        /\ Go("perform")
  /\ UNCHANGED <<opens, retries, try_count, total, cached, sink, inst, final>>

(* curl_easy_perform passes a block on, or stops because it was refused. *)
receive(outcome) ==
  /\ pc = "perform" /\ pos < Blocks /\ http \in {"none", "ok"}
  /\ http' = "ok"
  /\ channel_callback_ipc(pos + 1, outcome)
  /\ IF outcome = "ok" THEN pos' = pos + 1 /\ Go("perform")
     ELSE UNCHANGED pos /\ Fail("EIO")
  /\ refused' = IF outcome = "refused" THEN refused \cup {"net"} ELSE refused
  /\ UNCHANGED <<opens, retries, try_count, total, cached, inst, final>>

(* Without a range to resume from, the body of an error is passed on like a
   file; with one, it is an error. *)
receive_page(outcome) ==
  /\ pc = "perform" /\ http = "none" /\ pos = 0
  /\ http' = "error"
  /\ channel_callback_ipc(Page, outcome)
  /\ IF outcome = "ok" THEN pos' = 1 /\ Go("perform")
     ELSE UNCHANGED pos /\ Fail("EIO")
  /\ refused' = IF outcome = "refused" THEN refused \cup {"net"} ELSE refused
  /\ UNCHANGED <<opens, retries, try_count, total, cached, inst, final>>

Complete == \/ http = "ok" /\ pos = Blocks
            \/ http = "error"
            \/ http = "none" /\ pos = Blocks   \* 416, nothing left to send

(* CHANNEL_OK, CHANNEL_EAGAIN or CHANNEL_ENONET ends a transfer; after the
   last two there is another attempt. *)
count_Again ==   \* mutant: the new bytes replace the old ones
  /\ pc = "perform"
  /\ total' = pos - total
  /\ try_count' = (try_count + 1) % TryMod
  /\ \/ Complete /\ Go("end")
     \/ Go(IF try_count' = 0 THEN "end" ELSE "try")
  /\ UNCHANGED <<opens, retries, pos, http, cached, sink, inst, final>>

count_Partial ==   \* mutant: an interrupted transfer leaves the loop
  /\ pc = "perform"
  /\ total' = total + (pos - total)
  /\ try_count' = (try_count + 1) % TryMod
  /\ Go("end")
  /\ UNCHANGED <<opens, retries, pos, http, cached, sink, inst, final>>

count_Uncounted ==   \* mutant: a lost connection is not an attempt
  /\ pc = "perform"
  /\ total' = total + (pos - total)
  /\ try_count' = try_count
  /\ \/ Complete /\ Go("end")
     \/ Go("try")
  /\ UNCHANGED <<opens, retries, pos, http, cached, sink, inst, final>>

count ==
  /\ pc = "perform"
  /\ total' = total + (pos - total)     \* CURLINFO_SIZE_DOWNLOAD
  /\ try_count' = (try_count + 1) % TryMod
  /\ \/ Complete /\ Go("end")
     \/ Go(IF try_count' = 0 THEN "end" ELSE "try")
  /\ UNCHANGED <<opens, retries, pos, http, cached, sink, inst, final>>

(* Every other error of libcurl *)
curl_error ==
  /\ pc = "perform"
  /\ Fail("error")
  /\ UNCHANGED <<opens, transfer, sink, inst, final>>

(* The response code decides. *)
channel_map_http_code ==
  /\ pc = "end"
  /\ Fail(IF http = "ok" THEN "ok" ELSE "EBADMSG")
  /\ UNCHANGED <<opens, transfer, sink, inst, final>>

-----------------------------------------------------------------------------
(* The installer takes any data and succeeds only with the file itself; when
   it gives up the stream breaks. *)

InstallerFails ==
  /\ inst = "stream"
  /\ inst' = "failed"
  /\ broken' = TRUE
  /\ UNCHANGED <<pc, result, opens, transfer, delivered, refused, final>>

InstallerSucceeds ==
  /\ inst = "stream"
  /\ delivered = File
  /\ inst' = "ok"
  /\ UNCHANGED <<pc, result, opens, transfer, sink, final>>

(* download_from_url: closing the stream ends it for the installer, whose
   result is waited for if there is an installation; the post-update command
   may fail. *)
close_file ==
  /\ pc = "close"
  /\ Go("wait")
  /\ UNCHANGED <<opens, transfer, sink, inst, final>>

download_from_url_Sent ==   \* mutant: the installer's result alone counts
  /\ pc = "wait" /\ inst # "stream"
  /\ final' \in IF inst = "ok" THEN {"success", "failure"} ELSE {"failure"}
  /\ Go("done")
  /\ UNCHANGED <<opens, transfer, sink, inst>>

download_from_url ==
  /\ pc = "wait" /\ inst # "stream"
  /\ final' \in IF result = "ok" /\ inst = "ok" THEN {"success", "failure"} ELSE {"failure"}
  /\ Go("done")
  /\ UNCHANGED <<opens, transfer, sink, inst>>

Done == pc = "done" /\ UNCHANGED vars

Next ==
  \/ setup \/ ipc_inst_start_ext
  \/ \E o \in Outcome : resume_cache_file(o) \/ receive(o) \/ receive_page(o)
  \/ unlink_cache_file \/ try \/ count \/ curl_error \/ channel_map_http_code
  \/ InstallerFails \/ InstallerSucceeds
  \/ close_file \/ download_from_url
  \/ Done

Spec == Init /\ [][Next]_vars

(* The daemon and the installer go on; libcurl ends a transfer that stalls. *)
FairSpec == Spec /\ WF_vars(Next)

-----------------------------------------------------------------------------
(* Properties *)

(* Every variable has its type. *)
TypeOK ==
  /\ pc \in {"setup", "start", "cache", "cached", "try", "perform", "end", "close",
             "wait", "done"}
  /\ result \in {"ok", "EINIT", "EIO", "interrupted", "ELOOP", "error", "EBADMSG"}
  /\ opens \in 0..4
  /\ retries \in 0..(MaxRetries + 1)
  /\ try_count \in 0..(TryMod - 1)
  /\ total \in 0..Blocks /\ pos \in 0..Blocks /\ cached \in 0..Blocks
  /\ http \in {"none", "ok", "error"}
  /\ delivered \in Seq(0..Blocks)
  /\ refused \subseteq {"cache", "net"} /\ broken \in BOOLEAN
  /\ inst \in {"idle", "stream", "ok", "failed"}
  /\ final \in {"none", "success", "failure"}

(* Whatever is interrupted and resumed, and whatever the cache file held, the
   installer gets the beginning of the file with no block missing or sent
   twice, unless an error page was cut or the cancel callback refused a block
   of the cache file, which was sent but does not count. *)
InOrder ==
  ("cache" \notin refused /\ (delivered # <<>> => delivered[1] # Page))
    => delivered = [i \in 1..Len(delivered) |-> i]

(* A download that channel_get_file reports as good passed on the complete
   file: the last response code alone, which is good for a part too, never
   decides about a transfer that was given up. *)
OkIsComplete ==
  (result = "ok" /\ pc \in {"close", "wait", "done"} /\ "cache" \notin refused
     /\ delivered # <<>> /\ delivered[1] # Page)
    => delivered = File

(* No more transfers than allowed: the first one and one for each retry. *)
TriesBounded == pc = "perform" => try_count <= retries

(* A block refused by the callback, which is how a cancel is passed on, makes
   the download fail, even when the installer had all data by then; only a
   refused block of the cache file does not. *)
CancelWins == final = "success" => "net" \notin refused

(* The installer gets the file, or the download is reported as failed. *)
DownloadRight == TypeOK /\ InOrder /\ OkIsComplete /\ TriesBounded /\ CancelWins

(* The download ends. *)
Ends == pc # "setup" ~> pc = "done"

(* With no limit for the retries an interrupted download is not given up. *)
NeverGivesUp == retries = 0 => result # "interrupted"
=============================================================================
