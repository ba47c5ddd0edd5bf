-------------------------------- MODULE Delta --------------------------------
(***************************************************************************)
(* Delta updates (handlers/delta_handler.c, handlers/delta_downloader.c,   *)
(* handlers/zchunk_range.c).                                               *)
(*                                                                         *)
(* The new image is a sequence of chunks.  The ones that are also on the   *)
(* source device are copied from there; the others are fetched, several    *)
(* ranges in a request, by a downloader process.  The handler mixes both   *)
(* into one stream for the chained handler, which a thread runs.           *)
(*                                                                         *)
(* The downloader forwards what it gets in packages over a stream socket;  *)
(* it does not know whether the handler still wants them.  Data is counted *)
(* in units: a chunk has one or two, and a package has any number of them. *)
(* Chunk number Chunks + 1 is the end of the image.                        *)
(***************************************************************************)
EXTENDS Integers, FiniteSets, SequencesExt

CONSTANTS
  Chunks,     \* chunks of the image
  MaxRanges,  \* bound: max-ranges of a sw-description
  Room,       \* packages the socket takes
  MaxUpdates, \* bound: installations of the image
  MaxFaults   \* bound: things that go wrong

ASSUME DeltaAssumption == /\ {Chunks, MaxRanges, Room} \subseteq Nat \ {0}
                          /\ {MaxUpdates, MaxFaults} \subseteq Nat

VARIABLES
  src, size,  \* chunks that are on the source device, units of each chunk
  max_ranges, \* of the sw-description
  \* the handler
  hpc, chunk, \* where it is; the chunk it works on
  fill,       \* the units of that chunk it has collected
  kind,       \* range_type of the answer
  answer,     \* the package it works on
  err,        \* error_in_parser
  reqid,      \* number of its request
  ranges,     \* the ranges it asked for
  out,        \* what it wrote to the chained handler
  chain,      \* the chained handler
  ret,        \* of the last installation
  \* the downloader and the two directions of its socket
  requests, packages, dl,
  \* histories and bounds
  updates, faults,
  again,      \* a failed copy from the source device was passed over
  stale,      \* the installation met a package of an older request
  clean,      \* nothing has gone wrong since the installation began
  empty       \* an answer of this installation had no body

handler == <<hpc, chunk, fill, kind, answer, err, reqid, ranges, out, chain, ret>>
mixer == <<chunk, fill, out, err>>
wires == <<requests, packages, dl>>
image == <<src, size, max_ranges>>
dvars == <<image, handler, wires, updates, faults, again, stale, clean, empty>>

Chunk == 1..Chunks
Unit == [chunk: 0..Chunks, no: 0..2]
Bad == [chunk |-> 0, no |-> 0]     \* a unit that is not of the image
Part == [chunk |-> 0, no |-> 1]    \* boundary and headers of a part of a multipart body
PartEnd == [chunk |-> 0, no |-> 2] \* the boundary after it
Package == [id: Nat, type: {"headers", "data", "completed", "error"},
            kind: {"none", "single", "multipart"}, body: Seq(Unit)]
NoPackage == [id |-> 0, type |-> "error", kind |-> "none", body |-> <<>>]
Idle == [id |-> 0, kind |-> "none", body |-> <<>>, sent |-> 0]

DTypeOK ==
  /\ src \subseteq Chunk /\ size \in [Chunk -> 1..2] /\ max_ranges \in 1..MaxRanges
  /\ hpc \in {"idle", "loop", "headers", "skip", "first", "fill", "data",
             "end", "join"}
  /\ chunk \in 1..Chunks + 1
  /\ fill \in Seq(Unit) /\ Len(fill) <= 2
  /\ kind \in {"none", "single", "multipart"} /\ answer \in Package
  /\ err \in BOOLEAN /\ reqid \in Nat
  /\ ranges \in Seq(Chunk \X Chunk) /\ Len(ranges) <= max_ranges
  /\ out \in Seq(0..Chunks) /\ chain \in {"none", "running", "failed", "ended"}
  /\ ret \in {"none", "ok", "failed"}
  /\ requests \in Seq([id: Nat, ranges: Seq(Chunk \X Chunk)])
  /\ packages \in Seq(Package) /\ Len(packages) <= Room
  /\ dl \in [id: Nat, kind: {"none", "single", "multipart"},
             body: Seq(Unit), sent: 0..2]
  /\ updates \in 0..MaxUpdates /\ faults \in 0..MaxFaults
  /\ {again, stale, clean, empty} \subseteq BOOLEAN

DInit ==
  /\ src \in SUBSET Chunk /\ size \in [Chunk -> 1..2] /\ max_ranges \in 1..MaxRanges
  /\ hpc = "idle" /\ chunk = 1 /\ fill = <<>> /\ kind = "none" /\ answer = NoPackage
  /\ err = FALSE /\ reqid = 0 /\ ranges = <<>> /\ out = <<>>
  /\ chain = "none" /\ ret = "none"
  /\ requests = <<>> /\ packages = <<>> /\ dl = Idle
  /\ updates = 0 /\ faults = 0 /\ again = FALSE /\ stale = FALSE /\ clean = TRUE
  /\ empty = FALSE

Fault == faults < MaxFaults /\ faults' = faults + 1 /\ clean' = FALSE
NoFault == UNCHANGED <<faults, clean>>

-----------------------------------------------------------------------------
(* The ranges to ask for: the missing chunks from first on, neighbours in  *)
(* one range, until there are max_ranges of them.                          *)
(* Mutant: ranges with a chunk between them are merged, too.               *)
range_add_Wide(rs, c) ==
  IF rs # <<>> /\ Last(rs)[2] >= c - 2
  THEN [rs EXCEPT ![Len(rs)] = <<@[1], c>>]
  ELSE Append(rs, <<c, c>>)

range_add(rs, c) ==
  IF rs # <<>> /\ Last(rs)[2] = c - 1
  THEN [rs EXCEPT ![Len(rs)] = <<@[1], c>>]
  ELSE Append(rs, <<c, c>>)

(* Mutant: all missing chunks are asked for.                               *)
zchunk_get_missing_range_All(first) ==
  LET Visit(rs, c) == IF c \in src THEN rs ELSE range_add(rs, c)
  IN  FoldLeft(Visit, <<>>, [i \in 1..Chunks + 1 - first |-> first + i - 1])

zchunk_get_missing_range(first) ==
  LET Visit(rs, c) == IF c \in src \/ Len(rs) >= max_ranges THEN rs ELSE range_add(rs, c)
  IN  FoldLeft(Visit, <<>>, [i \in 1..Chunks + 1 - first |-> first + i - 1])

(* What the server sends for it: the units of the chunks, with marks in a  *)
(* multipart answer.                                                       *)
Units(lo, hi) ==
  FlattenSeq([i \in 1..hi + 1 - lo |->
    [k \in 1..size[lo + i - 1] |-> [chunk |-> lo + i - 1, no |-> k]]])

MultipartBody(rs) ==
  FlattenSeq([i \in 1..Len(rs) |-> <<Part>> \o Units(rs[i][1], rs[i][2]) \o <<PartEnd>>])

-----------------------------------------------------------------------------
(* The state of the mixer that the callbacks work on.                      *)
Mixer == [chunk |-> chunk, fill |-> fill, out |-> out, err |-> err, ok |-> TRUE,
          again |-> again]

(* Mutant: a chunk that is complete is written, whatever is in it.         *)
network_process_data_Unchecked(m, u) ==
  LET f == Append(m.fill, u)
  IN  IF m.err \/ m.chunk = Chunks + 1 THEN [m EXCEPT !.err = TRUE]
      ELSE IF Len(f) < size[m.chunk] THEN [m EXCEPT !.fill = f]
      ELSE [m EXCEPT !.fill = <<>>, !.chunk = @ + 1,
                     !.out = Append(@, IF Bad \in Range(f) THEN 0 ELSE m.chunk)]

(* network_process_data, one unit: a chunk that is complete is written,    *)
(* and its hash checked as it is; if that fails garbage is written.        *)
network_process_data(m, u) ==
  LET f == Append(m.fill, u)
      Right == /\ chain = "running"
               /\ \A k \in 1..Len(f) : f[k] = [chunk |-> m.chunk, no |-> k]
  IN  IF m.err THEN m
      ELSE IF m.chunk = Chunks + 1 THEN [m EXCEPT !.err = TRUE]
      ELSE IF Len(f) < size[m.chunk] THEN [m EXCEPT !.fill = f]
      ELSE IF Right
      THEN [m EXCEPT !.fill = <<>>, !.out = Append(@, m.chunk), !.chunk = @ + 1]
      ELSE [m EXCEPT !.fill = <<>>, !.out = Append(@, 0), !.err = TRUE]

(* The first chunk from c on that is not on the source device.             *)
NextMissing(c) == CHOOSE d \in c..Chunks + 1 : d \notin src /\ \A x \in c..d - 1 : x \in src

(* copy_existing_chunks: the chunks of the source up to the next missing   *)
(* one; a failure leaves what was written of a chunk.                      *)
copy_existing_chunks(m, bad) ==
  LET d == NextMissing(m.chunk)
      Upto(e) == m.out \o [i \in 1..e - m.chunk |-> m.chunk + i - 1]
  IN  IF chain # "running" /\ d # m.chunk THEN [m EXCEPT !.ok = FALSE]
      ELSE IF bad \in m.chunk..d - 1
      THEN [m EXCEPT !.out = Append(Upto(bad), 0), !.chunk = bad, !.ok = FALSE]
      ELSE [m EXCEPT !.out = Upto(d), !.chunk = d]

(* Mutant: the chunks between two ranges are left for later.               *)
multipart_data_end_Later(m, bad) == [m EXCEPT !.fill = <<>>]

(* multipart_data_end: the result of copy_existing_chunks is dropped.      *)
multipart_data_end(m, bad) ==
  LET c == copy_existing_chunks([m EXCEPT !.fill = <<>>], bad)
  IN  [c EXCEPT !.ok = TRUE, !.again = @ \/ ~c.ok]

(* The callback that the parser makes for what comes next in the body.     *)
multipart_callbacks(m, u, bad) ==
  CASE u = Part -> [m EXCEPT !.fill = <<>>]
    [] u = PartEnd -> multipart_data_end(m, bad)
    [] OTHER -> network_process_data(m, u)

Mixes(m) == /\ chunk' = m.chunk /\ fill' = m.fill /\ out' = m.out /\ err' = m.err
            /\ again' = m.again

(* A copy from the source device fails at chunk bad, or none does.         *)
Source(bad) == \/ bad = 0 /\ NoFault
               \/ bad \in src /\ Fault

(* The installation ends with an error: neither the pipe to the chained    *)
(* handler is closed nor the downloader told.                              *)
Fails == hpc' = "idle" /\ ret' = "failed"

-----------------------------------------------------------------------------
install_delta ==
  /\ hpc = "idle" /\ updates < MaxUpdates
  /\ updates' = updates + 1
  /\ hpc' = "loop" /\ chunk' = 1 /\ fill' = <<>> /\ out' = <<>> /\ err' = FALSE
  /\ kind' = "none" /\ ranges' = <<>> /\ answer' = NoPackage
  /\ chain' = "running" /\ ret' = "none"
  /\ again' = FALSE /\ stale' = FALSE /\ clean' = TRUE /\ empty' = FALSE
  /\ UNCHANGED <<image, reqid, wires, faults>>

(* The attributes, the downloader, the source device or the header of the  *)
(* image are not as they should be: nothing was started.                   *)
install_delta_fails ==
  /\ hpc = "idle" /\ updates < MaxUpdates /\ Fault
  /\ updates' = updates + 1 /\ ret' = "failed"
  /\ UNCHANGED <<image, hpc, mixer, kind, answer, reqid, ranges, chain, wires,
                 again, stale, empty>>

from_source ==
  /\ hpc = "loop" /\ chunk \in src
  /\ \E bad \in 0..Chunks : LET m == copy_existing_chunks(Mixer, bad) IN
       /\ Source(bad) /\ Mixes(m)
       /\ IF m.ok THEN UNCHANGED <<hpc, ret>> ELSE Fails
  /\ UNCHANGED <<image, kind, answer, reqid, ranges, chain, wires, updates, stale, empty>>

trigger_download ==
  /\ hpc = "loop" /\ chunk \in Chunk \ src
  /\ hpc' = "headers" /\ err' = FALSE /\ kind' = "none"
  /\ reqid' = reqid + 1 /\ ranges' = zchunk_get_missing_range(chunk)
  /\ requests' = Append(requests, [id |-> reqid', ranges |-> ranges'])
  /\ UNCHANGED <<image, chunk, fill, out, answer, chain, ret, packages, dl,
                 updates, faults, again, stale, clean, empty>>

(* read_and_validate_package: after a package of another request nbytes is *)
(* not set again, so that the next read always ends in an error.           *)
Read == packages # <<>> /\ packages' = Tail(packages)

other_id ==
  /\ hpc \in {"headers", "data"} /\ Read /\ Head(packages).id # reqid
  /\ hpc' = "skip" /\ stale' = TRUE
  /\ UNCHANGED <<image, mixer, kind, answer, reqid, ranges, chain, ret, requests, dl,
                 updates, faults, again, clean, empty>>

read_after_other ==
  /\ hpc = "skip" /\ Read /\ Fails
  /\ UNCHANGED <<image, mixer, kind, answer, reqid, ranges, chain, requests, dl,
                 updates, faults, again, stale, clean, empty>>

(* The socket is a stream: a read that gets a part of a package is         *)
(* continued for the length of a whole one, into the next package.         *)
short_read ==
  /\ hpc \in {"headers", "data"} /\ Len(packages) >= 2 /\ Fault
  /\ packages' = SubSeq(packages, 3, Len(packages)) /\ Fails
  /\ UNCHANGED <<image, mixer, kind, answer, reqid, ranges, chain, requests, dl,
                 updates, again, stale, empty>>

(* Mutant: only headers and data are looked at.                            *)
waiting_for_headers_NoError ==
  /\ hpc = "headers" /\ Read
  /\ LET p == Head(packages) IN
       /\ p.id = reqid
       /\ kind' = IF p.type = "headers" THEN p.kind ELSE kind
       /\ answer' = IF p.type = "data" THEN p ELSE answer
       /\ hpc' = IF p.type = "data" THEN "first" ELSE hpc
       /\ empty' = (empty \/ p.type = "completed")
  /\ UNCHANGED <<image, mixer, reqid, ranges, chain, ret, requests, dl,
                 updates, faults, again, stale, clean>>

waiting_for_headers ==
  /\ hpc = "headers" /\ Read
  /\ LET p == Head(packages) IN
       /\ p.id = reqid
       /\ kind' = IF p.type = "headers" THEN p.kind ELSE kind
       /\ answer' = IF p.type = "data" THEN p ELSE answer
       /\ CASE p.type = "error" -> Fails
            [] p.type = "data" -> hpc' = "first" /\ UNCHANGED ret
            [] OTHER -> UNCHANGED <<hpc, ret>>
       /\ empty' = (empty \/ p.type = "completed")
  /\ UNCHANGED <<image, mixer, reqid, ranges, chain, requests, dl,
                 updates, faults, again, stale, clean>>

(* WAITING_FOR_BOUNDARY and WAITING_FOR_FIRST_DATA: a multipart body       *)
(* starts with the boundary.                                               *)
waiting_for_first_data ==
  /\ hpc = "first"
  /\ IF kind = "single" \/ (kind = "multipart" /\ Part \in Range(answer.body))
     THEN hpc' = "fill" /\ UNCHANGED ret
     ELSE Fails
  /\ fill' = <<>>
  /\ UNCHANGED <<image, chunk, out, err, kind, answer, reqid, ranges, chain, wires,
                 updates, faults, again, stale, clean, empty>>

(* WAITING_FOR_DATA: whatever is neither the end nor an error is data, the *)
(* headers of a transfer that the channel resumes included.                *)
waiting_for_data ==
  /\ hpc = "data" /\ Read
  /\ LET p == Head(packages) IN
       /\ p.id = reqid
       /\ CASE p.type = "error" -> Fails
            [] p.type = "completed" -> hpc' = "end" /\ UNCHANGED ret
            [] OTHER -> hpc' = "fill" /\ UNCHANGED ret
       /\ answer' = IF p.type = "headers" THEN [p EXCEPT !.body = <<Bad>>] ELSE p
  /\ UNCHANGED <<image, mixer, kind, reqid, ranges, chain, requests, dl,
                 updates, faults, again, stale, clean, empty>>

(* fill_buffers_list, one unit or mark after the other.  Only with a       *)
(* single range an error of network_process_data is looked at.             *)
fill_buffers_list ==
  /\ hpc = "fill"
  /\ IF answer.body = <<>>
     THEN hpc' = "data" /\ NoFault /\ UNCHANGED <<mixer, again, answer, ret>>
     ELSE /\ answer' = [answer EXCEPT !.body = Tail(@)]
          /\ \E bad \in 0..Chunks :
               LET u == Head(answer.body)
                   m == IF kind = "single" THEN network_process_data(Mixer, u)
                        ELSE multipart_callbacks(Mixer, u, bad)
               IN  /\ Source(bad)
                   /\ bad # 0 => m.again
                   /\ Mixes(m)
                   /\ IF kind = "single" /\ m.err THEN Fails ELSE UNCHANGED <<hpc, ret>>
  /\ UNCHANGED <<image, kind, reqid, ranges, chain, wires, updates, stale, empty>>

end_transfer ==
  /\ hpc = "end"
  /\ \E bad \in 0..Chunks :
       LET m == IF kind = "single" THEN multipart_data_end(Mixer, bad) ELSE Mixer IN
       /\ Source(bad) /\ Mixes(m)
       /\ IF m.err THEN Fails ELSE hpc' = "loop" /\ UNCHANGED ret
  /\ UNCHANGED <<image, kind, answer, reqid, ranges, chain, wires, updates, stale, empty>>

(* The pipe is closed, and the chained handler waited for.                 *)
close_and_join ==
  /\ \/ hpc = "loop" /\ chunk = Chunks + 1 /\ hpc' = "join" /\ UNCHANGED <<ret, chain>>
     \/ /\ hpc = "join" /\ hpc' = "idle"
        /\ ret' = IF chain = "running" THEN "ok" ELSE "failed"
        /\ chain' = IF chain = "running" THEN "ended" ELSE chain
  /\ UNCHANGED <<image, mixer, kind, answer, reqid, ranges, wires, updates,
                 faults, again, stale, clean, empty>>

chain_handler_fails ==
  /\ chain = "running" /\ hpc # "idle" /\ Fault
  /\ chain' = "failed"
  /\ UNCHANGED <<image, hpc, mixer, kind, answer, reqid, ranges, ret, wires,
                 updates, again, stale, empty>>

-----------------------------------------------------------------------------
(* The downloader.  One range is answered with it, several with a          *)
(* multipart body or with one range that spans them all.                   *)
Answers(rs) ==
  {[kind |-> "single", body |-> Units(rs[1][1], Last(rs)[2])]}
    \cup (IF Len(rs) = 1 THEN {} ELSE {[kind |-> "multipart", body |-> MultipartBody(rs)]})

start_delta_downloader ==
  /\ dl = Idle /\ requests # <<>>
  /\ requests' = Tail(requests)
  /\ \E a \in Answers(Head(requests).ranges) :
       dl' = [id |-> Head(requests).id, kind |-> a.kind, body |-> a.body, sent |-> 0]
  /\ UNCHANGED <<image, handler, packages, updates, faults, again, stale, clean, empty>>

(* A package is written once there is room for it in the socket.           *)
Send(type, body) ==
  /\ dl # Idle /\ Len(packages) < Room
  /\ packages' = Append(packages, [id |-> dl.id, type |-> type, body |-> body,
                                   kind |-> IF type = "headers" THEN dl.kind ELSE "none"])
  /\ UNCHANGED <<image, handler, requests, updates, again, stale, empty>>

delta_callback_headers ==
  /\ dl.sent = 0 /\ Send("headers", <<>>) /\ NoFault
  /\ dl' = [dl EXCEPT !.sent = 1]

(* The body goes out in pieces of any length; what the server sends may be *)
(* wrong, and a first piece may end within the boundary.                   *)
wrdata_callback ==
  /\ dl.sent > 0
  /\ \E n \in 0..Len(dl.body) :
       /\ dl' = [dl EXCEPT !.body = SubSeq(@, n + 1, Len(@)), !.sent = 2]
       /\ \/ n > 0 /\ Send("data", SubSeq(dl.body, 1, n)) /\ NoFault
          \/ n > 0 /\ Send("data", [SubSeq(dl.body, 1, n) EXCEPT ![n] = Bad]) /\ Fault
          \/ n = 0 /\ dl.sent = 1 /\ dl.kind = "multipart" /\ Send("data", <<>>) /\ Fault

(* The transfer ends, with less than was asked for if the server says so,  *)
(* or in an error.                                                         *)
end_of_transfer ==
  /\ dl' = Idle
  /\ \/ dl.sent > 0 /\ dl.body = <<>> /\ Send("completed", <<>>) /\ NoFault
     \/ dl.sent > 0 /\ dl.body # <<>> /\ Send("completed", <<>>) /\ Fault
     \/ Send("error", <<>>) /\ Fault

(* The connection breaks and the channel resumes: before the first byte it *)
(* asks for the ranges again; later it asks for the rest of the file from  *)
(* as many bytes as it got, which is another part of it.                   *)
channel_retries ==
  /\ Send("headers", <<>>) /\ Fault
  /\ \/ dl.sent = 1 /\ UNCHANGED dl
     \/ /\ dl.sent = 2 /\ dl.body # <<>> /\ Head(dl.body) # Part
        /\ dl' = [dl EXCEPT !.body = <<Bad, Bad>>]

-----------------------------------------------------------------------------
Handler ==
  \/ from_source \/ trigger_download \/ other_id \/ read_after_other
  \/ waiting_for_headers \/ waiting_for_first_data \/ waiting_for_data
  \/ fill_buffers_list \/ end_transfer \/ close_and_join

Downloader ==
  start_delta_downloader \/ delta_callback_headers \/ wrdata_callback \/ end_of_transfer

DNext ==
  \/ install_delta \/ install_delta_fails \/ Handler \/ short_read
  \/ chain_handler_fails \/ Downloader \/ channel_retries

(* The handler and the downloader are threads that run when they can; an   *)
(* update may or may not be started and a fault may or may not happen.     *)
DSpec == DInit /\ [][DNext]_dvars /\ WF_dvars(Handler) /\ WF_dvars(Downloader)

-----------------------------------------------------------------------------
(* An installation that succeeds gave the chained handler every chunk of the
   image once, in order, and the chained handler took them, whatever mix of
   sources, pieces, coalesced ranges, short answers and retries it took to get
   them; garbage can be among them only if a copy from the source device failed
   between two ranges, whose result multipart_data_end drops. *)
DeltaWhole ==
  hpc = "idle" /\ ret = "ok" =>
    /\ chain = "ended"
    /\ SelectSeq(out, LAMBDA c : c # 0) = [c \in Chunk |-> c]
    /\ 0 \in Range(out) => again

(* What zchunk_get_missing_range asks for: it starts with the chunk the handler
   is at, no range has a chunk of the source device in it, no missing chunk
   between them is left out, and there are max_ranges of them at most; fewer, or
   a last one that ends early, only as the image ends or that many are found. *)
RangesRight ==
  hpc = "headers" =>
    LET Asked == UNION {r[1]..r[2] : r \in Range(ranges)}
        last == Last(ranges)[2]
        Runs == {c \in Asked : c - 1 \notin Asked}
    IN  /\ ranges[1][1] = chunk
        /\ Asked = (chunk..last) \ src
        /\ Len(ranges) = Cardinality(Runs) /\ Len(ranges) <= max_ranges
        /\ Len(ranges) < max_ranges => last..Chunks \subseteq src \cup {last}

(* An installation in which nothing goes wrong succeeds, unless the one before
   it left packages in the socket: read_and_validate_package does not get past
   a package of another request. *)
CleanSucceeds == hpc = "idle" /\ ret = "failed" => ~clean \/ stale

(* A delta installation asks for what it lacks, writes what it should and fails
   only for a reason. *)
DeltaRight == DTypeOK /\ DeltaWhole /\ RangesRight /\ CleanSucceeds

(* Packages left by an installation that failed do not disturb the next one:
   they are skipped, as read_and_validate_package announces. *)
StaleSkipped == hpc = "idle" /\ ret = "failed" => ~clean

(* An installation ends, however its transfers go, unless the server answers a
   request with an empty body: copy_network_chunks ignores the end of a
   transfer as long as it waits for the headers. *)
DeltaEnds == hpc # "idle" ~> hpc = "idle" \/ empty
=============================================================================
