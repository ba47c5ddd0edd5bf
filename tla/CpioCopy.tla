------------------------------ MODULE CpioCopy ------------------------------
(***************************************************************************)
(* How extract_files walks through the cpio archive that a SWU is, and the *)
(* pipeline that takes a file out of it: copyfile (core/cpio_utils.c) with *)
(* its steps for input, decryption and decompression, each of which pulls  *)
(* data from the one before, and the checks of hash and checksum.          *)
(*                                                                         *)
(* A byte of a file is the sequence of the bytes of the image that it      *)
(* stands for; a byte of a compressed file stands for several.  The        *)
(* libraries that decrypt and decompress are external.                     *)
(***************************************************************************)
EXTENDS Integers, SequencesExt

CONSTANTS
  BUFF_SIZE,    \* size of the buffer of each step
  AES_BLK_SIZE,
  Ratio,        \* bytes of the image in a byte of a compressed file
  Lengths,      \* bound: lengths of an image
  Trailing      \* bound: bytes that follow the compressed image in its file

ASSUME CopyAssumption ==
  /\ {BUFF_SIZE, AES_BLK_SIZE, Ratio} \subseteq Nat \ {0}
  /\ BUFF_SIZE % AES_BLK_SIZE = 0
  /\ Lengths \cup Trailing \subseteq Nat

VARIABLES
  file,         \* the first file of the archive, and what is known about it
  fend,         \* where the stream ends
  fpos,         \* how far it was read
  fpc, entry,   \* where extract_files is, and in which entry of the archive
  offs,         \* the offset that the padding is computed from
  taken,        \* bytes of the file that input_step delivered
  dec, cmp,     \* the states of decryption and decompression
  written,      \* what the callback was given of the first file
  fault         \* history: a read or a write failed

cpvars == <<file, fend, fpos, fpc, entry, offs, taken, dec, cmp, written, fault>>

-----------------------------------------------------------------------------
(* The archive: a file, a file that is not required, and the trailer.      *)

FrameStart == <<>>
FrameEnd == <<-1>>
Padding == <<-2>>
Trail == <<-3>>
Envelope == <<-4>>

Bytes(b, n) == [i \in 1..n |-> b]
Image(f) == [i \in 1..f.len |-> i]
Least(a, b) == IF a < b THEN a ELSE b
First(s, n) == SubSeq(s, 1, Least(n, Len(s)))
After(s, n) == SubSeq(s, n + 1, Len(s))

(* The last block of zstd says that it is the last; the other formats end  *)
(* with bytes of their own.                                                *)
Compressed(f) ==
  LET n == (f.len + Ratio - 1) \div Ratio
  IN  IF f.compressed = "none" THEN [i \in 1..f.len |-> <<i>>]
      ELSE <<FrameStart>>
           \o [i \in 1..n |-> First(After(Image(f), (i - 1) * Ratio), Ratio)]
           \o (IF f.compressed = "zstd" THEN <<>> ELSE <<FrameEnd>>)
           \o Bytes(Trail, f.trail)

Encrypted(f) ==
  LET c == Compressed(f)
  IN  CASE f.cipher = "none" -> c
        [] f.cipher = "AES" -> c \o Bytes(Padding, AES_BLK_SIZE - (Len(c) % AES_BLK_SIZE))
        [] f.cipher = "CMS" -> <<Envelope>> \o c

WithData(f) == [f EXCEPT !.data = Encrypted(f)]

(* sw-description goes to TMPDIR and may be encrypted; of the others, a    *)
(* file is copied there as it is, skipped, or installed from the stream.   *)
(* hash: sw-description has its hash; crc: the archive has checksums.      *)
Files ==
  {f \in [mode : {"tmp", "copy", "skip", "stream"}, len : Lengths, trail : Trailing,
          cipher : {"none", "AES", "CMS"}, compressed : {"none", "zlib", "zstd", "lz4"},
          hash : BOOLEAN, crc : BOOLEAN, name : {5, 6}, data : {<<>>}] :
     /\ f.mode \in {"copy", "skip"} => f.cipher = "none"
     /\ f.mode # "stream" => f.compressed = "none"
     /\ f.mode \in {"tmp", "skip"} => ~f.hash
     /\ f.compressed # "zlib" => f.trail = 0
     /\ f.mode = "stream" => ~f.crc
     /\ f.mode # "copy" => f.name = 5}

Filler == [mode |-> "skip", len |-> 2, trail |-> 0, cipher |-> "none",
           compressed |-> "none", hash |-> FALSE, crc |-> FALSE, name |-> 5,
           data |-> <<<<1>>, <<2>>>>]
Trailer == [Filler EXCEPT !.data = <<>>, !.name = 11]

Current == <<file, Filler, Trailer>>[entry]

sizeof_header == 110

NPAD_BYTES(o) == (4 - (o % 4)) % 4

(* Where an archive has its entries.                                       *)
Padded(n) == n + NPAD_BYTES(n)
Space(f) == Padded(sizeof_header + f.name) + Padded(Len(f.data))
EntryAt(e) == CASE e = 1 -> 0
                [] e = 2 -> Space(file)
                [] e = 3 -> Space(file) + Space(Filler)
End == EntryAt(3) + Space(Trailer)

-----------------------------------------------------------------------------
NoDecrypt == [out |-> <<>>, held |-> <<>>, eof |-> FALSE]
NoDecompress == [in |-> <<>>, pend |-> <<>>, eof |-> FALSE]

Begin ==
  /\ fpos = 0 /\ fpc = "header" /\ entry = 1 /\ offs = 0
  /\ taken = 0 /\ dec = NoDecrypt /\ cmp = NoDecompress
  /\ written = <<>> /\ fault = FALSE

(* Whoever sends the stream may go away at any byte of the first file, in  *)
(* its header or in that of the next one.                                  *)
CInit ==
  /\ file \in {WithData(f) : f \in Files}
  /\ LET data == Padded(sizeof_header + file.name)
     IN  fend \in {sizeof_header - 1, sizeof_header + 1, Space(file) + 1, End}
                    \cup ((data - 1)..Space(file))
  /\ Begin

(* What a read of n bytes gets: less only at the end of the stream.        *)
_fill_buffer(n) == Least(n, fend - fpos)

Error == fpc' = "failed" /\ UNCHANGED <<file, fend, fpos, entry, offs, taken, dec, cmp, written>>
Failure == Error /\ fault' = TRUE

(* Of a read only an error is looked at: when the stream ends within the   *)
(* header or the name, what the buffer held before is taken for them.  It  *)
(* is no header, or the header of a file that is not required and of which *)
(* nothing can be read.  Opening the output is part of the action.         *)
extract_cpio_header ==
  /\ fpc = "header"
  /\ \/ Failure
     \/ fpos + sizeof_header <= fend /\ fpos # EntryAt(entry) /\ Error /\ UNCHANGED fault
     \/ LET read == sizeof_header + Current.name
            pad == _fill_buffer(read + NPAD_BYTES(offs + read)) - read
        IN  /\ fpos = EntryAt(entry) /\ fpos + read <= fend
            /\ fpos' = fpos + read + pad
            /\ offs' = IF Current.mode = "tmp" THEN offs + read + pad ELSE 0
            /\ fpc' = IF entry = 3 THEN "end" ELSE "copy"
            /\ taken' = 0 /\ dec' = NoDecrypt /\ cmp' = NoDecompress
            /\ UNCHANGED <<file, fend, entry, written, fault>>
     \/ /\ fpos + sizeof_header + Current.name > fend
        /\ fpos' = fend
        /\ fpc' \in IF Current.mode = "tmp" THEN {"failed"} ELSE {"failed", "header"}
        /\ UNCHANGED <<file, fend, entry, offs, taken, dec, cmp, written, fault>>

-----------------------------------------------------------------------------
(* A step of the pipeline returns its data, or an error: -EAGAIN or        *)
(* another one.  n is what it read of the file.                            *)

input_step_Unbounded(size) ==   \* mutant: reads on after the last byte of the file
  LET n == _fill_buffer(size)
  IN  [ret |-> "ok", data |-> First(After(Current.data, taken), n), n |-> n, dec |-> dec]

input_step(size) ==
  LET n == _fill_buffer(Least(size, Len(Current.data) - taken))
  IN  [ret |-> "ok", data |-> First(After(Current.data, taken), n), n |-> n, dec |-> dec]

(* EVP_DecryptUpdate keeps the last block back, which may be padding.      *)
AES_update(in) ==
  LET all == dec.held \o in
      rest == Len(all) % AES_BLK_SIZE
      n == Len(all) - (IF rest = 0 THEN AES_BLK_SIZE ELSE rest)
  IN  [ret |-> "ok", out |-> First(all, n), held |-> After(all, n)]

AES_final ==
  LET good == Len(dec.held) = AES_BLK_SIZE /\ Last(dec.held) = Padding
  IN  [ret |-> IF good THEN "ok" ELSE "error",
       out |-> SelectSeq(dec.held, LAMBDA b : b # Padding), held |-> <<>>]

CMS_update_Zero(in) ==   \* mutant: 0 instead of -EAGAIN
  [ret |-> "ok", out |-> <<>>, held |-> dec.held \o in]

(* CMS wants the whole message: what there is is kept until the end.       *)
CMS_update(in) == [ret |-> "again", out |-> <<>>, held |-> dec.held \o in]

CMS_final_Full ==   \* mutant: a full buffer counts as more to come
  LET first == dec.held # <<>> /\ Head(dec.held) = Envelope
      plain == IF first THEN Tail(dec.held) ELSE dec.held
      good == plain # <<>> /\ (first => dec.held = Current.data)
  IN  [ret |-> IF ~good THEN "error" ELSE IF Len(plain) >= BUFF_SIZE THEN "again" ELSE "ok",
       out |-> First(plain, BUFF_SIZE), held |-> After(plain, BUFF_SIZE)]

(* The first call decrypts the message, if it is whole; each one returns a *)
(* buffer of the result.  An empty result is an error of BIO_read.         *)
CMS_final ==
  LET first == dec.held # <<>> /\ Head(dec.held) = Envelope
      plain == IF first THEN Tail(dec.held) ELSE dec.held
      good == plain # <<>> /\ (first => dec.held = Current.data)
  IN  [ret |-> IF ~good THEN "error" ELSE IF Len(plain) > BUFF_SIZE THEN "again" ELSE "ok",
       out |-> First(plain, BUFF_SIZE), held |-> After(plain, BUFF_SIZE)]

(* What is left in output is returned before more is read; no output is    *)
(* returned as 0, which ends the copy.                                     *)
decrypt_step(size) ==
  LET in == input_step(BUFF_SIZE)
      final == in.data = <<>>
      d == IF Current.cipher = "AES" THEN IF final THEN AES_final ELSE AES_update(in.data)
           ELSE IF final THEN CMS_final ELSE CMS_update(in.data)
      Deliver(out, n, held, eof) ==
        [ret |-> "ok", data |-> First(out, size), n |-> n,
         dec |-> [out |-> After(out, size), held |-> held, eof |-> eof]]
  IN  IF dec.out # <<>> THEN Deliver(dec.out, 0, dec.held, dec.eof)
      ELSE IF dec.eof THEN Deliver(<<>>, in.n, dec.held, TRUE)
      ELSE IF d.ret = "ok" THEN Deliver(d.out, in.n, d.held, final)
      ELSE [ret |-> d.ret, data |-> <<>>, n |-> in.n,
            dec |-> [out |-> d.out, held |-> d.held, eof |-> FALSE]]

upstream_step ==
  IF Current.cipher = "none" THEN input_step(BUFF_SIZE) ELSE decrypt_step(BUFF_SIZE)

(* The libraries take bytes as long as there is room for what they stand   *)
(* for; the end may be found with a buffer that was just filled, or later. *)
Decode(in, pend, eager) ==
  LET ends == {i \in DOMAIN in : in[i] = FrameEnd}
      body == IF ends = {} THEN Len(in) ELSE Min(ends) - 1
      All(j) == pend \o FlattenSeq(First(in, j))
      n == Min({j \in 0..body : j = body \/ Len(All(j)) >= BUFF_SIZE})
      end == /\ n = body /\ ends # {} /\ Len(All(n)) <= BUFF_SIZE
             /\ Len(All(n)) = BUFF_SIZE => eager
  IN  [out |-> First(All(n), BUFF_SIZE), pend |-> After(All(n), BUFF_SIZE),
       in |-> After(in, IF end THEN n + 1 ELSE n), end |-> end]

-----------------------------------------------------------------------------
Reads(r) ==
  /\ fpos' = fpos + r.n /\ offs' = offs + r.n /\ taken' = taken + r.n
  /\ dec' = r.dec

(* What copyfile does with what the last step returned: nothing ends the   *)
(* copy, of a file that is skipped nothing is written.                     *)
Return(data) ==
  /\ fpc' = IF data = <<>> THEN "check" ELSE "copy"
  /\ written' = IF Current.mode = "skip" THEN written ELSE written \o data
  /\ UNCHANGED <<file, fend, entry, fault>>

Again == UNCHANGED <<file, fend, fpc, entry, written, fault>>

(* The loop of copyfile when there is nothing to decompress.               *)
copy_step ==
  /\ fpc = "copy" /\ Current.compressed = "none"
  /\ \E r \in {upstream_step} :
       \/ r.ret = "error" /\ Error /\ UNCHANGED fault
       \/ r.ret = "again" /\ Reads(r) /\ Again /\ UNCHANGED cmp
       \/ r.ret = "ok" /\ Reads(r) /\ Return(FlattenSeq(r.data)) /\ UNCHANGED cmp

(* One turn of the loops of gunzip_step, xz_step, zstd_step and lz4_step.  *)
(* Only zstd calls its library when there is no more input, for what the   *)
(* library still holds.                                                    *)
decompress_step ==
  /\ fpc = "copy" /\ Current.compressed # "none"
  /\ \E r \in {IF cmp.in = <<>> THEN upstream_step
               ELSE [ret |-> "ok", data |-> cmp.in, n |-> 0, dec |-> dec]} :
       \/ r.ret = "error" /\ Error /\ UNCHANGED fault
       \/ r.ret = "again" /\ Reads(r) /\ Again /\ UNCHANGED cmp
       \/ LET eof == cmp.eof \/ r.data = <<>>
          IN  /\ r.ret = "ok" /\ Reads(r)
              /\ \/ /\ eof /\ Current.compressed # "zstd"
                    /\ cmp' = [cmp EXCEPT !.in = r.data, !.eof = TRUE]
                    /\ Return(<<>>)
                 \/ /\ eof => Current.compressed = "zstd"
                    /\ \E d \in {Decode(r.data, cmp.pend, eager) : eager \in BOOLEAN} :
                         /\ cmp' = [in |-> d.in, pend |-> d.pend, eof |-> eof \/ d.end]
                         /\ IF d.out = <<>> /\ ~eof /\ ~d.end THEN Again ELSE Return(d.out)

(* A read fails, or the callback does.                                     *)
copy_fails == fpc = "copy" /\ Failure

(* The end of copyfile, and what its caller does then.  The padding is     *)
(* not part of hash and checksum, and nobody minds when it cannot be read. *)
(* A streamed image has an offset of its own, and its checksum is not      *)
(* compared.                                                               *)
copy_end ==
  LET whole == taken = Len(Current.data)
      bad == ~whole /\ (Current.hash \/ Current.crc)
  IN  /\ fpc = "check"
      /\ \/ bad /\ Error /\ UNCHANGED fault
         \/ /\ ~bad
            /\ \E pad \in {0, _fill_buffer(NPAD_BYTES(offs))} :
                 /\ fpos' = fpos + pad
                 /\ offs' = IF Current.mode = "stream" THEN 0 ELSE offs + pad
                 /\ fault' = (fault \/ pad < _fill_buffer(NPAD_BYTES(offs)))
            /\ fpc' = "header" /\ entry' = entry + 1
            /\ UNCHANGED <<file, fend, taken, dec, cmp, written>>

CNext == extract_cpio_header \/ copy_step \/ decompress_step \/ copy_fails \/ copy_end

CSpec == CInit /\ [][CNext]_cpvars /\ WF_cpvars(CNext)

-----------------------------------------------------------------------------
(* With AES a file of one block yields nothing before its end is seen, so
   decrypt_step returns 0 and the copy ends with nothing; with CMS an empty
   file is refused. *)
OneBlock == file.cipher = "AES" /\ Len(file.data) = AES_BLK_SIZE
EmptyCMS == file.cipher = "CMS" /\ Len(file.data) = 1

Checked == file.hash \/ file.crc \/ fend >= EntryAt(2)

(* What a copy that succeeded wrote is the image, whole and in order, with
   every cipher and every compression and however the steps cut it: unless
   nothing tells copyfile that the stream ended early. *)
CopyWhole ==
  entry > 1 /\ file.mode # "skip" /\ Checked /\ ~OneBlock => written = Image(file)

(* extract_files reads the header of the next file where it is. *)
InStep ==
  fpos > 0 /\ fpc \in {"header", "copy"} /\ fend = End /\ ~fault /\ file.trail = 0
    => fpos - (IF fpc = "copy" THEN taken ELSE 0)
         = EntryAt(entry) + (IF fpc = "copy" THEN Padded(sizeof_header + Current.name) ELSE 0)

(* extract_files only succeeds with an archive that did not end before its
   trailer, and fails only with a reason. *)
Verdict ==
  /\ fpc = "end" => fend >= EntryAt(3) + sizeof_header + Trailer.name
  /\ fpc = "failed" => fault \/ fend < End \/ file.trail > 0 \/ EmptyCMS

CopyRight == CopyWhole /\ InStep /\ Verdict

(* The comment on the pipeline says "When no more data can be produced,
   zero is returned": a copy ends when everything was written. *)
ZeroIsEnd == fpc = "check" /\ entry = 1 /\ fend = End /\ file.mode # "skip" => written = Image(file)

(* Once its first header was read an archive is read to its end or refused,
   unless the stream ended in a header. *)
CopyEnds ==
  fpos > 0 ~> (fpc \in {"end", "failed"} \/ (fpc = "header" /\ fpos = fend))
=============================================================================
