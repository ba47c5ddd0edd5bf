-------------------------- MODULE Transfers_proofs --------------------------
(***************************************************************************)
(* How an image comes in.  The multipart parser of the web server hands    *)
(* out the data of every part exactly, for any boundary without a CR, any  *)
(* number of parts, any data that does not hold the delimiter, and         *)
(* packages that end anywhere.  The downloader: the safety properties of   *)
(* Download for files of any length, any number of retries and any width   *)
(* of the counter that does not wrap.                                      *)
(***************************************************************************)
EXTENDS Multipart, Download, SequenceTheorems, TLAPS

-----------------------------------------------------------------------------
(* The bytes of a body.                                                    *)

(* w is s with t behind it.                                                *)
Joins(w, s, t) ==
  /\ Len(s) \in Nat /\ Len(t) \in Nat /\ Len(w) = Len(s) + Len(t)
  /\ \A i \in 1..Len(s) : w[i] = s[i]
  /\ \A i \in 1..Len(t) : w[Len(s) + i] = t[i]

(* Two sequences behind each other.                                         *)
LEMMA Joined ==
  ASSUME NEW S, NEW s \in Seq(S), NEW t \in Seq(S)
  PROVE  s \o t \in Seq(S) /\ Joins(s \o t, s, t)
<1>1. Len(s) \in Nat /\ Len(t) \in Nat
  BY LenProperties
<1>2. /\ s \o t \in Seq(S) /\ Len(s \o t) = Len(s) + Len(t)
      /\ \A i \in 1..Len(s) + Len(t) :
           (s \o t)[i] = IF i <= Len(s) THEN s[i] ELSE t[i - Len(s)]
  BY ConcatProperties
<1> QED
  BY <1>1, <1>2 DEF Joins

(* A delimiter is longer than its new line, and its only CR is the first   *)
(* byte.                                                                   *)
LEMMA DelimiterBytes ==
  /\ Boundary \in Seq(Byte) /\ Len(Boundary) \in Nat \ {0}
  /\ Delimiter \in Seq(Byte) /\ Len(Delimiter) = 2 + Len(Boundary)
  /\ Delimiter[1] = "CR" /\ Delimiter[2] = "LF"
  /\ \A j \in 1..Len(Boundary) : Delimiter[2 + j] = Boundary[j]
  /\ \A j \in 2..Len(Delimiter) : Delimiter[j] # "CR"
<1>1. Boundary \in Seq(Byte) /\ Len(Boundary) \in Nat \ {0}
  <2>1. Boundary \in Seq(Byte)
    BY MultipartAssumption, SeqMonotonic
  <2> QED
    BY <2>1, MultipartAssumption, EmptySeq
<1>2. CRLF \in Seq(Byte) /\ Len(CRLF) = 2 /\ CRLF[1] = "CR" /\ CRLF[2] = "LF"
  BY MultipartAssumption DEF CRLF
<1>3. /\ Delimiter \in Seq(Byte) /\ Len(Delimiter) = 2 + Len(Boundary)
      /\ \A i \in 1..2 : Delimiter[i] = CRLF[i]
      /\ \A i \in 1..Len(Boundary) : Delimiter[2 + i] = Boundary[i]
  <2>1. Delimiter \in Seq(Byte) /\ Joins(Delimiter, CRLF, Boundary)
    BY <1>1, <1>2, Joined, Zenon DEF Delimiter
  <2> QED
    BY <1>2, <2>1, Zenon DEF Joins
<1>4. Delimiter[1] = "CR" /\ Delimiter[2] = "LF"
  BY <1>1, <1>2, <1>3
<1>5. \A j \in 1..Len(Boundary) : Delimiter[2 + j] = Boundary[j]
  BY <1>1, <1>3
<1>6. ASSUME NEW j \in 2..Len(Delimiter) PROVE Delimiter[j] # "CR"
  <2>1. CASE j = 2
    BY <2>1, <1>4
  <2>2. CASE j > 2
    <3>1. j - 2 \in 1..Len(Boundary) /\ 2 + (j - 2) = j
      BY <2>2, <1>1, <1>3
    <3>2. Delimiter[j] = Boundary[j - 2]
      BY <3>1, <1>3
    <3> QED
      BY <3>1, <3>2, MultipartAssumption, ElementOfSeq
  <2> QED
    BY <2>1, <2>2, <1>1, <1>3
<1> QED
  BY <1>1, <1>3, <1>4, <1>5, <1>6

(* A part is ten bytes of headers, the data and a delimiter.               *)
LEMMA BytesOfPart ==
  ASSUME NEW d \in Seq(Byte)
  PROVE  /\ Len(d) \in Nat /\ Len(PartBytes(d)) = 10 + Len(d) + Len(Delimiter)
         /\ \A i \in 1..10 : PartBytes(d)[i] = Header[i]
         /\ \A k \in 1..Len(d) : PartBytes(d)[10 + k] = d[k]
         /\ \A j \in 1..Len(Delimiter) : PartBytes(d)[10 + Len(d) + j] = Delimiter[j]
<1> DEFINE T == Byte \cup {"CR", "LF", "h", "colon", "space", "v"}
<1> DEFINE hd == Header \o d
<1>1. Header \in Seq(T) /\ Len(Header) = 10
  BY DEF Header
<1>2. d \in Seq(T) /\ Delimiter \in Seq(T) /\ Len(d) \in Nat /\ Len(Delimiter) \in Nat
  BY DelimiterBytes, SeqMonotonic, LenProperties, Zenon
<1> HIDE DEF T
<1>3. /\ hd \in Seq(T) /\ Len(hd) = 10 + Len(d)
      /\ \A i \in 1..10 : hd[i] = Header[i]
      /\ \A i \in 1..Len(d) : hd[10 + i] = d[i]
  <2>1. hd \in Seq(T) /\ Joins(hd, Header, d)
    BY <1>1, <1>2, Joined, Zenon
  <2> QED
    BY <1>1, <2>1, Zenon DEF Joins
<1> HIDE DEF hd
<1> DEFINE w == PartBytes(d)
<1>4. w = hd \o Delimiter
  BY DEF PartBytes, hd
<1> HIDE DEF w
<1>5. /\ Len(w) = 10 + Len(d) + Len(Delimiter)
      /\ \A i \in 1..Len(hd) : w[i] = hd[i]
      /\ \A i \in 1..Len(Delimiter) : w[10 + Len(d) + i] = Delimiter[i]
  <2>1. Joins(w, hd, Delimiter)
    BY <1>2, <1>3, <1>4, Joined, Zenon
  <2> QED
    BY <1>3, <2>1, Zenon DEF Joins
<1>6. \A i \in 1..10 : w[i] = Header[i]
  BY <1>2, <1>3, <1>5
<1>7. ASSUME NEW k \in 1..Len(d) PROVE w[10 + k] = d[k]
  <2>1. 10 + k \in 1..Len(hd)
    BY <1>2, <1>3
  <2> QED
    BY <1>3, <1>5, <2>1
<1> QED
  BY <1>2, <1>5, <1>6, <1>7 DEF w

(* The bytes of the headers.                                                *)
LEMMA HeaderBytes ==
  /\ Header[1] = "CR" /\ Header[2] = "LF" /\ Header[3] = "h" /\ Header[4] = "colon"
  /\ Header[5] = "space" /\ Header[6] = "v" /\ Header[7] = "CR" /\ Header[8] = "LF"
  /\ Header[9] = "CR" /\ Header[10] = "LF"
BY DEF Header

(* Bytes of a part that begin a delimiter, from the data on, are in the    *)
(* data, or they are the delimiter at its end.                             *)
LEMMA Border ==
  ASSUME NEW d \in Seq(Byte), NEW k \in 0..Len(d), NEW m \in 1..Len(Delimiter),
         \A j \in 1..m : PartBytes(d)[10 + k + j] = Delimiter[j]
  PROVE  /\ k = Len(d) \/ k + m <= Len(d)
         /\ k + m <= Len(d) => \A j \in 1..m : d[k + j] = Delimiter[j]
<1> DEFINE w == PartBytes(d)
<1>0. /\ Len(d) \in Nat /\ Len(Delimiter) \in Nat
      /\ \A i \in 1..Len(d) : w[10 + i] = d[i]
      /\ \A j \in 1..Len(Delimiter) : w[10 + Len(d) + j] = Delimiter[j]
      /\ \A j \in 1..m : w[10 + k + j] = Delimiter[j]
  BY BytesOfPart, DelimiterBytes, Zenon
<1> HIDE DEF w
<1>1. ASSUME k < Len(d), Len(d) < k + m PROVE FALSE
  <2> DEFINE j == Len(d) - k + 1
  <2>1. j \in 1..m /\ j \in 2..Len(Delimiter) /\ 10 + k + j = 10 + Len(d) + 1
    BY <1>0, <1>1
  <2>2. w[10 + k + j] = Delimiter[j]
    BY <1>0, <2>1
  <2>3. w[10 + Len(d) + 1] = Delimiter[1]
    BY <1>0, <2>1
  <2> QED
    BY <2>1, <2>2, <2>3, DelimiterBytes
<1>2. ASSUME k + m <= Len(d), NEW j \in 1..m PROVE d[k + j] = Delimiter[j]
  <2>1. k + j \in 1..Len(d) /\ 10 + (k + j) = 10 + k + j
    BY <1>0, <1>2
  <2> QED
    BY <1>0, <2>1, Zenon
<1> QED
  BY <1>0, <1>1, <1>2

(* A stretch of a sequence.                                                *)
LEMMA Stretch ==
  ASSUME NEW d \in Seq(Byte), NEW a \in 1..Len(d) + 1, NEW b \in a - 1..Len(d)
  PROVE  /\ SubSeq(d, a, b) \in Seq(Byte) /\ Len(SubSeq(d, a, b)) = b - a + 1
         /\ \A i \in 1..b - a + 1 : SubSeq(d, a, b)[i] = d[a + i - 1]
<1>1. Len(d) \in Nat
  BY LenProperties
<1>2. ASSUME NEW i \in a..b PROVE d[i] \in Byte
  <2>1. i \in 1..Len(d)
    BY <1>1
  <2> QED
    BY <2>1, ElementOfSeq
<1>3. a \in Int /\ b \in Int
  BY <1>1
<1>4. /\ SubSeq(d, a, b) \in Seq(Byte)
      /\ Len(SubSeq(d, a, b)) = IF a <= b THEN b - a + 1 ELSE 0
      /\ \A i \in 1..b - a + 1 : SubSeq(d, a, b)[i] = d[a + i - 1]
  <2>1. \A i \in a..b : d[i] \in Byte
    BY <1>2
  <2> QED
    BY <2>1, <1>3, SubSeqProperties
<1> QED
  BY <1>1, <1>3, <1>4

(* What on_part_data is given, added to what it was given before.          *)
LEMMA NextBytes ==
  ASSUME NEW d \in Seq(Byte), NEW k \in 0..Len(d), NEW n \in k..Len(d)
  PROVE  SubSeq(d, 1, k) \o SubSeq(d, k + 1, n) = SubSeq(d, 1, n)
<1>1. Len(d) \in Nat
  BY LenProperties
<1>2. 1 \in 1..Len(d) + 1 /\ k \in 1 - 1..Len(d)
  BY <1>1
<1> QED
  BY <1>2, ConcatAdjacentSubSeq

(* The next byte of the data, behind what is marked or handed out.          *)
LEMMA NextByte ==
  ASSUME NEW d \in Seq(Byte), NEW k \in 0..Len(d) - 1, NEW j \in 0..k
  PROVE  /\ d[k + 1] \in Byte
         /\ Append(SubSeq(d, j + 1, k), d[k + 1]) = SubSeq(d, j + 1, k + 1)
         /\ SubSeq(d, 1, k) \o <<d[k + 1]>> = SubSeq(d, 1, k + 1)
<1>1. Len(d) \in Nat
  BY LenProperties
<1>2. /\ j + 1 \in 1..Len(d) /\ k + 1 \in j + 1..Len(d) /\ k + 1 \in 1..Len(d)
      /\ (k + 1) - 1 = k /\ 1 \in 1..Len(d)
  BY <1>1
<1>3. d[k + 1] \in Byte
  BY <1>2, ElementOfSeq
<1>4. SubSeq(d, j + 1, k + 1) = SubSeq(d, j + 1, k) \o <<d[k + 1]>>
  BY <1>2, SubSeqRecursiveSecond, Zenon
<1>5. SubSeq(d, 1, k + 1) = SubSeq(d, 1, k) \o <<d[k + 1]>>
  BY <1>2, SubSeqRecursiveSecond
<1>6. SubSeq(d, j + 1, k) \in Seq(Byte)
  <2>1. j + 1 \in 1..Len(d) + 1 /\ k \in (j + 1) - 1..Len(d)
    BY <1>1
  <2> QED
    BY <2>1, Stretch
<1>7. Append(SubSeq(d, j + 1, k), d[k + 1]) = SubSeq(d, j + 1, k) \o <<d[k + 1]>>
  BY <1>3, <1>6, AppendIsConcat
<1> QED
  BY <1>3, <1>4, <1>5, <1>7

(* The start of a delimiter that was data after all.                        *)
LEMMA NextMatch ==
  ASSUME NEW d \in Seq(Byte), NEW k \in 0..Len(d), NEW m \in 1..Len(Delimiter),
         k + m <= Len(d), \A j \in 1..m : d[k + j] = Delimiter[j]
  PROVE  SubSeq(d, 1, k) \o SubSeq(Delimiter, 1, m) = SubSeq(d, 1, k + m)
<1>1. Len(d) \in Nat /\ Len(Delimiter) \in Nat /\ Delimiter \in Seq(Byte)
  BY LenProperties, DelimiterBytes
<1> DEFINE s == SubSeq(Delimiter, 1, m)
<1> DEFINE t == SubSeq(d, k + 1, k + m)
<1>4. s \in Seq(Byte) /\ Len(s) = m /\ \A i \in 1..m : s[i] = Delimiter[i]
  <2>1. 1 \in 1..Len(Delimiter) + 1 /\ m \in 1 - 1..Len(Delimiter)
    BY <1>1
  <2>2. /\ s \in Seq(Byte) /\ Len(s) = m - 1 + 1
        /\ \A i \in 1..m - 1 + 1 : s[i] = Delimiter[1 + i - 1]
    BY <1>1, <2>1, Stretch, Zenon
  <2> HIDE DEF s
  <2> QED
    BY <2>2
<1>5. t \in Seq(Byte) /\ Len(t) = m /\ \A i \in 1..m : t[i] = d[k + i]
  <2>1. k + 1 \in 1..Len(d) + 1 /\ k + m \in (k + 1) - 1..Len(d)
    BY <1>1
  <2>2. /\ t \in Seq(Byte) /\ Len(t) = (k + m) - (k + 1) + 1
        /\ \A i \in 1..(k + m) - (k + 1) + 1 : t[i] = d[(k + 1) + i - 1]
    BY <1>1, <2>1, Stretch, Zenon
  <2> HIDE DEF t
  <2>3. (k + m) - (k + 1) + 1 = m /\ \A i \in 1..m : (k + 1) + i - 1 = k + i
    OBVIOUS
  <2> QED
    BY <2>2, <2>3, Zenon
<1> HIDE DEF s, t
<1>6. s = t
  BY <1>4, <1>5, SeqEqual, Zenon
<1>7. k + m \in k..Len(d)
  BY <1>1
<1>8. SubSeq(d, 1, k) \o t = SubSeq(d, 1, k + m)
  BY <1>7, NextBytes DEF t
<1> QED
  BY <1>6, <1>8 DEF s

-----------------------------------------------------------------------------
Whole(d) == [data |-> d, end |-> TRUE]

(* The callbacks were given the first n parts, whole, and nothing else.    *)
PartsDone(n) ==
  marked = <<>> /\ Len(got) = n /\ \A i \in 1..n : got[i] = Whole(given[i])

(* g is the parts before the current one, and k bytes of it.               *)
Partial(g, k) ==
  /\ seg \in 1..Len(given) /\ Len(g) = seg
  /\ \A i \in 1..seg - 1 : g[i] = Whole(given[i])
  /\ g[seg] = [data |-> SubSeq(given[seg], 1, k), end |-> FALSE]

(* The parser is in the headers of a part.                                 *)
InHeader(P) == seg \in 1..Len(given) /\ at \in P /\ PartsDone(seg - 1)

(* It is in the data of a part: what was not handed out is marked.         *)
InData ==
  \E k \in 0..Len(given[seg]) : \E j \in 0..k :
    at = 10 + k /\ Partial(got, j) /\ marked = SubSeq(given[seg], j + 1, k)

(* The last m bytes begin a delimiter, and they are not handed out.        *)
Begun(m) ==
  \E k \in 0..Len(given[seg]) :
    /\ at = 10 + k + m /\ marked = <<>> /\ Partial(got, k)
    /\ \A j \in 1..m : PartBytes(given[seg])[10 + k + j] = Delimiter[j]

AtBoundary ==
  /\ state = "s_start_boundary" =>
       /\ PartsDone(0)
       /\ \/ seg = 0 /\ at \in 0..Len(Boundary) - 1 /\ index = at
          \/ seg = 1 /\ at \in {0, 1} /\ index = Len(Boundary) + at
  /\ state = "s_part_data_almost_end" => seg \in 2..Len(given) + 1 /\ at = 0 /\ PartsDone(seg - 1)
  /\ state = "s_part_data_end" => seg \in 2..Len(given) /\ at = 1 /\ PartsDone(seg - 1)
  /\ state = "s_part_data_final_hyphen" => seg = Len(given) + 1 /\ at = 1 /\ PartsDone(seg - 1)
  /\ state = "s_end" => seg = Len(given) + 2 /\ PartsDone(Len(given))

AtHeader ==
  /\ state = "s_header_field_start" => InHeader({2, 8})
  /\ state = "s_header_field" => InHeader({3})
  /\ state = "s_header_value_start" => InHeader({4, 5})
  /\ state = "s_header_value" => InHeader({6})
  /\ state = "s_header_value_almost_done" => InHeader({7})
  /\ state = "s_headers_almost_done" => InHeader({9})
  /\ state = "s_part_data_start" => InHeader({10})

AtData ==
  /\ state = "s_part_data" => InData
  /\ state = "s_part_data_almost_boundary" => Begun(1)
  /\ state = "s_part_data_boundary" => index \in 0..Len(Boundary) - 1 /\ Begun(2 + index)

(* What the server made of the body.                                       *)
Written ==
  given \in Seq(Seq(Byte)) /\ Len(given) > 0 /\ \A i \in 1..Len(given) : Free(given[i])

MInv == Written /\ MTypeOK /\ AtBoundary /\ AtHeader /\ AtData

PartRecord == [data: Seq(Byte), end: BOOLEAN]

(* A change of one field.                                                   *)
LEMMA CallbackRecord ==
  ASSUME NEW r \in PartRecord
  PROVE  /\ \A y : [r EXCEPT !.data = y] = [data |-> y, end |-> r.end]
         /\ \A y : [r EXCEPT !.end = y] = [data |-> r.data, end |-> y]
  BY DEF PartRecord

(* on_part_data adds to the last part.                                     *)
LEMMA Handed ==
  ASSUME NEW g \in Seq(PartRecord), NEW x \in Seq(Byte), Len(g) > 0
  PROVE  /\ part_data(g, x) \in Seq(PartRecord) /\ Len(part_data(g, x)) = Len(g)
         /\ \A i \in 1..Len(g) - 1 : part_data(g, x)[i] = g[i]
         /\ part_data(g, x)[Len(g)] = [data |-> g[Len(g)].data \o x, end |-> g[Len(g)].end]
<1> DEFINE n == Len(g)
<1> DEFINE e == [data |-> g[n].data \o x, end |-> g[n].end]
<1>1. n \in Nat /\ n \in 1..n /\ g[n] \in PartRecord
  BY LenProperties, ElementOfSeq
<1>2. g[n].data \o x \in Seq(Byte) /\ g[n].end \in BOOLEAN
  <2>1. g[n].data \in Seq(Byte) /\ g[n].end \in BOOLEAN
    BY <1>1 DEF PartRecord
  <2> QED
    BY <2>1, Joined
<1>3. e \in PartRecord
  BY <1>2 DEF PartRecord
<1>4. [g[n] EXCEPT !.data = g[n].data \o x] = e
  BY <1>1, CallbackRecord, Zenon
<1>5. part_data(g, x) = [g EXCEPT ![n] = e]
  BY <1>4, Zenon DEF part_data
<1> HIDE DEF e
<1>6. /\ [g EXCEPT ![n] = e] \in Seq(PartRecord) /\ Len([g EXCEPT ![n] = e]) = n
      /\ \A j \in 1..n : [g EXCEPT ![n] = e][j] = IF j = n THEN e ELSE g[j]
  BY <1>1, <1>3, ExceptSeq
<1>7. /\ part_data(g, x) \in Seq(PartRecord) /\ Len(part_data(g, x)) = n
      /\ \A i \in 1..n - 1 : part_data(g, x)[i] = g[i]
      /\ part_data(g, x)[n] = e
  BY <1>1, <1>5, <1>6
<1> QED
  BY <1>7 DEF e

(* on_part_data, for the current part.                                     *)
LEMMA HandedOn ==
  ASSUME Written, NEW g \in Seq(PartRecord), NEW k, NEW n, NEW x \in Seq(Byte), Partial(g, k),
         SubSeq(given[seg], 1, k) \o x = SubSeq(given[seg], 1, n)
  PROVE  part_data(g, x) \in Seq(PartRecord) /\ Partial(part_data(g, x), n)
<1>1. /\ seg \in 1..Len(given) /\ Len(given) \in Nat /\ Len(g) = seg /\ Len(g) > 0
      /\ \A i \in 1..seg - 1 : g[i] = Whole(given[i])
      /\ g[seg].data = SubSeq(given[seg], 1, k) /\ g[seg].end = FALSE
  <2>1. Len(given) \in Nat
    BY LenProperties DEF Written
  <2>2. /\ seg \in 1..Len(given) /\ Len(g) = seg
        /\ \A i \in 1..seg - 1 : g[i] = Whole(given[i])
        /\ g[seg] = [data |-> SubSeq(given[seg], 1, k), end |-> FALSE]
    BY Zenon DEF Partial
  <2>3. g[seg].data = SubSeq(given[seg], 1, k) /\ g[seg].end = FALSE
    <3> DEFINE y == SubSeq(given[seg], 1, k)
    <3>1. g[seg] = [data |-> y, end |-> FALSE]
      BY <2>2
    <3> HIDE DEF y
    <3>2. g[seg].data = y /\ g[seg].end = FALSE
      BY <3>1
    <3> QED
      BY <3>2 DEF y
  <2>4. Len(g) > 0
    BY <2>1, <2>2
  <2> QED
    BY <2>1, <2>2, <2>3, <2>4, Zenon
<1>2. /\ part_data(g, x) \in Seq(PartRecord) /\ Len(part_data(g, x)) = seg
      /\ \A i \in 1..seg - 1 : part_data(g, x)[i] = g[i]
      /\ part_data(g, x)[seg] = [data |-> g[seg].data \o x, end |-> g[seg].end]
  BY <1>1, Handed, Zenon
<1>3. \A i \in 1..seg - 1 : part_data(g, x)[i] = Whole(given[i])
  BY <1>1, <1>2
<1>4. part_data(g, x)[seg] = [data |-> SubSeq(given[seg], 1, n), end |-> FALSE]
  BY <1>1, <1>2, Zenon
<1> QED
  BY <1>1, <1>2, <1>3, <1>4, Zenon DEF Partial

(* on_headers_complete begins a part.                                      *)
LEMMA Opened ==
  ASSUME Written, got \in Seq(PartRecord), seg \in 1..Len(given), PartsDone(seg - 1)
  PROVE  headers_complete \in Seq(PartRecord) /\ Partial(headers_complete, 0)
<1> DEFINE e == [data |-> <<>>, end |-> FALSE]
<1>1. e \in PartRecord
  BY EmptySeq DEF PartRecord
<1>2. SubSeq(given[seg], 1, 0) = <<>>
  BY SubSeqEmpty
<1>3. e = [data |-> SubSeq(given[seg], 1, 0), end |-> FALSE]
  BY <1>2, Zenon
<1> HIDE DEF e
<1>4. Len(given) \in Nat /\ Len(got) = seg - 1 /\ \A i \in 1..seg - 1 : got[i] = Whole(given[i])
  BY LenProperties DEF PartsDone, Written
<1>5. /\ Append(got, e) \in Seq(PartRecord) /\ Len(Append(got, e)) = Len(got) + 1
      /\ \A i \in 1..Len(got) : Append(got, e)[i] = got[i]
      /\ Append(got, e)[Len(got) + 1] = e
  BY <1>1, AppendProperties
<1>6. headers_complete = Append(got, e)
  BY DEF headers_complete, e
<1>7. seg - 1 + 1 = seg
  BY <1>4
<1>8. /\ headers_complete \in Seq(PartRecord) /\ Len(headers_complete) = seg
      /\ \A i \in 1..seg - 1 : headers_complete[i] = got[i]
      /\ headers_complete[seg] = e
  BY <1>4, <1>5, <1>6, <1>7
<1> QED
  BY <1>3, <1>4, <1>8 DEF Partial

(* on_part_data_end ends it.                                               *)
LEMMA Closed ==
  ASSUME Written, got \in Seq(PartRecord), marked = <<>>, Partial(got, Len(given[seg]))
  PROVE  /\ part_data_end \in Seq(PartRecord) /\ Len(part_data_end) = seg
         /\ \A i \in 1..seg : part_data_end[i] = Whole(given[i])
<1> DEFINE e == Whole(given[seg])
<1>1. /\ seg \in 1..Len(given) /\ Len(given) \in Nat /\ Len(got) = seg
      /\ \A i \in 1..seg - 1 : got[i] = Whole(given[i])
      /\ got[seg] = [data |-> SubSeq(given[seg], 1, Len(given[seg])), end |-> FALSE]
  BY LenProperties DEF Partial, Written
<1>2. given[seg] \in Seq(Byte)
  BY <1>1, ElementOfSeq DEF Written
<1>3. got[seg] = [data |-> given[seg], end |-> FALSE]
  BY <1>1, <1>2, SubSeqFull, Zenon
<1>4. e \in PartRecord
  BY <1>2 DEF Whole, PartRecord
<1>5. [got[seg] EXCEPT !.end = TRUE] = e
  <2>1. seg \in 1..Len(got)
    BY <1>1
  <2>2. got[seg] \in PartRecord
    BY <2>1, ElementOfSeq
  <2>3. got[seg].data = given[seg]
    BY <1>3
  <2>4. [got[seg] EXCEPT !.end = TRUE] = [data |-> got[seg].data, end |-> TRUE]
    BY <2>2, CallbackRecord, Zenon
  <2> QED
    BY <2>3, <2>4 DEF Whole
<1>6. part_data_end = [got EXCEPT ![seg] = e]
  BY <1>1, <1>5, Zenon DEF part_data_end
<1>7. seg \in 1..Len(got)
  BY <1>1
<1> HIDE DEF e
<1>8. /\ [got EXCEPT ![seg] = e] \in Seq(PartRecord) /\ Len([got EXCEPT ![seg] = e]) = Len(got)
      /\ \A j \in 1..Len(got) : [got EXCEPT ![seg] = e][j] = IF j = seg THEN e ELSE got[j]
  BY <1>4, <1>7, ExceptSeq
<1>9. ASSUME NEW i \in 1..seg PROVE part_data_end[i] = Whole(given[i])
  <2>1. CASE i = seg
    BY <2>1, <1>1, <1>6, <1>8 DEF e
  <2>2. CASE i # seg
    BY <2>2, <1>1, <1>6, <1>8
  <2> QED
    BY <2>1, <2>2
<1> QED
  BY <1>1, <1>6, <1>8, <1>9

-----------------------------------------------------------------------------
(* The steps of the parser.                                                *)

(* The byte that is read in a part, and where the parser is after it.      *)
LEMMA InPart ==
  ASSUME Written, seg \in 1..Len(given)
  PROVE  /\ Len(given) \in Nat /\ given[seg] \in Seq(Byte) /\ Len(given[seg]) \in Nat
         /\ Segment(seg) = PartBytes(given[seg])
         /\ Len(Segment(seg)) = 10 + Len(given[seg]) + Len(Delimiter)
<1>1. Len(given) \in Nat /\ given[seg] \in Seq(Byte)
  BY LenProperties, ElementOfSeq DEF Written
<1>2. seg # 0 /\ seg <= Len(given)
  BY <1>1
<1>3. Segment(seg) = PartBytes(given[seg])
  BY <1>2, Zenon DEF Segment
<1> QED
  BY <1>1, <1>3, BytesOfPart, Zenon

(* A byte of a part is taken.                                               *)
LEMMA TakenInPart ==
  ASSUME Written, seg \in 1..Len(given), at \in Nat, NEW s, Take(s)
  PROVE  /\ state' = s /\ given' = given
         /\ at + 1 < 10 + Len(given[seg]) + Len(Delimiter) => at' = at + 1 /\ seg' = seg
         /\ at + 1 = 10 + Len(given[seg]) + Len(Delimiter) => at' = 0 /\ seg' = seg + 1
<1>1. /\ Len(given) \in Nat /\ Len(given[seg]) \in Nat /\ Len(Delimiter) \in Nat
      /\ Len(Segment(seg)) = 10 + Len(given[seg]) + Len(Delimiter)
  <2>1. Len(Delimiter) \in Nat
    BY DelimiterBytes
  <2> QED
    BY <2>1, InPart, Zenon
<1>2. /\ state' = s /\ given' = given
      /\ IF at + 1 < Len(Segment(seg)) THEN at' = at + 1 /\ seg' = seg
         ELSE at' = 0 /\ seg' = seg + 1
  BY Zenon DEF Take
<1> QED
  BY <1>1, <1>2

(* A step within the headers.                                              *)
LEMMA HeaderGoes ==
  ASSUME MInv, NEW p \in 0..9, InHeader({p}), NEW s \in State, Goes(s)
  PROVE  /\ Written' /\ MTypeOK' /\ state' = s /\ InHeader({p + 1})'
         /\ UNCHANGED <<given, seg>>
<1>1. /\ Written /\ seg \in 1..Len(given) /\ at = p /\ PartsDone(seg - 1) /\ at \in Nat
      /\ Len(given) \in Nat /\ Len(given[seg]) \in Nat /\ Len(Delimiter) \in Nat \ {0}
  BY InPart, DelimiterBytes DEF MInv, InHeader
<1>2. Take(s) /\ UNCHANGED <<index, marked, got>>
  BY Zenon DEF Goes
<1>3. state' = s /\ given' = given /\ at' = p + 1 /\ seg' = seg
  <2>1. at + 1 < 10 + Len(given[seg]) + Len(Delimiter)
    BY <1>1
  <2> QED
    BY <1>1, <1>2, <2>1, TakenInPart
<1>4. Written'
  BY <1>1, <1>3, Zenon DEF Written
<1>5. MTypeOK'
  BY <1>2, <1>3 DEF MInv, MTypeOK
<1>6. PartsDone(seg - 1)'
  BY <1>1, <1>2, <1>3, Zenon DEF PartsDone
<1>7. InHeader({p + 1})'
  BY <1>1, <1>3, <1>6 DEF InHeader
<1> QED
  BY <1>3, <1>4, <1>5, <1>7

(* The byte that is read in the headers.                                   *)
LEMMA HeaderByte ==
  ASSUME MInv, NEW p \in 0..9, InHeader({p})
  PROVE  Segment(seg)[at + 1] = Header[p + 1]
<1>1. Written /\ seg \in 1..Len(given) /\ at = p
  BY DEF MInv, InHeader
<1>2. given[seg] \in Seq(Byte) /\ Segment(seg) = PartBytes(given[seg])
  BY <1>1, InPart
<1>3. p + 1 \in 1..10
  OBVIOUS
<1> QED
  BY <1>1, <1>2, <1>3, BytesOfPart, Zenon

(* The states in the headers.                                              *)
HeaderState == {"s_header_field_start", "s_header_field", "s_header_value_start",
                "s_header_value", "s_header_value_almost_done", "s_headers_almost_done",
                "s_part_data_start"}

(* The headers are read up to the empty line.                               *)
LEMMA HeadersStep ==
  ASSUME MInv, s_headers(Segment(seg)[at + 1])
  PROVE  MInv'
<1> DEFINE c == Segment(seg)[at + 1]
<1>1. ASSUME NEW p \in 0..9, InHeader({p}), NEW s \in HeaderState, Goes(s),
             \/ s = "s_header_field_start" /\ p + 1 \in {2, 8}
             \/ s = "s_header_field" /\ p + 1 = 3
             \/ s = "s_header_value_start" /\ p + 1 \in {4, 5}
             \/ s = "s_header_value" /\ p + 1 = 6
             \/ s = "s_header_value_almost_done" /\ p + 1 = 7
             \/ s = "s_headers_almost_done" /\ p + 1 = 9
             \/ s = "s_part_data_start" /\ p + 1 = 10
      PROVE  MInv'
  <2>1. s \in State
    BY DEF State, HeaderState
  <2>2. Written' /\ MTypeOK' /\ state' = s /\ InHeader({p + 1})'
    BY <1>1, <2>1, HeaderGoes, Zenon
  <2>3. AtHeader'
    BY <1>1, <2>2 DEF AtHeader, InHeader
  <2> QED
    BY <2>2, <2>3 DEF MInv, AtBoundary, AtData, HeaderState
<1>2. s_headers(c)
  OBVIOUS
<1>3. ASSUME NEW p \in 0..9, InHeader({p}) PROVE c = Header[p + 1]
  BY <1>3, HeaderByte
<1> HIDE DEF c
<1>4. ASSUME state \in {"s_header_field_start", "s_header_field"},
             CASE c = "CR" -> Goes("s_headers_almost_done")
               [] c = "colon" -> Goes("s_header_value_start")
               [] c \in {"LF", "space"} -> Reread("s_part_data_start") /\ UNCHANGED got
               [] OTHER -> Goes("s_header_field")
      PROVE  MInv'
  <2>1. PICK p \in {2, 3, 8} : InHeader({p}) /\ (p = 3 <=> state = "s_header_field")
    BY <1>4 DEF MInv, AtHeader, InHeader
  <2>2. c = Header[p + 1] /\ p \in 0..9
    <3>1. p \in 0..9
      OBVIOUS
    <3> QED
      BY <2>1, <3>1, <1>3, Zenon
  <2>3. CASE p = 2
    <3>1. c = "h"
      BY <2>2, <2>3, HeaderBytes
    <3>2. Goes("s_header_field")
      BY <1>4, <3>1
    <3> QED
      BY <1>1, <2>1, <2>2, <2>3, <3>2 DEF HeaderState
  <2>4. CASE p = 3
    <3>1. c = "colon"
      BY <2>2, <2>4, HeaderBytes
    <3>2. Goes("s_header_value_start")
      BY <1>4, <3>1
    <3> QED
      BY <1>1, <2>1, <2>2, <2>4, <3>2 DEF HeaderState
  <2>5. CASE p = 8
    <3>1. c = "CR"
      BY <2>2, <2>5, HeaderBytes
    <3>2. Goes("s_headers_almost_done")
      BY <1>4, <3>1
    <3> QED
      BY <1>1, <2>1, <2>2, <2>5, <3>2 DEF HeaderState
  <2> QED
    BY <2>1, <2>3, <2>4, <2>5
<1>5. ASSUME state = "s_headers_almost_done",
             IF c = "LF" THEN Goes("s_part_data_start") ELSE Returns
      PROVE  MInv'
  <2>1. InHeader({9})
    BY <1>5 DEF MInv, AtHeader
  <2>2. c = "LF"
    BY <2>1, <1>3, HeaderBytes
  <2> QED
    BY <1>1, <1>5, <2>1, <2>2 DEF HeaderState
<1>6. ASSUME state \in {"s_header_value_start", "s_header_value"},
             Goes(CASE c = "space" /\ state = "s_header_value_start" -> state
                    [] c = "CR" -> "s_header_value_almost_done"
                    [] OTHER -> "s_header_value")
      PROVE  MInv'
  <2>1. PICK p \in {4, 5, 6} : InHeader({p}) /\ (p = 6 <=> state = "s_header_value")
    BY <1>6 DEF MInv, AtHeader, InHeader
  <2>2. c = Header[p + 1] /\ p \in 0..9
    <3>1. p \in 0..9
      OBVIOUS
    <3> QED
      BY <2>1, <3>1, <1>3, Zenon
  <2>3. CASE p = 4
    <3>1. c = "space" /\ state = "s_header_value_start"
      BY <1>6, <2>1, <2>2, <2>3, HeaderBytes
    <3>2. Goes("s_header_value_start")
      BY <1>6, <3>1
    <3> QED
      BY <1>1, <2>1, <2>2, <2>3, <3>2 DEF HeaderState
  <2>4. CASE p = 5
    <3>1. c = "v"
      BY <2>2, <2>4, HeaderBytes
    <3>2. Goes("s_header_value")
      BY <1>6, <3>1
    <3> QED
      BY <1>1, <2>1, <2>2, <2>4, <3>2 DEF HeaderState
  <2>5. CASE p = 6
    <3>1. c = "CR"
      BY <2>2, <2>5, HeaderBytes
    <3>2. Goes("s_header_value_almost_done")
      BY <1>6, <3>1
    <3> QED
      BY <1>1, <2>1, <2>2, <2>5, <3>2 DEF HeaderState
  <2> QED
    BY <2>1, <2>3, <2>4, <2>5
<1>7. ASSUME state = "s_header_value_almost_done",
             IF c = "LF" THEN Goes("s_header_field_start") ELSE Returns
      PROVE  MInv'
  <2>1. InHeader({7})
    BY <1>7 DEF MInv, AtHeader
  <2>2. c = "LF"
    BY <2>1, <1>3, HeaderBytes
  <2> QED
    BY <1>1, <1>7, <2>1, <2>2 DEF HeaderState
<1> QED
  BY <1>2, <1>4, <1>5, <1>6, <1>7 DEF s_headers

(* What was written and handed out before does not change.                 *)
LEMMA StaysWritten ==
  ASSUME Written, UNCHANGED given
  PROVE  Written'
BY Zenon DEF Written

(* What was handed out, after a step within the part.                       *)
LEMMA StaysPartial ==
  ASSUME UNCHANGED <<given, seg>>, NEW k, Partial(got', k)
  PROVE  Partial(got, k)'
BY Zenon DEF Partial

(* A step that takes a byte of the data or of the delimiter.               *)
LEMMA TakenInData ==
  ASSUME Written, seg \in 1..Len(given), NEW p \in Nat, at = 10 + p,
         p + 1 < Len(given[seg]) + Len(Delimiter), NEW s, Take(s)
  PROVE  state' = s /\ given' = given /\ seg' = seg /\ at' = 10 + p + 1 /\ Written'
<1>1. Len(given[seg]) \in Nat /\ Len(Delimiter) \in Nat
  BY InPart, DelimiterBytes
<1>2. at + 1 < 10 + Len(given[seg]) + Len(Delimiter) /\ at \in Nat /\ at + 1 = 10 + p + 1
  BY <1>1
<1>3. state' = s /\ given' = given /\ seg' = seg /\ at' = at + 1
  BY <1>2, TakenInPart
<1> QED
  BY <1>2, <1>3, StaysWritten

(* s_part_data, once it is known what was handed out (g).                  *)
LEMMA DataStep ==
  ASSUME MInv, NEW g \in Seq(PartRecord), UNCHANGED index,
         NEW k \in 0..Len(given[seg]), NEW j \in 0..k, at = 10 + k,
         Partial(g, j), marked = SubSeq(given[seg], j + 1, k),
         NEW last \in BOOLEAN, NEW c, c = Segment(seg)[at + 1],
         \/ /\ c = "CR" /\ Take("s_part_data_almost_boundary")
            /\ got' = part_data(g, marked) /\ marked' = <<>>
         \/ /\ c # "CR" /\ Take("s_part_data")
            /\ got' = IF last THEN part_data(g, Append(marked, c)) ELSE g
            /\ marked' = IF last THEN <<>> ELSE Append(marked, c)
  PROVE  MInv'
<1> DEFINE d == given[seg]
<1>0. Written /\ seg \in 1..Len(given) /\ at \in Nat /\ marked \in Seq(Byte)
  BY Zenon DEF MInv, MTypeOK, Partial
<1>1. /\ d \in Seq(Byte) /\ Len(d) \in Nat /\ Len(given) \in Nat
      /\ Segment(seg) = PartBytes(d)
  BY <1>0, InPart
<1>2. k \in 0..Len(d) /\ k \in Nat /\ at + 1 = 10 + k + 1 /\ marked = SubSeq(d, j + 1, k)
  BY <1>1
<1>3. /\ Len(Delimiter) \in Nat /\ Len(Delimiter) >= 3 /\ Delimiter[1] = "CR"
  BY DelimiterBytes
<1>4. /\ \A i \in 1..Len(d) : PartBytes(d)[10 + i] = d[i]
      /\ \A i \in 1..Len(Delimiter) : PartBytes(d)[10 + Len(d) + i] = Delimiter[i]
  BY <1>1, BytesOfPart, Zenon
<1>5. c = PartBytes(d)[10 + k + 1]
  BY <1>1, <1>2
<1>6. ASSUME NEW s, Take(s)
      PROVE  state' = s /\ given' = given /\ seg' = seg /\ at' = 10 + k + 1 /\ Written'
  <2>1. k + 1 < Len(given[seg]) + Len(Delimiter)
    BY <1>1, <1>2, <1>3
  <2> QED
    BY <1>0, <1>2, <1>6, <2>1, TakenInData
<1> HIDE DEF d
<1>7. CASE c = "CR" /\ Take("s_part_data_almost_boundary")
           /\ got' = part_data(g, marked) /\ marked' = <<>>
  <2>1. /\ state' = "s_part_data_almost_boundary" /\ given' = given /\ seg' = seg
        /\ at' = 10 + k + 1 /\ Written'
    BY <1>6, <1>7
  <2>2. SubSeq(d, 1, j) \o marked = SubSeq(d, 1, k)
    <3>1. j \in 0..Len(d) /\ k \in j..Len(d)
      BY <1>1, <1>2
    <3> QED
      BY <1>1, <1>2, <3>1, NextBytes, Zenon
  <2>3. got' \in Seq(PartRecord) /\ Partial(got', k)
    BY <1>0, <1>2, <1>7, <2>2, HandedOn, Zenon DEF d
  <2>4. Partial(got, k)'
    BY <2>1, <2>3, StaysPartial
  <2>5. PartBytes(d)[10 + k + 1] = Delimiter[1]
    BY <1>3, <1>5, <1>7
  <2>6. Begun(1)'
    <3>1. \A i \in 1..1 : PartBytes(given'[seg'])[10 + k + i] = Delimiter[i]
      BY <2>1, <2>5 DEF d
    <3>2. k \in 0..Len(given'[seg'])
      BY <2>1
    <3> QED
      BY <1>7, <2>1, <2>4, <3>1, <3>2 DEF Begun
  <2>7. MTypeOK'
    <3>1. state' \in State /\ at' \in Nat
      BY <1>2, <2>1 DEF State
    <3>2. seg' \in 0..Len(given') + 2 /\ index' \in 0..Len(Boundary) + 1
      BY <2>1 DEF MInv, MTypeOK
    <3>3. marked' \in Seq(Byte) /\ got' \in Seq([data: Seq(Byte), end: BOOLEAN])
      BY <1>7, <2>3, EmptySeq DEF PartRecord
    <3> QED
      BY <3>1, <3>2, <3>3 DEF MTypeOK
  <2> QED
    BY <2>1, <2>6, <2>7 DEF MInv, AtBoundary, AtHeader, AtData
<1>8. CASE c # "CR" /\ Take("s_part_data")
           /\ got' = (IF last THEN part_data(g, Append(marked, c)) ELSE g)
           /\ marked' = IF last THEN <<>> ELSE Append(marked, c)
  <2>1. /\ state' = "s_part_data" /\ given' = given /\ seg' = seg
        /\ at' = 10 + (k + 1) /\ Written'
    BY <1>2, <1>6, <1>8
  <2>2. k \in 0..Len(d) - 1
    <3>1. PartBytes(d)[10 + Len(d) + 1] = "CR"
      BY <1>3, <1>4
    <3>2. k # Len(d)
      BY <1>5, <1>8, <3>1, Zenon
    <3> QED
      BY <1>1, <1>2, <3>2
  <2>3. c = d[k + 1]
    <3>1. k + 1 \in 1..Len(d) /\ 10 + (k + 1) = 10 + k + 1
      BY <1>1, <2>2
    <3> QED
      BY <1>4, <1>5, <3>1
  <2>4. Append(marked, c) = SubSeq(d, j + 1, k + 1) /\ c \in Byte
    BY <1>1, <1>2, <2>2, <2>3, NextByte, Zenon
  <2>5. Append(marked, c) \in Seq(Byte)
    BY <1>0, <2>4, AppendProperties
  <2>6. k + 1 \in 0..Len(d) /\ j \in 0..k + 1 /\ k + 1 \in 0..k + 1 /\ j \in 0..Len(d)
        /\ k + 1 \in j..Len(d)
    BY <1>1, <2>2
  <2>7. ASSUME last = TRUE PROVE InData' /\ got' \in Seq(PartRecord) /\ marked' \in Seq(Byte)
    <3>1. got' = part_data(g, Append(marked, c)) /\ marked' = <<>>
      BY <1>8, <2>7
    <3>2. SubSeq(d, 1, j) \o Append(marked, c) = SubSeq(d, 1, k + 1)
      BY <1>1, <2>4, <2>6, NextBytes, Zenon
    <3>3. got' \in Seq(PartRecord) /\ Partial(got', k + 1)
      BY <1>0, <2>5, <3>1, <3>2, HandedOn, Zenon DEF d
    <3>4. Partial(got, k + 1)'
      BY <2>1, <3>3, StaysPartial
    <3>5. marked' = SubSeq(d, (k + 1) + 1, k + 1)
      BY <2>6, <3>1, SubSeqEmpty
    <3>6. InData'
      BY <2>1, <2>6, <3>4, <3>5 DEF InData, d
    <3> QED
      BY <3>1, <3>3, <3>6, EmptySeq
  <2>8. ASSUME last = FALSE PROVE InData' /\ got' \in Seq(PartRecord) /\ marked' \in Seq(Byte)
    <3>1. got' = g /\ marked' = SubSeq(d, j + 1, k + 1)
      BY <1>8, <2>4, <2>8
    <3>2. Partial(got', j)
      BY <3>1
    <3>3. Partial(got, j)'
      BY <2>1, <3>2, StaysPartial
    <3>4. InData'
      BY <2>1, <2>6, <3>1, <3>3 DEF InData, d
    <3> QED
      BY <2>4, <2>5, <3>1, <3>4, Zenon
  <2>9. InData' /\ got' \in Seq(PartRecord) /\ marked' \in Seq(Byte)
    BY <2>7, <2>8, Zenon
  <2>10. MTypeOK'
    <3>1. state' \in State /\ at' \in Nat
      BY <1>2, <2>1 DEF State
    <3>2. seg' \in 0..Len(given') + 2 /\ index' \in 0..Len(Boundary) + 1
      BY <2>1 DEF MInv, MTypeOK
    <3> QED
      BY <2>9, <3>1, <3>2 DEF MTypeOK, PartRecord
  <2> QED
    BY <2>1, <2>9, <2>10 DEF MInv, AtBoundary, AtHeader, AtData
<1> QED
  BY <1>7, <1>8

(* s_part_data_start and s_part_data.                                       *)
LEMMA PartDataStep ==
  ASSUME MInv, NEW last \in BOOLEAN, s_part_data(Segment(seg)[at + 1], last)
  PROVE  MInv'
<1> DEFINE c == Segment(seg)[at + 1]
<1> DEFINE Data(g) ==
      \/ /\ c = "CR" /\ Take("s_part_data_almost_boundary")
         /\ got' = part_data(g, marked) /\ marked' = <<>>
      \/ /\ c # "CR" /\ Take("s_part_data")
         /\ got' = IF last THEN part_data(g, Append(marked, c)) ELSE g
         /\ marked' = IF last THEN <<>> ELSE Append(marked, c)
<1>1. /\ state \in {"s_part_data_start", "s_part_data"} /\ UNCHANGED index
      /\ Data(IF state = "s_part_data_start" THEN headers_complete ELSE got)
  BY Zenon DEF s_part_data
<1>2. Written /\ got \in Seq(PartRecord) /\ marked \in Seq(Byte)
  BY Zenon DEF MInv, MTypeOK, PartRecord
<1>3. CASE state = "s_part_data_start"
  <2>1. seg \in 1..Len(given) /\ at = 10 /\ PartsDone(seg - 1)
    BY <1>3 DEF MInv, AtHeader, InHeader
  <2>2. headers_complete \in Seq(PartRecord) /\ Partial(headers_complete, 0)
    BY <1>2, <2>1, Opened
  <2>3. marked = SubSeq(given[seg], 0 + 1, 0)
    BY <2>1, SubSeqEmpty DEF PartsDone
  <2>4. 0 \in 0..Len(given[seg]) /\ 0 \in 0..0 /\ at = 10 + 0
    BY <1>2, <2>1, InPart
  <2>5. Data(headers_complete)
    BY <1>1, <1>3
  <2> QED
    BY <1>1, <2>2, <2>3, <2>4, <2>5, DataStep
<1>4. CASE state = "s_part_data"
  <2>0. PICK k \in 0..Len(given[seg]) : \E j \in 0..k :
          at = 10 + k /\ Partial(got, j) /\ marked = SubSeq(given[seg], j + 1, k)
    BY <1>4 DEF MInv, AtData, InData
  <2>1. PICK j \in 0..k :
          at = 10 + k /\ Partial(got, j) /\ marked = SubSeq(given[seg], j + 1, k)
    BY <2>0
  <2>2. Data(got)
    BY <1>1, <1>4
  <2> QED
    BY <1>1, <1>2, <2>1, <2>2, DataStep, Zenon
<1> QED
  BY <1>1, <1>3, <1>4

(* The rest of a part: the byte is taken, or looked at again as data.      *)
LEMMA BackInData ==
  ASSUME MInv, NEW k \in 0..Len(given[seg]), NEW m \in 1..Len(Delimiter), at = 10 + k + m,
         marked = <<>>, Partial(got, k), Reread("s_part_data"), NEW x \in Seq(Byte),
         got' = part_data(got, x), k + m <= Len(given[seg]),
         SubSeq(given[seg], 1, k) \o x = SubSeq(given[seg], 1, k + m)
  PROVE  MInv'
<1> DEFINE n == k + m
<1>1. Written /\ got \in Seq(PartRecord) /\ seg \in 1..Len(given)
  BY Zenon DEF MInv, MTypeOK, PartRecord, Partial
<1>2. Len(given[seg]) \in Nat /\ Len(Delimiter) \in Nat
  BY <1>1, InPart, DelimiterBytes
<1>3. state' = "s_part_data" /\ UNCHANGED <<given, seg, at, index, marked>>
  BY Zenon DEF Reread
<1>4. got' \in Seq(PartRecord) /\ Partial(got', n)
  BY <1>1, HandedOn, Zenon
<1>5. n \in 0..Len(given[seg]) /\ at = 10 + n /\ n \in 0..n /\ n \in Int /\ n + 1 \in Int
      /\ n < n + 1
  BY <1>2
<1> HIDE DEF n
<1>6. Partial(got, n)'
  BY <1>3, <1>4, StaysPartial
<1>7. marked' = SubSeq(given[seg], n + 1, n)
  BY <1>3, <1>5, SubSeqEmpty
<1>8. InData'
  BY <1>3, <1>5, <1>6, <1>7 DEF InData
<1>9. Written'
  BY <1>1, <1>3, StaysWritten
<1>10. MTypeOK'
  <2>1. state' \in State
    BY <1>3 DEF State
  <2> QED
    BY <1>3, <1>4, <2>1 DEF MInv, MTypeOK, PartRecord
<1> QED
  BY <1>3, <1>8, <1>9, <1>10 DEF MInv, AtBoundary, AtHeader, AtData

(* s_part_data_almost_boundary, after a CR.                                 *)
LEMMA AlmostBoundaryStep ==
  ASSUME MInv, s_part_data_almost_boundary(Segment(seg)[at + 1])
  PROVE  MInv'
<1> DEFINE c == Segment(seg)[at + 1]
<1>0. /\ state = "s_part_data_almost_boundary"
      /\ \/ c = "LF" /\ Take("s_part_data_boundary") /\ index' = 0 /\ UNCHANGED <<marked, got>>
         \/ c # "LF" /\ Reread("s_part_data") /\ got' = part_data(got, <<"CR">>)
  BY Zenon DEF s_part_data_almost_boundary
<1>1. PICK k \in 0..Len(given[seg]) :
        /\ at = 10 + k + 1 /\ marked = <<>> /\ Partial(got, k)
        /\ \A j \in 1..1 : PartBytes(given[seg])[10 + k + j] = Delimiter[j]
  BY <1>0 DEF MInv, AtData, Begun
<1> DEFINE d == given[seg]
<1>2. Written /\ got \in Seq(PartRecord) /\ seg \in 1..Len(given)
  BY <1>1, Zenon DEF MInv, MTypeOK, PartRecord, Partial
<1>3. d \in Seq(Byte) /\ Len(d) \in Nat /\ Segment(seg) = PartBytes(d) /\ Len(given) \in Nat
  BY <1>2, InPart
<1>4. /\ Len(Boundary) \in Nat \ {0} /\ Len(Delimiter) = 2 + Len(Boundary)
      /\ Delimiter[1] = "CR" /\ Delimiter[2] = "LF"
  BY DelimiterBytes
<1>5. at + 1 = 10 + k + 2 /\ k \in Nat /\ 1 \in 1..Len(Delimiter)
  BY <1>1, <1>3, <1>4
<1>6. c = PartBytes(d)[10 + k + 2] /\ PartBytes(d)[10 + k + 1] = Delimiter[1]
  BY <1>1, <1>3, <1>5
<1> HIDE DEF c
<1>7. CASE c = "LF" /\ Take("s_part_data_boundary") /\ index' = 0 /\ UNCHANGED <<marked, got>>
  <2>1. /\ state' = "s_part_data_boundary" /\ given' = given /\ seg' = seg
        /\ at' = 10 + (k + 1) + 1 /\ Written'
    <3>1. (k + 1) + 1 < Len(given[seg]) + Len(Delimiter) /\ k + 1 \in Nat /\ at = 10 + (k + 1)
      <4>1. k <= Len(given[seg]) /\ Len(given[seg]) \in Nat /\ k \in Nat
        BY <1>3
      <4>2. 2 < Len(Delimiter) /\ Len(Delimiter) \in Nat
        BY <1>4
      <4>3. at = 10 + (k + 1)
        BY <1>1, <4>1
      <4>4. (k + 1) + 1 < Len(given[seg]) + Len(Delimiter)
        BY <4>1, <4>2
      <4> QED
        BY <4>1, <4>3, <4>4
    <3> QED
      BY <1>2, <1>7, <3>1, TakenInData
  <2>2. ASSUME NEW j \in 1..2 PROVE PartBytes(d)[10 + k + j] = Delimiter[j]
    <3>1. CASE j = 1
      BY <1>6, <3>1
    <3>2. CASE j = 2
      BY <1>4, <1>6, <1>7, <3>2, Zenon
    <3> QED
      BY <3>1, <3>2
  <2>3. Partial(got', k)
    BY <1>1, <1>7
  <2>4. Partial(got, k)'
    BY <2>1, <2>3, StaysPartial
  <2>5. Begun(2)'
    <3>1. at' = 10 + k + 2
      BY <1>5, <2>1
    <3>2. k \in 0..Len(given'[seg']) /\ marked' = <<>>
      BY <1>1, <1>7, <2>1
    <3>3. \A j \in 1..2 : PartBytes(given'[seg'])[10 + k + j] = Delimiter[j]
      BY <2>1, <2>2
    <3> QED
      BY <2>4, <3>1, <3>2, <3>3 DEF Begun
  <2>6. MTypeOK'
    <3>1. state' \in State /\ at' \in Nat /\ index' \in 0..Len(Boundary) + 1
      BY <1>4, <1>5, <1>7, <2>1 DEF State
    <3> QED
      BY <1>7, <2>1, <3>1 DEF MInv, MTypeOK
  <2>7. index' \in 0..Len(Boundary) - 1 /\ Begun(2 + index)'
    <3>1. index' \in 0..Len(Boundary) - 1 /\ 2 + index' = 2
      BY <1>4, <1>7
    <3> QED
      BY <2>5, <3>1, Zenon DEF Begun
  <2> QED
    BY <2>1, <2>6, <2>7 DEF MInv, AtBoundary, AtHeader, AtData
<1>8. CASE c # "LF" /\ Reread("s_part_data") /\ got' = part_data(got, <<"CR">>)
  <2>1. k # Len(d)
    <3>1. PartBytes(d)[10 + Len(d) + 2] = Delimiter[2]
      <4>1. \A j \in 1..Len(Delimiter) : PartBytes(d)[10 + Len(d) + j] = Delimiter[j]
        BY <1>3, BytesOfPart, Zenon
      <4>2. 2 \in 1..Len(Delimiter)
        BY <1>4
      <4> QED
        BY <4>1, <4>2, Zenon
    <3> QED
      BY <1>4, <1>6, <1>8, <3>1
  <2>2. k \in 0..Len(d) - 1 /\ k + 1 <= Len(d) /\ 0 \in 0..k
    BY <1>3, <2>1
  <2>3. d[k + 1] = "CR"
    <3>1. k + 1 \in 1..Len(d) /\ 10 + (k + 1) = 10 + k + 1
      BY <1>3, <2>2
    <3>2. PartBytes(d)[10 + (k + 1)] = d[k + 1]
      BY <1>3, <3>1, BytesOfPart, Zenon
    <3> QED
      BY <1>4, <1>6, <3>1, <3>2
  <2>4. SubSeq(d, 1, k) \o <<"CR">> = SubSeq(d, 1, k + 1)
    BY <1>3, <2>2, <2>3, NextByte, Zenon
  <2>5. <<"CR">> \in Seq(Byte)
    BY MultipartAssumption
  <2> QED
    BY <1>1, <1>5, <1>8, <2>2, <2>4, <2>5, BackInData, Zenon
<1> QED
  BY <1>0, <1>7, <1>8 DEF c

(* s_part_data_boundary: the data after all, or the end of the part.        *)
LEMMA BoundaryStep ==
  ASSUME MInv, s_part_data_boundary(Segment(seg)[at + 1])
  PROVE  MInv'
<1> DEFINE c == Segment(seg)[at + 1]
<1>0. /\ state = "s_part_data_boundary"
      /\ \/ /\ c # Boundary[index + 1] /\ Reread("s_part_data")
            /\ got' = part_data(got, SubSeq(Delimiter, 1, 2 + index))
         \/ /\ c = Boundary[index + 1] /\ index' = index + 1 /\ UNCHANGED marked
            /\ IF index' = Len(Boundary)
               THEN Take("s_part_data_almost_end") /\ got' = part_data_end
               ELSE Take(state) /\ UNCHANGED got
  BY Zenon DEF s_part_data_boundary
<1>1. PICK m \in {2 + index} : index \in 0..Len(Boundary) - 1 /\ Begun(m)
  BY <1>0 DEF MInv, AtData
<1>2. PICK k \in 0..Len(given[seg]) :
        /\ at = 10 + k + m /\ marked = <<>> /\ Partial(got, k)
        /\ \A j \in 1..m : PartBytes(given[seg])[10 + k + j] = Delimiter[j]
  BY <1>1, Zenon DEF Begun
<1> DEFINE d == given[seg]
<1>3. Written /\ got \in Seq(PartRecord) /\ seg \in 1..Len(given)
  BY <1>2, Zenon DEF MInv, MTypeOK, PartRecord, Partial
<1>4. d \in Seq(Byte) /\ Len(d) \in Nat /\ Segment(seg) = PartBytes(d) /\ Len(given) \in Nat
  BY <1>3, InPart
<1>5. Len(Boundary) \in Nat /\ Len(Delimiter) = 2 + Len(Boundary) /\ Delimiter \in Seq(Byte)
  BY DelimiterBytes
<1>6. /\ m = 2 + index /\ m \in 1..Len(Delimiter) /\ m + 1 \in 1..Len(Delimiter)
      /\ k \in Nat /\ k <= Len(d)
  BY <1>1, <1>4, <1>5
<1>7. c = PartBytes(d)[10 + k + (m + 1)]
  <2>1. at + 1 = 10 + k + (m + 1)
    <3>1. at = 10 + k + m
      BY <1>2, Zenon
    <3>2. k \in Nat /\ m \in Nat
      BY <1>5, <1>6
    <3> QED
      BY <3>1, <3>2
  <2> QED
    BY <1>4, <2>1
<1>8. Boundary[index + 1] = Delimiter[m + 1]
  <2>1. index + 1 \in 1..Len(Boundary) /\ 2 + (index + 1) = m + 1
    BY <1>1, <1>5, <1>6
  <2> QED
    BY <2>1, DelimiterBytes
<1> HIDE DEF c
<1>9. CASE c # Boundary[index + 1] /\ Reread("s_part_data")
           /\ got' = part_data(got, SubSeq(Delimiter, 1, 2 + index))
  <2>1. k # Len(d)
    <3>1. PartBytes(d)[10 + Len(d) + (m + 1)] = Delimiter[m + 1]
      BY <1>4, <1>6, BytesOfPart, Zenon
    <3> QED
      BY <1>7, <1>8, <1>9, <3>1
  <2>2. k + m <= Len(d) /\ \A j \in 1..m : d[k + j] = Delimiter[j]
    BY <1>2, <1>4, <1>6, <2>1, Border, Zenon
  <2>3. SubSeq(d, 1, k) \o SubSeq(Delimiter, 1, m) = SubSeq(d, 1, k + m)
    BY <1>4, <1>6, <2>2, NextMatch, Zenon
  <2>4. SubSeq(Delimiter, 1, m) \in Seq(Byte)
    <3>1. 1 \in 1..Len(Delimiter) + 1 /\ m \in 1 - 1..Len(Delimiter)
      BY <1>5, <1>6
    <3> QED
      BY <1>5, <3>1, Stretch
  <2>5. got' = part_data(got, SubSeq(Delimiter, 1, m))
    BY <1>6, <1>9
  <2> QED
    BY <1>2, <1>6, <1>9, <2>2, <2>3, <2>4, <2>5, BackInData, Zenon
<1>10. ASSUME c = Boundary[index + 1]
       PROVE  \A j \in 1..m + 1 : PartBytes(d)[10 + k + j] = Delimiter[j]
  <2> SUFFICES ASSUME NEW j \in 1..m + 1 PROVE PartBytes(d)[10 + k + j] = Delimiter[j]
    OBVIOUS
  <2>1. CASE j = m + 1
    BY <1>7, <1>8, <1>10, <2>1, Zenon
  <2>2. CASE j \in 1..m
    BY <1>2, <2>2
  <2> QED
    BY <1>6, <2>1, <2>2
<1>11. CASE c = Boundary[index + 1] /\ index' = index + 1 /\ UNCHANGED marked
            /\ index' = Len(Boundary) /\ Take("s_part_data_almost_end") /\ got' = part_data_end
  <2>1. m + 1 = Len(Delimiter)
    BY <1>1, <1>5, <1>6, <1>11
  <2>2. k = Len(d)
    <3>1. k = Len(d) \/ (k + Len(Delimiter) <= Len(d)
                          /\ \A j \in 1..Len(Delimiter) : d[k + j] = Delimiter[j])
      BY <1>4, <1>6, <1>10, <1>11, <2>1, Border, Zenon
    <3>2. Free(d)
      BY <1>3 DEF Written
    <3>3. k + Len(Delimiter) <= Len(d) => k \in 0..Len(d) - Len(Delimiter)
      BY <1>4, <1>5, <1>6
    <3> QED
      BY <3>1, <3>2, <3>3, Zenon DEF Free
  <2>3. state' = "s_part_data_almost_end" /\ given' = given /\ at' = 0 /\ seg' = seg + 1
    <3>1. at + 1 = 10 + Len(given[seg]) + Len(Delimiter) /\ at \in Nat
      <4> DEFINE l == Len(given[seg])
      <4> DEFINE n == Len(Delimiter)
      <4>1. at = 10 + l + m /\ m + 1 = n
        BY <1>2, <2>1, <2>2
      <4>2. l \in Nat /\ m \in Nat
        BY <1>4, <1>6
      <4> HIDE DEF l, n
      <4>3. at + 1 = 10 + l + n /\ at \in Nat
        BY <4>1, <4>2
      <4> QED
        BY <4>3 DEF l, n
    <3> QED
      BY <1>3, <1>11, <3>1, TakenInPart
  <2>4. Partial(got, Len(given[seg]))
    BY <1>2, <2>2
  <2>5. /\ got' \in Seq(PartRecord) /\ Len(got') = seg
        /\ \A i \in 1..seg : got'[i] = Whole(given[i])
    BY <1>2, <1>3, <1>11, <2>4, Closed
  <2>6. seg' - 1 = seg /\ seg' \in 2..Len(given) + 1
    BY <1>3, <1>4, <2>3
  <2>7. PartsDone(seg - 1)'
    BY <1>2, <1>11, <2>3, <2>5, <2>6 DEF PartsDone
  <2>8. AtBoundary'
    BY <2>3, <2>6, <2>7 DEF AtBoundary
  <2>9. Written'
    BY <1>3, <2>3, StaysWritten
  <2>10. MTypeOK'
    <3>1. state' \in State /\ at' \in Nat /\ seg' \in 0..Len(given') + 2
      BY <1>4, <2>3, <2>6 DEF State
    <3>2. index' \in 0..Len(Boundary) + 1 /\ marked' \in Seq(Byte)
      BY <1>2, <1>5, <1>11, EmptySeq
    <3> QED
      BY <2>5, <3>1, <3>2 DEF MTypeOK, PartRecord
  <2> QED
    BY <2>3, <2>8, <2>9, <2>10 DEF MInv, AtHeader, AtData
<1>12. CASE c = Boundary[index + 1] /\ index' = index + 1 /\ UNCHANGED marked
            /\ index' # Len(Boundary) /\ Take(state) /\ UNCHANGED got
  <2>1. index' \in 0..Len(Boundary) - 1 /\ 2 + index' = m + 1 /\ m + 1 < Len(Delimiter)
    BY <1>1, <1>5, <1>6, <1>12
  <2>2. /\ state' = "s_part_data_boundary" /\ given' = given /\ seg' = seg
        /\ at' = 10 + (k + m) + 1 /\ Written'
    <3>1. (k + m) + 1 < Len(given[seg]) + Len(Delimiter) /\ k + m \in Nat /\ at = 10 + (k + m)
      <4>1. at = 10 + k + m
        BY <1>2
      <4>2. Len(given[seg]) \in Nat /\ m \in Nat /\ k \in Nat /\ k <= Len(given[seg])
        BY <1>4, <1>6
      <4>3. Len(Delimiter) \in Nat
        BY <1>5
      <4>4. (k + m) + 1 < Len(given[seg]) + Len(Delimiter)
        BY <2>1, <4>2, <4>3
      <4> QED
        BY <4>1, <4>2, <4>4
    <3> QED
      BY <1>0, <1>3, <1>12, <3>1, TakenInData, Zenon
  <2>3. Partial(got, k)'
    <3>1. Partial(got', k)
      BY <1>2, <1>12
    <3> QED
      BY <2>2, <3>1, StaysPartial
  <2>4. Begun(m + 1)'
    <3>1. at' = 10 + k + (m + 1)
      BY <1>6, <2>2
    <3>2. k \in 0..Len(given'[seg']) /\ marked' = <<>>
      BY <1>2, <1>12, <2>2
    <3>3. \A j \in 1..m + 1 : PartBytes(given'[seg'])[10 + k + j] = Delimiter[j]
      BY <1>10, <1>12, <2>2
    <3> QED
      BY <2>3, <3>1, <3>2, <3>3 DEF Begun
  <2>5. index' \in 0..Len(Boundary) - 1 /\ Begun(2 + index)'
    BY <2>1, <2>4, Zenon DEF Begun
  <2>6. MTypeOK'
    <3>1. at' \in Nat /\ index' \in 0..Len(Boundary) + 1
      <4>1. m \in Nat /\ k \in Nat /\ Len(Boundary) \in Nat
        BY <1>5, <1>6
      <4>2. at' \in Nat
        BY <2>2, <4>1
      <4> QED
        BY <2>1, <4>1, <4>2
    <3>2. state' \in State
      BY <2>2 DEF State
    <3> QED
      BY <1>12, <2>2, <3>1, <3>2 DEF MInv, MTypeOK
  <2> QED
    BY <2>2, <2>5, <2>6 DEF MInv, AtBoundary, AtHeader, AtData
<1> QED
  BY <1>0, <1>9, <1>11, <1>12 DEF c

(* A step at a boundary leaves what was handed out.                        *)
LEMMA BoundaryGoes ==
  ASSUME MInv, NEW n, PartsDone(n), UNCHANGED <<given, marked, got>>,
         state' \in State, at' \in Nat, seg' \in 0..Len(given) + 2, index' \in 0..Len(Boundary) + 1
  PROVE  Written' /\ MTypeOK' /\ PartsDone(n)'
<1>1. Written'
  BY StaysWritten DEF MInv
<1>2. PartsDone(n)'
  BY Zenon DEF PartsDone
<1>3. MTypeOK'
  BY DEF MInv, MTypeOK
<1> QED
  BY <1>1, <1>2, <1>3

(* s_start_boundary: the first boundary and the end of its line.            *)
LEMMA StartStep ==
  ASSUME MInv, s_start_boundary(Segment(seg)[at + 1])
  PROVE  MInv'
<1> DEFINE c == Segment(seg)[at + 1]
<1>0. /\ state = "s_start_boundary"
      /\ IF c # (Boundary \o CRLF)[index + 1] THEN Returns
         ELSE IF index <= Len(Boundary)
         THEN index' = index + 1 /\ Take(state) /\ UNCHANGED <<marked, got>>
         ELSE index' = 0 /\ Take("s_header_field_start") /\ UNCHANGED <<marked, got>>
  BY Zenon DEF s_start_boundary
<1>1. /\ Written /\ PartsDone(0)
      /\ \/ seg = 0 /\ at \in 0..Len(Boundary) - 1 /\ index = at
         \/ seg = 1 /\ at \in {0, 1} /\ index = Len(Boundary) + at
  BY <1>0 DEF MInv, AtBoundary
<1>2. /\ Boundary \in Seq(Byte) /\ Len(Boundary) \in Nat \ {0}
      /\ Len(Delimiter) = 2 + Len(Boundary)
  BY DelimiterBytes
<1>3. Len(given) \in Nat \ {0}
  BY <1>1, LenProperties DEF Written
<1> DEFINE b == Boundary \o CRLF
<1>4. /\ \A i \in 1..Len(Boundary) : b[i] = Boundary[i]
      /\ b[Len(Boundary) + 1] = "CR" /\ b[Len(Boundary) + 2] = "LF"
  <2>1. CRLF \in Seq(Byte) /\ Len(CRLF) = 2 /\ CRLF[1] = "CR" /\ CRLF[2] = "LF"
    BY MultipartAssumption DEF CRLF
  <2>2. Joins(b, Boundary, CRLF)
    BY <1>2, <2>1, Joined, Zenon
  <2> HIDE DEF b
  <2>3. \A i \in 1..2 : b[Len(Boundary) + i] = CRLF[i]
    BY <2>1, <2>2 DEF Joins
  <2> QED
    BY <2>1, <2>2, <2>3 DEF Joins
<1> HIDE DEF b
<1>5. CASE seg = 0
  <2>1. Segment(seg) = Boundary
    BY <1>5 DEF Segment
  <2>2. at \in 0..Len(Boundary) - 1 /\ index = at /\ index <= Len(Boundary)
    BY <1>1, <1>2, <1>5
  <2>3. c = b[index + 1]
    BY <1>2, <1>4, <2>1, <2>2
  <2>4. index' = index + 1 /\ Take(state) /\ UNCHANGED <<marked, got>>
    BY <1>0, <2>2, <2>3 DEF b
  <2>5. /\ state' = state /\ given' = given
        /\ IF at + 1 < Len(Boundary) THEN at' = at + 1 /\ seg' = seg
           ELSE at' = 0 /\ seg' = seg + 1
    BY <2>1, <2>4, Zenon DEF Take
  <2>6. \/ seg' = 0 /\ at' \in 0..Len(Boundary) - 1 /\ index' = at'
        \/ seg' = 1 /\ at' \in {0, 1} /\ index' = Len(Boundary) + at'
    BY <1>2, <1>5, <2>2, <2>4, <2>5
  <2>7. /\ state' \in State /\ at' \in Nat
        /\ seg' \in 0..Len(given) + 2 /\ index' \in 0..Len(Boundary) + 1
    BY <1>0, <1>2, <1>3, <2>5, <2>6 DEF State
  <2>8. Written' /\ MTypeOK' /\ PartsDone(0)'
    BY <1>1, <2>4, <2>5, <2>7, BoundaryGoes
  <2>9. AtBoundary'
    BY <1>0, <2>5, <2>6, <2>8 DEF AtBoundary
  <2> QED
    BY <1>0, <2>5, <2>8, <2>9 DEF MInv, AtHeader, AtData
<1>6. CASE seg = 1
  <2>1. /\ seg \in 1..Len(given) /\ at \in {0, 1} /\ index = Len(Boundary) + at
        /\ at \in 0..9 /\ at \in Nat
    BY <1>1, <1>3, <1>6
  <2>2. InHeader({at}) /\ PartsDone(seg - 1) /\ seg - 1 = 0
    BY <1>1, <1>6, <2>1 DEF InHeader
  <2>3. c = Header[at + 1]
    BY <2>1, <2>2, HeaderByte, Zenon
  <2>4. c = b[index + 1]
    <3>1. CASE at = 0
      BY <1>2, <1>4, <2>1, <2>3, <3>1, HeaderBytes
    <3>2. CASE at = 1
      <4>1. c = "LF" /\ index + 1 = Len(Boundary) + 2
        BY <1>2, <2>1, <2>3, <3>2, HeaderBytes
      <4> QED
        BY <1>4, <4>1
    <3> QED
      BY <2>1, <3>1, <3>2
  <2>5. ASSUME NEW s, Take(s)
        PROVE  state' = s /\ given' = given /\ at' = at + 1 /\ seg' = seg
    <3>1. Len(given[seg]) \in Nat
      BY <1>1, <2>1, InPart
    <3>2. at + 1 < 10 + Len(given[seg]) + Len(Delimiter)
      <4>1. at <= 1 /\ Len(Delimiter) \in Nat
        BY <1>2, <2>1
      <4> QED
        BY <2>1, <3>1, <4>1
    <3> QED
      BY <1>1, <2>1, <2>5, <3>2, TakenInPart
  <2>6. CASE at = 0
    <3>1. index = Len(Boundary) /\ index <= Len(Boundary)
      BY <1>2, <2>1, <2>6
    <3>2. index' = index + 1 /\ Take(state) /\ UNCHANGED <<marked, got>>
      BY <1>0, <2>4, <3>1 DEF b
    <3>3. /\ state' = "s_start_boundary" /\ given' = given /\ at' = 1 /\ seg' = 1
          /\ index' = Len(Boundary) + 1
      BY <1>0, <1>6, <2>5, <2>6, <3>1, <3>2
    <3>4. /\ state' \in State /\ at' \in Nat
          /\ seg' \in 0..Len(given) + 2 /\ index' \in 0..Len(Boundary) + 1
      BY <1>2, <1>3, <3>3 DEF State
    <3>5. Written' /\ MTypeOK' /\ PartsDone(0)'
      BY <1>1, <3>2, <3>3, <3>4, BoundaryGoes
    <3>6. AtBoundary'
      BY <3>3, <3>5 DEF AtBoundary
    <3> QED
      BY <3>3, <3>5, <3>6 DEF MInv, AtHeader, AtData
  <2>7. CASE at = 1
    <3>1. ~(index <= Len(Boundary))
      BY <1>2, <2>1, <2>7
    <3>2. index' = 0 /\ Take("s_header_field_start") /\ UNCHANGED <<marked, got>>
      BY <1>0, <2>4, <3>1 DEF b
    <3>3. state' = "s_header_field_start" /\ given' = given /\ at' = 2 /\ seg' = 1
      BY <1>6, <2>5, <2>7, <3>2
    <3>4. /\ state' \in State /\ at' \in Nat
          /\ seg' \in 0..Len(given) + 2 /\ index' \in 0..Len(Boundary) + 1
      BY <1>2, <1>3, <3>2, <3>3 DEF State
    <3>5. Written' /\ MTypeOK' /\ PartsDone(0)'
      BY <1>1, <3>2, <3>3, <3>4, BoundaryGoes
    <3>6. InHeader({2, 8})'
      <4>1. seg' - 1 = 0 /\ seg' \in 1..Len(given')
        BY <1>3, <3>3
      <4>2. PartsDone(seg - 1)'
        BY <3>5, <4>1 DEF PartsDone
      <4> QED
        BY <3>3, <4>1, <4>2 DEF InHeader
    <3> QED
      BY <3>3, <3>5, <3>6 DEF MInv, AtBoundary, AtHeader, AtData
  <2> QED
    BY <2>1, <2>6, <2>7
<1> QED
  BY <1>1, <1>5, <1>6

(* After a boundary: another part, or the end of the body.                  *)
LEMMA EpilogueStep ==
  ASSUME MInv, ~Ended, s_part_end(Segment(seg)[at + 1])
  PROVE  MInv'
<1> DEFINE c == Segment(seg)[at + 1]
<1>0. \/ /\ state = "s_part_data_almost_end"
         /\ CASE c = "hyphen" -> Goes("s_part_data_final_hyphen")
              [] c = "CR" -> Goes("s_part_data_end")
              [] OTHER -> Returns
      \/ state = "s_part_data_final_hyphen" /\ IF c = "hyphen" THEN Goes("s_end") ELSE Returns
      \/ /\ state = "s_part_data_end"
         /\ IF c = "LF" THEN Goes("s_header_field_start") ELSE Returns
  BY Zenon DEF s_part_end
<1>1. Written /\ Len(given) \in Nat \ {0} /\ index \in 0..Len(Boundary) + 1
  BY LenProperties DEF MInv, MTypeOK, Written
<1>2. ASSUME NEW s, Goes(s)
      PROVE  Take(s) /\ state' = s /\ UNCHANGED <<given, index, marked, got>>
  BY <1>2, Zenon DEF Goes, Take
<1>3. ASSUME seg = Len(given) + 1, NEW s, Goes(s)
      PROVE  IF at + 1 < 2 THEN at' = at + 1 /\ seg' = seg ELSE at' = 0 /\ seg' = seg + 1
  <2>1. Segment(seg) = <<"hyphen", "hyphen">>
    BY <1>1, <1>3 DEF Segment
  <2>2. Len(Segment(seg)) = 2
    BY <2>1
  <2> QED
    BY <1>2, <1>3, <2>2, Zenon DEF Take
<1>4. ASSUME seg = Len(given) + 1, at \in {0, 1} PROVE c = "hyphen"
  <2>1. Segment(seg) = <<"hyphen", "hyphen">>
    BY <1>1, <1>4 DEF Segment
  <2> QED
    BY <1>4, <2>1
<1>5. CASE state = "s_part_data_almost_end"
  <2>1. seg \in 2..Len(given) + 1 /\ at = 0 /\ PartsDone(seg - 1)
    BY <1>5 DEF MInv, AtBoundary
  <2>2. CASE seg = Len(given) + 1
    <3>1. c = "hyphen" /\ Goes("s_part_data_final_hyphen")
      BY <1>0, <1>4, <1>5, <2>1, <2>2
    <3>2. /\ state' = "s_part_data_final_hyphen" /\ UNCHANGED <<given, index, marked, got>>
          /\ at' = 1 /\ seg' = seg
      BY <1>2, <1>3, <2>1, <2>2, <3>1
    <3>3. /\ state' \in State /\ at' \in Nat
          /\ seg' \in 0..Len(given) + 2 /\ index' \in 0..Len(Boundary) + 1
      BY <1>1, <2>2, <3>2 DEF State
    <3>4. Written' /\ MTypeOK' /\ PartsDone(Len(given))'
      <4>1. PartsDone(Len(given))
        BY <1>1, <2>1, <2>2
      <4>2. PICK n \in {Len(given)} : TRUE
        OBVIOUS
      <4>3. Written' /\ MTypeOK' /\ PartsDone(n)'
        BY <3>2, <3>3, <4>1, <4>2, BoundaryGoes
      <4> QED
        BY <3>2, <4>2, <4>3
    <3>5. PartsDone(seg - 1)'
      <4>1. seg' - 1 = Len(given')
        BY <1>1, <2>2, <3>2
      <4> QED
        BY <3>4, <4>1 DEF PartsDone
    <3> QED
      BY <2>2, <3>2, <3>4, <3>5 DEF MInv, AtBoundary, AtHeader, AtData
  <2>3. CASE seg \in 2..Len(given)
    <3>1. InHeader({0}) /\ 0 \in 0..9
      BY <1>1, <2>1, <2>3 DEF InHeader
    <3>2. c = "CR"
      BY <3>1, HeaderByte, HeaderBytes
    <3>3. Goes("s_part_data_end")
      BY <1>0, <1>5, <3>2
    <3>4. /\ Written' /\ MTypeOK' /\ state' = "s_part_data_end" /\ InHeader({0 + 1})'
          /\ UNCHANGED <<given, seg>>
      BY <3>1, <3>3, HeaderGoes DEF State
    <3>5. seg' \in 2..Len(given') /\ at' = 1 /\ PartsDone(seg - 1)'
      BY <2>3, <3>4 DEF InHeader
    <3> QED
      BY <3>4, <3>5 DEF MInv, AtBoundary, AtHeader, AtData
  <2> QED
    BY <1>1, <2>1, <2>2, <2>3
<1>6. CASE state = "s_part_data_final_hyphen"
  <2>1. seg = Len(given) + 1 /\ at = 1 /\ PartsDone(seg - 1)
    BY <1>6 DEF MInv, AtBoundary
  <2>2. c = "hyphen" /\ Goes("s_end")
    BY <1>0, <1>4, <1>6, <2>1
  <2>3. /\ state' = "s_end" /\ UNCHANGED <<given, index, marked, got>>
        /\ at' = 0 /\ seg' = seg + 1
    BY <1>2, <1>3, <2>1, <2>2
  <2>4. seg' = Len(given') + 2
    BY <1>1, <2>1, <2>3
  <2>5. /\ state' \in State /\ at' \in Nat
        /\ seg' \in 0..Len(given) + 2 /\ index' \in 0..Len(Boundary) + 1
    BY <1>1, <2>3, <2>4 DEF State
  <2>6. Written' /\ MTypeOK' /\ PartsDone(Len(given))'
    <3>1. PartsDone(Len(given))
      BY <1>1, <2>1
    <3>2. PICK n \in {Len(given)} : TRUE
      OBVIOUS
    <3>3. Written' /\ MTypeOK' /\ PartsDone(n)'
      BY <2>3, <2>5, <3>1, <3>2, BoundaryGoes
    <3> QED
      BY <2>3, <3>2, <3>3
  <2> QED
    BY <2>3, <2>4, <2>6 DEF MInv, AtBoundary, AtHeader, AtData
<1>7. CASE state = "s_part_data_end"
  <2>1. seg \in 2..Len(given) /\ at = 1 /\ PartsDone(seg - 1)
    BY <1>7 DEF MInv, AtBoundary
  <2>2. InHeader({1}) /\ 1 \in 0..9
    BY <1>1, <2>1 DEF InHeader
  <2>3. c = "LF"
    BY <2>2, HeaderByte, HeaderBytes
  <2>4. Goes("s_header_field_start")
    BY <1>0, <1>7, <2>3
  <2>5. Written' /\ MTypeOK' /\ state' = "s_header_field_start" /\ InHeader({1 + 1})'
    BY <2>2, <2>4, HeaderGoes DEF State
  <2>6. InHeader({2, 8})'
    BY <2>5 DEF InHeader
  <2> QED
    BY <2>5, <2>6 DEF MInv, AtBoundary, AtHeader, AtData
<1> QED
  BY <1>0, <1>5, <1>6, <1>7

-----------------------------------------------------------------------------
(* Where the parser starts.                                                *)
LEMMA MInitInv == MInit => MInv
<1> SUFFICES ASSUME MInit PROVE MInv
  OBVIOUS
<1>1. PICK n \in 1..MaxParts : given \in [1..n -> DataUpTo(MaxData \div n)]
  BY DEF MInit
<1>2. /\ seg = 0 /\ at = 0 /\ state = "s_start_boundary" /\ index = 0
      /\ marked = <<>> /\ got = <<>>
  BY DEF MInit
<1>3. n \in Nat /\ n > 0
  BY MultipartAssumption
<1>4. \A d \in DataUpTo(MaxData \div n) : d \in Seq(Byte) /\ Free(d)
  BY SeqDef DEF DataUpTo
<1>5. given \in Seq(Seq(Byte)) /\ Len(given) = n /\ \A i \in 1..n : Free(given[i])
  <2>1. \A i \in 1..n : given[i] \in Seq(Byte) /\ Free(given[i])
    BY <1>1, <1>4
  <2>2. given \in [1..n -> Seq(Byte)]
    BY <1>1, <2>1
  <2>3. given \in Seq(Seq(Byte))
    BY <1>3, <2>2, SeqDef
  <2>4. Len(given) = n
    BY <1>3, <2>2, <2>3
  <2> QED
    BY <2>1, <2>3, <2>4
<1>6. Written
  BY <1>3, <1>5 DEF Written
<1>7. Len(Boundary) \in Nat \ {0}
  BY DelimiterBytes
<1>8. MTypeOK
  BY <1>2, <1>3, <1>5, <1>7 DEF MTypeOK, State
<1>9. PartsDone(0)
  BY <1>2 DEF PartsDone
<1>10. AtBoundary
  BY <1>2, <1>7, <1>9 DEF AtBoundary
<1> QED
  BY <1>2, <1>6, <1>8, <1>10 DEF MInv, AtHeader, AtData

(* Every step keeps the invariant.                                          *)
LEMMA MNextInv == MInv /\ [MNext]_mpvars => MInv'
<1> SUFFICES ASSUME MInv, [MNext]_mpvars PROVE MInv'
  OBVIOUS
<1>1. CASE UNCHANGED mpvars
  <2>1. UNCHANGED given /\ UNCHANGED seg /\ UNCHANGED at /\ UNCHANGED state
        /\ UNCHANGED index /\ UNCHANGED marked /\ UNCHANGED got
    BY <1>1 DEF mpvars
  <2>2. Written' /\ MTypeOK'
    BY <2>1 DEF MInv, Written, MTypeOK
  <2>4. AtBoundary'
    <3>1. /\ PartsDone(seg - 1)' = PartsDone(seg - 1) /\ PartsDone(0)' = PartsDone(0)
          /\ PartsDone(Len(given))' = PartsDone(Len(given))
      BY <2>1 DEF PartsDone
    <3> QED
      BY <2>1, <3>1 DEF MInv, AtBoundary
  <2>5. AtHeader'
    <3>1. ASSUME NEW P PROVE InHeader(P)' = InHeader(P)
      BY <2>1, Zenon DEF InHeader, PartsDone
    <3> QED
      BY <2>1, <3>1, Zenon DEF MInv, AtHeader
  <2>6. AtData'
    <3>1. \A g, k : Partial(g, k)' = Partial(g, k)
      BY <2>1, Zenon DEF Partial
    <3> QED
      BY <2>1, <3>1, Zenon DEF MInv, AtData, InData, Begun, Partial
  <2> QED
    BY <2>2, <2>4, <2>5, <2>6 DEF MInv
<1>2. CASE MNext
  <2> DEFINE c == Segment(seg)[at + 1]
  <2>1. /\ ~Ended
        /\ \/ s_start_boundary(c) \/ s_headers(c) \/ \E last \in BOOLEAN : s_part_data(c, last)
           \/ s_part_data_almost_boundary(c) \/ s_part_data_boundary(c) \/ s_part_end(c)
    BY <1>2, Zenon DEF MNext, multipart_parser_execute
  <2> QED
    BY <2>1, StartStep, HeadersStep, PartDataStep, AlmostBoundaryStep, BoundaryStep, EpilogueStep, Zenon
<1> QED
  BY <1>1, <1>2

(* The invariant says more than the property.                               *)
LEMMA MInvRight == MInv => MultipartRight
<1> SUFFICES ASSUME MInv PROVE MultipartRight
  OBVIOUS
<1>1. /\ Written /\ MTypeOK /\ Len(given) \in Nat \ {0} /\ got \in Seq(PartRecord)
      /\ Len(got) \in Nat /\ DOMAIN got = 1..Len(got)
  BY LenProperties DEF MInv, Written, MTypeOK, PartRecord
<1>2. \A i \in 1..Len(given) : given[i] \in Seq(Byte)
  BY <1>1, ElementOfSeq DEF Written
<1> DEFINE Begins(i) == \E k \in 0..Len(given[i]) : got[i].data = SubSeq(given[i], 1, k)
<1>3. ASSUME NEW i \in 1..Len(given), got[i] = Whole(given[i])
      PROVE  got[i].data = given[i] /\ got[i].end /\ Begins(i)
  <2> DEFINE d == given[i]
  <2>1. got[i] = [data |-> d, end |-> TRUE]
    BY <1>3 DEF Whole
  <2>2. d \in Seq(Byte) /\ Len(d) \in 0..Len(d)
    BY <1>2, LenProperties
  <2>3. SubSeq(d, 1, Len(d)) = d
    BY <2>2, SubSeqFull
  <2> QED
    BY <2>1, <2>2, <2>3
<1>4. ASSUME NEW n \in 0..Len(given), PartsDone(n), Ended => state = "s_end" /\ n = Len(given)
      PROVE  MultipartRight
  <2>1. Len(got) = n /\ \A i \in 1..n : i \in 1..Len(given) /\ got[i] = Whole(given[i])
    BY <1>1, <1>4 DEF PartsDone
  <2>2. \A i \in 1..n : got[i].data = given[i] /\ got[i].end /\ Begins(i)
    BY <1>3, <2>1
  <2> HIDE DEF Begins
  <2>3. \A i \in DOMAIN got : Begins(i) /\ (got[i].end => got[i].data = given[i])
    BY <1>1, <2>1, <2>2
  <2>4. \A i \in 1..Len(got) - 1 : got[i].end
    BY <1>1, <2>1, <2>2
  <2>5. Ended => state = "s_end" /\ Len(got) = Len(given) /\ got[Len(got)].end
    BY <1>1, <1>4, <2>1, <2>2
  <2> QED
    BY <1>1, <2>3, <2>4, <2>5, Zenon DEF MultipartRight, Begins
<1>8. ASSUME NEW k \in 0..Len(given[seg]), Partial(got, k), ~Ended
      PROVE  MultipartRight
  <2>1. /\ seg \in 1..Len(given) /\ Len(got) = seg
        /\ \A i \in 1..seg - 1 : got[i] = Whole(given[i])
        /\ got[seg] = [data |-> SubSeq(given[seg], 1, k), end |-> FALSE]
    BY <1>8, Zenon DEF Partial
  <2>2. ASSUME NEW i \in 1..seg - 1 PROVE got[i].data = given[i] /\ got[i].end /\ Begins(i)
    <3>1. i \in 1..Len(given) /\ got[i] = Whole(given[i])
      BY <1>1, <2>1
    <3> QED
      BY <1>3, <3>1, Zenon
  <2>3. Begins(seg) /\ got[seg].end = FALSE
    <3> DEFINE x == SubSeq(given[seg], 1, k)
    <3>1. got[seg] = [data |-> x, end |-> FALSE]
      BY <2>1
    <3> HIDE DEF x
    <3>2. got[seg].data = x /\ got[seg].end = FALSE
      BY <3>1
    <3> QED
      BY <3>2 DEF x
  <2> HIDE DEF Begins
  <2>4. \A i \in DOMAIN got : Begins(i) /\ (got[i].end => got[i].data = given[i])
    <3> SUFFICES ASSUME NEW i \in 1..seg
                 PROVE  Begins(i) /\ (got[i].end => got[i].data = given[i])
      BY <1>1, <2>1
    <3>1. CASE i = seg
      BY <2>3, <3>1
    <3>2. CASE i \in 1..seg - 1
      BY <2>2, <3>2
    <3> QED
      BY <1>1, <2>1, <3>1, <3>2
  <2>5. \A i \in 1..Len(got) - 1 : got[i].end
    BY <2>1, <2>2
  <2> QED
    BY <1>1, <1>8, <2>4, <2>5, Zenon DEF MultipartRight, Begins
<1>5. CASE state \in {"s_start_boundary", "s_part_data_almost_end", "s_part_data_end",
                     "s_part_data_final_hyphen", "s_end"}
  <2>1. PICK n \in 0..Len(given) : PartsDone(n) /\ (Ended => state = "s_end" /\ n = Len(given))
    <3>1. CASE state = "s_start_boundary"
      BY <1>1, <3>1 DEF MInv, AtBoundary, Ended
    <3>2. CASE state \in {"s_part_data_almost_end", "s_part_data_end", "s_part_data_final_hyphen"}
      <4>1. seg \in 2..Len(given) + 1 /\ PartsDone(seg - 1)
        BY <1>1, <3>2 DEF MInv, AtBoundary
      <4>2. seg - 1 \in 0..Len(given) /\ ~Ended
        BY <1>1, <4>1 DEF Ended
      <4> QED
        BY <4>1, <4>2
    <3>3. CASE state = "s_end"
      BY <1>1, <3>3 DEF MInv, AtBoundary
    <3> QED
      BY <1>5, <3>1, <3>2, <3>3
  <2> QED
    BY <1>4, <2>1
<1>6. CASE state \in HeaderState
  <2>1. seg \in 1..Len(given) /\ PartsDone(seg - 1)
    BY <1>6 DEF HeaderState, MInv, AtHeader, InHeader
  <2>2. seg - 1 \in 0..Len(given) /\ ~Ended
    BY <1>1, <2>1 DEF Ended
  <2> QED
    BY <1>4, <2>1, <2>2
<1>7. CASE state \in {"s_part_data", "s_part_data_almost_boundary", "s_part_data_boundary"}
  <2>1. PICK k \in 0..Len(given[seg]) : Partial(got, k)
    <3>1. CASE state = "s_part_data"
      <4>1. PICK k \in 0..Len(given[seg]) : \E j \in 0..k : Partial(got, j)
        BY <3>1 DEF MInv, AtData, InData
      <4>2. PICK j \in 0..k : Partial(got, j)
        BY <4>1
      <4>3. Len(given[seg]) \in Nat
        BY <1>2, <4>2, LenProperties DEF Partial
      <4>4. j \in 0..Len(given[seg])
        BY <4>3
      <4> QED
        BY <4>2, <4>4
    <3>2. CASE state \in {"s_part_data_almost_boundary", "s_part_data_boundary"}
      BY <3>2 DEF MInv, AtData, Begun
    <3> QED
      BY <1>7, <3>1, <3>2
  <2>2. ~Ended
    BY <1>1, <2>1 DEF Ended, Partial
  <2> QED
    BY <1>8, <2>1, <2>2
<1> QED
  BY <1>1, <1>5, <1>6, <1>7 DEF MTypeOK, State, HeaderState

(* multipart_parser_execute, for every boundary without a CR, every number of
   parts and every data that does not hold the delimiter, however the body is
   cut into packages: on_part_data is given each part's data exactly, and the
   parser comes to the end of the body in s_end. *)
THEOREM MultipartCorrect == MSpec => []MultipartRight
<1>1. MInit => MInv
  BY MInitInv
<1>2. MInv /\ [MNext]_mpvars => MInv'
  BY MNextInv
<1>3. MInv => MultipartRight
  BY MInvRight
<1> QED
  BY <1>1, <1>2, <1>3, PTL DEF MSpec

-----------------------------------------------------------------------------
(* The downloader.                                                         *)

Starting == {"setup", "start"}
Early == Starting \cup {"cache", "cached"}
Closing == {"close", "wait", "done"}

(* No block was refused while the cache file was read and no error page was
   taken for the file. *)
Clean == "cache" \notin refused /\ (delivered # <<>> => delivered[1] # Page)

Numbered(s) == \A i \in 1..Len(s) : s[i] = i

(* What the installer has is as long as the counters say. *)
Position ==
  /\ Numbered(delivered)
  /\ pc \in Early \cup {"try"} => Len(delivered) = total
  /\ pc \in {"perform", "end"} => Len(delivered) = pos
  /\ pc \in Closing /\ result = "ok" => delivered = File

Attempts ==
  /\ pc \in Starting => opens < 4
  /\ pc \in Early => retries <= MaxRetries /\ try_count = 0
  /\ pc = "perform" => try_count <= retries /\ total <= pos
  /\ pc = "end" /\ http = "ok" => pos = Blocks

Verdict ==
  /\ final # "none" => pc = "done"
  /\ final = "success" => result = "ok"
  /\ "net" \in refused => pc \in Closing /\ result # "ok"
  /\ pc \in Starting \cup {"cache"} => refused = {}

IInv ==
  /\ TypeOK
  /\ pc \in Starting => total = 0 /\ delivered = <<>>
  /\ Attempts
  /\ Verdict
  /\ Clean => Position

-----------------------------------------------------------------------------
(* A numbered sequence of the length of the file is the file. *)
LEMMA NumberedSeq ==
  ASSUME NEW s \in Seq(0..Blocks), Numbered(s)
  PROVE  /\ s = [i \in 1..Len(s) |-> i]
         /\ Len(s) = Blocks => s = File
BY DEF Numbered, File

(* One more block in its place keeps the sequence numbered. *)
LEMMA NumberedAppend ==
  ASSUME NEW s \in Seq(0..Blocks), NEW b \in 0..Blocks
  PROVE  /\ Append(s, b) \in Seq(0..Blocks)
         /\ Len(Append(s, b)) = Len(s) + 1
         /\ Append(s, b) # <<>>
         /\ s # <<>> => Append(s, b)[1] = s[1]
         /\ s = <<>> => Append(s, b)[1] = b
         /\ Numbered(s) /\ b = Len(s) + 1 => Numbered(Append(s, b))
BY DEF Numbered

-----------------------------------------------------------------------------
LEMMA InitInv == Init => IInv
<1> SUFFICES ASSUME Init PROVE IInv
  OBVIOUS
<1>1. TypeOK
  <2>1. try_count \in 0..(TryMod - 1) /\ retries \in 0..(MaxRetries + 1)
    BY ConstantAssumption DEF Init
  <2>2. delivered \in Seq(0..Blocks) /\ refused \subseteq {"cache", "net"}
    BY DEF Init
  <2>3. total \in 0..Blocks /\ pos \in 0..Blocks /\ cached \in 0..Blocks /\ opens \in 0..4
    BY ConstantAssumption DEF Init
  <2> QED
    BY <2>1, <2>2, <2>3, Zenon DEF Init, TypeOK
<1>2. Attempts
  BY ConstantAssumption DEF Init, Attempts, Early, Starting
<1>3. Verdict
  BY DEF Init, Verdict
<1>4. Position
  BY DEF Init, Position, Numbered, Closing
<1> QED
  BY <1>1, <1>2, <1>3, <1>4 DEF Init, IInv

-----------------------------------------------------------------------------
(* What the callback does to the sequence *)
LEMMA Callback ==
  ASSUME IInv, NEW b \in 0..Blocks, NEW outcome \in Outcome,
         channel_callback_ipc(b, outcome)
  PROVE  /\ delivered' \in Seq(0..Blocks) /\ broken' \in BOOLEAN
         /\ outcome = "failed" => delivered' = delivered
         /\ outcome # "failed" => delivered' = Append(delivered, b)
BY NumberedAppend, Zenon DEF IInv, TypeOK, channel_callback_ipc, Outcome

LEMMA CacheStep ==
  ASSUME IInv, NEW outcome \in Outcome, resume_cache_file(outcome)
  PROVE  IInv'
<1> USE ConstantAssumption
<1>0. total + 1 \in 0..Blocks /\ total \in Nat
  BY DEF IInv, TypeOK, resume_cache_file
<1>1. /\ delivered' \in Seq(0..Blocks) /\ broken' \in BOOLEAN
      /\ outcome = "failed" => delivered' = delivered
      /\ outcome # "failed" => delivered' = Append(delivered, total + 1)
  BY <1>0, Callback DEF resume_cache_file
<1>2. TypeOK'
  BY <1>0, <1>1 DEF IInv, TypeOK, resume_cache_file, Go
<1>3. Attempts' /\ Verdict'
  BY DEF IInv, TypeOK, Attempts, Verdict, Outcome, resume_cache_file, Go, Early, Starting, Closing
<1>4. (Clean => Position)'
  <2> SUFFICES ASSUME Clean' PROVE Position'
    OBVIOUS
  <2>1. outcome # "refused"
    BY DEF Clean, resume_cache_file
  <2>2. delivered \in Seq(0..Blocks) /\ pc = "cache" /\ pc' \in {"cache", "cached"}
    BY DEF IInv, TypeOK, resume_cache_file, Go
  <2>3. Clean
    <3>1. refused = {}
      BY <2>2 DEF IInv, Verdict
    <3>2. delivered # <<>> => delivered'[1] = delivered[1] /\ delivered' # <<>>
      <4>1. Append(delivered, total + 1) # <<>>
        BY <1>0, <2>2, NumberedAppend
      <4>2. delivered # <<>> => Append(delivered, total + 1)[1] = delivered[1]
        BY <1>0, <2>2, NumberedAppend
      <4>3. delivered' \in {delivered, Append(delivered, total + 1)}
        BY <1>1
      <4> QED
        BY <4>1, <4>2, <4>3
    <3> QED
      BY <3>1, <3>2 DEF Clean
  <2>4. Numbered(delivered) /\ Len(delivered) = total
    BY <2>2, <2>3 DEF IInv, Position, Early
  <2>5. CASE outcome = "failed"
    BY <1>1, <2>2, <2>4, <2>5 DEF Position, resume_cache_file, Closing
  <2>6. CASE outcome = "ok"
    <3>1. Numbered(Append(delivered, total + 1)) /\ Len(Append(delivered, total + 1)) = total + 1
      BY <1>0, <2>2, <2>4, NumberedAppend
    <3> QED
      BY <1>1, <2>2, <2>6, <3>1, Zenon DEF Position, resume_cache_file, Closing
  <2> QED
    BY <2>1, <2>5, <2>6 DEF Outcome
<1> QED
  BY <1>2, <1>3, <1>4 DEF IInv, resume_cache_file, Go, Starting

LEMMA UnlinkStep == ASSUME IInv, unlink_cache_file PROVE IInv'
<1> USE ConstantAssumption, NoWrapAssumption
<1>0. pc \in Early /\ pc' = "try"
  BY DEF unlink_cache_file, Go, Early
<1>1. TypeOK'
  <2>1. retries' \in 0..(MaxRetries + 1) /\ try_count' \in 0..(TryMod - 1)
    BY <1>0 DEF IInv, TypeOK, Attempts, unlink_cache_file
  <2> QED
    BY <2>1 DEF IInv, TypeOK, unlink_cache_file, Go, sink
<1>2. Attempts' /\ Verdict'
  BY <1>0 DEF IInv, TypeOK, Attempts, Verdict, unlink_cache_file, Go, sink, Early, Starting, Closing
<1>3. (Clean => Position)'
  BY <1>0 DEF IInv, Clean, Position, unlink_cache_file, Go, sink, Closing
<1> QED
  BY <1>0, <1>1, <1>2, <1>3 DEF IInv, Starting

LEMMA TryStep == ASSUME IInv, try PROVE IInv'
<1>0. pc = "try" /\ pc' \in {"perform", "close"} /\ UNCHANGED <<retries, try_count, total, sink>>
  BY DEF try, Go, Fail
<1>1. TypeOK'
  BY DEF IInv, TypeOK, try, Go, Fail, sink
<1>2. Attempts'
  BY <1>0 DEF IInv, TypeOK, Attempts, try, Go, Fail, Early, Starting
<1>3. Verdict'
  BY <1>0 DEF IInv, TypeOK, Verdict, try, Go, Fail, sink, Starting, Closing
<1>4. (Clean => Position)'
  BY <1>0 DEF IInv, Clean, Position, try, Go, Fail, sink, Early, Starting, Closing
<1> QED
  BY <1>0, <1>1, <1>2, <1>3, <1>4 DEF IInv, Starting

LEMMA ReceiveStep ==
  ASSUME IInv, NEW outcome \in Outcome, receive(outcome)
  PROVE  IInv'
<1> USE ConstantAssumption
<1>0. pos + 1 \in 0..Blocks /\ pos \in Nat /\ pc = "perform" /\ pc' \in {"perform", "close"}
  BY DEF IInv, TypeOK, receive, Go, Fail
<1>1. /\ delivered' \in Seq(0..Blocks) /\ broken' \in BOOLEAN
      /\ outcome = "failed" => delivered' = delivered
      /\ outcome # "failed" => delivered' = Append(delivered, pos + 1)
  BY <1>0, Callback DEF receive
<1>2. TypeOK'
  BY <1>0, <1>1 DEF IInv, TypeOK, receive, Go, Fail
<1>3. Attempts' /\ Verdict'
  BY <1>0 DEF IInv, TypeOK, Attempts, Verdict, Outcome, receive, Go, Fail, Early, Starting, Closing
<1>4. (Clean => Position)'
  <2> SUFFICES ASSUME Clean' PROVE Position'
    OBVIOUS
  <2>1. delivered \in Seq(0..Blocks)
    BY DEF IInv, TypeOK
  <2>2. Clean
    <3>1. "cache" \notin refused
      BY DEF Clean, receive
    <3>2. delivered # <<>> => delivered'[1] = delivered[1] /\ delivered' # <<>>
      <4>1. Append(delivered, pos + 1) # <<>>
        BY <1>0, <2>1, NumberedAppend
      <4>2. delivered # <<>> => Append(delivered, pos + 1)[1] = delivered[1]
        BY <1>0, <2>1, NumberedAppend
      <4>3. delivered' \in {delivered, Append(delivered, pos + 1)}
        BY <1>1
      <4> QED
        BY <4>1, <4>2, <4>3
    <3> QED
      BY <3>1, <3>2 DEF Clean
  <2>3. Numbered(delivered) /\ Len(delivered) = pos
    BY <1>0, <2>2 DEF IInv, Position
  <2>4. Numbered(Append(delivered, pos + 1)) /\ Len(Append(delivered, pos + 1)) = pos + 1
    BY <1>0, <2>1, <2>3, NumberedAppend
  <2>5. Numbered(delivered')
    BY <1>1, <2>3, <2>4, Zenon DEF Outcome
  <2>6. CASE outcome = "ok"
    BY <1>1, <2>4, <2>5, <2>6 DEF Position, receive, Go, Early, Starting, Closing
  <2>7. CASE outcome # "ok"
    BY <2>5, <2>7 DEF Position, receive, Fail, Early, Starting, Closing
  <2> QED
    BY <2>6, <2>7
<1> QED
  BY <1>0, <1>2, <1>3, <1>4 DEF IInv, Starting

LEMMA PageStep ==
  ASSUME IInv, NEW outcome \in Outcome, receive_page(outcome)
  PROVE  IInv'
<1> USE ConstantAssumption
<1>0. Page \in 0..Blocks /\ pos = 0 /\ pc = "perform" /\ pc' \in {"perform", "close"}
  BY DEF Page, receive_page, Go, Fail
<1>1. /\ delivered' \in Seq(0..Blocks) /\ broken' \in BOOLEAN
      /\ outcome = "failed" => delivered' = delivered
      /\ outcome # "failed" => delivered' = Append(delivered, Page)
  BY <1>0, Callback DEF receive_page
<1>2. TypeOK'
  BY <1>0, <1>1 DEF IInv, TypeOK, receive_page, Go, Fail
<1>3. Attempts' /\ Verdict'
  BY <1>0 DEF IInv, TypeOK, Attempts, Verdict, Outcome, receive_page, Go, Fail, Early, Starting, Closing
<1>4. (Clean => Position)'
  <2> SUFFICES ASSUME Clean' PROVE Position'
    OBVIOUS
  <2>1. delivered \in Seq(0..Blocks)
    BY DEF IInv, TypeOK
  <2>2. Clean
    <3>1. "cache" \notin refused
      BY DEF Clean, receive_page
    <3>2. delivered # <<>> => delivered'[1] = delivered[1] /\ delivered' # <<>>
      <4>1. Append(delivered, Page) # <<>>
        BY <1>0, <2>1, NumberedAppend
      <4>2. delivered # <<>> => Append(delivered, Page)[1] = delivered[1]
        BY <1>0, <2>1, NumberedAppend
      <4>3. delivered' \in {delivered, Append(delivered, Page)}
        BY <1>1
      <4> QED
        BY <4>1, <4>2, <4>3
    <3> QED
      BY <3>1, <3>2 DEF Clean
  <2>3. Numbered(delivered) /\ delivered = <<>>
    BY <1>0, <2>1, <2>2, EmptySeq DEF IInv, Position
  <2>4. outcome = "failed"
    BY <1>0, <1>1, <2>1, <2>3, NumberedAppend DEF Clean
  <2> QED
    BY <1>1, <2>3, <2>4 DEF Position, receive_page, Fail, Early, Starting, Closing
<1> QED
  BY <1>0, <1>2, <1>3, <1>4 DEF IInv, Starting

LEMMA CountStep == ASSUME IInv, count PROVE IInv'
<1> USE ConstantAssumption, NoWrapAssumption
<1>0. pc = "perform" /\ pc' \in {"try", "end"} /\ total' = pos
  BY DEF count, Go, IInv, TypeOK
<1>1. try_count' \in 0..(TryMod - 1) /\ try_count' # 0
  BY <1>0 DEF IInv, TypeOK, Attempts, count
<1>2. TypeOK'
  BY <1>0, <1>1 DEF IInv, TypeOK, count, Go, sink
<1>3. Attempts'
  BY <1>0, <1>1 DEF IInv, TypeOK, Attempts, count, Go, Complete, Early, Starting
<1>4. Verdict'
  BY <1>0 DEF IInv, Verdict, count, Go, sink, Starting, Closing
<1>5. (Clean => Position)'
  BY <1>0 DEF IInv, Clean, Position, count, Go, sink, Early, Starting, Closing
<1> QED
  BY <1>0, <1>2, <1>3, <1>4, <1>5 DEF IInv, Starting

(* The other actions do not touch what was delivered. *)
LEMMA EndStep == ASSUME IInv, channel_map_http_code PROVE IInv'
<1>0. /\ pc = "end" /\ pc' = "close" /\ result' \in {"ok", "EBADMSG"}
      /\ result' = "ok" => http = "ok"
      /\ UNCHANGED <<opens, transfer, sink, inst, final>>
  BY DEF channel_map_http_code, Fail
<1>1. TypeOK'
  BY <1>0 DEF IInv, TypeOK, transfer, sink
<1>2. Attempts' /\ Verdict'
  BY <1>0 DEF IInv, Attempts, Verdict, transfer, sink, Early, Starting, Closing
<1>3. (Clean => Position)'
  <2> SUFFICES ASSUME Clean' PROVE Position'
    OBVIOUS
  <2>1. Numbered(delivered) /\ Len(delivered) = pos /\ delivered \in Seq(0..Blocks)
    BY <1>0 DEF IInv, TypeOK, Clean, Position, sink
  <2>2. result' = "ok" => delivered = File
    BY <1>0, <2>1, NumberedSeq DEF IInv, Attempts
  <2> QED
    BY <1>0, <2>1, <2>2 DEF Position, sink, Early, Starting
<1> QED
  BY <1>0, <1>1, <1>2, <1>3 DEF IInv, Starting

LEMMA QuietStep ==
  ASSUME IInv, setup \/ ipc_inst_start_ext \/ curl_error \/ close_file \/ download_from_url
  PROVE  IInv'
<1>1. CASE setup
  BY <1>1 DEF IInv, TypeOK, Attempts, Verdict, Clean, Position, setup, channel_set_options,
              Go, Fail, transfer, sink, Early, Starting, Closing
<1>2. CASE ipc_inst_start_ext
  <2>1. TypeOK'
    BY <1>2 DEF IInv, TypeOK, Attempts, Starting, ipc_inst_start_ext, Go, Fail, transfer, sink
  <2>2. pc' \in {"start", "cache", "close"} /\ (pc' = "close" => result' = "EIO")
        /\ pc = "start" /\ (pc' = "start" => opens' < 4) /\ UNCHANGED <<transfer, sink, final>>
    BY <1>2 DEF ipc_inst_start_ext, Go, Fail
  <2>3. Attempts' /\ Verdict'
    BY <2>2 DEF IInv, Attempts, Verdict, transfer, sink, Early, Starting, Closing
  <2>4. (Clean => Position)'
    BY <2>2 DEF IInv, Clean, Position, transfer, sink, Early, Starting, Closing
  <2> QED
    BY <2>1, <2>2, <2>3, <2>4 DEF IInv, transfer, sink, Starting
<1>3. CASE curl_error
  BY <1>3 DEF IInv, TypeOK, Attempts, Verdict, Clean, Position, curl_error,
              Fail, transfer, sink, Early, Starting, Closing
<1>4. CASE close_file
  BY <1>4 DEF IInv, TypeOK, Attempts, Verdict, Clean, Position, close_file,
              Go, transfer, sink, Early, Starting, Closing
<1>5. CASE download_from_url
  <2>1. /\ pc = "wait" /\ pc' = "done" /\ final' \in {"success", "failure"}
        /\ final' = "success" => result = "ok"
        /\ UNCHANGED <<result, opens, transfer, sink, inst>>
    BY <1>5 DEF download_from_url, Go
  <2>2. TypeOK'
    BY <2>1 DEF IInv, TypeOK, transfer, sink
  <2> QED
    BY <2>1, <2>2 DEF IInv, Attempts, Verdict, Clean, Position, transfer, sink,
                      Early, Starting, Closing
<1> QED
  BY <1>1, <1>2, <1>3, <1>4, <1>5

LEMMA InstallerStep ==
  ASSUME IInv, InstallerFails \/ InstallerSucceeds \/ UNCHANGED vars
  PROVE  IInv'
<1>1. /\ inst' \in {"idle", "stream", "ok", "failed"} /\ broken' \in BOOLEAN
      /\ UNCHANGED <<pc, result, opens, transfer, delivered, refused, final>>
  BY Zenon DEF InstallerFails, InstallerSucceeds, vars, sink, IInv, TypeOK
<1>2. TypeOK'
  BY <1>1 DEF IInv, TypeOK, transfer
<1> QED
  BY <1>1, <1>2 DEF IInv, Attempts, Verdict, Clean, Position, transfer

LEMMA NextInv == IInv /\ [Next]_vars => IInv'
BY CacheStep, UnlinkStep, TryStep, ReceiveStep, PageStep, CountStep, EndStep, QuietStep,
   InstallerStep
   DEF Next, Done

-----------------------------------------------------------------------------
LEMMA Invariance == Spec => []IInv
BY InitInv, NextInv, PTL DEF Spec

(* The variables of a download keep their types. *)
THEOREM DownloadTypeOK == Spec => []TypeOK
<1>1. IInv => TypeOK
  BY DEF IInv
<1> QED
  BY <1>1, Invariance, PTL

(* channel_get_file passes the blocks of a file of any length to the
   installer in order and once, whatever the cache file held and however
   often the transfer was cut and resumed. *)
THEOREM DownloadInOrder == Spec => []InOrder
<1>1. IInv => InOrder
  <2> SUFFICES ASSUME IInv PROVE InOrder
    OBVIOUS
  <2>1. delivered \in Seq(0..Blocks)
    BY DEF IInv, TypeOK
  <2> QED
    BY <2>1, NumberedSeq DEF IInv, InOrder, Clean, Position
<1> QED
  BY <1>1, Invariance, PTL

(* channel_get_file reports a good download only for the complete file, as
   long as the unsigned char that counts the attempts does not wrap. *)
THEOREM DownloadComplete == Spec => []OkIsComplete
<1>1. IInv => OkIsComplete
  BY DEF IInv, OkIsComplete, Clean, Position, Closing
<1> QED
  BY <1>1, Invariance, PTL

(* channel_get_file begins no more transfers than the retries allow. *)
THEOREM DownloadTries == Spec => []TriesBounded
<1>1. IInv => TriesBounded
  BY DEF IInv, TriesBounded, Attempts
<1> QED
  BY <1>1, Invariance, PTL

(* download_from_url does not report success once the callback refused a
   block that came over the network. *)
THEOREM DownloadCancel == Spec => []CancelWins
<1>1. IInv => CancelWins
  BY DEF IInv, CancelWins, Verdict
<1> QED
  BY <1>1, Invariance, PTL

(* The installer gets the file or the download is reported as failed: the five
   facts above together, for any file and any number of retries. *)
THEOREM DownloadCorrect == Spec => []DownloadRight
<1>1. TypeOK /\ InOrder /\ OkIsComplete /\ TriesBounded /\ CancelWins => DownloadRight
  BY DEF DownloadRight
<1> QED
  BY <1>1, DownloadTypeOK, DownloadInOrder, DownloadComplete, DownloadTries,
     DownloadCancel, PTL
=============================================================================
