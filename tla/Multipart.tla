------------------------------ MODULE Multipart ------------------------------
(***************************************************************************)
(* The parser of a multipart body (corelib/multipart_parser.c) that finds  *)
(* the ranges in the answer to a request for several of them.              *)
(*                                                                         *)
(* It works byte by byte; multipart_parser_execute is called for a package *)
(* at a time, and a package may end after any byte.  Data is handed to     *)
(* on_part_data in stretches, up to a byte that may start a boundary.      *)
(* The callbacks succeed; Delta has what they do and how they fail.        *)
(***************************************************************************)
EXTENDS Integers, Sequences

CONSTANTS
  Byte,
  Boundary,   \* of the answer, with the hyphens in front
  MaxParts,   \* bound: parts of a body
  MaxData     \* bound: bytes of all parts

ASSUME MultipartAssumption ==
  /\ {"CR", "LF", "hyphen"} \subseteq Byte
  /\ Boundary \in Seq(Byte \ {"CR"}) /\ Boundary # <<>>
  /\ {MaxParts, MaxData} \subseteq Nat

VARIABLES
  given,      \* the data of the parts that the body was made of
  seg, at,    \* the piece of the body that is read, and how far
  state, index,
  marked,   \* the bytes from mark on: seen in this package, not handed out
  got       \* what the callbacks were given: the data of each part, and
            \* whether on_part_data_end was called for it

mpvars == <<given, seg, at, state, index, marked, got>>

CRLF == <<"CR", "LF">>
Delimiter == CRLF \o Boundary

(* A server takes a boundary that is not in the data.                      *)
Free(d) ==
  \A k \in 0..Len(d) - Len(Delimiter) : \E j \in 1..Len(Delimiter) : d[k + j] # Delimiter[j]
DataUpTo(n) == {d \in UNION {[1..l -> Byte] : l \in 0..n} : Free(d)}

(* The body as the server writes it: a boundary, and for every part the    *)
(* end of that line, its headers, an empty line, the data, and the         *)
(* boundary on a new line.                                                 *)
Header == <<"CR", "LF", "h", "colon", "space", "v", "CR", "LF", "CR", "LF">>
PartBytes(d) == Header \o d \o Delimiter
Segment(i) == IF i = 0 THEN Boundary
              ELSE IF i <= Len(given) THEN PartBytes(given[i]) ELSE <<"hyphen", "hyphen">>

Ended == seg = Len(given) + 2

State == {"s_start_boundary", "s_header_field_start", "s_header_field",
          "s_headers_almost_done", "s_header_value_start", "s_header_value",
          "s_header_value_almost_done", "s_part_data_start", "s_part_data",
          "s_part_data_almost_boundary", "s_part_data_boundary", "s_part_data_almost_end",
          "s_part_data_end", "s_part_data_final_hyphen", "s_end"}

MTypeOK ==
  /\ seg \in 0..Len(given) + 2 /\ at \in Nat
  /\ state \in State /\ index \in 0..Len(Boundary) + 1
  /\ marked \in Seq(Byte) /\ got \in Seq([data: Seq(Byte), end: BOOLEAN])

MInit ==
  /\ \E n \in 1..MaxParts : given \in [1..n -> DataUpTo(MaxData \div n)]
  /\ seg = 0 /\ at = 0 /\ state = "s_start_boundary" /\ index = 0
  /\ marked = <<>> /\ got = <<>>

-----------------------------------------------------------------------------
headers_complete == Append(got, [data |-> <<>>, end |-> FALSE])
part_data(g, d) == [g EXCEPT ![Len(g)].data = @ \o d]
part_data_end == [got EXCEPT ![Len(got)].end = TRUE]

(* The byte is taken; if the package ends with it (last), the next one     *)
(* starts without a mark.                                                  *)
Take(s) ==
  /\ state' = s /\ UNCHANGED given
  /\ IF at + 1 < Len(Segment(seg)) THEN at' = at + 1 /\ UNCHANGED seg
     ELSE at' = 0 /\ seg' = seg + 1
Goes(s) == Take(s) /\ UNCHANGED <<index, marked, got>>

(* An unexpected byte: the rest of the package is dropped.                 *)
Returns ==
  /\ seg' \in seg..Len(given) + 2
  /\ at' \in IF seg' = Len(given) + 2 THEN {0} ELSE 0..Len(Segment(seg')) - 1
  /\ seg' = seg => at' > at
  /\ marked' = <<>> /\ UNCHANGED <<given, state, index, got>>

(* The byte is looked at again in another state.                           *)
Reread(s) == state' = s /\ UNCHANGED <<given, seg, at, index, marked>>

(* Mutant: the index is left where it is after the boundary.               *)
s_start_boundary_NoReset(c) ==
  /\ state = "s_start_boundary"
  /\ IF c # (Boundary \o CRLF)[index + 1] THEN Returns
     ELSE /\ index' = index + 1 /\ UNCHANGED <<marked, got>>
          /\ Take(IF index <= Len(Boundary) THEN state ELSE "s_header_field_start")

s_start_boundary(c) ==
  /\ state = "s_start_boundary"
  /\ IF c # (Boundary \o CRLF)[index + 1] THEN Returns
     ELSE IF index <= Len(Boundary)
     THEN index' = index + 1 /\ Take(state) /\ UNCHANGED <<marked, got>>
     ELSE index' = 0 /\ Take("s_header_field_start") /\ UNCHANGED <<marked, got>>

(* The headers of a part; their callbacks are not set.                     *)
s_headers(c) ==
  \/ /\ state \in {"s_header_field_start", "s_header_field"}
     /\ CASE c = "CR" -> Goes("s_headers_almost_done")
          [] c = "colon" -> Goes("s_header_value_start")
          [] c \in {"LF", "space"} -> Reread("s_part_data_start") /\ UNCHANGED got
          [] OTHER -> Goes("s_header_field")
  \/ state = "s_headers_almost_done" /\ IF c = "LF" THEN Goes("s_part_data_start") ELSE Returns
  \/ /\ state \in {"s_header_value_start", "s_header_value"}
     /\ Goes(CASE c = "space" /\ state = "s_header_value_start" -> state
               [] c = "CR" -> "s_header_value_almost_done"
               [] OTHER -> "s_header_value")
  \/ /\ state = "s_header_value_almost_done"
     /\ IF c = "LF" THEN Goes("s_header_field_start") ELSE Returns

(* Data up to a CR, or to the end of the package, is handed out.           *)
s_part_data(c, last) ==
  /\ state \in {"s_part_data_start", "s_part_data"}
  /\ LET g == IF state = "s_part_data_start" THEN headers_complete ELSE got IN
       \/ /\ c = "CR" /\ Take("s_part_data_almost_boundary")
          /\ got' = part_data(g, marked) /\ marked' = <<>>
       \/ /\ c # "CR" /\ Take("s_part_data")
          /\ got' = IF last THEN part_data(g, Append(marked, c)) ELSE g
          /\ marked' = IF last THEN <<>> ELSE Append(marked, c)
  /\ UNCHANGED index

(* Mutant: a CR that does not start a boundary is lost.                    *)
s_part_data_almost_boundary_Lost(c) ==
  /\ state = "s_part_data_almost_boundary"
  /\ \/ c = "LF" /\ Take("s_part_data_boundary") /\ index' = 0 /\ UNCHANGED <<marked, got>>
     \/ c # "LF" /\ Reread("s_part_data") /\ UNCHANGED got

(* A CR that does not start a boundary was data, and the byte after it is  *)
(* looked at again.                                                        *)
s_part_data_almost_boundary(c) ==
  /\ state = "s_part_data_almost_boundary"
  /\ \/ c = "LF" /\ Take("s_part_data_boundary") /\ index' = 0 /\ UNCHANGED <<marked, got>>
     \/ c # "LF" /\ Reread("s_part_data") /\ got' = part_data(got, <<"CR">>)

s_part_data_boundary(c) ==
  /\ state = "s_part_data_boundary"
  /\ \/ /\ c # Boundary[index + 1] /\ Reread("s_part_data")
        /\ got' = part_data(got, SubSeq(Delimiter, 1, 2 + index))
     \/ /\ c = Boundary[index + 1] /\ index' = index + 1 /\ UNCHANGED marked
        /\ IF index' = Len(Boundary)
           THEN Take("s_part_data_almost_end") /\ got' = part_data_end
           ELSE Take(state) /\ UNCHANGED got

s_part_end(c) ==
  \/ /\ state = "s_part_data_almost_end"
     /\ CASE c = "hyphen" -> Goes("s_part_data_final_hyphen")
          [] c = "CR" -> Goes("s_part_data_end")
          [] OTHER -> Returns
  \/ state = "s_part_data_final_hyphen" /\ IF c = "hyphen" THEN Goes("s_end") ELSE Returns
  \/ state = "s_part_data_end" /\ IF c = "LF" THEN Goes("s_header_field_start") ELSE Returns

multipart_parser_execute ==
  /\ ~Ended
  /\ LET c == Segment(seg)[at + 1] IN
       \/ s_start_boundary(c) \/ s_headers(c)
       \/ \E last \in BOOLEAN : s_part_data(c, last)
       \/ s_part_data_almost_boundary(c) \/ s_part_data_boundary(c) \/ s_part_end(c)

MNext == multipart_parser_execute

MSpec == MInit /\ [][MNext]_mpvars

-----------------------------------------------------------------------------
(* However the body is cut into packages, and whatever the data looks like (a
   CR, a new line, a piece of a boundary), on_part_data is given the data of
   each part, no byte more or less and in order, between on_headers_complete
   and on_part_data_end; the parser comes to the end of every body. *)
MultipartRight ==
  /\ MTypeOK
  /\ \A i \in DOMAIN got :
       /\ \E k \in 0..Len(given[i]) : got[i].data = SubSeq(given[i], 1, k)
       /\ got[i].end => got[i].data = given[i]
  /\ \A i \in 1..Len(got) - 1 : got[i].end
  /\ Ended => state = "s_end" /\ Len(got) = Len(given) /\ got[Len(got)].end
=============================================================================
