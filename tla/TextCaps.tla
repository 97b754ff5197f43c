------------------------------ MODULE TextCaps -------------------------------
(***************************************************************************)
(* The texts that outlive a run, cut to size: sanitize_for_log,            *)
(* sanitize_for_persistence and truncate_response_body of                  *)
(* src/src/security.rs, read_bounded and truncate of                       *)
(* src/src/executor/http.rs.  Nothing here keeps state.                    *)
(*                                                                         *)
(* A text is a sequence of characters of which only the length in bytes    *)
(* and the escape matter.  Of a clean text only the byte offsets count at  *)
(* which a character begins or the text ends: it is the set of these, 0    *)
(* among them, and its length in bytes is the largest.                     *)
(***************************************************************************)
EXTENDS Integers, Sequences, SequencesExt, FiniteSetsExt

(* Plain characters of one to four bytes, the ones that are escaped, and a *)
(* byte that is no UTF-8.                                                  *)
Chars == {"one", "two", "three", "four", "newline", "tab", "control", "invalid"}

Plain == [one |-> 1, two |-> 2, three |-> 3, four |-> 4]

(* The bytes on the wire, and after from_utf8_lossy, which puts the three  *)
(* bytes of U+FFFD for every invalid one.                                  *)
WireBytes(c)  == IF c \in DOMAIN Plain THEN Plain[c] ELSE 1
LossyBytes(c) == IF c = "invalid" THEN 3 ELSE WireBytes(c)

WireLength(text) == FoldSeq(LAMBDA c, n : WireBytes(c) + n, 0, text)

Bytes(clean) == Max(clean)

(* push and push_str: ends are the offsets in the pushed text at which its *)
(* characters end.                                                         *)
Push(clean, ends) == clean \cup {Bytes(clean) + e : e \in ends}

(* \r and \n take two bytes, other control characters the six of \uXXXX.   *)
Escape(c) ==
  CASE c = "newline" -> 1 .. 2
    [] c = "control" -> 1 .. 6
    [] OTHER         -> {LossyBytes(c)}

sanitize_for_persistence(text) ==
  LET out[i \in 0 .. Len(text)] ==
        IF i = 0 THEN {0} ELSE Push(out[i - 1], Escape(text[i]))
  IN  out[Len(text)]

-----------------------------------------------------------------------------
(* truncate_response_body.                                                 *)

char_boundary_floor(clean, idx) ==
  IF idx >= Bytes(clean) THEN Bytes(clean)
  ELSE Max({b \in clean : b <= idx})

(* Mutant: the tail begins at the boundary before the cut.                 *)
BoundaryBefore(clean, idx) == char_boundary_floor(clean, idx)

char_boundary_ceil(clean, idx) ==
  IF idx >= Bytes(clean) THEN Bytes(clean)
  ELSE Min({b \in clean : b >= idx})

SaturatingSub(a, b) == IF a > b THEN a - b ELSE 0

(* What is kept, by the offsets of the head's end and the tail's start,    *)
(* and the count the marker between them tells.                            *)
truncate_response_body(text, max) ==
  LET clean == sanitize_for_persistence(text)
      all   == Bytes(clean)
      head  == char_boundary_floor(clean, max \div 2)
      tail  == char_boundary_ceil(clean, SaturatingSub(all, max \div 2))
  IN  IF all <= max
      THEN [all |-> all, head |-> all, tail |-> all, told |-> 0]
      ELSE [all |-> all, head |-> head, tail |-> tail,
            told |-> all - (head + (all - tail))]

(* sanitize_for_log: before every character six bytes have to be left, or  *)
(* the marker, one character of three bytes and eleven of one, ends it.    *)
LogMarkerBytes == 14
LogMarker == 3 .. LogMarkerBytes

LogPush(s, c, cap) ==
  IF s.full THEN s
  ELSE IF Bytes(s.out) + 6 > cap THEN [out |-> Push(s.out, LogMarker), full |-> TRUE]
  ELSE [out |-> Push(s.out, Escape(c)), full |-> FALSE]

sanitize_for_log(text, cap) ==
  LET acc[i \in 0 .. Len(text)] ==
        IF i = 0 THEN [out |-> {0}, full |-> FALSE] ELSE LogPush(acc[i - 1], text[i], cap)
  IN  acc[Len(text)].out

(* truncate of http.rs, by the offset it cuts at; a marker of fifteen      *)
(* bytes follows a cut.                                                    *)
ErrorMarker == 15

truncate(clean, max) ==
  [all |-> Bytes(clean), cut |-> char_boundary_floor(clean, max)]

ErrorLength(t) == t.cut + (IF t.cut < t.all THEN ErrorMarker ELSE 0)
=============================================================================
