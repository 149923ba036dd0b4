---------------------------- MODULE CaRangeParser ----------------------------
(* The values of Range and Content-Range headers: CaRangeParser.cpp and      *)
(* CaContentRangeParser.cpp of src/cahttp, loops over characters with a      *)
(* state each.  Numbers are those that fit.                                  *)
EXTENDS CaHttpUrlParser

Times10(n, ch) == n * 10 + Code(ch) - Code("0")

-----------------------------------------------------------------------------
(* CaRangeParser.  got is mFlag: 1 when there was a first offset, 2 when     *)
(* something followed the digits of the second.                              *)
NewRange == [stt |-> "s_start", idx |-> 1, digit_idx |-> 0, mStart |-> -1, mEnd |-> -1, got |-> {}, failed |-> FALSE]

StartChar(r, ch) ==
  IF ch # At("bytes=", r.idx) THEN [r EXCEPT !.failed = TRUE]
  ELSE IF r.idx < Len("bytes=") THEN [r EXCEPT !.idx = @ + 1]
  ELSE [r EXCEPT !.stt = "s_offs", !.mStart = 0, !.digit_idx = 0]

OffsChar(r, ch) ==
  CASE ch \in Digits -> [r EXCEPT !.mStart = Times10(@, ch), !.digit_idx = @ + 1]
    [] ch = "-" -> [r EXCEPT !.got = IF r.digit_idx > 0 THEN @ \cup {1} ELSE @,
                             !.stt = "s_offe", !.digit_idx = 0, !.mEnd = 0]
    [] OTHER -> [r EXCEPT !.failed = TRUE]

OffeChar(r, ch) ==
  IF ch \in Digits THEN [r EXCEPT !.mEnd = Times10(@, ch), !.digit_idx = @ + 1]
  ELSE [r EXCEPT !.got = IF r.digit_idx > 0 THEN @ \cup {2} ELSE @]

RangeChar(r, ch) ==
  CASE r.failed -> r
    [] r.stt = "s_start" -> StartChar(r, ch)
    [] r.stt = "s_offs"  -> OffsChar(r, ch)
    [] OTHER             -> OffeChar(r, ch)

ParseRange(s) == FoldLeft(RangeChar, NewRange, [i \in 1 .. Len(s) |-> At(s, i)])

GetOffsetSuffixFromStart(r, total) ==  \* mutant: the last bytes are taken for the first
  IF 1 \in r.got THEN <<r.mStart, IF 2 \in r.got THEN r.mEnd ELSE total - 1>>
  ELSE <<0, r.mEnd - 1>>

(* getOffset(): the first and the last byte of a file of that size.          *)
GetOffset(r, total) ==
  IF 1 \in r.got THEN <<r.mStart, IF 2 \in r.got THEN r.mEnd ELSE total - 1>>
  ELSE <<total - r.mEnd, total - 1>>

-----------------------------------------------------------------------------
(* CaContentRangeParser.  The character that ends the blanks behind "bytes"  *)
(* is taken with them.                                                       *)
NewContentRange == [stt |-> "s_start", idx |-> 1, mStart |-> 0, mEnd |-> 0, mTotalSize |-> 0, failed |-> FALSE]

ContentChar(r, ch) ==
  CASE r.failed -> r
    [] r.stt = "s_start" /\ ch # At("bytes", r.idx) -> [r EXCEPT !.failed = TRUE]
    [] r.stt = "s_start" -> [r EXCEPT !.idx = @ + 1, !.stt = IF r.idx = Len("bytes") THEN "s_sp" ELSE @]
    [] r.stt = "s_sp" -> [r EXCEPT !.stt = IF ch = " " THEN @ ELSE "s_offs"]
    [] r.stt = "s_offs" /\ ch \in Digits -> [r EXCEPT !.mStart = Times10(@, ch)]
    [] r.stt = "s_offs" /\ ch = "-"      -> [r EXCEPT !.stt = "s_offe", !.mEnd = 0]
    [] r.stt = "s_offe" /\ ch \in Digits -> [r EXCEPT !.mEnd = Times10(@, ch)]
    [] r.stt = "s_offe" /\ ch = "/"      -> [r EXCEPT !.stt = "s_totalsize", !.mTotalSize = 0]
    [] r.stt = "s_totalsize" /\ ch \in Digits -> [r EXCEPT !.mTotalSize = Times10(@, ch)]
    [] OTHER -> r

ParseContentRange(s) == FoldLeft(ContentChar, NewContentRange, [i \in 1 .. Len(s) |-> At(s, i)])
=============================================================================
