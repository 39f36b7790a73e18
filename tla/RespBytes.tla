----------------------------- MODULE RespBytes -----------------------------
(***************************************************************************)
(* rasp_parser on bytes: find_CRLF_index, the functions for each kind of   *)
(* item and process_resp (resp_parser.cpp), checked against the same on    *)
(* whole items in RespParser.                                              *)
(*                                                                         *)
(* mem is the memory at buf: the len bytes of the input buffer and, behind *)
(* them, two bytes of the heap that find_CRLF_index may look at.  Byte i of*)
(* the C code is mem[i + 1].                                               *)
(***************************************************************************)
EXTENDS RespParser

CONSTANT MaxBytes   \* bound on the tokens of a buffer that is parsed as bytes

ASSUME RespBytesAssumption == MaxBytes \in Nat \ {0}

\* size_t 0 is "not found".  p is the end of the buffer if there is no CR in
\* it; *(p + 1) is read in any case.
FindCRLF(mem, len, index) ==
  IF index > len THEN 0
  ELSE LET CRs == {i \in index..len - 1 : mem[i + 1] = "CR"}
           p == IF CRs = {} THEN len ELSE CHOOSE i \in CRs : \A j \in CRs : i <= j
       IN  IF mem[p + 2] = "LF" THEN p ELSE 0

Parsed(n, res) == [n |-> n, res |-> res]

-----------------------------------------------------------------------------
(* std::stoi on the bytes between the type byte and CR: a sign, digits, and *)
(* then anything.  NaN stands for the exceptions.                          *)

NaN == -100

Digit == [d \in {"0", "1", "2", "3"} |->
            CASE d = "0" -> 0 [] d = "1" -> 1 [] d = "2" -> 2 [] d = "3" -> 3]

Stoi(s) ==
  LET negative == s # <<>> /\ Head(s) = "-"
      digits == IF negative THEN Tail(s) ELSE s
      m == CHOOSE i \in 0..Len(digits) :
             /\ \A j \in 1..i : digits[j] \in DOMAIN Digit
             /\ i < Len(digits) => digits[i + 1] \notin DOMAIN Digit
      value == FoldLeft(LAMBDA v, d : 10 * v + Digit[d], 0, SubSeq(digits, 1, m))
  IN  IF m = 0 THEN NaN ELSE IF negative THEN -value ELSE value

\* The number in the header at index, whose CR is at found.
HeaderNumber(mem, index, found) == Stoi(SubSeq(mem, index + 2, found))

-----------------------------------------------------------------------------
\* process_string, process_error, process_integer.
ProcessLine(mem, len, index) ==
  LET found == FindCRLF(mem, len, index)
  IN  IF found = 0 THEN Parsed(0, "Incompleted")
      ELSE Parsed(found - index + 2, "Completed")

\* Mutant: the size of a bulk string is believed.
ProcessBulkBySize(mem, len, index) ==
  LET found == FindCRLF(mem, len, index)
      size == HeaderNumber(mem, index, found)
      found2 == FindCRLF(mem, len, found + 2 + size)
  IN  IF found = 0 THEN Parsed(0, "Incompleted")
      ELSE IF size = -1 THEN Parsed(found - index + 2, "Completed")
      ELSE IF size < 0 THEN Parsed(0, "Error")
      ELSE IF found2 = 0 THEN Parsed(0, "Incompleted")
      ELSE Parsed(found2 - index + 2, "Completed")

\* process_bulk: the size decides between a null, a string that ends at the
\* next CR LF, and an error.
ProcessBulk(mem, len, index) ==
  LET found == FindCRLF(mem, len, index)
      size == HeaderNumber(mem, index, found)
      found2 == FindCRLF(mem, len, found + 2)
  IN  IF found = 0 THEN Parsed(0, "Incompleted")
      ELSE IF size = -1 THEN Parsed(found - index + 2, "Completed")
      ELSE IF size < 0 THEN Parsed(0, "Error")
      ELSE IF found2 = 0 THEN Parsed(0, "Incompleted")
      ELSE Parsed(found2 - index + 2, "Completed")

RECURSIVE BytesResp(_, _, _, _, _), BytesElements(_, _, _, _)

\* The for loop of process_array; n is _sub_index.
BytesElements(mem, len, sub, k) ==
  IF k = 0 THEN Parsed(sub, "Completed")
  ELSE LET r == BytesResp(mem, len, sub, sub, <<>>)
       IN  IF r.res # "Completed" THEN Parsed(0, "Error")
           ELSE BytesElements(mem, len, sub + r.n, k - 1)

BytesArray(mem, len, index) ==
  LET found == FindCRLF(mem, len, index)
      size == HeaderNumber(mem, index, found)
      r == BytesElements(mem, len, found + 2, size)
  IN  IF found = 0 THEN Parsed(0, "Incompleted")
      ELSE IF size \in {0, -1} THEN Parsed(found - index + 2, "Completed")
      ELSE IF size < -1 THEN Parsed(0, "Error")
      ELSE IF r.res # "Completed" THEN r
      ELSE Parsed(r.n - index, "Completed")

BytesItem(mem, len, index) ==
  LET byte == mem[index + 1]
  IN  CASE byte \in {"+", "-", ":"} -> ProcessLine(mem, len, index)
        [] byte = "$" -> ProcessBulk(mem, len, index)
        [] byte = "*" -> BytesArray(mem, len, index)
        [] OTHER -> Parsed(0, "Error")

\* process_resp from index, at processed; calls has the position behind each
\* message that on_resp_cb was called with.
BytesResp(mem, len, index, processed, calls) ==
  IF len <= processed
  THEN [n |-> processed - index, res |-> "Completed", calls |-> calls]
  ELSE LET r == BytesItem(mem, len, processed)
       IN  IF r.res # "Completed"
           THEN [n |-> processed - index, res |-> r.res, calls |-> calls]
           ELSE BytesResp(mem, len, index, processed + r.n,
                          Append(calls, processed + r.n))

\* process_resp of a buffer with two bytes of the heap behind it.
ProcessBytes(bytes, behind) ==
  BytesResp(bytes \o behind, Len(bytes), 0, 0, <<>>)

-----------------------------------------------------------------------------
(* Tokens as bytes.                                                        *)

\* Some of the bytes that a token stands for.  The size of a bulk string need
\* not be right.
Renderings(tok) ==
  CASE tok.t = "one" -> {<<"+", "x", "CR", "LF">>, <<"$", "-", "1", "CR", "LF">>,
                         <<"$", "1", "CR", "LF", "x", "CR", "LF">>,
                         <<"$", "3", "CR", "LF", "CR", "LF">>, <<"*", "0", "CR", "LF">>}
    [] tok.t = "arr" -> {<<"*", CHOOSE d \in DOMAIN Digit : Digit[d] = tok.k, "CR", "LF">>}
    [] tok.t = "part" -> {<<":">>, <<"-", "x", "CR">>, <<"*", "1", "CR">>,
                          <<"$", "1", "CR", "LF">>, <<"$", "1", "CR", "LF", "x", "CR">>}
    [] tok.t = "bad" -> {<<"x">>, <<"$", "CR", "LF">>, <<"$", "-", "2", "CR", "LF">>,
                         <<"*", "-", "3", "CR", "LF">>}

\* The byte strings that the tokens b may have been, token by token.
BytesOf(b) ==
  {r \in [1..Len(b) -> UNION {Renderings(b[i]) : i \in 1..Len(b)}] :
     \A i \in 1..Len(b) : r[i] \in Renderings(b[i])}

\* The position behind token i of rendering r.
EndOf(r, i) == Len(FlattenSeq(SubSeq(r, 1, i)))

-----------------------------------------------------------------------------
(* Properties.                                                             *)

\* Items are a faithful view of bytes: process_resp of any bytes that the
\* buffer may hold makes the calls, and consumes the bytes, of the items it
\* makes and consumes; as long as no LF happens to follow the buffer in memory
\* (resp_parser.cpp:8-231).
BytesMatchTokens ==
  Len(buf) <= MaxBytes =>
    \A r \in BytesOf(buf) :
      LET p == ProcessBytes(FlattenSeq(r), <<"x", "x">>)
          q == ProcessResp(buf, 0)
      IN  /\ p.res = q.res
          /\ p.n = EndOf(r, q.n)
          /\ p.calls = [i \in 1..Len(q.calls) |->
                          EndOf(r, Len(FlattenSeq(SubSeq(q.calls, 1, i))))]

\* What follows the buffer in memory, which find_CRLF_index reads, makes no
\* difference unless the buffer ends inside an item; there it makes at most
\* two bytes too many taken for part of a message (resp_parser.cpp:14-18).
HeapMattersToPartsOnly ==
  Len(buf) <= MaxBytes =>
    \A r \in BytesOf(buf), behind \in {"x", "LF"} \X {"x", "LF"} :
      LET b == FlattenSeq(r)
          p == ProcessBytes(b, behind)
      IN  IF buf # <<>> /\ Last(buf).t = "part"
          THEN p.n <= Len(b) + 2
          ELSE p = ProcessBytes(b, <<"x", "x">>)
=============================================================================
