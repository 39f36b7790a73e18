---------------------------- MODULE RespFraming ----------------------------
(***************************************************************************)
(* What rasp_parser::process_resp makes of a buffer of RESP tokens, as a   *)
(* closed form.  A token stands for a run of bytes:                        *)
(*   "one"   a self-contained item: a simple string, error, integer, bulk  *)
(*           string or an array header of size 0 or -1                     *)
(*   "arr"   the header of an array of at least one element                *)
(*   "part"  an item whose bytes are not all there, hence the last token   *)
(*   "bad"   an item process_resp answers with Error                       *)
(*                                                                         *)
(* process_array calls process_resp for its elements, and process_resp     *)
(* runs to the end of the buffer: the first array header takes everything  *)
(* behind it, whatever its size says, and is itself refused if anything    *)
(* behind it is incomplete or bad.  Module RespParser checks this closed   *)
(* form against the recursive functions.                                   *)
(***************************************************************************)
EXTENDS Integers, Sequences

TokenKind == {"one", "arr", "part", "bad"}

\* The part of a buffer made of its last tokens, without the first n.
Behind(buf, n) == SubSeq(buf, n + 1, Len(buf))

OfKind(buf, K) == {i \in 1..Len(buf) : buf[i].t \in K}

\* Nothing in the buffer is incomplete or bad.
Clean(buf) == OfKind(buf, {"part", "bad"}) = {}

\* The number of leading tokens that are messages of their own.
Singles(buf) ==
  CHOOSE n \in 0..Len(buf) :
    /\ \A i \in 1..n : buf[i].t = "one"
    /\ n < Len(buf) => buf[n + 1].t # "one"

\* Everything from the first array header on is one message.
Merged(buf) ==
  LET rest == Behind(buf, Singles(buf))
  IN  rest # <<>> /\ Head(rest).t = "arr" /\ Clean(rest)

\* The calls of on_resp_cb, in order: the bytes each is given.
Messages(buf) ==
  [i \in 1..Singles(buf) |-> <<buf[i]>>]
     \o IF Merged(buf) THEN <<Behind(buf, Singles(buf))>> ELSE <<>>

\* Mutant: the last token stays in the buffer.
ConsumedShort(buf) ==
  IF Merged(buf) THEN Len(buf) - 1 ELSE Singles(buf)

\* get<0> of the result: how much of the buffer onRead drains.
Consumed(buf) == IF Merged(buf) THEN Len(buf) ELSE Singles(buf)
=============================================================================
