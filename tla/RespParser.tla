---------------------------- MODULE RespParser -----------------------------
(***************************************************************************)
(* The RESP parser (resp_parser.cpp) and the buffer it works on: bytes     *)
(* arrive in the input buffer of a bufferevent, the read callback parses   *)
(* the whole buffer, forwards each message and drains what was consumed    *)
(* (TcpSession::onRead, redis_tcp_client::onRead).                         *)
(*                                                                         *)
(* Tokens are those of RespFraming, with the size of an array in k.        *)
(* process_resp and process_array call each other; what process_resp       *)
(* returns is a recursive function of the position it is called at.        *)
(***************************************************************************)
EXTENDS RespFraming, SequencesExt

CONSTANTS
  MaxBuf,       \* bound on the tokens in the buffer
  MaxSize,      \* bound on the size of an array
  MaxReceived   \* bound on the tokens that ever arrive

ASSUME RespParserAssumption == {MaxBuf, MaxSize, MaxReceived} \subseteq Nat \ {0}

VARIABLES
  buf,        \* the input buffer
  msgs,       \* history: what on_resp_cb was called with, oldest first
  received,   \* history: every token that arrived whole, oldest first
  oneByOne    \* history: every read found one value, or ended inside an item

vars == <<buf, msgs, received, oneByOne>>

Token ==
  {[t |-> "one", k |-> 0], [t |-> "part", k |-> 0], [t |-> "bad", k |-> 0]}
    \cup [t : {"arr"}, k : 1..MaxSize]

-----------------------------------------------------------------------------
(* The functions of rasp_parser.  n is the number of tokens consumed, and  *)
(* resp[p] what process_resp returns when it is called at position p.      *)

Result(n, res, calls) == [n |-> n, res |-> res, calls |-> calls]

\* The for loop of process_array after k rounds, each a process_resp of the
\* rest; n is _sub_index.
Round(resp, start, rounds, k) ==
  IF k = 0 THEN Result(start, "Completed", <<>>)
  ELSE LET before == rounds[k - 1]
           r == resp[before.n]
       IN  IF before.res # "Completed" THEN before
           ELSE IF r.res # "Completed" THEN Result(0, "Error", <<>>)
           ELSE Result(before.n + r.n, "Completed", <<>>)

Rounds(resp, start, size) ==
  LET rounds[k \in 0..size] == Round(resp, start, rounds, k) IN rounds

ProcessArray(b, resp, index) ==
  LET r == Rounds(resp, index + 1, b[index + 1].k)[b[index + 1].k]
  IN  IF r.res = "Completed" THEN Result(r.n - index, "Completed", <<>>) ELSE r

\* Mutant: the header of an array is a message of its own.
ProcessItemHeader(b, resp, index) ==
  CASE b[index + 1].t \in {"one", "arr"} -> Result(1, "Completed", <<>>)
    [] b[index + 1].t = "part" -> Result(0, "Incompleted", <<>>)
    [] b[index + 1].t = "bad" -> Result(0, "Error", <<>>)

\* process_string, process_error, process_integer, process_bulk.
ProcessItem(b, resp, index) ==
  CASE b[index + 1].t = "one" -> Result(1, "Completed", <<>>)
    [] b[index + 1].t = "part" -> Result(0, "Incompleted", <<>>)
    [] b[index + 1].t = "bad" -> Result(0, "Error", <<>>)
    [] b[index + 1].t = "arr" -> ProcessArray(b, resp, index)

\* The while loop of process_resp at position p: the item there, and then what
\* is behind it.
RespAt(b, resp, p) ==
  LET r == ProcessItem(b, resp, p)
      rest == resp[p + r.n]
  IN  IF p = Len(b) THEN Result(0, "Completed", <<>>)
      ELSE IF r.res # "Completed" THEN Result(0, r.res, <<>>)
      ELSE Result(r.n + rest.n, rest.res, <<SubSeq(b, p + 1, p + r.n)>> \o rest.calls)

Resp(b) == LET resp[p \in 0..Len(b)] == RespAt(b, resp, p) IN resp

ProcessResp(b, index) == Resp(b)[index]

-----------------------------------------------------------------------------
(* What RESP says: a value is one item, or a header and its elements.      *)

\* The number of values that are missing behind the first i tokens of b, for
\* one value in all: each token is a value, and a header asks for k more.
Missing(b) ==
  LET missing[i \in 0..Len(b)] == IF i = 0 THEN 1 ELSE missing[i - 1] - 1 + b[i].k
  IN  missing

\* b is one complete value.
IsValue(b) ==
  /\ Clean(b)
  /\ \A i \in 0..Len(b) : Missing(b)[i] = 0 <=> i = Len(b)

-----------------------------------------------------------------------------
Init == buf = <<>> /\ msgs = <<>> /\ received = <<>> /\ oneByOne = TRUE

\* What has arrived and is not yet parsed; the bytes of a "part" are complete
\* once the next token is there, so a "part" is always the last token.
Unread == IF buf # <<>> /\ buf[Len(buf)].t = "part" THEN Front(buf) ELSE buf

Arrive(tok) ==
  /\ Len(Unread) < MaxBuf
  /\ Len(received) < MaxReceived
  /\ buf' = Append(Unread, tok)
  /\ received' = IF tok.t = "part" THEN received ELSE Append(received, tok)
  /\ UNCHANGED <<msgs, oneByOne>>

\* What a read finds of a peer that sends one value at a time, if the network
\* never cuts between two items of a value: that value, or the start of it
\* with something missing at the end.
SeesOneValue ==
  \/ IsValue(buf)
  \/ buf[Len(buf)].t = "part" /\ \A i \in 1..Len(buf) - 1 : ~IsValue(SubSeq(buf, 1, i))

\* Mutant: what was forwarded stays in the buffer when something is left over.
OnReadKeeps ==
  /\ buf # <<>>
  /\ LET r == ProcessResp(buf, 0)
     IN  /\ buf' = IF r.res = "Completed" THEN <<>> ELSE buf
         /\ msgs' = msgs \o r.calls
  /\ oneByOne' = (oneByOne /\ SeesOneValue)
  /\ UNCHANGED received

\* onRead: parse, forward, drain.  The bytes of a partial item stay.
OnRead ==
  /\ buf # <<>>
  /\ LET r == ProcessResp(buf, 0)
     IN  /\ buf' = Behind(buf, r.n)
         /\ msgs' = msgs \o r.calls
  /\ oneByOne' = (oneByOne /\ SeesOneValue)
  /\ UNCHANGED received

Next ==
  \/ \E tok \in Token : Arrive(tok)
  \/ OnRead

Spec == Init /\ [][Next]_vars

-----------------------------------------------------------------------------
(* Properties.                                                             *)

\* The closed form that module Proxy uses is what process_resp computes, on
\* every buffer (resp_parser.cpp:120-231).
ClosedForm ==
  LET r == ProcessResp(buf, 0)
  IN  r.calls = Messages(buf) /\ r.n = Consumed(buf)

\* Forwarding and draining agree: the bytes forwarded so far, followed by the
\* bytes still buffered, are the bytes that arrived: nothing is lost, sent
\* twice or reordered, however the reads cut the stream
\* (tcp_session.cpp:30-70, redis_tcp_client.hpp:29-41).
NothingLost == FlattenSeq(msgs) \o Unread = received

\* As long as every read finds one value or ends inside an item, on_resp_cb is
\* called with one whole value at a time, nested arrays included
\* (resp_parser.cpp:155-173).  A read that ends between two elements of an array
\* is none of these: the header is then a message of its own, which ClosedForm
\* states and NothingLost survives.
OneByOneIsOneValue == oneByOne => \A i \in 1..Len(msgs) : IsValue(msgs[i])
=============================================================================
