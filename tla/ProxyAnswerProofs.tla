------------------------- MODULE ProxyAnswerProofs -------------------------
(***************************************************************************)
(* Theorems about Proxy for clients that wait for each answer and replies  *)
(* of one item, for any number of clients, connections, descriptors and    *)
(* faults: until a read ends right behind an array header, every client    *)
(* gets the answers to its own commands, in order, and no reply finds an   *)
(* empty queue.                                                            *)
(***************************************************************************)
EXTENDS ProxyProofs

\* What the theorems suppose of the clients and of redis: a client waits for each
\* answer, and redis answers with one item.
Waiting ==
  /\ Window <= 1
  /\ ReplyKinds \subseteq {"one"}

\* The last command of s, and the answer to it.
Header(s) == [t |-> "arr", s |-> s, n |-> sent[s]]
Element(s) == [t |-> "one", s |-> s, n |-> sent[s]]

\* What a client has written is its last command, whole or cut after the header.
StreamInv ==
  \A s \in Session :
    \/ inbuf[s] = <<>> /\ stream[s] = <<>>
    \/ inbuf[s] = <<>> /\ stream[s] = <<Header(s), Element(s)>>
    \/ inbuf[s] = <<Header(s)>> /\ stream[s] = <<Element(s)>>
    \/ inbuf[s] = <<Header(s)>> /\ stream[s] = <<>>

\* onRead of a session hands over that command.
HandInv == self \in Session => todo = <<<<Header(self), Element(self)>>>>

\* Replies the running onRead has still to deliver for c.
InHand(c) == IF self = c THEN Len(todo) ELSE 0

\* Replies that are not yet read, from the front of the queue of c.
Replied(c) == InHand(c) + Len(fromRedis[c])

\* The queue of a connection lists the owners of all that is still to be
\* answered on it, in order: replies in hand, replies in the socket, commands.
Aligned(c) ==
  /\ Len(toRedis[c]) = 2 * (Len(session_sptr_queue[c]) - Replied(c))
  /\ \A i \in 1..InHand(c) : todo[i] = <<Element(session_sptr_queue[c][i])>>
  /\ \A i \in 1..Len(fromRedis[c]) :
       fromRedis[c][i] = Element(session_sptr_queue[c][InHand(c) + i])
  /\ \A i \in 1..Len(session_sptr_queue[c]) - Replied(c) :
       /\ toRedis[c][2 * i - 1] = Header(session_sptr_queue[c][Replied(c) + i])
       /\ toRedis[c][2 * i] = Element(session_sptr_queue[c][Replied(c) + i])

\* A connection that is not up carries nothing, and one that was never up owes
\* nothing.  What a connection that was lost owed stays in its queue.
QueueInv ==
  \A c \in Conn :
    /\ rbuf[c] = <<>>
    /\ conn[c] = "up" => Aligned(c)
    /\ conn[c] # "up" => toRedis[c] = <<>> /\ fromRedis[c] = <<>> /\ self # c
    /\ conn[c] \notin {"up", "down"} => session_sptr_queue[c] = <<>>

\* s has written a command that the proxy has not dispatched.
Unread(s) == inbuf[s] # <<>> \/ stream[s] # <<>>

\* s waits at place i for an answer on c.
WaitsAt(s, c, i) ==
  /\ conn[c] = "up"
  /\ i \in 1..Len(session_sptr_queue[c])
  /\ session_sptr_queue[c][i] = s

\* A command is in one place, and only while it is not answered.
PlaceInv ==
  /\ \A s \in Session :
       /\ sent[s] \in {Len(got[s]), Len(got[s]) + 1}
       /\ Unread(s) \/ self = s => sent[s] = Len(got[s]) + 1
       /\ Unread(s) => self # s
       /\ \A c \in Conn, i \in Nat :
            WaitsAt(s, c, i) => ~Unread(s) /\ self # s /\ sent[s] = Len(got[s]) + 1
  /\ \A s \in Session, c, d \in Conn, i, j \in Nat :
       WaitsAt(s, c, i) /\ WaitsAt(s, d, j) => c = d /\ i = j

\* What a client got: the answers to its commands, in order.
GotInv ==
  \A s \in Session : \A i \in 1..Len(got[s]) : got[s][i] = [t |-> "one", s |-> s, n |-> i]

\* All of this holds as long as no read ended right behind a header.
AnswerInv == StreamInv /\ HandInv /\ QueueInv /\ PlaceInv /\ GotInv

\* The variables AnswerInv is about, but for conn.
answerVars == <<self, todo, inbuf, session_sptr_queue, rbuf, stream, sent, got,
                toRedis, fromRedis>>

USE ProxyAssumption

-----------------------------------------------------------------------------

LEMMA InitAnswerInv == Init => AnswerInv
<1> SUFFICES ASSUME Init PROVE AnswerInv
  OBVIOUS
<1>1. Len(<<>>) = 0
  BY EmptySeq
<1>2. StreamInv /\ HandInv
  BY DEF Init, StreamInv, HandInv
<1>3. QueueInv
  BY DEF Init, QueueInv
<1>4. PlaceInv /\ GotInv
  BY <1>1 DEF Init, PlaceInv, GotInv, WaitsAt, Unread
<1>5. QED
  BY <1>2, <1>3, <1>4 DEF AnswerInv

\* A connection is aligned as before if nothing Aligned speaks of changes.
LEMMA AlignedSame ==
  ASSUME NEW c \in Conn, Aligned(c), InHand(c)' = InHand(c),
         UNCHANGED <<todo, session_sptr_queue, sent>>,
         fromRedis'[c] = fromRedis[c], toRedis'[c] = toRedis[c]
  PROVE  Aligned(c)'
<1> DEFINE hd(s) == [t |-> "arr", s |-> s, n |-> sent'[s]]
           el(s) == [t |-> "one", s |-> s, n |-> sent'[s]]
           k == Replied(c)
<1>1. Replied(c)' = k
  BY DEF Replied
<1>2. \A s : hd(s) = Header(s) /\ el(s) = Element(s)
  BY DEF Header, Element
<1> HIDE DEF hd, el
<1> DEFINE q == session_sptr_queue[c]
           h == InHand(c)
<1>3. /\ Len(toRedis[c]) = 2 * (Len(q) - k)
      /\ \A i \in 1..h : todo[i] = <<el(q[i])>>
      /\ \A i \in 1..Len(fromRedis[c]) : fromRedis[c][i] = el(q[h + i])
      /\ \A i \in 1..Len(q) - k : /\ toRedis[c][2 * i - 1] = hd(q[k + i])
                                  /\ toRedis[c][2 * i] = el(q[k + i])
  BY <1>2 DEF Aligned
<1> HIDE DEF k
<1>4. QED
  BY <1>1, <1>3 DEF Aligned, Header, Element, hd, el

\* A step that leaves commands, replies and connections alone.
LEMMA AnswerFrame ==
  ASSUME AnswerInv, UNCHANGED <<answerVars, conn>>
  PROVE  AnswerInv'
<1>1. StreamInv' /\ HandInv'
  BY DEF AnswerInv, answerVars, StreamInv, HandInv, Header, Element
<1>2. QueueInv'
  <2>1. \A c \in Conn : Aligned(c) => Aligned(c)'
    BY AlignedSame DEF answerVars, InHand
  <2>2. QED
    BY <2>1 DEF AnswerInv, answerVars, QueueInv
<1>3. PlaceInv' /\ GotInv'
  BY DEF AnswerInv, answerVars, PlaceInv, GotInv, WaitsAt, Unread
<1>4. QED
  BY <1>1, <1>2, <1>3 DEF AnswerInv

\* A connection that carries nothing changes its state.
LEMMA ConnFrame ==
  ASSUME TypeOK, AnswerInv, UNCHANGED answerVars,
         NEW c \in Conn, conn[c] \notin {"up", "down"},
         NEW st \in ConnState \ {"none"}, conn' = [conn EXCEPT ![c] = st]
  PROVE  AnswerInv'
<1>1. StreamInv' /\ HandInv'
  BY DEF AnswerInv, answerVars, StreamInv, HandInv, Header, Element
<1>2. /\ session_sptr_queue[c] = <<>> /\ toRedis[c] = <<>> /\ fromRedis[c] = <<>>
      /\ self # c
  BY DEF AnswerInv, QueueInv
<1>3. QueueInv'
  <2>1. \A d \in Conn : Aligned(d) => Aligned(d)'
    BY AlignedSame DEF answerVars, InHand
  <2>2. Aligned(c)'
    <3>1. Len(<<>>) = 0
      BY EmptySeq
    <3>2. InHand(c)' = 0 /\ Replied(c)' = 0
      BY <1>2, <3>1 DEF answerVars, InHand, Replied
    <3>3. QED
      BY <1>2, <3>1, <3>2 DEF answerVars, Aligned
  <2>3. QED
    BY <1>2, <2>1, <2>2 DEF AnswerInv, answerVars, QueueInv, TypeOK
<1>4. PlaceInv' /\ GotInv'
  <2>1. \A s \in Session, d \in Conn, i \in Nat : WaitsAt(s, d, i)' => WaitsAt(s, d, i)
    BY <1>2, EmptySeq DEF WaitsAt, answerVars, TypeOK
  <2>2. QED
    BY <2>1 DEF AnswerInv, answerVars, PlaceInv, GotInv, Unread
<1>5. QED
  BY <1>1, <1>3, <1>4 DEF AnswerInv

-----------------------------------------------------------------------------
(* Reads.                                                                   *)

\* onRead finds the whole command of s, or its header only.
LEMMA SessionReadFacts ==
  ASSUME Waiting, TypeOK, StreamInv, NEW s \in Session, SessionRead(s), ~cut'
  PROVE  /\ self = None /\ Unread(s)
         /\ \E l, r \in Seq(Item) :
              /\ inbuf' = [inbuf EXCEPT ![s] = l]
              /\ stream' = [stream EXCEPT ![s] = r]
              /\ \/ /\ l = <<>> /\ r = <<>>
                    /\ todo' = <<<<Header(s), Element(s)>>>> /\ self' = s
                 \/ /\ l = <<Header(s)>> /\ r = <<Element(s)>>
                    /\ todo' = <<>> /\ self' = None
<1> DEFINE h == Header(s)
           e == Element(s)
<1>1. /\ self = None
      /\ self' = IF todo' = <<>> THEN None ELSE s
  BY DEF SessionRead, Idle, Waiting
<1>2. PICK k \in 1..Len(stream[s]), p \in BOOLEAN :
        /\ p => k < Len(stream[s])
        /\ Readable(inbuf[s], SubSeq(stream[s], 1, k), p)
        /\ inbuf' = [inbuf EXCEPT ![s] = Left(inbuf[s], SubSeq(stream[s], 1, k), p)]
        /\ stream' = [stream EXCEPT ![s] = Behind(stream[s], k)]
  BY DEF SessionRead
<1>3. stream[s] # <<>> /\ stream[s] \in Seq(Item)
  BY <1>2, EmptySeq DEF TypeOK
<1>4. h.t = "arr" /\ e.t = "one" /\ Part.t = "part"
  BY DEF Header, Element, Part
<1>5. CASE inbuf[s] = <<>> /\ stream[s] = <<h, e>>
  <2>1. h \in Item /\ e \in Item
    BY <1>3, <1>5
  <2> HIDE DEF h, e
  <2>2. CASE k = 1
    <3>1. /\ SubSeq(stream[s], 1, k) = <<h>> /\ Behind(stream[s], k) = <<e>>
          /\ inbuf[s] \o <<h>> = <<h>>
      <4>1. /\ SubSeq(<<h, e>>, 1, 1) = <<h>> /\ Behind(<<h, e>>, 1) = <<e>>
            /\ <<>> \o <<h>> = <<h>>
        BY PairFacts
      <4>2. QED
        BY <1>5, <2>2, <4>1
    <3>2. p
      <4>1. <<h>>[Len(<<h>>)] = h
        OBVIOUS
      <4>2. QED
        BY <1>1, <1>2, <1>4, <3>1, <4>1 DEF Readable
    <3>3. Append(<<h>>, Part) = <<h, Part>>
      BY PairFacts
    <3>4. todo' = Messages(<<h, Part>>)
      BY <1>2, <3>1, <3>2, <3>3 DEF Readable
    <3>5. Left(inbuf[s], <<h>>, p) = Behind(<<h>>, Consumed(<<h, Part>>))
      BY <3>1, <3>2, <3>3 DEF Left
    <3>6. todo' = <<>> /\ Left(inbuf[s], <<h>>, p) = <<h>>
      BY <1>4, <3>4, <3>5, CutFraming DEF Behind
    <3>7. <<h>> \in Seq(Item) /\ <<e>> \in Seq(Item)
      BY <2>1
    <3>8. QED
      BY <1>1, <1>2, <1>3, <3>1, <3>6, <3>7 DEF Unread, h, e
  <2>3. CASE k = 2
    <3>1. /\ SubSeq(stream[s], 1, k) = <<h, e>> /\ Behind(stream[s], k) = <<>>
          /\ inbuf[s] \o <<h, e>> = <<h, e>> /\ Len(stream[s]) = 2
      <4>1. /\ SubSeq(<<h, e>>, 1, 2) = <<h, e>> /\ Behind(<<h, e>>, 2) = <<>>
            /\ <<>> \o <<h, e>> = <<h, e>>
        BY PairFacts
      <4>2. Len(<<h, e>>) = 2
        OBVIOUS
      <4>3. QED
        BY <1>5, <2>3, <4>1, <4>2
    <3>2. ~p
      BY <1>2, <2>3, <3>1
    <3>3. todo' = Messages(<<h, e>>)
      BY <1>2, <3>1, <3>2 DEF Readable
    <3>4. Left(inbuf[s], <<h, e>>, p) = Behind(<<h, e>>, Consumed(<<h, e>>))
      BY <3>1, <3>2 DEF Left
    <3>5. todo' = <<<<h, e>>>> /\ Left(inbuf[s], <<h, e>>, p) = <<>>
      BY <1>4, <2>1, <3>3, <3>4, PairFraming DEF Behind
    <3>6. <<>> \in Seq(Item)
      BY EmptySeq
    <3>7. QED
      BY <1>1, <1>2, <1>3, <3>1, <3>5, <3>6 DEF Unread, h, e
  <2>4. k \in 1..2
    BY <1>2, <1>5
  <2>5. k = 1 \/ k = 2
    BY <2>4
  <2>6. QED
    BY <2>2, <2>3, <2>5
<1>6. CASE inbuf[s] = <<h>> /\ stream[s] = <<e>>
  <2>1. h \in Item /\ e \in Item
    <3>1. inbuf[s] \in Seq(Item)
      BY DEF TypeOK
    <3>2. QED
      BY <1>3, <1>6, <3>1
  <2> HIDE DEF h, e
  <2>0. k = 1 /\ Len(stream[s]) = 1
    BY <1>2, <1>6
  <2>2. /\ SubSeq(stream[s], 1, k) = <<e>> /\ Behind(stream[s], k) = <<>>
        /\ inbuf[s] \o <<e>> = <<h, e>>
    BY <2>0, <1>6, PairFacts
  <2>3. ~p
    BY <1>2, <2>0
  <2>4. todo' = Messages(<<h, e>>)
    BY <1>2, <2>2, <2>3 DEF Readable
  <2>5. Left(inbuf[s], <<e>>, p) = Behind(<<h, e>>, Consumed(<<h, e>>))
    BY <2>2, <2>3 DEF Left
  <2>6. todo' = <<<<h, e>>>> /\ Left(inbuf[s], <<e>>, p) = <<>>
    BY <1>4, <2>1, <2>4, <2>5, PairFraming DEF Behind
  <2>7. <<>> \in Seq(Item)
    BY EmptySeq
  <2>8. QED
    BY <1>1, <1>2, <1>3, <2>2, <2>6, <2>7 DEF Unread, h, e
<1>7. QED
  BY <1>3, <1>5, <1>6 DEF StreamInv

LEMMA SessionReadAnswer ==
  ASSUME Waiting, TypeOK, AnswerInv, NEW s \in Session, SessionRead(s), ~cut'
  PROVE  AnswerInv'
<1>1. PICK l, r \in Seq(Item) :
        /\ inbuf' = [inbuf EXCEPT ![s] = l]
        /\ stream' = [stream EXCEPT ![s] = r]
        /\ \/ /\ l = <<>> /\ r = <<>>
              /\ todo' = <<<<Header(s), Element(s)>>>> /\ self' = s
           \/ /\ l = <<Header(s)>> /\ r = <<Element(s)>>
              /\ todo' = <<>> /\ self' = None
  BY SessionReadFacts, Zenon DEF AnswerInv
<1>2. self = None /\ Unread(s)
  BY SessionReadFacts DEF AnswerInv
<1>3. UNCHANGED <<connVars, sent, got, redisVars>>
  BY DEF SessionRead
<1>4. \A x \in Session : x # s => (inbuf'[x] = inbuf[x] /\ stream'[x] = stream[x])
  BY <1>1 DEF TypeOK
<1>5. /\ inbuf'[s] = l /\ stream'[s] = r
      /\ Unread(s)' => self' = None
  BY <1>1 DEF TypeOK, Unread
<1>6. StreamInv' /\ HandInv'
  BY <1>1, <1>3, <1>4, <1>5 DEF AnswerInv, StreamInv, HandInv, Header, Element
<1>7. QueueInv'
  <2>1. self' \in Session \cup {None}
    BY <1>1
  <2>2. \A c \in Conn : self' # c /\ InHand(c)' = 0 /\ InHand(c) = 0
    BY <1>2, <2>1 DEF InHand
  <2>3. \A c \in Conn : Aligned(c) => Aligned(c)'
    <3> SUFFICES ASSUME NEW c \in Conn, Aligned(c) PROVE Aligned(c)'
      OBVIOUS
    <3>1. InHand(c) = 0 /\ InHand(c)' = 0 /\ Replied(c)' = Replied(c)
      BY <1>3, <2>2 DEF Replied, redisVars
    <3>2. UNCHANGED <<session_sptr_queue, fromRedis, toRedis, sent>>
      BY <1>3 DEF connVars, redisVars
    <3>3. QED
      BY <3>1, <3>2 DEF Aligned, Header, Element
  <2>4. QED
    BY <1>3, <2>2, <2>3 DEF AnswerInv, QueueInv, connVars, redisVars
<1>8. PlaceInv' /\ GotInv'
  <2>1. \A x \in Session, c \in Conn, i \in Nat : WaitsAt(x, c, i)' <=> WaitsAt(x, c, i)
    BY <1>3 DEF WaitsAt, connVars
  <2>2. \A x \in Session : x # s => (Unread(x)' <=> Unread(x)) /\ self' # x
    BY <1>1, <1>4 DEF Unread
  <2>3. QED
    BY <1>2, <1>3, <1>5, <2>1, <2>2 DEF AnswerInv, PlaceInv, GotInv
<1>9. QED
  BY <1>6, <1>7, <1>8 DEF AnswerInv

-----------------------------------------------------------------------------
(* Connections on which nothing, or one command, is added.                  *)

\* What Aligned says of the lengths.
LEMMA AlignedLengths ==
  ASSUME TypeOK, NEW c \in Conn, Aligned(c)
  PROVE  /\ Len(session_sptr_queue[c]) \in Nat /\ Len(fromRedis[c]) \in Nat
         /\ Len(toRedis[c]) \in Nat /\ InHand(c) \in Nat
         /\ Replied(c) = InHand(c) + Len(fromRedis[c])
         /\ Replied(c) \in 0..Len(session_sptr_queue[c])
<1>1. /\ Len(session_sptr_queue[c]) \in Nat /\ Len(fromRedis[c]) \in Nat
      /\ Len(toRedis[c]) \in Nat /\ Len(todo) \in Nat
  BY LenProperties DEF TypeOK
<1>2. InHand(c) \in Nat /\ Replied(c) = InHand(c) + Len(fromRedis[c])
  BY <1>1 DEF InHand, Replied
<1>3. Len(toRedis[c]) = 2 * (Len(session_sptr_queue[c]) - Replied(c))
  BY DEF Aligned
<1>4. Replied(c) \in Nat
  BY <1>1, <1>2
<1> DEFINE m == Len(session_sptr_queue[c])
           n == Len(toRedis[c])
           k == Replied(c)
<1>5. m \in Nat /\ n \in Nat /\ k \in Nat /\ n = 2 * (m - k)
  BY <1>1, <1>3, <1>4
<1> HIDE DEF m, n, k
<1>6. k \in 0..m
  BY <1>5
<1>7. QED
  BY <1>1, <1>2, <1>6 DEF m, k

\* A connection that is left alone stays aligned, as long as those who wait on
\* it send nothing.
LEMMA AlignedFrame ==
  ASSUME TypeOK, NEW c \in Conn, Aligned(c), InHand(c)' = InHand(c),
         \A i \in 1..InHand(c) : todo'[i] = todo[i],
         session_sptr_queue'[c] = session_sptr_queue[c],
         fromRedis'[c] = fromRedis[c], toRedis'[c] = toRedis[c],
         \A i \in 1..Len(session_sptr_queue[c]) :
           sent'[session_sptr_queue[c][i]] = sent[session_sptr_queue[c][i]]
  PROVE  Aligned(c)'
<1> DEFINE q == session_sptr_queue[c]
           hd(s) == [t |-> "arr", s |-> s, n |-> sent'[s]]
           el(s) == [t |-> "one", s |-> s, n |-> sent'[s]]
<1>1. Replied(c)' = Replied(c)
  BY DEF Replied
<1>2. \A i \in 1..Len(q) : hd(q[i]) = Header(q[i]) /\ el(q[i]) = Element(q[i])
  BY DEF Header, Element
<1> HIDE DEF hd, el
<1>3. \A i \in 1..Len(fromRedis[c]) : InHand(c) + i \in 1..Len(q)
  BY AlignedLengths
<1>4. \A i \in 1..Len(q) - Replied(c) : Replied(c) + i \in 1..Len(q)
  BY AlignedLengths
<1>5. \A i \in 1..InHand(c) : i \in 1..Len(q)
  BY AlignedLengths
<1>6. /\ Len(toRedis[c]) = 2 * (Len(q) - Replied(c))
      /\ \A i \in 1..InHand(c) : todo[i] = <<Element(q[i])>>
      /\ \A i \in 1..Len(fromRedis[c]) : fromRedis[c][i] = Element(q[InHand(c) + i])
      /\ \A i \in 1..Len(q) - Replied(c) :
           /\ toRedis[c][2 * i - 1] = Header(q[Replied(c) + i])
           /\ toRedis[c][2 * i] = Element(q[Replied(c) + i])
  BY DEF Aligned
<1>7. q = session_sptr_queue'[c]
  OBVIOUS
<1> HIDE DEF q
<1>8. \A i \in 1..InHand(c) : todo'[i] = <<el(q[i])>>
  BY <1>2, <1>5, <1>6
<1>9. \A i \in 1..Len(fromRedis[c]) : fromRedis[c][i] = el(q[InHand(c) + i])
  BY <1>2, <1>3, <1>6
<1>10. \A i \in 1..Len(q) - Replied(c) :
         /\ toRedis[c][2 * i - 1] = hd(q[Replied(c) + i])
         /\ toRedis[c][2 * i] = el(q[Replied(c) + i])
  BY <1>2, <1>4, <1>6
<1>11. QED
  BY <1>1, <1>6, <1>7, <1>8, <1>9, <1>10 DEF Aligned, Header, Element, hd, el

\* The message of the running session is its command, and its only one.
LEMMA HandFacts ==
  ASSUME AnswerInv, self \in Session, NextMessage
  PROVE  /\ Head(todo) = <<Header(self), Element(self)>>
         /\ todo' = <<>> /\ self' = None
<1>1. todo = <<<<Header(self), Element(self)>>>>
  BY DEF AnswerInv, HandInv
<1>2. Head(todo) = <<Header(self), Element(self)>> /\ Len(todo) = 1 /\ Tail(todo) = <<>>
  BY <1>1
<1>3. QED
  BY <1>2 DEF NextMessage

\* The message of a session is dropped or dispatched: its client owes nothing
\* to onRead any more.
LEMMA DropMessageAnswer ==
  ASSUME TypeOK, AnswerInv, DropMessage
  PROVE  AnswerInv'
<1>1. /\ self \in Session /\ todo' = <<>> /\ self' = None
      /\ UNCHANGED <<inbuf, connVars, clientVars, redisVars>>
  BY HandFacts DEF DropMessage
<1>2. StreamInv' /\ HandInv'
  BY <1>1 DEF AnswerInv, StreamInv, HandInv, Header, Element, clientVars
<1>3. QueueInv'
  <2>1. \A c \in Conn : self' # c /\ InHand(c)' = 0 /\ InHand(c) = 0 /\ 1..0 = {}
    BY <1>1 DEF InHand
  <2>2. \A c \in Conn : Aligned(c) => Aligned(c)'
    BY <1>1, <2>1, AlignedFrame DEF connVars, redisVars, clientVars
  <2>3. QED
    BY <1>1, <2>1, <2>2 DEF AnswerInv, QueueInv, connVars, redisVars
<1>4. PlaceInv' /\ GotInv'
  <2>1. \A x \in Session : (Unread(x)' <=> Unread(x)) /\ self' # x
    BY <1>1 DEF Unread, clientVars
  <2>2. \A x \in Session, c \in Conn, i \in Nat : WaitsAt(x, c, i)' <=> WaitsAt(x, c, i)
    BY <1>1 DEF WaitsAt, connVars
  <2>3. QED
    BY <1>1, <2>1, <2>2 DEF AnswerInv, PlaceInv, GotInv, clientVars
<1>5. QED
  BY <1>2, <1>3, <1>4 DEF AnswerInv

\* A command behind all others, and its owner behind all other owners.
LEMMA AlignedDispatch ==
  ASSUME TypeOK, NEW c \in Conn, Aligned(c), self \in Session, self' = None,
         session_sptr_queue'[c] = Append(session_sptr_queue[c], self),
         toRedis'[c] = toRedis[c] \o <<Header(self), Element(self)>>,
         Header(self) \in Item, Element(self) \in Item,
         UNCHANGED <<sent, fromRedis>>
  PROVE  Aligned(c)'
<1> DEFINE q == session_sptr_queue[c]
           r == session_sptr_queue'[c]
           t == toRedis[c]
           u == toRedis'[c]
           pair == <<Header(self), Element(self)>>
           n == Len(q) - Replied(c)
<1>1. InHand(c) = 0 /\ InHand(c)' = 0 /\ Replied(c)' = Replied(c)
  <2>1. InHand(c) = 0 /\ InHand(c)' = 0
    BY DEF InHand
  <2>2. QED
    BY <2>1 DEF Replied
<1>2. /\ Len(q) \in Nat /\ Len(fromRedis[c]) \in Nat /\ Replied(c) = Len(fromRedis[c])
      /\ n \in Nat /\ Len(t) = 2 * n /\ Replied(c) \in Nat /\ Len(q) = Replied(c) + n
  <2>1. /\ Len(q) \in Nat /\ Len(fromRedis[c]) \in Nat /\ Replied(c) = 0 + Len(fromRedis[c])
        /\ Replied(c) \in 0..Len(q)
    BY <1>1, AlignedLengths
  <2>2. Len(t) = 2 * n
    BY DEF Aligned
  <2>3. QED
    BY <2>1, <2>2
<1>3. /\ Len(r) = Len(q) + 1
      /\ \A i \in 1..Len(q) : r[i] = q[i]
      /\ r[Len(q) + 1] = self
  BY AppendProperties DEF TypeOK
<1>4. /\ Len(u) = 2 * (n + 1)
      /\ \A i \in 1..2 * n : u[i] = t[i]
      /\ u[2 * n + 1] = Header(self) /\ u[2 * n + 2] = Element(self)
  <2>1. t \in Seq(Item) /\ pair \in Seq(Item)
    BY DEF TypeOK
  <2>2. Len(pair) = 2 /\ pair[1] = Header(self) /\ pair[2] = Element(self)
    OBVIOUS
  <2> HIDE DEF pair, n
  <2>3. /\ Len(t \o pair) = Len(t) + Len(pair)
        /\ \A i \in 1..Len(t) + Len(pair) :
             (t \o pair)[i] = IF i <= Len(t) THEN t[i] ELSE pair[i - Len(t)]
    BY <2>1, ConcatProperties
  <2>4. u = t \o pair
    BY DEF pair
  <2> HIDE DEF t, u
  <2>5. /\ Len(u) = 2 * n + 2
        /\ \A i \in 1..2 * n + 2 : u[i] = IF i <= 2 * n THEN t[i] ELSE pair[i - 2 * n]
    BY <1>2, <2>2, <2>3, <2>4
  <2>6. u[2 * n + 1] = pair[1] /\ u[2 * n + 2] = pair[2]
    BY <1>2, <2>5
  <2>7. QED
    BY <1>2, <2>2, <2>5, <2>6
<1>5. \A i \in 1..Len(fromRedis[c]) : fromRedis[c][i] = Element(r[i])
  <2> SUFFICES ASSUME NEW i \in 1..Len(fromRedis[c])
               PROVE  fromRedis[c][i] = Element(r[i])
    OBVIOUS
  <2>1. fromRedis[c][i] = Element(q[0 + i])
    BY <1>1 DEF Aligned
  <2>2. r[i] = q[0 + i]
    BY <1>2, <1>3
  <2>3. QED
    BY <2>1, <2>2
<1> HIDE DEF n
<1>6. ASSUME NEW i \in 1..n + 1
      PROVE  /\ u[2 * i - 1] = Header(r[Replied(c) + i])
             /\ u[2 * i] = Element(r[Replied(c) + i])
  <2>1. CASE i = n + 1
    <3>1. Replied(c) + (n + 1) = Len(q) + 1 /\ 2 * (n + 1) - 1 = 2 * n + 1 /\ 2 * (n + 1) = 2 * n + 2
      <4> HIDE DEF q, t
      <4>1. n \in Nat /\ Replied(c) \in Nat /\ Len(q) = Replied(c) + n
        BY <1>2
      <4>2. Replied(c) + (n + 1) = (Replied(c) + n) + 1
        BY <4>1
      <4>3. 2 * (n + 1) = 2 * n + 2
        BY <4>1
      <4>4. 2 * (n + 1) - 1 = 2 * n + 1
        BY <4>1
      <4> QED
        BY <4>1, <4>2, <4>3, <4>4
    <3>2. /\ u[2 * (n + 1) - 1] = Header(r[Replied(c) + (n + 1)])
          /\ u[2 * (n + 1)] = Element(r[Replied(c) + (n + 1)])
      BY <1>3, <1>4, <3>1
    <3>3. QED
      BY <2>1, <3>2
  <2>2. CASE i # n + 1
    <3>1. i \in 1..n /\ 2 * i - 1 \in 1..2 * n /\ 2 * i \in 1..2 * n /\ Replied(c) + i \in 1..Len(q)
      BY <1>2, <2>2
    <3>2. t[2 * i - 1] = Header(q[Replied(c) + i]) /\ t[2 * i] = Element(q[Replied(c) + i])
      BY <3>1 DEF Aligned, n
    <3>3. QED
      BY <1>3, <1>4, <3>1, <3>2
  <2>3. QED
    BY <2>1, <2>2
<1>7. Len(r) - Replied(c) = n + 1
  <2>1. n \in Nat /\ Replied(c) \in Nat /\ Len(q) = Replied(c) + n /\ Len(r) = Len(q) + 1
    BY <1>2, <1>3
  <2> DEFINE a == Len(q)
             b == Len(r)
             k == Replied(c)
  <2>2. n \in Nat /\ k \in Nat /\ a = k + n /\ b = a + 1
    BY <2>1
  <2> HIDE DEF a, b, k
  <2>3. b - k = n + 1
    BY <2>2
  <2>4. QED
    BY <2>3 DEF b, k
<1>8. \A i \in 1..n + 1 : /\ u[2 * i - 1] = Header(r[Replied(c) + i])
                          /\ u[2 * i] = Element(r[Replied(c) + i])
  BY <1>6
<1>9. QED
  <2>1. Len(u) = 2 * (Len(r) - Replied(c)')
    BY <1>1, <1>4, <1>7
  <2>2. 1..0 = {}
    OBVIOUS
  <2>3. \A i \in 1..Len(fromRedis[c]) : 0 + i = i
    BY <1>2
  <2> DEFINE hd(s) == [t |-> "arr", s |-> s, n |-> sent'[s]]
             el(s) == [t |-> "one", s |-> s, n |-> sent'[s]]
  <2>4. \A s : hd(s) = Header(s) /\ el(s) = Element(s)
    BY DEF Header, Element
  <2> HIDE DEF hd, el
  <2>5. \A i \in 1..Len(fromRedis[c]) : fromRedis[c][i] = el(r[0 + i])
    BY <1>5, <2>3, <2>4
  <2>6. \A i \in 1..n + 1 : /\ u[2 * i - 1] = hd(r[Replied(c) + i])
                            /\ u[2 * i] = el(r[Replied(c) + i])
    <3> SUFFICES ASSUME NEW i \in 1..n + 1
                 PROVE  /\ u[2 * i - 1] = hd(r[Replied(c) + i])
                        /\ u[2 * i] = el(r[Replied(c) + i])
      OBVIOUS
    <3>1. /\ u[2 * i - 1] = Header(r[Replied(c) + i])
          /\ u[2 * i] = Element(r[Replied(c) + i])
      BY <1>8
    <3>2. QED
      BY <2>4, <3>1
  <2>7. \A i \in 1..InHand(c)' : todo'[i] = <<el(session_sptr_queue'[c][i])>>
    BY <1>1, <2>2
  <2>8. \A i \in 1..Len(fromRedis'[c]) :
          fromRedis'[c][i] = el(session_sptr_queue'[c][InHand(c)' + i])
    BY <1>1, <2>5
  <2>9. \A i \in 1..Len(session_sptr_queue'[c]) - Replied(c)' :
          /\ toRedis'[c][2 * i - 1] = hd(session_sptr_queue'[c][Replied(c)' + i])
          /\ toRedis'[c][2 * i] = el(session_sptr_queue'[c][Replied(c)' + i])
    BY <1>1, <1>7, <2>6
  <2>10. QED
    BY <2>1, <2>7, <2>8, <2>9 DEF Aligned, Header, Element, hd, el

\* A command that is not answered yet consists of items.
LEMMA CommandFacts ==
  ASSUME TypeOK, NEW s \in Session, sent[s] = Len(got[s]) + 1
  PROVE  Header(s) \in Item /\ Element(s) \in Item
<1>1. sent[s] \in 0..MaxCmd /\ Len(got[s]) \in Nat
  BY LenProperties DEF TypeOK
<1>2. sent[s] \in 1..MaxCmd
  BY <1>1
<1>3. QED
  BY <1>2 DEF Header, Element, Item

\* The running session has a place to send its command to.
LEMMA DispatchFacts ==
  ASSUME TypeOK, AnswerInv, Dispatch
  PROVE  \E c \in Conn :
           /\ conn[c] = "up"
           /\ session_sptr_queue' = [session_sptr_queue EXCEPT ![c] = Append(@, self)]
           /\ toRedis' = [toRedis EXCEPT ![c] = @ \o <<Header(self), Element(self)>>]
<1>1. self \in Session /\ NextMessage
  BY DEF Dispatch
<1>2. Head(todo) = <<Header(self), Element(self)>>
  BY <1>1, HandFacts
<1>3. PICK i \in Hits :
        /\ toRedis' = [toRedis EXCEPT ![Pick(i)] = @ \o Head(todo)]
        /\ session_sptr_queue' = [session_sptr_queue EXCEPT ![Pick(i)] = Append(@, self)]
  BY DEF Dispatch
<1>4. Pick(i) \in Conn /\ conn[Pick(i)] = "up"
  BY <1>1, PickFacts
<1>5. QED
  BY <1>2, <1>3, <1>4

LEMMA DispatchAnswer ==
  ASSUME TypeOK, AnswerInv, Dispatch
  PROVE  AnswerInv'
<1>1. PICK c \in Conn :
        /\ conn[c] = "up"
        /\ session_sptr_queue' = [session_sptr_queue EXCEPT ![c] = Append(@, self)]
        /\ toRedis' = [toRedis EXCEPT ![c] = @ \o <<Header(self), Element(self)>>]
  BY DispatchFacts
<1>2. /\ self \in Session /\ todo' = <<>> /\ self' = None
      /\ UNCHANGED <<inbuf, conn, rbuf, clientVars, fromRedis>>
  BY HandFacts DEF Dispatch
<1>3. sent[self] = Len(got[self]) + 1 /\ ~Unread(self)
  BY <1>2 DEF AnswerInv, PlaceInv
<1>4. /\ session_sptr_queue'[c] = Append(session_sptr_queue[c], self)
      /\ toRedis'[c] = toRedis[c] \o <<Header(self), Element(self)>>
      /\ \A d \in Conn : d # c => /\ session_sptr_queue'[d] = session_sptr_queue[d]
                                  /\ toRedis'[d] = toRedis[d]
  BY <1>1 DEF TypeOK
<1>5. StreamInv' /\ HandInv'
  BY <1>2 DEF AnswerInv, StreamInv, HandInv, Header, Element, clientVars
<1>6. QueueInv'
  <2>1. \A d \in Conn : self' # d /\ InHand(d)' = 0 /\ InHand(d) = 0 /\ 1..0 = {}
    BY <1>2 DEF InHand
  <2>2. Aligned(c)'
    <3>1. Aligned(c)
      BY <1>1 DEF AnswerInv, QueueInv
    <3>2. Header(self) \in Item /\ Element(self) \in Item
      BY <1>2, <1>3, CommandFacts
    <3>3. UNCHANGED <<sent, fromRedis>>
      BY <1>2 DEF clientVars
    <3>4. QED
      BY <1>2, <1>4, <3>1, <3>2, <3>3, AlignedDispatch
  <2>3. \A d \in Conn : d # c /\ Aligned(d) => Aligned(d)'
    BY <1>2, <1>4, <2>1, AlignedFrame DEF clientVars
  <2>4. QED
    BY <1>1, <1>2, <1>4, <2>1, <2>2, <2>3 DEF AnswerInv, QueueInv
<1>7. PlaceInv' /\ GotInv'
  <2> DEFINE l == Len(session_sptr_queue[c])
  <2>1. /\ l \in Nat /\ Len(session_sptr_queue'[c]) = l + 1
        /\ \A i \in 1..l : session_sptr_queue'[c][i] = session_sptr_queue[c][i]
        /\ session_sptr_queue'[c][l + 1] = self
    BY <1>2, <1>4, AppendProperties, LenProperties DEF TypeOK
  <2>2. \A x \in Session, d \in Conn, i \in Nat :
          WaitsAt(x, d, i)' => WaitsAt(x, d, i) \/ (x = self /\ d = c /\ i = l + 1)
    <3> SUFFICES ASSUME NEW x \in Session, NEW d \in Conn, NEW i \in Nat, WaitsAt(x, d, i)'
                 PROVE  WaitsAt(x, d, i) \/ (x = self /\ d = c /\ i = l + 1)
      OBVIOUS
    <3>1. CASE d # c
      BY <1>2, <1>4, <3>1 DEF WaitsAt
    <3>2. CASE d = c
      <4>1. i \in 1..l + 1 /\ session_sptr_queue'[c][i] = x /\ conn[c] = "up"
        BY <1>1, <2>1, <3>2 DEF WaitsAt
      <4>2. i \in 1..l \/ i = l + 1
        BY <2>1, <4>1
      <4>3. QED
        BY <2>1, <3>2, <4>1, <4>2 DEF WaitsAt
    <3>3. QED
      BY <3>1, <3>2
  <2> HIDE DEF l
  <2>3. \A d \in Conn, i \in Nat : ~WaitsAt(self, d, i)
    BY <1>2 DEF AnswerInv, PlaceInv
  <2>4. \A x \in Session : (Unread(x)' <=> Unread(x)) /\ self' # x
    BY <1>2 DEF Unread, clientVars
  <2>5. UNCHANGED <<sent, got>>
    BY <1>2 DEF clientVars
  <2>6. \A x \in Session, c1, c2 \in Conn, i, j \in Nat :
          WaitsAt(x, c1, i)' /\ WaitsAt(x, c2, j)' => c1 = c2 /\ i = j
    BY <2>2, <2>3 DEF AnswerInv, PlaceInv
  <2>7. PlaceInv'
    BY <1>2, <1>3, <2>2, <2>4, <2>5, <2>6 DEF AnswerInv, PlaceInv
  <2>8. QED
    BY <2>5, <2>7 DEF AnswerInv, GotInv
<1>8. QED
  BY <1>5, <1>6, <1>7 DEF AnswerInv

-----------------------------------------------------------------------------
(* Answers.                                                                 *)

\* The connection that hands out answers is up, and the owner of the answer is
\* in front of its queue.
LEMMA AnswerFacts ==
  ASSUME TypeOK, OneCallback, AnswerInv, self \in Conn
  PROVE  /\ conn[self] = "up" /\ Aligned(self)
         /\ todo # <<>> /\ Len(todo) \in Nat \ {0} /\ InHand(self) = Len(todo)
         /\ session_sptr_queue[self] # <<>>
         /\ session_sptr_queue[self][1] \in Session
         /\ WaitsAt(session_sptr_queue[self][1], self, 1)
         /\ todo[1] = <<Element(session_sptr_queue[self][1])>>
<1>1. conn[self] = "up" /\ Aligned(self)
  BY DEF AnswerInv, QueueInv
<1>2. todo # <<>> /\ todo \in Seq(Seq(Item)) /\ InHand(self) = Len(todo)
  BY DEF OneCallback, TypeOK, InHand
<1>3. Len(todo) \in Nat \ {0}
  BY <1>2, EmptySeq
<1>4. Len(session_sptr_queue[self]) \in Nat /\ Len(session_sptr_queue[self]) >= Len(todo)
  BY <1>1, <1>2, <1>3, AlignedLengths
<1>5. 1 \in 1..Len(session_sptr_queue[self]) /\ 1 \in 1..Len(todo)
  BY <1>3, <1>4
<1>6. session_sptr_queue[self][1] \in Session
  BY <1>5, ElementOfSeq DEF TypeOK
<1>7. session_sptr_queue[self] # <<>>
  BY <1>3, <1>4, EmptySeq
<1>8. QED
  BY <1>1, <1>2, <1>3, <1>5, <1>6, <1>7 DEF WaitsAt, Aligned

LEMMA NobodyNever ==
  ASSUME TypeOK, OneCallback, AnswerInv
  PROVE  ~DeliverToNobody
BY AnswerFacts DEF DeliverToNobody

\* An answer is handed out and its owner leaves the queue.
LEMMA AlignedDeliver ==
  ASSUME TypeOK, NEW c \in Conn, Aligned(c), self = c, todo # <<>>,
         session_sptr_queue[c] # <<>>, NextMessage,
         session_sptr_queue'[c] = Tail(session_sptr_queue[c]),
         UNCHANGED <<sent, fromRedis, toRedis>>
  PROVE  Aligned(c)'
<1> DEFINE q == session_sptr_queue[c]
           r == session_sptr_queue'[c]
           h == Len(todo)
           f == Len(fromRedis[c])
<1>1. /\ q \in Seq(Session) /\ Len(r) = Len(q) - 1 /\ Len(q) \in Nat
      /\ \A i \in 1..Len(q) - 1 : r[i] = q[i + 1]
  BY HeadTailProperties, LenProperties DEF TypeOK
<1>2. /\ h \in Nat \ {0} /\ Len(todo') = h - 1
      /\ \A i \in 1..h - 1 : todo'[i] = todo[i + 1]
  BY HeadTailProperties, LenProperties, EmptySeq DEF TypeOK, NextMessage
<1>3. InHand(c) = h /\ InHand(c)' = h - 1
  BY <1>2 DEF InHand, NextMessage
<1>4. f \in Nat /\ Replied(c) = h + f /\ Replied(c)' = h - 1 + f
  BY <1>3, LenProperties DEF Replied, TypeOK
<1>5. h + f \in 0..Len(q)
  BY <1>4, AlignedLengths
<1>6. /\ Len(toRedis[c]) = 2 * (Len(q) - (h + f))
      /\ \A i \in 1..h : todo[i] = <<Element(q[i])>>
      /\ \A i \in 1..f : fromRedis[c][i] = Element(q[h + i])
      /\ \A i \in 1..Len(q) - (h + f) :
           /\ toRedis[c][2 * i - 1] = Header(q[h + f + i])
           /\ toRedis[c][2 * i] = Element(q[h + f + i])
  BY <1>3, <1>4 DEF Aligned
<1> HIDE DEF h, f
<1>7. \A i \in 1..h - 1 : todo'[i] = <<Element(r[i])>>
  <2> SUFFICES ASSUME NEW i \in 1..h - 1 PROVE todo'[i] = <<Element(r[i])>>
    OBVIOUS
  <2>1. i + 1 \in 1..h /\ i \in 1..Len(q) - 1
    BY <1>1, <1>2, <1>4, <1>5
  <2>2. QED
    BY <1>1, <1>2, <1>6, <2>1
<1>8. \A i \in 1..f : fromRedis[c][i] = Element(r[h - 1 + i])
  <2> SUFFICES ASSUME NEW i \in 1..f PROVE fromRedis[c][i] = Element(r[h - 1 + i])
    OBVIOUS
  <2>1. h - 1 + i \in 1..Len(q) - 1 /\ h - 1 + i + 1 = h + i
    BY <1>1, <1>2, <1>4, <1>5
  <2>2. r[h - 1 + i] = q[h + i]
    BY <1>1, <2>1
  <2>3. QED
    BY <1>6, <2>2
<1>9. /\ Len(r) - (h - 1 + f) = Len(q) - (h + f)
      /\ Len(toRedis[c]) = 2 * (Len(r) - (h - 1 + f))
  BY <1>1, <1>2, <1>4, <1>6
<1>10. \A i \in 1..Len(q) - (h + f) :
         /\ toRedis[c][2 * i - 1] = Header(r[h - 1 + f + i])
         /\ toRedis[c][2 * i] = Element(r[h - 1 + f + i])
  <2> SUFFICES ASSUME NEW i \in 1..Len(q) - (h + f)
               PROVE  /\ toRedis[c][2 * i - 1] = Header(r[h - 1 + f + i])
                      /\ toRedis[c][2 * i] = Element(r[h - 1 + f + i])
    OBVIOUS
  <2>1. h - 1 + f + i \in 1..Len(q) - 1 /\ h - 1 + f + i + 1 = h + f + i
    BY <1>1, <1>2, <1>4, <1>5
  <2>2. r[h - 1 + f + i] = q[h + f + i]
    BY <1>1, <2>1
  <2>3. QED
    BY <1>6, <2>2
<1>11. QED
  <2>1. /\ InHand(c)' = h - 1 /\ Replied(c)' = h - 1 + f
        /\ fromRedis' = fromRedis /\ toRedis' = toRedis /\ Len(fromRedis[c]) = f
    BY <1>3, <1>4 DEF f
  <2> HIDE DEF q, r
  <2> DEFINE hd(s) == [t |-> "arr", s |-> s, n |-> sent'[s]]
             el(s) == [t |-> "one", s |-> s, n |-> sent'[s]]
  <2>2. \A s : hd(s) = Header(s) /\ el(s) = Element(s)
    BY DEF Header, Element
  <2> HIDE DEF hd, el
  <2>3. \A i \in 1..h - 1 : todo'[i] = <<el(r[i])>>
    BY <1>7, <2>2
  <2>4. \A i \in 1..f : fromRedis[c][i] = el(r[h - 1 + i])
    BY <1>8, <2>2
  <2>5. \A i \in 1..Len(q) - (h + f) :
          /\ toRedis[c][2 * i - 1] = hd(r[h - 1 + f + i])
          /\ toRedis[c][2 * i] = el(r[h - 1 + f + i])
    <3> SUFFICES ASSUME NEW i \in 1..Len(q) - (h + f)
                 PROVE  /\ toRedis[c][2 * i - 1] = hd(r[h - 1 + f + i])
                        /\ toRedis[c][2 * i] = el(r[h - 1 + f + i])
      OBVIOUS
    <3>1. /\ toRedis[c][2 * i - 1] = Header(r[h - 1 + f + i])
          /\ toRedis[c][2 * i] = Element(r[h - 1 + f + i])
      BY <1>10
    <3>2. QED
      BY <2>2, <3>1
  <2>6. \A i \in 1..InHand(c)' : todo'[i] = <<el(session_sptr_queue'[c][i])>>
    BY <2>1, <2>3 DEF r
  <2>7. \A i \in 1..Len(fromRedis'[c]) :
          fromRedis'[c][i] = el(session_sptr_queue'[c][InHand(c)' + i])
    BY <2>1, <2>4 DEF r
  <2>8. Len(toRedis'[c]) = 2 * (Len(session_sptr_queue'[c]) - Replied(c)')
    BY <1>9, <2>1 DEF r
  <2>9. \A i \in 1..Len(session_sptr_queue'[c]) - Replied(c)' :
          /\ toRedis'[c][2 * i - 1] = hd(session_sptr_queue'[c][Replied(c)' + i])
          /\ toRedis'[c][2 * i] = el(session_sptr_queue'[c][Replied(c)' + i])
    BY <1>9, <2>1, <2>5 DEF r
  <2>10. QED
    BY <2>6, <2>7, <2>8, <2>9 DEF Aligned, Header, Element, hd, el

\* The owner in front gets the answer to its command, unless it is closing.
LEMMA DeliverFacts ==
  ASSUME TypeOK, OneCallback, AnswerInv, Deliver
  PROVE  \E s \in Session :
           /\ s = session_sptr_queue[self][1]
           /\ sent[s] = Len(got[s]) + 1
           /\ Element(s) \in Item
           /\ got' = [got EXCEPT ![s] = Append(@, Element(s))] \/ got' = got
<1>1. PICK s : s = session_sptr_queue[self][1]
  OBVIOUS
<1>2. /\ self \in Conn /\ s \in Session /\ WaitsAt(s, self, 1)
      /\ Head(todo) = <<Element(s)>> /\ Head(session_sptr_queue[self]) = s
  BY <1>1, AnswerFacts DEF Deliver
<1>3. sent[s] = Len(got[s]) + 1
  BY <1>2 DEF AnswerInv, PlaceInv
<1>4. got[s] \in Seq(Item) /\ Element(s) \in Item
  BY <1>2, <1>3, CommandFacts DEF TypeOK
<1>5. got' = [got EXCEPT ![s] = @ \o <<Element(s)>>] \/ got' = got
  BY <1>2 DEF Deliver
<1>6. got[s] \o <<Element(s)>> = Append(got[s], Element(s))
  BY <1>4, AppendIsConcat
<1>7. QED
  BY <1>1, <1>2, <1>3, <1>4, <1>5, <1>6

LEMMA DeliverAnswer ==
  ASSUME TypeOK, OneCallback, AnswerInv, Deliver
  PROVE  AnswerInv'
<1>0. PICK c \in Conn : self = c
  BY DEF Deliver
<1> DEFINE q == session_sptr_queue[c]
<1>1. PICK s : Head(q) = s /\ q[1] = s /\ NextMessage
  BY <1>0 DEF Deliver
<1>2. /\ conn[c] = "up" /\ Aligned(c) /\ todo # <<>> /\ Len(todo) \in Nat \ {0}
      /\ q # <<>> /\ s \in Session /\ WaitsAt(s, c, 1) /\ Head(todo) = <<Element(s)>>
  BY <1>0, <1>1, AnswerFacts
<1>3. /\ sent[s] = Len(got[s]) + 1 /\ ~Unread(s)
      /\ \A d \in Conn, i \in Nat : WaitsAt(s, d, i) => d = c /\ i = 1
  BY <1>1, <1>2 DEF AnswerInv, PlaceInv
<1>4. /\ session_sptr_queue' = [session_sptr_queue EXCEPT ![c] = Tail(@)]
      /\ UNCHANGED <<inbuf, conn, rbuf, stream, sent, redisVars>>
      /\ self' \in {c, None}
  BY <1>0, <1>1 DEF Deliver, NextMessage
<1>5. got' = [got EXCEPT ![s] = Append(@, Element(s))] \/ got' = got
  BY <1>0, <1>1, DeliverFacts
<1>6. /\ session_sptr_queue'[c] = Tail(q)
      /\ \A d \in Conn : d # c => session_sptr_queue'[d] = session_sptr_queue[d]
  BY <1>1, <1>4 DEF TypeOK
<1>7. \A x \in Session : x # s => got'[x] = got[x]
  BY <1>5 DEF TypeOK
<1>8. /\ Len(got[s]) \in Nat
      /\ \/ /\ Len(got'[s]) = Len(got[s]) + 1
            /\ \A i \in 1..Len(got[s]) : got'[s][i] = got[s][i]
            /\ got'[s][Len(got[s]) + 1] = Element(s)
         \/ got'[s] = got[s]
  <2>1. got[s] \in Seq(Item) /\ Element(s) \in Item
    BY <1>2, <1>3, CommandFacts DEF TypeOK
  <2>2. got'[s] = Append(got[s], Element(s)) \/ got'[s] = got[s]
    BY <1>2, <1>5 DEF TypeOK
  <2>3. QED
    BY <2>1, <2>2, AppendProperties, LenProperties
<1> HIDE DEF q
<1>9. StreamInv' /\ HandInv'
  BY <1>0, <1>4 DEF AnswerInv, StreamInv, HandInv, Header, Element
<1>10. QueueInv'
  <2>1. Aligned(c)'
    <3>1. /\ session_sptr_queue[c] # <<>>
          /\ session_sptr_queue'[c] = Tail(session_sptr_queue[c])
      BY <1>2, <1>6 DEF q
    <3>2. UNCHANGED <<sent, fromRedis, toRedis>>
      BY <1>4 DEF redisVars
    <3>3. QED
      BY <1>0, <1>1, <1>2, <3>1, <3>2, AlignedDeliver
  <2>2. ASSUME NEW d \in Conn, d # c PROVE Aligned(d) => Aligned(d)'
    <3>1. InHand(d) = 0 /\ InHand(d)' = 0 /\ 1..0 = {}
      BY <1>0, <1>4, <2>2 DEF InHand
    <3>2. QED
      BY <1>4, <1>6, <2>2, <3>1, AlignedFrame DEF redisVars
  <2>3. QED
    <3>1. \A d \in Conn : conn[d] # "up" => d # c /\ self' # d /\ self # d
      BY <1>0, <1>2, <1>4
    <3>2. QED
      BY <1>2, <1>4, <1>6, <2>1, <2>2, <3>1 DEF AnswerInv, QueueInv, redisVars
<1>11. GotInv'
  <2> SUFFICES ASSUME NEW x \in Session, NEW i \in 1..Len(got'[x])
               PROVE  got'[x][i] = [t |-> "one", s |-> x, n |-> i]
    BY DEF GotInv
  <2>1. CASE got'[x] = got[x]
    BY <2>1 DEF AnswerInv, GotInv
  <2>2. CASE got'[x] # got[x]
    <3>1. /\ x = s /\ Len(got'[s]) = Len(got[s]) + 1
          /\ \A j \in 1..Len(got[s]) : got'[s][j] = got[s][j]
          /\ got'[s][Len(got[s]) + 1] = Element(s)
      BY <1>7, <1>8, <2>2
    <3>2. i \in 1..Len(got[s]) \/ i = Len(got[s]) + 1
      BY <1>8, <3>1
    <3>3. Element(s) = [t |-> "one", s |-> s, n |-> Len(got[s]) + 1]
      BY <1>3 DEF Element
    <3>4. QED
      BY <3>1, <3>2, <3>3 DEF AnswerInv, GotInv
  <2>3. QED
    BY <2>1, <2>2
<1>12. PlaceInv'
  <2>1. ASSUME NEW x \in Session, NEW d \in Conn, NEW i \in Nat, WaitsAt(x, d, i)'
        PROVE  x # s /\ WaitsAt(x, d, IF d = c THEN i + 1 ELSE i)
    <3>1. CASE d # c
      <4>1. WaitsAt(x, d, i)
        BY <1>4, <1>6, <2>1, <3>1 DEF WaitsAt
      <4>2. QED
        BY <1>3, <3>1, <4>1
    <3>2. CASE d = c
      <4>1. /\ Len(Tail(q)) = Len(q) - 1 /\ Len(q) \in Nat
            /\ \A j \in 1..Len(q) - 1 : Tail(q)[j] = q[j + 1]
        <5>1. q \in Seq(Session)
          BY DEF TypeOK, q
        <5>2. QED
          BY <1>2, <5>1, HeadTailProperties, LenProperties
      <4>2. i \in 1..Len(q) - 1 /\ Tail(q)[i] = x
        BY <1>6, <2>1, <3>2, <4>1 DEF WaitsAt
      <4>3. i + 1 \in 1..Len(q) /\ q[i + 1] = x /\ i + 1 # 1
        BY <4>1, <4>2
      <4>4. WaitsAt(x, c, i + 1)
        BY <1>2, <4>3 DEF WaitsAt, q
      <4>5. QED
        BY <1>3, <3>2, <4>3, <4>4
    <3>3. QED
      BY <3>1, <3>2
  <2>2. \A x \in Session : (Unread(x)' <=> Unread(x)) /\ self' # x
    BY <1>0, <1>4 DEF Unread
  <2>3. \A x \in Session : sent'[x] \in {Len(got'[x]), Len(got'[x]) + 1}
    BY <1>2, <1>3, <1>4, <1>7, <1>8 DEF AnswerInv, PlaceInv
  <2>4. \A x \in Session : Unread(x)' => sent'[x] = Len(got'[x]) + 1
    BY <1>3, <1>4, <1>7, <2>2 DEF AnswerInv, PlaceInv
  <2>5. \A x \in Session, d \in Conn, i \in Nat :
          WaitsAt(x, d, i)' => ~Unread(x)' /\ sent'[x] = Len(got'[x]) + 1
    BY <1>4, <1>7, <2>1, <2>2 DEF AnswerInv, PlaceInv
  <2>6. ASSUME NEW x \in Session, NEW d \in Conn, NEW e \in Conn, NEW i \in Nat, NEW j \in Nat,
               WaitsAt(x, d, i)', WaitsAt(x, e, j)'
        PROVE  d = e /\ i = j
    <3> DEFINE k == IF d = c THEN i + 1 ELSE i
               l == IF e = c THEN j + 1 ELSE j
    <3>1. WaitsAt(x, d, k) /\ WaitsAt(x, e, l)
      BY <2>1, <2>6
    <3>2. k \in Nat /\ l \in Nat
      OBVIOUS
    <3> HIDE DEF k, l
    <3>3. d = e /\ k = l
      BY <3>1, <3>2 DEF AnswerInv, PlaceInv
    <3>4. QED
      BY <3>3 DEF k, l
  <2>7. QED
    BY <2>2, <2>3, <2>4, <2>5, <2>6 DEF PlaceInv
<1>13. QED
  BY <1>9, <1>10, <1>11, <1>12 DEF AnswerInv

\* Replies that were in the socket are in hand.
LEMMA AlignedRead ==
  ASSUME TypeOK, NEW c \in Conn, Aligned(c), self # c, self' = c,
         NEW k \in 1..Len(fromRedis[c]),
         Len(todo') = k,
         \A i \in 1..k : todo'[i] = <<fromRedis[c][i]>>,
         fromRedis'[c] = Behind(fromRedis[c], k),
         UNCHANGED <<sent, session_sptr_queue, toRedis>>
  PROVE  Aligned(c)'
<1> DEFINE q == session_sptr_queue[c]
           f == Len(fromRedis[c])
<1>1. f \in Nat /\ k \in Nat \ {0} /\ k <= f /\ InHand(c) = 0
  BY LenProperties DEF TypeOK, InHand
<1>2. /\ Len(fromRedis'[c]) = f - k
      /\ \A i \in 1..f - k : fromRedis'[c][i] = fromRedis[c][k + i]
  <2> DEFINE g == fromRedis[c]
  <2>1. g \in Seq(Item) /\ k \in Nat /\ k <= Len(g)
    BY <1>1 DEF TypeOK
  <2> HIDE DEF g
  <2>2. /\ Len(Behind(g, k)) = Len(g) - k
        /\ \A i \in 1..Len(g) - k : Behind(g, k)[i] = g[k + i]
    BY <2>1, BehindFacts
  <2>3. QED
    BY <2>2 DEF f, g
<1>3. InHand(c)' = k /\ Replied(c)' = f /\ Replied(c) = f
  <2>1. InHand(c)' = k
    BY DEF InHand
  <2>2. Replied(c)' = k + Len(fromRedis'[c]) /\ Replied(c) = 0 + f
    BY <1>1, <2>1 DEF Replied
  <2> HIDE DEF f
  <2>3. QED
    BY <1>1, <1>2, <2>1, <2>2
<1> HIDE DEF f
<1>4. \A i \in 1..f : fromRedis[c][i] = Element(q[i])
  <2> SUFFICES ASSUME NEW i \in 1..f PROVE fromRedis[c][i] = Element(q[i])
    OBVIOUS
  <2>1. fromRedis[c][i] = Element(q[0 + i])
    BY <1>1 DEF Aligned, f
  <2>2. 0 + i = i
    BY <1>1
  <2>3. QED
    BY <2>1, <2>2
<1>5. \A i \in 1..k : todo'[i] = <<Element(q[i])>>
  BY <1>1, <1>4
<1>6. \A i \in 1..f - k : fromRedis'[c][i] = Element(q[k + i])
  <2> SUFFICES ASSUME NEW i \in 1..f - k PROVE fromRedis'[c][i] = Element(q[k + i])
    OBVIOUS
  <2>1. k + i \in 1..f
    BY <1>1
  <2>2. QED
    BY <1>2, <1>4, <2>1
<1>7. QED
  BY <1>2, <1>3, <1>5, <1>6 DEF Aligned, Header, Element

\* What a read makes of replies of one item.
LEMMA OnesRead ==
  ASSUME NEW data \in Seq(Item), \A i \in 1..Len(data) : data[i].t = "one",
         NEW buf, buf = data \/ buf = Append(data, Part)
  PROVE  /\ Len(Messages(buf)) = Len(data) /\ Consumed(buf) = Len(data)
         /\ \A i \in 1..Len(data) : Messages(buf)[i] = <<data[i]>>
<1>1. Part.t = "part"
  BY DEF Part
<1>2. QED
  BY <1>1, OnesFraming

\* Every reply in the socket is a message, and all that is read is drained.
LEMMA ConnReadFacts ==
  ASSUME Waiting, TypeOK, QueueInv, NEW c \in Conn, ConnRead(c), ~cut'
  PROVE  /\ self = None /\ self' = c /\ conn[c] = "up" /\ rbuf'[c] = <<>>
         /\ \E k \in 1..Len(fromRedis[c]) :
              /\ Len(todo') = k
              /\ \A i \in 1..k : todo'[i] = <<fromRedis[c][i]>>
              /\ fromRedis' = [fromRedis EXCEPT ![c] = Behind(fromRedis[c], k)]
<1>1. self = None /\ conn[c] = "up" /\ self' = IF todo' = <<>> THEN None ELSE c
  BY DEF ConnRead, Idle
<1>2. PICK k \in 1..Len(fromRedis[c]), p \in BOOLEAN :
        /\ Readable(rbuf[c], SubSeq(fromRedis[c], 1, k), p)
        /\ rbuf' = [rbuf EXCEPT ![c] = Left(rbuf[c], SubSeq(fromRedis[c], 1, k), p)]
        /\ fromRedis' = [fromRedis EXCEPT ![c] = Behind(fromRedis[c], k)]
  BY DEF ConnRead
<1> DEFINE data == SubSeq(fromRedis[c], 1, k)
           buf == IF p THEN Append(data, Part) ELSE data
<1>3. fromRedis[c] \in Seq(Item) /\ Len(fromRedis[c]) \in Nat /\ k \in Nat
  BY LenProperties DEF TypeOK
<1>4. /\ data \in Seq(Item) /\ Len(data) = k
      /\ \A i \in 1..k : data[i] = fromRedis[c][i]
  <2>1. \A i \in 1..k : fromRedis[c][i] \in Item
    BY <1>3, ElementOfSeq
  <2>2. /\ data \in Seq(Item) /\ Len(data) = IF 1 <= k THEN k - 1 + 1 ELSE 0
        /\ \A i \in 1..k - 1 + 1 : data[i] = fromRedis[c][1 + i - 1]
    <3>1. 1 \in Int /\ k \in Int
      BY <1>3
    <3>2. QED
      BY <2>1, <3>1, SubSeqProperties
  <2> HIDE DEF data
  <2>3. k - 1 + 1 = k /\ 1 <= k /\ \A i \in 1..k : 1 + i - 1 = i
    BY <1>3
  <2>4. QED
    BY <2>2, <2>3
<1>5. \A i \in 1..k : fromRedis[c][i].t = "one"
  <2>1. Aligned(c)
    BY <1>1 DEF QueueInv
  <2>2. \A i \in 1..k : i \in 1..Len(fromRedis[c])
    BY <1>3
  <2> SUFFICES ASSUME NEW i \in 1..k PROVE fromRedis[c][i].t = "one"
    OBVIOUS
  <2>3. fromRedis[c][i] = Element(session_sptr_queue[c][InHand(c) + i])
    BY <2>1, <2>2 DEF Aligned
  <2>4. QED
    BY <2>3 DEF Element
<1> HIDE DEF data
<1>6. rbuf[c] \o data = data
  BY <1>4, ConcatEmptySeq DEF QueueInv
<1>7. todo' = Messages(buf) /\ Left(rbuf[c], data, p) = Behind(data, Consumed(buf))
  BY <1>2, <1>6 DEF Readable, Left, data
<1>8. buf = data \/ buf = Append(data, Part)
  OBVIOUS
<1>9. /\ Len(Messages(buf)) = k /\ Consumed(buf) = k
      /\ \A i \in 1..k : Messages(buf)[i] = <<data[i]>>
  <2>1. \A i \in 1..Len(data) : data[i].t = "one"
    BY <1>4, <1>5
  <2> HIDE DEF buf
  <2>2. /\ Len(Messages(buf)) = Len(data) /\ Consumed(buf) = Len(data)
        /\ \A i \in 1..Len(data) : Messages(buf)[i] = <<data[i]>>
    BY <1>4, <1>8, <2>1, OnesRead
  <2>3. QED
    BY <1>4, <2>2
<1>10. Behind(data, k) = <<>>
  <2>1. k <= Len(data)
    BY <1>3, <1>4
  <2>2. Behind(data, k) \in Seq(Item) /\ Len(Behind(data, k)) = Len(data) - k
    BY <1>3, <1>4, <2>1, BehindFacts
  <2>3. Len(data) - k = 0
    BY <1>3, <1>4
  <2>4. QED
    BY <2>2, <2>3, EmptySeq
<1>11. /\ Len(todo') = k
       /\ \A i \in 1..k : todo'[i] = <<fromRedis[c][i]>>
  BY <1>4, <1>7, <1>9
<1>12. todo' # <<>>
  <2>1. Len(<<>>) = 0 /\ k # 0
    BY <1>3, EmptySeq
  <2>2. QED
    BY <1>11, <2>1
<1>13. rbuf'[c] = <<>>
  BY <1>2, <1>7, <1>9, <1>10 DEF TypeOK, data
<1>14. QED
  BY <1>1, <1>2, <1>11, <1>12, <1>13

LEMMA ConnReadAnswer ==
  ASSUME Waiting, TypeOK, AnswerInv, NEW c \in Conn, ConnRead(c), ~cut'
  PROVE  AnswerInv'
<1>1. /\ self = None /\ self' = c /\ conn[c] = "up" /\ rbuf'[c] = <<>>
      /\ \E k \in 1..Len(fromRedis[c]) :
           /\ Len(todo') = k
           /\ \A i \in 1..k : todo'[i] = <<fromRedis[c][i]>>
           /\ fromRedis' = [fromRedis EXCEPT ![c] = Behind(fromRedis[c], k)]
  BY ConnReadFacts DEF AnswerInv
<1>2. /\ UNCHANGED <<sessionVars, conn, session_sptr_queue, clientVars, toRedis>>
      /\ \A d \in Conn : d # c => rbuf'[d] = rbuf[d] /\ fromRedis'[d] = fromRedis[d]
  BY DEF ConnRead, TypeOK
<1>3. UNCHANGED <<inbuf, conn, session_sptr_queue, stream, sent, got, toRedis>>
  BY <1>2 DEF sessionVars, clientVars
<1>4. StreamInv' /\ HandInv'
  BY <1>1, <1>3 DEF AnswerInv, StreamInv, HandInv, Header, Element
<1>5. QueueInv'
  <2>1. Aligned(c)'
    <3>1. Aligned(c)
      BY <1>1 DEF AnswerInv, QueueInv
    <3>2. self # c
      BY <1>1
    <3>3. PICK k \in 1..Len(fromRedis[c]) :
            /\ Len(todo') = k
            /\ \A i \in 1..k : todo'[i] = <<fromRedis[c][i]>>
            /\ fromRedis'[c] = Behind(fromRedis[c], k)
      BY <1>1 DEF TypeOK
    <3>4. QED
      BY <1>1, <1>3, <3>1, <3>2, <3>3, AlignedRead
  <2>2. ASSUME NEW d \in Conn, d # c PROVE Aligned(d) => Aligned(d)'
    <3>1. InHand(d) = 0 /\ InHand(d)' = 0 /\ 1..0 = {}
      BY <1>1, <2>2 DEF InHand
    <3>2. QED
      BY <1>2, <1>3, <2>2, <3>1, AlignedFrame
  <2>3. QED
    BY <1>1, <1>2, <1>3, <2>1, <2>2 DEF AnswerInv, QueueInv
<1>6. PlaceInv' /\ GotInv'
  BY <1>1, <1>3 DEF AnswerInv, PlaceInv, GotInv, WaitsAt, Unread
<1>7. QED
  BY <1>4, <1>5, <1>6 DEF AnswerInv

-----------------------------------------------------------------------------
(* Clients and redis.                                                       *)

\* A client that waits sends only when every command it sent is answered.
LEMMA SendFacts ==
  ASSUME Waiting, TypeOK, AnswerInv, NEW s \in Session, ClientSend(s)
  PROVE  sent[s] = Len(got[s])
<1>1. got[s] \in Seq(Item) /\ Len(got[s]) \in Nat /\ sent[s] \in Nat
  BY LenProperties DEF TypeOK
<1>2. OfKind(got[s], {"one"}) = 1..Len(got[s])
  <2>1. \A i \in 1..Len(got[s]) : got[s][i].t = "one"
    <3> SUFFICES ASSUME NEW i \in 1..Len(got[s]) PROVE got[s][i].t = "one"
      OBVIOUS
    <3>1. got[s][i] = [t |-> "one", s |-> s, n |-> i]
      BY DEF AnswerInv, GotInv
    <3>2. QED
      BY <3>1
  <2>2. QED
    BY <2>1 DEF OfKind
<1>3. Cardinality(1..Len(got[s])) = Len(got[s])
  <2> DEFINE l == Len(got[s])
  <2>1. l \in Nat
    BY <1>1
  <2> HIDE DEF l
  <2>2. Cardinality(1..l) = l
    <3>1. Cardinality(1..l) = IF 1 > l THEN 0 ELSE l - 1 + 1
      BY <2>1, FS_Interval
    <3>2. QED
      BY <2>1, <3>1
  <2>3. QED
    BY <2>2 DEF l
<1>4. sent[s] - Len(got[s]) < Window /\ Window <= 1 /\ Window \in Nat
  BY <1>2, <1>3 DEF ClientSend, Answered, Waiting
<1>5. sent[s] \in {Len(got[s]), Len(got[s]) + 1}
  BY DEF AnswerInv, PlaceInv
<1>6. QED
  BY <1>1, <1>4, <1>5

LEMMA ClientSendAnswer ==
  ASSUME Waiting, TypeOK, AnswerInv, NEW s \in Session, ClientSend(s)
  PROVE  AnswerInv'
<1>1. /\ sent' = [sent EXCEPT ![s] = @ + 1]
      /\ UNCHANGED <<self, todo, inbuf, conn, session_sptr_queue, rbuf, got,
                     toRedis, fromRedis>>
  BY DEF ClientSend, cbVars, sessionVars, connVars, redisVars
<1>2. sent[s] = Len(got[s]) /\ Len(got[s]) \in Nat
  BY SendFacts, LenProperties DEF TypeOK
<1>3. /\ sent'[s] = Len(got[s]) + 1
      /\ \A x \in Session : x # s => sent'[x] = sent[x] /\ stream'[x] = stream[x]
  BY <1>1, <1>2 DEF ClientSend, TypeOK
<1>4. /\ ~Unread(s) /\ self # s
      /\ \A c \in Conn, i \in Nat : ~WaitsAt(s, c, i)
  <2>1. sent[s] # Len(got[s]) + 1
    BY <1>2
  <2>2. QED
    BY <2>1 DEF AnswerInv, PlaceInv
<1>5. stream'[s] = <<[t |-> "arr", s |-> s, n |-> sent'[s]], [t |-> "one", s |-> s, n |-> sent'[s]]>>
  <2> DEFINE pair == <<[t |-> "arr", s |-> s, n |-> sent'[s]], [t |-> "one", s |-> s, n |-> sent'[s]]>>
  <2>1. stream'[s] = stream[s] \o pair /\ stream[s] = <<>>
    BY <1>4 DEF ClientSend, TypeOK, Unread
  <2>2. <<>> \o pair = pair
    BY PairFacts
  <2>3. QED
    BY <2>1, <2>2
<1>6. StreamInv' /\ HandInv'
  <2>1. HandInv'
    BY <1>1, <1>3, <1>4 DEF AnswerInv, HandInv, Header, Element
  <2>2. inbuf'[s] = <<>>
    BY <1>1, <1>4 DEF Unread
  <2>3. StreamInv'
    BY <1>1, <1>3, <1>5, <2>2 DEF AnswerInv, StreamInv, Header, Element
  <2>4. QED
    BY <2>1, <2>3
<1>7. QueueInv'
  <2>1. ASSUME NEW c \in Conn, conn[c] = "up", Aligned(c) PROVE Aligned(c)'
    <3>1. \A i \in 1..Len(session_sptr_queue[c]) : session_sptr_queue[c][i] \in Session \ {s}
      <4> SUFFICES ASSUME NEW i \in 1..Len(session_sptr_queue[c])
                   PROVE  session_sptr_queue[c][i] \in Session \ {s}
        OBVIOUS
      <4>1. session_sptr_queue[c] \in Seq(Session) /\ i \in Nat
        BY LenProperties DEF TypeOK
      <4>2. session_sptr_queue[c][i] \in Session
        BY <4>1, ElementOfSeq
      <4>3. ~WaitsAt(s, c, i)
        BY <1>4, <4>1
      <4>4. QED
        BY <2>1, <4>2, <4>3 DEF WaitsAt
    <3>2. InHand(c)' = InHand(c)
      BY <1>1 DEF InHand
    <3>3. QED
      BY <1>1, <1>3, <2>1, <3>1, <3>2, AlignedFrame
  <2>2. QED
    BY <1>1, <2>1 DEF AnswerInv, QueueInv
<1>8. PlaceInv' /\ GotInv'
  <2>1. GotInv'
    BY <1>1 DEF AnswerInv, GotInv
  <2>2. \A x \in Session, c \in Conn, i \in Nat : WaitsAt(x, c, i)' <=> WaitsAt(x, c, i)
    BY <1>1 DEF WaitsAt
  <2>3. \A x \in Session : x # s => (Unread(x)' <=> Unread(x))
    BY <1>1, <1>3 DEF Unread
  <2>4. PlaceInv'
    BY <1>1, <1>2, <1>3, <1>4, <2>2, <2>3 DEF AnswerInv, PlaceInv
  <2>5. QED
    BY <2>1, <2>4
<1>9. QED
  BY <1>6, <1>7, <1>8 DEF AnswerInv

LEMMA ClientCloseAnswer ==
  ASSUME TypeOK, AnswerInv, NEW s \in Session, ClientClose(s)
  PROVE  AnswerInv'
<1>1. PICK rest \in {stream[s], <<>>} : stream' = [stream EXCEPT ![s] = rest]
  BY DEF ClientClose
<1>2. UNCHANGED <<self, todo, inbuf, conn, session_sptr_queue, rbuf, got, sent,
                  toRedis, fromRedis>>
  BY DEF ClientClose, cbVars, sessionVars, connVars, redisVars
<1>3. \A x \in Session : stream'[x] = stream[x] \/ stream'[x] = <<>>
  BY <1>1 DEF TypeOK
<1>4. StreamInv' /\ HandInv'
  BY <1>2, <1>3 DEF AnswerInv, StreamInv, HandInv, Header, Element
<1>5. QueueInv'
  <2>1. \A c \in Conn : Aligned(c) => Aligned(c)'
    BY <1>2, AlignedSame DEF InHand
  <2>2. QED
    BY <1>2, <2>1 DEF AnswerInv, QueueInv
<1>6. PlaceInv' /\ GotInv'
  <2>1. \A x \in Session : Unread(x)' => Unread(x)
    BY <1>2, <1>3 DEF Unread
  <2>2. \A x \in Session, c \in Conn, i \in Nat : WaitsAt(x, c, i)' <=> WaitsAt(x, c, i)
    BY <1>2 DEF WaitsAt
  <2>3. QED
    BY <1>2, <2>1, <2>2 DEF AnswerInv, PlaceInv, GotInv
<1>7. QED
  BY <1>4, <1>5, <1>6 DEF AnswerInv

\* A connection that is lost carries nothing any more.
LEMMA DisconnectedAnswer ==
  ASSUME TypeOK, AnswerInv, NEW c \in Conn, Disconnected(c)
  PROVE  AnswerInv'
<1>1. /\ self = None
      /\ conn' = [conn EXCEPT ![c] = "down"]
      /\ rbuf' = [rbuf EXCEPT ![c] = <<>>]
      /\ toRedis' = [toRedis EXCEPT ![c] = <<>>]
      /\ fromRedis' = [fromRedis EXCEPT ![c] = <<>>]
      /\ UNCHANGED <<self, todo, inbuf, session_sptr_queue, stream, sent, got>>
  BY DEF Disconnected, Idle, cbVars, sessionVars, clientVars
<1>2. StreamInv' /\ HandInv'
  BY <1>1 DEF AnswerInv, StreamInv, HandInv, Header, Element
<1>3. QueueInv'
  <2>1. ASSUME NEW d \in Conn, d # c PROVE Aligned(d) => Aligned(d)'
    <3>1. fromRedis'[d] = fromRedis[d] /\ toRedis'[d] = toRedis[d]
      BY <1>1, <2>1 DEF TypeOK
    <3>2. QED
      BY <1>1, <3>1, AlignedSame DEF InHand
  <2>2. /\ conn'[c] = "down" /\ rbuf'[c] = <<>> /\ toRedis'[c] = <<>> /\ fromRedis'[c] = <<>>
        /\ self' # c
        /\ \A d \in Conn : d # c => /\ conn'[d] = conn[d] /\ rbuf'[d] = rbuf[d]
                                    /\ toRedis'[d] = toRedis[d] /\ fromRedis'[d] = fromRedis[d]
    BY <1>1 DEF TypeOK
  <2>3. QED
    BY <1>1, <2>1, <2>2 DEF AnswerInv, QueueInv
<1>4. PlaceInv' /\ GotInv'
  <2>1. \A x \in Session, d \in Conn, i \in Nat : WaitsAt(x, d, i)' => WaitsAt(x, d, i)
    BY <1>1 DEF WaitsAt, TypeOK
  <2>2. QED
    BY <1>1, <2>1 DEF AnswerInv, PlaceInv, GotInv, Unread
<1>5. QED
  BY <1>2, <1>3, <1>4 DEF AnswerInv

\* The command at the front becomes a reply behind all others.
LEMMA AlignedServe ==
  ASSUME TypeOK, NEW c \in Conn, Aligned(c), Len(toRedis[c]) >= 2,
         NEW e \in Item, e = Element(session_sptr_queue[c][Replied(c) + 1]),
         fromRedis'[c] = Append(fromRedis[c], e),
         toRedis'[c] = Behind(toRedis[c], 2),
         UNCHANGED <<self, todo, session_sptr_queue, sent>>
  PROVE  Aligned(c)'
<1> DEFINE q == session_sptr_queue[c]
           t == toRedis[c]
           u == toRedis'[c]
           h == InHand(c)
           f == Len(fromRedis[c])
           n == Len(q) - (h + f)
<1>1. /\ Len(q) \in Nat /\ h \in Nat /\ f \in Nat /\ Replied(c) = h + f
      /\ h + f \in 0..Len(q)
  BY AlignedLengths
<1>2. /\ Len(fromRedis'[c]) = f + 1 /\ fromRedis'[c][f + 1] = e
      /\ \A i \in 1..f : fromRedis'[c][i] = fromRedis[c][i]
  BY AppendProperties DEF TypeOK
<1>3. InHand(c)' = h /\ Replied(c)' = h + (f + 1)
  <2>1. InHand(c)' = h
    BY DEF InHand
  <2>2. QED
    BY <1>2, <2>1 DEF Replied
<1>4. /\ Len(t) = 2 * n
      /\ \A i \in 1..h : todo[i] = <<Element(q[i])>>
      /\ \A i \in 1..f : fromRedis[c][i] = Element(q[h + i])
      /\ \A i \in 1..n : t[2 * i - 1] = Header(q[h + f + i]) /\ t[2 * i] = Element(q[h + f + i])
  BY <1>1 DEF Aligned
<1>5. n \in Nat \ {0} /\ Len(q) = h + f + n
  <2>1. n \in Nat /\ Len(q) = h + f + n
    <3> HIDE DEF q, h, f
    <3> QED
      BY <1>1
  <2> HIDE DEF n, h, f
  <2>2. n # 0
    BY <1>4
  <2>3. QED
    BY <2>1, <2>2
<1>6. /\ Len(u) = 2 * n - 2
      /\ \A i \in 1..2 * n - 2 : u[i] = t[2 + i]
  <2>1. t \in Seq(Item) /\ 2 <= Len(t) /\ u = Behind(t, 2)
    BY DEF TypeOK
  <2> HIDE DEF t, u
  <2>2. /\ Len(u) = Len(t) - 2
        /\ \A i \in 1..Len(t) - 2 : u[i] = t[2 + i]
    <3>1. /\ Len(Behind(t, 2)) = Len(t) - 2
          /\ \A i \in 1..Len(t) - 2 : Behind(t, 2)[i] = t[2 + i]
      <4>1. PICK k \in Nat : k = 2
        OBVIOUS
      <4>2. k <= Len(t) /\ t \in Seq(Item)
        BY <2>1, <4>1
      <4>3. /\ Len(Behind(t, k)) = Len(t) - k
            /\ \A i \in 1..Len(t) - k : Behind(t, k)[i] = t[k + i]
        BY <4>2, BehindFacts
      <4>4. QED
        BY <4>1, <4>3
    <3>2. QED
      BY <2>1, <3>1
  <2> HIDE DEF n
  <2>3. QED
    BY <1>4, <2>2
<1> HIDE DEF n, h, f
<1>7. \A i \in 1..f + 1 : fromRedis'[c][i] = Element(q[h + i])
  <2> SUFFICES ASSUME NEW i \in 1..f + 1 PROVE fromRedis'[c][i] = Element(q[h + i])
    OBVIOUS
  <2>1. CASE i = f + 1
    <3>1. Replied(c) + 1 = h + (f + 1)
      BY <1>1
    <3>2. QED
      BY <1>2, <2>1, <3>1
  <2>2. CASE i # f + 1
    <3>1. i \in 1..f
      BY <1>1, <2>2
    <3>2. QED
      BY <1>2, <1>4, <3>1
  <2>3. QED
    BY <2>1, <2>2
<1>8. \A i \in 1..n - 1 : /\ u[2 * i - 1] = Header(q[h + (f + 1) + i])
                          /\ u[2 * i] = Element(q[h + (f + 1) + i])
  <2> SUFFICES ASSUME NEW i \in 1..n - 1
               PROVE  /\ u[2 * i - 1] = Header(q[h + (f + 1) + i])
                      /\ u[2 * i] = Element(q[h + (f + 1) + i])
    OBVIOUS
  <2>1. i \in Nat /\ n \in Nat /\ i + 1 \in 1..n
    BY <1>5
  <2>2. 2 * i - 1 \in 1..2 * n - 2 /\ 2 * i \in 1..2 * n - 2
    BY <1>5, <2>1
  <2>3. 2 + (2 * i - 1) = 2 * (i + 1) - 1 /\ 2 + 2 * i = 2 * (i + 1)
    BY <2>1
  <2>4. h + (f + 1) + i = h + f + (i + 1)
    BY <1>1, <2>1
  <2>5. t[2 * (i + 1) - 1] = Header(q[h + f + (i + 1)]) /\ t[2 * (i + 1)] = Element(q[h + f + (i + 1)])
    BY <1>4, <2>1
  <2>6. u[2 * i - 1] = t[2 + (2 * i - 1)] /\ u[2 * i] = t[2 + 2 * i]
    BY <1>6, <2>2
  <2>7. QED
    BY <2>3, <2>4, <2>5, <2>6
<1>9. Len(q) - (h + (f + 1)) = n - 1 /\ Len(u) = 2 * (n - 1)
  <2> HIDE DEF q, t, u
  <2>1. n \in Nat /\ 2 * n - 2 = 2 * (n - 1)
    BY <1>5
  <2>2. QED
    BY <1>1, <1>5, <1>6, <2>1
<1>10. QED
  <2> HIDE DEF q, u
  <2>1. session_sptr_queue'[c] = q
    BY DEF q
  <2>2. QED
    BY <1>2, <1>3, <1>4, <1>7, <1>8, <1>9, <2>1, SMTT(30) DEF Aligned, Header, Element, u

\* What is in the socket to redis is commands, each a header and its element.
LEMMA ServeFacts ==
  ASSUME TypeOK, AnswerInv, NEW c \in Conn, toRedis[c] # <<>>
  PROVE  /\ conn[c] = "up" /\ Aligned(c) /\ Len(toRedis[c]) >= 2
         /\ toRedis[c][1] = Header(session_sptr_queue[c][Replied(c) + 1])
         /\ toRedis[c][2] = Element(session_sptr_queue[c][Replied(c) + 1])
         /\ toRedis[c][2] \in Item
<1>1. conn[c] = "up" /\ Aligned(c)
  BY DEF AnswerInv, QueueInv
<1> DEFINE n == Len(session_sptr_queue[c]) - Replied(c)
           t == toRedis[c]
<1>2. n \in Nat /\ Len(t) = 2 * n /\ t \in Seq(Item) /\ Len(t) # 0
  <2>1. n \in Nat
    BY <1>1, AlignedLengths
  <2>2. QED
    BY <1>1, <2>1, EmptySeq DEF Aligned, TypeOK
<1>3. \A i \in 1..n : /\ t[2 * i - 1] = Header(session_sptr_queue[c][Replied(c) + i])
                      /\ t[2 * i] = Element(session_sptr_queue[c][Replied(c) + i])
  BY <1>1 DEF Aligned
<1> HIDE DEF n, t
<1>4. n >= 1 /\ Len(t) >= 2 /\ 2 * 1 - 1 = 1 /\ 2 * 1 = 2
  BY <1>2
<1>5. t[2] \in Item
  BY <1>2, <1>4, ElementOfSeq
<1>6. t[2 * 1 - 1] = Header(session_sptr_queue[c][Replied(c) + 1])
      /\ t[2 * 1] = Element(session_sptr_queue[c][Replied(c) + 1])
  <2>1. 1 \in 1..n
    BY <1>2, <1>4
  <2>2. QED
    BY <1>3, <2>1, Zenon
<1>7. QED
  BY <1>1, <1>4, <1>5, <1>6 DEF t

LEMMA RedisServeAnswer ==
  ASSUME Waiting, TypeOK, AnswerInv, NEW c \in Conn, RedisServe(c)
  PROVE  AnswerInv'
<1> DEFINE e == toRedis[c][2]
<1>1. /\ UNCHANGED <<self, todo, inbuf, conn, session_sptr_queue, rbuf, stream,
                     sent, got>>
      /\ toRedis' = [toRedis EXCEPT ![c] = Behind(@, 2)]
      /\ toRedis[c] # <<>>
  BY EmptySeq DEF RedisServe, cbVars, sessionVars, connVars, clientVars
<1>2. /\ conn[c] = "up" /\ Aligned(c) /\ Len(toRedis[c]) >= 2 /\ e \in Item
      /\ e = Element(session_sptr_queue[c][Replied(c) + 1])
  BY <1>1, ServeFacts
<1>3. fromRedis' = [fromRedis EXCEPT ![c] = Append(@, e)]
  <2>1. fromRedis' = [fromRedis EXCEPT ![c] = @ \o <<e>>]
    BY DEF RedisServe, Reply, Waiting
  <2>2. fromRedis[c] \o <<e>> = Append(fromRedis[c], e)
    BY <1>2, AppendIsConcat DEF TypeOK
  <2>3. QED
    BY <2>1, <2>2
<1>4. StreamInv' /\ HandInv'
  BY <1>1 DEF AnswerInv, StreamInv, HandInv, Header, Element
<1>5. QueueInv'
  <2>1. Aligned(c)'
    <3>1. /\ fromRedis'[c] = Append(fromRedis[c], e)
          /\ toRedis'[c] = Behind(toRedis[c], 2)
      BY <1>1, <1>3 DEF TypeOK
    <3> HIDE DEF e
    <3>2. QED
      BY <1>1, <1>2, <3>1, AlignedServe
  <2>2. ASSUME NEW d \in Conn, d # c
        PROVE  /\ toRedis'[d] = toRedis[d] /\ fromRedis'[d] = fromRedis[d]
               /\ Aligned(d) => Aligned(d)'
    <3>1. toRedis'[d] = toRedis[d] /\ fromRedis'[d] = fromRedis[d]
      BY <1>1, <1>3, <2>2 DEF TypeOK
    <3>2. QED
      BY <1>1, <3>1, AlignedSame DEF InHand
  <2>3. QED
    BY <1>1, <1>2, <2>1, <2>2 DEF AnswerInv, QueueInv
<1>6. PlaceInv' /\ GotInv'
  BY <1>1 DEF AnswerInv, PlaceInv, GotInv, WaitsAt, Unread
<1>7. QED
  BY <1>4, <1>5, <1>6 DEF AnswerInv

\* Redis never finds an item that starts no command.
LEMMA RefuseNever ==
  ASSUME TypeOK, AnswerInv, NEW c \in Conn
  PROVE  ~RedisRefuse(c)
<1> SUFFICES ASSUME RedisRefuse(c) PROVE FALSE
  OBVIOUS
<1>1. /\ toRedis[c][1] = Header(session_sptr_queue[c][Replied(c) + 1])
      /\ toRedis[c][2] = Element(session_sptr_queue[c][Replied(c) + 1])
  BY ServeFacts DEF RedisRefuse
<1>2. toRedis[c][1].t = "arr" /\ toRedis[c][2] = [toRedis[c][1] EXCEPT !.t = "one"]
  BY <1>1 DEF Header, Element
<1>3. QED
  BY <1>2 DEF RedisRefuse

-----------------------------------------------------------------------------
(* The theorems.                                                            *)

LEMMA NextAnswerInv ==
  ASSUME Waiting, IInv, AnswerInv, AddInv, [Next]_vars, ~cut'
  PROVE  AnswerInv'
<1>0. TypeOK /\ OneCallback
  BY DEF IInv
<1> USE DEF answerVars, cbVars, sessionVars, connVars, clientVars, redisVars
<1>1. ASSUME UNCHANGED <<answerVars, conn>> PROVE AnswerInv'
  BY <1>1, AnswerFrame
<1>2. CASE ProcessMsg \/ NewListener \/ DelSession \/ PostListener \/ UNCHANGED vars
  BY <1>1, <1>2 DEF ProcessMsg, NewListener, DelSession, PostListener, vars
<1>3. CASE \E s \in Session : Accept(s) \/ ReadEvent(s) \/ WriteEvent(s) \/ Flush(s)
  BY <1>1, <1>3 DEF Accept, ReadEvent, WriteEvent, HandleEvent, Flush
<1>4. CASE \E c \in Conn : PostConn(c) \/ Connected(c)
  <2>1. PICK c \in Conn, st \in {"posted", "up", "refused"} :
          conn[c] \in {"none", "connecting"} /\ conn' = [conn EXCEPT ![c] = st]
    BY <1>4 DEF PostConn, Connected
  <2>2. UNCHANGED answerVars
    BY <1>4 DEF PostConn, Connected
  <2>3. st \in ConnState \ {"none"} /\ conn[c] \notin {"up", "down"}
    BY <2>1 DEF ConnState
  <2>4. QED
    BY <1>0, <2>1, <2>2, <2>3, ConnFrame
<1>5. CASE AddConn
  <2>0. PICK c : c = Head(task_queue).conn
    OBVIOUS
  <2>1. PICK st \in {"connecting", "down"} : conn' = [conn EXCEPT ![c] = st]
    BY <1>5, <2>0 DEF AddConn
  <2>2. /\ batch > 0 /\ Head(task_queue).kind = "ADD_CONN" /\ UNCHANGED answerVars
    BY <1>5 DEF AddConn, Running
  <2>3. Head(task_queue) \in Task /\ Head(task_queue) = task_queue[1] /\ 1 \in 1..Len(task_queue)
    <3>1. task_queue \in Seq(Task) /\ task_queue # <<>> /\ Head(task_queue) \in Task
      BY <1>0, <2>2, HeadTask DEF TypeOK
    <3>2. Len(task_queue) \in Nat \ {0}
      BY <3>1, EmptySeq
    <3>3. QED
      BY <3>1, <3>2
  <2>4. c \in Conn /\ conn[c] = "posted"
    BY <2>0, <2>2, <2>3 DEF Task, AddInv
  <2>5. st \in ConnState \ {"none"} /\ conn[c] \notin {"up", "down"}
    BY <2>4 DEF ConnState
  <2>6. QED
    BY <1>0, <2>1, <2>2, <2>4, <2>5, ConnFrame
<1>6. CASE MessageStep
  BY <1>0, <1>6, DropMessageAnswer, DispatchAnswer, DeliverAnswer, NobodyNever DEF MessageStep
<1>7. CASE \E s \in Session : SessionRead(s) \/ ClientSend(s) \/ ClientClose(s)
  BY <1>0, <1>7, SessionReadAnswer, ClientSendAnswer, ClientCloseAnswer
<1>8. CASE \E c \in Conn : Disconnected(c) \/ ConnRead(c) \/ RedisStep(c)
  BY <1>0, <1>8, DisconnectedAnswer, ConnReadAnswer, RedisServeAnswer, RefuseNever DEF RedisStep
<1>9. QED
  BY <1>2, <1>3, <1>4, <1>5, <1>6, <1>7, <1>8
     DEF Next, TaskStep, SessionStep, ConnStep, ClientStep

\* A read that was cut stays in the history.
LEMMA CutStays == cut /\ [Next]_vars => cut'
<1> SUFFICES ASSUME cut, [Next]_vars PROVE cut'
  OBVIOUS
<1> USE DEF cbVars
<1>1. CASE TaskStep \/ PostListener \/ UNCHANGED vars
  BY <1>1 DEF TaskStep, ProcessMsg, NewListener, DelSession, AddConn, PostListener, vars
<1>2. CASE MessageStep
  BY <1>2 DEF MessageStep, DropMessage, Dispatch, Deliver, DeliverToNobody
<1>3. ASSUME NEW s \in Session, SessionStep(s) \/ ClientStep(s) PROVE cut'
  BY <1>3 DEF SessionStep, Accept, SessionRead, Readable, ReadEvent, WriteEvent, HandleEvent,
              ClientStep, ClientSend, ClientClose, Flush
<1>4. ASSUME NEW c \in Conn, PostConn(c) \/ ConnStep(c) \/ RedisStep(c) PROVE cut'
  BY <1>4 DEF PostConn, ConnStep, Connected, Disconnected, ConnRead, Readable, RedisStep,
              RedisServe, RedisRefuse
<1>5. QED
  BY <1>1, <1>2, <1>3, <1>4 DEF Next

\* The inductive invariant of a proxy whose clients wait.
WaitInv == IInv /\ AddInv /\ (~cut => AnswerInv)

LEMMA AnswerInvariance == ASSUME Waiting PROVE Spec => []WaitInv
<1>1. Init => WaitInv
  BY InitIInv, InitAnswerInv, InitVector DEF WaitInv
<1>2. WaitInv /\ [Next]_vars => WaitInv'
  <2>1. IInv /\ [Next]_vars => IInv'
    BY NextTypeOK, NextOneCallback, NextHeldAreAlive DEF IInv
  <2>2. QED
    BY <2>1, CutStays, NextAnswerInv, NextAddInv DEF WaitInv, IInv
<1>3. QED
  BY <1>1, <1>2, PTL DEF Spec

\* A client that reads one answer before it sends the next command gets answers
\* to its own commands only, whatever the connections and the other clients do,
\* until a read ends right behind an array header
\* (redis_tcp_client.hpp:29-35 against tcp_session.cpp:30-59).
THEOREM OwnAnswersOnly == ASSUME Waiting PROVE Spec => []NoCrossTalk
<1>1. WaitInv => NoCrossTalk
  <2> SUFFICES ASSUME AnswerInv, NEW s \in Session, NEW i \in 1..Len(got[s])
               PROVE  got[s][i].s = s
    BY DEF WaitInv, NoCrossTalk
  <2>1. got[s][i] = [t |-> "one", s |-> s, n |-> i]
    BY DEF AnswerInv, GotInv
  <2>2. QED
    BY <2>1
<1>2. QED
  BY <1>1, AnswerInvariance, PTL

\* Every message redis sends finds a session in the queue, until a read ends
\* right behind an array header (redis_tcp_client.hpp:31-34).
THEOREM QueueNeverEmpty == ASSUME Waiting PROVE Spec => []NoEmptyPop
<1>1. WaitInv => NoEmptyPop
  BY AnswerFacts DEF WaitInv, IInv, NoEmptyPop
<1>2. QED
  BY <1>1, AnswerInvariance, PTL

\* What the abstract specification calls the replies of s.
Numbered(s, n) == [i \in 1..n |-> <<s, i>>]

LEMMA AnswersNumbered ==
  ASSUME AnswerInv
  PROVE  \A s \in Session : Answers(s) = Numbered(s, Len(got[s]))
<1> SUFFICES ASSUME NEW s \in Session PROVE Answers(s) = Numbered(s, Len(got[s]))
  OBVIOUS
<1>1. ASSUME NEW i \in 1..Len(got[s]) PROVE <<got[s][i].s, got[s][i].n>> = <<s, i>>
  <2>1. got[s][i] = [t |-> "one", s |-> s, n |-> i]
    BY DEF AnswerInv, GotInv
  <2>2. QED
    BY <2>1
<1>2. QED
  BY <1>1 DEF Answers, Numbered

LEMMA NumberedFacts ==
  ASSUME NEW s, NEW n \in Nat
  PROVE  /\ Len(Numbered(s, n)) = n
         /\ Append(Numbered(s, n), <<s, n + 1>>) = Numbered(s, n + 1)
<1> DEFINE S == {s} \X (Nat \ {0})
           a == Numbered(s, n)
           b == Append(a, <<s, n + 1>>)
           d == Numbered(s, n + 1)
<1>1. a \in Seq(S) /\ d \in Seq(S) /\ <<s, n + 1>> \in S
  <2>1. a \in [1..n -> S] /\ d \in [1..n + 1 -> S]
    BY DEF Numbered
  <2>2. QED
    BY <2>1, SeqFromFunction
<1>2. Len(a) = n /\ Len(d) = n + 1 /\ \A i \in 1..n : a[i] = <<s, i>>
  BY DEF Numbered
<1>3. \A i \in 1..n + 1 : d[i] = <<s, i>>
  BY DEF Numbered
<1> HIDE DEF a, d, S
<1>4. /\ b \in Seq(S) /\ Len(b) = n + 1
      /\ \A i \in 1..n : b[i] = a[i]
      /\ b[n + 1] = <<s, n + 1>>
  BY <1>1, <1>2, AppendProperties
<1>5. \A i \in 1..n + 1 : b[i] = d[i]
  <2> SUFFICES ASSUME NEW i \in 1..n + 1 PROVE b[i] = d[i]
    OBVIOUS
  <2>1. i \in 1..n \/ i = n + 1
    OBVIOUS
  <2>2. QED
    BY <1>2, <1>3, <1>4, <2>1
<1>6. b = d
  BY <1>1, <1>2, <1>4, <1>5, SeqEqual
<1>7. QED
  BY <1>2, <1>6 DEF a, d

\* Until a read ends right behind an array header, each step of the proxy, its
\* clients and redis is a step of RequestReply, or none: a client that waits asks,
\* and the answer to its command is delivered (tcp_session.cpp:6-71,
\* redis_tcp_client.hpp:11-42).
THEOREM RequestReplyImplemented == ASSUME Waiting PROVE Spec => ImplementsRequestReply
<1> DEFINE replies == [s \in Session |-> Answers(s)]
<1>1. Init => Abstract!Init
  <2> SUFFICES ASSUME Init PROVE Abstract!Init
    OBVIOUS
  <2>1. ASSUME NEW s \in Session PROVE Answers(s) = <<>>
    <3>1. got[s] = <<>> /\ Len(<<>>) = 0
      BY EmptySeq DEF Init
    <3>2. QED
      BY <3>1 DEF Answers
  <2>2. QED
    BY <2>1 DEF Init, Abstract!Init
<1>2. WaitInv /\ WaitInv' /\ [Next]_vars => [cut' \/ Abstract!Next]_(Abstract!vars)
  <2> SUFFICES ASSUME WaitInv, WaitInv', [Next]_vars, ~cut'
               PROVE  [Abstract!Next]_(Abstract!vars)
    OBVIOUS
  <2>0. TypeOK /\ OneCallback /\ AnswerInv /\ AnswerInv'
    BY CutStays DEF WaitInv, IInv
  <2>1. ASSUME NEW s \in Session PROVE Len(got[s]) \in Nat /\ Answers(s) = Numbered(s, Len(got[s]))
    BY <2>0, AnswersNumbered, LenProperties DEF TypeOK
  <2>2. ASSUME NEW s \in Session PROVE Answers(s)' = Numbered(s, Len(got'[s]))
    <3>1. ASSUME NEW i \in 1..Len(got'[s]) PROVE <<got'[s][i].s, got'[s][i].n>> = <<s, i>>
      <4>1. got'[s][i] = [t |-> "one", s |-> s, n |-> i]
        BY <2>0 DEF AnswerInv, GotInv
      <4>2. QED
        BY <4>1
    <3>2. QED
      BY <3>1 DEF Answers, Numbered
  <2>3. ASSUME UNCHANGED <<sent, got>> PROVE [Abstract!Next]_(Abstract!vars)
    BY <2>3 DEF Abstract!vars, Answers
  <2>4. CASE \E s \in Session : ClientSend(s)
    <3>1. PICK s \in Session : ClientSend(s)
      BY <2>4
    <3>2. sent' = [sent EXCEPT ![s] = @ + 1] /\ got' = got /\ sent[s] = Len(got[s])
      BY <2>0, <3>1, SendFacts DEF ClientSend
    <3>3. Len(replies[s]) = sent[s] /\ replies' = replies
      BY <2>1, <3>2, NumberedFacts DEF Answers
    <3>4. Abstract!Ask(s)
      BY <3>2, <3>3 DEF Abstract!Ask
    <3>5. QED
      BY <3>4 DEF Abstract!Next
  <2>5. CASE Deliver
    <3>1. PICK s \in Session :
            /\ sent[s] = Len(got[s]) + 1
            /\ Element(s) \in Item
            /\ got' = [got EXCEPT ![s] = Append(@, Element(s))] \/ got' = got
      BY <2>0, <2>5, DeliverFacts
    <3>2. sent' = sent
      BY <2>5 DEF Deliver
    <3>3. CASE got' = got
      BY <2>3, <3>2, <3>3
    <3>4. CASE got' = [got EXCEPT ![s] = Append(@, Element(s))]
      <4>1. /\ Len(got'[s]) = Len(got[s]) + 1 /\ Len(got[s]) \in Nat
            /\ \A x \in Session : x # s => got'[x] = got[x]
        BY <2>0, <2>1, <3>1, <3>4, AppendProperties DEF TypeOK
      <4>2. Answers(s)' = Append(Answers(s), <<s, Len(Answers(s)) + 1>>)
            /\ Len(Answers(s)) < sent[s]
        <5>1. PICK l \in Nat : l = Len(got[s])
          BY <4>1
        <5>2. Answers(s) = Numbered(s, l) /\ Answers(s)' = Numbered(s, l + 1) /\ sent[s] = l + 1
          BY <2>1, <2>2, <3>1, <4>1, <5>1
        <5>3. /\ Len(Numbered(s, l)) = l
              /\ Append(Numbered(s, l), <<s, l + 1>>) = Numbered(s, l + 1)
          BY NumberedFacts
        <5>4. QED
          BY <5>2, <5>3
      <4>3. \A x \in Session : x # s => Answers(x)' = Answers(x)
        BY <4>1 DEF Answers
      <4>4. replies' = [replies EXCEPT ![s] = Append(@, <<s, Len(@) + 1>>)]
            /\ Len(replies[s]) < sent[s]
        BY <4>2, <4>3
      <4>5. Abstract!Answer(s)
        BY <3>2, <4>4 DEF Abstract!Answer
      <4>6. QED
        BY <4>5 DEF Abstract!Next
    <3>5. QED
      BY <3>1, <3>3, <3>4
  <2>6. CASE TaskStep \/ PostListener \/ UNCHANGED vars
    BY <2>3, <2>6
       DEF TaskStep, ProcessMsg, NewListener, DelSession, AddConn, PostListener, vars, clientVars
  <2>7. CASE DropMessage \/ Dispatch \/ DeliverToNobody
    BY <2>3, <2>7 DEF DropMessage, Dispatch, DeliverToNobody, clientVars
  <2>8. CASE \E s \in Session : SessionStep(s) \/ ClientClose(s) \/ Flush(s)
    BY <2>3, <2>8
       DEF SessionStep, Accept, SessionRead, ReadEvent, WriteEvent, HandleEvent, ClientClose,
           Flush, clientVars
  <2>9. CASE \E c \in Conn : PostConn(c) \/ ConnStep(c) \/ RedisStep(c)
    BY <2>3, <2>9
       DEF PostConn, ConnStep, Connected, Disconnected, ConnRead, RedisStep, RedisServe,
           RedisRefuse, clientVars
  <2>10. QED
    BY <2>4, <2>5, <2>6, <2>7, <2>8, <2>9 DEF Next, MessageStep, ClientStep
<1>3. QED
  BY <1>1, <1>2, AnswerInvariance, PTL DEF Spec, ImplementsRequestReply, Abstract!Spec
=============================================================================
