---------------------------- MODULE ProxyProofs ----------------------------
(***************************************************************************)
(* Theorems about Proxy, for any number of clients, connections and        *)
(* descriptors, any window and any faults: type correctness, that no       *)
(* session is used after its destructor ran, that only sessions with an    *)
(* event of their own are closed, and that a message is dropped only when  *)
(* no connection is up.                                                    *)
(***************************************************************************)
EXTENDS Proxy, DataLemmas, FiniteSetTheorems

\* The callbacks of the loop thread do not overlap: a batch is not processed
\* inside onRead, and onRead has a message in hand as long as it runs.
OneCallback ==
  /\ self # None => todo # <<>>
  /\ batch > 0 => self = None
  /\ self \in Session => status[self] = "open"

\* A session that was accepted has a descriptor.
HasFd == \A s \in Session : status[s] = "open" => fd[s] \in Fd

IInv == TypeOK /\ OneCallback /\ HasFd /\ HeldAreAlive

\* The tasks that destroy sessions.
Dels == {i \in 1..Len(task_queue) : task_queue[i].kind = "DEL_SESSION"}

\* As long as no session had both its events reported, each pending DEL_SESSION
\* finds the session that posted it, and no session posted two.
DelInv ==
  /\ \A s \in Session : status[s] = "open" /\ ~isClosing(s) => fd_to_session_map[fd[s]] = s
  /\ \A i \in Dels :
       /\ status[task_queue[i].by] = "open"
       /\ fault[task_queue[i].by] # {}
       /\ fd[task_queue[i].by] = task_queue[i].fd
       /\ fd_to_session_map[task_queue[i].fd] = task_queue[i].by
  /\ \A i, j \in Dels : task_queue[i].by = task_queue[j].by => i = j

SingleEvents == \A s \in Session : Cardinality(fault[s]) <= 1

FaultInv == IInv /\ (SingleEvents => DelInv)

\* A connection is added once, before it is used.
AddInv ==
  /\ \A i \in 1..Len(task_queue) :
       task_queue[i].kind = "ADD_CONN" => conn[task_queue[i].conn] = "posted"
  /\ \A i, j \in 1..Len(task_queue) :
       /\ task_queue[i].kind = "ADD_CONN" /\ task_queue[j].kind = "ADD_CONN"
       /\ task_queue[i].conn = task_queue[j].conn
       => i = j

\* The vector holds every connection that was added, once.
Added(c) == conn[c] \notin {"none", "posted"}

VectorInv ==
  /\ \A i \in 1..Len(connection_sptr_vector) : Added(connection_sptr_vector[i])
  /\ \A i, j \in 1..Len(connection_sptr_vector) :
       connection_sptr_vector[i] = connection_sptr_vector[j] => i = j
  /\ \A c \in Conn : Added(c) =>
       \E i \in 1..Len(connection_sptr_vector) : connection_sptr_vector[i] = c

\* What NoNeedlessDrop supposes: for any number of connections in the vector,
\* the range of _sIdGenerater leaves a remainder of at most one.  2^32 does so
\* for one to five connections.
SmallRemainder ==
  /\ IsFiniteSet(Conn)
  /\ \A l \in 1..Cardinality(Conn) : l <= IdMod /\ IdMod % l \in {0, 1}

USE ProxyAssumption

-----------------------------------------------------------------------------
(* Lemmas about the operators of Proxy.                                    *)

\* A read hands complete items to on_resp_cb and leaves complete items behind.
LEMMA ReadFacts ==
  ASSUME NEW left \in Seq(Item), NEW data \in Seq(Item), NEW p \in BOOLEAN,
         Readable(left, data, p)
  PROVE  /\ todo' \in Seq(Seq(Item))
         /\ Left(left, data, p) \in Seq(Item)
         /\ cut' \in BOOLEAN
<1> DEFINE all == left \o data
           buf == IF p THEN Append(all, Part) ELSE all
           Token == Item \cup {Part}
<1>1. all \in Seq(Item)
  BY ConcatProperties
<1>2. all \in Seq(Token)
  BY <1>1, SeqMonotonic
<1>3. Append(all, Part) \in Seq(Token)
  <2> HIDE DEF all
  <2> QED
    BY <1>2, AppendProperties
<1>4. buf \in Seq(Token)
  BY <1>2, <1>3
<1>5. \A x \in Token : x.t \notin {"part", "bad"} => x \in Item
  BY DEF Part
<1>6. Messages(buf) \in Seq(Seq(Item))
  <2> HIDE DEF buf, Token
  <2> QED
    BY <1>4, <1>5, MessagesType
<1>7. Consumed(buf) \in Nat
  <2> HIDE DEF buf, Token
  <2>1. Consumed(buf) \in 0..Len(buf) /\ Len(buf) \in Nat
    BY <1>4, ConsumedType, LenProperties
  <2>2. QED
    BY <2>1
<1>8. Behind(all, Consumed(buf)) \in Seq(Item)
  <2> HIDE DEF all, buf
  <2> QED
    BY <1>1, <1>7, BehindFacts
<1>9. cut' \in BOOLEAN
  BY DEF Readable
<1>10. QED
  BY <1>6, <1>8, <1>9 DEF Readable, Left

\* A part of a stream is a sequence of items.
LEMMA PrefixFacts ==
  ASSUME NEW q \in Seq(Item), NEW k \in 1..Len(q)
  PROVE  SubSeq(q, 1, k) \in Seq(Item) /\ Behind(q, k) \in Seq(Item)
<1>1. Len(q) \in Nat /\ k \in Nat
  BY LenProperties
<1>2. \A i \in 1..k : q[i] \in Item
  BY <1>1, ElementOfSeq
<1>3. SubSeq(q, 1, k) \in Seq(Item)
  BY <1>1, <1>2, SubSeqProperties
<1>4. QED
  BY <1>1, <1>3, BehindFacts

\* Every try of the do-while loop looks at a connection of the vector.
LEMMA PickFacts ==
  ASSUME TypeOK, self \in Session, NEW i \in Hits
  PROVE  /\ Pick(i) \in Conn
         /\ conn[Pick(i)] = "up"
         /\ (sIdGenerater[self] + i + 1) % IdMod \in 0..IdMod - 1
<1>1. /\ connection_sptr_vector # <<>> /\ connection_sptr_vector \in Seq(Conn)
      /\ conn[Pick(i)] = "up"
      /\ i \in 0..Len(connection_sptr_vector)
  BY DEF Hits, TypeOK
<1>2. Len(connection_sptr_vector) \in Nat \ {0}
  BY <1>1, EmptySeq
<1>3. i \in Nat /\ sIdGenerater[self] \in Nat /\ IdMod \in Nat \ {0}
  BY <1>1, <1>2 DEF TypeOK
<1>4. (sIdGenerater[self] + i) % IdMod \in Nat
  BY <1>3, DivMod
<1>5. ((sIdGenerater[self] + i) % IdMod) % Len(connection_sptr_vector)
        \in 0..Len(connection_sptr_vector) - 1
  <2> DEFINE a == (sIdGenerater[self] + i) % IdMod
             b == Len(connection_sptr_vector)
  <2>1. a \in Nat /\ b \in Nat \ {0}
    BY <1>2, <1>4
  <2> HIDE DEF a, b
  <2>2. a % b \in 0..b - 1
    BY <2>1, DivMod
  <2>3. QED
    BY <2>2 DEF a, b
<1>6. (((sIdGenerater[self] + i) % IdMod) % Len(connection_sptr_vector)) + 1
        \in 1..Len(connection_sptr_vector)
  BY <1>2, <1>5
<1>7. Pick(i) \in Conn
  BY <1>1, <1>6, ElementOfSeq DEF Pick
<1>8. sIdGenerater[self] + i + 1 \in Nat
  BY <1>3
<1>9. QED
  BY <1>1, <1>3, <1>7, <1>8, DivMod

\* An answer of redis consists of items.
LEMMA ReplyFacts ==
  ASSUME NEW item \in Item, NEW kind
  PROVE  Reply(item, kind) \in Seq(Item)
<1>1. [item EXCEPT !.t = "one"] \in Item /\ [item EXCEPT !.t = "arr"] \in Item
  BY DEF Item
<1>2. <<[item EXCEPT !.t = "one"]>> \in Seq(Item)
  BY <1>1
<1>3. <<[item EXCEPT !.t = "arr"], [item EXCEPT !.t = "one"]>> \in Seq(Item)
  BY <1>1
<1>4. QED
  BY <1>2, <1>3 DEF Reply

\* A task taken from the queue.
LEMMA HeadTask ==
  ASSUME TypeOK, batch > 0
  PROVE  /\ task_queue # <<>>
         /\ Head(task_queue) \in Task
         /\ Tail(task_queue) \in Seq(Task)
         /\ Len(Tail(task_queue)) = Len(task_queue) - 1
         /\ batch - 1 \in 0..Len(Tail(task_queue))
<1>1. task_queue \in Seq(Task) /\ batch \in 0..Len(task_queue) /\ Len(task_queue) \in Nat
  BY LenProperties DEF TypeOK
<1>2. Len(<<>>) = 0
  BY EmptySeq
<1>3. task_queue # <<>>
  BY <1>1, <1>2
<1>4. QED
  BY <1>1, <1>3, HeadTailProperties

\* A task put into the queue.
LEMMA PostTask ==
  ASSUME TypeOK, NEW task \in Task, task_queue' = Append(task_queue, task), batch' = batch
  PROVE  task_queue' \in Seq(Task) /\ batch' \in 0..Len(task_queue')
<1>1. task_queue \in Seq(Task) /\ batch \in 0..Len(task_queue) /\ Len(task_queue) \in Nat
  BY LenProperties DEF TypeOK
<1>2. task_queue' \in Seq(Task) /\ Len(task_queue') = Len(task_queue) + 1
  BY <1>1, AppendProperties
<1>3. QED
  BY <1>1, <1>2

\* NextMessage, with at least one message in hand.
LEMMA NextMessageFacts ==
  ASSUME TypeOK, OneCallback, self # None, NextMessage
  PROVE  /\ Head(todo) \in Seq(Item)
         /\ todo' \in Seq(Seq(Item))
         /\ self' \in {self, None}
         /\ self' # None => todo' # <<>>
<1>1. todo \in Seq(Seq(Item)) /\ todo # <<>>
  BY DEF TypeOK, OneCallback
<1>2. /\ Head(todo) \in Seq(Item)
      /\ Tail(todo) \in Seq(Seq(Item))
      /\ Len(Tail(todo)) = Len(todo) - 1
  BY <1>1, HeadTailProperties
<1>3. Len(todo) \in Nat /\ Len(<<>>) = 0
  BY <1>1, LenProperties, EmptySeq
<1>4. Tail(todo) = <<>> => Len(todo) = 1
  <2> DEFINE rest == Tail(todo)
             l == Len(todo)
  <2>1. Len(rest) = l - 1 /\ l \in Nat /\ (rest = <<>> => Len(rest) = 0)
    BY <1>2, <1>3
  <2> HIDE DEF rest, l
  <2>2. rest = <<>> => l = 1
    BY <2>1
  <2>3. QED
    BY <2>2 DEF rest, l
<1>5. QED
  BY <1>2, <1>4 DEF NextMessage

-----------------------------------------------------------------------------
(* Type correctness.                                                       *)

\* The destructor only changes the status of sessions.
LEMMA ReleaseFacts ==
  ASSUME TypeOK, NEW map, NEW queues, Release(map, queues)
  PROVE  /\ status' \in [Session -> Status]
         /\ \A s \in Session : status'[s] # status[s] =>
              /\ status'[s] = "dead"
              /\ status[s] \in {"open", "broken"}
              /\ ~ Held(s, map, queues)
BY DEF TypeOK, Release, Status

LEMMA InitTypeOK == Init => TypeOK
<1> SUFFICES ASSUME Init PROVE TypeOK
  OBVIOUS
<1>1. \A S : <<>> \in Seq(S)
  BY EmptySeq
<1>2. Len(task_queue) = 0
  BY EmptySeq DEF Init
<1>3. /\ batch \in 0..Len(task_queue)
      /\ sIdGenerater \in [Session -> 0..IdMod - 1]
      /\ sent \in [Session -> 0..MaxCmd]
  BY <1>2 DEF Init
<1>4. /\ connection_sptr_vector \in Seq(Conn)
      /\ task_queue \in Seq(Task)
      /\ todo \in Seq(Seq(Item))
      /\ inbuf \in [Session -> Seq(Item)]
      /\ session_sptr_queue \in [Conn -> Seq(Session)]
      /\ rbuf \in [Conn -> Seq(Item)]
      /\ stream \in [Session -> Seq(Item)]
      /\ got \in [Session -> Seq(Item)]
      /\ toRedis \in [Conn -> Seq(Item)]
      /\ fromRedis \in [Conn -> Seq(Item)]
  BY <1>1 DEF Init
<1>5. QED
  BY <1>3, <1>4 DEF Init, TypeOK, Status, ConnState

LEMMA TaskTypeOK ==
  ASSUME TypeOK, TaskStep \/ PostListener \/ \E c \in Conn : PostConn(c)
  PROVE  TypeOK'
<1> USE DEF vars, loopVars, taskVars, cbVars, sessionVars, connVars, clientVars, redisVars
<1>1. CASE ProcessMsg
  <2>1. Len(task_queue) \in Nat
    BY LenProperties DEF TypeOK
  <2>2. batch' \in 0..Len(task_queue')
    BY <1>1, <2>1 DEF ProcessMsg
  <2>3. QED
    BY <1>1, <2>2 DEF ProcessMsg, TypeOK
<1>2. ASSUME NEW kind, Running(kind)
      PROVE  /\ task_queue' \in Seq(Task)
             /\ batch' \in 0..Len(task_queue')
             /\ Head(task_queue) \in Task
             /\ Head(task_queue).kind = kind
  BY <1>2, HeadTask DEF Running
<1>3. CASE NewListener
  <2>1. task_queue' \in Seq(Task) /\ batch' \in 0..Len(task_queue')
    BY <1>2, <1>3 DEF NewListener
  <2>2. QED
    BY <1>3, <2>1 DEF NewListener, TypeOK
<1>4. CASE DelSession
  <2>1. task_queue' \in Seq(Task) /\ batch' \in 0..Len(task_queue')
    BY <1>2, <1>4 DEF DelSession
  <2>2. fd_to_session_map' \in [Fd -> Session \cup {None}]
    BY <1>4 DEF DelSession, TypeOK
  <2>3. status' \in [Session -> Status]
    BY <1>4, ReleaseFacts DEF DelSession
  <2>4. QED
    BY <1>4, <2>1, <2>2, <2>3 DEF DelSession, TypeOK
<1>5. CASE AddConn
  <2> DEFINE c == Head(task_queue).conn
  <2>1. task_queue' \in Seq(Task) /\ batch' \in 0..Len(task_queue')
    BY <1>2, <1>5 DEF AddConn
  <2>2. c \in Conn
    BY <1>2, <1>5 DEF AddConn, Task
  <2>3. connection_sptr_vector' \in Seq(Conn)
    <3>1. connection_sptr_vector \in Seq(Conn)
          /\ connection_sptr_vector' = Append(connection_sptr_vector, c)
      BY <1>5 DEF AddConn, TypeOK
    <3> HIDE DEF c
    <3>2. QED
      BY <2>2, <3>1, AppendProperties
  <2>4. conn' \in [Conn -> ConnState]
    BY <1>5 DEF AddConn, TypeOK, ConnState
  <2>5. QED
    BY <1>5, <2>1, <2>3, <2>4 DEF AddConn, TypeOK
<1>6. CASE PostListener
  <2>1. [kind |-> "NEW_LISTENER"] \in Task
    BY DEF Task
  <2>2. task_queue' \in Seq(Task) /\ batch' \in 0..Len(task_queue')
    BY <1>6, <2>1, PostTask DEF PostListener
  <2>3. QED
    BY <1>6, <2>2 DEF PostListener, TypeOK
<1>7. ASSUME NEW c \in Conn, PostConn(c)
      PROVE  TypeOK'
  <2>1. [kind |-> "ADD_CONN", conn |-> c] \in Task
    BY DEF Task
  <2>2. task_queue' \in Seq(Task) /\ batch' \in 0..Len(task_queue')
    BY <1>7, <2>1, PostTask DEF PostConn
  <2>3. conn' \in [Conn -> ConnState]
    BY <1>7 DEF PostConn, TypeOK, ConnState
  <2>4. QED
    BY <1>7, <2>2, <2>3 DEF PostConn, TypeOK
<1>8. QED
  BY <1>1, <1>3, <1>4, <1>5, <1>6, <1>7 DEF TaskStep

LEMMA SessionTypeOK ==
  ASSUME TypeOK, HasFd, NEW s \in Session, SessionStep(s)
  PROVE  TypeOK'
<1> USE DEF vars, loopVars, taskVars, cbVars, sessionVars, connVars, clientVars, redisVars
<1>1. CASE Accept(s)
  <2>1. PICK f \in FreeFd : /\ fd' = [fd EXCEPT ![s] = f]
                            /\ fd_to_session_map' = [fd_to_session_map EXCEPT ![f] = s]
    BY <1>1 DEF Accept
  <2>2. f \in Fd
    BY DEF FreeFd
  <2>3. fd' \in [Session -> Fd \cup {None}] /\ fd_to_session_map' \in [Fd -> Session \cup {None}]
    BY <2>1, <2>2 DEF TypeOK
  <2>4. status' \in [Session -> Status]
    BY <1>1 DEF Accept, TypeOK, Status
  <2>5. sIdGenerater' \in [Session -> 0..IdMod - 1]
    BY <1>1 DEF Accept, TypeOK
  <2>6. peer' \in [Session -> {"none", "open", "closed"}]
    BY <1>1 DEF Accept, TypeOK
  <2>7. QED
    BY <1>1, <2>3, <2>4, <2>5, <2>6 DEF Accept, TypeOK
<1>2. CASE SessionRead(s)
  <2>1. PICK k \in 1..Len(stream[s]), p \in BOOLEAN :
          /\ Readable(inbuf[s], SubSeq(stream[s], 1, k), p)
          /\ inbuf' = [inbuf EXCEPT ![s] = Left(inbuf[s], SubSeq(stream[s], 1, k), p)]
          /\ stream' = [stream EXCEPT ![s] = Behind(stream[s], k)]
    BY <1>2 DEF SessionRead
  <2>2. stream[s] \in Seq(Item) /\ inbuf[s] \in Seq(Item)
    BY DEF TypeOK
  <2>3. SubSeq(stream[s], 1, k) \in Seq(Item) /\ Behind(stream[s], k) \in Seq(Item)
    BY <2>2, PrefixFacts
  <2>4. /\ todo' \in Seq(Seq(Item)) /\ cut' \in BOOLEAN
        /\ Left(inbuf[s], SubSeq(stream[s], 1, k), p) \in Seq(Item)
    BY <2>1, <2>2, <2>3, ReadFacts
  <2>5. inbuf' \in [Session -> Seq(Item)] /\ stream' \in [Session -> Seq(Item)]
    BY <2>1, <2>3, <2>4 DEF TypeOK
  <2>6. self' \in Session \cup Conn \cup {None}
    BY <1>2 DEF SessionRead
  <2>7. QED
    BY <1>2, <2>4, <2>5, <2>6 DEF SessionRead, TypeOK
<1>3. ASSUME NEW kind \in {"read", "write"}, status[s] = "open", HandleEvent(s, kind)
      PROVE  TypeOK'
  <2>1. [kind |-> "DEL_SESSION", fd |-> fd[s], by |-> s] \in Task
    BY <1>3 DEF HasFd, Task
  <2>2. task_queue' \in Seq(Task) /\ batch' \in 0..Len(task_queue')
    BY <1>3, <2>1, PostTask DEF HandleEvent
  <2>3. fault' \in [Session -> SUBSET {"read", "write"}]
    BY <1>3 DEF HandleEvent, TypeOK
  <2>4. QED
    BY <1>3, <2>2, <2>3 DEF HandleEvent, TypeOK
<1>4. QED
  BY <1>1, <1>2, <1>3 DEF SessionStep, ReadEvent, WriteEvent

LEMMA ConnTypeOK ==
  ASSUME TypeOK, NEW c \in Conn, ConnStep(c) \/ RedisStep(c)
  PROVE  TypeOK'
<1> USE DEF vars, loopVars, taskVars, cbVars, sessionVars, connVars, clientVars, redisVars
<1>1. CASE Connected(c)
  BY <1>1 DEF Connected, TypeOK, ConnState
<1>2. CASE Disconnected(c)
  <2>1. <<>> \in Seq(Item)
    BY EmptySeq
  <2>2. /\ rbuf' \in [Conn -> Seq(Item)]
        /\ toRedis' \in [Conn -> Seq(Item)]
        /\ fromRedis' \in [Conn -> Seq(Item)]
        /\ conn' \in [Conn -> ConnState]
    BY <1>2, <2>1 DEF Disconnected, TypeOK, ConnState
  <2>3. QED
    BY <1>2, <2>2 DEF Disconnected, TypeOK
<1>3. CASE ConnRead(c)
  <2>1. PICK k \in 1..Len(fromRedis[c]), p \in BOOLEAN :
          /\ Readable(rbuf[c], SubSeq(fromRedis[c], 1, k), p)
          /\ rbuf' = [rbuf EXCEPT ![c] = Left(rbuf[c], SubSeq(fromRedis[c], 1, k), p)]
          /\ fromRedis' = [fromRedis EXCEPT ![c] = Behind(fromRedis[c], k)]
    BY <1>3 DEF ConnRead
  <2>2. fromRedis[c] \in Seq(Item) /\ rbuf[c] \in Seq(Item)
    BY DEF TypeOK
  <2>3. SubSeq(fromRedis[c], 1, k) \in Seq(Item) /\ Behind(fromRedis[c], k) \in Seq(Item)
    BY <2>2, PrefixFacts
  <2>4. /\ todo' \in Seq(Seq(Item)) /\ cut' \in BOOLEAN
        /\ Left(rbuf[c], SubSeq(fromRedis[c], 1, k), p) \in Seq(Item)
    BY <2>1, <2>2, <2>3, ReadFacts
  <2>5. rbuf' \in [Conn -> Seq(Item)] /\ fromRedis' \in [Conn -> Seq(Item)]
    BY <2>1, <2>3, <2>4 DEF TypeOK
  <2>6. self' \in Session \cup Conn \cup {None}
    BY <1>3 DEF ConnRead
  <2>7. QED
    BY <1>3, <2>4, <2>5, <2>6 DEF ConnRead, TypeOK
<1>4. ASSUME NEW n \in Nat, NEW kind, toRedis[c] # <<>>,
             fromRedis' = [fromRedis EXCEPT ![c] = @ \o Reply(toRedis[c][1], kind)],
             toRedis' = [toRedis EXCEPT ![c] = Behind(@, n)]
      PROVE  fromRedis' \in [Conn -> Seq(Item)] /\ toRedis' \in [Conn -> Seq(Item)]
  <2>1. fromRedis[c] \in Seq(Item) /\ toRedis[c] \in Seq(Item)
    BY DEF TypeOK
  <2>2. toRedis[c][1] \in Item
    <3>1. Len(toRedis[c]) \in Nat \ {0}
      BY <1>4, <2>1, EmptySeq
    <3>2. QED
      BY <2>1, <3>1, ElementOfSeq
  <2>3. fromRedis[c] \o Reply(toRedis[c][1], kind) \in Seq(Item)
    BY <2>1, <2>2, ReplyFacts, ConcatProperties
  <2>4. Behind(toRedis[c], n) \in Seq(Item)
    BY <2>1, BehindFacts
  <2>5. QED
    BY <1>4, <2>3, <2>4 DEF TypeOK
<1>5. CASE RedisServe(c)
  <2>1. toRedis[c] # <<>>
    BY <1>5, EmptySeq DEF RedisServe
  <2>2. fromRedis' \in [Conn -> Seq(Item)] /\ toRedis' \in [Conn -> Seq(Item)]
    BY <1>4, <1>5, <2>1 DEF RedisServe
  <2>3. QED
    BY <1>5, <2>2 DEF RedisServe, TypeOK
<1>6. CASE RedisRefuse(c)
  <2>1. fromRedis' \in [Conn -> Seq(Item)] /\ toRedis' \in [Conn -> Seq(Item)]
    BY <1>4, <1>6 DEF RedisRefuse
  <2>2. QED
    BY <1>6, <2>1 DEF RedisRefuse, TypeOK
<1>7. QED
  BY <1>1, <1>2, <1>3, <1>5, <1>6 DEF ConnStep, RedisStep

LEMMA ClientTypeOK ==
  ASSUME TypeOK, NEW s \in Session, ClientStep(s)
  PROVE  TypeOK'
<1> USE DEF vars, loopVars, taskVars, cbVars, sessionVars, connVars, clientVars, redisVars
<1>1. CASE ClientSend(s)
  <2>1. sent[s] + 1 \in 1..MaxCmd
    <3>1. sent[s] \in 0..MaxCmd
      BY DEF TypeOK
    <3>2. sent[s] < MaxCmd
      BY <1>1 DEF ClientSend
    <3>3. QED
      BY <3>1, <3>2
  <2>2. sent' \in [Session -> 0..MaxCmd] /\ sent'[s] \in 1..MaxCmd
    <3>1. sent \in [Session -> 0..MaxCmd] /\ sent' = [sent EXCEPT ![s] = sent[s] + 1]
      BY <1>1 DEF ClientSend, TypeOK
    <3>2. sent[s] + 1 \in 0..MaxCmd
      BY <2>1
    <3>3. QED
      BY <2>1, <3>1, <3>2
  <2>3. /\ [t |-> "arr", s |-> s, n |-> sent'[s]] \in Item
        /\ [t |-> "one", s |-> s, n |-> sent'[s]] \in Item
    BY <2>2 DEF Item
  <2> DEFINE command == <<[t |-> "arr", s |-> s, n |-> sent'[s]],
                          [t |-> "one", s |-> s, n |-> sent'[s]]>>
  <2>4. command \in Seq(Item) /\ stream[s] \in Seq(Item)
    BY <2>3 DEF TypeOK
  <2>5. stream' = [stream EXCEPT ![s] = stream[s] \o command]
    BY <1>1 DEF ClientSend
  <2> HIDE DEF command
  <2>6. stream' \in [Session -> Seq(Item)]
    BY <2>4, <2>5, ConcatProperties DEF TypeOK
  <2>7. QED
    BY <1>1, <2>2, <2>6 DEF ClientSend, TypeOK
<1>2. CASE ClientClose(s)
  <2>1. <<>> \in Seq(Item)
    BY EmptySeq
  <2>2. PICK rest \in {stream[s], <<>>} : stream' = [stream EXCEPT ![s] = rest]
    BY <1>2 DEF ClientClose
  <2>3. rest \in Seq(Item)
    <3>1. stream[s] \in Seq(Item)
      BY DEF TypeOK
    <3>2. QED
      BY <2>1, <3>1
  <2>4. stream' \in [Session -> Seq(Item)]
    BY <2>2, <2>3 DEF TypeOK
  <2>5. peer' \in [Session -> {"none", "open", "closed"}]
    BY <1>2 DEF ClientClose, TypeOK
  <2>6. QED
    BY <1>2, <2>4, <2>5 DEF ClientClose, TypeOK
<1>3. CASE Flush(s)
  BY <1>3 DEF Flush, TypeOK
<1>4. QED
  BY <1>1, <1>2, <1>3 DEF ClientStep

LEMMA MessageTypeOK ==
  ASSUME TypeOK, OneCallback, MessageStep
  PROVE  TypeOK'
<1> USE DEF vars, loopVars, taskVars, cbVars, sessionVars, connVars, clientVars, redisVars
<1>1. ASSUME self # None, NextMessage
      PROVE  /\ Head(todo) \in Seq(Item)
             /\ todo' \in Seq(Seq(Item))
             /\ self' \in Session \cup Conn \cup {None}
  BY <1>1, NextMessageFacts DEF TypeOK
<1>2. self \in Session \cup Conn => self # None
  OBVIOUS
<1>3. CASE DropMessage
  <2>1. todo' \in Seq(Seq(Item)) /\ self' \in Session \cup Conn \cup {None}
    BY <1>1, <1>2, <1>3 DEF DropMessage
  <2>2. sIdGenerater' \in [Session -> 0..IdMod - 1]
    <3>1. Len(connection_sptr_vector) \in Nat
      BY LenProperties DEF TypeOK
    <3>2. self \in Session /\ sIdGenerater[self] \in Nat
      BY <1>3 DEF DropMessage, TypeOK
    <3>3. sIdGenerater[self] + Len(connection_sptr_vector) + 1 \in Nat
      BY <3>1, <3>2
    <3>4. (sIdGenerater[self] + Len(connection_sptr_vector) + 1) % IdMod \in 0..IdMod - 1
      BY <3>3, DivMod
    <3>5. QED
      BY <1>3, <3>2, <3>4 DEF DropMessage, TypeOK
  <2>3. QED
    BY <1>3, <2>1, <2>2 DEF DropMessage, TypeOK
<1>4. CASE Dispatch
  <2>1. /\ Head(todo) \in Seq(Item)
        /\ todo' \in Seq(Seq(Item))
        /\ self' \in Session \cup Conn \cup {None}
    BY <1>1, <1>2, <1>4 DEF Dispatch
  <2>2. PICK i \in Hits :
          /\ sIdGenerater' = [sIdGenerater EXCEPT ![self] = (@ + i + 1) % IdMod]
          /\ toRedis' = [toRedis EXCEPT ![Pick(i)] = @ \o Head(todo)]
          /\ session_sptr_queue' = [session_sptr_queue EXCEPT ![Pick(i)] = Append(@, self)]
    BY <1>4 DEF Dispatch
  <2>3. self \in Session
    BY <1>4 DEF Dispatch
  <2>4. Pick(i) \in Conn /\ (sIdGenerater[self] + i + 1) % IdMod \in 0..IdMod - 1
    BY <2>3, PickFacts
  <2>5. sIdGenerater' \in [Session -> 0..IdMod - 1]
    BY <2>2, <2>3, <2>4 DEF TypeOK
  <2>6. toRedis[Pick(i)] \in Seq(Item) /\ session_sptr_queue[Pick(i)] \in Seq(Session)
    BY <2>4 DEF TypeOK
  <2>7. /\ toRedis[Pick(i)] \o Head(todo) \in Seq(Item)
        /\ Append(session_sptr_queue[Pick(i)], self) \in Seq(Session)
    BY <2>1, <2>3, <2>6, ConcatProperties, AppendProperties
  <2>8. toRedis' \in [Conn -> Seq(Item)] /\ session_sptr_queue' \in [Conn -> Seq(Session)]
    BY <2>2, <2>4, <2>7 DEF TypeOK
  <2>9. QED
    BY <1>4, <2>1, <2>5, <2>8 DEF Dispatch, TypeOK
<1>5. CASE Deliver
  <2> DEFINE s == Head(session_sptr_queue[self])
  <2>1. /\ Head(todo) \in Seq(Item)
        /\ todo' \in Seq(Seq(Item))
        /\ self' \in Session \cup Conn \cup {None}
    BY <1>1, <1>2, <1>5 DEF Deliver
  <2>2. self \in Conn /\ session_sptr_queue[self] \in Seq(Session) /\ session_sptr_queue[self] # <<>>
    BY <1>5 DEF Deliver, TypeOK
  <2>3. s \in Session /\ Tail(session_sptr_queue[self]) \in Seq(Session)
    BY <2>2, HeadTailProperties
  <2>4. session_sptr_queue' \in [Conn -> Seq(Session)]
    BY <1>5, <2>3 DEF Deliver, TypeOK
  <2>5. status' \in [Session -> Status]
    BY <1>5, ReleaseFacts DEF Deliver
  <2>6. got' = IF isClosing(s) THEN got ELSE [got EXCEPT ![s] = @ \o Head(todo)]
    BY <1>5 DEF Deliver
  <2>7. unsent' = IF isClosing(s) THEN unsent ELSE [unsent EXCEPT ![s] = TRUE]
    BY <1>5 DEF Deliver
  <2> HIDE DEF s
  <2>8. got[s] \o Head(todo) \in Seq(Item)
    BY <2>1, <2>3, ConcatProperties DEF TypeOK
  <2>9. got' \in [Session -> Seq(Item)] /\ unsent' \in [Session -> BOOLEAN]
    BY <2>3, <2>6, <2>7, <2>8 DEF TypeOK
  <2>10. QED
    BY <1>5, <2>1, <2>4, <2>5, <2>9 DEF Deliver, TypeOK
<1>6. CASE DeliverToNobody
  BY <1>6 DEF DeliverToNobody, TypeOK
<1>7. QED
  BY <1>3, <1>4, <1>5, <1>6 DEF MessageStep

LEMMA NextTypeOK == TypeOK /\ OneCallback /\ HasFd /\ [Next]_vars => TypeOK'
<1> SUFFICES ASSUME TypeOK, OneCallback, HasFd, [Next]_vars PROVE TypeOK'
  OBVIOUS
<1>1. CASE UNCHANGED vars
  BY <1>1 DEF TypeOK, vars, loopVars, taskVars, cbVars, sessionVars, connVars, clientVars, redisVars
<1>2. CASE Next
  BY <1>2, TaskTypeOK, SessionTypeOK, ClientTypeOK, ConnTypeOK, MessageTypeOK DEF Next
<1>3. QED
  BY <1>1, <1>2

-----------------------------------------------------------------------------
(* Callbacks do not overlap, and who is held is alive.                     *)

\* Who is held by the map or a queue stays what it is when others are released.
LEMMA HeldStays ==
  ASSUME TypeOK, NEW map, NEW queues, Release(map, queues)
  PROVE  /\ \A f \in Fd : map[f] \in Session => status'[map[f]] = status[map[f]]
         /\ \A c \in Conn : \A i \in 1..Len(queues[c]) :
              queues[c][i] \in Session => status'[queues[c][i]] = status[queues[c][i]]
BY DEF TypeOK, Release, Held

\* The steps that can end or start a callback, or change the status of its session.
LEMMA NextOneCallback == IInv /\ [Next]_vars => OneCallback' /\ HasFd'
<1> SUFFICES ASSUME IInv, [Next]_vars PROVE OneCallback' /\ HasFd'
  OBVIOUS
<1> USE DEF loopVars, taskVars, cbVars, sessionVars, connVars, clientVars, redisVars
<1>0. TypeOK /\ OneCallback /\ HasFd /\ HeldAreAlive
  BY DEF IInv
<1>1. ASSUME UNCHANGED <<self, todo, batch, status, fd>>
      PROVE  OneCallback' /\ HasFd'
  BY <1>0, <1>1 DEF OneCallback, HasFd
<1>2. CASE ProcessMsg
  BY <1>0, <1>2 DEF ProcessMsg, Idle, OneCallback, HasFd
<1>3. ASSUME NEW kind, Running(kind), UNCHANGED <<self, todo, fd>>,
             \A s \in Session : status'[s] = "open" => status[s] = "open"
      PROVE  OneCallback' /\ HasFd'
  <2>1. self = None
    BY <1>0, <1>3 DEF Running, OneCallback
  <2>2. QED
    BY <1>0, <1>3, <2>1 DEF OneCallback, HasFd
<1>4. CASE NewListener
  BY <1>3, <1>4 DEF NewListener
<1>5. CASE DelSession
  <2>1. \A s \in Session : status'[s] = "open" => status[s] = "open"
    BY <1>0, <1>5, ReleaseFacts DEF DelSession
  <2>2. QED
    BY <1>3, <1>5, <2>1 DEF DelSession
<1>6. CASE AddConn
  BY <1>3, <1>6 DEF AddConn
<1>7. CASE PostListener
  BY <1>1, <1>7 DEF PostListener
<1>8. CASE \E c \in Conn : PostConn(c) \/ Connected(c) \/ Disconnected(c) \/ RedisStep(c)
  BY <1>1, <1>8 DEF PostConn, Connected, Disconnected, RedisStep, RedisServe, RedisRefuse
<1>9. CASE \E s \in Session : ClientStep(s) \/ ReadEvent(s) \/ WriteEvent(s)
  BY <1>1, <1>9 DEF ClientStep, ClientSend, ClientClose, Flush, ReadEvent, WriteEvent, HandleEvent
<1>10. ASSUME NEW s \in Session, Accept(s)
       PROVE  OneCallback' /\ HasFd'
  <2>1. PICK f \in FreeFd : fd' = [fd EXCEPT ![s] = f]
    BY <1>10 DEF Accept
  <2>2. f \in Fd /\ fd \in [Session -> Fd \cup {None}]
    BY <1>0 DEF FreeFd, TypeOK
  <2>3. \A x \in Session : x # s => (status'[x] = "open" => status[x] = "open")
    BY <1>10 DEF Accept
  <2>4. HasFd'
    BY <1>0, <2>1, <2>2, <2>3 DEF HasFd
  <2>5. self' = None /\ batch' = 0
    BY <1>10 DEF Accept, Idle
  <2>6. QED
    BY <2>4, <2>5 DEF OneCallback
<1>11. ASSUME NEW s \in Session, SessionRead(s)
       PROVE  OneCallback' /\ HasFd'
  BY <1>0, <1>11 DEF SessionRead, Idle, OneCallback, HasFd
<1>12. ASSUME NEW c \in Conn, ConnRead(c)
       PROVE  OneCallback' /\ HasFd'
  BY <1>0, <1>12 DEF ConnRead, Idle, OneCallback, HasFd
<1>13. ASSUME self # None, NextMessage, UNCHANGED <<batch, fd>>,
              self \in Session => status' = status,
              \A s \in Session : status'[s] = "open" => status[s] = "open"
       PROVE  OneCallback' /\ HasFd'
  <2>1. self' \in {self, None} /\ (self' # None => todo' # <<>>)
    BY <1>0, <1>13, NextMessageFacts
  <2>2. QED
    BY <1>0, <1>13, <2>1 DEF OneCallback, HasFd
<1>14. CASE DropMessage
  BY <1>13, <1>14 DEF DropMessage
<1>15. CASE Dispatch
  BY <1>13, <1>15 DEF Dispatch
<1>16. CASE Deliver
  <2>1. \A s \in Session : status'[s] = "open" => status[s] = "open"
    BY <1>0, <1>16, ReleaseFacts DEF Deliver
  <2>2. self # None /\ self \notin Session
    BY <1>16 DEF Deliver
  <2>3. QED
    BY <1>13, <1>16, <2>1, <2>2 DEF Deliver
<1>17. CASE DeliverToNobody
  BY <1>1, <1>17 DEF DeliverToNobody
<1>18. CASE UNCHANGED vars
  BY <1>1, <1>18 DEF vars
<1>19. QED
  BY <1>2, <1>4, <1>5, <1>6, <1>7, <1>8, <1>9, <1>10, <1>11, <1>12, <1>14, <1>15,
     <1>16, <1>17, <1>18
     DEF Next, TaskStep, SessionStep, ConnStep, MessageStep

LEMMA NextHeldAreAlive == IInv /\ [Next]_vars => HeldAreAlive'
<1> SUFFICES ASSUME IInv, [Next]_vars PROVE HeldAreAlive'
  OBVIOUS
<1> USE DEF loopVars, taskVars, cbVars, sessionVars, connVars, clientVars, redisVars
<1>0. TypeOK /\ OneCallback /\ HeldAreAlive
  BY DEF IInv
<1>1. ASSUME UNCHANGED <<fd_to_session_map, session_sptr_queue, status, fd>>
      PROVE  HeldAreAlive'
  BY <1>0, <1>1 DEF HeldAreAlive
<1>2. CASE ProcessMsg \/ NewListener \/ AddConn \/ PostListener
  BY <1>1, <1>2 DEF ProcessMsg, NewListener, AddConn, PostListener
<1>3. CASE \E c \in Conn : PostConn(c) \/ ConnStep(c) \/ RedisStep(c)
  BY <1>1, <1>3 DEF PostConn, ConnStep, Connected, Disconnected, ConnRead,
                    RedisStep, RedisServe, RedisRefuse
<1>4. CASE \E s \in Session : ClientStep(s) \/ SessionRead(s) \/ ReadEvent(s) \/ WriteEvent(s)
  BY <1>1, <1>4 DEF ClientStep, ClientSend, ClientClose, Flush, SessionRead, ReadEvent,
                    WriteEvent, HandleEvent
<1>5. CASE DropMessage \/ DeliverToNobody \/ UNCHANGED vars
  BY <1>1, <1>5 DEF DropMessage, DeliverToNobody, vars
<1>6. CASE DelSession
  <2> DEFINE d == Head(task_queue).fd
  <2>1. /\ fd_to_session_map' = [fd_to_session_map EXCEPT ![d] = None]
        /\ session_sptr_queue' = session_sptr_queue
        /\ fd' = fd
        /\ Release(fd_to_session_map', session_sptr_queue)
    BY <1>6 DEF DelSession
  <2> HIDE DEF d
  <2>2. fd_to_session_map \in [Fd -> Session \cup {None}]
        /\ session_sptr_queue \in [Conn -> Seq(Session)]
    BY <1>0 DEF TypeOK
  <2>3. \A f \in Fd : fd_to_session_map'[f] # None =>
          /\ fd_to_session_map'[f] = fd_to_session_map[f]
          /\ fd_to_session_map'[f] \in Session
    BY <2>1, <2>2
  <2>4. \A f \in Fd : fd_to_session_map'[f] # None =>
          status'[fd_to_session_map'[f]] = status[fd_to_session_map'[f]]
    <3>1. Release(fd_to_session_map', session_sptr_queue)
      BY <2>1
    <3>2. \A f \in Fd : fd_to_session_map'[f] \in Session =>
            status'[fd_to_session_map'[f]] = status[fd_to_session_map'[f]]
      BY <1>0, <3>1, HeldStays
    <3>3. QED
      BY <2>3, <3>2
  <2>5. \A c \in Conn : \A i \in 1..Len(session_sptr_queue[c]) :
          session_sptr_queue[c][i] \in Session
    BY <2>2, ElementOfSeq
  <2>6. \A c \in Conn : \A i \in 1..Len(session_sptr_queue[c]) :
          status'[session_sptr_queue[c][i]] = status[session_sptr_queue[c][i]]
    BY <1>0, <2>1, <2>5, HeldStays
  <2>7. QED
    BY <1>0, <2>1, <2>3, <2>4, <2>6 DEF HeldAreAlive
<1>7. ASSUME NEW s \in Session, Accept(s)
      PROVE  HeldAreAlive'
  <2>1. PICK f \in FreeFd : /\ fd' = [fd EXCEPT ![s] = f]
                            /\ fd_to_session_map' = [fd_to_session_map EXCEPT ![f] = s]
    BY <1>7 DEF Accept
  <2>2. /\ f \in Fd
        /\ fd \in [Session -> Fd \cup {None}]
        /\ fd_to_session_map \in [Fd -> Session \cup {None}]
        /\ session_sptr_queue \in [Conn -> Seq(Session)]
        /\ status \in [Session -> Status]
    BY <1>0 DEF FreeFd, TypeOK
  <2>3. /\ status'[s] \in {"open", "broken", "leaked"}
        /\ \A x \in Session : x # s => \/ status'[x] = status[x]
                                       \/ status[x] = "broken" /\ ~ Held(x, fd_to_session_map', session_sptr_queue)
        /\ status[s] = "unborn"
        /\ session_sptr_queue' = session_sptr_queue
    BY <1>7 DEF Accept
  <2>4. \A g \in Fd : fd_to_session_map'[g] # None =>
          /\ status'[fd_to_session_map'[g]] \in {"open", "broken", "leaked"}
          /\ fd'[fd_to_session_map'[g]] = g
    <3> SUFFICES ASSUME NEW g \in Fd, fd_to_session_map'[g] # None
                 PROVE  /\ status'[fd_to_session_map'[g]] \in {"open", "broken", "leaked"}
                        /\ fd'[fd_to_session_map'[g]] = g
      OBVIOUS
    <3>1. CASE g = f
      BY <2>1, <2>2, <2>3, <3>1
    <3>2. CASE g # f
      <4> DEFINE x == fd_to_session_map[g]
      <4>1. x \in Session /\ fd_to_session_map'[g] = x
        BY <2>1, <2>2, <3>2
      <4>2. status[x] \in {"open", "broken", "leaked"} /\ fd[x] = g
        BY <1>0, <4>1 DEF HeldAreAlive
      <4>3. x # s
        BY <2>3, <4>2
      <4>4. Held(x, fd_to_session_map', session_sptr_queue)
        BY <4>1 DEF Held
      <4>5. status'[x] = status[x]
        BY <2>3, <4>1, <4>3, <4>4
      <4>6. fd'[x] = fd[x]
        BY <2>1, <2>2, <4>1, <4>3
      <4>7. QED
        BY <4>1, <4>2, <4>5, <4>6
    <3>3. QED
      BY <3>1, <3>2
  <2>5. \A c \in Conn : \A i \in 1..Len(session_sptr_queue'[c]) :
          status'[session_sptr_queue'[c][i]] = "open"
    <3> SUFFICES ASSUME NEW c \in Conn, NEW i \in 1..Len(session_sptr_queue[c])
                 PROVE  status'[session_sptr_queue[c][i]] = "open"
      BY <2>3
    <3>1. session_sptr_queue[c][i] \in Session
      BY <2>2, ElementOfSeq
    <3>2. status[session_sptr_queue[c][i]] = "open"
      BY <1>0 DEF HeldAreAlive
    <3>3. QED
      BY <2>3, <3>1, <3>2
  <2>6. QED
    BY <2>4, <2>5 DEF HeldAreAlive
<1>8. CASE Dispatch
  <2>1. PICK i \in Hits :
          session_sptr_queue' = [session_sptr_queue EXCEPT ![Pick(i)] = Append(@, self)]
    BY <1>8 DEF Dispatch
  <2> DEFINE c == Pick(i)
  <2>2. self \in Session /\ status[self] = "open"
    BY <1>0, <1>8 DEF Dispatch, OneCallback
  <2>3. c \in Conn
    BY <1>0, <2>2, PickFacts
  <2>4. /\ session_sptr_queue[c] \in Seq(Session)
        /\ session_sptr_queue' = [session_sptr_queue EXCEPT ![c] = Append(session_sptr_queue[c], self)]
        /\ session_sptr_queue \in [Conn -> Seq(Session)]
    BY <1>0, <2>1, <2>3 DEF TypeOK
  <2> HIDE DEF c
  <2>5. /\ Len(Append(session_sptr_queue[c], self)) = Len(session_sptr_queue[c]) + 1
        /\ Len(session_sptr_queue[c]) \in Nat
        /\ \A j \in 1..Len(session_sptr_queue[c]) :
             Append(session_sptr_queue[c], self)[j] = session_sptr_queue[c][j]
        /\ Append(session_sptr_queue[c], self)[Len(session_sptr_queue[c]) + 1] = self
    BY <2>2, <2>4, AppendProperties, LenProperties
  <2>6. \A j \in 1..Len(session_sptr_queue'[c]) : status[session_sptr_queue'[c][j]] = "open"
    <3> SUFFICES ASSUME NEW j \in 1..Len(session_sptr_queue'[c])
                 PROVE  status[session_sptr_queue'[c][j]] = "open"
      OBVIOUS
    <3>1. session_sptr_queue'[c] = Append(session_sptr_queue[c], self)
      BY <2>3, <2>4
    <3>2. CASE j = Len(session_sptr_queue[c]) + 1
      BY <2>2, <2>5, <3>1, <3>2
    <3>3. CASE j \in 1..Len(session_sptr_queue[c])
      BY <1>0, <2>3, <2>5, <3>1, <3>3 DEF HeldAreAlive
    <3>4. QED
      BY <2>5, <3>1, <3>2, <3>3
  <2>7. \A x \in Conn : x # c => session_sptr_queue'[x] = session_sptr_queue[x]
    BY <2>3, <2>4
  <2>8. UNCHANGED <<fd_to_session_map, status, fd>>
    BY <1>8 DEF Dispatch
  <2>9. \A x \in Conn : \A j \in 1..Len(session_sptr_queue'[x]) :
          status[session_sptr_queue'[x][j]] = "open"
    BY <1>0, <2>6, <2>7 DEF HeldAreAlive
  <2>10. QED
    BY <1>0, <2>8, <2>9 DEF HeldAreAlive
<1>9. CASE Deliver
  <2>1. /\ self \in Conn
        /\ session_sptr_queue[self] \in Seq(Session)
        /\ session_sptr_queue[self] # <<>>
        /\ session_sptr_queue' = [session_sptr_queue EXCEPT ![self] = Tail(session_sptr_queue[self])]
        /\ session_sptr_queue \in [Conn -> Seq(Session)]
        /\ fd_to_session_map \in [Fd -> Session \cup {None}]
    BY <1>0, <1>9 DEF Deliver, TypeOK
  <2>2. /\ Tail(session_sptr_queue[self]) \in Seq(Session)
        /\ Len(session_sptr_queue[self]) \in Nat
        /\ Len(Tail(session_sptr_queue[self])) = Len(session_sptr_queue[self]) - 1
        /\ \A i \in 1..Len(Tail(session_sptr_queue[self])) :
             Tail(session_sptr_queue[self])[i] = session_sptr_queue[self][i + 1]
    BY <2>1, HeadTailProperties, LenProperties
  <2>3. \A c \in Conn : \A i \in 1..Len(session_sptr_queue'[c]) :
          /\ session_sptr_queue'[c][i] \in Session
          /\ status[session_sptr_queue'[c][i]] = "open"
    <3> SUFFICES ASSUME NEW c \in Conn, NEW i \in 1..Len(session_sptr_queue'[c])
                 PROVE  \E j \in 1..Len(session_sptr_queue[c]) :
                          session_sptr_queue'[c][i] = session_sptr_queue[c][j]
      BY <1>0, <2>1, ElementOfSeq DEF HeldAreAlive
    <3>1. CASE c = self
      <4>1. session_sptr_queue'[c] = Tail(session_sptr_queue[self])
        BY <2>1, <3>1
      <4>2. i + 1 \in 1..Len(session_sptr_queue[c])
        BY <2>2, <3>1, <4>1
      <4>3. QED
        BY <2>2, <3>1, <4>1, <4>2
    <3>2. CASE c # self
      BY <2>1, <3>2
    <3>3. QED
      BY <3>1, <3>2
  <2>4. Release(fd_to_session_map, session_sptr_queue') /\ UNCHANGED <<fd_to_session_map, fd>>
    BY <1>9 DEF Deliver
  <2>5. \A f \in Fd : fd_to_session_map[f] # None =>
          status'[fd_to_session_map[f]] = status[fd_to_session_map[f]]
    <3>1. \A f \in Fd : fd_to_session_map[f] \in Session =>
            status'[fd_to_session_map[f]] = status[fd_to_session_map[f]]
      BY <1>0, <2>4, HeldStays
    <3>2. QED
      BY <2>1, <3>1
  <2>6. \A c \in Conn : \A i \in 1..Len(session_sptr_queue'[c]) :
          status'[session_sptr_queue'[c][i]] = status[session_sptr_queue'[c][i]]
    <3>1. \A c \in Conn : \A i \in 1..Len(session_sptr_queue'[c]) :
            session_sptr_queue'[c][i] \in Session =>
              status'[session_sptr_queue'[c][i]] = status[session_sptr_queue'[c][i]]
      BY <1>0, <2>4, HeldStays
    <3>2. QED
      BY <2>3, <3>1
  <2>7. QED
    BY <1>0, <2>3, <2>4, <2>5, <2>6 DEF HeldAreAlive
<1>10. QED
  BY <1>2, <1>3, <1>4, <1>5, <1>6, <1>7, <1>8, <1>9
     DEF Next, TaskStep, SessionStep, MessageStep

-----------------------------------------------------------------------------
(* Only sessions with an event of their own are closed.                    *)

\* Events of a session are never taken back.
LEMMA FaultGrows ==
  ASSUME TypeOK, [Next]_vars
  PROVE  \A s \in Session : fault[s] \subseteq fault'[s]
<1> USE DEF vars, loopVars, taskVars, cbVars, sessionVars, connVars, clientVars, redisVars
<1>1. ASSUME NEW s \in Session, NEW kind, HandleEvent(s, kind)
      PROVE  \A x \in Session : fault[x] \subseteq fault'[x]
  BY <1>1 DEF HandleEvent, TypeOK
<1>2. CASE \E s \in Session : ReadEvent(s) \/ WriteEvent(s)
  BY <1>1, <1>2 DEF ReadEvent, WriteEvent
<1>3. CASE UNCHANGED fault
  BY <1>3
<1>4. TaskStep \/ MessageStep \/ PostListener => UNCHANGED fault
  BY DEF TaskStep, ProcessMsg, NewListener, DelSession, AddConn, MessageStep,
         DropMessage, Dispatch, Deliver, DeliverToNobody, PostListener
<1>5. ASSUME NEW s \in Session, Accept(s) \/ SessionRead(s) \/ ClientStep(s)
      PROVE  UNCHANGED fault
  BY <1>5 DEF Accept, SessionRead, ClientStep, ClientSend, ClientClose, Flush
<1>6. ASSUME NEW c \in Conn, PostConn(c) \/ ConnStep(c) \/ RedisStep(c)
      PROVE  UNCHANGED fault
  BY <1>6 DEF PostConn, ConnStep, Connected, Disconnected, ConnRead, RedisStep,
              RedisServe, RedisRefuse
<1>7. UNCHANGED vars => UNCHANGED fault
  OBVIOUS
<1>8. QED
  BY <1>2, <1>3, <1>4, <1>5, <1>6, <1>7 DEF Next, SessionStep

\* Two events of one session are the read one and the write one.
LEMMA EventFacts ==
  ASSUME TypeOK, TypeOK', [Next]_vars, SingleEvents'
  PROVE  /\ SingleEvents
         /\ \A s \in Session : fault[s] # {} => fault'[s] = fault[s]
<1> SUFFICES ASSUME NEW s \in Session
             PROVE  /\ Cardinality(fault[s]) <= 1
                    /\ fault[s] # {} => fault'[s] = fault[s]
  BY DEF SingleEvents
<1> DEFINE F == fault[s]
           G == fault'[s]
<1>1. F \subseteq G /\ G \subseteq {"read", "write"} /\ Cardinality(G) <= 1
  BY FaultGrows DEF TypeOK, SingleEvents
<1> HIDE DEF F, G
<1>2. IsFiniteSet({"read", "write"})
  <2>1. {"read", "write"} = {"read"} \cup {"write"}
    OBVIOUS
  <2>2. IsFiniteSet({"read"}) /\ IsFiniteSet({"write"})
    BY FS_Singleton
  <2>3. IsFiniteSet({"read"} \cup {"write"})
    BY <2>2, FS_Union
  <2>4. QED
    BY <2>1, <2>3
<1>3. IsFiniteSet(G) /\ IsFiniteSet(F) /\ Cardinality(F) <= Cardinality(G)
  BY <1>1, <1>2, FS_Subset
<1>4. Cardinality(F) \in Nat /\ Cardinality(G) \in Nat
  BY <1>3, FS_CardinalityType
<1>5. Cardinality(F) <= 1
  BY <1>1, <1>3, <1>4
<1>6. ASSUME F # {} PROVE G = F
  <2>1. Cardinality(F) # 0
    BY <1>3, <1>6, FS_EmptySet
  <2>2. Cardinality(F) = Cardinality(G)
    BY <1>1, <1>3, <1>4, <2>1
  <2>3. QED
    BY <1>1, <1>3, <2>2, FS_Subset
<1>7. QED
  BY <1>5, <1>6 DEF F, G

\* A task that is not a DEL_SESSION is posted.
LEMMA PostOther ==
  ASSUME TypeOK, NEW task \in Task, task.kind # "DEL_SESSION",
         task_queue' = Append(task_queue, task)
  PROVE  \A i \in Dels' : i \in Dels /\ task_queue'[i] = task_queue[i]
<1>1. task_queue \in Seq(Task)
  BY DEF TypeOK
<1>2. /\ Len(task_queue) \in Nat
      /\ Len(task_queue') = Len(task_queue) + 1
      /\ \A i \in 1..Len(task_queue) : task_queue'[i] = task_queue[i]
      /\ task_queue'[Len(task_queue) + 1] = task
  BY <1>1, AppendProperties, LenProperties
<1>3. QED
  BY <1>2 DEF Dels

\* The front of the queue is popped.
LEMMA PopTask ==
  ASSUME TypeOK, batch > 0, task_queue' = Tail(task_queue)
  PROVE  /\ \A i \in Dels' : i + 1 \in Dels /\ task_queue'[i] = task_queue[i + 1]
         /\ Head(task_queue).kind = "DEL_SESSION" => 1 \in Dels
         /\ task_queue[1] = Head(task_queue)
         /\ Dels' \subseteq Nat \ {0}
<1>1. task_queue \in Seq(Task) /\ task_queue # <<>>
  BY HeadTask DEF TypeOK
<1>2. /\ Len(task_queue) \in Nat \ {0}
      /\ Len(task_queue') = Len(task_queue) - 1
      /\ \A i \in 1..Len(task_queue') : task_queue'[i] = task_queue[i + 1]
  BY <1>1, HeadTailProperties, EmptySeq
<1>3. task_queue[1] = Head(task_queue)
  BY <1>1
<1>4. QED
  BY <1>2, <1>3 DEF Dels

\* One step, in terms of DelInv alone: nothing is removed from the map, no
\* session turns up, and no DEL_SESSION is posted.
LEMMA DelInvFrame ==
  ASSUME TypeOK, DelInv,
         UNCHANGED <<fd_to_session_map, fd, fault>>,
         \A s \in Session : status'[s] = "open" => status[s] = "open",
         \A f \in Fd : fd_to_session_map[f] \in Session
                         => status'[fd_to_session_map[f]] = status[fd_to_session_map[f]],
         NEW k \in {0, 1},
         Dels' \subseteq Nat,
         \A i \in Dels' : i + k \in Dels /\ task_queue'[i] = task_queue[i + k]
  PROVE  DelInv'
<1>1. \A s \in Session : status'[s] = "open" /\ ~ isClosing(s)' => fd_to_session_map'[fd'[s]] = s
  BY DEF DelInv, isClosing
<1>2. ASSUME NEW i \in Dels'
      PROVE  /\ status'[task_queue'[i].by] = "open"
             /\ fault'[task_queue'[i].by] # {}
             /\ fd'[task_queue'[i].by] = task_queue'[i].fd
             /\ fd_to_session_map'[task_queue'[i].fd] = task_queue'[i].by
  <2>1. i + k \in Dels /\ task_queue'[i] = task_queue[i + k]
    OBVIOUS
  <2> DEFINE t == task_queue[i + k]
  <2>2. /\ status[t.by] = "open" /\ fault[t.by] # {}
        /\ fd[t.by] = t.fd /\ fd_to_session_map[t.fd] = t.by
    BY <2>1 DEF DelInv
  <2>3. t \in Task /\ t.kind = "DEL_SESSION"
    BY <2>1, ElementOfSeq DEF Dels, TypeOK
  <2>4. t.fd \in Fd /\ t.by \in Session
    BY <2>3 DEF Task
  <2> HIDE DEF t
  <2>5. status'[t.by] = "open"
    BY <2>2, <2>4
  <2>6. fault'[t.by] # {}
    BY <2>2
  <2>7. task_queue'[i] = t
    BY <2>1 DEF t
  <2>8. QED
    BY <2>2, <2>5, <2>6, <2>7
<1>3. ASSUME NEW i \in Dels', NEW j \in Dels', task_queue'[i].by = task_queue'[j].by
      PROVE  i = j
  <2>1. task_queue[i + k].by = task_queue[j + k].by /\ i + k \in Dels /\ j + k \in Dels
    BY <1>3
  <2>2. i + k = j + k
    BY <2>1 DEF DelInv
  <2>3. i \in Nat /\ j \in Nat
    OBVIOUS
  <2>4. QED
    BY <2>2, <2>3
<1>4. QED
  BY <1>1, <1>2, <1>3 DEF DelInv

LEMMA NextDelInv ==
  ASSUME IInv, TypeOK', [Next]_vars, SingleEvents', DelInv
  PROVE  DelInv'
<1> USE DEF loopVars, taskVars, cbVars, sessionVars, connVars, clientVars, redisVars
<1>0. /\ TypeOK /\ HeldAreAlive /\ HasFd
      /\ Dels \subseteq Nat /\ Dels' \subseteq Nat
  <2>1. Len(task_queue) \in Nat /\ Len(task_queue') \in Nat
    BY LenProperties DEF IInv, TypeOK
  <2>2. QED
    BY <2>1 DEF IInv, Dels
<1>1. ASSUME UNCHANGED <<fd_to_session_map, fd, fault, status>>, NEW k \in {0, 1},
             \A i \in Dels' : i + k \in Dels /\ task_queue'[i] = task_queue[i + k]
      PROVE  DelInv'
  BY <1>0, <1>1, DelInvFrame
<1>2. ASSUME UNCHANGED task_queue
      PROVE  \A i \in Dels' : i + 0 \in Dels /\ task_queue'[i] = task_queue[i + 0]
  <2>1. Dels' = Dels
    BY <1>2 DEF Dels
  <2>2. SUFFICES ASSUME NEW i \in Dels
                 PROVE  i + 0 \in Dels /\ task_queue'[i] = task_queue[i + 0]
    BY <2>1
  <2>3. i + 0 = i
    BY <1>0
  <2>4. QED
    BY <1>2, <2>3
<1>3. ASSUME UNCHANGED <<fd_to_session_map, fd, fault, status, task_queue>>
      PROVE  DelInv'
  BY <1>1, <1>2, <1>3
<1>4. CASE ProcessMsg
  BY <1>3, <1>4 DEF ProcessMsg
<1>5. CASE \E c \in Conn : ConnStep(c) \/ RedisStep(c)
  BY <1>3, <1>5 DEF ConnStep, Connected, Disconnected, ConnRead, RedisStep, RedisServe, RedisRefuse
<1>6. CASE \E s \in Session : ClientStep(s) \/ SessionRead(s)
  BY <1>3, <1>6 DEF ClientStep, ClientSend, ClientClose, Flush, SessionRead
<1>7. CASE DropMessage \/ Dispatch \/ DeliverToNobody \/ UNCHANGED vars
  BY <1>3, <1>7 DEF DropMessage, Dispatch, DeliverToNobody, vars
<1>8. ASSUME NEW task \in Task, task.kind # "DEL_SESSION",
             task_queue' = Append(task_queue, task)
      PROVE  \A i \in Dels' : i + 0 \in Dels /\ task_queue'[i] = task_queue[i + 0]
  <2>1. \A i \in Dels' : i \in Dels /\ task_queue'[i] = task_queue[i]
    BY <1>0, <1>8, PostOther
  <2>2. SUFFICES ASSUME NEW i \in Dels'
                 PROVE  i + 0 \in Dels /\ task_queue'[i] = task_queue[i + 0]
    OBVIOUS
  <2>3. i + 0 = i
    BY <1>0
  <2>4. QED
    BY <2>1, <2>3
<1>9. CASE PostListener
  <2>1. [kind |-> "NEW_LISTENER"] \in Task
    BY DEF Task
  <2>2. \A i \in Dels' : i + 0 \in Dels /\ task_queue'[i] = task_queue[i + 0]
    BY <1>8, <1>9, <2>1 DEF PostListener
  <2>3. QED
    BY <1>1, <1>9, <2>2 DEF PostListener
<1>10. ASSUME NEW c \in Conn, PostConn(c)
       PROVE  DelInv'
  <2>1. [kind |-> "ADD_CONN", conn |-> c] \in Task
    BY DEF Task
  <2>2. \A i \in Dels' : i + 0 \in Dels /\ task_queue'[i] = task_queue[i + 0]
    BY <1>8, <1>10, <2>1 DEF PostConn
  <2>3. QED
    BY <1>1, <1>10, <2>2 DEF PostConn
<1>11. ASSUME NEW kind, Running(kind)
       PROVE  /\ \A i \in Dels' : i + 1 \in Dels /\ task_queue'[i] = task_queue[i + 1]
              /\ Head(task_queue).kind = "DEL_SESSION" => 1 \in Dels
              /\ task_queue[1] = Head(task_queue)
              /\ Dels' \subseteq Nat \ {0}
  BY <1>0, <1>11, PopTask DEF Running
<1>12. CASE NewListener
  BY <1>1, <1>11, <1>12 DEF NewListener
<1>13. CASE AddConn
  BY <1>1, <1>11, <1>13 DEF AddConn
<1>14. CASE Deliver
  <2>1. UNCHANGED <<fd_to_session_map, fd, fault, task_queue>>
        /\ Release(fd_to_session_map, session_sptr_queue')
    BY <1>14 DEF Deliver
  <2>2. \A s \in Session : status'[s] = "open" => status[s] = "open"
    BY <1>0, <2>1, ReleaseFacts
  <2>3. \A f \in Fd : fd_to_session_map[f] \in Session
                        => status'[fd_to_session_map[f]] = status[fd_to_session_map[f]]
    BY <1>0, <2>1, HeldStays
  <2>4. QED
    BY <1>0, <1>2, <2>1, <2>2, <2>3, DelInvFrame
<1>15. CASE DelSession
  <2> DEFINE t == task_queue[1]
  <2>1. /\ \A i \in Dels' : i + 1 \in Dels /\ task_queue'[i] = task_queue[i + 1]
        /\ 1 \in Dels /\ t = Head(task_queue)
        /\ Dels' \subseteq Nat \ {0}
    BY <1>11, <1>15 DEF DelSession, Running
  <2>2. /\ fd_to_session_map' = [fd_to_session_map EXCEPT ![t.fd] = None]
        /\ Release(fd_to_session_map', session_sptr_queue)
        /\ UNCHANGED <<fd, fault>>
    BY <1>15, <2>1 DEF DelSession
  <2>3. fd[t.by] = t.fd /\ fault[t.by] # {} /\ fd_to_session_map[t.fd] = t.by
    BY <2>1 DEF DelInv
  <2>4. /\ fd_to_session_map \in [Fd -> Session \cup {None}]
        /\ \A s \in Session : status[s] = "open" => fd[s] \in Fd
    BY <1>0 DEF TypeOK, HasFd
  <2>5. \A s \in Session : status'[s] = "open" => status[s] = "open"
    BY <1>0, <2>2, ReleaseFacts
  <2>6. \A f \in Fd : fd_to_session_map'[f] \in Session
                        => status'[fd_to_session_map'[f]] = status[fd_to_session_map'[f]]
    <3>1. Release(fd_to_session_map', session_sptr_queue)
      BY <2>2
    <3>2. QED
      BY <1>0, <3>1, HeldStays
  <2> HIDE DEF t
  <2>7. ASSUME NEW s \in Session, status'[s] = "open", fault'[s] = {}
        PROVE  fd_to_session_map'[fd'[s]] = s
    <3>1. status[s] = "open" /\ fault[s] = {} /\ fd[s] \in Fd
      BY <2>2, <2>4, <2>5, <2>7
    <3>2. fd_to_session_map[fd[s]] = s
      BY <3>1 DEF DelInv, isClosing
    <3>3. fd[s] # t.fd
      BY <2>3, <3>1, <3>2
    <3>4. QED
      BY <2>2, <2>4, <3>1, <3>2, <3>3
  <2>8. ASSUME NEW i \in Dels'
        PROVE  /\ status'[task_queue'[i].by] = "open"
               /\ fault'[task_queue'[i].by] # {}
               /\ fd'[task_queue'[i].by] = task_queue'[i].fd
               /\ fd_to_session_map'[task_queue'[i].fd] = task_queue'[i].by
    <3> DEFINE u == task_queue[i + 1]
    <3>1. i + 1 \in Dels /\ task_queue'[i] = u /\ i + 1 # 1
      BY <2>1
    <3>2. /\ status[u.by] = "open" /\ fault[u.by] # {}
          /\ fd[u.by] = u.fd /\ fd_to_session_map[u.fd] = u.by
      BY <3>1 DEF DelInv
    <3>3. u.by # t.by
      BY <2>1, <3>1 DEF DelInv, t
    <3>4. u \in Task /\ u.kind = "DEL_SESSION"
      BY <1>0, <3>1, ElementOfSeq DEF Dels, TypeOK
    <3>5. u.fd \in Fd /\ u.by \in Session
      BY <3>4 DEF Task
    <3> HIDE DEF u
    <3>6. fd_to_session_map'[u.fd] = u.by
      BY <2>2, <2>3, <2>4, <3>2, <3>3, <3>5
    <3>7. status'[u.by] = "open"
      BY <2>6, <3>2, <3>5, <3>6
    <3>8. QED
      BY <2>2, <3>1, <3>2, <3>6, <3>7
  <2>9. ASSUME NEW i \in Dels', NEW j \in Dels', task_queue'[i].by = task_queue'[j].by
        PROVE  i = j
    <3>1. i + 1 \in Dels /\ j + 1 \in Dels /\ task_queue[i + 1].by = task_queue[j + 1].by
      BY <2>1, <2>9
    <3>2. i + 1 = j + 1
      BY <3>1 DEF DelInv
    <3>3. i \in Nat /\ j \in Nat
      BY <2>1
    <3>4. QED
      BY <3>2, <3>3
  <2>10. QED
    BY <2>7, <2>8, <2>9 DEF DelInv, isClosing
<1>16. ASSUME NEW s \in Session, Accept(s)
       PROVE  DelInv'
  <2>1. PICK f \in FreeFd : /\ fd' = [fd EXCEPT ![s] = f]
                            /\ fd_to_session_map' = [fd_to_session_map EXCEPT ![f] = s]
    BY <1>16 DEF Accept
  <2>2. /\ fd_to_session_map \in [Fd -> Session \cup {None}]
        /\ fd \in [Session -> Fd \cup {None}]
        /\ f \in Fd
        /\ \A x \in Session : status[x] = "open" => fd[x] # f
    BY <1>0 DEF TypeOK, FreeFd
  <2>3. /\ \A x \in Session : x # s => (status'[x] = "open" <=> status[x] = "open")
        /\ status[s] = "unborn"
        /\ UNCHANGED <<fault, task_queue>>
    BY <1>16 DEF Accept
  <2>4. Dels' = Dels
    BY <2>3 DEF Dels
  <2>5. ASSUME NEW x \in Session, x # s, status[x] = "open"
        PROVE  /\ fd'[x] = fd[x]
               /\ fd_to_session_map'[fd[x]] = fd_to_session_map[fd[x]]
    <3>1. fd[x] \in Fd /\ fd[x] # f
      BY <1>0, <2>2, <2>5 DEF HasFd
    <3>2. QED
      BY <2>1, <2>2, <2>5, <3>1
  <2>6. ASSUME NEW x \in Session, status'[x] = "open", fault'[x] = {}
        PROVE  fd_to_session_map'[fd'[x]] = x
    <3>1. CASE x = s
      BY <2>1, <2>2, <3>1
    <3>2. CASE x # s
      BY <2>3, <2>5, <2>6, <3>2 DEF DelInv, isClosing
    <3>3. QED
      BY <3>1, <3>2
  <2>7. ASSUME NEW i \in Dels
        PROVE  /\ status'[task_queue[i].by] = "open"
               /\ fault'[task_queue[i].by] # {}
               /\ fd'[task_queue[i].by] = task_queue[i].fd
               /\ fd_to_session_map'[task_queue[i].fd] = task_queue[i].by
    <3> DEFINE u == task_queue[i]
    <3>1. /\ status[u.by] = "open" /\ fault[u.by] # {}
          /\ fd[u.by] = u.fd /\ fd_to_session_map[u.fd] = u.by
      BY DEF DelInv
    <3>2. u \in Task /\ u.kind = "DEL_SESSION"
      BY <1>0, ElementOfSeq DEF Dels, TypeOK
    <3>3. u.by \in Session
      BY <3>2 DEF Task
    <3> HIDE DEF u
    <3>4. u.by # s
      BY <2>3, <3>1
    <3>5. fd'[u.by] = u.fd /\ fd_to_session_map'[u.fd] = u.by
      BY <2>5, <3>1, <3>3, <3>4
    <3>6. QED
      BY <2>3, <3>1, <3>3, <3>4, <3>5 DEF u
  <2>8. QED
    BY <2>3, <2>4, <2>6, <2>7 DEF DelInv, isClosing
<1>17. ASSUME NEW s \in Session, NEW kind, status[s] = "open", kind \notin fault[s],
              HandleEvent(s, kind)
       PROVE  DelInv'
  <2> DEFINE task == [kind |-> "DEL_SESSION", fd |-> fd[s], by |-> s]
             l == Len(task_queue)
  <2>1. /\ task_queue' = Append(task_queue, task)
        /\ UNCHANGED <<status, fd, fd_to_session_map>>
        /\ fault' = [fault EXCEPT ![s] = @ \cup {kind}]
    BY <1>17 DEF HandleEvent
  <2>2. fault[s] = {} /\ fault'[s] # {} /\ \A x \in Session : x # s => fault'[x] = fault[x]
    <3>1. fault \in [Session -> SUBSET {"read", "write"}]
      BY <1>0 DEF TypeOK
    <3>2. fault'[s] # fault[s] /\ fault'[s] # {} /\ \A x \in Session : x # s => fault'[x] = fault[x]
      BY <1>17, <2>1, <3>1
    <3>3. QED
      BY <1>0, <3>2, EventFacts
  <2>3. fd_to_session_map[fd[s]] = s
    BY <1>17, <2>2 DEF DelInv, isClosing
  <2>4. task \in Task /\ task.fd = fd[s] /\ task.by = s
    BY <1>0, <1>17 DEF Task, HasFd
  <2> HIDE DEF task
  <2>5. /\ task_queue \in Seq(Task)
        /\ l \in Nat
        /\ Len(task_queue') = l + 1
        /\ \A i \in 1..l : task_queue'[i] = task_queue[i]
        /\ task_queue'[l + 1] = task
    BY <1>0, <2>1, <2>4, AppendProperties, LenProperties DEF TypeOK
  <2>6. \A i \in Dels' : \/ i \in Dels /\ task_queue'[i] = task_queue[i]
                         \/ i = l + 1 /\ task_queue'[i] = task
    BY <2>5 DEF Dels
  <2>7. \A i \in Dels : /\ task_queue[i].by \in Session
                        /\ task_queue[i].by # s
    <3> SUFFICES ASSUME NEW i \in Dels
                 PROVE  task_queue[i].by \in Session /\ task_queue[i].by # s
      OBVIOUS
    <3>1. task_queue[i] \in Task /\ task_queue[i].kind = "DEL_SESSION"
      BY <2>5, ElementOfSeq DEF Dels
    <3>2. fault[task_queue[i].by] # {}
      BY DEF DelInv
    <3>3. QED
      BY <2>2, <3>1, <3>2 DEF Task
  <2>8. \A x \in Session : status'[x] = "open" /\ fault'[x] = {} => fd_to_session_map'[fd'[x]] = x
    BY <2>1, <2>2 DEF DelInv, isClosing
  <2>9. ASSUME NEW i \in Dels'
        PROVE  /\ status'[task_queue'[i].by] = "open"
               /\ fault'[task_queue'[i].by] # {}
               /\ fd'[task_queue'[i].by] = task_queue'[i].fd
               /\ fd_to_session_map'[task_queue'[i].fd] = task_queue'[i].by
    <3>1. CASE i \in Dels /\ task_queue'[i] = task_queue[i]
      BY <2>1, <2>2, <2>7, <3>1 DEF DelInv
    <3>2. CASE task_queue'[i] = task
      BY <1>17, <2>1, <2>2, <2>3, <2>4, <3>2
    <3>3. QED
      BY <2>6, <3>1, <3>2
  <2>10. ASSUME NEW i \in Dels', NEW j \in Dels', task_queue'[i].by = task_queue'[j].by
         PROVE  i = j
    BY <2>4, <2>6, <2>7, <2>10 DEF DelInv
  <2>11. QED
    BY <2>8, <2>9, <2>10 DEF DelInv, isClosing
<1>18. CASE \E s \in Session : ReadEvent(s) \/ WriteEvent(s)
  BY <1>17, <1>18 DEF ReadEvent, WriteEvent
<1>19. QED
  BY <1>4, <1>5, <1>6, <1>7, <1>9, <1>10, <1>12, <1>13, <1>14, <1>15, <1>16, <1>18
     DEF Next, TaskStep, SessionStep, MessageStep

-----------------------------------------------------------------------------
(* Connections are added once.                                              *)

\* ADD_CONN tasks stay in the queue, or their connection is added.
LEMMA AddPop ==
  ASSUME TypeOK, AddInv, batch > 0, task_queue' = Tail(task_queue),
         \A c \in Conn : conn[c] = "posted" /\ conn'[c] # "posted" =>
           Head(task_queue) = [kind |-> "ADD_CONN", conn |-> c]
  PROVE  AddInv'
<1>1. /\ task_queue \in Seq(Task) /\ task_queue # <<>> /\ Len(task_queue) \in Nat \ {0}
      /\ Len(task_queue') = Len(task_queue) - 1
      /\ \A i \in 1..Len(task_queue) - 1 : task_queue'[i] = task_queue[i + 1]
      /\ Head(task_queue) = task_queue[1]
  <2>1. task_queue \in Seq(Task) /\ task_queue # <<>>
    BY HeadTask DEF TypeOK
  <2>2. QED
    BY <2>1, HeadTailProperties, EmptySeq
<1>2. \A i \in 1..Len(task_queue') : /\ i + 1 \in 1..Len(task_queue) /\ i + 1 # 1
                                     /\ task_queue'[i] = task_queue[i + 1]
  BY <1>1
<1>3. 1 \in 1..Len(task_queue)
  BY <1>1
<1>4. ASSUME NEW i \in 1..Len(task_queue'), task_queue'[i].kind = "ADD_CONN"
      PROVE  conn'[task_queue'[i].conn] = "posted"
  <2> DEFINE t == task_queue[i + 1]
  <2>1. /\ i + 1 \in 1..Len(task_queue) /\ i + 1 # 1 /\ task_queue'[i] = t
        /\ t.kind = "ADD_CONN" /\ conn[t.conn] = "posted"
    BY <1>2, <1>4 DEF AddInv
  <2>2. t \in Task
    BY <1>1, <2>1, ElementOfSeq
  <2>3. t.conn \in Conn
    BY <2>1, <2>2 DEF Task
  <2> HIDE DEF t
  <2>4. ASSUME conn'[t.conn] # "posted" PROVE FALSE
    <3>1. task_queue[1] = [kind |-> "ADD_CONN", conn |-> t.conn]
      BY <1>1, <2>1, <2>3, <2>4
    <3>2. task_queue[1].kind = "ADD_CONN" /\ task_queue[1].conn = task_queue[i + 1].conn
      BY <3>1 DEF t
    <3>3. task_queue[i + 1].kind = "ADD_CONN"
      BY <2>1 DEF t
    <3>4. QED
      BY <1>3, <2>1, <3>2, <3>3 DEF AddInv
  <2>5. QED
    BY <2>1, <2>4
<1>5. ASSUME NEW i \in 1..Len(task_queue'), NEW j \in 1..Len(task_queue'),
             task_queue'[i].kind = "ADD_CONN", task_queue'[j].kind = "ADD_CONN",
             task_queue'[i].conn = task_queue'[j].conn
      PROVE  i = j
  <2>1. i + 1 = j + 1
    BY <1>2, <1>5 DEF AddInv
  <2>2. i \in Nat /\ j \in Nat
    BY <1>1
  <2>3. QED
    BY <2>1, <2>2
<1>6. QED
  BY <1>4, <1>5 DEF AddInv

\* A task is posted.
LEMMA AddPost ==
  ASSUME TypeOK, AddInv, NEW task \in Task, task_queue' = Append(task_queue, task),
         \A c \in Conn : conn[c] = "posted" => conn'[c] = "posted",
         task.kind = "ADD_CONN" => conn[task.conn] = "none" /\ conn'[task.conn] = "posted"
  PROVE  AddInv'
<1> DEFINE l == Len(task_queue)
<1>1. /\ task_queue \in Seq(Task) /\ l \in Nat /\ Len(task_queue') = l + 1
      /\ \A i \in 1..l : task_queue'[i] = task_queue[i]
      /\ task_queue'[l + 1] = task
  BY AppendProperties, LenProperties DEF TypeOK
<1>2. \A i \in 1..Len(task_queue') : \/ i \in 1..l /\ task_queue'[i] = task_queue[i]
                                     \/ i = l + 1 /\ task_queue'[i] = task
  BY <1>1
<1>3. \A i \in 1..l : task_queue[i].kind = "ADD_CONN" =>
        task_queue[i].conn \in Conn /\ conn[task_queue[i].conn] = "posted"
  <2> SUFFICES ASSUME NEW i \in 1..l, task_queue[i].kind = "ADD_CONN"
               PROVE  task_queue[i].conn \in Conn /\ conn[task_queue[i].conn] = "posted"
    OBVIOUS
  <2>1. task_queue[i] \in Task
    BY <1>1, ElementOfSeq
  <2>2. QED
    BY <2>1 DEF AddInv, Task
<1>4. \A i \in 1..l : \A j \in 1..l :
        task_queue[i].kind = "ADD_CONN" /\ task_queue[j].kind = "ADD_CONN"
          /\ task_queue[i].conn = task_queue[j].conn => i = j
  BY DEF AddInv
<1> HIDE DEF l
<1>5. \A i \in 1..Len(task_queue') :
        task_queue'[i].kind = "ADD_CONN" => conn'[task_queue'[i].conn] = "posted"
  BY <1>2, <1>3
<1>6. ASSUME NEW i \in 1..Len(task_queue'), NEW j \in 1..Len(task_queue'),
             task_queue'[i].kind = "ADD_CONN", task_queue'[j].kind = "ADD_CONN",
             task_queue'[i].conn = task_queue'[j].conn
      PROVE  i = j
  BY <1>2, <1>3, <1>4, <1>6
<1>7. QED
  BY <1>5, <1>6 DEF AddInv

LEMMA NextAddInv == TypeOK /\ HasFd /\ AddInv /\ [Next]_vars => AddInv'
<1> SUFFICES ASSUME TypeOK, HasFd, AddInv, [Next]_vars PROVE AddInv'
  OBVIOUS
<1> USE DEF taskVars, connVars
<1>1. ASSUME UNCHANGED task_queue, \A c \in Conn : conn[c] = "posted" => conn'[c] = "posted"
      PROVE  AddInv'
  <2>1. \A i \in 1..Len(task_queue) : task_queue[i].kind = "ADD_CONN" => task_queue[i].conn \in Conn
    <3> SUFFICES ASSUME NEW i \in 1..Len(task_queue), task_queue[i].kind = "ADD_CONN"
                 PROVE  task_queue[i].conn \in Conn
      OBVIOUS
    <3>1. task_queue[i] \in Task
      BY ElementOfSeq DEF TypeOK
    <3>2. QED
      BY <3>1 DEF Task
  <2>2. QED
    BY <1>1, <2>1 DEF AddInv
<1>2. ASSUME UNCHANGED <<task_queue, conn>> PROVE AddInv'
  BY <1>1, <1>2
<1>3. CASE ProcessMsg \/ MessageStep \/ UNCHANGED vars
  BY <1>2, <1>3 DEF ProcessMsg, MessageStep, DropMessage, Dispatch, Deliver, DeliverToNobody, vars
<1>4. CASE \E s \in Session : Accept(s) \/ SessionRead(s) \/ ClientStep(s)
  BY <1>2, <1>4 DEF Accept, SessionRead, ClientStep, ClientSend, ClientClose, Flush
<1>5. CASE \E c \in Conn : ConnRead(c) \/ RedisStep(c)
  BY <1>2, <1>5 DEF ConnRead, RedisStep, RedisServe, RedisRefuse
<1>6. CASE \E c \in Conn : Connected(c) \/ Disconnected(c)
  <2>1. PICK c \in Conn : Connected(c) \/ Disconnected(c)
    BY <1>6
  <2>2. UNCHANGED task_queue /\ \A d \in Conn : conn[d] = "posted" => conn'[d] = "posted"
    BY <2>1 DEF Connected, Disconnected, TypeOK
  <2>3. QED
    BY <1>1, <2>2
<1>7. CASE PostListener
  <2>1. [kind |-> "NEW_LISTENER"] \in Task /\ [kind |-> "NEW_LISTENER"].kind # "ADD_CONN"
    BY DEF Task
  <2>2. QED
    BY <1>7, <2>1, AddPost DEF PostListener
<1>8. CASE \E c \in Conn : PostConn(c)
  <2>1. PICK c \in Conn : PostConn(c)
    BY <1>8
  <2> DEFINE task == [kind |-> "ADD_CONN", conn |-> c]
  <2>2. task \in Task /\ task.conn = c
    BY DEF Task
  <2>3. task_queue' = Append(task_queue, task) /\ conn[c] = "none" /\ conn'[c] = "posted"
        /\ \A d \in Conn : conn[d] = "posted" => conn'[d] = "posted"
    BY <2>1 DEF PostConn, TypeOK
  <2> HIDE DEF task
  <2>4. QED
    BY <2>2, <2>3, AddPost
<1>9. CASE \E s \in Session : ReadEvent(s) \/ WriteEvent(s)
  <2>1. PICK s \in Session, kind \in {"read", "write"} : status[s] = "open" /\ HandleEvent(s, kind)
    BY <1>9 DEF ReadEvent, WriteEvent
  <2> DEFINE task == [kind |-> "DEL_SESSION", fd |-> fd[s], by |-> s]
  <2>2. task \in Task /\ task.kind # "ADD_CONN"
    BY <2>1 DEF Task, HasFd
  <2>3. task_queue' = Append(task_queue, task) /\ UNCHANGED conn
    BY <2>1 DEF HandleEvent
  <2> HIDE DEF task
  <2>4. QED
    BY <2>2, <2>3, AddPost
<1>10. CASE NewListener \/ DelSession
  <2>1. batch > 0 /\ task_queue' = Tail(task_queue) /\ UNCHANGED conn
    BY <1>10 DEF NewListener, DelSession, Running
  <2>2. QED
    BY <2>1, AddPop
<1>11. CASE AddConn
  <2>1. batch > 0 /\ task_queue' = Tail(task_queue) /\ Head(task_queue).kind = "ADD_CONN"
    BY <1>11 DEF AddConn, Running
  <2>2. Head(task_queue) \in Task
    BY <2>1, HeadTask
  <2>3. Head(task_queue).conn \in Conn
        /\ Head(task_queue) = [kind |-> "ADD_CONN", conn |-> Head(task_queue).conn]
    BY <2>1, <2>2 DEF Task
  <2>4. \A c \in Conn : c # Head(task_queue).conn => conn'[c] = conn[c]
    BY <1>11, <2>3 DEF AddConn, TypeOK
  <2>5. \A c \in Conn : conn[c] = "posted" /\ conn'[c] # "posted" =>
          Head(task_queue) = [kind |-> "ADD_CONN", conn |-> c]
    BY <2>3, <2>4
  <2>6. QED
    BY <2>1, <2>5, AddPop
<1>12. QED
  BY <1>3, <1>4, <1>5, <1>6, <1>7, <1>8, <1>9, <1>10, <1>11
     DEF Next, TaskStep, SessionStep, ConnStep

LEMMA InitVector == Init => AddInv /\ VectorInv
<1> SUFFICES ASSUME Init PROVE AddInv /\ VectorInv
  OBVIOUS
<1>1. Len(<<>>) = 0
  BY EmptySeq
<1>2. QED
  BY <1>1 DEF Init, AddInv, VectorInv, Added

\* A step that adds no connection.
LEMMA VectorFrame ==
  ASSUME TypeOK, VectorInv, UNCHANGED connection_sptr_vector,
         \A c \in Conn : Added(c)' <=> Added(c)
  PROVE  VectorInv'
<1>1. \A i \in 1..Len(connection_sptr_vector) : connection_sptr_vector[i] \in Conn
  BY ElementOfSeq DEF TypeOK
<1>2. QED
  BY <1>1 DEF VectorInv

\* ADD_CONN puts a new connection behind all others.
LEMMA VectorAdd ==
  ASSUME TypeOK, AddInv, VectorInv, AddConn
  PROVE  VectorInv'
<1> DEFINE v == connection_sptr_vector
           l == Len(v)
<1>1. PICK c : c = Head(task_queue).conn
  OBVIOUS
<1>2. batch > 0 /\ Head(task_queue).kind = "ADD_CONN"
  BY DEF AddConn, Running
<1>3. c \in Conn /\ conn[c] = "posted"
  <2>1. task_queue \in Seq(Task) /\ task_queue # <<>> /\ Head(task_queue) \in Task
    BY <1>2, HeadTask DEF TypeOK
  <2>2. Head(task_queue) = task_queue[1] /\ 1 \in 1..Len(task_queue)
    <3>1. Len(task_queue) \in Nat \ {0}
      BY <2>1, EmptySeq
    <3>2. QED
      BY <2>1, <3>1
  <2>3. QED
    BY <1>1, <1>2, <2>1, <2>2 DEF Task, AddInv
<1>4. PICK st \in {"connecting", "down"} : conn' = [conn EXCEPT ![c] = st]
  BY <1>1 DEF AddConn
<1>5. ~Added(c) /\ Added(c)' /\ \A d \in Conn : d # c => (Added(d)' <=> Added(d))
  BY <1>3, <1>4 DEF Added, TypeOK
<1>6. /\ v \in Seq(Conn) /\ l \in Nat /\ connection_sptr_vector' = Append(v, c)
      /\ \A i \in 1..l : v[i] \in Conn /\ v[i] # c
  <2>1. v \in Seq(Conn)
    BY DEF TypeOK
  <2>2. connection_sptr_vector' = Append(v, c)
    BY <1>1 DEF AddConn
  <2>3. \A i \in 1..l : v[i] \in Conn /\ v[i] # c
    BY <1>5, <2>1, ElementOfSeq DEF VectorInv
  <2>4. QED
    BY <2>1, <2>2, <2>3, LenProperties
<1> DEFINE u == connection_sptr_vector'
<1>7. /\ Len(u) = l + 1 /\ u[l + 1] = c
      /\ \A i \in 1..l : u[i] = v[i]
  BY <1>3, <1>6, AppendProperties
<1>8. /\ \A i \in 1..l : Added(v[i])
      /\ \A i, j \in 1..l : v[i] = v[j] => i = j
      /\ \A d \in Conn : Added(d) => \E i \in 1..l : v[i] = d
  BY DEF VectorInv
<1> HIDE DEF v, l, u
<1>9. \A i \in 1..Len(u) : \/ i \in 1..l /\ u[i] = v[i]
                           \/ i = l + 1 /\ u[i] = c
  BY <1>6, <1>7
<1>10. \A i \in 1..Len(u) : conn'[u[i]] \notin {"none", "posted"}
  BY <1>5, <1>6, <1>8, <1>9 DEF Added
<1>11. ASSUME NEW i \in 1..Len(u), NEW j \in 1..Len(u), u[i] = u[j]
       PROVE  i = j
  BY <1>6, <1>8, <1>9, <1>11
<1>12. ASSUME NEW d \in Conn, Added(d)'
       PROVE  \E i \in 1..Len(u) : u[i] = d
  <2>1. CASE d = c
    <3>1. l + 1 \in 1..Len(u)
      BY <1>6, <1>7
    <3>2. QED
      BY <1>7, <2>1, <3>1
  <2>2. CASE d # c
    <3>1. PICK i \in 1..l : v[i] = d
      BY <1>5, <1>8, <1>12, <2>2
    <3>2. i \in 1..Len(u)
      BY <1>6, <1>7
    <3>3. QED
      BY <1>7, <3>1, <3>2
  <2>3. QED
    BY <2>1, <2>2
<1>13. QED
  BY <1>10, <1>11, <1>12 DEF VectorInv, Added, u

LEMMA NextVectorInv == TypeOK /\ AddInv /\ VectorInv /\ [Next]_vars => VectorInv'
<1> SUFFICES ASSUME TypeOK, AddInv, VectorInv, [Next]_vars PROVE VectorInv'
  OBVIOUS
<1> USE DEF loopVars, connVars
<1>1. ASSUME UNCHANGED <<connection_sptr_vector, conn>> PROVE VectorInv'
  BY <1>1, VectorFrame DEF Added
<1>2. CASE ProcessMsg \/ NewListener \/ DelSession \/ PostListener \/ UNCHANGED vars
  BY <1>1, <1>2 DEF ProcessMsg, NewListener, DelSession, PostListener, vars
<1>3. CASE MessageStep
  BY <1>1, <1>3 DEF MessageStep, DropMessage, Dispatch, Deliver, DeliverToNobody
<1>4. CASE \E s \in Session : SessionStep(s) \/ ClientStep(s)
  BY <1>1, <1>4
     DEF SessionStep, Accept, SessionRead, ReadEvent, WriteEvent, HandleEvent,
         ClientStep, ClientSend, ClientClose, Flush
<1>5. CASE \E c \in Conn : ConnRead(c) \/ RedisStep(c)
  BY <1>1, <1>5 DEF ConnRead, RedisStep, RedisServe, RedisRefuse
<1>6. CASE \E c \in Conn : PostConn(c) \/ Connected(c) \/ Disconnected(c)
  <2>1. PICK c \in Conn : PostConn(c) \/ Connected(c) \/ Disconnected(c)
    BY <1>6
  <2>2. UNCHANGED connection_sptr_vector
    BY <2>1 DEF PostConn, Connected, Disconnected
  <2>3. Added(c)' <=> Added(c)
    BY <2>1 DEF PostConn, Connected, Disconnected, Added, TypeOK
  <2>4. \A d \in Conn : d # c => conn'[d] = conn[d]
    BY <2>1 DEF PostConn, Connected, Disconnected, TypeOK
  <2>5. QED
    BY <2>2, <2>3, <2>4, VectorFrame DEF Added
<1>7. CASE AddConn
  BY <1>7, VectorAdd
<1>8. QED
  BY <1>2, <1>3, <1>4, <1>5, <1>6, <1>7 DEF Next, TaskStep, ConnStep

\* The vector is no longer than there are connections.
LEMMA VectorLength ==
  ASSUME TypeOK, VectorInv, IsFiniteSet(Conn)
  PROVE  Len(connection_sptr_vector) <= Cardinality(Conn)
<1> DEFINE v == connection_sptr_vector
           l == Len(v)
<1>1. l \in Nat /\ v \in [1..l -> Conn]
  BY LenProperties DEF TypeOK
<1>2. v \in Injection(1..l, Conn)
  BY <1>1 DEF VectorInv, Injection, IsInjective
<1> HIDE DEF v, l
<1>3. Cardinality(1..l) <= Cardinality(Conn)
  BY <1>2, FS_Injection
<1>4. Cardinality(1..l) = l
  BY <1>1, FS_Interval
<1>5. QED
  BY <1>3, <1>4 DEF l, v

\* Whoever is up is in the vector, so a try that hits every place meets it.
LEMMA PlaceIsHit ==
  ASSUME TypeOK, self \in Session, NEW c \in Conn, conn[c] = "up",
         NEW k \in 1..Len(connection_sptr_vector), connection_sptr_vector[k] = c,
         Meets(IdMod, Len(connection_sptr_vector), sIdGenerater[self], k - 1)
  PROVE  Hits # {}
<1> DEFINE l == Len(connection_sptr_vector)
           g == sIdGenerater[self]
<1>1. connection_sptr_vector # <<>> /\ (k - 1) + 1 = k
  <2>1. Len(connection_sptr_vector) \in Nat
    BY LenProperties DEF TypeOK
  <2>2. Len(connection_sptr_vector) # 0
    BY <2>1
  <2>3. QED
    BY <2>1, <2>2, EmptySeq
<1>2. PICK i \in 0..l : ((g + i) % IdMod) % l = k - 1
  BY DEF Meets
<1>3. Pick(i) = c
  BY <1>1, <1>2 DEF Pick
<1>4. QED
  BY <1>1, <1>2, <1>3 DEF Hits

\* The tries of a message meet every connection of the vector.
LEMMA TriesMeetConn ==
  ASSUME SmallRemainder, TypeOK, VectorInv, self \in Session,
         NEW c \in Conn, conn[c] = "up"
  PROVE  Hits # {}
<1> DEFINE v == connection_sptr_vector
           l == Len(v)
           g == sIdGenerater[self]
<1>1. PICK k \in 1..l : v[k] = c
  BY DEF VectorInv, Added
<1>2. l \in Nat \ {0} /\ l \in 1..Cardinality(Conn) /\ v # <<>>
  <2>1. l \in Nat /\ l <= Cardinality(Conn) /\ Cardinality(Conn) \in Nat
    BY VectorLength, LenProperties, FS_CardinalityType DEF TypeOK, SmallRemainder
  <2>2. l \in Nat \ {0} /\ l \in 1..Cardinality(Conn)
    <3> HIDE DEF l
    <3> QED
      BY <1>1, <2>1
  <2>3. QED
    BY <2>2, EmptySeq
<1>3. g \in 0..IdMod - 1 /\ k - 1 \in 0..l - 1 /\ (k - 1) + 1 = k
  BY <1>2 DEF TypeOK
<1>4. l <= IdMod /\ IdMod % l \in {0, 1}
  BY <1>2 DEF SmallRemainder
<1> HIDE DEF l, g
<1>5. Meets(IdMod, l, g, k - 1)
  <2>1. IdMod \in Nat \ {0} /\ l \in Nat \ {0}
    BY <1>2
  <2>2. QED
    BY <1>3, <1>4, <2>1, TriesMeet
<1>6. QED
  BY <1>1, <1>5, PlaceIsHit DEF l, g

\* So do those of any number of connections, before the counter wraps.
LEMMA TriesMeetBeforeWrap ==
  ASSUME TypeOK, VectorInv, self \in Session, NEW c \in Conn, conn[c] = "up",
         sIdGenerater[self] + Len(connection_sptr_vector) <= IdMod
  PROVE  Hits # {}
<1> DEFINE l == Len(connection_sptr_vector)
           g == sIdGenerater[self]
<1>1. PICK k \in 1..l : connection_sptr_vector[k] = c
  BY DEF VectorInv, Added
<1>2. l \in Nat /\ g \in Nat /\ IdMod \in Nat \ {0} /\ g + l <= IdMod
  BY LenProperties DEF TypeOK
<1> HIDE DEF l, g
<1>3. l \in Nat \ {0} /\ k - 1 \in 0..l - 1
  BY <1>1, <1>2
<1>4. Meets(IdMod, l, g, k - 1)
  BY <1>2, <1>3, RoundBeforeWrap
<1>5. QED
  BY <1>1, <1>4, PlaceIsHit DEF l, g

-----------------------------------------------------------------------------
(* The theorems.                                                           *)

LEMMA InitIInv == Init => IInv /\ DelInv
<1> SUFFICES ASSUME Init PROVE IInv /\ DelInv
  OBVIOUS
<1>1. TypeOK
  BY InitTypeOK
<1>2. \A s \in Session : status[s] = "unborn"
  BY DEF Init
<1>3. OneCallback /\ HasFd
  BY <1>2 DEF Init, OneCallback, HasFd
<1>4. Len(<<>>) = 0
  BY EmptySeq
<1>5. HeldAreAlive
  BY <1>4 DEF Init, HeldAreAlive
<1>6. Dels = {}
  BY <1>4 DEF Init, Dels
<1>7. DelInv
  BY <1>2, <1>6 DEF DelInv
<1>8. QED
  BY <1>1, <1>3, <1>5, <1>7 DEF IInv

\* The inductive invariant of Proxy.
LEMMA Invariance == Spec => []IInv
<1>1. Init => IInv
  BY InitIInv
<1>2. IInv /\ [Next]_vars => IInv'
  BY NextTypeOK, NextOneCallback, NextHeldAreAlive DEF IInv
<1>3. QED
  BY <1>1, <1>2, PTL DEF Spec

\* Every variable keeps its type: the indices, the round-robin counter and the
\* framing included, whatever is read and in whatever pieces it is read
\* (tcp_session.cpp:6-71, redis_tcp_client.hpp:11-42, loop_thread.cpp:55-108).
THEOREM TypeCorrect == Spec => []TypeOK
<1>1. IInv => TypeOK
  BY DEF IInv
<1>2. QED
  BY <1>1, Invariance, PTL

\* No session is used after its destructor ran: whoever the map or a queue of a
\* connection holds still has what an answer needs (redis_tcp_client.hpp:31-34,
\* loop_thread.cpp:81).
THEOREM HeldNotDestroyed == Spec => []HeldAreAlive
<1>1. IInv => HeldAreAlive
  BY DEF IInv
<1>2. QED
  BY <1>1, Invariance, PTL

\* As long as no session has both its events reported, DEL_SESSION destroys the
\* session that posted it and no other (tcp_session.cpp:73-89, loop_thread.cpp:81).
THEOREM FaultContained == Spec => []OnlyFaultyClosed
<1>1. Init => FaultInv
  BY InitIInv DEF FaultInv
<1>2. FaultInv /\ [Next]_vars => FaultInv'
  <2> SUFFICES ASSUME FaultInv, [Next]_vars PROVE FaultInv'
    OBVIOUS
  <2>1. IInv /\ IInv' /\ TypeOK /\ TypeOK'
    BY NextTypeOK, NextOneCallback, NextHeldAreAlive DEF FaultInv, IInv
  <2>2. ASSUME SingleEvents' PROVE DelInv'
    <3>1. DelInv
      BY <2>1, <2>2, EventFacts DEF FaultInv
    <3>2. QED
      BY <2>1, <2>2, <3>1, NextDelInv
  <2>3. QED
    BY <2>1, <2>2 DEF FaultInv
<1>3. FaultInv => OnlyFaultyClosed
  BY DEF FaultInv, SingleEvents, DelInv, OnlyFaultyClosed
<1>4. QED
  BY <1>1, <1>2, <1>3, PTL DEF Spec

\* What the proof of the next two theorems keeps.
VectorIInv == IInv /\ AddInv /\ VectorInv

LEMMA VectorInvariance == Spec => []VectorIInv
<1>1. Init => VectorIInv
  BY InitIInv, InitVector DEF VectorIInv
<1>2. VectorIInv /\ [Next]_vars => VectorIInv'
  <2>1. IInv /\ [Next]_vars => IInv'
    BY NextTypeOK, NextOneCallback, NextHeldAreAlive DEF IInv
  <2>2. QED
    BY <2>1, NextAddInv, NextVectorInv DEF IInv, VectorIInv
<1>3. QED
  BY <1>1, <1>2, PTL DEF Spec

\* A message is dropped only when no connection is up: a round of the loop over
\* the vector, and one try more, meets every connection, wherever the counter
\* of the session stands and wraps (tcp_session.cpp:39-63).
THEOREM DropsOnlyWithoutConn == ASSUME SmallRemainder PROVE Spec => NoNeedlessDrop
<1>1. VectorIInv /\ [Next]_vars => [DropMessage => \A c \in Conn : conn[c] # "up"]_vars
  <2> SUFFICES ASSUME VectorIInv, DropMessage, NEW c \in Conn, conn[c] = "up" PROVE FALSE
    OBVIOUS
  <2>1. self \in Session /\ Hits = {}
    BY DEF DropMessage
  <2>2. QED
    BY <2>1, TriesMeetConn DEF VectorIInv, IInv
<1>2. QED
  BY <1>1, VectorInvariance, PTL DEF Spec, NoNeedlessDrop

\* For any number of connections at all, also one that SmallRemainder excludes,
\* a message can be dropped needlessly only where the tries wrap the counter:
\* once in about 2^32 messages of a session (tcp_session.cpp:39-63).
DropsAtWrap ==
  [][DropMessage /\ (\E c \in Conn : conn[c] = "up")
       => sIdGenerater[self] + Len(connection_sptr_vector) > IdMod]_vars

THEOREM DropsOnlyAtWrap == Spec => DropsAtWrap
<1>1. VectorIInv /\ [Next]_vars =>
        [DropMessage /\ (\E c \in Conn : conn[c] = "up")
           => sIdGenerater[self] + Len(connection_sptr_vector) > IdMod]_vars
  <2> SUFFICES ASSUME VectorIInv, DropMessage, NEW c \in Conn, conn[c] = "up"
               PROVE  sIdGenerater[self] + Len(connection_sptr_vector) > IdMod
    OBVIOUS
  <2>1. self \in Session /\ Hits = {}
    BY DEF DropMessage
  <2>2. ~ (sIdGenerater[self] + Len(connection_sptr_vector) <= IdMod)
    BY <2>1, TriesMeetBeforeWrap DEF VectorIInv, IInv
  <2>3. sIdGenerater[self] \in Nat /\ Len(connection_sptr_vector) \in Nat /\ IdMod \in Nat
    BY <2>1, LenProperties DEF VectorIInv, IInv, TypeOK
  <2>4. QED
    BY <2>2, <2>3
<1>2. QED
  BY <1>1, VectorInvariance, PTL DEF Spec, DropsAtWrap
=============================================================================
