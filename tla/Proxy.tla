------------------------------- MODULE Proxy -------------------------------
(***************************************************************************)
(* The data plane of one loop_thread: the sessions of its clients          *)
(* (TcpSession), its connections to redis (redis_tcp_client), the map and  *)
(* the vector that hold them, and the tasks that change these.             *)
(*                                                                         *)
(* All of it runs on the loop thread, one libevent callback at a time, and *)
(* callbacks that walk over several items (the messages of a buffer, the   *)
(* tasks of a batch) take one step per item here, during which no other    *)
(* callback runs.  Clients, redis and the kernel run concurrently.  A      *)
(* command is an array header and one element; framing is RespFraming's.   *)
(* The task queue is the mailbox that module TaskQueue implements.         *)
(***************************************************************************)
EXTENDS RespFraming, FiniteSets

CONSTANTS
  Session,        \* clients, each connecting at most once
  Conn,           \* connections to redis, each added at most once
  Fd,             \* descriptor numbers accept() may return
  None,
  IdMod,          \* 2^32 in the code: _sIdGenerater is a std::uint32_t
  MaxCmd,         \* bound on the commands of a client
  Window,         \* unanswered commands a client may have
  ReplyKinds,     \* how redis answers: "one" item or an array "arr"
  Faults          \* what may go wrong outside: "conn", "init", "client"

ASSUME ProxyAssumption ==
  /\ None \notin Session \cup Conn \cup Fd
  /\ Session \cap Conn = {}
  /\ IdMod \in Nat \ {0}
  /\ MaxCmd \in Nat
  /\ Window \in Nat
  /\ ReplyKinds \subseteq {"one", "arr"}
  /\ Faults \subseteq {"conn", "init", "client"}

VARIABLES
  \* the loop_thread
  fd_to_session_map,      \* _fd_to_session_map
  connection_sptr_vector, \* _connection_sptr_vector
  task_queue,             \* _task_queue, the batch being processed first
  batch,                  \* how many tasks process_msg still has to run
  listening,              \* a TCPListener is in place
  self,                   \* whose onRead is running, or None
  todo,                   \* the messages on_resp_cb has yet to be called with
  crashed,                \* undefined behaviour: front() of an empty queue, or
                          \* bufferevent_free(NULL)
  cut,                    \* history: a read ended right behind an array header
  \* TcpSession
  status,         \* see Status
  fd,             \* _fd
  fault,          \* handleEvent was called for "read" or "write": _isClosing
  inbuf,          \* input buffer of _bev_sptr
  unsent,         \* its output buffer is not empty
  sIdGenerater,   \* _sIdGenerater
  \* redis_tcp_client
  conn,           \* see ConnState
  session_sptr_queue, \* _session_sptr_queue
  rbuf,           \* input buffer of _bev_sptr
  \* clients and redis
  peer,           \* the client's end: "none", "open", "closed"
  stream,         \* what the client has written and the proxy not yet read
  sent,           \* how many commands the client has sent
  got,            \* what the proxy has written to the client
  toRedis,        \* what the proxy has written to redis
  fromRedis       \* what redis has written and the proxy not yet read

loopVars == <<fd_to_session_map, connection_sptr_vector, listening>>
taskVars == <<task_queue, batch>>
cbVars == <<self, todo, crashed, cut>>
sessionVars == <<status, fd, fault, inbuf, unsent, sIdGenerater>>
connVars == <<conn, session_sptr_queue, rbuf>>
clientVars == <<peer, stream, sent, got>>
redisVars == <<toRedis, fromRedis>>
vars == <<loopVars, taskVars, cbVars, sessionVars, connVars, clientVars, redisVars>>

\* "broken" and "leaked": TcpSession::init failed.  A broken session has dropped
\* its _bev_sptr, which closed the descriptor; that of a leaked one owns NULL, and
\* the descriptor stays open.  "dead": the destructor has run.
Status == {"unborn", "open", "broken", "leaked", "dead"}

\* "none": not in the vector.  "refused": connected, but _isConnected is still
\* false.  "down": no _bev_sptr.
ConnState == {"none", "posted", "connecting", "up", "refused", "down"}

Item == [t : {"one", "arr"}, s : Session, n : 1..MaxCmd]
Part == [t |-> "part"]
Task == [kind : {"DEL_SESSION"}, fd : Fd, by : Session]
          \cup [kind : {"ADD_CONN"}, conn : Conn]
          \cup [kind : {"NEW_LISTENER"}]

Init ==
  /\ fd_to_session_map = [f \in Fd |-> None]
  /\ connection_sptr_vector = <<>>
  /\ task_queue = <<>>
  /\ batch = 0
  /\ listening = FALSE
  /\ self = None
  /\ todo = <<>>
  /\ crashed = FALSE
  /\ cut = FALSE
  /\ status = [s \in Session |-> "unborn"]
  /\ fd = [s \in Session |-> None]
  /\ fault = [s \in Session |-> {}]
  /\ inbuf = [s \in Session |-> <<>>]
  /\ unsent = [s \in Session |-> FALSE]
  /\ sIdGenerater = [s \in Session |-> 0]
  /\ conn = [c \in Conn |-> "none"]
  /\ session_sptr_queue = [c \in Conn |-> <<>>]
  /\ rbuf = [c \in Conn |-> <<>>]
  /\ peer = [s \in Session |-> "none"]
  /\ stream = [s \in Session |-> <<>>]
  /\ sent = [s \in Session |-> 0]
  /\ got = [s \in Session |-> <<>>]
  /\ toRedis = [c \in Conn |-> <<>>]
  /\ fromRedis = [c \in Conn |-> <<>>]

\* No callback is running on the loop thread.
Idle == ~crashed /\ self = None /\ batch = 0

isClosing(s) == fault[s] # {}

\* Mutant: the queues hold plain pointers.
HeldByMap(s, map, queues) == \E f \in Fd : map[f] = s

\* A session lives while the map or some queue holds a shared_ptr to it; its
\* destructor frees the bufferevent, which closes the descriptor.
Held(s, map, queues) ==
  \/ \E f \in Fd : map[f] = s
  \/ \E c \in Conn : \E i \in 1..Len(queues[c]) : queues[c][i] = s

Release(map, queues) ==
  status' = [s \in Session |->
               IF status[s] \in {"open", "broken"} /\ ~Held(s, map, queues)
               THEN "dead" ELSE status[s]]

-----------------------------------------------------------------------------
(* Tasks: process_msg and the threads that post.                           *)

\* Another thread posts NEW_LISTENER, or ADD_CONN, through send_to_all.
PostListener ==
  /\ ~crashed
  /\ ~listening
  /\ \A i \in 1..Len(task_queue) : task_queue[i].kind # "NEW_LISTENER"
  /\ task_queue' = Append(task_queue, [kind |-> "NEW_LISTENER"])
  /\ UNCHANGED <<loopVars, batch, cbVars, sessionVars, connVars, clientVars, redisVars>>

PostConn(c) ==
  /\ ~crashed
  /\ conn[c] = "none"
  /\ conn' = [conn EXCEPT ![c] = "posted"]
  /\ task_queue' = Append(task_queue, [kind |-> "ADD_CONN", conn |-> c])
  /\ UNCHANGED <<loopVars, batch, cbVars, sessionVars, session_sptr_queue, rbuf,
                 clientVars, redisVars>>

\* evfc_cb: swap the queue out and run it.
ProcessMsg ==
  /\ Idle
  /\ task_queue # <<>>
  /\ batch' = Len(task_queue)
  /\ UNCHANGED <<loopVars, task_queue, cbVars, sessionVars, connVars, clientVars, redisVars>>

\* The front of the batch is popped when its handler is done.
Running(kind) ==
  /\ ~crashed
  /\ batch > 0
  /\ Head(task_queue).kind = kind
  /\ batch' = batch - 1
  /\ task_queue' = Tail(task_queue)

\* listen() may fail, and its result is ignored.
NewListener ==
  /\ Running("NEW_LISTENER")
  /\ listening' \in BOOLEAN
  /\ UNCHANGED <<fd_to_session_map, connection_sptr_vector, cbVars, sessionVars,
                 connVars, clientVars, redisVars>>

\* The deleter of a leaked session's _bev_sptr is called with NULL.
DelSession ==
  /\ Running("DEL_SESSION")
  /\ fd_to_session_map' = [fd_to_session_map EXCEPT ![Head(task_queue).fd] = None]
  /\ Release(fd_to_session_map', session_sptr_queue)
  /\ crashed' = \E s \in Session :
                  status[s] = "leaked" /\ fd_to_session_map[Head(task_queue).fd] = s
  /\ UNCHANGED <<connection_sptr_vector, listening, self, todo, cut, fd, fault, inbuf, unsent,
                 sIdGenerater, connVars, clientVars, redisVars>>

\* connect() may fail at once; the connection is kept in the vector all the same.
AddConn ==
  /\ Running("ADD_CONN")
  /\ LET c == Head(task_queue).conn
     IN  /\ \/ conn' = [conn EXCEPT ![c] = "connecting"]
            \/ "conn" \in Faults /\ conn' = [conn EXCEPT ![c] = "down"]
         /\ connection_sptr_vector' = Append(connection_sptr_vector, c)
  /\ UNCHANGED <<fd_to_session_map, listening, cbVars, sessionVars, session_sptr_queue,
                 rbuf, clientVars, redisVars>>

-----------------------------------------------------------------------------
(* Sessions.                                                               *)

\* Descriptors the kernel has not given out.
FreeFd == Fd \ {fd[s] : s \in {x \in Session : status[x] \in {"open", "leaked"}}}

\* listenEventCallback, with the constructor and init of TcpSession.  The
\* constructor does not set _sIdGenerater, and the result of init is ignored.
Accept(s) ==
  /\ Idle
  /\ listening
  /\ status[s] = "unborn"
  /\ \E f \in FreeFd :
       /\ fd' = [fd EXCEPT ![s] = f]
       /\ fd_to_session_map' = [fd_to_session_map EXCEPT ![f] = s]
  /\ \E st \in {"open"} \cup (IF "init" \in Faults THEN {"broken", "leaked"} ELSE {}) :
       status' = [x \in Session |->
                    IF x = s THEN st
                    ELSE IF status[x] = "broken" /\ ~Held(x, fd_to_session_map', session_sptr_queue)
                         THEN "dead" ELSE status[x]]
  /\ \E g \in 0..IdMod - 1 : sIdGenerater' = [sIdGenerater EXCEPT ![s] = g]
  /\ peer' = [peer EXCEPT ![s] = "open"]
  /\ UNCHANGED <<connection_sptr_vector, listening, taskVars, cbVars, fault, inbuf,
                 unsent, connVars, stream, sent, got, redisVars>>

\* One read callback on a buffer: data follows what was left in it, more may be
\* on its way in the middle of an item.
Readable(left, data, p) ==
  LET all == left \o data
  IN  /\ todo' = Messages(IF p THEN Append(all, Part) ELSE all)
      /\ cut' = (cut \/ (~p /\ all[Len(all)].t = "arr"))

\* Mutant: nothing is drained.
LeftAll(left, data, p) == left \o data

\* Mutant: everything is drained.
LeftNothing(left, data, p) == <<>>

Left(left, data, p) ==
  LET all == left \o data
  IN  Behind(all, Consumed(IF p THEN Append(all, Part) ELSE all))

\* TcpSession::onRead up to the first on_resp_cb, and the drain.
SessionRead(s) ==
  /\ Idle
  /\ status[s] = "open"
  /\ "read" \notin fault[s]
  /\ \E k \in 1..Len(stream[s]), p \in BOOLEAN :
       /\ p => k < Len(stream[s])
       /\ Readable(inbuf[s], SubSeq(stream[s], 1, k), p)
       /\ inbuf' = [inbuf EXCEPT ![s] = Left(inbuf[s], SubSeq(stream[s], 1, k), p)]
       /\ stream' = [stream EXCEPT ![s] = Behind(stream[s], k)]
  /\ self' = IF todo' = <<>> THEN None ELSE s
  /\ UNCHANGED <<loopVars, taskVars, crashed, status, fd, fault, unsent, sIdGenerater,
                 connVars, peer, sent, got, redisVars>>

\* on_resp_cb returned: the next message, or the end of onRead.
NextMessage ==
  /\ todo' = Tail(todo)
  /\ self' = IF Len(todo) = 1 THEN None ELSE self

\* The connection that try i of the do-while loop looks at.
Pick(i) ==
  connection_sptr_vector[(((sIdGenerater[self] + i) % IdMod) % Len(connection_sptr_vector)) + 1]

\* Mutant: the loop ends a try too early.
HitsShort ==
  {i \in 0..Len(connection_sptr_vector) - 1 :
     connection_sptr_vector # <<>> /\ conn[Pick(i)] = "up"}

\* The tries that find a connected one; send() then succeeds, as a connection
\* that is up has its _bev_sptr and nothing closes it.
Hits ==
  {i \in 0..Len(connection_sptr_vector) :
     connection_sptr_vector # <<>> /\ conn[Pick(i)] = "up"}

\* on_resp_cb of TcpSession::onRead with no connection in the vector, or none
\* found by size + 1 tries: the message is dropped.
DropMessage ==
  /\ ~crashed
  /\ self \in Session
  /\ Hits = {}
  /\ sIdGenerater' =
       IF connection_sptr_vector = <<>> THEN sIdGenerater
       ELSE [sIdGenerater EXCEPT ![self] = (@ + Len(connection_sptr_vector) + 1) % IdMod]
  /\ NextMessage
  /\ UNCHANGED <<loopVars, taskVars, crashed, cut, status, fd, fault, inbuf, unsent,
                 connVars, clientVars, redisVars>>

\* Mutant: the counter is wider than the model says.
DispatchUnwrapped ==
  /\ ~crashed
  /\ self \in Session
  /\ \E i \in Hits :
       /\ \A j \in Hits : i <= j
       /\ sIdGenerater' = [sIdGenerater EXCEPT ![self] = @ + i + 1]
       /\ toRedis' = [toRedis EXCEPT ![Pick(i)] = @ \o Head(todo)]
       /\ session_sptr_queue' = [session_sptr_queue EXCEPT ![Pick(i)] = Append(@, self)]
  /\ NextMessage
  /\ UNCHANGED <<loopVars, taskVars, crashed, cut, status, fd, fault, inbuf, unsent, conn, rbuf,
                 clientVars, fromRedis>>

\* Mutant: the session is not queued.
DispatchUnqueued ==
  /\ ~crashed
  /\ self \in Session
  /\ \E i \in Hits :
       /\ \A j \in Hits : i <= j
       /\ sIdGenerater' = [sIdGenerater EXCEPT ![self] = (@ + i + 1) % IdMod]
       /\ toRedis' = [toRedis EXCEPT ![Pick(i)] = @ \o Head(todo)]
  /\ NextMessage
  /\ UNCHANGED <<loopVars, taskVars, crashed, cut, status, fd, fault, inbuf, unsent, connVars,
                 clientVars, fromRedis>>

\* The first hit gets the message, and the session waits in its queue.
Dispatch ==
  /\ ~crashed
  /\ self \in Session
  /\ \E i \in Hits :
       /\ \A j \in Hits : i <= j
       /\ sIdGenerater' = [sIdGenerater EXCEPT ![self] = (@ + i + 1) % IdMod]
       /\ toRedis' = [toRedis EXCEPT ![Pick(i)] = @ \o Head(todo)]
       /\ session_sptr_queue' = [session_sptr_queue EXCEPT ![Pick(i)] = Append(@, self)]
  /\ NextMessage
  /\ UNCHANGED <<loopVars, taskVars, crashed, cut, status, fd, fault, inbuf, unsent, conn, rbuf,
                 clientVars, fromRedis>>

\* Mutant: the session frees itself and lets the map entry wait.
HandleEventFrees(s, kind) ==
  /\ fault' = [fault EXCEPT ![s] = @ \cup {kind}]
  /\ task_queue' = Append(task_queue, [kind |-> "DEL_SESSION", fd |-> fd[s], by |-> s])
  /\ status' = [status EXCEPT ![s] = "dead"]
  /\ UNCHANGED <<loopVars, batch, cbVars, fd, inbuf, unsent, sIdGenerater,
                 connVars, clientVars, redisVars>>

\* Mutant: nothing is posted.
HandleEventSilent(s, kind) ==
  /\ fault' = [fault EXCEPT ![s] = @ \cup {kind}]
  /\ UNCHANGED <<loopVars, taskVars, cbVars, status, fd, inbuf, unsent, sIdGenerater,
                 connVars, clientVars, redisVars>>

\* handleEvent: only _fd goes into the message.
HandleEvent(s, kind) ==
  /\ fault' = [fault EXCEPT ![s] = @ \cup {kind}]
  /\ task_queue' = Append(task_queue, [kind |-> "DEL_SESSION", fd |-> fd[s], by |-> s])
  /\ UNCHANGED <<loopVars, batch, cbVars, status, fd, inbuf, unsent, sIdGenerater,
                 connVars, clientVars, redisVars>>

\* End of file, once everything the client wrote has been read; libevent then
\* stops reading.
ReadEvent(s) ==
  /\ Idle
  /\ status[s] = "open"
  /\ "read" \notin fault[s]
  /\ peer[s] = "closed"
  /\ stream[s] = <<>>
  /\ HandleEvent(s, "read")

\* A failed write of what is left in the output buffer; libevent then stops
\* writing.
WriteEvent(s) ==
  /\ Idle
  /\ status[s] = "open"
  /\ "write" \notin fault[s]
  /\ peer[s] = "closed"
  /\ unsent[s]
  /\ HandleEvent(s, "write")

-----------------------------------------------------------------------------
(* Connections to redis.                                                   *)

\* TcpClient::handleEvent for BEV_EVENT_CONNECTED; a stale errno of an earlier
\* call makes it take the connection for a failed one.
Connected(c) ==
  /\ Idle
  /\ conn[c] = "connecting"
  /\ \/ conn' = [conn EXCEPT ![c] = "up"]
     \/ "conn" \in Faults /\ conn' = [conn EXCEPT ![c] = "refused"]
  /\ UNCHANGED <<loopVars, taskVars, cbVars, sessionVars, session_sptr_queue, rbuf,
                 clientVars, redisVars>>

\* TcpClient::handleEvent for EOF, ERROR and TIMEOUT.  The connection stays in
\* the vector and its sessions in _session_sptr_queue; nothing reconnects.
Disconnected(c) ==
  /\ Idle
  /\ "conn" \in Faults
  /\ conn[c] \in {"connecting", "up", "refused"}
  /\ conn' = [conn EXCEPT ![c] = "down"]
  /\ rbuf' = [rbuf EXCEPT ![c] = <<>>]
  /\ toRedis' = [toRedis EXCEPT ![c] = <<>>]
  /\ fromRedis' = [fromRedis EXCEPT ![c] = <<>>]
  /\ UNCHANGED <<loopVars, taskVars, cbVars, sessionVars, session_sptr_queue, clientVars>>

\* redis_tcp_client::onRead up to the first on_resp_cb, and the drain.
ConnRead(c) ==
  /\ Idle
  /\ conn[c] = "up"
  /\ \E k \in 1..Len(fromRedis[c]), p \in BOOLEAN :
       /\ p => k < Len(fromRedis[c])
       /\ Readable(rbuf[c], SubSeq(fromRedis[c], 1, k), p)
       /\ rbuf' = [rbuf EXCEPT ![c] = Left(rbuf[c], SubSeq(fromRedis[c], 1, k), p)]
       /\ fromRedis' = [fromRedis EXCEPT ![c] = Behind(fromRedis[c], k)]
  /\ self' = IF todo' = <<>> THEN None ELSE c
  /\ UNCHANGED <<loopVars, taskVars, crashed, sessionVars, conn, session_sptr_queue,
                 clientVars, toRedis>>

\* Mutant: the queue is not popped.
DeliverUnpopped ==
  /\ ~crashed
  /\ self \in Conn
  /\ session_sptr_queue[self] # <<>>
  /\ LET s == Head(session_sptr_queue[self])
     IN  /\ got' = IF isClosing(s) THEN got ELSE [got EXCEPT ![s] = @ \o Head(todo)]
         /\ unsent' = IF isClosing(s) THEN unsent ELSE [unsent EXCEPT ![s] = TRUE]
  /\ NextMessage
  /\ UNCHANGED <<loopVars, taskVars, crashed, cut, status, fd, fault, inbuf, sIdGenerater,
                 connVars, peer, stream, sent, redisVars>>

\* on_resp_cb of redis_tcp_client::onRead: the message goes to the session at
\* the front of the queue, which TcpSession::send ignores if it is closing.
Deliver ==
  /\ ~crashed
  /\ self \in Conn
  /\ session_sptr_queue[self] # <<>>
  /\ LET s == Head(session_sptr_queue[self])
     IN  /\ got' = IF isClosing(s) THEN got ELSE [got EXCEPT ![s] = @ \o Head(todo)]
         /\ unsent' = IF isClosing(s) THEN unsent ELSE [unsent EXCEPT ![s] = TRUE]
  /\ session_sptr_queue' = [session_sptr_queue EXCEPT ![self] = Tail(@)]
  /\ Release(fd_to_session_map, session_sptr_queue')
  /\ NextMessage
  /\ UNCHANGED <<loopVars, taskVars, crashed, cut, fd, fault, inbuf, sIdGenerater, conn, rbuf,
                 peer, stream, sent, redisVars>>

\* front() and pop() of an empty std::queue: undefined, taken as a crash.
DeliverToNobody ==
  /\ ~crashed
  /\ self \in Conn
  /\ session_sptr_queue[self] = <<>>
  /\ crashed' = TRUE
  /\ UNCHANGED <<loopVars, taskVars, self, todo, cut, sessionVars, connVars, clientVars,
                 redisVars>>

-----------------------------------------------------------------------------
(* Clients, the kernel and redis.                                          *)

Answered(s) == Cardinality(OfKind(got[s], {"one"}))

\* A client writes its next command, if its window allows.
ClientSend(s) ==
  /\ ~crashed
  /\ peer[s] = "open"
  /\ sent[s] < MaxCmd
  /\ sent[s] - Answered(s) < Window
  /\ sent' = [sent EXCEPT ![s] = @ + 1]
  /\ stream' = [stream EXCEPT ![s] = @ \o <<[t |-> "arr", s |-> s, n |-> sent'[s]],
                                           [t |-> "one", s |-> s, n |-> sent'[s]]>>]
  /\ UNCHANGED <<loopVars, taskVars, cbVars, sessionVars, connVars, peer, got, redisVars>>

\* The client closes its end; a reset discards what was not yet read.
ClientClose(s) ==
  /\ ~crashed
  /\ "client" \in Faults
  /\ peer[s] = "open"
  /\ peer' = [peer EXCEPT ![s] = "closed"]
  /\ \E rest \in {stream[s], <<>>} : stream' = [stream EXCEPT ![s] = rest]
  /\ UNCHANGED <<loopVars, taskVars, cbVars, sessionVars, connVars, sent, got, redisVars>>

\* The output buffer of a session reaches the socket.
Flush(s) ==
  /\ ~crashed
  /\ unsent[s]
  /\ unsent' = [unsent EXCEPT ![s] = FALSE]
  /\ UNCHANGED <<loopVars, taskVars, cbVars, status, fd, fault, inbuf, sIdGenerater,
                 connVars, clientVars, redisVars>>

Reply(item, kind) ==
  IF kind = "one" THEN <<[item EXCEPT !.t = "one"]>>
  ELSE <<[item EXCEPT !.t = "arr"], [item EXCEPT !.t = "one"]>>

\* Redis answers the command at the front of what it was sent.
RedisServe(c) ==
  /\ ~crashed
  /\ Len(toRedis[c]) >= 2
  /\ toRedis[c][1].t = "arr" /\ toRedis[c][2] = [toRedis[c][1] EXCEPT !.t = "one"]
  /\ \E kind \in ReplyKinds :
       fromRedis' = [fromRedis EXCEPT ![c] = @ \o Reply(toRedis[c][1], kind)]
  /\ toRedis' = [toRedis EXCEPT ![c] = Behind(@, 2)]
  /\ UNCHANGED <<loopVars, taskVars, cbVars, sessionVars, connVars, clientVars>>

\* Redis answers an item that starts no command with an error.
RedisRefuse(c) ==
  /\ ~crashed
  /\ toRedis[c] # <<>>
  /\ \/ toRedis[c][1].t = "one"
     \/ Len(toRedis[c]) >= 2 /\ toRedis[c][2] # [toRedis[c][1] EXCEPT !.t = "one"]
  /\ fromRedis' = [fromRedis EXCEPT ![c] = @ \o Reply(toRedis[c][1], "one")]
  /\ toRedis' = [toRedis EXCEPT ![c] = Behind(@, 1)]
  /\ UNCHANGED <<loopVars, taskVars, cbVars, sessionVars, connVars, clientVars>>

-----------------------------------------------------------------------------
TaskStep == ProcessMsg \/ NewListener \/ DelSession \/ AddConn

SessionStep(s) == Accept(s) \/ SessionRead(s) \/ ReadEvent(s) \/ WriteEvent(s)

ConnStep(c) == Connected(c) \/ Disconnected(c) \/ ConnRead(c)

MessageStep == DropMessage \/ Dispatch \/ Deliver \/ DeliverToNobody

ClientStep(s) == ClientSend(s) \/ ClientClose(s) \/ Flush(s)

RedisStep(c) == RedisServe(c) \/ RedisRefuse(c)

Next ==
  \/ TaskStep
  \/ MessageStep
  \/ PostListener
  \/ \E s \in Session : SessionStep(s) \/ ClientStep(s)
  \/ \E c \in Conn : PostConn(c) \/ ConnStep(c) \/ RedisStep(c)

Spec == Init /\ [][Next]_vars

\* The loop runs every callback whose event is active, an established socket
\* connects, and redis answers.  Clients and posting threads may stop.
Fairness ==
  /\ WF_vars(TaskStep)
  /\ WF_vars(MessageStep)
  /\ \A s \in Session : WF_vars(SessionRead(s)) /\ WF_vars(ReadEvent(s))
  /\ \A c \in Conn : WF_vars(Connected(c)) /\ WF_vars(ConnRead(c)) /\ WF_vars(RedisServe(c))

FairSpec == Spec /\ Fairness

-----------------------------------------------------------------------------
(* Properties.                                                             *)

TypeOK ==
  /\ fd_to_session_map \in [Fd -> Session \cup {None}]
  /\ connection_sptr_vector \in Seq(Conn)
  /\ task_queue \in Seq(Task)
  /\ batch \in 0..Len(task_queue)
  /\ listening \in BOOLEAN
  /\ self \in Session \cup Conn \cup {None}
  /\ todo \in Seq(Seq(Item))
  /\ crashed \in BOOLEAN
  /\ cut \in BOOLEAN
  /\ status \in [Session -> Status]
  /\ fd \in [Session -> Fd \cup {None}]
  /\ fault \in [Session -> SUBSET {"read", "write"}]
  /\ inbuf \in [Session -> Seq(Item)]
  /\ unsent \in [Session -> BOOLEAN]
  /\ sIdGenerater \in [Session -> 0..IdMod - 1]
  /\ conn \in [Conn -> ConnState]
  /\ session_sptr_queue \in [Conn -> Seq(Session)]
  /\ rbuf \in [Conn -> Seq(Item)]
  /\ peer \in [Session -> {"none", "open", "closed"}]
  /\ stream \in [Session -> Seq(Item)]
  /\ sent \in [Session -> 0..MaxCmd]
  /\ got \in [Session -> Seq(Item)]
  /\ toRedis \in [Conn -> Seq(Item)]
  /\ fromRedis \in [Conn -> Seq(Item)]

\* Whoever is found by descriptor is who the descriptor belongs to, and whoever
\* waits in a queue of a connection still has a bufferevent to answer on
\* (tcp_listener.cpp:13-15, loop_thread.cpp:81, tcp_session.cpp:58,
\* redis_tcp_client.hpp:31-34).
HeldAreAlive ==
  /\ \A f \in Fd : fd_to_session_map[f] # None =>
       /\ status[fd_to_session_map[f]] \in {"open", "broken", "leaked"}
       /\ fd[fd_to_session_map[f]] = f
  /\ \A c \in Conn : \A i \in 1..Len(session_sptr_queue[c]) :
       status[session_sptr_queue[c][i]] = "open"

\* A client that reads one answer before it sends the next command gets the
\* answers to its own commands only, as long as redis answers with single items
\* and no read ended right behind an array header.  Such a read is what TCP may
\* always do: the header is forwarded as a message of its own, its session is
\* queued once more than there are replies, and the next client's answer goes to
\* it (redis_tcp_client.hpp:29-35 against tcp_session.cpp:30-59).
NoCrossTalk == ~cut => \A s \in Session : \A i \in 1..Len(got[s]) : got[s][i].s = s

\* Under the same conditions every message redis sends finds a session in the
\* queue (redis_tcp_client.hpp:31-34).
NoEmptyPop == ~cut /\ self \in Conn => session_sptr_queue[self] # <<>>

\* Each session's own DEL_SESSION is the only way it is destroyed: a session
\* on which no event was reported stays, as long as no session had both its
\* events reported (tcp_session.cpp:73-89, loop_thread.cpp:81).
OnlyFaultyClosed ==
  (\A s \in Session : Cardinality(fault[s]) <= 1)
    => \A s \in Session : status[s] = "open" /\ ~isClosing(s)
                            => fd_to_session_map[fd[s]] = s

\* A session is closed by an error of its own connection only
\* (tcp_session.cpp:75 "any error happen, just close the connection with
\* client").
HealthyStaysOpen ==
  \A s \in Session : status[s] = "open" /\ ~isClosing(s) => fd_to_session_map[fd[s]] = s

\* A message is dropped only when no connection is up (tcp_session.cpp:39-63).
NoNeedlessDrop ==
  [][DropMessage => \A c \in Conn : conn[c] # "up"]_vars

\* For clients that wait for each answer and replies of single items the proxy is
\* RequestReply, up to the first read that ends right behind an array header.
Answers(s) == [i \in 1..Len(got[s]) |-> <<got[s][i].s, got[s][i].n>>]
Abstract == INSTANCE RequestReply
              WITH asked <- sent, replies <- [s \in Session |-> Answers(s)]
ImplementsRequestReply == Abstract!Init /\ [][cut' \/ Abstract!Next]_(Abstract!vars)

\* A command sent while a connection is up is answered, unless the client goes
\* away, a connection is lost, or a read ended right behind an array header (the
\* whole path, tcp_session.cpp:6-71 and redis_tcp_client.hpp:11-42).
CommandAnswered ==
  \A s \in Session, n \in 1..MaxCmd :
    (sent[s] = n /\ stream[s] # <<>> /\ \E c \in Conn : conn[c] = "up")
      ~> \/ Answered(s) >= n \/ peer[s] = "closed"
         \/ (\E c \in Conn : conn[c] = "down") \/ cut

\* s waits in the queue of a lost connection, which is never emptied again.
WaitsForEver(s) ==
  \E c \in Conn : conn[c] = "down" /\ \E i \in 1..Len(session_sptr_queue[c]) :
                                        session_sptr_queue[c][i] = s

\* A session on which an event was reported is destroyed in the end, and its
\* descriptor closed (tcp_session.cpp:73-89, redis_tcp_client.hpp:31-34).  "any
\* error happen, just close the connection with client" (tcp_session.cpp:75) is
\* more than the code does: a lost redis connection keeps the sessions in its
\* queue, and one queued once too often after a cut read stays in it as well.
FaultyClosed ==
  \A s \in Session : isClosing(s) ~> (status[s] = "dead" \/ WaitsForEver(s) \/ cut)
=============================================================================
