# A verification development of the database proxy (canal)

The proxy accepts TCP clients that speak RESP, forwards each message to one of
its connections to redis, and sends each reply back to the client that waits
for it. It is a C++ program on libevent: a pool of event loops, one thread
each, that share nothing but a task queue per loop. This directory holds TLA+
modules that model it, TLC configurations that check them on small instances,
and TLAPS proofs of the results that hold for every instance.

Line references are to the files under `src/`.

## Inventory

| Component | State | Operations | Talks to |
|---|---|---|---|
| `loop_thread` (`include/loop_thread.hpp`, `src/loop_thread.cpp`) | `_evfd`, `_task_queue` under `mtx`, `_event_client_sptr`, `_event_server_sptr`, `_fd_to_session_map`, `_connection_sptr_vector` | `init`, `send2loop_thread` (any thread), `evfc_cb` / `process_msg` and the task handlers, `stop` | every other component |
| `EventFdClient`, `EventFdServer` | a copy of the eventfd number; the libevent event | `send` writes the eventfd, `init` arms the read event | kernel, `loop_thread` |
| `Loop` (`loop.hpp`, `loop.cpp`) | `_status` (Init, Running, Finished), `_thread_sptr`, `event_base` | `start`, `_run`, `wait`, `stop` | `loop_thread`, `TcpClient` |
| `loop_thread_pool` | `_loop_threads`, `_threads`, `_select_index` | `init` (spawns and polls), `send_to_all`, `get_loop_thread`, `stop` (posts and joins) | `loop_thread` |
| `TCPListener` | a listening socket per loop (SO_REUSEPORT) | `listen`, accept callback | the map of its loop |
| `TcpSession` (a client) | `_fd`, `_bev_sptr`, `_isClosing`, `_sIdGenerater` | `init`, `onRead` (parse and dispatch), `handleEvent` (posts DEL_SESSION), `send` | the vector and a queue of `redis_tcp_client` |
| `TcpClient`, `TcpSocket` | `_bev_sptr`, `_isConnected`, `_isClosing`; the socket is the bufferevent's | `connect`, `reconnect`, `disConnect`, `send`, `close`, `handleEvent`, `writeCallback`, the destructor | libevent, kernel |
| `redis_tcp_client` (a `TcpClient`) | `_session_sptr_queue` | `onRead` (pop a session per reply), `send` | redis, sessions |
| `rasp_parser` | none | `process_resp`, one function per RESP type, `find_CRLF_index` | both `onRead`s |
| `util.hpp` | `TASK_MSG`, `CONN_INFO` | plain data | all |
| `logger` | level | writes text | all; not modelled |
| example, test | - | demo `main`, empty test | the pool, and clients used from `main`'s thread |

Callbacks of one loop run one at a time on its thread. The only cross-thread
traffic is `send2loop_thread` (a mutex, a queue and an eventfd), `Loop::stop`,
and `loop_thread_pool`'s vectors and counters.

What makes the program hard, and so what the properties are for:

* the eventfd is reset before the queue is swapped, and `_evfd` and
  `_event_client_sptr` are written without the mutex that protects the queue;
* a session is named by descriptor number in a task that runs later;
* replies are matched to clients by position in a queue that outlives sessions
  and connections, and the position is a count of *messages as the parser cuts
  them*, on both sides;
* sessions live as long as a map entry or a queue entry refers to them;
* redis connections fail and stay in the vector; dispatch skips them with a
  wrapping, uninitialised counter;
* a `Loop` is shared by threads that start, stop, wait for and release it, with
  an atomic status and nothing else between them;
* the pool polls, posts and joins over several loops, any of which may fail, and
  hands loops out with a counter nobody protects;
* a `TcpClient` and its bufferevent both close sockets, from callbacks that run
  between, or on another thread than, the calls of its user.

`PROJECT.json` lists each hazard at its line with the properties that cover it.

## Modules

| Module | What it is |
|---|---|
| `Mailbox` | abstract: an unbounded FIFO mailbox |
| `TaskQueue` | `loop_thread::init`, `send2loop_thread`, `process_msg`, `stop` and the eventfd; implements `Mailbox` |
| `TaskQueueProofs` | theorems about `TaskQueue` |
| `LoopLife` | one `Loop`: `start`, `_run`, `wait`, `stop` and the destructor, from several threads |
| `LoopLifeProofs` | theorems about `LoopLife` |
| `Pool` | `loop_thread_pool`: `init`, `send_to_all`, `get_loop_thread`, `stop` over several loops; implements one `Mailbox` per loop |
| `PoolProofs` | theorems about `Pool` |
| `TcpClient` | the clients of one loop: `TcpClient` and `TcpSocket` on bufferevents and sockets, on the loop's thread and off it |
| `TcpClientProofs` | theorems about `TcpClient` |
| `RespFraming` | how `process_resp` cuts a buffer of tokens into messages, as a closed form without recursion |
| `RespParser` | `process_resp` and `process_array` on tokens, RESP's own grammar, and a buffer fed by a network that cuts anywhere |
| `RespParserProofs` | theorems about `RespParser`: what the recursion computes, and what the callers get from it |
| `RespBytes` | `rasp_parser` on bytes: `find_CRLF_index`, numbers, one function per type; checks the tokens of `RespParser` against them |
| `RequestReply` | abstract: every client gets the answers to its own commands, in order |
| `Proxy` | the data plane of one loop: accept, dispatch, replies, events, disconnections, descriptors; implements `RequestReply` for clients that wait for each answer |
| `MCProxy` | symmetry sets for TLC |
| `ProxyProofs` | theorems about `Proxy` |
| `ProxyAnswerProofs` | theorems about `Proxy` for clients that wait for each answer |
| `DataLemmas` | lemmas about the data the proofs share: remainders of a counter that wraps, sequences, the closed form of `RespFraming` |

The modules meet at these seams: `TaskQueue` shows that a loop's queue is a
`Mailbox`; `Pool` sees each loop from outside, and shows that its queues are
mailboxes again whoever posts and stops; `Proxy` uses the
mailbox (`task_queue` with atomic posts). `RespBytes` is what the code does with
bytes and checks that the tokens of `RespParser` are a faithful view of it,
`RespParserProofs` proves that `Messages` and `Consumed` of `RespFraming` are what
the parser computes on tokens, and `Proxy` uses those two. `LoopLife` looks inside the `Loop` that `TaskQueue`, `Pool` and
`TcpClient` take as running or not, and `TcpClient` inside the connection state
that `Proxy` reduces to connected, lost or not yet connected.

### TaskQueue

One variable per field (`evfd`, `client` for `_event_client_sptr`, `mtx`,
`task_queue`), `tmp_queue` for the local of `process_msg`, and the kernel's
side of the eventfd (`fdOpen`, `counter`). `lpc` is the loop thread's place in
`init`, in the event loop, and in `process_msg` and `stop`; `pc[t]` the place of
thread `t` in `send2loop_thread`. Because `init` and `stop` write `_evfd`
without the mutex, a post is three steps (`Push`, `CheckEvfd`, `Notify`) and
`stop` two (`CloseEvfd`, `ClearEvfd`). The loop thread posts to itself too, from
a session's event callback (`MayPost`). `eventfd()` and `EventFdServer::init`
may fail. The loop ends through `event_base_loopexit`, which lets the callback
that runs finish. `done`, `accepted` and `late` are history.

The counter is unbounded here; in the kernel a write that would overflow 2^64
fails with EAGAIN and leaves it readable, which changes nothing.

### LoopLife

`status`, `thread` (`_thread_sptr`) and `joined` are the fields, `pc[c]` the
place of a caller in `start`, `wait` or `stop`, and `rpc[r]` that of whoever runs
`_run`, a new thread or the caller of `start(false)`. The tests of `_status` are
steps of their own, as nothing holds a lock. `exitEvent` and `break` are what
`event_base_loopexit` and `event_base_loopbreak` leave in the base: the first
survives until a loop runs, the second is cleared when one is entered. A
`std::thread` destroyed while joinable, or joined twice, ends the program
(`life = "terminated"`). `Destroy` is the destructor, which may run when no call
is going on.

### Pool

`mpc` and `at` are the owner's place in its loops over the threads: `SpawnThread`
and `PollLoop` are `init`, `PostExit` and `JoinThread` `stop`. Each loop has a
`life`, its `task_queue`, and the `batch` that `process_msg` has swapped out; a
loop in `MayFail` may fail in `loop_thread::init`, and nobody starts it again.
`SendToNext` is one round of `send_to_all`'s loop. `_select_index++` is a load and
a store (`LoadIndex`, `StoreIndex`), and `_loop_threads[_select_index % _loop_num]`
reads the counter again (`PickLoop`). `early`, `picks` and `shared` are history: the
broadcasts that were over when `stop` was called; for each call of
`get_loop_thread` that is over the loop it returned, the index it read and whether
it was `alone`; and the calls going on that overlap another.

### TcpClient

`bev[c]` is what `_bev_sptr` points to: its socket, whether callbacks are set and
which events are enabled, its output, and the callbacks libevent has deferred
(`pend`). `net[f]` is the kernel's view of a socket. A client of the loop's own
thread calls `connect`, `reconnect`, `disConnect`, `send` and `close` between two
callbacks, any of them at any time; a client in `OffLoop` is used as
`example.cpp` uses its clients, from `main`: its `connect` is three steps, its
`send` a test and a write, and its destructor may run at any time after. Every
early return of `_connect` is a disjunct of `ConnectWith`: no socket, no
bufferevent, no connect. When `bufferevent_socket_new` fails, `_bev_sptr` holds NULL
together with the deleter `bufferevent_free`, and nobody closes the socket
(`lost[c]`): the next `reset`, in a later `connect`, or the destructor calls
`bufferevent_free(NULL)`, and the program ends there. `handleEvent` on an error is
two steps, `OnError` (disable, close, `_isConnected`) and `OnErrorFree` (test and
free `_bev_sptr`); `handling` is the client it is in between for. libevent holds the
lock of a bufferevent while one of its callbacks runs, so operations of libevent on
the other thread wait, but `_bev_sptr` itself is a plain `shared_ptr`: when the
destructor (`OffDestroy`, `OffRelease`), or `connect` after a failed
`bufferevent_enable`, releases it while a callback runs or is about to, both may
find it set, or one may use what the other has freed. That is `OffRace`, which ends
the behaviour with a socket closed twice or not. `errno` is the loop thread's, as
it decides what a CONNECTED event means (`tcpClient.cpp:53`). `get_socket` has its
test the wrong way round, and `GetSocket` is that. `crashed` is the use or the free of a null
`_bev_sptr`, or `OffRace`. `raced`, `torn`, `closed`, `att` and `refusedEver` are
history.

### RespFraming, RespBytes and RespParser

A token stands for a run of bytes: a self-contained item, the header of a
non-empty array, an incomplete item, a bad item. `process_array` calls
`process_resp` for each element, and `process_resp` runs to the end of the
buffer: the first element takes all that is left, the others find nothing and
succeed. So an array header swallows everything behind it (or is refused if
anything behind it is incomplete or bad), which is what `RespFraming` says in
closed form. `RespBytes` has the functions on bytes: `find_CRLF_index` reads up
to two bytes behind the buffer, which are therefore part of its input, `stoi`
reads a sign and digits and ignores the rest, and the size of a bulk string is
tested for its sign but never used: the payload ends at the next CR LF.
`RespParser` has them on tokens: the mutual recursion is one recursive function,
`Resp(b)`, of the position in the buffer, and the loop of `process_array` another,
of the round. Run `RespParser_framing` compares three descriptions: the tokens with
every rendering of a small buffer as bytes, with every content of the bytes
behind it, and the closed form with the parser on every buffer. `RespBytes` alone
has RECURSIVE operators, so that the other modules can be proved about.

### Proxy

State of the loop thread: `fd_to_session_map`, `connection_sptr_vector`,
`task_queue`, and `self`/`todo`/`batch` for the callback that is running: an
`onRead` calls its lambda once per message, `process_msg` runs the tasks of its
batch, and nothing else runs on the loop in between, but clients and redis do.
A session is `open` while its object lives and has a bufferevent; `Release` is
the `shared_ptr` count: an object no longer in the map or any queue is
destroyed and its descriptor free for `accept`. `fault` holds the events
reported to `handleEvent` (libevent reports at most one while reading and one
while writing, as it stops that direction). A command is an array header and
one element, enough to be cut between two items. Reads see any prefix of what
was written, possibly ending inside an item. Outside the code: redis answers
commands in order (`RedisServe`), answers an error to an item that starts no
command (`RedisRefuse`), and connections may be lost at any time.

`cut` is history: some read has ended right behind an array header. `onRead` then
forwards the header as a message of its own and queues the session for it, and a
second time for the rest, although redis answers once: the queue is one entry
ahead of the replies from there on, and the next client's answer goes to the
wrong session. TCP may cut a stream anywhere, so the model does too, and what
fails after such a read says so (`~cut =>`).

Front and pop of an empty queue are undefined, and so is the release of a session
whose `bufferevent_socket_new` failed (`leaked`); the model stops there
(`crashed`). The constructor leaves `_sIdGenerater` uninitialised: any value.

## Runs

| Run | Shows |
|---|---|
| `TaskQueue_loop` | with two foreign threads and the loop thread posting at any time, even while `init` runs: type invariant; `NoLostWakeup`: no accepted task sits in the queue with the eventfd open and silent; `OneLateSend`: after `stop` has cleared `_evfd` at most one send is accepted (those between `close` and the clearing are not bounded); `ImplementsMailbox`; `AcceptedTaskRuns`; `ExitStopsLoop` |
| `LoopLife_oneStart` | three threads that start, wait for, stop and release a loop, with one call of `start`: type invariant; `FinishedIsOver`: StatusFinished means that nobody runs the loop; `FreedIdle`: the `event_base` is not freed under it; `JoinedIsFinished`; `StopEndsLoop`: no `stop(true)` is lost |
| `LoopLife_twoStarts` | finding: two calls of `start(false)`; the first is over, and `_status` StatusFinished, while the second is on its way into the loop |
| `Pool_life` | two loops, one of which may fail: type invariant; `InitReady`; `EarlyBroadcastRuns`: a broadcast that was over before `stop` runs on every loop; `StoppedIsQuiet`; `PicksRotate`: calls of `get_loop_thread` that overlap no other take the loops in turn, also after some that did; `QueuesAreMailboxes`; `InitReturns`; `StopReturns` |
| `TcpClient_life` | a client of the loop and one used from another thread, two descriptors: type invariant; `NoDoubleClose`: no descriptor is closed twice, unless a client is released on the other thread while a callback of it runs; `SocketsAreHeld`: every open socket has one holder, the bufferevent that will close it or the client that a failed `bufferevent_socket_new` has left with it; `ConnectedIsReal`; `EstablishedReported`; `CloseFinishes` |
| `TcpClient_close` | finding: after `close` the connection is still up |
| `RespParser_framing` | the closed form is exact; nothing is lost, repeated or reordered between the stream and the messages; while every read finds one value or ends inside an item, every message is one value; tokens are a faithful view of bytes; the heap behind the buffer matters to a cut item only |
| `Proxy_safety` | waiting clients, single-item replies, disconnections on both sides, failing `connect`: type invariant; until a read ends right behind an array header `NoCrossTalk`, `NoEmptyPop`, `ImplementsRequestReply`; `NoNeedlessDrop`, across a wrap that the number of connections does not divide |
| `Proxy_anyClient` | pipelining, commands cut between items, one descriptor reused by two clients: `HeldAreAlive`, `OnlyFaultyClosed` |
| `Proxy_live` | with lost connections: `CommandAnswered`, unless one is lost; `FaultyClosed`: a session with an event is destroyed unless it waits in the queue of a lost connection; both until a read ends right behind an array header |
| `Proxy_crossTalk` | finding: an array reply read together with the reply behind it goes to one client with it |
| `Proxy_fdReuse` | finding: the second DEL_SESSION of a session closes the next owner of its descriptor |

Every property of a passing run has a mutant in its module (the operators
marked "Mutant"): a plausible bug of the code that makes TLC refute it.

### Bounds

* `MaxTask = 4` tasks: two threads can interleave their posts with a batch, the
  loop thread and an EXIT_LOOP in every order. Two threads: the mutex leaves at
  most one between its push and its notification, a second one competes.
* `LoopLife`: three callers, two that start and wait and one that only stops and
  releases, so that a wait, a stop and the end of the loop can all overlap.
* `Pool`: two loops, so that a broadcast and `stop` reach one before the other,
  the second of them may fail; one broadcast, which `stop` may overtake in either
  queue; two pickers with four calls and `IndexMod = 3` for 2^32, so that calls
  overlap, two more follow them, and the index wraps where the number of loops does
  not divide its range. What `PicksRotate` says when it does is proved.
* `TcpClient`: two descriptors for two clients, so that every descriptor freed is
  opened again by either; two connects each (a reconnect with callbacks pending);
  one piece of output, as what is left of a larger one changes nothing but whether
  the buffer is empty. `TcpClient_close` needs one client, one descriptor and one
  connect.
* Parser buffers of five tokens with arrays of up to three elements hold two
  nested arrays and something behind them; five tokens arrive in all. Buffers of
  up to three tokens are parsed as bytes too, in every rendering (a bulk string,
  a null bulk, a number, a line; for a cut item, the cuts that `RespBytes` lists, not
  every byte of every item) and with every pair of
  bytes behind them.
* Two clients, two connections and two commands each in `Proxy_safety`: a
  second command is sent after a first reply, on the next connection, with the
  other client's reply before or behind it. `IdMod = 3` stands for 2^32; two
  connections do not divide it, so the wrap shifts the round-robin by one as 2^32
  does for three connections or five. `Proxy_safety` and `Proxy_live` do not follow a
  behaviour beyond its first cut read (`BeforeCut`): the properties that name `cut`
  hold trivially there, and `TypeOK` and `NoNeedlessDrop` are proved without the
  bound. In `Proxy_anyClient` one
  descriptor for two clients makes every accept a reuse.
* `Proxy_live` has two clients, one command each and one connection.

Deadlock is not checked: clients stop sending, a loop that was told to exit
ends, a Loop is destroyed, and bounded calls run out.

### Fairness

`TaskQueue`: every thread inside `send2loop_thread` and the loop thread keep
being scheduled (weak fairness of their steps); nobody has to post. `Proxy`: the
loop runs the callbacks of active events, established sockets connect, redis
answers what it was sent. libevent runs every active event in each round and the
commands are bounded, so weak fairness of each kind of callback is enough.
`LoopLife`: a call that was entered and a runner go on, `LeaveLoop` when libevent
has a reason to return. `Pool`: the owner goes on in `init` and `stop`, and so do
the loops' threads; nobody has to call `stop`, broadcast or pick. `TcpClient`: a
connect ends, and libevent notes what happened and runs each callback; the
actions are fair one by one because each round of `event_base_loop` serves all
that is active. `EstablishedReported` and `CloseFinishes` except a loop thread
that died (`crashed`).
Nothing forces a client to send, close or read, a connection to fail, or a
foreign thread to post.

## Findings

1. `start` tests `_status` and `_run` sets it later, so two calls can both pass. TLC's
   trace has two callers of `start(false)`: the first sets StatusRunning, its
   `event_base_loop` returns because no event is registered, and it sets
   StatusFinished while the second has not reached its own assignment; the second
   then runs the loop of a `Loop` that was finished (`LoopLife_twoStarts`;
   `loop.cpp:33` against `loop.hpp:6`). With events registered the second
   `event_base_loop` is refused while the first runs, and the refused caller sets
   StatusFinished; the model has that behaviour, too.
2. `get_socket` returns -1 whenever there is a bufferevent, so the `shutdown` in
   `close` does nothing: connect, established, close, still up (`TcpClient_close`;
   `tcp_socket.cpp:16` against `tcp_socket.hpp:56`). The same mistake keeps `handleEvent` from closing the
   socket twice, which `NoDoubleClose` shows and its mutant refutes.
3. Replies are matched to clients one per message, but an array reply takes the
   reply behind it with it (`Proxy_crossTalk`; `redis_tcp_client.hpp:30-31`).
4. DEL_SESSION by descriptor number (`Proxy_fdReuse`; `tcp_session.cpp:75-79`).

Behaviour that the models contain and that no run reports as a finding, because no
document speaks of it or because a property excepts it in so many words:

* `loop_thread::stop` closes and clears `_evfd` without `mtx`, so a thread past its
  test of `_evfd` writes to a closed, or reused, descriptor, and its call returns
  true for a task that nobody runs. Between the two steps any number of calls may
  do so; once `_evfd` is cleared `OneLateSend` bounds it to one.
* A thread that posts while `loop_thread::init` runs, or after its `eventfd()`
  failed, finds `_evfd` set and `_event_client_sptr` null (`crashed` in
  `TaskQueue`). The pool's users are safe once `init` has returned (`InitReady`).
* The parser takes everything behind an array header for the array, complete or
  not; pipelined commands read at once are then one message with one session in
  the queue, and the second reply pops an empty queue (`crashed` in `Proxy`).
* After an `Error` nothing is drained and nobody closes the session.
* A bulk payload that holds CR LF ends there.
* A read that ends between the header and the element of a command makes a waiting
  client's session wait twice for one answer (`cut`), after which `NoCrossTalk`,
  `NoEmptyPop` and the refinement fail.
* `_session_sptr_queue` is not cleared when its redis connection is lost: its
  sessions live as long as the connection object, so a client that has gone keeps
  its descriptor, against "any error happen, just close the connection with client"
  (`tcp_session.cpp:75`). `FaultyClosed` excepts these sessions (`WaitsForEver`),
  and those that a cut read has queued once too often.
* The commands of a client that does not wait are spread over the connections, which
  answer in any order; "session affinity" (`README.md:18`) is not in the code.
* `loop_thread_pool::init` waits for ever for a loop that failed, although it logs
  that it starts one again. A task posted behind EXIT_LOOP is never run.
* With a number of loops (or connections) that does not divide 2^32 the wrap of
  the counter breaks the rotation once; calls of `get_loop_thread` that overlap
  may hand out one loop twice and set the index back. `PicksRotate` says that nothing
  else does.
* `connect` on another thread than the loop's can lose the CONNECTED event, or
  enable a bufferevent that the error callback has just freed; releasing a client on
  another thread races its callbacks for `_bev_sptr` (`crashed`, `raced` in
  `TcpClient`).
* A failed `bufferevent_socket_new` leaves the client with a NULL that its `shared_ptr`
  frees later (`lost`; `leaked` in `Proxy`).
* A stale `errno` hides an established connection; `_isClosing` and `_isConnected`
  survive `disConnect` and `reconnect`; a second `close(true)` waits for ever.
* `wait` on a loop that finishes meanwhile does not join, and the destructor then
  ends the program (`terminated` in `LoopLife`).

## Proofs

Checked by TLAPS for every value of the constants that satisfies
`TaskQueueAssumption` (the loop thread is none of the foreign threads, the bound
on tasks is a natural number) and `ProxyAssumption` (the sets of clients, connections
and descriptors are apart, `IdMod` is positive, the bounds are natural numbers,
the fault and reply kinds are the modelled ones), `LoopLifeAssumption` (callers
are no integers, starters and waiters are callers), `PoolAssumption` (at least one
loop, an index of at least one value, an EXIT_LOOP is no broadcast),
`ClientAssumption` (at least one socket, bounds are natural numbers) and
`RespParserAssumption` (the bounds on buffer, arrays and stream are positive).
Sets need not be finite, except the connections in `DropsOnlyWithoutConn`. A
theorem that needs more says so in its own ASSUME, or is about a specification
that says it (`ApartSpec`). Each inductive invariant was checked by TLC first, on
the constants of the module's run; that of `LoopLifeProofs` with three calls of
`start`.

`TaskQueueProofs`

* `TypeCorrect`: `Spec => []TypeOK`.
* `WakeupNotLost`: `Spec => []NoLostWakeup`. It is not inductive by itself: a
  push must not bring back the number of an accepted task (`accepted \subseteq
  1..Posted`), the task a thread reports as accepted must be the one it pushed
  (`MutexInv`: a thread inside `send2loop_thread` holds `mtx`), and opening the
  eventfd in `init` must find nothing accepted (`ClientInv`). `TmpInv`, that
  `tmp_queue` is empty outside `process_msg`'s loop, keeps the type of `Pop`
  and lets a swap lose nothing in the refinement.
* `LateSendIsOne`: `Spec => []OneLateSend`, from `LateInv`: after a send that was
  accepted although `_evfd` was cleared
  `_evfd` stays 0 and nobody is past its test of it.
* `MailboxImplemented`: `Spec => Mailbox!Spec` under the refinement that
  concatenates the two queues; `Push` is the abstract post, `Pop` the abstract
  take, everything else stutters.

`LoopLifeProofs`

* `TypeCorrect`: `Spec => []TypeOK`, for any number of starts.
* `FinishedMeansOver`, `BaseFreedIdle`, `JoinedMeansFinished`: `FinishedIsOver`,
  `FreedIdle` and `JoinedIsFinished` of `ApartSpec`, which is `Spec` with starts that
  do not race (`StartsApart`): any number of calls of `start`, but none tests
  `_status` between the first call's test and the moment `_run` sets it. Without
  that `LoopLife_twoStarts` refutes the first. `IInv` says why it is enough: until
  the first start nothing runs and nothing is known (`FreshInv`), a later start
  finds that `_status` has left StatusInit and does nothing (`LaterStart`), only
  one caller is in `start` and nothing runs while it has not created its thread
  (`OneStartInv`), so only one runner ever exists and `_status` tells where it is
  (`OneRunInv`); the runner is always known, to its caller or to `_thread_sptr`
  (`KnownInv`), so that the destructor meets a joinable thread before the
  `event_base` (`FreedIdle`), and only threads that have ended were joined
  (`JoinedInv`).
* `OneStartApart`: `Spec => ApartSpec` if `MaxStart <= 1`, which is how `loop_thread`
  uses its `Loop` (`loop_thread.cpp:195`) and what run `LoopLife_oneStart` checks.

`PoolProofs`

* `TypeCorrect`, `InitReturnsReady`, `BroadcastBeforeExit`, `StopIsQuiet`: `TypeOK`,
  `InitReady`, `EarlyBroadcastRuns` and `StoppedIsQuiet`. The heart is `OrderInv`: a
  loop that has taken EXIT_LOOP into a batch has taken every early broadcast, in
  the same batch or before. It is kept by `TakeBatch` because an early broadcast
  was posted to every loop (`SentInv`) and a task once posted is in the queue, the
  batch or the log (`Given`), and by `StopCalled` because there is no EXIT_LOOP
  before `stop` (`ExitInv`). A loop ends with an empty batch only (`BatchInv`).
* `MailboxesImplemented`: `Spec => QueuesAreMailboxes`, one refinement per loop,
  with the same concatenation as in `TaskQueue`.
* `LoopsInTurn`: `Spec => []PicksRotate`, for every `N`. By `TurnInv`, the indices of calls
  that are over one after the other, each of them alone, count on from the first
  (`SeriesInv`), whatever the calls before them have left.
  For a call that is going on alone this rests on the index it has loaded being
  the last one (`LoadedInv`, `LastInv`), which holds as `shared` knows every call that
  overlaps another (`SharedInv`). Less than `N` steps of the counter apart,
  remainders differ, also across the wrap if `N` divides the range (`ModMod`,
  `WindowMod` of `DataLemmas`).

`TcpClientProofs`

* `TypeCorrect`, `ClosedOnce`, `OneOwner`, `ConnectedMeansEstablished`: `TypeOK`,
  `NoDoubleClose`, `SocketsAreHeld`, `ConnectedIsReal`. `SocketInv` strengthens the
  second and third: no two bufferevents own one socket (`Apart`), the socket of a
  bufferevent is open and was connected (`Opened`), a socket in `lost` belongs to one
  client without a bufferevent, and to no other (`Leaked`). Every operation either
  replaces a bufferevent or keeps its socket (`Replaced`, `Kept`), and the lemmas about
  these two carry the invariant over all actions. `ClientInv` adds that a CONNECTED
  that was noted is about an established connection, and, for a client on another
  thread, that nothing can be noted, and so nothing freed, before its callbacks are
  set. These make up `Core`; `HandlingInv` says what holds between the two halves of
  `handleEvent`, in which only other threads and the kernel move: `_isConnected` has
  been taken back, and a client off the loop's thread has set its callbacks. `OffRace` is the only step that may set
  `badClose`.

`RespParserProofs`

* `ClosedFormTheorem`: `Spec => []ClosedForm`. For every buffer of tokens, of any
  length and with arrays of any size, `process_resp` forwards `Messages` and
  consumes `Consumed`. The library's
  induction theorems are not needed: the closed form is written as a
  function (`Closed`) that satisfies the equation of the recursion (`RespAtClosed`,
  for the loop over the elements `RoundsClosed`), so the recursive
  function satisfies it too; two solutions that differ would do so at a last
  position, where the equation makes them equal (`RespClosed`). What makes the equation hold is
  that behind the first element of an array nothing is left, or an error
  (`ClosedMerge`, `ClosedStop`).
* `NothingLostTheorem`: `Spec => []NothingLost`. The messages of a buffer, put
  together, are what is drained of it (`FlattenMessages`), and only the last token
  can be a cut item (`PartLast`), so a read never drains part of one. `FlattenSeq`
  and `Missing` recurse on a number; `RecursionExists` gives them a solution by the
  least-number principle.
* `OneByOneTheorem`: `Spec => []OneByOneIsOneValue`. A buffer that is one value, or
  the start of one, forwards that value or nothing (`ForwardsValues`), whatever the
  depth of its arrays. `Missing` counts the values still to come behind each token.

`DataLemmas` has what these modules share. About the closed form: `Singles` is well
defined (the least-number principle, from the well-foundedness of `<`, as the
library's own version takes an operator), messages are made of complete items
only, no more than the buffer is drained; a command of two items is one message
and nothing of it is left, its header alone is none (`PairFraming`, `CutFraming`);
single items are as many messages (`OnesFraming`). About numbers: division with
remainder exists and is unique, numbers less than `b` apart differ modulo `b`, and
what a step of a wrapping counter does to a remainder.

`ProxyProofs`

* `TypeCorrect`: `Spec => []TypeOK`.
* `HeldNotDestroyed`: `Spec => []HeldAreAlive`.
* `FaultContained`: `Spec => []OnlyFaultyClosed`.

The first two come from `IInv`. `TypeOK` needs to know that a callback in
progress has a message in hand and that a session with an event has a
descriptor (`OneCallback`, `HasFd`); `HeldAreAlive` needs that the session whose
`onRead` runs cannot be destroyed under it, which holds because no batch of
tasks runs then (`OneCallback`). `FaultContained` adds `DelInv`: a pending
DEL_SESSION finds under its number the session that posted it, which is open
and faulty, and no session has posted two. It rests on the hypothesis of
`OnlyFaultyClosed`: with two events of one session the second DEL_SESSION finds
whoever reuses the number, which run `Proxy_fdReuse` shows.

* `DropsOnlyWithoutConn`: `Spec => NoNeedlessDrop`, under `SmallRemainder`: for each
  number of connections that the loop may have, the range of `_sIdGenerater`
  leaves a remainder of 0 or 1. `AddInv` (a connection is added once) and
  `VectorInv` make the vector list every connection once, so one that is up is at
  some index. Lemma `TriesMeet` shows that size + 1 values of the counter, from any
  first one, meet every index, also when the counter wraps among them: the wrap
  repeats at most one index, and that is what the extra try is for. 2^32 leaves
  0 or 1 for one to five connections; for six and seven it leaves 4, and a message
  may then be dropped at the wrap although a connection is up.
* `DropsOnlyAtWrap`: for any number of connections, that is the only place. A
  message is dropped while a connection is up only if the counter is within `size`
  of its range (`DropsAtWrap`): a round of `size` values that does not wrap meets
  every index (`RoundBeforeWrap`). TLC finds the drop at the wrap that
  `SmallRemainder` excludes with three connections and a range of five.

`ProxyAnswerProofs`

* `OwnAnswersOnly`, `QueueNeverEmpty`, `RequestReplyImplemented`: `NoCrossTalk`,
  `NoEmptyPop` and `ImplementsRequestReply`, under `Waiting`: a client has at most one
  command unanswered, and a reply is one item. `Proxy_crossTalk` refutes the first
  theorem without the second hypothesis; without the first, commands read at once
  become one message. Nothing is supposed about how TCP cuts the stream: the three
  properties speak of the time until a read ends right behind an array header
  (`cut`), and fail after such a read.
  Clients and connections may come, fail and go as they like.

  `AnswerInv` is the conjunction of what holds at each place a command or its
  reply can be. `StreamInv`, `HandInv`: what a client has written and what its
  `onRead` hands over is its last command. `QueueInv`: while a connection is up
  its queue is `Aligned`, that is, it lists the owners of the replies that the running
  `onRead` still has in hand, then of those in the socket, then of the commands
  redis has not served, in order; a connection that is not up carries
  nothing, though its queue may still hold what a lost one owed. `PlaceInv`: a
  command that can still be answered is in one place only, unread, in hand or at
  one position of one queue, and its client waits for it. `GotInv`: what a client got
  are the answers 1, 2, ... to its commands. Each lemma `Aligned...` shows that one
  operation (dispatch, serve, read, deliver) keeps the alignment, as both ends
  shift together.

  The refinement maps `got` to the abstract replies. A `Deliver` to a session
  that is not closing is the abstract reply, `ClientSend` the abstract question, and
  everything else stutters.

Every safety property, action property and refinement of the passing runs is
stated by a theorem, except two. Only model-checked:

* `BytesMatchTokens` and `HeapMattersToPartsOnly` of `RespBytes`: they compare the
  parser with itself on two representations, over the finite set of renderings
  that TLC enumerates, and the byte parser is a RECURSIVE operator, which the
  provers do not have. What the proofs say about buffers they say about tokens;
  that tokens are what the bytes do is checked up to the bounds;
* all liveness (`AcceptedTaskRuns`, `ExitStopsLoop`, `StopEndsLoop`, `InitReturns`,
  `StopReturns`, `EstablishedReported`, `CloseFinishes`, `CommandAnswered`,
  `FaultyClosed`): the provers have no fairness.

## Not modelled, and why

* `NEW_SESSION` is never posted and does what accept does; `DEL_CONN` and
  `DEL_LISTENER` do nothing.
* Allocation failures (`bufferevent_write` and `evbuffer_drain` returning -1),
  except those of `TcpSession::init` and of `TcpClient::_connect`.
* `set_source_addr`, `set_sockopt_tos`, `getAddr` and other accessors and socket
  options: they change no state that another operation reads.
* The steps of `TCPListener::listen` between its system calls: a failing one
  leaks a socket, and its caller ignores the result; `Proxy` has the outcome.
* `Loop::init`, which `loop_thread::init` calls before it goes on with the loop,
  and the hooks around `start` and `_run`, which nothing overrides. It calls
  `evthread_use_pthreads` after the base is made, so whether the first base of the
  process has locks is up to libevent; the models take `event_base_loopexit` and
  bufferevents to be usable from other threads.
* `connect` with a port that is no number returns with its socket open
  (`tcpClient.h:154-159`, `184-188`): addresses are taken to be well-formed.
* The logger writes text; the test program is empty. Of the example, the use of
  the pool and of clients from `main`'s thread is in `Pool` and `TcpClient`.

## Plan

What a next step would add:

1. `Proxy` over the sockets of `TcpClient` instead of its own connection states.
2. The byte functions of `RespBytes` as recursive functions, and a proof that an item
   complete in bytes is one token.
