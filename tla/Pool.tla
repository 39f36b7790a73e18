-------------------------------- MODULE Pool --------------------------------
(***************************************************************************)
(* loop_thread_pool: init starts one thread per loop and polls until every *)
(* loop runs; then any thread broadcasts with send_to_all or takes a loop  *)
(* with get_loop_thread, and one calls stop, which posts an EXIT_LOOP to   *)
(* every loop and joins the threads.                                       *)
(*                                                                         *)
(* A loop_thread is seen from outside here: its queue, the batch that      *)
(* process_msg has taken from it, and whether EXIT_LOOP was run; module    *)
(* TaskQueue has the steps of a post and of init, and shows that the queue *)
(* is a mailbox.  The vectors of the pool are written by init only, before *)
(* it returns.                                                             *)
(***************************************************************************)
EXTENDS Integers, Sequences, FiniteSets, Functions

CONSTANTS
  N,            \* loop_thread_pool::_loop_num
  IndexMod,     \* stands for 2^32, the range of _select_index
  Broadcaster,  \* threads that call send_to_all once, each with a message
  Picker,       \* threads that call get_loop_thread
  Exit,         \* an EXIT_LOOP task
  MaxPick,      \* bound on the calls of get_loop_thread
  MayFail       \* the loops whose loop_thread::init may return false

ASSUME PoolAssumption ==
  /\ N \in Nat \ {0}
  /\ IndexMod \in Nat \ {0}
  /\ MaxPick \in Nat
  /\ MayFail \subseteq 1..N
  /\ Exit \notin Broadcaster

Loops == 1..N

VARIABLES
  mpc,           \* what the owner of the pool does, see MainPc
  at,            \* the loop it has reached in that
  life,          \* each loop's thread, see Life
  task_queue,    \* each loop_thread's _task_queue
  batch,         \* what process_msg has left of its _tmp_task_queue
  exiting,       \* loop_thread::stop has run: _evfd is 0 and the loop told to exit
  sent,          \* how many loops each send_to_all has posted to
  select_index,  \* loop_thread_pool::_select_index
  ppc,           \* where each picker is in get_loop_thread
  loaded,        \* the value it has read of _select_index
  \* history
  log,           \* the tasks each loop has run, oldest first
  early,         \* the broadcasts that were over when stop was called
  picks,         \* the calls of get_loop_thread that are over, oldest first
  shared         \* the pickers whose present call overlaps another

mainVars == <<mpc, at, early>>
loopVars == <<life, batch, exiting, log>>
pickVars == <<select_index, ppc, loaded, picks, shared>>
vars == <<mainVars, loopVars, task_queue, sent, pickVars>>

MainPc == {"spawn", "poll", "use", "post", "join", "stopped"}

\* "made": get_loop() is not null, and its status is still StatusInit.
Life == {"none", "born", "made", "running", "finished", "failed"}

Init ==
  /\ mpc = "spawn"
  /\ at = 1
  /\ life = [l \in Loops |-> "none"]
  /\ task_queue = [l \in Loops |-> <<>>]
  /\ batch = [l \in Loops |-> <<>>]
  /\ exiting = [l \in Loops |-> FALSE]
  /\ sent = [b \in Broadcaster |-> 0]
  /\ select_index = 0
  /\ ppc = [p \in Picker |-> "idle"]
  /\ loaded = [p \in Picker |-> 0]
  /\ log = [l \in Loops |-> <<>>]
  /\ early = {}
  /\ picks = <<>>
  /\ shared = {}

\* init has returned.
InitDone == mpc \notin {"spawn", "poll"}

\* The thread function of a loop has returned.
Ended(l) == life[l] \in {"finished", "failed"}

\* The owner is done with loop `at` in its present loop over all of them.
Advance(next) ==
  IF at = N THEN mpc' = next /\ at' = 1
  ELSE at' = at + 1 /\ UNCHANGED mpc

-----------------------------------------------------------------------------
(* The owner: init, then stop.                                             *)

\* Mutant: a loop is added to the pool without its thread.
SpawnThreadShort ==
  /\ mpc = "spawn"
  /\ life' = IF at = N THEN life ELSE [life EXCEPT ![at] = "born"]
  /\ Advance("poll")
  /\ UNCHANGED <<early, batch, exiting, log, task_queue, sent, pickVars>>

SpawnThread ==
  /\ mpc = "spawn"
  /\ life' = [life EXCEPT ![at] = "born"]
  /\ Advance("poll")
  /\ UNCHANGED <<early, batch, exiting, log, task_queue, sent, pickVars>>

\* Mutant: a loop that exists is taken for one that runs.
PollLoopExists ==
  /\ mpc = "poll"
  /\ life[at] \notin {"none", "born"}
  /\ Advance("use")
  /\ UNCHANGED <<early, loopVars, task_queue, sent, pickVars>>

\* while (1): leaves once get_loop() is set and its status is StatusRunning.
PollLoop ==
  /\ mpc = "poll"
  /\ life[at] = "running"
  /\ Advance("use")
  /\ UNCHANGED <<early, loopVars, task_queue, sent, pickVars>>

StopCalled ==
  /\ mpc = "use"
  /\ mpc' = "post"
  /\ early' = {b \in Broadcaster : sent[b] = N}
  /\ UNCHANGED <<at, loopVars, task_queue, sent, pickVars>>

\* Mutant: the last loop gets no EXIT_LOOP.
PostExitShort ==
  /\ mpc = "post"
  /\ task_queue' = IF at = N THEN task_queue
                   ELSE [task_queue EXCEPT ![at] = Append(@, Exit)]
  /\ Advance("join")
  /\ UNCHANGED <<early, loopVars, sent, pickVars>>

PostExit ==
  /\ mpc = "post"
  /\ task_queue' = [task_queue EXCEPT ![at] = Append(@, Exit)]
  /\ Advance("join")
  /\ UNCHANGED <<early, loopVars, sent, pickVars>>

\* Mutant: the threads are not waited for.
JoinNothing ==
  /\ mpc = "join"
  /\ Advance("stopped")
  /\ UNCHANGED <<early, loopVars, task_queue, sent, pickVars>>

JoinThread ==
  /\ mpc = "join"
  /\ Ended(at)
  /\ Advance("stopped")
  /\ UNCHANGED <<early, loopVars, task_queue, sent, pickVars>>

-----------------------------------------------------------------------------
(* A loop's thread.                                                        *)

\* loop_thread::init sets _loop_sptr ...
MakeLoop(l) ==
  /\ life[l] = "born"
  /\ life' = [life EXCEPT ![l] = "made"]
  /\ UNCHANGED <<mainVars, batch, exiting, log, task_queue, sent, pickVars>>

\* ... and runs the loop, or returns false, after which nothing restarts it.
StartLoop(l) ==
  /\ life[l] = "made"
  /\ \/ life' = [life EXCEPT ![l] = "running"]
     \/ l \in MayFail /\ life' = [life EXCEPT ![l] = "failed"]
  /\ UNCHANGED <<mainVars, batch, exiting, log, task_queue, sent, pickVars>>

\* Mutant: the queue is copied, not swapped.
TakeBatchCopies(l) ==
  /\ life[l] = "running"
  /\ batch[l] = <<>>
  /\ ~exiting[l]
  /\ task_queue[l] # <<>>
  /\ batch' = [batch EXCEPT ![l] = task_queue[l]]
  /\ UNCHANGED <<mainVars, life, exiting, log, task_queue, sent, pickVars>>

\* process_msg takes the whole queue, woken through an eventfd that
\* loop_thread::stop has not closed.
TakeBatch(l) ==
  /\ life[l] = "running"
  /\ batch[l] = <<>>
  /\ ~exiting[l]
  /\ task_queue[l] # <<>>
  /\ batch' = [batch EXCEPT ![l] = task_queue[l]]
  /\ task_queue' = [task_queue EXCEPT ![l] = <<>>]
  /\ UNCHANGED <<mainVars, life, exiting, log, sent, pickVars>>

\* The handlers; EXIT_LOOP does not end the batch.
RunTask(l) ==
  /\ batch[l] # <<>>
  /\ exiting' = [exiting EXCEPT ![l] = @ \/ Head(batch[l]) = Exit]
  /\ log' = [log EXCEPT ![l] = Append(@, Head(batch[l]))]
  /\ batch' = [batch EXCEPT ![l] = Tail(@)]
  /\ UNCHANGED <<mainVars, life, task_queue, sent, pickVars>>

\* event_base_loop returns after the callback that ran EXIT_LOOP.
EndLoop(l) ==
  /\ life[l] = "running"
  /\ exiting[l]
  /\ batch[l] = <<>>
  /\ life' = [life EXCEPT ![l] = "finished"]
  /\ UNCHANGED <<mainVars, batch, exiting, log, task_queue, sent, pickVars>>

-----------------------------------------------------------------------------
(* Users of the pool.                                                      *)

\* Mutant: send_to_all leaves out the last loop.
SendToNextShort(b) ==
  /\ InitDone
  /\ sent[b] < N
  /\ sent' = [sent EXCEPT ![b] = @ + 1]
  /\ task_queue' = IF sent'[b] = N THEN task_queue
                   ELSE [task_queue EXCEPT ![sent'[b]] = Append(@, b)]
  /\ UNCHANGED <<mainVars, loopVars, pickVars>>

\* send_to_all posts to one loop after the other; the task stays in the queue
\* of a loop that has exited, and the result of the post is ignored.
SendToNext(b) ==
  /\ InitDone
  /\ sent[b] < N
  /\ sent' = [sent EXCEPT ![b] = @ + 1]
  /\ task_queue' = [task_queue EXCEPT ![sent'[b]] = Append(@, b)]
  /\ UNCHANGED <<mainVars, loopVars, pickVars>>

\* get_loop_thread: _select_index++ loads ...
LoadIndex(p) ==
  /\ InitDone
  /\ ppc[p] = "idle"
  /\ Len(picks) + Cardinality({q \in Picker : ppc[q] # "idle"}) < MaxPick
  /\ loaded' = [loaded EXCEPT ![p] = select_index]
  /\ ppc' = [ppc EXCEPT ![p] = "store"]
  /\ LET running == {q \in Picker : ppc[q] # "idle"}
     IN shared' = IF running = {} THEN {} ELSE running \cup {p}
  /\ UNCHANGED <<mainVars, loopVars, task_queue, sent, select_index, picks>>

\* Mutant: the index is not 32 bits wide.
StoreIndexUnwrapped(p) ==
  /\ ppc[p] = "store"
  /\ select_index' = loaded[p] + 1
  /\ ppc' = [ppc EXCEPT ![p] = "pick"]
  /\ UNCHANGED <<mainVars, loopVars, task_queue, sent, loaded, picks, shared>>

\* ... and stores, as 32 bits ...
StoreIndex(p) ==
  /\ ppc[p] = "store"
  /\ select_index' = (loaded[p] + 1) % IndexMod
  /\ ppc' = [ppc EXCEPT ![p] = "pick"]
  /\ UNCHANGED <<mainVars, loopVars, task_queue, sent, loaded, picks, shared>>

\* Mutant: one loop too few.
PickLoopShort(p) ==
  /\ ppc[p] = "pick"
  /\ picks' = Append(picks, [loop |-> IF N = 1 THEN 1 ELSE (select_index % (N - 1)) + 1,
                             index |-> select_index, alone |-> p \notin shared])
  /\ ppc' = [ppc EXCEPT ![p] = "idle"]
  /\ shared' = shared \ {p}
  /\ UNCHANGED <<mainVars, loopVars, task_queue, sent, select_index, loaded>>

\* ... and _loop_threads[_select_index % _loop_num] reads it again.
PickLoop(p) ==
  /\ ppc[p] = "pick"
  /\ picks' = Append(picks, [loop |-> (select_index % N) + 1,
                             index |-> select_index, alone |-> p \notin shared])
  /\ ppc' = [ppc EXCEPT ![p] = "idle"]
  /\ shared' = shared \ {p}
  /\ UNCHANGED <<mainVars, loopVars, task_queue, sent, select_index, loaded>>

-----------------------------------------------------------------------------
InitStep == SpawnThread \/ PollLoop

StopStep == PostExit \/ JoinThread

LoopStep(l) == MakeLoop(l) \/ StartLoop(l) \/ TakeBatch(l) \/ RunTask(l) \/ EndLoop(l)

PickStep(p) == LoadIndex(p) \/ StoreIndex(p) \/ PickLoop(p)

Next ==
  \/ InitStep \/ StopCalled \/ StopStep
  \/ \E l \in Loops : LoopStep(l)
  \/ \E b \in Broadcaster : SendToNext(b)
  \/ \E p \in Picker : PickStep(p)

Spec == Init /\ [][Next]_vars

\* Threads that run keep running; nobody has to call stop, broadcast or pick.
Fairness ==
  /\ WF_vars(InitStep)
  /\ WF_vars(StopStep)
  /\ \A l \in Loops : WF_vars(LoopStep(l))

FairSpec == Spec /\ Fairness

-----------------------------------------------------------------------------
(* Properties.                                                             *)

Message == Broadcaster \cup {Exit}

Pick == [loop : Loops, index : 0..IndexMod - 1, alone : BOOLEAN]

TypeOK ==
  /\ mpc \in MainPc
  /\ at \in Loops
  /\ life \in [Loops -> Life]
  /\ task_queue \in [Loops -> Seq(Message)]
  /\ batch \in [Loops -> Seq(Message)]
  /\ exiting \in [Loops -> BOOLEAN]
  /\ sent \in [Broadcaster -> 0..N]
  /\ select_index \in 0..IndexMod - 1
  /\ ppc \in [Picker -> {"idle", "store", "pick"}]
  /\ loaded \in [Picker -> 0..IndexMod - 1]
  /\ log \in [Loops -> Seq(Message)]
  /\ early \in SUBSET Broadcaster
  /\ picks \in Seq(Pick)
  /\ shared \in SUBSET Picker

\* Once init has returned, every loop runs or has been told to exit: nobody
\* posts to a loop_thread that has no eventfd client yet
\* (loop_thread_pool.hpp:50-66 against loop_thread.hpp:43-54).
InitReady == InitDone => \A l \in Loops : life[l] \in {"running", "finished"}

\* A broadcast that was over before stop was called reaches the handlers of
\* every loop before that loop ends: EXIT_LOOP queues behind it, and ends
\* neither its batch nor the loop before the batch is done
\* (loop_thread_pool.hpp:70-93, loop_thread.cpp:13 and 84-89).
EarlyBroadcastRuns ==
  \A l \in Loops : life[l] = "finished" => early \subseteq Range(log[l])

\* The queue of every loop is a mailbox, whoever posts and stops: what was
\* posted runs in that order, each task once (loop_thread_pool.hpp:70-93 on
\* loop_thread.cpp:5-25).
Abstract(l) == INSTANCE Mailbox
                 WITH Task <- Message, box <- batch[l] \o task_queue[l], log <- log[l]
QueuesAreMailboxes ==
  /\ \A l \in Loops : Abstract(l)!Init
  /\ [][\A l \in Loops : Abstract(l)!Next \/ UNCHANGED Abstract(l)!vars]_vars

\* When stop returns no loop is left that could run anything
\* (loop_thread_pool.hpp:80-84).
StoppedIsQuiet ==
  mpc = "stopped" => \A l \in Loops : Ended(l) /\ batch[l] = <<>>

NoWrap(i, j) == \A k \in i + 1..j : picks[k].index # 0

\* Fewer than N calls of get_loop_thread in a row hand out different loops,
\* unless one of them overlaps another call, which only spoils its own window,
\* or _select_index wraps among them and N does not divide its range: whatever
\* overlapping calls, which can lose increments and set the index back, have
\* left behind, the next calls rotate again (loop_thread_pool.hpp:94-99).
PicksRotate ==
  \A i, j \in 1..Len(picks) :
    /\ i < j /\ j < i + N
    /\ \A k \in i..j : picks[k].alone
    /\ IndexMod % N = 0 \/ NoWrap(i, j)
    => picks[i].loop # picks[j].loop

\* init returns unless a loop could not be started
\* (loop_thread_pool.hpp:50-66).
InitReturns == <>(InitDone \/ \E l \in Loops : life[l] = "failed")

\* stop returns: every loop runs its EXIT_LOOP, however many tasks are in
\* front of it (loop_thread_pool.hpp:70-85).
StopReturns == mpc = "post" ~> mpc = "stopped"
=============================================================================
