----------------------------- MODULE TaskQueue -----------------------------
(***************************************************************************)
(* The task queue of one loop_thread: loop_thread::init creates the        *)
(* eventfd and arms it in the event loop, any thread posts with            *)
(* send2loop_thread, and the loop thread drains the queue in process_msg   *)
(* when the eventfd becomes readable, until an EXIT_LOOP task stops it.    *)
(*                                                                         *)
(* The mutex mtx protects _task_queue only: _evfd is written by init and   *)
(* stop on the loop thread without it, so the test of _evfd in             *)
(* send2loop_thread and the write to the eventfd are separate steps here,  *)
(* and so are the two assignments of stop.  What the task handlers do is   *)
(* abstracted (module Proxy models it): a task is an EXIT_LOOP or a job.   *)
(***************************************************************************)
EXTENDS Integers, Sequences

CONSTANTS
  Sender,       \* threads other than the loop's that call send2loop_thread
  LoopThread,   \* the loop's own thread, which posts DEL_SESSION to itself
  None,         \* no holder of mtx
  MaxTask,      \* bound on the number of tasks ever posted
  EarlySend     \* whether threads may post before pool.init() has returned

ASSUME TaskQueueAssumption ==
  /\ LoopThread \notin Sender
  /\ None \notin Sender \cup {LoopThread}
  /\ MaxTask \in Nat
  /\ EarlySend \in BOOLEAN

VARIABLES
  lpc,          \* where the loop thread is, see LoopPc
  pc,           \* where each thread is in send2loop_thread, see SendPc
  mtx,          \* holder of loop_thread::mtx
  evfd,         \* loop_thread::_evfd: 0, EvFd, or -1 if eventfd() failed
  client,       \* _event_client_sptr is set (it keeps a copy of EvFd)
  fdOpen,       \* the kernel object behind EvFd exists
  counter,      \* its counter: readable iff > 0
  task_queue,   \* loop_thread::_task_queue
  tmp_queue,    \* process_msg's local _tmp_task_queue
  exiting,      \* event_base_loopexit has been called
  crashed,      \* a null _event_client_sptr was dereferenced
  \* history
  done,         \* the tasks popped by process_msg, oldest first
  accepted,     \* ids of the tasks whose send2loop_thread returned true
  late          \* ids of the tasks accepted after stop has cleared _evfd

vars == <<lpc, pc, mtx, evfd, client, fdOpen, counter, task_queue, tmp_queue,
          exiting, crashed, done, accepted, late>>

kernel == <<fdOpen, counter>>
history == <<done, accepted, late>>

Thread == Sender \cup {LoopThread}
EvFd == 1
Kind == {"JOB", "EXIT_LOOP"}
Task == [id : 1..MaxTask, kind : Kind]

\* loop_thread::init up to the loop, then the loop and its callback.
LoopPc == {"make_loop", "eventfd", "client", "server", "start", "wait", "swap",
           "work", "stop", "finished", "failed"}
SendPc == {"idle", "check", "write"}

\* Loop::_status = StatusRunning: what loop_thread_pool::init polls for.
Running == lpc \in {"wait", "swap", "work", "stop"}

\* The number of tasks ever posted; it is also the id of the last one.
Posted == Len(done) + Len(tmp_queue) + Len(task_queue)

Init ==
  /\ lpc = "make_loop"
  /\ pc = [t \in Thread |-> "idle"]
  /\ mtx = None
  /\ evfd = 0
  /\ client = FALSE
  /\ fdOpen = FALSE
  /\ counter = 0
  /\ task_queue = <<>>
  /\ tmp_queue = <<>>
  /\ exiting = FALSE
  /\ crashed = FALSE
  /\ done = <<>>
  /\ accepted = {}
  /\ late = {}

-----------------------------------------------------------------------------
(* send2loop_thread, called by thread t.                                   *)

\* A caller outside the loop thread has the loop_thread from the pool, whose
\* init returns once the loop runs (or has run); the loop thread itself posts
\* from a session's event callback, between two wake-ups of the eventfd.
MayPost(t, k) ==
  IF t = LoopThread
  THEN lpc = "wait" /\ k = "JOB"
  ELSE EarlySend \/ Running \/ lpc = "finished"

\* Mutant: the id of the previous task.
PushStaleId(t, k) ==
  /\ ~crashed
  /\ pc[t] = "idle"
  /\ MayPost(t, k)
  /\ Posted < MaxTask
  /\ mtx = None
  /\ mtx' = t
  /\ task_queue' = Append(task_queue, [id |-> Posted, kind |-> k])
  /\ pc' = [pc EXCEPT ![t] = "check"]
  /\ UNCHANGED <<lpc, evfd, client, kernel, tmp_queue, exiting, crashed, history>>

Push(t, k) ==
  /\ ~crashed
  /\ pc[t] = "idle"
  /\ MayPost(t, k)
  /\ Posted < MaxTask
  /\ mtx = None
  /\ mtx' = t
  /\ task_queue' = Append(task_queue, [id |-> Posted + 1, kind |-> k])
  /\ pc' = [pc EXCEPT ![t] = "check"]
  /\ UNCHANGED <<lpc, evfd, client, kernel, tmp_queue, exiting, crashed, history>>

\* Mutant: mtx is released before _evfd is tested.
CheckUnlocked(t) ==
  /\ ~crashed
  /\ pc[t] = "check"
  /\ mtx' = None
  /\ pc' = [pc EXCEPT ![t] = IF evfd = 0 THEN "idle" ELSE "write"]
  /\ UNCHANGED <<lpc, evfd, client, kernel, task_queue, tmp_queue, exiting,
                 crashed, history>>

\* if (!_evfd): the task stays in the queue although the call returns false.
CheckEvfd(t) ==
  /\ ~crashed
  /\ pc[t] = "check"
  /\ IF evfd = 0
     THEN mtx' = None /\ pc' = [pc EXCEPT ![t] = "idle"]
     ELSE pc' = [pc EXCEPT ![t] = "write"] /\ UNCHANGED mtx
  /\ UNCHANGED <<lpc, evfd, client, kernel, task_queue, tmp_queue, exiting,
                 crashed, history>>

\* Mutant: the task is queued and accepted, and nobody writes to the eventfd.
NotifyNobody(t) ==
  /\ ~crashed
  /\ pc[t] = "write"
  /\ IF client
     THEN /\ accepted' = accepted \cup {Posted}
          /\ mtx' = None
          /\ pc' = [pc EXCEPT ![t] = "idle"]
          /\ UNCHANGED crashed
     ELSE /\ crashed' = TRUE
          /\ UNCHANGED <<accepted, mtx, pc>>
  /\ UNCHANGED <<lpc, evfd, client, kernel, task_queue, tmp_queue, exiting, done, late>>

\* _event_client_sptr->send(), whose result is ignored, and the return of true.
Notify(t) ==
  /\ ~crashed
  /\ pc[t] = "write"
  /\ IF client
     THEN /\ counter' = IF fdOpen THEN counter + 1 ELSE counter
          /\ late' = IF evfd # 0 THEN late ELSE late \cup {Posted}
          /\ accepted' = accepted \cup {Posted}
          /\ mtx' = None
          /\ pc' = [pc EXCEPT ![t] = "idle"]
          /\ UNCHANGED crashed
     ELSE /\ crashed' = TRUE
          /\ UNCHANGED <<counter, late, accepted, mtx, pc>>
  /\ UNCHANGED <<lpc, evfd, client, fdOpen, task_queue, tmp_queue, exiting, done>>

-----------------------------------------------------------------------------
(* loop_thread::init(false), on the loop thread.                           *)

senders == <<pc, mtx, task_queue, accepted, late, crashed>>

MakeLoop ==
  /\ ~crashed
  /\ lpc = "make_loop"
  /\ lpc' = "eventfd"
  /\ UNCHANGED <<senders, evfd, client, kernel, tmp_queue, exiting, done>>

\* eventfd() may fail; init then returns false and leaves -1 in _evfd.
CreateEventfd ==
  /\ ~crashed
  /\ lpc = "eventfd"
  /\ \/ lpc' = "client" /\ evfd' = EvFd /\ fdOpen' = TRUE
     \/ lpc' = "failed" /\ evfd' = -1 /\ UNCHANGED fdOpen
  /\ UNCHANGED <<senders, client, counter, tmp_queue, exiting, done>>

MakeClient ==
  /\ ~crashed
  /\ lpc = "client"
  /\ lpc' = "server"
  /\ client' = TRUE
  /\ UNCHANGED <<senders, evfd, kernel, tmp_queue, exiting, done>>

\* EventFdServer::init may throw; init catches it and returns false.
ArmServer ==
  /\ ~crashed
  /\ lpc = "server"
  /\ lpc' \in {"start", "failed"}
  /\ UNCHANGED <<senders, evfd, client, kernel, tmp_queue, exiting, done>>

\* Loop::start(false): _run sets StatusRunning and enters event_base_loop.
StartLoop ==
  /\ ~crashed
  /\ lpc = "start"
  /\ lpc' = "wait"
  /\ UNCHANGED <<senders, evfd, client, kernel, tmp_queue, exiting, done>>

-----------------------------------------------------------------------------
(* The loop: evfc_cb, process_msg and stop.                                *)

\* evfc_cb: the eventfd is readable and read() resets its counter.  A closed
\* descriptor has left the epoll set, so it wakes nobody.
Wake ==
  /\ ~crashed
  /\ lpc = "wait"
  /\ pc[LoopThread] = "idle"
  /\ fdOpen
  /\ counter > 0
  /\ counter' = 0
  /\ lpc' = "swap"
  /\ UNCHANGED <<senders, evfd, client, fdOpen, tmp_queue, exiting, done>>

\* Mutant: one task per wake-up, although read() has reset the counter.
SwapOne ==
  /\ ~crashed
  /\ lpc = "swap"
  /\ mtx = None
  /\ IF task_queue = <<>>
     THEN lpc' = "wait" /\ UNCHANGED <<task_queue, tmp_queue>>
     ELSE /\ tmp_queue' = <<Head(task_queue)>>
          /\ task_queue' = Tail(task_queue)
          /\ lpc' = "work"
  /\ UNCHANGED <<pc, mtx, evfd, client, kernel, exiting, crashed, history>>

\* Mutant: a copy of the queue instead of a swap.
SwapCopies ==
  /\ ~crashed
  /\ lpc = "swap"
  /\ mtx = None
  /\ tmp_queue' = task_queue
  /\ lpc' = IF task_queue = <<>> THEN "wait" ELSE "work"
  /\ UNCHANGED <<pc, mtx, evfd, client, kernel, task_queue, exiting, crashed, history>>

\* The critical section of process_msg, which returns early on an empty queue.
Swap ==
  /\ ~crashed
  /\ lpc = "swap"
  /\ mtx = None
  /\ tmp_queue' = task_queue
  /\ task_queue' = <<>>
  /\ lpc' = IF task_queue = <<>> THEN "wait" ELSE "work"
  /\ UNCHANGED <<pc, mtx, evfd, client, kernel, exiting, crashed, history>>

\* _tmp_task_queue.pop() at the end of the loop body.
Pop ==
  /\ done' = Append(done, Head(tmp_queue))
  /\ tmp_queue' = Tail(tmp_queue)
  /\ lpc' = IF Len(tmp_queue) = 1 THEN "wait" ELSE "work"

\* A task whose handler leaves the queue alone; stop() returns false when a
\* previous EXIT_LOOP has cleared _evfd.
RunTask ==
  /\ ~crashed
  /\ lpc = "work"
  /\ Head(tmp_queue).kind = "EXIT_LOOP" => evfd = 0
  /\ Pop
  /\ UNCHANGED <<senders, evfd, client, kernel, exiting>>

\* stop(): close(_evfd) ...
CloseEvfd ==
  /\ ~crashed
  /\ lpc = "work"
  /\ Head(tmp_queue).kind = "EXIT_LOOP"
  /\ evfd # 0
  /\ fdOpen' = FALSE
  /\ lpc' = "stop"
  /\ UNCHANGED <<senders, evfd, client, counter, tmp_queue, exiting, done>>

\* Mutant: stop() forgets _loop_sptr->stop(true).
ClearEvfdOnly ==
  /\ ~crashed
  /\ lpc = "stop"
  /\ evfd' = 0
  /\ Pop
  /\ UNCHANGED <<senders, client, kernel, exiting>>

\* ... then _evfd = 0 and _loop_sptr->stop(true), then the pop.
ClearEvfd ==
  /\ ~crashed
  /\ lpc = "stop"
  /\ evfd' = 0
  /\ exiting' = TRUE
  /\ Pop
  /\ UNCHANGED <<senders, client, kernel>>

\* event_base_loop returns once the callbacks of this round have run, and
\* Loop::_run sets StatusFinished.
LoopExit ==
  /\ ~crashed
  /\ lpc = "wait"
  /\ pc[LoopThread] = "idle"
  /\ exiting
  /\ lpc' = "finished"
  /\ UNCHANGED <<senders, evfd, client, kernel, tmp_queue, exiting, done>>

-----------------------------------------------------------------------------
Send(t) == CheckEvfd(t) \/ Notify(t)

InitStep == MakeLoop \/ CreateEventfd \/ MakeClient \/ ArmServer \/ StartLoop

LoopStep == Wake \/ Swap \/ RunTask \/ CloseEvfd \/ ClearEvfd \/ LoopExit

Next ==
  \/ \E t \in Thread : Send(t) \/ \E k \in Kind : Push(t, k)
  \/ InitStep
  \/ LoopStep

Spec == Init /\ [][Next]_vars

\* A thread that runs keeps running: every call of send2loop_thread that was
\* entered and every step of the loop thread is eventually scheduled.  Nobody
\* is obliged to post.
Fairness ==
  /\ \A t \in Thread : WF_vars(Send(t))
  /\ WF_vars(InitStep)
  /\ WF_vars(LoopStep)

FairSpec == Spec /\ Fairness

-----------------------------------------------------------------------------
(* Properties.                                                             *)

TypeOK ==
  /\ lpc \in LoopPc
  /\ pc \in [Thread -> SendPc]
  /\ mtx \in Thread \cup {None}
  /\ evfd \in {-1, 0, EvFd}
  /\ client \in BOOLEAN
  /\ fdOpen \in BOOLEAN
  /\ counter \in Nat
  /\ task_queue \in Seq(Task)
  /\ tmp_queue \in Seq(Task)
  /\ exiting \in BOOLEAN
  /\ crashed \in BOOLEAN
  /\ done \in Seq(Task)
  /\ accepted \in SUBSET (1..MaxTask)
  /\ late \in SUBSET (1..MaxTask)

\* A task that send2loop_thread accepted is never stranded: unless the loop is
\* between reading the eventfd and swapping the queue, or stop has closed the
\* eventfd, an accepted task in _task_queue leaves the eventfd readable
\* (loop_thread.cpp:199-213 and 10-19 against loop_thread.hpp:45-53).
NoLostWakeup ==
  (\E i \in 1..Len(task_queue) : task_queue[i].id \in accepted) /\ fdOpen
     => lpc = "swap" \/ counter > 0

\* The queue is a mailbox: process_msg runs what was posted, in that order,
\* each task once, whatever the interleaving of posts, swaps and pops.
Abstract == INSTANCE Mailbox WITH box <- tmp_queue \o task_queue, log <- done
ImplementsMailbox == Abstract!Spec

DoneIds == {done[i].id : i \in 1..Len(done)}

\* Every task for which send2loop_thread returned true is run, unless the loop
\* was stopped meanwhile or never started (loop_thread.hpp:43-54).
AcceptedTaskRuns ==
  \A n \in 1..MaxTask :
    (n \in accepted) ~> (n \in DoneIds \/ ~fdOpen \/ lpc = "failed")

\* An accepted EXIT_LOOP ends the loop, so that the join of
\* loop_thread_pool::stop returns (loop_thread.cpp:84-89, loop.cpp:65-87).
ExitStopsLoop ==
  \A n \in 1..MaxTask :
    (/\ n \in accepted
     /\ \E q \in {task_queue, tmp_queue, done} : \E i \in 1..Len(q) :
          q[i].id = n /\ q[i].kind = "EXIT_LOOP")
      ~> (lpc \in {"finished", "failed"})

\* Once stop has cleared _evfd, which it does without mtx, at most one more
\* call of send2loop_thread writes to the number that was closed and returns
\* true for a task that nobody runs: the call that was past its test
\* (loop_thread.hpp:24-37 against 43-54).  Between close(_evfd) and _evfd = 0 any
\* number of calls do so; those are not counted here.
OneLateSend == \A m, n \in late : m = n
=============================================================================
