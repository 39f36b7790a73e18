-------------------------- MODULE TaskQueueProofs --------------------------
(***************************************************************************)
(* Theorems about TaskQueue, for any number of threads and tasks: type     *)
(* correctness, no lost wake-up, and that the queue implements Mailbox.    *)
(***************************************************************************)
EXTENDS TaskQueue, SequenceTheorems, TLAPS

\* A thread inside send2loop_thread holds mtx, and its task has been counted.
MutexInv ==
  \A t \in Thread : pc[t] # "idle" => mtx = t /\ Posted > 0

\* process_msg's local queue is empty outside its loop.
TmpInv == lpc \in {"work", "stop"} <=> tmp_queue # <<>>

\* Nothing is accepted before init has made the eventfd client.
ClientInv ==
  /\ lpc \in {"make_loop", "eventfd", "client"} => ~client
  /\ ~client => accepted = {}

IInv ==
  /\ TypeOK
  /\ Posted <= MaxTask
  /\ MutexInv
  /\ TmpInv
  /\ ClientInv
  /\ accepted \subseteq 1..Posted
  /\ NoLostWakeup

USE TaskQueueAssumption

-----------------------------------------------------------------------------

\* The bookkeeping of Pop: the task moves from the front of one queue to the
\* back of the other, so the number of tasks posted does not change.
LEMMA PopFacts ==
  ASSUME TypeOK, TmpInv, lpc \in {"work", "stop"}, Pop
  PROVE  /\ tmp_queue' \in Seq(Task)
         /\ done' \in Seq(Task)
         /\ Len(done') + Len(tmp_queue') = Len(done) + Len(tmp_queue)
         /\ lpc' \in {"wait", "work"}
         /\ lpc' = "work" <=> tmp_queue' # <<>>
<1>1. tmp_queue \in Seq(Task) /\ done \in Seq(Task) /\ tmp_queue # <<>>
  BY DEF TypeOK, TmpInv
<1>2. Len(tmp_queue) \in Nat \ {0} /\ Len(done) \in Nat
  BY <1>1, EmptySeq
<1>3. /\ Head(tmp_queue) \in Task
      /\ Tail(tmp_queue) \in Seq(Task)
      /\ Len(Tail(tmp_queue)) = Len(tmp_queue) - 1
  BY <1>1, HeadTailProperties
<1>4. /\ Append(done, Head(tmp_queue)) \in Seq(Task)
      /\ Len(Append(done, Head(tmp_queue))) = Len(done) + 1
  BY <1>1, <1>3, AppendProperties
<1>5. Len(tmp_queue) = 1 <=> Tail(tmp_queue) = <<>>
  <2>1. Tail(tmp_queue) # <<>> => Len(Tail(tmp_queue)) \in Nat \ {0}
    BY <1>3, EmptySeq
  <2>2. Len(<<>>) = 0
    BY EmptySeq
  <2>3. QED
    BY <1>2, <1>3, <2>1, <2>2
<1>6. QED
  BY <1>2, <1>3, <1>4, <1>5 DEF Pop

LEMMA InitIInv == Init => IInv
<1> SUFFICES ASSUME Init PROVE IInv
  OBVIOUS
<1>1. <<>> \in Seq(Task) /\ Len(<<>>) = 0
  BY EmptySeq
<1>2. TypeOK
  BY <1>1 DEF Init, TypeOK, LoopPc, SendPc
<1>3. Posted = 0
  BY <1>1 DEF Init, Posted
<1>4. MutexInv /\ TmpInv /\ ClientInv /\ accepted \subseteq 1..Posted
  BY DEF Init, MutexInv, TmpInv, ClientInv
<1>5. NoLostWakeup
  BY DEF Init, NoLostWakeup
<1>6. QED
  BY <1>2, <1>3, <1>4, <1>5 DEF IInv

LEMMA NextIInv == IInv /\ [Next]_vars => IInv'
<1> SUFFICES ASSUME IInv, [Next]_vars PROVE IInv'
  OBVIOUS
<1> USE DEF IInv
<1>0. /\ Len(done) \in Nat /\ Len(tmp_queue) \in Nat /\ Len(task_queue) \in Nat
      /\ Posted \in Nat
  BY LenProperties DEF TypeOK, Posted
<1>1. ASSUME NEW t \in Thread, NEW k \in Kind, Push(t, k)
      PROVE  IInv'
  <2> DEFINE new == [id |-> Posted + 1, kind |-> k]
  <2>1. new \in Task
    BY <1>0, <1>1 DEF Push, Task
  <2>2. /\ task_queue' \in Seq(Task)
        /\ Len(task_queue') = Len(task_queue) + 1
        /\ \A i \in 1..Len(task_queue) : task_queue'[i] = task_queue[i]
        /\ task_queue'[Len(task_queue) + 1] = new
    BY <1>1, <2>1, AppendProperties DEF Push, TypeOK
  <2>3. Posted' = Posted + 1
    BY <1>0, <1>1, <2>2 DEF Push, Posted, history
  <2>4. TypeOK'
    BY <1>1, <2>2 DEF Push, TypeOK, kernel, history, SendPc
  <2>5. MutexInv'
    BY <1>0, <1>1, <2>3 DEF Push, MutexInv, TypeOK, Thread
  <2>6. TmpInv' /\ ClientInv'
    BY <1>1 DEF Push, TmpInv, ClientInv, history
  <2>7. Posted' <= MaxTask /\ accepted' \subseteq 1..Posted'
    BY <1>0, <1>1, <2>3 DEF Push, history
  <2>8. NoLostWakeup'
    <3> SUFFICES ASSUME NEW i \in 1..Len(task_queue'), task_queue'[i].id \in accepted', fdOpen'
                 PROVE  (lpc = "swap" \/ counter > 0)'
      BY DEF NoLostWakeup
    <3>1. task_queue'[i].id # Posted + 1
      BY <1>0, <1>1 DEF Push, history
    <3>2. i \in 1..Len(task_queue)
      BY <1>0, <2>2, <3>1
    <3>3. QED
      BY <1>1, <2>2, <3>2 DEF Push, NoLostWakeup, kernel, history
  <2>9. QED
    BY <2>4, <2>5, <2>6, <2>7, <2>8
<1>2. ASSUME NEW t \in Thread, CheckEvfd(t)
      PROVE  IInv'
  <2>1. Posted' = Posted
    BY <1>2 DEF CheckEvfd, Posted, history
  <2>2. TypeOK'
    BY <1>2 DEF CheckEvfd, TypeOK, kernel, history, SendPc
  <2>3. MutexInv'
    BY <1>2, <2>1 DEF CheckEvfd, MutexInv, TypeOK
  <2>4. QED
    BY <1>2, <2>1, <2>2, <2>3
       DEF CheckEvfd, TmpInv, ClientInv, NoLostWakeup, kernel, history
<1>3. ASSUME NEW t \in Thread, Notify(t)
      PROVE  IInv'
  <2>1. Posted' = Posted
    BY <1>3 DEF Notify, Posted
  <2>2. Posted \in 1..MaxTask
    BY <1>0, <1>3 DEF Notify, MutexInv
  <2>3. TypeOK'
    <3>1. /\ counter' \in Nat /\ crashed' \in BOOLEAN
          /\ accepted' \subseteq 1..MaxTask /\ late' \subseteq 1..MaxTask
      <4>1. counter' \in {counter, counter + 1} /\ crashed' \in {crashed, TRUE}
        BY <1>3 DEF Notify
      <4>2. /\ accepted' = accepted \/ accepted' = accepted \cup {Posted}
            /\ late' = late \/ late' = late \cup {Posted}
        BY <1>3 DEF Notify
      <4>3. counter \in Nat /\ crashed \in BOOLEAN
            /\ accepted \subseteq 1..MaxTask /\ late \subseteq 1..MaxTask
        BY DEF TypeOK
      <4>4. counter' \in Nat
        BY <4>1, <4>3
      <4>5. crashed' \in BOOLEAN
        BY <4>1, <4>3
      <4>6. accepted' \subseteq 1..MaxTask /\ late' \subseteq 1..MaxTask
        BY <4>2, <4>3, <2>2
      <4>7. QED
        BY <4>4, <4>5, <4>6
    <3>2. pc' \in [Thread -> SendPc] /\ mtx' \in Thread \cup {None}
      BY <1>3 DEF Notify, TypeOK, SendPc
    <3>3. QED
      BY <1>3, <3>1, <3>2 DEF Notify, TypeOK
  <2>4. MutexInv'
    BY <1>3, <2>1 DEF Notify, MutexInv, TypeOK
  <2>5. TmpInv' /\ ClientInv'
    BY <1>3 DEF Notify, TmpInv, ClientInv
  <2>6. accepted' \subseteq 1..Posted
    <3>1. accepted \subseteq 1..Posted /\ Posted \in 1..Posted
      BY <1>0, <2>2
    <3>2. accepted' = accepted \/ accepted' = accepted \cup {Posted}
      BY <1>3 DEF Notify
    <3>3. QED
      BY <3>1, <3>2
  <2>7. NoLostWakeup'
    <3>1. CASE client /\ fdOpen
      <4>1. counter' > 0
        BY <1>3, <3>1 DEF Notify, TypeOK
      <4>2. QED
        BY <4>1 DEF NoLostWakeup
    <3>2. CASE client /\ ~fdOpen
      BY <1>3, <3>2 DEF Notify, NoLostWakeup
    <3>3. CASE ~client
      BY <1>3, <3>3 DEF Notify, NoLostWakeup
    <3>4. QED
      BY <3>1, <3>2, <3>3
  <2>8. QED
    BY <2>1, <2>2, <2>3, <2>4, <2>5, <2>6, <2>7
<1>4. ASSUME InitStep
      PROVE  IInv'
  <2> USE DEF senders
  <2>1. Posted' = Posted
    BY <1>4 DEF InitStep, MakeLoop, CreateEventfd, MakeClient, ArmServer, StartLoop, Posted
  <2>2. TypeOK'
    BY <1>4 DEF InitStep, MakeLoop, CreateEventfd, MakeClient, ArmServer, StartLoop,
                TypeOK, LoopPc, EvFd, kernel
  <2>3. MutexInv'
    BY <1>4, <2>1 DEF InitStep, MakeLoop, CreateEventfd, MakeClient, ArmServer,
                      StartLoop, MutexInv
  <2>4. TmpInv' /\ ClientInv'
    <3>1. CASE MakeLoop
      BY <3>1 DEF MakeLoop, TmpInv, ClientInv
    <3>2. CASE CreateEventfd
      BY <3>2 DEF CreateEventfd, TmpInv, ClientInv
    <3>3. CASE MakeClient
      BY <3>3 DEF MakeClient, TmpInv, ClientInv
    <3>4. CASE ArmServer
      BY <3>4 DEF ArmServer, TmpInv, ClientInv
    <3>5. CASE StartLoop
      BY <3>5 DEF StartLoop, TmpInv, ClientInv
    <3>6. QED
      BY <1>4, <3>1, <3>2, <3>3, <3>4, <3>5 DEF InitStep
  <2>5. Posted' <= MaxTask /\ accepted' \subseteq 1..Posted'
    BY <1>4, <2>1 DEF InitStep, MakeLoop, CreateEventfd, MakeClient, ArmServer, StartLoop
  <2>6. NoLostWakeup'
    BY <1>4 DEF InitStep, MakeLoop, CreateEventfd, MakeClient, ArmServer, StartLoop,
                NoLostWakeup, ClientInv, kernel
  <2>7. QED
    BY <2>2, <2>3, <2>4, <2>5, <2>6
<1>5. ASSUME Wake \/ CloseEvfd \/ LoopExit
      PROVE  IInv'
  <2> USE DEF senders
  <2>1. Posted' = Posted
    BY <1>5 DEF Wake, CloseEvfd, LoopExit, Posted
  <2>2. TypeOK'
    <3>1. CASE Wake
      BY <3>1 DEF Wake, TypeOK, LoopPc
    <3>2. CASE CloseEvfd
      BY <3>2 DEF CloseEvfd, TypeOK, LoopPc
    <3>3. CASE LoopExit
      BY <3>3 DEF LoopExit, TypeOK, LoopPc, kernel
    <3>4. QED
      BY <1>5, <3>1, <3>2, <3>3
  <2>3. MutexInv' /\ TmpInv' /\ ClientInv'
    BY <1>5, <2>1 DEF Wake, CloseEvfd, LoopExit, MutexInv, TmpInv, ClientInv
  <2>4. NoLostWakeup'
    BY <1>5 DEF Wake, CloseEvfd, LoopExit, NoLostWakeup, kernel
  <2>5. QED
    BY <1>5, <2>1, <2>2, <2>3, <2>4 DEF Wake, CloseEvfd, LoopExit
<1>6. CASE Swap
  <2>1. tmp_queue = <<>> /\ tmp_queue' = task_queue /\ task_queue' = <<>> /\ done' = done
    BY <1>6 DEF Swap, TmpInv, history
  <2>2. Posted' = Posted
    BY <1>0, <2>1, EmptySeq DEF Posted
  <2>3. TypeOK'
    BY <1>6, <2>1, EmptySeq DEF Swap, TypeOK, LoopPc, kernel, history
  <2>4. MutexInv' /\ TmpInv' /\ ClientInv'
    BY <1>6, <2>1, <2>2 DEF Swap, MutexInv, TmpInv, ClientInv, history
  <2>5. NoLostWakeup'
    BY <2>1, EmptySeq DEF NoLostWakeup
  <2>6. QED
    BY <1>6, <2>2, <2>3, <2>4, <2>5 DEF Swap, history
<1>7. ASSUME RunTask \/ ClearEvfd
      PROVE  IInv'
  <2> USE DEF senders
  <2>1. Pop /\ lpc \in {"work", "stop"}
    BY <1>7 DEF RunTask, ClearEvfd
  <2>2. /\ tmp_queue' \in Seq(Task)
        /\ done' \in Seq(Task)
        /\ Len(done') + Len(tmp_queue') = Len(done) + Len(tmp_queue)
        /\ lpc' \in {"wait", "work"}
        /\ lpc' = "work" <=> tmp_queue' # <<>>
    BY <2>1, PopFacts
  <2>3. /\ task_queue' = task_queue /\ accepted' = accepted /\ fdOpen' = fdOpen
        /\ counter' = counter /\ client' = client /\ pc' = pc /\ mtx' = mtx
    BY <1>7 DEF RunTask, ClearEvfd, kernel
  <2>4. Posted' = Posted
    BY <2>2, <2>3 DEF Posted
  <2>5. TypeOK'
    BY <1>7, <2>2, <2>3 DEF RunTask, ClearEvfd, TypeOK, LoopPc
  <2>6. MutexInv' /\ TmpInv' /\ ClientInv'
    BY <2>2, <2>3, <2>4 DEF MutexInv, TmpInv, ClientInv
  <2>7. NoLostWakeup'
    BY <2>1, <2>3 DEF NoLostWakeup
  <2>8. QED
    BY <2>3, <2>4, <2>5, <2>6, <2>7
<1>8. CASE UNCHANGED vars
  BY <1>8 DEF vars, kernel, history, TypeOK, Posted, MutexInv, TmpInv, ClientInv,
              NoLostWakeup
<1>9. QED
  BY <1>1, <1>2, <1>3, <1>4, <1>5, <1>6, <1>7, <1>8 DEF Next, Send, LoopStep

\* The strengthening holds of every behaviour of the task queue.
LEMMA Invariance == Spec => []IInv
<1>1. QED
  BY InitIInv, NextIInv, PTL DEF Spec

\* Type correctness of the state of loop_thread and of its callers.
THEOREM TypeCorrect == Spec => []TypeOK
<1>1. IInv => TypeOK
  BY DEF IInv
<1>2. QED
  BY <1>1, Invariance, PTL

\* No task that send2loop_thread accepted is stranded in the queue while the
\* eventfd is open and silent (loop_thread.cpp:199-213, loop_thread.hpp:43-54).
THEOREM WakeupNotLost == Spec => []NoLostWakeup
<1>1. IInv => NoLostWakeup
  BY DEF IInv
<1>2. QED
  BY <1>1, Invariance, PTL

-----------------------------------------------------------------------------

\* After a late send _evfd stays 0 and nobody is past its test.
LateInv ==
  /\ OneLateSend
  /\ late # {} => evfd = 0 /\ client /\ \A t \in Thread : pc[t] # "write"

LEMMA NextLateInv == IInv /\ LateInv /\ [Next]_vars => LateInv'
<1> SUFFICES ASSUME IInv, LateInv, [Next]_vars PROVE LateInv'
  OBVIOUS
<1>1. ASSUME NEW t \in Thread, NEW k \in Kind, Push(t, k)
      PROVE  LateInv'
  BY <1>1 DEF Push, LateInv, OneLateSend, IInv, TypeOK, history
<1>2. ASSUME NEW t \in Thread, CheckEvfd(t)
      PROVE  LateInv'
  BY <1>2 DEF CheckEvfd, LateInv, OneLateSend, IInv, TypeOK, history
<1>3. ASSUME NEW t \in Thread, Notify(t)
      PROVE  LateInv'
  <2>1. late = {} /\ \A u \in Thread \ {t} : pc[u] # "write"
    BY <1>3 DEF Notify, LateInv, IInv, MutexInv
  <2>2. CASE late' = late
    BY <1>3, <2>1, <2>2 DEF Notify, LateInv, OneLateSend
  <2>3. CASE late' # late
    <3>1. late' = {Posted} /\ evfd = 0 /\ client /\ pc' = [pc EXCEPT ![t] = "idle"]
      BY <1>3, <2>1, <2>3 DEF Notify
    <3>2. \A u \in Thread : pc'[u] # "write"
      BY <2>1, <3>1 DEF IInv, TypeOK
    <3>3. QED
      BY <1>3, <3>1, <3>2 DEF Notify, LateInv, OneLateSend
  <2>4. QED
    BY <2>2, <2>3
<1>4. ASSUME InitStep
      PROVE  LateInv'
  <2>1. late' = late /\ pc' = pc /\ (client => client')
    BY <1>4 DEF InitStep, MakeLoop, CreateEventfd, MakeClient, ArmServer, StartLoop, senders
  <2>2. client => evfd' = evfd
    BY <1>4 DEF InitStep, MakeLoop, CreateEventfd, MakeClient, ArmServer, StartLoop,
                IInv, ClientInv
  <2>3. QED
    BY <2>1, <2>2 DEF LateInv, OneLateSend
<1>5. ASSUME LoopStep \/ UNCHANGED vars
      PROVE  LateInv'
  <2>1. late' = late /\ pc' = pc /\ client' = client /\ evfd' \in {evfd, 0}
    BY <1>5 DEF LoopStep, Wake, Swap, RunTask, CloseEvfd, ClearEvfd, LoopExit, senders,
                history, vars
  <2>2. QED
    BY <2>1 DEF LateInv, OneLateSend
<1>6. QED
  BY <1>1, <1>2, <1>3, <1>4, <1>5 DEF Next, Send

\* At most one send outlives the closing of the eventfd, for any number of
\* threads (loop_thread.hpp:24-37 and 43-54).
THEOREM LateSendIsOne == Spec => []OneLateSend
<1>1. Init => LateInv
  BY DEF Init, LateInv, OneLateSend
<1>2. LateInv => OneLateSend
  BY DEF LateInv
<1>3. QED
  BY <1>1, <1>2, Invariance, NextLateInv, PTL DEF Spec

-----------------------------------------------------------------------------

\* One step of the task queue is a step of the mailbox or leaves it alone.
LEMMA StepImplements == IInv /\ IInv' /\ [Next]_vars => [Abstract!Next]_(Abstract!vars)
<1> SUFFICES ASSUME IInv, IInv', [Next]_vars
             PROVE  [Abstract!Next]_(Abstract!vars)
  OBVIOUS
<1> DEFINE box == tmp_queue \o task_queue
<1> USE DEF Abstract!vars
<1>0. tmp_queue \in Seq(Task) /\ task_queue \in Seq(Task) /\ done \in Seq(Task)
  BY DEF IInv, TypeOK
<1>1. ASSUME NEW t \in Thread, NEW k \in Kind, Push(t, k)
      PROVE  Abstract!Next
  <2> DEFINE new == [id |-> Posted + 1, kind |-> k]
  <2>1. Posted \in Nat
    BY <1>0, LenProperties DEF Posted
  <2>2. new \in Task
    BY <1>1, <2>1 DEF Push, Task
  <2>3. <<new>> \in Seq(Task)
    BY <2>2
  <2>4. task_queue' = task_queue \o <<new>>
    BY <1>0, <1>1, <2>2, AppendIsConcat DEF Push
  <2>5. box \in Seq(Task)
    BY <1>0, ConcatProperties
  <2>6. tmp_queue \o (task_queue \o <<new>>) = box \o <<new>>
    BY <1>0, <2>3, ConcatAssociative
  <2>7. tmp_queue \o task_queue' = Append(box, new)
    BY <2>2, <2>4, <2>5, <2>6, AppendIsConcat
  <2>8. QED
    BY <1>1, <2>2, <2>7 DEF Push, Abstract!Next, Abstract!Post, history
<1>2. ASSUME RunTask \/ ClearEvfd
      PROVE  Abstract!Next
  <2>1. Pop /\ lpc \in {"work", "stop"} /\ task_queue' = task_queue
    BY <1>2 DEF RunTask, ClearEvfd, senders
  <2>2. tmp_queue # <<>>
    BY <2>1 DEF IInv, TmpInv
  <2>3. /\ tmp_queue' = Tail(tmp_queue) /\ done' = Append(done, Head(tmp_queue))
    BY <2>1 DEF Pop
  <2>4. /\ Head(tmp_queue) \in Task /\ Tail(tmp_queue) \in Seq(Task)
        /\ tmp_queue = <<Head(tmp_queue)>> \o Tail(tmp_queue)
    BY <1>0, <2>2
  <2>5. box = <<Head(tmp_queue)>> \o (Tail(tmp_queue) \o task_queue)
    BY <1>0, <2>4, ConcatAssociative
  <2>6. box # <<>> /\ Head(box) = Head(tmp_queue) /\ Tail(box) = Tail(tmp_queue) \o task_queue
    BY <1>0, <2>2
  <2>7. QED
    BY <2>1, <2>3, <2>6 DEF Abstract!Next, Abstract!Run
<1>3. CASE Swap
  <2>1. tmp_queue = <<>>
    BY <1>3 DEF Swap, IInv, TmpInv
  <2>2. tmp_queue' \o task_queue' = box
    BY <1>0, <1>3, <2>1, ConcatEmptySeq DEF Swap
  <2>3. QED
    BY <1>3, <2>2 DEF Swap, history
<1>4. ASSUME NEW t \in Thread, Send(t)
      PROVE  UNCHANGED Abstract!vars
  BY <1>4 DEF Send, CheckEvfd, Notify, history
<1>5. CASE InitStep \/ Wake \/ CloseEvfd \/ LoopExit
  BY <1>5 DEF InitStep, MakeLoop, CreateEventfd, MakeClient, ArmServer, StartLoop, Wake,
              CloseEvfd, LoopExit, senders
<1>6. CASE UNCHANGED vars
  BY <1>6 DEF vars, history
<1>7. QED
  BY <1>1, <1>2, <1>3, <1>4, <1>5, <1>6 DEF Next, LoopStep

\* The queue implements the mailbox: what was posted is run in that order, each
\* task once (loop_thread.hpp:43-54, loop_thread.cpp:5-137).
THEOREM MailboxImplemented == Spec => ImplementsMailbox
<1>1. Init => Abstract!Init
  <2> SUFFICES ASSUME Init PROVE Abstract!Init
    OBVIOUS
  <2>1. tmp_queue \o task_queue = <<>>
    BY EmptySeq, ConcatEmptySeq DEF Init
  <2>2. QED
    BY <2>1 DEF Init, Abstract!Init
<1>2. QED
  BY <1>1, StepImplements, Invariance, PTL DEF Spec, ImplementsMailbox, Abstract!Spec
=============================================================================
