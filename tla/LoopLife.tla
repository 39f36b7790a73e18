------------------------------ MODULE LoopLife ------------------------------
(***************************************************************************)
(* The life of one Loop (loop.hpp, loop.cpp): threads call start, wait and *)
(* stop on it, and its destructor runs when the last of them lets go.      *)
(*                                                                         *)
(* _status is atomic and _thread_sptr is not; neither is protected by a    *)
(* lock, so the test at the top of start, wait and stop is a step of its   *)
(* own.  What libevent does with the event_base is external: a loopexit    *)
(* leaves a one-shot event that survives until a loop runs it, a loopbreak *)
(* only sets a flag that event_base_loop clears when it is entered, and a  *)
(* second event_base_loop on a base that is looping returns at once.       *)
(***************************************************************************)
EXTENDS Integers, FiniteSets

CONSTANTS
  Caller,     \* threads that hold the Loop
  Starter,    \* those that call start
  Waiter,     \* those that call wait
  MaxStart    \* bound on the calls of start

ASSUME LoopLifeAssumption ==
  /\ Starter \subseteq Caller
  /\ Waiter \subseteq Caller
  /\ MaxStart \in Nat
  /\ Caller \cap Int = {}

VARIABLES
  pc,         \* where each caller is, see CallerPc
  mine,       \* the thread it creates in start
  rpc,        \* where each runner is in _run, see RunnerPc
  status,     \* Loop::_status
  thread,     \* the thread in _thread_sptr, 0 if none
  joined,     \* the threads that were joined
  starts,     \* calls of start so far
  exitEvent,  \* the one-shot event of event_base_loopexit is active
  break,      \* event_base::event_break
  events,     \* the application has events registered
  life,       \* the object is alive, destroyed, or std::terminate was called
  asked       \* history: a stop(true) has reached event_base_loopexit

vars == <<pc, mine, rpc, status, thread, joined, starts, exitEvent, break, events, life, asked>>

\* start(true) creates thread number `starts`; start(false) runs on its caller.
Thread == 1..MaxStart
Runner == Thread \cup Caller

CallerPc == {"idle", "spawn", "assign", "run", "join", "exit", "break"}
RunnerPc == {"none", "status", "enter", "loop", "finish", "done"}
Status == {"init", "running", "finished"}

Init ==
  /\ pc = [c \in Caller |-> "idle"]
  /\ mine = [c \in Caller |-> 0]
  /\ rpc = [r \in Runner |-> "none"]
  /\ status = "init"
  /\ thread = 0
  /\ joined = {}
  /\ starts = 0
  /\ exitEvent = FALSE
  /\ break = FALSE
  /\ events \in BOOLEAN
  /\ life = "alive"
  /\ asked = FALSE

base == <<exitEvent, break, events>>

\* A caller of a live object that is in no call.
Calls(c) == life = "alive" /\ pc[c] = "idle"

Joinable == thread # 0 /\ thread \notin joined

-----------------------------------------------------------------------------
(* start                                                                   *)

\* The test of _status, and onBeforeStart, which nothing overrides.
StartTest(c, newThread) ==
  /\ Calls(c)
  /\ c \in Starter
  /\ starts < MaxStart
  /\ starts' = starts + 1
  /\ IF status # "init" THEN UNCHANGED <<pc, mine, rpc>>
     ELSE IF newThread
     THEN /\ pc' = [pc EXCEPT ![c] = "spawn"]
          /\ mine' = [mine EXCEPT ![c] = starts']
          /\ UNCHANGED rpc
     ELSE /\ pc' = [pc EXCEPT ![c] = "run"]
          /\ rpc' = [rpc EXCEPT ![c] = "status"]
          /\ UNCHANGED mine
  /\ UNCHANGED <<status, thread, joined, base, life, asked>>

\* std::make_shared<std::thread>: the thread exists before _thread_sptr does.
Spawn(c) ==
  /\ life = "alive"
  /\ pc[c] = "spawn"
  /\ pc' = [pc EXCEPT ![c] = "assign"]
  /\ rpc' = [rpc EXCEPT ![mine[c]] = "status"]
  /\ UNCHANGED <<mine, status, thread, joined, starts, base, life, asked>>

\* The assignment destroys the std::thread it replaces, which terminates the
\* program if that one is joinable.
Assign(c) ==
  /\ life = "alive"
  /\ pc[c] = "assign"
  /\ IF Joinable
     THEN life' = "terminated" /\ UNCHANGED <<pc, thread>>
     ELSE /\ thread' = mine[c]
          /\ pc' = [pc EXCEPT ![c] = "idle"]
          /\ UNCHANGED life
  /\ UNCHANGED <<mine, rpc, status, joined, starts, base, asked>>

-----------------------------------------------------------------------------
(* _run, on a new thread or on the caller of start(false).                 *)

\* Mutant: a status that wait and stop do not know.
SetStarting(r) ==
  /\ life = "alive"
  /\ rpc[r] = "status"
  /\ status' = "starting"
  /\ rpc' = [rpc EXCEPT ![r] = "enter"]
  /\ UNCHANGED <<mine, pc, thread, joined, starts, base, life, asked>>

SetRunning(r) ==
  /\ life = "alive"
  /\ rpc[r] = "status"
  /\ status' = "running"
  /\ rpc' = [rpc EXCEPT ![r] = "enter"]
  /\ UNCHANGED <<mine, pc, thread, joined, starts, base, life, asked>>

\* event_base_loop is entered, or refuses because the base already loops.
EnterLoop(r) ==
  /\ life = "alive"
  /\ rpc[r] = "enter"
  /\ IF \E q \in Runner : rpc[q] = "loop"
     THEN rpc' = [rpc EXCEPT ![r] = "finish"] /\ UNCHANGED break
     ELSE rpc' = [rpc EXCEPT ![r] = "loop"] /\ break' = FALSE
  /\ UNCHANGED <<mine, pc, status, thread, joined, starts, exitEvent, events, life, asked>>

\* event_base_loop returns: told to, or because no event is registered.
LeaveLoop(r) ==
  /\ life = "alive"
  /\ rpc[r] = "loop"
  /\ \/ exitEvent /\ exitEvent' = FALSE
     \/ break /\ UNCHANGED exitEvent
     \/ ~events /\ ~exitEvent /\ UNCHANGED exitEvent
  /\ rpc' = [rpc EXCEPT ![r] = "finish"]
  /\ UNCHANGED <<mine, pc, status, thread, joined, starts, break, events, life, asked>>

\* Mutant: StatusFinished is set before event_base_loop is called.
SetFinishedEarly(r) ==
  /\ life = "alive"
  /\ rpc[r] \in {"enter", "finish"}
  /\ status' = "finished"
  /\ IF rpc[r] = "finish" THEN rpc' = [rpc EXCEPT ![r] = IF r \in Thread THEN "done" ELSE "none"]
     ELSE UNCHANGED rpc
  /\ pc' = IF r \in Caller /\ rpc[r] = "finish" THEN [pc EXCEPT ![r] = "idle"] ELSE pc
  /\ UNCHANGED <<mine, thread, joined, starts, base, life, asked>>

SetFinished(r) ==
  /\ life = "alive"
  /\ rpc[r] = "finish"
  /\ status' = "finished"
  /\ rpc' = [rpc EXCEPT ![r] = IF r \in Thread THEN "done" ELSE "none"]
  /\ pc' = IF r \in Caller THEN [pc EXCEPT ![r] = "idle"] ELSE pc
  /\ UNCHANGED <<mine, thread, joined, starts, base, life, asked>>

-----------------------------------------------------------------------------
(* wait, stop and the destructor.                                          *)

\* wait goes on to join a thread only while the loop has not finished.
WaitTest(c) ==
  /\ Calls(c)
  /\ c \in Waiter
  /\ thread # 0 /\ status # "finished"
  /\ pc' = [pc EXCEPT ![c] = "join"]
  /\ UNCHANGED <<mine, rpc, status, thread, joined, starts, base, life, asked>>

\* Mutant: the thread is detached, so wait waits for nothing.
Detach(c) ==
  /\ life = "alive"
  /\ pc[c] = "join"
  /\ joined' = joined \cup {thread}
  /\ pc' = [pc EXCEPT ![c] = "idle"]
  /\ UNCHANGED <<mine, rpc, status, thread, starts, base, life, asked>>

\* join() throws if another thread has joined it meanwhile.
Join(c) ==
  /\ life = "alive"
  /\ pc[c] = "join"
  /\ \/ /\ ~Joinable
        /\ life' = "terminated"
        /\ UNCHANGED <<pc, joined>>
     \/ /\ Joinable
        /\ rpc[thread] = "done"
        /\ joined' = joined \cup {thread}
        /\ pc' = [pc EXCEPT ![c] = "idle"]
        /\ UNCHANGED life
  /\ UNCHANGED <<mine, rpc, status, thread, starts, base, asked>>

\* stop(waiting), unless _status is StatusFinished.
StopTest(c, waiting) ==
  /\ Calls(c)
  /\ status # "finished"
  /\ pc' = [pc EXCEPT ![c] = IF waiting THEN "exit" ELSE "break"]
  /\ UNCHANGED <<mine, rpc, status, thread, joined, starts, base, life, asked>>

\* Mutant: the two calls are swapped.
StopSignalSwapped(c) ==
  /\ life = "alive"
  /\ pc[c] \in {"exit", "break"}
  /\ exitEvent' = (exitEvent \/ pc[c] = "break")
  /\ break' = (break \/ pc[c] = "exit")
  /\ asked' = (asked \/ pc[c] = "exit")
  /\ pc' = [pc EXCEPT ![c] = "idle"]
  /\ UNCHANGED <<mine, rpc, status, thread, joined, starts, events, life>>

\* waiting ? event_base_loopexit : event_base_loopbreak
StopSignal(c) ==
  /\ life = "alive"
  /\ pc[c] \in {"exit", "break"}
  /\ exitEvent' = (exitEvent \/ pc[c] = "exit")
  /\ break' = (break \/ pc[c] = "break")
  /\ asked' = (asked \/ pc[c] = "exit")
  /\ pc' = [pc EXCEPT ![c] = "idle"]
  /\ UNCHANGED <<mine, rpc, status, thread, joined, starts, events, life>>

\* Mutant: the event_base is freed before the thread is looked at.
DestroyBaseFirst ==
  /\ \A c \in Caller : Calls(c)
  /\ life' = "destroyed"
  /\ exitEvent' = (exitEvent \/ status # "finished")
  /\ UNCHANGED <<mine, pc, rpc, status, thread, joined, starts, break, events, asked>>

\* ~Loop, when no caller is left: stop(), then the members in reverse order,
\* the thread before the event_base.
Destroy ==
  /\ \A c \in Caller : Calls(c)
  /\ life' = IF Joinable THEN "terminated" ELSE "destroyed"
  /\ exitEvent' = (exitEvent \/ status # "finished")
  /\ UNCHANGED <<mine, pc, rpc, status, thread, joined, starts, break, events, asked>>

-----------------------------------------------------------------------------
Call(c) ==
  \/ \E newThread \in BOOLEAN : StartTest(c, newThread)
  \/ WaitTest(c)
  \/ \E waiting \in BOOLEAN : StopTest(c, waiting)

CallStep(c) == Spawn(c) \/ Assign(c) \/ Join(c) \/ StopSignal(c)

RunStep(r) == SetRunning(r) \/ EnterLoop(r) \/ LeaveLoop(r) \/ SetFinished(r)

Next ==
  \/ \E c \in Caller : Call(c) \/ CallStep(c)
  \/ \E r \in Runner : RunStep(r)
  \/ Destroy

Spec == Init /\ [][Next]_vars

\* A call that was entered goes on, and so does a running loop; nobody has to
\* call anything.
Fairness ==
  /\ \A c \in Caller : WF_vars(CallStep(c))
  /\ \A r \in Runner : WF_vars(RunStep(r))

FairSpec == Spec /\ Fairness

-----------------------------------------------------------------------------
(* Properties.                                                             *)

TypeOK ==
  /\ pc \in [Caller -> CallerPc]
  /\ mine \in [Caller -> 0..MaxStart]
  /\ rpc \in [Runner -> RunnerPc]
  /\ status \in Status
  /\ thread \in 0..MaxStart
  /\ joined \in SUBSET Thread
  /\ starts \in 0..MaxStart
  /\ exitEvent \in BOOLEAN
  /\ break \in BOOLEAN
  /\ events \in BOOLEAN
  /\ life \in {"alive", "destroyed", "terminated"}
  /\ asked \in BOOLEAN

\* StatusFinished means that nobody runs the loop or is about to: stop returns
\* early on it and wait does not join (loop.cpp:59 and 68 against 81-85).
FinishedIsOver ==
  status = "finished" => \A r \in Runner : rpc[r] \notin {"status", "enter", "loop"}

\* The event_base is freed only when no thread uses it: ~Loop does not wait,
\* but a thread that was not joined ends the program first (loop.cpp:12-15,
\* loop.hpp:78-81).
FreedIdle == life = "destroyed" => \A r \in Runner : rpc[r] \in {"none", "done"}

\* A wait that joined leaves a finished loop: nothing sets _status after the
\* thread in _thread_sptr has ended (loop.cpp:57-63 and 78-87).
JoinedIsFinished == thread \in joined => status = "finished"

\* A stop(true) is never lost: the loop ends even if the call comes before
\* event_base_loop is entered (loop.cpp:65-75; loop.hpp:59 "if run with new
\* thread, will stop the new thread").
StopEndsLoop ==
  (asked /\ \E r \in Runner : rpc[r] # "none") ~> (status = "finished" \/ life # "alive")
=============================================================================
