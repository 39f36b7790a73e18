--------------------------- MODULE LoopLifeProofs ---------------------------
(***************************************************************************)
(* Theorems about LoopLife, for any set of threads and any number of       *)
(* starts: the type is right; and if no start races with the first, that   *)
(* is, once start was called it is called again only after the new loop    *)
(* has set _status, StatusFinished means over, the event_base is not freed *)
(* under a running loop, and a wait that joined leaves a finished loop.    *)
(* Without that hypothesis the first of these is false: two starts that    *)
(* both find StatusInit both run (the run LoopLife_twoStarts).             *)
(***************************************************************************)
EXTENDS LoopLife, TLAPS

USE LoopLifeAssumption

\* A start after the first finds that _run has set _status (loop.cpp:33 and 81).
StartsApart == starts' # starts /\ starts # 0 => status # "init"

ApartSpec == Spec /\ [][StartsApart]_vars

\* A thread that start creates is among those counted.
MineInv == \A c \in Caller : pc[c] \in {"spawn", "assign"} => mine[c] \in Thread

Starting == {"spawn", "assign", "run"}

\* Nothing has happened before the first start.
FreshInv ==
  starts = 0 => /\ \A c \in Caller : pc[c] \notin Starting
                /\ \A r \in Runner : rpc[r] = "none"
                /\ status = "init" /\ thread = 0

\* Only one caller is in start; until it has assigned its thread there is no
\* other, and until it has created it nothing has run.
OneStartInv ==
  /\ \A c, d \in Caller : pc[c] \in Starting /\ pc[d] \in Starting => c = d
  /\ \A c \in Caller :
       /\ pc[c] \in {"spawn", "assign"} => thread = 0
       /\ pc[c] = "spawn" => status = "init" /\ \A r \in Runner : rpc[r] = "none"

\* Only one runner there ever is, and _status says where it is.
OneRunInv ==
  /\ \A r, q \in Runner : rpc[r] # "none" /\ rpc[q] # "none" => r = q
  /\ \A r \in Runner :
       /\ rpc[r] = "status" => status = "init"
       /\ rpc[r] \in {"enter", "loop", "finish"} => status = "running"
       /\ rpc[r] = "done" => status = "finished"

\* Every runner is known: to the caller it runs on, to _thread_sptr, or to the
\* caller that is about to set that.
KnownInv ==
  /\ \A c \in Caller : rpc[c] # "none" => pc[c] = "run"
  /\ \A t \in Thread :
       rpc[t] # "none" => \/ thread = t
                          \/ \E c \in Caller : pc[c] = "assign" /\ mine[c] = t

\* Only threads that have ended were joined.
JoinedInv == \A t \in joined : t \in Thread /\ rpc[t] = "done"

IInv ==
  /\ TypeOK
  /\ MineInv
  /\ FreshInv
  /\ OneStartInv
  /\ OneRunInv
  /\ KnownInv
  /\ JoinedInv
  /\ FreedIdle

-----------------------------------------------------------------------------
\* Types, for any number of starts.

LEMMA TypeInit == ASSUME Init PROVE TypeOK /\ MineInv
<1> USE DEF Init
<1>1. pc \in [Caller -> CallerPc] /\ mine \in [Caller -> 0..MaxStart]
  BY DEF CallerPc
<1>2. rpc \in [Runner -> RunnerPc] /\ status \in Status
  BY DEF RunnerPc, Status
<1>3. thread \in 0..MaxStart /\ joined \in SUBSET Thread /\ starts \in 0..MaxStart
  OBVIOUS
<1>4. exitEvent \in BOOLEAN /\ break \in BOOLEAN /\ events \in BOOLEAN /\ asked \in BOOLEAN
  OBVIOUS
<1>5. QED
  BY <1>1, <1>2, <1>3, <1>4 DEF TypeOK, MineInv

LEMMA TypeStep ==
  ASSUME TypeOK, MineInv, [Next]_vars
  PROVE  TypeOK' /\ MineInv'
<1> USE DEF TypeOK, MineInv, CallerPc, RunnerPc, Status, Runner, Thread, base, Calls
<1>1. ASSUME NEW c \in Caller, NEW newThread \in BOOLEAN, StartTest(c, newThread)
      PROVE  TypeOK' /\ MineInv'
  <2>1. starts + 1 \in Thread
    BY <1>1 DEF StartTest
  <2>2. starts' \in 0..MaxStart /\ starts' \in Thread
    BY <1>1, <2>1 DEF StartTest
  <2>3. pc' \in [Caller -> CallerPc] /\ rpc' \in [Runner -> RunnerPc]
    BY <1>1 DEF StartTest
  <2>4. mine' \in [Caller -> 0..MaxStart] /\ MineInv'
    BY <1>1, <2>2 DEF StartTest
  <2>5. QED
    BY <1>1, <2>2, <2>3, <2>4 DEF StartTest
<1>2. ASSUME NEW c \in Caller, Spawn(c)
      PROVE  TypeOK' /\ MineInv'
  BY <1>2 DEF Spawn
<1>3. ASSUME NEW c \in Caller, Assign(c)
      PROVE  TypeOK' /\ MineInv'
  BY <1>3 DEF Assign, Joinable
<1>4. ASSUME NEW r \in Runner, SetRunning(r)
      PROVE  TypeOK' /\ MineInv'
  BY <1>4 DEF SetRunning
<1>5. ASSUME NEW r \in Runner, EnterLoop(r)
      PROVE  TypeOK' /\ MineInv'
  BY <1>5 DEF EnterLoop
<1>6. ASSUME NEW r \in Runner, LeaveLoop(r)
      PROVE  TypeOK' /\ MineInv'
  BY <1>6 DEF LeaveLoop
<1>7. ASSUME NEW r \in Runner, SetFinished(r)
      PROVE  TypeOK' /\ MineInv'
  BY <1>7 DEF SetFinished
<1>8. ASSUME NEW c \in Caller, WaitTest(c)
      PROVE  TypeOK' /\ MineInv'
  BY <1>8 DEF WaitTest
<1>9. ASSUME NEW c \in Caller, Join(c)
      PROVE  TypeOK' /\ MineInv'
  <2>1. joined' \in SUBSET Thread
    <3>1. Joinable => thread \in Thread
      BY DEF Joinable
    <3>2. joined' = joined \/ (Joinable /\ joined' = joined \cup {thread})
      BY <1>9 DEF Join
    <3>3. QED
      BY <3>1, <3>2
  <2>2. pc' \in [Caller -> CallerPc] /\ life' \in {"alive", "destroyed", "terminated"}
    BY <1>9 DEF Join
  <2>3. MineInv'
    BY <1>9 DEF Join
  <2>4. QED
    BY <1>9, <2>1, <2>2, <2>3 DEF Join
<1>10. ASSUME NEW c \in Caller, NEW waiting \in BOOLEAN, StopTest(c, waiting)
       PROVE  TypeOK' /\ MineInv'
  BY <1>10 DEF StopTest
<1>11. ASSUME NEW c \in Caller, StopSignal(c)
       PROVE  TypeOK' /\ MineInv'
  BY <1>11 DEF StopSignal
<1>12. ASSUME Destroy
       PROVE  TypeOK' /\ MineInv'
  BY <1>12 DEF Destroy, Joinable
<1>13. ASSUME UNCHANGED vars
       PROVE  TypeOK' /\ MineInv'
  BY <1>13 DEF vars
<1>14. QED
  BY <1>1, <1>2, <1>3, <1>4, <1>5, <1>6, <1>7, <1>8, <1>9, <1>10, <1>11, <1>12, <1>13
  DEF Next, Call, CallStep, RunStep

\* Every variable of the Loop, its callers and its runners keeps its type, for
\* any number of starts, stops and waits by any threads (loop.cpp:5-87).
THEOREM TypeCorrect == Spec => []TypeOK
<1>1. Spec => [](TypeOK /\ MineInv)
  BY TypeInit, TypeStep, PTL DEF Spec
<1>2. QED
  BY <1>1, PTL

-----------------------------------------------------------------------------
\* With starts that do not race.

\* The first start finds nothing that has happened.
LEMMA FirstStart ==
  ASSUME TypeOK, FreshInv, starts = 0, NEW c \in Caller, NEW newThread \in BOOLEAN,
         StartTest(c, newThread)
  PROVE  /\ starts' = 1
         /\ \A d \in Caller : pc[d] \notin Starting
         /\ \A r \in Runner : rpc[r] = "none"
         /\ status = "init" /\ thread = 0
BY DEF StartTest, FreshInv, TypeOK

\* Every later one does nothing.
LEMMA LaterStart ==
  ASSUME TypeOK, starts # 0, StartsApart, NEW c \in Caller, NEW newThread \in BOOLEAN,
         StartTest(c, newThread)
  PROVE  starts' # 0 /\ UNCHANGED <<pc, mine, rpc, status, thread, joined, life>>
<1>1. starts \in Nat /\ starts' = starts + 1
  BY DEF TypeOK, StartTest
<1>2. status # "init"
  BY <1>1 DEF StartsApart
<1>3. QED
  BY <1>1, <1>2 DEF StartTest

LEMMA InvInit == ASSUME Init PROVE IInv
<1>1. TypeOK /\ MineInv
  BY TypeInit
<1>2. FreshInv /\ OneStartInv /\ OneRunInv
  BY DEF Init, FreshInv, OneStartInv, OneRunInv, Starting
<1>3. KnownInv /\ JoinedInv /\ FreedIdle
  BY DEF Init, KnownInv, JoinedInv, FreedIdle, Runner
<1>4. QED
  BY <1>1, <1>2, <1>3 DEF IInv

LEMMA InvStep ==
  ASSUME IInv, [Next]_vars, [StartsApart]_vars
  PROVE  IInv'
<1>0. TypeOK' /\ MineInv'
  BY TypeStep DEF IInv
<1> USE DEF IInv
<1> DEFINE Rest == FreshInv /\ OneStartInv /\ OneRunInv /\ KnownInv /\ JoinedInv /\ FreedIdle
<1>1. ASSUME NEW c \in Caller, NEW newThread \in BOOLEAN, StartTest(c, newThread)
      PROVE  Rest'
  <2>1. CASE starts = 0
    <3>0. /\ starts' = 1
          /\ \A d \in Caller : pc[d] \notin Starting
          /\ \A r \in Runner : rpc[r] = "none"
          /\ status = "init" /\ thread = 0
      BY <1>1, <2>1, FirstStart
    <3>1. FreshInv'
      BY <3>0 DEF FreshInv
    <3>2. OneStartInv'
      BY <1>1, <3>0 DEF StartTest, TypeOK, OneStartInv, Runner, Thread
    <3>3. OneRunInv'
      BY <1>1, <3>0 DEF StartTest, TypeOK, OneRunInv
    <3>4. KnownInv'
      <4>1. CASE newThread
        BY <1>1, <3>0, <4>1 DEF StartTest, KnownInv, Runner
      <4>2. CASE ~newThread
        <5>1. pc' = [pc EXCEPT ![c] = "run"] /\ rpc' = [rpc EXCEPT ![c] = "status"]
          BY <1>1, <3>0, <4>2 DEF StartTest
        <5>2. \A d \in Caller : rpc'[d] # "none" => pc'[d] = "run"
          BY <3>0, <5>1 DEF TypeOK, Runner
        <5>3. \A t \in Thread : rpc'[t] = "none"
          BY <3>0, <5>1 DEF Runner, Thread
        <5>4. QED
          BY <5>2, <5>3 DEF KnownInv
      <4>3. QED
        BY <4>1, <4>2
    <3>5. JoinedInv'
      BY <1>1, <3>0 DEF StartTest, JoinedInv, Runner
    <3>6. FreedIdle'
      BY <1>1 DEF StartTest, FreedIdle, Calls
    <3>7. QED
      BY <3>1, <3>2, <3>3, <3>4, <3>5, <3>6
  <2>2. CASE starts # 0
    <3>1. StartsApart
      <4>1. starts' # starts
        BY <1>1 DEF StartTest, TypeOK
      <4>2. QED
        BY <4>1 DEF vars
    <3>2. starts' # 0 /\ UNCHANGED <<pc, mine, rpc, status, thread, joined, life>>
      BY <1>1, <2>2, <3>1, LaterStart
    <3>3. QED
      BY <3>2 DEF FreshInv, OneStartInv, OneRunInv, KnownInv, JoinedInv, FreedIdle
  <2>3. QED
    BY <2>1, <2>2
<1>2. ASSUME NEW c \in Caller, Spawn(c)
      PROVE  Rest'
  <2>1. FreshInv'
    BY <1>2 DEF Spawn, FreshInv, Starting
  <2>2. OneStartInv'
    BY <1>2 DEF Spawn, TypeOK, OneStartInv, Starting
  <2>3. OneRunInv'
    BY <1>2 DEF Spawn, OneStartInv, OneRunInv
  <2>4. KnownInv'
    BY <1>2 DEF Spawn, TypeOK, KnownInv
  <2>5. JoinedInv'
    BY <1>2 DEF Spawn, OneStartInv, JoinedInv, Runner
  <2>6. FreedIdle'
    BY <1>2 DEF Spawn, FreedIdle
  <2>7. QED
    BY <2>1, <2>2, <2>3, <2>4, <2>5, <2>6
<1>3. ASSUME NEW c \in Caller, Assign(c)
      PROVE  Rest'
  <2>1. FreshInv'
    BY <1>3 DEF Assign, FreshInv, Starting
  <2>2. OneStartInv'
    BY <1>3 DEF Assign, TypeOK, OneStartInv, Starting
  <2>3. OneRunInv'
    BY <1>3 DEF Assign, OneRunInv
  <2>4. KnownInv'
    <3>1. /\ \A d \in Caller : pc[d] = "assign" => d = c
          /\ pc[c] = "assign" /\ thread = 0 /\ ~Joinable
      BY <1>3 DEF Assign, OneStartInv, Starting, Joinable
    <3>2. thread' = mine[c] /\ pc' = [pc EXCEPT ![c] = "idle"] /\ UNCHANGED <<rpc, mine>>
      BY <1>3, <3>1 DEF Assign
    <3>3. \A d \in Caller : rpc'[d] # "none" => pc'[d] = "run"
      BY <3>1, <3>2 DEF KnownInv, TypeOK
    <3>4. ASSUME NEW t \in Thread, rpc'[t] # "none" PROVE thread' = t
      BY <3>1, <3>2, <3>4 DEF KnownInv, Thread
    <3>5. QED
      BY <3>3, <3>4 DEF KnownInv
  <2>5. JoinedInv'
    BY <1>3 DEF Assign, JoinedInv
  <2>6. FreedIdle'
    BY <1>3 DEF Assign, FreedIdle
  <2>7. QED
    BY <2>1, <2>2, <2>3, <2>4, <2>5, <2>6
<1>4. ASSUME NEW r \in Runner, SetRunning(r)
      PROVE  Rest'
  <2>1. FreshInv'
    BY <1>4 DEF SetRunning, FreshInv
  <2>2. OneStartInv'
    BY <1>4 DEF SetRunning, OneStartInv
  <2>3. OneRunInv'
    BY <1>4 DEF SetRunning, TypeOK, OneRunInv
  <2>4. KnownInv'
    BY <1>4 DEF SetRunning, KnownInv
  <2>5. JoinedInv'
    BY <1>4 DEF SetRunning, JoinedInv
  <2>6. FreedIdle'
    BY <1>4 DEF SetRunning, FreedIdle
  <2>7. QED
    BY <2>1, <2>2, <2>3, <2>4, <2>5, <2>6
<1>5. ASSUME NEW r \in Runner, EnterLoop(r)
      PROVE  Rest'
  <2>1. FreshInv'
    BY <1>5 DEF EnterLoop, FreshInv
  <2>2. OneStartInv'
    BY <1>5 DEF EnterLoop, OneStartInv
  <2>3. OneRunInv'
    BY <1>5 DEF EnterLoop, TypeOK, OneRunInv
  <2>4. KnownInv'
    <3>1. \A q \in Runner : rpc'[q] # "none" => rpc[q] # "none"
      BY <1>5 DEF EnterLoop, TypeOK
    <3>2. UNCHANGED <<pc, mine, thread>>
      BY <1>5 DEF EnterLoop
    <3>3. QED
      BY <3>1, <3>2 DEF KnownInv, Runner
  <2>5. JoinedInv'
    BY <1>5 DEF EnterLoop, TypeOK, JoinedInv, Runner, Thread
  <2>6. FreedIdle'
    BY <1>5 DEF EnterLoop, FreedIdle
  <2>7. QED
    BY <2>1, <2>2, <2>3, <2>4, <2>5, <2>6
<1>6. ASSUME NEW r \in Runner, LeaveLoop(r)
      PROVE  Rest'
  <2>1. FreshInv'
    BY <1>6 DEF LeaveLoop, FreshInv
  <2>2. OneStartInv'
    BY <1>6 DEF LeaveLoop, OneStartInv
  <2>3. OneRunInv'
    BY <1>6 DEF LeaveLoop, OneRunInv
  <2>4. KnownInv'
    BY <1>6 DEF LeaveLoop, KnownInv
  <2>5. JoinedInv'
    BY <1>6 DEF LeaveLoop, JoinedInv
  <2>6. FreedIdle'
    BY <1>6 DEF LeaveLoop, FreedIdle
  <2>7. QED
    BY <2>1, <2>2, <2>3, <2>4, <2>5, <2>6
<1>7. ASSUME NEW r \in Runner, SetFinished(r)
      PROVE  Rest'
  <2>1. FreshInv'
    BY <1>7 DEF SetFinished, FreshInv
  <2>2. OneStartInv'
    BY <1>7 DEF SetFinished, OneStartInv, Runner, Thread
  <2>3. OneRunInv'
    BY <1>7 DEF SetFinished, TypeOK, OneRunInv
  <2>4. KnownInv'
    BY <1>7 DEF SetFinished, KnownInv, Runner, Thread
  <2>5. JoinedInv'
    BY <1>7 DEF SetFinished, JoinedInv
  <2>6. FreedIdle'
    BY <1>7 DEF SetFinished, FreedIdle
  <2>7. QED
    BY <2>1, <2>2, <2>3, <2>4, <2>5, <2>6
<1>8. ASSUME NEW c \in Caller, WaitTest(c)
      PROVE  Rest'
  <2>1. FreshInv'
    BY <1>8 DEF WaitTest, FreshInv, Starting
  <2>2. OneStartInv'
    BY <1>8 DEF WaitTest, OneStartInv, Starting
  <2>3. OneRunInv'
    BY <1>8 DEF WaitTest, OneRunInv
  <2>4. KnownInv'
    BY <1>8 DEF WaitTest, KnownInv, Calls
  <2>5. JoinedInv'
    BY <1>8 DEF WaitTest, JoinedInv
  <2>6. FreedIdle'
    BY <1>8 DEF WaitTest, FreedIdle
  <2>7. QED
    BY <2>1, <2>2, <2>3, <2>4, <2>5, <2>6
<1>9. ASSUME NEW c \in Caller, Join(c)
      PROVE  Rest'
  <2>1. FreshInv'
    BY <1>9, <1>0 DEF Join, TypeOK, FreshInv, Runner
  <2>2. OneStartInv'
    BY <1>9 DEF Join, TypeOK, OneStartInv, Starting
  <2>3. OneRunInv'
    BY <1>9 DEF Join, OneRunInv
  <2>4. KnownInv'
    BY <1>9 DEF Join, TypeOK, KnownInv
  <2>5. JoinedInv'
    BY <1>9, <1>0 DEF Join, TypeOK, JoinedInv
  <2>6. FreedIdle'
    BY <1>9 DEF Join, FreedIdle
  <2>7. QED
    BY <2>1, <2>2, <2>3, <2>4, <2>5, <2>6
<1>10. ASSUME NEW c \in Caller, NEW waiting \in BOOLEAN, StopTest(c, waiting)
      PROVE  Rest'
  <2>1. FreshInv'
    BY <1>10 DEF StopTest, FreshInv, Starting
  <2>2. OneStartInv'
    BY <1>10 DEF StopTest, OneStartInv, Starting
  <2>3. OneRunInv'
    BY <1>10 DEF StopTest, OneRunInv
  <2>4. KnownInv'
    BY <1>10 DEF StopTest, KnownInv, Calls
  <2>5. JoinedInv'
    BY <1>10 DEF StopTest, JoinedInv
  <2>6. FreedIdle'
    BY <1>10 DEF StopTest, FreedIdle
  <2>7. QED
    BY <2>1, <2>2, <2>3, <2>4, <2>5, <2>6
<1>11. ASSUME NEW c \in Caller, StopSignal(c)
      PROVE  Rest'
  <2>1. FreshInv'
    BY <1>11 DEF StopSignal, FreshInv, Starting
  <2>2. OneStartInv'
    BY <1>11 DEF StopSignal, OneStartInv, Starting
  <2>3. OneRunInv'
    BY <1>11 DEF StopSignal, OneRunInv
  <2>4. KnownInv'
    BY <1>11 DEF StopSignal, KnownInv
  <2>5. JoinedInv'
    BY <1>11 DEF StopSignal, JoinedInv
  <2>6. FreedIdle'
    BY <1>11 DEF StopSignal, FreedIdle
  <2>7. QED
    BY <2>1, <2>2, <2>3, <2>4, <2>5, <2>6
<1>12. ASSUME Destroy
      PROVE  Rest'
  <2>1. FreshInv'
    BY <1>12 DEF Destroy, FreshInv
  <2>2. OneStartInv'
    BY <1>12 DEF Destroy, OneStartInv
  <2>3. OneRunInv'
    BY <1>12 DEF Destroy, OneRunInv
  <2>4. KnownInv'
    BY <1>12 DEF Destroy, KnownInv
  <2>5. JoinedInv'
    BY <1>12 DEF Destroy, JoinedInv
  <2>6. FreedIdle'
    BY <1>12 DEF Destroy, KnownInv, JoinedInv, FreedIdle, Runner, Thread, Calls,
       Joinable
  <2>7. QED
    BY <2>1, <2>2, <2>3, <2>4, <2>5, <2>6
<1>13. ASSUME UNCHANGED vars
      PROVE  Rest'
  <2>1. FreshInv'
    BY <1>13 DEF vars, FreshInv
  <2>2. OneStartInv'
    BY <1>13 DEF vars, OneStartInv
  <2>3. OneRunInv'
    BY <1>13 DEF vars, OneRunInv
  <2>4. KnownInv'
    BY <1>13 DEF vars, KnownInv
  <2>5. JoinedInv'
    BY <1>13 DEF vars, JoinedInv
  <2>6. FreedIdle'
    BY <1>13 DEF vars, FreedIdle
  <2>7. QED
    BY <2>1, <2>2, <2>3, <2>4, <2>5, <2>6
<1>14. Rest'
  BY <1>1, <1>2, <1>3, <1>4, <1>5, <1>6, <1>7, <1>8, <1>9, <1>10, <1>11, <1>12, <1>13
  DEF Next, Call, CallStep, RunStep
<1>15. QED
  BY <1>0, <1>14

LEMMA Invariant == ApartSpec => []IInv
<1>1. Init => IInv
  BY InvInit
<1>2. IInv /\ [Next]_vars /\ [StartsApart]_vars => IInv'
  BY InvStep
<1>3. QED
  BY <1>1, <1>2, PTL DEF ApartSpec, Spec

\* If starts do not race, StatusFinished means that nobody runs the loop or is
\* about to (loop.cpp:59, 68, 78-87).
THEOREM FinishedMeansOver == ApartSpec => []FinishedIsOver
<1>1. IInv => FinishedIsOver
  BY DEF IInv, OneRunInv, FinishedIsOver
<1>2. QED
  BY <1>1, Invariant, PTL

\* If starts do not race, the event_base is never freed while a thread is in
\* _run: ~Loop finds a thread joinable first (loop.cpp:12-15, 57-63).
THEOREM BaseFreedIdle == ApartSpec => []FreedIdle
<1>1. IInv => FreedIdle
  BY DEF IInv
<1>2. QED
  BY <1>1, Invariant, PTL

\* If starts do not race, a loop whose thread was joined is finished and stays
\* so (loop.cpp:57-63, 78-87).
THEOREM JoinedMeansFinished == ApartSpec => []JoinedIsFinished
<1>1. IInv => JoinedIsFinished
  BY DEF IInv, OneRunInv, JoinedInv, JoinedIsFinished, Runner
<1>2. QED
  BY <1>1, Invariant, PTL

\* A single start does not race: with one call of start, which is how
\* loop_thread uses its Loop (loop_thread.cpp:195), the hypothesis holds.
THEOREM OneStartApart == ASSUME MaxStart <= 1 PROVE Spec => ApartSpec
<1>1. TypeOK /\ [Next]_vars => [StartsApart]_vars
  <2> SUFFICES ASSUME TypeOK, Next, starts' # starts, starts # 0 PROVE FALSE
    BY DEF StartsApart, vars
  <2>1. PICK c \in Caller : \E newThread \in BOOLEAN : StartTest(c, newThread)
    BY DEF Next, Call, CallStep, RunStep, Spawn, Assign, Join, StopSignal, WaitTest,
       StopTest, SetRunning, EnterLoop, LeaveLoop, SetFinished, Destroy
  <2>2. starts < MaxStart /\ starts \in Nat
    BY <2>1 DEF StartTest, TypeOK
  <2>3. QED
    BY <2>2
<1>2. QED
  BY <1>1, TypeCorrect, PTL DEF ApartSpec, Spec
=============================================================================
