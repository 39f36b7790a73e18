----------------------------- MODULE PoolProofs -----------------------------
(***************************************************************************)
(* Theorems about Pool, for any number of loops, broadcasters and pickers: *)
(* type correctness; init returns to loops that run; a broadcast that was  *)
(* over before stop has run on every loop that ends; stop returns to a     *)
(* quiet pool; calls of get_loop_thread take the loops in turn, except a   *)
(* call that overlaps another and, if the number of loops does not divide  *)
(* the range of the index, across its wrap.                                *)
(***************************************************************************)
EXTENDS Pool, DataLemmas

USE PoolAssumption

\* What a loop has taken from its queue, and what it ever was given.
Taken(l) == Range(log[l]) \cup Range(batch[l])
Given(l) == Taken(l) \cup Range(task_queue[l])

\* The loops that init has not reached have no thread.
SpawnInv ==
  \A l \in Loops : mpc = "spawn" /\ l >= at => life[l] = "none"

\* The loops that init has polled, or all of them, run or are told to exit.
ReadyInv ==
  \A l \in Loops :
    InitDone \/ (mpc = "poll" /\ l < at) => life[l] \in {"running", "finished"}

\* Only a running loop has a batch, and only EXIT_LOOP ends it.
BatchInv ==
  \A l \in Loops : /\ life[l] # "running" => batch[l] = <<>>
                   /\ life[l] = "finished" => exiting[l]

\* There is no EXIT_LOOP before stop.
ExitInv ==
  mpc \in {"spawn", "poll", "use"} =>
    early = {} /\ \A l \in Loops : Exit \notin Given(l) /\ ~exiting[l]

\* A loop that a broadcast has reached was given its task; early ones have
\* reached all of them.
SentInv ==
  /\ \A b \in Broadcaster, l \in Loops : l <= sent[b] => b \in Given(l)
  /\ \A b \in early : sent[b] = N

\* Once a loop has taken its EXIT_LOOP, it has taken every early broadcast.
OrderInv ==
  \A l \in Loops : Exit \in Range(batch[l]) \/ exiting[l] => early \subseteq Taken(l)

\* The threads that stop has joined have ended.
JoinInv ==
  \A l \in Loops : mpc = "stopped" \/ (mpc = "join" /\ l < at) => Ended(l)

IInv ==
  /\ TypeOK
  /\ SpawnInv
  /\ ReadyInv
  /\ BatchInv
  /\ ExitInv
  /\ SentInv
  /\ OrderInv
  /\ JoinInv

-----------------------------------------------------------------------------
\* Sequences and their elements.

LEMMA RangeAppend ==
  ASSUME NEW S, NEW s \in Seq(S), NEW e \in S
  PROVE  Range(Append(s, e)) = Range(s) \cup {e}
<1>1. /\ Append(s, e) \in Seq(S)
      /\ Len(Append(s, e)) = Len(s) + 1
      /\ \A i \in 1..Len(s) : Append(s, e)[i] = s[i]
      /\ Append(s, e)[Len(s) + 1] = e
  BY AppendProperties
<1>2. DOMAIN s = 1..Len(s) /\ DOMAIN Append(s, e) = 1..Len(s) + 1 /\ Len(s) \in Nat
  BY <1>1, LenProperties
<1>3. 1..Len(s) + 1 = (1..Len(s)) \cup {Len(s) + 1}
  BY <1>2
<1>4. QED
  BY <1>1, <1>2, <1>3 DEF Range

LEMMA RangeTail ==
  ASSUME NEW S, NEW s \in Seq(S), s # <<>>
  PROVE  Range(s) = Range(Tail(s)) \cup {Head(s)}
<1>1. /\ Tail(s) \in Seq(S)
      /\ Len(Tail(s)) = Len(s) - 1
      /\ Head(s) = s[1]
      /\ \A i \in 1..Len(Tail(s)) : Tail(s)[i] = s[i + 1]
  BY HeadTailProperties
<1>2. Len(s) \in Nat \ {0}
  BY EmptySeq
<1>3. DOMAIN s = 1..Len(s) /\ DOMAIN Tail(s) = 1..Len(s) - 1
  BY <1>1, LenProperties
<1>4. \A i \in 1..Len(s) : i = 1 \/ (i - 1 \in 1..Len(s) - 1 /\ (i - 1) + 1 = i)
  BY <1>2
<1>5. \A i \in 1..Len(s) - 1 : i + 1 \in 1..Len(s)
  BY <1>2
<1>6. ASSUME NEW i \in 1..Len(s)
      PROVE  s[i] \in Range(Tail(s)) \cup {Head(s)}
  <2>1. CASE i = 1
    BY <1>1, <2>1
  <2>2. CASE i # 1
    <3>1. i - 1 \in 1..Len(s) - 1 /\ (i - 1) + 1 = i
      BY <1>4, <2>2
    <3>2. i - 1 \in DOMAIN Tail(s) /\ i - 1 \in 1..Len(Tail(s))
      BY <1>1, <1>3, <3>1
    <3>3. Tail(s)[i - 1] = s[(i - 1) + 1]
      BY <1>1, <3>2
    <3>4. s[i] = Tail(s)[i - 1]
      BY <3>1, <3>3
    <3>5. QED
      BY <3>2, <3>4 DEF Range
  <2>3. QED
    BY <2>1, <2>2
<1>7. Range(Tail(s)) \cup {Head(s)} \subseteq Range(s)
  BY <1>1, <1>2, <1>3, <1>5 DEF Range
<1>8. Range(s) \subseteq Range(Tail(s)) \cup {Head(s)}
  BY <1>3, <1>6 DEF Range
<1>9. QED
  BY <1>7, <1>8

LEMMA RangeEmpty == Range(<<>>) = {}
BY DEF Range

LEMMA RangeType ==
  ASSUME NEW S, NEW s \in Seq(S)
  PROVE  Range(s) \subseteq S
<1>1. DOMAIN s = 1..Len(s) /\ \A i \in 1..Len(s) : s[i] \in S
  BY ElementOfSeq, LenProperties
<1>2. QED
  BY <1>1 DEF Range

LEMMA LoopFacts == N \in Nat \ {0} /\ Loops = 1..N /\ 1 \in Loops
BY DEF Loops

\* The owner goes from loop to loop.
LEMMA AdvanceFacts ==
  ASSUME at \in Loops, NEW next, Advance(next)
  PROVE  /\ at' \in Loops
         /\ \/ /\ at = N /\ mpc' = next /\ at' = 1
               /\ \A l \in Loops : (l < at \/ l = at) /\ ~(l < at')
            \/ /\ at < N /\ mpc' = mpc /\ at' = at + 1
               /\ \A l \in Loops : /\ l < at' => l < at \/ l = at
                                   /\ l >= at' => l >= at /\ l # at
BY LoopFacts DEF Advance

-----------------------------------------------------------------------------
\* What a step does to the tasks a loop was given.

LEMMA GivenByPost ==
  ASSUME TypeOK, NEW l \in Loops, NEW e \in Message,
         task_queue' = [task_queue EXCEPT ![l] = Append(@, e)],
         UNCHANGED <<batch, log>>
  PROVE  \A k \in Loops :
           /\ Taken(k)' = Taken(k)
           /\ Given(k)' = IF k = l THEN Given(k) \cup {e} ELSE Given(k)
<1>1. task_queue \in [Loops -> Seq(Message)]
  BY DEF TypeOK
<1>2. Range(Append(task_queue[l], e)) = Range(task_queue[l]) \cup {e}
  BY <1>1, RangeAppend
<1>3. \A k \in Loops : Taken(k)' = Taken(k)
  BY DEF Taken
<1>4. \A k \in Loops : Range(task_queue'[k]) =
        IF k = l THEN Range(task_queue[k]) \cup {e} ELSE Range(task_queue[k])
  BY <1>1, <1>2
<1>5. ASSUME NEW k \in Loops
      PROVE  Given(k)' = IF k = l THEN Given(k) \cup {e} ELSE Given(k)
  <2>1. Given(k)' = Taken(k) \cup Range(task_queue'[k])
    BY <1>3 DEF Given
  <2>2. Given(k) = Taken(k) \cup Range(task_queue[k])
    BY DEF Given
  <2>3. CASE k = l
    <3>1. Range(task_queue'[k]) = Range(task_queue[k]) \cup {e}
      BY <1>4, <2>3
    <3>2. Given(k)' = Given(k) \cup {e}
      BY <2>1, <2>2, <3>1
    <3>3. QED
      BY <2>3, <3>2
  <2>4. CASE k # l
    <3>1. Range(task_queue'[k]) = Range(task_queue[k])
      BY <1>4, <2>4
    <3>2. Given(k)' = Given(k)
      BY <2>1, <2>2, <3>1
    <3>3. QED
      BY <2>4, <3>2
  <2>5. QED
    BY <2>3, <2>4
<1>6. QED
  BY <1>3, <1>5

LEMMA GivenByTake ==
  ASSUME TypeOK, NEW l \in Loops, TakeBatch(l)
  PROVE  /\ Taken(l)' = Given(l)
         /\ \A k \in Loops : /\ Given(k)' = Given(k)
                             /\ k # l => Taken(k)' = Taken(k)
<1>1. /\ batch \in [Loops -> Seq(Message)]
      /\ task_queue \in [Loops -> Seq(Message)]
  BY DEF TypeOK
<1>2. /\ batch' = [batch EXCEPT ![l] = task_queue[l]]
      /\ task_queue' = [task_queue EXCEPT ![l] = <<>>]
      /\ log' = log
      /\ batch[l] = <<>>
  BY DEF TakeBatch
<1>3. Taken(l) = Range(log[l])
  BY <1>2, RangeEmpty DEF Taken
<1>4. Taken(l)' = Range(log[l]) \cup Range(task_queue[l])
  BY <1>1, <1>2 DEF Taken
<1>5. Taken(l)' = Given(l)
  BY <1>3, <1>4 DEF Given
<1>6. Given(l)' = Given(l)
  <2>1. Range(task_queue'[l]) = {}
    BY <1>1, <1>2, RangeEmpty
  <2>2. QED
    BY <1>5, <2>1 DEF Given
<1>7. ASSUME NEW k \in Loops, k # l
      PROVE  Taken(k)' = Taken(k) /\ Given(k)' = Given(k)
  <2>1. batch'[k] = batch[k] /\ task_queue'[k] = task_queue[k] /\ log'[k] = log[k]
    BY <1>1, <1>2, <1>7
  <2>2. QED
    BY <2>1 DEF Taken, Given
<1>8. QED
  BY <1>5, <1>6, <1>7

LEMMA GivenByRun ==
  ASSUME TypeOK, NEW l \in Loops, RunTask(l)
  PROVE  /\ Head(batch[l]) \in Range(batch[l])
         /\ Range(batch'[l]) \subseteq Range(batch[l])
         /\ \A k \in Loops : Taken(k)' = Taken(k) /\ Given(k)' = Given(k)
<1>1. /\ batch \in [Loops -> Seq(Message)]
      /\ log \in [Loops -> Seq(Message)]
  BY DEF TypeOK
<1>2. /\ batch' = [batch EXCEPT ![l] = Tail(@)]
      /\ log' = [log EXCEPT ![l] = Append(@, Head(batch[l]))]
      /\ task_queue' = task_queue
      /\ batch[l] # <<>>
  BY DEF RunTask
<1>3. Head(batch[l]) \in Message
  BY <1>1, <1>2, HeadTailProperties
<1>4. Range(batch[l]) = Range(Tail(batch[l])) \cup {Head(batch[l])}
  BY <1>1, <1>2, RangeTail
<1>5. Range(Append(log[l], Head(batch[l]))) = Range(log[l]) \cup {Head(batch[l])}
  BY <1>1, <1>3, RangeAppend
<1>6. /\ Range(log'[l]) = Range(log[l]) \cup {Head(batch[l])}
      /\ Range(batch'[l]) = Range(Tail(batch[l]))
  BY <1>1, <1>2, <1>5
<1>7. Taken(l)' = Taken(l)
  BY <1>4, <1>6 DEF Taken
<1>8. ASSUME NEW k \in Loops, k # l
      PROVE  Taken(k)' = Taken(k)
  <2>1. batch'[k] = batch[k] /\ log'[k] = log[k]
    BY <1>1, <1>2, <1>8
  <2>2. QED
    BY <2>1 DEF Taken
<1>9. \A k \in Loops : Taken(k)' = Taken(k)
  BY <1>7, <1>8
<1>10. \A k \in Loops : Given(k)' = Given(k)
  BY <1>2, <1>9 DEF Given
<1>11. QED
  BY <1>4, <1>6, <1>9, <1>10

-----------------------------------------------------------------------------
LEMMA TypeStep ==
  ASSUME TypeOK, [Next]_vars
  PROVE  TypeOK'
<1> USE DEF TypeOK, MainPc, Life, mainVars, loopVars, pickVars
<1>1. ASSUME SpawnThread
      PROVE  TypeOK'
  BY <1>1, AdvanceFacts DEF SpawnThread
<1>2. ASSUME PollLoop
      PROVE  TypeOK'
  BY <1>2, AdvanceFacts DEF PollLoop
<1>3. ASSUME StopCalled
      PROVE  TypeOK'
  BY <1>3 DEF StopCalled
<1>4. ASSUME PostExit
      PROVE  TypeOK'
  <2>1. task_queue' \in [Loops -> Seq(Message)]
    <3>1. Append(task_queue[at], Exit) \in Seq(Message)
      BY AppendProperties DEF Message
    <3>2. QED
      BY <1>4, <3>1 DEF PostExit
  <2>2. QED
    BY <1>4, <2>1, AdvanceFacts DEF PostExit
<1>5. ASSUME JoinThread
      PROVE  TypeOK'
  BY <1>5, AdvanceFacts DEF JoinThread
<1>6. ASSUME NEW l \in Loops, MakeLoop(l)
      PROVE  TypeOK'
  BY <1>6 DEF MakeLoop
<1>7. ASSUME NEW l \in Loops, StartLoop(l)
      PROVE  TypeOK'
  BY <1>7 DEF StartLoop
<1>8. ASSUME NEW l \in Loops, TakeBatch(l)
      PROVE  TypeOK'
  <2>1. <<>> \in Seq(Message)
    BY EmptySeq
  <2>2. QED
    BY <1>8, <2>1 DEF TakeBatch
<1>9. ASSUME NEW l \in Loops, RunTask(l)
      PROVE  TypeOK'
  <2>1. Head(batch[l]) \in Message /\ Tail(batch[l]) \in Seq(Message)
    BY <1>9, HeadTailProperties DEF RunTask
  <2>2. Append(log[l], Head(batch[l])) \in Seq(Message)
    BY <2>1, AppendProperties
  <2>3. exiting' \in [Loops -> BOOLEAN]
    BY <1>9 DEF RunTask
  <2>4. log' \in [Loops -> Seq(Message)] /\ batch' \in [Loops -> Seq(Message)]
    BY <1>9, <2>1, <2>2 DEF RunTask
  <2>5. QED
    BY <1>9, <2>3, <2>4 DEF RunTask
<1>10. ASSUME NEW l \in Loops, EndLoop(l)
       PROVE  TypeOK'
  BY <1>10 DEF EndLoop
<1>11. ASSUME NEW b \in Broadcaster, SendToNext(b)
       PROVE  TypeOK'
  <2>1. sent'[b] \in Loops /\ sent' \in [Broadcaster -> 0..N]
    BY <1>11, LoopFacts DEF SendToNext
  <2>2. Append(task_queue[sent'[b]], b) \in Seq(Message)
    BY <2>1, AppendProperties DEF Message
  <2>3. task_queue' \in [Loops -> Seq(Message)]
    BY <1>11, <2>1, <2>2 DEF SendToNext
  <2>4. QED
    BY <1>11, <2>1, <2>3 DEF SendToNext
<1>12. ASSUME NEW p \in Picker, LoadIndex(p)
       PROVE  TypeOK'
  BY <1>12 DEF LoadIndex
<1>13. ASSUME NEW p \in Picker, StoreIndex(p)
       PROVE  TypeOK'
  <2>1. select_index' \in 0..IndexMod - 1
    BY <1>13 DEF StoreIndex
  <2>2. QED
    BY <1>13, <2>1 DEF StoreIndex
<1>14. ASSUME NEW p \in Picker, PickLoop(p)
       PROVE  TypeOK'
  <2>1. (select_index % N) + 1 \in Loops
    <3>1. select_index \in Int /\ N \in Nat \ {0}
      BY LoopFacts
    <3>2. select_index % N \in 0..N - 1
      BY <3>1
    <3>3. QED
      BY <3>1, <3>2, LoopFacts
  <2>2. picks' \in Seq(Pick)
    <3> DEFINE e == [loop |-> (select_index % N) + 1,
                     index |-> select_index, alone |-> p \notin shared]
    <3>1. e \in Pick
      BY <2>1 DEF Pick
    <3>2. picks' = Append(picks, e)
      BY <1>14 DEF PickLoop
    <3> HIDE DEF e
    <3>3. QED
      BY <3>1, <3>2, AppendProperties
  <2>3. QED
    BY <1>14, <2>2 DEF PickLoop
<1>15. ASSUME UNCHANGED vars
       PROVE  TypeOK'
  BY <1>15 DEF vars
<1>16. QED
  BY <1>1, <1>2, <1>3, <1>4, <1>5, <1>6, <1>7, <1>8, <1>9, <1>10, <1>11, <1>12, <1>13,
     <1>14, <1>15
  DEF Next, InitStep, StopStep, LoopStep, PickStep

-----------------------------------------------------------------------------
LEMMA InitInv == Init => IInv
<1> SUFFICES ASSUME Init
             PROVE  IInv
  OBVIOUS
<1> USE DEF Init
<1>1. TypeOK
  <2>1. <<>> \in Seq(Message) /\ <<>> \in Seq(Pick)
    BY EmptySeq
  <2>2. 0 \in 0..N /\ 0 \in 0..IndexMod - 1
    BY LoopFacts
  <2>3. mpc \in MainPc /\ at \in Loops /\ life \in [Loops -> Life]
    BY LoopFacts DEF MainPc, Life
  <2>4. QED
    BY <2>1, <2>2, <2>3 DEF TypeOK
<1>2. \A l \in Loops : Given(l) = {}
  BY RangeEmpty DEF Given, Taken
<1>3. ExitInv
  BY <1>2 DEF ExitInv
<1>4. SentInv
  BY LoopFacts DEF SentInv
<1>5. OrderInv
  BY RangeEmpty DEF OrderInv
<1>6. SpawnInv /\ ReadyInv /\ BatchInv /\ JoinInv
  BY DEF SpawnInv, ReadyInv, BatchInv, JoinInv, InitDone
<1>7. QED
  BY <1>1, <1>3, <1>4, <1>5, <1>6 DEF IInv

\* A step of a picker, and a stuttering step, touch nothing of this.
LEMMA PickerStep ==
  ASSUME IInv, UNCHANGED <<mainVars, loopVars, task_queue, sent>>
  PROVE  (SpawnInv /\ ReadyInv /\ BatchInv /\ ExitInv /\ SentInv /\ OrderInv /\ JoinInv)'
<1> USE DEF IInv, mainVars, loopVars
<1>1. \A l \in Loops : Taken(l)' = Taken(l) /\ Given(l)' = Given(l)
  BY DEF Taken, Given
<1>2. SpawnInv' /\ ReadyInv' /\ BatchInv' /\ JoinInv'
  BY DEF SpawnInv, ReadyInv, BatchInv, JoinInv, InitDone, Ended
<1>3. ExitInv'
  BY <1>1 DEF ExitInv
<1>4. SentInv'
  BY <1>1 DEF SentInv
<1>5. OrderInv'
  BY <1>1 DEF OrderInv
<1>6. QED
  BY <1>2, <1>3, <1>4, <1>5

\* What is kept while no task moves.
LEMMA TasksKept ==
  ASSUME IInv, UNCHANGED <<task_queue, batch, log, exiting, sent, early>>,
         mpc' \in {"spawn", "poll", "use"} => mpc \in {"spawn", "poll", "use"}
  PROVE  (ExitInv /\ SentInv /\ OrderInv)'
<1> USE DEF IInv
<1>1. \A l \in Loops : Taken(l)' = Taken(l) /\ Given(l)' = Given(l)
  BY DEF Taken, Given
<1>2. ExitInv'
  BY <1>1 DEF ExitInv
<1>3. SentInv'
  BY <1>1 DEF SentInv
<1>4. OrderInv'
  BY <1>1 DEF OrderInv
<1>5. QED
  BY <1>2, <1>3, <1>4

-----------------------------------------------------------------------------
\* The owner of the pool.

LEMMA OwnerStep ==
  ASSUME IInv, InitStep \/ StopCalled \/ StopStep
  PROVE  (SpawnInv /\ ReadyInv /\ BatchInv /\ ExitInv /\ SentInv /\ OrderInv /\ JoinInv)'
<1>0. at \in Loops /\ Loops = 1..N /\ TypeOK
  BY LoopFacts DEF IInv, TypeOK
<1>1. CASE SpawnThread
  <2>1. /\ mpc = "spawn" /\ mpc' \in {"spawn", "poll"} /\ Advance("poll")
        /\ life' = [life EXCEPT ![at] = "born"]
        /\ UNCHANGED <<early, batch, exiting, log, task_queue, sent>>
    BY <1>1 DEF SpawnThread, Advance
  <2>2. life[at] = "none"
    BY <1>0, <2>1 DEF IInv, SpawnInv
  <2>3. SpawnInv'
    <3>1. ASSUME NEW l \in Loops, mpc' = "spawn", l >= at'
          PROVE  life'[l] = "none"
      <4>1. l >= at /\ l # at
        BY <1>0, <2>1, <3>1, AdvanceFacts
      <4>2. life[l] = "none"
        BY <2>1, <4>1 DEF IInv, SpawnInv
      <4>3. life'[l] = life[l]
        BY <1>0, <2>1, <4>1 DEF TypeOK
      <4>4. QED
        BY <4>2, <4>3
    <3>2. QED
      BY <3>1 DEF SpawnInv
  <2>4. ReadyInv'
    BY <1>0, <2>1, AdvanceFacts DEF ReadyInv, InitDone
  <2>5. BatchInv'
    BY <1>0, <2>1, <2>2 DEF IInv, BatchInv, TypeOK
  <2>6. JoinInv'
    BY <2>1 DEF JoinInv
  <2>7. ExitInv' /\ SentInv' /\ OrderInv'
    BY <2>1, TasksKept
  <2>8. QED
    BY <2>3, <2>4, <2>5, <2>6, <2>7
<1>2. CASE PollLoop
  <2>1. /\ mpc = "poll" /\ mpc' \in {"poll", "use"} /\ Advance("use")
        /\ life[at] = "running"
        /\ UNCHANGED <<early, life, batch, exiting, log, task_queue, sent>>
    BY <1>2 DEF PollLoop, Advance, loopVars
  <2>2. ReadyInv'
    BY <1>0, <2>1, AdvanceFacts DEF IInv, ReadyInv, InitDone
  <2>3. SpawnInv' /\ BatchInv' /\ JoinInv'
    BY <2>1 DEF IInv, SpawnInv, BatchInv, JoinInv
  <2>4. ExitInv' /\ SentInv' /\ OrderInv'
    BY <2>1, TasksKept
  <2>5. QED
    BY <2>2, <2>3, <2>4
<1>3. CASE StopCalled
  <2>1. /\ mpc = "use" /\ mpc' = "post"
        /\ early' = {b \in Broadcaster : sent[b] = N}
        /\ UNCHANGED <<at, life, batch, exiting, log, task_queue, sent>>
    BY <1>3 DEF StopCalled, loopVars
  <2>2. \A l \in Loops : Taken(l)' = Taken(l) /\ Given(l)' = Given(l)
    BY <2>1 DEF Taken, Given
  <2>3. SpawnInv' /\ ReadyInv' /\ BatchInv' /\ JoinInv'
    BY <2>1 DEF IInv, SpawnInv, ReadyInv, BatchInv, JoinInv, InitDone
  <2>4. ExitInv'
    BY <2>1 DEF ExitInv
  <2>5. SentInv'
    BY <2>1, <2>2 DEF IInv, SentInv
  <2>6. \A l \in Loops : Exit \notin Range(batch[l]) /\ ~exiting[l]
    BY <2>1 DEF IInv, ExitInv, Given, Taken
  <2>7. OrderInv'
    BY <2>1, <2>6 DEF OrderInv
  <2>8. QED
    BY <2>3, <2>4, <2>5, <2>7
<1>4. CASE PostExit
  <2>1. /\ mpc = "post" /\ mpc' \in {"post", "join"} /\ Advance("join")
        /\ task_queue' = [task_queue EXCEPT ![at] = Append(@, Exit)]
        /\ UNCHANGED <<early, life, batch, exiting, log, sent>>
    BY <1>4 DEF PostExit, Advance, loopVars
  <2>2. Exit \in Message
    BY DEF Message
  <2>3. \A k \in Loops : Taken(k)' = Taken(k) /\ Given(k) \subseteq Given(k)'
    <3>1. TypeOK /\ at \in Loops /\ UNCHANGED <<batch, log>>
      BY <1>0, <2>1 DEF IInv
    <3>2. \A k \in Loops :
            /\ Taken(k)' = Taken(k)
            /\ Given(k)' = IF k = at THEN Given(k) \cup {Exit} ELSE Given(k)
      BY <2>1, <2>2, <3>1, GivenByPost
    <3>3. QED
      BY <3>2
  <2>4. SpawnInv' /\ ReadyInv' /\ BatchInv' /\ ExitInv'
    BY <2>1 DEF IInv, SpawnInv, ReadyInv, BatchInv, ExitInv, InitDone
  <2>5. SentInv'
    BY <2>1, <2>3 DEF IInv, SentInv
  <2>6. OrderInv'
    BY <2>1, <2>3 DEF IInv, OrderInv
  <2>7. JoinInv'
    BY <1>0, <2>1, AdvanceFacts DEF JoinInv
  <2>8. QED
    BY <2>4, <2>5, <2>6, <2>7
<1>5. CASE JoinThread
  <2>1. /\ mpc = "join" /\ mpc' \in {"join", "stopped"} /\ Advance("stopped")
        /\ Ended(at)
        /\ UNCHANGED <<early, life, batch, exiting, log, task_queue, sent>>
    BY <1>5 DEF JoinThread, Advance, loopVars
  <2>2. JoinInv'
    BY <1>0, <2>1, AdvanceFacts DEF IInv, JoinInv, Ended
  <2>3. SpawnInv' /\ ReadyInv' /\ BatchInv'
    BY <2>1 DEF IInv, SpawnInv, ReadyInv, BatchInv, InitDone
  <2>4. ExitInv' /\ SentInv' /\ OrderInv'
    BY <2>1, TasksKept
  <2>5. QED
    BY <2>2, <2>3, <2>4
<1>6. QED
  BY <1>1, <1>2, <1>3, <1>4, <1>5 DEF InitStep, StopStep

-----------------------------------------------------------------------------
\* The thread of a loop.

LEMMA LoopStepInv ==
  ASSUME IInv, NEW l \in Loops, LoopStep(l)
  PROVE  (SpawnInv /\ ReadyInv /\ BatchInv /\ ExitInv /\ SentInv /\ OrderInv /\ JoinInv)'
<1>0. TypeOK
  BY DEF IInv
<1>1. CASE MakeLoop(l)
  <2>1. /\ life[l] = "born" /\ life' = [life EXCEPT ![l] = "made"]
        /\ UNCHANGED <<mpc, at, early, batch, exiting, log, task_queue, sent>>
    BY <1>1 DEF MakeLoop, mainVars
  <2>2. SpawnInv' /\ ReadyInv' /\ BatchInv' /\ JoinInv'
    BY <1>0, <2>1
    DEF IInv, TypeOK, SpawnInv, ReadyInv, BatchInv, JoinInv, InitDone, Ended
  <2>3. ExitInv' /\ SentInv' /\ OrderInv'
    BY <2>1, TasksKept
  <2>4. QED
    BY <2>2, <2>3
<1>2. CASE StartLoop(l)
  <2>1. /\ life[l] = "made"
        /\ \/ life' = [life EXCEPT ![l] = "running"]
           \/ life' = [life EXCEPT ![l] = "failed"]
        /\ UNCHANGED <<mpc, at, early, batch, exiting, log, task_queue, sent>>
    BY <1>2 DEF StartLoop, mainVars
  <2>2. SpawnInv' /\ ReadyInv' /\ BatchInv' /\ JoinInv'
    BY <1>0, <2>1
    DEF IInv, TypeOK, SpawnInv, ReadyInv, BatchInv, JoinInv, InitDone, Ended
  <2>3. ExitInv' /\ SentInv' /\ OrderInv'
    BY <2>1, TasksKept
  <2>4. QED
    BY <2>2, <2>3
<1>3. CASE TakeBatch(l)
  <2>1. /\ life[l] = "running" /\ ~exiting[l]
        /\ batch' = [batch EXCEPT ![l] = task_queue[l]]
        /\ UNCHANGED <<mpc, at, early, life, exiting, log, sent>>
    BY <1>3 DEF TakeBatch, mainVars
  <2>2. /\ Taken(l)' = Given(l)
        /\ \A k \in Loops : /\ Given(k)' = Given(k)
                            /\ k # l => Taken(k)' = Taken(k)
    BY <1>0, <1>3, GivenByTake
  <2>3. SpawnInv' /\ ReadyInv' /\ JoinInv'
    BY <2>1 DEF IInv, SpawnInv, ReadyInv, JoinInv, InitDone, Ended
  <2>4. BatchInv'
    BY <1>0, <2>1 DEF IInv, BatchInv, TypeOK
  <2>5. ExitInv'
    BY <2>1, <2>2 DEF IInv, ExitInv
  <2>6. SentInv'
    BY <2>1, <2>2 DEF IInv, SentInv
  <2>7. early \subseteq Given(l)
    <3>1. \A b \in early : b \in Broadcaster /\ sent[b] = N
      BY <1>0 DEF IInv, SentInv, TypeOK
    <3>2. l <= N
      BY LoopFacts
    <3>3. QED
      BY <3>1, <3>2 DEF IInv, SentInv
  <2>8. ASSUME NEW k \in Loops, Exit \in Range(batch'[k]) \/ exiting'[k]
        PROVE  early' \subseteq Taken(k)'
    <3>1. CASE k = l
      BY <2>1, <2>2, <2>7, <3>1
    <3>2. CASE k # l
      <4>1. batch'[k] = batch[k] /\ exiting'[k] = exiting[k]
        BY <1>0, <2>1, <3>2 DEF TypeOK
      <4>2. early \subseteq Taken(k)
        BY <2>8, <4>1 DEF IInv, OrderInv
      <4>3. QED
        BY <2>1, <2>2, <3>2, <4>2
    <3>3. QED
      BY <3>1, <3>2
  <2>9. OrderInv'
    BY <2>8 DEF OrderInv
  <2>10. QED
    BY <2>3, <2>4, <2>5, <2>6, <2>9
<1>4. CASE RunTask(l)
  <2>1. /\ batch[l] # <<>>
        /\ exiting' = [exiting EXCEPT ![l] = @ \/ Head(batch[l]) = Exit]
        /\ batch' = [batch EXCEPT ![l] = Tail(@)]
        /\ UNCHANGED <<mpc, at, early, life, task_queue, sent>>
    BY <1>4 DEF RunTask, mainVars
  <2>2. /\ Head(batch[l]) \in Range(batch[l])
        /\ Range(batch'[l]) \subseteq Range(batch[l])
        /\ \A k \in Loops : Taken(k)' = Taken(k) /\ Given(k)' = Given(k)
    BY <1>0, <1>4, GivenByRun
  <2>3. \A k \in Loops : k # l => batch'[k] = batch[k] /\ exiting'[k] = exiting[k]
    BY <1>0, <2>1 DEF TypeOK
  <2>4. exiting'[l] = (exiting[l] \/ Head(batch[l]) = Exit)
    BY <1>0, <2>1 DEF TypeOK
  <2>5. SpawnInv' /\ ReadyInv' /\ JoinInv'
    BY <2>1 DEF IInv, SpawnInv, ReadyInv, JoinInv, InitDone, Ended
  <2>6. BatchInv'
    <3>1. life[l] = "running"
      BY <2>1 DEF IInv, BatchInv
    <3>2. QED
      BY <2>1, <2>3, <3>1 DEF IInv, BatchInv
  <2>7. ExitInv'
    <3>1. ASSUME mpc' \in {"spawn", "poll", "use"}
          PROVE  Head(batch[l]) # Exit /\ ~exiting[l]
      BY <2>1, <2>2, <3>1 DEF IInv, ExitInv, Given, Taken
    <3>2. QED
      BY <2>1, <2>2, <2>3, <2>4, <3>1 DEF IInv, ExitInv
  <2>8. SentInv'
    BY <2>1, <2>2 DEF IInv, SentInv
  <2>9. ASSUME NEW k \in Loops, Exit \in Range(batch'[k]) \/ exiting'[k]
        PROVE  Exit \in Range(batch[k]) \/ exiting[k]
    BY <2>2, <2>3, <2>4, <2>9
  <2>10. OrderInv'
    BY <2>1, <2>2, <2>9 DEF IInv, OrderInv
  <2>11. QED
    BY <2>5, <2>6, <2>7, <2>8, <2>10
<1>5. CASE EndLoop(l)
  <2>1. /\ life[l] = "running" /\ exiting[l] /\ batch[l] = <<>>
        /\ life' = [life EXCEPT ![l] = "finished"]
        /\ UNCHANGED <<mpc, at, early, batch, exiting, log, task_queue, sent>>
    BY <1>5 DEF EndLoop, mainVars
  <2>2. SpawnInv' /\ ReadyInv' /\ BatchInv' /\ JoinInv'
    BY <1>0, <2>1
    DEF IInv, TypeOK, SpawnInv, ReadyInv, BatchInv, JoinInv, InitDone, Ended
  <2>3. ExitInv' /\ SentInv' /\ OrderInv'
    BY <2>1, TasksKept
  <2>4. QED
    BY <2>2, <2>3
<1>6. QED
  BY <1>1, <1>2, <1>3, <1>4, <1>5 DEF LoopStep

\* send_to_all.

LEMMA SendStep ==
  ASSUME IInv, NEW b \in Broadcaster, SendToNext(b)
  PROVE  (SpawnInv /\ ReadyInv /\ BatchInv /\ ExitInv /\ SentInv /\ OrderInv /\ JoinInv)'
<1>1. /\ InitDone /\ sent[b] < N
      /\ sent' = [sent EXCEPT ![b] = @ + 1]
      /\ task_queue' = [task_queue EXCEPT ![sent'[b]] = Append(@, b)]
      /\ UNCHANGED <<mpc, at, early, life, batch, exiting, log>>
  BY DEF SendToNext, mainVars, loopVars
<1>2. TypeOK /\ b \in Message /\ b # Exit
  BY DEF IInv, Message
<1>3. sent[b] \in 0..N /\ sent'[b] = sent[b] + 1 /\ sent'[b] \in Loops
  BY <1>1, <1>2, LoopFacts DEF TypeOK
<1>4. \A k \in Loops :
        /\ Taken(k)' = Taken(k)
        /\ Given(k)' = IF k = sent'[b] THEN Given(k) \cup {b} ELSE Given(k)
  <2> DEFINE l == sent'[b]
  <2>1. l \in Loops /\ task_queue' = [task_queue EXCEPT ![l] = Append(@, b)]
    BY <1>1, <1>3
  <2>2. QED
    BY <1>1, <1>2, <2>1, GivenByPost
<1>5. SpawnInv' /\ ReadyInv' /\ BatchInv' /\ JoinInv'
  BY <1>1 DEF IInv, SpawnInv, ReadyInv, BatchInv, JoinInv, InitDone, Ended
<1>6. ExitInv'
  BY <1>1, <1>2, <1>4 DEF IInv, ExitInv
<1>7. \A c \in Broadcaster : c # b => sent'[c] = sent[c]
  BY <1>1, <1>2 DEF TypeOK
<1>8. ASSUME NEW c \in Broadcaster, NEW k \in Loops, k <= sent'[c]
      PROVE  c \in Given(k)'
  <2>1. CASE k <= sent[c]
    BY <1>4, <2>1 DEF IInv, SentInv
  <2>2. CASE ~(k <= sent[c])
    <3>1. c = b
      BY <1>7, <1>8, <2>2
    <3>2. k = sent'[b]
      BY <1>3, <1>8, <2>2, <3>1, LoopFacts
    <3>3. QED
      BY <1>4, <3>1, <3>2
  <2>3. QED
    BY <2>1, <2>2
<1>9. ASSUME NEW c \in early'
      PROVE  sent'[c] = N
  <2>1. c \in Broadcaster /\ sent[c] = N
    BY <1>1, <1>2 DEF IInv, SentInv, TypeOK
  <2>2. c # b
    BY <1>1, <1>3, <2>1, LoopFacts
  <2>3. QED
    BY <1>7, <2>1, <2>2
<1>10. SentInv'
  BY <1>8, <1>9 DEF SentInv
<1>11. OrderInv'
  BY <1>1, <1>4 DEF IInv, OrderInv
<1>12. QED
  BY <1>5, <1>6, <1>10, <1>11

-----------------------------------------------------------------------------
LEMMA InvStep == IInv /\ [Next]_vars => IInv'
<1> SUFFICES ASSUME IInv, [Next]_vars
             PROVE  IInv'
  OBVIOUS
<1>1. TypeOK'
  BY TypeStep DEF IInv
<1>2. (SpawnInv /\ ReadyInv /\ BatchInv /\ ExitInv /\ SentInv /\ OrderInv /\ JoinInv)'
  <2>1. CASE InitStep \/ StopCalled \/ StopStep
    BY <2>1, OwnerStep
  <2>2. CASE \E l \in Loops : LoopStep(l)
    BY <2>2, LoopStepInv
  <2>3. CASE \E b \in Broadcaster : SendToNext(b)
    BY <2>3, SendStep
  <2>4. CASE \E p \in Picker : PickStep(p)
    BY <2>4, PickerStep DEF PickStep, LoadIndex, StoreIndex, PickLoop
  <2>5. CASE UNCHANGED vars
    BY <2>5, PickerStep DEF vars
  <2>6. QED
    BY <2>1, <2>2, <2>3, <2>4, <2>5 DEF Next
<1>3. QED
  BY <1>1, <1>2 DEF IInv

LEMMA Invariance == Spec => []IInv
BY InitInv, InvStep, PTL DEF Spec

\* The state of the pool, its loops and its users has its type, for any number
\* of them: _select_index stays in its range, and every loop handed out exists
\* (loop_thread_pool.hpp:38-99).
THEOREM TypeCorrect == Spec => []TypeOK
<1>1. IInv => TypeOK
  BY DEF IInv
<1>2. QED
  BY <1>1, Invariance, PTL

\* Once init has returned, every loop runs or has been told to exit
\* (loop_thread_pool.hpp:50-66).
THEOREM InitReturnsReady == Spec => []InitReady
<1>1. IInv => InitReady
  BY DEF IInv, ReadyInv, InitReady
<1>2. QED
  BY <1>1, Invariance, PTL

\* A broadcast that was over before stop has run on every loop that ends
\* (loop_thread_pool.hpp:70-93).
THEOREM BroadcastBeforeExit == Spec => []EarlyBroadcastRuns
<1>1. IInv => EarlyBroadcastRuns
  <2>1. ASSUME IInv, NEW l \in Loops, life[l] = "finished"
        PROVE  early \subseteq Range(log[l])
    <3>1. batch[l] = <<>> /\ exiting[l]
      BY <2>1 DEF IInv, BatchInv
    <3>2. early \subseteq Taken(l)
      BY <2>1, <3>1 DEF IInv, OrderInv
    <3>3. QED
      BY <3>1, <3>2, RangeEmpty DEF Taken
  <2>2. QED
    BY <2>1 DEF EarlyBroadcastRuns
<1>2. QED
  BY <1>1, Invariance, PTL

\* When stop returns no loop is left that could run anything
\* (loop_thread_pool.hpp:80-84).
THEOREM StopIsQuiet == Spec => []StoppedIsQuiet
<1>1. IInv => StoppedIsQuiet
  BY DEF IInv, JoinInv, BatchInv, StoppedIsQuiet, Ended
<1>2. QED
  BY <1>1, Invariance, PTL

-----------------------------------------------------------------------------
\* Every loop's queue is a mailbox.

LEMMA ConcatAppend ==
  ASSUME NEW S, NEW s \in Seq(S), NEW t \in Seq(S), NEW e \in S
  PROVE  s \o Append(t, e) = Append(s \o t, e)
<1>1. <<e>> \in Seq(S) /\ s \o t \in Seq(S)
  BY ConcatProperties
<1>2. s \o (t \o <<e>>) = (s \o t) \o <<e>>
  BY <1>1, ConcatAssociative
<1>3. QED
  BY <1>1, <1>2, AppendIsConcat

LEMMA ConcatHeadTail ==
  ASSUME NEW S, NEW s \in Seq(S), NEW t \in Seq(S), s # <<>>
  PROVE  /\ s \o t # <<>>
         /\ Head(s \o t) = Head(s)
         /\ Tail(s \o t) = Tail(s) \o t
<1>1. Head(s) \in S /\ Tail(s) \in Seq(S)
  BY HeadTailProperties
<1>2. s = <<Head(s)>> \o Tail(s)
  OBVIOUS
<1>3. <<Head(s)>> \in Seq(S) /\ Tail(s) \o t \in Seq(S)
  BY <1>1, ConcatProperties
<1>4. s \o t = <<Head(s)>> \o (Tail(s) \o t)
  BY <1>1, <1>2, <1>3, ConcatAssociative
<1>5. QED
  BY <1>1, <1>3, <1>4

LEMMA PostImplements ==
  ASSUME TypeOK, NEW l \in Loops, NEW m \in Message,
         task_queue' = [task_queue EXCEPT ![l] = Append(@, m)],
         UNCHANGED <<batch, log>>, NEW k \in Loops
  PROVE  Abstract(k)!Next \/ UNCHANGED Abstract(k)!vars
<1>1. task_queue[l] \in Seq(Message) /\ batch[l] \in Seq(Message)
  BY DEF TypeOK
<1>2. CASE k = l
  <2>1. task_queue'[l] = Append(task_queue[l], m)
    BY DEF TypeOK
  <2>2. batch[l] \o Append(task_queue[l], m) = Append(batch[l] \o task_queue[l], m)
    <3>1. \A s, t \in Seq(Message) : s \o Append(t, m) = Append(s \o t, m)
      BY ConcatAppend
    <3>2. QED
      BY <1>1, <3>1
  <2>3. QED
    BY <1>2, <2>1, <2>2 DEF Abstract!Next, Abstract!Post
<1>3. CASE k # l
  <2>1. task_queue'[k] = task_queue[k]
    BY <1>3 DEF TypeOK
  <2>2. QED
    BY <2>1 DEF Abstract!vars
<1>4. QED
  BY <1>2, <1>3

LEMMA TakeImplements ==
  ASSUME TypeOK, NEW l \in Loops, TakeBatch(l), NEW k \in Loops
  PROVE  UNCHANGED Abstract(k)!vars
<1>1. /\ task_queue[l] \in Seq(Message) /\ batch[l] = <<>> /\ log' = log
      /\ batch' = [batch EXCEPT ![l] = task_queue[l]]
      /\ task_queue' = [task_queue EXCEPT ![l] = <<>>]
  BY DEF TakeBatch, TypeOK
<1>2. batch'[k] \o task_queue'[k] = batch[k] \o task_queue[k]
  <2>1. CASE k = l
    BY <1>1, <2>1, ConcatEmptySeq DEF TypeOK
  <2>2. CASE k # l
    BY <1>1, <2>2 DEF TypeOK
  <2>3. QED
    BY <2>1, <2>2
<1>3. QED
  BY <1>1, <1>2 DEF Abstract!vars

LEMMA RunImplements ==
  ASSUME TypeOK, NEW l \in Loops, RunTask(l), NEW k \in Loops
  PROVE  Abstract(k)!Next \/ UNCHANGED Abstract(k)!vars
<1>1. /\ task_queue[l] \in Seq(Message) /\ batch[l] \in Seq(Message) /\ batch[l] # <<>>
      /\ task_queue' = task_queue
      /\ batch' = [batch EXCEPT ![l] = Tail(@)]
      /\ log' = [log EXCEPT ![l] = Append(@, Head(batch[l]))]
  BY DEF RunTask, TypeOK
<1>2. CASE k = l
  <2>1. batch'[l] = Tail(batch[l]) /\ log'[l] = Append(log[l], Head(batch[l]))
    BY <1>1 DEF TypeOK
  <2>2. /\ batch[l] \o task_queue[l] # <<>>
        /\ Head(batch[l] \o task_queue[l]) = Head(batch[l])
        /\ Tail(batch[l] \o task_queue[l]) = Tail(batch[l]) \o task_queue[l]
    BY <1>1, ConcatHeadTail
  <2>3. QED
    BY <1>1, <1>2, <2>1, <2>2 DEF Abstract!Next, Abstract!Run
<1>3. CASE k # l
  <2>1. batch'[k] = batch[k] /\ log'[k] = log[k]
    BY <1>1, <1>3 DEF TypeOK
  <2>2. QED
    BY <1>1, <2>1 DEF Abstract!vars
<1>4. QED
  BY <1>2, <1>3

LEMMA StepImplements ==
  ASSUME IInv, [Next]_vars, NEW k \in Loops
  PROVE  Abstract(k)!Next \/ UNCHANGED Abstract(k)!vars
<1>1. TypeOK
  BY DEF IInv
<1>2. CASE UNCHANGED <<task_queue, batch, log>>
  BY <1>2 DEF Abstract!vars
<1>3. CASE PostExit
  <2>1. at \in Loops /\ Exit \in Message
    BY <1>1 DEF TypeOK, Message
  <2>2. QED
    BY <1>1, <1>3, <2>1, PostImplements DEF PostExit, loopVars
<1>4. ASSUME NEW b \in Broadcaster, SendToNext(b)
      PROVE  Abstract(k)!Next \/ UNCHANGED Abstract(k)!vars
  <2> DEFINE l == sent'[b]
  <2>1. l \in Loops /\ b \in Message
    BY <1>1, <1>4, LoopFacts DEF SendToNext, TypeOK, Message
  <2>2. task_queue' = [task_queue EXCEPT ![l] = Append(@, b)] /\ UNCHANGED <<batch, log>>
    BY <1>4 DEF SendToNext, loopVars
  <2> HIDE DEF l
  <2>3. QED
    BY <1>1, <2>1, <2>2, PostImplements
<1>5. ASSUME NEW l \in Loops, LoopStep(l)
      PROVE  Abstract(k)!Next \/ UNCHANGED Abstract(k)!vars
  <2>1. CASE TakeBatch(l)
    BY <1>1, <2>1, TakeImplements
  <2>2. CASE RunTask(l)
    BY <1>1, <2>2, RunImplements
  <2>3. CASE MakeLoop(l) \/ StartLoop(l) \/ EndLoop(l)
    BY <1>2, <2>3 DEF MakeLoop, StartLoop, EndLoop
  <2>4. QED
    BY <1>5, <2>1, <2>2, <2>3 DEF LoopStep
<1>6. CASE InitStep \/ StopCalled \/ JoinThread
  BY <1>2, <1>6 DEF InitStep, SpawnThread, PollLoop, StopCalled, JoinThread, loopVars
<1>7. ASSUME NEW p \in Picker, PickStep(p)
      PROVE  Abstract(k)!Next \/ UNCHANGED Abstract(k)!vars
  BY <1>2, <1>7 DEF PickStep, LoadIndex, StoreIndex, PickLoop, loopVars
<1>8. CASE UNCHANGED vars
  BY <1>2, <1>8 DEF vars, loopVars
<1>9. QED
  BY <1>3, <1>4, <1>5, <1>6, <1>7, <1>8 DEF Next, StopStep

\* What was posted to a loop runs in that order, each task once, whoever posts
\* and stops (loop_thread_pool.hpp:70-93 on loop_thread.cpp:5-25).
THEOREM MailboxesImplemented == Spec => QueuesAreMailboxes
<1>1. Init => \A l \in Loops : Abstract(l)!Init
  <2>1. ASSUME Init, NEW l \in Loops
        PROVE  Abstract(l)!Init
    <3>1. batch[l] \o task_queue[l] = <<>>
      BY <2>1, EmptySeq, ConcatEmptySeq DEF Init
    <3>2. QED
      BY <2>1, <3>1 DEF Init, Abstract!Init
  <2>2. QED
    BY <2>1
<1>2. IInv /\ [Next]_vars =>
        [\A l \in Loops : Abstract(l)!Next \/ UNCHANGED Abstract(l)!vars]_vars
  BY StepImplements
<1>3. QED
  BY <1>1, <1>2, Invariance, PTL DEF Spec, QueuesAreMailboxes

-----------------------------------------------------------------------------
(* get_loop_thread.                                                        *)

Idle(p) == ppc[p] = "idle"

\* The pickers that share their call run, and whoever runs beside another one is
\* one of them.
SharedInv ==
  /\ \A p \in shared : ~Idle(p)
  /\ \A p, q \in Picker : p # q /\ ~Idle(p) /\ ~Idle(q) => p \in shared

\* Nobody else writes the index between the read and the write of a call that
\* runs alone.
LoadedInv ==
  shared = {} => \A p \in Picker : ppc[p] = "store" => loaded[p] = select_index

\* The index is the one of the last call, or the next one, when that call and
\* the present one run alone.
LastInv ==
  LET m == Len(picks) IN
  shared = {} /\ m > 0 /\ picks[m].alone =>
    IF \E p \in Picker : ppc[p] = "pick"
    THEN select_index = (picks[m].index + 1) % IndexMod
    ELSE select_index = picks[m].index

LoopOf == \A k \in 1..Len(picks) : picks[k].loop = (picks[k].index % N) + 1

\* The indices of calls that run alone, one after the other, count on.
SeriesInv ==
  \A i, j \in 1..Len(picks) :
    i <= j /\ (\A k \in i..j : picks[k].alone) =>
      picks[j].index = (picks[i].index + (j - i)) % IndexMod

TurnInv == SharedInv /\ LoadedInv /\ LastInv /\ LoopOf /\ SeriesInv

LEMMA PicksFacts ==
  ASSUME TypeOK
  PROVE  /\ Len(picks) \in Nat
         /\ \A i \in 1..Len(picks) : picks[i].index \in 0..IndexMod - 1
<1>1. picks \in Seq(Pick)
  BY DEF TypeOK
<1>2. Len(picks) \in Nat /\ \A i \in 1..Len(picks) : picks[i] \in Pick
  BY <1>1, LenProperties, ElementOfSeq
<1>3. QED
  BY <1>2 DEF Pick

LEMMA InitTurn == Init => TurnInv
<1> SUFFICES ASSUME Init PROVE TurnInv
  OBVIOUS
<1>1. Len(picks) = 0 /\ shared = {} /\ \A p \in Picker : ppc[p] = "idle"
  BY EmptySeq DEF Init
<1>2. QED
  BY <1>1 DEF TurnInv, SharedInv, LoadedInv, LastInv, LoopOf, SeriesInv, Idle

\* A call begins, alone or beside others.
LEMMA LoadTurn ==
  ASSUME TypeOK, TurnInv, NEW p \in Picker, LoadIndex(p)
  PROVE  TurnInv'
<1> DEFINE running == {q \in Picker : ppc[q] # "idle"}
<1>1. /\ ppc[p] = "idle" /\ ppc' = [ppc EXCEPT ![p] = "store"]
      /\ loaded' = [loaded EXCEPT ![p] = select_index]
      /\ shared' = IF running = {} THEN {} ELSE running \cup {p}
      /\ select_index' = select_index /\ picks' = picks
  BY DEF LoadIndex
<1>2. /\ ppc'[p] = "store" /\ loaded'[p] = select_index
      /\ \A q \in Picker \ {p} : ppc'[q] = ppc[q]
  BY <1>1 DEF TypeOK
<1>3. LoopOf' /\ SeriesInv'
  BY <1>1 DEF TurnInv, LoopOf, SeriesInv
<1>4. CASE running = {}
  <2>1. shared' = {} /\ \A q \in Picker : ppc[q] = "idle"
    BY <1>1, <1>4
  <2>2. shared = {}
    BY <2>1 DEF TypeOK, TurnInv, SharedInv, Idle
  <2>3. SharedInv'
    BY <1>2, <2>1 DEF SharedInv, Idle
  <2>4. LoadedInv'
    BY <1>1, <1>2, <2>1 DEF LoadedInv
  <2>5. \A q \in Picker : ppc[q] # "pick" /\ ppc'[q] # "pick"
    BY <1>2, <2>1
  <2>6. LastInv'
    BY <1>1, <2>2, <2>5 DEF TurnInv, LastInv
  <2>7. QED
    BY <1>3, <2>3, <2>4, <2>6 DEF TurnInv
<1>5. CASE running # {}
  <2>1. shared' = running \cup {p}
    BY <1>1, <1>5
  <2>2. shared' # {}
    BY <2>1
  <2>3. SharedInv'
    BY <1>2, <2>1 DEF SharedInv, Idle
  <2>4. QED
    BY <1>3, <2>2, <2>3 DEF TurnInv, LoadedInv, LastInv
<1>6. QED
  BY <1>4, <1>5

\* The index counts on, if the call runs alone.
LEMMA StoreTurn ==
  ASSUME TypeOK, TurnInv, NEW p \in Picker, StoreIndex(p)
  PROVE  TurnInv'
<1>1. /\ ppc[p] = "store" /\ ppc' = [ppc EXCEPT ![p] = "pick"]
      /\ select_index' = (loaded[p] + 1) % IndexMod
      /\ loaded' = loaded /\ picks' = picks /\ shared' = shared
  BY DEF StoreIndex
<1>2. ppc'[p] = "pick" /\ \A q \in Picker \ {p} : ppc'[q] = ppc[q]
  BY <1>1 DEF TypeOK
<1>3. LoopOf' /\ SeriesInv'
  BY <1>1 DEF TurnInv, LoopOf, SeriesInv
<1>4. SharedInv'
  BY <1>1, <1>2 DEF TypeOK, TurnInv, SharedInv, Idle
<1>5. CASE shared = {}
  <2>1. \A q \in Picker \ {p} : ppc[q] = "idle" /\ ppc'[q] = "idle"
    BY <1>1, <1>2, <1>5 DEF TurnInv, SharedInv, Idle
  <2>2. loaded[p] = select_index
    BY <1>1, <1>5 DEF TurnInv, LoadedInv
  <2>3. LoadedInv'
    BY <1>2, <2>1 DEF LoadedInv
  <2>4. \A q \in Picker : ppc[q] # "pick"
    BY <1>1, <2>1
  <2> DEFINE m == Len(picks)
  <2>5. m > 0 /\ picks[m].alone => select_index = picks[m].index
    BY <1>5, <2>4 DEF TurnInv, LastInv
  <2>6. LastInv'
    BY <1>1, <1>2, <2>2, <2>5 DEF LastInv
  <2>7. QED
    BY <1>3, <1>4, <2>3, <2>6 DEF TurnInv
<1>6. CASE shared # {}
  BY <1>1, <1>3, <1>4, <1>6 DEF TurnInv, LoadedInv, LastInv
<1>7. QED
  BY <1>5, <1>6

\* It takes the loop of that index.
LEMMA PickTurn ==
  ASSUME TypeOK, TurnInv, NEW p \in Picker, PickLoop(p)
  PROVE  TurnInv'
<1> DEFINE m == Len(picks)
           e == [loop |-> (select_index % N) + 1,
                 index |-> select_index, alone |-> p \notin shared]
<1>1. /\ ppc[p] = "pick" /\ ppc' = [ppc EXCEPT ![p] = "idle"]
      /\ picks' = Append(picks, e)
      /\ shared' = shared \ {p}
      /\ loaded' = loaded /\ select_index' = select_index
  BY DEF PickLoop
<1>2. ppc'[p] = "idle" /\ \A q \in Picker \ {p} : ppc'[q] = ppc[q]
  BY <1>1 DEF TypeOK
<1>3. /\ e.loop = (e.index % N) + 1 /\ e.index = select_index
      /\ e.alone <=> p \notin shared
  OBVIOUS
<1>4. /\ m \in Nat /\ select_index \in 0..IndexMod - 1
      /\ \A i \in 1..m : picks[i].index \in 0..IndexMod - 1
  <2>1. select_index \in 0..IndexMod - 1
    BY DEF TypeOK
  <2>2. QED
    BY <2>1, PicksFacts
<1>5. /\ Len(picks') = m + 1
      /\ \A i \in 1..m : picks'[i] = picks[i]
      /\ picks'[m + 1] = e
  <2> HIDE DEF e
  <2>1. QED
    BY <1>1, LenProperties DEF TypeOK
<1> HIDE DEF m, e
<1>6. SharedInv'
  BY <1>1, <1>2 DEF TurnInv, SharedInv, Idle
<1>7. LoopOf'
  <2>1. \A k \in 1..m : picks[k].loop = (picks[k].index % N) + 1
    BY DEF TurnInv, LoopOf, m
  <2>2. ASSUME NEW k \in 1..m + 1
        PROVE  picks'[k].loop = (picks'[k].index % N) + 1
    <3>1. CASE k = m + 1
      BY <1>3, <1>5, <3>1
    <3>2. CASE k # m + 1
      <4>1. k \in 1..m
        BY <1>4, <3>2
      <4>2. QED
        BY <1>5, <2>1, <4>1
    <3>3. QED
      BY <3>1, <3>2
  <2>3. QED
    BY <1>5, <2>2 DEF LoopOf
\* A call that ends alone leaves nobody running.
<1>8. shared' = {} => \A q \in Picker : ppc'[q] = "idle"
  BY <1>1, <1>2 DEF TurnInv, SharedInv, Idle
<1>9. LoadedInv'
  BY <1>8 DEF LoadedInv
<1>10. LastInv'
  <2>1. shared' = {} => \A q \in Picker : ppc'[q] # "pick"
    BY <1>8
  <2>2. picks'[Len(picks')].index = select_index'
    BY <1>1, <1>3, <1>5
  <2>3. QED
    BY <2>1, <2>2 DEF LastInv
<1>11. e.alone /\ m > 0 /\ picks[m].alone => e.index = (picks[m].index + 1) % IndexMod
  <2>1. SUFFICES ASSUME e.alone, m > 0, picks[m].alone
                 PROVE  select_index = (picks[m].index + 1) % IndexMod
    BY <1>3
  <2>2. shared = {}
    BY <1>1, <1>3, <2>1 DEF TypeOK, TurnInv, SharedInv, Idle
  <2>3. QED
    BY <1>1, <2>1, <2>2 DEF TurnInv, LastInv, m
<1>12. ASSUME NEW i \in 1..m, \A k \in i..m : picks[k].alone
       PROVE  picks[m].index = (picks[i].index + (m - i)) % IndexMod
  <2>1. m \in 1..m /\ i <= m
    BY <1>4
  <2>2. QED
    BY <1>12, <2>1 DEF TurnInv, SeriesInv, m
<1>13. SeriesInv'
  <2>1. ASSUME NEW i \in 1..m + 1, NEW j \in 1..m + 1, i <= j,
               \A k \in i..j : picks'[k].alone
        PROVE  picks'[j].index = (picks'[i].index + (j - i)) % IndexMod
    <3>1. CASE j # m + 1
      <4>1. i \in 1..m /\ j \in 1..m /\ \A k \in i..j : k \in 1..m
        BY <1>4, <2>1, <3>1
      <4>2. \A k \in i..j : picks[k].alone
        BY <1>5, <2>1, <4>1
      <4>3. picks[j].index = (picks[i].index + (j - i)) % IndexMod
        BY <2>1, <4>1, <4>2 DEF TurnInv, SeriesInv, m
      <4>4. QED
        BY <1>5, <4>1, <4>3
    <3>2. CASE i = m + 1
      <4>1. j = m + 1 /\ j - i = 0
        BY <1>4, <2>1, <3>2
      <4>2. e.index % IndexMod = e.index /\ e.index + 0 = e.index
        BY <1>3, <1>4, SmallMod
      <4>3. QED
        BY <1>5, <3>2, <4>1, <4>2
    <3>3. CASE j = m + 1 /\ i # m + 1
      <4>1. i \in 1..m /\ m \in i..j /\ j \in i..j /\ \A k \in i..m : k \in i..j /\ k \in 1..m
        BY <1>4, <2>1, <3>3
      <4>2. e.alone /\ \A k \in i..m : picks[k].alone
        BY <1>5, <2>1, <3>3, <4>1
      <4> DEFINE a == picks[i].index + (m - i)
      <4>3. a \in Nat /\ picks[i].index + (j - i) = a + 1
        BY <1>4, <3>3, <4>1
      <4>4. picks[m].index = a % IndexMod
        BY <1>12, <4>1, <4>2
      <4>5. e.index = (picks[m].index + 1) % IndexMod
        <5>1. m > 0 /\ m \in i..m
          BY <1>4, <4>1
        <5>2. QED
          BY <1>11, <4>2, <5>1
      <4> HIDE DEF a
      <4>6. e.index = (a + 1) % IndexMod
        BY <4>3, <4>4, <4>5, NextMod
      <4>7. QED
        BY <1>5, <3>3, <4>1, <4>3, <4>6
    <3>4. QED
      BY <3>1, <3>2, <3>3
  <2>2. QED
    BY <1>5, <2>1 DEF SeriesInv
<1>14. QED
  BY <1>6, <1>7, <1>9, <1>10, <1>13 DEF TurnInv

LEMMA TurnStep == IInv /\ TurnInv /\ [Next]_vars => TurnInv'
<1> SUFFICES ASSUME IInv, TurnInv, [Next]_vars PROVE TurnInv'
  OBVIOUS
<1>1. TypeOK
  BY DEF IInv
<1>2. ASSUME NEW p \in Picker, PickStep(p)
      PROVE  TurnInv'
  BY <1>1, <1>2, LoadTurn, StoreTurn, PickTurn DEF PickStep
<1>3. CASE UNCHANGED pickVars
  BY <1>3 DEF pickVars, TurnInv, SharedInv, LoadedInv, LastInv, LoopOf, SeriesInv, Idle
<1>4. CASE InitStep \/ StopCalled \/ StopStep
  BY <1>3, <1>4 DEF InitStep, StopStep, SpawnThread, PollLoop, StopCalled, PostExit, JoinThread
<1>5. ASSUME NEW l \in Loops, LoopStep(l)
      PROVE  TurnInv'
  BY <1>3, <1>5 DEF LoopStep, MakeLoop, StartLoop, TakeBatch, RunTask, EndLoop
<1>6. ASSUME NEW b \in Broadcaster, SendToNext(b)
      PROVE  TurnInv'
  BY <1>3, <1>6 DEF SendToNext
<1>7. CASE UNCHANGED vars
  BY <1>3, <1>7 DEF vars
<1>8. QED
  BY <1>2, <1>4, <1>5, <1>6, <1>7 DEF Next

\* Fewer than N calls in a row take different loops, for any number of loops and
\* callers, also after calls that overlapped and set the index back, and across
\* the wrap of _select_index if the number of loops divides its range
\* (loop_thread_pool.hpp:94-99).
THEOREM LoopsInTurn == Spec => []PicksRotate
<1>1. TypeOK /\ TurnInv => PicksRotate
  <2> SUFFICES ASSUME TypeOK, TurnInv,
                      NEW i \in 1..Len(picks), NEW j \in 1..Len(picks), i < j, j < i + N,
                      \A k \in i..j : picks[k].alone,
                      IndexMod % N = 0 \/ NoWrap(i, j)
               PROVE  picks[i].loop # picks[j].loop
    BY DEF PicksRotate
  <2> DEFINE a == picks[i].index
             d == j - i
  <2>1. Len(picks) \in Nat /\ a \in 0..IndexMod - 1
    BY PicksFacts
  <2>2. d \in 1..N - 1 /\ i \in Nat /\ j = i + d
    BY <2>1
  <2>3. ASSUME NEW x \in 0..d
        PROVE  picks[i + x].index = (a + x) % IndexMod
    <3>1. i + x \in 1..Len(picks) /\ i <= i + x /\ (i + x) - i = x
      BY <2>1, <2>2
    <3>2. \A k \in i..i + x : k \in i..j
      BY <2>2
    <3>3. QED
      BY <3>1, <3>2 DEF TurnInv, SeriesInv
  <2>4. picks[i].loop = (a % N) + 1 /\ picks[j].loop = (picks[j].index % N) + 1
    BY DEF TurnInv, LoopOf
  <2>5. picks[j].index = (a + d) % IndexMod
    BY <2>2, <2>3
  <2>6. picks[j].index % N = (a + d) % N
    <3>1. CASE IndexMod % N = 0
      <4>1. a + d \in Nat
        BY <2>1, <2>2
      <4>2. QED
        <5> DEFINE b == a + d
        <5>1. b \in Nat /\ picks[j].index = b % IndexMod
          BY <2>5, <4>1
        <5> HIDE DEF b
        <5>2. (b % IndexMod) % N = b % N
          BY <3>1, <5>1, ModMod
        <5>3. picks[j].index % N = b % N
          BY <5>1, <5>2
        <5>4. QED
          BY <5>3 DEF b
    <3>2. CASE NoWrap(i, j)
      <4>1. a + d < IndexMod
        <5> SUFFICES ASSUME a + d >= IndexMod PROVE FALSE
          BY <2>1, <2>2
        <5> DEFINE x == IndexMod - a
        <5>1. x \in 0..d /\ x > 0 /\ a + x = IndexMod
          BY <2>1, <2>2
        <5>2. IndexMod % IndexMod = 0
          OBVIOUS
        <5>3. i + x \in i + 1..j
          BY <2>2, <5>1
        <5> HIDE DEF x
        <5>4. picks[i + x].index = 0
          BY <2>3, <5>1, <5>2
        <5>5. QED
          BY <3>2, <5>3, <5>4 DEF NoWrap
      <4>2. a + d \in 0..IndexMod - 1
        BY <2>1, <2>2, <4>1
      <4>3. picks[j].index = a + d
        BY <2>5, <4>2, SmallMod
      <4>4. QED
        BY <4>3
    <3>3. QED
      BY <3>1, <3>2
  <2>7. a \in Nat /\ a + d \in Nat /\ a < a + d /\ a + d < a + N
    BY <2>1, <2>2
  <2> DEFINE b == a + d
  <2>8. b \in Nat /\ a < b /\ b < a + N
    BY <2>7
  <2>9. picks[j].index % N = b % N
    BY <2>6
  <2> HIDE DEF a, d, b
  <2>10. a % N # b % N
    BY <2>7, <2>8, WindowMod
  <2>11. a % N \in 0..N - 1 /\ b % N \in 0..N - 1
    BY <2>7, <2>8, DivMod
  <2>12. QED
    BY <2>4, <2>9, <2>10, <2>11
<1>2. IInv => TypeOK
  BY DEF IInv
<1>3. QED
  BY <1>1, <1>2, InitTurn, TurnStep, Invariance, PTL DEF Spec
=============================================================================
