------------------------------ MODULE Mailbox ------------------------------
(***************************************************************************)
(* What a loop_thread promises to the threads that post to it: an          *)
(* unbounded mailbox that the loop empties one task at a time, in the      *)
(* order in which the tasks were posted, each task exactly once.           *)
(***************************************************************************)
EXTENDS Sequences

CONSTANT Task      \* the tasks a thread may post

VARIABLES box,     \* posted and not yet run, oldest first
          log      \* run, oldest first

vars == <<box, log>>

Init == box = <<>> /\ log = <<>>

Post == \E t \in Task : box' = Append(box, t) /\ UNCHANGED log

Run ==
  /\ box # <<>>
  /\ log' = Append(log, Head(box))
  /\ box' = Tail(box)

Next == Post \/ Run

Spec == Init /\ [][Next]_vars
=============================================================================
