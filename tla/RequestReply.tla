---------------------------- MODULE RequestReply ---------------------------
(***************************************************************************)
(* What the proxy promises to a client that waits for each answer: every   *)
(* command is answered at most once, in the order of the commands, by the  *)
(* answer to that client's own command.                                    *)
(***************************************************************************)
EXTENDS Integers, Sequences

CONSTANT Session     \* clients

VARIABLES asked,     \* asked[s]: the number of commands s has sent
          replies    \* replies[s]: the answers it got, oldest first

vars == <<asked, replies>>

Init ==
  /\ asked = [s \in Session |-> 0]
  /\ replies = [s \in Session |-> <<>>]

Ask(s) ==
  /\ asked[s] = Len(replies[s])
  /\ asked' = [asked EXCEPT ![s] = @ + 1]
  /\ UNCHANGED replies

Answer(s) ==
  /\ Len(replies[s]) < asked[s]
  /\ replies' = [replies EXCEPT ![s] = Append(@, <<s, Len(@) + 1>>)]
  /\ UNCHANGED asked

Next == \E s \in Session : Ask(s) \/ Answer(s)

Spec == Init /\ [][Next]_vars
=============================================================================
