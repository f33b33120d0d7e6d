---------------------------- MODULE BroadcastLog ----------------------------
(***************************************************************************)
(* What a message queue with one writer and several readers promises:      *)
(* every reader receives the messages that were sent, all of them, once    *)
(* and in order, and none falls behind by more than the queue holds.       *)
(***************************************************************************)
EXTENDS Naturals, Sequences

CONSTANTS Readers, Capacity

VARIABLES
  sent,        \* the messages, in the order in which they were sent
  received     \* received[r]: what reader r has got of them

vars == <<sent, received>>

Init ==
  /\ sent = <<>>
  /\ received = [r \in Readers |-> <<>>]

\* Some message is appended.
Send ==
  /\ \A r \in Readers : Len(sent) - Len(received[r]) < Capacity
  /\ Len(sent') = Len(sent) + 1
  /\ SubSeq(sent', 1, Len(sent)) = sent
  /\ UNCHANGED received

Receive(r) ==
  /\ Len(received[r]) < Len(sent)
  /\ received' = [received EXCEPT ![r] = Append(@, sent[Len(@) + 1])]
  /\ UNCHANGED sent

Next == Send \/ (\E r \in Readers : Receive(r))

Spec == Init /\ [][Next]_vars
=============================================================================
