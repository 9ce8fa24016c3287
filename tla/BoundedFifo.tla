---------------------------- MODULE BoundedFifo ----------------------------
(***************************************************************************)
(* What a channel with one writing and one reading thread promises: a      *)
(* queue of at most Capacity messages.  A message enters it at most once,  *)
(* leaves it in the order of entry, and is never dropped, doubled or       *)
(* altered once it is in.  Closing an end stops the steps of that end and  *)
(* says nothing of what is queued.                                         *)
(***************************************************************************)
EXTENDS Naturals, Sequences

CONSTANTS Msgs, Capacity

VARIABLES
  queue,      \* the messages in transit, oldest first
  accepted,   \* every message that entered
  received    \* the messages that left, in order

Init ==
  /\ queue = <<>>
  /\ accepted = {}
  /\ received = <<>>

Put(m) ==
  /\ m \notin accepted
  /\ Len(queue) < Capacity
  /\ queue' = Append(queue, m)
  /\ accepted' = accepted \cup {m}
  /\ UNCHANGED received

Get ==
  /\ queue # <<>>
  /\ received' = Append(received, Head(queue))
  /\ queue' = Tail(queue)
  /\ UNCHANGED accepted

Next == Get \/ \E m \in Msgs : Put(m)

Spec == Init /\ [][Next]_<<queue, accepted, received>>

=============================================================================
