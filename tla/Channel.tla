------------------------------- MODULE Channel -------------------------------
(***************************************************************************)
(* What the queues between simulation modules promise their users: a FIFO  *)
(* channel.  A full channel accepts nothing, an empty one delivers         *)
(* nothing, nothing is lost, repeated or reordered, and as long as the     *)
(* users keep calling, items keep flowing.                                 *)
(***************************************************************************)
EXTENDS Naturals, Sequences

CONSTANTS Items, Consumers,
          Capacity      \* the most items the channel holds

VARIABLES chan,         \* the items in flight, oldest first
          received      \* the last item each consumer got, in a sequence

vars == <<chan, received>>

Init == chan = <<>> /\ received = [c \in Consumers |-> <<>>]

Put(x) ==
  /\ Len(chan) < Capacity
  /\ chan' = Append(chan, x)
  /\ UNCHANGED received

Take(c) ==
  /\ chan # <<>>
  /\ received' = [received EXCEPT ![c] = <<Head(chan)>>]
  /\ chan' = Tail(chan)

Next == (\E x \in Items : Put(x)) \/ (\E c \in Consumers : Take(c))

Spec == /\ Init /\ [][Next]_vars
        /\ WF_vars(\E x \in Items : Put(x))
        /\ WF_vars(\E c \in Consumers : Take(c))
=============================================================================
