---------------------------- MODULE BoundedQueue ----------------------------
(***************************************************************************)
(* What a FIFO promises its two users: items come out once each, in the    *)
(* order they went in, never more than Depth are inside, and one item may  *)
(* go in at the instant another comes out.  A reset empties it.            *)
(***************************************************************************)
EXTENDS Naturals, Sequences

CONSTANTS Data, Depth

VARIABLE held

Empty == held = <<>>

Put(d) == Len(held) < Depth /\ held' = Append(held, d)

Get == held # <<>> /\ held' = Tail(held)

PutAndGet(d) == held # <<>> /\ Len(held) < Depth /\ held' = Append(Tail(held), d)

Flush == held' = <<>>

Next == Get \/ Flush \/ \E d \in Data : Put(d) \/ PutAndGet(d)

Spec == Empty /\ [][Next]_held
=============================================================================
