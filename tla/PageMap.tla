------------------------------- MODULE PageMap -------------------------------
(***************************************************************************)
(* What the global KV page table promises to its callers, with none of its *)
(* bookkeeping: a partial map from virtual pages to (node, frame)          *)
(* locations in which no location is used twice, and virtual ids that are  *)
(* never handed out a second time.                                         *)
(***************************************************************************)
CONSTANTS VirtualId, Location

VARIABLES
  where,     \* the location of every live virtual page
  retired    \* the virtual ids that were live once and have been freed

vars == <<where, retired>>

Live == DOMAIN where

Used == {where[v] : v \in Live}

Init ==
  /\ where = [v \in {} |-> v]
  /\ retired = {}

\* A fresh id gets a location nobody uses.
Allocate(v, l) ==
  /\ v \in VirtualId \ (Live \cup retired)
  /\ l \in Location \ Used
  /\ where' = [w \in Live \cup {v} |-> IF w = v THEN l ELSE where[w]]
  /\ UNCHANGED retired

Free(v) ==
  /\ v \in Live
  /\ where' = [w \in Live \ {v} |-> where[w]]
  /\ retired' = retired \cup {v}

Move(v, l) ==
  /\ v \in Live
  /\ l \in Location \ Used
  /\ where' = [where EXCEPT ![v] = l]
  /\ UNCHANGED retired

Next ==
  \/ \E v \in VirtualId, l \in Location : Allocate(v, l)
  \/ \E v \in Live : Free(v)
  \/ \E v \in Live, l \in Location : Move(v, l)

Spec == Init /\ [][Next]_vars
=============================================================================
