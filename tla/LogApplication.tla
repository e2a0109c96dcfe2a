--------------------------- MODULE LogApplication ---------------------------
(***************************************************************************)
(* What an Aging2 run promises the library's edge set, abstractly (spec 5 *)
(* and 8): every operation of the log takes effect exactly once, in some   *)
(* order, and once all of them have, the temporary vertices are removed   *)
(* with their edges.  Nothing else changes the edges.  The order of two   *)
(* operations on the same edge is not promised here: the retry of a      *)
(* failed add_edge may reorder them.                                       *)
(***************************************************************************)
EXTENDS Integers

CONSTANTS
  Ops,        \* the operations of the log, [src, dst, weight]
  Temporary   \* the temporary vertices

VARIABLES
  pending,    \* operations that have not taken effect yet
  edges       \* the edge set of the graph, edges as 2-element sets

EdgeOfOp(o) == {o.src, o.dst}

Init == pending = Ops /\ edges = {}

(* An operation takes effect: a weight > 0 inserts its edge, else deletes. *)
Apply(o) ==
  /\ o \in pending
  /\ pending' = pending \ {o}
  /\ edges' = IF o.weight > 0 THEN edges \cup {EdgeOfOp(o)} ELSE edges \ {EdgeOfOp(o)}

RemoveTemporary(v) ==
  /\ pending = {}
  /\ edges' = {e \in edges : v \notin e}
  /\ UNCHANGED pending

Next == (\E o \in pending : Apply(o)) \/ (\E v \in Temporary : RemoveTemporary(v))

Spec == Init /\ [][Next]_<<pending, edges>>
=============================================================================
