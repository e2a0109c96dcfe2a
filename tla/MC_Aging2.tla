----------------------------- MODULE MC_Aging2 -----------------------------
(* Two workers, three vertices, a log of three batches.  Edge {1,2} goes   *)
(* to worker 0 and edge {1,3} to worker 1, so both workers claim vertex 1 *)
(* and add_edge can fail while the other worker has it in flight; {1,2}   *)
(* appears in both orientations; vertex 3 is temporary.                    *)
EXTENDS Aging2

Ins(a, b) == [src |-> a, dst |-> b, weight |-> 1]
Del(a, b) == [src |-> a, dst |-> b, weight |-> -1]

MCLog ==
  << << Ins(1, 2), Ins(1, 3) >>,
     << Del(2, 1), Del(3, 1) >>,
     << Ins(2, 1) >> >>

MCTempVertices == << 3 >>

(* Worker 0 owns both operations on {1,2}: an insertion, then its         *)
(* deletion; worker 1 inserts {1,3} and so also claims vertex 1.          *)
RetryLog ==
  << << Ins(1, 2), Ins(1, 3) >>,
     << Del(1, 2) >> >>

(* Four operations, two final edges: with two reports per num_edges       *)
(* operations the quantum is one operation.                                *)
ReportLog ==
  << << Ins(1, 2), Ins(1, 3) >>,
     << Del(1, 2), Ins(2, 1) >> >>

NoTempVertices == << >>
=============================================================================
