--------------------------- MODULE ProgressClaims ---------------------------
(***************************************************************************)
(* What the progress reporter of the Aging2 workers promises, abstractly  *)
(* (spec 4.5): operations complete one at a time, and a report bucket is  *)
(* claimed at most once, in increasing order, only after the operations   *)
(* it stands for have completed.  Several buckets may be claimed in one   *)
(* step (a claimant that was slow to look covers all buckets since the    *)
(* last claim).                                                            *)
(***************************************************************************)
EXTENDS Naturals

CONSTANT Quantum   \* operations per report bucket

ASSUME Quantum \in Nat \ {0}

VARIABLES
  done,      \* operations completed
  claimed    \* the last bucket claimed

Init == done = 0 /\ claimed = 0

Complete == done' = done + 1 /\ UNCHANGED claimed

(* Claim every bucket up to b, one whose operations are all done.         *)
Claim(b) ==
  /\ claimed < b /\ b <= done \div Quantum
  /\ claimed' = b
  /\ UNCHANGED done

Next == Complete \/ \E b \in claimed + 1 .. done \div Quantum : Claim(b)

Spec == Init /\ [][Next]_<<done, claimed>>
=============================================================================
