---------------------------- MODULE MCPreemption ----------------------------
(* Preemption for TLC: three tasks, added in a fixed order. *)
EXTENDS Preemption, TLC

CONSTANTS t1, t2, t3

ThreeInOrder == <<t1, t2, t3>>
=============================================================================
