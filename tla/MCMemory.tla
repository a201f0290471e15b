------------------------------ MODULE MCMemory ------------------------------
(* Memory for TLC: every memory map of three regions over a few pages. *)
EXTENDS Memory

CONSTANTS MaxAddr

Aligned == {a \in 0 .. MaxAddr : a % PageSize = 0}

Region == [start : Aligned, end : Aligned, usable : BOOLEAN]

Maps == {<<a, b, c>> \in Region \X Region \X Region : WellFormed(<<a, b, c>>)}
=============================================================================
