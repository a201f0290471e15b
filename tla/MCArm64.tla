------------------------------ MODULE MCArm64 ------------------------------
(* Arm64 for TLC: the timer's line and one other. *)
EXTENDS Arm64

CONSTANTS timer, other
=============================================================================
