----------------------------- MODULE MCWasmIpc -----------------------------
(* WasmIpc for TLC: two guests, and the capabilities they may be granted. *)
EXTENDS WasmIpc

CONSTANTS c1, c2

NoGrants == [c \in Client |-> {}]

(* The second guest may get capabilities, with and without the write       *)
(* right, for the endpoint of the first.                                   *)
GrantsToSecond == [c \in Client |-> IF c = c2 THEN [endpoint : {c1}, write : BOOLEAN]
                                             ELSE {}]
=============================================================================
