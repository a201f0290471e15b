------------------------------- MODULE MCIpc -------------------------------
(* Ipc for TLC: a receiver r and up to three other tasks.                   *)
EXTENDS Ipc, TLC

CONSTANTS r, s, u, v, e1, e2

(* The receiver is added first, as in test_scheduler.                       *)
InOrder == {<<r, s, u>>}

(* Every order of add_task; the one of test_scheduler is among them.        *)
AnyOrder == {o \in [1 .. Cardinality(Task) -> Task] :
                \A i, j \in DOMAIN o : o[i] = o[j] => i = j}

(* The order of test_scheduler, where the sender follows the receiver, and  *)
(* those where u does: then a receiver that blocks goes on under the name   *)
(* of u and can be woken by s.                                              *)
SomeOrders == {<<r, s, u, v>>}
    \cup {o \in AnyOrder : \E i \in 1 .. Len(o) - 1 : o[i] = r /\ o[i + 1] = u}

(* What a task may do with endpoint e. *)
Cap(e, rights) == [ep |-> e, rights |-> rights]

(* The capabilities of the demo; the same with a second writer that may    *)
(* also read; and two endpoints, the second one read by u and given to v   *)
(* with the right to write or only to read.                                *)
OneWriter == {(r :> Cap(e1, {"read"})) @@ (s :> Cap(e1, {"write"})) @@ [t \in Task |-> NoCap]}
TwoWriters == {(u :> Cap(e1, {"read", "write"})) @@ c : c \in OneWriter}
TwoEndpoints == {(u :> Cap(e2, {"read"})) @@ (v :> Cap(e2, {right})) @@ c :
                    right \in {"read", "write"}, c \in OneWriter}

CreatesFirst == [t \in Task |-> e1]
CreatesBoth == [t \in Task |-> IF t = u THEN e2 ELSE e1]
=============================================================================
