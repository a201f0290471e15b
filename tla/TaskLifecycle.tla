--------------------------- MODULE TaskLifecycle ---------------------------
(***************************************************************************)
(* What the scheduler of src/src/scheduler.rs promises, without saying how *)
(* (no queue, no task states): a task is admitted once, the CPU goes to    *)
(* some runnable task, a blocked task needs a wake-up, a finished one      *)
(* never comes back.  Fairness: a task that is runnable again and again    *)
(* is chosen again and again.                                              *)
(***************************************************************************)
EXTENDS Naturals

CONSTANTS Task, None

VARIABLES
    runnable,   \* tasks that may be given the CPU
    blocked,    \* tasks waiting for a wake-up
    finished,   \* terminated tasks
    holder      \* the task the CPU was last given to, or None

lifeVars == <<runnable, blocked, finished, holder>>

LifeInit ==
    /\ runnable = {} /\ blocked = {} /\ finished = {}
    /\ holder = None

Admit(t) ==
    /\ t \notin runnable \cup blocked \cup finished
    /\ runnable' = runnable \cup {t}
    /\ UNCHANGED <<blocked, finished, holder>>

(* The CPU goes to a task of candidates, or stays as otherwise says when   *)
(* there is none.                                                          *)
HandOver(candidates, otherwise) ==
    IF candidates = {} THEN holder' = otherwise ELSE holder' \in candidates

Dispatch ==
    /\ HandOver(runnable, holder)
    /\ UNCHANGED <<runnable, blocked, finished>>

Block ==
    /\ holder # None
    /\ runnable' = runnable \ {holder}
    /\ blocked' = blocked \cup {holder}
    /\ HandOver(runnable \ {holder}, holder)
    /\ UNCHANGED finished

Finish ==
    /\ holder # None
    /\ runnable' = runnable \ {holder}
    /\ blocked' = blocked \ {holder}
    /\ finished' = finished \cup {holder}
    /\ HandOver(runnable \ {holder}, None)

Wake(t) ==
    /\ t \in blocked
    /\ blocked' = blocked \ {t}
    /\ runnable' = runnable \cup {t}
    /\ UNCHANGED <<finished, holder>>

LifeNext ==
    \/ \E t \in Task : Admit(t) \/ Wake(t)
    \/ Dispatch
    \/ Block
    \/ Finish

GivenCpu(t) == LifeNext /\ holder # t /\ holder' = t

(* The safety part on its own: what the refinement theorem is about. *)
LifeSafety == LifeInit /\ [][LifeNext]_lifeVars

LifeSpec == LifeSafety /\ \A t \in Task : SF_lifeVars(GivenCpu(t))

=============================================================================
