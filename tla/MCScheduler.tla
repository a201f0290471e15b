---------------------------- MODULE MCScheduler ----------------------------
(* Scheduler for TLC, with a check of retain against the library's          *)
(* definition of the same operation.                                        *)
EXTENDS Scheduler

LOCAL INSTANCE SequencesExt

(* retain is VecDeque::retain: it agrees with Remove on every queue of up   *)
(* to MaxRetain entries, repeated ones included.                            *)
MaxRetain == 4

ASSUME RetainIsRemove ==
    \A q \in BoundedSeq(Task, MaxRetain) : \A id \in Task :
        retain(q, id) = Remove(q, id)
=============================================================================
