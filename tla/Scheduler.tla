----------------------------- MODULE Scheduler -----------------------------
(***************************************************************************)
(* The round-robin scheduler of src/src/scheduler.rs (struct Scheduler)    *)
(* over the task list of src/src/task.rs.  Every action is one method of   *)
(* Scheduler, executed atomically: all callers hold the SCHEDULER mutex    *)
(* for the whole call.                                                     *)
(*                                                                         *)
(* The module is about the bookkeeping alone.  Which code the CPU really   *)
(* executes, and when the methods are called, is the subject of the        *)
(* modules that extend this one.                                           *)
(***************************************************************************)
EXTENDS Naturals, Sequences, FiniteSets

CONSTANTS
    Task,       \* the TaskIds that Task::new may ever hand out
    None        \* the None of Option<TaskId>

ASSUME NoneAssumption == None \notin Task

(* TaskState, and "Absent" for an id that is not in the TaskList. *)
TaskState == {"Absent", "Ready", "Running", "Blocked", "Terminated"}

VARIABLES
    tasks,          \* TaskList: the state of every task
    current_task,   \* Option<TaskId>
    ready_queue     \* VecDeque<TaskId>, front first

schedVars == <<tasks, current_task, ready_queue>>

Runnable == {"Ready", "Running"}

Queued == {ready_queue[i] : i \in DOMAIN ready_queue}

-----------------------------------------------------------------------------
KeptIndices(q, id) == {i \in 1 .. Len(q) : q[i] # id}

Rank(kept, i) == Cardinality({j \in kept : j <= i})

(* VecDeque::retain(|&x| x != id): the entries other than id, in order.    *)
(* Written with the rank of a kept index instead of SelectSeq because the  *)
(* proof system knows nothing about SelectSeq.                             *)
retain(q, id) ==
    [n \in 1 .. Cardinality(KeptIndices(q, id)) |->
        q[CHOOSE i \in KeptIndices(q, id) : Rank(KeptIndices(q, id), i) = n]]

-----------------------------------------------------------------------------
(* Scheduler::new *)
SchedulerNew ==
    /\ tasks = [t \in Task |-> "Absent"]
    /\ current_task = None
    /\ ready_queue = <<>>

(* Mutant: the wrong id is queued. *)
MutAddQueuesCurrent(t) ==
    /\ tasks[t] = "Absent"
    /\ tasks' = [tasks EXCEPT ![t] = "Ready"]
    /\ ready_queue' = Append(ready_queue, current_task)
    /\ UNCHANGED current_task

(* Scheduler::add_task, with a Task fresh from Task::new (state Ready). *)
add_task(t) ==
    /\ tasks[t] = "Absent"
    /\ tasks' = [tasks EXCEPT ![t] = "Ready"]
    /\ ready_queue' = Append(ready_queue, t)
    /\ UNCHANGED current_task

(* Mutant: the previous task is forgotten. *)
MutKeepPreviousRunning(ts, cur) == ts

(* The first half of schedule: the previous task is put back to Ready, but *)
(* only if it is still Running.                                            *)
MarkPreviousReady(ts, cur) ==
    IF cur # None /\ ts[cur] = "Running"
    THEN [ts EXCEPT ![cur] = "Ready"]
    ELSE ts

(* The task schedule chooses and returns on the task states ts, current    *)
(* task cur and queue q: the popped front, if it is Ready.                 *)
Chosen(ts, cur, q) ==
    IF q # <<>> /\ MarkPreviousReady(ts, cur)[Head(q)] = "Ready"
    THEN Head(q)
    ELSE None

(* Mutant: the popped task goes back to the front. *)
MutRequeueFront(q, id) == <<id>> \o Tail(q)

(* The queue after the popped id has been pushed at the back again. *)
Requeue(q, id) == Append(Tail(q), id)

(* Scheduler::schedule run on ts, cur and q: block_current and             *)
(* terminate_current call it on states they have already changed.  A       *)
(* popped id that is not Ready is dropped.                                 *)
ScheduleFrom(ts, cur, q) ==
    LET next == Chosen(ts, cur, q)
        put  == IF q = <<>> THEN ts ELSE MarkPreviousReady(ts, cur)
    IN  IF next # None
        THEN /\ tasks' = [put EXCEPT ![next] = "Running"]
             /\ current_task' = next
             /\ ready_queue' = Requeue(q, next)
        ELSE /\ tasks' = put
             /\ current_task' = cur
             /\ ready_queue' = IF q = <<>> THEN q ELSE Tail(q)

(* Scheduler::schedule, and yield_cpu, which only calls it. *)
schedule == ScheduleFrom(tasks, current_task, ready_queue)

ScheduleReturns == Chosen(tasks, current_task, ready_queue)

(* Mutant: swap_remove_back instead of retain. *)
MutBlockSwapRemoves ==
    /\ current_task # None
    /\ LET q == ready_queue
           swapped == [i \in 1 .. Len(q) - 1 |->
                          IF q[i] = current_task THEN q[Len(q)] ELSE q[i]]
       IN  ScheduleFrom([tasks EXCEPT ![current_task] = "Blocked"], current_task,
                        IF current_task \in Queued THEN swapped ELSE q)

(* Scheduler::block_current *)
block_current ==
    /\ current_task # None
    /\ ScheduleFrom([tasks EXCEPT ![current_task] = "Blocked"],
                    current_task,
                    retain(ready_queue, current_task))

(* Mutant: any task is woken up. *)
MutUnblockAny(t) ==
    /\ tasks[t] # "Absent"
    /\ tasks' = [tasks EXCEPT ![t] = "Ready"]
    /\ ready_queue' = Append(ready_queue, t)
    /\ UNCHANGED current_task

(* Scheduler::unblock_task *)
unblock_task(t) ==
    /\ tasks[t] = "Blocked"
    /\ tasks' = [tasks EXCEPT ![t] = "Ready"]
    /\ ready_queue' = Append(ready_queue, t)
    /\ UNCHANGED current_task

(* Mutant: the task stays queued. *)
MutTerminateKeepsQueued ==
    /\ current_task # None
    /\ ScheduleFrom([tasks EXCEPT ![current_task] = "Terminated"], None, ready_queue)

(* Scheduler::terminate_current *)
terminate_current ==
    /\ current_task # None
    /\ ScheduleFrom([tasks EXCEPT ![current_task] = "Terminated"],
                    None,
                    retain(ready_queue, current_task))

SchedNext ==
    \/ \E t \in Task : add_task(t) \/ unblock_task(t)
    \/ schedule
    \/ block_current
    \/ terminate_current

SchedSpec == SchedulerNew /\ [][SchedNext]_schedVars

(* schedule is called at every timer tick and at every voluntary yield, so *)
(* it is never postponed for ever.  Nothing else is assumed: tasks may     *)
(* never block, be woken up or terminate.  Whether ticks really keep       *)
(* coming is checked in Preemption.                                        *)
FairSchedSpec == SchedSpec /\ WF_schedVars(schedule)

-----------------------------------------------------------------------------
(* Type invariant of the scheduler's three fields. *)
SchedTypeOK ==
    /\ tasks \in [Task -> TaskState]
    /\ current_task \in Task \cup {None}
    /\ ready_queue \in Seq(Task)

(* ready_queue holds every runnable task exactly once, the running one     *)
(* included, and no other: block_current and terminate_current take out    *)
(* what add_task, unblock_task and schedule put in.  With it schedule      *)
(* never pops an id it must throw away.                                    *)
NoDuplicates ==
    \A i, j \in DOMAIN ready_queue : ready_queue[i] = ready_queue[j] => i = j

ReadyQueueExact ==
    /\ NoDuplicates
    /\ Queued = {t \in Task : tasks[t] \in Runnable}

(* At most one task is Running, and it is the one current_task names; the  *)
(* task current_task names has not terminated.                             *)
RunningIsCurrent ==
    /\ \A t \in Task : tasks[t] = "Running" => current_task = t
    /\ current_task # None => tasks[current_task] \notin {"Absent", "Terminated"}

(* A terminated task is never scheduled, woken up or added again. *)
TerminatedIsFinal ==
    [][\A t \in Task : tasks[t] = "Terminated" => tasks'[t] = "Terminated"]_schedVars

(* Round robin never lets a task overtake: if a waits in front of b and    *)
(* both stay queued, a stays in front unless a itself is the task just     *)
(* given the CPU.                                                          *)
Before(q, a, b) ==
    \E i, j \in DOMAIN q : i < j /\ q[i] = a /\ q[j] = b

NoOvertaking ==
    [][\A a, b \in Task :
          Before(ready_queue, a, b) /\ Before(ready_queue', b, a)
              => current_task' = a]_schedVars

(* Every runnable task is eventually the current one. *)
RunnableIsScheduled ==
    \A t \in Task : (tasks[t] \in Runnable) ~> (current_task = t)

(* The scheduler implements its abstract promise. *)
Life == INSTANCE TaskLifecycle WITH
    runnable <- {t \in Task : tasks[t] \in Runnable},
    blocked  <- {t \in Task : tasks[t] = "Blocked"},
    finished <- {t \in Task : tasks[t] = "Terminated"},
    holder   <- current_task

ImplementsLifecycle == Life!LifeSpec

LifecycleSafety == Life!LifeSafety

=============================================================================
