-------------------------- MODULE SchedulerProofs --------------------------
(***************************************************************************)
(* The safety of Scheduler for every set of tasks: the inductive invariant *)
(* SchedIInv, that Terminated is final, that nobody overtakes in the queue *)
(* and that the scheduler implements the safety part of TaskLifecycle.     *)
(***************************************************************************)
EXTENDS Scheduler, FiniteSetTheorems, TLAPS

Elems(q) == {q[i] : i \in DOMAIN q}
Distinct(q) == \A i, j \in DOMAIN q : q[i] = q[j] => i = j

-----------------------------------------------------------------------------
(* Lemmas about the queue operators. *)

(* The cardinality of 1 .. n. *)
LEMMA IntervalCard ==
    ASSUME NEW n \in Nat
    PROVE  IsFiniteSet(1 .. n) /\ Cardinality(1 .. n) = n
  <1>1. 1 \in Int /\ n \in Int OBVIOUS
  <1>2. /\ IsFiniteSet(1 .. n)
        /\ Cardinality(1 .. n) = IF 1 > n THEN 0 ELSE n - 1 + 1
    BY <1>1, FS_Interval
  <1> QED BY <1>2

(* pop_front followed by push_back of the popped id, as in schedule, keeps *)
(* the ids and their distinctness.                                         *)
LEMMA RotateLemma ==
    ASSUME NEW q \in Seq(Task), q # <<>>, Distinct(q)
    PROVE  /\ Append(Tail(q), Head(q)) \in Seq(Task)
           /\ Distinct(Append(Tail(q), Head(q)))
           /\ Elems(Append(Tail(q), Head(q))) = Elems(q)
  <1> DEFINE r == Append(Tail(q), Head(q))
             n == Len(q)
  <1>1. /\ n \in Nat /\ 1 <= n
        /\ q \in [1 .. n -> Task] /\ DOMAIN q = 1 .. n
    OBVIOUS
  <1>2. r \in Seq(Task) /\ Len(r) = n /\ DOMAIN r = 1 .. n
    OBVIOUS
  <1>3. /\ r[n] = q[1]
        /\ \A i \in 1 .. n - 1 : r[i] = q[i + 1]
    OBVIOUS
  <1> HIDE DEF r, n
  <1>4. Distinct(r)
    <2> SUFFICES ASSUME NEW i \in 1 .. n, NEW j \in 1 .. n, r[i] = r[j]
                 PROVE  i = j
      BY <1>2 DEF Distinct
    <2>1. CASE i = n /\ j = n BY <2>1
    <2>2. CASE i = n /\ j # n
      <3>1. j \in 1 .. n - 1 /\ j + 1 \in 1 .. n BY <2>2, <1>1
      <3>2. q[1] = q[j + 1] BY <2>2, <3>1, <1>3
      <3> QED BY <3>1, <3>2, <1>1 DEF Distinct
    <2>3. CASE i # n /\ j = n
      <3>1. i \in 1 .. n - 1 /\ i + 1 \in 1 .. n BY <2>3, <1>1
      <3>2. q[1] = q[i + 1] BY <2>3, <3>1, <1>3
      <3> QED BY <3>1, <3>2, <1>1 DEF Distinct
    <2>4. CASE i # n /\ j # n
      <3>1. /\ i \in 1 .. n - 1 /\ i + 1 \in 1 .. n
            /\ j \in 1 .. n - 1 /\ j + 1 \in 1 .. n
        BY <2>4, <1>1
      <3>2. q[i + 1] = q[j + 1] BY <3>1, <1>3
      <3> QED BY <3>1, <3>2, <1>1 DEF Distinct
    <2> QED BY <2>1, <2>2, <2>3, <2>4
  <1>5. Elems(r) = Elems(q)
    <2>1. \A i \in 1 .. n : \E j \in 1 .. n : q[j] = r[i]
      <3> TAKE i \in 1 .. n
      <3>1. CASE i = n BY <3>1, <1>1, <1>3
      <3>2. CASE i # n
        <4>1. i \in 1 .. n - 1 /\ i + 1 \in 1 .. n BY <3>2, <1>1
        <4> QED BY <4>1, <1>3
      <3> QED BY <3>1, <3>2
    <2>2. \A i \in 1 .. n : \E j \in 1 .. n : r[j] = q[i]
      <3> TAKE i \in 1 .. n
      <3>1. CASE i = 1
        <4>1. n \in 1 .. n BY <1>1
        <4> QED BY <4>1, <3>1, <1>3
      <3>2. CASE i # 1
        <4>1. i - 1 \in 1 .. n - 1 /\ i - 1 \in 1 .. n /\ (i - 1) + 1 = i
          BY <3>2, <1>1
        <4>2. r[i - 1] = q[i] BY <4>1, <1>3
        <4> QED BY <4>1, <4>2
      <3> QED BY <3>1, <3>2
    <2>3. Elems(r) = {r[i] : i \in 1 .. n} /\ Elems(q) = {q[i] : i \in 1 .. n}
      BY <1>1, <1>2 DEF Elems
    <2>4. \A x : x \in Elems(r) <=> x \in Elems(q)
      BY <2>1, <2>2, <2>3
    <2> QED BY <2>4
  <1> QED BY <1>2, <1>4, <1>5 DEF r

(* On a queue without repetitions retain removes exactly id, and keeps     *)
(* the order of the others.                                                *)
LEMMA RetainLemma ==
    ASSUME NEW q \in Seq(Task), Distinct(q), NEW id
    PROVE  /\ retain(q, id) \in Seq(Task)
           /\ Distinct(retain(q, id))
           /\ Elems(retain(q, id)) = Elems(q) \ {id}
           /\ \A a, b \in Task : Before(retain(q, id), a, b) => Before(q, a, b)
  <1> DEFINE n == Len(q)
             K == KeptIndices(q, id)
             r == retain(q, id)
  <1>0. n \in Nat /\ DOMAIN q = 1 .. n /\ q \in [1 .. n -> Task]
    OBVIOUS
  <1>00. K = {i \in 1 .. n : q[i] # id}
    BY DEF KeptIndices
  <1>000. r = [m \in 1 .. Cardinality(K) |-> q[CHOOSE i \in K : Rank(K, i) = m]]
    BY DEF retain
  <1> HIDE DEF n, K, r
  <1>1. CASE id \notin Elems(q)
    <2>1. K = 1 .. n
      BY <1>1, <1>0, <1>00 DEF Elems
    <2>2. Cardinality(K) = n
      BY <2>1, <1>0, IntervalCard
    <2>3. \A i \in 1 .. n : Rank(K, i) = i
      <3> SUFFICES ASSUME NEW i \in 1 .. n PROVE Rank(K, i) = i
        OBVIOUS
      <3>1. {j \in K : j <= i} = 1 .. i BY <2>1, <1>0
      <3>2. Cardinality(1 .. i) = i BY <1>0, IntervalCard
      <3> QED BY <3>1, <3>2 DEF Rank
    <2>4. r = q
      <3>1. r = [m \in 1 .. n |-> q[CHOOSE i \in K : Rank(K, i) = m]]
        BY <2>2, <1>000
      <3>2. \A m \in 1 .. n : (CHOOSE i \in K : Rank(K, i) = m) = m
        BY <2>1, <2>3
      <3> QED BY <3>1, <3>2, <1>0
    <2> QED BY <2>4, <1>1 DEF r
  <1>2. CASE id \in Elems(q)
    <2>1. PICK k \in 1 .. n : q[k] = id
      BY <1>2, <1>0 DEF Elems
    <2>2. K = (1 .. n) \ {k}
      BY <2>1, <1>0, <1>00 DEF Distinct
    <2>3. Cardinality(K) = n - 1
      BY <2>2, <1>0, IntervalCard, FS_RemoveElement
    <2>4. \A i \in K : Rank(K, i) = IF i < k THEN i ELSE i - 1
      <3> SUFFICES ASSUME NEW i \in K PROVE Rank(K, i) = IF i < k THEN i ELSE i - 1
        OBVIOUS
      <3>1. CASE i < k
        <4>1. {j \in K : j <= i} = 1 .. i BY <2>2, <1>0, <3>1
        <4>2. Cardinality(1 .. i) = i BY <1>0, <2>2, IntervalCard
        <4> QED BY <4>1, <4>2, <3>1 DEF Rank
      <3>2. CASE ~(i < k)
        <4>1. {j \in K : j <= i} = (1 .. i) \ {k} BY <2>2, <1>0, <3>2
        <4>2. /\ IsFiniteSet(1 .. i) /\ Cardinality(1 .. i) = i
          BY <1>0, <2>2, IntervalCard
        <4>3. k \in 1 .. i BY <3>2, <2>2
        <4>4. Cardinality((1 .. i) \ {k}) = i - 1
          BY <4>2, <4>3, FS_RemoveElement
        <4> QED BY <4>1, <4>4, <3>2 DEF Rank
      <3> QED BY <3>1, <3>2
    <2>5. \A m \in 1 .. n - 1 :
             (CHOOSE i \in K : Rank(K, i) = m) = IF m < k THEN m ELSE m + 1
      <3> SUFFICES ASSUME NEW m \in 1 .. n - 1
                   PROVE  (CHOOSE i \in K : Rank(K, i) = m) = IF m < k THEN m ELSE m + 1
        OBVIOUS
      <3> DEFINE w == IF m < k THEN m ELSE m + 1
      <3>1. w \in K /\ Rank(K, w) = m
        <4>1. CASE m < k
          <5>1. m \in K BY <4>1, <2>2, <1>0
          <5> QED BY <5>1, <4>1, <2>4
        <4>2. CASE ~(m < k)
          <5>1. m + 1 \in K /\ ~(m + 1 < k) BY <4>2, <2>2, <1>0
          <5>2. Rank(K, m + 1) = (m + 1) - 1 BY <5>1, <2>4
          <5>3. w = m + 1 BY <4>2
          <5> QED BY <5>1, <5>2, <5>3, <1>0
        <4> QED BY <4>1, <4>2
      <3>2. \A i \in K : Rank(K, i) = m => i = w
        BY <2>2, <2>4, <1>0
      <3> HIDE DEF w
      <3>3. (CHOOSE i \in K : Rank(K, i) = m) = w
        BY <3>1, <3>2
      <3> QED BY <3>3 DEF w
    <2>6. r = [m \in 1 .. n - 1 |-> q[IF m < k THEN m ELSE m + 1]]
      <3>1. r = [m \in 1 .. n - 1 |-> q[CHOOSE i \in K : Rank(K, i) = m]]
        BY <2>3, <1>000
      <3> DEFINE f(m) == CHOOSE i \in K : Rank(K, i) = m
                 g(m) == IF m < k THEN m ELSE m + 1
      <3>2. \A m \in 1 .. n - 1 : f(m) = g(m) BY <2>5
      <3>3. r = [m \in 1 .. n - 1 |-> q[f(m)]] BY <3>1
      <3> HIDE DEF f, g
      <3>4. r = [m \in 1 .. n - 1 |-> q[g(m)]] BY <3>2, <3>3
      <3> QED BY <3>4 DEF g
    <2>7. r \in Seq(Task) /\ DOMAIN r = 1 .. n - 1
      BY <2>6, <1>0
    <2>8. Distinct(r)
      BY <2>6, <2>7, <1>0 DEF Distinct
    <2>9. Elems(r) = Elems(q) \ {id}
      <3>1. \A m \in 1 .. n - 1 : r[m] \in Elems(q) \ {id}
        BY <2>6, <2>1, <1>0 DEF Elems, Distinct
      <3>2. \A i \in 1 .. n : q[i] # id => \E m \in 1 .. n - 1 : r[m] = q[i]
        <4> SUFFICES ASSUME NEW i \in 1 .. n, q[i] # id
                     PROVE \E m \in 1 .. n - 1 : r[m] = q[i]
          OBVIOUS
        <4>1. CASE i < k
          <5>1. i \in 1 .. n - 1 BY <4>1, <1>0
          <5> QED BY <5>1, <2>6, <4>1
        <4>2. CASE i > k
          <5>1. i - 1 \in 1 .. n - 1 /\ ~(i - 1 < k) /\ (i - 1) + 1 = i
            BY <4>2, <1>0
          <5> QED BY <5>1, <2>6
        <4> QED BY <4>1, <4>2, <2>1
      <3>3. Elems(r) \subseteq Elems(q) \ {id}
        BY <3>1, <2>7 DEF Elems
      <3>4. Elems(q) \ {id} \subseteq Elems(r)
        BY <3>2, <2>7, <1>0 DEF Elems
      <3> QED BY <3>3, <3>4
    <2>10. \A a, b \in Task : Before(r, a, b) => Before(q, a, b)
      <3> SUFFICES ASSUME NEW a \in Task, NEW b \in Task, Before(r, a, b)
                   PROVE  Before(q, a, b)
        OBVIOUS
      <3>1. PICK i \in 1 .. n - 1, j \in 1 .. n - 1 : i < j /\ r[i] = a /\ r[j] = b
        BY <2>7 DEF Before
      <3>2. PICK g \in 1 .. n : g = IF i < k THEN i ELSE i + 1 BY <1>0
      <3>3. PICK h \in 1 .. n : h = IF j < k THEN j ELSE j + 1 BY <1>0
      <3>4. g < h /\ q[g] = a /\ q[h] = b BY <2>6, <3>1, <3>2, <3>3, <1>0
      <3> QED BY <1>0, <3>4 DEF Before
    <2> QED BY <2>7, <2>8, <2>9, <2>10 DEF r
  <1> QED BY <1>1, <1>2

-----------------------------------------------------------------------------
(* The inductive invariant, for any triple of task states, current task    *)
(* and queue: schedule is also run on the intermediate triples of          *)
(* block_current and terminate_current.                                    *)
Consistent(ts, cur, q) ==
    /\ ts \in [Task -> TaskState]
    /\ cur \in Task \cup {None}
    /\ q \in Seq(Task)
    /\ Distinct(q)
    /\ Elems(q) = {t \in Task : ts[t] \in Runnable}
    /\ \A t \in Task : ts[t] = "Running" => cur = t
    /\ cur # None => ts[cur] \notin {"Absent", "Terminated"}

SchedIInv == SchedTypeOK /\ ReadyQueueExact /\ RunningIsCurrent

(* SchedIInv is Consistent of the three fields. *)
LEMMA IInvIsConsistent == SchedIInv <=> Consistent(tasks, current_task, ready_queue)
  BY DEF SchedIInv, SchedTypeOK, ReadyQueueExact, RunningIsCurrent,
         NoDuplicates, Queued, Consistent, Distinct, Elems

(* schedule keeps a consistent triple consistent, changes no task's        *)
(* standing (runnable, blocked, terminated), and gives the CPU to a queued *)
(* task if there is one.                                                   *)
LEMMA ScheduleFromLemma ==
    ASSUME NEW ts, NEW cur, NEW q,
           Consistent(ts, cur, q), ScheduleFrom(ts, cur, q)
    PROVE  /\ SchedIInv'
           /\ \A t \in Task : tasks'[t] \in Runnable <=> ts[t] \in Runnable
           /\ \A t \in Task : tasks'[t] = "Blocked" <=> ts[t] = "Blocked"
           /\ \A t \in Task : tasks'[t] = "Terminated" <=> ts[t] = "Terminated"
           /\ IF Elems(q) = {} THEN current_task' = cur
                               ELSE current_task' \in Elems(q)
  <1> USE NoneAssumption
  <1>0. /\ ts \in [Task -> TaskState] /\ cur \in Task \cup {None}
        /\ q \in Seq(Task) /\ Distinct(q)
        /\ Elems(q) = {t \in Task : ts[t] \in Runnable}
        /\ \A t \in Task : ts[t] = "Running" => cur = t
        /\ cur # None => ts[cur] \notin {"Absent", "Terminated"}
    BY DEF Consistent
  <1> DEFINE put == MarkPreviousReady(ts, cur)
  <1>1. /\ put \in [Task -> TaskState]
        /\ \A t \in Task : put[t] # "Running"
        /\ \A t \in Task : put[t] \in Runnable <=> ts[t] \in Runnable
        /\ \A t \in Task : put[t] = "Blocked" <=> ts[t] = "Blocked"
        /\ \A t \in Task : put[t] = "Terminated" <=> ts[t] = "Terminated"
    BY <1>0 DEF MarkPreviousReady, TaskState, Runnable
  <1>2. CASE q = <<>>
    <2>1. tasks' = ts /\ current_task' = cur /\ ready_queue' = q
      BY <1>2 DEF ScheduleFrom, Chosen, Requeue
    <2>2. Elems(q) = {} BY <1>2 DEF Elems
    <2>3. SchedIInv'
      BY <1>0, <2>1 DEF SchedIInv, SchedTypeOK, ReadyQueueExact, RunningIsCurrent,
                        NoDuplicates, Queued, Distinct, Elems
    <2> QED BY <2>1, <2>2, <2>3
  <1>3. CASE q # <<>>
    <2> DEFINE h == Head(q)
    <2>1. h \in Elems(q) /\ h \in Task
      BY <1>0, <1>3 DEF Elems
    <2>2. put[h] = "Ready"
      BY <2>1, <1>0, <1>1 DEF Runnable
    <2>3. h # None BY <2>1
    <2>4. /\ tasks' = [put EXCEPT ![h] = "Running"]
          /\ current_task' = h
          /\ ready_queue' = Append(Tail(q), h)
      BY <1>3, <2>2, <2>3 DEF ScheduleFrom, Chosen, Requeue
    <2>5. /\ ready_queue' \in Seq(Task)
          /\ Distinct(ready_queue')
          /\ Elems(ready_queue') = Elems(q)
      BY <1>0, <1>3, <2>4, RotateLemma
    <2> HIDE DEF put, h
    <2>6. SchedTypeOK'
      BY <1>1, <2>1, <2>4, <2>5 DEF SchedTypeOK, TaskState
    <2>7. /\ \A t \in Task : tasks'[t] \in Runnable <=> ts[t] \in Runnable
          /\ \A t \in Task : tasks'[t] = "Blocked" <=> ts[t] = "Blocked"
          /\ \A t \in Task : tasks'[t] = "Terminated" <=> ts[t] = "Terminated"
      BY <1>1, <2>1, <2>2, <2>4 DEF Runnable
    <2>8. ReadyQueueExact'
      <3>1. NoDuplicates' BY <2>5 DEF Distinct, NoDuplicates
      <3>2. Queued' = Elems(ready_queue') BY DEF Queued, Elems
      <3> QED BY <1>0, <3>1, <3>2, <2>5, <2>7 DEF ReadyQueueExact
    <2>9. RunningIsCurrent'
      BY <1>1, <2>1, <2>3, <2>4 DEF RunningIsCurrent
    <2> QED BY <2>1, <2>4, <2>6, <2>7, <2>8, <2>9 DEF SchedIInv
  <1> QED BY <1>2, <1>3

(* What block_current and terminate_current hand to schedule is            *)
(* consistent: the current task is out of the queue, and after a           *)
(* termination nobody is Running.                                          *)
LEMMA TakeOutLemma ==
    ASSUME SchedIInv, current_task # None,
           NEW final \in {"Blocked", "Terminated"},
           NEW cur, cur = IF final = "Blocked" THEN current_task ELSE None
    PROVE  /\ current_task \in Task
           /\ Elems(retain(ready_queue, current_task)) = Elems(ready_queue) \ {current_task}
           /\ Consistent([tasks EXCEPT ![current_task] = final], cur,
                         retain(ready_queue, current_task))
  <1> USE NoneAssumption
  <1> DEFINE ts == [tasks EXCEPT ![current_task] = final]
             q  == retain(ready_queue, current_task)
  <1>0. Consistent(tasks, current_task, ready_queue) BY IInvIsConsistent
  <1>1. current_task \in Task BY <1>0 DEF Consistent
  <1>2. /\ q \in Seq(Task) /\ Distinct(q)
        /\ Elems(q) = Elems(ready_queue) \ {current_task}
    BY <1>0, RetainLemma DEF Consistent
  <1> HIDE DEF q
  <1>3. /\ ts \in [Task -> TaskState]
        /\ Elems(q) = {t \in Task : ts[t] \in Runnable}
        /\ \A t \in Task : ts[t] # "Running"
        /\ ts[current_task] = final
    BY <1>0, <1>1, <1>2 DEF Consistent, TaskState, Runnable
  <1> HIDE DEF ts
  <1>4. Consistent(ts, cur, q)
    BY <1>1, <1>2, <1>3 DEF Consistent
  <1> QED BY <1>1, <1>2, <1>4 DEF q, ts

(* add_task and unblock_task: a task that is in no queue becomes Ready and *)
(* goes to the back.                                                       *)
LEMMA PushLemma ==
    ASSUME SchedIInv, NEW t \in Task, tasks[t] \in {"Absent", "Blocked"},
           tasks' = [tasks EXCEPT ![t] = "Ready"],
           ready_queue' = Append(ready_queue, t),
           current_task' = current_task
    PROVE  SchedIInv'
  <1> USE NoneAssumption
  <1> DEFINE n == Len(ready_queue)
  <1>1. /\ ready_queue \in Seq(Task) /\ n \in Nat
        /\ DOMAIN ready_queue = 1 .. n
    BY DEF SchedIInv, SchedTypeOK
  <1>2. /\ ready_queue' \in Seq(Task) /\ DOMAIN ready_queue' = 1 .. n + 1
        /\ \A i \in 1 .. n : ready_queue'[i] = ready_queue[i]
        /\ ready_queue'[n + 1] = t
    BY <1>1
  <1>3. t \notin Queued
    BY DEF SchedIInv, ReadyQueueExact, Runnable
  <1> HIDE DEF n
  <1>4. SchedTypeOK'
    BY <1>2 DEF SchedIInv, SchedTypeOK, TaskState
  <1>5. NoDuplicates'
    <2>1. \A i \in 1 .. n : ready_queue[i] # t BY <1>1, <1>3 DEF Queued
    <2> QED BY <2>1, <1>1, <1>2 DEF SchedIInv, ReadyQueueExact, NoDuplicates
  <1>6. Queued' = Queued \cup {t}
    <2>1. Queued' = {ready_queue'[i] : i \in 1 .. n + 1} BY <1>2 DEF Queued
    <2>2. Queued = {ready_queue[i] : i \in 1 .. n} BY <1>1 DEF Queued
    <2>3. n + 1 \in 1 .. n + 1 /\ \A i \in 1 .. n + 1 : i \in 1 .. n \/ i = n + 1
      BY <1>1
    <2>4. \A i \in 1 .. n : i \in 1 .. n + 1 BY <1>1
    <2> QED BY <2>1, <2>2, <2>3, <2>4, <1>2
  <1>7. ReadyQueueExact'
    <2>1. tasks \in [Task -> TaskState] BY DEF SchedIInv, SchedTypeOK
    <2> QED BY <2>1, <1>5, <1>6 DEF SchedIInv, ReadyQueueExact, Runnable
  <1>8. RunningIsCurrent'
    BY DEF SchedIInv, SchedTypeOK, RunningIsCurrent, TaskState
  <1> QED BY <1>4, <1>7, <1>8 DEF SchedIInv

-----------------------------------------------------------------------------
(* Every method of Scheduler preserves the invariant. *)
LEMMA SchedStep == SchedIInv /\ [SchedNext]_schedVars => SchedIInv'
  <1> SUFFICES ASSUME SchedIInv, [SchedNext]_schedVars PROVE SchedIInv'
    OBVIOUS
  <1>1. ASSUME NEW t \in Task, add_task(t) PROVE SchedIInv'
    BY <1>1, PushLemma DEF add_task
  <1>2. ASSUME NEW t \in Task, unblock_task(t) PROVE SchedIInv'
    BY <1>2, PushLemma DEF unblock_task
  <1>3. CASE schedule
    BY <1>3, IInvIsConsistent, ScheduleFromLemma DEF schedule
  <1>4. CASE block_current
    BY <1>4, TakeOutLemma, ScheduleFromLemma DEF block_current
  <1>5. CASE terminate_current
    BY <1>5, TakeOutLemma, ScheduleFromLemma DEF terminate_current
  <1>6. CASE UNCHANGED schedVars
    BY <1>6 DEF schedVars, SchedIInv, SchedTypeOK, ReadyQueueExact, NoDuplicates,
                Queued, RunningIsCurrent
  <1> QED BY <1>1, <1>2, <1>3, <1>4, <1>5, <1>6 DEF SchedNext

(* Every sequence of calls keeps the fields well typed, the ready queue    *)
(* exact and at most one task Running, whatever the set of tasks.          *)
THEOREM SchedInvariant == SchedSpec => []SchedIInv
  <1>1. SchedulerNew => SchedIInv
    BY NoneAssumption
    DEF SchedulerNew, SchedIInv, SchedTypeOK, ReadyQueueExact, NoDuplicates,
        Queued, RunningIsCurrent, TaskState, Runnable
  <1> QED BY <1>1, SchedStep, PTL DEF SchedSpec

(* The fields of the scheduler keep their types. *)
THEOREM SchedTypeCorrect == SchedSpec => []SchedTypeOK
  BY SchedInvariant, PTL DEF SchedIInv

(* The ready queue holds each runnable task exactly once. *)
THEOREM QueueIsExact == SchedSpec => []ReadyQueueExact
  BY SchedInvariant, PTL DEF SchedIInv

(* At most one task is Running and current_task names it. *)
THEOREM OneRunning == SchedSpec => []RunningIsCurrent
  BY SchedInvariant, PTL DEF SchedIInv

-----------------------------------------------------------------------------
(* A step of the scheduler is a step of TaskLifecycle. *)
LEMMA LifeStep == SchedIInv /\ [SchedNext]_schedVars => [Life!LifeNext]_(Life!lifeVars)
  <1> SUFFICES ASSUME SchedIInv, [SchedNext]_schedVars
               PROVE  [Life!LifeNext]_(Life!lifeVars)
    OBVIOUS
  <1> USE NoneAssumption
  <1> DEFINE runnable == {t \in Task : tasks[t] \in Runnable}
             blocked == {t \in Task : tasks[t] = "Blocked"}
             finished == {t \in Task : tasks[t] = "Terminated"}
  <1>0. Consistent(tasks, current_task, ready_queue) BY IInvIsConsistent
  <1>00. tasks \in [Task -> TaskState] /\ Elems(ready_queue) = runnable
    BY <1>0 DEF Consistent
  <1>1. ASSUME NEW t \in Task, add_task(t) PROVE Life!Admit(t)
    BY <1>1, <1>00 DEF add_task, Life!Admit, Runnable
  <1>2. ASSUME NEW t \in Task, unblock_task(t) PROVE Life!Wake(t)
    BY <1>2, <1>00 DEF unblock_task, Life!Wake, Runnable
  <1>3. ASSUME schedule PROVE Life!Dispatch
    <2>1. /\ runnable' = runnable /\ blocked' = blocked /\ finished' = finished
          /\ IF runnable = {} THEN current_task' = current_task
                              ELSE current_task' \in runnable
      BY <1>3, <1>0, <1>00, ScheduleFromLemma DEF schedule
    <2> QED BY <2>1 DEF Life!Dispatch, Life!HandOver
  <1>4. ASSUME block_current PROVE Life!Block
    <2> DEFINE ts == [tasks EXCEPT ![current_task] = "Blocked"]
               q == retain(ready_queue, current_task)
    <2>1. current_task # None /\ ScheduleFrom(ts, current_task, q)
      BY <1>4 DEF block_current
    <2>2. /\ current_task \in Task
          /\ Elems(q) = runnable \ {current_task}
          /\ Consistent(ts, current_task, q)
      BY <2>1, <1>00, TakeOutLemma
    <2> HIDE DEF q
    <2>3. /\ \A t \in Task : ts[t] \in Runnable <=> t \in runnable \ {current_task}
          /\ \A t \in Task : ts[t] = "Blocked" <=> t \in blocked \cup {current_task}
          /\ \A t \in Task : ts[t] = "Terminated" => t \in finished
          /\ \A t \in finished : t # current_task /\ ts[t] = "Terminated"
      BY <2>2, <1>0, <1>00 DEF Runnable, Consistent
    <2> HIDE DEF ts
    <2>4. /\ runnable' = runnable \ {current_task}
          /\ blocked' = blocked \cup {current_task}
          /\ finished' = finished
          /\ IF runnable \ {current_task} = {} THEN current_task' = current_task
                                ELSE current_task' \in runnable \ {current_task}
      BY <2>1, <2>2, <2>3, ScheduleFromLemma
    <2> QED BY <2>1, <2>4 DEF Life!Block, Life!HandOver
  <1>5. ASSUME terminate_current PROVE Life!Finish
    <2> DEFINE ts == [tasks EXCEPT ![current_task] = "Terminated"]
               q == retain(ready_queue, current_task)
    <2>1. current_task # None /\ ScheduleFrom(ts, None, q)
      BY <1>5 DEF terminate_current
    <2>2. /\ current_task \in Task
          /\ Elems(q) = runnable \ {current_task}
          /\ Consistent(ts, None, q)
      BY <2>1, <1>00, TakeOutLemma
    <2> HIDE DEF q
    <2>3. /\ \A t \in Task : ts[t] \in Runnable <=> t \in runnable \ {current_task}
          /\ \A t \in Task : ts[t] = "Blocked" <=> t \in blocked \ {current_task}
          /\ \A t \in Task : ts[t] = "Terminated" <=> t \in finished \cup {current_task}
      BY <2>2, <1>00 DEF Runnable
    <2> HIDE DEF ts
    <2>4. /\ runnable' = runnable \ {current_task}
          /\ blocked' = blocked \ {current_task}
          /\ finished' = finished \cup {current_task}
          /\ IF runnable \ {current_task} = {} THEN current_task' = None
                                ELSE current_task' \in runnable \ {current_task}
      BY <2>1, <2>2, <2>3, ScheduleFromLemma
    <2> QED BY <2>1, <2>4 DEF Life!Finish, Life!HandOver
  <1>6. CASE UNCHANGED schedVars
    BY <1>6 DEF schedVars, Life!lifeVars
  <1> QED BY <1>1, <1>2, <1>3, <1>4, <1>5, <1>6 DEF SchedNext, Life!LifeNext

(* The scheduler implements the safety part of its abstract specification. *)
THEOREM ImplementsLifecycleSafety == SchedSpec => LifecycleSafety
  <1>1. SchedulerNew => Life!LifeInit
    BY DEF SchedulerNew, Life!LifeInit, Runnable
  <1> QED BY <1>1, SchedInvariant, LifeStep, PTL
          DEF SchedSpec, LifecycleSafety, Life!LifeSafety

(* On a queue without repetitions Before is asymmetric. *)
LEMMA BeforeIsStrict ==
    ASSUME NEW q \in Seq(Task), Distinct(q), NEW a \in Task, NEW b \in Task,
           Before(q, a, b)
    PROVE  ~Before(q, b, a) /\ a \in Elems(q)
  <1>1. PICK i \in DOMAIN q, j \in DOMAIN q : i < j /\ q[i] = a /\ q[j] = b BY DEF Before
  <1>2. ASSUME NEW k \in DOMAIN q, NEW l \in DOMAIN q, k < l, q[k] = b, q[l] = a
        PROVE  FALSE
    <2>1. k = j /\ l = i BY <1>1, <1>2 DEF Distinct
    <2>2. DOMAIN q = 1 .. Len(q) OBVIOUS
    <2> QED BY <1>1, <1>2, <2>1, <2>2
  <1> QED BY <1>1, <1>2 DEF Before, Elems

(* Pushing an id back puts nobody in front of the others. *)
LEMMA PushOrder ==
    ASSUME NEW q \in Seq(Task), NEW t \in Task, NEW a \in Task, NEW b \in Task,
           Before(Append(q, t), b, a), a # t
    PROVE  Before(q, b, a)
  <1>1. PICK i \in 1 .. Len(q) + 1, j \in 1 .. Len(q) + 1 :
          i < j /\ Append(q, t)[i] = b /\ Append(q, t)[j] = a
    BY DEF Before
  <1>2. j # Len(q) + 1 BY <1>1
  <1>3. i \in 1 .. Len(q) /\ j \in 1 .. Len(q) BY <1>1, <1>2
  <1> QED BY <1>1, <1>3 DEF Before

(* Of a queue that schedule has rotated, only the id now at the back, the  *)
(* one that got the CPU, has been overtaken.                               *)
LEMMA RotateOrder ==
    ASSUME NEW ts, NEW cur, NEW q \in Seq(Task), ScheduleFrom(ts, cur, q),
           NEW a \in Task, NEW b \in Task, Before(ready_queue', b, a)
    PROVE  Before(q, b, a) \/ current_task' = a
  <1>1. CASE q = <<>>
    BY <1>1 DEF ScheduleFrom, Chosen
  <1>2. CASE q # <<>>
    <2>1. PICK p \in Seq(Task) : p = Tail(q)
      <3>1. Tail(q) \in Seq(Task) BY <1>2
      <3> QED BY <3>1
    <2>2. Before(p, b, a) => Before(q, b, a)
      <3> SUFFICES ASSUME Before(p, b, a) PROVE Before(q, b, a)
        OBVIOUS
      <3>1. PICK i \in 1 .. Len(p), j \in 1 .. Len(p) : i < j /\ p[i] = b /\ p[j] = a
        BY DEF Before
      <3>2. /\ Len(p) = Len(q) - 1 /\ Len(q) \in Nat
            /\ \A n \in 1 .. Len(p) : p[n] = q[n + 1]
        BY <1>2, <2>1
      <3>3. /\ i + 1 \in 1 .. Len(q) /\ j + 1 \in 1 .. Len(q) /\ i + 1 < j + 1
            /\ q[i + 1] = b /\ q[j + 1] = a
        BY <3>1, <3>2
      <3> QED BY <3>3 DEF Before
    <2>3. CASE Chosen(ts, cur, q) # None
      <3>1. PICK h \in Task : h = Head(q) BY <1>2
      <3>2. ready_queue' = Append(p, h) /\ current_task' = h
        BY <2>1, <2>3, <3>1 DEF ScheduleFrom, Chosen, Requeue
      <3>3. CASE a = h BY <3>2, <3>3
      <3>4. CASE a # h BY <2>2, <3>2, <3>4, PushOrder
      <3> QED BY <3>3, <3>4
    <2>4. CASE Chosen(ts, cur, q) = None
      <3>1. ready_queue' = p BY <1>2, <2>1, <2>4 DEF ScheduleFrom
      <3> QED BY <2>2, <3>1
    <2> QED BY <2>3, <2>4
  <1> QED BY <1>1, <1>2

(* Round robin for any number of tasks: whatever method is called, the     *)
(* only task that others pass in the queue is the one that gets the CPU.   *)
THEOREM NobodyOvertakes == SchedSpec => NoOvertaking
  <1>1. SchedIInv /\ [SchedNext]_schedVars
          => [\A a, b \in Task :
                 Before(ready_queue, a, b) /\ Before(ready_queue', b, a)
                     => current_task' = a]_schedVars
    <2> SUFFICES ASSUME SchedIInv, SchedNext, NEW a \in Task, NEW b \in Task,
                        Before(ready_queue, a, b), Before(ready_queue', b, a)
                 PROVE  current_task' = a
      OBVIOUS
    <2>1. ready_queue \in Seq(Task) /\ Distinct(ready_queue)
      BY IInvIsConsistent DEF Consistent
    <2>2. PICK q \in Seq(Task) : q = ready_queue BY <2>1
    <2>3. Distinct(q) /\ ~Before(q, b, a) /\ a \in Elems(q)
      BY <2>1, <2>2, BeforeIsStrict
    <2>4. ASSUME NEW t \in Task, add_task(t) \/ unblock_task(t) PROVE FALSE
      <3>1. ready_queue' = Append(q, t) /\ tasks[t] \notin Runnable
        BY <2>2, <2>4 DEF add_task, unblock_task, Runnable
      <3>2. tasks[a] \in Runnable
        BY <2>2, <2>3, IInvIsConsistent DEF Consistent
      <3> QED BY <2>3, <3>1, <3>2, PushOrder
    <2>5. CASE schedule BY <2>2, <2>3, <2>5, RotateOrder DEF schedule
    <2>6. ASSUME block_current \/ terminate_current PROVE current_task' = a
      <3>1. PICK p \in Seq(Task) : p = retain(q, current_task) BY <2>3, RetainLemma
      <3>2. ~Before(p, b, a) BY <2>3, <3>1, RetainLemma
      <3>3. PICK ts, cur : ScheduleFrom(ts, cur, p)
        BY <2>2, <2>6, <3>1 DEF block_current, terminate_current
      <3> QED BY <3>2, <3>3, RotateOrder
    <2> QED BY <2>4, <2>5, <2>6 DEF SchedNext
  <1> QED BY <1>1, SchedInvariant, PTL DEF SchedSpec, NoOvertaking

(* A terminated task stays terminated, whatever is called afterwards. *)
THEOREM TerminationIsFinal == SchedSpec => TerminatedIsFinal
  <1>1. SchedIInv /\ [SchedNext]_schedVars
          => [\A t \in Task : tasks[t] = "Terminated" => tasks'[t] = "Terminated"]_schedVars
    <2> SUFFICES ASSUME SchedIInv, [SchedNext]_schedVars
                 PROVE  \/ \A t \in Task : tasks[t] = "Terminated" => tasks'[t] = "Terminated"
                        \/ UNCHANGED schedVars
      OBVIOUS
    <2> DEFINE finished == {t \in Task : tasks[t] = "Terminated"}
    <2>1. [Life!LifeNext]_(Life!lifeVars) BY LifeStep
    <2>2. finished \subseteq finished'
      BY <2>1 DEF Life!LifeNext, Life!lifeVars, Life!Admit, Life!Wake, Life!Dispatch,
                  Life!Block, Life!Finish
    <2> QED BY <2>2
  <1> QED BY <1>1, SchedInvariant, PTL DEF SchedSpec, TerminatedIsFinal

=============================================================================
