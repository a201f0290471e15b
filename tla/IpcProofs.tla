----------------------------- MODULE IpcProofs -----------------------------
(***************************************************************************)
(* The safety of Ipc for every set of tasks and endpoints, every set of    *)
(* programs, every queue size and every place a tick may fall: its         *)
(* inductive invariant, that the endpoints implement Mailbox, and when the *)
(* registers a switch restores are the latest of their task.               *)
(***************************************************************************)
EXTENDS Ipc, SchedulerProofs

CapSlot == [ep : Endpoint, rights : SUBSET {"read", "write"}] \cup {NoCap}

(* Where a program has not sent anything yet; where a sender sends. *)
Starting == {"new", "setup", "ident", "cspace"}

Sending == {"send", "waking", "sent"}

Receiving == {"ident", "create", "poll", "register", "block"}

(* The types of the history and of the capabilities; somebody is always    *)
(* current, because no program of Ipc terminates.                          *)
HistoryTypes ==
    /\ current_task \in Task
    /\ cap \in [Task -> CapSlot] /\ granted \in [Task -> CapSlot]
    /\ snapshot \in [Task -> CapSlot]
    /\ sent \in [Endpoint -> Seq(Message)] /\ received \in [Endpoint -> Seq(Message)]

SendingInRange == \A t \in Task : pc[t] = "send" => n[t] <= Count

(* The places of a program belong to the tasks that run it. *)
Roles ==
    \A t \in Task : /\ pc[t] \in Sending \cup {"setup"} => t \in Senders
                    /\ pc[t] \in Receiving => t \notin Senders
                    /\ pc[t] \in {"register", "block"} => t \in Blockers

(* The tasks whose programs never call receive_message_blocking.  Such a   *)
(* task runs under its own name: it is current while it executes, its      *)
(* latest registers are in its own TaskContext, and it is not started      *)
(* twice.  Only then do current_task_id and current_task_cspace return its *)
(* own.                                                                    *)
Tame == Senders \cup (Task \ Blockers)

OwnName(t) ==
    /\ cpu = t => current_task = t
    /\ live[t] \in {None, t}
    /\ pc[t] # "new" => cpu = t \/ context[t] # None

OwnNames == \A t \in Tame : OwnName(t)

Identified ==
    \A t \in Task : pc[t] \in Sending \cup Receiving \cup {"cspace"} /\ pc[t] # "ident"
                      => id[t] \in Task /\ (t \in Senders => id[t] = t)

(* What a task holds, and what a sender has cloned, is what it was given. *)
CapsAreGranted ==
    /\ \A t \in Task : cap[t] \in {NoCap, granted[t]}
    /\ \A t \in Senders : snapshot[t] \in {NoCap, granted[t]}

(* The numbers of the messages a task has sent lie below its counter. *)
Behind(t, k) ==
    /\ t \in Senders /\ pc[t] \notin Starting
    /\ pc[t] = "send" => k < n[t]
    /\ pc[t] \in {"waking", "sent"} => k <= n[t]

NumbersBehind ==
    \A e \in Endpoint : \A i \in DOMAIN sent[e] : Behind(sent[e][i].sender, sent[e][i].n)

(* The invariant without the scheduler's own part. *)
ProgramInv ==
    /\ IpcTypeOK /\ HistoryTypes
    /\ SendingInRange /\ Roles /\ OwnNames /\ Identified /\ CapsAreGranted /\ NumbersBehind

IpcIInv == SchedIInv /\ ProgramInv

-----------------------------------------------------------------------------
(* task_yield is a call of schedule; whoever it switches to without a      *)
(* blocking receive in its program runs under its own name, and is started *)
(* at its entry only once.                                                 *)
LEMMA YieldLemma ==
    ASSUME IpcIInv, cpu # None, NEW loc \in Location, task_yield(loc)
    PROVE  /\ [SchedNext]_schedVars
           /\ current_task' \in Task /\ cpu' \in Task \cup {None}
           /\ context' \in [Task -> Task \cup {None}] /\ live' \in [Task -> Task \cup {None}]
           /\ pc' \in [Task -> Location]
           /\ \A t \in Task : t # cpu => pc'[t] \in {pc[t], "new"}
           /\ pc'[cpu] \in {loc, "new"}
           /\ \A t \in Tame : pc[t] # "new" => pc'[t] = IF t = cpu THEN loc ELSE pc[t]
           /\ OwnNames'
  <1> USE NoneAssumption
  <1> DEFINE next == ScheduleReturns
  <1>0. /\ current_task \in Task /\ cpu \in Task /\ context \in [Task -> Task \cup {None}]
        /\ live \in [Task -> Task \cup {None}] /\ pc \in [Task -> Location]
        /\ ready_queue \in Seq(Task)
        /\ "new" \in Location
    BY DEF IpcIInv, ProgramInv, IpcTypeOK, HistoryTypes, SchedTypeOK, Location
  <1>n. OwnNames /\ Tame \subseteq Task
    BY IpcAssumption DEF IpcIInv, ProgramInv, Tame
  <1>1. next \in Task \cup {None}
    BY <1>0 DEF ScheduleReturns, Chosen
  <1>2. current_task # None BY <1>0
  <1>3. schedule BY <1>2 DEF task_yield
  <1>4. current_task' = IF next # None THEN next ELSE current_task
    BY <1>3 DEF schedule, ScheduleFrom, ScheduleReturns
  <1>5. [SchedNext]_schedVars BY <1>3 DEF SchedNext
  <1>6. CASE next \notin {None, current_task}
    <2>1. /\ SaveUnder(current_task)
          /\ pc' = [t \in Task |-> IF t = next /\ context[t] = None THEN "new"
                                   ELSE IF t = cpu THEN loc ELSE pc[t]]
      BY <1>2, <1>6 DEF task_yield, Switching, SwitchContext, Restarts
    <2>2. current_task' = next /\ next \in Task BY <1>1, <1>4, <1>6
    <2>3. \/ context[next] = None /\ Resumed = next
          \/ context[next] \in Task /\ live[context[next]] = next /\ Resumed = context[next]
          \/ context[next] \in Task /\ Resumed = None
      BY <2>2, <1>0 DEF Resumed
    <2>4. Resumed \in Task \cup {None} BY <2>2, <2>3
    <2>5. /\ context' = [context EXCEPT ![current_task] = cpu]
          /\ live' = [t \in Task |-> IF t = Resumed THEN None
                                     ELSE IF t = cpu THEN current_task ELSE live[t]]
          /\ cpu' = Resumed
      BY <2>1 DEF SaveUnder
    <2> HIDE DEF next
    <2>6. ASSUME NEW t \in Tame PROVE OwnName(t)'
      <3>0. t \in Task /\ OwnName(t) BY <1>n DEF OwnNames
      <3>1. cpu' = t => current_task' = t
        BY <2>2, <2>3, <2>5, <3>0, <1>0 DEF OwnName
      <3>2. live'[t] \in {None, t}
        BY <2>5, <3>0, <1>0 DEF OwnName
      <3>3. pc'[t] # "new" => cpu' = t \/ context'[t] # None
        BY <2>1, <2>5, <3>0, <1>0 DEF OwnName
      <3> QED BY <3>1, <3>2, <3>3 DEF OwnName
    <2>7. ASSUME NEW t \in Tame, pc[t] # "new"
          PROVE  pc'[t] = IF t = cpu THEN loc ELSE pc[t]
      BY <2>1, <2>7, <1>0, <1>6, <1>n DEF OwnNames, OwnName
    <2>8. pc' \in [Task -> Location] BY <2>1, <1>0
    <2>9. /\ \A t \in Task : t # cpu => pc'[t] \in {pc[t], "new"}
          /\ pc'[cpu] \in {loc, "new"}
      BY <2>1, <1>0
    <2> QED BY <2>2, <2>4, <2>5, <2>6, <2>7, <2>8, <2>9, <1>0, <1>5 DEF OwnNames
  <1>7. CASE next \in {None, current_task}
    <2>1. /\ cpu' = cpu /\ context' = context /\ live' = live
          /\ pc' = [t \in Task |-> IF t = cpu THEN loc ELSE pc[t]]
      BY <1>7 DEF task_yield, Switching, Restarts
    <2>2. current_task' = current_task BY <1>4, <1>7
    <2> QED BY <2>1, <2>2, <1>0, <1>5, <1>n DEF OwnNames, OwnName
  <1> QED BY <1>6, <1>7

(* What a program does at its yields. *)
Yields(loc) ==
    /\ loc \in Location /\ cpu # None
    /\ task_yield(loc)
    /\ isr' \in BOOLEAN /\ in_service' \in Task \cup {None}
    /\ UNCHANGED <<id, snapshot, waiters, cap, granted, created, messages, waiting_tasks,
                   registry, sent, received, woken>>
    /\ \/ pc[cpu] = loc /\ (loc # "setup" => n' = n)
       \/ pc[cpu] = "sent" /\ loc = "send" /\ n[cpu] + 1 < Count
            /\ n' = [n EXCEPT ![cpu] = n[cpu] + 1]
       \/ pc[cpu] = "sent" /\ loc = "idle"
    /\ n' \in [Task -> Nat] /\ \A t \in Task : t # cpu => n'[t] = n[t]

(* The steps of a program that only yield, and the ticks. *)
LEMMA YieldSteps ==
    ASSUME IpcIInv, SenderSetup \/ SenderYields \/ PollYields \/ Idle \/ Tick
    PROVE  \E loc \in Location : Yields(loc)
  <1> USE NoneAssumption
  <1>0. /\ cpu \in Task \cup {None} /\ pc \in [Task -> Location] /\ n \in [Task -> Nat]
        /\ in_service \in Task \cup {None} /\ isr \in BOOLEAN
    BY DEF IpcIInv, ProgramInv, IpcTypeOK
  <1>1. ASSUME NEW loc \in Location, YieldTo(loc)
        PROVE  /\ isr' \in BOOLEAN /\ in_service' \in Task \cup {None}
               /\ task_yield(loc)
               /\ UNCHANGED <<id, snapshot, waiters, cap, granted, created, messages,
                              waiting_tasks, registry, sent, received, woken>>
    BY <1>0, <1>1 DEF YieldTo, capVars, epVars, histVars
  <1>2. CASE SenderSetup
    <2>1. cpu \in Task /\ pc[cpu] = "setup" /\ YieldTo("setup") /\ "setup" \in Location
          /\ n' = [n EXCEPT ![cpu] = n[cpu] + 1]
      BY <1>0, <1>2 DEF SenderSetup, At, Location
    <2> QED BY <2>1, <1>0, <1>1 DEF Yields
  <1>3. CASE SenderYields
    <2>1. cpu \in Task /\ pc[cpu] = "sent" /\ {"send", "idle"} \subseteq Location
          /\ n' = [n EXCEPT ![cpu] = n[cpu] + 1]
          /\ IF n[cpu] + 1 < Count THEN YieldTo("send") ELSE YieldTo("idle")
      BY <1>0, <1>3 DEF SenderYields, At, Location
    <2>2. CASE n[cpu] + 1 < Count
      <3>1. YieldTo("send") /\ "send" \in Location BY <2>1, <2>2
      <3>2. Yields("send") BY <3>1, <2>1, <2>2, <1>0, <1>1 DEF Yields
      <3> QED BY <3>1, <3>2
    <2>3. CASE ~(n[cpu] + 1 < Count)
      <3>1. YieldTo("idle") /\ "idle" \in Location BY <2>1, <2>3
      <3>2. Yields("idle") BY <3>1, <2>1, <1>0, <1>1 DEF Yields
      <3> QED BY <3>1, <3>2
    <2> QED BY <2>2, <2>3
  <1>4. CASE PollYields
    <2>1. cpu \in Task /\ pc[cpu] = "poll" /\ YieldTo("poll") /\ "poll" \in Location /\ n' = n
      BY <1>0, <1>4 DEF PollYields, At, Location
    <2> QED BY <2>1, <1>0, <1>1 DEF Yields
  <1>5. CASE Idle
    <2>1. cpu \in Task /\ pc[cpu] = "idle" /\ YieldTo("idle") /\ "idle" \in Location /\ n' = n
      BY <1>0, <1>5 DEF Idle, At, Location
    <2> QED BY <2>1, <1>0, <1>1 DEF Yields
  <1>6. CASE Tick
    <2>1. cpu \in Task /\ pc[cpu] \in Location BY <1>0, <1>6 DEF Tick
    <2>2. PICK loc \in Location : loc = pc[cpu] BY <2>1
    <2>3. /\ task_yield(loc) /\ n' = n
          /\ UNCHANGED <<id, snapshot, waiters, cap, granted, created, messages,
                         waiting_tasks, registry, sent, received, woken>>
          /\ isr' = Switching /\ in_service' \in {cpu, None}
      BY <1>6, <2>2 DEF Tick, capVars, epVars, histVars
    <2>4. isr' \in BOOLEAN BY <2>3 DEF Switching
    <2>5. Yields(loc) BY <2>1, <2>2, <2>3, <2>4, <1>0 DEF Yields
    <2> QED BY <2>5
  <1> QED BY <1>2, <1>3, <1>4, <1>5, <1>6

(* Every step of Ipc is a call of one method of Scheduler, or of none, and *)
(* leaves somebody current.                                                *)
LEMMA StepLemma ==
    ASSUME IpcIInv, IpcNext
    PROVE  [SchedNext]_schedVars /\ current_task' \in Task
  <1> USE NoneAssumption
  <1>0. current_task \in Task BY DEF IpcIInv, ProgramInv, HistoryTypes
  <1>1. CASE SenderSetup \/ SenderYields \/ PollYields \/ Idle \/ Tick
    <2>1. PICK loc \in Location : Yields(loc) BY <1>1, YieldSteps
    <2> QED BY <2>1, YieldLemma DEF Yields
  <1>2. CASE UNCHANGED schedVars BY <1>2, <1>0 DEF schedVars
  <1>3. CASE SendWake
    <2>1. /\ cpu \in Task /\ waiters \in [Task -> Seq(Task)] /\ waiters[cpu] # <<>>
      BY <1>3 DEF SendWake, At, IpcIInv, ProgramInv, IpcTypeOK
    <2>2. Head(waiters[cpu]) \in Task BY <2>1
    <2>3. CASE UNCHANGED schedVars BY <2>3, <1>0 DEF schedVars
    <2>4. CASE unblock_task(Head(waiters[cpu]))
      BY <2>2, <2>4, <1>0 DEF SchedNext, unblock_task
    <2> QED BY <1>3, <2>3, <2>4 DEF SendWake
  <1>4. CASE BlockingBlocks
    <2>1. block_current BY <1>4, <1>0 DEF BlockingBlocks
    <2>2. current_task' \in Task
      <3>1. ASSUME NEW q, q \in Seq(Task),
                   ScheduleFrom([tasks EXCEPT ![current_task] = "Blocked"], current_task, q)
            PROVE  current_task' \in Task
        BY <3>1, <1>0 DEF ScheduleFrom, Chosen
      <3>2. retain(ready_queue, current_task) \in Seq(Task)
        BY RetainLemma, IInvIsConsistent DEF IpcIInv, Consistent
      <3> QED BY <3>1, <3>2, <2>1 DEF block_current
    <2> QED BY <2>1, <2>2 DEF SchedNext
  <1> QED BY <1>1, <1>2, <1>3, <1>4
          DEF IpcNext, ProgramStep, SendStep, ReceiveStep, Enter, GetId, GetCSpace,
              SendRefused, SendQueued, SendInto, SendDone, CreateEndpoint,
              PollTakes, BlockingTakes, BlockingDenied, BlockingEmpty,
              BlockingRegisters, Revoke, Then, Alone

-----------------------------------------------------------------------------
(* Steps that send nothing keep the numbers behind the counters. *)
LEMMA NumbersKeep ==
    ASSUME IpcIInv, sent' = sent, n' \in [Task -> Nat],
           \A t \in Senders :
             \/ pc[t] \in Starting
             \/ pc'[t] = pc[t] /\ n'[t] = n[t]
             \/ pc[t] = "sent" /\ pc'[t] = "send" /\ n'[t] = n[t] + 1
             \/ pc[t] \in {"send", "waking"} /\ pc'[t] = "sent" /\ n'[t] = n[t]
             \/ pc'[t] \in {"create", "poll", "register", "block", "idle"}
    PROVE  NumbersBehind'
  <1> SUFFICES ASSUME NEW e \in Endpoint, NEW i \in DOMAIN sent[e]
               PROVE  Behind(sent[e][i].sender, sent[e][i].n)'
    BY DEF NumbersBehind
  <1>1. sent[e][i] \in Message BY DEF IpcIInv, ProgramInv, HistoryTypes
  <1>2. sent[e][i].sender \in Task /\ sent[e][i].n \in Nat BY <1>1 DEF Message
  <1> DEFINE t == sent[e][i].sender
             k == sent[e][i].n
  <1>3. Behind(t, k)
    BY DEF IpcIInv, ProgramInv, NumbersBehind
  <1>4. n[t] \in Nat /\ n'[t] \in Nat BY <1>2 DEF IpcIInv, ProgramInv, IpcTypeOK
  <1>5. t' = t /\ k' = k OBVIOUS
  <1>6. t \in Task /\ k \in Nat BY <1>2
  <1> HIDE DEF t, k
  <1>7. /\ t \in Senders /\ pc'[t] \notin Starting
        /\ pc'[t] = "send" => k < n'[t]
        /\ pc'[t] \in {"waking", "sent"} => k <= n'[t]
    BY <1>3, <1>4, <1>6 DEF Behind, Starting
  <1> QED BY <1>5, <1>7 DEF Behind, t, k

(* A yield keeps the invariant. *)
LEMMA YieldsKeep ==
    ASSUME IpcIInv, SchedTypeOK', NEW loc \in Location, Yields(loc)
    PROVE  ProgramInv'
  <1> USE NoneAssumption
  <1>c. Count \in Nat /\ Senders \subseteq Task BY IpcAssumption
  <1>s. Senders \subseteq Tame BY DEF Tame
  <1>0. /\ IpcTypeOK /\ HistoryTypes /\ SendingInRange /\ Roles /\ OwnNames /\ Identified
        /\ CapsAreGranted /\ NumbersBehind
    BY DEF IpcIInv, ProgramInv
  <1>t. cpu \in Task /\ pc \in [Task -> Location] /\ n \in [Task -> Nat]
    BY <1>0 DEF IpcTypeOK, Yields
  <1>1. /\ current_task' \in Task /\ cpu' \in Task \cup {None}
        /\ context' \in [Task -> Task \cup {None}] /\ live' \in [Task -> Task \cup {None}]
        /\ pc' \in [Task -> Location]
        /\ \A t \in Task : t # cpu => pc'[t] \in {pc[t], "new"}
        /\ pc'[cpu] \in {loc, "new"}
        /\ \A t \in Tame : pc[t] # "new" => pc'[t] = IF t = cpu THEN loc ELSE pc[t]
        /\ OwnNames'
    BY YieldLemma DEF Yields
  <1>2. /\ UNCHANGED <<id, snapshot, waiters, cap, granted, created, messages, waiting_tasks,
                       registry, sent, received, woken>>
        /\ in_service' \in Task \cup {None} /\ isr' \in BOOLEAN
        /\ n' \in [Task -> Nat] /\ \A t \in Task : t # cpu => n'[t] = n[t]
    BY DEF Yields
  <1>3. \/ pc[cpu] = loc /\ (loc # "setup" => n' = n)
        \/ pc[cpu] = "sent" /\ loc = "send" /\ n[cpu] + 1 < Count /\ n'[cpu] = n[cpu] + 1
        \/ pc[cpu] = "sent" /\ loc = "idle"
    BY <1>t DEF Yields
  <1>4. \A t \in Task :
          \/ pc'[t] \in {"new", "idle"}
          \/ pc'[t] = pc[t] /\ (pc[t] # "setup" => n'[t] = n[t])
          \/ pc[t] = "sent" /\ pc'[t] = "send" /\ n'[t] = n[t] + 1 /\ n'[t] < Count
    BY <1>1, <1>2, <1>3, <1>t
  <1>5. IpcTypeOK' /\ HistoryTypes'
    BY <1>0, <1>1, <1>2 DEF IpcTypeOK, HistoryTypes
  <1>6. SendingInRange'
    <2> SUFFICES ASSUME NEW t \in Task, pc'[t] = "send" PROVE n'[t] <= Count
      BY DEF SendingInRange
    <2>1. n[t] \in Nat /\ n'[t] \in Nat BY <1>2, <1>t
    <2>2. pc[t] = "send" => n[t] <= Count BY <1>0 DEF SendingInRange
    <2> QED BY <2>1, <2>2, <1>4, <1>c
  <1>7. Roles' BY <1>0, <1>4 DEF Roles, Sending, Receiving
  <1>8. Identified' BY <1>0, <1>2, <1>4 DEF Identified, Sending, Receiving
  <1>9. CapsAreGranted' BY <1>0, <1>2 DEF CapsAreGranted
  <1>10. NumbersBehind'
    <2>1. ASSUME NEW t \in Senders
          PROVE  \/ pc[t] \in Starting
                 \/ pc'[t] = pc[t] /\ n'[t] = n[t]
                 \/ pc[t] = "sent" /\ pc'[t] = "send" /\ n'[t] = n[t] + 1
                 \/ pc'[t] = "idle"
      <3>1. t \in Task /\ (pc'[t] = "new" => pc[t] = "new" \/ loc = "new")
        BY <1>1, <1>c, <1>s
      <3>2. t = cpu /\ pc'[t] = "new" => pc[t] = "new"
        BY <1>1, <1>3, <1>c, <1>s
      <3>3. pc'[t] = "new" => pc[t] = "new" BY <1>1, <1>c, <1>s, <3>2
      <3> QED BY <3>1, <3>3, <1>4 DEF Starting
    <2> QED BY <2>1, <1>2, NumbersKeep
  <1> QED BY <1>1, <1>5, <1>6, <1>7, <1>8, <1>9, <1>10 DEF ProgramInv

(* The steps that stay on the CPU and leave the queues alone. *)
LEMMA QuietStepsKeep ==
    ASSUME IpcIInv, SchedTypeOK', current_task' \in Task,
           \/ Enter \/ GetId \/ GetCSpace
           \/ SendRefused \/ SendWake \/ SendDone \/ CreateEndpoint
           \/ BlockingDenied \/ BlockingEmpty \/ BlockingRegisters \/ BlockingBlocks
           \/ \E t \in Task : Revoke(t)
    PROVE  ProgramInv'
  <1> USE NoneAssumption
  <1>c. Count \in Nat /\ Creates \in [Task -> Endpoint] /\ Senders \subseteq Task
    BY IpcAssumption
  <1>0. /\ IpcTypeOK /\ HistoryTypes /\ SendingInRange /\ Roles /\ OwnNames /\ Identified
        /\ CapsAreGranted /\ NumbersBehind
    BY DEF IpcIInv, ProgramInv
  <1>t. /\ cpu \in Task \cup {None} /\ context \in [Task -> Task \cup {None}]
        /\ pc \in [Task -> Location] /\ n \in [Task -> Nat] /\ id \in [Task -> Task \cup {None}]
        /\ current_task \in Task
        /\ cap \in [Task -> CapSlot] /\ granted \in [Task -> CapSlot]
        /\ snapshot \in [Task -> CapSlot] /\ NoCap \in CapSlot
    BY <1>0 DEF IpcTypeOK, HistoryTypes, CapSlot
  <1>p. (\E t \in Task : Revoke(t)) \/ cpu \in Task
    BY <1>t DEF Enter, GetId, GetCSpace, SendRefused, SendWake, SendDone, CreateEndpoint,
                BlockingDenied, BlockingEmpty, BlockingRegisters, BlockingBlocks, At
  <1>1. UNCHANGED <<cpu, context, live, isr, in_service, granted, messages, sent, received>>
    BY DEF Enter, GetId, GetCSpace, SendRefused, SendWake, SendDone, CreateEndpoint,
           BlockingDenied, BlockingEmpty, BlockingRegisters, BlockingBlocks, Revoke, Then,
           Alone, cpuVars, capVars, epVars, histVars
  <1>2. /\ n' \in [Task -> Nat] /\ pc' \in [Task -> Location]
        /\ \A t \in Task :
             \/ pc'[t] = pc[t] /\ n'[t] = n[t]
             \/ /\ t = cpu
                /\ \/ pc[t] = "new" /\ pc'[t] = "setup" /\ t \in Senders
                   \/ pc[t] = "new" /\ pc'[t] = "ident" /\ t \notin Senders
                   \/ pc[t] = "new" /\ pc'[t] = "idle"
                   \/ pc[t] \in {"setup", "ident"} /\ pc'[t] = "cspace"
                   \/ pc[t] = "cspace" /\ pc'[t] = "send" /\ n'[t] = 0 /\ t \in Senders
                   \/ pc[t] = "cspace" /\ pc'[t] = "create" /\ t \notin Senders
                   \/ pc[t] \in {"send", "waking"} /\ pc'[t] = "sent" /\ n'[t] = n[t]
                   \/ pc[t] \in {"create", "block"} /\ pc'[t] = "poll"
                   \/ pc[t] = "poll" /\ pc'[t] = "idle"
                   \/ pc[t] = "poll" /\ pc'[t] = "register" /\ t \in Blockers
                   \/ pc[t] = "register" /\ pc'[t] = "block"
    <2>1. CASE Enter
      BY <2>1, <1>t, <1>p DEF Enter, Entry, Then, Goto, At, Location
    <2>2. CASE GetId \/ GetCSpace
      BY <2>2, <1>t, <1>p DEF GetId, GetCSpace, Then, Goto, At, Location
    <2>3. CASE SendRefused \/ SendDone
      BY <2>3, <1>t, <1>p DEF SendRefused, SendDone, Then, Goto, At, Location
    <2>4. CASE SendWake \/ \E t \in Task : Revoke(t)
      BY <2>4, <1>t DEF SendWake, Revoke, progVars
    <2>5. CASE CreateEndpoint \/ BlockingDenied \/ BlockingEmpty
      BY <2>5, <1>t, <1>p
      DEF CreateEndpoint, BlockingDenied, BlockingEmpty, Then, Goto, At, Location
    <2>6. CASE BlockingRegisters \/ BlockingBlocks
      BY <2>6, <1>t, <1>p DEF BlockingRegisters, BlockingBlocks, Then, Goto, At, Location
    <2> QED BY <2>1, <2>2, <2>3, <2>4, <2>5, <2>6
  <1>3. /\ created' \subseteq Endpoint /\ registry' \in Task \cup {None}
        /\ waiters' \in [Task -> Seq(Task)] /\ waiting_tasks' \in [Endpoint -> Seq(Task)]
        /\ woken' \subseteq Task
    <2>0. /\ created \subseteq Endpoint /\ registry \in Task \cup {None}
          /\ waiters \in [Task -> Seq(Task)] /\ waiting_tasks \in [Endpoint -> Seq(Task)]
          /\ woken \subseteq Task
      BY <1>0 DEF IpcTypeOK
    <2>1. CASE GetId \/ GetCSpace \/ SendRefused \/ BlockingDenied \/ BlockingEmpty
                 \/ BlockingBlocks \/ \E t \in Task : Revoke(t)
      BY <2>0, <2>1 DEF GetId, GetCSpace, SendRefused, BlockingDenied, BlockingEmpty,
                        BlockingBlocks, Revoke, epVars, progVars, histVars
    <2>2. CASE SendWake
      <3>1. cpu \in Task /\ waiters[cpu] # <<>> BY <2>2, <1>t DEF SendWake, At
      <3>2. Head(waiters[cpu]) \in Task /\ Tail(waiters[cpu]) \in Seq(Task) BY <2>0, <3>1
      <3> QED BY <2>0, <2>2, <3>1, <3>2 DEF SendWake, epVars
    <2>3. CASE SendDone BY <2>0, <2>3 DEF SendDone, histVars
    <2>4. CASE CreateEndpoint BY <2>0, <2>4, <1>t, <1>c DEF CreateEndpoint, histVars, At
    <2>5. CASE BlockingRegisters
      <3> DEFINE list == waiting_tasks[Target]
                 longer == IF Listed(id[cpu], list) THEN list ELSE Append(list, id[cpu])
      <3>1. /\ waiting_tasks' = [waiting_tasks EXCEPT ![Target] = longer]
            /\ UNCHANGED <<created, registry, waiters, woken>>
        BY <2>5 DEF BlockingRegisters, histVars
      <3>2. cpu \in Task /\ pc[cpu] = "register" BY <2>5, <1>t DEF BlockingRegisters, At
      <3>3. id[cpu] \in Task BY <3>2, <1>0 DEF Identified, Receiving
      <3>4. Target \in Endpoint => longer \in Seq(Task)
        BY <2>0, <3>3
      <3> HIDE DEF longer
      <3> QED BY <3>1, <3>4, <2>0
    <2>6. CASE Enter
      BY <2>0, <2>6, <1>t DEF Enter, At, epVars, histVars
    <2> QED BY <2>1, <2>2, <2>3, <2>4, <2>5, <2>6
  <1>4. \A t \in Tame : cpu = t => current_task = t
    BY <1>0 DEF OwnNames, OwnName
  <1>5. /\ id' \in [Task -> Task \cup {None}] /\ Identified'
    <2>1. CASE GetId
      <3>1. /\ cpu \in Task /\ id' = [id EXCEPT ![cpu] = current_task]
            /\ pc' = [pc EXCEPT ![cpu] = "cspace"]
        BY <2>1, <1>t DEF GetId, At, Then, Goto
      <3>2. cpu \in Senders => current_task = cpu BY <1>4 DEF Tame
      <3> QED BY <3>1, <3>2, <1>0, <1>t DEF Identified
    <2>2. CASE Enter
      <3>1. /\ cpu \in Task /\ id' = [id EXCEPT ![cpu] = None]
            /\ pc' = [pc EXCEPT ![cpu] = Entry]
        BY <2>2, <1>t DEF Enter, At, Then, Goto
      <3>2. Entry \in {"setup", "ident", "idle"} BY DEF Entry
      <3> QED BY <3>1, <3>2, <1>0, <1>t DEF Identified, Sending, Receiving
    <2>3. CASE id' = id /\ ~Enter /\ ~GetId
      <3>1. \A t \in Task : pc'[t] \in Sending \cup Receiving \cup {"cspace"} /\ pc'[t] # "ident"
              => pc[t] \in Sending \cup Receiving \cup {"cspace"} /\ pc[t] # "ident"
        <4>1. CASE GetCSpace
          BY <4>1, <1>t, <1>p
          DEF GetCSpace, Then, Goto, At, Sending, Receiving
        <4>2. CASE SendRefused \/ SendDone
          BY <4>2, <1>t, <1>p DEF SendRefused, SendDone, Then, Goto, At, Sending, Receiving
        <4>3. CASE SendWake \/ \E t \in Task : Revoke(t)
          BY <4>3, <1>t DEF SendWake, Revoke, progVars
        <4>4. CASE CreateEndpoint \/ BlockingDenied \/ BlockingEmpty
          BY <4>4, <1>t, <1>p
          DEF CreateEndpoint, BlockingDenied, BlockingEmpty, Then, Goto, At, Sending, Receiving
        <4>5. CASE BlockingRegisters \/ BlockingBlocks
          BY <4>5, <1>t, <1>p
          DEF BlockingRegisters, BlockingBlocks, Then, Goto, At, Sending, Receiving
        <4> QED BY <2>3, <4>1, <4>2, <4>3, <4>4, <4>5
      <3> QED BY <2>3, <3>1, <1>0, <1>t DEF Identified
    <2> QED BY <2>1, <2>2, <2>3
            DEF GetCSpace, SendRefused, SendWake, SendDone, CreateEndpoint, BlockingDenied,
                BlockingEmpty, BlockingRegisters, BlockingBlocks, Revoke, progVars
  <1>6. /\ cap' \in [Task -> CapSlot] /\ snapshot' \in [Task -> CapSlot]
        /\ CapsAreGranted'
    <2>1. CASE GetCSpace
      <3>1. /\ cpu \in Task /\ cap' = cap
            /\ snapshot' = [snapshot EXCEPT ![cpu] = cap[current_task]]
        BY <2>1, <1>t DEF GetCSpace, capVars, At
      <3>2. cpu \in Senders => current_task = cpu BY <1>4 DEF Tame
      <3> QED BY <3>1, <3>2, <1>0, <1>1, <1>t, <1>c DEF CapsAreGranted
    <2>2. CASE \E t \in Task : Revoke(t)
      <3>1. PICK t \in Task : cap' = [cap EXCEPT ![t] = NoCap] /\ snapshot' = snapshot
        BY <2>2 DEF Revoke, progVars
      <3> QED BY <3>1, <1>0, <1>1, <1>t DEF CapsAreGranted
    <2>3. CASE Enter
      <3>1. cpu \in Task /\ cap' = cap /\ snapshot' = [snapshot EXCEPT ![cpu] = NoCap]
        BY <2>3, <1>t DEF Enter, capVars, At
      <3> QED BY <3>1, <1>0, <1>1, <1>t, <1>c DEF CapsAreGranted
    <2>4. CASE cap' = cap /\ snapshot' = snapshot
      BY <2>4, <1>0, <1>1, <1>t DEF CapsAreGranted
    <2> QED BY <2>1, <2>2, <2>3, <2>4
            DEF GetId, SendRefused, SendWake, SendDone, CreateEndpoint, BlockingDenied,
                BlockingEmpty, BlockingRegisters, BlockingBlocks, capVars
  <1>7. IpcTypeOK' /\ HistoryTypes'
    BY <1>0, <1>1, <1>2, <1>3, <1>5, <1>6 DEF IpcTypeOK, HistoryTypes
  <1>8. SendingInRange'
    <2> SUFFICES ASSUME NEW t \in Task, pc'[t] = "send" PROVE n'[t] <= Count
      BY DEF SendingInRange
    <2>1. n[t] \in Nat /\ n'[t] \in Nat BY <1>t, <1>2
    <2>2. pc[t] = "send" => n[t] <= Count BY <1>0 DEF SendingInRange
    <2> QED BY <2>1, <2>2, <1>2, <1>c
  <1>9. Roles' BY <1>0, <1>2 DEF Roles, Sending, Receiving
  <1>10. OwnNames'
    <2> SUFFICES ASSUME NEW t \in Tame PROVE OwnName(t)'
      BY DEF OwnNames
    <2>1. t \in Task /\ OwnName(t) BY <1>0, <1>c DEF OwnNames, Tame
    <2>2. cpu = t => current_task' = t
      <3>1. CASE BlockingBlocks
        <4>1. cpu \in Task /\ pc[cpu] = "block" BY <3>1, <1>t DEF BlockingBlocks, At
        <4>2. cpu \notin Tame BY <4>1, <1>0 DEF Roles, Receiving, Tame
        <4> QED BY <4>2
      <3>2. CASE current_task' = current_task BY <3>2, <2>1 DEF OwnName
      <3> QED BY <3>1, <3>2
              DEF Enter, GetId, GetCSpace, SendRefused, SendWake, SendDone, CreateEndpoint,
                  BlockingDenied, BlockingEmpty, BlockingRegisters, Revoke, Then, Alone,
                  schedVars, unblock_task
    <2>3. pc'[t] # "new" => cpu = t \/ context[t] # None
      BY <2>1, <1>2 DEF OwnName
    <2> QED BY <2>1, <2>2, <2>3, <1>1 DEF OwnName
  <1>11. NumbersBehind'
    <2>1. ASSUME NEW t \in Senders
          PROVE  \/ pc[t] \in Starting
                 \/ pc'[t] = pc[t] /\ n'[t] = n[t]
                 \/ pc[t] \in {"send", "waking"} /\ pc'[t] = "sent" /\ n'[t] = n[t]
                 \/ pc'[t] \in {"create", "poll", "register", "block", "idle"}
      BY <1>2, <1>c DEF Starting
    <2> QED BY <2>1, <1>1, <1>2, NumbersKeep
  <1> QED BY <1>5, <1>6, <1>7, <1>8, <1>9, <1>10, <1>11 DEF ProgramInv

(* A message enters a queue: it is new, and allowed there. *)
LEMMA SendKeeps ==
    ASSUME IpcIInv, SchedTypeOK', SendQueued
    PROVE  /\ Target \in Endpoint
           /\ NextMessage \in Writable(Target)
           /\ \A e \in Endpoint : \A i \in DOMAIN sent[e] : sent[e][i] # NextMessage
           /\ ProgramInv'
  <1> USE NoneAssumption
  <1>c. Count \in Nat /\ Senders \subseteq Task BY IpcAssumption
  <1>0. /\ IpcTypeOK /\ HistoryTypes /\ SendingInRange /\ Roles /\ OwnNames /\ Identified
        /\ CapsAreGranted /\ NumbersBehind
    BY DEF IpcIInv, ProgramInv
  <1>t. /\ cpu \in Task \cup {None} /\ pc \in [Task -> Location] /\ n \in [Task -> Nat]
        /\ snapshot \in [Task -> CapSlot] /\ granted \in [Task -> CapSlot]
        /\ messages \in [Endpoint -> Seq(Message)] /\ sent \in [Endpoint -> Seq(Message)]
        /\ waiting_tasks \in [Endpoint -> Seq(Task)] /\ waiters \in [Task -> Seq(Task)]
    BY <1>0 DEF IpcTypeOK, HistoryTypes
  <1>1. /\ cpu # None /\ pc[cpu] = "send"
        /\ snapshot[cpu] # NoCap /\ "write" \in snapshot[cpu].rights
        /\ messages' = [messages EXCEPT ![Target] = Append(messages[Target], NextMessage)]
        /\ sent' = [sent EXCEPT ![Target] = Append(sent[Target], NextMessage)]
        /\ waiters' = [waiters EXCEPT ![cpu] = waiting_tasks[Target]]
        /\ waiting_tasks' = [waiting_tasks EXCEPT ![Target] = <<>>]
        /\ registry' = cpu /\ pc' = [pc EXCEPT ![cpu] = "waking"]
        /\ UNCHANGED <<cpu, context, live, isr, in_service, current_task, n, id, snapshot, cap,
                       granted, created, received, woken>>
    BY DEF SendQueued, SendInto, At, SendAccepted, May, Then, Alone, Goto, cpuVars, capVars,
           schedVars
  <1>2. cpu \in Task /\ cpu \in Senders /\ id[cpu] = cpu
    BY <1>0, <1>1, <1>t DEF Roles, Identified, Sending
  <1>3. Target \in Endpoint /\ snapshot[cpu] = granted[cpu]
    BY <1>0, <1>1, <1>2, <1>t DEF Target, CapsAreGranted, CapSlot
  <1>4. NextMessage \in Message /\ NextMessage.sender = cpu /\ NextMessage.n = n[cpu]
    <2>1. n[cpu] \in 0 .. Count BY <1>0, <1>1, <1>2, <1>t, <1>c DEF SendingInRange
    <2> QED BY <2>1, <1>2, <1>t DEF NextMessage, Message
  <1>5. NextMessage \in Writable(Target)
    BY <1>1, <1>3, <1>4 DEF Writable, Target
  <1>6. \A e \in Endpoint : \A i \in DOMAIN sent[e] :
           sent[e][i].sender = cpu => sent[e][i].n < n[cpu]
    BY <1>0, <1>1 DEF NumbersBehind, Behind
  <1>7. \A e \in Endpoint : \A i \in DOMAIN sent[e] : sent[e][i] # NextMessage
    BY <1>2, <1>4, <1>6, <1>t
  <1>8. IpcTypeOK' /\ HistoryTypes'
    <2>1. /\ messages' \in [Endpoint -> Seq(Message)] /\ sent' \in [Endpoint -> Seq(Message)]
          /\ waiters' \in [Task -> Seq(Task)] /\ waiting_tasks' \in [Endpoint -> Seq(Task)]
          /\ pc' \in [Task -> Location]
      BY <1>1, <1>2, <1>3, <1>4, <1>t DEF Location
    <2> QED BY <2>1, <1>0, <1>1, <1>2 DEF IpcTypeOK, HistoryTypes
  <1>9. SendingInRange' BY <1>0, <1>1, <1>t DEF SendingInRange
  <1>10. Roles' /\ Identified'
    BY <1>0, <1>1, <1>2, <1>t DEF Roles, Identified, Sending, Receiving
  <1>11. OwnNames' BY <1>0, <1>1, <1>2, <1>t, <1>c DEF OwnNames, OwnName, Tame
  <1>12. CapsAreGranted' BY <1>0, <1>1 DEF CapsAreGranted
  <1>13. NumbersBehind'
    <2> SUFFICES ASSUME NEW e \in Endpoint, NEW i \in DOMAIN sent'[e]
                 PROVE  Behind(sent[e][i].sender, sent[e][i].n)'
      BY DEF NumbersBehind
    <2>1. (i \in DOMAIN sent[e] /\ sent'[e][i] = sent[e][i]) \/ sent'[e][i] = NextMessage
      <3>1. CASE e # Target BY <3>1, <1>1, <1>3, <1>t
      <3>2. CASE e = Target
        <4>1. sent'[e] = Append(sent[e], NextMessage) BY <3>2, <1>1, <1>3, <1>t
        <4>2. sent[e] \in Seq(Message) BY <1>t
        <4>3. i \in 1 .. Len(sent[e]) \/ i = Len(sent[e]) + 1 BY <4>1, <4>2, <1>4
        <4> QED BY <4>1, <4>2, <4>3, <1>4
      <3> QED BY <3>1, <3>2
    <2>2. CASE sent'[e][i] = NextMessage
      <3>1. /\ cpu \in Senders /\ pc'[cpu] = "waking" /\ n'[cpu] \in Nat /\ n'[cpu] = n[cpu]
        BY <1>1, <1>2, <1>t
      <3>2. sent'[e][i].sender = cpu /\ sent'[e][i].n = n[cpu] BY <2>2, <1>4
      <3> QED BY <3>1, <3>2 DEF Behind, Starting
    <2>3. CASE i \in DOMAIN sent[e] /\ sent'[e][i] = sent[e][i]
      <3> DEFINE t == sent[e][i].sender
                 k == sent[e][i].n
      <3>1. sent[e][i] \in Message BY <2>3, <1>t
      <3>2. t \in Task /\ k \in Nat BY <3>1 DEF Message
      <3>3. Behind(t, k)
        BY <2>3, <1>0 DEF NumbersBehind
      <3> HIDE DEF t, k
      <3>4. n[t] \in Nat BY <3>2, <1>t
      <3>5. /\ t \in Senders /\ pc'[t] \notin Starting
            /\ pc'[t] = "send" => k < n'[t]
            /\ pc'[t] \in {"waking", "sent"} => k <= n'[t]
        BY <3>2, <3>3, <3>4, <1>1, <1>2, <1>t DEF Behind, Starting
      <3> QED BY <3>5, <2>3 DEF t, k, Behind
    <2> QED BY <2>1, <2>2, <2>3
  <1> QED BY <1>3, <1>5, <1>7, <1>8, <1>9, <1>10, <1>11, <1>12, <1>13 DEF ProgramInv

(* The oldest message leaves a queue. *)
LEMMA TakeKeeps ==
    ASSUME IpcIInv, SchedTypeOK', PollTakes \/ BlockingTakes
    PROVE  /\ Target \in Endpoint
           /\ messages[Target] # <<>>
           /\ ProgramInv'
  <1> USE NoneAssumption
  <1>c. Senders \subseteq Task BY IpcAssumption
  <1>0. /\ IpcTypeOK /\ HistoryTypes /\ SendingInRange /\ Roles /\ OwnNames /\ Identified
        /\ CapsAreGranted /\ NumbersBehind
    BY DEF IpcIInv, ProgramInv
  <1>t. /\ cpu \in Task \cup {None} /\ pc \in [Task -> Location] /\ n \in [Task -> Nat]
        /\ snapshot \in [Task -> CapSlot]
        /\ messages \in [Endpoint -> Seq(Message)] /\ received \in [Endpoint -> Seq(Message)]
    BY <1>0 DEF IpcTypeOK, HistoryTypes
  <1>1. /\ cpu # None /\ pc[cpu] = "poll" /\ snapshot[cpu] # NoCap /\ messages[Target] # <<>>
        /\ received' = [received EXCEPT ![Target] = Append(received[Target], Head(messages[Target]))]
        /\ messages' = [messages EXCEPT ![Target] = Tail(messages[Target])]
        /\ n' = [n EXCEPT ![cpu] = n[cpu] + 1]
        /\ UNCHANGED <<cpu, context, live, isr, in_service, current_task, id, snapshot, waiters,
                       cap, granted, created, waiting_tasks, registry, sent, woken>>
    BY DEF PollTakes, BlockingTakes, TakeMessage, TryFinds, MayTry, At, May, Then, Alone,
           cpuVars, capVars, schedVars
  <1>p. cpu \in Task BY <1>1, <1>t
  <1>2. /\ n' \in [Task -> Nat] /\ pc' \in [Task -> Location]
        /\ \A t \in Task : t # cpu => pc'[t] = pc[t] /\ n'[t] = n[t]
        /\ pc'[cpu] \in {"poll", "idle"}
    <2>1. \E loc \in {"poll", "idle"} : pc' = [pc EXCEPT ![cpu] = loc]
      BY DEF PollTakes, BlockingTakes, Then, Goto
    <2> QED BY <2>1, <1>1, <1>p, <1>t DEF Location
  <1>3. Target \in Endpoint
    BY <1>1, <1>p, <1>t DEF Target, CapSlot
  <1>4. /\ Head(messages[Target]) \in Message /\ Tail(messages[Target]) \in Seq(Message)
        /\ messages[Target] \in Seq(Message) /\ received[Target] \in Seq(Message)
    BY <1>1, <1>3, <1>t
  <1>5. IpcTypeOK' /\ HistoryTypes'
    <2>1. /\ messages' \in [Endpoint -> Seq(Message)] /\ received' \in [Endpoint -> Seq(Message)]
      BY <1>1, <1>3, <1>4, <1>t
    <2> QED BY <2>1, <1>0, <1>1, <1>2 DEF IpcTypeOK, HistoryTypes
  <1>6. SendingInRange' BY <1>0, <1>2 DEF SendingInRange
  <1>7. Roles' /\ Identified'
    BY <1>0, <1>1, <1>2, <1>p DEF Roles, Identified, Sending, Receiving
  <1>8. OwnNames' BY <1>0, <1>1, <1>2, <1>c DEF OwnNames, OwnName, Tame
  <1>9. CapsAreGranted' BY <1>0, <1>1 DEF CapsAreGranted
  <1>10. NumbersBehind'
    <2>1. \A t \in Senders : \/ pc'[t] = pc[t] /\ n'[t] = n[t]
                             \/ pc'[t] \in {"poll", "idle"}
      BY <1>2, <1>c
    <2> QED BY <2>1, <1>1, <1>2, NumbersKeep
  <1> QED BY <1>1, <1>3, <1>5, <1>6, <1>7, <1>8, <1>9, <1>10 DEF ProgramInv

-----------------------------------------------------------------------------
(* Every step keeps the invariant. *)
LEMMA IpcStep == IpcIInv /\ [IpcNext]_ipcVars => IpcIInv'
  <1> SUFFICES ASSUME IpcIInv, [IpcNext]_ipcVars PROVE IpcIInv'
    OBVIOUS
  <1>1. CASE IpcNext
    <2>1. [SchedNext]_schedVars /\ current_task' \in Task BY <1>1, StepLemma
    <2>2. SchedIInv' BY <2>1, SchedStep DEF IpcIInv
    <2>3. SchedTypeOK' BY <2>2 DEF SchedIInv
    <2>4. CASE SenderSetup \/ SenderYields \/ PollYields \/ Idle \/ Tick
      <3>1. PICK loc \in Location : Yields(loc) BY <2>4, YieldSteps
      <3> QED BY <3>1, <2>2, <2>3, YieldsKeep DEF IpcIInv
    <2>5. ProgramInv'
      BY <1>1, <2>1, <2>3, <2>4, QuietStepsKeep, SendKeeps, TakeKeeps
      DEF IpcNext, ProgramStep, SendStep, ReceiveStep, IpcIInv
    <2> QED BY <2>2, <2>5 DEF IpcIInv
  <1>2. CASE UNCHANGED ipcVars
    <2>1. UNCHANGED schedVars BY <1>2 DEF ipcVars
    <2>2. SchedIInv' BY <2>1, SchedStep DEF IpcIInv
    <2>3. IpcTypeOK' /\ HistoryTypes'
      BY <1>2, <2>2 DEF ipcVars, cpuVars, progVars, capVars, epVars, histVars, schedVars,
                   IpcIInv, ProgramInv, IpcTypeOK, HistoryTypes, SchedIInv
    <2>4. /\ SendingInRange' /\ Roles' /\ OwnNames' /\ Identified' /\ CapsAreGranted'
          /\ NumbersBehind'
      BY <1>2 DEF ipcVars, cpuVars, progVars, capVars, epVars, histVars, schedVars, IpcIInv,
                  ProgramInv, SendingInRange, Roles, OwnNames, OwnName, Identified,
                  CapsAreGranted, NumbersBehind, Behind
    <2> QED BY <2>2, <2>3, <2>4 DEF IpcIInv, ProgramInv
  <1> QED BY <1>1, <1>2

(* The state after test_scheduler satisfies the invariant. *)
LEMMA IpcStart == IpcInit => IpcIInv
  <1> SUFFICES ASSUME IpcInit PROVE IpcIInv
    OBVIOUS
  <1> USE NoneAssumption
  <1>1. PICK start \in Starts :
          /\ tasks = [t \in Task |-> IF t = Head(start) THEN "Running" ELSE "Ready"]
          /\ current_task = Head(start)
          /\ ready_queue = Append(Tail(start), Head(start))
          /\ cpu = Head(start)
    BY DEF IpcInit
  <1>2. /\ start \in Seq(Task) /\ start # <<>> /\ Distinct(start)
        /\ \A t \in Task : \E i \in DOMAIN start : start[i] = t
    BY IpcAssumption DEF Distinct
  <1>3. Head(start) \in Task BY <1>2
  <1>4. Elems(start) = Task BY <1>2 DEF Elems
  <1>5. /\ ready_queue \in Seq(Task) /\ Distinct(ready_queue) /\ Elems(ready_queue) = Task
    BY <1>1, <1>2, <1>4, RotateLemma
  <1>6. /\ tasks \in [Task -> TaskState] /\ \A t \in Task : tasks[t] \in Runnable
        /\ \A t \in Task : tasks[t] = "Running" => current_task = t
        /\ tasks[current_task] = "Running"
    BY <1>1, <1>3 DEF TaskState, Runnable
  <1>7. Consistent(tasks, current_task, ready_queue)
    BY <1>1, <1>3, <1>5, <1>6 DEF Consistent
  <1>8. SchedIInv BY <1>7, IInvIsConsistent
  <1>c. InitialCaps \subseteq [Task -> CapSlot] BY IpcAssumption DEF CapSlot
  <1>s. Senders \subseteq Task /\ Tame \subseteq Task BY IpcAssumption DEF Tame
  <1>9. IpcTypeOK
    <2>1. /\ SchedTypeOK /\ cpu \in Task \cup {None} /\ isr \in BOOLEAN
          /\ in_service \in Task \cup {None}
      BY <1>1, <1>3, <1>8 DEF IpcInit, SchedIInv
    <2>2. /\ context \in [Task -> Task \cup {None}] /\ live \in [Task -> Task \cup {None}]
          /\ pc \in [Task -> Location] /\ n \in [Task -> Nat]
          /\ id \in [Task -> Task \cup {None}]
      BY DEF IpcInit, Location
    <2>3. /\ created \subseteq Endpoint /\ registry \in Task \cup {None}
          /\ messages \in [Endpoint -> Seq(Message)]
          /\ waiting_tasks \in [Endpoint -> Seq(Task)]
          /\ waiters \in [Task -> Seq(Task)] /\ woken \subseteq Task
      BY DEF IpcInit
    <2> QED BY <2>1, <2>2, <2>3 DEF IpcTypeOK
  <1>10. HistoryTypes
    BY <1>1, <1>3, <1>c DEF IpcInit, HistoryTypes, CapSlot
  <1>11. SendingInRange /\ Roles /\ Identified
    BY DEF IpcInit, SendingInRange, Roles, Identified, Sending, Receiving
  <1>12. OwnNames /\ CapsAreGranted
    BY <1>1, <1>3, <1>s DEF IpcInit, OwnNames, OwnName, CapsAreGranted
  <1>13. NumbersBehind
    BY DEF IpcInit, NumbersBehind
  <1> QED BY <1>8, <1>9, <1>10, <1>11, <1>12, <1>13 DEF IpcIInv, ProgramInv

(* The inductive invariant holds in every state, for any number of tasks,  *)
(* endpoints and messages, ticks between any two steps included.           *)
THEOREM IpcInvariant == IpcSpec => []IpcIInv
  BY IpcStart, IpcStep, PTL DEF IpcSpec

(* The state of tasks, programs, registry and endpoints keeps its types. *)
THEOREM IpcTypeCorrect == IpcSpec => []IpcTypeOK
  BY IpcInvariant, PTL DEF IpcIInv, ProgramInv

-----------------------------------------------------------------------------
(* A step of Ipc is a step of Mailbox, or none. *)
LEMMA MailStep ==
    IpcIInv /\ IpcIInv' /\ [IpcNext]_ipcVars => [Boxes!MailNext]_(Boxes!mailVars)
  <1> SUFFICES ASSUME IpcIInv, [IpcNext]_ipcVars, IpcIInv' PROVE [Boxes!MailNext]_(Boxes!mailVars)
    OBVIOUS
  <1> DEFINE allowed == [e \in Endpoint |-> Writable(e)]
             used == UNION {{sent[e][i] : i \in DOMAIN sent[e]} : e \in Endpoint}
  <1>0. /\ messages \in [Endpoint -> Seq(Message)] /\ sent \in [Endpoint -> Seq(Message)]
        /\ received \in [Endpoint -> Seq(Message)]
        /\ SchedTypeOK'
    BY DEF IpcIInv, ProgramInv, IpcTypeOK, HistoryTypes
  <1>1. granted' = granted => allowed' = allowed
    BY DEF Writable
  <1>2. CASE SendQueued
    <2>1. /\ Target \in Endpoint /\ NextMessage \in Writable(Target)
          /\ \A e \in Endpoint : \A i \in DOMAIN sent[e] : sent[e][i] # NextMessage
      BY <1>0, <1>2, SendKeeps
    <2>2. /\ Len(messages[Target]) < MaxQueue
          /\ messages' = [messages EXCEPT ![Target] = Append(messages[Target], NextMessage)]
          /\ sent' = [sent EXCEPT ![Target] = Append(sent[Target], NextMessage)]
          /\ UNCHANGED <<granted, received>>
      BY <1>2 DEF SendQueued, SendInto, SendAccepted, capVars
    <2>3. NextMessage \in Message BY <2>1 DEF Writable
    <2>4. NextMessage \notin used BY <2>1
    <2>5. used' = used \cup {NextMessage}
      <3>1. \A x : x \in used' <=> \E e \in Endpoint : \E i \in DOMAIN sent'[e] : x = sent'[e][i]
        OBVIOUS
      <3>2. \A x : x \in used <=> \E e \in Endpoint : \E i \in DOMAIN sent[e] : x = sent[e][i]
        OBVIOUS
      <3>3. /\ \A e \in Endpoint \ {Target} : sent'[e] = sent[e]
            /\ sent'[Target] = Append(sent[Target], NextMessage)
        BY <1>0, <2>1, <2>2
      <3>4. /\ \A i \in DOMAIN sent[Target] : i \in DOMAIN sent'[Target] /\ sent'[Target][i] = sent[Target][i]
            /\ \E i \in DOMAIN sent'[Target] : sent'[Target][i] = NextMessage
            /\ \A i \in DOMAIN sent'[Target] :
                 sent'[Target][i] = NextMessage \/ (i \in DOMAIN sent[Target] /\ sent'[Target][i] = sent[Target][i])
        <4>1. sent[Target] \in Seq(Message) BY <1>0, <2>1
        <4> DEFINE q == sent[Target]
                   q1 == sent'[Target]
        <4>2. /\ DOMAIN q = 1 .. Len(q) /\ DOMAIN q1 = 1 .. Len(q) + 1 /\ Len(q) \in Nat
              /\ q1[Len(q) + 1] = NextMessage
              /\ \A i \in 1 .. Len(q) : q1[i] = q[i]
          BY <4>1, <3>3, <2>3
        <4> HIDE DEF q, q1
        <4>3. Len(q) + 1 \in 1 .. Len(q) + 1 /\ \A i \in 1 .. Len(q) + 1 : i \in 1 .. Len(q) \/ i = Len(q) + 1
          BY <4>2
        <4>4. \A i \in 1 .. Len(q) : i \in 1 .. Len(q) + 1 BY <4>2
        <4> QED BY <4>2, <4>3, <4>4 DEF q, q1
      <3>5. \A x : x \in used' <=> x \in used \/ x = NextMessage
        BY <3>1, <3>2, <3>3, <3>4, <2>1
      <3> QED BY <3>5
    <2>6. PICK m \in Message, S \in SUBSET Endpoint : m = NextMessage /\ S = {Target}
      BY <2>1, <2>3
    <2>7. Boxes!Put(S, m)
      BY <2>1, <2>2, <2>4, <2>5, <2>6, <1>0, <1>1 DEF Boxes!Put
    <2> QED BY <2>7 DEF Boxes!MailNext
  <1>3. CASE PollTakes \/ BlockingTakes
    <2>1. Target \in Endpoint /\ messages[Target] # <<>>
      BY <1>0, <1>3, TakeKeeps
    <2>2. /\ messages' = [messages EXCEPT ![Target] = Tail(messages[Target])]
          /\ received' = [received EXCEPT ![Target] = Append(received[Target], Head(messages[Target]))]
          /\ UNCHANGED <<granted, sent>>
      BY <1>3 DEF PollTakes, BlockingTakes, TakeMessage, capVars
    <2>3. Boxes!Take(Target) BY <2>1, <2>2, <1>1 DEF Boxes!Take
    <2> QED BY <2>1, <2>3 DEF Boxes!MailNext
  <1>4. CASE UNCHANGED <<messages, received, sent, granted>>
    BY <1>4, <1>1 DEF Boxes!mailVars
  <1> QED
    BY <1>2, <1>3, <1>4
    DEF IpcNext, ProgramStep, SendStep, ReceiveStep, ipcVars, epVars, capVars, histVars,
        Enter, GetId, GetCSpace, SenderSetup, SendRefused, SendWake, SendDone, SenderYields,
        CreateEndpoint, PollYields, BlockingDenied, BlockingEmpty, BlockingRegisters,
        BlockingBlocks, Idle, Tick, Revoke, YieldTo

(* The endpoints of the registry implement a mailbox that loses nothing,   *)
(* as long as no stale context has been restored: a receiver that is       *)
(* started again after a wake-up, or runs under another name, included.    *)
THEOREM IpcImplementsMailbox == IpcSpec => ImplementsMailbox
  <1>1. IpcInit => Boxes!MailInit
    <2> SUFFICES ASSUME IpcInit PROVE Boxes!MailInit
      OBVIOUS
    <2>1. [e \in Endpoint |-> Writable(e)] \in [Endpoint -> SUBSET Message]
      BY DEF Writable
    <2>2. UNION {{sent[e][i] : i \in DOMAIN sent[e]} : e \in Endpoint} = {}
      <3>1. \A e \in Endpoint : DOMAIN sent[e] = {} BY DEF IpcInit
      <3> QED BY <3>1
    <2> QED BY <2>1, <2>2 DEF Boxes!MailInit, IpcInit
  <1> QED BY <1>1, IpcInvariant, MailStep, PTL DEF IpcSpec, ImplementsMailbox, Boxes!MailSpec

-----------------------------------------------------------------------------
(* Why registers stay good while nobody is woken: the executing task is    *)
(* saved nowhere, and the TaskContext of every runnable task that is not   *)
(* current holds either the latest registers of a task, under the name     *)
(* they were saved under, or those of Task::new for a task that has never  *)
(* executed.  A task that block_current took away breaks this, but is not  *)
(* runnable.                                                               *)
Good(x) ==
    IF context[x] = None THEN live[x] = None /\ cpu # x ELSE live[context[x]] = x

ContextsGood ==
    /\ cpu # None /\ live[cpu] = None
    /\ \A x \in Task : tasks[x] \in Runnable /\ x # current_task => Good(x)

IntactInv == woken = {} => ContextsGood

(* What schedule does when it switches, and the two ways it does not. *)
LEMMA ScheduleEffect ==
    ASSUME IpcIInv, schedule
    PROVE  /\ \A x \in Task : tasks'[x] \in Runnable <=> tasks[x] \in Runnable
           /\ \A x \in Task : tasks'[x] = "Blocked" <=> tasks[x] = "Blocked"
           /\ ScheduleReturns # None =>
                /\ ScheduleReturns \in Task /\ current_task' = ScheduleReturns
                /\ tasks[ScheduleReturns] \in Runnable
           /\ ScheduleReturns = None => current_task' = current_task
  <1> USE NoneAssumption
  <1>0. /\ current_task \in Task /\ tasks \in [Task -> TaskState] /\ ready_queue \in Seq(Task)
    BY DEF IpcIInv, ProgramInv, IpcTypeOK, HistoryTypes, SchedTypeOK
  <1> DEFINE put == MarkPreviousReady(tasks, current_task)
             next == ScheduleReturns
  <1>1. /\ put \in [Task -> TaskState]
        /\ \A x \in Task : put[x] \in Runnable <=> tasks[x] \in Runnable
        /\ \A x \in Task : put[x] = "Blocked" <=> tasks[x] = "Blocked"
    BY <1>0 DEF MarkPreviousReady, Runnable, TaskState
  <1>2. next # None => next \in Task /\ put[next] = "Ready" /\ next = Head(ready_queue)
    BY <1>0 DEF ScheduleReturns, Chosen
  <1>3. IF next # None
        THEN tasks' = [put EXCEPT ![next] = "Running"] /\ current_task' = next
        ELSE tasks' \in {tasks, put} /\ current_task' = current_task
    BY <1>0 DEF schedule, ScheduleFrom, ScheduleReturns, Chosen
  <1> HIDE DEF put, next
  <1>4. CASE next # None
    <2>1. tasks' = [put EXCEPT ![next] = "Running"] BY <1>3, <1>4
    <2>2. \A x \in Task : tasks'[x] = IF x = next THEN "Running" ELSE put[x]
      BY <1>1, <2>1
    <2>3. put[next] = "Ready" /\ next \in Task BY <1>2, <1>4
    <2> QED BY <2>2, <2>3, <1>1, <1>3, <1>4 DEF Runnable, next
  <1>5. CASE next = None BY <1>1, <1>3, <1>5 DEF next
  <1> QED BY <1>4, <1>5

(* A yield or a tick restores good registers, and stores good ones. *)
LEMMA YieldIntact ==
    ASSUME IpcIInv, ContextsGood, NEW loc \in Location, Yields(loc)
    PROVE  ContextsGood'
  <1> USE NoneAssumption
  <1>0. /\ current_task \in Task /\ cpu \in Task /\ context \in [Task -> Task \cup {None}]
        /\ live \in [Task -> Task \cup {None}]
    BY DEF IpcIInv, ProgramInv, IpcTypeOK, HistoryTypes, ContextsGood
  <1>1. task_yield(loc) /\ schedule BY <1>0 DEF Yields, task_yield
  <1>2. /\ \A x \in Task : tasks'[x] \in Runnable <=> tasks[x] \in Runnable
        /\ ScheduleReturns # None =>
             /\ ScheduleReturns \in Task /\ current_task' = ScheduleReturns
             /\ tasks[ScheduleReturns] \in Runnable
        /\ ScheduleReturns = None => current_task' = current_task
    BY <1>1, ScheduleEffect
  <1>3. CASE Switching
    <2> DEFINE next == ScheduleReturns
    <2>1. /\ next \in Task /\ next # current_task /\ current_task' = next /\ Good(next)
      BY <1>2, <1>3 DEF Switching, ContextsGood
    <2>2. /\ context' = [context EXCEPT ![current_task] = cpu]
          /\ live' = [t \in Task |-> IF t = Resumed THEN None
                                     ELSE IF t = cpu THEN current_task ELSE live[t]]
          /\ cpu' = Resumed
      BY <1>1, <1>3 DEF task_yield, SwitchContext, SaveUnder
    <2>3. /\ Resumed \in Task /\ Resumed # cpu
          /\ \/ context[next] = None /\ Resumed = next /\ live[next] = None
             \/ context[next] = Resumed /\ live[Resumed] = next
      BY <2>1, <1>0 DEF Resumed, Good, ContextsGood
    <2> HIDE DEF next
    <2>4. ASSUME NEW x \in Task, tasks'[x] \in Runnable, x # next PROVE Good(x)'
      <3>1. CASE x = current_task
        <4>1. context'[x] = cpu /\ live'[cpu] = current_task
          BY <3>1, <2>2, <2>3, <1>0
        <4> QED BY <4>1, <3>1, <1>0 DEF Good
      <3>2. CASE x # current_task
        <4>1. Good(x) /\ context'[x] = context[x]
          BY <3>2, <2>2, <2>4, <1>0, <1>2 DEF ContextsGood
        <4>2. CASE context[x] = None
          <5>1. live[x] = None /\ cpu # x BY <4>1, <4>2 DEF Good
          <5>2. Resumed # x BY <2>3, <2>4, <5>1, <1>0, <2>1
          <5> QED BY <4>1, <4>2, <5>1, <5>2, <2>2 DEF Good
        <4>3. CASE context[x] # None
          <5>1. context[x] \in Task /\ live[context[x]] = x BY <4>1, <4>3, <1>0 DEF Good
          <5>2. context[x] # cpu BY <5>1 DEF ContextsGood
          <5>3. context[x] # Resumed BY <5>1, <2>1, <2>3, <2>4
          <5>4. live'[context[x]] = x BY <5>1, <5>2, <5>3, <2>2
          <5> QED BY <4>1, <4>3, <5>4 DEF Good
        <4> QED BY <4>2, <4>3
      <3> QED BY <3>1, <3>2
    <2>5. cpu' # None /\ live'[cpu'] = None BY <2>2, <2>3
    <2> QED BY <2>1, <2>4, <2>5 DEF ContextsGood
  <1>4. CASE ~Switching
    <2>1. cpu' = cpu /\ context' = context /\ live' = live
      BY <1>1, <1>4 DEF task_yield
    <2>2. current_task' = current_task BY <1>0, <1>2, <1>4 DEF Switching
    <2> QED BY <2>1, <2>2, <1>2 DEF ContextsGood, Good
  <1> QED BY <1>3, <1>4

(* block_current takes the caller, or whoever is current, out of the       *)
(* runnable tasks, and makes a runnable task current.                      *)
LEMMA BlockEffect ==
    ASSUME IpcIInv, block_current
    PROVE  \A x \in Task : tasks'[x] \in Runnable => tasks[x] \in Runnable /\ x # current_task
  <1> USE NoneAssumption
  <1>0. /\ current_task \in Task /\ tasks \in [Task -> TaskState]
    BY DEF IpcIInv, ProgramInv, IpcTypeOK, HistoryTypes, SchedTypeOK
  <1> DEFINE ts == [tasks EXCEPT ![current_task] = "Blocked"]
             q == retain(ready_queue, current_task)
             put == MarkPreviousReady(ts, current_task)
             next == Chosen(ts, current_task, q)
  <1>1. put = ts BY <1>0 DEF MarkPreviousReady
  <1>2. ts \in [Task -> TaskState] /\ ts[current_task] = "Blocked" BY <1>0 DEF TaskState
  <1>3. next # None => put[next] = "Ready" /\ q # <<>> BY DEF Chosen
  <1>4. IF next # None THEN tasks' = [put EXCEPT ![next] = "Running"] ELSE tasks' \in {ts, put}
    BY <1>3 DEF block_current, ScheduleFrom
  <1>5. \A x \in Task : ts[x] \in Runnable => tasks[x] \in Runnable /\ x # current_task
    BY <1>0 DEF Runnable
  <1> HIDE DEF ts, q, put, next
  <1>6. \A x \in Task : tasks'[x] \in Runnable => ts[x] \in Runnable
    BY <1>1, <1>2, <1>3, <1>4 DEF Runnable
  <1> QED BY <1>5, <1>6

(* Every step keeps the registers good until somebody is woken. *)
LEMMA IntactStep == IpcIInv /\ IntactInv /\ [IpcNext]_ipcVars => IntactInv'
  <1> SUFFICES ASSUME IpcIInv, IntactInv, [IpcNext]_ipcVars, woken' = {} PROVE ContextsGood'
    BY DEF IntactInv
  <1> USE NoneAssumption
  <1>0. current_task \in Task BY DEF IpcIInv, ProgramInv, HistoryTypes
  <1>1. CASE SenderSetup \/ SenderYields \/ PollYields \/ Idle \/ Tick
    <2>1. PICK loc \in Location : Yields(loc) BY <1>1, YieldSteps
    <2>2. woken = {} BY <2>1 DEF Yields
    <2> QED BY <2>1, <2>2, YieldIntact DEF IntactInv
  <1>2. CASE UNCHANGED <<schedVars, cpuVars, woken>>
    BY <1>2 DEF IntactInv, ContextsGood, Good, schedVars, cpuVars
  <1>3. CASE BlockingBlocks
    <2>1. block_current /\ UNCHANGED <<cpu, context, live, woken>>
      BY <1>0, <1>3 DEF BlockingBlocks, cpuVars, histVars
    <2> QED BY <2>1, BlockEffect DEF IntactInv, ContextsGood, Good
  <1>4. CASE SendWake
    BY <1>2, <1>4 DEF SendWake
  <1> QED BY <1>1, <1>2, <1>3, <1>4
          DEF IpcNext, ProgramStep, SendStep, ReceiveStep, Enter, GetId, GetCSpace,
              SendRefused, SendQueued, SendInto, SendDone, CreateEndpoint,
              PollTakes, BlockingTakes, TakeMessage, BlockingDenied, BlockingEmpty,
              BlockingRegisters, Revoke, Then, Alone, histVars, ipcVars

(* A switch restores stale registers only after send_message has woken a   *)
(* blocked receiver, for any number of tasks, senders and receivers and    *)
(* wherever ticks fall.                                                    *)
THEOREM StaleOnlyAfterWakeup == IpcSpec => []IntactUntilWoken
  <1>1. IpcInit => IntactInv
    <2> SUFFICES ASSUME IpcInit PROVE ContextsGood
      BY DEF IntactInv
    <2>1. IpcIInv BY IpcStart
    <2>2. cpu = current_task /\ current_task \in Task
      BY <2>1 DEF IpcInit, IpcIInv, ProgramInv, HistoryTypes
    <2> QED BY <2>2, NoneAssumption DEF IpcInit, ContextsGood, Good
  <1>2. IntactInv => IntactUntilWoken
    BY DEF IntactInv, ContextsGood, IntactUntilWoken
  <1> QED BY <1>1, <1>2, IpcInvariant, IntactStep, PTL DEF IpcSpec

(* As nobody calls receive_message_blocking, nobody is blocked. *)
NobodyBlocked == woken = {} /\ \A t \in Task : tasks[t] # "Blocked"

(* Without a caller of receive_message_blocking, as in main.rs, every      *)
(* switch restores the latest registers of a task.                         *)
THEOREM SwitchesAreIntact ==
    ASSUME Blockers = {} PROVE IpcSpec => []ResumesIntact
  <1>1. IpcInit => NobodyBlocked
    <2> SUFFICES ASSUME IpcInit PROVE NobodyBlocked
      OBVIOUS
    <2> QED BY DEF IpcInit, NobodyBlocked
  <1>2. IpcIInv /\ NobodyBlocked /\ [IpcNext]_ipcVars => NobodyBlocked'
    <2> SUFFICES ASSUME IpcIInv, NobodyBlocked, [IpcNext]_ipcVars PROVE NobodyBlocked'
      OBVIOUS
    <2>0. current_task \in Task BY DEF IpcIInv, ProgramInv, HistoryTypes
    <2>1. CASE SenderSetup \/ SenderYields \/ PollYields \/ Idle \/ Tick
      <3>1. PICK loc \in Location : Yields(loc) BY <2>1, YieldSteps
      <3>2. schedule /\ woken' = woken BY <3>1, <2>0, NoneAssumption DEF Yields, task_yield
      <3> QED BY <3>2, ScheduleEffect DEF NobodyBlocked
    <2>2. CASE UNCHANGED <<schedVars, woken>>
      BY <2>2 DEF NobodyBlocked, schedVars
    <2>3. CASE BlockingBlocks
      <3>1. cpu \in Task /\ pc[cpu] = "block"
        BY <2>3 DEF BlockingBlocks, At, IpcIInv, ProgramInv, IpcTypeOK
      <3> QED BY <3>1 DEF IpcIInv, ProgramInv, Roles
    <2>4. CASE SendWake
      <3>1. /\ cpu \in Task /\ waiters \in [Task -> Seq(Task)] /\ waiters[cpu] # <<>>
        BY <2>4 DEF SendWake, At, IpcIInv, ProgramInv, IpcTypeOK
      <3>2. Head(waiters[cpu]) \in Task BY <3>1
      <3> QED BY <2>2, <2>4, <3>2 DEF SendWake, NobodyBlocked
    <2> QED BY <2>1, <2>2, <2>3, <2>4
          DEF IpcNext, ProgramStep, SendStep, ReceiveStep, Enter, GetId, GetCSpace,
              SendRefused, SendQueued, SendInto, SendDone, CreateEndpoint,
              PollTakes, BlockingTakes, TakeMessage, BlockingDenied, BlockingEmpty,
              BlockingRegisters, Revoke, Then, Alone, histVars, ipcVars
  <1>3. NobodyBlocked /\ IntactUntilWoken => ResumesIntact
    BY DEF NobodyBlocked, IntactUntilWoken, ResumesIntact
  <1> QED BY <1>1, <1>2, <1>3, IpcInvariant, StaleOnlyAfterWakeup, PTL DEF IpcSpec
=============================================================================
