---------------------------- MODULE Arm64Proofs ----------------------------
(***************************************************************************)
(* The safety of Arm64 for every table size, number of spawns, switch      *)
(* interval and stack depth.  Types and the agreement of the task table    *)
(* with the CPU hold whenever ticks arrive.  The ownership of registers    *)
(* needs that no tick switches before the first task runs, which is the    *)
(* hypothesis ~BootSwitches: without it a switch stores kernel_main's      *)
(* registers in the slot of task 0.                                        *)
(***************************************************************************)
EXTENDS Arm64, LeastNumber

(* The stack pointer stored for a task is the one it was created with, and *)
(* the one in use is never deeper than the code is really nested, nor      *)
(* further above than the bound on nesting: this is what keeps it in range *)
(* although a switch resets it.                                            *)
StackBounds ==
    /\ \A i \in Id : context[i].sp[2] = 0
    /\ launch.sp[2] = 0
    /\ cpu.code = Boot => cpu.sp[2] = 0
    /\ depth[cpu.code] - cpu.sp[2] \in 0 .. MaxStack

(* A switch finds a task to choose: there is one when the scheduler is     *)
(* enabled, and before.                                                    *)
SomeTask ==
    /\ spawns \in 0 .. Spawns
    /\ spawns > 0 => num_tasks > 0
    /\ At("enable") \/ At("mark") \/ At("read") \/ At("jump") => num_tasks > 0
    /\ scheduler_enabled => num_tasks > 0
    /\ num_tasks = 0 => current_task = 0
    /\ num_tasks > 0 => current_task < num_tasks

(* Every set of register files has the type of the code's structures; the  *)
(* flags are Boolean.                                                      *)
ArmBase ==
    /\ ArmTypeOK /\ StackBounds /\ SomeTask
    /\ irq_masked \in BOOLEAN /\ scheduler_enabled \in BOOLEAN

(* The bits of Arm64Assumption that arithmetic needs. *)
LEMMA ArmConstants ==
    /\ MAX_TASKS \in Nat /\ MAX_TASKS > 0 /\ Spawns \in Nat /\ Spawns > 0
    /\ SwitchEvery \in Nat /\ SwitchEvery > 0 /\ MaxStack \in Nat
    /\ 0 \in Id /\ Boot \in Thread /\ Boot \notin Id /\ Id \subseteq Thread
    /\ Thread = 0 .. MAX_TASKS
  BY Arm64Assumption DEF Id, Boot, Thread

(* The search of schedule ends at a spawned task, which is Ready, or is    *)
(* the current one again.                                                  *)
LEMMA NextReadyLemma ==
    ASSUME NEW states, NEW n \in Nat, n > 0, NEW cur \in 0 .. n - 1
    PROVE  /\ NextReady(states, cur, n) \in 0 .. n - 1
           /\ \/ states[NextReady(states, cur, n)] = "Ready"
              \/ NextReady(states, cur, n) = cur
  <1> DEFINE Stop(j) == j = n \/ states[(cur + j) % n] = "Ready"
             S == {j \in 1 .. n : Stop(j)}
             Found(j) == /\ j = n \/ states[(cur + j) % n] = "Ready"
                         /\ \A i \in 1 .. j - 1 : states[(cur + i) % n] # "Ready"
             k == CHOOSE j \in 1 .. n : Found(j)
  <1>1. S \subseteq Nat /\ S # {}
    <2>1. n \in S OBVIOUS
    <2> QED BY <2>1
  <1>2. PICK j \in S : \A i \in S : j <= i
    <2> HIDE DEF S
    <2> QED BY <1>1, LeastNat
  <1>3. \A i \in S : ~ (i < j)
    BY <1>2
  <1>4. j \in 1 .. n /\ Found(j)
    <2>1. j \in 1 .. n /\ Stop(j) OBVIOUS
    <2>2. ASSUME NEW i \in 1 .. j - 1 PROVE states[(cur + i) % n] # "Ready"
      <3>1. i \in 1 .. n /\ i < j BY <2>1
      <3> QED BY <3>1, <1>3
    <2> QED BY <2>1, <2>2
  <1>5. k \in 1 .. n /\ Found(k)
    <2> HIDE DEF Found
    <2> QED BY <1>4
  <1>6. NextReady(states, cur, n) = (cur + k) % n
    BY DEF NextReady
  <1>7. (cur + k) % n \in 0 .. n - 1
    <2> HIDE DEF k
    <2> QED BY <1>5
  <1>8. states[(cur + k) % n] = "Ready" \/ k = n
    <2> HIDE DEF k
    <2> QED BY <1>5
  <1>9. (cur + n) % n = cur
    OBVIOUS
  <1> HIDE DEF k
  <1> QED BY <1>6, <1>7, <1>8, <1>9

-----------------------------------------------------------------------------
(* Register files are records of their three fields. *)
LEMMA RegsFields ==
    ASSUME NEW r \in Regs
    PROVE  /\ r.code \in Thread /\ r.at \in Place
           /\ r.sp = <<r.sp[1], r.sp[2]>>
           /\ r.sp[1] \in Thread /\ r.sp[2] \in -MaxStack .. MaxStack
  BY DEF Regs

(* A fresh context is a register file of its own task, at the top of its   *)
(* own stack.                                                              *)
LEMMA FreshLemma ==
    ASSUME NEW i \in Id
    PROVE  /\ FreshContext(i) \in Regs
           /\ FreshContext(i).code = i /\ FreshContext(i).at = "run"
           /\ FreshContext(i).sp[1] = i /\ FreshContext(i).sp[2] = 0
  BY ArmConstants DEF FreshContext, StackTop, Regs, Place

(* A step of the boot code that only moves it on. *)
LEMMA GotoLemma ==
    ASSUME cpu \in Regs, NEW place \in Place, Goto(place)
    PROVE  /\ cpu' \in Regs /\ cpu'.code = cpu.code /\ cpu'.at = place
           /\ cpu'.sp = cpu.sp
  BY DEF Goto, Regs

(* kernel_main starts with well-typed registers on the boot stack. *)
LEMMA BaseInit == ArmInit => ArmBase
  <1> SUFFICES ASSUME ArmInit PROVE ArmBase
    OBVIOUS
  <1>1. cpu \in Regs /\ cpu.code = Boot /\ cpu.at = "init_gic" /\ cpu.sp[2] = 0
    BY ArmConstants DEF ArmInit, Regs, Place, StackTop
  <1>2. launch \in Regs /\ launch.sp[2] = 0
    BY ArmConstants, FreshLemma DEF ArmInit
  <1>3. context \in [Id -> Regs] /\ \A i \in Id : context[i].sp[2] = 0
    BY FreshLemma DEF ArmInit
  <1>4. depth \in [Thread -> 0 .. MaxStack] /\ depth[Boot] = 0
    BY ArmConstants DEF ArmInit
  <1>5. ArmTypeOK
    BY <1>1, <1>2, <1>3, <1>4, ArmConstants DEF ArmInit, ArmTypeOK
  <1>6. StackBounds
    BY <1>1, <1>2, <1>3, <1>4, ArmConstants DEF StackBounds
  <1>7. SomeTask
    BY <1>1, ArmConstants DEF ArmInit, SomeTask, At
  <1> QED BY <1>5, <1>6, <1>7 DEF ArmInit, ArmBase

(* What a tick that switches does: to the chosen task, which was spawned,  *)
(* the CPU gives its saved registers, and only the slot of the current     *)
(* task is overwritten, with its stack pointer kept.                       *)
LEMMA SwitchLemma ==
    ASSUME ArmBase, num_tasks > 0, scheduler_switch_task
    PROVE  /\ context' \in [Id -> Regs]
           /\ \A i \in Id : context'[i].sp = context[i].sp
           /\ \A i \in Id \ {current_task} : context'[i] = context[i]
           /\ context'[current_task].code = cpu.code
           /\ context'[current_task].at = cpu.at
           /\ current_task' \in 0 .. num_tasks - 1
           /\ state' \in [Id -> {"Blocked", "Ready", "Running"}]
           /\ state'[current_task'] = "Running"
           /\ \A i \in Id \ {current_task, current_task'} : state'[i] = state[i]
           /\ current_task # current_task' => state'[current_task] = "Ready"
           /\ cpu' = context'[current_task']
  <1> USE DEF ArmBase, ArmTypeOK
  <1> DEFINE next == NextReady(MarkedReady, current_task, num_tasks)
  <1>1. next \in 0 .. num_tasks - 1
    <2>1. num_tasks \in Nat /\ current_task \in 0 .. num_tasks - 1
      BY ArmConstants DEF SomeTask, Id
    <2> QED BY <2>1, NextReadyLemma
  <1>2. next \in Id BY <1>1, ArmConstants DEF Id
  <1>3. Saved(context[current_task]) \in Regs
    BY RegsFields DEF Saved, Regs
  <1>4. context' \in [Id -> Regs]
    BY <1>3 DEF scheduler_switch_task, SavedContexts
  <1>5. /\ context'[current_task] = Saved(context[current_task])
        /\ \A i \in Id \ {current_task} : context'[i] = context[i]
    BY DEF scheduler_switch_task, SavedContexts
  <1>6. /\ Saved(context[current_task]).sp = context[current_task].sp
        /\ Saved(context[current_task]).code = cpu.code
        /\ Saved(context[current_task]).at = cpu.at
    BY DEF Saved
  <1>7. \A i \in Id : context'[i].sp = context[i].sp
    BY <1>5, <1>6
  <1>8. /\ current_task' = next /\ cpu' = context'[next]
        /\ state' = [MarkedReady EXCEPT ![next] = "Running"]
    BY DEF scheduler_switch_task
  <1> HIDE DEF next
  <1>9. MarkedReady \in [Id -> {"Blocked", "Ready", "Running"}]
    BY DEF MarkedReady
  <1>10. /\ state' \in [Id -> {"Blocked", "Ready", "Running"}]
         /\ state'[next] = "Running"
         /\ \A i \in Id \ {current_task, next} : state'[i] = state[i]
         /\ current_task # next => state'[current_task] = "Ready"
    BY <1>2, <1>8, <1>9 DEF MarkedReady
  <1> QED BY <1>1, <1>4, <1>5, <1>6, <1>7, <1>8, <1>10

(* A pointer p that is between the nesting n and MaxStack above it stays   *)
(* so when both move.                                                      *)
LEMMA SlackLemma ==
    ASSUME NEW n \in 0 .. MaxStack, NEW p \in -MaxStack .. MaxStack, NEW d \in {1, -1},
           n - p \in 0 .. MaxStack, n + d \in 0 .. MaxStack
    PROVE  p + d \in -MaxStack .. MaxStack /\ (n + d) - (p + d) \in 0 .. MaxStack
  BY ArmConstants

(* Every step keeps ArmBase, ticks during the boot included. *)
LEMMA BaseStep == ArmBase /\ [ArmNext]_armVars => ArmBase'
  <1> SUFFICES ASSUME ArmBase, [ArmNext]_armVars PROVE ArmBase'
    OBVIOUS
  <1> USE DEF ArmBase
  <1>1. ASSUME NEW place \in Place, NEW from \in Place, At(from), Goto(place),
               UNCHANGED <<context, num_tasks, current_task, launch, spawns, ticks, depth>>,
               state' \in [Id -> {"Blocked", "Ready", "Running"}],
               irq_enabled' \subseteq Irqs,
               irq_masked' \in BOOLEAN, scheduler_enabled' \in BOOLEAN,
               place \in {"enable", "mark", "read", "jump"} \/ scheduler_enabled' => num_tasks > 0
        PROVE  ArmBase'
    <2>1. /\ cpu' \in Regs /\ cpu'.code = cpu.code /\ cpu'.at = place
          /\ cpu'.sp = cpu.sp
      BY <1>1, GotoLemma DEF ArmTypeOK
    <2>2. ArmTypeOK' BY <1>1, <2>1 DEF ArmTypeOK
    <2>3. StackBounds' BY <1>1, <2>1 DEF StackBounds
    <2>4. SomeTask' BY <1>1, <2>1 DEF SomeTask, At
    <2> QED BY <1>1, <2>2, <2>3, <2>4
  <1>2. CASE GicInit
    <2>1. ~scheduler_enabled \/ num_tasks > 0 BY DEF SomeTask
    <2> QED BY <1>1, <1>2, <2>1 DEF GicInit, tcbVars, Place, ArmTypeOK
  <1>3. CASE EnableTimer
    BY <1>1, <1>3, Arm64Assumption DEF EnableTimer, tcbVars, Place, ArmTypeOK, SomeTask
  <1>4. CASE Unmask
    BY <1>1, <1>4, ArmConstants DEF Unmask, tcbVars, Place, ArmTypeOK, SomeTask
  <1>5. CASE enable_scheduler
    BY <1>1, <1>5, ArmConstants DEF enable_scheduler, tcbVars, Place, ArmTypeOK, SomeTask
  <1>6. CASE spawn
    <2>1. CASE SpawnFull
      BY <1>6, <2>1, ArmConstants
         DEF spawn, SpawnFull, ArmTypeOK, StackBounds, SomeTask, At
    <2>2. CASE ~SpawnFull
      <3>1. num_tasks \in Id
        BY <2>2, ArmConstants DEF SpawnFull, ArmTypeOK, Id
      <3>2. /\ state' = [state EXCEPT ![num_tasks] = "Ready"]
            /\ context' = [context EXCEPT ![num_tasks] = FreshContext(num_tasks)]
            /\ num_tasks' = num_tasks + 1
            /\ spawns' = spawns + 1 /\ spawns < Spawns
            /\ UNCHANGED <<current_task, cpu, launch, irq_masked, irq_enabled,
                           scheduler_enabled, ticks, depth>>
        BY <1>6, <2>2 DEF spawn
      <3>3. context' \in [Id -> Regs] /\ \A i \in Id : context'[i].sp[2] = 0
        BY <3>1, <3>2, FreshLemma DEF ArmTypeOK, StackBounds
      <3>4. num_tasks' \in 0 .. MAX_TASKS /\ num_tasks' > 0
        BY <3>1, <3>2, ArmConstants DEF Id
      <3>5. ArmTypeOK' BY <3>1, <3>2, <3>3, <3>4 DEF ArmTypeOK
      <3>6. StackBounds' BY <3>2, <3>3 DEF StackBounds
      <3>7. SomeTask' BY <3>2, <3>4, ArmConstants DEF SomeTask, ArmTypeOK, At
      <3> QED BY <3>2, <3>5, <3>6, <3>7
    <2> QED BY <2>1, <2>2
  <1>7. CASE MarkFirst \/ ReadFirst
    <2>1. CASE MarkFirst
      <3>1. state' \in [Id -> {"Blocked", "Ready", "Running"}]
        BY <2>1 DEF MarkFirst, ArmTypeOK
      <3> QED BY <1>1, <2>1, <3>1, ArmConstants DEF MarkFirst, Place, ArmTypeOK, SomeTask
    <2>2. CASE ReadFirst
      <3>1. launch' \in Regs /\ launch'.sp[2] = 0
        BY <2>2, ArmConstants DEF ReadFirst, ArmTypeOK, StackBounds
      <3>2. /\ cpu' \in Regs /\ cpu'.code = cpu.code /\ cpu'.at = "jump"
            /\ cpu'.sp = cpu.sp
        BY <2>2, GotoLemma DEF ReadFirst, ArmTypeOK, Place
      <3>3. ArmTypeOK' BY <2>2, <3>1, <3>2 DEF ReadFirst, tcbVars, ArmTypeOK
      <3>4. StackBounds' BY <2>2, <3>1, <3>2 DEF ReadFirst, tcbVars, StackBounds
      <3>5. SomeTask' BY <2>2, <3>2 DEF ReadFirst, tcbVars, SomeTask, At
      <3> QED BY <2>2, <3>3, <3>4, <3>5 DEF ReadFirst
    <2> QED BY <1>7, <2>1, <2>2
  <1>8. CASE Jump
    <2>1. num_tasks > 0 BY <1>8 DEF Jump, SomeTask
    <2>2. ArmTypeOK' BY <1>8 DEF Jump, ArmTypeOK, tcbVars
    <2>3. depth[launch.code] \in 0 .. MaxStack
      BY RegsFields DEF ArmTypeOK
    <2>4. StackBounds' BY <1>8, <2>3, ArmConstants DEF Jump, StackBounds, tcbVars
    <2>5. SomeTask' BY <1>8, <2>1 DEF Jump, SomeTask, tcbVars
    <2> QED BY <1>8, <2>2, <2>4, <2>5 DEF Jump
  <1>9. CASE handle_irq
    <2>1. ticks' \in 0 .. SwitchEvery - 1
      BY <1>9, ArmConstants DEF handle_irq, ArmTypeOK
    <2>2. UNCHANGED <<num_tasks, launch, spawns, irq_masked, irq_enabled,
                      scheduler_enabled, depth>>
      BY <1>9 DEF handle_irq
    <2>3. CASE scheduler_enabled /\ ticks' = 0
      <3>1. scheduler_switch_task /\ num_tasks > 0
        BY <1>9, <2>3 DEF handle_irq, SomeTask
      <3>2. /\ context' \in [Id -> Regs]
            /\ \A i \in Id : context'[i].sp = context[i].sp
            /\ current_task' \in 0 .. num_tasks - 1
            /\ state' \in [Id -> {"Blocked", "Ready", "Running"}]
            /\ cpu' = context'[current_task']
        BY <3>1, SwitchLemma
      <3>3. current_task' \in Id
        BY <3>2, ArmConstants DEF ArmTypeOK, Id
      <3>4. cpu' \in Regs /\ cpu'.sp[2] = 0
        BY <3>2, <3>3 DEF StackBounds
      <3>5. depth[cpu'.code] \in 0 .. MaxStack
        BY <3>4, RegsFields DEF ArmTypeOK
      <3>6. ArmTypeOK' BY <2>1, <2>2, <3>2, <3>3, <3>4 DEF ArmTypeOK
      <3>7. StackBounds' BY <2>2, <3>2, <3>4, <3>5, ArmConstants DEF StackBounds
      <3>8. SomeTask' BY <2>2, <3>1, <3>2, ArmConstants DEF SomeTask, ArmTypeOK
      <3> QED BY <2>2, <3>6, <3>7, <3>8
    <2>4. CASE ~(scheduler_enabled /\ ticks' = 0)
      <3>1. UNCHANGED <<state, context, current_task, cpu>>
        BY <1>9, <2>4 DEF handle_irq
      <3> QED BY <2>1, <2>2, <3>1 DEF ArmTypeOK, StackBounds, SomeTask, At
    <2> QED BY <2>3, <2>4
  <1>10. ASSUME NEW d \in {1, -1}, MoveStack(d), InTask,
                depth[cpu.code] + d \in 0 .. MaxStack
         PROVE  ArmBase'
    <2>1. /\ depth' = [depth EXCEPT ![cpu.code] = @ + d]
          /\ cpu' = [cpu EXCEPT !.sp[2] = @ + d]
          /\ UNCHANGED <<tcbVars, launch, spawns, irq_masked, irq_enabled,
                         scheduler_enabled, ticks>>
      BY <1>10 DEF MoveStack
    <2>2. cpu.code \in Id BY <1>10 DEF InTask
    <2>3. depth' \in [Thread -> 0 .. MaxStack] /\ depth'[cpu.code] = depth[cpu.code] + d
      BY <1>10, <2>1, <2>2, ArmConstants DEF ArmTypeOK
    <2>4. depth[cpu.code] \in 0 .. MaxStack
      BY <2>2, ArmConstants DEF ArmTypeOK
    <2>5. /\ cpu \in [code : Thread, at : Place, sp : Thread \X (-MaxStack .. MaxStack)]
          /\ cpu.sp[1] \in Thread /\ cpu.sp[2] \in -MaxStack .. MaxStack
          /\ cpu.sp = <<cpu.sp[1], cpu.sp[2]>>
      BY RegsFields DEF ArmTypeOK, Regs
    <2>6. depth[cpu.code] - cpu.sp[2] \in 0 .. MaxStack
      BY DEF StackBounds
    <2>7. cpu.sp[2] + d \in -MaxStack .. MaxStack
      BY <1>10, <2>4, <2>5, <2>6, SlackLemma
    <2>8. /\ cpu'.code = cpu.code /\ cpu'.at = cpu.at
          /\ cpu'.sp = <<cpu.sp[1], cpu.sp[2] + d>>
      BY <2>1, <2>5
    <2>9. cpu' \in Regs
      BY <2>1, <2>5, <2>7, <2>8 DEF Regs
    <2>10. ArmTypeOK' BY <2>1, <2>3, <2>9 DEF ArmTypeOK, tcbVars
    <2>11. depth'[cpu'.code] - cpu'.sp[2] \in 0 .. MaxStack
      <3>1. (depth[cpu.code] + d) - (cpu.sp[2] + d) \in 0 .. MaxStack
        BY <1>10, <2>4, <2>5, <2>6, SlackLemma
      <3>2. cpu'.sp[2] = cpu.sp[2] + d BY <2>8
      <3> QED BY <2>3, <2>8, <3>1, <3>2
    <2>12. StackBounds'
      BY <2>1, <2>2, <2>8, <2>11, ArmConstants DEF StackBounds, tcbVars
    <2>13. SomeTask' BY <2>1, <2>8 DEF SomeTask, At, tcbVars
    <2> QED BY <2>1, <2>10, <2>12, <2>13
  <1>11. CASE TaskCalls
    <2>1. depth[cpu.code] \in 0 .. MaxStack
      BY <1>11, ArmConstants DEF TaskCalls, InTask, ArmTypeOK
    <2> QED BY <1>10, <1>11, <2>1, ArmConstants DEF TaskCalls
  <1>12. CASE TaskReturns
    <2>1. depth[cpu.code] \in 0 .. MaxStack
      BY <1>12, ArmConstants DEF TaskReturns, InTask, ArmTypeOK
    <2> QED BY <1>10, <1>12, <2>1, ArmConstants DEF TaskReturns
  <1>13. CASE handle_sync_exception
    <2>1. /\ cpu' \in Regs /\ cpu'.code = cpu.code /\ cpu'.at = "halted"
          /\ cpu'.sp = cpu.sp
      BY <1>13, GotoLemma DEF handle_sync_exception, ArmTypeOK, Place
    <2>2. ArmTypeOK' BY <1>13, <2>1 DEF handle_sync_exception, ArmTypeOK, tcbVars
    <2>3. StackBounds' BY <1>13, <2>1 DEF handle_sync_exception, StackBounds, tcbVars
    <2>4. SomeTask'
      BY <1>13, <2>1 DEF handle_sync_exception, SomeTask, At, tcbVars
    <2> QED BY <1>13, <2>2, <2>3, <2>4 DEF handle_sync_exception
  <1>14. CASE UNCHANGED armVars
    BY <1>14 DEF armVars, ArmTypeOK, StackBounds, SomeTask, At
  <1> QED BY <1>2, <1>3, <1>4, <1>5, <1>6, <1>7, <1>8, <1>9, <1>11, <1>12, <1>13, <1>14
          DEF ArmNext, BootStep

(* Type correctness, whenever ticks arrive: the table never holds more     *)
(* than MAX_TASKS tasks, the current task is always a slot of it, and a    *)
(* stack pointer that a switch has reset stays within MaxStack of the top. *)
THEOREM ArmTypeCorrect == ArmSpec => []ArmTypeOK
  <1>1. ArmBase => ArmTypeOK BY DEF ArmBase
  <1> QED BY BaseInit, BaseStep, <1>1, PTL DEF ArmSpec

-----------------------------------------------------------------------------
(* Which code each register file may hold, and what the table says of the  *)
(* CPU: kernel_main, if a tick switches away from it, is stored in slot 0, *)
(* since it executes only while task 0 is the current one.                 *)
TableAgrees ==
    /\ \A i \in Id : context[i].code = i \/ (i = 0 /\ context[i].code = Boot)
    /\ launch.code = 0 \/ launch.code = Boot
    /\ cpu.code = Boot => current_task = 0
    /\ cpu.code \in Id => current_task = cpu.code
    /\ \A i \in Id : state[i] = "Running" => i = current_task
    /\ cpu.code \in Id \/ cpu.at \in {"read", "jump"} => state[current_task] = "Running"

(* Before the first interrupt is set up no task is Running. *)
LEMMA AgreesInit == ArmInit => TableAgrees
  <1> SUFFICES ASSUME ArmInit PROVE TableAgrees
    OBVIOUS
  <1>1. cpu.code = Boot /\ cpu.at = "init_gic" BY DEF ArmInit
  <1> QED BY <1>1, ArmConstants, FreshLemma DEF ArmInit, TableAgrees

(* Every step keeps the table in agreement with the CPU, ticks during the  *)
(* boot included.                                                          *)
LEMMA AgreesStep == ArmBase /\ TableAgrees /\ [ArmNext]_armVars => TableAgrees'
  <1> SUFFICES ASSUME ArmBase, TableAgrees, [ArmNext]_armVars PROVE TableAgrees'
    OBVIOUS
  <1>1. cpu \in Regs /\ cpu.code \in Thread
    BY RegsFields DEF ArmBase, ArmTypeOK
  <1>2. state \in [Id -> {"Blocked", "Ready", "Running"}] /\ context \in [Id -> Regs]
    BY DEF ArmBase, ArmTypeOK
  <1>3. ASSUME NEW place \in Place \ {"read", "jump"}, Goto(place),
               UNCHANGED <<state, context, current_task, launch>>
        PROVE  TableAgrees'
    <2>1. cpu'.code = cpu.code /\ cpu'.at = place
      BY <1>1, <1>3, GotoLemma
    <2> QED BY <1>3, <2>1 DEF TableAgrees
  <1>4. CASE GicInit \/ EnableTimer \/ Unmask \/ enable_scheduler \/ handle_sync_exception
    BY <1>3, <1>4
       DEF GicInit, EnableTimer, Unmask, enable_scheduler, handle_sync_exception, tcbVars, Place
  <1>5. CASE spawn
    <2>1. UNCHANGED <<cpu, current_task, launch>> /\ cpu.code = Boot /\ cpu.at = "spawn"
      BY <1>5 DEF spawn, At
    <2>2. CASE SpawnFull
      <3>1. UNCHANGED <<state, context>> BY <1>5, <2>2 DEF spawn
      <3> QED BY <2>1, <3>1 DEF TableAgrees
    <2>3. CASE ~SpawnFull
      <3>1. num_tasks \in Id
        BY <2>3, ArmConstants DEF SpawnFull, ArmBase, ArmTypeOK, Id
      <3>2. /\ state' = [state EXCEPT ![num_tasks] = "Ready"]
            /\ context' = [context EXCEPT ![num_tasks] = FreshContext(num_tasks)]
        BY <1>5, <2>3 DEF spawn
      <3>3. \A i \in Id : context'[i].code = i \/ (i = 0 /\ context'[i].code = Boot)
        BY <1>2, <3>1, <3>2, FreshLemma DEF TableAgrees
      <3> QED BY <1>2, <2>1, <3>1, <3>2, <3>3, ArmConstants DEF TableAgrees
    <2> QED BY <2>2, <2>3
  <1>6. CASE MarkFirst \/ ReadFirst
    <2>1. CASE MarkFirst
      <3>1. /\ state' = [state EXCEPT ![0] = "Running"] /\ cpu.code = Boot
            /\ UNCHANGED <<context, current_task, launch>>
        BY <2>1 DEF MarkFirst, At
      <3>2. cpu'.code = Boot /\ cpu'.at = "read"
        BY <1>1, <2>1, <3>1, GotoLemma DEF MarkFirst, Place
      <3> QED BY <1>2, <3>1, <3>2, ArmConstants DEF TableAgrees
    <2>2. CASE ReadFirst
      <3>1. /\ launch' = context[0] /\ cpu.code = Boot /\ cpu.at = "read"
            /\ UNCHANGED <<state, context, current_task>>
        BY <2>2 DEF ReadFirst, At, tcbVars
      <3>2. cpu'.code = Boot /\ cpu'.at = "jump"
        BY <1>1, <2>2, <3>1, GotoLemma DEF ReadFirst, Place
      <3> QED BY <3>1, <3>2, ArmConstants DEF TableAgrees
    <2> QED BY <1>6, <2>1, <2>2
  <1>7. CASE Jump
    <2>1. cpu' = launch /\ UNCHANGED <<state, context, current_task, launch>>
      BY <1>7 DEF Jump, tcbVars
    <2>2. cpu.code = Boot /\ cpu.at = "jump" BY <1>7 DEF Jump, At
    <2> QED BY <2>1, <2>2, ArmConstants DEF TableAgrees
  <1>8. CASE handle_irq
    <2>1. CASE scheduler_enabled /\ ticks' = 0
      <3>1. scheduler_switch_task /\ num_tasks > 0 /\ launch' = launch
        BY <1>8, <2>1 DEF handle_irq, ArmBase, SomeTask
      <3>2. /\ \A i \in Id \ {current_task} : context'[i] = context[i]
            /\ context'[current_task].code = cpu.code
            /\ current_task' \in 0 .. num_tasks - 1
            /\ state'[current_task'] = "Running"
            /\ \A i \in Id \ {current_task, current_task'} : state'[i] = state[i]
            /\ current_task # current_task' => state'[current_task] = "Ready"
            /\ cpu' = context'[current_task']
        BY <3>1, SwitchLemma
      <3>3. current_task \in Id /\ current_task' \in Id
        BY <3>2, ArmConstants DEF ArmBase, ArmTypeOK, Id
      <3>4. cpu.code = current_task \/ (current_task = 0 /\ cpu.code = Boot)
        BY <1>1 DEF TableAgrees, Thread
      <3>5. \A i \in Id : context'[i].code = i \/ (i = 0 /\ context'[i].code = Boot)
        BY <3>2, <3>4 DEF TableAgrees
      <3>6. cpu'.code = current_task' \/ (current_task' = 0 /\ cpu'.code = Boot)
        BY <3>2, <3>3, <3>5
      <3>7. \A i \in Id : state'[i] = "Running" => i = current_task'
        BY <3>2, <3>3 DEF TableAgrees
      <3> QED BY <3>1, <3>2, <3>3, <3>5, <3>6, <3>7, ArmConstants DEF TableAgrees
    <2>2. CASE ~(scheduler_enabled /\ ticks' = 0)
      BY <1>8, <2>2 DEF handle_irq, TableAgrees
    <2> QED BY <2>1, <2>2
  <1>9. ASSUME NEW d \in {1, -1}, MoveStack(d) PROVE TableAgrees'
    <2>1. /\ cpu' = [cpu EXCEPT !.sp[2] = @ + d]
          /\ UNCHANGED <<state, context, current_task, launch>>
      BY <1>9 DEF MoveStack, tcbVars
    <2>2. cpu'.code = cpu.code /\ cpu'.at = cpu.at
      BY <1>1, <2>1 DEF Regs
    <2> QED BY <2>1, <2>2 DEF TableAgrees
  <1>10. CASE TaskCalls \/ TaskReturns
    BY <1>9, <1>10 DEF TaskCalls, TaskReturns
  <1>11. CASE UNCHANGED armVars
    BY <1>11 DEF armVars, TableAgrees
  <1> QED BY <1>4, <1>5, <1>6, <1>7, <1>8, <1>10, <1>11 DEF ArmNext, BootStep

(* The executing task is the current one and the only one Running, even    *)
(* when ticks arrive while kernel_main has not yet started the first task. *)
THEOREM OneTaskRuns == ArmSpec => []ExecutingIsRunning
  <1>1. ArmInit => ArmBase /\ TableAgrees BY BaseInit, AgreesInit
  <1>2. ArmBase /\ TableAgrees /\ [ArmNext]_armVars => (ArmBase /\ TableAgrees)'
    BY BaseStep, AgreesStep
  <1>3. ArmBase /\ TableAgrees => ExecutingIsRunning
    BY DEF TableAgrees, ExecutingIsRunning
  <1> QED BY <1>1, <1>2, <1>3, PTL DEF ArmSpec

-----------------------------------------------------------------------------
(* Boot code is at a place of the boot, task code runs or has halted the   *)
(* CPU, which then takes no more interrupts.                               *)
PlacesAgree ==
    /\ cpu.code \in Id => cpu.at \in {"run", "halted"}
    /\ cpu.at = "halted" => irq_masked

(* Every stored context is that of its task's own code, on its own stack.  *)
ContextsOwn ==
    /\ \A i \in Id : context[i] = FreshContext(i)
    /\ launch = FreshContext(0)
    /\ cpu.sp[1] = cpu.code

ArmIInv == ArmBase /\ TableAgrees /\ PlacesAgree /\ ContextsOwn

(* The boot code starts on its own registers and stack. *)
LEMMA OwnInit == ArmInit => ArmIInv
  <1> SUFFICES ASSUME ArmInit PROVE ArmIInv
    OBVIOUS
  <1>1. cpu.code = Boot /\ cpu.at = "init_gic" /\ cpu.sp[1] = Boot
    BY DEF ArmInit, StackTop
  <1>2. PlacesAgree BY <1>1, ArmConstants DEF PlacesAgree
  <1>3. ContextsOwn BY <1>1 DEF ArmInit, ContextsOwn
  <1> QED BY <1>2, <1>3, BaseInit, AgreesInit DEF ArmIInv

(* Every step keeps the invariant when no tick switches before the first   *)
(* task runs.                                                              *)
LEMMA OwnStep ==
    ASSUME ~BootSwitches, ArmIInv, [ArmNext]_armVars
    PROVE  ArmIInv'
  <1> USE DEF ArmIInv
  <1>1. ArmBase' /\ TableAgrees' BY BaseStep, AgreesStep
  <1>2. cpu \in Regs /\ cpu.code \in Thread
    BY RegsFields DEF ArmBase, ArmTypeOK
  <1>3. ASSUME NEW place \in Place, Goto(place), UNCHANGED <<context, launch>>,
               place = "halted" => irq_masked',
               cpu.code = Boot \/ place = "halted"
        PROVE  ArmIInv'
    <2>1. cpu'.code = cpu.code /\ cpu'.at = place /\ cpu'.sp = cpu.sp
      BY <1>2, <1>3, GotoLemma
    <2>2. PlacesAgree' BY <1>3, <2>1, ArmConstants DEF PlacesAgree
    <2>3. ContextsOwn' BY <1>3, <2>1 DEF ContextsOwn
    <2> QED BY <1>1, <2>2, <2>3
  <1>4. CASE \/ GicInit \/ EnableTimer \/ Unmask \/ enable_scheduler \/ MarkFirst
             \/ handle_sync_exception
    BY <1>3, <1>4
       DEF GicInit, EnableTimer, Unmask, enable_scheduler, MarkFirst,
           handle_sync_exception, At, tcbVars, Place
  <1>5. CASE spawn
    <2>1. UNCHANGED <<cpu, launch, irq_masked>>
      BY <1>5 DEF spawn
    <2>2. \A i \in Id : context'[i] = FreshContext(i)
      <3>1. CASE SpawnFull
        BY <1>5, <3>1 DEF spawn, ContextsOwn
      <3>2. CASE ~SpawnFull
        <4>1. context' = [context EXCEPT ![num_tasks] = FreshContext(num_tasks)]
          BY <1>5, <3>2 DEF spawn
        <4>2. context \in [Id -> Regs] BY DEF ArmBase, ArmTypeOK
        <4> QED BY <4>1, <4>2 DEF ContextsOwn
      <3> QED BY <3>1, <3>2
    <2> QED BY <1>1, <2>1, <2>2 DEF PlacesAgree, ContextsOwn
  <1>6. CASE ReadFirst
    <2>1. launch' = context[0] /\ UNCHANGED <<context, irq_masked>> /\ cpu.code = Boot
      BY <1>6 DEF ReadFirst, At, tcbVars
    <2>2. cpu'.code = Boot /\ cpu'.at = "jump" /\ cpu'.sp = cpu.sp
      BY <1>2, <1>6, <2>1, GotoLemma DEF ReadFirst, Place
    <2> QED BY <1>1, <2>1, <2>2, ArmConstants DEF PlacesAgree, ContextsOwn
  <1>7. CASE Jump
    <2>1. cpu' = launch /\ UNCHANGED <<context, launch>>
      BY <1>7 DEF Jump, tcbVars
    <2>2. cpu'.code = 0 /\ cpu'.at = "run" /\ cpu'.sp[1] = 0
      BY <2>1, ArmConstants, FreshLemma DEF ContextsOwn
    <2> QED BY <1>1, <2>1, <2>2 DEF PlacesAgree, ContextsOwn
  <1>8. CASE handle_irq
    <2>1. ~irq_masked /\ UNCHANGED <<launch, irq_masked>>
      BY <1>8 DEF handle_irq
    <2>2. CASE scheduler_enabled /\ ticks' = 0
      <3>1. cpu.code # Boot BY <1>8, <2>2 DEF handle_irq
      <3>2. cpu.code \in Id /\ cpu.at = "run" /\ current_task = cpu.code
        BY <1>2, <2>1, <3>1 DEF TableAgrees, PlacesAgree, Thread
      <3>3. scheduler_switch_task /\ num_tasks > 0
        BY <1>8, <2>2 DEF handle_irq, ArmBase, SomeTask
      <3>4. /\ context' \in [Id -> Regs]
            /\ \A i \in Id : context'[i].sp = context[i].sp
            /\ \A i \in Id \ {current_task} : context'[i] = context[i]
            /\ context'[current_task].code = cpu.code
            /\ context'[current_task].at = cpu.at
            /\ current_task' \in 0 .. num_tasks - 1
            /\ cpu' = context'[current_task']
        BY <3>3, SwitchLemma
      <3>5. current_task' \in Id
        BY <3>4, ArmConstants DEF ArmBase, ArmTypeOK, Id
      <3>6. context'[current_task] = FreshContext(current_task)
        <4>1. context'[current_task] \in Regs BY <3>2, <3>4
        <4>2. context[current_task] = FreshContext(current_task)
          BY <3>2 DEF ContextsOwn
        <4>3. context'[current_task].sp = StackTop(current_task)
          BY <3>2, <3>4, <4>2 DEF FreshContext
        <4> QED BY <3>2, <3>4, <4>1, <4>3 DEF FreshContext, Regs
      <3>7. \A i \in Id : context'[i] = FreshContext(i)
        BY <3>4, <3>6 DEF ContextsOwn
      <3>8. cpu'.code = current_task' /\ cpu'.at = "run" /\ cpu'.sp[1] = current_task'
        BY <3>4, <3>5, <3>7, FreshLemma
      <3> QED BY <1>1, <2>1, <3>7, <3>8 DEF PlacesAgree, ContextsOwn
    <2>3. CASE ~(scheduler_enabled /\ ticks' = 0)
      <3>3. UNCHANGED <<context, cpu>>
        BY <1>8, <2>3 DEF handle_irq
      <3> QED BY <1>1, <2>1, <3>3 DEF PlacesAgree, ContextsOwn
    <2> QED BY <2>2, <2>3
  <1>9. ASSUME NEW d \in {1, -1}, MoveStack(d) PROVE ArmIInv'
    <2>1. /\ cpu' = [cpu EXCEPT !.sp[2] = @ + d]
          /\ UNCHANGED <<context, launch, irq_masked>>
      BY <1>9 DEF MoveStack, tcbVars
    <2>2. cpu \in [code : Thread, at : Place, sp : Thread \X (-MaxStack .. MaxStack)]
      BY <1>2 DEF Regs
    <2>3. cpu'.code = cpu.code /\ cpu'.at = cpu.at /\ cpu'.sp[1] = cpu.sp[1]
      BY <2>1, <2>2
    <2> QED BY <1>1, <2>1, <2>3 DEF PlacesAgree, ContextsOwn
  <1>10. CASE TaskCalls \/ TaskReturns
    BY <1>9, <1>10 DEF TaskCalls, TaskReturns
  <1>11. CASE UNCHANGED armVars
    BY <1>1, <1>11 DEF armVars, PlacesAgree, ContextsOwn
  <1> QED BY <1>4, <1>5, <1>6, <1>7, <1>8, <1>10, <1>11 DEF ArmNext, BootStep

(* The inductive invariant of the ARM64 kernel without ticks in the boot.  *)
THEOREM ArmInvariant ==
    ASSUME ~BootSwitches
    PROVE  ArmSpec => []ArmIInv
  <1>1. ArmIInv /\ [ArmNext]_armVars => ArmIInv' BY OwnStep
  <1> QED BY OwnInit, <1>1, PTL DEF ArmSpec

(* No number of ticks mixes the registers or the stacks of two threads.    *)
THEOREM RegistersStayOwn ==
    ASSUME ~BootSwitches
    PROVE  ArmSpec => []RegistersAreOwn
  <1>1. ArmIInv => RegistersAreOwn
    BY FreshLemma DEF ArmIInv, ContextsOwn, RegistersAreOwn
  <1> QED BY ArmInvariant, <1>1, PTL

=============================================================================
