------------------------------- MODULE Arm64 -------------------------------
(***************************************************************************)
(* The ARM64 kernel's preemption: the interrupt controller (gic.rs), the   *)
(* IRQ path (exceptions.S, exceptions.rs), the fixed-size round-robin      *)
(* scheduler (scheduler.rs) under src/src/arch/aarch64, and the start of   *)
(* the tasks in src/src/main_aarch64.rs.                                   *)
(*                                                                         *)
(* A register file is a record: code, the thread whose instructions and    *)
(* general registers it holds; at, where in the code; sp, the stack it     *)
(* came from and how far below the top it is (negative: above).  One IRQ,  *)
(* from SAVE_REGS to eret, runs with interrupts masked and is one step.    *)
(***************************************************************************)
EXTENDS Integers, FiniteSets

CONSTANTS
    MAX_TASKS,
    Spawns,         \* how many times the boot code calls spawn
    Irqs,           \* the interrupt lines of the GIC
    TimerIrq,       \* ARM_TIMER_IRQ
    SwitchEvery,    \* ticks between two switches (10 in the code)
    MaxStack,       \* bound on the stack depth of a task
    BootSwitches,   \* may a tick that switches arrive before the first task?
    Faults          \* may task code cause an exception?

ASSUME Arm64Assumption ==
    /\ MAX_TASKS \in Nat \ {0} /\ Spawns \in Nat \ {0}
    /\ SwitchEvery \in Nat \ {0} /\ MaxStack \in Nat
    /\ TimerIrq \in Irqs /\ {BootSwitches, Faults} \subseteq BOOLEAN

Id == 0 .. MAX_TASKS - 1

(* kernel_main; not a task id. *)
Boot == MAX_TASKS

Thread == Id \cup {Boot}

(* Places: of the boot code, "run" for task code, "halted" in a handler    *)
(* that never returns.                                                     *)
Place == {"init_gic", "enable_timer", "spawn", "enable", "mark", "read", "jump", "run",
          "halted"}

Regs == [code : Thread, at : Place, sp : Thread \X (-MaxStack .. MaxStack)]

VARIABLES
    state,          \* tasks[i].state
    context,        \* tasks[i].context
    num_tasks, current_task,
    cpu,            \* the CPU's registers
    launch,         \* the copy of task 0's context that kernel_main jumps to
    spawns,         \* calls of spawn so far
    irq_masked,     \* PSTATE.I
    irq_enabled,    \* the lines enabled in GICD_ISENABLER
    scheduler_enabled,
    ticks,          \* TIMER_TICKS modulo SwitchEvery
    depth           \* how deep each thread's code is really nested

armVars == <<state, context, num_tasks, current_task, cpu, launch, spawns,
             irq_masked, irq_enabled, scheduler_enabled, ticks, depth>>

tcbVars == <<state, context, num_tasks, current_task>>

StackTop(i) == <<i, 0>>

(* TaskContext::init *)
FreshContext(i) == [code |-> i, at |-> "run", sp |-> StackTop(i)]

(* arch::init begins with everything masked; a slot never spawned is       *)
(* Blocked, and its context is never used.                                 *)
ArmInit ==
    /\ state = [i \in Id |-> "Blocked"]
    /\ context = [i \in Id |-> FreshContext(i)]
    /\ num_tasks = 0 /\ current_task = 0
    /\ cpu = [code |-> Boot, at |-> "init_gic", sp |-> StackTop(Boot)]
    /\ launch = FreshContext(0)
    /\ spawns = 0
    /\ irq_masked = TRUE /\ irq_enabled = {} /\ scheduler_enabled = FALSE
    /\ ticks = 0
    /\ depth = [t \in Thread |-> 0]

At(place) == cpu.code = Boot /\ cpu.at = place

Goto(place) == cpu' = [cpu EXCEPT !.at = place]

-----------------------------------------------------------------------------
(* gic::init (the loop over GICD_ISENABLER writes ones), then timer::init  *)
(* and enable_timer_interrupt.                                             *)
GicInit ==
    /\ At("init_gic")
    /\ irq_enabled' = Irqs
    /\ Goto("enable_timer")
    /\ UNCHANGED <<tcbVars, launch, spawns, irq_masked, scheduler_enabled, ticks, depth>>

EnableTimer ==
    /\ At("enable_timer")
    /\ irq_enabled' = irq_enabled \cup {TimerIrq}
    /\ Goto("spawn")
    /\ UNCHANGED <<tcbVars, launch, spawns, irq_masked, scheduler_enabled, ticks, depth>>

(* Mutant: off by one. *)
MutSpawnOneMore == num_tasks > MAX_TASKS

(* Scheduler::spawn, called with interrupts masked; it returns None when   *)
(* the table is full.                                                      *)
SpawnFull == num_tasks >= MAX_TASKS

spawn ==
    /\ At("spawn") /\ spawns < Spawns
    /\ spawns' = spawns + 1
    /\ IF SpawnFull
       THEN UNCHANGED <<state, context, num_tasks>>
       ELSE /\ state' = [state EXCEPT ![num_tasks] = "Ready"]
            /\ context' = [context EXCEPT ![num_tasks] = FreshContext(num_tasks)]
            /\ num_tasks' = num_tasks + 1
    /\ UNCHANGED <<current_task, cpu, launch, irq_masked, irq_enabled,
                   scheduler_enabled, ticks, depth>>

(* kernel_main: unmask IRQs, enable_scheduler, then mark task 0 Running,   *)
(* read its context, and eret to what was read; it prints in between.      *)
Unmask ==
    /\ At("spawn") /\ spawns = Spawns
    /\ irq_masked' = FALSE
    /\ Goto("enable")
    /\ UNCHANGED <<tcbVars, launch, spawns, irq_enabled, scheduler_enabled, ticks, depth>>

enable_scheduler ==
    /\ At("enable")
    /\ scheduler_enabled' = TRUE
    /\ Goto("mark")
    /\ UNCHANGED <<tcbVars, launch, spawns, irq_masked, irq_enabled, ticks, depth>>

MarkFirst ==
    /\ At("mark")
    /\ state' = [state EXCEPT ![0] = "Running"]
    /\ Goto("read")
    /\ UNCHANGED <<context, num_tasks, current_task, launch, spawns, irq_masked,
                   irq_enabled, scheduler_enabled, ticks, depth>>

ReadFirst ==
    /\ At("read")
    /\ launch' = context[0]
    /\ Goto("jump")
    /\ UNCHANGED <<tcbVars, spawns, irq_masked, irq_enabled, scheduler_enabled, ticks,
                   depth>>

Jump ==
    /\ At("jump")
    /\ cpu' = launch
    /\ UNCHANGED <<tcbVars, launch, spawns, irq_masked, irq_enabled, scheduler_enabled,
                   ticks, depth>>

-----------------------------------------------------------------------------
(* Mutant: the search starts at the current task. *)
MutNextReady(states, cur, n) ==
    LET k == CHOOSE j \in 0 .. n :
                /\ j = n \/ states[(cur + j) % n] = "Ready"
                /\ \A i \in 0 .. j - 1 : states[(cur + i) % n] # "Ready"
    IN  (cur + k) % n

(* Scheduler::schedule: the next Ready task in circular order, or the same *)
(* one when there is no other.                                             *)
NextReady(states, cur, n) ==
    LET k == CHOOSE j \in 1 .. n :
                /\ j = n \/ states[(cur + j) % n] = "Ready"
                /\ \A i \in 1 .. j - 1 : states[(cur + i) % n] # "Ready"
    IN  (cur + k) % n

(* What scheduler_switch_task stores of the interrupted registers: all of  *)
(* them but the stack pointer, which keeps the value it had.               *)
Saved(old) == [code |-> cpu.code, at |-> cpu.at, sp |-> old.sp]

(* Mutant: the registers go to the wrong slot. *)
MutSaveInNext == [context EXCEPT ![(current_task + 1) % num_tasks] = Saved(@)]

SavedContexts == [context EXCEPT ![current_task] = Saved(@)]

(* Mutant: the interrupted task stays Running. *)
MutStaysRunning == state

MarkedReady == [state EXCEPT ![current_task] = "Ready"]

(* scheduler_switch_task: store, mark Ready, choose, mark Running, and     *)
(* build a frame below the stack pointer of the chosen context, from which *)
(* RESTORE_REGS and eret load everything.                                  *)
scheduler_switch_task ==
    LET next == NextReady(MarkedReady, current_task, num_tasks)
    IN  /\ context' = SavedContexts
        /\ current_task' = next
        /\ state' = [MarkedReady EXCEPT ![next] = "Running"]
        /\ cpu' = SavedContexts[next]

(* el1_spx_irq and handle_irq: the timer is re-armed and the interrupt     *)
(* ended before the switch, so ticks go on whoever runs next.  Without     *)
(* BootSwitches kernel_main reaches the first task before the tick that    *)
(* switches; the other ticks interrupt it all the same.                    *)
handle_irq ==
    /\ ~irq_masked
    /\ ticks' = (ticks + 1) % SwitchEvery
    /\ cpu.code = Boot /\ scheduler_enabled /\ ticks' = 0 => BootSwitches
    /\ IF scheduler_enabled /\ ticks' = 0
       THEN scheduler_switch_task
       ELSE UNCHANGED <<state, context, current_task, cpu>>
    /\ UNCHANGED <<num_tasks, launch, spawns, irq_masked, irq_enabled,
                   scheduler_enabled, depth>>

(* Task code calls a function and returns from one: the pointer moves by a *)
(* frame from wherever it is.                                              *)
MoveStack(d) ==
    /\ depth' = [depth EXCEPT ![cpu.code] = @ + d]
    /\ cpu' = [cpu EXCEPT !.sp[2] = @ + d]
    /\ UNCHANGED <<tcbVars, launch, spawns, irq_masked, irq_enabled, scheduler_enabled, ticks>>

InTask == cpu.code \in Id /\ cpu.at = "run"

TaskCalls == InTask /\ depth[cpu.code] < MaxStack /\ MoveStack(1)

TaskReturns == InTask /\ depth[cpu.code] > 0 /\ MoveStack(-1)

(* handle_sync_exception and handle_serror: the exception masks IRQs, and  *)
(* the handler waits for ever, whichever task it was.                      *)
handle_sync_exception ==
    /\ Faults /\ InTask
    /\ irq_masked' = TRUE
    /\ Goto("halted")
    /\ UNCHANGED <<tcbVars, launch, spawns, irq_enabled, scheduler_enabled, ticks, depth>>

-----------------------------------------------------------------------------
BootStep ==
    \/ GicInit \/ EnableTimer \/ spawn \/ Unmask \/ enable_scheduler \/ MarkFirst \/ ReadFirst
    \/ Jump

ArmNext == BootStep \/ handle_irq \/ TaskCalls \/ TaskReturns \/ handle_sync_exception

ArmSpec == ArmInit /\ [][ArmNext]_armVars

(* The boot code runs on and the timer keeps firing; no task is obliged to *)
(* do anything.                                                            *)
FairArmSpec == ArmSpec /\ WF_armVars(BootStep) /\ WF_armVars(handle_irq)

-----------------------------------------------------------------------------
(* Type invariant; the scheduler never holds more than MAX_TASKS tasks. *)
ArmTypeOK ==
    /\ state \in [Id -> {"Blocked", "Ready", "Running"}]
    /\ context \in [Id -> Regs] /\ cpu \in Regs /\ launch \in Regs
    /\ num_tasks \in 0 .. MAX_TASKS /\ current_task \in Id
    /\ irq_enabled \subseteq Irqs /\ ticks \in 0 .. SwitchEvery - 1
    /\ depth \in [Thread -> 0 .. MaxStack]

(* After any number of switches a task's context holds its own code and a  *)
(* pointer that came from its own stack, and so do the CPU's registers: no *)
(* tick mixes two threads.                                                 *)
RegistersAreOwn ==
    /\ \A i \in Id : context[i].code = i /\ context[i].sp[1] = i
    /\ cpu.sp[1] = cpu.code

(* Once the tasks are started the executing one is the current one and the *)
(* only one Running.                                                       *)
ExecutingIsRunning ==
    cpu.code \in Id =>
        /\ current_task = cpu.code
        /\ {i \in Id : state[i] = "Running"} = {cpu.code}

(* Preemption gives every spawned task the CPU again and again, whatever   *)
(* the tasks do short of an exception, which stops them all.               *)
EverySpawnedRuns ==
    \A i \in Id : i < Spawns => []<>(cpu.code = i \/ cpu.at = "halted")

(* A task that is switched in has the stack pointer it was interrupted     *)
(* with: all registers are preserved.                                      *)
StackPointerKept == cpu.code \in Id => cpu.sp = <<cpu.code, depth[cpu.code]>>

(* gic::init leaves every interrupt disabled. *)
InitDisablesAll == At("enable_timer") => irq_enabled = {}

=============================================================================
