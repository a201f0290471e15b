----------------------------- MODULE Preemption -----------------------------
(***************************************************************************)
(* One CPU under the scheduler: task_yield and switch_context of           *)
(* src/src/scheduler.rs, the timer interrupt of src/src/interrupts.rs with *)
(* its 8259 interrupt controller, the locks taken while interrupts are     *)
(* enabled (SCHEDULER, SERIAL1), and the boot thread of src/src/main.rs,   *)
(* which starts the timer before the scheduler exists.                     *)
(*                                                                         *)
(* Scheduler (extended here) says which task *should* run, cpu says whose  *)
(* code the CPU really executes.  Code that runs with interrupts disabled  *)
(* cannot be interleaved on a single core and is one step.                 *)
(***************************************************************************)
EXTENDS Scheduler

CONSTANTS
    Boot,           \* the boot thread (kernel_main), not a task
    BootOrder,      \* the order in which test_scheduler adds the tasks
    Cooperative,    \* tasks that keep calling task_yield
    LockUsers,      \* tasks that lock SCHEDULER with interrupts enabled
    Printers,       \* threads that print, under the SERIAL1 lock
    Returning,      \* tasks whose entry function returns
    Faulty,         \* tasks that may panic or cause an exception
    Keyboard,       \* whether keys are pressed
    Debug,          \* debug_assertions: schedule and the timer handler print
    OpenWindows     \* rare places where an interrupt may also arrive, see Interruptible

Thread == Task \cup {Boot}

Window == {"popfq", "lock", "boot", "print"}

ASSUME BootAssumption == Boot \notin Task \cup {None}
ASSUME BootOrderAssumption ==
    /\ BootOrder \in Seq(Task) /\ BootOrder # <<>>
    /\ \A i, j \in DOMAIN BootOrder : BootOrder[i] = BootOrder[j] => i = j
    /\ {BootOrder[i] : i \in DOMAIN BootOrder} = Task
ASSUME WorkloadAssumption ==
    /\ Cooperative \subseteq Task /\ LockUsers \subseteq Task
    /\ Printers \subseteq Thread /\ Returning \subseteq Task /\ Faulty \subseteq Task
    /\ {Keyboard, Debug} \subseteq BOOLEAN /\ OpenWindows \subseteq Window

VARIABLES
    cpu,        \* the thread whose code and stack the CPU is on
    pc,         \* where each thread is, see Loc
    iret,       \* what a thread's interrupt handler returns to, or "none"
    int_saved,  \* interrupts_enabled, the local of each thread's task_yield
    context,    \* Task.context: the thread saved there; None: as Task::new made it
    IF_flag,    \* RFLAGS.IF of the CPU
    irr,        \* the PIC has a timer interrupt pending
    isr,        \* the PIC waits for the end-of-interrupt of the timer
    ticked,     \* TIMER_TICKS > 0
    inited,     \* SCHEDULER is Some
    lock,       \* holder of the SCHEDULER mutex, or None
    serial,     \* holder of the SERIAL1 mutex, or None
    boot_copy,  \* first_task_context, the copy test_scheduler jumps to
    key,        \* the PIC has a keyboard interrupt pending
    print_to    \* where each thread goes after its print, or "none"

machineVars == <<cpu, pc, iret, int_saved, context, IF_flag, irr, isr, ticked,
                 inited, lock, serial, boot_copy, key, print_to>>

ioVars == <<key, print_to>>

preVars == <<schedVars, machineVars>>

(* Places of a thread.  "yield": in task_yield, interrupts off, about to   *)
(* lock SCHEDULER; "saved": inside switch_context, switched out; "popfq":  *)
(* switched in for the first time, flags loaded, entry point not yet;      *)
(* "resumed": back in task_yield after the switch; "staying": at the end   *)
(* of a task_yield that did not switch, the SCHEDULER guard still alive;   *)
(* "eoi": in the timer handler after task_yield; "spin_off": in a handler, *)
(* spinning for SERIAL1; "exiting": its entry function returned, before it *)
(* locks SCHEDULER; "halted": in a hlt loop; "faulted": in one with        *)
(* interrupts off; "lost": it fetched its entry point from an overwritten  *)
(* context.                                                                *)
BootLoc == {"b_init", "b_init_locked", "b_add", "b_add_locked", "b_scheduled",
            "b_copy_locked", "b_jump"}

Loc == {"new", "run", "yield", "staying", "saved", "popfq", "resumed",
        "eoi", "spin_off", "locked", "spinning", "printing", "exiting",
        "term_locked", "halted", "faulted", "lost", "gone"} \cup BootLoc

-----------------------------------------------------------------------------
(* kernel_main at the end of init_timer: the PIT runs, interrupts are on. *)
PreInit ==
    /\ SchedulerNew
    /\ cpu = Boot
    /\ pc = [th \in Thread |-> IF th = Boot THEN "b_init" ELSE "new"]
    /\ iret = [th \in Thread |-> "none"]
    /\ int_saved = [th \in Thread |-> FALSE]
    /\ context = [t \in Task |-> None]
    /\ IF_flag = TRUE
    /\ irr = FALSE /\ isr = FALSE /\ ticked = FALSE
    /\ inited = FALSE /\ lock = None /\ serial = None
    /\ boot_copy = None
    /\ key = FALSE /\ print_to = [th \in Thread |-> "none"]

At(loc) == pc[cpu] = loc

Goto(loc) == pc' = [pc EXCEPT ![cpu] = loc]

-----------------------------------------------------------------------------
(* The PIT raises IRQ 0; an edge while one is pending is lost. *)
TimerFires ==
    /\ ~irr
    /\ irr' = TRUE
    /\ UNCHANGED <<schedVars, cpu, pc, iret, int_saved, context, IF_flag, isr,
                   ticked, inited, lock, serial, boot_copy, ioVars>>

(* A key raises IRQ 1. *)
KeyPressed ==
    /\ Keyboard /\ ~key
    /\ key' = TRUE
    /\ UNCHANGED <<schedVars, cpu, pc, iret, int_saved, context, IF_flag, irr,
                   isr, ticked, inited, lock, serial, boot_copy, print_to>>

(* The SCHEDULER mutex is held and interrupts are enabled. *)
HoldingScheduler ==
    {"locked", "term_locked", "staying", "b_init_locked", "b_add_locked",
     "b_copy_locked"}

(* Where the code runs with interrupts enabled.  A tick in the task's own  *)
(* code, in a print, in the final hlt loop or before the tasks exist is    *)
(* always possible; the windows are short and are opened by OpenWindows    *)
(* one at a time.                                                          *)
Interruptible ==
    \/ pc[cpu] \in {"run", "spinning", "printing", "exiting", "halted", "b_init", "b_add"}
    \/ pc[cpu] = "popfq" /\ "popfq" \in OpenWindows
    \/ pc[cpu] \in HoldingScheduler /\ "lock" \in OpenWindows
    \/ pc[cpu] \in {"b_scheduled", "b_jump"} /\ "boot" \in OpenWindows

(* An interrupt whose handler prints may find SERIAL1 held, in the window  *)
(* "print".                                                                *)
SerialHeld == serial # None /\ "print" \in OpenWindows

(* Mutant: the end-of-interrupt is sent before the yield. *)
MutEoiFirst ==
    /\ IF_flag /\ irr /\ ~isr
    /\ Interruptible
    /\ irr' = FALSE /\ isr' = FALSE /\ ticked' = TRUE
    /\ IF_flag' = FALSE
    /\ iret' = [iret EXCEPT ![cpu] = pc[cpu]]
    /\ Goto(IF ticked THEN "yield" ELSE "eoi")
    /\ int_saved' = [int_saved EXCEPT ![cpu] = FALSE]
    /\ UNCHANGED <<schedVars, cpu, context, inited, lock, serial, boot_copy, ioVars>>

(* The CPU takes the interrupt: timer_interrupt_handler up to and          *)
(* including the entry of task_yield (the first tick does not yield).      *)
(* The gate clears IF, so are_enabled() is false in task_yield.  A debug   *)
(* build prints at the first tick and at every hundredth after it (here:   *)
(* at any): it spins for ever if SERIAL1 is held.                          *)
timer_interrupt_handler ==
    /\ IF_flag /\ irr /\ ~isr
    /\ Interruptible
    /\ irr' = FALSE /\ isr' = TRUE /\ ticked' = TRUE
    /\ IF_flag' = FALSE
    /\ iret' = [iret EXCEPT ![cpu] = pc[cpu]]
    /\ \/ /\ Debug /\ ~ticked => serial = None
          /\ Goto(IF ticked THEN "yield" ELSE "eoi")
       \/ Debug /\ SerialHeld /\ Goto("spin_off")
    /\ int_saved' = [int_saved EXCEPT ![cpu] = FALSE]
    /\ UNCHANGED <<schedVars, cpu, context, inited, lock, serial, boot_copy, ioVars>>

(* Mutant: the end-of-interrupt is forgotten. *)
MutNoEoi ==
    /\ At("eoi")
    /\ IF_flag' = TRUE
    /\ Goto(iret[cpu])
    /\ iret' = [iret EXCEPT ![cpu] = "none"]
    /\ UNCHANGED <<schedVars, cpu, int_saved, context, irr, isr, ticked, inited,
                   lock, serial, boot_copy, ioVars>>

(* The end of timer_interrupt_handler: notify_end_of_interrupt and iretq.  *)
end_of_interrupt ==
    /\ At("eoi")
    /\ isr' = FALSE
    /\ IF_flag' = TRUE
    /\ Goto(iret[cpu])
    /\ iret' = [iret EXCEPT ![cpu] = "none"]
    /\ UNCHANGED <<schedVars, cpu, int_saved, context, irr, ticked, inited, lock,
                   serial, boot_copy, ioVars>>

(* keyboard_interrupt_handler, from the gate to its iretq: interrupts are  *)
(* off, so it is one step, unless it spins for a SERIAL1 that is held.     *)
(* The timer's IRQ has the higher priority in the PIC.                     *)
keyboard_interrupt_handler ==
    /\ IF_flag /\ key /\ ~irr /\ ~isr
    /\ Interruptible
    /\ \/ serial = None /\ UNCHANGED <<pc, iret, IF_flag>>
       \/ /\ SerialHeld
          /\ IF_flag' = FALSE
          /\ iret' = [iret EXCEPT ![cpu] = pc[cpu]]
          /\ Goto("spin_off")
    /\ key' = FALSE
    /\ UNCHANGED <<schedVars, cpu, int_saved, context, irr, isr, ticked, inited,
                   lock, serial, boot_copy, print_to>>

-----------------------------------------------------------------------------
(* task_yield called by task code: record and clear IF. *)
CallYield(t) ==
    /\ cpu = t /\ t \in Cooperative /\ At("run")
    /\ int_saved' = [int_saved EXCEPT ![cpu] = IF_flag]
    /\ IF_flag' = FALSE
    /\ Goto("yield")
    /\ UNCHANGED <<schedVars, cpu, iret, context, irr, isr, ticked, inited, lock,
                   serial, boot_copy, ioVars>>

(* Mutant: the registers are saved in the wrong context. *)
MutSaveIntoNew(old, new) ==
    LET next == IF context[new] = None THEN new ELSE context[new]
    IN  /\ context' = [context EXCEPT ![new] = cpu]
        /\ cpu' = next
        /\ pc' = [pc EXCEPT ![cpu] = "saved",
                            ![next] = IF context[new] = None THEN "popfq" ELSE "resumed"]
        /\ IF_flag' = (context[new] = None)

(* Mutant: scheduled, but never switched. *)
MutNoSwitch(old, new) ==
    /\ Goto("resumed")
    /\ UNCHANGED <<cpu, context, IF_flag>>

(* switch_context(old_context, new_context): the CPU's registers go into   *)
(* the context of task old, the ones in the context of task new are        *)
(* loaded.  A context from Task::new has IF set: popfq enables interrupts  *)
(* before the entry point is fetched.  A saved one has IF clear.           *)
switch_context(old, new) ==
    LET next == IF context[new] = None THEN new ELSE context[new]
    IN  /\ context' = [context EXCEPT ![old] = cpu]
        /\ cpu' = next
        /\ pc' = [pc EXCEPT ![cpu] = "saved",
                            ![next] = IF context[new] = None THEN "popfq" ELSE "resumed"]
        /\ IF_flag' = (context[new] = None)

(* task_yield under the lock when there is nothing to switch to: no        *)
(* scheduler yet, no current task, nothing ready, or the same task again.  *)
(* These early returns restore the interrupt flag while the guard is still *)
(* alive; it is dropped on the way out.                                    *)
YieldStays ==
    /\ At("yield") /\ lock = None
    /\ \/ /\ ~inited \/ current_task = None
          /\ UNCHANGED schedVars
       \/ /\ inited /\ current_task # None
          /\ ScheduleReturns \in {None, current_task}
          /\ Debug /\ ScheduleReturns # None => serial = None
          /\ schedule
    /\ lock' = cpu
    /\ IF_flag' = (IF_flag \/ int_saved[cpu])
    /\ Goto("staying")
    /\ UNCHANGED <<cpu, iret, int_saved, context, irr, isr, ticked, inited, serial,
                   boot_copy, ioVars>>

AfterYield == IF iret[cpu] = "none" THEN "run" ELSE "eoi"

YieldUnlocks ==
    /\ At("staying")
    /\ lock' = None
    /\ Goto(AfterYield)
    /\ UNCHANGED <<schedVars, cpu, iret, int_saved, context, IF_flag, irr, isr,
                   ticked, inited, serial, boot_copy, ioVars>>

(* Mutant: the guard is not dropped before the switch. *)
MutSwitchLocked ==
    /\ At("yield") /\ lock = None
    /\ inited /\ current_task # None
    /\ ScheduleReturns \notin {None, current_task}
    /\ schedule
    /\ switch_context(current_task, ScheduleReturns)
    /\ lock' = cpu
    /\ UNCHANGED <<iret, int_saved, irr, isr, ticked, inited, serial, boot_copy, ioVars>>

(* task_yield when schedule chose another task: the guard is dropped, then *)
(* the switch.  Debug builds print in schedule and before the switch.      *)
YieldSwitches ==
    /\ At("yield") /\ lock = None
    /\ inited /\ current_task # None
    /\ ScheduleReturns \notin {None, current_task}
    /\ Debug => serial = None
    /\ schedule
    /\ switch_context(current_task, ScheduleReturns)
    /\ UNCHANGED <<iret, int_saved, irr, isr, ticked, inited, lock, serial, boot_copy, ioVars>>

(* The rest of switch_context for a first switch-in: it fetches rdi and    *)
(* rip from the task's context and jumps to task_entry_wrapper, unless the *)
(* context has been overwritten since popfq.                               *)
EnterTask ==
    /\ At("popfq")
    /\ Goto(IF context[cpu] = None THEN "run" ELSE "lost")
    /\ UNCHANGED <<schedVars, cpu, iret, int_saved, context, IF_flag, irr, isr,
                   ticked, inited, lock, serial, boot_copy, ioVars>>

(* Mutant: interrupts are enabled whatever they were. *)
MutYieldEnables ==
    /\ At("resumed")
    /\ IF_flag' = TRUE
    /\ Goto(AfterYield)
    /\ UNCHANGED <<schedVars, cpu, iret, int_saved, context, irr, isr, ticked,
                   inited, lock, serial, boot_copy, ioVars>>

(* Mutant: every yield returns to a handler. *)
MutReturnsToHandler ==
    /\ At("resumed")
    /\ IF_flag' = (IF_flag \/ int_saved[cpu])
    /\ Goto("eoi")
    /\ UNCHANGED <<schedVars, cpu, iret, int_saved, context, irr, isr, ticked,
                   inited, lock, serial, boot_copy, ioVars>>

(* The end of task_yield: interrupts back to what they were on entry. *)
YieldReturns ==
    /\ At("resumed")
    /\ IF_flag' = (IF_flag \/ int_saved[cpu])
    /\ Goto(AfterYield)
    /\ UNCHANGED <<schedVars, cpu, iret, int_saved, context, irr, isr, ticked,
                   inited, lock, serial, boot_copy, ioVars>>

-----------------------------------------------------------------------------
(* Taking and releasing the SCHEDULER mutex with interrupts enabled:       *)
(* current_task_id, current_task_cspace, and the wake-ups of ipc.rs.       *)
Lock(from, to) ==
    /\ At(from)
    /\ lock = None
    /\ lock' = cpu
    /\ Goto(to)
    /\ UNCHANGED <<schedVars, cpu, iret, int_saved, context, IF_flag, irr, isr,
                   ticked, inited, serial, boot_copy, ioVars>>

LockScheduler == cpu \in LockUsers /\ Lock("run", "locked")

UnlockScheduler ==
    /\ At("locked")
    /\ lock' = None
    /\ Goto("run")
    /\ UNCHANGED <<schedVars, cpu, iret, int_saved, context, IF_flag, irr, isr,
                   ticked, inited, serial, boot_copy, ioVars>>

(* serial::_print: spin for SERIAL1, hold it while the text goes out,      *)
(* interrupts enabled all along.                                           *)
SerialPrint(from, to) ==
    /\ At(from)
    /\ Goto("spinning")
    /\ print_to' = [print_to EXCEPT ![cpu] = to]
    /\ UNCHANGED <<schedVars, cpu, iret, int_saved, context, IF_flag, irr, isr,
                   ticked, inited, lock, serial, boot_copy, key>>

PrintCalled ==
    /\ cpu \in Printers
    /\ \E here \in {"run", "b_init", "b_add"} : SerialPrint(here, here)

PrintBegin ==
    /\ At("spinning")
    /\ serial = None
    /\ serial' = cpu
    /\ Goto("printing")
    /\ UNCHANGED <<schedVars, cpu, iret, int_saved, context, IF_flag, irr, isr,
                   ticked, inited, lock, boot_copy, ioVars>>

PrintEnd ==
    /\ At("printing")
    /\ serial' = None
    /\ Goto(print_to[cpu])
    /\ print_to' = [print_to EXCEPT ![cpu] = "none"]
    /\ UNCHANGED <<schedVars, cpu, iret, int_saved, context, IF_flag, irr, isr,
                   ticked, inited, lock, boot_copy, key>>

(* A task returns to task_entry_wrapper, which calls                       *)
(* terminate_current_task: print, terminate under the lock (it prints      *)
(* again, with the lock held), then hlt for ever.                          *)
TaskReturns == cpu \in Returning /\ SerialPrint("run", "exiting")

LockToTerminate == Lock("exiting", "term_locked")

terminate_current_task ==
    /\ At("term_locked")
    /\ current_task # None => serial = None
    /\ IF current_task = None THEN UNCHANGED schedVars ELSE terminate_current
    /\ lock' = None
    /\ Goto("halted")
    /\ UNCHANGED <<cpu, iret, int_saved, context, IF_flag, irr, isr, ticked,
                   inited, serial, boot_copy, ioVars>>

(* The panic handler prints and executes hlt for ever: interrupts stay     *)
(* enabled, and the task stays one of the scheduler's.                     *)
panic == cpu \in Faulty /\ SerialPrint("run", "halted")

(* A CPU exception in task code: page_fault_handler, and the handlers that *)
(* panic.  They print and execute hlt, and the gate has cleared IF: the    *)
(* machine stops.                                                          *)
page_fault_handler ==
    /\ cpu \in Faulty /\ At("run")
    /\ IF_flag' = FALSE
    /\ \/ serial = None /\ Goto("faulted")
       \/ SerialHeld /\ Goto("spin_off")
    /\ UNCHANGED <<schedVars, cpu, iret, int_saved, context, irr, isr, ticked,
                   inited, lock, serial, boot_copy, ioVars>>

-----------------------------------------------------------------------------
(* The boot thread: scheduler::init, then test_scheduler, which adds the   *)
(* tasks and schedules the first one under one lock, copies its context    *)
(* under a second one, and jumps to the copy.                              *)
BootLock ==
    \/ Lock("b_init", "b_init_locked")
    \/ Lock("b_add", "b_add_locked")
    \/ Lock("b_scheduled", "b_copy_locked")

BootInitScheduler ==
    /\ At("b_init_locked")
    /\ inited' = TRUE
    /\ lock' = None
    /\ Goto("b_add")
    /\ UNCHANGED <<schedVars, cpu, iret, int_saved, context, IF_flag, irr, isr,
                   ticked, serial, boot_copy, ioVars>>

BootAddTasks ==
    /\ At("b_add_locked")
    /\ ScheduleFrom([t \in Task |-> "Ready"], current_task, BootOrder)
    /\ lock' = None
    /\ Goto("b_scheduled")
    /\ UNCHANGED <<cpu, iret, int_saved, context, IF_flag, irr, isr, ticked,
                   inited, serial, boot_copy, ioVars>>

BootCopyContext ==
    /\ At("b_copy_locked")
    /\ boot_copy' = context[current_task]
    /\ lock' = None
    /\ Goto("b_jump")
    /\ UNCHANGED <<schedVars, cpu, iret, int_saved, context, IF_flag, irr, isr,
                   ticked, inited, serial, ioVars>>

(* switch_context(&mut kernel_context, &first_task_context): the boot      *)
(* thread's registers go to a local that is never used again.  The entry   *)
(* point is fetched from the copy, which nothing overwrites.               *)
BootJump ==
    /\ At("b_jump")
    /\ LET next == IF boot_copy = None THEN current_task ELSE boot_copy
       IN  /\ cpu' = next
           /\ pc' = [pc EXCEPT ![Boot] = "gone",
                               ![next] = IF boot_copy = None THEN "run" ELSE "resumed"]
    /\ IF_flag' = (boot_copy = None)
    /\ UNCHANGED <<schedVars, iret, int_saved, context, irr, isr, ticked, inited,
                   lock, serial, boot_copy, ioVars>>

-----------------------------------------------------------------------------
(* What the CPU does next with interrupts off, and in code of its own that *)
(* a tick may interrupt, where the code leaves no choice.                  *)
SwitchStep ==
    \/ end_of_interrupt \/ YieldStays \/ YieldUnlocks \/ YieldSwitches \/ YieldReturns

OwnStep ==
    \/ EnterTask \/ UnlockScheduler \/ PrintBegin \/ PrintEnd
    \/ LockToTerminate \/ terminate_current_task

BootStep ==
    \/ BootLock \/ BootInitScheduler \/ BootAddTasks \/ BootCopyContext \/ BootJump

TaskStep ==
    \/ \E t \in Task : CallYield(t)
    \/ LockScheduler \/ PrintCalled \/ TaskReturns \/ panic \/ page_fault_handler

PreNext ==
    \/ TimerFires \/ timer_interrupt_handler
    \/ KeyPressed \/ keyboard_interrupt_handler
    \/ SwitchStep
    \/ OwnStep \/ BootStep
    \/ TaskStep

PreSpec == PreInit /\ [][PreNext]_preVars

(* The PIT keeps ticking, a pending interrupt that can be taken is taken,  *)
(* and the CPU executes the code it is on.  A tick leaves a task 10 ms of  *)
(* its own code before the next one, so what a thread can do whenever it   *)
(* is on the CPU it does in the end (strong fairness): it finishes a print *)
(* or a locked section, the boot thread goes on, and a Cooperative task    *)
(* calls task_yield.  No task is obliged to print, to lock, to return or   *)
(* to fail, and no key is ever pressed for certain.                        *)
PreFairness ==
    /\ WF_preVars(TimerFires)
    /\ WF_preVars(timer_interrupt_handler)
    /\ WF_preVars(keyboard_interrupt_handler)
    /\ WF_preVars(SwitchStep)
    /\ \A th \in Thread : SF_preVars(cpu = th /\ OwnStep)
    /\ SF_preVars(BootStep)
    /\ \A t \in Cooperative : SF_preVars(CallYield(t))

FairPreSpec == PreSpec /\ PreFairness

-----------------------------------------------------------------------------
(* Type invariant of the machine. *)
PreTypeOK ==
    /\ SchedTypeOK
    /\ cpu \in Thread
    /\ pc \in [Thread -> Loc] /\ iret \in [Thread -> Loc \cup {"none"}]
    /\ int_saved \in [Thread -> BOOLEAN]
    /\ context \in [Task -> Thread \cup {None}]
    /\ {IF_flag, irr, isr, ticked, inited} \subseteq BOOLEAN
    /\ lock \in Thread \cup {None} /\ serial \in Thread \cup {None}
    /\ boot_copy \in Thread \cup {None}
    /\ key \in BOOLEAN /\ print_to \in [Thread -> Loc \cup {"none"}]

(* Until a task returns: terminate_current picks the next task without     *)
(* switching to it, and the CPU stays on the halted one.                   *)
NobodyReturned == \A t \in Task : tasks[t] # "Terminated"

(* What is saved in a task's context is that task's own execution. *)
EveryContextIsOwn ==
    \A t \in Task : context[t] \in {None, t}

(* A switch never stores one thread's registers under another task's name, *)
(* until a task returns.                                                   *)
ContextIsOwn ==
    NobodyReturned => EveryContextIsOwn

(* Outside the scheduler's own critical section the CPU executes the task  *)
(* the scheduler calls current.                                            *)
CpuIsCurrent ==
    NobodyReturned /\ cpu \in Task => cpu = current_task

(* Interrupts are off in task_yield and in the timer handler, and on again *)
(* whenever a thread is back in its own code: no path through a nested     *)
(* yield leaks the flag of another thread.                                 *)
InterruptFlagRestored ==
    /\ pc[cpu] \in {"yield", "resumed", "eoi", "spin_off"} => ~IF_flag
    /\ pc[cpu] \in {"run", "locked", "spinning", "printing", "exiting", "halted"}
          => IF_flag

(* The interrupt controller waits for an end-of-interrupt exactly while    *)
(* one thread is in the timer handler, running or switched out.            *)
OneHandlerInService ==
    LET inHandler == {th \in Thread : iret[th] # "none"}
    IN  /\ isr => \E th \in Thread : inHandler = {th}
        /\ ~isr => inHandler = {}

(* task_yield never spins on a SCHEDULER mutex that is held: interrupts    *)
(* are off, so the holder could never run again.                           *)
YieldFindsLockFree ==
    pc[cpu] = "yield" => lock = None

(* The holder of SCHEDULER is the thread on the CPU: no yield, tick or     *)
(* boot step switches a thread out while it holds the mutex, which every   *)
(* other thread needs to switch back.                                      *)
SchedulerHeldOnCpu == lock # None => lock = cpu

(* Code that runs with interrupts off never waits for a lock that is held, *)
(* since its holder could never run again: neither task_yield for          *)
(* SCHEDULER, nor a handler, nor schedule in a debug build, for SERIAL1.   *)
NoWaitWithInterruptsOff ==
    /\ YieldFindsLockFree
    /\ pc[cpu] # "spin_off"
    /\ pc[cpu] = "yield" /\ Debug => serial = None

(* A task that is switched in for the first time finds the context that    *)
(* Task::new made and starts at its entry point.                           *)
FirstSwitchReachesEntry ==
    \A t \in Task : pc[t] # "lost"

(* A task has ended in a hlt loop, which never yields. *)
SomeoneHalted == \E t \in Task : pc[t] \in {"halted", "faulted"}

(* Every task runs its own code again and again, unless one returns,       *)
(* panics or faults.                                                       *)
EveryTaskRuns ==
    \A t \in Task : []<>((cpu = t /\ pc[t] = "run") \/ SomeoneHalted)

(* A timer interrupt that was taken is acknowledged, unless a task         *)
(* returns, panics or faults.                                              *)
InterruptIsAcknowledged == isr ~> (~isr \/ SomeoneHalted)

(* A print that has begun ends, however often it is preempted, unless a    *)
(* task returns, panics or faults.                                         *)
PrintEnds == (serial # None) ~> (serial = None \/ SomeoneHalted)

=============================================================================
