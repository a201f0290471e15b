# A TLA+ model of JerichoOS

JerichoOS is a small capability-based kernel in Rust for x86-64 and ARM64: a
round-robin scheduler driven by a timer interrupt, message passing between tasks
guarded by capabilities, and a WebAssembly runtime whose guests exchange messages
through host functions.  This directory holds a specification of that kernel, the
TLC models that check it on small instances, and TLAPS proofs of its central
invariants for every instance.

Paths below are relative to the repository; `scheduler.rs` means
`src/scheduler.rs`, `aarch64/` means `src/arch/aarch64/`.

## The system

| Component | State | Operations | Interacts with |
|---|---|---|---|
| Scheduler (`scheduler.rs`, `task.rs`) | task list with states, `current_task`, `ready_queue` | `add_task`, `schedule`, `block_current`, `unblock_task`, `terminate_current` | called by yields, the timer, IPC and the boot code, always under the `SCHEDULER` lock |
| Context switch and interrupts (`scheduler.rs`, `interrupts.rs`) | saved contexts, RFLAGS.IF, the 8259 | `task_yield`, `switch_context`, `timer_interrupt_handler`, `keyboard_interrupt_handler`, `terminate_current_task`, exception and panic handlers | scheduler; interrupts whatever runs; the handlers print |
| Boot thread (`main.rs`) | a copy of the first context | starts the timer, creates the scheduler and the tasks, jumps to the first | runs with the timer already on |
| Serial output (`serial.rs`) | the `SERIAL1` lock | `_print` | every thread, and handlers with interrupts off |
| Task IPC (`ipc.rs`) | one registry, under one lock, of endpoints: queue, waiting tasks | `create_endpoint`, `send_message`, `try_receive_message`, `receive_message_blocking` | capabilities (a snapshot), scheduler (block, wake) |
| Capabilities (`capability.rs`, `syscall.rs`) | id -> capability, `next_id` | `create`, `insert`, `derive`, `revoke`, `get`; the system calls on them | held by every task |
| WebAssembly runtime (`wasm_runtime.rs`) | message queue, subscribers, capabilities of each guest | host functions `subscribe`, `publish`, `ipc_send`; `deliver_pending_messages` | calls guests, which call back |
| ARM64 (`aarch64/`, `main_aarch64.rs`) | fixed task table, GIC, timer, exception frames | `spawn`, `handle_irq`, `scheduler_switch_task`, launch of task 0 | a scheduler of its own |
| Memory (`memory.rs`, `allocator.rs`) | position in the memory map, page tables | `allocate_frame`, `init_heap` | once, at boot |

What is hard in this code, and what the properties are aimed at:

* Preemption from an interrupt handler that itself switches stacks: a handler is
  suspended in the middle and resumed much later, by a switch made from other code.
  The end-of-interrupt comes after the switch.
* Locks (`SCHEDULER`, `SERIAL1`, `IPC_REGISTRY`) that are taken with interrupts
  enabled and wanted by code that cannot be interrupted.
* `block_current` and `terminate_current` change who *should* run, not who runs, and save
  nothing: what a later switch restores may be out of date.
* Two critical sections where one is needed (`add_waiter`, then `block_current`).
* Values that are copied and used later (the CSpace snapshot, the context copy
  of the boot code, the stack pointer of an ARM64 context).
* A delivery loop that calls guests which call back into the queue it drains.

`PROJECT.json` lists these hazards line by line with the properties that cover them.

## Modules

```
TaskLifecycle   what the scheduler promises (abstract)
Mailbox         what message passing promises (abstract)
Scheduler       struct Scheduler                     refines TaskLifecycle
  Preemption    Scheduler + CPU, interrupts, locks, boot thread
  Ipc           Scheduler + CPU, endpoints, registry lock, demo tasks
                                                     refines Mailbox
Capability      CSpace + system calls
WasmIpc         host functions + delivery loop       refines Mailbox
Arm64           ARM64 scheduler, IRQ path, start-up
Memory          frame allocator + heap mapping
SchedulerProofs, PreemptionProofs, IpcProofs, CapabilityProofs,
WasmProofs, Arm64Proofs, MemoryProofs                TLAPS proofs, one per module
LeastNumber     induction on the natural numbers, for the last three
MC*             constants and small definitions for TLC
```

Definitions carry the names of the functions they model; the `map` of
`PROJECT.json` gives the lines.  Operators whose name begins with `Mut` are
deliberately wrong variants of the definition below them, used to see that a
property notices the mistake; nothing else refers to them.

**TaskLifecycle / Scheduler.**  A task is in one of the states of `TaskState`, or
`Absent`.  `ScheduleFrom` is `schedule` as a function of the state it is run on, so
that `block_current` and `terminate_current`, which change the state and then call
it, remain one step each, as they are one critical section.  `retain` is written
with ranks because the proof system knows nothing about `SelectSeq`; an assumption
of `MCScheduler` compares it with the library's `Remove` on every queue of up to
four entries.  Task names and priorities are left out: the scheduler never reads
them.

**Preemption.**  `cpu` is the thread whose instructions execute, `current_task`
(from `Scheduler`) the one that should; the difference is where the interesting
states are.  Registers are abstracted to *whose* they are: `context[t]` is the thread
whose registers are saved in the context of task `t`.  Code that runs with interrupts
off is one step up to the next lock; code with interrupts on is cut wherever a tick
matters.  The early returns of `task_yield` enable interrupts before the guard is
dropped, which is a step of its own (`YieldStays`, `YieldUnlocks`).  Ticks may
arrive in task code, in prints, while spinning, in the final `hlt` loop and in the
boot thread; the constant `OpenWindows` adds the short windows in which the code goes
wrong, one at a time, so that each has a configuration of its own and the runs say what
holds outside them: `popfq`, `lock` and `boot` for a tick, `print` for an interrupt or an
exception whose handler prints while `SERIAL1` is held.  `Cooperative`, `LockUsers`,
`Printers`, `Returning` and `Faulty` say what the tasks do, `Keyboard` whether keys are
pressed, and `Debug` adds what only a debug build prints.  A handler that would spin with
interrupts off is at `spin_off` for good; where the prints are straight-line code under no
other lock than the one the step already stands for, the step needs `SERIAL1` free.  A
thread that has panicked halts with interrupts on and stays a task of the scheduler; one
that has faulted halts with interrupts off, and the machine with it.

**Mailbox.**  Each owner has a bounded box; a message enters the boxes of some owners
once, only where it is allowed, and leaves them first in, first out, by being taken or, if
the mailbox is lossy, by being dropped, on record.  One `Put` may reach several boxes: a
publish reaches every subscriber or, at a full queue, only the first ones.

**Ipc.**  The programs are `ipc_sender_main`, `ipc_receiver_main`, a receiver that
uses `receive_message_blocking`, and tasks that only yield.  A step is a stretch of
code under one lock, which protects everything the stretch touches; ticks come
between any two steps.  `context[t]` says whose registers the `TaskContext` of task `t`
holds (`None`: still those of `Task::new`), and `live[t]` under which name the latest
registers of `t` are.  `block_current` does not switch, so a blocking receiver runs on under
another task's name and is saved there; when it is woken and chosen, its own `TaskContext` is
restored.  If that is still the one of `Task::new`, its program starts again (`Restarts`,
`Enter`); if it holds registers that are no longer the latest, the CPU returns into a stack
that has been used since: `cpu` becomes `None` and the model ends, since nothing can be said
of what follows.  `isr` is the timer interrupt that has not been acknowledged and
`in_service` the task whose handler will do it: no further tick comes until that task is
back, and none ever if it was started again.  A task has one
capability, which names an endpoint and the rights over it, or `NoCap`; the endpoint a
call works on is the one its snapshot names (`Target`), and `create_endpoint` is called
with the id in `Creates`.  A message is its sender and number.  For the refinement of
`Mailbox` a box is an endpoint's queue, and a message may enter it if its sender was
granted the write right for that endpoint.  The prints are left out; their lock is
Preemption's subject.

**Capability.**  Rights are sets; the bit encoding of the system call is kept
(`encode_rights`, `decode_rights`) and an assumption of `MCCapability` checks that
the two are inverse.  `granted` and `revoked` are history variables.

**WasmIpc.**  The delivery loop is cut at every call of the guest, and `Callbacks`
says in which of these calls the guest itself calls host functions.  The topic of a
publish is ignored by the code and by the model.  A (pointer, length) pair is one of
four cases (`Input`, `TopicInput`): a negative length counts as too large, and a sum that
saturates is out of bounds.  Subscribe adds without a check; where the sum overflows, a debug
build panics at the addition and a release build at the slice, and the kernel stops
(`TopicPanics`).  `host_sys_print` does the same with its arguments and has no other effect on
this state.  Only capabilities of type Endpoint are kept: no other is looked up.  For the
refinement of `Mailbox` the one queue is seen as a box for each guest: the message in the
loop's hands, then the queued ones for it.  Putting a message back at the front is then no
step of the mailbox, and that the loop takes from the middle of the queue shows nowhere.

**Arm64.**  Registers are a record of the thread they belong to, the place in its
code and the stack pointer.  One IRQ is one step: interrupts are masked from
SAVE_REGS to eret.  Ticks interrupt the boot code like any other; `BootSwitches` says
whether one of them may be a tick that switches, the tenth in the code.  `kernel_main`
marks task 0 as Running (`MarkFirst`), prints, and then reads its context (`ReadFirst`).
A task's own stack use (`TaskCalls`, `TaskReturns`) is there so that a wrong stack pointer
shows.  Interrupt lines other than the timer's are only
modelled in the GIC's enable register.  A synchronous exception or SError in task code
masks interrupts and halts (`Faults`).

**Memory.**  Addresses are numbers and a page is `PageSize` of them; `init_heap` computes
its page range from the first and the last address of the heap, and `present` holds the
pages mapped so far.  `map_to` is a library: it takes up to `MaxTables` further frames from
the same allocator for each page.  Memory maps are all sequences of three regions that begin
and end at page boundaries and do not overlap (`WellFormed`), in any order.  This is the
promise that the caller of `BootInfoFrameAllocator::init` makes for the bootloader; the code
does not check it, and `FramesAreUsable` rests on it.

## Runs

Passing runs (bounds in the cfg files):

| Run | What it shows |
|---|---|
| MCScheduler | four tasks, every sequence of calls: types, `ReadyQueueExact`, `RunningIsCurrent`, `TerminatedIsFinal`, `NoOvertaking`; every runnable task becomes current, and `TaskLifecycle` with its fairness is implemented. Four tasks are the least for which removing from the middle of the queue can reorder two others |
| MCPreemption | three tasks that yield and lock, with ticks and keys, in any order, all windows of `OpenWindows` closed and a release build; the boot thread and one task print, and that task may return, panic or fault: contexts, current task, interrupt flag and end-of-interrupt stay consistent, and no thread is switched out while it holds `SCHEDULER`; if all tasks keep yielding, every task runs again and again and every timer interrupt is acknowledged. What a returning task leaves behind (`ContextIsOwn`, `CpuIsCurrent`) and a halted one stops (the liveness properties) is said in the properties. What fails inside the windows, with two printing tasks or with tasks that never yield is in the next section |
| MCIpc | two endpoints, each with a sender, one with a receiver that polls, one with a receiver that blocks or polls, one sender with or without the write right, an over-long message, queues of two and a revocation, for the order of `test_scheduler` and six in which a blocked receiver can be woken (544,640 states): up to a switch that restores stale registers the endpoints implement a lossless `Mailbox`, hence writers only, bounded, exactly once and in order at each endpoint, receivers that are started again included; no switch restores stale registers before a blocked receiver was woken (`IntactUntilWoken`). Three messages for a queue of two meet it full, drain it and fill it again |
| MCIpcDemo | the demo of `main.rs` without ticks completes for each of the 24 orders of adding its tasks |
| MCCapability | three ids from `create` and `derive`, one of which the kernel also inserts under: no escalation, the other ids never change meaning, and once revoked they stay dead |
| MCWasmIpc | two guests that call the host from inside deliveries, a queue of two, two publishes or sends to any number of subscribers, every list of two capabilities for one endpoint (160,145 states): the queue and the loop implement a lossy `Mailbox`, at most one message over the limit, only holders of the write right send, and a delivery ends, or the kernel panics, unless another message is queued meanwhile; a guest that queues one in every `subscriber_receive` keeps the loop going for ever |
| MCArm64 | four spawns into three slots, tasks with stacks of depth two that may fault, ticks also during the boot but none that switches there: no thread's registers are stored under another task, the executing task is the only one Running, and the timer alone shares the CPU until a fault halts it. The stack pointer of a context is always the one of the spawn, which is the finding of MCArm64Stack; a switch during the boot is MCArm64Boot |
| MCMemory | every map of three aligned, disjoint regions over six pages (40,376 maps, 659,644 states), a heap that begins inside a page and covers three: frames are distinct and usable; when the heap is used every byte of it is in a mapped page, and no other page was mapped |

Four runs end in a counterexample against a sentence of the source (quoted in
`PROJECT.json`, `findings`): MCPreemptionLock, MCIpcSelfBlock, MCIpcLostWakeup and
MCArm64Stack, the first four of the next section.

### Where the code departs from its comments

Each of these is a configuration in this directory that TLC ends with a
counterexample; all but the first four are kept beside the runs and started by hand
(`tlc -config MCArm64Boot.cfg MCArm64`; the module is the `MC` module whose name the
configuration begins with).

| Configuration | Property | What the code does | What the source says |
|---|---|---|---|
| MCPreemptionLock | `YieldFindsLockFree` | a tick while `SCHEDULER` is held with interrupts enabled spins for ever | scheduler.rs:172, 331-332: "May be enabled (brief lock acquisition)"; interrupts are off "to prevent ... Deadlock from nested task_yield() via timer interrupt" |
| MCIpcSelfBlock | `OnlySelfBlocks` | `receive_message_blocking` runs on after `block_current` and blocks another task | ipc.rs:277: "Blocks current task until a message arrives" |
| MCIpcLostWakeup | `NoLostWakeup` | a message between `add_waiter` and `block_current` wakes nobody | ipc.rs:277, the same |
| MCArm64Stack | `StackPointerKept` | a preempted task resumes on the stack pointer of its spawn | aarch64/task.rs:11: "Saves ALL registers for complete task state preservation during interrupts" |
| MCPreemptionStarve | `EveryTaskRuns` | the timer handler switches before its end-of-interrupt: tasks that never yield are not time-sliced | interrupts.rs:168-169: "This enables time-slice based task switching" |
| MCPreemptionPopfq | `FirstSwitchReachesEntry` | interrupts are enabled by popfq before the rest of a new context is read | scheduler.rs:331: "Interrupts are disabled for the duration of scheduling and context switch" |
| MCPreemptionBoot | `ContextIsOwn` | a tick before the first jump saves the boot thread as the first task | main.rs:677: "Switch to first task (THIS WON'T RETURN ...)" |
| MCPreemptionExit | `EveryContextIsOwn` | a terminated task keeps the CPU, and the next tick saves it under another name | scheduler.rs:320: "scheduler should have switched to another task" |
| MCPreemptionPrint, MCIpcRelease | `PrintEnds`, `RegistryIsReleased` | a task preempted while it holds `SERIAL1` or the registry is never resumed when the next task spins for it | interrupts.rs:168-169, as above |
| MCPreemptionKey | `NoWaitWithInterruptsOff` | a key while `SERIAL1` is held: the handler spins for it with interrupts off | main.rs:182: "Main idle loop - interrupts will fire asynchronously" |
| MCPreemptionDebug | `NoWaitWithInterruptsOff` | in a debug build `schedule` prints with interrupts off and `SCHEDULER` held, and spins if the preempted task was printing | scheduler.rs:331-332, as above: the disabling is to prevent a deadlock |
| MCIpcStale | `ResumesIntact` | `block_current` saves no registers: a receiver that is woken and chosen is resumed from what its `TaskContext` held before, on a stack in use | ipc.rs:277, as above; ipc.rs:327: "When we wake up, capability is re-verified by try_receive_message" |
| MCIpcRevocation | `RevocationHonoured` | a revocation does not reach the snapshot a receive checks | ipc.rs:281: "Capability verified on each wake-up (handles revocation)" |
| MCIpcRegistry | `RegistryDroppedFirst` | `let _ = registry` does not drop the registry guard | ipc.rs:234: "done with registry, drop it before touching scheduler" |
| MCCapabilityOverwrite | `DeriveKeepsOthers` | `derive` after `insert` under id 1 overwrites the inserted capability | capability.rs:7: "Unique capability identifier" |
| MCCapabilityInvoke | `InvokeNeedsRight` | a capability without rights can be invoked | syscall.rs:148: "just verify the capability exists and has rights" |
| MCCapabilityCreate | `CreateSucceeds` | the create system call is always denied, so the self-test ends at its first step | main.rs:198: "Test 1: Create a memory capability with full rights" |
| MCWasmIpcDepth | `QueueDepthLimited` | a message put back at the front exceeds the depth limit | wasm_runtime.rs:268: "Queue depth limited to MAX_IPC_QUEUE_DEPTH (64 messages)" |
| MCWasmIpcPartial | `PublishCountsQueued` | a publish cut short reports all subscribers | wasm_runtime.rs:244: "Stop enqueueing, return partial count" |
| MCArm64Boot | `RegistersAreOwn` | a tick that switches before task 0 is started saves the boot code as task 0 | main_aarch64.rs:453: "Jump to first task manually" |
| MCArm64Gic | `InitDisablesAll` | `gic::init` enables every line | aarch64/gic.rs:45: "Disable all interrupts" |

No program of `main.rs` calls `receive_message_blocking`; MCIpcSelfBlock, MCIpcLostWakeup,
MCIpcStale and MCIpcRevocation are about what it does when it is called.

Deadlock checking is off where the system really may stop: when no task is left
(MCScheduler), when the CPU halts or spins with no tick to come (the
Preemption and Ipc runs that say so), where a stale context was restored (Ipc), when the
kernel panics (WasmIpc), when an exception halts it (Arm64), and after the heap has been set
up (Memory).

### Fairness

* `FairSchedSpec`: weak fairness of `schedule`, which every tick and every yield
  calls.  Whether ticks keep coming is Preemption's question.
* `FairPreSpec`: the PIT is periodic, an interrupt that can be taken is taken, code
  with interrupts off runs on (weak fairness).  A tick leaves the interrupted thread
  10 ms of its own code, so what a thread can do whenever it is on the CPU it
  eventually does (strong fairness per thread), and tasks in `Cooperative` call
  `task_yield`, as all tasks of `main.rs` do.  The boot thread goes on in the same sense.
  No task is obliged to print, lock, return or fail, and no key need be pressed.
* `FairIpcSpec`: the same, for the programs of the tasks.
* `FairWasmSpec`: the kernel goes on with its loop, and a guest that is called
  returns or traps; wasmi runs it without a fuel limit, so this is an assumption
  about the guest.
* `FairArmSpec`: the boot code runs on and the timer, re-armed in every handler,
  fires again.  Nothing is assumed of the tasks.

## Proofs

TLAPS proves the following for every value of the constants that satisfies the
assumptions stated beside them: any set of tasks, endpoints, guests, resources or
memory maps, any bound, any number of ticks.  The assumptions give the
constants their types and say that names such as `None` are distinct from what they
stand beside; these say more.  Preemption and Ipc: the boot code adds every task, and
once, as `test_scheduler` does, so here the tasks are finitely many.  Memory: the bootloader's
map is a sequence of page-aligned regions that do not overlap.

Every invariant below was checked by TLC on the instance of the corresponding run before it
was proved.  Where a theorem has a hypothesis on a constant, it is one of the windows of
Preemption, the blocking receive of Ipc, or the boot of Arm64, where the code really fails:
the configurations that open them end in counterexamples (see the table above), so the
theorems say that there is no other way to fail.  `boot` is excluded throughout because everything
rests on one invariant, which a tick in that window breaks.

| Module | Theorem | Property | Hypothesis |
|---|---|---|---|
| SchedulerProofs | `SchedTypeCorrect`, `QueueIsExact`, `OneRunning` | `SchedTypeOK`, `ReadyQueueExact`, `RunningIsCurrent` | |
| | `TerminationIsFinal`, `NobodyOvertakes` | `TerminatedIsFinal`, `NoOvertaking` | |
| | `ImplementsLifecycleSafety` | the safety part of `TaskLifecycle` | |
| PreemptionProofs | `PreTypeCorrect`, `ContextsAreOwn`, `CpuRunsCurrent`, `FlagIsRestored`, `PreQueueIsExact` | `PreTypeOK`, `ContextIsOwn`, `CpuIsCurrent`, `InterruptFlagRestored`, `ReadyQueueExact` | window `boot` closed |
| | `OneHandler` | `OneHandlerInService` | `boot`, `print` closed |
| | `HolderStaysOnCpu` | `SchedulerHeldOnCpu` | `boot` closed |
| IpcProofs | `IpcTypeCorrect`, `StaleOnlyAfterWakeup` | `IpcTypeOK`, `IntactUntilWoken` | |
| | `SwitchesAreIntact` | `ResumesIntact` | no program blocks |
| | `IpcImplementsMailbox` | `ImplementsMailbox` (lossless) | |
| CapabilityProofs | `CapTypeCorrect`, `AuthorityNeverGrows` | `CapTypeOK`, `NoEscalation` | |
| | `IdsAreUnique`, `IdsKeepTheirMeaning` | `RevokedStaysDead`, `CapabilityNeverChanges` | |
| WasmProofs | `WasmTypeCorrect`, `QueueStaysBounded`, `SendChecksWrite` | `WasmTypeOK`, `QueueNearlyBounded`, `SendNeedsWrite` | |
| | `WasmImplementsMailbox` | `ImplementsMailbox` (lossy) | |
| Arm64Proofs | `ArmTypeCorrect`, `OneTaskRuns` | `ArmTypeOK`, `ExecutingIsRunning` | |
| | `RegistersStayOwn` | `RegistersAreOwn` | no switching tick before task 0 is launched |
| MemoryProofs | `NoFrameServesTwice`, `EveryFrameIsUsable`, `HeapIsMapped` | `FramesAreDistinct`, `FramesAreUsable`, `HeapFullyMapped` | |
| | `UsableFramesAreGood` | what `usable_frames` computes for every map | |

The arguments:

**Scheduler.**  The inductive invariant `SchedIInv` is the conjunction of the three state
properties, each of which needs the others: that `schedule` pops a Ready task needs the
queue to be exact, that removing the current task leaves it exact needs the absence of
duplicates, and that no second task is Running needs `RunningIsCurrent`.  The lemmas before
it say what `retain` returns (the entries other than `id`, in order, without new
duplicates), by an argument over the ranks of the kept indices, and what rotating the queue
does.  Refinement follows from the invariant: since the queue is exact, `schedule` finds
nothing only when nothing is runnable.  `NobodyOvertakes` follows from the order lemmas:
`retain` and `pop_front` keep the order, a push puts nobody in front, and on a queue
without duplicates being in front is asymmetric.

**Preemption.**  `PreIInv` adds to `SchedIInv` where each thread can be: a thread off the
CPU is new or saved inside `task_yield` (`TaskPhase`); the interrupted place, the saved
flag and the place of a print belong together (`PlacesOK`), from which IF is a function of
the place of the thread on the CPU (`CpuFlag`); who is under `SCHEDULER` holds it, handlers
on top of it included (`LockHeld`); the boot thread runs alone until it jumps
(`BootPhase`); and every task that `schedule` may still choose has a context of its own, made
by `Task::new` or saved by a switched-out thread (`ContextsSaved`).  The last one is what
makes `ContextIsOwn` inductive, also after a task has returned and the thread on the CPU is
no longer the current one.  The steps fall into those that stay on a thread, treated
together by a frame lemma, and the switches.  `OneHandlerInService` is
then inductive relative to `PreIInv`, and `SchedulerHeldOnCpu` together with the fact that the
holder stands under the lock and in no other place (`HolderRuns`): ticks under the lock, which
MCPreemptionLock shows to spin, are included, so even there the mutex is not lost to a thread
that is off the CPU.

**Ipc.**  A blocking receive goes on under another task's name, so a task is not in
general current while it runs, and its program may start again.  `IpcIInv` says that tasks
whose programs do not call it run under their own name, have their latest registers in
their own `TaskContext` and are started once (`OwnNames`); hence `current_task_id` and
`current_task_cspace` give a sender its own id and capabilities (`Identified`), hence what it
sends was granted (`CapsAreGranted`); and the numbers of what a task has sent lie below its
loop counter (`NumbersBehind`), hence no message enters twice.  With them each step is a `Put`
or a `Take` of `Mailbox` or leaves it alone.  For `StaleOnlyAfterWakeup` the invariant says
that until somebody is woken every task in the ready queue other than the current one has
either its first context or the latest registers of the thread it holds (`ContextsGood`): a
blocked task leaves the queue, and only `unblock_task` brings it back.  Where nobody blocks,
nobody is woken, which is `SwitchesAreIntact`.

**Capability.**  For `IdsAreUnique` the invariant adds that every id the kernel does not
insert under, in use or revoked, is below `next_id`.  `MCCapabilityOverwrite` shows that the
others cannot be included.

**WasmIpc.**  `WasmIInv` says that the loop holds a message exactly while it delivers it, to
the guest it is for (`LoopHolds`), that a guest subscribes once, and that queue and held
message together exceed the limit by one at most (`OneOver`): `QueueNearlyBounded` alone is
not inductive, because the guest may refill the queue while the loop holds a message.  For
the refinement, the box of a guest is what the recursive `MessagesFor` gathers; lemmas proved
by induction on the queue's length say that gathering distributes over concatenation, and
from them taking the first message for a guest out of the middle and putting it back at the
front both leave every box as it was.

**Arm64.**  `ArmBase` bounds the stack pointer although a switch resets it (`StackBounds`)
and says that a switch always finds a task (`SomeTask`).  `TableAgrees` allows slot 0 to hold
the boot code, which is what a switch during the boot leads to, and still implies
`ExecutingIsRunning`.  Without such a switch every stored context belongs to its task and has
the stack pointer of its spawn: this is `RegistersAreOwn`, and also the reason for the finding
of MCArm64Stack.

**Memory.**  `UsableFramesAreGood` is proved by induction on the regions: the frames lie
inside usable regions and a page or more apart.  `MemIInv` says that every frame in
use is among the first `next` of them and has one use, and that the pages mapped so far are
those from the heap's first to the one before `page` (`PagesInOrder`); that these hold the
heap's addresses and nothing else when the loop ends is arithmetic on `ContainingPage`
(`PageOrder`).

Induction over data uses `LeastNumber`: a set of numbers that is not empty has a least
element, and so a set that holds 0 and is closed under successor up to N holds all numbers
up to N.  The induction theorems of the library, which take a predicate as parameter, are not
usable with the installed provers; a concrete set is.  The proved modules have no RECURSIVE
operators, only recursive functions.

Only model-checked: everything with fairness or ENABLED (the liveness properties, and the
fairness part of `ImplementsLifecycle`), which the prover does not handle; `DemoCompletes`
among them.  The counterexamples of the section above are by nature TLC's.

## Not modelled

* x86 start-up before the timer and the descriptor tables: straight-line code with
  interrupts off.  The breakpoint handler prints and returns; it is only raised there.
* The ARM64 start-up assembly and the UART (output without a lock or state).
  `aarch64/mmu.rs` is compiled, but `mmu::init` is never called: the call in
  `aarch64/mod.rs` is commented out.
* Benchmarks: measurement and printing; on x86 they run before the timer starts.
* The demo scripts (WasmIpc covers every order of their calls), the guests themselves
  (compiled binaries), and build and CI scripts.
* In `ipc.rs`, messages with a transferred capability are never sent, and the prints
  (before and inside `block_current`, in `unblock_task`, and under the registry lock in a
  debug build) are left out of Ipc: they add `SERIAL1` to the locks a task may be preempted
  with, which Preemption shows.
* In `aarch64/`, `switch_to_next` and `switch_context` are never called.
* The linked-list heap allocator, wasmi and the page-table code are libraries.  The
  allocator's spin lock is taken with interrupts enabled, as `SERIAL1` is: a task preempted
  inside it would stop the next one that allocates, in the way MCPreemptionPrint shows.

## Plan

Done: the modules above, in the order Scheduler, Capability, Preemption, Ipc, WasmIpc,
Arm64, Memory, Mailbox; the proofs about all of them.  Every invariant and every action
property of the passing runs is now a theorem, and so is each refinement, without fairness.

Next:

1. Preemption and Ipc each contain `Scheduler`: that they refine it, as theorems, so that
   `NoOvertaking` and the safety part of `TaskLifecycle` carry over to the system with
   ticks.
2. What follows from `Mailbox` alone (boxes bounded, no message taken twice, only allowed
   messages), proved once about the abstract specification, so that both refinements
   inherit it.
