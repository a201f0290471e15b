-------------------------- MODULE PreemptionProofs --------------------------
(***************************************************************************)
(* The safety of Preemption for every set of tasks, every workload and     *)
(* every place an interrupt may arrive, the unprotected end of the boot    *)
(* excepted: its inductive invariant PreIInv, and what follows from it.    *)
(***************************************************************************)
EXTENDS Preemption, SchedulerProofs

(* Where an interrupt may be taken, and where a print may return to. *)
IntLoc == {"run", "spinning", "printing", "exiting", "halted", "popfq", "b_init", "b_add"}
              \cup HoldingScheduler

PrintLoc == {"run", "exiting", "halted", "b_init", "b_add"}

(* A thread at p, with interrupted place i, saved flag s and print target  *)
(* r: it has an interrupted place only inside a handler; task_yield        *)
(* remembers that interrupts were enabled exactly when it was not called   *)
(* by the timer handler; a print has a place to go on at.                  *)
PlaceOK(p, i, s, r) ==
    /\ p = "eoi" => i # "none"
    /\ i # "none" => /\ p \in {"yield", "staying", "saved", "resumed", "eoi", "spin_off"}
                     /\ i \in IntLoc
    /\ p \in {"yield", "saved", "resumed"} => (s <=> i = "none")
    /\ r \in PrintLoc \cup {"none"}
    /\ p \in {"spinning", "printing"} \/ i \in {"spinning", "printing"} => r # "none"

PlacesOK == \A th \in Thread : PlaceOK(pc[th], iret[th], int_saved[th], print_to[th])

(* Where IF is set. *)
FlagAt(p, i) ==
    /\ p \notin {"yield", "resumed", "eoi", "spin_off", "faulted"}
    /\ p = "staying" => i = "none"

CpuFlag == IF_flag <=> FlagAt(pc[cpu], iret[cpu])

(* A thread in a section under SCHEDULER, interrupted there or not, holds  *)
(* the mutex.                                                              *)
LockHeld ==
    \A th \in Thread :
        /\ pc[th] \in HoldingScheduler \/ iret[th] \in HoldingScheduler => lock = th
        /\ pc[th] = "staying" => iret[th] \notin HoldingScheduler

LateBoot == {"b_scheduled", "b_copy_locked", "b_jump"}

(* Until it jumps to the first task, the boot thread runs alone; there is  *)
(* a current task only once the tasks are added.                           *)
BootPhase ==
    cpu = Boot =>
        /\ pc[Boot] \in BootLoc \cup {"spinning", "printing", "yield", "staying", "eoi", "spin_off"}
        /\ pc[Boot] \in {"yield", "staying"} => iret[Boot] # "none"
        /\ iret[Boot] \in BootLoc \cup {"spinning", "printing", "none"}
        /\ print_to[Boot] \in {"none", "b_init", "b_add"}
        /\ current_task # None <=> pc[Boot] \in LateBoot \/ iret[Boot] = "b_copy_locked"
        /\ \A t \in Task : pc[t] = "new" /\ context[t] = None
        /\ boot_copy = None
        /\ NobodyReturned

(* Afterwards it is gone, and every task off the CPU is new or saved. *)
TaskPhase ==
    /\ pc[cpu] \notin {"new", "saved", "gone"}
    /\ cpu # Boot => pc[Boot] = "gone" /\ iret[Boot] = "none"
    /\ \A t \in Task :
          /\ cpu # t => pc[t] \in {"new", "saved"}
          /\ pc[t] \notin BootLoc /\ iret[t] \notin BootLoc /\ print_to[t] \notin BootLoc

(* The tasks that schedule may still choose. *)
Choosable == {t \in Task : tasks[t] # "Terminated" /\ t # current_task}

(* Each of them has a context of its own: the one Task::new made, or the   *)
(* registers of a thread that is switched out.                             *)
ContextsSaved ==
    /\ context \in [Task -> Task \cup {None}]
    /\ \A t \in Choosable :
          IF context[t] = None THEN pc[t] = "new" ELSE pc[context[t]] = "saved"
    /\ \A t, u \in Choosable : context[t] # None /\ context[t] = context[u] => t = u

PreIInv ==
    /\ SchedIInv /\ PreTypeOK
    /\ PlacesOK /\ CpuFlag /\ LockHeld
    /\ BootPhase /\ TaskPhase /\ ContextsSaved
    /\ ContextIsOwn /\ CpuIsCurrent

-----------------------------------------------------------------------------
(* The steps in which the CPU stays on its thread. *)
LocalFrame ==
    /\ UNCHANGED <<cpu, context, boot_copy>>
    /\ pc' \in [Thread -> Loc] /\ iret' \in [Thread -> Loc \cup {"none"}]
    /\ int_saved' \in [Thread -> BOOLEAN] /\ print_to' \in [Thread -> Loc \cup {"none"}]
    /\ \A th \in Thread \ {cpu} :
          /\ pc'[th] = pc[th] /\ iret'[th] = iret[th]
          /\ int_saved'[th] = int_saved[th] /\ print_to'[th] = print_to[th]
    /\ IF_flag' \in BOOLEAN /\ irr' \in BOOLEAN /\ isr' \in BOOLEAN /\ ticked' \in BOOLEAN
    /\ inited' \in BOOLEAN /\ key' \in BOOLEAN
    /\ lock' \in Thread \cup {None} /\ serial' \in Thread \cup {None}

(* What such a step does to the scheduler: it makes no task choosable, and *)
(* changes the current task only when one returns, or when the boot thread *)
(* has added the tasks.                                                    *)
SchedFrame ==
    /\ SchedIInv'
    /\ Choosable' \subseteq Choosable
    /\ NobodyReturned' => NobodyReturned
    /\ cpu # Boot /\ NobodyReturned' => current_task' = current_task
    /\ cpu = Boot => NobodyReturned'

(* What the invariant says of the thread on the CPU. *)
BootHere ==
    /\ pc[cpu] \in BootLoc \cup {"spinning", "printing", "yield", "staying", "eoi", "spin_off"}
    /\ pc[cpu] \in {"yield", "staying"} => iret[cpu] # "none"
    /\ iret[cpu] \in BootLoc \cup {"spinning", "printing", "none"}
    /\ print_to[cpu] \in {"none", "b_init", "b_add"}
    /\ current_task # None <=> pc[cpu] \in LateBoot \/ iret[cpu] = "b_copy_locked"

TaskHere ==
    pc[cpu] \notin BootLoc /\ iret[cpu] \notin BootLoc /\ print_to[cpu] \notin BootLoc

HereOK ==
    /\ PlaceOK(pc[cpu], iret[cpu], int_saved[cpu], print_to[cpu])
    /\ IF_flag <=> FlagAt(pc[cpu], iret[cpu])
    /\ pc[cpu] \in HoldingScheduler \/ iret[cpu] \in HoldingScheduler => lock = cpu
    /\ pc[cpu] = "staying" => iret[cpu] \notin HoldingScheduler
    /\ pc[cpu] \notin {"new", "saved", "gone"}
    /\ IF cpu = Boot THEN BootHere ELSE TaskHere

(* What the invariant says about the thread on the CPU. *)
LEMMA IInvHere == PreIInv => HereOK
  <1> USE BootAssumption
  <1> SUFFICES ASSUME PreIInv PROVE HereOK OBVIOUS
  <1>1. cpu \in Thread /\ (cpu # Boot => cpu \in Task) BY DEF PreIInv, PreTypeOK, Thread
  <1>2. cpu = Boot => BootHere BY DEF PreIInv, BootPhase, BootHere
  <1>3. cpu # Boot => TaskHere BY <1>1 DEF PreIInv, TaskPhase, TaskHere
  <1> QED
    BY <1>1, <1>2, <1>3 DEF HereOK, PreIInv, PlacesOK, CpuFlag, LockHeld, TaskPhase

(* A step on one thread keeps the invariant if the thread's own new place  *)
(* is all right, and the mutex changes hands only through it.              *)
LEMMA LocalKeeps ==
    ASSUME PreIInv, LocalFrame, SchedFrame, HereOK',
           lock' = lock \/ lock \in {None, cpu}
    PROVE  PreIInv'
  <1> USE BootAssumption, NoneAssumption
  <1>0. /\ PreTypeOK /\ PlacesOK /\ CpuFlag /\ LockHeld
        /\ BootPhase /\ TaskPhase /\ ContextsSaved /\ ContextIsOwn /\ CpuIsCurrent
    BY DEF PreIInv
  <1>t. cpu \in Thread /\ pc \in [Thread -> Loc] /\ iret \in [Thread -> Loc \cup {"none"}]
    BY <1>0 DEF PreTypeOK
  <1>1. cpu' = cpu /\ context' = context /\ boot_copy' = boot_copy
    BY DEF LocalFrame
  <1>2. \A th \in Thread : th # cpu =>
          /\ pc'[th] = pc[th] /\ iret'[th] = iret[th]
          /\ int_saved'[th] = int_saved[th] /\ print_to'[th] = print_to[th]
    BY DEF LocalFrame
  <1>h. /\ PlaceOK(pc'[cpu], iret'[cpu], int_saved'[cpu], print_to'[cpu])
        /\ IF_flag' <=> FlagAt(pc'[cpu], iret'[cpu])
        /\ pc'[cpu] \in HoldingScheduler \/ iret'[cpu] \in HoldingScheduler => lock' = cpu
        /\ pc'[cpu] = "staying" => iret'[cpu] \notin HoldingScheduler
        /\ pc'[cpu] \notin {"new", "saved", "gone"}
        /\ cpu = Boot => BootHere'
        /\ cpu # Boot => TaskHere'
    BY <1>1 DEF HereOK
  <1>3. PreTypeOK'
    BY <1>0 DEF PreTypeOK, LocalFrame, SchedFrame, SchedIInv
  <1>4. PlacesOK'
    BY <1>0, <1>1, <1>2, <1>h DEF PlacesOK
  <1>5. CpuFlag' BY <1>1, <1>h DEF CpuFlag
  <1>6. LockHeld'
    <2> SUFFICES ASSUME NEW th \in Thread
                 PROVE  /\ pc'[th] \in HoldingScheduler \/ iret'[th] \in HoldingScheduler => lock' = th
                        /\ pc'[th] = "staying" => iret'[th] \notin HoldingScheduler
      BY DEF LockHeld
    <2>1. CASE th = cpu BY <2>1, <1>h
    <2>2. CASE th # cpu
      <3>1. /\ pc[th] \in HoldingScheduler \/ iret[th] \in HoldingScheduler => lock = th
            /\ pc[th] = "staying" => iret[th] \notin HoldingScheduler
        BY <1>0 DEF LockHeld
      <3>2. th # None BY DEF Thread
      <3> QED BY <2>2, <3>1, <3>2, <1>2
    <2> QED BY <2>1, <2>2
  <1>7. BootPhase'
    <2> SUFFICES ASSUME cpu = Boot PROVE BootPhase'
      BY <1>1 DEF BootPhase
    <2>1. \A t \in Task : t \in Thread /\ t # cpu BY DEF Thread
    <2>2. NobodyReturned' BY DEF SchedFrame
    <2> QED BY <2>1, <2>2, <1>0, <1>1, <1>2, <1>h DEF BootPhase, BootHere
  <1>8. TaskPhase'
    <2>1. cpu # Boot => pc'[Boot] = "gone" /\ iret'[Boot] = "none"
      BY <1>0, <1>2 DEF TaskPhase, Thread
    <2>2. ASSUME NEW t \in Task
          PROVE  /\ cpu # t => pc'[t] \in {"new", "saved"}
                 /\ pc'[t] \notin BootLoc /\ iret'[t] \notin BootLoc /\ print_to'[t] \notin BootLoc
      <3>1. t \in Thread /\ t # Boot BY DEF Thread
      <3>2. CASE t = cpu BY <3>1, <3>2, <1>h, <1>1 DEF TaskHere
      <3>3. CASE t # cpu BY <3>1, <3>3, <1>0, <1>2 DEF TaskPhase
      <3> QED BY <3>2, <3>3
    <2> QED BY <2>1, <2>2, <1>1, <1>h DEF TaskPhase
  <1>9. ContextsSaved'
    <2>1. Choosable' \subseteq Choosable BY DEF SchedFrame
    <2>2. Choosable \subseteq Task BY DEF Choosable
    <2>3. pc[cpu] \notin {"new", "saved"} BY <1>0 DEF TaskPhase
    <2>4. ASSUME NEW t \in Choosable
          PROVE  IF context[t] = None THEN pc'[t] = "new" ELSE pc'[context[t]] = "saved"
      <3>1. IF context[t] = None THEN pc[t] = "new" ELSE pc[context[t]] = "saved"
        BY <1>0 DEF ContextsSaved
      <3>2. t \in Thread /\ (context[t] # None => context[t] \in Thread)
        BY <2>2, <1>0 DEF ContextsSaved, Thread
      <3> QED BY <3>1, <3>2, <2>3, <1>2
    <2> QED BY <2>1, <2>4, <1>0, <1>1 DEF ContextsSaved
  <1>10. ContextIsOwn' /\ CpuIsCurrent'
    <2>1. NobodyReturned' => NobodyReturned /\ (cpu # Boot => current_task' = current_task)
      BY DEF SchedFrame
    <2>2. Boot \notin Task OBVIOUS
    <2>3. NobodyReturned' => NobodyReturned BY <2>1
    <2>4. ContextIsOwn' BY <2>3, <1>0, <1>1 DEF ContextIsOwn, EveryContextIsOwn
    <2>5. CpuIsCurrent' BY <2>1, <2>2, <1>0, <1>1 DEF CpuIsCurrent
    <2> QED BY <2>4, <2>5
  <1>11. SchedIInv' BY DEF SchedFrame
  <1> QED
    BY <1>3, <1>4, <1>5, <1>6, <1>7, <1>8, <1>9, <1>10, <1>11 DEF PreIInv

(* A step that leaves the scheduler alone. *)
LEMMA SchedSame == PreIInv /\ UNCHANGED <<schedVars, cpu>> => SchedFrame
  <1> SUFFICES ASSUME PreIInv, UNCHANGED <<schedVars, cpu>> PROVE SchedFrame OBVIOUS
  <1>1. tasks' = tasks /\ current_task' = current_task /\ ready_queue' = ready_queue
    BY DEF schedVars
  <1>2. SchedIInv' BY <1>1, SchedStep DEF schedVars, PreIInv
  <1>3. Choosable' = Choosable /\ (NobodyReturned' <=> NobodyReturned)
    BY <1>1 DEF Choosable, NobodyReturned
  <1>4. cpu = Boot => NobodyReturned BY DEF PreIInv, BootPhase
  <1> QED BY <1>1, <1>2, <1>3, <1>4 DEF SchedFrame

(* The devices. *)
LEMMA DevicesKeep == PreIInv /\ (TimerFires \/ KeyPressed) => PreIInv'
  <1> SUFFICES ASSUME PreIInv, TimerFires \/ KeyPressed PROVE PreIInv' OBVIOUS
  <1>0. PreTypeOK /\ HereOK BY IInvHere DEF PreIInv
  <1>1. /\ UNCHANGED <<schedVars, cpu, pc, iret, int_saved, context, IF_flag, isr, ticked,
                       inited, lock, serial, boot_copy, print_to>>
        /\ irr' \in BOOLEAN /\ key' \in BOOLEAN
    BY <1>0 DEF TimerFires, KeyPressed, ioVars, PreTypeOK
  <1>2. LocalFrame BY <1>0, <1>1 DEF LocalFrame, PreTypeOK
  <1>3. SchedFrame BY <1>1, SchedSame
  <1>4. HereOK'
    BY <1>0, <1>1 DEF HereOK, BootHere, TaskHere, schedVars
  <1> QED BY <1>1, <1>2, <1>3, <1>4, LocalKeeps

(* The interrupt gates and the end of the timer handler. *)
LEMMA InterruptsKeep ==
    ASSUME "boot" \notin OpenWindows, PreIInv,
           timer_interrupt_handler \/ keyboard_interrupt_handler \/ end_of_interrupt
    PROVE  PreIInv'
  <1> USE BootAssumption
  <1>0. PreTypeOK /\ HereOK BY IInvHere DEF PreIInv
  <1>t. /\ cpu \in Thread /\ pc \in [Thread -> Loc] /\ iret \in [Thread -> Loc \cup {"none"}]
        /\ int_saved \in [Thread -> BOOLEAN] /\ print_to \in [Thread -> Loc \cup {"none"}]
        /\ IF_flag \in BOOLEAN
    BY <1>0 DEF PreTypeOK
  <1>1. /\ UNCHANGED <<schedVars, cpu, context, inited, lock, serial, boot_copy, print_to>>
        /\ irr' \in BOOLEAN /\ isr' \in BOOLEAN /\ ticked' \in BOOLEAN /\ key' \in BOOLEAN
    BY <1>0 DEF timer_interrupt_handler, keyboard_interrupt_handler, end_of_interrupt, ioVars,
                PreTypeOK
  <1>2. SchedFrame BY <1>1, SchedSame
  <1>3. Interruptible => pc[cpu] \in IntLoc
    BY DEF Interruptible, IntLoc, HoldingScheduler
  <1>4. CASE timer_interrupt_handler
    <2>1. /\ pc[cpu] \in IntLoc /\ IF_flag /\ IF_flag' = FALSE
          /\ iret' = [iret EXCEPT ![cpu] = pc[cpu]]
          /\ int_saved' = [int_saved EXCEPT ![cpu] = FALSE]
          /\ \E p \in {"yield", "eoi", "spin_off"} : pc' = [pc EXCEPT ![cpu] = p]
      BY <1>4, <1>3 DEF timer_interrupt_handler, Goto
    <2>2. LocalFrame
      <3>1. PICK p \in {"yield", "eoi", "spin_off"} : pc' = [pc EXCEPT ![cpu] = p] BY <2>1
      <3>2. p \in Loc /\ FALSE \in BOOLEAN BY DEF Loc
      <3> QED BY <2>1, <3>1, <3>2, <1>0, <1>1, <1>t DEF LocalFrame, PreTypeOK
    <2>3. /\ pc'[cpu] \in {"yield", "eoi", "spin_off"} /\ iret'[cpu] = pc[cpu]
          /\ int_saved'[cpu] = FALSE
      BY <2>1, <1>t
    <2>4. iret[cpu] = "none"
      BY <2>1, <1>0 DEF HereOK, PlaceOK, FlagAt, IntLoc, HoldingScheduler
    <2>5. HereOK'
      BY <2>1, <2>3, <2>4, <1>0, <1>1
      DEF HereOK, PlaceOK, FlagAt, BootHere, TaskHere, IntLoc, HoldingScheduler, BootLoc,
          LateBoot, schedVars
    <2> QED BY <2>2, <2>5, <1>1, <1>2, LocalKeeps
  <1>5. CASE end_of_interrupt
    <2>1. /\ pc[cpu] = "eoi" /\ IF_flag' = TRUE
          /\ pc' = [pc EXCEPT ![cpu] = iret[cpu]]
          /\ iret' = [iret EXCEPT ![cpu] = "none"] /\ int_saved' = int_saved
      BY <1>5 DEF end_of_interrupt, Goto, At
    <2>2. iret[cpu] \in IntLoc /\ iret[cpu] \in Loc
      BY <2>1, <1>0, <1>t DEF HereOK, PlaceOK
    <2>3. LocalFrame
      BY <2>1, <2>2, <1>0, <1>1, <1>t DEF LocalFrame, PreTypeOK
    <2>4. pc'[cpu] = iret[cpu] /\ iret'[cpu] = "none" BY <2>1, <1>t
    <2>5. HereOK'
      BY <2>1, <2>2, <2>4, <1>0, <1>1
      DEF HereOK, PlaceOK, FlagAt, BootHere, TaskHere, IntLoc, HoldingScheduler, BootLoc,
          LateBoot, schedVars
    <2> QED BY <2>3, <2>5, <1>1, <1>2, LocalKeeps
  <1>6. CASE keyboard_interrupt_handler
    <2>1. CASE UNCHANGED <<pc, iret, IF_flag>>
      <3>1. int_saved' = int_saved BY <1>6 DEF keyboard_interrupt_handler
      <3>2. LocalFrame BY <2>1, <3>1, <1>0, <1>1, <1>t DEF LocalFrame, PreTypeOK
      <3>3. HereOK' BY <2>1, <3>1, <1>0, <1>1 DEF HereOK, BootHere, TaskHere, schedVars
      <3> QED BY <3>2, <3>3, <1>1, <1>2, LocalKeeps
    <2>2. CASE ~UNCHANGED <<pc, iret, IF_flag>>
      <3>1. /\ pc[cpu] \in IntLoc /\ IF_flag /\ IF_flag' = FALSE
            /\ iret' = [iret EXCEPT ![cpu] = pc[cpu]]
            /\ pc' = [pc EXCEPT ![cpu] = "spin_off"] /\ int_saved' = int_saved
        BY <1>6, <2>2, <1>3 DEF keyboard_interrupt_handler, Goto
      <3>2. LocalFrame BY <3>1, <1>0, <1>1, <1>t DEF LocalFrame, PreTypeOK, Loc
      <3>3. pc'[cpu] = "spin_off" /\ iret'[cpu] = pc[cpu] BY <3>1, <1>t
      <3>4. iret[cpu] = "none"
        BY <3>1, <1>0 DEF HereOK, PlaceOK, FlagAt, IntLoc, HoldingScheduler
      <3>5. HereOK'
        BY <3>1, <3>3, <3>4, <1>0, <1>1
        DEF HereOK, PlaceOK, FlagAt, BootHere, TaskHere, IntLoc, HoldingScheduler, BootLoc,
            LateBoot, schedVars
      <3> QED BY <3>2, <3>5, <1>1, <1>2, LocalKeeps
    <2> QED BY <2>1, <2>2
  <1> QED BY <1>4, <1>5, <1>6

(* The steps of a thread that stay on the CPU and leave IF, its handler    *)
(* and the scheduler alone.                                                *)
LEMMA ThreadStepsKeep ==
    ASSUME PreIInv,
           \/ YieldUnlocks \/ EnterTask \/ LockScheduler \/ LockToTerminate \/ BootLock
           \/ UnlockScheduler \/ PrintCalled \/ TaskReturns \/ panic \/ PrintBegin \/ PrintEnd
           \/ BootInitScheduler \/ BootCopyContext
    PROVE  PreIInv'
  <1> USE BootAssumption
  <1>0. PreTypeOK /\ HereOK BY IInvHere DEF PreIInv
  <1>t. /\ cpu \in Thread /\ pc \in [Thread -> Loc] /\ iret \in [Thread -> Loc \cup {"none"}]
        /\ int_saved \in [Thread -> BOOLEAN] /\ print_to \in [Thread -> Loc \cup {"none"}]
    BY <1>0 DEF PreTypeOK
  <1>b. cpu = Boot \/ cpu \in Task BY <1>t DEF Thread
  <1>1. /\ UNCHANGED <<schedVars, cpu, context, iret, int_saved, IF_flag, irr, isr, ticked, key>>
        /\ inited' \in BOOLEAN /\ lock' \in Thread \cup {None} /\ serial' \in Thread \cup {None}
    BY <1>0 DEF YieldUnlocks, EnterTask, LockScheduler, LockToTerminate, BootLock, Lock,
           UnlockScheduler, PrintCalled, TaskReturns, panic, SerialPrint, PrintBegin, PrintEnd,
           BootInitScheduler, BootCopyContext, ioVars, PreTypeOK
  <1>2. SchedFrame BY <1>1, SchedSame
  <1>3. boot_copy' = boot_copy
    <2>1. CASE BootCopyContext
      <3>1. pc[cpu] = "b_copy_locked" /\ boot_copy' = context[current_task]
        BY <2>1 DEF BootCopyContext, At
      <3>2. cpu = Boot BY <3>1, <1>0 DEF HereOK, TaskHere, BootLoc
      <3>3. current_task # None BY <3>1, <3>2, <1>0 DEF HereOK, BootHere, LateBoot
      <3>4. current_task \in Task BY <3>3, <1>0 DEF PreTypeOK, SchedTypeOK
      <3> QED BY <3>1, <3>2, <3>4 DEF PreIInv, BootPhase
    <2>2. CASE ~BootCopyContext
      BY <2>2 DEF YieldUnlocks, EnterTask, LockScheduler, LockToTerminate, BootLock, Lock,
             UnlockScheduler, PrintCalled, TaskReturns, panic, SerialPrint, PrintBegin, PrintEnd,
             BootInitScheduler
    <2> QED BY <2>1, <2>2
  <1>4. ASSUME NEW p \in Loc, NEW r \in Loc \cup {"none"},
               pc' = [pc EXCEPT ![cpu] = p], print_to' = [print_to EXCEPT ![cpu] = r]
        PROVE  /\ LocalFrame /\ pc'[cpu] = p /\ print_to'[cpu] = r
               /\ iret'[cpu] = iret[cpu] /\ int_saved'[cpu] = int_saved[cpu]
    BY <1>4, <1>0, <1>1, <1>3, <1>t DEF LocalFrame, PreTypeOK
  <1>5. ASSUME NEW p \in Loc, pc' = [pc EXCEPT ![cpu] = p], print_to' = print_to
        PROVE  /\ LocalFrame /\ pc'[cpu] = p /\ print_to'[cpu] = print_to[cpu]
               /\ iret'[cpu] = iret[cpu] /\ int_saved'[cpu] = int_saved[cpu]
    BY <1>5, <1>0, <1>1, <1>3, <1>t DEF LocalFrame, PreTypeOK
  <1> USE DEF PlaceOK, FlagAt, BootHere, TaskHere, IntLoc, PrintLoc, HoldingScheduler,
              BootLoc, LateBoot
  <1>6. CASE YieldUnlocks
    <2>1. /\ pc[cpu] = "staying" /\ lock' = None /\ print_to' = print_to
          /\ pc' = [pc EXCEPT ![cpu] = AfterYield]
      BY <1>6 DEF YieldUnlocks, At, Goto, ioVars
    <2>2. AfterYield \in Loc BY DEF AfterYield, Loc
    <2>3. LocalFrame /\ pc'[cpu] = AfterYield /\ print_to'[cpu] = print_to[cpu]
      BY <2>1, <2>2, <1>5
    <2>4. HereOK'
      BY <2>1, <2>3, <1>0, <1>1 DEF HereOK, AfterYield, schedVars
    <2>5. lock = cpu BY <2>1, <1>0 DEF HereOK
    <2> QED BY <2>3, <2>4, <2>5, <1>2, LocalKeeps
  <1>7. CASE EnterTask
    <2>1. /\ pc[cpu] = "popfq" /\ lock' = lock /\ print_to' = print_to
          /\ pc' = [pc EXCEPT ![cpu] = IF context[cpu] = None THEN "run" ELSE "lost"]
      BY <1>7 DEF EnterTask, At, Goto, ioVars
    <2>2. PICK p \in {"run", "lost"} : pc' = [pc EXCEPT ![cpu] = p] BY <2>1
    <2>3. LocalFrame /\ pc'[cpu] = p /\ print_to'[cpu] = print_to[cpu]
      <3>1. p \in Loc BY DEF Loc
      <3> QED BY <2>1, <2>2, <3>1, <1>5
    <2>4. HereOK' BY <2>1, <2>3, <1>0, <1>1 DEF HereOK, schedVars
    <2> QED BY <2>1, <2>3, <2>4, <1>2, LocalKeeps
  <1>8. ASSUME NEW from \in Loc, NEW to \in Loc, Lock(from, to),
               <<from, to>> \in {<<"run", "locked">>, <<"exiting", "term_locked">>,
                                 <<"b_init", "b_init_locked">>, <<"b_add", "b_add_locked">>,
                                 <<"b_scheduled", "b_copy_locked">>}
        PROVE  PreIInv'
    <2>1. /\ pc[cpu] = from /\ lock = None /\ lock' = cpu /\ print_to' = print_to
          /\ pc' = [pc EXCEPT ![cpu] = to]
      BY <1>8 DEF Lock, At, Goto, ioVars
    <2>2. LocalFrame /\ pc'[cpu] = to /\ print_to'[cpu] = print_to[cpu]
      BY <2>1, <1>5
    <2>3. HereOK' BY <2>1, <2>2, <1>0, <1>1, <1>8 DEF HereOK, schedVars
    <2> QED BY <2>1, <2>2, <2>3, <1>2, LocalKeeps
  <1>9. CASE UnlockScheduler \/ BootInitScheduler \/ BootCopyContext
    <2>1. /\ lock' = None /\ print_to' = print_to
          /\ \E p \in {"run", "b_add", "b_jump"} :
                /\ pc' = [pc EXCEPT ![cpu] = p]
                /\ <<pc[cpu], p>> \in {<<"locked", "run">>, <<"b_init_locked", "b_add">>,
                                       <<"b_copy_locked", "b_jump">>}
      BY <1>9 DEF UnlockScheduler, BootInitScheduler, BootCopyContext, At, Goto, ioVars
    <2>2. PICK p \in {"run", "b_add", "b_jump"} :
                /\ pc' = [pc EXCEPT ![cpu] = p]
                /\ <<pc[cpu], p>> \in {<<"locked", "run">>, <<"b_init_locked", "b_add">>,
                                       <<"b_copy_locked", "b_jump">>}
      BY <2>1
    <2>3. LocalFrame /\ pc'[cpu] = p /\ print_to'[cpu] = print_to[cpu]
      <3>1. p \in Loc BY DEF Loc
      <3> QED BY <2>1, <2>2, <3>1, <1>5
    <2>4. HereOK' BY <2>1, <2>2, <2>3, <1>0, <1>1 DEF HereOK, schedVars
    <2>5. lock = cpu BY <2>2, <1>0 DEF HereOK
    <2> QED BY <2>3, <2>4, <2>5, <1>2, LocalKeeps
  <1>10. ASSUME NEW from \in Loc, NEW to \in Loc, SerialPrint(from, to),
                <<from, to>> \in {<<"run", "run">>, <<"run", "exiting">>, <<"run", "halted">>,
                                  <<"b_init", "b_init">>, <<"b_add", "b_add">>}
         PROVE  PreIInv'
    <2>1. /\ pc[cpu] = from /\ lock' = lock
          /\ pc' = [pc EXCEPT ![cpu] = "spinning"] /\ print_to' = [print_to EXCEPT ![cpu] = to]
      BY <1>10 DEF SerialPrint, At, Goto
    <2>2. LocalFrame /\ pc'[cpu] = "spinning" /\ print_to'[cpu] = to
      <3>1. "spinning" \in Loc BY DEF Loc
      <3> QED BY <2>1, <3>1, <1>4
    <2>3. HereOK' BY <2>1, <2>2, <1>0, <1>1, <1>10 DEF HereOK, schedVars
    <2> QED BY <2>1, <2>2, <2>3, <1>2, LocalKeeps
  <1>11. CASE PrintBegin
    <2>1. /\ pc[cpu] = "spinning" /\ lock' = lock /\ print_to' = print_to
          /\ pc' = [pc EXCEPT ![cpu] = "printing"]
      BY <1>11 DEF PrintBegin, At, Goto, ioVars
    <2>2. LocalFrame /\ pc'[cpu] = "printing" /\ print_to'[cpu] = print_to[cpu]
      <3>1. "printing" \in Loc BY DEF Loc
      <3> QED BY <2>1, <3>1, <1>5
    <2>3. HereOK' BY <2>1, <2>2, <1>0, <1>1 DEF HereOK, schedVars
    <2> QED BY <2>1, <2>2, <2>3, <1>2, LocalKeeps
  <1>12. CASE PrintEnd
    <2>1. /\ pc[cpu] = "printing" /\ lock' = lock
          /\ pc' = [pc EXCEPT ![cpu] = print_to[cpu]]
          /\ print_to' = [print_to EXCEPT ![cpu] = "none"]
      BY <1>12 DEF PrintEnd, At, Goto
    <2>2. print_to[cpu] \in PrintLoc /\ iret[cpu] = "none" BY <2>1, <1>0 DEF HereOK
    <2>3. LocalFrame /\ pc'[cpu] = print_to[cpu] /\ print_to'[cpu] = "none"
      <3>1. print_to[cpu] \in Loc BY <2>2 DEF Loc
      <3> QED BY <2>1, <3>1, <1>4
    <2>4. HereOK' BY <2>1, <2>2, <2>3, <1>0, <1>1 DEF HereOK, schedVars
    <2> QED BY <2>1, <2>3, <2>4, <1>2, LocalKeeps
  <1>13. CASE LockScheduler \/ LockToTerminate \/ BootLock
    <2>1. {"run", "locked", "exiting", "term_locked", "b_init", "b_init_locked", "b_add",
           "b_add_locked", "b_scheduled", "b_copy_locked"} \subseteq Loc
      BY DEF Loc
    <2> QED BY <2>1, <1>8, <1>13 DEF LockScheduler, LockToTerminate, BootLock
  <1>14. CASE PrintCalled \/ TaskReturns \/ panic
    <2>1. {"run", "exiting", "halted", "b_init", "b_add"} \subseteq Loc BY DEF Loc
    <2> QED BY <2>1, <1>10, <1>14 DEF PrintCalled, TaskReturns, panic
  <1> QED BY <1>6, <1>7, <1>9, <1>11, <1>12, <1>13, <1>14

(* The steps of a thread that stay on the CPU and change IF: a call and an *)
(* end of task_yield, and an exception.                                    *)
LEMMA FlagStepsKeep ==
    ASSUME PreIInv,
           (\E t \in Task : CallYield(t)) \/ YieldReturns \/ page_fault_handler
    PROVE  PreIInv'
  <1> USE BootAssumption
  <1>0. PreTypeOK /\ HereOK BY IInvHere DEF PreIInv
  <1>t. /\ cpu \in Thread /\ pc \in [Thread -> Loc] /\ int_saved \in [Thread -> BOOLEAN]
        /\ IF_flag \in BOOLEAN
    BY <1>0 DEF PreTypeOK
  <1>1. UNCHANGED <<schedVars, cpu, context, iret, irr, isr, ticked, key, inited, lock,
                    serial, boot_copy, print_to>>
    BY DEF CallYield, YieldReturns, page_fault_handler, ioVars
  <1>2. SchedFrame BY <1>1, SchedSame
  <1>3. ASSUME NEW p \in Loc, NEW s \in BOOLEAN,
               pc' = [pc EXCEPT ![cpu] = p], int_saved' = [int_saved EXCEPT ![cpu] = s],
               IF_flag' \in BOOLEAN
        PROVE  LocalFrame /\ pc'[cpu] = p /\ int_saved'[cpu] = s
    BY <1>3, <1>0, <1>1, <1>t DEF LocalFrame, PreTypeOK
  <1> USE DEF PlaceOK, FlagAt, BootHere, TaskHere, IntLoc, PrintLoc, HoldingScheduler,
              BootLoc, LateBoot
  <1>4. CASE \E t \in Task : CallYield(t)
    <2>1. /\ cpu \in Task /\ pc[cpu] = "run" /\ pc' = [pc EXCEPT ![cpu] = "yield"]
          /\ int_saved' = [int_saved EXCEPT ![cpu] = IF_flag] /\ IF_flag' = FALSE
      BY <1>4 DEF CallYield, At, Goto
    <2>2. LocalFrame /\ pc'[cpu] = "yield" /\ int_saved'[cpu] = IF_flag
      <3>1. "yield" \in Loc BY DEF Loc
      <3> QED BY <2>1, <3>1, <1>3, <1>t
    <2>3. HereOK' BY <2>1, <2>2, <1>0, <1>1 DEF HereOK, schedVars
    <2> QED BY <2>2, <2>3, <1>1, <1>2, LocalKeeps
  <1>5. CASE YieldReturns
    <2>1. /\ pc[cpu] = "resumed" /\ pc' = [pc EXCEPT ![cpu] = AfterYield]
          /\ int_saved' = int_saved /\ IF_flag' = (IF_flag \/ int_saved[cpu])
      BY <1>5 DEF YieldReturns, At, Goto
    <2>2. LocalFrame /\ pc'[cpu] = AfterYield /\ int_saved'[cpu] = int_saved[cpu]
      <3>1. AfterYield \in Loc BY DEF AfterYield, Loc
      <3>2. int_saved' = [int_saved EXCEPT ![cpu] = int_saved[cpu]] /\ int_saved[cpu] \in BOOLEAN
        BY <2>1, <1>t
      <3>3. IF_flag' \in BOOLEAN BY <2>1
      <3> QED BY <2>1, <3>1, <3>2, <3>3, <1>3
    <2>f. IF_flag' <=> iret[cpu] = "none"
      <3>1. ~IF_flag /\ (int_saved[cpu] <=> iret[cpu] = "none") BY <2>1, <1>0 DEF HereOK
      <3>2. IF_flag' <=> (IF_flag \/ int_saved[cpu]) BY <2>1
      <3> QED BY <3>1, <3>2, Zenon
    <2>g. /\ pc'[cpu] = IF iret[cpu] = "none" THEN "run" ELSE "eoi"
          /\ iret'[cpu] = iret[cpu] /\ print_to'[cpu] = print_to[cpu]
      BY <2>2, <1>1 DEF AfterYield
    <2>3. HereOK'
      BY <2>1, <2>2, <2>f, <2>g, <1>0, <1>1 DEF HereOK, schedVars
    <2> QED BY <2>2, <2>3, <1>1, <1>2, LocalKeeps
  <1>6. CASE page_fault_handler
    <2>1. /\ pc[cpu] = "run" /\ int_saved' = int_saved /\ IF_flag' = FALSE
          /\ \E p \in {"faulted", "spin_off"} : pc' = [pc EXCEPT ![cpu] = p]
      BY <1>6 DEF page_fault_handler, At, Goto
    <2>2. PICK p \in {"faulted", "spin_off"} : pc' = [pc EXCEPT ![cpu] = p] BY <2>1
    <2>3. LocalFrame /\ pc'[cpu] = p /\ int_saved'[cpu] = int_saved[cpu]
      <3>1. p \in Loc BY DEF Loc
      <3>2. int_saved' = [int_saved EXCEPT ![cpu] = int_saved[cpu]] /\ int_saved[cpu] \in BOOLEAN
        BY <2>1, <1>t
      <3> QED BY <2>1, <2>2, <3>1, <3>2, <1>3
    <2>4. HereOK' BY <2>1, <2>3, <1>0, <1>1 DEF HereOK, schedVars
    <2> QED BY <2>3, <2>4, <1>1, <1>2, LocalKeeps
  <1> QED BY <1>4, <1>5, <1>6

(* The steps that call the scheduler and stay on the CPU. *)
LEMMA SchedulerCallsKeep ==
    ASSUME PreIInv, YieldStays \/ terminate_current_task \/ BootAddTasks
    PROVE  PreIInv'
  <1> USE BootAssumption, NoneAssumption
  <1>0. PreTypeOK /\ HereOK /\ SchedIInv BY IInvHere DEF PreIInv
  <1>t. /\ cpu \in Thread /\ pc \in [Thread -> Loc] /\ int_saved \in [Thread -> BOOLEAN]
        /\ IF_flag \in BOOLEAN /\ current_task \in Task \cup {None}
        /\ tasks \in [Task -> TaskState]
    BY <1>0 DEF PreTypeOK, SchedTypeOK
  <1>c. Consistent(tasks, current_task, ready_queue) BY <1>0, IInvIsConsistent
  <1>1. /\ UNCHANGED <<cpu, context, iret, int_saved, irr, isr, ticked, key, inited,
                       serial, boot_copy, print_to>>
        /\ lock' \in Thread \cup {None} /\ IF_flag' \in BOOLEAN
    BY <1>t DEF YieldStays, terminate_current_task, BootAddTasks, ioVars
  <1>3. ASSUME NEW p \in Loc, pc' = [pc EXCEPT ![cpu] = p]
        PROVE  LocalFrame /\ pc'[cpu] = p
    BY <1>3, <1>0, <1>1, <1>t DEF LocalFrame, PreTypeOK
  <1> USE DEF PlaceOK, FlagAt, BootHere, TaskHere, IntLoc, PrintLoc, HoldingScheduler,
              BootLoc, LateBoot
  <1>4. CASE YieldStays
    <2>1. /\ pc[cpu] = "yield" /\ lock = None /\ lock' = cpu
          /\ pc' = [pc EXCEPT ![cpu] = "staying"]
      BY <1>4 DEF YieldStays, At, Goto
    <2>2. LocalFrame /\ pc'[cpu] = "staying"
      <3>1. "staying" \in Loc BY DEF Loc
      <3> QED BY <2>1, <3>1, <1>3
    <2>f. IF_flag' <=> iret[cpu] = "none"
      <3>1. ~IF_flag /\ (int_saved[cpu] <=> iret[cpu] = "none") BY <2>1, <1>0 DEF HereOK
      <3>2. IF_flag' <=> (IF_flag \/ int_saved[cpu]) BY <1>4 DEF YieldStays
      <3> QED BY <3>1, <3>2, Zenon
    <2>h. iret[cpu] \notin HoldingScheduler
      <3>1. cpu # None BY <1>t DEF Thread
      <3> QED BY <3>1, <2>1, <1>0 DEF HereOK
    <2>3. CASE UNCHANGED schedVars
      <3>1. SchedFrame BY <2>3, <1>1, SchedSame
      <3>2. HereOK' BY <2>1, <2>2, <2>3, <2>f, <2>h, <1>0, <1>1 DEF HereOK, schedVars
      <3> QED BY <2>1, <2>2, <3>1, <3>2, LocalKeeps
    <2>4. CASE /\ current_task # None /\ ScheduleReturns \in {None, current_task}
               /\ schedule
      <3>1. cpu # Boot
        <4>1. SUFFICES ASSUME cpu = Boot PROVE FALSE OBVIOUS
        <4>2. iret[cpu] = "b_copy_locked" BY <4>1, <2>1, <2>4, <1>0 DEF HereOK
        <4> QED BY <4>1, <4>2, <2>1, <1>0 DEF HereOK
      <3>2. current_task' = current_task
        BY <2>4 DEF schedule, ScheduleFrom, ScheduleReturns
      <3>3. /\ SchedIInv'
            /\ \A t \in Task : tasks'[t] = "Terminated" <=> tasks[t] = "Terminated"
        BY <2>4, <1>c, ScheduleFromLemma DEF schedule
      <3>4. SchedFrame
        BY <3>1, <3>2, <3>3 DEF SchedFrame, Choosable, NobodyReturned
      <3>5. HereOK' BY <2>1, <2>2, <2>f, <2>h, <3>1, <1>0, <1>1 DEF HereOK
      <3> QED BY <2>1, <2>2, <3>4, <3>5, LocalKeeps
    <2> QED BY <1>4, <2>3, <2>4 DEF YieldStays
  <1>5. CASE terminate_current_task
    <2>1. /\ pc[cpu] = "term_locked" /\ lock' = None /\ pc' = [pc EXCEPT ![cpu] = "halted"]
          /\ IF_flag' = IF_flag
      BY <1>5 DEF terminate_current_task, At, Goto
    <2>2. LocalFrame /\ pc'[cpu] = "halted"
      <3>1. "halted" \in Loc BY DEF Loc
      <3> QED BY <2>1, <3>1, <1>3
    <2>3. cpu # Boot /\ lock = cpu BY <2>1, <1>0 DEF HereOK
    <2>4. HereOK' BY <2>1, <2>2, <2>3, <1>0, <1>1 DEF HereOK
    <2>5. SchedFrame
      <3>1. CASE UNCHANGED schedVars BY <3>1, <1>1, SchedSame
      <3>2. CASE terminate_current
        <4> DEFINE ts == [tasks EXCEPT ![current_task] = "Terminated"]
                   q == retain(ready_queue, current_task)
        <4>1. current_task # None /\ ScheduleFrom(ts, None, q)
          BY <3>2 DEF terminate_current
        <4>2. current_task \in Task /\ Consistent(ts, None, q)
          BY <4>1, <1>0, TakeOutLemma
        <4>3. /\ ts[current_task] = "Terminated"
              /\ \A t \in Task : ts[t] # "Terminated"
                                   => t # current_task /\ tasks[t] # "Terminated"
          BY <4>2, <1>t
        <4> HIDE DEF ts, q
        <4>4. /\ SchedIInv'
              /\ \A t \in Task : tasks'[t] = "Terminated" <=> ts[t] = "Terminated"
          BY <4>1, <4>2, ScheduleFromLemma
        <4>5. ~NobodyReturned' BY <4>2, <4>3, <4>4 DEF NobodyReturned
        <4>6. Choosable' \subseteq Choosable BY <4>3, <4>4 DEF Choosable
        <4> QED BY <4>4, <4>5, <4>6, <2>3 DEF SchedFrame
      <3> QED BY <1>5, <3>1, <3>2 DEF terminate_current_task
    <2> QED BY <2>2, <2>3, <2>4, <2>5, LocalKeeps
  <1>6. CASE BootAddTasks
    <2> DEFINE ts == [t \in Task |-> "Ready"]
    <2>1. /\ pc[cpu] = "b_add_locked" /\ lock' = None /\ pc' = [pc EXCEPT ![cpu] = "b_scheduled"]
          /\ IF_flag' = IF_flag /\ ScheduleFrom(ts, current_task, BootOrder)
      BY <1>6 DEF BootAddTasks, At, Goto
    <2>2. LocalFrame /\ pc'[cpu] = "b_scheduled"
      <3>1. "b_scheduled" \in Loc BY DEF Loc
      <3> QED BY <2>1, <3>1, <1>3
    <2>3. /\ cpu = Boot /\ lock = cpu /\ iret[cpu] = "none" /\ current_task = None
      BY <2>1, <1>0 DEF HereOK
    <2>4. /\ BootOrder \in Seq(Task) /\ Distinct(BootOrder) /\ Elems(BootOrder) = Task
          /\ BootOrder # <<>>
      BY BootOrderAssumption DEF Distinct, Elems
    <2>5. Consistent(ts, current_task, BootOrder)
      BY <2>4, <1>t DEF Consistent, Runnable, TaskState
    <2>6. /\ SchedIInv'
          /\ \A t \in Task : tasks'[t] = "Terminated" <=> ts[t] = "Terminated"
          /\ IF Elems(BootOrder) = {} THEN current_task' = current_task
                                      ELSE current_task' \in Elems(BootOrder)
      <3> HIDE DEF ts
      <3> QED BY <2>1, <2>5, ScheduleFromLemma
    <2>7. NobodyReturned' BY <2>6 DEF NobodyReturned
    <2>8. current_task' \in Task
      <3>1. BootOrder[1] \in Elems(BootOrder) BY <2>4 DEF Elems
      <3> QED BY <3>1, <2>4, <2>6
    <2>9. SchedFrame
      <3>1. NobodyReturned BY <2>3 DEF PreIInv, BootPhase
      <3>2. Choosable' \subseteq Choosable
        BY <3>1, <2>3 DEF Choosable, NobodyReturned
      <3> QED BY <3>1, <3>2, <2>3, <2>6, <2>7 DEF SchedFrame
    <2>10. HereOK' BY <2>1, <2>2, <2>3, <2>8, <1>0, <1>1 DEF HereOK
    <2> QED BY <2>2, <2>3, <2>9, <2>10, LocalKeeps
  <1> QED BY <1>4, <1>5, <1>6

(* A switch: the thread that leaves is saved under its own name, the one   *)
(* that comes was switched out, or is new.                                 *)
LEMMA SwitchKeeps == PreIInv /\ YieldSwitches => PreIInv'
  <1> SUFFICES ASSUME PreIInv, YieldSwitches PROVE PreIInv' OBVIOUS
  <1> USE BootAssumption, NoneAssumption
  <1> DEFINE old == current_task
             new == ScheduleReturns
             next == IF context[new] = None THEN new ELSE context[new]
  <1>0. /\ PreTypeOK /\ HereOK /\ SchedIInv /\ PlacesOK /\ LockHeld /\ TaskPhase
        /\ ContextsSaved /\ ContextIsOwn /\ CpuIsCurrent
    BY IInvHere DEF PreIInv
  <1>t. /\ cpu \in Thread /\ pc \in [Thread -> Loc] /\ context \in [Task -> Task \cup {None}]
        /\ old \in Task \cup {None} /\ tasks \in [Task -> TaskState]
        /\ ready_queue \in Seq(Task)
    BY <1>0 DEF PreTypeOK, SchedTypeOK, ContextsSaved
  <1>1. /\ pc[cpu] = "yield" /\ lock = None /\ old # None /\ new \notin {None, old}
        /\ schedule /\ switch_context(old, new)
        /\ UNCHANGED <<iret, int_saved, irr, isr, ticked, inited, lock, serial, boot_copy,
                       key, print_to>>
    BY DEF YieldSwitches, At, ioVars
  <1>2. cpu # Boot /\ cpu \in Task
    <2>1. SUFFICES ASSUME cpu = Boot PROVE FALSE BY <1>t DEF Thread
    <2>2. iret[cpu] = "b_copy_locked"
      BY <2>1, <1>0, <1>1 DEF HereOK, BootHere, LateBoot
    <2> QED BY <2>1, <2>2, <1>0, <1>1 DEF HereOK, HoldingScheduler
  <1>3. old \in Task /\ new \in Task /\ tasks[new] = "Ready"
    BY <1>1, <1>t DEF ScheduleReturns, Chosen, MarkPreviousReady
  <1>4. /\ SchedIInv' /\ current_task' = new
        /\ \A t \in Task : tasks'[t] = "Terminated" <=> tasks[t] = "Terminated"
    <2>1. current_task' = new
      BY <1>1 DEF schedule, ScheduleFrom, ScheduleReturns
    <2>2. Consistent(tasks, current_task, ready_queue) BY <1>0, IInvIsConsistent
    <2>3. /\ SchedIInv'
          /\ \A t \in Task : tasks'[t] = "Terminated" <=> tasks[t] = "Terminated"
      BY <1>1, <2>2, ScheduleFromLemma DEF schedule
    <2> QED BY <2>1, <2>3
  <1>5. new \in Choosable BY <1>1, <1>3 DEF Choosable
  <1> HIDE DEF old, new, next
  <1>6. /\ next \in Task /\ next # cpu
        /\ pc[next] = IF context[new] = None THEN "new" ELSE "saved"
    BY <1>0, <1>1, <1>3, <1>5, <1>t DEF next, ContextsSaved
  <1> DEFINE arrives == IF context[new] = None THEN "popfq" ELSE "resumed"
  <1>7. /\ context' = [context EXCEPT ![old] = cpu]
        /\ cpu' = next
        /\ pc' = [pc EXCEPT ![cpu] = "saved", ![next] = arrives]
        /\ IF_flag' = (context[new] = None)
    BY <1>1 DEF switch_context, next
  <1>8. /\ pc'[cpu] = "saved" /\ pc'[next] = arrives
        /\ \A th \in Thread : th # cpu /\ th # next => pc'[th] = pc[th]
        /\ pc' \in [Thread -> Loc]
    <2>1. "saved" \in Loc /\ arrives \in Loc BY DEF Loc
    <2>2. next \in Thread BY <1>6 DEF Thread
    <2> QED BY <2>1, <2>2, <1>6, <1>7, <1>t
  <1> HIDE DEF arrives
  <1>9. PreTypeOK'
    <2>1. cpu' \in Thread /\ context' \in [Task -> Thread \cup {None}]
      BY <1>2, <1>3, <1>6, <1>7, <1>t DEF Thread
    <2>2. IF_flag' \in BOOLEAN BY <1>7
    <2> QED BY <2>1, <2>2, <1>0, <1>1, <1>4, <1>8 DEF PreTypeOK, SchedIInv
  <1>10. PlacesOK'
    <2> SUFFICES ASSUME NEW th \in Thread
                 PROVE  PlaceOK(pc'[th], iret[th], int_saved[th], print_to[th])
      BY <1>1 DEF PlacesOK
    <2>1. PlaceOK(pc[th], iret[th], int_saved[th], print_to[th]) BY <1>0 DEF PlacesOK
    <2>2. CASE th = cpu BY <2>1, <2>2, <1>1, <1>8 DEF PlaceOK
    <2>3. CASE th = next BY <2>1, <2>3, <1>6, <1>8 DEF PlaceOK, arrives
    <2>4. CASE th # cpu /\ th # next BY <2>1, <2>4, <1>8
    <2> QED BY <2>2, <2>3, <2>4
  <1>11. CpuFlag'
    <2>1. IF_flag' <=> context[new] = None BY <1>7
    <2>2. pc'[cpu'] = arrives BY <1>7, <1>8
    <2> HIDE <1>7
    <2> QED BY <2>1, <2>2 DEF CpuFlag, FlagAt, arrives
  <1>12. LockHeld'
    <2> SUFFICES ASSUME NEW th \in Thread
                 PROVE  pc'[th] \notin HoldingScheduler /\ iret[th] \notin HoldingScheduler
      BY <1>1 DEF LockHeld
    <2>1. pc[th] \notin HoldingScheduler /\ iret[th] \notin HoldingScheduler
      <3>1. th # None BY DEF Thread
      <3> QED BY <3>1, <1>0, <1>1 DEF LockHeld
    <2> QED BY <2>1, <1>8 DEF HoldingScheduler, arrives
  <1>13. BootPhase' BY <1>6, <1>7 DEF BootPhase
  <1>14. TaskPhase'
    <2>1. pc'[Boot] = "gone" /\ iret'[Boot] = "none"
      BY <1>0, <1>1, <1>2, <1>6, <1>8 DEF TaskPhase, Thread
    <2>2. ASSUME NEW t \in Task
          PROVE  /\ cpu' # t => pc'[t] \in {"new", "saved"}
                 /\ pc'[t] \notin BootLoc /\ iret'[t] \notin BootLoc /\ print_to'[t] \notin BootLoc
      BY <1>0, <1>1, <1>7, <1>8 DEF TaskPhase, Thread, BootLoc, arrives
    <2>3. pc'[cpu'] \notin {"new", "saved", "gone"} BY <1>7, <1>8 DEF arrives
    <2> QED BY <2>1, <2>2, <2>3 DEF TaskPhase
  <1>15. ContextsSaved'
    <2>1. context' \in [Task -> Task \cup {None}] BY <1>2, <1>3, <1>7, <1>t
    <2>2. ASSUME NEW t \in Choosable'
          PROVE  t = old \/ (t \in Choosable /\ t # new /\ context'[t] = context[t])
      BY <1>4, <1>7, <1>t DEF Choosable, old
    <2>3. context'[old] = cpu BY <1>3, <1>7, <1>t
    <2>4. ASSUME NEW t \in Choosable, t # new
          PROVE  /\ context[t] = None => pc'[t] = "new"
                 /\ context[t] # None => pc'[context[t]] = "saved" /\ context[t] # cpu
      <3>1. t \in Task /\ t \in Thread BY DEF Choosable, Thread
      <3>2. IF context[t] = None THEN pc[t] = "new" ELSE pc[context[t]] = "saved"
        BY <1>0 DEF ContextsSaved
      <3>3. CASE context[t] = None
        <4>1. t # cpu /\ t # next
          BY <2>4, <3>2, <3>3, <1>1, <1>6 DEF next
        <4> QED BY <3>1, <3>2, <3>3, <4>1, <1>8
      <3>4. CASE context[t] # None
        <4>1. context[t] \in Thread BY <3>1, <3>4, <1>t DEF Thread
        <4>2. context[t] # cpu BY <3>2, <3>4, <1>1
        <4>3. context[t] # next
          BY <2>4, <3>2, <3>4, <1>0, <1>5, <1>6 DEF next, ContextsSaved
        <4> QED BY <3>2, <3>4, <4>1, <4>2, <4>3, <1>8
      <3> QED BY <3>3, <3>4
    <2>5. ASSUME NEW t \in Choosable'
          PROVE  IF context'[t] = None THEN pc'[t] = "new" ELSE pc'[context'[t]] = "saved"
      <3>1. cpu # None BY <1>2
      <3> QED BY <2>2, <2>3, <2>4, <2>5, <3>1, <1>8
    <2>6. ASSUME NEW t \in Choosable', NEW u \in Choosable',
                 context'[t] # None, context'[t] = context'[u]
          PROVE  t = u
      BY <2>2, <2>3, <2>4, <2>6, <1>0 DEF ContextsSaved
    <2> QED BY <2>1, <2>5, <2>6 DEF ContextsSaved
  <1>16. ContextIsOwn' /\ CpuIsCurrent'
    <2>1. NobodyReturned' => NobodyReturned BY <1>4 DEF NobodyReturned
    <2>2. NobodyReturned => cpu = old /\ \A t \in Task : context[t] \in {None, t}
      BY <1>0, <1>2 DEF ContextIsOwn, EveryContextIsOwn, CpuIsCurrent, old
    <2>3. NobodyReturned => next = new BY <2>2, <1>3 DEF next
    <2>4. ContextIsOwn'
      BY <2>1, <2>2, <1>3, <1>7, <1>t DEF ContextIsOwn, EveryContextIsOwn
    <2>5. CpuIsCurrent' BY <2>1, <2>3, <1>4, <1>7 DEF CpuIsCurrent
    <2> QED BY <2>4, <2>5
  <1> QED BY <1>4, <1>9, <1>10, <1>11, <1>12, <1>13, <1>14, <1>15, <1>16 DEF PreIInv

(* The boot thread jumps to the first task. *)
LEMMA BootJumpKeeps == PreIInv /\ BootJump => PreIInv'
  <1> SUFFICES ASSUME PreIInv, BootJump PROVE PreIInv' OBVIOUS
  <1> USE BootAssumption, NoneAssumption
  <1> DEFINE first == current_task
  <1>0. /\ PreTypeOK /\ HereOK /\ SchedIInv /\ PlacesOK /\ LockHeld /\ BootPhase /\ TaskPhase
        /\ ContextsSaved /\ ContextIsOwn
    BY IInvHere DEF PreIInv
  <1>1. pc[cpu] = "b_jump" BY DEF BootJump, At
  <1>2. cpu = Boot BY <1>0, <1>1 DEF HereOK, TaskHere, BootLoc
  <1>3. /\ first \in Task /\ iret[Boot] = "none" /\ NobodyReturned
        /\ \A t \in Task : pc[t] = "new" /\ context[t] = None
    <2>1. first # None BY <1>0, <1>1, <1>2 DEF HereOK, BootHere, LateBoot
    <2>2. iret[Boot] = "none" BY <1>0, <1>1, <1>2 DEF HereOK, PlaceOK
    <2> QED BY <2>1, <2>2, <1>0, <1>2 DEF PreTypeOK, SchedTypeOK, BootPhase
  <1>4. /\ cpu' = first /\ pc' = [pc EXCEPT ![Boot] = "gone", ![first] = "run"]
        /\ IF_flag' = TRUE
        /\ UNCHANGED <<schedVars, iret, int_saved, context, irr, isr, ticked, inited, lock,
                       serial, boot_copy, key, print_to>>
    BY <1>0, <1>2 DEF BootJump, BootPhase, ioVars
  <1>5. /\ pc'[Boot] = "gone" /\ pc'[first] = "run" /\ pc' \in [Thread -> Loc]
        /\ \A th \in Thread : th # Boot /\ th # first => pc'[th] = pc[th]
    <2>1. {"gone", "run"} \subseteq Loc BY DEF Loc
    <2>2. Boot \in Thread /\ first \in Thread /\ first # Boot BY <1>3 DEF Thread
    <2>3. pc \in [Thread -> Loc] BY <1>0 DEF PreTypeOK
    <2> QED BY <2>1, <2>2, <2>3, <1>4
  <1>6. SchedIInv' BY <1>0, <1>4, SchedStep
  <1>7. PreTypeOK'
    <2>1. cpu' \in Thread BY <1>3, <1>4 DEF Thread
    <2> QED BY <2>1, <1>0, <1>4, <1>5, <1>6 DEF PreTypeOK, SchedIInv
  <1>8. PlacesOK'
    <2> SUFFICES ASSUME NEW th \in Thread
                 PROVE  PlaceOK(pc'[th], iret[th], int_saved[th], print_to[th])
      BY <1>4 DEF PlacesOK
    <2>1. PlaceOK(pc[th], iret[th], int_saved[th], print_to[th]) BY <1>0 DEF PlacesOK
    <2>2. CASE th = Boot BY <2>1, <2>2, <1>3, <1>5 DEF PlaceOK
    <2>3. CASE th = first BY <2>1, <2>3, <1>3, <1>5 DEF PlaceOK
    <2>4. CASE th # Boot /\ th # first BY <2>1, <2>4, <1>5
    <2> QED BY <2>2, <2>3, <2>4
  <1>9. CpuFlag' BY <1>4, <1>5 DEF CpuFlag, FlagAt
  <1>10. LockHeld'
    <2> SUFFICES ASSUME NEW th \in Thread
                 PROVE  /\ pc'[th] \in HoldingScheduler \/ iret[th] \in HoldingScheduler => lock = th
                        /\ pc'[th] = "staying" => iret[th] \notin HoldingScheduler
      BY <1>4 DEF LockHeld
    <2> QED BY <1>0, <1>5 DEF LockHeld, HoldingScheduler
  <1>11. BootPhase' BY <1>3, <1>4 DEF BootPhase
  <1>12. TaskPhase'
    <2>1. ASSUME NEW t \in Task
          PROVE  /\ cpu' # t => pc'[t] \in {"new", "saved"}
                 /\ pc'[t] \notin BootLoc /\ iret'[t] \notin BootLoc /\ print_to'[t] \notin BootLoc
      BY <1>0, <1>3, <1>4, <1>5 DEF TaskPhase, Thread, BootLoc
    <2> QED BY <2>1, <1>3, <1>4, <1>5 DEF TaskPhase
  <1>13. ContextsSaved'
    <2>1. context' = context /\ context \in [Task -> Task \cup {None}]
      BY <1>0, <1>4 DEF ContextsSaved
    <2>2. \A t \in Choosable' : t \in Task /\ t # first
      BY <1>4 DEF Choosable, schedVars
    <2>3. \A t \in Choosable' : pc'[t] = "new" /\ context[t] = None
      BY <2>2, <1>3, <1>5 DEF Thread
    <2> QED BY <2>1, <2>3 DEF ContextsSaved
  <1>14. ContextIsOwn'
    BY <1>3, <1>4 DEF ContextIsOwn, EveryContextIsOwn
  <1>15. CpuIsCurrent' BY <1>4 DEF CpuIsCurrent, schedVars
  <1> QED BY <1>6, <1>7, <1>8, <1>9, <1>10, <1>11, <1>12, <1>13, <1>14, <1>15 DEF PreIInv

-----------------------------------------------------------------------------
(* Every step keeps the invariant, as long as no interrupt arrives between *)
(* the last steps of the boot thread.                                      *)
LEMMA PreStep ==
    ASSUME "boot" \notin OpenWindows
    PROVE  PreIInv /\ [PreNext]_preVars => PreIInv'
  <1> SUFFICES ASSUME PreIInv, [PreNext]_preVars PROVE PreIInv' OBVIOUS
  <1>1. CASE PreNext
    BY <1>1, DevicesKeep, InterruptsKeep, ThreadStepsKeep, FlagStepsKeep, SchedulerCallsKeep,
       SwitchKeeps, BootJumpKeeps
    DEF PreNext, SwitchStep, OwnStep, BootStep, TaskStep
  <1>2. CASE UNCHANGED preVars
    <2>0. PreTypeOK /\ HereOK BY IInvHere DEF PreIInv
    <2>1. UNCHANGED <<schedVars, cpu, pc, iret, int_saved, context, IF_flag, irr, isr, ticked,
                      inited, lock, serial, boot_copy, key, print_to>>
      BY <1>2 DEF preVars, machineVars
    <2>2. LocalFrame BY <2>0, <2>1 DEF LocalFrame, PreTypeOK
    <2>3. SchedFrame BY <2>1, SchedSame
    <2>4. HereOK' BY <2>0, <2>1 DEF HereOK, BootHere, TaskHere, schedVars
    <2> QED BY <2>1, <2>2, <2>3, <2>4, LocalKeeps
  <1> QED BY <1>1, <1>2

(* The boot code starts with interrupts off and an empty scheduler. *)
LEMMA PreStart == PreInit => PreIInv
  <1> SUFFICES ASSUME PreInit PROVE PreIInv OBVIOUS
  <1> USE BootAssumption, NoneAssumption
  <1>1. SchedIInv
    BY DEF PreInit, SchedulerNew, SchedIInv, SchedTypeOK, ReadyQueueExact, NoDuplicates,
           Queued, RunningIsCurrent, TaskState, Runnable
  <1>2. /\ cpu = Boot /\ current_task = None /\ tasks = [t \in Task |-> "Absent"]
        /\ pc = [th \in Thread |-> IF th = Boot THEN "b_init" ELSE "new"]
        /\ iret = [th \in Thread |-> "none"] /\ int_saved = [th \in Thread |-> FALSE]
        /\ context = [t \in Task |-> None] /\ IF_flag = TRUE
        /\ irr = FALSE /\ isr = FALSE /\ ticked = FALSE /\ inited = FALSE /\ lock = None
        /\ serial = None /\ boot_copy = None /\ key = FALSE
        /\ print_to = [th \in Thread |-> "none"]
    BY DEF PreInit, SchedulerNew
  <1>3. Boot \in Thread /\ Task \subseteq Thread BY DEF Thread
  <1>4. PreTypeOK
    <2>1. {"b_init", "new"} \subseteq Loc BY DEF Loc, BootLoc
    <2> QED BY <2>1, <1>1, <1>2, <1>3 DEF PreTypeOK, SchedIInv
  <1>5. PlacesOK /\ CpuFlag /\ LockHeld
    BY <1>2, <1>3 DEF PlacesOK, PlaceOK, CpuFlag, FlagAt, LockHeld, HoldingScheduler
  <1>6. NobodyReturned BY <1>2 DEF NobodyReturned
  <1>7. BootPhase
    BY <1>2, <1>3, <1>6 DEF BootPhase, BootLoc, LateBoot
  <1>8. TaskPhase BY <1>2, <1>3 DEF TaskPhase, BootLoc
  <1>9. ContextsSaved /\ ContextIsOwn /\ CpuIsCurrent
    BY <1>2, <1>3 DEF ContextsSaved, Choosable, ContextIsOwn, EveryContextIsOwn, CpuIsCurrent
  <1> QED BY <1>1, <1>4, <1>5, <1>7, <1>8, <1>9 DEF PreIInv

(* The inductive invariant, if no interrupt arrives between the schedule   *)
(* of test_scheduler and its jump to the first task; every other window    *)
(* may be open.                                                            *)
THEOREM PreInvariant ==
    ASSUME "boot" \notin OpenWindows
    PROVE  PreSpec => []PreIInv
  BY PreStart, PreStep, PTL DEF PreSpec

(* The machine's state keeps its types. *)
THEOREM PreTypeCorrect ==
    ASSUME "boot" \notin OpenWindows
    PROVE  PreSpec => []PreTypeOK
  BY PreInvariant, PTL DEF PreIInv

(* No switch stores one thread's registers under another task's name. *)
THEOREM ContextsAreOwn ==
    ASSUME "boot" \notin OpenWindows
    PROVE  PreSpec => []ContextIsOwn
  BY PreInvariant, PTL DEF PreIInv

(* The thread on the CPU is the one current_task names, until a task       *)
(* returns.                                                                *)
THEOREM CpuRunsCurrent ==
    ASSUME "boot" \notin OpenWindows
    PROVE  PreSpec => []CpuIsCurrent
  BY PreInvariant, PTL DEF PreIInv

(* The ready queue stays exact under preemption, from the boot on.         *)
THEOREM PreQueueIsExact ==
    ASSUME "boot" \notin OpenWindows
    PROVE  PreSpec => []ReadyQueueExact
  BY PreInvariant, PTL DEF PreIInv, SchedIInv

(* Interrupts are off in task_yield and in the handlers and on again in a  *)
(* thread's own code, along every nesting of yields and ticks.             *)
THEOREM FlagIsRestored ==
    ASSUME "boot" \notin OpenWindows
    PROVE  PreSpec => []InterruptFlagRestored
  <1>1. PreIInv => InterruptFlagRestored
    BY DEF PreIInv, CpuFlag, FlagAt, InterruptFlagRestored
  <1> QED BY <1>1, PreInvariant, PTL

-----------------------------------------------------------------------------
(* The interrupt controller and the handlers agree, unless a handler may   *)
(* find SERIAL1 held.                                                      *)
THEOREM OneHandler ==
    ASSUME "boot" \notin OpenWindows, "print" \notin OpenWindows
    PROVE  PreSpec => []OneHandlerInService
  <1> DEFINE inHandler == {th \in Thread : iret[th] # "none"}
  <1>1. PreInit => OneHandlerInService
    BY DEF PreInit, OneHandlerInService
  <1>2. PreIInv /\ OneHandlerInService /\ [PreNext]_preVars => OneHandlerInService'
    <2> SUFFICES ASSUME PreIInv, OneHandlerInService, [PreNext]_preVars
                 PROVE  OneHandlerInService'
      OBVIOUS
    <2>0. /\ cpu \in Thread /\ iret \in [Thread -> Loc \cup {"none"}]
          /\ pc \in [Thread -> Loc] /\ HereOK
      BY IInvHere DEF PreIInv, PreTypeOK
    <2>1. CASE timer_interrupt_handler
      <3>1. /\ ~isr /\ isr' = TRUE /\ iret' = [iret EXCEPT ![cpu] = pc[cpu]]
        BY <2>1 DEF timer_interrupt_handler
      <3>2. pc[cpu] # "none" BY <2>0 DEF Loc, BootLoc
      <3>3. inHandler = {} BY <3>1 DEF OneHandlerInService
      <3>4. inHandler' = {cpu} BY <2>0, <3>1, <3>2, <3>3
      <3> QED BY <2>0, <3>1, <3>4 DEF OneHandlerInService
    <2>2. CASE end_of_interrupt
      <3>1. pc[cpu] = "eoi" /\ isr' = FALSE /\ iret' = [iret EXCEPT ![cpu] = "none"]
        BY <2>2 DEF end_of_interrupt, At
      <3>2. iret[cpu] # "none" BY <3>1, <2>0 DEF HereOK, PlaceOK
      <3>3. \A th \in Thread : iret[th] # "none" => th = cpu
        BY <3>2, <2>0 DEF OneHandlerInService
      <3>4. inHandler' = {} BY <2>0, <3>1, <3>3
      <3> QED BY <3>1, <3>4 DEF OneHandlerInService
    <2>3. CASE UNCHANGED <<isr, iret>>
      BY <2>3 DEF OneHandlerInService
    <2> QED BY <2>1, <2>2, <2>3
        DEF PreNext, SwitchStep, OwnStep, BootStep, TaskStep, TimerFires, KeyPressed,
            keyboard_interrupt_handler, SerialHeld, YieldStays, YieldUnlocks, YieldSwitches,
            YieldReturns, EnterTask, UnlockScheduler, PrintBegin, PrintEnd, LockToTerminate,
            Lock, terminate_current_task, BootLock, BootInitScheduler, BootAddTasks,
            BootCopyContext, BootJump, CallYield, LockScheduler, PrintCalled, SerialPrint,
            TaskReturns, panic, page_fault_handler, preVars, machineVars
  <1> QED BY <1>1, <1>2, PreInvariant, PTL DEF PreSpec

(* SCHEDULER is held by the thread on the CPU, in a section under the      *)
(* mutex or in a handler that interrupted one and has not switched.        *)
HolderRuns ==
    lock # None =>
        /\ lock = cpu
        /\ \/ pc[cpu] \in HoldingScheduler
           \/ iret[cpu] \in HoldingScheduler /\ pc[cpu] \in {"yield", "eoi", "spin_off"}

(* No thread is switched out while it holds SCHEDULER, also where a tick   *)
(* falls into a section under the mutex: such a tick finds it held and     *)
(* stays on the CPU.                                                       *)
THEOREM HolderStaysOnCpu ==
    ASSUME "boot" \notin OpenWindows
    PROVE  PreSpec => []SchedulerHeldOnCpu
  <1>1. PreInit => HolderRuns BY DEF PreInit, HolderRuns
  <1>2. PreIInv /\ HolderRuns /\ [PreNext]_preVars => HolderRuns'
    <2> SUFFICES ASSUME PreIInv, HolderRuns, [PreNext]_preVars PROVE HolderRuns'
      OBVIOUS
    <2>0. /\ cpu \in Thread /\ pc \in [Thread -> Loc]
          /\ iret \in [Thread -> Loc \cup {"none"}] /\ HereOK
      BY IInvHere DEF PreIInv, PreTypeOK
    <2>i. iret[cpu] # "none" =>
            pc[cpu] \in {"yield", "staying", "saved", "resumed", "eoi", "spin_off"}
      BY <2>0 DEF HereOK, PlaceOK
    <2> USE DEF HolderRuns, HoldingScheduler
    <2>1. CASE YieldStays BY <2>0, <2>1 DEF YieldStays, Goto, At
    <2>2. ASSUME NEW from, NEW to \in HoldingScheduler, Lock(from, to) PROVE HolderRuns'
      BY <2>0, <2>2 DEF Lock, Goto
    <2>3. CASE LockScheduler \/ LockToTerminate \/ BootLock
      BY <2>2, <2>3 DEF LockScheduler, LockToTerminate, BootLock
    <2>4. CASE lock' = None BY <2>4
    <2>5. CASE lock' = lock /\ pc[cpu] \notin HoldingScheduler /\ iret[cpu] = "none"
      BY <2>5
    <2>6. CASE UNCHANGED <<lock, cpu, pc, iret>> BY <2>6
    <2>7. CASE timer_interrupt_handler
      <3>1. /\ UNCHANGED <<lock, cpu>> /\ iret'[cpu] = pc[cpu] /\ pc[cpu] \in IntLoc
            /\ IF_flag /\ pc'[cpu] \in {"yield", "eoi", "spin_off"}
        BY <2>0, <2>7 DEF timer_interrupt_handler, Interruptible, IntLoc, Goto
      <3>2. iret[cpu] = "none" BY <2>0, <2>i, <3>1 DEF IntLoc, HereOK, FlagAt
      <3> QED BY <3>1, <3>2
    <2>8. CASE keyboard_interrupt_handler
      <3>1. /\ UNCHANGED <<lock, cpu>> /\ pc[cpu] \in IntLoc
            /\ UNCHANGED <<pc, iret>> \/ (iret'[cpu] = pc[cpu] /\ pc'[cpu] = "spin_off")
            /\ IF_flag
        BY <2>0, <2>8 DEF keyboard_interrupt_handler, Interruptible, IntLoc, Goto
      <3>2. iret[cpu] = "none" BY <2>0, <2>i, <3>1 DEF IntLoc, HereOK, FlagAt
      <3> QED BY <3>1, <3>2
    <2>9. CASE end_of_interrupt
      BY <2>0, <2>9 DEF end_of_interrupt, Goto, At
    <2>10. CASE YieldSwitches
      BY <2>10 DEF YieldSwitches
    <2>11. CASE YieldReturns
      <3>1. pc[cpu] = "resumed" BY <2>11 DEF YieldReturns, At
      <3> QED BY <3>1, <2>11 DEF YieldReturns
    <2>12. CASE EnterTask \/ PrintBegin \/ PrintEnd \/ BootJump \/ page_fault_handler
                  \/ \E t \in Task : CallYield(t)
      BY <2>12, <2>5, <2>i DEF EnterTask, PrintBegin, PrintEnd, BootJump, page_fault_handler,
                        CallYield, At
    <2>13. CASE PrintCalled \/ TaskReturns \/ panic
      BY <2>13, <2>5, <2>i DEF PrintCalled, TaskReturns, panic, SerialPrint, At
    <2>14. CASE YieldUnlocks \/ UnlockScheduler \/ terminate_current_task
                  \/ BootInitScheduler \/ BootAddTasks \/ BootCopyContext
      BY <2>14, <2>4 DEF YieldUnlocks, UnlockScheduler, terminate_current_task,
                         BootInitScheduler, BootAddTasks, BootCopyContext
    <2>15. CASE TimerFires \/ KeyPressed \/ UNCHANGED preVars
      BY <2>15, <2>6 DEF TimerFires, KeyPressed, preVars, machineVars
    <2> QED BY <2>1, <2>3, <2>7, <2>8, <2>9, <2>10, <2>11, <2>12, <2>13, <2>14, <2>15
            DEF PreNext, SwitchStep, OwnStep, BootStep, TaskStep
  <1>3. HolderRuns => SchedulerHeldOnCpu BY DEF HolderRuns, SchedulerHeldOnCpu
  <1> QED BY <1>1, <1>2, <1>3, PreInvariant, PTL DEF PreSpec

=============================================================================
