-------------------------------- MODULE Ipc --------------------------------
(***************************************************************************)
(* Message passing of src/src/ipc.rs between the tasks of main.rs: senders *)
(* (ipc_sender_main), a polling receiver (ipc_receiver_main) and callers   *)
(* of receive_message_blocking, on top of Scheduler.                       *)
(*                                                                         *)
(* cpu is the task whose code is executing; it need not be current_task,   *)
(* because block_current changes current_task without switching the CPU.   *)
(* context says whose registers a task's TaskContext holds, and live under *)
(* which name a task's latest registers were saved: what a switch restores *)
(* is good only if the two agree.  Restoring older registers, over a stack *)
(* that was used since, is undefined behaviour: cpu becomes None and the   *)
(* model ends there.  A step is a stretch of code under one lock; the      *)
(* stretches are atomic because the lock protects everything they touch.   *)
(***************************************************************************)
EXTENDS Scheduler

CONSTANTS
    Senders, Pollers, Blockers, \* what each task runs; the others only yield
    Starts,         \* the orders in which the tasks may have been added
    Endpoint,       \* the endpoint ids
    Creates,        \* the id each receiver passes to create_endpoint
    InitialCaps,    \* what the capabilities with id 1 of the tasks may be at first
    NoCap,          \* the CSpace has no such capability, or it is not an Endpoint
    Count,          \* messages a sender sends and a receiver waits for
    SetupYields,    \* yields of a sender before its first message
    LargeMsgs,      \* numbers of the messages longer than MAX_MESSAGE_SIZE
    MaxQueue,       \* max_queue_size
    Ticks,          \* does the timer preempt?
    Revocable       \* tasks whose capability may be revoked

ASSUME IpcAssumption ==
    /\ Senders \subseteq Task /\ Pollers \subseteq Task /\ Blockers \subseteq Task
    /\ Starts \subseteq Seq(Task) \ {<<>>}
    /\ \A start \in Starts :      \* every task is added, and once
          /\ \A t \in Task : \E i \in DOMAIN start : start[i] = t
          /\ \A i, j \in DOMAIN start : start[i] = start[j] => i = j
    /\ Count \in Nat /\ SetupYields \in Nat /\ MaxQueue \in Nat
    /\ Ticks \in BOOLEAN /\ Revocable \subseteq Task
    /\ Creates \in [Task -> Endpoint]
    /\ InitialCaps \subseteq [Task -> [ep : Endpoint, rights : SUBSET {"read", "write"}] \cup {NoCap}]

VARIABLES
    cpu,            \* the executing task, None once stale registers were restored
    context,        \* whose registers each TaskContext holds, None as Task::new left it
    live,           \* the name each task's latest registers are saved under, or None
    isr,            \* is a timer interrupt in service, not acknowledged by its EOI?
    in_service,     \* the task on whose stack that handler is, None if it was lost
    pc,             \* where each task's program is
    n,              \* the loop counter of each task
    cap,            \* the capability in each task's CSpace, or NoCap
    granted,        \* history: the capability each task was given
    id, snapshot,   \* what current_task_id and current_task_cspace returned
    created,        \* the endpoints in the registry
    messages,       \* IpcEndpoint.messages of each endpoint
    waiting_tasks,  \* IpcEndpoint.waiting_tasks of each endpoint
    registry,       \* holder of the IPC_REGISTRY mutex, or None
    waiters,        \* what take_waiters gave each sender, still to be unblocked
    sent, received, \* history: what each endpoint accepted and gave out, in order
    woken           \* history: the tasks unblock_task found Blocked

capVars == <<cap, granted>>
progVars == <<pc, n, id, snapshot, waiters>>
epVars == <<created, messages, waiting_tasks, registry>>
cpuVars == <<cpu, context, live, isr, in_service>>
histVars == <<sent, received, woken>>
ipcVars == <<schedVars, cpuVars, progVars, capVars, epVars, histVars>>

Message == [sender : Task, n : 0 .. Count]

Location == {"new", "setup", "ident", "cspace", "send", "waking", "sent", "create",
             "poll", "register", "block", "idle"}

(* After test_scheduler: every task added, the first one scheduled and     *)
(* jumped to with a copy of its context.                                   *)
IpcInit ==
    /\ \E start \in Starts :
          /\ tasks = [t \in Task |-> IF t = Head(start) THEN "Running" ELSE "Ready"]
          /\ current_task = Head(start)
          /\ ready_queue = Append(Tail(start), Head(start))
          /\ cpu = Head(start)
    /\ isr = FALSE /\ in_service = None
    /\ context = [t \in Task |-> None] /\ live = [t \in Task |-> None]
    /\ pc = [t \in Task |-> "new"]
    /\ n = [t \in Task |-> 0] /\ id = [t \in Task |-> None]
    /\ cap \in InitialCaps /\ granted = cap
    /\ snapshot = [t \in Task |-> NoCap]
    /\ created = {}
    /\ messages = [e \in Endpoint |-> <<>>] /\ waiting_tasks = [e \in Endpoint |-> <<>>]
    /\ registry = None
    /\ waiters = [t \in Task |-> <<>>]
    /\ sent = [e \in Endpoint |-> <<>>] /\ received = [e \in Endpoint |-> <<>>]
    /\ woken = {}

At(loc) == cpu # None /\ pc[cpu] = loc

Goto(loc) == pc' = [pc EXCEPT ![cpu] = loc]

May(right) == snapshot[cpu] # NoCap /\ right \in snapshot[cpu].rights

(* target_endpoint_id, and whether get_endpoint_mut finds it. *)
Target == snapshot[cpu].ep

Found == Target \in created

-----------------------------------------------------------------------------
(* switch_context: save the registers of the executing task in the current *)
(* task's TaskContext and restore the chosen one's.  Task::new's registers *)
(* start the task at its entry, whatever its stack was in use for; others  *)
(* continue the task they belong to, if they are its latest.               *)
Switching == current_task # None /\ ScheduleReturns \notin {None, current_task}

Resumed ==
    LET saved == context[ScheduleReturns]
    IN  IF saved = None THEN ScheduleReturns
        ELSE IF live[saved] = ScheduleReturns THEN saved ELSE None

Restarts(t) == Switching /\ t = ScheduleReturns /\ context[t] = None

SaveUnder(name) ==
    /\ context' = [context EXCEPT ![name] = cpu]
    /\ live' = [t \in Task |-> IF t = Resumed THEN None
                               ELSE IF t = cpu THEN name ELSE live[t]]
    /\ cpu' = Resumed

(* Mutant: the registers go to the TaskContext of the chosen task. *)
MutSavesUnderNext == SaveUnder(ScheduleReturns)

SwitchContext == SaveUnder(current_task)

(* task_yield from the executing code, which goes on at loc. *)
task_yield(loc) ==
    /\ IF current_task = None THEN UNCHANGED schedVars ELSE schedule
    /\ IF Switching THEN SwitchContext ELSE UNCHANGED <<cpu, context, live>>
    /\ pc' = [t \in Task |-> IF Restarts(t) THEN "new" ELSE IF t = cpu THEN loc ELSE pc[t]]

(* The timer preempts the executing code.  The handler yields before its   *)
(* EOI, so there is no further tick until the preempted code is back; it   *)
(* never is if it is the preempted task itself that is started again.      *)
Tick ==
    /\ Ticks /\ cpu # None /\ ~isr
    /\ task_yield(pc[cpu])
    /\ isr' = Switching
    /\ in_service' = IF Switching /\ ~Restarts(cpu) THEN cpu ELSE None
    /\ UNCHANGED <<n, id, snapshot, waiters, capVars, epVars, histVars>>

(* A yield in a task's program, which then goes on at loc.  The EOI comes  *)
(* when the handler's stack is switched back to, unless its task was       *)
(* started again on that stack.                                            *)
YieldTo(loc) ==
    /\ task_yield(loc)
    /\ isr' = (isr /\ ~(Switching /\ cpu' # None /\ cpu' = in_service /\ ~Restarts(cpu')))
    /\ in_service' = IF Switching /\ cpu' = in_service THEN None ELSE in_service
    /\ UNCHANGED <<id, snapshot, waiters, capVars, epVars, histVars>>

Alone == UNCHANGED <<schedVars, cpuVars>>

(* Finish the current operation of the program at loc. *)
Then(loc) == Alone /\ Goto(loc)

-----------------------------------------------------------------------------
(* task_entry_wrapper calls the entry point of the task's program. *)
Entry == IF cpu \in Senders THEN "setup"
         ELSE IF cpu \in Pollers \cup Blockers THEN "ident" ELSE "idle"

Enter ==
    /\ At("new")
    /\ n' = [n EXCEPT ![cpu] = 0]
    /\ id' = [id EXCEPT ![cpu] = None] /\ snapshot' = [snapshot EXCEPT ![cpu] = NoCap]
    /\ waiters' = [waiters EXCEPT ![cpu] = <<>>]
    /\ Then(Entry)
    /\ UNCHANGED <<capVars, epVars, histVars>>

(* ipc_sender_main: SetupYields yields, the task's id and CSpace snapshot, *)
(* then Count times send_message and a yield, whatever the result; then    *)
(* idle.                                                                   *)
SenderSetup ==
    /\ At("setup") /\ n[cpu] < SetupYields
    /\ n' = [n EXCEPT ![cpu] = @ + 1]
    /\ YieldTo("setup")

(* current_task_id and current_task_cspace, of senders and receivers: each *)
(* locks SCHEDULER.                                                        *)
GetId ==
    /\ At("ident") \/ (At("setup") /\ n[cpu] = SetupYields)
    /\ id' = [id EXCEPT ![cpu] = current_task]
    /\ Then("cspace")
    /\ UNCHANGED <<n, snapshot, waiters, capVars, epVars, histVars>>

GetCSpace ==
    /\ At("cspace")
    /\ snapshot' = [snapshot EXCEPT ![cpu] = cap[current_task]]
    /\ n' = [n EXCEPT ![cpu] = 0]
    /\ Then(IF cpu \in Senders THEN "send" ELSE "create")
    /\ UNCHANGED <<id, waiters, capVars, epVars, histVars>>

NextMessage == [sender |-> id[cpu], n |-> n[cpu]]

(* Mutant: any right will do. *)
MutAcceptsAnyRight ==
    /\ snapshot[cpu] # NoCap /\ Found
    /\ n[cpu] \notin LargeMsgs
    /\ Len(messages[Target]) < MaxQueue

(* send_message up to the wake-ups.  Refused: PermissionDenied before the  *)
(* lock, EndpointNotFound, MessageTooLarge or QueueFull under it.          *)
SendAccepted ==
    /\ May("write") /\ Found
    /\ n[cpu] \notin LargeMsgs
    /\ Len(messages[Target]) < MaxQueue

SendRefused ==
    /\ At("send")
    /\ May("write") => registry = None
    /\ ~SendAccepted
    /\ Then("sent")
    /\ UNCHANGED <<n, id, snapshot, waiters, capVars, epVars, histVars>>

SendInto(queue) ==
    /\ At("send") /\ registry = None
    /\ SendAccepted
    /\ messages' = [messages EXCEPT ![Target] = queue]
    /\ sent' = [sent EXCEPT ![Target] = Append(@, NextMessage)]
    /\ waiters' = [waiters EXCEPT ![cpu] = waiting_tasks[Target]]
    /\ waiting_tasks' = [waiting_tasks EXCEPT ![Target] = <<>>]
    /\ registry' = cpu
    /\ Then("waking")
    /\ UNCHANGED <<n, id, snapshot, capVars, created, received, woken>>

(* Mutant: the sender is not filled in. *)
MutNoSender == SendInto(Append(messages[Target], [NextMessage EXCEPT !.sender = None]))

(* IpcEndpoint::send and take_waiters, under the registry lock. *)
SendQueued == SendInto(Append(messages[Target], NextMessage))

(* One turn of the wake-up loop: SCHEDULER is locked for one unblock_task. *)
SendWake ==
    /\ At("waking") /\ waiters[cpu] # <<>>
    /\ LET t == Head(waiters[cpu])
       IN  IF tasks[t] = "Blocked"
           THEN unblock_task(t) /\ woken' = woken \cup {t}
           ELSE UNCHANGED <<schedVars, woken>>
    /\ waiters' = [waiters EXCEPT ![cpu] = Tail(@)]
    /\ UNCHANGED <<cpuVars, pc, n, id, snapshot, capVars, epVars, sent, received>>

(* send_message returns: only now is the registry guard dropped. *)
SendDone ==
    /\ At("waking") /\ waiters[cpu] = <<>>
    /\ registry' = None
    /\ Then("sent")
    /\ UNCHANGED <<n, id, snapshot, waiters, capVars, created, messages, waiting_tasks,
                   histVars>>

SenderYields ==
    /\ At("sent")
    /\ n' = [n EXCEPT ![cpu] = @ + 1]
    /\ YieldTo(IF n[cpu] + 1 < Count THEN "send" ELSE "idle")

-----------------------------------------------------------------------------
(* The receivers: after the snapshot create_endpoint (a second endpoint    *)
(* with the same id is never found), then the receive loop.                *)
CreateEndpoint ==
    /\ At("create") /\ registry = None
    /\ created' = created \cup {Creates[cpu]}
    /\ Then("poll")
    /\ UNCHANGED <<n, id, snapshot, waiters, capVars, messages, waiting_tasks, registry,
                   histVars>>

(* try_receive_message: a message, none, or an error. *)
MayTry == May("read") /\ Found

TryFinds(some) == MayTry /\ registry = None /\ (messages[Target] # <<>>) = some

TryFails == ~May("read") \/ (May("read") /\ registry = None /\ ~Found)

TakeMessage ==
    /\ TryFinds(TRUE)
    /\ received' = [received EXCEPT ![Target] = Append(@, Head(messages[Target]))]
    /\ messages' = [messages EXCEPT ![Target] = Tail(@)]
    /\ n' = [n EXCEPT ![cpu] = @ + 1]
    /\ UNCHANGED <<id, snapshot, waiters, capVars, created, waiting_tasks, registry, sent, woken>>

PollTakes ==
    /\ At("poll") /\ cpu \in Pollers /\ n[cpu] < Count
    /\ TakeMessage
    /\ Then(IF n[cpu] + 1 < Count THEN "poll" ELSE "idle")

(* Mutant: polls without yielding. *)
MutPollSpins ==
    /\ At("poll") /\ cpu \in Pollers /\ n[cpu] < Count
    /\ UNCHANGED ipcVars

(* ipc_receiver_main yields on Ok(None) and on an error. *)
PollYields ==
    /\ At("poll") /\ cpu \in Pollers /\ n[cpu] < Count
    /\ TryFinds(FALSE) \/ TryFails
    /\ UNCHANGED n
    /\ YieldTo("poll")

(* receive_message_blocking: a message, or an error that ends the call. *)
BlockingTakes ==
    /\ At("poll") /\ cpu \in Blockers /\ n[cpu] < Count
    /\ TakeMessage
    /\ Then(IF n[cpu] + 1 < Count THEN "poll" ELSE "idle")

BlockingDenied ==
    /\ At("poll") /\ cpu \in Blockers
    /\ TryFails
    /\ Then("idle")
    /\ UNCHANGED <<n, id, snapshot, waiters, capVars, epVars, histVars>>

Listed(t, list) == \E i \in DOMAIN list : list[i] = t

(* No message: the registry is unlocked and locked again for add_waiter ... *)
BlockingEmpty ==
    /\ At("poll") /\ cpu \in Blockers
    /\ TryFinds(FALSE)
    /\ Then("register")
    /\ UNCHANGED <<n, id, snapshot, waiters, capVars, epVars, histVars>>

BlockingRegisters ==
    /\ At("register") /\ registry = None
    /\ waiting_tasks' = [waiting_tasks EXCEPT ![Target] =
                            IF Listed(id[cpu], @) THEN @ ELSE Append(@, id[cpu])]
    /\ Then("block")
    /\ UNCHANGED <<n, id, snapshot, waiters, capVars, created, messages, registry, histVars>>

(* ... and unlocked again before block_current, which does not switch the  *)
(* CPU: the caller goes round the loop.                                    *)
BlockingBlocks ==
    /\ At("block")
    /\ IF current_task = None THEN UNCHANGED schedVars ELSE block_current
    /\ Goto("poll")
    /\ UNCHANGED <<cpuVars, n, id, snapshot, waiters, capVars, epVars, histVars>>

(* Every program ends in a loop of yields. *)
Idle ==
    /\ At("idle")
    /\ UNCHANGED n
    /\ YieldTo("idle")

(* CSpace::revoke on a task's CSpace by kernel code. *)
Revoke(t) ==
    /\ t \in Revocable /\ cap[t] # NoCap
    /\ cap' = [cap EXCEPT ![t] = NoCap]
    /\ UNCHANGED <<schedVars, cpuVars, progVars, granted, epVars, histVars>>

-----------------------------------------------------------------------------
SendStep ==
    \/ SenderSetup \/ SendRefused \/ SendQueued
    \/ SendWake \/ SendDone \/ SenderYields

ReceiveStep ==
    \/ CreateEndpoint \/ PollTakes \/ PollYields
    \/ BlockingTakes \/ BlockingDenied \/ BlockingEmpty
    \/ BlockingRegisters \/ BlockingBlocks

ProgramStep == Enter \/ GetId \/ GetCSpace \/ SendStep \/ ReceiveStep \/ Idle

IpcNext == ProgramStep \/ Tick \/ \E t \in Task : Revoke(t)

IpcSpec == IpcInit /\ [][IpcNext]_ipcVars

(* The CPU executes the program it is on, and a tick leaves a task 10 ms   *)
(* for the next stretch of its code: strong fairness for each task.  The   *)
(* PIT is periodic, so a task that spins on a lock is preempted: weak      *)
(* fairness of Tick (without ticks it promises nothing).                   *)
FairIpcSpec ==
    /\ IpcSpec
    /\ WF_ipcVars(Tick)
    /\ \A t \in Task : SF_ipcVars(cpu = t /\ ProgramStep)

-----------------------------------------------------------------------------
(* Type invariant of the message-passing state. *)
IpcTypeOK ==
    /\ SchedTypeOK
    /\ cpu \in Task \cup {None} /\ context \in [Task -> Task \cup {None}]
    /\ live \in [Task -> Task \cup {None}]
    /\ isr \in BOOLEAN /\ in_service \in Task \cup {None}
    /\ pc \in [Task -> Location]
    /\ n \in [Task -> Nat] /\ id \in [Task -> Task \cup {None}]
    /\ created \subseteq Endpoint /\ registry \in Task \cup {None}
    /\ messages \in [Endpoint -> Seq(Message)]
    /\ waiting_tasks \in [Endpoint -> Seq(Task)]
    /\ waiters \in [Task -> Seq(Task)] /\ woken \subseteq Task

(* The messages of the tasks that were given the write right for e. *)
Writable(e) ==
    {m \in Message : LET c == granted[m.sender]
                     IN  c # NoCap /\ c.ep = e /\ "write" \in c.rights}

(* The endpoints implement a mailbox that loses nothing: every accepted    *)
(* message comes from a task that was given the write right for the        *)
(* endpoint, enters that endpoint's bounded queue and no other, and is     *)
(* received exactly once and in order, whoever sends, receives and         *)
(* preempts whom, and whichever receiver is started again after a wake-up. *)
(* Nothing is promised once a stale context was restored (cpu = None).     *)
Boxes == INSTANCE Mailbox WITH
    Owner <- Endpoint,
    Msg <- Message,
    allowed <- [e \in Endpoint |-> Writable(e)],
    Capacity <- MaxQueue,
    Lossy <- FALSE,
    box <- messages,
    used <- UNION {{sent[e][i] : i \in DOMAIN sent[e]} : e \in Endpoint},
    taken <- received,
    dropped <- {}

ImplementsMailbox == Boxes!MailSpec

(* Stale registers are restored only after send_message has woken a        *)
(* blocked receiver: yields, ticks and block_current, which leaves its     *)
(* caller running under another task's name, never lead there by           *)
(* themselves.                                                             *)
IntactUntilWoken == cpu = None => woken # {}

(* "When we wake up" (receive_message_blocking): what a switch restores is *)
(* always the latest state of a task.                                      *)
ResumesIntact == cpu # None

(* The registry lock, held across the wake-ups of send_message and across  *)
(* ticks, is always released again.                                        *)
RegistryIsReleased == (registry # None) ~> (registry = None)

(* The demo of main.rs ends: a polling receiver gets its Count messages. *)
DemoCompletes == \A t \in Pollers : <>(pc[t] = "idle")

(* A task becomes Blocked only by its own call of                          *)
(* receive_message_blocking.                                               *)
OnlySelfBlocks ==
    [][\A t \in Task :
          tasks[t] # "Blocked" /\ tasks'[t] = "Blocked" => cpu = t]_ipcVars

(* A task blocked in receive_message_blocking while a message waits is     *)
(* still on a list from which it will be woken up.                         *)
NoLostWakeup ==
    \A t \in Blockers :
        tasks[t] = "Blocked" /\ messages[Creates[t]] # <<>>
            => \/ Listed(t, waiting_tasks[Creates[t]])
               \/ \E s \in Task : Listed(t, waiters[s])

(* A blocking receive that began before a revocation does not succeed      *)
(* after it.                                                               *)
RevocationHonoured ==
    [][received' # received /\ cpu \in Blockers => cap[cpu] # NoCap]_ipcVars

(* send_message holds no registry lock when it locks the scheduler. *)
RegistryDroppedFirst ==
    At("waking") /\ waiters[cpu] # <<>> => registry # cpu

=============================================================================
