------------------------------ MODULE WasmIpc ------------------------------
(***************************************************************************)
(* The message queue between WebAssembly guests, src/src/wasm_runtime.rs:  *)
(* the host functions a guest calls while it runs (subscribe, publish,     *)
(* ipc_send), and deliver_pending_messages, with which the kernel hands    *)
(* queued messages to a guest.  Delivery calls the guest twice for each    *)
(* message, and the guest may call host functions from inside those calls: *)
(* the queue changes under the loop.                                       *)
(*                                                                         *)
(* A guest is named by the client id it was initialised with, which is     *)
(* also the endpoint that messages for it are sent to.  A message is its   *)
(* destination and the number of the publish or send that made it.         *)
(***************************************************************************)
EXTENDS Integers, Sequences, FiniteSets

CONSTANTS
    Client,         \* the guests
    Nobody,         \* no guest, no message
    MaxDepth,       \* MAX_IPC_QUEUE_DEPTH
    MaxMsgs,        \* bound on the number of publishes and sends
    MaxCaps,        \* bound on the capabilities granted to one guest
    Grantable,      \* the capabilities the kernel grants to each guest
    Callbacks       \* calls from deliver_pending_messages in which the guest
                    \* itself calls host functions

(* Capabilities of type Endpoint; the other types are never looked up. *)
EndpointCap == [endpoint : Client, write : BOOLEAN]

Msg == [dest : Client, num : 1 .. MaxMsgs]

ASSUME WasmAssumption ==
    /\ Nobody \notin Client \cup Msg
    /\ MaxDepth \in Nat \ {0} /\ MaxMsgs \in Nat /\ MaxCaps \in Nat
    /\ Grantable \in [Client -> SUBSET EndpointCap]
    /\ Callbacks \subseteq {"allocating", "receiving"}

(* What a guest may pass as the (pointer, length) pair of a message, as    *)
(* publish and send tell it apart: a length that is negative or over the   *)
(* limit is "too_large", and a sum that overflows is out of bounds.        *)
Input == {"ok", "too_large", "no_memory", "out_of_bounds"}

(* The pair of a topic, as subscribe tells it apart: it adds without a     *)
(* check, so that the sum of a sign-extended negative number may wrap.     *)
TopicInput == {"ok", "no_memory", "out_of_bounds", "wraps"}

VARIABLES
    queue,          \* IPC_MESSAGE_QUEUE
    subscribers,    \* MQTT_SUBSCRIBERS
    capabilities,   \* WasmContext.capabilities of each guest, in order
    phase,          \* what the kernel is doing, see Phase
    guest,          \* the guest being called or delivered to, or Nobody
    ipc_msg,        \* the message taken off the queue by the loop, or Nobody
    delivered,      \* the counter of the loop
    last,           \* what the running guest's last host call returned, and how
                    \* many messages it queued
    num,            \* history: number of the next publish or send
    arrived,        \* history: what each guest's subscriber_receive accepted
    lost            \* history: messages given up or cleared

wasmVars == <<queue, subscribers, capabilities, phase, guest, ipc_msg, delivered,
              last, num, arrived, lost>>

loopVars == <<phase, guest, ipc_msg, delivered>>

(* "idle": kernel code; "calling": in call_function; "taking": at the top  *)
(* of the delivery loop; "allocating", "receiving": in the guest's         *)
(* allocate_message_buffer or subscriber_receive; "writing": in between;   *)
(* "panicked": in the panic handler, which halts.                          *)
Phase == {"idle", "calling", "taking", "allocating", "writing", "receiving", "panicked"}

NoCall == [op |-> "none", value |-> 0, queued |-> 0]

WasmInit ==
    /\ queue = <<>> /\ subscribers = <<>>
    /\ capabilities = [m \in Client |-> <<>>]
    /\ phase = "idle" /\ guest = Nobody /\ ipc_msg = Nobody /\ delivered = 0
    /\ last = NoCall
    /\ num = 1
    /\ arrived = [m \in Client |-> <<>>]
    /\ lost = {}

In(s, x) == \E i \in DOMAIN s : s[i] = x

For(c) == {i \in DOMAIN queue : queue[i].dest = c}

FirstOf(set) == CHOOSE i \in set : \A j \in set : i <= j

Returns(op, value, queued) == last' = [op |-> op, value |-> value, queued |-> queued]

-----------------------------------------------------------------------------
(* Kernel code between calls: grant_capability, call_function and its      *)
(* return, clear_ipc_queue.                                                *)
grant_capability(m, cap) ==
    /\ phase = "idle" /\ Len(capabilities[m]) < MaxCaps
    /\ capabilities' = [capabilities EXCEPT ![m] = Append(@, cap)]
    /\ UNCHANGED <<queue, subscribers, loopVars, last, num, arrived, lost>>

call_function(m) ==
    /\ phase = "idle"
    /\ phase' = "calling" /\ guest' = m
    /\ UNCHANGED <<queue, subscribers, capabilities, ipc_msg, delivered, last, num,
                   arrived, lost>>

GuestReturns ==
    /\ phase = "calling"
    /\ phase' = "idle" /\ guest' = Nobody /\ last' = NoCall
    /\ UNCHANGED <<queue, subscribers, capabilities, ipc_msg, delivered, num,
                   arrived, lost>>

clear_ipc_queue ==
    /\ phase = "idle" /\ queue # <<>>
    /\ lost' = lost \cup {queue[i] : i \in DOMAIN queue}
    /\ queue' = <<>>
    /\ UNCHANGED <<subscribers, capabilities, loopVars, last, num, arrived>>

-----------------------------------------------------------------------------
(* Host functions, called by the guest that is running. *)
GuestRuns == phase = "calling" \/ phase \in Callbacks

(* The range of a topic wraps: the addition panics in a debug build, and   *)
(* slicing the memory with an end before the start in any other.           *)
(* host_sys_print, which keeps no state, panics in the same way.           *)
TopicPanics(input) ==
    /\ GuestRuns /\ input = "wraps"
    /\ phase' = "panicked"
    /\ UNCHANGED <<queue, subscribers, capabilities, guest, ipc_msg, delivered, last,
                   num, arrived, lost>>

(* The client id is an argument: a guest subscribes whom it names. *)
Subscribe(c, input) ==
    /\ GuestRuns /\ input # "wraps"
    /\ IF input = "ok"
       THEN /\ subscribers' = IF In(subscribers, c) THEN subscribers
                              ELSE Append(subscribers, c)
            /\ Returns("subscribe", 0, 0)
       ELSE UNCHANGED subscribers /\ Returns("subscribe", -1, 0)
    /\ UNCHANGED <<queue, capabilities, loopVars, num, arrived, lost>>

host_sys_mqtt_subscribe(c, input) == TopicPanics(input) \/ Subscribe(c, input)

(* Mutant: publish does not look at the depth. *)
MutReachesAll == Len(subscribers)

(* How many subscribers the loop of publish reaches before the queue is    *)
(* full (it may be over full already).                                     *)
Reached ==
    LET room == IF Len(queue) >= MaxDepth THEN 0 ELSE MaxDepth - Len(queue)
    IN  IF Len(subscribers) <= room THEN Len(subscribers) ELSE room

(* host_sys_mqtt_publish: one message for each subscriber while there is   *)
(* room; the result counts every subscriber.                               *)
PublishRefused(input) ==
    /\ GuestRuns /\ input # "ok"
    /\ Returns("publish",
               CASE input = "too_large" -> -4
                 [] input = "no_memory" -> -1
                 [] input = "out_of_bounds" -> -3, 0)
    /\ UNCHANGED <<queue, subscribers, capabilities, loopVars, num, arrived, lost>>

(* Mutant: the position in the registry instead of the client id. *)
MutPublishedIndex == [i \in 1 .. Reached |-> [dest |-> i, num |-> num]]

Published == [i \in 1 .. Reached |-> [dest |-> subscribers[i], num |-> num]]

Publish ==
    /\ GuestRuns /\ num <= MaxMsgs
    /\ queue' = queue \o Published
    /\ num' = num + 1
    /\ Returns("publish", Len(subscribers), Reached)
    /\ UNCHANGED <<subscribers, capabilities, loopVars, arrived, lost>>

host_sys_mqtt_publish(input) == PublishRefused(input) \/ (input = "ok" /\ Publish)

(* WasmContext::find_capability: the first match decides. *)
Matching(m, dest) == {i \in DOMAIN capabilities[m] : capabilities[m][i].endpoint = dest}

find_capability(m, dest) == capabilities[m][FirstOf(Matching(m, dest))]

(* Mutant: the write right is not checked. *)
MutSendAnyRight(m, dest, input) ==
    IF input = "too_large" THEN -4
    ELSE IF Matching(m, dest) = {} THEN -1
    ELSE IF input # "ok" THEN -3
    ELSE IF Len(queue) >= MaxDepth THEN -5
    ELSE 0

(* The early returns of host_sys_ipc_send in their order; 0: none taken. *)
SendRefusal(m, dest, input) ==
    IF input = "too_large" THEN -4
    ELSE IF Matching(m, dest) = {} THEN -1
    ELSE IF ~find_capability(m, dest).write THEN -2
    ELSE IF input # "ok" THEN -3
    ELSE IF Len(queue) >= MaxDepth THEN -5
    ELSE 0

SendRefused(dest, input) ==
    /\ GuestRuns /\ SendRefusal(guest, dest, input) # 0
    /\ Returns("send", SendRefusal(guest, dest, input), 0)
    /\ UNCHANGED <<queue, subscribers, capabilities, loopVars, num, arrived, lost>>

SendQueued(dest, input) ==
    /\ GuestRuns /\ SendRefusal(guest, dest, input) = 0
    /\ num <= MaxMsgs
    /\ queue' = Append(queue, [dest |-> dest, num |-> num])
    /\ num' = num + 1
    /\ Returns("send", 0, 1)
    /\ UNCHANGED <<subscribers, capabilities, loopVars, arrived, lost>>

host_sys_ipc_send(dest, input) == SendRefused(dest, input) \/ SendQueued(dest, input)

-----------------------------------------------------------------------------
(* deliver_pending_messages(subscriber, client_id), one step for each      *)
(* stretch between calls of the guest.                                     *)
deliver_pending_messages(c) ==
    /\ phase = "idle"
    /\ phase' = "taking" /\ guest' = c
    /\ UNCHANGED <<queue, subscribers, capabilities, ipc_msg, delivered, last, num, arrived, lost>>

Without(q, k) == [i \in 1 .. Len(q) - 1 |-> IF i < k THEN q[i] ELSE q[i + 1]]

(* Mutant: the newest message for the client is taken. *)
MutTakeLast ==
    /\ phase = "taking" /\ For(guest) # {}
    /\ LET pos == CHOOSE i \in For(guest) : \A j \in For(guest) : j <= i
       IN  ipc_msg' = queue[pos] /\ queue' = Without(queue, pos)
    /\ phase' = "allocating"
    /\ UNCHANGED <<subscribers, capabilities, guest, delivered, last, num, arrived, lost>>

(* The first message for the client leaves the queue, and the guest is     *)
(* asked for a buffer.                                                     *)
TakeFirst ==
    /\ phase = "taking" /\ For(guest) # {}
    /\ LET pos == FirstOf(For(guest))
       IN  ipc_msg' = queue[pos] /\ queue' = Without(queue, pos)
    /\ phase' = "allocating"
    /\ UNCHANGED <<subscribers, capabilities, guest, delivered, last, num, arrived, lost>>

LoopEnds ==
    /\ phase' = "idle" /\ guest' = Nobody /\ ipc_msg' = Nobody
    /\ delivered' = 0 /\ last' = NoCall
    /\ UNCHANGED <<subscribers, capabilities, num, arrived>>

NothingLeft ==
    /\ phase = "taking" /\ For(guest) = {}
    /\ LoopEnds
    /\ UNCHANGED <<queue, lost>>

BufferReturned ==
    /\ phase = "allocating"
    /\ phase' = "writing" /\ last' = NoCall
    /\ UNCHANGED <<queue, subscribers, capabilities, guest, ipc_msg, delivered,
                   num, arrived, lost>>

(* Mutant: the message is put back and the loop goes on. *)
MutRequeueGoesOn ==
    /\ phase = "allocating"
    /\ queue' = <<ipc_msg>> \o queue
    /\ phase' = "taking" /\ ipc_msg' = Nobody /\ last' = NoCall
    /\ UNCHANGED <<subscribers, capabilities, guest, delivered, num, arrived, lost>>

(* No buffer function, or it trapped: the message goes back to the front.  *)
BufferFails ==
    /\ phase = "allocating"
    /\ queue' = <<ipc_msg>> \o queue
    /\ LoopEnds
    /\ UNCHANGED lost

(* The message is given up and the loop goes on: a null pointer or a wrong *)
(* type, a buffer out of bounds, or subscriber_receive trapped.            *)
GiveUp ==
    /\ phase \in {"allocating", "writing", "receiving"}
    /\ lost' = lost \cup {ipc_msg}
    /\ phase' = "taking" /\ ipc_msg' = Nobody /\ last' = NoCall
    /\ UNCHANGED <<queue, subscribers, capabilities, guest, delivered, num, arrived>>

NoMemoryExport ==
    /\ phase = "writing"
    /\ lost' = lost \cup {ipc_msg}
    /\ LoopEnds
    /\ UNCHANGED queue

MessageWritten ==
    /\ phase = "writing"
    /\ phase' = "receiving"
    /\ UNCHANGED <<queue, subscribers, capabilities, guest, ipc_msg, delivered, last,
                   num, arrived, lost>>

Received ==
    /\ phase = "receiving"
    /\ arrived' = [arrived EXCEPT ![guest] = Append(@, ipc_msg)]
    /\ delivered' = delivered + 1
    /\ phase' = "taking" /\ ipc_msg' = Nobody /\ last' = NoCall
    /\ UNCHANGED <<queue, subscribers, capabilities, guest, num, lost>>

-----------------------------------------------------------------------------
LoopStep ==
    \/ TakeFirst \/ NothingLeft \/ BufferReturned \/ BufferFails \/ GiveUp
    \/ NoMemoryExport \/ MessageWritten \/ Received

HostStep ==
    \/ \E input \in TopicInput, c \in Client : host_sys_mqtt_subscribe(c, input)
    \/ \E input \in Input : \/ host_sys_mqtt_publish(input)
                           \/ \E c \in Client : host_sys_ipc_send(c, input)

KernelStep ==
    \/ \E m \in Client : \/ \E cap \in Grantable[m] : grant_capability(m, cap)
                         \/ call_function(m) \/ deliver_pending_messages(m)
    \/ GuestReturns
    \/ clear_ipc_queue

WasmNext == KernelStep \/ HostStep \/ LoopStep

WasmSpec == WasmInit /\ [][WasmNext]_wasmVars

(* The kernel thread goes on with the loop once the guest has returned,    *)
(* and a guest returns or traps.                                           *)
FairWasmSpec == WasmSpec /\ WF_wasmVars(LoopStep)

-----------------------------------------------------------------------------
(* Type invariant of the queue, the registry and the delivery loop. *)
WasmTypeOK ==
    /\ queue \in Seq(Msg) /\ subscribers \in Seq(Client)
    /\ capabilities \in [Client -> Seq(EndpointCap)]
    /\ phase \in Phase /\ guest \in Client \cup {Nobody}
    /\ ipc_msg \in Msg \cup {Nobody}
    /\ delivered \in Nat /\ num \in 1 .. MaxMsgs + 1
    /\ arrived \in [Client -> Seq(Msg)] /\ lost \subseteq Msg

(* The messages of q for client c, in order (a recursive function rather   *)
(* than SelectSeq, so that it can be reasoned about).                      *)
MessagesFor(q, c) ==
    LET upto[n \in 0 .. Len(q)] ==
            IF n = 0 THEN <<>>
            ELSE IF q[n].dest = c THEN Append(upto[n - 1], q[n]) ELSE upto[n - 1]
    IN  upto[Len(q)]

(* What waits for client c, oldest first: the message the loop holds, then *)
(* the queued ones.  A message in the loop's hands has not left the box,   *)
(* so that putting it back is no step of the mailbox.                      *)
Waiting(c) ==
    LET held == IF ipc_msg # Nobody /\ ipc_msg.dest = c THEN <<ipc_msg>> ELSE <<>>
    IN  held \o MessagesFor(queue, c)

Numbers(ms) == [i \in DOMAIN ms |-> ms[i].num]

(* The queue and the delivery loop implement a lossy mailbox with one box  *)
(* for each guest: a guest gets what was published or sent to it at most   *)
(* once and in order, although delivery removes from the middle of the     *)
(* queue, puts back at the front and guests queue more meanwhile; and only *)
(* a failure of the guest itself or a clear loses a message.               *)
Boxes == INSTANCE Mailbox WITH
    Owner <- Client,
    Msg <- 1 .. MaxMsgs,
    allowed <- [c \in Client |-> 1 .. MaxMsgs],
    Capacity <- MaxDepth + 1,
    Lossy <- TRUE,
    box <- [c \in Client |-> Numbers(Waiting(c))],
    used <- 1 .. num - 1,
    taken <- [c \in Client |-> Numbers(arrived[c])],
    dropped <- {<<m.dest, m.num>> : m \in lost}

ImplementsMailbox == Boxes!MailSpec

(* The queue and the message in the loop's hands never hold more than      *)
(* MAX_IPC_QUEUE_DEPTH + 1 messages, whatever guests do inside delivery.   *)
QueueNearlyBounded ==
    Len(queue) + Cardinality({ipc_msg} \ {Nobody}) <= MaxDepth + 1

(* A message sent with sys_ipc_send came from a guest that holds the write *)
(* right for its destination.                                              *)
SendNeedsWrite ==
    [][last'.op = "send" /\ last'.value = 0 /\ num' # num
          => \E i \in DOMAIN capabilities[guest] :
                capabilities[guest][i] = [endpoint |-> queue'[Len(queue')].dest,
                                          write |-> TRUE]]_wasmVars

(* A delivery comes to an end unless somebody queues another message       *)
(* meanwhile, whichever messages are given up or put back.  More cannot be *)
(* said: a guest that queues itself a message from every                   *)
(* subscriber_receive keeps the loop going for ever.                       *)
DeliveryEnds ==
    \A k \in 1 .. MaxMsgs + 1 :
        (phase \in {"taking", "allocating", "writing", "receiving"} /\ num = k)
            ~> (phase \in {"idle", "panicked"} \/ num # k)

(* The queue depth is limited to MAX_IPC_QUEUE_DEPTH. *)
QueueDepthLimited == Len(queue) <= MaxDepth

(* A publish that is cut short by a full queue returns the partial count. *)
PublishCountsQueued ==
    last.op = "publish" /\ last.value >= 0 => last.value = last.queued

=============================================================================
