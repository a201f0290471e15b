----------------------------- MODULE WasmProofs -----------------------------
(***************************************************************************)
(* The safety of WasmIpc for every set of guests, every queue depth, every *)
(* assignment of capabilities and every place where a guest may call the   *)
(* host from inside a delivery: its inductive invariant WasmIInv, and the  *)
(* refinement of Mailbox.                                                  *)
(***************************************************************************)
EXTENDS WasmIpc, LeastNumber, FiniteSetTheorems, SequenceTheorems

(* Unless the kernel has panicked, the delivery loop holds a message       *)
(* exactly between taking it and its end; the message is for the guest it  *)
(* delivers to; code runs for a guest except in the kernel.                *)
LoopHolds ==
    /\ phase # "idle" => guest \in Client
    /\ phase \in {"allocating", "writing", "receiving"} => ipc_msg # Nobody
    /\ phase \in {"idle", "calling", "taking"} => ipc_msg = Nobody
    /\ ipc_msg # Nobody => ipc_msg.dest = guest

(* A client subscribes once. *)
SubscribedOnce ==
    \A i, j \in 1 .. Len(subscribers) : subscribers[i] = subscribers[j] => i = j

(* With one message in the loop's hands the queue may fill up again; what  *)
(* is put back makes it one too long.                                      *)
OneOver == Len(queue) + (IF ipc_msg = Nobody THEN 0 ELSE 1) <= MaxDepth + 1

WasmIInv == WasmTypeOK /\ LoopHolds /\ SubscribedOnce /\ OneOver

(* WasmAssumption in the form the proofs use. *)
LEMMA WasmConstants ==
    /\ Nobody \notin Client /\ Nobody \notin Msg
    /\ MaxDepth \in Nat /\ MaxDepth > 0 /\ MaxMsgs \in Nat
    /\ Callbacks \subseteq {"allocating", "receiving"}
    /\ \A m \in Client : Grantable[m] \subseteq EndpointCap
  BY WasmAssumption

(* The first element of a set of positions is one. *)
LEMMA FirstOfLemma ==
    ASSUME NEW S, S \subseteq Nat, S # {}
    PROVE  FirstOf(S) \in S /\ \A j \in S : FirstOf(S) <= j
  <1>1. \E i \in S : \A j \in S : i <= j BY LeastNat
  <1> QED BY <1>1 DEF FirstOf

(* Taking message k out leaves the others, in order. *)
LEMMA WithoutLemma ==
    ASSUME NEW q \in Seq(Msg), NEW k \in 1 .. Len(q)
    PROVE  /\ Without(q, k) \in Seq(Msg) /\ Len(Without(q, k)) = Len(q) - 1
           /\ \A i \in 1 .. Len(q) - 1 : Without(q, k)[i] = IF i < k THEN q[i] ELSE q[i + 1]
  <1>1. \A i \in 1 .. Len(q) - 1 : (IF i < k THEN q[i] ELSE q[i + 1]) \in Msg
    OBVIOUS
  <1>2. Len(q) - 1 \in Nat OBVIOUS
  <1>3. Without(q, k) = [i \in 1 .. Len(q) - 1 |-> IF i < k THEN q[i] ELSE q[i + 1]]
    BY DEF Without
  <1> QED BY <1>1, <1>2, <1>3

(* Publish queues a message for the first subscribers, as many as fit.     *)
LEMMA PublishedLemma ==
    ASSUME WasmTypeOK, num <= MaxMsgs
    PROVE  /\ Reached \in 0 .. Len(subscribers)
           /\ Reached > 0 => Len(queue) + Reached <= MaxDepth
           /\ Published \in Seq(Msg) /\ Len(Published) = Reached
           /\ \A i \in 1 .. Reached : Published[i] = [dest |-> subscribers[i], num |-> num]
  <1>1. /\ Len(queue) \in Nat /\ Len(subscribers) \in Nat /\ num \in 1 .. MaxMsgs
        /\ subscribers \in Seq(Client)
    BY WasmConstants DEF WasmTypeOK
  <1>2. Reached \in 0 .. Len(subscribers) /\ (Reached > 0 => Len(queue) + Reached <= MaxDepth)
    BY <1>1, WasmConstants DEF Reached
  <1>3. \A i \in 1 .. Reached : [dest |-> subscribers[i], num |-> num] \in Msg
    BY <1>1, <1>2 DEF Msg
  <1> QED BY <1>2, <1>3 DEF Published

(* TakeFirst takes the first message for the guest. *)
LEMMA TakeLemma ==
    ASSUME WasmTypeOK, TakeFirst
    PROVE  \E k \in 1 .. Len(queue) :
              /\ queue[k].dest = guest
              /\ \A j \in 1 .. k - 1 : queue[j].dest # guest
              /\ ipc_msg' = queue[k] /\ queue' = Without(queue, k)
  <1>1. For(guest) \subseteq Nat /\ For(guest) # {}
    BY DEF TakeFirst, For, WasmTypeOK
  <1>2. PICK k : k = FirstOf(For(guest)) OBVIOUS
  <1>3. k \in For(guest) /\ \A j \in For(guest) : k <= j
    BY <1>1, <1>2, FirstOfLemma
  <1>4. k \in 1 .. Len(queue) /\ queue[k].dest = guest
    BY <1>3 DEF For, WasmTypeOK
  <1>5. ASSUME NEW j \in 1 .. k - 1 PROVE queue[j].dest # guest
    <2>1. j \in DOMAIN queue /\ ~(k <= j) BY <1>4 DEF WasmTypeOK
    <2> QED BY <1>3, <2>1 DEF For
  <1> QED BY <1>2, <1>4, <1>5 DEF TakeFirst

-----------------------------------------------------------------------------
(* The queue, the subscriptions and the capability lists start empty. *)
LEMMA WasmStart == WasmInit => WasmIInv
  BY WasmConstants
     DEF WasmInit, WasmIInv, WasmTypeOK, LoopHolds, SubscribedOnce, OneOver, Phase

(* The steps that only move the kernel or the loop on. *)
LEMMA QuietSteps ==
    ASSUME WasmIInv,
           \/ \E m \in Client : \/ \E cap \in Grantable[m] : grant_capability(m, cap)
                                \/ call_function(m) \/ deliver_pending_messages(m)
           \/ GuestReturns \/ NothingLeft \/ BufferReturned \/ MessageWritten
           \/ \E input \in Input : PublishRefused(input)
           \/ \E input \in Input, c \in Client : SendRefused(c, input)
           \/ \E input \in TopicInput : TopicPanics(input)
    PROVE  /\ WasmIInv'
           /\ UNCHANGED <<queue, subscribers, ipc_msg, num, arrived, lost>>
  <1> USE DEF WasmIInv
  <1>1. ASSUME NEW m \in Client, NEW cap \in Grantable[m], grant_capability(m, cap)
        PROVE  WasmIInv' /\ UNCHANGED <<queue, subscribers, ipc_msg, num, arrived, lost>>
    <2>1. cap \in EndpointCap BY <1>1, WasmConstants
    <2>2. capabilities' \in [Client -> Seq(EndpointCap)]
      BY <1>1, <2>1 DEF grant_capability, WasmTypeOK
    <2>3. UNCHANGED <<queue, subscribers, loopVars, last, num, arrived, lost>>
      BY <1>1 DEF grant_capability
    <2> QED BY <2>2, <2>3 DEF loopVars, WasmTypeOK, LoopHolds, SubscribedOnce, OneOver
  <1>2. ASSUME NEW m \in Client, call_function(m) \/ deliver_pending_messages(m)
        PROVE  WasmIInv' /\ UNCHANGED <<queue, subscribers, ipc_msg, num, arrived, lost>>
    <2>1. /\ phase = "idle" /\ phase' \in {"calling", "taking"} /\ guest' = m
          /\ UNCHANGED <<queue, subscribers, capabilities, ipc_msg, delivered, num, arrived, lost>>
      BY <1>2 DEF call_function, deliver_pending_messages
    <2> QED BY <1>2, <2>1 DEF WasmTypeOK, LoopHolds, SubscribedOnce, OneOver, Phase
  <1>3. CASE GuestReturns \/ NothingLeft
    <2>1. /\ phase \in {"calling", "taking"} /\ phase' = "idle" /\ guest' = Nobody
          /\ UNCHANGED <<queue, subscribers, capabilities, num, arrived, lost>>
          /\ ipc_msg' \in {ipc_msg, Nobody} /\ delivered' \in {delivered, 0}
      BY <1>3 DEF GuestReturns, NothingLeft, LoopEnds
    <2>2. ipc_msg = Nobody /\ ipc_msg' = Nobody BY <2>1 DEF LoopHolds
    <2> QED BY <2>1, <2>2 DEF WasmTypeOK, LoopHolds, SubscribedOnce, OneOver, Phase
  <1>4. CASE BufferReturned \/ MessageWritten
    <2>1. /\ phase \in {"allocating", "writing"} /\ phase' \in {"writing", "receiving"}
          /\ UNCHANGED <<queue, subscribers, capabilities, guest, ipc_msg, delivered, num,
                         arrived, lost>>
      BY <1>4 DEF BufferReturned, MessageWritten
    <2> QED BY <2>1 DEF WasmTypeOK, LoopHolds, SubscribedOnce, OneOver, Phase
  <1>5. CASE \/ \E input \in Input : PublishRefused(input)
             \/ \E input \in Input, c \in Client : SendRefused(c, input)
    <2>1. UNCHANGED <<queue, subscribers, capabilities, loopVars, num, arrived, lost>>
      BY <1>5 DEF PublishRefused, SendRefused
    <2> QED BY <2>1 DEF loopVars, WasmTypeOK, LoopHolds, SubscribedOnce, OneOver
  <1>6. ASSUME NEW input \in TopicInput, TopicPanics(input)
        PROVE  WasmIInv' /\ UNCHANGED <<queue, subscribers, ipc_msg, num, arrived, lost>>
    <2>1. /\ GuestRuns /\ phase' = "panicked"
          /\ UNCHANGED <<queue, subscribers, capabilities, guest, ipc_msg, delivered, num,
                         arrived, lost>>
      BY <1>6 DEF TopicPanics
    <2>2. guest \in Client BY <2>1, WasmConstants DEF GuestRuns, LoopHolds
    <2> QED BY <2>1, <2>2 DEF WasmTypeOK, LoopHolds, SubscribedOnce, OneOver, Phase
  <1> QED BY <1>1, <1>2, <1>3, <1>4, <1>5, <1>6

(* Every step keeps the invariant. *)
LEMMA WasmStep == WasmIInv /\ [WasmNext]_wasmVars => WasmIInv'
  <1> SUFFICES ASSUME WasmIInv, [WasmNext]_wasmVars PROVE WasmIInv'
    OBVIOUS
  <1> USE DEF WasmIInv
  <1>1. CASE \/ \E m \in Client : \/ \E cap \in Grantable[m] : grant_capability(m, cap)
                                  \/ call_function(m) \/ deliver_pending_messages(m)
             \/ GuestReturns \/ NothingLeft \/ BufferReturned \/ MessageWritten
             \/ \E input \in Input : PublishRefused(input)
             \/ \E input \in Input, c \in Client : SendRefused(c, input)
             \/ \E input \in TopicInput : TopicPanics(input)
    BY <1>1, QuietSteps
  <1>2. CASE clear_ipc_queue
    <2>1. /\ queue' = <<>> /\ lost' = lost \cup {queue[i] : i \in DOMAIN queue}
          /\ UNCHANGED <<subscribers, capabilities, loopVars, last, num, arrived>>
          /\ phase = "idle"
      BY <1>2 DEF clear_ipc_queue
    <2>2. lost' \subseteq Msg BY <2>1 DEF WasmTypeOK
    <2>3. WasmTypeOK' BY <2>1, <2>2 DEF WasmTypeOK, loopVars
    <2> QED BY <2>1, <2>3, WasmConstants DEF loopVars, LoopHolds, SubscribedOnce, OneOver
  <1>3. ASSUME NEW c \in Client, NEW input \in TopicInput, Subscribe(c, input)
        PROVE  WasmIInv'
    <2>1. UNCHANGED <<queue, capabilities, loopVars, num, arrived, lost>>
      BY <1>3 DEF Subscribe
    <2>2. CASE subscribers' = subscribers
      BY <2>1, <2>2 DEF loopVars, WasmTypeOK, LoopHolds, SubscribedOnce, OneOver
    <2>3. CASE subscribers' = Append(subscribers, c) /\ ~In(subscribers, c)
      <3>1. /\ subscribers \in Seq(Client) /\ subscribers' \in Seq(Client)
            /\ Len(subscribers') = Len(subscribers) + 1 /\ Len(subscribers) \in Nat
            /\ subscribers'[Len(subscribers) + 1] = c
            /\ \A i \in 1 .. Len(subscribers) : subscribers'[i] = subscribers[i]
        BY <1>3, <2>3 DEF WasmTypeOK
      <3>2. \A i \in 1 .. Len(subscribers) : subscribers[i] # c
        BY <2>3, <3>1 DEF In
      <3>3. \A i \in 1 .. Len(subscribers') :
                i \in 1 .. Len(subscribers) \/ i = Len(subscribers) + 1
        BY <3>1
      <3>4. SubscribedOnce' BY <3>1, <3>2, <3>3 DEF SubscribedOnce
      <3>5. WasmTypeOK' BY <2>1, <3>1 DEF loopVars, WasmTypeOK
      <3>6. LoopHolds' /\ OneOver' BY <2>1 DEF loopVars, LoopHolds, OneOver
      <3> QED BY <3>4, <3>5, <3>6
    <2> QED BY <1>3, <2>2, <2>3 DEF Subscribe
  <1>4. CASE Publish
    <2>1. /\ num <= MaxMsgs /\ queue' = queue \o Published /\ num' = num + 1
          /\ UNCHANGED <<subscribers, capabilities, loopVars, arrived, lost>>
      BY <1>4 DEF Publish
    <2>2. /\ Reached \in 0 .. Len(subscribers)
          /\ Reached > 0 => Len(queue) + Reached <= MaxDepth
          /\ Published \in Seq(Msg) /\ Len(Published) = Reached
      BY <2>1, PublishedLemma
    <2>3. queue \in Seq(Msg) /\ Len(queue) \in Nat /\ Len(subscribers) \in Nat
      BY DEF WasmTypeOK
    <2>4. queue' \in Seq(Msg) /\ Len(queue') = Len(queue) + Reached
      <3>1. PICK p \in Seq(Msg) : p = Published BY <2>2
      <3>2. queue \o p \in Seq(Msg) /\ Len(queue \o p) = Len(queue) + Len(p) BY <2>3
      <3> QED BY <2>1, <2>2, <3>1, <3>2
    <2>5. num' \in 1 .. MaxMsgs + 1 BY <2>1, WasmConstants DEF WasmTypeOK
    <2>6. WasmTypeOK' BY <2>1, <2>4, <2>5 DEF loopVars, WasmTypeOK
    <2>7. OneOver'
      <3>1. CASE Reached = 0
        BY <2>1, <2>3, <2>4, <3>1 DEF loopVars, OneOver
      <3>2. CASE Reached > 0
        BY <2>1, <2>2, <2>3, <2>4, <3>2, WasmConstants DEF loopVars, OneOver
      <3> QED BY <2>2, <2>3, <3>1, <3>2
    <2>8. LoopHolds' /\ SubscribedOnce' BY <2>1 DEF loopVars, LoopHolds, SubscribedOnce
    <2> QED BY <2>6, <2>7, <2>8
  <1>5. ASSUME NEW c \in Client, NEW input \in Input, SendQueued(c, input)
        PROVE  WasmIInv'
    <2>1. /\ num <= MaxMsgs /\ queue' = Append(queue, [dest |-> c, num |-> num])
          /\ num' = num + 1 /\ SendRefusal(guest, c, input) = 0
          /\ UNCHANGED <<subscribers, capabilities, loopVars, arrived, lost>>
      BY <1>5 DEF SendQueued
    <2>2. queue \in Seq(Msg) /\ Len(queue) \in Nat BY DEF WasmTypeOK
    <2>3. Len(queue) < MaxDepth BY <2>1, <2>2, WasmConstants DEF SendRefusal
    <2>4. [dest |-> c, num |-> num] \in Msg BY <1>5, <2>1, WasmConstants DEF WasmTypeOK, Msg
    <2>5. queue' \in Seq(Msg) /\ Len(queue') = Len(queue) + 1 BY <2>1, <2>2, <2>4
    <2>6. num' \in 1 .. MaxMsgs + 1 BY <2>1, WasmConstants DEF WasmTypeOK
    <2>7. WasmTypeOK' BY <2>1, <2>5, <2>6 DEF loopVars, WasmTypeOK
    <2>8. OneOver' BY <2>1, <2>2, <2>3, <2>5, WasmConstants DEF loopVars, OneOver
    <2>9. LoopHolds' /\ SubscribedOnce' BY <2>1 DEF loopVars, LoopHolds, SubscribedOnce
    <2> QED BY <2>7, <2>8, <2>9
  <1>6. CASE TakeFirst
    <2>1. PICK k \in 1 .. Len(queue) :
              /\ queue[k].dest = guest
              /\ ipc_msg' = queue[k] /\ queue' = Without(queue, k)
      BY <1>6, TakeLemma
    <2>2. /\ phase = "taking" /\ phase' = "allocating"
          /\ UNCHANGED <<subscribers, capabilities, guest, delivered, last, num, arrived, lost>>
      BY <1>6 DEF TakeFirst
    <2>3. queue \in Seq(Msg) /\ Len(queue) \in Nat BY DEF WasmTypeOK
    <2>4. ipc_msg' \in Msg /\ ipc_msg' # Nobody BY <2>1, <2>3, WasmConstants
    <2>5. queue' \in Seq(Msg) /\ Len(queue') = Len(queue) - 1 BY <2>1, <2>3, WithoutLemma
    <2>6. WasmTypeOK' BY <2>2, <2>4, <2>5 DEF WasmTypeOK, Phase
    <2>7. ipc_msg = Nobody BY <2>2 DEF LoopHolds
    <2>8. OneOver' BY <2>3, <2>4, <2>5, <2>7, WasmConstants DEF OneOver
    <2>9. LoopHolds' BY <2>1, <2>2, <2>4 DEF LoopHolds
    <2>10. SubscribedOnce' BY <2>2 DEF SubscribedOnce
    <2> QED BY <2>6, <2>8, <2>9, <2>10
  <1>7. CASE BufferFails
    <2>1. /\ phase = "allocating" /\ queue' = <<ipc_msg>> \o queue
          /\ phase' = "idle" /\ guest' = Nobody /\ ipc_msg' = Nobody /\ delivered' = 0
          /\ UNCHANGED <<subscribers, capabilities, num, arrived, lost>>
      BY <1>7 DEF BufferFails, LoopEnds
    <2>2. ipc_msg # Nobody /\ ipc_msg \in Msg BY <2>1 DEF LoopHolds, WasmTypeOK
    <2>3. queue \in Seq(Msg) /\ Len(queue) \in Nat BY DEF WasmTypeOK
    <2>4. queue' \in Seq(Msg) /\ Len(queue') = Len(queue) + 1 BY <2>1, <2>2, <2>3
    <2>5. WasmTypeOK' BY <2>1, <2>4 DEF WasmTypeOK, Phase
    <2>6. OneOver' BY <2>1, <2>2, <2>3, <2>4, WasmConstants DEF OneOver
    <2>7. LoopHolds' /\ SubscribedOnce' BY <2>1 DEF LoopHolds, SubscribedOnce
    <2> QED BY <2>5, <2>6, <2>7
  <1>8. CASE GiveUp \/ NoMemoryExport \/ Received
    <2>1. phase \in {"allocating", "writing", "receiving"}
      BY <1>8 DEF GiveUp, NoMemoryExport, Received
    <2>2. ipc_msg # Nobody /\ ipc_msg \in Msg /\ guest \in Client
      BY <2>1 DEF LoopHolds, WasmTypeOK
    <2>3. /\ ipc_msg' = Nobody /\ phase' \in {"taking", "idle"}
          /\ phase' = "taking" => guest' = guest
          /\ guest' \in {guest, Nobody} /\ delivered' \in Nat
          /\ UNCHANGED <<queue, subscribers, capabilities, num>>
      BY <1>8 DEF GiveUp, NoMemoryExport, Received, LoopEnds, WasmTypeOK
    <2>4. lost' \subseteq Msg
      BY <1>8, <2>2 DEF GiveUp, NoMemoryExport, Received, WasmTypeOK
    <2>5. arrived' \in [Client -> Seq(Msg)]
      <3>1. CASE GiveUp \/ NoMemoryExport
        BY <3>1 DEF GiveUp, NoMemoryExport, LoopEnds, WasmTypeOK
      <3>2. CASE Received
        BY <2>2, <3>2 DEF Received, WasmTypeOK
      <3> QED BY <1>8, <3>1, <3>2
    <2>6. WasmTypeOK' BY <2>2, <2>3, <2>4, <2>5 DEF WasmTypeOK, Phase
    <2>7. OneOver'
      <3>1. Len(queue) \in Nat BY DEF WasmTypeOK
      <3> QED BY <2>2, <2>3, <3>1, WasmConstants DEF OneOver
    <2>8. LoopHolds' /\ SubscribedOnce' BY <2>2, <2>3 DEF LoopHolds, SubscribedOnce
    <2> QED BY <2>6, <2>7, <2>8
  <1>9. CASE UNCHANGED wasmVars
    BY <1>9 DEF wasmVars, WasmTypeOK, LoopHolds, SubscribedOnce, OneOver
  <1>10. CASE KernelStep BY <1>1, <1>2, <1>10 DEF KernelStep
  <1>11. CASE LoopStep BY <1>1, <1>6, <1>7, <1>8, <1>11 DEF LoopStep
  <1>12. CASE HostStep
    <2>1. ASSUME NEW input \in TopicInput, NEW c \in Client, host_sys_mqtt_subscribe(c, input)
          PROVE  WasmIInv'
      BY <1>1, <1>3, <1>4, <1>5, <2>1 DEF host_sys_mqtt_subscribe
    <2>2. ASSUME NEW input \in Input,
                 \/ host_sys_mqtt_publish(input)
                 \/ \E c \in Client : host_sys_ipc_send(c, input)
          PROVE  WasmIInv'
      BY <1>1, <1>3, <1>4, <1>5, <2>2 DEF host_sys_mqtt_publish, host_sys_ipc_send
    <2> QED BY <1>12, <2>1, <2>2 DEF HostStep
  <1> QED BY <1>9, <1>10, <1>11, <1>12 DEF WasmNext

(* The inductive invariant. *)
THEOREM WasmInvariant == WasmSpec => []WasmIInv
  BY WasmStart, WasmStep, PTL DEF WasmSpec

(* Type correctness of the queue, the registry and the loop. *)
THEOREM WasmTypeCorrect == WasmSpec => []WasmTypeOK
  <1>1. WasmIInv => WasmTypeOK BY DEF WasmIInv
  <1> QED BY WasmInvariant, <1>1, PTL

(* The queue and the message being delivered exceed the limit by at most   *)
(* one message, whatever guests do from inside a delivery.                 *)
THEOREM QueueStaysBounded == WasmSpec => []QueueNearlyBounded
  <1>1. ASSUME WasmIInv PROVE QueueNearlyBounded
    <2>1. CASE ipc_msg = Nobody
      <3>1. {ipc_msg} \ {Nobody} = {} BY <2>1
      <3>2. Cardinality({ipc_msg} \ {Nobody}) = 0 BY <3>1, FS_EmptySet
      <3> QED BY <1>1, <2>1, <3>2 DEF WasmIInv, OneOver, QueueNearlyBounded
    <2>2. CASE ipc_msg # Nobody
      <3>1. {ipc_msg} \ {Nobody} = {ipc_msg} BY <2>2
      <3>2. Cardinality({ipc_msg} \ {Nobody}) = 1 BY <3>1, FS_Singleton
      <3> QED BY <1>1, <2>2, <3>2 DEF WasmIInv, OneOver, QueueNearlyBounded
    <2> QED BY <2>1, <2>2
  <1> QED BY WasmInvariant, <1>1, PTL

(* Whoever sends a message with sys_ipc_send holds the write right for its *)
(* destination: the first match decides, and it is one of the guest's own. *)
THEOREM SendChecksWrite == WasmSpec => SendNeedsWrite
  <1>1. ASSUME WasmIInv, [WasmNext]_wasmVars,
               last'.op = "send", last'.value = 0, num' # num
        PROVE  \E i \in DOMAIN capabilities[guest] :
                  capabilities[guest][i] = [endpoint |-> queue'[Len(queue')].dest,
                                            write |-> TRUE]
    <2>1. ASSUME KernelStep \/ LoopStep \/ UNCHANGED wasmVars PROVE num' = num
      BY <2>1 DEF KernelStep, LoopStep, wasmVars, grant_capability, call_function,
                  deliver_pending_messages, GuestReturns, clear_ipc_queue, TakeFirst,
                  NothingLeft, BufferReturned, BufferFails, GiveUp, NoMemoryExport,
                  MessageWritten, Received, LoopEnds
    <2>2. ASSUME NEW input, NEW c, host_sys_mqtt_subscribe(c, input) \/ SendRefused(c, input)
          PROVE  num' = num
      BY <2>2 DEF host_sys_mqtt_subscribe, TopicPanics, Subscribe, SendRefused
    <2>3. ~Publish BY <1>1 DEF Publish, Returns
    <2>4. \A input \in Input : ~PublishRefused(input)
      BY <1>1 DEF PublishRefused
    <2>5. HostStep BY <1>1, <2>1 DEF WasmNext
    <2>6. PICK c \in Client, input \in Input : SendQueued(c, input)
      <3>1. PICK input \in Input :
              \/ host_sys_mqtt_publish(input)
              \/ \E c \in Client : host_sys_ipc_send(c, input)
        BY <1>1, <2>2, <2>5 DEF HostStep
      <3>2. PICK c \in Client : host_sys_ipc_send(c, input)
        BY <2>3, <2>4, <3>1 DEF host_sys_mqtt_publish
      <3> QED BY <1>1, <2>2, <3>2 DEF host_sys_ipc_send
    <2>7. /\ SendRefusal(guest, c, input) = 0 /\ GuestRuns
          /\ queue' = Append(queue, [dest |-> c, num |-> num])
      BY <2>6 DEF SendQueued
    <2>8. guest \in Client
      BY <1>1, <2>7, WasmConstants DEF GuestRuns, WasmIInv, LoopHolds
    <2>9. queue'[Len(queue')].dest = c
      BY <1>1, <2>7 DEF WasmIInv, WasmTypeOK
    <2>10. Matching(guest, c) # {} /\ find_capability(guest, c).write
      BY <2>7 DEF SendRefusal
    <2>11. capabilities[guest] \in Seq(EndpointCap)
      BY <1>1, <2>8 DEF WasmIInv, WasmTypeOK
    <2>12. Matching(guest, c) \subseteq Nat
      BY <2>11 DEF Matching
    <2>13. PICK i : i = FirstOf(Matching(guest, c)) OBVIOUS
    <2>14. i \in Matching(guest, c) BY <2>10, <2>12, <2>13, FirstOfLemma
    <2>15. /\ i \in DOMAIN capabilities[guest] /\ capabilities[guest][i].endpoint = c
           /\ capabilities[guest][i].write
      BY <2>10, <2>13, <2>14 DEF Matching, find_capability
    <2>16. capabilities[guest][i] \in EndpointCap BY <2>11, <2>15
    <2>17. capabilities[guest][i] = [endpoint |-> c, write |-> TRUE]
      BY <2>15, <2>16 DEF EndpointCap
    <2> QED BY <2>9, <2>15, <2>17
  <1> QED BY <1>1, WasmInvariant, PTL DEF WasmSpec, SendNeedsWrite

-----------------------------------------------------------------------------
(* The recursion of MessagesFor as an equation on a function u: *)
WithMessage(ms, m, c) == IF m.dest = c THEN Append(ms, m) ELSE ms

Gathers(u, q, c, N) ==
    u = [n \in 0 .. N |-> IF n = 0 THEN <<>> ELSE WithMessage(u[n - 1], q[n], c)]

(* it has a solution, *)
LEMMA GathersExists ==
    ASSUME NEW q, NEW c, NEW M \in Nat
    PROVE  \E u : Gathers(u, q, c, M)
  <1> DEFINE T == {N \in Nat : \E u : Gathers(u, q, c, N)}
  <1>1. 0 \in T
    <2>1. Gathers([n \in 0 .. 0 |-> <<>>], q, c, 0)
      BY DEF Gathers
    <2> QED BY <2>1
  <1>2. ASSUME NEW N \in 1 .. M, N - 1 \in T PROVE N \in T
    <2>1. PICK u : Gathers(u, q, c, N - 1)
      BY <1>2
    <2>2. N \in Nat /\ N # 0 OBVIOUS
    <2> DEFINE v == [n \in 0 .. N |-> IF n = N THEN WithMessage(u[N - 1], q[N], c) ELSE u[n]]
    <2>3. \A n \in 0 .. N - 1 : v[n] = u[n] BY <2>2
    <2>4. \A n \in 0 .. N : v[n] = IF n = 0 THEN <<>> ELSE WithMessage(v[n - 1], q[n], c)
      <3> SUFFICES ASSUME NEW n \in 0 .. N
                   PROVE  v[n] = IF n = 0 THEN <<>> ELSE WithMessage(v[n - 1], q[n], c)
        OBVIOUS
      <3>1. CASE n = N
        <4>1. v[N] = WithMessage(u[N - 1], q[N], c) BY <2>2
        <4>2. v[N - 1] = u[N - 1] BY <2>2, <2>3
        <4> QED BY <2>2, <3>1, <4>1, <4>2
      <3>2. CASE n # N
        <4>1. n \in 0 .. N - 1 BY <2>2, <3>2
        <4>2. v[n] = u[n] BY <4>1, <2>3
        <4>3. u[n] = IF n = 0 THEN <<>> ELSE WithMessage(u[n - 1], q[n], c)
          BY <2>1, <4>1 DEF Gathers
        <4>4. n # 0 => v[n - 1] = u[n - 1] BY <2>2, <4>1, <2>3
        <4> QED BY <4>2, <4>3, <4>4
      <3> QED BY <3>1, <3>2
    <2>5. Gathers(v, q, c, N)
      <3>1. v = [n \in 0 .. N |-> v[n]] OBVIOUS
      <3> HIDE DEF v
      <3> QED BY <2>4, <3>1 DEF Gathers
    <2> QED BY <2>2, <2>5
  <1> HIDE DEF T
  <1>3. M \in T
    <2>1. \A n \in 0 .. M : n \in T BY <1>1, <1>2, UpTo
    <2> QED BY <2>1
  <1> QED BY <1>3 DEF T

(* MessagesFor is its last value, and every value is a list of messages    *)
(* for c, not longer than what it was gathered from.                       *)
LEMMA MessagesForRecursion ==
    ASSUME NEW q \in Seq(Msg), NEW c \in Client
    PROVE  \E u : /\ MessagesFor(q, c) = u[Len(q)] /\ u[0] = <<>>
                  /\ \A n \in 1 .. Len(q) : u[n] = WithMessage(u[n - 1], q[n], c)
                  /\ \A n \in 0 .. Len(q) : u[n] \in Seq(Msg) /\ Len(u[n]) <= n
  <1>1. Len(q) \in Nat OBVIOUS
  <1>2. PICK u : u = CHOOSE f : Gathers(f, q, c, Len(q)) OBVIOUS
  <1>3. Gathers(u, q, c, Len(q))
    BY <1>1, <1>2, GathersExists
  <1>4. MessagesFor(q, c) = u[Len(q)]
    BY <1>2 DEF MessagesFor, Gathers, WithMessage
  <1>5. u[0] = <<>> /\ \A n \in 1 .. Len(q) : u[n] = WithMessage(u[n - 1], q[n], c)
    BY <1>1, <1>3 DEF Gathers
  <1> DEFINE T == {n \in 0 .. Len(q) : u[n] \in Seq(Msg) /\ Len(u[n]) <= n}
  <1>6. 0 \in T
    <2>1. <<>> \in Seq(Msg) /\ Len(<<>>) = 0 OBVIOUS
    <2>2. u[0] \in Seq(Msg) /\ Len(u[0]) <= 0 BY <1>5, <2>1
    <2> QED BY <1>1, <2>2
  <1>7. ASSUME NEW n \in 1 .. Len(q), n - 1 \in T PROVE n \in T
    <2>1. q[n] \in Msg /\ u[n - 1] \in Seq(Msg) /\ Len(u[n - 1]) <= n - 1
      BY <1>7
    <2>2. PICK b \in Seq(Msg), m \in Msg : b = u[n - 1] /\ m = q[n] /\ Len(b) <= n - 1
      BY <2>1
    <2>3. u[n] = Append(b, m) \/ u[n] = b BY <1>5, <2>2 DEF WithMessage
    <2>4. Append(b, m) \in Seq(Msg) /\ Len(Append(b, m)) <= n /\ Len(b) <= n
      BY <1>1, <2>2
    <2>5. u[n] \in Seq(Msg) /\ Len(u[n]) <= n BY <2>3, <2>4
    <2> QED BY <1>1, <2>5
  <1> HIDE DEF T
  <1>8. \A n \in 0 .. Len(q) : n \in T BY <1>1, <1>6, <1>7, UpTo
  <1> QED BY <1>4, <1>5, <1>8 DEF T

(* Its type and length. *)
LEMMA MessagesForType ==
    ASSUME NEW q \in Seq(Msg), NEW c \in Client
    PROVE  MessagesFor(q, c) \in Seq(Msg) /\ Len(MessagesFor(q, c)) <= Len(q)
  <1>1. Len(q) \in 0 .. Len(q) OBVIOUS
  <1> QED BY <1>1, MessagesForRecursion

(* Nothing is gathered where nothing is for c. *)
LEMMA MessagesForNone ==
    ASSUME NEW q \in Seq(Msg), NEW c \in Client, \A i \in 1 .. Len(q) : q[i].dest # c
    PROVE  MessagesFor(q, c) = <<>>
  <1>1. PICK u : /\ MessagesFor(q, c) = u[Len(q)] /\ u[0] = <<>>
                 /\ \A n \in 1 .. Len(q) : u[n] = WithMessage(u[n - 1], q[n], c)
    BY MessagesForRecursion
  <1>2. Len(q) \in Nat OBVIOUS
  <1> DEFINE T == {n \in 0 .. Len(q) : u[n] = <<>>}
  <1>3. 0 \in T BY <1>1, <1>2
  <1>4. ASSUME NEW n \in 1 .. Len(q), n - 1 \in T PROVE n \in T
    <2>1. u[n] = u[n - 1] BY <1>1 DEF WithMessage
    <2> QED BY <1>2, <1>4, <2>1
  <1> HIDE DEF T
  <1>5. \A n \in 0 .. Len(q) : n \in T BY <1>2, <1>3, <1>4, UpTo
  <1>6. Len(q) \in T BY <1>2, <1>5
  <1> QED BY <1>1, <1>6 DEF T

(* Gathering from a single message. *)
LEMMA MessagesForOne ==
    ASSUME NEW m \in Msg, NEW c \in Client
    PROVE  MessagesFor(<<m>>, c) = IF m.dest = c THEN <<m>> ELSE <<>>
  <1> DEFINE q == <<m>>
  <1>1. q \in Seq(Msg) /\ Len(q) = 1 /\ q[1] = m OBVIOUS
  <1> HIDE DEF q
  <1>2. PICK u : /\ MessagesFor(q, c) = u[Len(q)] /\ u[0] = <<>>
                 /\ \A n \in 1 .. Len(q) : u[n] = WithMessage(u[n - 1], q[n], c)
    BY <1>1, MessagesForRecursion
  <1>3. u[1] = WithMessage(<<>>, m, c) BY <1>1, <1>2
  <1>4. MessagesFor(q, c) = IF m.dest = c THEN Append(<<>>, m) ELSE <<>>
    BY <1>1, <1>2, <1>3 DEF WithMessage
  <1>5. Append(<<>>, m) = <<m>> OBVIOUS
  <1> QED BY <1>4, <1>5 DEF q

(* Appending to the second of two concatenated sequences. *)
LEMMA AppendConcat ==
    ASSUME NEW a \in Seq(Msg), NEW b \in Seq(Msg), NEW m \in Msg
    PROVE  Append(a \o b, m) = a \o Append(b, m)
  OBVIOUS

(* Gathering distributes over concatenation. *)
LEMMA MessagesForConcat ==
    ASSUME NEW q \in Seq(Msg), NEW p \in Seq(Msg), NEW c \in Client
    PROVE  MessagesFor(q \o p, c) = MessagesFor(q, c) \o MessagesFor(p, c)
  <1> DEFINE r == q \o p
  <1>1. /\ r \in Seq(Msg) /\ Len(r) = Len(q) + Len(p) /\ Len(q) \in Nat /\ Len(p) \in Nat
        /\ \A i \in 1 .. Len(q) : r[i] = q[i]
        /\ \A i \in 1 .. Len(p) : r[Len(q) + i] = p[i]
    OBVIOUS
  <1> HIDE DEF r
  <1>2. PICK u : /\ MessagesFor(q, c) = u[Len(q)] /\ u[0] = <<>>
                 /\ \A n \in 1 .. Len(q) : u[n] = WithMessage(u[n - 1], q[n], c)
                 /\ \A n \in 0 .. Len(q) : u[n] \in Seq(Msg)
    BY MessagesForRecursion
  <1>3. PICK w : /\ MessagesFor(p, c) = w[Len(p)] /\ w[0] = <<>>
                 /\ \A n \in 1 .. Len(p) : w[n] = WithMessage(w[n - 1], p[n], c)
                 /\ \A n \in 0 .. Len(p) : w[n] \in Seq(Msg)
    BY MessagesForRecursion
  <1>4. PICK v : /\ MessagesFor(r, c) = v[Len(r)] /\ v[0] = <<>>
                 /\ \A n \in 1 .. Len(r) : v[n] = WithMessage(v[n - 1], r[n], c)
    <2>1. r \in Seq(Msg) BY <1>1
    <2> QED BY <2>1, MessagesForRecursion
  <1> DEFINE T == {n \in 0 .. Len(q) : v[n] = u[n]}
  <1>5. 0 \in T BY <1>1, <1>2, <1>4
  <1>6. ASSUME NEW n \in 1 .. Len(q), n - 1 \in T PROVE n \in T
    <2>1. n \in 1 .. Len(r) BY <1>1
    <2>2. v[n] = u[n] BY <1>1, <1>2, <1>4, <1>6, <2>1
    <2> QED BY <1>1, <2>2
  <1> HIDE DEF T
  <1>7. \A n \in 0 .. Len(q) : n \in T BY <1>1, <1>5, <1>6, UpTo
  <1>8. v[Len(q)] = u[Len(q)] /\ u[Len(q)] \in Seq(Msg)
    <2>1. Len(q) \in 0 .. Len(q) BY <1>1
    <2> QED BY <1>2, <1>7, <2>1 DEF T
  <1>9. PICK a \in Seq(Msg) : a = u[Len(q)] BY <1>8
  <1> DEFINE V == {n \in 0 .. Len(p) : v[Len(q) + n] = a \o w[n]}
  <1>10. 0 \in V
    <2>1. a \o <<>> = a OBVIOUS
    <2>2. Len(q) + 0 = Len(q) /\ 0 \in 0 .. Len(p) BY <1>1
    <2> QED BY <1>3, <1>8, <1>9, <2>1, <2>2
  <1>11. ASSUME NEW n \in 1 .. Len(p), n - 1 \in V PROVE n \in V
    <2>1. /\ Len(q) + n \in 1 .. Len(r) /\ (Len(q) + n) - 1 = Len(q) + (n - 1)
          /\ r[Len(q) + n] = p[n] /\ p[n] \in Msg
      BY <1>1
    <2>2. v[Len(q) + (n - 1)] = a \o w[n - 1] BY <1>11
    <2>3. v[Len(q) + n] = WithMessage(a \o w[n - 1], p[n], c)
      BY <1>4, <2>1, <2>2
    <2>4. PICK b \in Seq(Msg) : b = w[n - 1] BY <1>1, <1>3
    <2>5. Append(a \o b, p[n]) = a \o Append(b, p[n]) BY <2>1, AppendConcat
    <2>6. WithMessage(a \o b, p[n], c) = a \o WithMessage(b, p[n], c)
      BY <2>5 DEF WithMessage
    <2>7. w[n] = WithMessage(b, p[n], c) BY <1>3, <2>4
    <2>8. v[Len(q) + n] = a \o w[n] BY <2>3, <2>4, <2>6, <2>7
    <2> QED BY <1>1, <2>8
  <1> HIDE DEF V
  <1>12. \A n \in 0 .. Len(p) : n \in V BY <1>1, <1>10, <1>11, UpTo
  <1>13. v[Len(q) + Len(p)] = a \o w[Len(p)]
    <2>1. Len(p) \in 0 .. Len(p) BY <1>1
    <2> QED BY <1>12, <2>1 DEF V
  <1> QED BY <1>1, <1>2, <1>3, <1>4, <1>9, <1>13 DEF r

(* What is gathered is exactly what is for c. *)
LEMMA MessagesForElements ==
    ASSUME NEW q \in Seq(Msg), NEW c \in Client, NEW x \in Msg
    PROVE  (\E i \in 1 .. Len(MessagesFor(q, c)) : MessagesFor(q, c)[i] = x)
              <=> (\E j \in 1 .. Len(q) : q[j] = x /\ q[j].dest = c)
  <1>1. PICK u : /\ MessagesFor(q, c) = u[Len(q)] /\ u[0] = <<>>
                 /\ \A n \in 1 .. Len(q) : u[n] = WithMessage(u[n - 1], q[n], c)
                 /\ \A n \in 0 .. Len(q) : u[n] \in Seq(Msg)
    BY MessagesForRecursion
  <1>2. Len(q) \in Nat OBVIOUS
  <1> DEFINE In1(n) == \E i \in 1 .. Len(u[n]) : u[n][i] = x
             In2(n) == \E j \in 1 .. n : q[j] = x /\ q[j].dest = c
             T == {n \in 0 .. Len(q) : In1(n) <=> In2(n)}
  <1>3. 0 \in T
    <2>1. Len(u[0]) = 0 BY <1>1
    <2>2. ~In1(0) /\ ~In2(0) BY <2>1
    <2> QED BY <1>2, <2>2
  <1>4. ASSUME NEW n \in 1 .. Len(q), n - 1 \in T PROVE n \in T
    <2>1. n - 1 \in 0 .. Len(q) /\ n \in 0 .. Len(q) /\ n \in Nat BY <1>2
    <2>2. PICK b \in Seq(Msg), m \in Msg : b = u[n - 1] /\ m = q[n]
      BY <1>1, <2>1
    <2>3. In2(n) <=> In2(n - 1) \/ (m = x /\ m.dest = c)
      <3>1. \A j \in 1 .. n : j \in 1 .. n - 1 \/ j = n BY <2>1
      <3>2. \A j \in 1 .. n - 1 : j \in 1 .. n BY <2>1
      <3>3. n \in 1 .. n BY <2>1
      <3> QED BY <2>2, <3>1, <3>2, <3>3
    <2>4. CASE m.dest = c
      <3>1. u[n] = Append(b, m) BY <1>1, <2>2, <2>4 DEF WithMessage
      <3>2. /\ Len(u[n]) = Len(b) + 1 /\ Len(b) \in Nat /\ u[n][Len(b) + 1] = m
            /\ \A i \in 1 .. Len(b) : u[n][i] = b[i]
        BY <3>1
      <3>3. /\ \A i \in 1 .. Len(b) + 1 : i \in 1 .. Len(b) \/ i = Len(b) + 1
            /\ \A i \in 1 .. Len(b) : i \in 1 .. Len(b) + 1
            /\ Len(b) + 1 \in 1 .. Len(b) + 1
        BY <3>2
      <3>4. In1(n) <=> (\E i \in 1 .. Len(b) : b[i] = x) \/ m = x
        BY <3>2, <3>3
      <3>5. In1(n) <=> In1(n - 1) \/ m = x BY <2>2, <3>4
      <3> QED BY <1>4, <2>1, <2>3, <2>4, <3>5
    <2>5. CASE m.dest # c
      <3>1. u[n] = u[n - 1] BY <1>1, <2>2, <2>5 DEF WithMessage
      <3>2. In1(n) <=> In1(n - 1) BY <3>1
      <3> QED BY <1>4, <2>1, <2>3, <2>5, <3>2
    <2> QED BY <2>4, <2>5
  <1> HIDE DEF T
  <1>5. \A n \in 0 .. Len(q) : n \in T BY <1>2, <1>3, <1>4, UpTo
  <1>6. Len(q) \in T BY <1>2, <1>5
  <1> QED BY <1>1, <1>6 DEF T

(* Sequences that agree everywhere are equal. *)
LEMMA SameMessages ==
    ASSUME NEW q \in Seq(Msg), NEW p \in Seq(Msg), Len(q) = Len(p),
           \A i \in 1 .. Len(q) : q[i] = p[i]
    PROVE  q = p
  OBVIOUS

(* A queue is what comes before message k, the message, and the rest.      *)
LEMMA SplitLemma ==
    ASSUME NEW q \in Seq(Msg), NEW k \in 1 .. Len(q)
    PROVE  \E a, b \in Seq(Msg) :
              /\ q = (a \o <<q[k]>>) \o b /\ Without(q, k) = a \o b
              /\ Len(a) = k - 1 /\ \A i \in 1 .. k - 1 : a[i] = q[i]
              /\ Len(b) = Len(q) - k /\ \A i \in 1 .. Len(q) - k : b[i] = q[k + i]
  <1>1. Len(q) \in Nat /\ k \in Nat /\ q[k] \in Msg OBVIOUS
  <1>2. PICK a \in Seq(Msg) : Len(a) = k - 1 /\ \A i \in 1 .. k - 1 : a[i] = q[i]
    <2> DEFINE f == [i \in 1 .. k - 1 |-> q[i]]
    <2>1. k - 1 \in Nat /\ \A i \in 1 .. k - 1 : q[i] \in Msg BY <1>1
    <2>2. f \in Seq(Msg) /\ Len(f) = k - 1 /\ \A i \in 1 .. k - 1 : f[i] = q[i] BY <2>1
    <2> HIDE DEF f
    <2> QED BY <2>2
  <1>3. PICK b \in Seq(Msg) : Len(b) = Len(q) - k /\ \A i \in 1 .. Len(q) - k : b[i] = q[k + i]
    <2> DEFINE f == [i \in 1 .. Len(q) - k |-> q[k + i]]
    <2>1. Len(q) - k \in Nat /\ \A i \in 1 .. Len(q) - k : q[k + i] \in Msg BY <1>1
    <2>2. f \in Seq(Msg) /\ Len(f) = Len(q) - k /\ \A i \in 1 .. Len(q) - k : f[i] = q[k + i]
      BY <2>1
    <2> HIDE DEF f
    <2> QED BY <2>2
  <1>4. PICK m \in Msg : m = q[k] BY <1>1
  <1>5. q = (a \o <<m>>) \o b
    <2> DEFINE h == a \o <<m>>
               r == h \o b
    <2>1. /\ h \in Seq(Msg) /\ Len(h) = k /\ h[k] = m
          /\ \A i \in 1 .. k - 1 : h[i] = a[i]
      BY <1>1, <1>2
    <2> HIDE DEF h
    <2>2. /\ r \in Seq(Msg) /\ Len(r) = Len(q) /\ \A i \in 1 .. k : r[i] = h[i]
          /\ \A i \in 1 .. Len(q) : i > k => r[i] = b[i - k]
      BY <1>1, <1>3, <2>1
    <2> HIDE DEF r
    <2>3. ASSUME NEW i \in 1 .. Len(q) PROVE q[i] = r[i]
      <3>1. CASE i < k
        <4>1. i \in 1 .. k - 1 /\ i \in 1 .. k BY <1>1, <3>1
        <4> QED BY <1>2, <2>1, <2>2, <4>1
      <3>2. CASE i = k BY <1>1, <1>4, <2>1, <2>2, <3>2
      <3>3. CASE i > k
        <4>1. i - k \in 1 .. Len(q) - k /\ k + (i - k) = i BY <1>1, <3>3
        <4> QED BY <1>3, <2>2, <3>3, <4>1
      <3> QED BY <1>1, <3>1, <3>2, <3>3
    <2>4. q = r BY <2>2, <2>3, SameMessages
    <2> QED BY <2>4 DEF r, h
  <1>6. Without(q, k) = a \o b
    <2> DEFINE r == a \o b
    <2>1. /\ r \in Seq(Msg) /\ Len(r) = Len(q) - 1 /\ \A i \in 1 .. k - 1 : r[i] = a[i]
          /\ \A i \in 1 .. Len(q) - 1 : i >= k => r[i] = b[i - (k - 1)]
      <3>1. /\ r \in Seq(Msg) /\ Len(r) = Len(a) + Len(b)
            /\ \A i \in 1 .. Len(a) : r[i] = a[i]
            /\ \A i \in 1 .. Len(a) + Len(b) : i > Len(a) => r[i] = b[i - Len(a)]
        OBVIOUS
      <3>2. Len(a) + Len(b) = Len(q) - 1 BY <1>1, <1>2, <1>3
      <3>3. \A i \in 1 .. Len(q) - 1 : i >= k => i > k - 1 BY <1>1
      <3> HIDE DEF r
      <3> QED BY <1>2, <3>1, <3>2, <3>3
    <2> HIDE DEF r
    <2>2. PICK w \in Seq(Msg) :
            /\ w = Without(q, k) /\ Len(w) = Len(q) - 1
            /\ \A i \in 1 .. Len(q) - 1 : w[i] = IF i < k THEN q[i] ELSE q[i + 1]
      BY WithoutLemma
    <2>3. ASSUME NEW i \in 1 .. Len(q) - 1 PROVE w[i] = r[i]
      <3>1. CASE i < k BY <1>1, <1>2, <2>1, <2>2, <3>1
      <3>2. CASE i >= k
        <4>1. i - (k - 1) \in 1 .. Len(q) - k /\ k + (i - (k - 1)) = i + 1 /\ ~(i < k)
          BY <1>1, <3>2
        <4> QED BY <1>3, <2>1, <2>2, <3>2, <4>1
      <3> QED BY <1>1, <3>1, <3>2
    <2>4. w = r BY <2>1, <2>2, <2>3, SameMessages
    <2> QED BY <2>2, <2>4 DEF r
  <1> QED BY <1>2, <1>3, <1>4, <1>5, <1>6

(* Gathering for c around message k of q gives a and b on its two sides.   *)
Around(a, b, q, k, c) ==
    /\ MessagesFor(q, c) = (a \o (IF q[k].dest = c THEN <<q[k]>> ELSE <<>>)) \o b
    /\ MessagesFor(Without(q, k), c) = a \o b
    /\ (\A i \in 1 .. k - 1 : q[i].dest # c) => a = <<>>
    /\ (\A i \in k + 1 .. Len(q) : q[i].dest # c) => b = <<>>

(* Gathering around the k-th message: what was in front of it, itself if   *)
(* it is for c, and what was behind it.                                    *)
LEMMA MessagesForSplit ==
    ASSUME NEW q \in Seq(Msg), NEW k \in 1 .. Len(q), NEW c \in Client
    PROVE  \E a, b \in Seq(Msg) : Around(a, b, q, k, c)
  <1>1. Len(q) \in Nat /\ k \in Nat /\ q[k] \in Msg OBVIOUS
  <1>2. PICK a \in Seq(Msg), b \in Seq(Msg) :
              /\ q = (a \o <<q[k]>>) \o b /\ Without(q, k) = a \o b
              /\ Len(a) = k - 1 /\ \A i \in 1 .. k - 1 : a[i] = q[i]
              /\ Len(b) = Len(q) - k /\ \A i \in 1 .. Len(q) - k : b[i] = q[k + i]
    BY SplitLemma
  <1>3. PICK m \in Msg : m = q[k] BY <1>1
  <1>4. <<m>> \in Seq(Msg) /\ a \o <<m>> \in Seq(Msg) OBVIOUS
  <1>5. MessagesFor(q, c) = (MessagesFor(a, c) \o MessagesFor(<<m>>, c)) \o MessagesFor(b, c)
    <2>1. MessagesFor((a \o <<m>>) \o b, c) = MessagesFor(a \o <<m>>, c) \o MessagesFor(b, c)
      BY <1>4, MessagesForConcat
    <2>2. MessagesFor(a \o <<m>>, c) = MessagesFor(a, c) \o MessagesFor(<<m>>, c)
      BY <1>4, MessagesForConcat
    <2> QED BY <1>2, <1>3, <2>1, <2>2
  <1>6. MessagesFor(<<m>>, c) = IF q[k].dest = c THEN <<q[k]>> ELSE <<>>
    BY <1>3, MessagesForOne
  <1>7. MessagesFor(Without(q, k), c) = MessagesFor(a, c) \o MessagesFor(b, c)
    BY <1>2, MessagesForConcat
  <1>8. MessagesFor(a, c) \in Seq(Msg) /\ MessagesFor(b, c) \in Seq(Msg)
    BY MessagesForType
  <1>9. (\A i \in 1 .. k - 1 : q[i].dest # c) => MessagesFor(a, c) = <<>>
    BY <1>2, MessagesForNone
  <1>10. ASSUME \A i \in k + 1 .. Len(q) : q[i].dest # c PROVE MessagesFor(b, c) = <<>>
    <2>1. \A i \in 1 .. Len(q) - k : k + i \in k + 1 .. Len(q) BY <1>1
    <2>2. \A i \in 1 .. Len(b) : b[i].dest # c BY <1>2, <1>10, <2>1
    <2> QED BY <2>2, MessagesForNone
  <1>11. Around(MessagesFor(a, c), MessagesFor(b, c), q, k, c)
    BY <1>5, <1>6, <1>7, <1>9, <1>10 DEF Around
  <1> QED BY <1>8, <1>11

-----------------------------------------------------------------------------
(* The numbers of a list of messages. *)
LEMMA NumbersType ==
    ASSUME NEW ms \in Seq(Msg)
    PROVE  /\ Numbers(ms) \in Seq(1 .. MaxMsgs) /\ Len(Numbers(ms)) = Len(ms)
           /\ \A i \in 1 .. Len(ms) : Numbers(ms)[i] = ms[i].num
  <1>1. \A m \in Msg : m.num \in 1 .. MaxMsgs BY DEF Msg
  <1>2. DOMAIN ms = 1 .. Len(ms) /\ Len(ms) \in Nat /\ \A i \in 1 .. Len(ms) : ms[i] \in Msg
    OBVIOUS
  <1>3. \A i \in 1 .. Len(ms) : ms[i].num \in 1 .. MaxMsgs BY <1>1, <1>2
  <1>4. Numbers(ms) = [i \in 1 .. Len(ms) |-> ms[i].num] BY <1>2 DEF Numbers
  <1> QED BY <1>2, <1>3, <1>4

(* The same for sequences of numbers. *)
LEMMA SameNumbers ==
    ASSUME NEW q \in Seq(1 .. MaxMsgs), NEW p \in Seq(1 .. MaxMsgs), Len(q) = Len(p),
           \A i \in 1 .. Len(q) : q[i] = p[i]
    PROVE  q = p
  OBVIOUS

(* The numbers of a longer sequence. *)
LEMMA NumbersAppend ==
    ASSUME NEW ms \in Seq(Msg), NEW m \in Msg
    PROVE  Numbers(ms \o <<m>>) = Append(Numbers(ms), m.num)
  <1> DEFINE h == ms \o <<m>>
  <1>1. /\ h \in Seq(Msg) /\ Len(h) = Len(ms) + 1 /\ Len(ms) \in Nat /\ h[Len(ms) + 1] = m
        /\ \A i \in 1 .. Len(ms) : h[i] = ms[i]
    OBVIOUS
  <1> HIDE DEF h
  <1>2. m.num \in 1 .. MaxMsgs BY DEF Msg
  <1>3. PICK a \in Seq(1 .. MaxMsgs) :
          a = Numbers(ms) /\ Len(a) = Len(ms) /\ \A i \in 1 .. Len(ms) : a[i] = ms[i].num
    BY NumbersType
  <1>4. PICK b \in Seq(1 .. MaxMsgs) :
          b = Numbers(h) /\ Len(b) = Len(h) /\ \A i \in 1 .. Len(h) : b[i] = h[i].num
    BY <1>1, NumbersType
  <1>5. PICK d \in Seq(1 .. MaxMsgs) :
          /\ d = Append(a, m.num) /\ Len(d) = Len(ms) + 1 /\ d[Len(ms) + 1] = m.num
          /\ \A i \in 1 .. Len(ms) : d[i] = a[i]
    <2>1. PICK x \in 1 .. MaxMsgs : x = m.num BY <1>2
    <2>2. /\ Append(a, x) \in Seq(1 .. MaxMsgs) /\ Len(Append(a, x)) = Len(a) + 1
          /\ Append(a, x)[Len(a) + 1] = x /\ \A i \in 1 .. Len(a) : Append(a, x)[i] = a[i]
      BY AppendProperties
    <2> QED BY <1>3, <2>1, <2>2
  <1>6. ASSUME NEW i \in 1 .. Len(ms) + 1 PROVE b[i] = d[i]
    <2>1. CASE i \in 1 .. Len(ms) BY <1>1, <1>3, <1>4, <1>5, <2>1
    <2>2. CASE i = Len(ms) + 1 BY <1>1, <1>4, <1>5, <2>2
    <2> QED BY <1>1, <2>1, <2>2
  <1>7. b = d BY <1>1, <1>4, <1>5, <1>6, SameNumbers
  <1> QED BY <1>3, <1>4, <1>5, <1>7 DEF h

(* The numbers of a sequence that starts with m. *)
LEMMA NumbersHead ==
    ASSUME NEW ms \in Seq(Msg), NEW m \in Msg
    PROVE  /\ Numbers(<<m>> \o ms) # <<>>
           /\ Head(Numbers(<<m>> \o ms)) = m.num
           /\ Tail(Numbers(<<m>> \o ms)) = Numbers(ms)
  <1> DEFINE h == <<m>> \o ms
  <1>1. /\ h \in Seq(Msg) /\ Len(h) = Len(ms) + 1 /\ Len(ms) \in Nat /\ h[1] = m
        /\ \A i \in 1 .. Len(ms) : h[i + 1] = ms[i]
    OBVIOUS
  <1> HIDE DEF h
  <1>2. PICK a \in Seq(1 .. MaxMsgs) :
          a = Numbers(ms) /\ Len(a) = Len(ms) /\ \A i \in 1 .. Len(ms) : a[i] = ms[i].num
    BY NumbersType
  <1>3. PICK b \in Seq(1 .. MaxMsgs) :
          b = Numbers(h) /\ Len(b) = Len(h) /\ \A i \in 1 .. Len(h) : b[i] = h[i].num
    BY <1>1, NumbersType
  <1>4. b # <<>> /\ Head(b) = m.num BY <1>1, <1>3
  <1>5. PICK d \in Seq(1 .. MaxMsgs) :
          d = Tail(b) /\ Len(d) = Len(ms) /\ \A i \in 1 .. Len(ms) : d[i] = b[i + 1]
    <2>1. /\ Tail(b) \in Seq(1 .. MaxMsgs) /\ Len(Tail(b)) = Len(b) - 1
          /\ \A i \in 1 .. Len(Tail(b)) : Tail(b)[i] = b[i + 1]
      BY <1>4, HeadTailProperties
    <2>2. Len(b) - 1 = Len(ms) BY <1>1, <1>3
    <2> QED BY <2>1, <2>2
  <1>6. ASSUME NEW i \in 1 .. Len(ms) PROVE d[i] = a[i]
    <2>1. i + 1 \in 1 .. Len(h) BY <1>1
    <2> QED BY <1>1, <1>2, <1>3, <1>5, <2>1
  <1>7. d = a BY <1>2, <1>5, <1>6, SameNumbers
  <1> QED BY <1>2, <1>3, <1>4, <1>5, <1>7 DEF h

-----------------------------------------------------------------------------
(* The message m in the loop's hands, as part of what waits for c. *)
Held(m, c) == IF m # Nobody /\ m.dest = c THEN <<m>> ELSE <<>>

(* What waits for c is the message in the loop's hands, if it is for c,    *)
(* and then what is queued for c.                                          *)
LEMMA WaitingLemma ==
    ASSUME WasmIInv, NEW c \in Client
    PROVE  /\ Waiting(c) = Held(ipc_msg, c) \o MessagesFor(queue, c)
           /\ Waiting(c) \in Seq(Msg)
           /\ Len(Waiting(c)) <= Len(queue) + 1
           /\ ipc_msg = Nobody => Waiting(c) = MessagesFor(queue, c)
  <1>1. queue \in Seq(Msg) /\ Len(queue) \in Nat BY DEF WasmIInv, WasmTypeOK
  <1>2. PICK a \in Seq(Msg) : a = MessagesFor(queue, c) /\ Len(a) <= Len(queue)
    BY <1>1, MessagesForType
  <1>3. PICK h \in Seq(Msg) : h = Held(ipc_msg, c) /\ Len(h) <= 1 /\ (ipc_msg = Nobody => h = <<>>)
    <2>1. <<>> \in Seq(Msg) /\ Len(<<>>) <= 1 OBVIOUS
    <2>2. \A m \in Msg : <<m>> \in Seq(Msg) /\ Len(<<m>>) <= 1 OBVIOUS
    <2>3. ipc_msg # Nobody => ipc_msg \in Msg BY DEF WasmIInv, WasmTypeOK
    <2> QED BY <2>1, <2>2, <2>3 DEF Held
  <1>4. Waiting(c) = h \o a BY <1>2, <1>3 DEF Waiting, Held
  <1>5. h \o a \in Seq(Msg) /\ Len(h \o a) = Len(h) + Len(a) /\ <<>> \o a = a
    OBVIOUS
  <1>6. Len(h) \in Nat /\ Len(a) \in Nat OBVIOUS
  <1> QED BY <1>1, <1>2, <1>3, <1>4, <1>5, <1>6

(* Taking a message, and putting it back, leave what waits alone. *)
LEMMA TakeKeepsWaiting ==
    ASSUME WasmIInv, WasmIInv', TakeFirst, NEW c \in Client
    PROVE  Waiting(c)' = Waiting(c)
  <1>1. queue \in Seq(Msg) BY DEF WasmIInv, WasmTypeOK
  <1>2. PICK k \in 1 .. Len(queue) :
              /\ queue[k].dest = guest
              /\ \A j \in 1 .. k - 1 : queue[j].dest # guest
              /\ ipc_msg' = queue[k] /\ queue' = Without(queue, k)
    BY TakeLemma DEF WasmIInv
  <1>3. ipc_msg = Nobody BY DEF TakeFirst, WasmIInv, LoopHolds
  <1>4. PICK m \in Msg : m = queue[k] /\ m # Nobody BY <1>1, WasmConstants
  <1>5. PICK a \in Seq(Msg), b \in Seq(Msg) :
              /\ MessagesFor(queue, c) = (a \o (IF m.dest = c THEN <<m>> ELSE <<>>)) \o b
              /\ MessagesFor(queue', c) = a \o b
              /\ (\A i \in 1 .. k - 1 : queue[i].dest # c) => a = <<>>
    <2>1. PICK a \in Seq(Msg), b \in Seq(Msg) : Around(a, b, queue, k, c)
      BY <1>1, MessagesForSplit
    <2> QED BY <1>2, <1>4, <2>1 DEF Around
  <1>6. Waiting(c) = MessagesFor(queue, c) BY <1>3, WaitingLemma
  <1>7. Waiting(c)' = Held(m, c) \o (a \o b)
    BY <1>2, <1>4, <1>5 DEF Waiting, Held
  <1>8. CASE m.dest = c
    <2>1. a = <<>> BY <1>2, <1>4, <1>5, <1>8
    <2>2. (<<>> \o <<m>>) \o b = <<m>> \o (<<>> \o b) OBVIOUS
    <2>3. Waiting(c)' = <<m>> \o (<<>> \o b) BY <1>4, <1>7, <1>8, <2>1 DEF Held
    <2>4. Waiting(c) = (<<>> \o <<m>>) \o b BY <1>5, <1>6, <1>8, <2>1
    <2> QED BY <2>2, <2>3, <2>4
  <1>9. CASE m.dest # c
    <2>1. (a \o <<>>) \o b = <<>> \o (a \o b) OBVIOUS
    <2>2. Waiting(c)' = <<>> \o (a \o b) BY <1>7, <1>9 DEF Held
    <2>3. Waiting(c) = (a \o <<>>) \o b BY <1>5, <1>6, <1>9
    <2> QED BY <2>1, <2>2, <2>3
  <1> QED BY <1>8, <1>9

(* A message that BufferFails puts back is again the first for its guest:  *)
(* the order among the messages of each guest is as before.                *)
LEMMA RequeueKeepsWaiting ==
    ASSUME WasmIInv, BufferFails, NEW c \in Client
    PROVE  Waiting(c)' = Waiting(c)
  <1>1. queue \in Seq(Msg) BY DEF WasmIInv, WasmTypeOK
  <1>2. PICK m \in Msg : m = ipc_msg /\ m # Nobody
    BY DEF BufferFails, WasmIInv, WasmTypeOK, LoopHolds
  <1>3. queue' = <<m>> \o queue /\ ipc_msg' = Nobody
    BY <1>2 DEF BufferFails, LoopEnds
  <1>4. <<m>> \in Seq(Msg) OBVIOUS
  <1>5. MessagesFor(queue', c) = Held(m, c) \o MessagesFor(queue, c)
    <2>1. MessagesFor(<<m>> \o queue, c) = MessagesFor(<<m>>, c) \o MessagesFor(queue, c)
      BY <1>1, <1>4, MessagesForConcat
    <2>2. MessagesFor(<<m>>, c) = Held(m, c) BY <1>2, MessagesForOne DEF Held
    <2> QED BY <1>3, <2>1, <2>2
  <1>6. Waiting(c) = Held(m, c) \o MessagesFor(queue, c)
    BY <1>2, WaitingLemma
  <1>7. Waiting(c)' = <<>> \o MessagesFor(queue', c)
    BY <1>3 DEF Waiting
  <1>8. PICK w \in Seq(Msg) : w = Waiting(c) BY WaitingLemma
  <1>9. <<>> \o w = w OBVIOUS
  <1> QED BY <1>5, <1>6, <1>7, <1>8, <1>9

-----------------------------------------------------------------------------
(* Queueing message number num for the guests in S is a Put of the mailbox. *)
LEMMA PutLemma ==
    ASSUME WasmIInv, NEW p \in Seq(Msg), NEW S \in SUBSET Client,
           queue' = queue \o p, ipc_msg' = ipc_msg, num <= MaxMsgs, num' = num + 1,
           UNCHANGED <<arrived, lost>>,
           S # {} => Len(queue) < MaxDepth,
           \A c \in Client : MessagesFor(p, c) =
              IF c \in S THEN <<[dest |-> c, num |-> num]>> ELSE <<>>
    PROVE  Boxes!MailNext
  <1>1. queue \in Seq(Msg) /\ Len(queue) \in Nat /\ num \in 1 .. MaxMsgs
    BY WasmConstants DEF WasmIInv, WasmTypeOK
  <1>2. PICK m \in 1 .. MaxMsgs : m = num BY <1>1
  <1>3. ASSUME NEW c \in Client
        PROVE  /\ Numbers(Waiting(c))' = IF c \in S THEN Append(Numbers(Waiting(c)), m)
                                         ELSE Numbers(Waiting(c))
               /\ c \in S => Len(Numbers(Waiting(c))) < MaxDepth + 1
    <2>1. PICK w \in Seq(Msg) :
            w = Waiting(c) /\ w = Held(ipc_msg, c) \o MessagesFor(queue, c) /\ Len(w) <= Len(queue) + 1
      BY WaitingLemma
    <2>2. MessagesFor(queue', c) = MessagesFor(queue, c) \o MessagesFor(p, c)
      BY <1>1, MessagesForConcat
    <2>3. PICK h \in Seq(Msg) : h = Held(ipc_msg, c)
      <3>1. <<>> \in Seq(Msg) /\ \A x \in Msg : <<x>> \in Seq(Msg) OBVIOUS
      <3>2. ipc_msg # Nobody => ipc_msg \in Msg BY DEF WasmIInv, WasmTypeOK
      <3> QED BY <3>1, <3>2 DEF Held
    <2>4. PICK q \in Seq(Msg) : q = MessagesFor(queue, c)
      BY <1>1, MessagesForType
    <2>5. Waiting(c)' = h \o (q \o MessagesFor(p, c))
      BY <2>2, <2>3, <2>4 DEF Waiting, Held
    <2>6. CASE c \in S
      <3>1. PICK x \in Msg : x = [dest |-> c, num |-> num] /\ x.num = m
        <4>1. [dest |-> c, num |-> num] \in Msg BY <1>1 DEF Msg
        <4>2. [dest |-> c, num |-> num].num = m BY <1>2
        <4> QED BY <4>1, <4>2
      <3>2. MessagesFor(p, c) = <<x>> BY <2>6, <3>1
      <3>3. h \o (q \o <<x>>) = (h \o q) \o <<x>> OBVIOUS
      <3>4. Waiting(c)' = w \o <<x>> BY <2>1, <2>3, <2>4, <2>5, <3>2, <3>3
      <3>5. Numbers(w \o <<x>>) = Append(Numbers(w), m) BY <3>1, NumbersAppend
      <3>6. Numbers(Waiting(c))' = Numbers(w \o <<x>>) BY <3>4 DEF Numbers
      <3>7. Len(Numbers(w)) = Len(w) BY NumbersType
      <3>8. Len(w) < MaxDepth + 1
        BY <1>1, <2>1, <2>6, WasmConstants
      <3> QED BY <2>1, <2>6, <3>5, <3>6, <3>7, <3>8
    <2>7. CASE c \notin S
      <3>1. h \o (q \o <<>>) = h \o q OBVIOUS
      <3>2. Waiting(c)' = w BY <2>1, <2>3, <2>4, <2>5, <2>7, <3>1
      <3>3. Numbers(Waiting(c))' = Numbers(w) BY <3>2 DEF Numbers
      <3> QED BY <2>1, <2>7, <3>3
    <2> QED BY <2>6, <2>7
  <1>4. m \notin 1 .. num - 1 /\ 1 .. num' - 1 = (1 .. num - 1) \cup {m}
    BY <1>1, <1>2
  <1> DEFINE B == [c \in Client |-> Numbers(Waiting(c))]
  <1>5. B' = [c \in Client |-> IF c \in S THEN Append(B[c], m) ELSE B[c]]
    BY <1>3
  <1>6. \A c \in S : Len(B[c]) < MaxDepth + 1 BY <1>3
  <1>7. [c \in Client |-> Numbers(arrived[c])]' = [c \in Client |-> Numbers(arrived[c])]
    BY DEF Numbers
  <1>8. Boxes!Put(S, m)
    BY <1>2, <1>4, <1>5, <1>6, <1>7 DEF Boxes!Put
  <1> QED BY <1>8 DEF Boxes!MailNext

(* The message in the loop's hands is the first of its guest's box; when   *)
(* the loop is done with it the box loses its first message.               *)
LEMMA HeadLemma ==
    ASSUME WasmIInv, phase \in {"allocating", "writing", "receiving"},
           ipc_msg' = Nobody, queue' = queue
    PROVE  /\ guest \in Client /\ ipc_msg \in Msg /\ ipc_msg.dest = guest
           /\ Numbers(Waiting(guest)) # <<>>
           /\ Head(Numbers(Waiting(guest))) = ipc_msg.num
           /\ \A c \in Client : Numbers(Waiting(c))' =
                 IF c = guest THEN Tail(Numbers(Waiting(c))) ELSE Numbers(Waiting(c))
  <1>1. queue \in Seq(Msg) BY DEF WasmIInv, WasmTypeOK
  <1>2. guest \in Client /\ ipc_msg \in Msg /\ ipc_msg # Nobody /\ ipc_msg.dest = guest
    BY DEF WasmIInv, WasmTypeOK, LoopHolds
  <1>3. PICK m \in Msg : m = ipc_msg BY <1>2
  <1>4. ASSUME NEW c \in Client
        PROVE  /\ Waiting(c) = (IF c = guest THEN <<m>> ELSE <<>>) \o MessagesFor(queue, c)
               /\ Numbers(Waiting(c))' = Numbers(MessagesFor(queue, c))
    <2>1. Waiting(c) = (IF c = guest THEN <<m>> ELSE <<>>) \o MessagesFor(queue, c)
      BY <1>2, <1>3 DEF Waiting
    <2>2. PICK q \in Seq(Msg) : q = MessagesFor(queue, c) BY <1>1, MessagesForType
    <2>3. <<>> \o q = q OBVIOUS
    <2>4. Waiting(c)' = <<>> \o q BY <2>2 DEF Waiting
    <2>5. Numbers(Waiting(c))' = Numbers(q) BY <2>3, <2>4 DEF Numbers
    <2> QED BY <2>1, <2>2, <2>5
  <1>5. PICK q \in Seq(Msg) : q = MessagesFor(queue, guest) BY <1>1, <1>2, MessagesForType
  <1>6. Waiting(guest) = <<m>> \o q BY <1>2, <1>4, <1>5
  <1>7. /\ Numbers(Waiting(guest)) # <<>> /\ Head(Numbers(Waiting(guest))) = m.num
        /\ Tail(Numbers(Waiting(guest))) = Numbers(q)
    BY <1>6, NumbersHead
  <1>8. ASSUME NEW c \in Client, c # guest PROVE Waiting(c) = MessagesFor(queue, c)
    <2>1. PICK r \in Seq(Msg) : r = MessagesFor(queue, c) BY <1>1, MessagesForType
    <2>2. <<>> \o r = r OBVIOUS
    <2> QED BY <1>4, <1>8, <2>1, <2>2
  <1>9. ASSUME NEW c \in Client
        PROVE  Numbers(Waiting(c))' =
                 IF c = guest THEN Tail(Numbers(Waiting(c))) ELSE Numbers(Waiting(c))
    <2>1. CASE c = guest BY <1>4, <1>5, <1>7, <2>1
    <2>2. CASE c # guest BY <1>4, <1>8, <2>2
    <2> QED BY <2>1, <2>2
  <1> QED BY <1>2, <1>3, <1>7, <1>9

(* Nothing is waiting for anybody in an empty queue. *)
LEMMA MessagesForEmpty ==
    ASSUME NEW c \in Client PROVE MessagesFor(<<>>, c) = <<>>
  <1>1. <<>> \in Seq(Msg) OBVIOUS
  <1>2. PICK q \in Seq(Msg) : q = <<>> BY <1>1
  <1>3. Len(q) = 0 BY <1>2
  <1>4. \A i \in 1 .. Len(q) : q[i].dest # c BY <1>3
  <1> QED BY <1>2, <1>4, MessagesForNone

(* What publish queues is one message for each subscriber it reaches. *)
LEMMA PublishedFor ==
    ASSUME WasmIInv, num <= MaxMsgs, NEW c \in Client
    PROVE  MessagesFor(Published, c) =
              IF c \in {subscribers[i] : i \in 1 .. Reached}
              THEN <<[dest |-> c, num |-> num]>> ELSE <<>>
  <1>1. /\ Reached \in 0 .. Len(subscribers) /\ Len(subscribers) \in Nat
        /\ Published \in Seq(Msg) /\ Len(Published) = Reached
        /\ \A i \in 1 .. Reached : Published[i] = [dest |-> subscribers[i], num |-> num]
    BY PublishedLemma DEF WasmIInv, WasmTypeOK
  <1>2. PICK p \in Seq(Msg) : p = Published BY <1>1
  <1>3. \A i \in 1 .. Len(p) : p[i] = [dest |-> subscribers[i], num |-> num]
                              /\ p[i].dest = subscribers[i] /\ i \in 1 .. Len(subscribers)
    BY <1>1, <1>2
  <1>4. CASE c \in {subscribers[i] : i \in 1 .. Reached}
    <2>1. PICK k \in 1 .. Len(p) : c = subscribers[k] BY <1>1, <1>2, <1>4
    <2>2. PICK a \in Seq(Msg), b \in Seq(Msg) : Around(a, b, p, k, c)
      BY MessagesForSplit
    <2>3. \A i \in 1 .. Len(p) : i # k => p[i].dest # c
      BY <1>3, <2>1 DEF WasmIInv, SubscribedOnce
    <2>4. /\ \A i \in 1 .. k - 1 : i \in 1 .. Len(p) /\ i # k
          /\ \A i \in k + 1 .. Len(p) : i \in 1 .. Len(p) /\ i # k
      OBVIOUS
    <2>5. a = <<>> /\ b = <<>> BY <2>2, <2>3, <2>4 DEF Around
    <2>6. PICK m \in Msg : m = p[k] /\ m.dest = c /\ m = [dest |-> c, num |-> num]
      <3>1. p[k] \in Msg BY <1>2
      <3>2. p[k] = [dest |-> c, num |-> num] /\ p[k].dest = c BY <1>3, <2>1
      <3> QED BY <3>1, <3>2
    <2>7. MessagesFor(p, c) = (<<>> \o <<m>>) \o <<>> BY <2>2, <2>5, <2>6 DEF Around
    <2>8. (<<>> \o <<m>>) \o <<>> = <<m>> OBVIOUS
    <2> QED BY <1>2, <1>4, <2>6, <2>7, <2>8
  <1>5. CASE c \notin {subscribers[i] : i \in 1 .. Reached}
    <2>1. \A i \in 1 .. Len(p) : p[i].dest # c BY <1>1, <1>2, <1>3, <1>5
    <2> QED BY <1>2, <1>5, <2>1, MessagesForNone
  <1> QED BY <1>4, <1>5

(* Every step is a step of the mailbox, or leaves it alone. *)
LEMMA WasmMailStep ==
    WasmIInv /\ WasmIInv' /\ [WasmNext]_wasmVars => [Boxes!MailNext]_(Boxes!mailVars)
  <1> SUFFICES ASSUME WasmIInv, WasmIInv', [WasmNext]_wasmVars
               PROVE  [Boxes!MailNext]_(Boxes!mailVars)
    OBVIOUS
  <1> DEFINE B == [c \in Client |-> Numbers(Waiting(c))]
             K == [c \in Client |-> Numbers(arrived[c])]
             D == {<<m.dest, m.num>> : m \in lost}
  <1>1. ASSUME \A c \in Client : Waiting(c)' = Waiting(c), UNCHANGED <<num, arrived, lost>>
        PROVE  [Boxes!MailNext]_(Boxes!mailVars)
    <2>1. B' = B BY <1>1 DEF Numbers
    <2>2. K' = K BY <1>1 DEF Numbers
    <2> QED BY <1>1, <2>1, <2>2 DEF Boxes!mailVars
  <1>2. ASSUME UNCHANGED <<queue, ipc_msg, num, arrived, lost>>
        PROVE  [Boxes!MailNext]_(Boxes!mailVars)
    BY <1>1, <1>2 DEF Waiting
  <1>3. CASE \/ \E m \in Client : \/ \E cap \in Grantable[m] : grant_capability(m, cap)
                                  \/ call_function(m) \/ deliver_pending_messages(m)
             \/ GuestReturns \/ NothingLeft \/ BufferReturned \/ MessageWritten
             \/ \E input \in Input : PublishRefused(input)
             \/ \E input \in Input, c \in Client : SendRefused(c, input)
             \/ \E input \in TopicInput : TopicPanics(input)
    BY <1>2, <1>3, QuietSteps
  <1>4. CASE UNCHANGED wasmVars BY <1>2, <1>4 DEF wasmVars
  <1>5. ASSUME NEW c \in Client, NEW input \in TopicInput, Subscribe(c, input)
        PROVE  [Boxes!MailNext]_(Boxes!mailVars)
    BY <1>2, <1>5 DEF Subscribe, loopVars
  <1>6. CASE TakeFirst
    <2>1. UNCHANGED <<num, arrived, lost>> BY <1>6 DEF TakeFirst
    <2> QED BY <1>1, <1>6, <2>1, TakeKeepsWaiting
  <1>7. CASE BufferFails
    <2>1. UNCHANGED <<num, arrived, lost>> BY <1>7 DEF BufferFails, LoopEnds
    <2> QED BY <1>1, <1>7, <2>1, RequeueKeepsWaiting
  <1>8. CASE Publish
    <2>1. /\ num <= MaxMsgs /\ queue' = queue \o Published /\ num' = num + 1
          /\ ipc_msg' = ipc_msg /\ UNCHANGED <<arrived, lost>>
      BY <1>8 DEF Publish, loopVars
    <2>2. PICK S \in SUBSET Client : S = {subscribers[i] : i \in 1 .. Reached}
      <3>1. \A i \in 1 .. Reached : subscribers[i] \in Client
        <4>1. Reached \in 0 .. Len(subscribers) /\ subscribers \in Seq(Client)
          BY <2>1, PublishedLemma DEF WasmIInv, WasmTypeOK
        <4> QED BY <4>1
      <3> QED BY <3>1
    <2>3. S # {} => Len(queue) < MaxDepth
      <3>1. /\ Reached \in 0 .. Len(subscribers)
            /\ Reached > 0 => Len(queue) + Reached <= MaxDepth
            /\ Len(queue) \in Nat /\ Len(subscribers) \in Nat
        BY <2>1, PublishedLemma DEF WasmIInv, WasmTypeOK
      <3>2. S # {} => Reached > 0 BY <2>2, <3>1
      <3> QED BY <3>1, <3>2, WasmConstants
    <2>4. \A c \in Client : MessagesFor(Published, c) =
              IF c \in S THEN <<[dest |-> c, num |-> num]>> ELSE <<>>
      BY <2>1, <2>2, PublishedFor
    <2>5. Published \in Seq(Msg) BY <2>1, PublishedLemma DEF WasmIInv
    <2>6. PICK p \in Seq(Msg) : p = Published BY <2>5
    <2> QED BY <2>1, <2>3, <2>4, <2>6, PutLemma
  <1>9. ASSUME NEW c \in Client, NEW input \in Input, SendQueued(c, input)
        PROVE  [Boxes!MailNext]_(Boxes!mailVars)
    <2>1. /\ num <= MaxMsgs /\ queue' = Append(queue, [dest |-> c, num |-> num])
          /\ num' = num + 1 /\ SendRefusal(guest, c, input) = 0
          /\ ipc_msg' = ipc_msg /\ UNCHANGED <<arrived, lost>>
      BY <1>9 DEF SendQueued, loopVars
    <2>2. queue \in Seq(Msg) /\ Len(queue) \in Nat BY DEF WasmIInv, WasmTypeOK
    <2>3. Len(queue) < MaxDepth BY <2>1, <2>2, WasmConstants DEF SendRefusal
    <2>4. [dest |-> c, num |-> num] \in Msg
      BY <2>1, WasmConstants DEF WasmIInv, WasmTypeOK, Msg
    <2>5. PICK m \in Msg : m = [dest |-> c, num |-> num] /\ m.dest = c BY <2>4
    <2>6. queue' = queue \o <<m>> BY <2>1, <2>2, <2>5
    <2>7. PICK S \in SUBSET Client : S = {c} OBVIOUS
    <2>8. PICK p \in Seq(Msg) : p = <<m>>
      <3>1. <<m>> \in Seq(Msg) OBVIOUS
      <3> QED BY <3>1
    <2>9. \A d \in Client : MessagesFor(p, d) =
              IF d \in S THEN <<[dest |-> d, num |-> num]>> ELSE <<>>
      BY <2>5, <2>7, <2>8, MessagesForOne
    <2> QED BY <2>1, <2>3, <2>6, <2>8, <2>9, PutLemma
  <1>10. ASSUME ipc_msg' = Nobody, queue' = queue, num' = num,
                phase \in {"allocating", "writing", "receiving"}
         PROVE  /\ guest \in Client /\ ipc_msg \in Msg /\ ipc_msg.dest = guest
                /\ B[guest] # <<>> /\ Head(B[guest]) = ipc_msg.num
                /\ B' = [B EXCEPT ![guest] = Tail(@)]
    <2>1. /\ guest \in Client /\ ipc_msg \in Msg /\ ipc_msg.dest = guest
          /\ Numbers(Waiting(guest)) # <<>>
          /\ Head(Numbers(Waiting(guest))) = ipc_msg.num
          /\ \A c \in Client : Numbers(Waiting(c))' =
                IF c = guest THEN Tail(Numbers(Waiting(c))) ELSE Numbers(Waiting(c))
      BY <1>10, HeadLemma
    <2> QED BY <2>1
  <1>11. CASE Received
    <2>1. /\ phase = "receiving" /\ ipc_msg' = Nobody /\ UNCHANGED <<queue, num, lost>>
          /\ arrived' = [arrived EXCEPT ![guest] = Append(arrived[guest], ipc_msg)]
      BY <1>11 DEF Received
    <2>2. /\ guest \in Client /\ ipc_msg \in Msg
          /\ B[guest] # <<>> /\ Head(B[guest]) = ipc_msg.num
          /\ B' = [B EXCEPT ![guest] = Tail(@)]
      BY <1>10, <2>1
    <2>3. arrived \in [Client -> Seq(Msg)] BY DEF WasmIInv, WasmTypeOK
    <2>4. Numbers(Append(arrived[guest], ipc_msg)) = Append(Numbers(arrived[guest]), ipc_msg.num)
      <3>1. PICK s \in Seq(Msg), m \in Msg : s = arrived[guest] /\ m = ipc_msg BY <2>2, <2>3
      <3>2. Append(s, m) = s \o <<m>> OBVIOUS
      <3> QED BY <3>1, <3>2, NumbersAppend
    <2>5. K' = [K EXCEPT ![guest] = Append(@, Head(B[guest]))]
      <3>1. \A c \in Client : c # guest => arrived'[c] = arrived[c] BY <2>1, <2>3
      <3>2. arrived'[guest] = Append(arrived[guest], ipc_msg) BY <2>1, <2>2, <2>3
      <3>3. \A c \in Client : Numbers(arrived'[c]) =
               IF c = guest THEN Append(Numbers(arrived[c]), Head(B[guest])) ELSE Numbers(arrived[c])
        BY <2>2, <2>4, <3>1, <3>2
      <3>4. K' = [c \in Client |-> Numbers(arrived'[c])] BY DEF Numbers
      <3> HIDE DEF B
      <3> QED BY <2>2, <3>3, <3>4
    <2>6. Boxes!Take(guest) BY <2>1, <2>2, <2>5 DEF Boxes!Take
    <2> QED BY <2>2, <2>6 DEF Boxes!MailNext
  <1>12. CASE GiveUp \/ NoMemoryExport
    <2>1. /\ phase \in {"allocating", "writing", "receiving"} /\ ipc_msg' = Nobody
          /\ UNCHANGED <<queue, num, arrived>> /\ lost' = lost \cup {ipc_msg}
      BY <1>12 DEF GiveUp, NoMemoryExport, LoopEnds
    <2>2. /\ guest \in Client /\ ipc_msg \in Msg /\ ipc_msg.dest = guest
          /\ B[guest] # <<>> /\ Head(B[guest]) = ipc_msg.num
          /\ B' = [B EXCEPT ![guest] = Tail(@)]
      BY <1>10, <2>1
    <2>3. D' = D \cup {<<guest, Head(B[guest])>>}
      <3> HIDE DEF B
      <3> QED BY <2>1, <2>2
    <2>4. K' = K BY <2>1 DEF Numbers
    <2>5. PICK o \in Client : o = guest BY <2>2
    <2>6. Boxes!Drop(o) BY <2>1, <2>2, <2>3, <2>4, <2>5 DEF Boxes!Drop
    <2> QED BY <2>6 DEF Boxes!MailNext
  <1>13. CASE clear_ipc_queue
    <2>1. /\ phase = "idle" /\ queue' = <<>> /\ ipc_msg' = ipc_msg
          /\ UNCHANGED <<num, arrived>> /\ lost' = lost \cup {queue[i] : i \in DOMAIN queue}
      BY <1>13 DEF clear_ipc_queue, loopVars
    <2>2. queue \in Seq(Msg) /\ DOMAIN queue = 1 .. Len(queue) BY DEF WasmIInv, WasmTypeOK
    <2>3. ipc_msg = Nobody BY <2>1 DEF WasmIInv, LoopHolds
    <2>4. B' = [c \in Client |-> <<>>]
      <3>1. ASSUME NEW c \in Client PROVE Numbers(Waiting(c))' = <<>>
        <4>1. MessagesFor(queue', c) = <<>>
          BY <2>1, MessagesForEmpty
        <4>2. Waiting(c)' = <<>> BY <2>1, <2>3, <4>1 DEF Waiting
        <4> QED BY <4>2 DEF Numbers
      <3> QED BY <3>1
    <2>5. ASSUME NEW c \in Client, NEW d
          PROVE  d \in {<<c, B[c][i]>> : i \in DOMAIN B[c]}
                    <=> \E j \in 1 .. Len(queue) : queue[j].dest = c /\ d = <<c, queue[j].num>>
      <3>1. PICK w \in Seq(Msg) : w = MessagesFor(queue, c) /\ w = Waiting(c)
        BY <2>2, <2>3, WaitingLemma, MessagesForType
      <3>2. PICK b \in Seq(1 .. MaxMsgs) :
              b = B[c] /\ Len(b) = Len(w) /\ \A i \in 1 .. Len(w) : b[i] = w[i].num
        BY <3>1, NumbersType
      <3>3. \A x \in Msg : (\E i \in 1 .. Len(w) : w[i] = x)
                     <=> (\E j \in 1 .. Len(queue) : queue[j] = x /\ queue[j].dest = c)
        <4>1. PICK q \in Seq(Msg) : q = queue BY <2>2
        <4> SUFFICES ASSUME NEW x \in Msg
                     PROVE  (\E i \in 1 .. Len(w) : w[i] = x)
                               <=> (\E j \in 1 .. Len(q) : q[j] = x /\ q[j].dest = c)
          BY <4>1
        <4>2. w = MessagesFor(q, c) BY <3>1, <4>1
        <4>3. (\E i \in 1 .. Len(MessagesFor(q, c)) : MessagesFor(q, c)[i] = x)
                 <=> (\E j \in 1 .. Len(q) : q[j] = x /\ q[j].dest = c)
          BY MessagesForElements
        <4> QED BY <4>2, <4>3
      <3> HIDE DEF B
      <3>4. DOMAIN b = 1 .. Len(w) BY <3>2
      <3>5. d \in {<<c, b[i]>> : i \in DOMAIN b} <=> \E i \in 1 .. Len(w) : d = <<c, w[i].num>>
        BY <3>2, <3>4
      <3>6. (\E i \in 1 .. Len(w) : d = <<c, w[i].num>>)
               <=> \E j \in 1 .. Len(queue) : queue[j].dest = c /\ d = <<c, queue[j].num>>
        <4>1. /\ \A i \in 1 .. Len(w) : w[i] \in Msg
              /\ \A j \in 1 .. Len(queue) : queue[j] \in Msg
          BY <2>2
        <4> QED BY <3>3, <4>1
      <3> QED BY <3>2, <3>5, <3>6
    <2>6. D' = D \cup UNION {{<<c, B[c][i]>> : i \in DOMAIN B[c]} : c \in Client}
      <3> HIDE DEF B
      <3>1. \A j \in 1 .. Len(queue) : queue[j].dest \in Client
        <4>1. \A m \in Msg : m.dest \in Client BY DEF Msg
        <4>2. \A j \in 1 .. Len(queue) : queue[j] \in Msg BY <2>2
        <4> QED BY <4>1, <4>2
      <3>2. \A d : d \in UNION {{<<c, B[c][i]>> : i \in DOMAIN B[c]} : c \in Client}
                    <=> \E j \in 1 .. Len(queue) : d = <<queue[j].dest, queue[j].num>>
        BY <2>5, <3>1
      <3>3. \A d : d \in D' <=> d \in D \/ \E j \in 1 .. Len(queue) : d = <<queue[j].dest, queue[j].num>>
        BY <2>1, <2>2
      <3> QED BY <3>2, <3>3
    <2>7. K' = K BY <2>1 DEF Numbers
    <2>8. Boxes!Clear BY <2>1, <2>4, <2>6, <2>7 DEF Boxes!Clear
    <2> QED BY <2>8 DEF Boxes!MailNext
  <1>14. CASE KernelStep BY <1>3, <1>13, <1>14 DEF KernelStep
  <1>15. CASE LoopStep BY <1>3, <1>6, <1>7, <1>11, <1>12, <1>15 DEF LoopStep
  <1>16. CASE HostStep
    <2>1. ASSUME NEW input \in TopicInput, NEW c \in Client, host_sys_mqtt_subscribe(c, input)
          PROVE  [Boxes!MailNext]_(Boxes!mailVars)
      BY <1>3, <1>5, <1>8, <1>9, <2>1 DEF host_sys_mqtt_subscribe
    <2>2. ASSUME NEW input \in Input,
                 \/ host_sys_mqtt_publish(input)
                 \/ \E c \in Client : host_sys_ipc_send(c, input)
          PROVE  [Boxes!MailNext]_(Boxes!mailVars)
      BY <1>3, <1>5, <1>8, <1>9, <2>2 DEF host_sys_mqtt_publish, host_sys_ipc_send
    <2> QED BY <1>16, <2>1, <2>2 DEF HostStep
  <1> QED BY <1>4, <1>14, <1>15, <1>16 DEF WasmNext

(* The queue and the delivery loop implement a lossy mailbox: for each     *)
(* guest what was queued arrives at most once and in order, and only a     *)
(* failure of the guest or a clear loses a message.                        *)
THEOREM WasmImplementsMailbox == WasmSpec => ImplementsMailbox
  <1>1. WasmInit => Boxes!MailInit
    <2> SUFFICES ASSUME WasmInit PROVE Boxes!MailInit
      OBVIOUS
    <2>1. ASSUME NEW c \in Client PROVE Numbers(Waiting(c)) = <<>>
      <3>1. MessagesFor(<<>>, c) = <<>> BY MessagesForEmpty
      <3>2. Waiting(c) = <<>> BY <3>1 DEF Waiting, WasmInit
      <3> QED BY <3>2 DEF Numbers
    <2>2. \A c \in Client : Numbers(arrived[c]) = <<>> BY DEF WasmInit, Numbers
    <2>3. [c \in Client |-> 1 .. MaxMsgs] \in [Client -> SUBSET (1 .. MaxMsgs)] OBVIOUS
    <2>4. 1 .. num - 1 = {} BY DEF WasmInit
    <2>5. {<<m.dest, m.num>> : m \in lost} = {} BY DEF WasmInit
    <2> QED BY <2>1, <2>2, <2>3, <2>4, <2>5 DEF Boxes!MailInit
  <1> QED BY <1>1, WasmInvariant, WasmMailStep, PTL DEF WasmSpec, ImplementsMailbox, Boxes!MailSpec

=============================================================================
