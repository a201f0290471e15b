------------------------------ MODULE Mailbox ------------------------------
(***************************************************************************)
(* What message passing promises, whoever implements it: each owner has a  *)
(* bounded box; a message enters the boxes of some owners at most once,    *)
(* and only where it is allowed; it leaves a box in first-in first-out     *)
(* order, by being taken or, in a lossy mailbox, by being dropped, and     *)
(* what is dropped is on record.  Ipc (one box for each endpoint) and      *)
(* WasmIpc (one for each guest, lossy) are shown to implement it.          *)
(***************************************************************************)
EXTENDS Naturals, Sequences

CONSTANTS
    Owner,      \* who has a box
    Msg,        \* the messages
    Capacity,   \* how many messages a box holds
    Lossy       \* may messages be dropped?

VARIABLES
    allowed,    \* the messages that may enter each owner's box, fixed at the start
    box,        \* the messages waiting for each owner, oldest first
    used,       \* the messages that have been put
    taken,      \* what each owner took, in order
    dropped     \* the dropped messages, each with its owner

mailVars == <<allowed, box, used, taken, dropped>>

MailInit ==
    /\ allowed \in [Owner -> SUBSET Msg]
    /\ box = [o \in Owner |-> <<>>]
    /\ used = {}
    /\ taken = [o \in Owner |-> <<>>]
    /\ dropped = {}

(* Message m enters the boxes of the owners in S, possibly of none. *)
Put(S, m) ==
    /\ m \notin used
    /\ \A o \in S : m \in allowed[o] /\ Len(box[o]) < Capacity
    /\ box' = [o \in Owner |-> IF o \in S THEN Append(box[o], m) ELSE box[o]]
    /\ used' = used \cup {m}
    /\ UNCHANGED <<allowed, taken, dropped>>

Take(o) ==
    /\ box[o] # <<>>
    /\ box' = [box EXCEPT ![o] = Tail(@)]
    /\ taken' = [taken EXCEPT ![o] = Append(@, Head(box[o]))]
    /\ UNCHANGED <<allowed, used, dropped>>

Drop(o) ==
    /\ Lossy /\ box[o] # <<>>
    /\ box' = [box EXCEPT ![o] = Tail(@)]
    /\ dropped' = dropped \cup {<<o, Head(box[o])>>}
    /\ UNCHANGED <<allowed, used, taken>>

Clear ==
    /\ Lossy
    /\ box' = [o \in Owner |-> <<>>]
    /\ dropped' = dropped \cup UNION {{<<o, box[o][i]>> : i \in DOMAIN box[o]} : o \in Owner}
    /\ UNCHANGED <<allowed, used, taken>>

MailNext ==
    \/ \E m \in Msg : \E S \in SUBSET Owner : Put(S, m)
    \/ \E o \in Owner : Take(o) \/ Drop(o)
    \/ Clear

MailSpec == MailInit /\ [][MailNext]_mailVars

=============================================================================
