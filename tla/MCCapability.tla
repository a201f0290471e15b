---------------------------- MODULE MCCapability ----------------------------
(* Capability for TLC, with a check of the rights encoding. *)
EXTENDS Capability, TLC

CONSTANTS mem, ep

(* A memory region with every right, an endpoint for reading, one for writing. *)
SomeCaps == {[resource |-> mem, rights |-> Right],
             [resource |-> ep, rights |-> {"read"}],
             [resource |-> ep, rights |-> {"write"}]}

(* encode_rights and the decoding in sys_cap_derive are inverse to each     *)
(* other, and bits above the four rights are ignored.                       *)
ASSUME RightsRoundTrip ==
    /\ \A rights \in SUBSET Right : decode_rights(encode_rights(rights)) = rights
    /\ \A bits \in 0 .. 63 : encode_rights(decode_rights(bits)) = bits % 16
=============================================================================
