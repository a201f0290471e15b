----------------------------- MODULE Capability -----------------------------
(***************************************************************************)
(* One capability space (struct CSpace of src/src/capability.rs) and the   *)
(* system calls on it (struct SyscallContext of src/src/syscall.rs).  The  *)
(* kernel adds capabilities, either under the next free id (create) or     *)
(* under an id of its own choice (insert, as test_scheduler of main.rs     *)
(* does); the user derives, revokes and invokes them.                      *)
(***************************************************************************)
EXTENDS Naturals, FiniteSets

CONSTANTS
    Resource,       \* the (resource_type, resource_id) pairs
    KernelCaps,     \* the capabilities the kernel puts in
    ExplicitIds,    \* the ids the kernel passes to insert itself
    MaxId           \* bound on next_id (a u64 in the code)

(* Rights: a set of named rights instead of four booleans. *)
Right == {"read", "write", "execute", "grant"}

Cap == [resource : Resource, rights : SUBSET Right]

ASSUME CapAssumption ==
    /\ MaxId \in Nat
    /\ ExplicitIds \subseteq Nat
    /\ KernelCaps \subseteq Cap

Bit == [read |-> 1, write |-> 2, execute |-> 4, grant |-> 8]

(* encode_rights, and the decoding at the start of sys_cap_derive. *)
encode_rights(rights) ==
    (IF "read" \in rights THEN Bit.read ELSE 0)
    + (IF "write" \in rights THEN Bit.write ELSE 0)
    + (IF "execute" \in rights THEN Bit.execute ELSE 0)
    + (IF "grant" \in rights THEN Bit.grant ELSE 0)

decode_rights(bits) == {r \in Right : (bits \div Bit[r]) % 2 = 1}

(* Mutant: one common right is enough. *)
MutHasAny(rights, other) == other = {} \/ rights \cap other # {}

(* Rights::has *)
has(rights, other) == other \subseteq rights

VARIABLES
    capabilities,   \* BTreeMap<CapabilityId, Capability>: a function on the ids in use
    next_id,
    result,         \* the SyscallResult of the last system call, with its number and id
    granted,        \* history: every capability the kernel has put in
    revoked         \* history: every id that has been revoked

capVars == <<capabilities, next_id, result, granted, revoked>>

NoResult == [num |-> "none", id |-> 0, ok |-> TRUE, value |-> 0]

(* BTreeMap::insert and remove. *)
Put(m, id, cap) == [i \in DOMAIN m \cup {id} |-> IF i = id THEN cap ELSE m[i]]

Drop(m, id) == [i \in DOMAIN m \ {id} |-> m[i]]

-----------------------------------------------------------------------------
(* CSpace::new *)
CSpaceNew ==
    /\ capabilities = [i \in {} |-> 0]
    /\ next_id = 1
    /\ result = NoResult
    /\ granted = {}
    /\ revoked = {}

(* Kernel: Capability::new with an explicit id, then CSpace::insert, which *)
(* replaces what the id named and leaves next_id alone.                    *)
insert(id, cap) ==
    /\ capabilities' = Put(capabilities, id, cap)
    /\ granted' = granted \cup {cap}
    /\ UNCHANGED <<next_id, result, revoked>>

(* Kernel: CSpace::create *)
create(cap) ==
    /\ next_id <= MaxId
    /\ capabilities' = Put(capabilities, next_id, cap)
    /\ next_id' = next_id + 1
    /\ granted' = granted \cup {cap}
    /\ UNCHANGED <<result, revoked>>

-----------------------------------------------------------------------------
(* System calls.  Return(num, id, ok, value) is the SyscallResult. *)
Return(num, id, ok, value) ==
    result' = [num |-> num, id |-> id, ok |-> ok, value |-> value]

(* sys_cap_derive and CSpace::derive: no source, no effect; rights that    *)
(* are not a subset burn an id; otherwise the new capability goes under    *)
(* next_id, whatever is there.                                             *)
DeriveNoSource(source_id, rights) ==
    /\ source_id \notin DOMAIN capabilities
    /\ Return("derive", source_id, FALSE, 0)
    /\ UNCHANGED <<capabilities, next_id, granted, revoked>>

DeriveRefused(source_id, rights) ==
    /\ source_id \in DOMAIN capabilities
    /\ next_id <= MaxId
    /\ ~has(capabilities[source_id].rights, rights)
    /\ next_id' = next_id + 1
    /\ Return("derive", source_id, FALSE, 0)
    /\ UNCHANGED <<capabilities, granted, revoked>>

(* Mutant: next_id is not advanced. *)
MutDeriveReusesId(source_id, rights) ==
    /\ source_id \in DOMAIN capabilities
    /\ next_id <= MaxId
    /\ has(capabilities[source_id].rights, rights)
    /\ capabilities' = Put(capabilities, next_id,
                           [capabilities[source_id] EXCEPT !.rights = rights])
    /\ Return("derive", source_id, TRUE, next_id)
    /\ UNCHANGED <<next_id, granted, revoked>>

(* Mutant: the id of the source instead of its resource. *)
MutDeriveFromId(source_id, rights) ==
    /\ source_id \in DOMAIN capabilities
    /\ next_id <= MaxId
    /\ has(capabilities[source_id].rights, rights)
    /\ capabilities' = Put(capabilities, next_id, [resource |-> source_id, rights |-> rights])
    /\ next_id' = next_id + 1
    /\ Return("derive", source_id, TRUE, next_id)
    /\ UNCHANGED <<granted, revoked>>

DeriveGranted(source_id, rights) ==
    /\ source_id \in DOMAIN capabilities
    /\ next_id <= MaxId
    /\ has(capabilities[source_id].rights, rights)
    /\ capabilities' = Put(capabilities, next_id,
                           [capabilities[source_id] EXCEPT !.rights = rights])
    /\ next_id' = next_id + 1
    /\ Return("derive", source_id, TRUE, next_id)
    /\ UNCHANGED <<granted, revoked>>

sys_cap_derive(source_id, rights_bits) ==
    \/ DeriveNoSource(source_id, decode_rights(rights_bits))
    \/ DeriveRefused(source_id, decode_rights(rights_bits))
    \/ DeriveGranted(source_id, decode_rights(rights_bits))

(* sys_cap_revoke and CSpace::revoke: only the entry itself goes, not what *)
(* was derived from it.                                                    *)
sys_cap_revoke(id) ==
    /\ Return("revoke", id, id \in DOMAIN capabilities, 0)
    /\ capabilities' = Drop(capabilities, id)
    /\ revoked' = revoked \cup (DOMAIN capabilities \cap {id})
    /\ UNCHANGED <<next_id, granted>>

(* sys_cap_invoke: the capability must exist. *)
sys_cap_invoke(id) ==
    /\ Return("invoke", id, id \in DOMAIN capabilities,
              IF id \in DOMAIN capabilities THEN 1 ELSE 0)
    /\ UNCHANGED <<capabilities, next_id, granted, revoked>>

(* sys_cap_create: always denied. *)
sys_cap_create ==
    /\ Return("create", 0, FALSE, 0)
    /\ UNCHANGED <<capabilities, next_id, granted, revoked>>

(* sys_print, and a number from_u64 does not know. *)
sys_other ==
    /\ \/ Return("print", 0, TRUE, 0)
       \/ Return("invalid", 0, FALSE, 0)
    /\ UNCHANGED <<capabilities, next_id, granted, revoked>>

-----------------------------------------------------------------------------
CapId == 1 .. MaxId

(* All four rights, and a bit above them that decoding ignores. *)
RightsBits == 0 .. 16

KernelNext ==
    \E cap \in KernelCaps : create(cap) \/ \E id \in ExplicitIds : insert(id, cap)

UserNext ==
    \/ \E id \in CapId : \/ \E bits \in RightsBits : sys_cap_derive(id, bits)
                         \/ sys_cap_revoke(id)
                         \/ sys_cap_invoke(id)
    \/ sys_cap_create
    \/ sys_other

CapNext == KernelNext \/ UserNext

CapSpec == CSpaceNew /\ [][CapNext]_capVars

-----------------------------------------------------------------------------
(* Type invariant of the capability space. *)
CapTypeOK ==
    /\ DOMAIN capabilities \subseteq Nat
    /\ \A id \in DOMAIN capabilities : capabilities[id] \in Cap
    /\ next_id \in Nat
    /\ granted \subseteq Cap
    /\ revoked \subseteq Nat

(* No sequence of derive, revoke and insert gives more authority over a    *)
(* resource than one capability the kernel has put in.                     *)
NoEscalation ==
    \A id \in DOMAIN capabilities : \E cap \in granted :
        /\ capabilities[id].resource = cap.resource
        /\ capabilities[id].rights \subseteq cap.rights

(* An id that the kernel does not insert under itself names the same       *)
(* resource and rights until it is revoked, also in a space where the      *)
(* kernel inserts under other ids (id 1 in the run).  It is not so of      *)
(* those: derive hands them out as well (MCCapabilityOverwrite).           *)
CapabilityNeverChanges ==
    [][\A id \in (DOMAIN capabilities \cap DOMAIN capabilities') \ ExplicitIds :
          capabilities'[id] = capabilities[id]]_capVars

(* derive adds a capability and leaves every existing one as it is, its    *)
(* source included.                                                        *)
DeriveKeepsOthers ==
    [][result' # result /\ result'.num = "derive"
          => \A id \in DOMAIN capabilities :
                /\ id \in DOMAIN capabilities'
                /\ capabilities'[id] = capabilities[id]]_capVars

(* An id that was revoked is never handed out again, unless the kernel     *)
(* inserts under it, so a stale id cannot reach another capability.        *)
RevokedStaysDead == DOMAIN capabilities \cap (revoked \ ExplicitIds) = {}

(* Invoking succeeds only with a capability that has a right. *)
InvokeNeedsRight ==
    (result.num = "invoke" /\ result.ok)
        => capabilities[result.id].rights # {}

(* The create system call succeeds. *)
CreateSucceeds == result.num = "create" => result.ok

=============================================================================
