-------------------------- MODULE CapabilityProofs --------------------------
(***************************************************************************)
(* Capability spaces of any size: authority never grows, and an id that    *)
(* create or derive hands out names one capability for good.               *)
(***************************************************************************)
EXTENDS Capability, TLAPS

CapIInv == CapTypeOK /\ NoEscalation

(* What the kernel puts in is covered by what it has put in. *)
LEMMA PutGranted ==
    ASSUME CapIInv, NEW id \in Nat, NEW cap \in KernelCaps,
           capabilities' = Put(capabilities, id, cap),
           granted' = granted \cup {cap},
           next_id' \in Nat, revoked' = revoked
    PROVE  CapIInv'
  <1>1. cap \in Cap BY CapAssumption
  <1>2. CapTypeOK' BY <1>1 DEF CapIInv, CapTypeOK, Put
  <1>3. NoEscalation'
    <2> SUFFICES ASSUME NEW i \in DOMAIN capabilities'
                 PROVE  \E g \in granted' : /\ capabilities'[i].resource = g.resource
                                            /\ capabilities'[i].rights \subseteq g.rights
      BY DEF NoEscalation
    <2>1. CASE i = id
      <3>1. capabilities'[i] = cap /\ cap \in granted' BY <2>1 DEF Put
      <3> QED BY <3>1
    <2>2. CASE i # id
      <3>1. i \in DOMAIN capabilities /\ capabilities'[i] = capabilities[i]
        BY <2>2 DEF Put
      <3> QED BY <3>1 DEF CapIInv, NoEscalation
    <2> QED BY <2>1, <2>2
  <1> QED BY <1>2, <1>3 DEF CapIInv

(* A derived capability is covered by what covers its source. *)
LEMMA PutDerived ==
    ASSUME CapIInv, NEW source_id, NEW rights \in SUBSET Right,
           DeriveGranted(source_id, rights)
    PROVE  CapIInv'
  <1> DEFINE src == capabilities[source_id]
             new == [src EXCEPT !.rights = rights]
  <1>1. /\ source_id \in DOMAIN capabilities /\ rights \subseteq src.rights
        /\ capabilities' = Put(capabilities, next_id, new)
        /\ next_id' = next_id + 1 /\ granted' = granted /\ revoked' = revoked
    BY DEF DeriveGranted, has
  <1>2. src \in Cap BY <1>1 DEF CapIInv, CapTypeOK
  <1>3. new \in Cap /\ new.resource = src.resource /\ new.rights = rights
    BY <1>2 DEF Cap
  <1>4. PICK g \in granted : src.resource = g.resource /\ src.rights \subseteq g.rights
    BY <1>1 DEF CapIInv, NoEscalation
  <1> HIDE DEF src, new
  <1>5. CapTypeOK' BY <1>1, <1>3 DEF CapIInv, CapTypeOK, Put
  <1>6. NoEscalation'
    <2> SUFFICES ASSUME NEW i \in DOMAIN capabilities'
                 PROVE  \E h \in granted' : /\ capabilities'[i].resource = h.resource
                                            /\ capabilities'[i].rights \subseteq h.rights
      BY DEF NoEscalation
    <2>1. CASE i = next_id
      <3>1. capabilities'[i] = new /\ g \in granted' BY <1>1, <2>1 DEF Put
      <3>2. new.resource = g.resource /\ new.rights \subseteq g.rights
        BY <1>1, <1>3, <1>4
      <3> QED BY <3>1, <3>2
    <2>2. CASE i # next_id
      <3>1. i \in DOMAIN capabilities /\ capabilities'[i] = capabilities[i]
        BY <1>1, <2>2 DEF Put
      <3> QED BY <3>1, <1>1 DEF CapIInv, NoEscalation
    <2> QED BY <2>1, <2>2
  <1> QED BY <1>5, <1>6 DEF CapIInv

(* Revoking takes an entry out and changes no other. *)
LEMMA DropKeeps ==
    ASSUME CapIInv, NEW id \in Nat, sys_cap_revoke(id)
    PROVE  CapIInv'
  <1>1. /\ DOMAIN capabilities' \subseteq DOMAIN capabilities
        /\ \A i \in DOMAIN capabilities' : capabilities'[i] = capabilities[i]
        /\ next_id' = next_id /\ granted' = granted
        /\ revoked' = revoked \cup (DOMAIN capabilities \cap {id})
    BY DEF sys_cap_revoke, Drop
  <1>2. CapTypeOK' BY <1>1 DEF CapIInv, CapTypeOK
  <1>3. NoEscalation' BY <1>1 DEF CapIInv, NoEscalation
  <1> QED BY <1>2, <1>3 DEF CapIInv

(* Every kernel operation and every system call preserves the invariant. *)
LEMMA CapStep == CapIInv /\ [CapNext]_capVars => CapIInv'
  <1> SUFFICES ASSUME CapIInv, [CapNext]_capVars PROVE CapIInv'
    OBVIOUS
  <1>0. next_id \in Nat BY DEF CapIInv, CapTypeOK
  <1>1. ASSUME UNCHANGED <<capabilities, next_id, granted, revoked>> PROVE CapIInv'
    BY <1>1 DEF CapIInv, CapTypeOK, NoEscalation
  <1>2. ASSUME NEW cap \in KernelCaps, create(cap) PROVE CapIInv'
    BY <1>0, <1>2, PutGranted DEF create
  <1>3. ASSUME NEW cap \in KernelCaps, NEW id \in ExplicitIds, insert(id, cap)
        PROVE  CapIInv'
    BY <1>0, <1>3, PutGranted, CapAssumption DEF insert
  <1>4. ASSUME NEW id \in CapId, NEW bits \in RightsBits, sys_cap_derive(id, bits)
        PROVE  CapIInv'
    <2> DEFINE rights == decode_rights(bits)
    <2>1. rights \in SUBSET Right BY DEF decode_rights
    <2> HIDE DEF rights
    <2>2. CASE DeriveNoSource(id, rights)
      BY <1>1, <2>2 DEF DeriveNoSource
    <2>3. CASE DeriveRefused(id, rights)
      BY <1>0, <2>3 DEF DeriveRefused, CapIInv, CapTypeOK, NoEscalation
    <2>4. CASE DeriveGranted(id, rights)
      BY <2>1, <2>4, PutDerived
    <2> QED BY <1>4, <2>2, <2>3, <2>4 DEF sys_cap_derive, rights
  <1>5. ASSUME NEW id \in CapId, sys_cap_revoke(id) PROVE CapIInv'
    BY <1>5, DropKeeps, CapAssumption DEF CapId
  <1>6. ASSUME NEW id \in CapId, sys_cap_invoke(id) PROVE CapIInv'
    BY <1>1, <1>6 DEF sys_cap_invoke
  <1>7. CASE sys_cap_create BY <1>1, <1>7 DEF sys_cap_create
  <1>8. CASE sys_other BY <1>1, <1>8 DEF sys_other
  <1>9. CASE UNCHANGED capVars BY <1>1, <1>9 DEF capVars
  <1> QED BY <1>2, <1>3, <1>4, <1>5, <1>6, <1>7, <1>8, <1>9
          DEF CapNext, KernelNext, UserNext

(* The capability space keeps its type and never holds more authority than *)
(* the kernel gave, whatever ids the kernel inserts under.                 *)
THEOREM CapInvariant == CapSpec => []CapIInv
  <1>1. CSpaceNew => CapIInv
    BY DEF CSpaceNew, CapIInv, CapTypeOK, NoEscalation
  <1> QED BY <1>1, CapStep, PTL DEF CapSpec

(* The table, the counter and the set of revoked ids keep their types. *)
THEOREM CapTypeCorrect == CapSpec => []CapTypeOK
  BY CapInvariant, PTL DEF CapIInv

(* Rights over a resource never grow. *)
THEOREM AuthorityNeverGrows == CapSpec => []NoEscalation
  BY CapInvariant, PTL DEF CapIInv

-----------------------------------------------------------------------------
(* next_id is above every id that was ever in use, apart from the ones the *)
(* kernel chose itself: the invariant behind the uniqueness of ids.        *)
IdsBelowNext ==
    \A id \in (DOMAIN capabilities \cup revoked) \ ExplicitIds : id < next_id

IdInv == CapTypeOK /\ IdsBelowNext /\ RevokedStaysDead

(* What a step can do to the ids. *)
LEMMA IdStep ==
    ASSUME IdInv, [CapNext]_capVars, CapIInv'
    PROVE  /\ IdInv'
           /\ \A id \in (DOMAIN capabilities \cap DOMAIN capabilities') \ ExplicitIds :
                 capabilities'[id] = capabilities[id]
  <1> DEFINE Own == (DOMAIN capabilities \cup revoked) \ ExplicitIds
             Goal == /\ IdInv'
                     /\ \A id \in (DOMAIN capabilities \cap DOMAIN capabilities') \ ExplicitIds :
                           capabilities'[id] = capabilities[id]
  <1>0. next_id \in Nat /\ DOMAIN capabilities \subseteq Nat /\ revoked \subseteq Nat
    BY DEF IdInv, CapTypeOK
  <1>00. \A id \in Own : id < next_id /\ id < next_id + 1
    <2> TAKE id \in Own
    <2>1. id \in Nat BY <1>0
    <2>2. id < next_id BY DEF IdInv, IdsBelowNext
    <2> QED BY <1>0, <2>1, <2>2
  <1>1. ASSUME capabilities' = capabilities, revoked' = revoked,
               next_id' \in {next_id, next_id + 1}
        PROVE  Goal
    <2>1. IdsBelowNext' BY <1>00, <1>1 DEF IdsBelowNext
    <2>2. RevokedStaysDead' BY <1>1 DEF IdInv, RevokedStaysDead
    <2> QED BY <1>1, <2>1, <2>2 DEF IdInv, CapIInv
  <1>2. ASSUME NEW cap, capabilities' = Put(capabilities, next_id, cap),
               next_id' = next_id + 1, revoked' = revoked
        PROVE  Goal
    <2>1. /\ DOMAIN capabilities' = DOMAIN capabilities \cup {next_id}
          /\ \A i \in DOMAIN capabilities : i # next_id => capabilities'[i] = capabilities[i]
      BY <1>2 DEF Put
    <2>2. next_id < next_id + 1 /\ ~(next_id < next_id) BY <1>0
    <2>3. next_id \notin Own BY <1>00, <2>2
    <2>4. IdsBelowNext' BY <1>00, <1>2, <2>1, <2>2 DEF IdsBelowNext
    <2>5. RevokedStaysDead' BY <1>2, <2>1, <2>3 DEF IdInv, RevokedStaysDead
    <2> QED BY <2>1, <2>3, <2>4, <2>5 DEF IdInv, CapIInv
  <1>3. ASSUME NEW id \in CapId, sys_cap_revoke(id) PROVE Goal
    <2>1. /\ DOMAIN capabilities' = DOMAIN capabilities \ {id}
          /\ \A i \in DOMAIN capabilities' : capabilities'[i] = capabilities[i]
          /\ revoked' = revoked \cup (DOMAIN capabilities \cap {id})
          /\ next_id' = next_id
      BY <1>3 DEF sys_cap_revoke, Drop
    <2> QED BY <1>0, <2>1 DEF IdInv, IdsBelowNext, RevokedStaysDead, CapIInv
  <1>4. ASSUME NEW id \in ExplicitIds, NEW cap, insert(id, cap) PROVE Goal
    <2>1. /\ DOMAIN capabilities' = DOMAIN capabilities \cup {id}
          /\ \A i \in DOMAIN capabilities : i # id => capabilities'[i] = capabilities[i]
          /\ revoked' = revoked /\ next_id' = next_id
      BY <1>4 DEF insert, Put
    <2>2. IdsBelowNext' BY <2>1 DEF IdInv, IdsBelowNext
    <2>3. RevokedStaysDead' BY <2>1 DEF IdInv, RevokedStaysDead
    <2> QED BY <2>1, <2>2, <2>3 DEF IdInv, CapIInv
  <1> HIDE DEF Goal, Own
  <1>5. ASSUME NEW id \in CapId, NEW rights,
               DeriveNoSource(id, rights) \/ DeriveRefused(id, rights) PROVE Goal
    BY <1>1, <1>5 DEF DeriveNoSource, DeriveRefused
  <1>6. ASSUME NEW id \in CapId, NEW rights, DeriveGranted(id, rights) PROVE Goal
    BY <1>2, <1>6 DEF DeriveGranted
  <1>7. ASSUME NEW id \in CapId, NEW bits \in RightsBits, sys_cap_derive(id, bits)
        PROVE  Goal
    BY <1>5, <1>6, <1>7 DEF sys_cap_derive
  <1>8. ASSUME NEW cap \in KernelCaps, create(cap) PROVE Goal
    BY <1>2, <1>8 DEF create
  <1>9. ASSUME NEW id \in CapId, sys_cap_invoke(id) PROVE Goal
    BY <1>1, <1>9 DEF sys_cap_invoke
  <1>10. ASSUME sys_cap_create \/ sys_other \/ UNCHANGED capVars PROVE Goal
    BY <1>1, <1>10 DEF sys_cap_create, sys_other, capVars
  <1>11. Goal
    BY <1>3, <1>4, <1>7, <1>8, <1>9, <1>10 DEF CapNext, KernelNext, UserNext
  <1> QED BY <1>11 DEF Goal

(* A revoked id is dead for good and a capability never changes under its  *)
(* id, for every id that the kernel does not insert under itself.          *)
THEOREM IdsAreUnique == CapSpec => []RevokedStaysDead /\ CapabilityNeverChanges
  <1>1. CSpaceNew => IdInv
    BY DEF CSpaceNew, IdInv, CapTypeOK, IdsBelowNext, RevokedStaysDead
  <1>2. IdInv /\ CapIInv /\ CapIInv' /\ [CapNext]_capVars
          => /\ IdInv'
             /\ [\A id \in (DOMAIN capabilities \cap DOMAIN capabilities') \ ExplicitIds :
                    capabilities'[id] = capabilities[id]]_capVars
    BY IdStep
  <1>3. IdInv => RevokedStaysDead BY DEF IdInv
  <1> QED BY <1>1, <1>2, <1>3, CapInvariant, PTL DEF CapSpec, CapabilityNeverChanges

(* An id handed out by create or derive, and not used by insert, never     *)
(* names another capability: what was checked about it stays true.         *)
THEOREM IdsKeepTheirMeaning == CapSpec => CapabilityNeverChanges
  BY IdsAreUnique, PTL

=============================================================================
