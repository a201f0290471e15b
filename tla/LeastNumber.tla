---------------------------- MODULE LeastNumber ----------------------------
(***************************************************************************)
(* Induction on the natural numbers in the form the other proofs use: a    *)
(* set of numbers that is not empty has a least element, so a claim whose  *)
(* least counterexample is impossible holds of every number.               *)
(***************************************************************************)
EXTENDS Naturals, TLAPS, WellFoundedInduction

(* The numbers are well-ordered. *)
LEMMA LeastNat ==
    ASSUME NEW S \in SUBSET Nat, S # {}
    PROVE  \E n \in S : \A m \in S : n <= m
  <1>1. PICK n \in S : \A m \in S : ~ (<<m, n>> \in OpToRel(<, Nat))
    BY NatLessThanWellFounded, WFMin, Zenon
  <1>2. \A m \in S : ~ (m < n)
    BY <1>1 DEF OpToRel
  <1> QED BY <1>2

(* A set that holds 0, and n when it holds n - 1, for every n up to N,     *)
(* holds every number up to N.                                             *)
LEMMA UpTo ==
    ASSUME NEW N \in Nat, NEW T, 0 \in T,
           \A n \in 1 .. N : n - 1 \in T => n \in T
    PROVE  \A n \in 0 .. N : n \in T
  <1> DEFINE S == {n \in 0 .. N : n \notin T}
  <1> SUFFICES ASSUME S # {} PROVE FALSE
    OBVIOUS
  <1>1. S \in SUBSET Nat OBVIOUS
  <1>2. PICK n \in S : \A m \in S : n <= m
    <2> HIDE DEF S
    <2> QED BY <1>1, LeastNat
  <1>3. n \in 0 .. N /\ n \notin T OBVIOUS
  <1>4. n # 0 BY <1>3
  <1>5. n \in 1 .. N /\ n - 1 \in 0 .. N /\ ~(n <= n - 1) BY <1>3, <1>4
  <1>6. n - 1 \in T BY <1>2, <1>5
  <1> QED BY <1>3, <1>5, <1>6

=============================================================================
