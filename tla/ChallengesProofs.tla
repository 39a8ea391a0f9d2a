-------------------------- MODULE ChallengesProofs --------------------------
(***************************************************************************)
(* Proofs about Challenges, for any number of callers, any ceiling, any    *)
(* TTL and any clock.                                                      *)
(***************************************************************************)
EXTENDS Challenges, FiniteSetTheorems, TLAPS

\* A nonce is in the map only between its issue and its use.
LiveIsUnused ==
  /\ seen \subseteq drawn
  /\ \A n \in seen : redeemed[n] = 0
  /\ \A n \in Nonces \ drawn : redeemed[n] = 0

\* Nothing was issued in the future.
StampsArePast == \A n \in drawn : stamp[n] <= now

\* The inductive invariant.
IInv ==
  /\ TypeOK
  /\ LiveIsUnused
  /\ StampsArePast
  /\ SingleUse
  /\ FreshWhenRedeemed
  /\ Bounded
  /\ HeldIsRedeemable

\* The empty map satisfies the invariant.
LEMMA InitIInv == Init => IInv
BY ChallengeAssumptions, FS_EmptySet
DEF Init, IInv, TypeOK, LiveIsUnused, StampsArePast, SingleUse, FreshWhenRedeemed,
    Bounded, HeldIsRedeemable, expireLocked, Expired

\* Expiry only shrinks the map.
LEMMA ExpiryShrinks ==
  ASSUME TypeOK
  PROVE  /\ expireLocked \subseteq seen
         /\ IsFiniteSet(seen)
         /\ IsFiniteSet(expireLocked)
         /\ Cardinality(expireLocked) <= Cardinality(seen)
         /\ Cardinality(expireLocked) \in Nat
<1>1. expireLocked \subseteq seen
  BY DEF expireLocked
<1>2. IsFiniteSet(seen)
  BY ChallengeAssumptions, FS_Subset DEF TypeOK
<1> QED BY <1>1, <1>2, FS_Subset, FS_CardinalityType

\* Every call keeps the map within its ceiling.
LEMMA BoundedStep == ASSUME IInv, [Next]_vars PROVE Bounded'
<1> USE ChallengeAssumptions, ExpiryShrinks DEF IInv, Bounded
<1>1. ASSUME NEW n \in Nonces, issue(n) PROVE Bounded'
  <2> HIDE DEF IInv
  <2>0. IsFiniteSet(expireLocked) /\ Cardinality(expireLocked) \in Nat
    BY DEF IInv
  <2>1. /\ IsFiniteSet(expireLocked \cup {n})
        /\ Cardinality(expireLocked \cup {n}) <= Cardinality(expireLocked) + 1
    <3> HIDE ExpiryShrinks
    <3> QED BY <2>0, FS_AddElement
  <2>2. Cardinality(expireLocked \cup {n}) \in Nat
    BY <2>1, FS_CardinalityType
  <2> QED BY <1>1, <2>0, <2>1, <2>2 DEF issue, HasRoom
<1>2. ASSUME NEW n \in Nonces, redeem(n) PROVE Bounded'
  <2>1. Cardinality(expireLocked \ {n}) <= Cardinality(expireLocked)
    BY FS_Subset
  <2>2. Cardinality(expireLocked \ {n}) \in Nat /\ Cardinality(seen) \in Nat
    BY FS_Subset, FS_CardinalityType
  <2> QED BY <1>2, <2>1, <2>2 DEF redeem
<1>3. CASE refuse \/ (\E n \in Nonces : redeemFails(n))
  <2>1. Cardinality(seen) \in Nat
    BY FS_CardinalityType
  <2> QED BY <1>3, <2>1 DEF refuse, redeemFails
<1>4. CASE Tick \/ UNCHANGED vars
  BY <1>4 DEF Tick, vars
<1> QED BY <1>1, <1>2, <1>3, <1>4 DEF Next

\* Every call keeps the rest of the invariant.
LEMMA NextIInv == ASSUME IInv, [Next]_vars PROVE IInv'
<1> DEFINE Rest == TypeOK /\ LiveIsUnused /\ StampsArePast /\ SingleUse
                     /\ FreshWhenRedeemed /\ HeldIsRedeemable
<1> USE ChallengeAssumptions
        DEF IInv, TypeOK, LiveIsUnused, StampsArePast, SingleUse, FreshWhenRedeemed,
            HeldIsRedeemable, expireLocked, Expired
<1>1. ASSUME NEW n \in Nonces, issue(n) PROVE Rest'
  <2>1. TypeOK'
    BY <1>1 DEF issue
  <2>2. LiveIsUnused' /\ SingleUse'
    BY <1>1 DEF issue
  <2>3. StampsArePast' /\ FreshWhenRedeemed'
    BY <1>1 DEF issue
  <2>4. HeldIsRedeemable'
    BY <1>1 DEF issue
  <2> QED BY <2>1, <2>2, <2>3, <2>4
<1>2. ASSUME NEW n \in Nonces, redeem(n) PROVE Rest'
  <2>1. TypeOK'
    BY <1>2 DEF redeem
  <2>2. LiveIsUnused' /\ SingleUse'
    BY <1>2 DEF redeem
  <2>3. StampsArePast' /\ FreshWhenRedeemed'
    BY <1>2 DEF redeem
  <2>4. HeldIsRedeemable'
    BY <1>2 DEF redeem
  <2> QED BY <2>1, <2>2, <2>3, <2>4
<1>3. ASSUME NEW n \in Nonces, redeemFails(n) PROVE Rest'
  <2>1. TypeOK'
    BY <1>3 DEF redeemFails
  <2>2. LiveIsUnused' /\ SingleUse'
    BY <1>3 DEF redeemFails
  <2>3. StampsArePast' /\ FreshWhenRedeemed'
    BY <1>3 DEF redeemFails
  <2>4. HeldIsRedeemable'
    BY <1>3 DEF redeemFails
  <2> QED BY <2>1, <2>2, <2>3, <2>4
<1>4. ASSUME refuse PROVE Rest'
  BY <1>4 DEF refuse
<1>5. ASSUME Tick PROVE Rest'
  BY <1>5 DEF Tick
<1>6. ASSUME UNCHANGED vars PROVE Rest'
  BY <1>6 DEF vars
<1>7. Rest'
  BY <1>1, <1>2, <1>3, <1>4, <1>5, <1>6 DEF Next
<1> QED BY <1>7, BoundedStep

LEMMA AlwaysIInv == Spec => []IInv
BY InitIInv, NextIInv, PTL DEF Spec

\* The challenge map keeps its type.
THEOREM TypeCorrect == Spec => []TypeOK
BY AlwaysIInv, PTL DEF IInv

\* redeem succeeds at most once per challenge: a captured handshake is useless.
THEOREM UsedOnce == Spec => []SingleUse
BY AlwaysIInv, PTL DEF IInv

\* What redeem accepts is at most challengeTTL old.
THEOREM UsedFresh == Spec => []FreshWhenRedeemed
BY AlwaysIInv, PTL DEF IInv

\* issue never lets the map outgrow maxChallenges.
THEOREM NeverOverflows == Spec => []Bounded
BY AlwaysIInv, PTL DEF IInv

\* A flood of requests cannot take away a challenge an agent holds.
THEOREM NeverEvicted == Spec => []HeldIsRedeemable
BY AlwaysIInv, PTL DEF IInv
=============================================================================
