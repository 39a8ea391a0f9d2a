--------------------------- MODULE EnrolmentProofs --------------------------
(***************************************************************************)
(* Proofs about Enrolment, for any number of ids, keys, concurrent         *)
(* requests and rotations. That claims are kept needs a Vault outage that  *)
(* is not mistaken for an empty record (~Says404); that the fleet stays    *)
(* verifiable needs nothing: failed and interrupted saves are part of the  *)
(* behaviour, and the theorem exempts exactly what they lost.              *)
(***************************************************************************)
EXTENDS Enrolment, TLAPS

\* The claim mutex is held exactly from loadLocked to kvPut.
MutexGuardsPut == \A r \in Requests : req[r].pc = "put" <=> mu = r

\* While it is held the record in Vault does not move, so what is about to be
\* written is the current record with one id changed, and rightly so.
PutIsFresh ==
  \A r \in Requests : req[r].pc = "put" =>
    /\ req[r].write = [bound EXCEPT ![req[r].id] = req[r].key]
    /\ bound[req[r].id] # req[r].key
    /\ bound[req[r].id] = NoKey \/ req[r].rebind

\* A request that is about to be signed owns its id, unless it was rebound since.
SignerOwns ==
  \A r \in Requests : req[r].pc = "sign" =>
    req[r].id \in rebound \/ bound[req[r].id] = req[r].key

\* Every assertion's key owns its id, unless it was rebound since.
HolderOwns == \A a \in issued : a.id \in rebound \/ bound[a.id] = a.key

\* The inductive invariant.
IInv == TypeOK /\ MutexGuardsPut /\ PutIsFresh /\ SignerOwns /\ HolderOwns
-----------------------------------------------------------------------------
\* The fields of a request, idle or not.
LEMMA RequestFields ==
  ASSUME TypeOK, NEW r \in Requests
  PROVE  /\ req[r].pc \in {"idle", "claim", "put", "sign"}
         /\ req[r].pc = "idle" <=> req[r] = Idle
         /\ req[r].pc # "idle" => /\ req[r].id \in Ids /\ req[r].key \in Keys
                                  /\ req[r].rebind \in BOOLEAN
                                  /\ req[r].write \in Bindings
                                  /\ req[r] \in [pc : {"claim", "put", "sign"}, id : Ids,
                                                 key : Keys, rebind : BOOLEAN,
                                                 write : Bindings]
<1>1. req[r] \in enrollRequest
  BY DEF TypeOK
<1>2. CASE req[r] = Idle
  BY <1>2 DEF Idle
<1>3. CASE req[r] \in [pc : {"claim", "put", "sign"}, id : Ids, key : Keys,
                       rebind : BOOLEAN, write : Bindings]
  <2>1. req[r].pc # "idle" /\ req[r] # Idle
    BY <1>3 DEF Idle
  <2> QED BY <1>3, <2>1
<1> QED BY <1>1, <1>2, <1>3 DEF enrollRequest

LEMMA InitIInv == Init => IInv
BY EnrolmentAssumptions
DEF Init, IInv, TypeOK, MutexGuardsPut, PutIsFresh, SignerOwns, HolderOwns, Idle,
    enrollRequest, Bindings, NoBindings, Versions

\* Every step keeps the types.
LEMMA TypeStep == ASSUME TypeOK, [Next]_vars PROVE TypeOK'
<1> USE EnrolmentAssumptions DEF TypeOK
<1>0. Idle \in enrollRequest /\ NoBindings \in Bindings
  BY DEF enrollRequest, NoBindings, Bindings
<1>1. ASSUME NEW r \in Requests, NEW id \in Ids, NEW key \in Keys, NEW rebind \in BOOLEAN,
             handleEnroll(r, id, key, rebind)
      PROVE  TypeOK'
  <2>1. [pc |-> "claim", id |-> id, key |-> key, rebind |-> rebind, write |-> NoBindings]
          \in enrollRequest
    BY <1>0 DEF enrollRequest
  <2> QED BY <1>1, <2>1 DEF handleEnroll, relay
<1>2. ASSUME NEW r \in Requests, req[r].pc # "idle" PROVE GoSign(r) \in [Requests -> enrollRequest]
  <2>1. [req[r] EXCEPT !.pc = "sign", !.write = NoBindings] \in enrollRequest
    <3>1. req[r] \in [pc : {"claim", "put", "sign"}, id : Ids, key : Keys,
                      rebind : BOOLEAN, write : Bindings]
      BY <1>2, RequestFields
    <3> HIDE DEF TypeOK
    <3> QED BY <1>0, <3>1 DEF enrollRequest
  <2> QED BY <2>1 DEF GoSign
<1>3. ASSUME NEW r \in Requests PROVE Reply(r) \in [Requests -> enrollRequest]
  BY <1>0 DEF Reply
<1>4. ASSUME NEW r \in Requests, loadLocked(r) PROVE TypeOK'
  <2>1. req[r].id \in Ids /\ req[r].key \in Keys /\ req[r].pc # "idle"
    BY <1>4, RequestFields DEF loadLocked
  <2>2. [Read EXCEPT ![req[r].id] = req[r].key] \in Bindings
    BY <1>0, <2>1 DEF Read, Bindings
  <2>3. [req[r] EXCEPT !.pc = "put", !.write = [Read EXCEPT ![req[r].id] = req[r].key]]
          \in enrollRequest
    BY <2>1, <2>2, RequestFields DEF enrollRequest
  <2>4. req' \in [Requests -> enrollRequest]
    BY <1>2, <1>3, <1>4, <2>1, <2>3 DEF loadLocked
  <2>5. mu' \in Requests \cup {Nobody}
    BY <1>4 DEF loadLocked, Released
  <2> QED BY <1>4, <2>4, <2>5 DEF loadLocked, relay
<1>5. ASSUME NEW r \in Requests, kvPut(r) PROVE TypeOK'
  <2>1. req[r].id \in Ids /\ req[r].write \in Bindings /\ req[r].pc # "idle"
    BY <1>5, RequestFields DEF kvPut
  <2>2. req' \in [Requests -> enrollRequest]
    BY <1>2, <1>3, <1>5, <2>1 DEF kvPut
  <2> QED BY <1>5, <2>1, <2>2 DEF kvPut, relay
<1>6. ASSUME NEW r \in Requests, Sign(r) PROVE TypeOK'
  <2>1. [id |-> req[r].id, key |-> req[r].key, version |-> version] \in Assertion
    BY <1>6, RequestFields DEF Sign, Assertion
  <2> QED BY <1>3, <1>6, <2>1 DEF Sign, relay
<1>7. CASE loadCachedKeys \/ refreshKeys \/ saveCachedKeys \/ writeCachedKeys
  <2>1. 1 .. version \subseteq Versions
    BY DEF Versions
  <2>2. CASE loadCachedKeys
    BY <2>2 DEF loadCachedKeys
  <2>3. CASE refreshKeys
    BY <2>1, <2>3 DEF refreshKeys, ComesUp
  <2>4. CASE saveCachedKeys
    BY <2>4 DEF saveCachedKeys, ComesUp
  <2>5. CASE writeCachedKeys
    BY <2>5 DEF writeCachedKeys, ComesUp, SavedKeys
  <2> QED BY <1>7, <2>2, <2>3, <2>4, <2>5
<1>8. CASE Crash
  BY <1>0, <1>8 DEF Crash
<1>9. CASE SealOrUnseal \/ Rotate
  <2>1. CASE SealOrUnseal
    BY <2>1 DEF SealOrUnseal, relay
  <2>2. CASE Rotate
    <3>1. version' \in Versions
      BY <2>2 DEF Rotate, Versions
    <3> QED BY <2>2, <3>1 DEF Rotate, relay
  <2> QED BY <1>9, <2>1, <2>2
<1>10. CASE UNCHANGED vars
  BY <1>10 DEF vars, relay
<1> QED
  BY <1>1, <1>4, <1>5, <1>6, <1>7, <1>8, <1>9, <1>10 DEF Next, Proceed
-----------------------------------------------------------------------------
Guards == MutexGuardsPut /\ PutIsFresh /\ SignerOwns /\ HolderOwns

\* The three ways a request moves leave every other request alone.
LEMMA Moves ==
  ASSUME TypeOK, NEW r \in Requests
  PROVE  /\ \A q \in Requests \ {r} : Reply(r)[q] = req[q] /\ GoSign(r)[q] = req[q]
         /\ Reply(r)[r].pc = "idle"
         /\ req[r].pc # "idle" => /\ GoSign(r)[r].pc = "sign"
                                  /\ GoSign(r)[r].id = req[r].id
                                  /\ GoSign(r)[r].key = req[r].key
<1>1. req[r].pc # "idle" => /\ GoSign(r)[r].pc = "sign"
                            /\ GoSign(r)[r].id = req[r].id
                            /\ GoSign(r)[r].key = req[r].key
  BY RequestFields DEF GoSign, TypeOK
<1> QED BY <1>1 DEF Reply, GoSign, Idle, TypeOK

\* claim's first half keeps the guards: with the mutex free no write is pending.
LEMMA LoadStep ==
  ASSUME ~Says404, IInv, NEW r \in Requests, loadLocked(r) PROVE Guards'
<1> USE EnrolmentAssumptions, Moves
    DEF IInv, Guards, MutexGuardsPut, PutIsFresh, SignerOwns, HolderOwns
<1>1. /\ req[r].pc = "claim" /\ mu = Nobody
      /\ UNCHANGED <<bound, issued, rebound>>
  BY DEF loadLocked, CanLock
<1>2. \A q \in Requests : req[q].pc # "put"
  BY <1>1
<1>3. CASE req' = Reply(r) /\ mu' = Nobody
  BY <1>1, <1>2, <1>3
<1>4. CASE req' = GoSign(r) /\ mu' = Nobody /\ Read[req[r].id] = req[r].key /\ CanRead
  BY <1>1, <1>2, <1>4 DEF Read, CanRead
<1>5. CASE /\ CanRead /\ Read[req[r].id] # req[r].key /\ MayClaim(r)
           /\ req' = [req EXCEPT ![r] = [@ EXCEPT !.pc = "put",
                                        !.write = [Read EXCEPT ![req[r].id] = req[r].key]]]
           /\ mu' = r
  <2>1. Read = bound /\ req[r].id \in Ids
    BY <1>1, <1>5, RequestFields DEF Read, CanRead
  <2>2. /\ req'[r].pc = "put" /\ req'[r].id = req[r].id /\ req'[r].key = req[r].key
        /\ req'[r].rebind = req[r].rebind
        /\ req'[r].write = [bound EXCEPT ![req[r].id] = req[r].key]
    BY <1>1, <1>5, <2>1, RequestFields DEF TypeOK
  <2>3. \A q \in Requests \ {r} : req'[q] = req[q]
    BY <1>5 DEF TypeOK
  <2>4. bound[req[r].id] = NoKey \/ req[r].rebind
    BY <1>5, <2>1 DEF MayClaim
  <2> QED BY <1>1, <1>2, <1>5, <2>1, <2>2, <2>3, <2>4
<1> QED BY <1>3, <1>4, <1>5 DEF loadLocked, Released

\* claim's second half moves one id, from nobody or by a rebind.
LEMMA PutStep == ASSUME IInv, NEW r \in Requests, kvPut(r) PROVE Guards'
<1> USE EnrolmentAssumptions, Moves
    DEF IInv, Guards, MutexGuardsPut, PutIsFresh, SignerOwns, HolderOwns
<1>1. /\ req[r].pc = "put" /\ mu = r /\ mu' = Nobody /\ issued' = issued
      /\ \A q \in Requests \ {r} : req[q].pc # "put"
      /\ req[r].id \in Ids /\ req[r].key \in Keys
      /\ req' = GoSign(r) \/ req' = Reply(r)
  BY RequestFields DEF kvPut
<1>2. CASE UNCHANGED <<bound, rebound>> /\ req' = Reply(r)
  BY <1>1, <1>2
<1>3. CASE /\ bound' = req[r].write
           /\ rebound' = IF req[r].rebind /\ bound[req[r].id] \notin {NoKey, req[r].key}
                         THEN rebound \cup {req[r].id} ELSE rebound
  <2>1. bound' = [bound EXCEPT ![req[r].id] = req[r].key]
    BY <1>1, <1>3
  <2>2. rebound \subseteq rebound'
    BY <1>3
  <2>3. bound[req[r].id] = NoKey \/ req[r].id \in rebound'
    BY <1>1, <1>3
  <2>4. ASSUME NEW id \in Ids, NEW k \in Keys, id \in rebound \/ bound[id] = k
        PROVE  id \in rebound' \/ bound'[id] = k
    <3> HIDE Moves DEF IInv, MutexGuardsPut, PutIsFresh, SignerOwns, HolderOwns
    <3>1. bound \in [Ids -> Keys \cup {NoKey}]
      BY DEF IInv, TypeOK, Bindings
    <3>2. CASE id = req[r].id
      BY <2>2, <2>3, <2>4, <3>2
    <3>3. CASE id # req[r].id
      BY <2>1, <2>2, <2>4, <3>1, <3>3
    <3> QED BY <3>2, <3>3
  <2>5. HolderOwns'
    BY <1>1, <2>4 DEF TypeOK, Assertion
  <2>6. SignerOwns'
    <3>1. ASSUME NEW q \in Requests \ {r}, req[q].pc = "sign"
          PROVE  req[q].id \in rebound' \/ bound'[req[q].id] = req[q].key
      BY <2>4, <3>1, RequestFields
    <3>2. bound'[req[r].id] = req[r].key
      BY <1>1, <2>1 DEF TypeOK, Bindings
    <3> QED BY <1>1, <3>1, <3>2
  <2> QED BY <1>1, <2>5, <2>6
<1> QED BY <1>2, <1>3 DEF kvPut

\* The signature hands the id's owner an assertion.
LEMMA SignStep == ASSUME IInv, NEW r \in Requests, Sign(r) PROVE Guards'
<1> USE EnrolmentAssumptions, Moves
    DEF IInv, Guards, MutexGuardsPut, PutIsFresh, SignerOwns, HolderOwns
<1>1. HolderOwns'
  BY DEF Sign
<1>2. MutexGuardsPut' /\ PutIsFresh' /\ SignerOwns'
  BY DEF Sign
<1> QED BY <1>1, <1>2

\* Every step keeps the inductive invariant.
LEMMA NextIInv == ASSUME ~Says404, IInv, [Next]_vars PROVE IInv'
<1> USE EnrolmentAssumptions DEF IInv
<1>0. TypeOK'
  BY TypeStep
<1>1. ASSUME NEW r \in Requests, NEW id \in Ids, NEW key \in Keys, NEW rebind \in BOOLEAN,
             handleEnroll(r, id, key, rebind)
      PROVE  Guards'
  BY <1>1 DEF handleEnroll, Guards, MutexGuardsPut, PutIsFresh, SignerOwns, HolderOwns,
              Idle, TypeOK
<1>2. CASE Crash
  BY <1>0, <1>2 DEF Crash, MutexGuardsPut, PutIsFresh, SignerOwns, HolderOwns, Idle
<1>3. CASE \/ loadCachedKeys \/ refreshKeys \/ saveCachedKeys \/ writeCachedKeys
           \/ SealOrUnseal \/ Rotate \/ UNCHANGED vars
  <2>1. UNCHANGED <<bound, req, mu, issued, rebound>>
    BY <1>3 DEF loadCachedKeys, refreshKeys, saveCachedKeys, writeCachedKeys, SealOrUnseal,
       Rotate, vars
  <2> QED BY <1>0, <2>1 DEF MutexGuardsPut, PutIsFresh, SignerOwns, HolderOwns
<1> QED
  BY <1>0, <1>1, <1>2, <1>3, LoadStep, PutStep, SignStep DEF Next, Proceed, Guards

LEMMA AlwaysIInv == ASSUME ~Says404 PROVE Spec => []IInv
BY InitIInv, NextIInv, PTL DEF Spec

\* Enrolment keeps its types, whatever Vault's errors say.
THEOREM TypeCorrect == Spec => []TypeOK
<1>1. Init => TypeOK
  BY InitIInv DEF IInv
<1> QED BY <1>1, TypeStep, PTL DEF Spec

\* agentKeys.claim: the first key to claim an id owns it until an operator moves it.
THEOREM FirstKey == ASSUME ~Says404 PROVE Spec => []FirstKeyOwnsId
<1>1. IInv => FirstKeyOwnsId
  BY DEF IInv, HolderOwns, FirstKeyOwnsId
<1> QED BY <1>1, AlwaysIInv, PTL

\* agentKeys.claim rewrites the whole record, and loses nobody's claim by it.
THEOREM KeepsClaims == ASSUME ~Says404 PROVE Spec => ClaimsAreKept
<1>1. ASSUME IInv, [Next]_vars, NEW id \in Ids, bound[id] # NoKey, bound'[id] # bound[id]
      PROVE  /\ bound'[id] # NoKey
             /\ \E r \in Requests : req[r].id = id /\ req[r].rebind /\ req[r].key = bound'[id]
  <2>1. PICK r \in Requests : kvPut(r)
    BY <1>1 DEF Next, Proceed, handleEnroll, loadLocked, Sign, loadCachedKeys, refreshKeys,
       saveCachedKeys, writeCachedKeys, Crash, SealOrUnseal, Rotate, vars
  <2>2. req[r].pc = "put" /\ bound' = req[r].write
    BY <1>1, <2>1 DEF kvPut
  <2>3. req[r].id = id /\ req[r].rebind /\ bound'[id] = req[r].key /\ req[r].key \in Keys
    BY <1>1, <2>2, RequestFields DEF IInv, PutIsFresh, TypeOK, Bindings
  <2> QED BY <2>3, EnrolmentAssumptions
<1>2. IInv /\ [Next]_vars =>
        [\A id \in Ids : bound[id] # NoKey /\ bound'[id] # bound[id] =>
           /\ bound'[id] # NoKey
           /\ \E r \in Requests : req[r].id = id /\ req[r].rebind
                                  /\ req[r].key = bound'[id]]_vars
  BY <1>1
<1> QED BY <1>2, AlwaysIInv, PTL DEF Spec, ClaimsAreKept
-----------------------------------------------------------------------------
(***************************************************************************)
(* The transit keys. A relay that is up has every version an earlier one   *)
(* had and no save lost, because the file it started from has them and     *)
(* Vault forgets none.                                                     *)
(***************************************************************************)

\* What was ever served and not lost is in the file, except while it is rewritten.
CacheHasServed == booting # "write" => served \ lost \subseteq cached

\* Nothing is known of a version Vault does not have yet.
KnownVersions == served \cup cached \cup pubKeys \subseteq 1 .. version

\* The keys in memory along a boot: the file's, then Vault's, which include all.
KeysOfBoot ==
  /\ booting = "refresh" => pubKeys = cached
  /\ booting \in {"save", "write"} => served \subseteq pubKeys
  /\ booting = "up" => served \ lost \subseteq pubKeys

FleetInv == TypeOK /\ CacheHasServed /\ KnownVersions /\ KeysOfBoot

\* Every step keeps it, failing and interrupted saves included.
LEMMA FleetStep == ASSUME FleetInv, [Next]_vars PROVE FleetInv'
<1> USE EnrolmentAssumptions DEF FleetInv, CacheHasServed, KnownVersions, KeysOfBoot
<1>0. TypeOK'
  BY TypeStep
<1>1. CASE loadCachedKeys
  BY <1>0, <1>1 DEF loadCachedKeys
<1>2. CASE refreshKeys
  BY <1>0, <1>2 DEF refreshKeys, ComesUp
<1>3. CASE saveCachedKeys
  BY <1>0, <1>3 DEF saveCachedKeys, ComesUp
<1>4. CASE writeCachedKeys
  BY <1>0, <1>4 DEF writeCachedKeys, ComesUp, SavedKeys
<1>5. CASE Crash
  BY <1>0, <1>5 DEF Crash
<1>6. CASE Rotate
  <2>1. 1 .. version \subseteq 1 .. version'
    BY <1>6 DEF Rotate, TypeOK, Versions
  <2> QED BY <1>0, <1>6, <2>1 DEF Rotate, relay
<1>7. CASE UNCHANGED <<version, relay>>
  BY <1>0, <1>7 DEF relay
<1>8. \/ UNCHANGED <<version, relay>>
      \/ loadCachedKeys \/ refreshKeys \/ saveCachedKeys \/ writeCachedKeys \/ Crash \/ Rotate
  BY DEF Next, Proceed, handleEnroll, loadLocked, kvPut, Sign, SealOrUnseal, vars, relay
<1> QED BY <1>1, <1>2, <1>3, <1>4, <1>5, <1>6, <1>7, <1>8

\* vault.start: whatever key version one incarnation of the relay verified with,
\* every later one does too, Vault sealed or not, except exactly the versions a
\* failed or interrupted saveCachedKeys kept off the disk.
THEOREM FleetVerifiable == Spec => []FleetStaysVerifiable
<1>1. Init => FleetInv
  BY InitIInv DEF Init, IInv, FleetInv, CacheHasServed, KnownVersions, KeysOfBoot
<1>2. FleetInv => FleetStaysVerifiable
  BY DEF FleetInv, KeysOfBoot, FleetStaysVerifiable
<1> QED BY <1>1, <1>2, FleetStep, PTL DEF Spec
=============================================================================
