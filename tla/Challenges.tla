----------------------------- MODULE Challenges -----------------------------
(***************************************************************************)
(* The nonces the relay hands out and the handshakes that redeem them      *)
(* (server/enroll.go, the challenge half of verifyAgent, and               *)
(* handleAgentConnect's order of tests). issue and redeem each run under   *)
(* the store's mutex, so each is one step; anything may happen between     *)
(* them: time passes, other callers take nonces, a captured handshake is   *)
(* presented again. The clock counts in units of TTL's grain.              *)
(***************************************************************************)
EXTENDS Naturals, FiniteSets

CONSTANTS
  Nonces,         \* what rand.Read can return; no value is drawn twice
  TTL,            \* challengeTTL
  MaxChallenges,  \* maxChallenges
  MaxTime         \* bound of the clock

ASSUME ChallengeAssumptions ==
  /\ TTL \in Nat /\ MaxTime \in Nat
  /\ MaxChallenges \in Nat \ {0}
  /\ IsFiniteSet(Nonces)

VARIABLES
  now,      \* time.Now()
  seen,     \* the keys of challenges.seen
  stamp,    \* stamp[n]: when n was issued, which is its value in the map
  drawn,    \* every nonce handed to a caller so far
  redeemed, \* redeemed[n]: how many times redeem(n) returned true
  age       \* age[n]: how old n was when it was last redeemed

vars == <<now, seen, stamp, drawn, redeemed, age>>

TypeOK ==
  /\ now \in 0 .. MaxTime
  /\ seen \subseteq Nonces
  /\ stamp \in [Nonces -> 0 .. MaxTime]
  /\ drawn \subseteq Nonces
  /\ redeemed \in [Nonces -> Nat]
  /\ age \in [Nonces -> Nat]

Init ==
  /\ now = 0
  /\ seen = {} /\ drawn = {}
  /\ stamp = [n \in Nonces |-> 0]
  /\ redeemed = [n \in Nonces |-> 0]
  /\ age = [n \in Nonces |-> 0]
-----------------------------------------------------------------------------
\* Mutants: the cutoff one unit late; below, the oldest evicted and the nonce
\* left in the map.
ExpiresLate(set) == {n \in set : now > stamp[n] + TTL + 1}

\* expireLocked: v.Before(now - TTL), so a nonce of age TTL is still good.
Expired(set) == {n \in set : now > stamp[n] + TTL}

expireLocked == seen \ Expired(seen)

\* len(c.seen) < maxChallenges, after expiry.
HasRoom(set) == Cardinality(set) < MaxChallenges

EvictOldest(n) ==
  /\ n \notin drawn
  /\ drawn' = drawn \cup {n}
  /\ stamp' = [stamp EXCEPT ![n] = now]
  /\ IF HasRoom(expireLocked) THEN seen' = expireLocked \cup {n}
     ELSE \E old \in expireLocked :
            /\ \A m \in expireLocked : stamp[old] <= stamp[m]
            /\ seen' = (expireLocked \ {old}) \cup {n}
  /\ UNCHANGED <<now, redeemed, age>>

\* handleAgentChallenge, granted: anyone may ask.
issue(n) ==
  /\ n \notin drawn
  /\ HasRoom(expireLocked)
  /\ seen' = expireLocked \cup {n}
  /\ stamp' = [stamp EXCEPT ![n] = now]
  /\ drawn' = drawn \cup {n}
  /\ UNCHANGED <<now, redeemed, age>>

\* handleAgentChallenge, 429: what has expired is still dropped.
refuse ==
  /\ ~HasRoom(expireLocked)
  /\ seen' = expireLocked
  /\ UNCHANGED <<now, stamp, drawn, redeemed, age>>

KeepsNonce(n) ==
  /\ n \in expireLocked
  /\ seen' = expireLocked
  /\ redeemed' = [redeemed EXCEPT ![n] = @ + 1]
  /\ age' = [age EXCEPT ![n] = now - stamp[n]]
  /\ UNCHANGED <<now, stamp, drawn>>

\* verifyAgent reaches redeem(n) and it succeeds. The signature, the Upgrade
\* header and the hijack are looked at later: the nonce is gone whatever they say.
redeem(n) ==
  /\ n \in expireLocked
  /\ seen' = expireLocked \ {n}
  /\ redeemed' = [redeemed EXCEPT ![n] = @ + 1]
  /\ age' = [age EXCEPT ![n] = now - stamp[n]]
  /\ UNCHANGED <<now, stamp, drawn>>

\* ... and it fails: unknown, used or expired. The handshake is refused (401).
redeemFails(n) ==
  /\ n \notin expireLocked
  /\ seen' = expireLocked
  /\ UNCHANGED <<now, stamp, drawn, redeemed, age>>

Tick ==
  /\ now < MaxTime
  /\ now' = now + 1
  /\ UNCHANGED <<seen, stamp, drawn, redeemed, age>>

Next ==
  \/ Tick
  \/ refuse
  \/ \E n \in Nonces : issue(n) \/ redeem(n) \/ redeemFails(n)

Spec == Init /\ [][Next]_vars
-----------------------------------------------------------------------------
\* A challenge opens at most one handshake, however often and whenever it is
\* presented: expiry and re-presentation never bring it back.
SingleUse == \A n \in Nonces : redeemed[n] <= 1

\* What is redeemed was issued at most TTL ago, however rarely the map is swept.
FreshWhenRedeemed == \A n \in Nonces : age[n] <= TTL

\* The map never outgrows its ceiling.
Bounded == Cardinality(seen) <= MaxChallenges

\* Back-pressure hits the newcomer: a nonce handed out, not yet used and not
\* older than TTL can be redeemed, whatever flood came after it.
HeldIsRedeemable ==
  \A n \in drawn : redeemed[n] = 0 /\ now <= stamp[n] + TTL => n \in expireLocked
=============================================================================
