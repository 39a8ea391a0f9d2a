----------------------------- MODULE Enrolment ------------------------------
(***************************************************************************)
(* Who may use an agent id: concurrent enrolment requests, the record of   *)
(* which key owns which id, Vault, which keeps that record and signs the   *)
(* assertions, and the transit public keys the relay checks signatures     *)
(* with (server/enroll.go, server/agentkeys.go, server/vault.go).          *)
(*                                                                         *)
(* A request is a sequence of Vault calls; between two of them Vault may   *)
(* seal, rotate its key, or answer another request, and the relay may be   *)
(* killed. Vault itself is external: a key-value path, a key with          *)
(* versions, and being up or not.                                          *)
(***************************************************************************)
EXTENDS Naturals

CONSTANTS
  Ids,          \* agent ids
  Keys,         \* agents' public keys
  NoKey,
  Requests,     \* concurrent handleEnroll calls
  Nobody,       \* the claim mutex is free
  MaxVersion,   \* bound of the rotations of the transit key
  Says404       \* whether the text of a Vault outage contains "404", as it does
                \* when Vault's own address or port does

ASSUME EnrolmentAssumptions ==
  /\ NoKey \notin Keys
  /\ Nobody \notin Requests
  /\ MaxVersion \in Nat \ {0}
  /\ Says404 \in BOOLEAN

VARIABLES
  vaultUp,   \* Vault answers (unsealed and reachable)
  version,   \* Vault's newest transit key version
  bound,     \* Vault: bound[id] is the key that owns id
  req,       \* req[r]: the enrolment request handler r works on
  mu,        \* the holder of agentKeys.mu
  pubKeys,   \* the key versions the relay verifies with
  cached,    \* the key versions in its cache file
  booting,   \* where vault.start is: "down", "refresh", "save", "write" or "up"
  served,    \* history: the key versions some incarnation of the relay has verified with
  lost,      \* history: those of them that a failed or interrupted save kept off the disk
  issued,    \* every assertion handed out: id, key, signing version
  rebound    \* the ids an operator has explicitly moved to another key

vars == <<vaultUp, version, bound, req, mu, pubKeys, cached, booting, served, lost, issued, rebound>>
relay == <<pubKeys, cached, booting, served, lost>>

Versions == 1 .. MaxVersion
Bindings == [Ids -> Keys \cup {NoKey}]
Assertion == [id : Ids, key : Keys, version : Versions]

NoBindings == [i \in Ids |-> NoKey]
Idle == [pc |-> "idle", id |-> NoKey, key |-> NoKey, rebind |-> FALSE, write |-> NoBindings]

\* A request: where it is, what it asks for, and the record it is about to write.
enrollRequest ==
  {Idle} \cup [pc : {"claim", "put", "sign"}, id : Ids, key : Keys, rebind : BOOLEAN,
               write : Bindings]

TypeOK ==
  /\ vaultUp \in BOOLEAN
  /\ version \in Versions
  /\ bound \in Bindings
  /\ req \in [Requests -> enrollRequest]
  /\ mu \in Requests \cup {Nobody}
  /\ pubKeys \subseteq Versions
  /\ cached \subseteq Versions
  /\ booting \in {"down", "refresh", "save", "write", "up"}
  /\ served \subseteq Versions
  /\ lost \subseteq Versions
  /\ issued \subseteq Assertion
  /\ rebound \subseteq Ids

\* A relay that has never run, beside a Vault where nothing is enrolled.
Init ==
  /\ vaultUp \in BOOLEAN
  /\ version = 1
  /\ bound = NoBindings
  /\ req = [r \in Requests |-> Idle]
  /\ mu = Nobody
  /\ pubKeys = {} /\ cached = {}
  /\ booting = "down"
  /\ served = {} /\ lost = {} /\ issued = {} /\ rebound = {}
-----------------------------------------------------------------------------
\* A reply, or the step before the signature.
Reply(r) == [req EXCEPT ![r] = Idle]
GoSign(r) == [req EXCEPT ![r] = [@ EXCEPT !.pc = "sign", !.write = NoBindings]]

\* handleEnroll up to claim: an operator's credentials were accepted.
handleEnroll(r, id, key, rebind) ==
  /\ booting = "up"
  /\ req[r] = Idle
  /\ req' = [req EXCEPT ![r] = [pc |-> "claim", id |-> id, key |-> key,
                                rebind |-> rebind, write |-> NoBindings]]
  /\ UNCHANGED <<vaultUp, version, bound, mu, relay, issued, rebound>>

\* Mutants: claim without its mutex, claim without the rebind test.
NoMutex(r) == TRUE
AlwaysMayClaim(r) == TRUE

\* agentKeys.mu is free.
CanLock(r) == mu = Nobody

\* Who holds the mutex once r has returned from claim.
Released(r) == Nobody

\* What kvGet reads: the record, or, when the failure mentions 404, no record.
CanRead == vaultUp \/ Says404
Read == IF vaultUp THEN bound ELSE NoBindings

\* claim's test: the id is free, or is this key's already, or a rebind was asked for.
MayClaim(r) == Read[req[r].id] \in {NoKey, req[r].key} \/ req[r].rebind

\* claim, first half: take the mutex and read the whole record from Vault.
loadLocked(r) ==
  /\ req[r].pc = "claim"
  /\ CanLock(r)
  /\ \/ /\ ~CanRead                                       \* 503
        /\ req' = Reply(r)
        /\ mu' = Released(r)
     \/ /\ CanRead /\ Read[req[r].id] = req[r].key          \* a renewal: no write
        /\ req' = GoSign(r)
        /\ mu' = Released(r)
     \/ /\ CanRead /\ ~MayClaim(r)                         \* 409, errRebindRequired
        /\ req' = Reply(r)
        /\ mu' = Released(r)
     \/ /\ CanRead /\ Read[req[r].id] # req[r].key /\ MayClaim(r)
        /\ req' = [req EXCEPT ![r] =
             [@ EXCEPT !.pc = "put", !.write = [Read EXCEPT ![req[r].id] = req[r].key]]]
        /\ mu' = r
  /\ UNCHANGED <<vaultUp, version, bound, relay, issued, rebound>>

\* claim, second half: write the whole record back and release the mutex. Vault
\* may take the write and its answer may still be lost: the request then fails
\* with 503 although the id has changed hands.
kvPut(r) ==
  LET id == req[r].id
  IN  /\ req[r].pc = "put"
      /\ mu' = Nobody
      /\ \/ /\ vaultUp
            /\ bound' = req[r].write
            /\ rebound' = IF req[r].rebind /\ bound[id] \notin {NoKey, req[r].key}
                          THEN rebound \cup {id} ELSE rebound
            /\ req' \in {GoSign(r), Reply(r)}
         \/ /\ ~vaultUp
            /\ req' = Reply(r)
            /\ UNCHANGED <<bound, rebound>>
      /\ UNCHANGED <<vaultUp, version, relay, issued>>

\* vault.Sign: Vault signs with its newest version and the agent gets its
\* assertion, or the request fails with 503 and the claim stands.
Sign(r) ==
  /\ req[r].pc = "sign"
  /\ req' = Reply(r)
  /\ issued' = IF vaultUp
               THEN issued \cup {[id |-> req[r].id, key |-> req[r].key, version |-> version]}
               ELSE issued
  /\ UNCHANGED <<vaultUp, version, bound, mu, relay, rebound>>
-----------------------------------------------------------------------------
\* vault.start, first: the cached keys, if the file can be read.
loadCachedKeys ==
  /\ booting = "down"
  /\ pubKeys' = cached
  /\ booting' = "refresh"
  /\ UNCHANGED <<vaultUp, version, bound, req, mu, cached, served, lost, issued, rebound>>

\* Mutant: the refreshed keys are not written to disk.
KeepsOldCache == cached

\* What a completed saveCachedKeys leaves in the file.
SavedKeys == pubKeys

\* start returns: from here on the relay verifies with what it has in memory.
ComesUp == booting' = "up" /\ served' = served \cup pubKeys

\* ... then every version Vault has, which replaces what was loaded; a Vault that
\* does not answer is tolerated.
refreshKeys ==
  /\ booting = "refresh"
  /\ \/ vaultUp /\ pubKeys' = 1 .. version /\ booting' = "save" /\ UNCHANGED served
     \/ ~vaultUp /\ ComesUp /\ UNCHANGED pubKeys
  /\ UNCHANGED <<vaultUp, version, bound, req, mu, cached, lost, issued, rebound>>

\* ... and saves them. No state directory, or one that cannot be made or written
\* in, leaves the file as it was; otherwise os.WriteFile begins by truncating it.
saveCachedKeys ==
  /\ booting = "save"
  /\ \/ ComesUp /\ lost' = lost \cup (pubKeys \ cached) /\ UNCHANGED cached
     \/ booting' = "write" /\ cached' = {} /\ UNCHANGED <<served, lost>>
  /\ UNCHANGED <<vaultUp, version, bound, req, mu, pubKeys, issued, rebound>>

\* os.WriteFile's second half, which a full disk fails. start tolerates both.
writeCachedKeys ==
  /\ booting = "write"
  /\ ComesUp
  /\ \/ cached' = SavedKeys /\ lost' = lost \ SavedKeys
     \/ lost' = served \cup pubKeys /\ UNCHANGED cached
  /\ UNCHANGED <<vaultUp, version, bound, req, mu, pubKeys, issued, rebound>>

\* The relay is killed and will start again: requests die with it, and so do the
\* keys in memory. A kill inside os.WriteFile leaves the file truncated.
Crash ==
  /\ booting # "down"
  /\ booting' = "down"
  /\ req' = [r \in Requests |-> Idle]
  /\ mu' = Nobody
  /\ pubKeys' = {}
  /\ lost' = IF booting = "write" THEN served ELSE lost
  /\ UNCHANGED <<vaultUp, version, bound, cached, served, issued, rebound>>

\* External: Vault seals or unseals, and its owner rotates the transit key.
SealOrUnseal ==
  /\ vaultUp' = ~vaultUp
  /\ UNCHANGED <<version, bound, req, mu, relay, issued, rebound>>

Rotate ==
  /\ vaultUp
  /\ version < MaxVersion
  /\ version' = version + 1
  /\ UNCHANGED <<vaultUp, bound, req, mu, relay, issued, rebound>>

Proceed(r) == loadLocked(r) \/ kvPut(r) \/ Sign(r)

Next ==
  \/ \E r \in Requests :
       \/ Proceed(r)
       \/ \E id \in Ids, key \in Keys, rebind \in BOOLEAN : handleEnroll(r, id, key, rebind)
  \/ loadCachedKeys \/ refreshKeys \/ saveCachedKeys \/ writeCachedKeys \/ Crash
  \/ SealOrUnseal \/ Rotate

Spec == Init /\ [][Next]_vars
-----------------------------------------------------------------------------
\* An id belongs to the key that claimed it: unless an operator asked for a
\* rebind, no two keys ever hold assertions for one id, and the key on record is
\* the one that holds them, whatever requests overlap, fail half way or die.
FirstKeyOwnsId ==
  \A a \in issued :
    \/ a.id \in rebound
    \/ /\ bound[a.id] = a.key
       /\ \A b \in issued : b.id = a.id => b.key = a.key

\* No request undoes another's claim: a bound id stays bound, and moves to
\* another key only through a rebind of that very id.
ClaimsAreKept ==
  [][\A id \in Ids : bound[id] # NoKey /\ bound'[id] # bound[id] =>
       /\ bound'[id] # NoKey
       /\ \E r \in Requests : req[r].id = id /\ req[r].rebind /\ req[r].key = bound'[id]]_vars

\* A sealed Vault does not disconnect a fleet that is already running: whatever
\* key version one incarnation of the relay verified with, every later one does
\* too, even when it starts while Vault does not answer. Exempt is exactly what a
\* save that start tolerated kept off the disk: the new versions, when the file
\* could not be opened; all of them, when the write was cut after its truncate.
\* The next completed save makes up for either.
FleetStaysVerifiable == booting = "up" => served \ lost \subseteq pubKeys

\* A running fleet's access does not depend on Vault being awake, in no start of
\* the relay. Does not hold: a save that fails is only logged, and one that is
\* killed leaves the file truncated, so that the next start beside a sealed Vault
\* has no key to verify anybody with.
FleetNeedsNoVault == booting = "up" => served \subseteq pubKeys

\* An assertion a relay signed can be verified by it: every key version is
\* cached, so a key rotation shuts no agent out. Does not hold: refreshKeys runs
\* at a start only, and Sign uses the newest version.
IssuedIsVerifiable ==
  \A a \in issued : booting = "up" => a.version \in pubKeys
=============================================================================
