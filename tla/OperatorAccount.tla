-------------------------- MODULE OperatorAccount ---------------------------
(***************************************************************************)
(* The operator account behind the dashboard: the copy the relay decides   *)
(* with, the copy in Vault and the copy in its cache file, and the         *)
(* requests that create, change and use it (server/operator.go,            *)
(* server/auth.go). save writes Vault, then the cache, then memory, with   *)
(* no lock across the three; between any two of them another request may   *)
(* run, Vault may seal and the relay may be killed. The cache is written   *)
(* in place, and a write of it that fails is only logged.                  *)
(*                                                                         *)
(* Every save makes a new password and a new session key (both callers ask *)
(* for rotation), so a record is just the number of the save that made it. *)
(***************************************************************************)
EXTENDS Naturals

CONSTANTS
  Requests,       \* concurrent requests to the auth handlers
  MaxSaves        \* bound of the saves started

ASSUME AccountAssumptions == MaxSaves \in Nat \ {0}

NoRec == 0        \* no record: a nil *operator, a 404, an unreadable file
Records == 1 .. MaxSaves

VARIABLES
  mem,        \* operatorStore.rec
  vault,      \* the record in Vault
  cache,      \* the record in the cache file
  vaultUp,    \* Vault answers
  relay,      \* "down", "load" (writing the cache at startup), "up"
  saves,      \* saves started so far
  req,        \* req[r]: where request r is and the record it works with
  created,    \* history: how many bootstraps have been answered with success
  cookies,    \* the records whose session key signed a cookie in some browser
  replaced,   \* history: <<c, d>>: a save of d replaced c in memory
  overlaps,   \* history: <<a, b>>: save b began while save a was under way
  lost        \* history: the last write of the cache failed, or was cut, or is under way

vars == <<mem, vault, cache, vaultUp, relay, saves, req, created, cookies, replaced,
          overlaps, lost>>

Idle == [pc |-> "idle", does |-> "login", rec |-> NoRec]

\* Where a save is: before Vault, before the cache, inside os.WriteFile, before memory.
SavePcs == {"vault", "cache", "file", "set"}

TypeOK ==
  /\ {mem, vault, cache} \subseteq Records \cup {NoRec}
  /\ vaultUp \in BOOLEAN /\ relay \in {"down", "load", "up"}
  /\ saves \in 0 .. MaxSaves
  /\ req \in [Requests -> [pc : SavePcs \cup {"idle", "cookie"},
                           does : {"bootstrap", "change", "login"},
                           rec : Records \cup {NoRec}]]
  /\ created \in Nat
  /\ cookies \subseteq Records
  /\ replaced \subseteq Records \X Records
  /\ overlaps \subseteq Records \X Records
  /\ lost \in BOOLEAN

Init ==
  /\ mem = NoRec /\ vault = NoRec /\ cache = NoRec
  /\ vaultUp \in BOOLEAN /\ relay = "down"
  /\ saves = 0
  /\ req = [r \in Requests |-> Idle]
  /\ created = 0
  /\ cookies = {} /\ replaced = {} /\ overlaps = {} /\ lost = FALSE
-----------------------------------------------------------------------------
\* Mutant: a startup with no fallback to the cache.
LoadsVaultOnly ==
  /\ relay = "down"
  /\ relay' = "up"
  /\ mem' = IF vaultUp THEN vault ELSE NoRec
  /\ UNCHANGED <<vault, cache, vaultUp, saves, req, created, cookies, replaced, overlaps, lost>>

\* load, at startup: Vault first, then the cache. What Vault has is also put in
\* the cache: with no directory for it, or a file that cannot be opened, it stays
\* as it was; otherwise os.WriteFile begins by truncating it.
load ==
  /\ relay = "down"
  /\ IF vaultUp /\ vault # NoRec
     THEN /\ mem' = vault
          /\ \/ relay' = "up" /\ lost' = (cache # vault) /\ UNCHANGED cache
             \/ relay' = "load" /\ lost' = TRUE /\ cache' = NoRec
     ELSE /\ mem' = cache
          /\ relay' = "up"
          /\ UNCHANGED <<cache, lost>>
  /\ UNCHANGED <<vault, vaultUp, saves, req, created, cookies, replaced, overlaps>>

\* ... and ends with the record, or with a failure that is logged.
loadCaches ==
  /\ relay = "load"
  /\ relay' = "up"
  /\ \/ cache' = mem /\ lost' = FALSE
     \/ UNCHANGED <<cache, lost>>
  /\ UNCHANGED <<mem, vault, vaultUp, saves, req, created, cookies, replaced, overlaps>>

\* The relay is killed: memory and requests are gone.
Crash ==
  /\ relay # "down"
  /\ relay' = "down"
  /\ mem' = NoRec
  /\ req' = [r \in Requests |-> Idle]
  /\ UNCHANGED <<vault, cache, vaultUp, saves, created, cookies, replaced, overlaps, lost>>

\* External: Vault seals or unseals.
SealOrUnseal ==
  /\ vaultUp' = ~vaultUp
  /\ UNCHANGED <<mem, vault, cache, relay, saves, req, created, cookies, replaced, overlaps,
                 lost>>
-----------------------------------------------------------------------------
\* auth.bootstrapping: no account in memory.
bootstrapping == mem = NoRec

\* operatorStore.verify: the password typed is that of the record in memory.
verify(known) == mem = known

\* save begins: the password is hashed and a fresh session key drawn.
StartSave(r, what) ==
  /\ saves < MaxSaves
  /\ saves' = saves + 1
  /\ req' = [req EXCEPT ![r] = [pc |-> "vault", does |-> what, rec |-> saves + 1]]
  /\ overlaps' = overlaps \cup
       {<<req[q].rec, saves + 1>> : q \in {p \in Requests : req[p].pc \in SavePcs}}
  /\ UNCHANGED <<mem, vault, cache, vaultUp, relay, created, cookies, replaced, lost>>

\* handleBootstrap, up to save: the form is open and the admin token is right.
handleBootstrap(r) ==
  /\ relay = "up" /\ req[r] = Idle
  /\ bootstrapping
  /\ StartSave(r, "bootstrap")

\* handleChangePassword, up to save: the current password is right. (The admin
\* token is taken in its place; whoever holds it reaches the same states.)
handleChangePassword(r, known) ==
  /\ relay = "up" /\ req[r] = Idle
  /\ ~bootstrapping
  /\ verify(known)
  /\ StartSave(r, "change")

\* Mutant: a failure of Vault is warned about, as one of the cache is.
WarnsAboutVault(r) ==
  /\ req[r].pc = "vault"
  /\ vault' = IF vaultUp THEN req[r].rec ELSE vault
  /\ req' = [req EXCEPT ![r].pc = "cache"]
  /\ UNCHANGED <<mem, cache, vaultUp, relay, saves, created, cookies, replaced, overlaps, lost>>

\* save's kvPut: on failure the whole save fails (400). An answer may be lost
\* after Vault took the write; the request then fails too.
writeVault(r) ==
  /\ req[r].pc = "vault"
  /\ \/ /\ vaultUp
        /\ vault' = req[r].rec
        /\ req' \in {[req EXCEPT ![r].pc = "cache"], [req EXCEPT ![r] = Idle]}
     \/ /\ ~vaultUp
        /\ req' = [req EXCEPT ![r] = Idle]
        /\ UNCHANGED vault
  /\ UNCHANGED <<mem, cache, vaultUp, relay, saves, created, cookies, replaced, overlaps, lost>>

\* save's writeCache: it fails before the file is opened, which save only warns
\* about, or os.WriteFile truncates the file.
writeCache(r) ==
  /\ req[r].pc = "cache"
  /\ lost' = TRUE
  /\ \/ req' = [req EXCEPT ![r].pc = "set"] /\ UNCHANGED cache
     \/ req' = [req EXCEPT ![r].pc = "file"] /\ cache' = NoRec
  /\ UNCHANGED <<mem, vault, vaultUp, relay, saves, created, cookies, replaced, overlaps>>

\* Mutant: the record cached is the one that is being replaced.
CachesOld(r) == mem

\* The record a completed write leaves in the file.
Cached(r) == req[r].rec

\* ... and writes it: the record is in the file, or the write failed, or it was
\* laid over that of another save, longer or shorter, and the file does not parse.
WriteFile(r) ==
  /\ req[r].pc = "file"
  /\ req' = [req EXCEPT ![r].pc = "set"]
  /\ \/ cache' = Cached(r) /\ lost' = FALSE
     \/ cache' \in {cache, NoRec} /\ lost' = TRUE
  /\ UNCHANGED <<mem, vault, vaultUp, relay, saves, created, cookies, replaced, overlaps>>

\* operatorStore.set: from here on the new password is the one that works.
set(r) ==
  /\ req[r].pc = "set"
  /\ mem' = req[r].rec
  /\ req' = [req EXCEPT ![r].pc = "cookie"]
  /\ created' = IF req[r].does = "bootstrap" THEN created + 1 ELSE created
  /\ replaced' = IF mem = NoRec THEN replaced ELSE replaced \cup {<<mem, req[r].rec>>}
  /\ UNCHANGED <<vault, cache, vaultUp, relay, saves, cookies, overlaps, lost>>

\* handleLogin, up to the cookie: the password typed is the account's.
handleLogin(r, known) ==
  /\ relay = "up" /\ req[r] = Idle
  /\ known # NoRec
  /\ verify(known)
  /\ req' = [req EXCEPT ![r] = [pc |-> "cookie", does |-> "login", rec |-> known]]
  /\ UNCHANGED <<mem, vault, cache, vaultUp, relay, saves, created, cookies, replaced,
                 overlaps, lost>>

\* setSession: the cookie is signed with the session key in force now.
setSession(r) ==
  /\ req[r].pc = "cookie"
  /\ cookies' = cookies \cup {mem}
  /\ req' = [req EXCEPT ![r] = Idle]
  /\ UNCHANGED <<mem, vault, cache, vaultUp, relay, saves, created, replaced, overlaps, lost>>

Next ==
  \/ load \/ loadCaches \/ Crash \/ SealOrUnseal
  \/ \E r \in Requests :
       \/ handleBootstrap(r) \/ writeVault(r) \/ writeCache(r) \/ WriteFile(r) \/ set(r)
       \/ setSession(r)
       \/ \E known \in Records : handleChangePassword(r, known) \/ handleLogin(r, known)

Spec == Init /\ [][Next]_vars
-----------------------------------------------------------------------------
\* A copy does not bring back a password older than this one, unless the two
\* saves overlapped and nobody can say which came first.
NotOlder(copy, rec) == copy >= rec \/ <<copy, rec>> \in overlaps

\* A password that works survives: whatever overlapped, failed or was killed,
\* Vault has the one in force, a newer one or one whose change overlapped it, and
\* so has the cache file unless its last write failed, was cut or is under way.
ChangeSurvivesRestart ==
  mem # NoRec => NotOlder(vault, mem) /\ (lost \/ NotOlder(cache, mem))

\* What a lost write of the cache did to a start beside a sealed Vault is undone
\* by the next save that reaches memory.
CacheBehind == lost \/ \E r \in Requests : req[r].pc = "set"

\* Changing the password invalidates every outstanding session, and nothing that
\* happens later, a restart from an old copy included, revives one; except that
\* of two changes that overlapped either may come out last, and that a cache
\* whose last write was lost may bring the old key back.
RevokedStaysRevoked ==
  \A p \in replaced : p[1] \in cookies /\ p[1] = mem =>
    p \in overlaps \/ <<p[2], p[1]>> \in overlaps \/ CacheBehind

\* Once there is an account Vault has it for good, and setup stays closed: a
\* running relay never forgets it, and one that restarts, even beside a sealed
\* Vault, finds it, unless the last write of the cache was lost.
SetupStaysClosed ==
  created > 0 => vault # NoRec /\ (relay = "up" /\ bootstrapping => CacheBehind)

\* Setup closes behind itself: at most one bootstrap ever succeeds. Does not
\* hold when two setup forms are sent together: the test and the save are two
\* steps.
BootstrapOnce == created <= 1

\* A sealed Vault locks nobody out: a relay with an account always knows it. Does
\* not hold: the cache is truncated before it is written, and a failure to write
\* it is only logged.
SealedVaultLetsIn == created > 0 /\ relay = "up" => ~bootstrapping
=============================================================================
