------------------------ MODULE OperatorAccountProofs -----------------------
(***************************************************************************)
(* Proofs about OperatorAccount, for any number of requests that overlap,  *)
(* saves, crashes, seals and writes of the cache that fail or are cut.     *)
(***************************************************************************)
EXTENDS OperatorAccount, TLAPS

\* A request lives only while the relay does; one that saves has a record to
\* save, and one that is about to get its cookie has an account to get it from.
\* A relay that is down decides with nothing, one that loads with what Vault had.
RequestsInv ==
  /\ \A r \in Requests : /\ req[r].pc # "idle" => relay = "up"
                         /\ req[r].pc \in SavePcs => req[r].rec \in Records
                         /\ req[r].pc = "cookie" => mem # NoRec
  /\ relay = "down" => mem = NoRec
  /\ relay = "load" => mem # NoRec

BaseInv == TypeOK /\ RequestsInv
-----------------------------------------------------------------------------
LEMMA InitBase == Init => BaseInv
<1> SUFFICES ASSUME Init PROVE TypeOK /\ RequestsInv
  BY DEF BaseInv
<1>1. TypeOK
  <2>1. saves \in 0 .. MaxSaves
    BY AccountAssumptions DEF Init
  <2>2. Idle \in [pc : SavePcs \cup {"idle", "cookie"},
                 does : {"bootstrap", "change", "login"}, rec : Records \cup {NoRec}]
    BY DEF Idle
  <2> QED BY <2>1, <2>2 DEF Init, TypeOK
<1>2. RequestsInv
  BY DEF Init, RequestsInv, Idle, SavePcs
<1> QED BY <1>1, <1>2

\* Every step keeps the types and where requests live.
LEMMA BaseStep == ASSUME BaseInv, [Next]_vars PROVE BaseInv'
<1> USE AccountAssumptions DEF BaseInv, TypeOK, RequestsInv, SavePcs, NoRec, Idle
<1>1. CASE load
  BY <1>1 DEF load
<1>2. CASE loadCaches
  BY <1>2 DEF loadCaches
<1>3. CASE Crash
  BY <1>3 DEF Crash
<1>4. CASE SealOrUnseal
  BY <1>4 DEF SealOrUnseal
<1>5. ASSUME NEW r \in Requests, NEW what \in {"bootstrap", "change"}, relay = "up",
             StartSave(r, what)
      PROVE  BaseInv'
  <2>1. saves + 1 \in Records /\ saves' \in 0 .. MaxSaves
    BY <1>5 DEF StartSave, Records
  <2>2. overlaps' \subseteq Records \X Records
    BY <1>5, <2>1 DEF StartSave
  <2> QED BY <1>5, <2>1, <2>2 DEF StartSave
<1>6. ASSUME NEW r \in Requests, writeVault(r) PROVE BaseInv'
  BY <1>6 DEF writeVault
<1>7. ASSUME NEW r \in Requests, writeCache(r) PROVE BaseInv'
  BY <1>7 DEF writeCache
<1>8. ASSUME NEW r \in Requests, WriteFile(r) PROVE BaseInv'
  BY <1>8 DEF WriteFile, Cached
<1>9. ASSUME NEW r \in Requests, set(r) PROVE BaseInv'
  <2>1. req[r].rec \in Records /\ mem' = req[r].rec /\ mem' # NoRec
    BY <1>9 DEF set, Records
  <2>2. replaced' \subseteq Records \X Records /\ created' \in Nat
    BY <1>9, <2>1 DEF set
  <2> QED BY <1>9, <2>1, <2>2 DEF set
<1>10. ASSUME NEW r \in Requests, setSession(r) PROVE BaseInv'
  <2>1. mem \in Records
    BY <1>10 DEF setSession
  <2> QED BY <1>10, <2>1 DEF setSession
<1>11. ASSUME NEW r \in Requests, NEW known \in Records, handleLogin(r, known) PROVE BaseInv'
  BY <1>11 DEF handleLogin, verify, Records
<1>12. CASE UNCHANGED vars
  BY <1>12 DEF vars
<1> QED
  BY <1>1, <1>2, <1>3, <1>4, <1>5, <1>6, <1>7, <1>8, <1>9, <1>10, <1>11, <1>12
  DEF Next, handleBootstrap, handleChangePassword

\* The operator account keeps its types, and a request ends with its relay.
THEOREM TypeCorrect == Spec => []BaseInv
BY InitBase, BaseStep, PTL DEF Spec
-----------------------------------------------------------------------------
(***************************************************************************)
(* The order of the saves. A save under way overlaps every save begun      *)
(* after it; so whatever it writes, late or not, the copy it leaves is no  *)
(* older than any other record, overlaps apart.                            *)
(***************************************************************************)

\* No copy is of a save that has not begun, and a save under way has a record of
\* its own, which overlaps every later one and is not yet in force.
SavesInv ==
  /\ mem <= saves /\ vault <= saves /\ cache <= saves
  /\ \A p \in replaced : p[1] <= saves /\ p[2] <= saves
  /\ \A r \in Requests : req[r].pc \in SavePcs =>
       /\ req[r].rec <= saves
       /\ req[r].rec # mem
       /\ \A q \in Requests \ {r} : req[q].pc \in SavePcs => req[q].rec # req[r].rec
       /\ \A a \in Records : req[r].rec < a /\ a <= saves => <<req[r].rec, a>> \in overlaps

\* Vault took every record that is in force, was, or is about to be, or is cached.
VaultInv ==
  /\ mem # NoRec => NotOlder(vault, mem)
  /\ cache # NoRec => NotOlder(vault, cache)
  /\ \A p \in replaced : NotOlder(vault, p[2])
  /\ \A r \in Requests : req[r].pc \in {"cache", "file", "set"} => NotOlder(vault, req[r].rec)
  /\ created > 0 => vault # NoRec

\* So did the cache, as long as its last write was completed.
CacheInv ==
  ~lost => /\ mem # NoRec => NotOlder(cache, mem)
           /\ \A p \in replaced : NotOlder(cache, p[2])
           /\ \A r \in Requests : req[r].pc = "set" => NotOlder(cache, req[r].rec)
           /\ created > 0 => cache # NoRec

\* What is in force is no older than what replaced something, and setup is closed,
\* unless the relay started from a cache that was behind.
MemInv ==
  /\ relay = "load" => mem = vault
  /\ CacheBehind \/ (mem # NoRec => \A p \in replaced : NotOlder(mem, p[2]))
  /\ CacheBehind \/ (created > 0 /\ relay # "down" => mem # NoRec)

\* A record was replaced by a later one, overlaps apart.
ReplacedInv == \A p \in replaced : p[1] < p[2] \/ <<p[2], p[1]>> \in overlaps

OrderInv == SavesInv /\ VaultInv /\ CacheInv /\ MemInv /\ ReplacedInv

\* Whatever a save under way leaves behind is no older than any record there is.
LEMMA SaveIsNotOlder ==
  ASSUME BaseInv, SavesInv, NEW r \in Requests, req[r].pc \in SavePcs,
         NEW a \in Records, a <= saves
  PROVE  NotOlder(req[r].rec, a)
BY DEF BaseInv, TypeOK, RequestsInv, SavesInv, NotOlder, Records

\* The steps that leave records and their order alone.
LEMMA QuietStep ==
  ASSUME BaseInv, OrderInv,
         UNCHANGED <<mem, vault, cache, saves, created, replaced, overlaps, lost>>,
         relay' = relay \/ (relay = "load" /\ relay' = "up"),
         \A r \in Requests : req'[r].pc \in SavePcs => req'[r] = req[r],
         \A r \in Requests : req[r].pc = "set" => req'[r] = req[r]
  PROVE  OrderInv'
<1> USE DEF OrderInv, NotOlder
<1>1. SavesInv'
  BY DEF SavesInv
<1>2. VaultInv'
  BY DEF VaultInv, SavePcs
<1>3. CacheInv'
  BY DEF CacheInv, SavePcs
<1>4. MemInv' /\ ReplacedInv'
  BY DEF MemInv, ReplacedInv, CacheBehind, SavePcs
<1> QED BY <1>1, <1>2, <1>3, <1>4

\* A start from either copy: Vault's is no older than anything that was in force,
\* nor is the cache's unless it is behind.
LEMMA LoadStep == ASSUME BaseInv, OrderInv, load PROVE OrderInv'
<1> USE DEF OrderInv, NotOlder
<1>0. /\ \A r \in Requests : req[r].pc = "idle" /\ req'[r].pc = "idle"
      /\ UNCHANGED <<vault, saves, created, replaced, overlaps>>
      /\ {mem, vault, cache} \subseteq Nat /\ mem' \in {vault, cache}
      /\ cache' = cache \/ cache' = NoRec
      /\ saves \in Nat /\ replaced \subseteq Nat \X Nat
  BY AccountAssumptions DEF load, BaseInv, TypeOK, RequestsInv, Records, NoRec
<1>1. SavesInv'
  BY <1>0 DEF SavesInv, SavePcs, NoRec
<1>2. VaultInv'
  BY <1>0 DEF VaultInv, SavePcs, NoRec
<1>3. CacheInv'
  <2>1. CASE lost'
    BY <2>1 DEF CacheInv
  <2>2. CASE mem' = cache /\ UNCHANGED <<cache, lost>>
    BY <1>0, <2>2 DEF CacheInv
  <2>3. CASE mem' = vault /\ cache' = vault
    BY <1>0, <2>3 DEF CacheInv, VaultInv
  <2>4. ~lost' => (mem' = cache /\ UNCHANGED <<cache, lost>>) \/ (mem' = vault /\ cache' = vault)
    BY DEF load
  <2> QED BY <2>1, <2>2, <2>3, <2>4
<1>4. MemInv'
  BY <1>0 DEF MemInv, CacheInv, VaultInv, CacheBehind, load, NoRec
<1>5. ReplacedInv'
  BY <1>0 DEF ReplacedInv
<1> QED BY <1>1, <1>2, <1>3, <1>4, <1>5

LEMMA LoadCachesStep == ASSUME BaseInv, OrderInv, loadCaches PROVE OrderInv'
<1> USE DEF OrderInv, NotOlder
<1>0. /\ \A r \in Requests : req[r].pc = "idle" /\ req'[r].pc = "idle"
      /\ UNCHANGED <<mem, vault, saves, created, replaced, overlaps>>
      /\ mem = vault /\ mem # NoRec /\ mem \in Nat /\ relay = "load" /\ relay' = "up"
  BY DEF loadCaches, MemInv, BaseInv, TypeOK, RequestsInv, Records, NoRec
<1>1. CASE UNCHANGED <<cache, lost>>
  BY <1>0, <1>1, QuietStep DEF loadCaches, SavePcs
<1>2. CASE cache' = mem /\ lost' = FALSE
  <2>1. SavesInv'
    BY <1>0, <1>2 DEF SavesInv, SavePcs
  <2>2. VaultInv'
    BY <1>0, <1>2 DEF VaultInv
  <2>3. CacheInv'
    BY <1>0, <1>2 DEF CacheInv, VaultInv
  <2>4. MemInv'
    BY <1>0, <1>2 DEF MemInv, VaultInv, CacheBehind
  <2>5. ReplacedInv'
    BY <1>0 DEF ReplacedInv
  <2> QED BY <2>1, <2>2, <2>3, <2>4, <2>5
<1> QED BY <1>1, <1>2 DEF loadCaches

LEMMA CrashStep == ASSUME BaseInv, OrderInv, Crash PROVE OrderInv'
<1> USE DEF OrderInv, NotOlder
<1>0. /\ \A r \in Requests : req'[r].pc = "idle"
      /\ mem' = NoRec /\ relay' = "down" /\ saves \in Nat
      /\ UNCHANGED <<vault, cache, saves, created, replaced, overlaps, lost>>
  BY DEF Crash, Idle, BaseInv, TypeOK
<1>1. SavesInv'
  BY <1>0 DEF SavesInv, SavePcs, NoRec
<1>2. VaultInv' /\ CacheInv' /\ MemInv' /\ ReplacedInv'
  BY <1>0 DEF VaultInv, CacheInv, MemInv, ReplacedInv, CacheBehind
<1> QED BY <1>1, <1>2

\* A save begins: it is later than everything, and overlaps the saves under way.
LEMMA StartStep ==
  ASSUME BaseInv, OrderInv, NEW r \in Requests, NEW what \in {"bootstrap", "change"},
         req[r] = Idle, StartSave(r, what)
  PROVE  OrderInv'
<1> USE DEF OrderInv, NotOlder
<1>0. /\ req'[r].pc = "vault" /\ req'[r].rec = saves + 1 /\ saves' = saves + 1
      /\ \A q \in Requests \ {r} : req'[q] = req[q]
      /\ UNCHANGED <<mem, vault, cache, relay, created, replaced, lost>>
      /\ overlaps \subseteq overlaps'
      /\ \A q \in Requests : req[q].pc \in SavePcs => <<req[q].rec, saves + 1>> \in overlaps'
      /\ req[r].pc = "idle"
      /\ saves \in Nat /\ {mem, vault, cache} \subseteq Nat
  BY AccountAssumptions DEF StartSave, BaseInv, TypeOK, Idle, Records, NoRec
<1>1. \A q \in Requests : req[q].pc \in SavePcs => req[q].rec \in Nat /\ req[q].rec <= saves
  BY DEF BaseInv, RequestsInv, SavesInv, Records
<1>2. SavesInv'
  <2>1. mem' <= saves' /\ vault' <= saves' /\ cache' <= saves'
    BY <1>0 DEF SavesInv
  <2>2. \A p \in replaced' : p[1] <= saves' /\ p[2] <= saves'
    BY <1>0 DEF SavesInv, BaseInv, TypeOK, Records
  <2>3. ASSUME NEW q \in Requests, req'[q].pc \in SavePcs
        PROVE  /\ req'[q].rec <= saves' /\ req'[q].rec # mem'
               /\ \A p \in Requests \ {q} : req'[p].pc \in SavePcs => req'[p].rec # req'[q].rec
               /\ \A a \in Records : req'[q].rec < a /\ a <= saves' =>
                    <<req'[q].rec, a>> \in overlaps'
    <3>1. CASE q = r
      BY <1>0, <1>1, <3>1 DEF SavesInv, Records
    <3>2. CASE q # r
      <4>1. req'[q] = req[q]
        BY <1>0, <3>2
      <4>2. req[q].rec <= saves + 1 /\ req[q].rec # mem
        BY <1>0, <1>1, <2>3, <4>1 DEF SavesInv
      <4>3. ASSUME NEW p \in Requests \ {q}, req'[p].pc \in SavePcs
            PROVE  req'[p].rec # req[q].rec
        BY <1>0, <1>1, <2>3, <4>1, <4>3 DEF SavesInv
      <4>4. ASSUME NEW a \in Records, req[q].rec < a, a <= saves + 1
            PROVE  <<req[q].rec, a>> \in overlaps'
        <5>1. CASE a = saves + 1
          BY <1>0, <2>3, <4>1, <5>1
        <5>2. CASE a <= saves
          BY <1>0, <2>3, <4>1, <4>4, <5>2 DEF SavesInv
        <5> QED BY <1>0, <4>4, <5>1, <5>2 DEF Records
      <4> QED BY <1>0, <4>1, <4>2, <4>3, <4>4
    <3> QED BY <3>1, <3>2
  <2> QED BY <2>1, <2>2, <2>3 DEF SavesInv
<1>3. VaultInv'
  BY <1>0 DEF VaultInv
<1>4. CacheInv'
  BY <1>0 DEF CacheInv
<1>5. MemInv' /\ ReplacedInv'
  BY <1>0 DEF MemInv, ReplacedInv, CacheBehind
<1> QED BY <1>2, <1>3, <1>4, <1>5

\* Vault takes the record of a save under way.
LEMMA VaultStep ==
  ASSUME BaseInv, OrderInv, NEW r \in Requests, writeVault(r) PROVE OrderInv'
<1> USE DEF OrderInv
<1>0. /\ req[r].pc = "vault" /\ req[r].pc \in SavePcs /\ relay = "up"
      /\ \A q \in Requests \ {r} : req'[q] = req[q]
      /\ req'[r].pc = "idle" \/ (req'[r].pc = "cache" /\ req'[r].rec = req[r].rec)
      /\ UNCHANGED <<mem, cache, relay, saves, created, replaced, overlaps, lost>>
      /\ \A a \in Records, b \in Records : NotOlder(a, b)' = NotOlder(a, b)
  BY DEF writeVault, SavePcs, BaseInv, TypeOK, RequestsInv, Idle, NotOlder
<1>1. CASE vault' = vault /\ req'[r].pc = "idle"
  BY <1>0, <1>1, QuietStep DEF SavePcs
<1>2. CASE vault' = req[r].rec
  <2>1. \A a \in Records : a <= saves => NotOlder(vault, a)'
    BY <1>0, <1>2, SaveIsNotOlder DEF NotOlder
  <2>2. /\ vault' \in Records /\ vault' <= saves /\ vault' # NoRec
    BY <1>0, <1>2 DEF BaseInv, RequestsInv, SavesInv, Records, NoRec
  <2>3. SavesInv'
    BY <1>0, <1>2, <2>2 DEF SavesInv, SavePcs
  <2>4. VaultInv'
    <3>1. mem \in Records \cup {NoRec} /\ cache \in Records \cup {NoRec}
          /\ replaced \subseteq Records \X Records
      BY DEF BaseInv, TypeOK
    <3>2. \A q \in Requests : req'[q].pc \in SavePcs => req'[q].rec \in Records /\ req'[q].rec <= saves
      BY <1>0 DEF BaseInv, RequestsInv, SavesInv, SavePcs
    <3> QED BY <1>0, <2>1, <2>2, <3>1, <3>2 DEF VaultInv, SavesInv, SavePcs
  <2>5. CacheInv' /\ ReplacedInv'
    BY <1>0 DEF CacheInv, ReplacedInv, NotOlder
  <2>6. MemInv'
    BY <1>0 DEF MemInv, CacheBehind, NotOlder
  <2> QED BY <2>3, <2>4, <2>5, <2>6
<1> QED BY <1>1, <1>2 DEF writeVault, Idle, BaseInv, TypeOK

\* The cache is left alone or truncated; either way it is behind.
LEMMA CacheStep ==
  ASSUME BaseInv, OrderInv, NEW r \in Requests, writeCache(r) PROVE OrderInv'
<1> USE DEF OrderInv, NotOlder
<1>0. /\ req[r].pc = "cache" /\ relay = "up" /\ lost'
      /\ \A q \in Requests \ {r} : req'[q] = req[q]
      /\ req'[r].pc \in {"set", "file"} /\ req'[r].rec = req[r].rec
      /\ cache' = cache \/ cache' = NoRec
      /\ UNCHANGED <<mem, vault, relay, saves, created, replaced, overlaps>>
      /\ saves \in Nat
  BY DEF writeCache, BaseInv, TypeOK, RequestsInv
<1>1. SavesInv'
  BY <1>0 DEF SavesInv, SavePcs, NoRec
<1>2. VaultInv'
  BY <1>0 DEF VaultInv
<1>3. CacheInv' /\ MemInv' /\ ReplacedInv'
  BY <1>0 DEF CacheInv, MemInv, ReplacedInv, CacheBehind
<1> QED BY <1>1, <1>2, <1>3

\* The write ends: with the record of a save under way, or with a loss.
LEMMA FileStep ==
  ASSUME BaseInv, OrderInv, NEW r \in Requests, WriteFile(r) PROVE OrderInv'
<1> USE DEF OrderInv
<1>0. /\ req[r].pc = "file" /\ req[r].pc \in SavePcs /\ relay = "up"
      /\ \A q \in Requests \ {r} : req'[q] = req[q]
      /\ req'[r].pc = "set" /\ req'[r].rec = req[r].rec
      /\ UNCHANGED <<mem, vault, relay, saves, created, replaced, overlaps>>
      /\ saves \in Nat
      /\ CacheBehind'
  BY DEF WriteFile, SavePcs, BaseInv, TypeOK, RequestsInv, CacheBehind
<1>1. req[r].rec \in Records /\ req[r].rec <= saves /\ req[r].rec # NoRec
  BY <1>0 DEF BaseInv, RequestsInv, SavesInv, Records, NoRec
<1>2. MemInv' /\ ReplacedInv'
  BY <1>0 DEF MemInv, ReplacedInv
<1>3. SavesInv'
  BY <1>0, <1>1 DEF SavesInv, WriteFile, Cached, SavePcs, NoRec
<1>4. VaultInv'
  BY <1>0, <1>1 DEF VaultInv, WriteFile, Cached, NotOlder
<1>5. CacheInv'
  <2>1. CASE lost'
    BY <2>1 DEF CacheInv
  <2>2. CASE cache' = req[r].rec
    <3>1. \A a \in Records : a <= saves => NotOlder(cache, a)'
      BY <1>0, <2>2, SaveIsNotOlder DEF NotOlder
    <3>2. mem \in Records \cup {NoRec} /\ replaced \subseteq Records \X Records
      BY DEF BaseInv, TypeOK
    <3>3. \A q \in Requests : req'[q].pc \in SavePcs => req'[q].rec \in Records /\ req'[q].rec <= saves
      BY <1>0 DEF BaseInv, RequestsInv, SavesInv, SavePcs
    <3> QED BY <1>0, <1>1, <2>2, <3>1, <3>2, <3>3 DEF CacheInv, SavesInv, SavePcs
  <2> QED BY <2>1, <2>2 DEF WriteFile, Cached
<1> QED BY <1>2, <1>3, <1>4, <1>5

\* Memory takes the record of a save under way.
LEMMA SetStep ==
  ASSUME BaseInv, OrderInv, NEW r \in Requests, set(r) PROVE OrderInv'
<1> USE DEF OrderInv
<1>0. /\ req[r].pc = "set" /\ req[r].pc \in SavePcs /\ relay = "up"
      /\ \A q \in Requests \ {r} : req'[q] = req[q]
      /\ req'[r].pc = "cookie" /\ mem' = req[r].rec
      /\ UNCHANGED <<vault, cache, relay, saves, overlaps, lost>>
      /\ saves \in Nat /\ mem \in Records \cup {NoRec} /\ replaced \subseteq Records \X Records
  BY DEF set, SavePcs, BaseInv, TypeOK, RequestsInv
<1>1. req[r].rec \in Records /\ req[r].rec <= saves /\ req[r].rec # NoRec /\ req[r].rec # mem
  BY <1>0 DEF BaseInv, RequestsInv, SavesInv, Records, NoRec
<1>2. \A a \in Records : a <= saves => NotOlder(mem, a)'
  BY <1>0, SaveIsNotOlder DEF NotOlder
<1>3. \A p \in replaced' : p \in replaced \/ (p = <<mem, req[r].rec>> /\ mem \in Records)
  BY <1>0 DEF set
<1>4. SavesInv'
  BY <1>0, <1>1, <1>3 DEF SavesInv, SavePcs
<1>5. NotOlder(vault, req[r].rec) /\ (~lost => NotOlder(cache, req[r].rec))
  BY <1>0 DEF VaultInv, CacheInv
<1>6. VaultInv'
  <2>1. vault # NoRec
    BY <1>0, <1>1, <1>5 DEF NotOlder, BaseInv, TypeOK, Records, NoRec
  <2> QED BY <1>0, <1>3, <1>5, <2>1 DEF VaultInv, NotOlder, SavePcs
<1>7. CacheInv'
  <2>1. ~lost => cache # NoRec
    BY <1>0, <1>1, <1>5 DEF NotOlder, BaseInv, TypeOK, Records, NoRec
  <2> QED BY <1>0, <1>3, <1>5, <2>1 DEF CacheInv, NotOlder
<1>8. MemInv'
  <2>1. \A p \in replaced' : p[2] \in Records /\ p[2] <= saves
    BY <1>0, <1>1, <1>3 DEF SavesInv
  <2>2. \A p \in replaced' : NotOlder(mem, p[2])'
    BY <1>2, <2>1 DEF NotOlder
  <2> QED BY <1>0, <1>1, <2>2 DEF MemInv, NotOlder
<1>9. ReplacedInv'
  <2>1. mem \in Records => mem < req[r].rec \/ <<req[r].rec, mem>> \in overlaps
    BY <1>0, <1>1 DEF SavesInv, Records
  <2>2. ASSUME NEW p \in replaced', p = <<mem, req[r].rec>>, mem \in Records
        PROVE  p[1] < p[2] \/ <<p[2], p[1]>> \in overlaps'
    BY <1>0, <2>1, <2>2
  <2> QED BY <1>0, <1>3, <2>2 DEF ReplacedInv
<1> QED BY <1>4, <1>6, <1>7, <1>8, <1>9

\* Every step keeps the order.
LEMMA OrderStep == ASSUME BaseInv, OrderInv, [Next]_vars PROVE OrderInv'
<1>1. CASE SealOrUnseal
  BY <1>1, QuietStep DEF SealOrUnseal
<1>2. ASSUME NEW r \in Requests, setSession(r) PROVE OrderInv'
  BY <1>2, QuietStep DEF setSession, BaseInv, TypeOK, Idle, SavePcs
<1>3. ASSUME NEW r \in Requests, NEW known \in Records, handleLogin(r, known) PROVE OrderInv'
  BY <1>3, QuietStep DEF handleLogin, BaseInv, TypeOK, Idle, SavePcs
<1>4. CASE UNCHANGED vars
  BY <1>4, QuietStep DEF vars
<1> QED
  BY <1>1, <1>2, <1>3, <1>4, LoadStep, LoadCachesStep, CrashStep, StartStep, VaultStep,
     CacheStep, FileStep, SetStep
  DEF Next, handleBootstrap, handleChangePassword

LEMMA AlwaysOrdered == Spec => [](BaseInv /\ OrderInv)
<1>1. Init => OrderInv
  BY AccountAssumptions
  DEF Init, OrderInv, SavesInv, VaultInv, CacheInv, MemInv, ReplacedInv, CacheBehind, Idle,
      SavePcs, NoRec
<1> QED BY <1>1, InitBase, BaseStep, OrderStep, PTL DEF Spec
-----------------------------------------------------------------------------
\* operatorStore.save: a restart brings back the password in force, a newer one or
\* one whose change overlapped it, from Vault always and from the cache unless its
\* last write was lost; for any overlaps, failures and kills.
THEOREM ChangeSurvives == Spec => []ChangeSurvivesRestart
<1>1. OrderInv => ChangeSurvivesRestart
  BY DEF OrderInv, VaultInv, CacheInv, ChangeSurvivesRestart
<1> QED BY <1>1, AlwaysOrdered, PTL

\* operatorStore.set: a cookie that a change of password revoked works in no later
\* state, restarts from either copy included, but for overlapping changes and a
\* cache whose last write was lost.
THEOREM RevokedForGood == Spec => []RevokedStaysRevoked
<1>1. BaseInv /\ OrderInv => RevokedStaysRevoked
  <2> SUFFICES ASSUME BaseInv, OrderInv, NEW p \in replaced, p[1] = mem, ~CacheBehind
               PROVE  p \in overlaps \/ <<p[2], p[1]>> \in overlaps
    BY DEF RevokedStaysRevoked
  <2>1. p \in Records \X Records /\ mem # NoRec
    BY DEF BaseInv, TypeOK, Records, NoRec
  <2>2. mem >= p[2] \/ <<mem, p[2]>> \in overlaps
    BY <2>1 DEF OrderInv, MemInv, NotOlder
  <2>3. p[1] < p[2] \/ <<p[2], p[1]>> \in overlaps
    BY DEF OrderInv, ReplacedInv
  <2> QED BY <2>1, <2>2, <2>3 DEF Records
<1> QED BY <1>1, AlwaysOrdered, PTL

\* auth.bootstrapping: once a bootstrap was answered with success Vault has the
\* account for good, and no relay that runs offers setup again unless it started
\* from a cache whose last write was lost; whatever overlaps, fails or is killed.
THEOREM SetupClosed == Spec => []SetupStaysClosed
<1>1. BaseInv /\ OrderInv => SetupStaysClosed
  BY DEF BaseInv, OrderInv, VaultInv, MemInv, SetupStaysClosed, bootstrapping
<1> QED BY <1>1, AlwaysOrdered, PTL
=============================================================================
