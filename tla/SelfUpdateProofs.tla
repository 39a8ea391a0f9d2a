-------------------------- MODULE SelfUpdateProofs --------------------------
(***************************************************************************)
(* Proofs about SelfUpdate, for any number of releases of any quality, any *)
(* adversities and any updates, `beacon update` beside an automatic one    *)
(* included. Nothing in the code keeps two apart, and two do destroy the   *)
(* copy: what is proved of the copy is proved up to the first rash update. *)
(***************************************************************************)
EXTENDS SelfUpdate, TLAPS

\* One process updates, and the agent's own goroutine only up to the helper.
Solo ==
  /\ \A p, q \in Procs : pc[p] # "idle" /\ pc[q] # "idle" => p = q
  /\ pc["auto"] \in {"idle", "guard", "download", "stage", "aside", "install", "fresh", "spawn"}

\* The binary is missing only between two renames or, if the machine went down or
\* a rename failed between them, in a quiet moment; then .old is there.
KeptInv ==
  /\ \A p \in Procs :
       /\ pc[p] # "fresh"
       /\ pc[p] \in {"install", "fail1", "fail2", "restore1", "restore2"} => old # None
  /\ exe = None =>
       /\ old # None
       /\ Quiet \/ \E p \in Procs : pc[p] \in {"install", "restore1", "restore2"}

\* Without adversities: a build that answers is in place until it is moved, is in
\* .old until the one that replaces it has answered, and is in place again after.
GoodInv ==
  world = {} =>
    /\ \A b \in Builds : kind[b] # "dead"
    /\ Quiet => Answers(exe) /\ running # None
    /\ \A p \in Procs :
         /\ pc[p] \in {"guard", "download", "stage", "aside"} => Answers(exe) /\ running # None
         /\ pc[p] = "install" => Answers(old) /\ running # None
         /\ pc[p] \in {"spawn", "apply"} => Answers(old) /\ exe # None /\ running # None
         /\ pc[p] = "stop" => Answers(old) /\ exe # None
         /\ pc[p] = "start" => Answers(old) /\ exe # None /\ running = None /\ ~wanted
         /\ pc[p] \in {"wait", "unanswered"} => Answers(old) /\ exe # None /\ running = exe
         /\ pc[p] \in {"fail2", "restore2"} => Answers(old) /\ running = None /\ ~wanted
         /\ pc[p] = "fail2" => exe # None
         /\ pc[p] = "restart" => Answers(exe)
         /\ pc[p] \notin {"unstarted", "fail1", "restore1"}
-----------------------------------------------------------------------------
AutoPcs == {"idle", "guard", "download", "stage", "aside", "install", "fresh", "spawn"}

Pcs == AutoPcs \cup {"apply", "stop", "start", "wait", "unstarted", "unanswered", "restore1",
                     "restore2", "fail1", "fail2", "restart"}

LEMMA Numbers == None \notin Builds /\ 0 \in Builds
BY UpdateAssumptions DEF Builds, None

\* While p works nobody else does, before its step and after.
LEMMA Alone ==
  ASSUME TypeOK, Solo, NEW p \in Procs, pc[p] # "idle"
  PROVE  /\ \A q \in Procs \ {p} : pc[q] = "idle"
         /\ ~Quiet
BY DEF Solo, Quiet

LEMMA GoFacts ==
  ASSUME TypeOK, Solo, NEW p \in Procs, NEW w \in Pcs, pc[p] # "idle", Go(p, w),
         p = "auto" => w \in AutoPcs
  PROVE  /\ pc' \in [Procs -> Pcs] /\ Solo'
         /\ pc'[p] = w /\ \A q \in Procs \ {p} : pc'[q] = "idle"
         /\ Quiet' <=> w = "idle"
<1>1. pc \in [Procs -> Pcs]
  BY DEF TypeOK, Pcs, AutoPcs
<1>2. \A q \in Procs \ {p} : pc[q] = "idle"
  BY Alone
<1>3. pc' \in [Procs -> Pcs] /\ pc'[p] = w /\ \A q \in Procs \ {p} : pc'[q] = "idle"
  BY <1>1, <1>2 DEF Go
<1>4. Quiet' <=> w = "idle"
  BY <1>3 DEF Quiet
<1>5. Solo'
  BY <1>3 DEF Solo, AutoPcs, Procs
<1> QED BY <1>3, <1>4, <1>5

\* What KeptInv and GoodInv ask of the state while p is at w, the rest idle.
KeptAt(w) ==
  /\ w # "fresh"
  /\ w \in {"install", "fail1", "fail2", "restore1", "restore2"} => old # None
  /\ exe = None => old # None /\ w \in {"install", "restore1", "restore2", "idle"}

GoodAt(w) ==
  world = {} =>
    /\ \A b \in Builds : kind[b] # "dead"
    /\ w \in {"idle", "guard", "download", "stage", "aside"} => Answers(exe) /\ running # None
    /\ w = "install" => Answers(old) /\ running # None
    /\ w \in {"spawn", "apply"} => Answers(old) /\ exe # None /\ running # None
    /\ w = "stop" => Answers(old) /\ exe # None
    /\ w = "start" => Answers(old) /\ exe # None /\ running = None /\ ~wanted
    /\ w \in {"wait", "unanswered"} => Answers(old) /\ exe # None /\ running = exe
    /\ w \in {"fail2", "restore2"} => Answers(old) /\ running = None /\ ~wanted
    /\ w = "fail2" => exe # None
    /\ w = "restart" => Answers(exe)
    /\ w \notin {"unstarted", "fail1", "restore1"}

\* With one process not idle at most, the invariants are about where it is.
LEMMA OneAt ==
  ASSUME NEW p \in Procs, \A q \in Procs \ {p} : pc[q] = "idle"
  PROVE  (KeptInv <=> KeptAt(pc[p])) /\ (GoodInv <=> GoodAt(pc[p]))
<1>1. Quiet <=> pc[p] = "idle"
  BY DEF Quiet
<1>2. KeptInv <=> KeptAt(pc[p])
  BY <1>1 DEF KeptInv, KeptAt
<1>3. GoodInv <=> GoodAt(pc[p])
  BY <1>1 DEF GoodInv, GoodAt
<1> QED BY <1>2, <1>3

LEMMA OneAtNext ==
  ASSUME NEW p \in Procs, NEW w, pc'[p] = w, \A q \in Procs \ {p} : pc'[q] = "idle",
         KeptAt(w)', GoodAt(w)'
  PROVE  KeptInv' /\ GoodInv'
<1>1. Quiet' <=> pc'[p] = "idle"
  BY DEF Quiet
<1>2. KeptInv'
  BY <1>1 DEF KeptInv, KeptAt
<1>3. GoodInv'
  BY <1>1 DEF GoodInv, GoodAt
<1> QED BY <1>2, <1>3

LEMMA StartFacts ==
  ASSUME TypeOK, Quiet, NEW p \in Procs, NEW w \in AutoPcs, Go(p, w)
  PROVE  /\ Solo' /\ pc'[p] = w /\ \A q \in Procs \ {p} : pc'[q] = "idle"
<1>1. pc'[p] = w /\ \A q \in Procs \ {p} : pc'[q] = "idle"
  BY DEF Go, Quiet, TypeOK
<1>2. Solo'
  BY <1>1 DEF Solo, AutoPcs, Procs
<1> QED BY <1>1, <1>2
-----------------------------------------------------------------------------
LEMMA GoTypes ==
  ASSUME TypeOK, NEW p \in Procs, NEW w \in Pcs, Go(p, w)
  PROVE  pc' \in [Procs -> Pcs]
BY DEF TypeOK, Go, Pcs, AutoPcs

LEMMA StopTypes ==
  ASSUME TypeOK, NEW p \in Procs, NEW w \in Pcs, serviceStop(p, w)
  PROVE  /\ pc' \in [Procs -> Pcs]
         /\ running' \in Builds \cup {None} /\ wanted' \in BOOLEAN
         /\ connected' \in BOOLEAN /\ work' \in BOOLEAN
<1>1. pc \in [Procs -> Pcs]
  BY DEF TypeOK, Pcs, AutoPcs
<1>2. CASE "fails" \in world /\ Go(p, w) /\ UNCHANGED service
  BY <1>2, GoTypes DEF service, TypeOK
<1>3. CASE /\ running' = None /\ wanted' = FALSE /\ connected' = FALSE /\ work' = FALSE
           /\ pc' = [q \in Procs |->
                       IF q = "auto" \/ (q = "helper" /\ "group" \in world /\ running # None)
                       THEN "idle" ELSE IF q = p THEN w ELSE pc[q]]
  <2>1. pc' \in [Procs -> Pcs]
    BY <1>1, <1>3 DEF Pcs, AutoPcs
  <2> QED BY <1>3, <2>1
<1> QED BY <1>2, <1>3 DEF serviceStop

\* Every step keeps the types, whoever runs beside whom.
LEMMA TypeStep == ASSUME TypeOK, [Next]_vars PROVE TypeOK'
<1> USE Numbers
<1>0. /\ (pc \in [Procs -> Pcs] /\ UNCHANGED pc => pc' \in [Procs -> Pcs])
      /\ {"idle", "guard", "download", "stage", "aside", "install", "fresh", "spawn", "apply",
          "stop", "start", "wait", "unstarted", "unanswered", "restore1",
          "restore2", "fail1", "fail2", "restart"} = Pcs
      /\ "auto" \in Procs /\ "helper" \in Procs /\ "cli" \in Procs
  BY DEF Pcs, AutoPcs, Procs
<1>1. CASE autoUpdateOnce
  <2>1. pc' \in [Procs -> Pcs] /\ blob' \in [Procs -> Builds]
    BY <1>0, <1>1, GoTypes DEF autoUpdateOnce, latestTag, TypeOK
  <2> QED BY <1>0, <1>1, <2>1 DEF autoUpdateOnce, Begins, files, service, TypeOK
<1>2. ASSUME NEW force \in BOOLEAN, NEW v \in 0 .. latest, cmdUpdate(force, v) PROVE TypeOK'
  <2>1. pc' \in [Procs -> Pcs] /\ blob' \in [Procs -> Builds]
    BY <1>0, <1>2, GoTypes DEF cmdUpdate, latestTag, TypeOK
  <2> QED BY <1>0, <1>2, <2>1 DEF cmdUpdate, Begins, service, TypeOK
<1>3. CASE cmdUpdateCheck
  BY <1>3 DEF cmdUpdateCheck, Begins, service, TypeOK
<1>4. CASE spawnRestartHelper
  <2>1. pc' \in [Procs -> Pcs]
    BY <1>0, <1>4 DEF spawnRestartHelper, TypeOK
  <2> QED BY <1>0, <1>4, <2>1 DEF spawnRestartHelper, files, service, TypeOK
<1>5. CASE applyRestart
  <2>1. pc' \in [Procs -> Pcs]
    BY <1>0, <1>5, GoTypes DEF applyRestart
  <2>2. running' = running /\ connected' = connected /\ work' = work /\ wanted' \in {TRUE, wanted}
    BY <1>5 DEF applyRestart, service
  <2> QED BY <1>0, <1>5, <2>1, <2>2 DEF applyRestart, files, TypeOK
<1>6. ASSUME NEW p \in Procs, guardActiveStreams(p) \/ download(p) \/ waitForAgent(p) PROVE TypeOK'
  <2>1. pc' \in [Procs -> Pcs]
    BY <1>0, <1>6, GoTypes DEF guardActiveStreams, download, waitForAgent
  <2> QED BY <1>0, <1>6, <2>1 DEF guardActiveStreams, download, waitForAgent, files, service, TypeOK
<1>7. ASSUME NEW p \in Procs, WriteStaged(p) PROVE TypeOK'
  <2>1. pc' \in [Procs -> Pcs]
    BY <1>0, <1>7, GoTypes DEF WriteStaged
  <2> QED BY <1>0, <1>7, <2>1 DEF WriteStaged, service, TypeOK
<1>8. ASSUME NEW p \in Procs, MoveAside(p) PROVE TypeOK'
  <2>1. pc' \in [Procs -> Pcs]
    BY <1>0, <1>8, GoTypes DEF MoveAside
  <2> QED BY <1>0, <1>8, <2>1 DEF MoveAside, service, TypeOK
<1>9. ASSUME NEW p \in Procs, Install(p) PROVE TypeOK'
  <2>1. pc' \in [Procs -> Pcs]
    BY <1>0, <1>9, GoTypes DEF Install
  <2>2. exe' \in Builds \cup {None} /\ old' \in Builds \cup {None}
    BY <1>9 DEF Install, PutBack, TypeOK
  <2> QED BY <1>0, <1>9, <2>1, <2>2 DEF Install, service, TypeOK
<1>10. ASSUME NEW p \in Procs, StopForUpdate(p) \/ Rollback(p) PROVE TypeOK'
  <2>1. CASE serviceStop(p, "start") \/ serviceStop(p, "fail1") \/ serviceStop(p, "fail2")
    <3>1. /\ pc' \in [Procs -> Pcs]
          /\ running' \in Builds \cup {None} /\ wanted' \in BOOLEAN
          /\ connected' \in BOOLEAN /\ work' \in BOOLEAN
      BY <1>0, <2>1, StopTypes
    <3> QED BY <1>0, <1>10, <3>1 DEF StopForUpdate, Rollback, files, TypeOK
  <2>2. CASE Go(p, "idle") /\ UNCHANGED service
    <3>1. pc' \in [Procs -> Pcs]
      BY <1>0, <2>2, GoTypes
    <3> QED BY <1>0, <1>10, <2>2, <3>1 DEF StopForUpdate, Rollback, files, service, TypeOK
  <2> QED BY <1>10, <2>1, <2>2 DEF StopForUpdate, Rollback
<1>11. ASSUME NEW p \in Procs, serviceStart(p) \/ StartRestored(p) PROVE TypeOK'
  <2>1. pc' \in [Procs -> Pcs]
    BY <1>0, <1>11, GoTypes DEF serviceStart, StartRestored
  <2>2. running' \in Builds \cup {None} /\ wanted' \in {TRUE, wanted}
    BY <1>11 DEF serviceStart, StartRestored, TypeOK
  <2> QED BY <1>0, <1>11, <2>1, <2>2 DEF serviceStart, StartRestored, files, TypeOK
<1>12. ASSUME NEW p \in Procs, KeepFailed(p) \/ Restore(p) PROVE TypeOK'
  <2>1. pc' \in [Procs -> Pcs]
    BY <1>0, <1>12, GoTypes DEF KeepFailed, Restore
  <2>2. {exe', old', failed'} \subseteq Builds \cup {None} /\ staged' = staged
    BY <1>12 DEF KeepFailed, Restore, TypeOK
  <2> QED BY <1>0, <1>12, <2>1, <2>2 DEF KeepFailed, Restore, service, TypeOK
<1>13. CASE Publish
  <2>1. latest' \in Builds
    BY <1>13, UpdateAssumptions DEF Publish, Builds, TypeOK
  <2> QED BY <1>13, <2>1 DEF Publish, files, service, TypeOK
<1>14. CASE UseTunnel
  BY <1>14 DEF UseTunnel, files, TypeOK
<1>15. CASE ServiceRuns
  BY <1>15 DEF ServiceRuns, files, TypeOK
<1>16. CASE Reboot
  <2>1. pc' \in [Procs -> Pcs]
    BY <1>0, <1>16 DEF Reboot
  <2> QED BY <1>0, <1>16, <2>1 DEF Reboot, files, TypeOK
<1>17. CASE UNCHANGED vars
  BY <1>17 DEF vars, files, service, TypeOK
<1> QED
  BY <1>1, <1>2, <1>3, <1>4, <1>5, <1>6, <1>7, <1>8, <1>9, <1>10, <1>11, <1>12, <1>13,
     <1>14, <1>15, <1>16, <1>17 DEF Next, replaceBinary, restartAndVerify
-----------------------------------------------------------------------------
Safe == Solo /\ KeptInv /\ GoodInv

LEMMA Before ==
  ASSUME TypeOK, Safe, NEW p \in Procs, pc[p] # "idle"
  PROVE  KeptAt(pc[p]) /\ GoodAt(pc[p])
<1>1. \A q \in Procs \ {p} : pc[q] = "idle"
  BY Alone DEF Safe
<1> QED BY <1>1, OneAt DEF Safe

LEMMA After ==
  ASSUME TypeOK, Safe, NEW p \in Procs, NEW w \in Pcs, pc[p] # "idle", Go(p, w),
         p = "auto" => w \in AutoPcs, KeptAt(w)', GoodAt(w)'
  PROVE  Safe'
<1>1. Solo' /\ pc'[p] = w /\ \A q \in Procs \ {p} : pc'[q] = "idle"
  BY GoFacts DEF Safe
<1> QED BY <1>1, OneAtNext DEF Safe

\* A quiet moment, before and after.
LEMMA BeforeQuiet ==
  ASSUME Safe, Quiet
  PROVE  KeptAt("idle") /\ GoodAt("idle")
BY DEF Safe, KeptInv, GoodInv, KeptAt, GoodAt, Quiet

LEMMA AfterQuiet ==
  ASSUME pc' = [p \in Procs |-> "idle"], KeptAt("idle")', GoodAt("idle")'
  PROVE  Safe'
<1>1. "cli" \in Procs /\ pc'["cli"] = "idle" /\ \A q \in Procs \ {"cli"} : pc'[q] = "idle"
  BY DEF Procs
<1>2. Solo'
  BY DEF Solo, Procs
<1> QED BY <1>1, <1>2, OneAtNext DEF Safe

\* The download half of an update touches nothing but the staged file.
LEMMA FetchStep ==
  ASSUME TypeOK, Safe, NEW p \in Procs, guardActiveStreams(p) \/ download(p) \/ WriteStaged(p)
  PROVE  Safe'
<1>1. /\ pc[p] \in {"guard", "download", "stage"}
      /\ world' = world /\ kind' = kind /\ exe' = exe /\ old' = old
      /\ running' = running /\ wanted' = wanted
  BY DEF guardActiveStreams, download, WriteStaged, files, service
<1>2. PICK w \in {"idle", "download", "stage", "aside"} : Go(p, w)
  BY DEF guardActiveStreams, download, WriteStaged
<1>3. w \in AutoPcs /\ w \in Pcs
  BY DEF AutoPcs, Pcs
<1>4. KeptAt(pc[p]) /\ GoodAt(pc[p])
  BY <1>1, Before
<1>5. KeptAt(w)'
  BY <1>1, <1>4 DEF KeptAt
<1>6. GoodAt(w)'
  BY <1>1, <1>4 DEF GoodAt, Answers
<1> QED BY <1>1, <1>2, <1>3, <1>5, <1>6, After

LEMMA ReplaceStep ==
  ASSUME TypeOK, Safe, NEW p \in Procs, MoveAside(p) \/ Install(p)
  PROVE  Safe'
<1> USE Numbers
<1>1. CASE MoveAside(p)
  <2>1. /\ pc[p] = "aside"
        /\ world' = world /\ kind' = kind /\ running' = running /\ wanted' = wanted
    BY <1>1 DEF MoveAside, service
  <2>2. KeptAt("aside") /\ GoodAt("aside")
    BY <2>1, Before
  <2>3. exe # None
    BY <2>2 DEF KeptAt
  <2>4. CASE /\ old' = exe /\ exe' = None
             /\ Go(p, IF exe # None THEN "install" ELSE "fresh")
    <3>1. Go(p, "install")
      BY <2>3, <2>4
    <3>2. KeptAt("install")'
      BY <2>3, <2>4 DEF KeptAt
    <3>3. GoodAt("install")'
      BY <2>1, <2>2, <2>4 DEF GoodAt, Answers
    <3> QED BY <2>1, <3>1, <3>2, <3>3, After DEF AutoPcs, Pcs
  <2>5. CASE old' = None /\ exe' = exe /\ Go(p, "idle")
    <3>1. KeptAt("idle")'
      BY <2>3, <2>5 DEF KeptAt
    <3>2. GoodAt("idle")'
      BY <2>1, <2>2, <2>5 DEF GoodAt, Answers
    <3> QED BY <2>1, <2>5, <3>1, <3>2, After DEF AutoPcs, Pcs
  <2> QED BY <1>1, <2>4, <2>5 DEF MoveAside
<1>2. CASE Install(p)
  <2>1. /\ pc[p] = "install"
        /\ world' = world /\ kind' = kind /\ running' = running /\ wanted' = wanted
    BY <1>2 DEF Install, service, Safe, KeptInv
  <2>2. KeptAt("install") /\ GoodAt("install")
    BY <2>1, Before
  <2>3. CASE staged # None /\ exe' = staged /\ old' = old
             /\ Go(p, IF p = "auto" THEN "spawn" ELSE "apply")
    <3>1. PICK w \in {"spawn", "apply"} : Go(p, w) /\ (p = "auto" => w = "spawn")
      BY <2>3
    <3>2. KeptAt(w)'
      BY <2>1, <2>2, <2>3 DEF KeptAt
    <3>3. GoodAt(w)'
      BY <2>1, <2>2, <2>3 DEF GoodAt, Answers
    <3> QED BY <2>1, <3>1, <3>2, <3>3, After DEF AutoPcs, Pcs
  <2>4. CASE exe' = old /\ old' = None /\ Go(p, "idle")
    <3>1. KeptAt("idle")'
      BY <2>2, <2>4 DEF KeptAt
    <3>2. GoodAt("idle")'
      BY <2>1, <2>2, <2>4 DEF GoodAt, Answers
    <3> QED BY <2>1, <2>4, <3>1, <3>2, After DEF AutoPcs, Pcs
  <2>5. CASE "rename" \in world /\ exe' = exe /\ old' = old /\ Go(p, "idle")
    <3>1. KeptAt("idle")'
      BY <2>2, <2>5 DEF KeptAt
    <3>2. GoodAt("idle")'
      BY <2>1, <2>5 DEF GoodAt
    <3> QED BY <2>1, <2>5, <3>1, <3>2, After DEF AutoPcs, Pcs
  <2>6. ASSUME PutBack(p)
        PROVE  \/ exe' = old /\ old' = None
               \/ "rename" \in world /\ exe' = exe /\ old' = old
    <3>1. old # None
      BY <2>2 DEF KeptAt
    <3> QED BY <2>1, <2>6, <3>1 DEF PutBack
  <2> QED BY <1>2, <2>3, <2>4, <2>5, <2>6 DEF Install
<1> QED BY <1>1, <1>2

\* Stopping the service: whoever asked goes on or, being its child, dies with it.
LEMMA StopStep ==
  ASSUME TypeOK, Safe, NEW p \in Procs \ {"auto"}, NEW w \in {"start", "fail1", "fail2"},
         pc[p] # "idle", serviceStop(p, w),
         world' = world, kind' = kind, exe' = exe, old' = old,
         exe # None, w # "start" => old # None,
         world = {} => w # "fail1" /\ Answers(old)
  PROVE  Safe'
<1> USE Numbers
<1>1. KeptAt(w)'
  BY DEF KeptAt
<1>2. world = {} => \A b \in Builds : kind[b] # "dead"
  BY DEF Safe, GoodInv
<1>3. CASE "fails" \in world /\ Go(p, w)
  <2>1. GoodAt(w)'
    BY <1>3 DEF GoodAt
  <2> QED BY <1>1, <1>3, <2>1, After DEF Pcs
<1>4. CASE /\ running' = None /\ wanted' = FALSE
           /\ pc' = [q \in Procs |->
                       IF q = "auto" \/ (q = "helper" /\ "group" \in world /\ running # None)
                       THEN "idle" ELSE IF q = p THEN w ELSE pc[q]]
  <2>1. \A q \in Procs \ {p} : pc[q] = "idle"
    BY Alone DEF Safe
  <2>2. \A q \in Procs \ {p} : pc'[q] = "idle"
    BY <1>4, <2>1
  <2>3. CASE p = "helper" /\ "group" \in world /\ running # None
    <3>1. pc'[p] = "idle"
      BY <1>4, <2>3
    <3>2. KeptAt("idle")' /\ GoodAt("idle")'
      BY <2>3 DEF KeptAt, GoodAt
    <3>3. Solo'
      BY <2>2, <3>1 DEF Solo, Procs
    <3> QED BY <2>2, <3>1, <3>2, <3>3, OneAtNext DEF Safe
  <2>4. CASE ~(p = "helper" /\ "group" \in world /\ running # None)
    <3>1. pc'[p] = w
      BY <1>4, <2>4
    <3>2. GoodAt(w)'
      BY <1>2, <1>4 DEF GoodAt, Answers
    <3>3. Solo'
      BY <2>2, <3>1 DEF Solo, Procs
    <3> QED BY <1>1, <2>2, <3>1, <3>2, <3>3, OneAtNext DEF Safe
  <2> QED BY <2>3, <2>4
<1> QED BY <1>3, <1>4 DEF serviceStop

LEMMA VerifyStep ==
  ASSUME TypeOK, Safe, NEW p \in Procs,
         StopForUpdate(p) \/ serviceStart(p) \/ waitForAgent(p) \/ Rollback(p)
  PROVE  Safe'
<1> USE Numbers
<1>1. /\ pc[p] \in {"stop", "start", "wait", "unstarted", "unanswered"}
      /\ world' = world /\ kind' = kind /\ exe' = exe /\ old' = old
  BY DEF StopForUpdate, serviceStart, waitForAgent, Rollback, files
<1>2. p # "auto"
  BY <1>1 DEF Safe, Solo
<1>3. KeptAt(pc[p]) /\ GoodAt(pc[p])
  BY <1>1, Before
<1>4. exe # None /\ exe \in Builds
  BY <1>1, <1>3 DEF KeptAt, TypeOK
<1>5. \A w \in Pcs \ {"fresh", "install", "fail1", "fail2", "restore1", "restore2"} : KeptAt(w)'
  BY <1>1, <1>4 DEF KeptAt
<1>6. CASE StopForUpdate(p)
  <2>1. pc[p] = "stop" /\ serviceStop(p, "start")
    BY <1>6 DEF StopForUpdate
  <2>2. world = {} => Answers(old)
    BY <1>3, <2>1 DEF GoodAt
  <2> QED BY <1>1, <1>2, <1>4, <2>1, <2>2, StopStep
<1>7. CASE serviceStart(p)
  <2>1. pc[p] = "start"
    BY <1>7 DEF serviceStart
  <2>2. CASE /\ running' = IF running = None /\ Runs(exe) THEN exe ELSE running
             /\ Go(p, "wait")
    <3>1. GoodAt("wait")'
      BY <1>1, <1>3, <1>4, <2>1, <2>2 DEF GoodAt, Answers, Runs
    <3> QED BY <1>1, <1>2, <1>5, <2>2, <3>1, After DEF Pcs
  <2>3. CASE ("fails" \in world \/ ~Runs(exe)) /\ Go(p, "unstarted")
    <3>1. GoodAt("unstarted")'
      BY <1>1, <1>3, <1>4, <2>1, <2>3 DEF GoodAt, Runs
    <3> QED BY <1>1, <1>2, <1>5, <2>3, <3>1, After DEF Pcs
  <2> QED BY <1>7, <2>2, <2>3 DEF serviceStart
<1>8. CASE waitForAgent(p)
  <2>1. pc[p] = "wait" /\ running' = running /\ wanted' = wanted
    BY <1>8 DEF waitForAgent, service
  <2>2. CASE Answers(running) /\ Go(p, "idle")
    <3>1. GoodAt("idle")'
      BY <1>1, <1>3, <1>4, <2>1, <2>2 DEF GoodAt, Answers
    <3> QED BY <1>1, <1>2, <1>5, <2>2, <3>1, After DEF Pcs, AutoPcs
  <2>3. CASE Go(p, "unanswered")
    <3>1. GoodAt("unanswered")'
      BY <1>1, <1>3, <1>4, <2>1 DEF GoodAt, Answers
    <3> QED BY <1>1, <1>2, <1>5, <2>3, <3>1, After DEF Pcs
  <2> QED BY <1>8, <2>2, <2>3 DEF waitForAgent, fetchStatus
<1>9. CASE Rollback(p)
  <2>1. pc[p] \in {"unstarted", "unanswered"}
    BY <1>9 DEF Rollback
  <2>2. world = {} => Answers(old) /\ pc[p] # "unstarted"
    BY <1>3, <2>1 DEF GoodAt
  <2>3. CASE old = None /\ Go(p, "idle")
    <3>1. GoodAt("idle")'
      BY <1>1, <2>2, <2>3 DEF GoodAt, Answers
    <3> QED BY <1>1, <1>2, <1>5, <2>3, <3>1, After DEF Pcs, AutoPcs
  <2>4. CASE old # None /\ serviceStop(p, IF pc[p] = "unstarted" THEN "fail1" ELSE "fail2")
    <3>1. CASE pc[p] = "unstarted"
      <4>1. serviceStop(p, "fail1")
        BY <2>4, <3>1
      <4> QED BY <1>1, <1>2, <1>4, <2>2, <2>4, <3>1, <4>1, StopStep
    <3>2. CASE pc[p] # "unstarted"
      <4>1. serviceStop(p, "fail2")
        BY <2>4, <3>2
      <4> QED BY <1>1, <1>2, <1>4, <2>2, <2>4, <4>1, StopStep
    <3> QED BY <3>1, <3>2
  <2> QED BY <1>9, <2>3, <2>4 DEF Rollback
<1> QED BY <1>6, <1>7, <1>8, <1>9

LEMMA RollbackStep ==
  ASSUME TypeOK, Safe, NEW p \in Procs, KeepFailed(p) \/ Restore(p) \/ StartRestored(p)
  PROVE  Safe'
<1> USE Numbers
<1>1. /\ pc[p] \in {"fail1", "fail2", "restore1", "restore2", "restart"}
      /\ world' = world /\ kind' = kind
  BY DEF KeepFailed, Restore, StartRestored
<1>2. p # "auto"
  BY <1>1 DEF Safe, Solo
<1>3. KeptAt(pc[p]) /\ GoodAt(pc[p])
  BY <1>1, Before
<1>4. CASE KeepFailed(p)
  <2>1. /\ pc[p] \in {"fail1", "fail2"} /\ old' = old
        /\ running' = running /\ wanted' = wanted
    BY <1>4 DEF KeepFailed, service
  <2>2. exe # None
    BY <1>3, <2>1 DEF KeptAt
  <2>3. ASSUME NEW w \in {"restore1", "restore2"}, exe' = None, Go(p, w),
               w = "restore1" <=> pc[p] = "fail1"
        PROVE  Safe'
    <3>1. KeptAt(w)'
      BY <1>3, <2>1 DEF KeptAt
    <3>2. GoodAt(w)'
      BY <1>1, <1>3, <2>1, <2>3 DEF GoodAt, Answers
    <3> QED BY <1>1, <1>2, <2>3, <3>1, <3>2, After DEF Pcs
  <2>4. CASE "rename" \in world /\ exe' = exe /\ Go(p, "idle")
    <3>1. KeptAt("idle")'
      BY <2>2, <2>4 DEF KeptAt
    <3>2. GoodAt("idle")'
      BY <1>1, <2>4 DEF GoodAt
    <3> QED BY <1>1, <1>2, <2>4, <3>1, <3>2, After DEF Pcs, AutoPcs
  <2>5. \/ "rename" \in world /\ exe' = exe /\ Go(p, "idle")
        \/ exe' = None /\ Go(p, IF pc[p] = "fail1" THEN "restore1" ELSE "restore2")
    BY <1>4, <2>2 DEF KeepFailed
  <2> QED BY <2>3, <2>4, <2>5
<1>5. CASE Restore(p)
  <2>1. /\ pc[p] \in {"restore1", "restore2"}
        /\ running' = running /\ wanted' = wanted
    BY <1>5 DEF Restore, service
  <2>2. old # None
    BY <1>3, <2>1 DEF KeptAt
  <2>3. ASSUME NEW w \in {"idle", "restart"}, exe' = old, old' = None, Go(p, w),
               w = "idle" <=> pc[p] = "restore1"
        PROVE  Safe'
    <3>1. KeptAt(w)'
      BY <2>2, <2>3 DEF KeptAt
    <3>2. GoodAt(w)'
      BY <1>1, <1>3, <2>1, <2>3 DEF GoodAt, Answers
    <3> QED BY <1>1, <1>2, <2>3, <3>1, <3>2, After DEF Pcs, AutoPcs
  <2>4. CASE "rename" \in world /\ exe' = exe /\ old' = old /\ Go(p, "idle")
    <3>1. KeptAt("idle")'
      BY <1>3, <2>2, <2>4 DEF KeptAt
    <3>2. GoodAt("idle")'
      BY <1>1, <2>4 DEF GoodAt
    <3> QED BY <1>1, <1>2, <2>4, <3>1, <3>2, After DEF Pcs, AutoPcs
  <2>5. \/ "rename" \in world /\ exe' = exe /\ old' = old /\ Go(p, "idle")
        \/ /\ exe' = old /\ old' = None
           /\ Go(p, IF pc[p] = "restore1" THEN "idle" ELSE "restart")
    BY <1>5, <2>2 DEF Restore
  <2> QED BY <2>3, <2>4, <2>5
<1>6. CASE StartRestored(p)
  <2>1. /\ pc[p] = "restart" /\ exe' = exe /\ old' = old /\ Go(p, "idle")
        /\ \/ running' = IF running = None /\ Runs(exe) THEN exe ELSE running
           \/ "fails" \in world
    BY <1>6 DEF StartRestored, files
  <2>2. KeptAt("idle")'
    BY <1>3, <2>1 DEF KeptAt
  <2>3. GoodAt("idle")'
    BY <1>1, <1>3, <2>1 DEF GoodAt, Answers, Runs
  <2> QED BY <1>1, <1>2, <2>1, <2>2, <2>3, After DEF Pcs, AutoPcs
<1> QED BY <1>4, <1>5, <1>6

\* An update that begins, and is not rash.
LEMMA BeginStep ==
  ASSUME TypeOK, Safe, ~rash',
         autoUpdateOnce \/ cmdUpdateCheck
           \/ \E force \in BOOLEAN, v \in 0 .. latest : cmdUpdate(force, v)
  PROVE  Safe'
<1> USE Numbers
<1>1. Begins
  BY DEF autoUpdateOnce, cmdUpdateCheck, cmdUpdate
<1>0. Quiet /\ exe # None
  BY <1>1 DEF Begins
<1>2. KeptAt("idle") /\ GoodAt("idle")
  BY <1>0, BeforeQuiet
<1>4. /\ world' = world /\ kind' = kind /\ exe' = exe
      /\ running' = running /\ wanted' = wanted
  BY DEF autoUpdateOnce, cmdUpdateCheck, cmdUpdate, files, service
<1>5. \A w \in {"idle", "guard", "download"} : KeptAt(w)' /\ GoodAt(w)'
  <2> TAKE w \in {"idle", "guard", "download"}
  <2>1. KeptAt(w)'
    BY <1>0, <1>4 DEF KeptAt
  <2>2. GoodAt(w)'
    BY <1>2, <1>4 DEF GoodAt, Answers
  <2> QED BY <2>1, <2>2
<1>6. ASSUME NEW p \in Procs, NEW w \in {"guard", "download"}, Go(p, w) PROVE Safe'
  <2>1. Solo' /\ pc'[p] = w /\ \A q \in Procs \ {p} : pc'[q] = "idle"
    BY <1>0, <1>6, StartFacts DEF AutoPcs
  <2> QED BY <1>5, <2>1, OneAtNext DEF Safe
<1>7. CASE autoUpdateOnce
  BY <1>6, <1>7 DEF autoUpdateOnce, Procs
<1>8. CASE \E force \in BOOLEAN, v \in 0 .. latest : cmdUpdate(force, v)
  <2>1. \E w \in {"guard", "download"} : Go("cli", w)
    BY <1>8 DEF cmdUpdate
  <2> QED BY <1>6, <2>1 DEF Procs
<1>9. CASE cmdUpdateCheck
  <2>1. pc' = [p \in Procs |-> "idle"]
    BY <1>0, <1>9 DEF cmdUpdateCheck, Quiet, TypeOK
  <2> QED BY <1>5, <2>1, AfterQuiet
<1> QED BY <1>7, <1>8, <1>9

\* The update handed over: to the helper, or to the operator's own process.
LEMMA HandStep ==
  ASSUME TypeOK, Safe, spawnRestartHelper \/ applyRestart
  PROVE  Safe'
<1> USE Numbers
<1>0. "auto" \in Procs /\ "helper" \in Procs /\ "cli" \in Procs
  BY DEF Procs
<1>1. CASE spawnRestartHelper
  <2>1. /\ pc["auto"] = "spawn"
        /\ world' = world /\ kind' = kind /\ exe' = exe /\ old' = old
        /\ running' = running /\ wanted' = wanted
    BY <1>1 DEF spawnRestartHelper, files, service
  <2>2. KeptAt("spawn") /\ GoodAt("spawn")
    BY <1>0, <2>1, Before
  <2>3. exe # None /\ exe \in Builds
    BY <2>2 DEF KeptAt, TypeOK
  <2>4. \A q \in Procs \ {"auto"} : pc[q] = "idle"
    BY <1>0, <2>1, Alone DEF Safe
  <2>5. PICK w \in {"stop", "idle"} : /\ pc' = [pc EXCEPT !["auto"] = "idle", !["helper"] = w]
                                      /\ w = "stop" <=> Runs(exe)
    BY <1>1 DEF spawnRestartHelper
  <2>6. pc'["helper"] = w /\ \A q \in Procs \ {"helper"} : pc'[q] = "idle"
    BY <2>4, <2>5 DEF TypeOK, Procs
  <2>7. Solo'
    BY <2>6 DEF Solo, Procs
  <2>8. KeptAt(w)'
    BY <2>1, <2>3 DEF KeptAt
  <2>9. GoodAt(w)'
    BY <2>1, <2>2, <2>3, <2>5 DEF GoodAt, Answers, Runs
  <2> QED BY <1>0, <2>6, <2>7, <2>8, <2>9, OneAtNext DEF Safe
<1>2. CASE applyRestart
  <2>1. /\ pc["cli"] = "apply"
        /\ world' = world /\ kind' = kind /\ exe' = exe /\ old' = old
        /\ running' = running
        /\ Go("cli", "stop") \/ (running = None /\ Go("cli", "idle"))
    BY <1>2 DEF applyRestart, files, service
  <2>2. KeptAt("apply") /\ GoodAt("apply")
    BY <1>0, <2>1, Before
  <2>3. KeptAt("stop")' /\ KeptAt("idle")'
    BY <2>1, <2>2 DEF KeptAt
  <2>4. GoodAt("stop")'
    BY <2>1, <2>2 DEF GoodAt, Answers
  <2>5. running = None => GoodAt("idle")'
    BY <2>1, <2>2 DEF GoodAt
  <2> QED BY <1>0, <2>1, <2>3, <2>4, <2>5, After DEF Pcs, AutoPcs
<1> QED BY <1>1, <1>2

\* What happens around the updates.
LEMMA WorldStep ==
  ASSUME TypeOK, Safe, Publish \/ UseTunnel \/ ServiceRuns \/ Reboot \/ UNCHANGED vars
  PROVE  Safe'
<1> USE Numbers
<1>1. CASE Reboot
  <2>1. /\ world' = world /\ exe' = exe /\ old' = old
        /\ pc' = [p \in Procs |-> "idle"] /\ running' = None /\ world # {}
    BY <1>1 DEF Reboot, files
  <2>2. exe = None => old # None
    BY DEF Safe, KeptInv
  <2>3. KeptAt("idle")' /\ GoodAt("idle")'
    BY <2>1, <2>2 DEF KeptAt, GoodAt
  <2> QED BY <2>1, <2>3, AfterQuiet
<1>2. CASE ServiceRuns
  <2>1. /\ world' = world /\ kind' = kind /\ exe' = exe /\ old' = old
        /\ pc' = pc /\ running' = exe /\ wanted' = wanted
        /\ wanted /\ running = None /\ exe # None
    BY <1>2 DEF ServiceRuns, Runs, files
  <2>2. Solo'
    BY <2>1 DEF Safe, Solo
  <2>3. KeptInv'
    BY <2>1 DEF Safe, KeptInv
  <2>4. Quiet' <=> Quiet
    BY <2>1 DEF Quiet
  <2>5. GoodInv'
    BY <2>1, <2>4 DEF Safe, GoodInv, Answers
  <2> QED BY <2>2, <2>3, <2>5 DEF Safe
<1>3. CASE Publish \/ UseTunnel \/ UNCHANGED vars
  <2>1. /\ world' = world /\ kind' = kind /\ exe' = exe /\ old' = old
        /\ pc' = pc /\ running' = running /\ wanted' = wanted
    BY <1>3 DEF Publish, UseTunnel, vars, files, service
  <2>2. Solo'
    BY <2>1 DEF Safe, Solo
  <2>3. Quiet' <=> Quiet
    BY <2>1 DEF Quiet
  <2>4. KeptInv'
    BY <2>1, <2>3 DEF Safe, KeptInv
  <2>5. GoodInv'
    BY <2>1, <2>3 DEF Safe, GoodInv, Answers
  <2> QED BY <2>2, <2>4, <2>5 DEF Safe
<1> QED BY <1>1, <1>2, <1>3

\* Where the copy is kept, or somebody was rash, that stays so.
LEMMA SafeStep == ASSUME TypeOK, rash \/ Safe, [Next]_vars PROVE (rash \/ Safe)'
<1>1. rash => rash'
  BY DEF Next, autoUpdateOnce, Begins, cmdUpdate, cmdUpdateCheck, spawnRestartHelper, applyRestart,
     guardActiveStreams, download, replaceBinary, WriteStaged, MoveAside, Install, restartAndVerify,
     StopForUpdate, serviceStart, waitForAgent, Rollback, KeepFailed, Restore, StartRestored,
     Publish, UseTunnel, ServiceRuns, Reboot, vars
<1>2. ASSUME Safe, ~rash' PROVE Safe'
  BY <1>2, FetchStep, ReplaceStep, VerifyStep, RollbackStep, BeginStep, HandStep, WorldStep
     DEF Next, replaceBinary, restartAndVerify
<1> QED BY <1>1, <1>2

LEMMA InitInv == Init => TypeOK /\ Safe
<1> SUFFICES ASSUME Init PROVE TypeOK /\ Safe
  OBVIOUS
<1> USE Numbers
<1>1. TypeOK
  <2>1. pc \in [Procs -> Pcs] /\ blob \in [Procs -> Builds]
    BY DEF Init, Pcs, AutoPcs
  <2>2. kind \in [Builds -> {"good", "mute", "dead"}]
    BY DEF Init
  <2> QED BY <2>1, <2>2 DEF Init, TypeOK, Pcs, AutoPcs
<1>2. \A p \in Procs : pc[p] = "idle"
  BY DEF Init
<1>3. Solo
  BY <1>2 DEF Solo, Procs
<1>4. exe = 0 /\ exe # None /\ running # None /\ kind[0] = "good"
      /\ (world = {} => \A b \in Builds : kind[b] # "dead")
  BY DEF Init
<1>5. KeptInv
  BY <1>2, <1>4 DEF KeptInv
<1>6. GoodInv
  BY <1>2, <1>4 DEF GoodInv, Answers, Quiet
<1> QED BY <1>1, <1>3, <1>5, <1>6 DEF Safe
-----------------------------------------------------------------------------
\* The variables keep their types, whatever runs beside whatever.
THEOREM TypeCorrect == Spec => []TypeOK
BY InitInv, TypeStep, PTL DEF Spec

\* What the lemmas above add up to.
LEMMA SafeAlways == Spec => [](TypeOK /\ (rash \/ Safe))
<1>1. TypeOK /\ (rash \/ Safe) /\ [Next]_vars => (TypeOK /\ (rash \/ Safe))'
  BY TypeStep, SafeStep
<1> QED BY <1>1, InitInv, PTL DEF Spec

\* replaceBinary and rollback never leave the machine without a build, in its
\* place or as .old: with failing renames (the one that puts the build back
\* included) and service managers, dead builds, power cuts, a helper killed with
\* the service that spawned it, and `beacon update` from any copy of the program;
\* up to an update that begins beside another one or over a missing binary.
THEOREM CopyKept == Spec => []CopyIsKept
<1>1. TypeOK /\ (rash \/ Safe) => CopyIsKept
  BY DEF Safe, KeptInv, CopyIsKept
<1> QED BY <1>1, SafeAlways, PTL

\* Without those adversities, however many mute releases appear, a build that
\* answers is in place or is the copy a rollback would bring back, up to the same
\* rash update.
THEOREM GoodKept == Spec => []GoodBuildKept
<1>1. TypeOK /\ (rash \/ Safe) => GoodBuildKept
  <2> SUFFICES ASSUME TypeOK, Safe, world = {} PROVE GoodAtHand
    BY DEF GoodBuildKept
  <2>1. CASE Quiet
    BY <2>1 DEF Safe, GoodInv, GoodAtHand
  <2>2. CASE ~Quiet
    <3>1. PICK p \in Procs : pc[p] # "idle"
      BY <2>2 DEF Quiet
    <3>2. GoodAt(pc[p]) /\ pc[p] \in Pcs
      BY <3>1, Before DEF TypeOK, Pcs, AutoPcs
    <3>3. pc[p] # "fresh"
      BY DEF Safe, KeptInv
    <3> QED BY <3>1, <3>2, <3>3 DEF GoodAt, GoodAtHand, Pcs, AutoPcs
  <2> QED BY <2>1, <2>2
<1> QED BY <1>1, SafeAlways, PTL
=============================================================================
