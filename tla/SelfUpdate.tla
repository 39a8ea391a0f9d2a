----------------------------- MODULE SelfUpdate -----------------------------
(***************************************************************************)
(* How an installed agent gets a new build and loses a bad one: the hourly *)
(* auto-update inside the agent, the detached helper that restarts and     *)
(* verifies, an operator's `beacon update`, the three files they rename,   *)
(* and the service manager (client/update.go, client/updateapply.go).      *)
(*                                                                         *)
(* A step is one file operation, one call of the service manager or one    *)
(* wait. The service manager is external: it keeps the service running     *)
(* while it is meant to run, and starts it at boot. Downloads are whole or *)
(* fail, which is what verifyChecksum is for.                              *)
(***************************************************************************)
EXTENDS Integers

CONSTANTS
  MaxRelease,     \* releases are 1 .. MaxRelease; build 0 is installed
  Worlds          \* sets of adversities: see world

ASSUME UpdateAssumptions ==
  /\ MaxRelease \in Nat
  /\ Worlds \subseteq SUBSET {"dead", "fails", "group", "reboot", "rename"}

Builds == 0 .. MaxRelease
None == -1
Procs == {"auto", "helper", "cli"}

VARIABLES
  world,      \* what may happen: "dead", a build that does not even run; "fails",
              \* serviceStop and serviceStart return an error; "group", stopping
              \* the service kills what it spawned, as systemd does unless the
              \* unit's KillMode says otherwise; "reboot", at any point; "rename",
              \* what puts a build back, or a bad one aside, fails. Without any
              \* of them it is the world the rollback was written for
  kind,       \* kind[b]: "good", "mute" (runs, but never answers), "dead" (does not run)
  latest,     \* the newest release
  exe, old, staged, failed,  \* the binary, and its .old, .new and .failed siblings
  running,    \* the build of the service's process
  wanted,     \* the service manager means the service to run
  connected,  \* the agent has a session, and in it a log stream
  work,       \* somebody works through the agent
  pc,         \* pc[p]: where autoUpdateOnce, the helper and `beacon update` are
  blob,       \* blob[p]: the release p means to install
  rash        \* history: an update began beside another one, or while the
              \* binary was not in its place; nothing in the code prevents it

files == <<exe, old, staged, failed>>
service == <<running, wanted, connected, work>>
vars == <<world, kind, latest, files, service, pc, blob, rash>>

TypeOK ==
  /\ world \in Worlds
  /\ kind \in [Builds -> {"good", "mute", "dead"}]
  /\ latest \in Builds
  /\ {exe, old, staged, failed, running} \subseteq Builds \cup {None}
  /\ {wanted, connected, work, rash} \subseteq BOOLEAN
  /\ pc \in [Procs -> {"idle", "guard", "download", "stage", "aside", "install", "fresh", "spawn",
                       "apply", "stop", "start", "wait", "unstarted", "unanswered", "restore1",
                       "restore2", "fail1", "fail2", "restart"}]
  /\ blob \in [Procs -> Builds]

Init ==
  /\ world \in Worlds
  /\ kind \in {k \in [Builds -> {"good", "mute"} \cup (world \cap {"dead"})] :
               k[0] = "good"}
  /\ latest = 0
  /\ exe = 0 /\ old = None /\ staged = None /\ failed = None
  /\ running = 0 /\ wanted = TRUE
  /\ connected = FALSE /\ work = FALSE
  /\ pc = [p \in Procs |-> "idle"]
  /\ blob = [p \in Procs |-> 0]
  /\ rash = FALSE
-----------------------------------------------------------------------------
Runs(b) == b # None /\ kind[b] # "dead"
Answers(b) == b # None /\ kind[b] = "good"
Go(p, where) == pc' = [pc EXCEPT ![p] = where]
Quiet == \A p \in Procs : pc[p] = "idle"

\* Mutants: the .old removed after the rename that made it, a verification that
\* believes everybody, a rollback that starts nothing.
RemovesAfter(p) ==
  /\ pc[p] = "aside"
  /\ exe' = None /\ old' = None
  /\ Go(p, "install")
  /\ UNCHANGED <<world, kind, latest, staged, failed, service, blob, rash>>
Believes(b) == b # None
StaysDown(p) ==
  /\ pc[p] = "restart"
  /\ Go(p, "idle")
  /\ UNCHANGED <<world, kind, latest, files, service, blob, rash>>

\* The newest release, as its redirect names it.
latestTag == latest

\* An update begins.
Begins == rash' = (rash \/ ~Quiet \/ exe = None)

\* autoUpdateLoop's tick, up to the version test: the loop runs in the agent. The
\* helper of the last round needs minutes, the next tick comes in an hour.
autoUpdateOnce ==
  /\ Answers(running)
  /\ pc["auto"] = "idle" /\ pc["helper"] = "idle"
  /\ latestTag # running
  /\ Begins
  /\ Go("auto", "guard")
  /\ blob' = [blob EXCEPT !["auto"] = latestTag]
  /\ UNCHANGED <<world, kind, latest, files, service>>

\* updateTarget is the installed binary, whatever copy of the program `beacon
\* update` is typed to, and whether the installed one is there or runs.
CanUpdate == pc["cli"] = "idle"

\* cmdUpdate, in a copy of some version: whatever it will find, the copy an earlier
\* update left is removed first. --force asks neither for a newer version nor for
\* a quiet moment.
cmdUpdate(force, version) ==
  /\ CanUpdate
  /\ old' = None
  /\ force \/ latestTag # version
  /\ Begins
  /\ Go("cli", IF force THEN "download" ELSE "guard")
  /\ blob' = [blob EXCEPT !["cli"] = latestTag]
  /\ UNCHANGED <<world, kind, latest, exe, staged, failed, service>>

\* cmdUpdate --check, or nothing newer than this build.
cmdUpdateCheck ==
  /\ CanUpdate
  /\ old' = None
  /\ Begins
  /\ UNCHANGED <<world, kind, latest, exe, staged, failed, service, pc, blob>>

\* What `beacon status` counts: yamux's streams, the agent's log stream included.
Streams == (IF connected THEN 1 ELSE 0) + (IF work THEN 1 ELSE 0)

\* An agent that does not answer cannot be asked, and is not protected.
guardActiveStreams(p) ==
  /\ pc[p] = "guard"
  /\ Go(p, IF Answers(running) /\ Streams > 0 THEN "idle" ELSE "download")
  /\ UNCHANGED <<world, kind, latest, files, service, blob, rash>>

\* download and verifyChecksum, or either fails.
download(p) ==
  /\ pc[p] = "download"
  /\ Go(p, "stage") \/ Go(p, "idle")
  /\ UNCHANGED <<world, kind, latest, files, service, blob, rash>>

\* replaceBinary: write the staged file ...
WriteStaged(p) ==
  /\ pc[p] = "stage"
  /\ \/ staged' = blob[p] /\ Go(p, "aside")
     \/ staged' \in {staged, None} /\ Go(p, "idle")
  /\ UNCHANGED <<world, kind, latest, exe, old, failed, service, blob, rash>>

\* ... remove .old and move the working build there, if it is in its place ...
MoveAside(p) ==
  /\ pc[p] = "aside"
  /\ \/ /\ old' = exe /\ exe' = None
        /\ Go(p, IF exe # None THEN "install" ELSE "fresh")
        /\ UNCHANGED staged
     \/ /\ exe # None                                      \* the rename fails
        /\ old' = None /\ staged' = None
        /\ Go(p, "idle")
        /\ UNCHANGED exe
  /\ UNCHANGED <<world, kind, latest, failed, service, blob, rash>>

\* ... and move the staged one in; if that fails, put the working build back when it
\* was movedAside, and do not look whether that failed too.
PutBack(p) ==
  \/ pc[p] = "install" /\ old # None /\ exe' = old /\ old' = None
  \/ (pc[p] = "fresh" \/ old = None \/ "rename" \in world) /\ UNCHANGED <<exe, old>>

Install(p) ==
  /\ pc[p] \in {"install", "fresh"}
  /\ staged' = None
  /\ \/ /\ staged # None
        /\ exe' = staged
        /\ Go(p, IF p = "auto" THEN "spawn" ELSE "apply")
        /\ UNCHANGED old
     \/ PutBack(p) /\ Go(p, "idle")
  /\ UNCHANGED <<world, kind, latest, failed, service, blob, rash>>

\* spawnRestartHelper: the helper is the new build itself.
spawnRestartHelper ==
  /\ pc["auto"] = "spawn"
  /\ pc' = [pc EXCEPT !["auto"] = "idle",
                      !["helper"] = IF Runs(exe) THEN "stop" ELSE "idle"]
  /\ UNCHANGED <<world, kind, latest, files, service, blob, rash>>

\* applyRestart, in the operator's own process.
applyRestart ==
  /\ pc["cli"] = "apply"
  /\ \/ running # None /\ Go("cli", "stop") /\ UNCHANGED service
     \/ running = None /\ Go("cli", "idle")
        /\ wanted' \in {TRUE} \cup (IF "fails" \in world THEN {wanted} ELSE {})
        /\ UNCHANGED <<running, connected, work>>
  /\ UNCHANGED <<world, kind, latest, files, blob, rash>>
-----------------------------------------------------------------------------
\* The service manager stops the service for p, which then goes on at `where`.
\* The auto-update goroutine dies with the agent, and the helper, which the
\* agent spawned, may die too.
serviceStop(p, where) ==
  \/ /\ running' = None /\ wanted' = FALSE
     /\ connected' = FALSE /\ work' = FALSE
     /\ pc' = [q \in Procs |-> IF q = "auto" \/ (q = "helper" /\ "group" \in world /\ running # None)
                               THEN "idle" ELSE IF q = p THEN where ELSE pc[q]]
  \/ "fails" \in world /\ Go(p, where) /\ UNCHANGED service

\* restartAndVerify, first: stop, warn about an error, and go on.
StopForUpdate(p) ==
  /\ pc[p] = "stop"
  /\ serviceStop(p, "start")
  /\ UNCHANGED <<world, kind, latest, files, blob, rash>>

\* ... then start what is in place; an error leads to a rollback.
serviceStart(p) ==
  /\ pc[p] = "start"
  /\ \/ /\ wanted' = TRUE
        /\ running' = IF running = None /\ Runs(exe) THEN exe ELSE running
        /\ Go(p, "wait")
     \/ /\ "fails" \in world \/ ~Runs(exe)
        /\ Go(p, "unstarted")
        /\ UNCHANGED <<running, wanted>>
  /\ UNCHANGED <<world, kind, latest, files, connected, work, blob, rash>>

\* What counts as an answer on the control socket.
fetchStatus(b) == Answers(b)

\* ... then wait for an answer, for as long as verifyTimeout.
waitForAgent(p) ==
  /\ pc[p] = "wait"
  /\ Go(p, IF fetchStatus(running) THEN "idle" ELSE "unanswered")
  /\ UNCHANGED <<world, kind, latest, files, service, blob, rash>>

\* rollback: with no .old there is nothing to do; otherwise stop ...
Rollback(p) ==
  /\ pc[p] \in {"unstarted", "unanswered"}
  /\ IF old = None THEN Go(p, "idle") /\ UNCHANGED service
     ELSE serviceStop(p, IF pc[p] = "unstarted" THEN "fail1" ELSE "fail2")
  /\ UNCHANGED <<world, kind, latest, files, blob, rash>>

\* ... keep the bad build as evidence, which fails if there is none ...
KeepFailed(p) ==
  /\ pc[p] \in {"fail1", "fail2"}
  /\ \/ /\ exe = None \/ "rename" \in world
        /\ failed' = None /\ UNCHANGED exe /\ Go(p, "idle")
     \/ /\ exe # None
        /\ failed' = exe /\ exe' = None
        /\ Go(p, IF pc[p] = "fail1" THEN "restore1" ELSE "restore2")
  /\ UNCHANGED <<world, kind, latest, old, staged, service, blob, rash>>

\* ... and put the previous one back. Only the second caller starts it.
Restore(p) ==
  /\ pc[p] \in {"restore1", "restore2"}
  /\ \/ /\ old = None \/ "rename" \in world
        /\ UNCHANGED <<exe, old>> /\ Go(p, "idle")
     \/ /\ old # None
        /\ exe' = old /\ old' = None
        /\ Go(p, IF pc[p] = "restore1" THEN "idle" ELSE "restart")
  /\ UNCHANGED <<world, kind, latest, staged, failed, service, blob, rash>>

StartRestored(p) ==
  /\ pc[p] = "restart"
  /\ Go(p, "idle")
  /\ \/ wanted' = TRUE /\ running' = IF running = None /\ Runs(exe) THEN exe ELSE running
     \/ "fails" \in world /\ UNCHANGED <<running, wanted>>
  /\ UNCHANGED <<world, kind, latest, files, connected, work, blob, rash>>
-----------------------------------------------------------------------------
\* External: a release appears; the tunnel and the people using it come and go.
Publish ==
  /\ latest < MaxRelease
  /\ latest' = latest + 1
  /\ UNCHANGED <<world, kind, files, service, pc, blob, rash>>

UseTunnel ==
  /\ Answers(running)
  /\ connected' \in BOOLEAN
  /\ work' \in {FALSE, connected'}
  /\ UNCHANGED <<world, kind, latest, files, running, wanted, pc, blob, rash>>

\* External: the service manager runs what it is meant to run.
ServiceRuns ==
  /\ wanted /\ running = None /\ Runs(exe)
  /\ running' = exe
  /\ UNCHANGED <<world, kind, latest, files, wanted, connected, work, pc, blob, rash>>

\* External: the machine restarts, and the service, being enabled, with it.
Reboot ==
  /\ "reboot" \in world
  /\ running' = None /\ wanted' = TRUE
  /\ connected' = FALSE /\ work' = FALSE
  /\ pc' = [p \in Procs |-> "idle"]
  /\ UNCHANGED <<world, kind, latest, files, blob, rash>>

restartAndVerify(p) ==
  StopForUpdate(p) \/ serviceStart(p) \/ waitForAgent(p) \/ Rollback(p) \/ KeepFailed(p)
    \/ Restore(p) \/ StartRestored(p)

replaceBinary(p) == WriteStaged(p) \/ MoveAside(p) \/ Install(p)

Next ==
  \/ autoUpdateOnce \/ spawnRestartHelper \/ applyRestart \/ cmdUpdateCheck
  \/ \E force \in BOOLEAN, version \in 0 .. latest : cmdUpdate(force, version)
  \/ \E p \in Procs : guardActiveStreams(p) \/ download(p) \/ replaceBinary(p)
                        \/ restartAndVerify(p)
  \/ Publish \/ UseTunnel \/ ServiceRuns \/ Reboot

Spec == Init /\ [][Next]_vars

\* Processes that run go on, and the service manager does its work. Nobody
\* promises a release, a check or a quiet moment.
Fairness ==
  /\ WF_vars(spawnRestartHelper) /\ WF_vars(applyRestart) /\ WF_vars(ServiceRuns)
  /\ \A p \in Procs : WF_vars(guardActiveStreams(p) \/ download(p) \/ replaceBinary(p)
                                \/ restartAndVerify(p))

FairSpec == Spec /\ Fairness
-----------------------------------------------------------------------------
\* Nothing that happens in the middle of an update or of a rollback, failing
\* renames and a power cut included, leaves the machine without any build: what
\* is not in its place is in .old, until somebody updates rashly.
CopyIsKept == rash \/ exe # None \/ old # None

GoodAtHand == Answers(exe) \/ Answers(old)

\* The copy is worth keeping: without adversities and rash updates a build that
\* answers is in place, or is what a rollback would bring back.
GoodBuildKept == world = {} => rash \/ GoodAtHand

\* A bad release does not leave the machine unreachable: without adversities and
\* rash updates there is, again and again, an agent that answers.
AgentComesBack == []<>(world # {} \/ rash \/ Answers(running))

\* "The previous build is kept as .old on every platform" (update.go:189): there
\* is always a build in place or to go back to. Does not hold: cmdUpdate removes
\* the .old before it looks at anything, and two updates remove each other's.
MachineHasBuild == exe # None \/ old # None

\* The two before with adversities. Do not hold: see the README for each.
GoodBuildStays == rash \/ GoodAtHand
AlwaysComesBack == []<>(rash \/ Answers(running))

\* An update is skipped while anyone is working through the agent, and only
\* then. Does not hold: the agent's own log stream is counted as work.
PostponedOnlyForWork ==
  [][pc["auto"] = "guard" /\ pc'["auto"] = "idle" /\ running' = running => work]_vars

\* `beacon update --check` reports the available version and changes nothing.
\* Does not hold: the .old is removed before the flag is looked at.
CheckChangesNothing == [][cmdUpdateCheck => UNCHANGED files]_vars
=============================================================================
