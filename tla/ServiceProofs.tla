---------------------------- MODULE ServiceProofs ---------------------------
(***************************************************************************)
(* Proofs about Service: on all four platforms, for any builds and any     *)
(* number of faults, calls of the managers that fail included.             *)
(***************************************************************************)
EXTENDS Service, TLAPS

Names == {"install", "uninstall", "start", "stop", "restart"}

Doing == [name : Names,
          pc : {"copy", "write", "register", "disable", "unregister", "remove", "start", "stop", "settle", "report"},
          build : Builds, inside : BOOLEAN]

\* A command is one of the five, at a step of its own, and has reported nothing.
CommandInv ==
  /\ cmd = Idle \/ (cmd \in Doing /\ said = "nothing")
  /\ cmd.pc = "register" => cmd.name = "install"
  /\ cmd.pc = "start" => cmd.name \in {"install", "start", "restart"}
  /\ cmd.pc = "stop" => cmd.name \in {"stop", "restart"}
  /\ cmd.pc \in {"settle", "report"} => cmd.name # "uninstall"

\* What is being registered was copied first.
CopiedFirst == cmd.pc = "register" => bin # None

\* The process an uninstall asked to stop does not come back, unless the stop
\* failed.
Halted == unstopped \/ agent \in {"none", "stopping"}

\* An uninstall reaches the binary when nothing would start it any more.
UnregisteredFirst ==
  /\ cmd.pc \in {"unregister", "remove"} /\ platform # "task" => Halted
  /\ cmd.pc = "remove" => (unit => marked)

\* What was reported removed cannot be started either.
RemovedInv ==
  said = "REMOVED" /\ platform # "task" => Halted /\ bin = None /\ (unit => marked)

\* What an install has registered, the next boot starts.
Ready == unit /\ ~marked /\ bin # None /\ (platform = "systemd" => enabled)

InstalledInv ==
  /\ cmd.name = "install" /\ cmd.pc \in {"start", "settle", "report"} => Ready
  /\ said = "INSTALLED" => Ready

MarkedScm == marked => platform = "scm"

IInv == /\ TypeOK /\ MarkedScm /\ CommandInv /\ CopiedFirst /\ UnregisteredFirst
        /\ DefinedHasBinary /\ RemovedInv /\ InstalledInv
-----------------------------------------------------------------------------
LEMMA IdleFacts == Idle.pc = "none" /\ Idle.name = "none" /\ Idle.inside = FALSE
BY DEF Idle

\* A command that has a step to make is one of the five.
LEMMA Busy ==
  ASSUME CommandInv, cmd.pc # "none"
  PROVE  cmd \in Doing /\ said = "nothing" /\ cmd.build \in Builds /\ cmd.inside \in BOOLEAN
         /\ cmd.name \in Names
BY IdleFacts DEF CommandInv, Doing

\* Going on changes where the command is, and nothing else of it.
LEMMA GotoFacts ==
  ASSUME CommandInv, cmd.pc # "none", NEW pc, Goto(pc),
         pc \in {"copy", "write", "register", "disable", "unregister", "remove", "start", "stop", "settle", "report"}
  PROVE  /\ cmd' \in Doing /\ said' = "nothing"
         /\ cmd'.pc = pc /\ cmd'.name = cmd.name
BY Busy DEF Goto, Doing

LEMMA SayFacts ==
  ASSUME NEW what, Say(what)
  PROVE  CommandInv' /\ CopiedFirst' /\ UnregisteredFirst' /\ said' = what
BY IdleFacts DEF Say, CommandInv, CopiedFirst, UnregisteredFirst

\* What a step leaves of the process.
LEMMA RunsFacts ==
  ASSUME NEW b \in Builds \cup {None}, Runs(b)
  PROVE  agent' \in {"none", "running"} /\ runs' \in Builds \cup {None}
BY DEF Runs

LEMMA StopFacts ==
  ASSUME TypeOK, Dies \/ AskToStop
  PROVE  agent' \in {"none", "stopping"} /\ runs' \in Builds \cup {None}
BY DEF Dies, AskToStop, TypeOK
-----------------------------------------------------------------------------
LEMMA TypeStep == ASSUME TypeOK, CommandInv, [Next]_vars PROVE TypeOK'
<1> USE ServiceAssumptions DEF TypeOK
<1>1. CASE CopyAside
  <2>1. faults' \in 0 .. MaxFaults
    BY <1>1 DEF CopyAside, Fault
  <2>2. bin' \in Builds \cup {None} /\ cut' \in BOOLEAN
    BY <1>1 DEF CopyAside
  <2> QED BY <1>1, <2>1, <2>2 DEF CopyAside, manager, process
<1>2. CASE CopyWrite
  <2>1. cmd.build \in Builds
    BY <1>2, Busy DEF CopyWrite, At
  <2>2. bin' \in Builds \cup {None} /\ cut' \in BOOLEAN /\ faults' \in 0 .. MaxFaults
    <3>1. CASE bin' = cmd.build /\ cut' = FALSE /\ UNCHANGED faults
      BY <2>1, <3>1
    <3>2. CASE Fault /\ UNCHANGED <<bin, cut>>
      BY <3>2 DEF Fault
    <3> QED BY <1>2, <3>1, <3>2 DEF CopyWrite
  <2>3. UNCHANGED <<platform, unit, loaded, enabled, marked, agent, runs, unstopped>>
    BY <1>2 DEF CopyWrite, manager, process
  <2> QED BY <2>2, <2>3
<1>3. CASE serviceInstall
  <2>1. cmd.inside \in BOOLEAN
    BY <1>3, Busy DEF serviceInstall
  <2>2. agent' \in {"none", "running", "stopping", "crashed"} /\ runs' \in Builds \cup {None}
    BY <1>3, StopFacts, RunsFacts DEF serviceInstall, Registers, RegisterFails, process
  <2>3. unit' \in BOOLEAN /\ loaded' \in BOOLEAN /\ enabled' \in BOOLEAN /\ marked' \in BOOLEAN
    BY <1>3, <2>1 DEF serviceInstall, Registers, RegisterFails, enable, manager
  <2>4. faults' \in 0 .. MaxFaults
    BY <1>3 DEF serviceInstall, Fault
  <2> QED BY <1>3, <2>2, <2>3, <2>4 DEF serviceInstall, history
<1>4. CASE serviceStart
  <2>1. agent' \in {"none", "running", "stopping", "crashed"} /\ runs' \in Builds \cup {None}
    BY <1>4, RunsFacts DEF serviceStart, DoStart, process
  <2>2. faults' \in 0 .. MaxFaults
    BY <1>4 DEF serviceStart, Fault
  <2> QED BY <1>4, <2>1, <2>2 DEF serviceStart, manager, history
<1>5. CASE serviceStop
  <2>1. agent' \in {"none", "running", "stopping", "crashed"} /\ runs' \in Builds \cup {None}
    BY <1>5, StopFacts DEF serviceStop, StopsNow, process
  <2>2. faults' \in 0 .. MaxFaults
    BY <1>5 DEF serviceStop, Fault
  <2>3. loaded' \in BOOLEAN
    BY <1>5 DEF serviceStop
  <2> QED BY <1>5, <2>1, <2>2, <2>3 DEF serviceStop, history
<1>6. CASE settled
  BY <1>6 DEF settled, manager, process, history
<1>7. CASE DisableNow
  <2>1. agent' \in {"none", "running", "stopping", "crashed"} /\ runs' \in Builds \cup {None}
    BY <1>7, StopFacts DEF DisableNow, StopForGood, StopsNow, process
  <2>2. faults' \in 0 .. MaxFaults
    BY <1>7 DEF DisableNow, Fault
  <2>3. loaded' \in BOOLEAN /\ enabled' \in BOOLEAN /\ unstopped' \in BOOLEAN
    BY <1>7 DEF DisableNow
  <2> QED BY <1>7, <2>1, <2>2, <2>3 DEF DisableNow
<1>7a. CASE serviceUninstall
  <2>1. faults' \in 0 .. MaxFaults
    BY <1>7a DEF serviceUninstall, Fault
  <2>2. unit' \in BOOLEAN /\ marked' \in BOOLEAN
    BY <1>7a DEF serviceUninstall
  <2> QED BY <1>7a, <2>1, <2>2 DEF serviceUninstall, process, history
<1>8. CASE RemoveBinary
  <2>1. faults' \in 0 .. MaxFaults /\ bin' \in Builds \cup {None}
    BY <1>8 DEF RemoveBinary, Fault
  <2> QED BY <1>8, <2>1 DEF RemoveBinary, manager, process, history
<1>9. CASE Interrupted
  BY <1>9 DEF Interrupted, Fault, manager, process, history
<1>10. CASE Crash
  <2>1. agent' \in {"none", "crashed"} /\ runs' = None /\ faults' \in 0 .. MaxFaults
    BY <1>10 DEF Crash, Fault
  <2>2. unit' \in BOOLEAN /\ marked' \in BOOLEAN
    BY <1>10 DEF Crash
  <2> QED BY <1>10, <2>1, <2>2 DEF Crash, history
<1>11. CASE Respawn
  BY <1>11, RunsFacts DEF Respawn, manager, history
<1>12. CASE Stopped
  BY <1>12, StopFacts DEF Stopped, history
<1>13. CASE Reboot
  <2>1. agent' \in {"none", "running", "stopping"} /\ runs' \in Builds \cup {None}
    BY <1>13, StopFacts, RunsFacts DEF Reboot
  <2>2. unit' \in BOOLEAN /\ loaded' \in BOOLEAN /\ marked' \in BOOLEAN
    BY <1>13 DEF Reboot
  <2>3. faults' \in 0 .. MaxFaults
    BY <1>13 DEF Reboot, Fault
  <2> QED BY <1>13, <2>1, <2>2, <2>3 DEF Reboot, history
<1>14. ASSUME NEW c \in Names, NEW b \in Builds, NEW i \in BOOLEAN, Command(c, b, i)
       PROVE  TypeOK'
  BY <1>14 DEF Command, manager, process, history
<1>15. CASE UNCHANGED vars
  BY <1>15 DEF vars, manager, process, history
<1> QED
  BY <1>1, <1>2, <1>3, <1>4, <1>5, <1>6, <1>7, <1>8, <1>9, <1>10, <1>11, <1>12, <1>13,
     <1>14, <1>15, <1>7a DEF Next, Step, Names

\* The parts of the invariant about the command and what it has done so far.
Parts == /\ CommandInv /\ CopiedFirst /\ UnregisteredFirst
         /\ DefinedHasBinary /\ RemovedInv /\ InstalledInv

\* What is left to show of a command that ends ...
LEMMA SayParts ==
  ASSUME NEW what, Say(what), what \notin {"REMOVED", "INSTALLED"}, DefinedHasBinary'
  PROVE  Parts'
<1>1. cmd'.name = "none" /\ said' = what
  BY IdleFacts DEF Say
<1> QED BY <1>1, SayFacts DEF Parts, RemovedInv, InstalledInv

\* ... and of one that goes on.
LEMMA GotoParts ==
  ASSUME CommandInv, cmd.pc # "none", NEW pc, Goto(pc),
         pc \in {"copy", "write", "register", "disable", "unregister", "remove", "start", "stop",
                 "settle", "report"},
         pc = "register" => cmd.name = "install" /\ bin' # None,
         pc = "start" => cmd.name \in {"install", "start", "restart"},
         pc = "stop" => cmd.name \in {"stop", "restart"},
         pc \in {"settle", "report"} => cmd.name # "uninstall",
         pc \in {"unregister", "remove"} /\ platform' # "task" => Halted',
         pc = "remove" => (unit' => marked'),
         cmd.name = "install" /\ pc \in {"start", "settle", "report"} => Ready',
         DefinedHasBinary'
  PROVE  Parts'
<1>1. cmd' \in Doing /\ said' = "nothing" /\ cmd'.pc = pc /\ cmd'.name = cmd.name
  BY GotoFacts
<1> QED BY <1>1 DEF Parts, CommandInv, CopiedFirst, UnregisteredFirst, RemovedInv, InstalledInv

\* Nothing the invariant is about has changed, or only the process, which stays down.
LEMMA SameParts ==
  ASSUME Parts, UNCHANGED <<platform, unit, enabled, marked, bin, cut, unstopped, cmd, said>>,
         Halted => Halted'
  PROVE  Parts'
<1>1. CommandInv' /\ CopiedFirst' /\ DefinedHasBinary'
  BY DEF Parts, CommandInv, CopiedFirst, DefinedHasBinary
<1> QED BY <1>1 DEF Parts, UnregisteredFirst, RemovedInv, InstalledInv, Ready

\* A command's own steps.
LEMMA StepParts == ASSUME IInv, Step PROVE Parts'
<1> USE ServiceAssumptions DEF IInv
<1>1. CASE CopyAside
  <2>1. cmd.pc = "copy" /\ cmd.name = "install" /\ cmd.build \in Builds /\ UNCHANGED <<unit, marked>>
    BY <1>1, Busy DEF CopyAside, At, manager
  <2>2. CASE cmd.build = bin /\ Goto("register") /\ UNCHANGED <<bin, cut>>
    BY <2>1, <2>2, GotoParts DEF DefinedHasBinary
  <2>3. CASE Goto("write") /\ bin' = None /\ cut' = TRUE
    BY <2>1, <2>3, GotoParts DEF DefinedHasBinary
  <2>4. CASE Say("ERROR") /\ UNCHANGED <<bin, cut>>
    BY <2>1, <2>4, SayParts DEF DefinedHasBinary
  <2> QED BY <1>1, <2>2, <2>3, <2>4 DEF CopyAside
<1>2. CASE CopyWrite
  <2>1. cmd.pc = "write" /\ cmd.name = "install" /\ cmd.build \in Builds /\ UNCHANGED <<unit, marked>>
    BY <1>2, Busy DEF CopyWrite, At, manager
  <2>2. CASE Goto("register") /\ bin' = cmd.build
    BY <2>1, <2>2, GotoParts DEF DefinedHasBinary
  <2>3. CASE Say("ERROR") /\ UNCHANGED <<bin, cut>>
    BY <2>1, <2>3, SayParts DEF DefinedHasBinary
  <2> QED BY <1>2, <2>2, <2>3 DEF CopyWrite
<1>3. CASE serviceInstall
  <2>1. /\ cmd.pc = "register" /\ cmd.name = "install" /\ bin # None /\ bin' = bin
        /\ platform' = platform
    BY <1>3 DEF serviceInstall, CommandInv, CopiedFirst
  <2>2. DefinedHasBinary'
    BY <2>1 DEF DefinedHasBinary
  <2>3. CASE Say("nothing") \/ Say("ERROR")
    BY <2>2, <2>3, SayParts
  <2>4. CASE Registers /\ Goto("start")
    <3>1. marked => platform = "scm"
      BY DEF MarkedScm
    <3>2. ~Say("nothing") /\ ~Say("ERROR")
      BY <2>1, <2>4, GotoFacts, IdleFacts DEF Say
    <3>3. Ready'
      BY <2>1, <2>4, <3>1, <3>2 DEF Registers, enable, Ready
    <3> QED BY <2>1, <2>2, <2>4, <3>3, GotoParts
  <2> QED BY <1>3, <2>3, <2>4 DEF serviceInstall, Registers, RegisterFails
<1>4. CASE serviceStart
  <2>1. /\ cmd.pc = "start" /\ cmd.name \in {"install", "start", "restart"}
        /\ UNCHANGED <<platform, unit, enabled, marked, bin, cut>>
    BY <1>4 DEF serviceStart, CommandInv, manager, history
  <2>2. DefinedHasBinary' /\ (cmd.name = "install" => Ready')
    BY <2>1 DEF DefinedHasBinary, InstalledInv, Ready
  <2>3. CASE Goto(AfterStart)
    <3>1. AfterStart \in {"report", "settle"}
      BY DEF AfterStart
    <3> QED BY <2>1, <2>2, <2>3, <3>1, GotoParts
  <2>4. CASE Say("ERROR")
    BY <2>2, <2>4, SayParts
  <2> QED BY <1>4, <2>3, <2>4 DEF serviceStart
<1>5. CASE serviceStop
  <2>1. /\ cmd.pc = "stop" /\ cmd.name \in {"stop", "restart"}
        /\ UNCHANGED <<unit, marked, bin, cut>>
    BY <1>5 DEF serviceStop, CommandInv, history
  <2>2. DefinedHasBinary'
    BY <2>1 DEF DefinedHasBinary
  <2>3. CASE Goto(AfterStop(cmd.name))
    <3>1. /\ AfterStop(cmd.name) \in {"start", "report", "settle"}
          /\ AfterStop(cmd.name) = "start" => cmd.name = "restart"
      BY DEF AfterStop
    <3> QED BY <2>1, <2>2, <2>3, <3>1, GotoParts
  <2>4. CASE Say("nothing") \/ Say("ERROR")
    BY <2>2, <2>4, SayParts
  <2> QED BY <1>5, <2>3, <2>4 DEF serviceStop
<1>6. CASE settled
  <2>1. /\ cmd.pc \in {"settle", "report"} /\ cmd.name \in {"install", "start", "stop", "restart"}
        /\ UNCHANGED <<platform, unit, enabled, marked, bin, cut>>
    BY <1>6, Busy DEF settled, CommandInv, Names, manager, history
  <2>2. PICK what : Say(what) /\ what \in {"UNCONFIRMED", Reports[cmd.name]}
    BY <1>6 DEF settled
  <2>3. what # "REMOVED" /\ (what = "INSTALLED" => cmd.name = "install")
    BY <2>1, <2>2 DEF Reports
  <2>4. DefinedHasBinary' /\ (what = "INSTALLED" => Ready')
    BY <2>1, <2>3 DEF DefinedHasBinary, InstalledInv, Ready
  <2>5. cmd'.name = "none" /\ said' = what
    BY <2>2, IdleFacts DEF Say
  <2> QED BY <2>2, <2>3, <2>4, <2>5, SayFacts DEF Parts, RemovedInv, InstalledInv
<1>7. CASE DisableNow
  <2>1. /\ cmd.pc = "disable" /\ cmd.name = "uninstall" /\ UNCHANGED <<platform, unit, marked, bin, cut>>
    BY <1>7 DEF DisableNow, At
  <2>2. DefinedHasBinary'
    BY <2>1 DEF DefinedHasBinary
  <2>3. Halted'
    <3>1. CASE unstopped'
      BY <3>1 DEF Halted
    <3>2. CASE StopForGood /\ ~(platform = "scm" /\ ~Alive)
      <4>1. Dies \/ AskToStop
        BY <3>2 DEF StopForGood, StopsNow
      <4> QED BY <4>1, StopFacts DEF Halted
    <3> QED BY <1>7, <3>1, <3>2 DEF DisableNow
  <2>4. CASE Goto("unregister")
    BY <2>1, <2>2, <2>3, <2>4, GotoParts
  <2>5. CASE Say("nothing")
    BY <2>2, <2>5, SayParts
  <2> QED BY <1>7, <2>4, <2>5 DEF DisableNow
<1>8. CASE serviceUninstall
  <2>1. /\ cmd.pc = "unregister" /\ cmd.name = "uninstall"
        /\ UNCHANGED <<platform, agent, bin, cut, unstopped>>
    BY <1>8 DEF serviceUninstall, At, process, history
  <2>2. platform' # "task" => Halted'
    BY <2>1 DEF UnregisteredFirst, Halted
  <2>3. CASE /\ Goto("remove")
             /\ LET lingers == platform = "scm" /\ unit /\ Alive
                IN  unit' = lingers /\ marked' = lingers
    <3>1. (unit' => marked') /\ DefinedHasBinary'
      BY <2>3 DEF DefinedHasBinary
    <3> QED BY <2>1, <2>2, <2>3, <3>1, GotoParts
  <2>4. CASE Say("ERROR") /\ unit' \in {unit, unit /\ platform # "systemd"} /\ UNCHANGED marked
    <3>1. DefinedHasBinary'
      BY <2>1, <2>4 DEF DefinedHasBinary
    <3> QED BY <2>4, <3>1, SayParts
  <2> QED BY <1>8, <2>3, <2>4 DEF serviceUninstall
<1>9. CASE RemoveBinary
  <2>1. /\ cmd.pc = "remove" /\ (unit => marked) /\ (platform # "task" => Halted)
        /\ UNCHANGED <<platform, unit, marked, agent, cut, unstopped>>
    BY <1>9 DEF RemoveBinary, At, UnregisteredFirst, manager, process, history
  <2>2. DefinedHasBinary' /\ (platform' # "task" => Halted')
    BY <2>1 DEF DefinedHasBinary, Halted
  <2>3. CASE Say("REMOVED") /\ (platform = "task" \/ bin' = None)
    <3>1. cmd'.name = "none" /\ said' = "REMOVED"
      BY <2>3, IdleFacts DEF Say
    <3> QED BY <2>1, <2>2, <2>3, <3>1, SayFacts DEF Parts, RemovedInv, InstalledInv
  <2>4. CASE Say("ERROR")
    BY <2>2, <2>4, SayParts
  <2> QED BY <1>9, <2>3, <2>4 DEF RemoveBinary
<1> QED BY <1>1, <1>2, <1>3, <1>4, <1>5, <1>6, <1>7, <1>8, <1>9 DEF Step

\* The environment's steps.
LEMMA OutsideParts ==
  ASSUME IInv, Interrupted \/ Crash \/ Respawn \/ Stopped \/ Reboot PROVE Parts'
<1> USE DEF IInv
<1>1. CASE Interrupted
  <2>1. Say("nothing") /\ DefinedHasBinary'
    BY <1>1 DEF Interrupted, manager, history, DefinedHasBinary
  <2> QED BY <2>1, SayParts
<1>2. CASE Crash
  <2>1. /\ agent = "running" /\ UNCHANGED <<platform, enabled, bin, cut, unstopped>>
        /\ unit' = (unit /\ ~marked) /\ marked' = FALSE
    BY <1>2 DEF Crash, history
  <2>2. DefinedHasBinary'
    BY <2>1 DEF DefinedHasBinary
  <2>3. CASE Say("nothing")
    BY <2>2, <2>3, SayParts
  <2>4. CASE UNCHANGED <<cmd, said>>
    <3>1. CommandInv' /\ CopiedFirst'
      BY <2>1, <2>4 DEF CommandInv, CopiedFirst
    <3>2. Halted => Halted'
      BY <2>1 DEF Halted
    <3>3. Ready => Ready'
      BY <2>1 DEF Ready
    <3>4. (unit => marked) => (unit' => marked')
      BY <2>1
    <3> QED BY <2>1, <2>2, <2>4, <3>1, <3>2, <3>3, <3>4
        DEF Parts, UnregisteredFirst, RemovedInv, InstalledInv
  <2> QED BY <1>2, <2>3, <2>4 DEF Crash
<1>3. CASE Respawn
  <2>1. /\ agent = "crashed"
        /\ UNCHANGED <<platform, unit, enabled, marked, bin, cut, unstopped, cmd, said>>
    BY <1>3 DEF Respawn, manager, history
  <2>2. Halted => Halted'
    BY <2>1 DEF Halted
  <2> QED BY <2>1, <2>2, SameParts DEF Parts
<1>4. CASE Stopped
  <2>1. /\ agent' = "none" /\ UNCHANGED <<platform, enabled, bin, cut>>
        /\ unit' = (unit /\ ~marked) /\ marked' = FALSE
    BY <1>4 DEF Stopped, Dies, history
  <2>2. DefinedHasBinary'
    BY <2>1 DEF DefinedHasBinary
  <2>3. CASE Say("nothing")
    BY <2>2, <2>3, SayParts
  <2>4. CASE UNCHANGED <<cmd, said>>
    <3>1. CommandInv' /\ CopiedFirst'
      BY <2>1, <2>4 DEF CommandInv, CopiedFirst
    <3>2. Halted'
      BY <2>1 DEF Halted
    <3>3. Ready => Ready'
      BY <2>1 DEF Ready
    <3>4. (unit => marked) => (unit' => marked')
      BY <2>1
    <3> QED BY <2>1, <2>2, <2>4, <3>1, <3>2, <3>3, <3>4
        DEF Parts, UnregisteredFirst, RemovedInv, InstalledInv
  <2> QED BY <1>4, <2>3, <2>4 DEF Stopped
<1>5. CASE Reboot
  <2>1. /\ Say("nothing") /\ UNCHANGED <<bin, cut>>
        /\ unit' = (unit /\ ~marked) /\ marked' = FALSE
    BY <1>5 DEF Reboot, history
  <2>2. DefinedHasBinary'
    BY <2>1 DEF DefinedHasBinary
  <2> QED BY <2>1, <2>2, SayParts
<1> QED BY <1>1, <1>2, <1>3, <1>4, <1>5

\* A command is refused, or begins at its first step.
LEMMA CommandParts ==
  ASSUME IInv, NEW c \in Names, NEW b \in Builds, NEW i \in BOOLEAN, Command(c, b, i)
  PROVE  Parts'
<1> USE DEF IInv
<1>1. UNCHANGED <<platform, unit, enabled, marked, agent, bin, cut, unstopped>>
  BY DEF Command, manager, process, history
<1>2. DefinedHasBinary'
  BY <1>1 DEF DefinedHasBinary
<1>3. CASE Say(Refusal(c))
  <2>1. Refusal(c) \notin {"REMOVED", "INSTALLED"}
    BY DEF Refusal
  <2> QED BY <1>2, <1>3, <2>1, SayParts
<1>4. CASE /\ cmd' = [name |-> c, pc |-> FirstStep(c), build |-> b, inside |-> i]
           /\ said' = "nothing"
  <2>1. /\ FirstStep(c) \in {"copy", "disable", "unregister", "start", "stop"}
        /\ FirstStep(c) = "start" => c \in {"start", "restart"}
        /\ FirstStep(c) = "stop" => c \in {"stop", "restart"}
        /\ FirstStep(c) = "unregister" => platform = "task"
    BY DEF FirstStep, Names
  <2>2. cmd' \in Doing /\ cmd'.pc = FirstStep(c) /\ cmd'.name = c
    BY <1>4, <2>1 DEF Doing
  <2> QED BY <1>1, <1>2, <1>4, <2>1, <2>2
      DEF Parts, CommandInv, CopiedFirst, UnregisteredFirst, RemovedInv, InstalledInv
<1> QED BY <1>3, <1>4 DEF Command

\* Only the Windows manager marks what it deletes.
LEMMA MarkedStep == ASSUME IInv, [Next]_vars PROVE MarkedScm'
<1> USE DEF IInv, MarkedScm
<1>1. CASE serviceInstall
  BY <1>1 DEF serviceInstall, Registers, RegisterFails, manager
<1>2. CASE serviceUninstall
  BY <1>2 DEF serviceUninstall
<1>3. CASE UNCHANGED <<platform, marked>>
  BY <1>3
<1>4. CASE platform' = platform /\ marked' = FALSE
  BY <1>4
<1>5. CopyAside \/ CopyWrite \/ serviceStart \/ settled \/ RemoveBinary => UNCHANGED <<platform, marked>>
  BY DEF CopyAside, CopyWrite, serviceStart, settled, RemoveBinary, manager
<1>6. serviceStop \/ DisableNow \/ Interrupted \/ Respawn => UNCHANGED <<platform, marked>>
  BY DEF serviceStop, DisableNow, Interrupted, Respawn, manager
<1>7. Crash \/ Stopped \/ Reboot => platform' = platform /\ marked' = FALSE
  BY DEF Crash, Stopped, Reboot
<1>8. ASSUME NEW c \in Names, NEW b \in Builds, NEW i \in BOOLEAN, Command(c, b, i)
      PROVE  UNCHANGED <<platform, marked>>
  BY <1>8 DEF Command, manager
<1>9. UNCHANGED vars => UNCHANGED <<platform, marked>>
  BY DEF vars, manager
<1> QED BY <1>1, <1>2, <1>3, <1>4, <1>5, <1>6, <1>7, <1>8, <1>9 DEF Next, Step, Names

LEMMA AlwaysIInv == Spec => []IInv
<1>1. ASSUME Init PROVE IInv
  <2>1. TypeOK
    <3>1. /\ unit \in BOOLEAN /\ loaded \in BOOLEAN /\ enabled \in BOOLEAN /\ marked \in BOOLEAN
          /\ cut \in BOOLEAN /\ unstopped \in BOOLEAN
      BY <1>1, Zenon DEF Init
    <3>2. faults \in 0 .. MaxFaults
      BY <1>1, ServiceAssumptions DEF Init
    <3> QED BY <1>1, <3>1, <3>2 DEF Init, TypeOK
  <2>2. CommandInv /\ CopiedFirst /\ UnregisteredFirst
    BY <1>1, IdleFacts DEF Init, CommandInv, CopiedFirst, UnregisteredFirst
  <2>3. DefinedHasBinary /\ RemovedInv /\ InstalledInv /\ MarkedScm
    BY <1>1, IdleFacts DEF Init, DefinedHasBinary, RemovedInv, InstalledInv, MarkedScm
  <2> QED BY <2>1, <2>2, <2>3 DEF IInv
<1>2. ASSUME IInv, [Next]_vars PROVE IInv'
  <2>1. TypeOK' /\ MarkedScm'
    BY <1>2, TypeStep, MarkedStep DEF IInv
  <2>2. CASE UNCHANGED vars
    <3>1. UNCHANGED <<platform, unit, enabled, marked, agent, bin, cut, unstopped, cmd, said>>
      BY <2>2 DEF vars, manager, process, history
    <3>2. Parts'
      BY <1>2, <3>1, SameParts DEF IInv, Parts, Halted
    <3> QED BY <2>1, <3>2 DEF IInv, Parts
  <2>3. CASE Next
    <3>1. Parts'
      BY <1>2, <2>3, StepParts, OutsideParts, CommandParts DEF Next, Names
    <3> QED BY <2>1, <3>1 DEF IInv, Parts
  <2> QED BY <1>2, <2>2, <2>3
<1> QED BY <1>1, <1>2, PTL DEF Spec

\* The service, its manager and its process keep their types.
THEOREM TypeCorrect == Spec => []TypeOK
<1>1. IInv => TypeOK
  BY DEF IInv
<1> QED BY <1>1, AlwaysIInv, PTL

\* cmdInstall copies before it registers and cmdUninstall unregisters before it
\* removes: on any platform, whatever fails or is interrupted, a definition without
\* a binary is left by a copy that failed or was cut half way, and by nothing else.
THEOREM DefinedRuns == Spec => []DefinedHasBinary
<1>1. IInv => DefinedHasBinary
  BY DEF IInv
<1> QED BY <1>1, AlwaysIInv, PTL

\* cmdUninstall: what it reports as removed is not there to be run, is not started
\* at a later boot either, and runs on only if its stop failed, an error
\* serviceUninstall discards.
THEOREM RemovedForGood == Spec => []RemovedIsGone
<1>1. IInv => RemovedIsGone
  BY DEF IInv, RemovedInv, Halted, RemovedIsGone
<1> QED BY <1>1, AlwaysIInv, PTL

\* cmdInstall: what it reports as installed the next boot starts, whatever failed
\* or was interrupted in the commands before.
THEOREM SurvivesBoot == Spec => InstalledSurvivesBoot
<1>1. ASSUME IInv, Reboot, said = "INSTALLED" PROVE agent' = "running"
  <2>1. Ready
    BY <1>1 DEF IInv, InstalledInv
  <2>2. Runs(bin)
    BY <1>1, <2>1 DEF Reboot, Ready
  <2> QED BY <2>1, <2>2 DEF Ready, Runs
<1>2. IInv /\ [Next]_vars => [Reboot /\ said = "INSTALLED" => agent' = "running"]_vars
  BY <1>1
<1> QED BY <1>2, AlwaysIInv, PTL DEF Spec, InstalledSurvivesBoot
=============================================================================
