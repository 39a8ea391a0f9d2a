------------------------------ MODULE Service -------------------------------
(***************************************************************************)
(* The agent as a service: `beacon install`, `uninstall`, `start`, `stop`  *)
(* and `restart` (client/service.go) over the four ways a machine can hold *)
(* it: systemd and launchd (service_unix.go), the Windows service manager  *)
(* (service_windows.go) and the logon task of a per-user install           *)
(* (usermode_windows.go). The managers are external; what their commands   *)
(* do is modelled as far as the code depends on it.                        *)
(*                                                                         *)
(* One operator works at a time, but a command may be interrupted at any   *)
(* step, what it asks of a manager may fail, and one typed into a shell of *)
(* the agent itself dies with it. The enrolment and the configuration      *)
(* `install` writes are in ConfigFile.                                     *)
(***************************************************************************)
EXTENDS Integers

CONSTANTS
  Builds,     \* the builds an operator may install
  None,       \* no file, no process
  MaxFaults   \* bound of crashes, failed calls, interrupted commands and reboots

Platforms == {"systemd", "launchd", "scm", "task"}

ASSUME ServiceAssumptions == Builds # {} /\ None \notin Builds /\ MaxFaults \in Nat

VARIABLES
  platform,  \* which of the four; fixed
  unit,      \* the definition exists: unit file, plist, service entry, task
  loaded,    \* launchd: the job is bootstrapped
  enabled,   \* systemd: the unit is started at boot
  marked,    \* scm: the entry is marked for deletion
  agent,     \* the process: "none", "running", "stopping" or "crashed"
  runs,      \* the build it runs
  bin,       \* the build at installPath
  cmd,       \* the command under way
  said,      \* what the last command reported
  faults,    \* how many faults happened
  cut,       \* history: a copy failed, or was interrupted, half way
  unstopped  \* history: the stop of the last uninstall failed, which it does not look at

history == <<cut, unstopped>>
manager == <<unit, loaded, enabled, marked>>
process == <<agent, runs>>
vars == <<platform, manager, process, bin, cmd, said, faults, history>>
Idle == [name |-> "none", pc |-> "none", build |-> None, inside |-> FALSE]

TypeOK ==
  /\ platform \in Platforms
  /\ {unit, loaded, enabled, marked, cut, unstopped} \subseteq BOOLEAN
  /\ agent \in {"none", "running", "stopping", "crashed"}
  /\ {runs, bin} \subseteq Builds \cup {None}
  /\ faults \in 0 .. MaxFaults

Init ==
  /\ platform \in Platforms
  /\ unit = FALSE /\ loaded = FALSE /\ enabled = FALSE /\ marked = FALSE
  /\ agent = "none" /\ runs = None /\ bin = None
  /\ cmd = Idle /\ said = "nothing"
  /\ faults = 0 /\ cut = FALSE /\ unstopped = FALSE
-----------------------------------------------------------------------------
\* serviceStatus. For launchd, running means loaded.
Installed == unit
Running == CASE platform = "launchd" -> loaded
             [] OTHER -> agent = "running"

\* Mutants: an uninstall that leaves the process, an uninstall that begins with
\* the binary, an install that starts the service now and not at boot.
LeavesProcess == UNCHANGED process
BinaryFirst(c) == CASE c = "uninstall" -> "remove" [] c = "install" -> "copy" [] OTHER -> "start"
StartsOnly == UNCHANGED enabled

Fault == faults < MaxFaults /\ faults' = faults + 1
At(name, pc) == cmd.name = name /\ cmd.pc = pc
Goto(pc) == cmd' = [cmd EXCEPT !.pc = pc] /\ UNCHANGED said
Say(what) == cmd' = Idle /\ said' = what

\* Where a command begins, once it is admitted.
FirstStep(c) ==
  CASE c = "install" -> "copy"
    [] c = "uninstall" -> IF platform = "task" THEN "unregister" ELSE "disable"
    [] c = "start" -> "start"
    [] c = "stop" -> "stop"
    [] c = "restart" -> IF Running \/ platform = "task" THEN "stop" ELSE "start"

\* What cmdServiceControl answers without doing anything.
Refusal(c) ==
  CASE c \notin {"start", "stop", "restart"} \/ platform = "task" -> "none"
    [] ~Installed -> "NOT INSTALLED"
    [] c = "start" /\ Running -> "ALREADY RUNNING"
    [] c = "stop" /\ ~Running -> "ALREADY STOPPED"
    [] OTHER -> "none"

\* A command typed by an operator, inside a shell of the agent or not.
Command(c, b, inside) ==
  /\ cmd = Idle
  /\ inside => agent = "running"
  /\ platform = "task" /\ c # "install" => unit     \* userInstalled
  /\ IF Refusal(c) # "none" THEN Say(Refusal(c))
     ELSE /\ cmd' = [name |-> c, pc |-> FirstStep(c), build |-> b, inside |-> inside]
          /\ said' = "nothing"
  /\ UNCHANGED <<platform, manager, process, bin, faults, history>>
-----------------------------------------------------------------------------
\* copyExecutable: a binary that is there is renamed, whether or not it runs ...
CopyAside ==
  /\ At("install", "copy")
  /\ \/ cmd.build = bin /\ Goto("register") /\ UNCHANGED <<bin, cut, faults>>  \* self == target
     \/ Goto("write") /\ bin' = None /\ cut' = TRUE /\ UNCHANGED faults
     \/ Say("ERROR") /\ Fault /\ UNCHANGED <<bin, cut>>
  /\ UNCHANGED <<platform, manager, process, unstopped>>

\* ... and the new one written; .old is removed in either case.
CopyWrite ==
  /\ At("install", "write")
  /\ \/ Goto("register") /\ bin' = cmd.build /\ cut' = FALSE /\ UNCHANGED faults
     \/ Say("ERROR") /\ Fault /\ UNCHANGED <<bin, cut>>
  /\ UNCHANGED <<platform, manager, process, unstopped>>

Runs(b) == IF b = None THEN agent' = "none" /\ runs' = None
                       ELSE agent' = "running" /\ runs' = b
Dies == agent' = "none" /\ runs' = None

\* Control(Stop) returns at once; the process takes up to ten seconds.
Alive == agent \in {"running", "stopping"}
AskToStop == IF Alive THEN agent' = "stopping" /\ UNCHANGED runs ELSE Dies

\* systemctl enable.
enable == enabled' = TRUE

\* serviceInstall. systemd only learns of the unit. launchd drops the job and
\* loads it again, which runs it. The Windows manager deletes an entry there is,
\* which lasts until its process has ended, and then cannot create one. A task is
\* replaced.
Registers ==
  \/ platform = "systemd" /\ Goto("start") /\ unit' = TRUE /\ enable
     /\ UNCHANGED <<loaded, marked, process>>
  \/ platform = "task" /\ Goto("start") /\ unit' = TRUE
     /\ UNCHANGED <<loaded, enabled, marked, process>>
  \/ platform = "launchd" /\ unit' = TRUE /\ loaded' = ~cmd.inside /\ UNCHANGED <<enabled, marked>>
     /\ IF cmd.inside THEN Say("nothing") /\ Dies ELSE Goto("start") /\ Runs(bin)
  \/ platform = "scm" /\ UNCHANGED <<loaded, enabled>>
     /\ IF unit /\ Alive
        THEN Say("ERROR") /\ marked' = TRUE /\ AskToStop /\ UNCHANGED unit
        ELSE Goto("start") /\ unit' = TRUE /\ marked' = FALSE /\ Dies

\* ... or one of its calls fails, before or after the definition is there.
RegisterFails ==
  /\ Say("ERROR")
  /\ \/ UNCHANGED <<manager, process>>
     \/ platform = "systemd" /\ unit' = TRUE /\ UNCHANGED <<loaded, enabled, marked, process>>
     \/ platform = "launchd" /\ unit' = TRUE /\ UNCHANGED <<enabled, marked>>
        /\ ((loaded' = FALSE /\ Dies) \/ UNCHANGED <<loaded, process>>)
     \/ platform = "scm" /\ ~(unit /\ Alive) /\ unit' \in BOOLEAN /\ marked' = FALSE /\ Dies
        /\ UNCHANGED <<loaded, enabled>>

serviceInstall ==
  /\ cmd.pc = "register"
  /\ (Registers /\ UNCHANGED faults) \/ (RegisterFails /\ Fault)
  /\ UNCHANGED <<platform, bin, history>>

\* Whether the manager can start the service now.
Startable ==
  CASE platform \in {"systemd", "task"} -> unit
    [] platform = "launchd" -> loaded
    [] platform = "scm" -> unit /\ ~marked /\ ~Alive

AfterStart == IF cmd.name = "install" \/ platform = "task" THEN "report" ELSE "settle"

\* systemd and the task scheduler leave a process that runs alone; kickstart -k
\* replaces it.
DoStart ==
  IF agent = "running" /\ platform # "launchd" THEN UNCHANGED process ELSE Runs(bin)

\* serviceStart, userStart.
serviceStart ==
  /\ cmd.pc = "start"
  /\ \/ Startable /\ Goto(AfterStart) /\ DoStart /\ UNCHANGED faults
     \/ ~Startable /\ Say("ERROR") /\ UNCHANGED <<process, faults>>
     \/ Fault /\ Say("ERROR") /\ UNCHANGED process
  /\ UNCHANGED <<platform, manager, bin, history>>

AfterStop(c) == IF c = "restart" THEN "start" ELSE IF platform = "task" THEN "report" ELSE "settle"

\* systemctl stop, bootout and /End wait for the process, and an operator's shell
\* inside it goes with it. Windows refuses to stop what has stopped meanwhile.
StopsNow ==
  IF platform = "scm" THEN (IF Alive THEN AskToStop ELSE UNCHANGED process) ELSE Dies

\* serviceStop, userStop.
serviceStop ==
  /\ cmd.pc = "stop"
  /\ \/ /\ StopsNow
        /\ loaded' = (loaded /\ platform # "launchd")
        /\ CASE platform = "scm" /\ ~Alive -> Say("ERROR")
             [] cmd.inside /\ platform # "scm" -> Say("nothing")
             [] OTHER -> Goto(AfterStop(cmd.name))
        /\ UNCHANGED faults
     \/ Fault /\ Say("ERROR") /\ UNCHANGED <<process, loaded>>
  /\ UNCHANGED <<platform, unit, enabled, marked, bin, history>>

Reports ==
  [install |-> "INSTALLED", start |-> "STARTED", stop |-> "STOPPED", restart |-> "RESTARTED"]

\* settled: a result is reported that serviceStatus confirms, else none.
settled ==
  /\ cmd.pc \in {"settle", "report"}
  /\ LET want == cmd.name # "stop"
     IN  Say(IF cmd.pc = "settle" /\ Running # want THEN "UNCONFIRMED" ELSE Reports[cmd.name])
  /\ UNCHANGED <<platform, manager, process, bin, faults, history>>

\* What an uninstall means to do to the process.
StopForGood == StopsNow

\* serviceUninstall, first: `systemctl disable --now`, `launchctl bootout` or
\* Control(Stop). Its error is discarded, and a shell inside the agent goes no
\* further where the process is gone at once.
DisableNow ==
  /\ At("uninstall", "disable")
  /\ \/ /\ StopForGood
        /\ loaded' = FALSE /\ enabled' = FALSE
        /\ unstopped' = (platform = "scm" /\ ~Alive)
        /\ IF cmd.inside /\ platform # "scm" THEN Say("nothing") ELSE Goto("unregister")
        /\ UNCHANGED faults
     \/ Fault /\ unstopped' = TRUE /\ Goto("unregister") /\ UNCHANGED <<process, loaded, enabled>>
  /\ UNCHANGED <<platform, unit, marked, bin, cut>>

\* ... then the definition: its file, its entry, which lasts until its process has
\* ended and cannot be deleted twice, or, by userUninstall, the task alone.
serviceUninstall ==
  /\ At("uninstall", "unregister")
  /\ \/ /\ ~marked /\ Goto("remove")
        /\ LET lingers == platform = "scm" /\ unit /\ Alive
           IN  unit' = lingers /\ marked' = lingers
        /\ UNCHANGED faults
     \/ marked /\ Say("ERROR") /\ UNCHANGED <<unit, marked, faults>>
     \/ /\ Fault /\ Say("ERROR")
        /\ unit' \in {unit, unit /\ platform # "systemd"}     \* daemon-reload fails after it
        /\ UNCHANGED marked
  /\ UNCHANGED <<platform, loaded, enabled, process, bin, history>>

\* os.Remove(installPath()). Windows refuses while the file is being run; the
\* per-user path ignores that.
RemoveBinary ==
  /\ At("uninstall", "remove")
  /\ LET refused == platform \in {"scm", "task"} /\ Alive /\ bin = runs
     IN  \/ ~refused /\ Say("REMOVED") /\ bin' = None /\ UNCHANGED faults
         \/ refused /\ Say(IF platform = "task" THEN "REMOVED" ELSE "ERROR") /\ UNCHANGED <<bin, faults>>
         \/ Fault /\ Say(IF platform = "task" THEN "REMOVED" ELSE "ERROR") /\ UNCHANGED bin
  /\ UNCHANGED <<platform, manager, process, history>>
-----------------------------------------------------------------------------
\* The operator's command is interrupted: its terminal goes, or ctrl-C.
Interrupted ==
  /\ cmd # Idle /\ Fault
  /\ Say("nothing")
  /\ UNCHANGED <<platform, manager, process, bin, history>>

\* External: the process dies of itself ...
Crash ==
  /\ agent = "running" /\ Fault
  /\ IF cmd.inside THEN Say("nothing") ELSE UNCHANGED <<cmd, said>>
  /\ agent' = (IF platform = "task" \/ marked THEN "none" ELSE "crashed") /\ runs' = None
  /\ unit' = (unit /\ ~marked) /\ marked' = FALSE
  /\ UNCHANGED <<platform, loaded, enabled, bin, history>>

\* ... and is started again: Restart=always, KeepAlive, the recovery actions, as
\* long as the manager knows it.
Respawn ==
  /\ agent = "crashed" /\ bin # None
  /\ IF platform = "launchd" THEN loaded ELSE unit
  /\ Runs(bin)
  /\ UNCHANGED <<platform, manager, bin, cmd, said, faults, history>>

\* External: a stop the Windows manager was asked for completes, and with it a
\* deletion.
Stopped ==
  /\ agent = "stopping"
  /\ Dies
  /\ IF cmd.inside THEN Say("nothing") ELSE UNCHANGED <<cmd, said>>
  /\ unit' = (unit /\ ~marked) /\ marked' = FALSE
  /\ UNCHANGED <<platform, loaded, enabled, bin, faults, history>>

\* External: a reboot, or for a task the next logon, starts what is defined.
Reboot ==
  /\ Fault
  /\ Say("nothing")
  /\ unit' = (unit /\ ~marked) /\ marked' = FALSE
  /\ loaded' = (platform = "launchd" /\ unit)
  /\ IF unit /\ ~marked /\ (platform = "systemd" => enabled) THEN Runs(bin) ELSE Dies
  /\ UNCHANGED <<platform, enabled, bin, history>>

Step == \/ CopyAside \/ CopyWrite \/ serviceInstall \/ serviceStart \/ serviceStop
        \/ settled \/ DisableNow \/ serviceUninstall \/ RemoveBinary

Next ==
  \/ Step \/ Interrupted \/ Crash \/ Respawn \/ Stopped \/ Reboot
  \/ \E c \in {"install", "uninstall", "start", "stop", "restart"}, b \in Builds, i \in BOOLEAN :
       Command(c, b, i)

Spec == Init /\ [][Next]_vars

\* A command that was begun goes on; the managers do what they were asked.
Fairness == WF_vars(Step) /\ WF_vars(Respawn) /\ WF_vars(Stopped)

FairSpec == Spec /\ Fairness
-----------------------------------------------------------------------------
\* A definition always has a binary to run, after a command that failed or was
\* interrupted at any step too, unless that was between the two halves of a copy.
DefinedHasBinary == unit /\ ~marked /\ ~cut => bin # None

\* What is reported removed is gone for good: nothing is left to run, nothing
\* would start it at the next boot, however late the manager finishes, and nothing
\* runs but a process whose stop failed. A per-user install is exempt.
RemovedIsGone ==
  said = "REMOVED" /\ platform # "task" =>
    bin = None /\ (unit => marked) /\ (agent = "running" => unstopped)

\* What was reported installed is there after the next boot, whatever failed or
\* was interrupted in earlier commands: the agent is the only way back into the
\* machine.
InstalledSurvivesBoot == [][Reboot /\ said = "INSTALLED" => agent' = "running"]_vars

\* ... and nothing runs at all (client/service.go: "removed the per-user install").
\* Does not hold for a task, whose process goes on, nor after a stop that failed.
RemovedIsStopped == said = "REMOVED" => agent # "running"

\* A restart has taken the agent down; it was interrupted, or another command given.
Restarting == At("restart", "start") /\ ~cmd.inside /\ agent # "running" /\ bin # None
Gone == (cmd = Idle /\ said = "nothing") \/ cmd.name \notin {"none", "restart"}

\* `beacon restart`: "stop then start the installed service" (client/main.go:101).
\* Does not hold for launchd, which has forgotten the job it stopped, nor for a
\* Windows service that is still stopping.
RestartNeverStrands == Restarting ~> (agent = "running" \/ Gone)

\* What was installed is what runs. Does not hold: `systemctl start` leaves an old
\* process alone, and so does the task scheduler.
InstalledRuns == said = "INSTALLED" /\ agent = "running" => runs = bin

\* A reinstall replaces the Windows service (client/service_windows.go: "replace
\* a previous definition rather than failing on reinstall"). Does not hold while
\* the old one runs.
ReinstallSucceeds ==
  [][At("install", "register") /\ UNCHANGED faults => said' # "ERROR"]_vars
=============================================================================
