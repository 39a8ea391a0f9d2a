----------------------------- MODULE ConfigFile -----------------------------
(***************************************************************************)
(* The agent's configuration file and everything that reads it, changes it *)
(* and writes it back: `beacon login`, `logout`, `enroll` (and the         *)
(* enrolment of `install`), `config set`, the form of `beacon config`, and *)
(* the agent's ssh server, which keeps its host key there (client/         *)
(* config.go, paths.go, configcmd.go, configform.go, logincmd.go,          *)
(* enrollcmd.go, identity.go, service.go, sshserver.go).                   *)
(*                                                                         *)
(* No process locks the file. A command holds its copy across a prompt and *)
(* a call to the relay; a save truncates the file before it fills it. Of   *)
(* the contents there is kept what somebody would miss: the machine's key, *)
(* the key its assertion is for, the ssh host key, the operator's session, *)
(* the part edited by hand (Services, AutoUpdate), and where the server's  *)
(* address came from. Keys are numbered as they are generated; 0 is none.  *)
(***************************************************************************)
EXTENDS Integers

CONSTANTS
  Commands,        \* processes of people
  Conns,           \* ssh connections served by the agent
  Absent, Torn,    \* no file; a file that does not parse
  SharesHome,      \* an elevated command sees the per-user file of who called it
  Env,             \* the accounts whose environment sets BEACON_SERVER
  MaxKeys,         \* bound of the keys of each kind
  MaxCommands      \* bound of the commands run

Accounts == {"person", "root", "service"}
Files == {"machine", "user"}
Procs == Commands \cup Conns

Config == [key : 0 .. MaxKeys, assertion : 0 .. MaxKeys, host : 0 .. MaxKeys,
           session : BOOLEAN, custom : BOOLEAN, server : {"default", "file", "env"}]

ASSUME ConfigAssumptions ==
  /\ Commands \cap Conns = {}
  /\ Absent # Torn /\ Config \cap {Absent, Torn} = {}
  /\ SharesHome \in BOOLEAN /\ Env \subseteq Accounts
  /\ {MaxKeys, MaxCommands} \subseteq Nat

VARIABLES
  file,      \* the two files: Absent, Torn or a Config
  proc,      \* per process: where it is, what it is, the copy it holds
  up,        \* the agent runs
  sshServer, \* the host key of the server it has built, or 0
  begun,     \* how many commands were run
  keys,      \* how many machine keys and host keys were generated
  shown,     \* history: the host key a client last saw
  clash,     \* history: a process wrote back an outdated copy or the copy of another
             \* file, met a half-written file, or could not write
  formed,    \* history: the form was saved
  asked,     \* history: a login, logout or enrolment saved its resolved configuration
  enrolled,  \* history: files an assertion was written to
  edited     \* history: files somebody edited by hand

vars == <<file, proc, up, sshServer, begun, keys, shown, clash, formed, asked, enrolled, edited>>
history == <<clash, formed, asked, enrolled, edited>>

Empty == [key |-> 0, assertion |-> 0, host |-> 0, session |-> FALSE, custom |-> FALSE,
          server |-> "default"]

Idle == [pc |-> "idle", kind |-> "none", who |-> "person", copy |-> Empty, to |-> "machine",
         stale |-> FALSE]

TypeOK ==
  /\ file \in [Files -> Config \cup {Absent, Torn}]
  /\ \A p \in Procs :
       /\ proc[p].pc \in {"idle", "loaded", "gen", "save", "write", "over"}
       /\ proc[p].who \in Accounts /\ proc[p].to \in Files
       /\ proc[p].copy \in Config
  /\ sshServer \in 0 .. MaxKeys

Init ==
  /\ file = [f \in Files |-> Absent]
  /\ proc = [p \in Procs |-> Idle]
  /\ up = FALSE /\ sshServer = 0
  /\ begun = 0
  /\ keys = [machine |-> 0, host |-> 0]
  /\ shown = 0
  /\ clash = FALSE /\ formed = FALSE /\ asked = FALSE
  /\ enrolled = {} /\ edited = {}
-----------------------------------------------------------------------------
\* userConfigPath: the service has no home of its own, and root nothing in its.
SeesUserFile(a) == a = "person" \/ (a = "root" /\ SharesHome)

\* configPath: the per-user file wins when it exists.
configPath(a) == IF SeesUserFile(a) /\ file["user"] # Absent THEN "user" ELSE "machine"

\* The machine's file is root's: what a person may not read is not their config.
MayUse(a, f) == f = "user" \/ a # "person"

\* saveConfig: to where the configuration lives, or to the per-user file.
saveConfigPath(a) == IF MayUse(a, configPath(a)) THEN configPath(a) ELSE "user"

\* readConfigFile; Torn is its error.
readConfigFile(a) ==
  IF file[configPath(a)] = Absent \/ ~MayUse(a, configPath(a)) THEN Empty ELSE file[configPath(a)]

\* Mutant: a loadConfig that carries across only what has a key of its own.
OnlyKeys(a, c) ==
  [c EXCEPT !.custom = FALSE, !.server = IF a \in Env THEN "env" ELSE @]

\* loadConfig: the file, and the environment over it.
Resolved(a, c) == IF a \in Env THEN [c EXCEPT !.server = "env"] ELSE c

\* Mutants: an ssh server that saves the configuration it was handed, an
\* enrolment that writes only its assertion into what the file holds by then, a
\* connection that does not wait for the one that is building the server.
SavesResolved(a) == Resolved(a, readConfigFile(a))
AssertionOnly(p) ==
  IF proc[p].kind = "enroll" /\ file[proc[p].to] \notin {Absent, Torn}
  THEN [file[proc[p].to] EXCEPT !.assertion = proc[p].copy.assertion]
  ELSE proc[p].copy
NoLock(c) == TRUE

\* What a command starts from: `config set` edits the file only.
Start(k, a) ==
  IF k = "set" THEN readConfigFile(a) ELSE Resolved(a, readConfigFile(a))

\* A command reads the configuration. One that cannot parse it ends here, as
\* does a logout without a session; enroll needs elevation.
Load(p, k, a) ==
  /\ proc[p].pc = "idle" /\ begun < MaxCommands
  /\ begun' = begun + 1
  /\ file[configPath(a)] # Torn
  /\ k = "logout" => readConfigFile(a).session
  /\ k = "enroll" => a = "root"
  /\ proc' = [proc EXCEPT ![p] = [pc |-> "loaded", kind |-> k, who |-> a, copy |-> Start(k, a),
                                  to |-> saveConfigPath(a), stale |-> FALSE]]
  /\ UNCHANGED <<file, up, sshServer, keys, shown, history>>

\* ensureKeypair keeps a key there is, else makes the next one.
ensureKeypair(c) == IF c.key # 0 THEN c.key ELSE keys.machine + 1

\* What each command makes of its copy, once the operator has answered and the
\* relay has accepted. configForm.result has the three fields of the form, and
\* nothing else.
result(c) == [Empty EXCEPT !.server = IF c.server = "default" THEN "file" ELSE c.server]
cmdLogin(c) == [c EXCEPT !.session = TRUE]
cmdLogout(c) == [c EXCEPT !.session = FALSE]
configSet(c) == [c EXCEPT !.server = "file"]
enrollThisMachineAs(c) == [c EXCEPT !.key = ensureKeypair(c), !.assertion = ensureKeypair(c)]

Changed(k, c) ==
  CASE k = "login"  -> cmdLogin(c)
    [] k = "logout" -> cmdLogout(c)
    [] k = "set"    -> configSet(c)
    [] k = "form"   -> result(c)
    [] k = "enroll" -> enrollThisMachineAs(c)

Answer(p) ==
  /\ p \in Commands /\ proc[p].pc = "loaded"
  /\ proc[p].kind = "enroll" => ensureKeypair(proc[p].copy) <= MaxKeys
  /\ proc' = [proc EXCEPT ![p].pc = "save", ![p].copy = Changed(proc[p].kind, @)]
  /\ keys' = IF proc[p].kind = "enroll" /\ proc[p].copy.key = 0
             THEN [keys EXCEPT !.machine = @ + 1] ELSE keys
  /\ UNCHANGED <<begun, file, up, sshServer, shown, history>>

\* The operator gives up, the relay refuses, or the process is killed.
Abandon(p) ==
  /\ p \in Commands /\ proc[p].pc \in {"loaded", "save"}
  /\ proc' = [proc EXCEPT ![p] = Idle]
  /\ UNCHANGED <<begun, file, up, sshServer, keys, shown, history>>
-----------------------------------------------------------------------------
\* saveConfigTo: os.WriteFile opens the file with O_TRUNC ...
Truncate(p) ==
  /\ proc[p].pc = "save"
  /\ LET to == saveConfigPath(proc[p].who)
     IN  /\ file' = [file EXCEPT ![to] = Torn]
         /\ proc' = [proc EXCEPT ![p].pc = "write", ![p].to = to]
         /\ clash' = (clash \/ proc[p].stale \/ to # proc[p].to)
  /\ UNCHANGED <<begun, up, sshServer, keys, shown, formed, asked, enrolled, edited>>

\* What is written: the whole copy.
Written(p) == proc[p].copy

\* The copies and half-done writes of f that a write by p overtakes.
Overtaken(p, f) ==
  [q \in Procs |->
     CASE q = p -> Idle
       [] q # p /\ proc[q].to = f /\ proc[q].pc \in {"write", "over"} -> [proc[q] EXCEPT !.pc = "over"]
       [] q # p /\ proc[q].to = f /\ proc[q].pc \in {"loaded", "save"} -> [proc[q] EXCEPT !.stale = TRUE]
       [] OTHER -> proc[q]]

\* An ssh connection that made a host key is served with it, saved or not.
Serve(p) ==
  IF p \in Conns
  THEN sshServer' = proc[p].copy.host /\ shown' = proc[p].copy.host
  ELSE UNCHANGED <<sshServer, shown>>

\* ... and fills it. Two writes at once leave the longer one's tail behind.
Write(p) ==
  LET f == proc[p].to
  IN  /\ proc[p].pc \in {"write", "over"}
      /\ \/ file' = [file EXCEPT ![f] = Written(p)]
         \/ proc[p].pc = "over" /\ file' = [file EXCEPT ![f] = Torn]
      /\ proc' = Overtaken(p, f)
      /\ clash' = (clash \/ proc[p].pc = "over")
      /\ formed' = (formed \/ proc[p].kind = "form")
      /\ asked' = (asked \/ (p \in Commands /\ proc[p].kind \notin {"set", "form"}))
      /\ enrolled' = IF Written(p).assertion # 0 THEN enrolled \cup {f} ELSE enrolled
      /\ Serve(p)
      /\ UNCHANGED <<begun, up, keys, edited>>

\* The process dies or the disk is full after the file was truncated.
WriteFails(p) ==
  /\ proc[p].pc \in {"write", "over"}
  /\ proc' = [proc EXCEPT ![p] = Idle]
  /\ clash' = TRUE
  /\ Serve(p)
  /\ UNCHANGED <<begun, file, up, keys, formed, asked, enrolled, edited>>
-----------------------------------------------------------------------------
\* `beacon run`, started by the service manager: not with a file that is torn.
runAgent ==
  /\ ~up /\ file[configPath("service")] # Torn
  /\ up' = TRUE
  /\ UNCHANGED <<begun, file, proc, sshServer, keys, shown, history>>

\* The agent is stopped or dies, wherever its connections are.
AgentStops ==
  /\ up
  /\ up' = FALSE /\ sshServer' = 0
  /\ proc' = [p \in Procs |-> IF p \in Conns THEN Idle ELSE proc[p]]
  /\ UNCHANGED <<begun, file, keys, shown, history>>

\* serveEmbeddedSSH: the configuration is read again for every connection; one
\* that cannot be read closes it.
serveEmbeddedSSH(c) ==
  /\ up /\ proc[c].pc = "idle"
  /\ file[configPath("service")] # Torn
  /\ proc' = [proc EXCEPT ![c] =
       [Idle EXCEPT !.pc = "loaded", !.who = "service",
                    !.copy = Resolved("service", readConfigFile("service")),
                    !.to = saveConfigPath("service")]]
  /\ UNCHANGED <<begun, file, up, sshServer, keys, shown, history>>

\* sshMu is free.
MutexFree(c) == \A d \in Conns : proc[d].pc \in {"idle", "loaded"}

\* embeddedSSH: the server there is, else one with the host key of the copy,
\* else a new key.
embeddedSSH(c) ==
  /\ proc[c].pc = "loaded" /\ MutexFree(c)
  /\ \/ /\ sshServer # 0 \/ proc[c].copy.host # 0
        /\ sshServer' = IF sshServer # 0 THEN sshServer ELSE proc[c].copy.host
        /\ shown' = sshServer'
        /\ proc' = [proc EXCEPT ![c] = Idle]
        /\ UNCHANGED keys
     \/ /\ sshServer = 0 /\ proc[c].copy.host = 0
        /\ keys.host < MaxKeys
        /\ keys' = [keys EXCEPT !.host = @ + 1]
        /\ proc' = [proc EXCEPT ![c].pc = "gen", ![c].copy.host = keys.host + 1]
        /\ UNCHANGED <<sshServer, shown>>
  /\ UNCHANGED <<begun, file, up, history>>

\* What persistHostKey puts the key into: the file as it is now.
Stored(a) == readConfigFile(a)

\* persistHostKey up to its save; a file it cannot read stays without the key.
persistHostKey(c) ==
  /\ proc[c].pc = "gen"
  /\ \/ /\ file[configPath("service")] # Torn
        /\ proc' = [proc EXCEPT ![c].pc = "save", ![c].stale = FALSE,
                                ![c].copy = [Stored("service") EXCEPT !.host = proc[c].copy.host]]
        /\ UNCHANGED <<sshServer, shown, clash>>
     \/ /\ file[configPath("service")] = Torn
        /\ proc' = [proc EXCEPT ![c] = Idle]
        /\ clash' = TRUE
        /\ Serve(c)
  /\ UNCHANGED <<begun, file, up, keys, formed, asked, enrolled, edited>>

\* Somebody edits a file in an editor, while nothing else has it in hand.
EditByHand(f) ==
  /\ file[f] \notin {Absent, Torn}
  /\ \A p \in Procs : proc[p].pc # "idle" => proc[p].to # f
  /\ file' = [file EXCEPT ![f].custom = TRUE]
  /\ edited' = edited \cup {f}
  /\ UNCHANGED <<begun, proc, up, sshServer, keys, shown, clash, formed, asked, enrolled>>

Next ==
  \/ runAgent \/ AgentStops
  \/ \E p \in Commands : \/ Answer(p) \/ Abandon(p)
                         \/ \E k \in {"login", "logout", "set", "form", "enroll"},
                               a \in {"person", "root"} : Load(p, k, a)
  \/ \E c \in Conns : serveEmbeddedSSH(c) \/ embeddedSSH(c) \/ persistHostKey(c)
  \/ \E p \in Procs : Truncate(p) \/ Write(p) \/ WriteFails(p)
  \/ \E f \in Files : EditByHand(f)

Spec == Init /\ [][Next]_vars
-----------------------------------------------------------------------------
Readable(f) == file[f] \notin {Absent, Torn}

\* Whatever overlaps, is killed or fills the disk: a file that can be read never
\* pairs an assertion with a key it was not made out for, which no relay accepts.
KeyMatchesAssertion ==
  \A f \in Files : Readable(f) => file[f].assertion \in {0, file[f].key}

\* The ssh host key does not change under a client, not even for the first two
\* connections at once or over restarts, as long as the processes that write
\* the file do so one after the other and nobody saves the form.
HostKeyIsStable ==
  [][shown # 0 /\ shown' # shown => clash \/ formed]_vars

\* One after the other, no command loses what another one stored: the machine's
\* identity and the services edited by hand outlive every login, logout,
\* enrolment, setting and ssh connection; only the form is exempt.
NothingIsForgotten ==
  ~clash /\ ~formed =>
    \A f \in Files : Readable(f) => /\ f \in enrolled => file[f].assertion # 0
                                    /\ f \in edited => file[f].custom

\* What the environment says is stored only by a login, a logout, an enrolment or
\* the form, which save the configuration they resolved, never by an inbound ssh
\* connection or `config set`. (That the form is one of them is against its own
\* comment: FormLeavesEnvDynamic.)
EnvStaysDynamic ==
  \A f \in Files : Readable(f) /\ file[f].server = "env" => asked \/ formed

\* Nor by the form: "It edits the file only: folding in an env or flag value
\* would silently freeze something the operator meant to stay dynamic"
\* (client/configform.go:16-18). Does not hold: its fields are filled from the
\* resolved configuration, and all of them are saved.
FormLeavesEnvDynamic ==
  \A f \in Files : Readable(f) /\ file[f].server = "env" => asked

\* The form edits the server, the id and the CA; what is "edited in the file, not
\* in the form" (client/config.go:60-61, of Services) and the machine's identity
\* it leaves alone. Does not hold: it saves its three fields over everything.
FormKeepsTheRest ==
  ~clash => \A f \in Files : Readable(f) => /\ f \in enrolled => file[f].assertion # 0
                                            /\ f \in edited => file[f].custom

\* A kill or a full disk while the file is written leaves one that can be read.
\* Does not hold: it is truncated in place.
AlwaysReadable ==
  \A f \in Files : file[f] = Torn => \E p \in Procs : proc[p].pc \in {"write", "over"} /\ proc[p].to = f

\* The service presents what an enrolment stored. Does not hold where SharesHome:
\* the elevated command writes the per-user file its caller's login made.
EnrolledWhereRead ==
  enrolled # {} /\ ~clash /\ ~formed /\ file["machine"] # Torn =>
    readConfigFile("service").assertion # 0
=============================================================================
