# go-beacon in TLA+

A verification project for go-beacon: an agent on a machine nobody can reach
dials out to a relay, holds one multiplexed tunnel open, and operators work
through it. The modules model the parts whose correctness depends on what
happens *between* two steps: takeovers of a tunnel, enrolment beside an
unreliable Vault, an operator account kept in three places, a supervisor that
must never give up, a self-update that must never strand a machine, warnings on
their way to a dashboard, a configuration file everybody rewrites, a service that
is installed and removed, and streams with a program behind them.

Run from this directory: `tlc -config <cfg> <MC module>`, `tlapm <M>Proofs.tla`.

## The system

| Component | State | Operations | Hard behaviour |
|---|---|---|---|
| Agent registry (`server/registry.go`, `agent.go`, `stream.go`) | one record per agent id: session, online, reconnects, RTT | Connect, Disconnect, Session, Snapshot, Counts; `serveSession`, `pingLoop`, close-stale; kick, open stream | takeovers, late closes, sessions used after the lock is released |
| Challenge store (`server/enroll.go`) | nonces and when they were issued | issue, redeem, expireLocked | flood, replay, the boundary of the lifetime |
| Enrolment (`server/enroll.go`, `agentkeys.go`) | which key owns which id, in Vault | handleEnroll, claim | read-modify-write through Vault, half-done requests |
| Vault client (`server/vault.go`) | public keys in memory and in a cache file, a token | start, Sign, Verify, refreshKeys, kvGet, kvPut | sealed or restarted at any point, key rotation |
| Operator account (`server/operator.go`, `auth.go`) | record in memory, in Vault, in a cache file; session key | load, save, verify, bootstrap, change, login | three writes without a lock, crash between them |
| Agent supervisor (`client/run.go`, `session.go`, `control.go`) | backoff, phase, published status, configuration | superviseSessions, runSession, connecting/connected/disconnected, `beacon enroll` | must retry forever and stop at once |
| Self-update (`client/update.go`, `updateapply.go`) | binary, `.old`, `.new`, `.failed`, the service | auto-update, `beacon update`, helper, rollback | a process that replaces itself, power cuts, bad releases |
| Event bus (`server/events.go`, `http.go`) | backlog, subscribers and their channels | Publish, Subscribe, unsubscribe, handleEvents | a page that subscribes amid events, slow pages |
| Log shipping (`client/logship.go`, `session.go`; `server/agent.go`) | a queue and the stream it drains to | Handle, run, attach, detach; consumeAgentLog | queue full, stream swapped by a reconnect |
| Configuration (`client/config.go`, `paths.go`, the commands) | two JSON files | loadConfig, saveConfig by login, logout, enroll, config set, the form and the ssh server | read-modify-write without a lock, files truncated in place |
| Service management (`client/service*.go`, `usermode_windows.go`) | binary, definition, process | install, uninstall, start, stop, restart, status | four managers, asynchronous stops, commands typed into the agent they stop |
| Streams (`server/shell.go`, `forward.go`; `client/pty*.go`, `forward.go`, `forwardcmd.go`, `sshcmd.go`, `sshserver.go`) | per stream: two copies on each side, a program | open, refuse, copy, close | who closes what, and what that cuts off |
| Remote commands (`server/stream.go`, `client/rpc.go`) | per call: two time-outs | agentRPC, opExec | a clock on either side, processes that outlive the shell |
| Clipboard, proxy trust, MCP, HTTP routing, CLI panels | none of their own | | |

The agent calls the relay over HTTP (challenge, enrolment, upgrade); the
upgraded connection becomes a yamux session; the registry is shared state
between the goroutines of all sessions and all operator requests; Vault is
called by enrolment and by the account store and by nothing on the way of a
tunnel; the updater talks to the agent only over its control socket; every
stream a user opens is one yamux stream between a handler of the relay and one of
the agent; the feed is where the relay's goroutines and the agents' logs meet.

`PROJECT.json` lists every component with its status, and under `hazards` every
place where this goes wrong in ways a test hardly reaches.

## Modules

| Module | Models | Composition |
|---|---|---|
| `Presence` | what the relay promises about who is online: one session per id, taken over or lost | abstract |
| `Registry` | the registry and its goroutines | implements `Presence` (instance `P`) |
| `Challenges`, `ChallengesProofs` | the nonce store | |
| `Enrolment`, `EnrolmentProofs` | requests, the claim mutex, Vault, the key cache | |
| `OperatorAccount`, `OperatorAccountProofs` | the account's three copies and the requests on it | |
| `Agent` | the supervisor and `beacon status` | |
| `Tunnel` | agent, network and relay | extends `Registry` and `Agent` |
| `TunnelProofs` | theorems about the two ends, alone and together | extends `Tunnel` |
| `SelfUpdate`, `SelfUpdateProofs` | updaters, files, service manager | |
| `Feed` | log sink, log streams, event bus, `/api/events` | |
| `ConfigFile`, `ConfigFileProofs` | the agent's two configuration files and who rewrites them | |
| `Service`, `ServiceProofs` | install, uninstall, start, stop, restart on four service managers | |
| `Streams` | one terminal, forward or ssh session, client to program | |
| `Exec` | one remote command | |
| `AgentStreams` | `handleStream`, which hands a stream to one of the two | extends `Streams` and `Exec` |
| `StreamsProofs` | theorems about the streams of a tunnel, the log's included | extends `AgentStreams` and `Feed` |
| `MC*` | the instances TLC checks | |

Definitions carry the names of the functions they translate; `map` in
`PROJECT.json` gives the lines. Operators named for a bug, each introduced by a
comment "Mutant(s)", are not part of any specification: they are the
alternatives against which the properties are tested.

**Registry.** `pc[s]` is the position of `serveSession` of session `s`:
`upgraded` (spawned) - Connect -> `connected` - publish, spawn pingLoop ->
`accept` - AcceptStream fails -> `closed` - Disconnect -> `lost` (publish) or
`done`. `closing` holds the sessions a close-stale goroutine has still to close.
`op[o]` is an operator's request between `Registry.Session` and the use of what
it returned. The RTT is abstracted to the session it was measured on. A yamux
session is external and is alive or not.

**Challenges.** The map is split into its keys and its time stamps. `redeemed`
and `age` are history. Verification order is the code's: a nonce is consumed
before the signature over it is looked at.

**Enrolment.** A request is the sequence of its Vault calls; each may fail, the
write may succeed with its answer lost, and Vault may rotate its key between
claim and signature. The save of the key cache may be skipped (no state
directory), fail, or be cut after the truncation; `lost` records the versions
that this kept off the disk. `Says404` switches on an environment in which the text
of an outage contains 404, which `kvGet` takes for an absent record. Vault is
external.

**OperatorAccount.** Each save makes a new password and session key, so a
record is the number of the save that made it, and "newer" is `>`. A cookie is
the record whose key signed it. Requests overlap as they like. The cache is
truncated and then filled, by `save` and by `load`; a failure is only logged, and a
kill may fall between the two. `overlaps` (pairs of saves, the second begun while
the first was under way), `lost` (the cache's last write did not complete) and
`replaced` (pairs of records, the second put in the first's place) are history. The admin token, logout and cookie expiry are
left out: they change no copy.

**Agent.** A round of the loop is `loop`, `attempt`, `session` (maybe), `ended`,
`sleep`. Time is only the length of a round, because that is all the code
compares. `disk` is the configuration file, `cfg` what the process read of it.

**Tunnel.** `wire[s]` is the path under request or session `s`, which may be cut
without either end knowing; `mine` is the end the agent holds. The relay's
`alive[s]` and the agent's `mine = s` are independent pictures of one tunnel. The
steps of either end are those of `Registry` and `Agent`, joined where a handshake or
a message makes them one; `Agent1` is the id the machine registers under.

**SelfUpdate.** Files hold builds; a build is `good`, `mute` (runs, never
answers) or `dead` (does not run). `world` is what may go wrong in a behaviour:
dead builds, a service manager that fails, one that kills the helper with the
service, reboots, and renames that fail where a build is put back or a bad one
put aside. The empty world is the one the rollback was written for. `beacon update`
may be typed at any time, to any copy of the program, the automatic update being
under way or not and the binary in its place or not (`fresh` is the place in
`replaceBinary` after finding none); it always means the installed binary. `rash`
is history: an update began beside another one or over a missing binary, which
nothing in the code prevents.
Removing `.old` and moving the binary there are one step, and so is writing `.new`.

**Feed.** A line is its number, an event the session it was read from and that
number, or, for one of the relay's own, its place in the feed. `lines`, `w` and `runner` are the sink's channel, its current stream and
its goroutine between taking a line, reading `w` under the lock and writing
without it. `wire[s]` is what the relay has still to read of session `s`; a
session that was taken over goes on being read. `ch[b]`, `hand[b]` and `seen[b]` are
a page's channel, what its handler is about to write and what the browser was
sent. `published`, `since`, `dropped`, `born` and `failed` are history.

**ConfigFile.** A configuration keeps what somebody would miss: the machine's
key, the key its assertion is for, the host key, the session, the hand-edited
part and where the server's address came from (it keeps "env" when a command has
frozen it into the file). A command is `loaded`, `save`, `write`; between any two
another process may run, and it may be killed. A save is a truncation and a write;
two at once leave a file that does not parse or one of the two. A connection to
the embedded ssh server is `loaded`, `gen` (under `sshMu`), then saves like a
command. Login, logout, enroll and the form save the configuration as resolved,
environment included (`asked`, `formed`); `config set` and the ssh server do not.
Two simplifications: the agent reads the machine's file only (a per-user install
or `--run-as` makes it read the per-user one, `paths.go:46-53`), and permission to
read and to write are one (`MayUse`), which leaves out a machine file that others
may read and not write (`config.go:301-302`). `clash` records that two of these overlapped, that a write failed, or
that a copy read from one file was written to another. `stale` marks a process whose
copy another write has overtaken; `persistHostKey` clears it, because it reads the
file again.

**Service.** `unit`, `loaded`, `enabled`, `marked` and `agent` are the manager's
side, `bin` the file at the install path, `cmd` the command under way and `said` its
panel. One operator works at a time. Every call of the manager may fail, which
uses up a fault like a crash, an interruption or a reboot. An uninstall is three
steps (stop and disable, unregister, remove the binary); the error of the first is
discarded, which `unstopped` records. `cut` records a copy that failed or was
interrupted half way. `inside` is a command typed into a shell of the agent
itself, which dies in the step that stops it and does not take the next. The managers are external:
`systemctl start` leaves a process that runs alone, `kickstart -k` replaces it,
`bootout` forgets the job, the Windows manager acknowledges at once and deletes an
entry only when its process has ended. Waiting in `settled` is one look, so
`UNCONFIRMED` is reported more often than in the code.

**Streams.** Six hops of counted chunks, four copying goroutines (`pump`), the
WebSocket, the yamux stream as closed by either side or reset, and the program
with the handle the agent holds on it. `Opens` and `Refuses` are `startPTY`,
`net.Dial` and the refusals before a stream carries anything; `AgentUpEnds` and
`AgentDownEnds` are what each of the four handlers does when one direction ends,
deferred calls included. `late` is history: input was under way when the program
ended. `holder` is a process the program left behind with its terminal or its
pipes: output ends, and `cmd.Run` returns, only when it is gone too. Such processes
are otherwise not followed: what a killed shell started may live on. An ssh stream
of an agent that cannot read its configuration or bring its server up is closed
with nothing sent (`handleSSHFails`). An ssh connection's own framing and windows
are external.

**Exec.** Time is in minutes since the relay set its deadline, and no timer or
ready goroutine on either side is left waiting while it passes. It also passes while the
request or the answer is under way, which `transit` adds up; `began` is when the
agent set its own bound. `child` is a process that holds the shell's pipes, which
`exec.Cmd` waits for and the kill does not reach.

## Runs

Passing:

| Run | Shows | Bounds |
|---|---|---|
| `registry` | an online agent is watched, no tunnel leaks, feed and table agree, an agent goes offline only by its own session's death, `Presence` is implemented; superseded sessions are released, deaths are noticed | 2 agents, 2 sessions that belong to one of them or to both, 1 operator: a takeover beside a request that holds the old session. Takeovers that pile up (3 sessions of one id) are in `tunnel`, and the safety properties are proved for any number |
| `challenges` | single use, freshness, no eviction (the ceiling is a theorem) | 4 nonces, lifetime 2, ceiling 2, clock up to 6: expiry, refusal and reuse of the room all happen |
| `enrolment` | first key owns the id, no claim is undone, key versions survive restarts but for those a failed or cut save kept off the disk | 2 requests, 2 ids, 2 keys: a lost update needs two of each; 2 key versions: one the relay had before a rotation and one after. Symmetric sets |
| `account` | changes survive, setup stays closed, revoked stays revoked, each but for the overlap or the lost cache write that decides it | 2 overlapping requests, 4 saves (setup, two changes that race, one after them), a kill at any step, cache writes that fail or are cut |
| `agent` | backoff equals its closed form, status is true, it never gives up and a stop ends it | the constants of `run.go`; rounds of 0, 29, 30 and 35 s |
| `tunnel` | the agent is never stranded in an open tunnel nobody can reach it through, and both ends come to agree on one live session | 3 upgrade requests: two tunnels that race and one to mend with |
| `update` | the machine always has a build; without adversities bad releases are rolled back and an agent answers again | 2 releases of any kind, the empty world and the one with all five adversities; automatic and typed updates beside each other, exempt from `rash` on |
| `feed` | no gap and no repetition on an open page, a failed session silences nobody, a warning arrives | queue, window and channel of 1 and a backlog of 2, so that each is full and overflows; 2 warnings, 2 events of the relay, 2 tunnels, 1 page (pages share nothing but the lock) |
| `config` | no mismatched identity, nothing forgotten, environment stored only by a command that saves what it resolved, host key stable | 2 commands at once and 3 in all, of any kind and by either account, 2 ssh connections, 2 keys of each sort: two overlapping rewrites and one more to notice. Symmetric sets |
| `service` | a definition has its binary, removed is gone, installed survives a boot | every manager, 2 builds, 4 faults (failing calls of the manager, crashes, interruptions, reboots): two that spoil a command, one in the next and the boot that shows it; commands without bound |
| `streams` | the end comes last, handlers leave nothing, hangups reap, exits are noticed; the agent's bound comes first | hops of one chunk, so that every copy can block, 2 chunks each way; time-outs 1, 2 and 4, so that the margin between the last two is more than one tick, with requests below, at and beyond the cap |

Each module has a type invariant, which its theorems prove; the runs spend their
properties on behaviour.

One run ends in a violation: `form_env`. The form of `beacon config` is filled from
the resolved configuration and saves every field, so the server address that the
environment gave is in the file once anything else was edited, which the comment on
the form says must not happen (quoted in `findings`). `EnvStaysDynamic` of the run
`config` therefore exempts the form.

The model shows more disagreements between the code and what it or its
documentation says, which have no run of their own. They can be reproduced from
the cfg of a run by making the change below and checking only the statement named:
a state predicate as an `INVARIANT`, any other as a `PROPERTY` and without `SYMMETRY`
(in the modules the statements that do not hold are marked so). Where a property of
the passing run exempts the case by a history variable, the row names it:

| From | Change | TLC then shows |
|---|---|---|
| `MCRegistry.cfg` | check `RTTIsOfThisSession` | a ping answered just before a takeover stores the old tunnel's figure on the new session (`server/agent.go:208`; `registry.go:53`: "-1 when not measured yet") |
| `MCRegistry.cfg` | check `RTTIsKeptLive` | one ping that timed out ends the measuring while the tunnel lives on (`server/agent.go:206`; `:200`: "keeps a live RTT figure per agent") |
| `MCEnrolment.cfg` | check `IssuedIsVerifiable` | after a rotation the relay issues assertions it cannot verify until it is restarted (`server/vault.go:71`; `:29`: "Every key version is cached, not only the newest") |
| `MCEnrolment.cfg` | `Says404 = TRUE`, check `ClaimsAreKept` | any error whose text contains 404, the address of an unreachable Vault included, reads as an empty record, and the next claim overwrites every binding (`server/vault.go:356`; `:354-355`: "A path that has never been written is a 404, which is an answer rather than a failure") |
| `MCEnrolment.cfg` | check `FleetNeedsNoVault` (exempt: `lost`) | after a save of the key cache that failed or was killed half way, a relay that starts beside a sealed Vault cannot verify the fleet it had served (`server/vault.go:243`, `:83-87`; `:23-27`: "its access must not depend on Vault being awake") |
| `MCOperatorAccount.cfg` | check `BootstrapOnce` | two setups sent together both succeed (`server/auth.go:229`; `README.md:264`: "a second attempt is refused") |
| `MCOperatorAccount.cfg` | check `SealedVaultLetsIn` (exempt: `lost`) | after a cache write that failed or was killed, a relay that starts beside a sealed Vault knows no account and offers setup (`server/operator.go:232`, `:157-159`; `:68-69`: "still lets its operator in") |
| `MCAgent.cfg` | check `EnrolmentIsPickedUp` | a running agent keeps presenting the assertion it was started with (`client/run.go:168`; `client/enrollcmd.go:46-47`: "the agent picks the new assertion up on its next reconnect anyway") |
| `MCTunnel.cfg` | check `LastConnectionWins` | an upgrade the agent gave up can register last and take the record from the tunnel in use (`server/registry.go:88-98`); it then heals |
| `MCSelfUpdate.cfg` | `Worlds = {{"group"}}`, check `AlwaysComesBack` | the helper dies with the service it stops (`client/updateapply.go:137`: "The helper outlives that"; the unit sets no `KillMode`) |
| `MCSelfUpdate.cfg` | `Worlds = {{"fails"}}`, check `AlwaysComesBack` | after a failed start and a successful rollback nobody starts the service (`client/updateapply.go:84-89`) |
| `MCSelfUpdate.cfg` | `Worlds = {{"dead"}}`, check `GoodBuildStays` | a build that cannot run cannot run its helper, and the next round, or a typed `beacon update`, removes the `.old` that could (`client/updateapply.go:140`) |
| `MCSelfUpdate.cfg` | `Worlds = {{}}`, check `PostponedOnlyForWork` | the log stream every session keeps open counts as a stream in use, so a connected agent always postpones its update (`client/update.go:236`; `updateapply.go:171`: "an update is skipped while anyone is working through the agent") |
| `MCSelfUpdate.cfg` | check `CheckChangesNothing` | `beacon update --check` deletes the rollback copy (`client/update.go:42`; `:28`: "change nothing") |
| `MCSelfUpdate.cfg` | check `MachineHasBuild` (exempt: `rash`) | `beacon update` beside an automatic update deletes the `.old` that is, between two renames, the only build (`client/update.go:42`, `:205`; `:189`: "The previous build is kept as .old on every platform") |
| `MCFeed.cfg` | check `NewestIsKept` | a full queue refuses the new warning (`client/logship.go:59-62`; `:14-15`: "dropping old warnings is better") |
| `MCFeed.cfg` | check `HeardWhileConnected` | one write that timed out silences the agent until its next session, though the tunnel lives (`client/logship.go:103-108`) |
| `MCConfigFile.cfg` | check `AlwaysReadable` | a kill or a full disk during a save leaves a file that does not parse, and every later command refuses it (`client/config.go:298`) |
| `MCConfigFile.cfg` | check `FormKeepsTheRest` (exempt: `formed`) | saving the form writes server, id and CA and nothing else: an enrolled machine loses its key and its assertion, and the services edited by hand are gone (`client/configform.go:152`; `config.go:60`: "Edited in the file, not in the form") |
| `MCConfigFile.cfg` | `SharesHome = TRUE`, check `EnrolledWhereRead` | where sudo keeps HOME, `beacon enroll` writes the per-user file an earlier login made, which the service does not read (`client/paths.go:28-32`, `enrollcmd.go:38`) |
| `MCService.cfg` | check `RemovedIsStopped` | uninstalling a per-user install deletes the task and leaves its process, and on the other managers so does a stop that failed (`client/usermode_windows.go:58-67`; `service.go:194`: "removed the per-user install") |
| `MCService.cfg` | `SPECIFICATION FairSpec`, `MaxFaults = 0`, check `RestartNeverStrands` | `bootout` forgets the job that `kickstart` is then asked to start (`client/service_unix.go:105`; `main.go:101`: "stop then start the installed service"); a Windows service still stopping refuses its start |
| `MCService.cfg` | check `InstalledRuns` | a reinstall over a running service reports success and leaves the old build running (`client/service_unix.go:100`) |
| `MCService.cfg` | check `ReinstallSucceeds` | the Windows entry lasts until its process has ended, so creating it again fails (`client/service_windows.go:139`: "replace a previous definition rather than failing on reinstall") |
| `MCStreams.cfg` | check `EveryExitIsNoticed` (exempt: `holder` and input kept open) | the exit of a shell goes unnoticed while a process it left behind holds its terminal or pipes, and that of a command also while the client keeps its input open (`client/sshserver.go:195`, `:284`; `:152-153`: "reports what it exited with") |
| `MCStreams.cfg` | check `EveryHangupReaps` | an idle terminal of the ssh server outlives a client that vanished: the output copy waits for a program nobody stops (`client/sshserver.go:195`; `:197-198`: "nothing else would ever reap it") |
| `MCStreams.cfg` | check `CommandIsBounded` (exempt: `overrun`) | the kill reaches the shell and not its children, whose pipes `cmd.Run` waits for beyond both bounds (`client/rpc.go:92`; `server/stream.go:18-19`: "the agent already bounds how long a command may run") |

More observations, without a statement of their own:

- `healthySession` is compared with the length of the round, so an attempt that
  fails slowly (the time-outs of challenge, dial and upgrade add up to 35 s)
  resets the backoff like a healthy session.
- `beacon login` saves the resolved configuration, so a `BEACON_TOKEN` in the
  environment is copied to the file (`client/logincmd.go:57`, against `:16-20`).
- A half-close of a forwarded connection never reaches the far side, and the
  bridge lingers while the service is silent (`client/forwardcmd.go:158-166`).
- Input under way when a shell exits can cut off its last output
  (`client/pty.go:54`): the exemption `late` of `EndComesLast`.

Deadlock is checked where the system cannot stop (`challenges`, `enrolment`,
`account`, `agent`). The other runs end when their sessions, warnings, commands
or chunks are used up, and an updater may have nothing left to do.

### Fairness

- `Registry`: every runnable goroutine runs, and a stream on a dead session
  fails. Nothing makes agents dial, tunnels break or pings answer.
- `Agent`: the loop runs, because every wait in it has a time-out or a timer; a
  cancelled session is closed by its watcher. No fairness for success.
- `Tunnel`: the above, plus yamux's keepalive on both ends. A request on an
  intact path is answered or times out; each failure uses a request up, so the
  property speaks of the runs in which faults end while a request is left.
- `SelfUpdate`: processes that run go on; the service manager restarts what it is
  meant to run (`Restart=always`). No fairness for releases or quiet moments.
- `Feed`: the sink's goroutine, the relay's readers and a handler whose browser
  left run; a write on a dead tunnel fails. No fairness for a browser that reads
  or a tunnel that lives: `WarningArrives` holds with pages that never read.
- `Service` (only for `RestartNeverStrands`): a command that was begun goes on, a manager
  does what it was asked and respawns what crashed. None for operators.
- `Streams`: every goroutine runs, the client takes what it is sent, the program,
  or what it left behind, takes its input, and yamux's close timer fires. Nothing
  makes a client type or leave, a program write or exit, or a process it left behind
  end. A program that stops reading can hold up a
  hangup: the copy into a full terminal is not interrupted.

## Proofs

For every value of the constants, under the `ASSUME`s of the modules:

- `TunnelProofs`, about `Registry`: `TypeCorrect`, `Watched`, `NoLeak`, `Announced`,
  `OwnDeathOnly`, `Refinement`. None of the invariants is inductive alone: that an
  online agent is watched needs to know that a record's session has been
  registered and has not finished, that a session in `lost` has already taken its
  agent offline, that only registered sessions are in records, in `closing` or in
  requests, and that nothing is announced before its time. The strengthening is
  proved action by action; `OwnDeathOnly` and `Refinement` follow from it.
- About `Agent`: `AgentTypeCorrect` (the backoff stays between its two limits),
  `StatusTrue`, which is inductive given the shape of the status, and
  `BackoffExponential`, for any two limits, powers of two of each other or not. The
  provers know nothing of `2^n`, and that 2^(n+1) is twice 2^n would be an induction
  over n. It is had without one: the library's `FS_SUBSET` says that a set of n
  elements has 2^n subsets, and the subsets of `1..n+1` are those of `1..n` and as
  many again that contain n+1 (`PowerDoubles`).
- About `Tunnel`: `TunnelImplementsAgent` and `RestartsAreSafe` carry what was proved
  of the ends over to the whole: every step of the composition is one of the
  supervisor or leaves it alone, and is one of the registry, or a restart of the relay,
  which keeps the registry's invariant though `Registry` has no such step. With
  what is then known of the wire (`EndsInv`: the agent holds an end only of
  a request it has made, while it attempts or is in a session, and in a session one
  that the relay has admitted), `TunnelTypeCorrect` and `NotStranded` follow.
- `ChallengesProofs`: `TypeCorrect`, `UsedOnce`, `UsedFresh`, `NeverOverflows`,
  `NeverEvicted`. The invariant adds that a nonce in the map was drawn, has not
  been redeemed and is stamped with a past time.
- `EnrolmentProofs`: `TypeCorrect`; assuming no outage reads as an absent record
  (`~Says404`, needed: see that row above), `FirstKey` and `KeepsClaims`; and,
  without any assumption, `FleetVerifiable`. The invariant says that whoever is about
  to write holds the mutex and that what it will write differs from the record in
  its own id only; for the fleet, that the cache file holds every version any
  incarnation has verified with but the `lost` ones, and that the keys in memory
  include the file's at each step of a boot. That the exemption is needed
  shows `FleetNeedsNoVault`.
- `OperatorAccountProofs`: `TypeCorrect`, `SetupClosed`, `ChangeSurvives` and
  `RevokedForGood`, for any number of overlapping requests and with caches that fail
  or are cut. The invariant says that a save under way overlaps every save begun after
  it, so that Vault, which each save writes first, holds a record no older than any in
  force, replaced, cached or about to be in force, overlaps apart; and that so does the
  cache as long as its last write was completed. `overlaps` names the two saves, and
  `lost` is cleared by the next write that completes. `BootstrapOnce` and
  `SealedVaultLetsIn` show that what is exempted happens.
- `SelfUpdateProofs`: `TypeCorrect`; up to the first `rash` update (see
  `MachineHasBuild`), `CopyKept` in every world, failing renames and power cuts
  included, and `GoodKept`. The invariant says, for each place in the code, where
  the builds are: that a binary missing from its place is so only between two
  renames, or with nothing running that could begin another update but a rash one;
  and, without adversities, that the build which answers is in place until it is
  moved, in `.old` until its successor answered, and in place again after a rollback.
  `Solo` reduces both parts to the one process that is not idle.
- `ConfigFileProofs`: `TypeCorrect`, `KeyMatches`, `EnvDynamic`, `NothingForgotten`
  and `HostKeyStable`, for any number of commands and connections at once, with and
  without the caller's home (`SharesHome`) and a server in the environment. The
  invariant follows what was stored into every copy that may still be written
  over it (`Current`), says which file each kind of process can write to, that one
  connection at a time builds the ssh server, and that before a client has seen a
  host key there is no other than the one being made.
- `ServiceProofs`: `TypeCorrect`, `DefinedRuns` (but for a copy that failed or was cut
  half way, which does leave a definition without a binary), `RemovedForGood` and
  `SurvivesBoot`, on all four managers, for commands that fail or are interrupted at
  any step. The invariant says which steps a command can be at, that what is being
  registered has been copied and is enabled once it is started (`Ready`), and that
  what is being removed can no longer be started and runs only if its stop failed
  (`Halted`).
- `StreamsProofs`: `TypeCorrect` (no chunk is received that was not written),
  `OutputFirst`, `NothingLeft` and `AgentFirst`. That the end comes last needs an
  account of every chunk of output and the order of the closes: nobody closes
  anything while the program runs and somebody is watching, the agent closes when
  nobody is left to write and nothing is left in the terminal, the relay when nothing
  is left in the stream. The bound of a command needs an account of the time since
  the deadline was set: it went into transit, or into a command that is within its
  bound unless its pipes are held.
- About `Feed`: `NobodySilenced`. The sink's stream is that of the tunnel the agent is
  in while no write on it failed, and a writer still holding an older stream holds a
  line queued before the present tunnel. `NoGap`: what a page was and will be sent is
  compared with what is due to it by rank, so that no filtered sequence has to be
  computed: one more event adds the last place to both or, refused by a full channel,
  to neither (`RankedAppend`, `RankedSkip`); the handler only moves events along
  (`HandOver`); and the backlog a page begins with is the end of all that was
  published (`Keeps`, `RankedSuffix`). A page that has not subscribed has nothing in
  its channel, which is why registering and copying must be one step.
  `FeedTypeCorrect`: queue, backlog and channels keep their limits.

Each inductive invariant was checked by TLC on the instance of its run before it
was proved. The one hypothesis of a theorem that is a constant, `~Says404`, is the
value of the passing run.

Only model-checked is every liveness property (`SupersededIsReleased`,
`DeathIsNoticed`, `NeverGivesUp`, `StopEndsIt`, `TunnelHeals`, `AgentComesBack`,
`WarningArrives`, `HangupReaps`, `ExitIsNoticed`): fairness and `ENABLED` are beyond
the prover.

## Not modelled

- Cryptography (signatures verify or not), yamux's and ssh's frames, HTTP and JSON.
- The clipboard and file operations: one request, one call, one answer, nothing
  kept between two of them.
- MCP: a translation of tool calls into requests that `Registry` and `Exec` model.
- Proxy trust (`transportOf`): a function of one request's headers that ends in a
  label on the dashboard.
- The output cap of `opExec`, window sizes, sftp and direct-tcpip.
- Vault's login and token renewal, `SealStatus`; logout, cookie expiry and the
  admin token of the operator's API: they change none of the account's copies.
- The dashboard, the panels of the command line, platform shims.

## Plan

1. Done: Registry with Presence and proofs; Challenges with proofs; Enrolment
   with proofs; OperatorAccount; Agent; Tunnel; SelfUpdate; Feed; ConfigFile;
   Service; Streams with Exec.
2. Done: every safety property the passing runs check is a theorem, and so is
   the type invariant of every detailed module.
3. Left: the hazards in `PROJECT.json` that no property covers, and the parts under
   "Not modelled".
