------------------------------- MODULE Agent --------------------------------
(***************************************************************************)
(* The agent's supervisor: the loop that keeps one session with the relay, *)
(* its backoff, what `beacon status` is told meanwhile, and the identity   *)
(* each attempt presents (client/run.go, client/session.go,                *)
(* client/control.go, client/identity.go, client/enrollcmd.go).            *)
(*                                                                         *)
(* A step is what the loop does between two waits. `beacon enroll` is      *)
(* another process and may run at any point; so may a signal. Time enters  *)
(* only as how long a round of the loop took. Round trips, byte counts and *)
(* the text of errors are left out.                                        *)
(***************************************************************************)
EXTENDS Integers

CONSTANTS
  MinBackoff, MaxBackoff,  \* minBackoff and maxBackoff, in seconds
  Healthy,                 \* healthySession
  Durations,               \* how long a round may last: attempt and session
  MaxAssertions            \* bound of the enrolments

ASSUME AgentAssumptions ==
  /\ MinBackoff \in Nat \ {0} /\ MaxBackoff \in Nat /\ Healthy \in Nat
  /\ MinBackoff <= MaxBackoff
  /\ Durations \subseteq Nat
  /\ MaxAssertions \in Nat

VARIABLES
  phase,     \* where superviseSessions is
  backoff,   \* its local variable
  elapsed,   \* time.Since(start) of the round that ended last
  stopped,   \* ctx is cancelled
  status,    \* agentState: what the control socket reports
  disk,      \* the assertion in the config file; 0 is none
  cfg,       \* the assertion in the *resolved the process was started with
  used,      \* the assertion the current round identifies itself with
  streak     \* sleeps since Start or the last round that lasted Healthy, as far as
             \* the delay depends on it

agentVars == <<phase, backoff, elapsed, stopped, status, disk, cfg, used, streak>>

Assertions == 0 .. MaxAssertions
agentState == [connected : BOOLEAN, connecting : BOOLEAN, nextRetry : BOOLEAN, sess : BOOLEAN]

AgentTypeOK ==
  /\ phase \in {"off", "loop", "attempt", "session", "ended", "sleep"}
  /\ backoff \in MinBackoff .. MaxBackoff
  /\ elapsed \in Durations \cup {0}
  /\ stopped \in BOOLEAN
  /\ status \in agentState
  /\ {disk, cfg, used} \subseteq Assertions
  /\ streak \in Nat

newAgentState == [connected |-> FALSE, connecting |-> FALSE, nextRetry |-> FALSE, sess |-> FALSE]

AgentInit ==
  /\ phase = "off"
  /\ backoff = MinBackoff
  /\ elapsed = 0
  /\ stopped = TRUE
  /\ status = newAgentState
  /\ disk \in {0, 1} \cap Assertions
  /\ cfg = 0 /\ used = 0
  /\ streak = 0
-----------------------------------------------------------------------------
\* Mutants: a backoff no session resets, a connecting that leaves the retry time,
\* a panic nothing recovers from, a session nobody closes on shutdown.
NeverReset == backoff
KeepsRetry == [status EXCEPT !.connecting = TRUE]
Unrecovered == "off"
IgnoresStop(d) == FALSE

\* runAgent up to the loop: the configuration is read once.
runAgent ==
  /\ phase = "off"
  /\ phase' = "loop"
  /\ stopped' = FALSE
  /\ cfg' = disk
  /\ backoff' = MinBackoff /\ streak' = 0
  /\ status' = newAgentState
  /\ UNCHANGED <<elapsed, disk, used>>

Connecting == [status EXCEPT !.connecting = TRUE, !.nextRetry = FALSE]

\* The head of the loop: a new round, identified by the assertion in memory.
BeginAttempt ==
  /\ phase = "loop" /\ ~stopped
  /\ phase' = "attempt"
  /\ status' = Connecting
  /\ used' = cfg
  /\ UNCHANGED <<backoff, elapsed, stopped, disk, cfg, streak>>

\* ... or its end: ctx.Err() at the head, after the round, or in the select.
Return ==
  /\ phase \in {"loop", "ended", "sleep"} /\ stopped
  /\ phase' = "off"
  /\ UNCHANGED <<backoff, elapsed, stopped, status, disk, cfg, used, streak>>

\* Where supervise.Do leaves the loop when its function panics: with an error.
Recovered == "ended"

\* identityHeaders, dialUpgrade or yamux.Client fails.
AttemptFails(d) ==
  /\ phase = "attempt"
  /\ phase' = "ended"
  /\ elapsed' = d
  /\ UNCHANGED <<backoff, stopped, status, disk, cfg, used, streak>>

\* agentState.connected. An unenrolled agent never gets here. A stop does not
\* prevent it: neither the challenge nor the upgrade watches ctx.
connected ==
  /\ phase = "attempt"
  /\ used # 0
  /\ phase' = "session"
  /\ status' = [connected |-> TRUE, connecting |-> FALSE, nextRetry |-> FALSE, sess |-> TRUE]
  /\ UNCHANGED <<backoff, elapsed, stopped, disk, cfg, used, streak>>

\* The tunnel dies and AcceptStream returns its error.
SessionEnds(d) ==
  /\ phase = "session"
  /\ phase' = "ended"
  /\ elapsed' = d
  /\ UNCHANGED <<backoff, stopped, status, disk, cfg, used, streak>>

\* Something inside the session panics; supervise.Do makes it an error.
SessionPanics(d) ==
  /\ phase = "session"
  /\ phase' = Recovered
  /\ elapsed' = d
  /\ UNCHANGED <<backoff, stopped, status, disk, cfg, used, streak>>

\* The session-shutdown goroutine closes the session once ctx is done.
SessionShutdown(d) == stopped /\ SessionEnds(d)

\* time.Since(start) >= healthySession: the round, not only its session.
ResetBackoff == IF elapsed >= Healthy THEN MinBackoff ELSE backoff

\* After a round: agentState.disconnected with the time of the next one.
disconnected ==
  /\ phase = "ended" /\ ~stopped
  /\ phase' = "sleep"
  /\ backoff' = ResetBackoff
  /\ streak' = IF elapsed >= Healthy THEN 0 ELSE streak
  /\ status' = [connected |-> FALSE, connecting |-> FALSE, nextRetry |-> TRUE, sess |-> FALSE]
  /\ UNCHANGED <<elapsed, stopped, disk, cfg, used>>

\* if backoff < maxBackoff { backoff = min(backoff*2, maxBackoff) }
Doubled == IF 2 * backoff < MaxBackoff THEN 2 * backoff ELSE MaxBackoff

\* time.After fires.
Wake ==
  /\ phase = "sleep"
  /\ phase' = "loop"
  /\ backoff' = Doubled
  /\ streak' = IF MinBackoff * 2^streak < MaxBackoff THEN streak + 1 ELSE streak
  /\ UNCHANGED <<elapsed, stopped, status, disk, cfg, used>>
-----------------------------------------------------------------------------
\* External: SIGTERM, or the service manager's stop.
Stop ==
  /\ phase # "off" /\ ~stopped
  /\ stopped' = TRUE
  /\ UNCHANGED <<phase, backoff, elapsed, status, disk, cfg, used, streak>>

\* cmdEnroll, in its own process: a new assertion reaches the config file.
cmdEnroll ==
  /\ disk < MaxAssertions
  /\ disk' = disk + 1
  /\ UNCHANGED <<phase, backoff, elapsed, stopped, status, cfg, used, streak>>

Round == BeginAttempt \/ Return \/ connected \/ disconnected \/ Wake
           \/ \E d \in Durations : AttemptFails(d)

AgentNext ==
  \/ runAgent \/ Round \/ Stop \/ cmdEnroll
  \/ \E d \in Durations : SessionEnds(d) \/ SessionPanics(d)

AgentSpec == AgentInit /\ [][AgentNext]_agentVars

\* The loop runs; an attempt ends, because the challenge, the dial and the
\* upgrade each have a timeout; a sleep ends; a cancelled session is closed.
\* Nobody promises that an attempt succeeds or that a session ends by itself.
AgentFairness == WF_agentVars(Round) /\ WF_agentVars(\E d \in Durations : SessionShutdown(d))

AgentFairSpec == AgentSpec /\ AgentFairness
-----------------------------------------------------------------------------
\* The delay before a round is that of textbook exponential backoff: doubled
\* once per round that did not last, up to the ceiling, and from scratch after
\* one that did.
BackoffIsExponential ==
  phase = "sleep" =>
    LET wanted == MinBackoff * 2^streak
    IN  backoff = IF wanted < MaxBackoff THEN wanted ELSE MaxBackoff

\* `beacon status` is not misled: it reports a tunnel exactly from the moment
\* there is one until the loop has noticed its end, and a retry time only while
\* one lies ahead, never beside an attempt in flight.
StatusIsTrue ==
  /\ phase = "session" => status.connected
  /\ status.connected => phase \in {"session", "ended", "off"} /\ status.sess
  /\ phase = "attempt" => status.connecting /\ ~status.nextRetry
  /\ phase = "sleep" => status.nextRetry
  /\ status.nextRetry => phase \in {"sleep", "loop", "off"}

\* superviseSessions keeps a session alive forever: whatever ends a round, be it
\* a panic, there is always another attempt, until somebody stops the agent.
NeverGivesUp == []<>(phase \in {"attempt", "session"} \/ stopped)

\* Somebody who stops the agent sees it stop, in whichever phase it was.
StopEndsIt == stopped ~> (phase = "off" \/ ~stopped)

\* The agent picks a new assertion up on its next reconnect (client/enrollcmd.go).
\* Does not hold: a round uses the configuration read at the start.
EnrolmentIsPickedUp ==
  [][phase = "loop" /\ phase' = "attempt" => used' = disk]_agentVars
=============================================================================
