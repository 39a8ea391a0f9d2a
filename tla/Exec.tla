-------------------------------- MODULE Exec --------------------------------
(***************************************************************************)
(* One remote command: agentRPC on the relay (server/stream.go) and        *)
(* handleRPC with opExec on the agent (client/rpc.go). Two clocks bound    *)
(* it, the agent's on the command and the relay's on the answer.           *)
(***************************************************************************)
EXTENDS Integers

CONSTANTS
  defaultTimeout, maxTimeout, rpcTimeout,   \* 1, 10 and 11 minutes in the code
  Requests          \* the TimeoutSeconds a caller may ask for

ASSUME ExecAssumption ==
  /\ {defaultTimeout, maxTimeout, rpcTimeout} \subseteq Nat
  /\ 0 < defaultTimeout /\ defaultTimeout <= maxTimeout /\ maxTimeout < rpcTimeout
  /\ Requests \subseteq Int

VARIABLES
  now,        \* since the relay set the deadline
  call,       \* agentRPC: "none", "sent", then what it returned
  timeout,    \* what opExec settled on, 0 before it runs
  began,      \* when it did
  transit,    \* history: how long the request or the answer was under way
  shell,      \* "none", "run", "zero", "nonzero" (its exit), "killed"
  child,      \* a process the shell started holds its output pipes
  overrun,    \* it held them past the agent's bound
  answer      \* the response on the stream

execVars == <<now, call, timeout, began, transit, shell, child, overrun, answer>>

Answers == {"none", "error", "exit", "timed out"}

ExecTypeOK ==
  /\ now \in 0..rpcTimeout
  /\ call \in {"none", "sent", "answered", "deadline", "lost"}
  /\ timeout \in Nat /\ {began, transit} \subseteq 0..rpcTimeout
  /\ shell \in {"none", "run", "zero", "nonzero", "killed"}
  /\ child \in BOOLEAN /\ overrun \in BOOLEAN
  /\ answer \in Answers

\* agentRPC has set the deadline and sent the request.
ExecInit ==
  /\ now = 0
  /\ call = "sent"
  /\ timeout = 0 /\ began = 0 /\ transit = 0
  /\ shell = "none"
  /\ child = FALSE /\ overrun = FALSE
  /\ answer = "none"

-----------------------------------------------------------------------------

\* A variant of Bounded: no cap.
Uncapped(t) == IF t <= 0 THEN defaultTimeout ELSE t

\* The timeout a request gets: a default for none, a cap for too much.
Bounded(t) ==
  LET asked == IF t <= 0 THEN defaultTimeout ELSE t
  IN  IF asked > maxTimeout THEN maxTimeout ELSE asked

\* No command in the request, no such program or directory.
opExecFails ==
  /\ timeout = 0 /\ answer = "none" /\ call # "none"
  /\ answer' = "error"
  /\ UNCHANGED <<now, call, timeout, began, transit, shell, child, overrun>>

opExec(t) ==
  /\ timeout = 0 /\ answer = "none" /\ call # "none"
  /\ timeout' = Bounded(t) /\ began' = now
  /\ shell' = "run"
  /\ UNCHANGED <<now, call, transit, child, overrun, answer>>

\* `sh -c "a; b"` and `sh -c "a &"` run a in a process of its own, which a kill
\* of the shell does not reach.
Forks ==
  /\ shell = "run" /\ ~ child
  /\ child' = TRUE
  /\ UNCHANGED <<now, call, timeout, began, transit, shell, overrun, answer>>

ChildEnds ==
  /\ child
  /\ child' = FALSE
  /\ UNCHANGED <<now, call, timeout, began, transit, shell, overrun, answer>>

ShellExits ==
  /\ shell = "run"
  /\ shell' \in {"zero", "nonzero"}
  /\ UNCHANGED <<now, call, timeout, began, transit, child, overrun, answer>>

\* CommandContext kills the shell when its timeout has passed.
Due  == timeout > 0 /\ now >= began + timeout
Kill ==
  /\ shell = "run" /\ Due
  /\ shell' = "killed"
  /\ UNCHANGED <<now, call, timeout, began, transit, child, overrun, answer>>

\* cmd.Run returns when the shell is gone and every holder of its pipes is. A
\* failure once the timeout has passed is reported as the timeout.
CanReturn == shell \in {"zero", "nonzero", "killed"} /\ ~ child /\ answer = "none"
RunReturnsExec ==
  /\ CanReturn
  /\ answer' = IF shell = "zero" \/ ~ Due THEN "exit" ELSE "timed out"
  /\ UNCHANGED <<now, call, timeout, began, transit, shell, child, overrun>>

-----------------------------------------------------------------------------

agentRPCReturns ==
  /\ call = "sent" /\ answer # "none"
  /\ call' = "answered"
  /\ UNCHANGED <<now, timeout, began, transit, shell, child, overrun, answer>>

\* The stream's deadline: the handler returns, and the command is not told. An
\* answer still under way comes too late.
Deadline ==
  /\ call = "sent" /\ now = rpcTimeout
  /\ call' = "deadline"
  /\ UNCHANGED <<now, timeout, began, transit, shell, child, overrun, answer>>

StreamLost ==
  /\ call = "sent"
  /\ call' = "lost"
  /\ UNCHANGED <<now, timeout, began, transit, shell, child, overrun, answer>>

\* The request is on its way to opExec, or the answer to the relay.
InTransit == timeout = 0 \/ answer # "none"

\* Time passes, for the command or for what is under way. Timers and ready
\* goroutines are far quicker than the clock's unit: none is left waiting.
Tick ==
  /\ now < rpcTimeout
  /\ ~ (shell = "run" /\ Due) /\ ~ CanReturn
  /\ now' = now + 1
  /\ transit' = IF InTransit THEN transit + 1 ELSE transit
  /\ overrun' = (overrun \/ (Due /\ child))
  /\ UNCHANGED <<call, timeout, began, shell, child, answer>>

ExecNext ==
  \/ opExecFails \/ \E t \in Requests : opExec(t)
  \/ Forks \/ ChildEnds \/ ShellExits \/ Kill \/ RunReturnsExec
  \/ agentRPCReturns \/ Deadline \/ StreamLost \/ Tick

-----------------------------------------------------------------------------
(* Properties *)

\* The relay's deadline only ends a call whose agent is wedged: whatever the
\* caller asked for, and whenever the command ends, the agent's own bound comes
\* first and its answer, not the relay's error, is what the caller gets, as long
\* as request and answer together are under way for less than the margin between
\* the two clocks. It is wedged by a process that outlives the shell with its
\* pipes. server/stream.go:18-20, client/rpc.go:77-84.
AgentBoundComesFirst ==
  call = "deadline" => overrun \/ transit >= rpcTimeout - maxTimeout

\* The relay's deadline is for a wedged stream alone, "the agent already bounds how
\* long a command may run" (server/stream.go:18-19). Does not hold: the kill
\* reaches the shell only, and cmd.Run waits for what the shell left behind.
CommandIsBounded == call = "deadline" => transit >= rpcTimeout - maxTimeout
=============================================================================
