------------------------------ MODULE Streams ------------------------------
(***************************************************************************)
(* One interactive stream, end to end: a client, the relay's handler       *)
(* (server/shell.go, server/forward.go), a yamux stream, the agent's       *)
(* handler and the program or local service behind it.                     *)
(*                                                                         *)
(*   client --wu--> relay --su--> agent --in--> program                    *)
(*   client <--wd-- relay <--sd-- agent <-out-- program                    *)
(*                                                                         *)
(* The four kinds differ in the agent's handler and in the client:         *)
(*   pty      handlePTY, for a browser tab or `beacon ssh`;                *)
(*   forward  handleForward and pipeStream, for `beacon forward`;          *)
(*   sshpty   serveSession of the embedded ssh server, with a terminal;    *)
(*   command  runWithoutPTY of the embedded ssh server (scp, git, rsync).  *)
(* Bytes are counted, never told apart: every hop is a FIFO, so what can   *)
(* go wrong is that some are lost, or that nobody moves them.              *)
(***************************************************************************)
EXTENDS Naturals, FiniteSets

CONSTANTS Cap,      \* chunks each hop buffers
          MaxIn,    \* chunks the client sends
          MaxOut    \* chunks the program writes

ASSUME StreamsAssumption == /\ Cap \in Nat \ {0}
                            /\ MaxIn \in Nat
                            /\ MaxOut \in Nat \ {0}

VARIABLES
  kind,     \* what the stream header declares
  phase,    \* "none" for a stream of another kind, "asked" the far end is open
  client,   \* "here", "eof" (it ended its input), "gone"
  ws,       \* the WebSocket is open
  pump,     \* the copying goroutines still running
  closed,   \* who called Close on the yamux stream
  reset,    \* the stream was torn down: the tunnel died, or a close timed out
  prog,     \* "run", "exited" (by itself), "killed"
  holder,   \* a process the program started holds its terminal or its pipes
  handle,   \* the agent holds the terminal, the pipes or the local connection
  exitSent, \* an ssh session has sent the exit status
  q,        \* chunks in each hop
  sent, wrote, got,
  late      \* input was still under way when, or came after, the program ended

vars == <<kind, phase, client, ws, pump, closed, reset, prog, holder, handle,
          exitSent, q, sent, wrote, got, late>>

Ssh       == {"sshpty", "command"}
Bridged   == {"forward"} \cup Ssh     \* reached through `beacon forward`
Hops      == {"wu", "su", "in", "out", "sd", "wd"}
Pumps     == {"relayUp", "relayDown", "agentUp", "agentDown"}

TypeOK ==
  /\ kind \in {"pty", "rpc"} \cup Bridged
  /\ phase \in {"none", "asked", "open"}
  /\ client \in {"here", "eof", "gone"}
  /\ {ws, reset, holder, handle, exitSent, late} \subseteq BOOLEAN
  /\ pump \subseteq Pumps
  /\ closed \subseteq {"relay", "agent"}
  /\ prog \in {"run", "exited", "killed"}
  /\ q \in [Hops -> 0..Cap]
  /\ sent \in 0..MaxIn /\ wrote \in 0..MaxOut /\ got \in 0..wrote

\* handleShell and handleForward have opened the stream and accepted the
\* WebSocket; the agent has read the header.
Init ==
  /\ kind \in {"pty"} \cup Bridged
  /\ phase = "asked"
  /\ client = "here"
  /\ ws = TRUE
  /\ pump = Pumps
  /\ closed = {}
  /\ reset = FALSE
  /\ prog = "run" /\ holder = FALSE
  /\ handle = TRUE
  /\ exitSent = FALSE
  /\ q = [h \in Hops |-> 0]
  /\ sent = 0 /\ wrote = 0 /\ got = 0
  /\ late = FALSE

-----------------------------------------------------------------------------
(* Variants of the definitions below, each a plausible slip: a session that    *)
(* ends with its input, a terminal closed without killing what runs on it, a   *)
(* pump that ends without closing the stream, on the relay and on the agent.   *)

RacesInput   == TRUE
LeavesProg   == prog
LeavesStream == closed
JustEnds     == kind = "forward"

-----------------------------------------------------------------------------
(* The yamux stream *)

Moved(a, b) == [q EXCEPT ![a] = @ - 1, ![b] = @ + 1]
Dropped(h)  == [q EXCEPT ![h] = 0]
Room(h)     == q[h] < Cap

\* A side that closed its end can no longer write, and reads only what had
\* already arrived; the other side reads everything before the end.
WriteFails(side) == side \in closed \/ reset
ReadEnds(side, h) == side \in closed \/ reset \/ (closed # {} /\ q[h] = 0)

\* yamux gives up on a stream one side closed and the other did not within
\* StreamCloseTimeout, and every stream ends with its session.
StreamReset ==
  /\ ~ reset /\ closed \notin {{}, {"relay", "agent"}}
  /\ reset' = TRUE
  /\ UNCHANGED <<kind, holder, phase, client, ws, pump, closed, prog, handle, exitSent,
                 q, sent, wrote, got, late>>

TunnelDies ==
  /\ ~ reset
  /\ reset' = TRUE
  /\ UNCHANGED <<kind, holder, phase, client, ws, pump, closed, prog, handle, exitSent,
                 q, sent, wrote, got, late>>

-----------------------------------------------------------------------------
(* The client, and the `beacon forward` process in front of it *)

Send ==
  /\ client = "here" /\ ws /\ phase = "open" /\ sent < MaxIn /\ Room("wu")
  /\ q' = [q EXCEPT !["wu"] = @ + 1]
  /\ sent' = sent + 1
  /\ late' = (late \/ prog # "run")
  /\ UNCHANGED <<kind, holder, phase, client, ws, pump, closed, reset, prog, handle,
                 exitSent, wrote, got>>

\* The client is done sending. An ssh client says so inside its connection; a
\* TCP client closes its half, and bridge only stops copying upstream.
EndInput ==
  /\ kind \in Bridged /\ client = "here" /\ phase = "open"
  /\ client' = "eof"
  /\ UNCHANGED <<kind, holder, phase, ws, pump, closed, reset, prog, handle, exitSent,
                 q, sent, wrote, got, late>>

\* A tab that closes takes its WebSocket with it. Behind a bridge the client's
\* end reads like the end of its input: the WebSocket closes only when the
\* bridge is stopped too, or when a write to the client fails.
ClientGoes ==
  /\ client # "gone"
  /\ client' = "gone"
  /\ ws' \in (IF kind = "pty" THEN {FALSE} ELSE {ws, FALSE})
  /\ UNCHANGED <<kind, holder, phase, pump, closed, reset, prog, handle, exitSent, q,
                 sent, wrote, got, late>>

Show ==
  /\ client # "gone" /\ q["wd"] > 0
  /\ q' = [q EXCEPT !["wd"] = @ - 1]
  /\ got' = got + 1
  /\ UNCHANGED <<kind, holder, phase, client, ws, pump, closed, reset, prog, handle,
                 exitSent, sent, wrote, late>>

\* bridge: io.Copy(local, remote) fails once the client is gone.
BridgeEnds ==
  /\ client = "gone" /\ ws /\ q["wd"] > 0
  /\ ws' = FALSE
  /\ q' = Dropped("wd")
  /\ UNCHANGED <<kind, holder, phase, client, pump, closed, reset, prog, handle,
                 exitSent, sent, wrote, got, late>>

\* An ssh client that has the exit status hangs up.
SshClientDone ==
  /\ kind \in Ssh /\ exitSent /\ ws /\ client # "gone" /\ q["sd"] = 0 /\ q["wd"] = 0
  /\ client' = "gone" /\ ws' = FALSE
  /\ UNCHANGED <<kind, holder, phase, pump, closed, reset, prog, handle, exitSent, q,
                 sent, wrote, got, late>>

-----------------------------------------------------------------------------
(* The relay: one goroutine per direction *)

RelayUp ==
  /\ "relayUp" \in pump /\ ws /\ q["wu"] > 0
  /\ ~ WriteFails("relay") /\ Room("su")
  /\ q' = Moved("wu", "su")
  /\ UNCHANGED <<kind, holder, phase, client, ws, pump, closed, reset, prog, handle,
                 exitSent, sent, wrote, got, late>>

ClosesStream == closed \cup {"relay"}

\* Closing the stream when the browser goes away is what stops the shell.
RelayUpEnds ==
  /\ "relayUp" \in pump
  /\ ~ ws \/ (q["wu"] > 0 /\ WriteFails("relay"))
  /\ pump' = pump \ {"relayUp"}
  /\ closed' = ClosesStream
  /\ UNCHANGED <<kind, holder, phase, client, ws, reset, prog, handle, exitSent, q,
                 sent, wrote, got, late>>

RelayDown ==
  /\ "relayDown" \in pump /\ ws /\ q["sd"] > 0 /\ Room("wd")
  /\ q' = Moved("sd", "wd")
  /\ UNCHANGED <<kind, holder, phase, client, ws, pump, closed, reset, prog, handle,
                 exitSent, sent, wrote, got, late>>

\* The handler returns: its deferred calls close the WebSocket and the stream.
\* A socket closed over unread input may take unsent output with it.
RelayReturns ==
  /\ "relayDown" \in pump
  /\ ReadEnds("relay", "sd") \/ (~ ws /\ q["sd"] > 0)
  /\ pump' = pump \ {"relayDown"}
  /\ ws' = FALSE
  /\ closed' = closed \cup {"relay"}
  /\ q' \in {q} \cup (IF q["wu"] > 0 THEN {Dropped("wd")} ELSE {})
  /\ UNCHANGED <<kind, holder, phase, client, reset, prog, handle, exitSent, sent,
                 wrote, got, late>>

-----------------------------------------------------------------------------
(* The agent: opening the far end *)

\* The shell, the command or the connection to the local service is there.
Opens ==
  /\ phase = "asked"
  /\ phase' = "open"
  /\ UNCHANGED <<kind, holder, client, ws, pump, closed, reset, prog, handle, exitSent,
                 q, sent, wrote, got, late>>

NotServed ==
  /\ phase = "asked"
  /\ phase' = "open"
  /\ prog' = "exited"
  /\ handle' = FALSE
  /\ pump' = pump \ {"agentUp", "agentDown"}
  /\ UNCHANGED <<kind, holder, client, ws, reset, sent, got, late>>

\* No terminal, no such service, nothing listening, no WSL: the reason is the
\* one thing sent, and the handler returns.
Refuses ==
  /\ NotServed
  /\ wrote' = 1
  /\ q' = [q EXCEPT !["sd"] = IF reset THEN 0 ELSE 1]
  /\ exitSent' = (kind \in Ssh)
  /\ closed' = IF kind \in Ssh THEN closed ELSE closed \cup {"agent"}

\* The configuration cannot be read, or the embedded server not be started: the
\* stream is closed and nothing sent.
handleSSHFails ==
  /\ kind \in Ssh
  /\ NotServed
  /\ closed' = closed \cup {"agent"}
  /\ UNCHANGED <<exitSent, q, wrote>>

-----------------------------------------------------------------------------
(* The agent: copying *)

Serving(g) == phase = "open" /\ g \in pump

\* ptyTerm.Close closes the terminal, kills the program and waits for it; a
\* local connection is only closed.
Stopped == IF prog = "run" /\ kind # "forward" THEN "killed" ELSE prog

\* Somebody has the far end of the terminal, the pipes or the connection.
Alive == prog = "run" \/ holder

\* The peer's end of input, as the agent's reader meets it: an ssh client's
\* arrives in order, behind what it sent.
InputEnds ==
  \/ ReadEnds("agent", "su")
  \/ kind \in Ssh /\ client = "eof" /\ q["wu"] = 0 /\ q["su"] = 0

AgentUp ==
  /\ Serving("agentUp") /\ q["su"] > 0 /\ handle /\ Alive /\ Room("in")
  /\ q' = Moved("su", "in")
  /\ UNCHANGED <<kind, holder, phase, client, ws, pump, closed, reset, prog, handle,
                 exitSent, sent, wrote, got, late>>

\* Input that nobody is there to read, or for a handle already closed. (A first
\* write to a closed connection may be swallowed; the next one fails.)
InputFails == q["su"] > 0 /\ ~ (Alive /\ handle)

\* What the end of input takes with it. handlePTY returns, and its deferred
\* calls close the terminal and the stream; pipeStream shuts both ends; an ssh
\* session only stops copying input: ending on whichever half came first cut
\* off a program that was still writing.
EndsWithInput == kind \in {"pty", "forward"}

AgentUpEnds ==
  /\ Serving("agentUp")
  /\ InputEnds \/ InputFails
  /\ pump' = pump \ {"agentUp"}
  /\ IF EndsWithInput
       THEN /\ handle' = FALSE
            /\ prog' = Stopped
            /\ closed' = closed \cup {"agent"}
            /\ q' = Dropped("out")
       ELSE UNCHANGED <<handle, prog, closed, q>>
  /\ UNCHANGED <<kind, holder, phase, client, ws, reset, exitSent, sent, wrote, got, late>>

AgentDown ==
  /\ Serving("agentDown") /\ handle /\ q["out"] > 0
  /\ ~ WriteFails("agent") /\ Room("sd")
  /\ q' = Moved("out", "sd")
  /\ UNCHANGED <<kind, holder, phase, client, ws, pump, closed, reset, prog, handle,
                 exitSent, sent, wrote, got, late>>

\* A terminal and a pipe end when the last process that has them open is gone,
\* which need not be the one the agent started.
OutputEnds == ~ handle \/ (~ Alive /\ q["out"] = 0)

\* Once the relay has closed, the ssh connection is over and so are the writes
\* of its sessions; a raw stream goes on taking them.
OutputFails ==
  /\ q["out"] > 0
  /\ \/ WriteFails("agent")
     \/ kind \in Ssh /\ "relay" \in closed

\* pty-pump closes the stream, which is what makes the tab notice; pipeStream
\* shuts both ends; serveSession closes the terminal, waits and reports the
\* exit; exec.Cmd's goroutine just ends.
NoticesExit == kind \in {"pty", "forward"}

AgentDownEnds ==
  /\ Serving("agentDown")
  /\ OutputEnds \/ OutputFails
  /\ pump' = pump \ {"agentDown"}
  /\ closed' = IF NoticesExit THEN closed \cup {"agent"} ELSE closed
  /\ IF kind \in {"forward", "sshpty"}
       THEN handle' = FALSE /\ prog' = Stopped /\ q' = Dropped("out")
       ELSE UNCHANGED <<handle, prog, q>>
  /\ exitSent' = (exitSent \/ kind = "sshpty")
  /\ UNCHANGED <<kind, holder, phase, client, ws, reset, sent, wrote, got, late>>

\* cmd.Run has waited for the program and for both of its copies; the copy of
\* its output ends with the last process that holds the pipe.
RunReturns ==
  /\ kind = "command" /\ phase = "open" /\ handle
  /\ prog # "run" /\ pump \cap {"agentUp", "agentDown"} = {}
  /\ handle' = FALSE
  /\ exitSent' = TRUE
  /\ UNCHANGED <<kind, holder, phase, client, ws, pump, closed, reset, prog, q, sent,
                 wrote, got, late>>

\* HandleConn returns when the connection ends: the stream is closed, and the
\* sessions' context with it, which kills a command.
SshConnEnds ==
  /\ kind \in Ssh /\ phase = "open" /\ "agent" \notin closed
  /\ reset \/ "relay" \in closed
  /\ closed' = closed \cup {"agent"}
  /\ prog' = IF kind = "command" THEN Stopped ELSE prog
  /\ UNCHANGED <<kind, holder, phase, client, ws, pump, reset, handle, exitSent, q,
                 sent, wrote, got, late>>

-----------------------------------------------------------------------------
(* The program, or the local service *)

ProgReads ==
  /\ phase = "open" /\ Alive /\ q["in"] > 0
  /\ q' = [q EXCEPT !["in"] = @ - 1]
  /\ UNCHANGED <<kind, holder, phase, client, ws, pump, closed, reset, prog, handle,
                 exitSent, sent, wrote, got, late>>

ProgWrites ==
  /\ phase = "open" /\ Alive /\ handle /\ wrote < MaxOut /\ Room("out")
  /\ q' = [q EXCEPT !["out"] = @ + 1]
  /\ wrote' = wrote + 1
  /\ UNCHANGED <<kind, holder, phase, client, ws, pump, closed, reset, prog, handle,
                 exitSent, sent, got, late>>

ProgExits ==
  /\ phase = "open" /\ prog = "run"
  /\ prog' = "exited"
  /\ late' = (late \/ q["wu"] + q["su"] + q["in"] > 0)
  /\ UNCHANGED <<kind, holder, phase, client, ws, pump, closed, reset, handle, exitSent,
                 q, sent, wrote, got>>

\* A shell starts something in the background, `sh -c "x &"`; killing the shell
\* does not reach it.
ProgForks ==
  /\ phase = "open" /\ prog = "run" /\ kind # "forward" /\ ~ holder
  /\ holder' = TRUE
  /\ UNCHANGED <<kind, phase, client, ws, pump, closed, reset, prog, handle,
                 exitSent, q, sent, wrote, got, late>>

HolderEnds ==
  /\ holder
  /\ holder' = FALSE
  /\ UNCHANGED <<kind, phase, client, ws, pump, closed, reset, prog, handle,
                 exitSent, q, sent, wrote, got, late>>

-----------------------------------------------------------------------------

Client == Send \/ EndInput \/ ClientGoes \/ Show \/ BridgeEnds \/ SshClientDone
Relay  == RelayUp \/ RelayUpEnds \/ RelayDown \/ RelayReturns
Handler == \/ Opens \/ Refuses \/ handleSSHFails
           \/ AgentUp \/ AgentUpEnds \/ AgentDown \/ AgentDownEnds
           \/ RunReturns \/ SshConnEnds
Program == ProgReads \/ ProgWrites \/ ProgExits \/ ProgForks \/ HolderEnds

Next == Client \/ Relay \/ Handler \/ Program \/ StreamReset \/ TunnelDies

Spec == Init /\ [][Next]_vars

\* Every goroutine runs, the client reads what it is sent, the program reads
\* its input, and yamux's close timer fires. Nothing makes the client type or
\* leave, the program write or exit, what it left behind end, or the tunnel die.
Fairness ==
  /\ WF_vars(Opens \/ Refuses \/ handleSSHFails)
  /\ WF_vars(Show) /\ WF_vars(BridgeEnds) /\ WF_vars(SshClientDone)
  /\ WF_vars(RelayUp) /\ WF_vars(RelayUpEnds)
  /\ WF_vars(RelayDown) /\ WF_vars(RelayReturns)
  /\ WF_vars(AgentUp) /\ WF_vars(AgentUpEnds)
  /\ WF_vars(AgentDown) /\ WF_vars(AgentDownEnds)
  /\ WF_vars(RunReturns) /\ WF_vars(SshConnEnds)
  /\ WF_vars(ProgReads) /\ WF_vars(StreamReset)

FairSpec == Spec /\ Fairness

-----------------------------------------------------------------------------
(* Properties *)

\* The client is told that its session is over: the relay closed the tab's or
\* the bridge's WebSocket, or the ssh exit status arrived, behind all output.
Told ==
  /\ q["wd"] = 0
  /\ \/ ~ ws
     \/ kind \in Ssh /\ exitSent /\ q["sd"] = 0

\* A client that stays until its session ends has everything the program wrote
\* (or the reason it never started): the end never overtakes the output, in
\* any interleaving of the four copies. Input under way at the exit may cut it
\* short, and so may a stream torn down underneath.
\* client/pty.go:42-45, client/sshserver.go:189-195, client/forward.go:99-115.
EndComesLast ==
  (Told /\ client # "gone" /\ prog = "exited" /\ ~ reset /\ ~ late) => got = wrote

\* The agent's handler has returned: handlePTY with its input, serveSession with
\* its output, runWithoutPTY with cmd.Run, pipeStream with both copies.
Returned ==
  /\ phase = "open"
  /\ CASE kind = "pty"     -> "agentUp" \notin pump
       [] kind = "sshpty"  -> "agentDown" \notin pump
       [] kind = "command" -> ~ handle
       [] kind = "forward" -> pump \cap {"agentUp", "agentDown"} = {}

\* A handler that returned leaves nothing behind, whichever side ended first:
\* no program that nobody waits for, no local connection held open.
\* client/pty_unix.go:61-69, client/sshserver.go:197-200, client/forward.go:101-106.
HandlerLeavesNothing ==
  Returned => (~ handle /\ (kind # "forward" => prog # "run"))

\* When the client's WebSocket is gone, the shell, the command or the
\* connection behind it goes too, whatever was under way; what the shell left
\* in the background is not followed. (Not so for a terminal of the embedded
\* ssh server: EveryHangupReaps.)
\* server/shell.go:47-52, client/pty.go:35.
HangupReaps ==
  (kind # "sshpty" /\ ~ ws) ~> (prog # "run" \/ (kind = "forward" /\ ~ handle))

\* A program that ends ends its client's session: the tab, the desktop client
\* or the ssh client learns of it instead of sitting on an open socket, once no
\* process the program left behind holds its terminal or its pipes. A command's
\* client must have ended its input. client/pty.go:40-45, client/sshserver.go:189-200.
ExitIsNoticed ==
  (prog = "exited" /\ ~ holder /\ (kind = "command" => client = "eof"))
     ~> (Told \/ client = "gone")

\* The same for every exit, as handlePTY's comment has it: without the close that
\* follows its output "the socket would sit open around a dead process"
\* (client/pty.go:40-41). Does not hold: it does while a process the shell left
\* behind has the terminal open, and for a command while the client may still type.
EveryExitIsNoticed == prog = "exited" ~> (Told \/ client = "gone")

\* And for every hangup, as the end of serveSession means it: "the program is
\* still running and nothing else would ever reap it" (client/sshserver.go:197-198).
\* Does not hold: a terminal that writes nothing is not closed when its client
\* vanishes.
EveryHangupReaps == ~ ws ~> (prog # "run" \/ (kind = "forward" /\ ~ handle))
=============================================================================
