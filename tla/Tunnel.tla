------------------------------- MODULE Tunnel -------------------------------
(***************************************************************************)
(* One agent and the relay, each with its own picture of the tunnel        *)
(* between them: Agent's supervisor at one end, Registry at the other, and *)
(* a network that can go dead without telling either. The ends notice      *)
(* separately and in any order, an upgrade request may still be on its way *)
(* when the agent has given it up, and the relay may restart. What the     *)
(* agent was promised (README, "Self-healing") is checked here.            *)
(*                                                                         *)
(* An upgrade request and the yamux session it becomes share one name. The *)
(* relay's pingLoop and the operators' streams touch nothing the agent     *)
(* depends on and stay in Registry; kicks are here.                        *)
(***************************************************************************)
EXTENDS Registry, Agent

CONSTANT Agent1  \* the agent; Sessions are its upgrade requests, a bound on the faults

ASSUME TunnelAssumption == Agent1 \in Agents

VARIABLES
  mine,        \* the request or session the agent holds, NoSession for none
  wire         \* wire[s]: "unused", "up", or "cut" without either end knowing

relayVars == vars
tunnelVars == <<relayVars, agentVars, mine, wire>>

TunnelTypeOK ==
  /\ TypeOK /\ AgentTypeOK
  /\ mine \in Sessions \cup {NoSession}
  /\ wire \in [Sessions -> {"unused", "up", "cut"}]

\* The relay is up; the agent is enrolled and about to start.
TunnelInit ==
  /\ Init /\ owner = [s \in Sessions |-> Agent1]
  /\ AgentInit /\ disk = 1
  /\ mine = NoSession
  /\ wire = [s \in Sessions |-> "unused"]
-----------------------------------------------------------------------------
\* The supervisor's own steps: the network sees nothing of them.
Supervise ==
  /\ runAgent \/ BeginAttempt \/ disconnected \/ Wake
  /\ UNCHANGED <<relayVars, mine, wire>>

\* dialUpgrade connects and sends its request; any unused name will do.
Dial(s) ==
  /\ phase = "attempt" /\ mine = NoSession
  /\ wire[s] = "unused"
  /\ s = CHOOSE x \in Sessions : wire[x] = "unused"
  /\ mine' = s
  /\ wire' = [wire EXCEPT ![s] = "up"]
  /\ UNCHANGED <<relayVars, agentVars>>

\* The request reaches the relay, maybe after the agent has given it up.
Admit(s) ==
  /\ wire[s] # "unused"
  /\ handleAgentConnect(s)
  /\ UNCHANGED <<agentVars, mine, wire>>

\* The 101 comes back in time.
Upgraded(s) ==
  /\ mine = s /\ wire[s] = "up"
  /\ pc[s] # "free"
  /\ connected
  /\ UNCHANGED <<relayVars, mine, wire>>

\* It does not, or not in time: conn.Close.
GiveUp(s, d) ==
  /\ mine = s
  /\ AttemptFails(d)
  /\ mine' = NoSession
  /\ UNCHANGED <<relayVars, wire>>

\* The agent's end of the session dies of the network or of the relay's close;
\* its own sess.Close follows.
AgentNotices(s, d) ==
  /\ mine = s
  /\ wire[s] = "cut" \/ ~alive[s]
  /\ SessionEnds(d)
  /\ mine' = NoSession
  /\ UNCHANGED <<relayVars, wire>>

\* The relay's end dies of the network or of the agent's close.
RelayNotices(s) ==
  /\ wire[s] = "cut" \/ mine # s
  /\ TunnelBreaks(s)
  /\ UNCHANGED <<agentVars, mine, wire>>

\* The bound on faults: one happens only while a request is left to mend it with.
RequestLeft == \E s \in Sessions : wire[s] = "unused"

\* External: the flow is dropped, as by a NAT that forgot it.
Cut(s) ==
  /\ RequestLeft
  /\ wire[s] = "up"
  /\ wire' = [wire EXCEPT ![s] = "cut"]
  /\ UNCHANGED <<relayVars, agentVars, mine>>

\* The relay restarts: an empty registry and every connection reset. A request
\* not yet admitted is lost too: the nonce it presents died with the process.
RelayRestarts ==
  /\ RequestLeft
  /\ \E s \in Sessions : pc[s] \notin {"free", "done"}
  /\ alive' = [s \in Sessions |-> FALSE]
  /\ pc' = [s \in Sessions |-> IF wire[s] = "unused" THEN "free" ELSE "done"]
  /\ ping' = [s \in Sessions |-> IF ping[s] = "none" THEN "none" ELSE "done"]
  /\ closing' = {}
  /\ agents' = [a \in Agents |-> [session |-> NoSession, online |-> FALSE,
                                    reconnects |-> 0, rtt |-> NoSession]]
  /\ op' = [o \in Operators |-> Idle]
  /\ wire' = [s \in Sessions |-> IF wire[s] = "up" THEN "cut" ELSE wire[s]]
  /\ UNCHANGED <<owner, published, agentVars, mine>>

\* Everything else the relay does by itself.
Relay ==
  /\ \/ \E s \in Sessions : serveSession(s) \/ CloseStale(s)
     \/ \E o \in Operators : \/ RequestLeft /\ Lookup(o, Agent1, "kick")
                            \/ CloseKicked(o)
  /\ UNCHANGED <<agentVars, mine, wire>>

TunnelNext ==
  \/ Supervise \/ Relay \/ RelayRestarts
  \/ \E s \in Sessions :
       \/ Dial(s) \/ Admit(s) \/ Upgraded(s) \/ RelayNotices(s) \/ Cut(s)
       \/ \E d \in Durations : GiveUp(s, d) \/ AgentNotices(s, d)

TunnelSpec == TunnelInit /\ [][TunnelNext]_tunnelVars

\* The service manager starts the agent, both programs run, a request on an
\* intact path is answered before it times out or it times out, and yamux's
\* keepalive ends a session that is dead at the other end. Every failed attempt
\* uses a request up, and so does every fault that is mended.
TunnelFairness ==
  /\ WF_tunnelVars(Supervise)
  /\ \A s \in Sessions :
       /\ WF_tunnelVars(Dial(s))
       /\ WF_tunnelVars(mine = s /\ Admit(s))
       /\ WF_tunnelVars(Upgraded(s) \/ \E d \in Durations : GiveUp(s, d))
       /\ WF_tunnelVars(\E d \in Durations : AgentNotices(s, d))
       /\ WF_tunnelVars(RelayNotices(s))
       /\ WF_tunnelVars(serveSession(s) /\ UNCHANGED <<agentVars, mine, wire>>)
       /\ WF_tunnelVars(CloseStale(s) /\ UNCHANGED <<agentVars, mine, wire>>)

TunnelFairSpec == TunnelSpec /\ TunnelFairness
-----------------------------------------------------------------------------
\* The two ends agree: the agent is in a session, and that session is open and
\* is the one the relay reaches the agent through.
Healed == /\ phase = "session" /\ mine # NoSession
          /\ alive[mine] /\ IsCurrent(mine)

\* The agent is never stranded in a tunnel that answers its keepalives and that
\* nobody can reach it through: as long as the relay keeps the agent's session
\* open, it is the registered one, or has yet to register, or is about to be
\* closed, which the agent will notice.
NeverStranded ==
  phase = "session" /\ alive[mine] =>
    pc[mine] = "upgraded" \/ IsCurrent(mine) \/ mine \in closing

\* The tunnel repairs itself: after any mixture of silent cuts, half-open
\* sessions, late upgrades, takeovers, kicks and relay restarts, the two ends
\* come to agree on one live session, and stay so unless something else breaks.
TunnelHeals == []<>(Healed \/ ~RequestLeft)

\* Last connection wins: the record is never taken from the session the agent is
\* using, and could be reached through, by one it has given up. Does not hold: the relay
\* may register a late upgrade after its successor.
LastConnectionWins ==
  [][Healed => agents'[Agent1].session \in {mine, NoSession}]_tunnelVars
=============================================================================
