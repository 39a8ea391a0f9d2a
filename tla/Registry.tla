------------------------------ MODULE Registry ------------------------------
(***************************************************************************)
(* The relay's agent registry and everything that touches it: one          *)
(* serveSession goroutine and one pingLoop goroutine per tunnel, the       *)
(* close-stale goroutine a takeover spawns, and the operators' handlers    *)
(* that look a session up and use it after the registry's lock is gone     *)
(* (server/registry.go, server/agent.go, server/stream.go, server/http.go).*)
(*                                                                         *)
(* A step is what happens between two points where another goroutine may   *)
(* run: one critical section of Registry.mu, one Publish, one Close.       *)
(* A yamux session is external: it is a name that is alive until somebody  *)
(* closes it or the connection under it breaks.                            *)
(***************************************************************************)
EXTENDS Naturals

CONSTANTS
  Agents,      \* agent ids, as verified by the handshake
  Sessions,    \* yamux sessions; each one is set up at most once
  Operators,   \* concurrent dashboard, MCP or CLI requests
  NoSession    \* the nil *yamux.Session

ASSUME NoSessionAssumption == NoSession \notin Sessions

VARIABLES
  owner,       \* owner[s]: the agent id the handshake of s proves; it never changes
  alive,       \* alive[s]: s has been set up and is not closed
  pc,          \* pc[s]: where serveSession(s) is
  ping,        \* ping[s]: where pingLoop(s) is
  closing,     \* sessions a close-stale goroutine has still to close
  agents,      \* Registry.agents
  op,          \* op[o]: what request o is doing, and with which session
  published    \* the presence events on the feed, with their session

vars == <<owner, alive, pc, ping, closing, agents, op, published>>
-----------------------------------------------------------------------------
\* A record nobody has connected for yet has no session; rtt names the session
\* whose round trip it holds, and NoSession stands for -1.
agentRec == [session : Sessions \cup {NoSession}, online : BOOLEAN,
             reconnects : Nat, rtt : Sessions \cup {NoSession}]

Event == {"connected", "disconnected"} \X Sessions

Idle == [doing |-> "nothing", session |-> NoSession]

TypeOK ==
  /\ owner \in [Sessions -> Agents]
  /\ alive \in [Sessions -> BOOLEAN]
  /\ pc \in [Sessions -> {"free", "upgraded", "connected", "accept", "closed",
                          "lost", "done"}]
  /\ ping \in [Sessions -> {"none", "measure", "store", "done"}]
  /\ closing \subseteq Sessions
  /\ agents \in [Agents -> agentRec]
  /\ op \in [Operators -> [doing : {"nothing", "kick", "open", "stream"},
                           session : Sessions \cup {NoSession}]]
  /\ published \subseteq Event

Init ==
  /\ owner \in [Sessions -> Agents]
  /\ alive = [s \in Sessions |-> FALSE]
  /\ pc = [s \in Sessions |-> "free"]
  /\ ping = [s \in Sessions |-> "none"]
  /\ closing = {}
  /\ agents = [a \in Agents |-> [session |-> NoSession, online |-> FALSE,
                                 reconnects |-> 0, rtt |-> NoSession]]
  /\ op = [o \in Operators |-> Idle]
  /\ published = {}
-----------------------------------------------------------------------------
\* handleAgentConnect, admitted: yamux runs over the hijacked connection and
\* serveSession is spawned.
handleAgentConnect(s) ==
  /\ pc[s] = "free"
  /\ pc' = [pc EXCEPT ![s] = "upgraded"]
  /\ alive' = [alive EXCEPT ![s] = TRUE]
  /\ UNCHANGED <<owner, ping, closing, agents, op, published>>

\* Mutants of the two tests below: no close, no comparison with
\* the session that died, the comparison the wrong way round.
NobodyIsStale(a) == {}
AnySessionCounts(s) == agents[owner[s]].online
OnlyOthersCount(s) == agents[owner[s]].session # s /\ agents[owner[s]].online

\* The session Connect has to close: the record's, online or not.
StaleOf(a) == {agents[a].session} \ {NoSession}

\* Registry.Connect: last connection wins.
Connect(s) ==
  LET a == owner[s]
  IN  /\ pc[s] = "upgraded"
      /\ agents' = [agents EXCEPT ![a] =
           [session |-> s, online |-> TRUE, rtt |-> NoSession,
            reconnects |-> IF agents[a].session = NoSession THEN 0
                           ELSE agents[a].reconnects + 1]]
      /\ closing' = closing \cup StaleOf(a)
      /\ pc' = [pc EXCEPT ![s] = "connected"]
      /\ UNCHANGED <<owner, alive, ping, op, published>>

\* The close-stale goroutine Connect spawned.
CloseStale(s) ==
  /\ s \in closing
  /\ alive' = [alive EXCEPT ![s] = FALSE]
  /\ closing' = closing \ {s}
  /\ UNCHANGED <<owner, pc, ping, agents, op, published>>

\* serveSession announces the agent and starts its pingLoop.
PublishConnected(s) ==
  /\ pc[s] = "connected"
  /\ published' = published \cup {<<"connected", s>>}
  /\ ping' = [ping EXCEPT ![s] = "measure"]
  /\ pc' = [pc EXCEPT ![s] = "accept"]
  /\ UNCHANGED <<owner, alive, closing, agents, op>>

\* AcceptStream fails once the session is closed; serveSession closes it too.
AcceptFails(s) ==
  /\ pc[s] = "accept"
  /\ ~alive[s]
  /\ pc' = [pc EXCEPT ![s] = "closed"]
  /\ UNCHANGED <<owner, alive, ping, closing, agents, op, published>>

\* Registry.Disconnect's test: the record still holds this session, online.
HoldsRecord(s) == agents[owner[s]].session = s /\ agents[owner[s]].online

Disconnect(s) ==
  /\ pc[s] = "closed"
  /\ \/ /\ HoldsRecord(s)
        /\ agents' = [agents EXCEPT ![owner[s]] =
                        [@ EXCEPT !.online = FALSE, !.rtt = NoSession]]
        /\ pc' = [pc EXCEPT ![s] = "lost"]
     \/ /\ ~HoldsRecord(s)
        /\ pc' = [pc EXCEPT ![s] = "done"]
        /\ UNCHANGED agents
  /\ UNCHANGED <<owner, alive, ping, closing, op, published>>

PublishDisconnected(s) ==
  /\ pc[s] = "lost"
  /\ published' = published \cup {<<"disconnected", s>>}
  /\ pc' = [pc EXCEPT ![s] = "done"]
  /\ UNCHANGED <<owner, alive, ping, closing, agents, op>>

\* External: the peer hangs up, the network drops or yamux's keepalive fails.
TunnelBreaks(s) ==
  /\ alive[s]
  /\ alive' = [alive EXCEPT ![s] = FALSE]
  /\ UNCHANGED <<owner, pc, ping, closing, agents, op, published>>
-----------------------------------------------------------------------------
\* pingLoop: sess.Ping answers on a live session...
PingAnswers(s) ==
  /\ ping[s] = "measure"
  /\ alive[s]
  /\ ping' = [ping EXCEPT ![s] = "store"]
  /\ UNCHANGED <<owner, alive, pc, closing, agents, op, published>>

\* ... or fails, on a closed session or by timing out on one that is merely
\* slow; either way the loop returns for good. The wait for the ticker is part
\* of "measure", and so is its end by the session's CloseChan.
PingFails(s) ==
  /\ ping[s] = "measure"
  /\ ping' = [ping EXCEPT ![s] = "done"]
  /\ UNCHANGED <<owner, alive, pc, closing, agents, op, published>>

\* rec.rttNanos.Store: the record is the agent's, whichever session holds it by
\* now, and no lock is taken.
StoreRTT(s) ==
  /\ ping[s] = "store"
  /\ agents' = [agents EXCEPT ![owner[s]].rtt = s]
  /\ ping' = [ping EXCEPT ![s] = "measure"]
  /\ UNCHANGED <<owner, alive, pc, closing, op, published>>
-----------------------------------------------------------------------------
\* Registry.Session: the session a request gets for an agent that is online.
Lookup(o, a, what) ==
  /\ op[o] = Idle
  /\ agents[a].online
  /\ op' = [op EXCEPT ![o] = [doing |-> what, session |-> agents[a].session]]
  /\ UNCHANGED <<owner, alive, pc, ping, closing, agents, published>>

\* handleAgentKick closes the session it looked up, whatever became of it since
\* (its "kick" event concerns nothing here).
CloseKicked(o) ==
  /\ op[o].doing = "kick"
  /\ alive' = [alive EXCEPT ![op[o].session] = FALSE]
  /\ op' = [op EXCEPT ![o] = Idle]
  /\ UNCHANGED <<owner, pc, ping, closing, agents, published>>

\* openAgentStream's OpenStream and header, on the session looked up before.
OpenStream(o) ==
  /\ op[o].doing = "open"
  /\ op' = [op EXCEPT ![o] = IF alive[op[o].session]
                             THEN [@ EXCEPT !.doing = "stream"] ELSE Idle]
  /\ UNCHANGED <<owner, alive, pc, ping, closing, agents, published>>

\* The stream ends: its work is done, or the session under it is closed and
\* every read and write on it fails.
StreamEnds(o) ==
  /\ op[o].doing = "stream"
  /\ op' = [op EXCEPT ![o] = Idle]
  /\ UNCHANGED <<owner, alive, pc, ping, closing, agents, published>>
-----------------------------------------------------------------------------
serveSession(s) ==
  Connect(s) \/ PublishConnected(s) \/ AcceptFails(s) \/ Disconnect(s)
    \/ PublishDisconnected(s)

pingLoop(s) == PingAnswers(s) \/ PingFails(s) \/ StoreRTT(s)

Request(o) ==
  \/ \E a \in Agents, what \in {"kick", "open"} : Lookup(o, a, what)
  \/ CloseKicked(o) \/ OpenStream(o) \/ StreamEnds(o)

Next ==
  \/ \E s \in Sessions : handleAgentConnect(s) \/ serveSession(s)
                           \/ CloseStale(s) \/ TunnelBreaks(s) \/ pingLoop(s)
  \/ \E o \in Operators : Request(o)

Spec == Init /\ [][Next]_vars

\* The Go scheduler runs every runnable goroutine; a stream on a dead session
\* fails its next read. Nobody promises that agents dial or that tunnels break.
Fairness ==
  /\ \A s \in Sessions : /\ WF_vars(serveSession(s))
                         /\ WF_vars(CloseStale(s))
  /\ \A o \in Operators :
       /\ WF_vars(CloseKicked(o) \/ OpenStream(o))
       /\ WF_vars(op[o].doing = "stream" /\ ~alive[op[o].session] /\ StreamEnds(o))

FairSpec == Spec /\ Fairness
-----------------------------------------------------------------------------
Registered(s) == pc[s] \notin {"free", "upgraded"}

\* The session an agent is online through.
IsCurrent(s) == agents[owner[s]].session = s /\ agents[owner[s]].online

\* Every agent shown online has a serveSession goroutine of its own id that
\* has not yet reported its end: nobody stays online with no one left to
\* notice the tunnel's death, whatever order takeovers and closes come in.
OnlineIsWatched ==
  \A a \in Agents : agents[a].online =>
    /\ agents[a].session \in Sessions
    /\ owner[agents[a].session] = a
    /\ pc[agents[a].session] \in {"connected", "accept", "closed"}

\* A registered session that is still open is the one its agent is reached
\* through, or a close-stale goroutine is about to close it: a takeover leaks
\* no tunnel, even when connects of one id pile up.
NoLeakedSession ==
  \A s \in Sessions : Registered(s) /\ alive[s] => IsCurrent(s) \/ s \in closing

\* A session that ended while it still held its agent's record was announced
\* as disconnected, and one that holds the record online was not: the feed and
\* the table tell the same story once the goroutine has returned.
EndIsAnnounced ==
  \A s \in Sessions :
    /\ pc[s] = "done" /\ agents[owner[s]].session = s
         => <<"disconnected", s>> \in published
    /\ IsCurrent(s) => <<"disconnected", s>> \notin published

\* The round trip shown for an online agent was measured on the session it is
\* online through; until then it is -1 (server/registry.go, rttNanos). Does not
\* hold: StoreRTT of a superseded session.
RTTIsOfThisSession ==
  \A a \in Agents : agents[a].online => agents[a].rtt \in {NoSession, agents[a].session}

\* pingLoop keeps a live figure: while an agent is online through a session
\* that is alive, the loop that measures it has not given up. Does not hold: a
\* Ping that merely timed out ends it.
RTTIsKeptLive ==
  \A s \in Sessions : IsCurrent(s) /\ alive[s] => ping[s] # "done"

\* An agent goes offline only when the very session it was online through is
\* dead: a late close of a superseded session does not knock it off.
OnlyItsOwnDeath ==
  [][\A a \in Agents : agents[a].online /\ ~agents'[a].online =>
       agents'[a].session = agents[a].session /\ ~alive[agents[a].session]]_vars

\* A session that lost its agent to another one is closed and its goroutine
\* returns, and no operator's stream outlives it.
SupersededIsReleased ==
  \A s \in Sessions :
    (Registered(s) /\ agents[owner[s]].session # s)
      ~> (~alive[s] /\ pc[s] = "done" /\ \A o \in Operators : op[o].session # s)

\* An agent shown online through a dead session does not stay so.
DeathIsNoticed ==
  \A s \in Sessions : (IsCurrent(s) /\ ~alive[s]) ~> ~IsCurrent(s)

\* The registry keeps the promise of Presence.
P == INSTANCE Presence WITH
  current <- [a \in Agents |-> IF agents[a].online THEN agents[a].session
                               ELSE NoSession],
  lost <- {s \in Sessions : pc[s] = "lost" \/ <<"disconnected", s>> \in published},
  replaced <- {s \in Sessions : Registered(s) /\ pc[s] # "lost" /\ ~IsCurrent(s)
                                  /\ <<"disconnected", s>> \notin published}

RefinesPresence == P!PresenceSpec
=============================================================================
