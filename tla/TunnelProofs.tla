---------------------------- MODULE TunnelProofs ----------------------------
(***************************************************************************)
(* Proofs about the tunnel and its two ends: Registry, for every set of    *)
(* agents, sessions and requests; Agent, for every backoff and every       *)
(* length of a round; and Tunnel, which joins them over a network and      *)
(* restarts of the relay.                                                  *)
(***************************************************************************)
EXTENDS Tunnel, FiniteSetTheorems, TLAPS

\* serveSession leaves its accept loop only after the session is closed.
PastAcceptIsDead ==
  \A s \in Sessions : pc[s] \in {"closed", "lost", "done"} => ~alive[s]

\* A record whose session's goroutine is still watching is online: only that
\* goroutine's own Disconnect marks it offline.
WatchedIsOnline ==
  \A s \in Sessions :
    pc[s] \in {"connected", "accept", "closed"} /\ agents[owner[s]].session = s
      => agents[owner[s]].online

\* "disconnected" is the last thing a goroutine does.
AnnouncedIsDone ==
  \A s \in Sessions : <<"disconnected", s>> \in published => pc[s] = "done"

\* The inductive invariant.
IInv ==
  /\ TypeOK
  /\ OnlineIsWatched
  /\ NoLeakedSession
  /\ EndIsAnnounced
  /\ PastAcceptIsDead
  /\ WatchedIsOnline
  /\ AnnouncedIsDone
-----------------------------------------------------------------------------
\* The relay starts with an empty registry, where the invariant holds.
LEMMA InitIInv == Init => IInv
BY NoSessionAssumption DEF Init, IInv, TypeOK, OnlineIsWatched, NoLeakedSession, EndIsAnnounced,
   PastAcceptIsDead, WatchedIsOnline, AnnouncedIsDone, agentRec, Event, Idle,
   Registered, IsCurrent

\* Every step of every goroutine keeps the variables in their types.
LEMMA TypeStep == ASSUME TypeOK, [Next]_vars PROVE TypeOK'
<1> USE NoSessionAssumption DEF TypeOK, agentRec, Event, Idle
<1>1. ASSUME NEW s \in Sessions, handleAgentConnect(s) PROVE TypeOK'
  BY <1>1 DEF handleAgentConnect
<1>2. ASSUME NEW s \in Sessions, Connect(s) PROVE TypeOK'
  <2>1. agents' \in [Agents -> agentRec]
    BY <1>2 DEF Connect
  <2>2. closing' \subseteq Sessions
    BY <1>2 DEF Connect, StaleOf
  <2> QED BY <1>2, <2>1, <2>2 DEF Connect
<1>3. ASSUME NEW s \in Sessions, CloseStale(s) PROVE TypeOK'
  BY <1>3 DEF CloseStale
<1>4. ASSUME NEW s \in Sessions, PublishConnected(s) PROVE TypeOK'
  <2>1. published' \subseteq Event
    BY <1>4 DEF PublishConnected
  <2> QED BY <1>4, <2>1 DEF PublishConnected
<1>5. ASSUME NEW s \in Sessions, AcceptFails(s) PROVE TypeOK'
  BY <1>5 DEF AcceptFails
<1>6. ASSUME NEW s \in Sessions, Disconnect(s) PROVE TypeOK'
  <2>1. agents' \in [Agents -> agentRec]
    <3>1. agents[owner[s]] \in agentRec
      OBVIOUS
    <3>2. [agents[owner[s]] EXCEPT !.online = FALSE, !.rtt = NoSession] \in agentRec
      BY <3>1
    <3> HIDE DEF agentRec
    <3> QED BY <1>6, <3>2 DEF Disconnect
  <2>2. pc' \in [Sessions -> {"free", "upgraded", "connected", "accept", "closed",
                              "lost", "done"}]
    BY <1>6 DEF Disconnect
  <2> QED BY <1>6, <2>1, <2>2 DEF Disconnect
<1>7. ASSUME NEW s \in Sessions, PublishDisconnected(s) PROVE TypeOK'
  <2>1. published' \subseteq Event
    BY <1>7 DEF PublishDisconnected
  <2> QED BY <1>7, <2>1 DEF PublishDisconnected
<1>8. ASSUME NEW s \in Sessions, TunnelBreaks(s) PROVE TypeOK'
  BY <1>8 DEF TunnelBreaks
<1>9. ASSUME NEW s \in Sessions, pingLoop(s) PROVE TypeOK'
  <2>1. CASE StoreRTT(s)
    <3>1. agents[owner[s]] \in agentRec
      OBVIOUS
    <3>2. [agents[owner[s]] EXCEPT !.rtt = s] \in agentRec
      BY <3>1
    <3>3. agents' \in [Agents -> agentRec]
      <4> HIDE DEF agentRec
      <4> QED BY <2>1, <3>2 DEF StoreRTT
    <3> QED BY <2>1, <3>3 DEF StoreRTT
  <2>2. CASE PingAnswers(s) \/ PingFails(s)
    BY <2>2 DEF PingAnswers, PingFails
  <2> QED BY <1>9, <2>1, <2>2 DEF pingLoop
<1>10. ASSUME NEW o \in Operators, Request(o) PROVE TypeOK'
  <2>1. ASSUME NEW a \in Agents, NEW what \in {"kick", "open"}, Lookup(o, a, what)
        PROVE  TypeOK'
    BY <2>1 DEF Lookup
  <2>2. CASE CloseKicked(o)
    BY <2>2 DEF CloseKicked
  <2>3. CASE OpenStream(o)
    BY <2>3 DEF OpenStream
  <2>4. CASE StreamEnds(o)
    BY <2>4 DEF StreamEnds
  <2> QED BY <1>10, <2>1, <2>2, <2>3, <2>4 DEF Request
<1>11. CASE UNCHANGED vars
  BY <1>11 DEF vars
<1> QED
  BY <1>1, <1>2, <1>3, <1>4, <1>5, <1>6, <1>7, <1>8, <1>9, <1>10, <1>11
  DEF Next, serveSession
-----------------------------------------------------------------------------
\* The steps of pingLoop and of the requests touch neither a goroutine, nor who
\* holds a record, nor the feed; the requests may only close sessions.
Bystander ==
  /\ UNCHANGED <<owner, pc, closing, published>>
  /\ \A a \in Agents : /\ agents'[a].session = agents[a].session
                        /\ agents'[a].online = agents[a].online
  /\ \A s \in Sessions : alive'[s] => alive[s]

LEMMA BystanderSteps ==
  ASSUME TypeOK,
         \/ UNCHANGED vars
         \/ \E s \in Sessions : TunnelBreaks(s) \/ pingLoop(s)
         \/ \E o \in Operators : Request(o)
  PROVE  Bystander
<1> USE DEF TypeOK, Bystander
<1>1. CASE UNCHANGED vars
  BY <1>1 DEF vars
<1>2. ASSUME NEW s \in Sessions, TunnelBreaks(s) PROVE Bystander
  BY <1>2 DEF TunnelBreaks
<1>3. ASSUME NEW s \in Sessions, pingLoop(s) PROVE Bystander
  <2>1. CASE StoreRTT(s)
    <3>1. agents' = [agents EXCEPT ![owner[s]] = [@ EXCEPT !.rtt = s]]
      BY <2>1 DEF StoreRTT
    <3>2. ASSUME NEW a \in Agents
          PROVE  /\ agents'[a].session = agents[a].session
                 /\ agents'[a].online = agents[a].online
      <4>1. agents[a] \in agentRec
        OBVIOUS
      <4>2. agents'[a] = agents[a] \/ agents'[a] = [agents[a] EXCEPT !.rtt = s]
        BY <3>1
      <4> QED BY <4>1, <4>2 DEF agentRec
    <3> QED BY <2>1, <3>2 DEF StoreRTT
  <2>2. CASE PingAnswers(s) \/ PingFails(s)
    BY <2>2 DEF PingAnswers, PingFails
  <2> QED BY <1>3, <2>1, <2>2 DEF pingLoop
<1>4. ASSUME NEW o \in Operators, Request(o) PROVE Bystander
  BY <1>4 DEF Request, Lookup, CloseKicked, OpenStream, StreamEnds
<1> QED BY <1>1, <1>2, <1>3, <1>4

\* What Disconnect does to the records, field by field.
LEMMA DisconnectEffect ==
  ASSUME TypeOK, NEW s \in Sessions, Disconnect(s)
  PROVE  /\ pc[s] = "closed"
         /\ pc' = [pc EXCEPT ![s] = IF HoldsRecord(s) THEN "lost" ELSE "done"]
         /\ UNCHANGED <<owner, alive, ping, closing, op, published>>
         /\ \A a \in Agents :
              /\ agents'[a].session = agents[a].session
              /\ agents'[a].online = (agents[a].online /\ ~(HoldsRecord(s) /\ a = owner[s]))
<1>1. ASSUME NEW a \in Agents
      PROVE  /\ agents'[a].session = agents[a].session
             /\ agents'[a].online = (agents[a].online /\ ~(HoldsRecord(s) /\ a = owner[s]))
  <2>1. agents[a] \in agentRec
    BY DEF TypeOK
  <2>2. CASE HoldsRecord(s)
    <3>1. agents'[a] = IF a = owner[s]
                       THEN [agents[a] EXCEPT !.online = FALSE, !.rtt = NoSession]
                       ELSE agents[a]
      BY <2>2 DEF Disconnect, TypeOK
    <3> QED BY <2>1, <2>2, <3>1 DEF agentRec
  <2>3. CASE ~HoldsRecord(s)
    BY <2>1, <2>3 DEF Disconnect, agentRec
  <2> QED BY <2>2, <2>3
<1> QED BY <1>1 DEF Disconnect

\* Every step keeps the inductive invariant.
LEMMA NextIInv == ASSUME IInv, [Next]_vars PROVE IInv'
<1> USE DEF IInv
<1>0. TypeOK'
  BY TypeStep
<1> DEFINE Rest == OnlineIsWatched /\ NoLeakedSession /\ EndIsAnnounced
                     /\ PastAcceptIsDead /\ WatchedIsOnline /\ AnnouncedIsDone
<1> USE NoSessionAssumption DEF OnlineIsWatched, NoLeakedSession, EndIsAnnounced,
        PastAcceptIsDead, WatchedIsOnline, AnnouncedIsDone, Registered, IsCurrent,
        TypeOK, agentRec
<1>1. ASSUME NEW s \in Sessions, handleAgentConnect(s) PROVE Rest'
  BY <1>1 DEF handleAgentConnect
<1>2. ASSUME NEW s \in Sessions, Connect(s) PROVE Rest'
  BY <1>2 DEF Connect, StaleOf
<1>3. ASSUME NEW s \in Sessions, CloseStale(s) PROVE Rest'
  BY <1>3 DEF CloseStale
<1>4. ASSUME NEW s \in Sessions, PublishConnected(s) PROVE Rest'
  BY <1>4 DEF PublishConnected
<1>5. ASSUME NEW s \in Sessions, AcceptFails(s) PROVE Rest'
  BY <1>5 DEF AcceptFails
<1>6. ASSUME NEW s \in Sessions, Disconnect(s) PROVE Rest'
  <2> USE DisconnectEffect, <1>6
  <2> USE DEF HoldsRecord
  <2>1. OnlineIsWatched'
    <3> SUFFICES ASSUME NEW a \in Agents, agents'[a].online
                 PROVE  /\ agents[a].session \in Sessions
                        /\ owner[agents[a].session] = a
                        /\ pc'[agents[a].session] \in {"connected", "accept", "closed"}
      OBVIOUS
    <3>1. agents[a].online /\ agents[a].session # s
      OBVIOUS
    <3> QED BY <3>1
  <2>2. NoLeakedSession'
    OBVIOUS
  <2>3. EndIsAnnounced'
    <3> SUFFICES ASSUME NEW x \in Sessions
                 PROVE  /\ pc'[x] = "done" /\ agents'[owner'[x]].session = x
                             => <<"disconnected", x>> \in published'
                        /\ agents'[owner'[x]].session = x /\ agents'[owner'[x]].online
                             => <<"disconnected", x>> \notin published'
      BY DEF EndIsAnnounced
    <3>1. CASE x = s
      BY <3>1
    <3>2. CASE x # s
      BY <3>2
    <3> QED BY <3>1, <3>2
  <2>4. PastAcceptIsDead' /\ AnnouncedIsDone'
    OBVIOUS
  <2>5. WatchedIsOnline'
    OBVIOUS
  <2> QED BY <2>1, <2>2, <2>3, <2>4, <2>5
<1>7. ASSUME NEW s \in Sessions, PublishDisconnected(s) PROVE Rest'
  BY <1>7 DEF PublishDisconnected
<1>8. CASE Bystander
  BY <1>8, <1>0 DEF Bystander
<1> QED
  BY <1>0, <1>1, <1>2, <1>3, <1>4, <1>5, <1>6, <1>7, <1>8, BystanderSteps
  DEF Next, serveSession

LEMMA AlwaysIInv == Spec => []IInv
BY InitIInv, NextIInv, PTL DEF Spec

\* Whatever agents, operators and the network do, the registry, the goroutines
\* and the feed keep their types (server/registry.go, server/agent.go).
THEOREM TypeCorrect == Spec => []TypeOK
BY AlwaysIInv, PTL DEF IInv

\* Every agent shown online has a serveSession goroutine left to notice its end.
THEOREM Watched == Spec => []OnlineIsWatched
BY AlwaysIInv, PTL DEF IInv

\* Connect's takeover leaks no session: an open one is current or about to be closed.
THEOREM NoLeak == Spec => []NoLeakedSession
BY AlwaysIInv, PTL DEF IInv

\* The feed says "disconnected" for exactly the sessions that died holding their record.
THEOREM Announced == Spec => []EndIsAnnounced
BY AlwaysIInv, PTL DEF IInv

\* Only a step of Disconnect takes an agent offline, and only when the session
\* that died is the record's own.
LEMMA OfflineStep ==
  ASSUME IInv, [Next]_vars, NEW a \in Agents, agents[a].online, ~agents'[a].online
  PROVE  agents'[a].session = agents[a].session /\ ~alive[agents[a].session]
<1> USE DEF IInv, TypeOK
<1>1. ASSUME NEW s \in Sessions, handleAgentConnect(s) PROVE FALSE
  BY <1>1 DEF handleAgentConnect
<1>2. ASSUME NEW s \in Sessions, Connect(s) PROVE FALSE
  BY <1>2 DEF Connect
<1>3. ASSUME NEW s \in Sessions, CloseStale(s) \/ PublishConnected(s) \/ AcceptFails(s)
               \/ PublishDisconnected(s)
      PROVE  FALSE
  BY <1>3 DEF CloseStale, PublishConnected, AcceptFails, PublishDisconnected
<1>4. CASE Bystander
  BY <1>4 DEF Bystander
<1>5. ASSUME NEW s \in Sessions, Disconnect(s)
      PROVE  agents'[a].session = agents[a].session /\ ~alive[agents[a].session]
  <2>1. ASSUME ~(HoldsRecord(s) /\ a = owner[s]) PROVE agents'[a] = agents[a]
    BY <1>5, <2>1 DEF Disconnect
  <2>2. HoldsRecord(s) /\ a = owner[s]
    BY <2>1
  <2> QED BY <1>5, <2>2, DisconnectEffect DEF HoldsRecord, PastAcceptIsDead
<1> QED
  BY <1>1, <1>2, <1>3, <1>4, <1>5, BystanderSteps DEF Next, serveSession

\* Disconnect's promise: a late close of a superseded session never knocks the
\* fresh connection offline.
THEOREM OwnDeathOnly == Spec => OnlyItsOwnDeath
<1>1. IInv /\ [Next]_vars =>
        [\A a \in Agents : agents[a].online /\ ~agents'[a].online =>
           agents'[a].session = agents[a].session /\ ~alive[agents[a].session]]_vars
  BY OfflineStep
<1> QED BY <1>1, AlwaysIInv, PTL DEF Spec, OnlyItsOwnDeath
-----------------------------------------------------------------------------
\* The refinement mapping, as operators of the registry's state.
Current(a) == IF agents[a].online THEN agents[a].session ELSE NoSession
IsLost(s) == pc[s] = "lost" \/ <<"disconnected", s>> \in published
IsReplaced(s) == /\ Registered(s) /\ pc[s] # "lost" /\ ~IsCurrent(s)
                 /\ <<"disconnected", s>> \notin published

\* A step that leaves the three mapped variables alone is a stutter of Presence.
LEMMA Stutter ==
  ASSUME \A a \in Agents : Current(a)' = Current(a),
         \A s \in Sessions : IsLost(s)' <=> IsLost(s),
         \A s \in Sessions : IsReplaced(s)' <=> IsReplaced(s)
  PROVE  [P!PresenceNext]_(P!presenceVars)
BY DEF P!presenceVars, Current, IsLost, IsReplaced

\* Connect is Presence's Arrive.
LEMMA ConnectArrives ==
  ASSUME IInv, NEW s \in Sessions, Connect(s), NEW a \in Agents, a = owner[s]
  PROVE  P!Arrive(a, s)
<1> USE NoSessionAssumption DEF IInv, TypeOK, agentRec, Registered, IsCurrent,
        OnlineIsWatched, AnnouncedIsDone
<1>1. s \notin {x \in Sessions : IsLost(x)} \cup {x \in Sessions : IsReplaced(x)}
  BY DEF Connect, IsLost, IsReplaced
<1>2. \A b \in Agents : Current(b) # s
  BY DEF Connect, Current
<1>3. [b \in Agents |-> Current(b)]' = [[b \in Agents |-> Current(b)] EXCEPT ![a] = s]
  BY DEF Connect, Current
<1>4. {x \in Sessions : IsReplaced(x)}'
        = {x \in Sessions : IsReplaced(x)} \cup ({Current(a)} \ {NoSession})
  BY DEF Connect, IsReplaced, Current
<1>5. {x \in Sessions : IsLost(x)}' = {x \in Sessions : IsLost(x)}
  BY DEF Connect, IsLost
<1> QED
  BY <1>1, <1>2, <1>3, <1>4, <1>5 DEF P!Arrive, Current, IsLost, IsReplaced

\* Disconnect is Presence's Leave when the session holds its record, and
\* otherwise nothing.
LEMMA DisconnectLeaves ==
  ASSUME IInv, NEW s \in Sessions, Disconnect(s)
  PROVE  [P!PresenceNext]_(P!presenceVars)
<1> owner[s] \in Agents /\ TypeOK
  BY DEF IInv, TypeOK
<1>1. CASE HoldsRecord(s)
  <2>1. Current(owner[s]) = s
    BY <1>1 DEF Current, HoldsRecord
  <2>2. ASSUME NEW a \in Agents
        PROVE  Current(a)' = IF a = owner[s] THEN NoSession ELSE Current(a)
    <3>1. CASE a = owner[s]
      <4>1. ~agents'[a].online
        BY <1>1, <3>1, DisconnectEffect
      <4> QED BY <3>1, <4>1 DEF Current
    <3>2. CASE a # owner[s]
      <4>1. agents'[a] = agents[a]
        BY <1>1, <3>2 DEF Disconnect, TypeOK
      <4> QED BY <3>2, <4>1 DEF Current
    <3> QED BY <3>1, <3>2
  <2>3. ASSUME NEW x \in Sessions PROVE IsLost(x)' <=> (IsLost(x) \/ x = s)
    BY <1>1, DisconnectEffect DEF IsLost, TypeOK
  <2>4. ASSUME NEW x \in Sessions PROVE IsReplaced(x)' <=> IsReplaced(x)
    <3>1. CASE x = s
      BY <1>1, <3>1, DisconnectEffect DEF IsReplaced, TypeOK, HoldsRecord, IsCurrent
    <3>2. CASE x # s
      <4>1. IsCurrent(x)' <=> IsCurrent(x)
        <5>1. owner' = owner /\ owner[x] \in Agents
          BY DEF Disconnect, TypeOK
        <5>2. CASE owner[x] = owner[s]
          BY <1>1, <3>2, <5>1, <5>2, DisconnectEffect DEF HoldsRecord, IsCurrent
        <5>3. CASE owner[x] # owner[s]
          <6>1. agents'[owner[x]] = agents[owner[x]]
            BY <1>1, <5>1, <5>3 DEF Disconnect, TypeOK
          <6> QED BY <5>1, <6>1 DEF IsCurrent
        <5> QED BY <5>2, <5>3
      <4> QED BY <3>2, <4>1, DisconnectEffect DEF IsReplaced, TypeOK, Registered
    <3> QED BY <3>1, <3>2
  <2>5. ASSUME NEW a \in Agents, a = owner[s] PROVE P!Leave(a)
    <3>1. [b \in Agents |-> Current(b)]'
            = [[b \in Agents |-> Current(b)] EXCEPT ![a] = NoSession]
      BY <2>2, <2>5
    <3>2. {x \in Sessions : IsLost(x)}' = {x \in Sessions : IsLost(x)} \cup {s}
      BY <2>3
    <3>3. {x \in Sessions : IsReplaced(x)}' = {x \in Sessions : IsReplaced(x)}
      BY <2>4
    <3> QED
      BY <2>1, <2>5, <3>1, <3>2, <3>3, NoSessionAssumption
      DEF P!Leave, Current, IsLost, IsReplaced
  <2> QED BY <2>5 DEF P!PresenceNext
<1>2. CASE ~HoldsRecord(s)
  <2>1. agents' = agents /\ owner' = owner
    BY <1>2 DEF Disconnect
  <2>2. \A a \in Agents : Current(a)' = Current(a)
    BY <2>1 DEF Current
  <2>3. \A x \in Sessions : IsLost(x)' <=> IsLost(x)
    BY <1>2, DisconnectEffect DEF IsLost, TypeOK
  <2>4. \A x \in Sessions : IsReplaced(x)' <=> IsReplaced(x)
    BY <1>2, <2>1, DisconnectEffect DEF IsReplaced, TypeOK, IsCurrent, Registered
  <2> QED BY <2>2, <2>3, <2>4, Stutter
<1> QED BY <1>1, <1>2

\* The other steps change neither who holds a record nor which ends count.
LEMMA OtherStepsStutter ==
  ASSUME IInv,
         \/ Bystander
         \/ \E s \in Sessions : handleAgentConnect(s) \/ CloseStale(s) \/ PublishConnected(s)
                                 \/ AcceptFails(s) \/ PublishDisconnected(s)
  PROVE  [P!PresenceNext]_(P!presenceVars)
<1> USE DEF IInv, TypeOK, AnnouncedIsDone
<1>1. CASE Bystander
  <2>1. /\ \A a \in Agents : Current(a)' = Current(a)
        /\ \A x \in Sessions : IsLost(x)' <=> IsLost(x)
        /\ \A x \in Sessions : IsReplaced(x)' <=> IsReplaced(x)
    BY <1>1 DEF Bystander, Current, IsLost, IsReplaced, Registered, IsCurrent
  <2> QED BY <2>1, Stutter
<1>2. ASSUME NEW s \in Sessions,
             handleAgentConnect(s) \/ CloseStale(s) \/ PublishConnected(s)
               \/ AcceptFails(s) \/ PublishDisconnected(s)
      PROVE  [P!PresenceNext]_(P!presenceVars)
  <2>0. agents' = agents /\ owner' = owner
    BY <1>2 DEF handleAgentConnect, CloseStale, PublishConnected, AcceptFails,
                PublishDisconnected
  <2>1. \A a \in Agents : Current(a)' = Current(a)
    BY <2>0 DEF Current
  <2>2. \A x \in Sessions : IsCurrent(x)' <=> IsCurrent(x)
    BY <2>0 DEF IsCurrent
  <2>3. ASSUME NEW x \in Sessions PROVE IsLost(x)' <=> IsLost(x)
    BY <1>2 DEF IsLost, handleAgentConnect, CloseStale, PublishConnected, AcceptFails,
                PublishDisconnected
  <2>4. ASSUME NEW x \in Sessions PROVE IsReplaced(x)' <=> IsReplaced(x)
    <3>1. CASE handleAgentConnect(s)
      BY <2>2, <3>1, <2>0 DEF IsReplaced, Registered, handleAgentConnect
    <3>2. CASE CloseStale(s) \/ PublishConnected(s) \/ AcceptFails(s)
      BY <2>2, <3>2 DEF IsReplaced, Registered, CloseStale, PublishConnected, AcceptFails
    <3>3. CASE PublishDisconnected(s)
      BY <2>2, <3>3 DEF IsReplaced, Registered, PublishDisconnected
    <3> QED BY <1>2, <3>1, <3>2, <3>3
  <2> QED BY <2>1, <2>3, <2>4, Stutter
<1> QED BY <1>1, <1>2

\* The registry and its goroutines implement Presence: one current session per
\* id, taken over once, lost by an announced death or by a takeover.
THEOREM Refinement == Spec => RefinesPresence
<1>1. Init => P!PresenceInit
  BY NoSessionAssumption DEF Init, P!PresenceInit, Registered
<1>2. IInv /\ [Next]_vars => [P!PresenceNext]_(P!presenceVars)
  <2> SUFFICES ASSUME IInv, [Next]_vars PROVE [P!PresenceNext]_(P!presenceVars)
    OBVIOUS
  <2>1. ASSUME NEW s \in Sessions, Connect(s) PROVE P!PresenceNext
    <3>1. PICK a \in Agents : a = owner[s]
      BY DEF IInv, TypeOK
    <3> QED BY <2>1, <3>1, ConnectArrives DEF P!PresenceNext
  <2>2. ASSUME NEW s \in Sessions, Disconnect(s) PROVE [P!PresenceNext]_(P!presenceVars)
    BY <2>2, DisconnectLeaves
  <2> QED
    BY <2>1, <2>2, OtherStepsStutter, BystanderSteps DEF Next, serveSession, IInv
<1> QED BY <1>1, <1>2, AlwaysIInv, PTL DEF Spec, RefinesPresence, P!PresenceSpec
-----------------------------------------------------------------------------
(* The agent. *)

\* What `beacon status` is told has its shape, and is true.
StatusInv == status \in agentState /\ StatusIsTrue

LEMMA StatusStep == ASSUME StatusInv, [AgentNext]_agentVars PROVE StatusInv'
<1> USE DEF agentState
<1>1. CASE runAgent
  BY <1>1 DEF StatusInv, StatusIsTrue, runAgent, newAgentState
<1>2. CASE BeginAttempt
  BY <1>2 DEF StatusInv, StatusIsTrue, BeginAttempt, Connecting
<1>3. CASE Return \/ Wake
  <2>1. /\ status' = status
        /\ \/ phase' = "off" /\ phase # "session"
           \/ phase' = "loop" /\ phase = "sleep"
    BY <1>3 DEF Return, Wake
  <2> QED BY <2>1 DEF StatusInv, StatusIsTrue
<1>4. CASE connected
  BY <1>4 DEF StatusInv, StatusIsTrue, connected
<1>5. CASE disconnected
  BY <1>5 DEF StatusInv, StatusIsTrue, disconnected
<1>6. ASSUME NEW d \in Durations, AttemptFails(d) \/ SessionEnds(d) \/ SessionPanics(d)
      PROVE  StatusInv'
  BY <1>6 DEF StatusInv, StatusIsTrue, AttemptFails, SessionEnds, SessionPanics, Recovered
<1>7. CASE Stop \/ cmdEnroll \/ UNCHANGED agentVars
  BY <1>7 DEF StatusInv, StatusIsTrue, Stop, cmdEnroll, agentVars
<1> QED BY <1>1, <1>2, <1>3, <1>4, <1>5, <1>6, <1>7 DEF AgentNext, Round

\* agentState: `beacon status` reports a tunnel while there is one, and a retry
\* only while one lies ahead, through failed attempts, panics, stops and restarts,
\* whatever the backoff and however long rounds last.
THEOREM StatusTrue == AgentSpec => []StatusIsTrue
<1>1. AgentInit => StatusInv
  BY DEF AgentInit, StatusInv, StatusIsTrue, newAgentState, agentState
<1>2. StatusInv => StatusIsTrue
  BY DEF StatusInv
<1> QED BY <1>1, <1>2, StatusStep, PTL DEF AgentSpec

\* The supervisor's variables keep their types; of the backoff: never below
\* minBackoff and never above maxBackoff, whatever they are.
THEOREM AgentTypeCorrect == AgentSpec => []AgentTypeOK
<1> USE AgentAssumptions
<1>1. ASSUME AgentInit PROVE AgentTypeOK
  BY <1>1 DEF AgentInit, AgentTypeOK, newAgentState, agentState, Assertions
<1>2. ASSUME AgentTypeOK, [AgentNext]_agentVars PROVE AgentTypeOK'
  <2> USE <1>2
  <2>1. CASE runAgent
    <3>1. status' \in agentState
      BY <2>1 DEF agentState, runAgent, newAgentState
    <3>2. backoff' \in MinBackoff .. MaxBackoff /\ streak' \in Nat
      BY <2>1 DEF runAgent
    <3> QED BY <2>1, <3>1, <3>2 DEF AgentTypeOK, runAgent
  <2>2. CASE BeginAttempt \/ Return
    <3>1. status' \in agentState
      BY <2>2 DEF AgentTypeOK, agentState, BeginAttempt, Connecting, Return
    <3> QED BY <2>2, <3>1 DEF AgentTypeOK, BeginAttempt, Return
  <2>3. CASE connected
    BY <2>3 DEF AgentTypeOK, agentState, connected
  <2>4. CASE disconnected
    <3>1. status' \in agentState
      BY <2>4 DEF agentState, disconnected
    <3>2. backoff' \in MinBackoff .. MaxBackoff /\ streak' \in Nat
      BY <2>4 DEF AgentTypeOK, disconnected, ResetBackoff
    <3> QED BY <2>4, <3>1, <3>2 DEF AgentTypeOK, disconnected
  <2>5. CASE Wake
    <3>1. backoff' \in MinBackoff .. MaxBackoff
      BY <2>5 DEF AgentTypeOK, Wake, Doubled
    <3>2. streak' \in Nat
      BY <2>5 DEF AgentTypeOK, Wake
    <3> QED BY <2>5, <3>1, <3>2 DEF AgentTypeOK, Wake
  <2>6. ASSUME NEW d \in Durations, AttemptFails(d) \/ SessionEnds(d) \/ SessionPanics(d)
        PROVE  AgentTypeOK'
    BY <2>6 DEF AgentTypeOK, AttemptFails, SessionEnds, SessionPanics, Recovered
  <2>7. CASE Stop \/ UNCHANGED agentVars
    BY <2>7 DEF AgentTypeOK, Stop, agentVars
  <2>8. CASE cmdEnroll
    <3>1. disk' \in Assertions
      BY <2>8 DEF AgentTypeOK, cmdEnroll, Assertions
    <3> QED BY <2>8, <3>1 DEF AgentTypeOK, cmdEnroll
  <2> QED BY <2>1, <2>2, <2>3, <2>4, <2>5, <2>6, <2>7, <2>8 DEF AgentNext, Round
<1> QED BY <1>1, <1>2, PTL DEF AgentSpec

\* The provers know of 2^n that it counts the subsets of 1 .. n.
LEMMA CountsSubsets ==
  ASSUME NEW n \in Nat
  PROVE  /\ IsFiniteSet(SUBSET (1 .. n))
         /\ Cardinality(SUBSET (1 .. n)) = 2^n
         /\ 2^n \in Nat
<1>1. IsFiniteSet(1 .. n) /\ Cardinality(1 .. n) = n
  BY FS_Interval
<1>2. IsFiniteSet(SUBSET (1 .. n)) /\ Cardinality(SUBSET (1 .. n)) = 2^n
  BY <1>1, FS_SUBSET
<1> QED BY <1>2, FS_CardinalityType

LEMMA PowerOfZero == 2^0 = 1
<1>1. Cardinality(SUBSET (1 .. 0)) = 2^0
  BY CountsSubsets
<1>2. SUBSET (1 .. 0) = {{}}
  OBVIOUS
<1> QED BY <1>1, <1>2, FS_Singleton

\* Half of the subsets of 1 .. n + 1 do without n + 1, the others are those with it.
LEMMA PowerDoubles ==
  ASSUME NEW n \in Nat
  PROVE  2^(n + 1) = 2 * 2^n
<1> DEFINE S == SUBSET (1 .. n)
           With(x) == x \cup {n + 1}
           T == {With(x) : x \in S}
           f == [x \in S |-> With(x)]
<1>1. SUBSET (1 .. (n + 1)) = S \cup T
  <2>1. ASSUME NEW y \in SUBSET (1 .. (n + 1)) PROVE y \in S \cup T
    <3>1. CASE n + 1 \in y
      <4>1. y \ {n + 1} \in S
        OBVIOUS
      <4>2. y = With(y \ {n + 1})
        BY <3>1
      <4> QED BY <4>1, <4>2
    <3>2. CASE n + 1 \notin y
      BY <3>2
    <3> QED BY <3>1, <3>2
  <2>2. ASSUME NEW x \in S PROVE x \subseteq 1 .. (n + 1) /\ With(x) \subseteq 1 .. (n + 1)
    OBVIOUS
  <2>3. S \cup T \subseteq SUBSET (1 .. (n + 1))
    BY <2>2
  <2> HIDE DEF S, T
  <2> QED BY <2>1, <2>3
<1>2. S \cap T = {}
  OBVIOUS
<1>3. ExistsBijection(S, T)
  <2>1. f \in [S -> T]
    OBVIOUS
  <2>2. ASSUME NEW x \in S, NEW y \in S, With(x) = With(y) PROVE x = y
    <3>1. n + 1 \notin x /\ n + 1 \notin y
      OBVIOUS
    <3> QED BY <2>2, <3>1
  <2>3. f \in Injection(S, T)
    BY <2>1, <2>2 DEF Injection, IsInjective
  <2>4. f \in Surjection(S, T)
    BY <2>1 DEF Surjection
  <2> QED BY <2>3, <2>4 DEF ExistsBijection, Bijection
<1>4. IsFiniteSet(S) /\ Cardinality(S) = 2^n /\ 2^n \in Nat
  BY CountsSubsets
<1>5. IsFiniteSet(T) /\ Cardinality(T) = 2^n
  BY <1>3, <1>4, FS_Bijection
<1>6. Cardinality(S \cup T) = 2^n + 2^n - Cardinality(S \cap T)
  BY <1>4, <1>5, FS_Union
<1>7. Cardinality(SUBSET (1 .. (n + 1))) = 2^(n + 1)
  BY CountsSubsets
<1>8. Cardinality(S \cap T) = 0
  BY <1>2, FS_EmptySet
<1> HIDE DEF S, T
<1>9. 2^(n + 1) = 2^n + 2^n - 0
  BY <1>1, <1>6, <1>7, <1>8
<1> QED BY <1>4, <1>9

\* The delay that textbook exponential backoff has after n sleeps.
Delay(n) == IF MinBackoff * 2^n < MaxBackoff THEN MinBackoff * 2^n ELSE MaxBackoff

\* The loop's local variable is that delay in every phase, not only in a sleep.
BackoffInv == streak \in Nat /\ backoff = Delay(streak)

\* min(backoff*2, maxBackoff) takes one textbook delay to the next, or both stay.
LEMMA DoublingIsNext ==
  ASSUME BackoffInv
  PROVE  Doubled = Delay(IF MinBackoff * 2^streak < MaxBackoff THEN streak + 1 ELSE streak)
<1> DEFINE m == MinBackoff * 2^streak
<1>1. m \in Nat /\ MaxBackoff \in Nat \ {0}
  <2>1. 2^streak \in Nat
    BY CountsSubsets DEF BackoffInv
  <2> QED BY <2>1, AgentAssumptions
<1>2. MinBackoff * 2^(streak + 1) = 2 * m
  <2>1. 2^(streak + 1) = 2 * 2^streak /\ 2^streak \in Nat
    BY PowerDoubles, CountsSubsets DEF BackoffInv
  <2>2. \A a, b \in Nat : a * (2 * b) = 2 * (a * b)
    OBVIOUS
  <2> QED BY <2>1, <2>2, AgentAssumptions
<1> HIDE DEF m
<1>3. CASE m < MaxBackoff
  BY <1>1, <1>2, <1>3 DEF BackoffInv, Delay, Doubled, m
<1>4. CASE ~ (m < MaxBackoff)
  BY <1>1, <1>4 DEF BackoffInv, Delay, Doubled, m
<1> QED BY <1>3, <1>4

\* superviseSessions waits as exponential backoff says: for all values of minBackoff
\* and maxBackoff, powers of two of each other or not, and after any number of
\* failed rounds.
THEOREM BackoffExponential == AgentSpec => []BackoffIsExponential
<1>1. Delay(0) = MinBackoff
  BY PowerOfZero, AgentAssumptions DEF Delay
<1>2. AgentInit => BackoffInv
  BY <1>1 DEF AgentInit, BackoffInv
<1>3. ASSUME BackoffInv, [AgentNext]_agentVars PROVE BackoffInv'
  <2> USE <1>3
  <2>1. CASE runAgent
    BY <1>1, <2>1 DEF runAgent, BackoffInv
  <2>2. CASE disconnected
    BY <1>1, <2>2 DEF disconnected, ResetBackoff, BackoffInv
  <2>3. CASE Wake
    BY <2>3, DoublingIsNext DEF Wake, BackoffInv
  <2>4. CASE UNCHANGED <<backoff, streak>>
    BY <2>4 DEF BackoffInv
  <2> QED BY <2>1, <2>2, <2>3, <2>4
          DEF AgentNext, Round, BeginAttempt, Return, connected, AttemptFails, SessionEnds,
              SessionPanics, Stop, cmdEnroll, agentVars
<1>4. BackoffInv => BackoffIsExponential
  BY DEF BackoffInv, Delay, BackoffIsExponential
<1> QED BY <1>2, <1>3, <1>4, PTL DEF AgentSpec
-----------------------------------------------------------------------------
(* The two ends together. *)

\* What each end may assume of the other: a request the relay knows was made, the
\* agent holds one only while it is in a round, and is in a session only if the
\* relay has seen its request.
EndsInv ==
  /\ mine \in Sessions \cup {NoSession}
  /\ wire \in [Sessions -> {"unused", "up", "cut"}]
  /\ \A s \in Sessions : wire[s] = "unused" => pc[s] = "free"
  /\ mine # NoSession => phase \in {"attempt", "session"} /\ wire[mine] # "unused"
  /\ phase = "session" => mine # NoSession /\ pc[mine] # "free"

TunnelInv == IInv /\ EndsInv

\* Seen from the supervisor, everything else in Tunnel is somebody else's step.
LEMMA AgentsShare == ASSUME [TunnelNext]_tunnelVars PROVE [AgentNext]_agentVars
<1>1. ASSUME NEW s \in Sessions, NEW d \in Durations, GiveUp(s, d) \/ AgentNotices(s, d)
      PROVE  AgentNext
  BY <1>1 DEF GiveUp, AgentNotices, AgentNext, Round
<1>2. ASSUME NEW s \in Sessions, Upgraded(s) PROVE AgentNext
  BY <1>2 DEF Upgraded, AgentNext, Round
<1>3. CASE Supervise
  BY <1>3 DEF Supervise, AgentNext, Round
<1>4. CASE \/ Relay \/ RelayRestarts \/ UNCHANGED tunnelVars
           \/ \E s \in Sessions : Dial(s) \/ Admit(s) \/ RelayNotices(s) \/ Cut(s)
  BY <1>4 DEF Relay, RelayRestarts, tunnelVars, Dial, Admit, RelayNotices, Cut
<1> QED BY <1>1, <1>2, <1>3, <1>4 DEF TunnelNext

LEMMA RelayOwn == ASSUME Relay PROVE Next
<1>1. ASSUME NEW s \in Sessions, serveSession(s) \/ CloseStale(s) PROVE Next
  BY <1>1 DEF Next
<1>2. ASSUME NEW o \in Operators, Lookup(o, Agent1, "kick") \/ CloseKicked(o) PROVE Next
  BY <1>2, TunnelAssumption DEF Next, Request
<1> QED BY <1>1, <1>2 DEF Relay

\* Seen from the registry, everything but a restart is one of its own steps.
LEMMA RelaysShare == ASSUME [TunnelNext]_tunnelVars PROVE [Next]_vars \/ RelayRestarts
<1>1. ASSUME NEW s \in Sessions, Admit(s) PROVE Next
  BY <1>1 DEF Admit, Next
<1>2. ASSUME NEW s \in Sessions, RelayNotices(s) PROVE Next
  BY <1>2 DEF RelayNotices, Next
<1>3. CASE Relay
  BY <1>3, RelayOwn
<1>4. CASE Supervise \/ UNCHANGED tunnelVars
  BY <1>4 DEF Supervise, tunnelVars, relayVars
<1>5. ASSUME NEW s \in Sessions,
             Dial(s) \/ Upgraded(s) \/ Cut(s) \/ \E d \in Durations : GiveUp(s, d) \/ AgentNotices(s, d)
      PROVE  UNCHANGED vars
  BY <1>5 DEF Dial, Upgraded, Cut, GiveUp, AgentNotices, relayVars
<1> QED BY <1>1, <1>2, <1>3, <1>4, <1>5 DEF TunnelNext

\* A restarted relay knows nobody: its invariant holds again, because what it has
\* announced was announced of requests that are used up.
LEMMA RestartIInv == ASSUME TunnelInv, RelayRestarts PROVE IInv'
<1> USE NoSessionAssumption DEF TunnelInv, IInv, EndsInv, RelayRestarts
<1>1. TypeOK'
  <2>1. agents' \in [Agents -> agentRec]
    BY DEF agentRec
  <2>2. op' \in [Operators -> [doing : {"nothing", "kick", "open", "stream"},
                               session : Sessions \cup {NoSession}]]
    BY DEF Idle
  <2>3. /\ alive' \in [Sessions -> BOOLEAN]
        /\ pc' \in [Sessions -> {"free", "upgraded", "connected", "accept", "closed",
                                 "lost", "done"}]
        /\ ping' \in [Sessions -> {"none", "measure", "store", "done"}]
    OBVIOUS
  <2> QED BY <2>1, <2>2, <2>3 DEF TypeOK
<1>2. \A a \in Agents : agents'[a].session = NoSession /\ agents'[a].online = FALSE
  OBVIOUS
<1>3. \A s \in Sessions : /\ owner'[s] \in Agents /\ ~ alive'[s]
                          /\ pc'[s] \in {"free", "done"} /\ (pc[s] = "done" => pc'[s] = "done")
  BY DEF TypeOK
<1>4. OnlineIsWatched' /\ WatchedIsOnline'
  BY <1>2, <1>3 DEF OnlineIsWatched, WatchedIsOnline
<1>5. NoLeakedSession' /\ PastAcceptIsDead'
  BY <1>3 DEF NoLeakedSession, PastAcceptIsDead
<1>6. EndIsAnnounced'
  BY <1>2, <1>3 DEF EndIsAnnounced, IsCurrent
<1>7. AnnouncedIsDone'
  BY <1>3 DEF AnnouncedIsDone
<1> QED BY <1>1, <1>4, <1>5, <1>6, <1>7

\* A request that was made is never made again, and a goroutine never starts over.
LEMMA NeverFreeAgain ==
  ASSUME TypeOK, [Next]_vars, NEW s \in Sessions, pc[s] # "free"
  PROVE  pc'[s] # "free"
BY DEF TypeOK, Next, vars, handleAgentConnect, serveSession, Connect, PublishConnected, AcceptFails,
       Disconnect, PublishDisconnected, CloseStale, TunnelBreaks, pingLoop, PingAnswers, PingFails,
       StoreRTT, Request, Lookup, CloseKicked, OpenStream, StreamEnds

LEMMA EndsStep == ASSUME TunnelInv, [TunnelNext]_tunnelVars PROVE EndsInv'
<1> USE NoSessionAssumption DEF TunnelInv, IInv, EndsInv
<1>1. CASE Supervise
  BY <1>1 DEF Supervise, runAgent, BeginAttempt, disconnected, Wake, relayVars, vars
<1>2. ASSUME NEW s \in Sessions, Dial(s) PROVE EndsInv'
  BY <1>2 DEF Dial, relayVars, vars, agentVars
<1>3. ASSUME NEW s \in Sessions, Admit(s) PROVE EndsInv'
  BY <1>3 DEF Admit, handleAgentConnect, agentVars, TypeOK
<1>4. ASSUME NEW s \in Sessions, Upgraded(s) PROVE EndsInv'
  BY <1>4 DEF Upgraded, connected, relayVars, vars
<1>5. ASSUME NEW s \in Sessions, NEW d \in Durations, GiveUp(s, d) \/ AgentNotices(s, d)
      PROVE  EndsInv'
  BY <1>5 DEF GiveUp, AgentNotices, AttemptFails, SessionEnds, relayVars, vars
<1>6. ASSUME NEW s \in Sessions, RelayNotices(s) \/ Cut(s) PROVE EndsInv'
  BY <1>6 DEF RelayNotices, TunnelBreaks, Cut, agentVars, relayVars, vars
<1>7. CASE Relay
  <2>1. UNCHANGED <<agentVars, mine, wire>> /\ [Next]_vars
    BY <1>7, RelayOwn DEF Relay
  <2>2. \A s \in Sessions : pc[s] # "free" => pc'[s] # "free"
    BY <2>1, NeverFreeAgain
  <2>3. \A s \in Sessions : pc[s] = "free" => pc'[s] = "free"
    BY <1>7 DEF TypeOK, Relay, serveSession, Connect, PublishConnected, AcceptFails, Disconnect,
                PublishDisconnected, CloseStale, Lookup, CloseKicked
  <2> QED BY <2>1, <2>2, <2>3 DEF agentVars
<1>8. CASE RelayRestarts
  BY <1>8 DEF RelayRestarts, agentVars, TypeOK
<1>9. CASE UNCHANGED tunnelVars
  BY <1>9 DEF tunnelVars, relayVars, vars, agentVars
<1> QED BY <1>1, <1>2, <1>3, <1>4, <1>5, <1>6, <1>7, <1>8, <1>9 DEF TunnelNext

LEMMA AlwaysTunnelInv == TunnelSpec => []TunnelInv
<1>1. TunnelInit => TunnelInv
  BY InitIInv, NoSessionAssumption DEF TunnelInit, TunnelInv, EndsInv, Init, AgentInit
<1>2. ASSUME TunnelInv, [TunnelNext]_tunnelVars PROVE TunnelInv'
  <2>1. IInv'
    BY <1>2, RelaysShare, NextIInv, RestartIInv DEF TunnelInv
  <2> QED BY <1>2, <2>1, EndsStep DEF TunnelInv
<1> QED BY <1>1, <1>2, PTL DEF TunnelSpec

\* Tunnel is an implementation of Agent: the network and the relay only decide
\* which of the supervisor's own steps happen, and when.
THEOREM TunnelImplementsAgent == TunnelSpec => AgentSpec
<1>1. TunnelInit => AgentInit
  BY DEF TunnelInit
<1> QED BY <1>1, AgentsShare, PTL DEF TunnelSpec, AgentSpec

\* Both ends and the wires between them keep their types.
THEOREM TunnelTypeCorrect == TunnelSpec => []TunnelTypeOK
<1>1. TunnelInv /\ AgentTypeOK => TunnelTypeOK
  BY DEF TunnelInv, IInv, EndsInv, TunnelTypeOK
<1> QED BY <1>1, AlwaysTunnelInv, TunnelImplementsAgent, AgentTypeCorrect, PTL

\* What the registry promises of its goroutines, its sessions and its feed it also
\* keeps through restarts, with requests that arrive late.
THEOREM RestartsAreSafe == TunnelSpec => [](OnlineIsWatched /\ NoLeakedSession /\ EndIsAnnounced)
<1>1. TunnelInv => OnlineIsWatched /\ NoLeakedSession /\ EndIsAnnounced
  BY DEF TunnelInv, IInv
<1> QED BY <1>1, AlwaysTunnelInv, PTL

\* An agent in a tunnel that the relay keeps open is reached through it, will be as
\* soon as serveSession has registered it, or is about to be cut off and dial again.
THEOREM NotStranded == TunnelSpec => []NeverStranded
<1>1. TunnelInv => NeverStranded
  <2> SUFFICES ASSUME TunnelInv, phase = "session", alive[mine]
               PROVE  pc[mine] = "upgraded" \/ IsCurrent(mine) \/ mine \in closing
    BY DEF NeverStranded
  <2>1. mine \in Sessions /\ pc[mine] # "free"
    BY DEF TunnelInv, EndsInv
  <2> QED BY <2>1 DEF TunnelInv, IInv, NoLeakedSession, Registered
<1> QED BY <1>1, AlwaysTunnelInv, PTL
=============================================================================
