--------------------------- MODULE StreamsProofs ----------------------------
(***************************************************************************)
(* Proofs about the streams of a tunnel. AgentStreams: for buffers of any  *)
(* size, any amount of traffic and any timeouts, what a handler leaves     *)
(* behind, what a client has when it is told the end, and which of two     *)
(* clocks ends a command. Feed, over the one stream the agent opens        *)
(* itself: for queues, backlogs and channels of any size and any number of *)
(* pages, that a failed write silences nobody and that an open page has no *)
(* gap.                                                                    *)
(***************************************************************************)
EXTENDS AgentStreams, Feed, FiniteSetTheorems, SequenceTheorems, TLAPS

\* Nothing moves before the far end is open.
AskedInv ==
  /\ kind = "rpc" => phase = "none"
  /\ phase = "asked" =>
       /\ prog = "run" /\ ~ holder /\ handle /\ {"agentUp", "agentDown"} \subseteq pump
       /\ \A h \in Hops : q[h] = 0
       /\ wrote = 0 /\ got = 0

\* The chunks of output somewhere between the program and the client's screen,
\* and those that have arrived: never more than were written.
Accounted == got + q["wd"] + q["sd"] + q["out"]

\* Which of its two copies takes a handler's program or connection with it.
ReapInv ==
  phase = "open" =>
    /\ kind = "pty" /\ "agentUp" \notin pump => ~ handle /\ prog # "run"
    /\ kind = "sshpty" /\ "agentDown" \notin pump => ~ handle /\ prog # "run"
    /\ kind = "command" /\ ~ handle => prog # "run"
    /\ kind = "forward" /\ ~ ({"agentUp", "agentDown"} \subseteq pump) => ~ handle

\* Somebody who could notice a loss.
Watched == client # "gone" /\ ~ reset

\* Before the exit nobody closes anything; after it the agent closes behind the
\* last of the output, when nobody is left to write more, and the relay behind
\* the agent.
OrderInv ==
  Watched =>
    /\ prog = "run" => closed = {} /\ ws /\ handle /\ "agentDown" \in pump /\ ~ exitSent
    /\ prog = "exited" /\ ~ late =>
         /\ q["wu"] = 0 /\ q["su"] = 0
         /\ closed # {} \/ ~ handle \/ "agentDown" \notin pump \/ exitSent =>
              q["out"] = 0 /\ ~ (handle /\ holder)
         /\ "relay" \in closed \/ ~ ws => q["sd"] = 0 /\ closed # {}
    /\ prog = "run" \/ (prog = "exited" /\ ~ late) => Accounted = wrote

\* The time that has passed went into transit or into a command that keeps its
\* bound, unless its pipes were held.
BoundInv ==
  /\ transit <= now /\ (timeout = 0 => transit = now)
  /\ timeout > 0 =>
       /\ shell # "none" /\ timeout <= maxTimeout
       /\ answer = "none" => began = transit
       /\ overrun \/ now <= transit + timeout
  /\ AgentBoundComesFirst

IInv == StreamsTypeOK /\ AskedInv /\ Accounted <= wrote /\ ReapInv /\ OrderInv /\ BoundInv
-----------------------------------------------------------------------------
StreamInv == TypeOK /\ AskedInv /\ Accounted <= wrote /\ ReapInv /\ OrderInv

\* What the moves of a chunk do to the hops.
LEMMA HopFacts ==
  ASSUME q \in [Hops -> 0..Cap]
  PROVE  /\ \A h \in Hops : q[h] \in Nat /\ q[h] <= Cap
         /\ Hops = {"wu", "su", "in", "out", "sd", "wd"}
BY StreamsAssumption DEF Hops

LEMMA MovedFacts ==
  ASSUME q \in [Hops -> 0..Cap], NEW a \in Hops, NEW b \in Hops, a # b,
         q[a] > 0, Room(b), q' = Moved(a, b)
  PROVE  /\ q' \in [Hops -> 0..Cap]
         /\ q'[a] = q[a] - 1 /\ q'[b] = q[b] + 1
         /\ \A h \in Hops \ {a, b} : q'[h] = q[h]
BY StreamsAssumption DEF Moved, Room

LEMMA AddedFacts ==
  ASSUME q \in [Hops -> 0..Cap], NEW h \in Hops, Room(h), q' = [q EXCEPT ![h] = @ + 1]
  PROVE  /\ q' \in [Hops -> 0..Cap] /\ q'[h] = q[h] + 1
         /\ \A g \in Hops \ {h} : q'[g] = q[g]
BY StreamsAssumption DEF Room

LEMMA TakenFacts ==
  ASSUME q \in [Hops -> 0..Cap], NEW h \in Hops, q[h] > 0, q' = [q EXCEPT ![h] = @ - 1]
  PROVE  /\ q' \in [Hops -> 0..Cap] /\ q'[h] = q[h] - 1
         /\ \A g \in Hops \ {h} : q'[g] = q[g]
BY StreamsAssumption

LEMMA DroppedFacts ==
  ASSUME q \in [Hops -> 0..Cap], NEW h \in Hops, q' = Dropped(h)
  PROVE  /\ q' \in [Hops -> 0..Cap] /\ q'[h] = 0
         /\ \A g \in Hops \ {h} : q'[g] = q[g]
BY StreamsAssumption DEF Dropped

\* The client sends, reads and leaves.
LEMMA ClientStep == ASSUME StreamInv, kind # "rpc", Client PROVE StreamInv'
<1>0. q \in [Hops -> 0..Cap] /\ got \in Nat /\ wrote \in Nat /\ Accounted <= wrote /\ StreamInv
  BY DEF StreamInv, TypeOK
<1> USE HopFacts, StreamsAssumption
<1>1. CASE Send
  <2>1. /\ q' \in [Hops -> 0..Cap] /\ q'["wu"] = q["wu"] + 1
        /\ \A h \in Hops \ {"wu"} : q'[h] = q[h]
    BY <1>0, <1>1, AddedFacts DEF Send
  <2>2. TypeOK'
    BY <1>0, <1>1, <2>1 DEF StreamInv, TypeOK, Send
  <2>3. AskedInv' /\ ReapInv'
    BY <1>0, <1>1, <2>1 DEF StreamInv, AskedInv, ReapInv, Send
  <2>4. Accounted' = Accounted /\ wrote' = wrote
    BY <1>0, <1>1, <2>1 DEF Accounted, Send
  <2>5. OrderInv'
    BY <1>0, <1>1, <2>1, <2>4 DEF StreamInv, TypeOK, OrderInv, Watched, Send
  <2> QED BY <1>0, <2>2, <2>3, <2>4, <2>5 DEF StreamInv
<1>2. CASE EndInput
  <2>1. TypeOK' /\ AskedInv' /\ ReapInv' /\ OrderInv' /\ (Accounted <= wrote)'
    BY <1>0, <1>2 DEF StreamInv, TypeOK, AskedInv, ReapInv, OrderInv, Watched, Accounted, EndInput
  <2> QED BY <2>1 DEF StreamInv
<1>3. CASE ClientGoes
  <2>1. TypeOK' /\ AskedInv' /\ ReapInv' /\ OrderInv' /\ (Accounted <= wrote)'
    BY <1>0, <1>3 DEF StreamInv, TypeOK, AskedInv, ReapInv, OrderInv, Watched, Accounted, ClientGoes
  <2> QED BY <2>1 DEF StreamInv
<1>4. CASE Show
  <2>1. /\ q' \in [Hops -> 0..Cap] /\ q'["wd"] = q["wd"] - 1
        /\ \A h \in Hops \ {"wd"} : q'[h] = q[h]
    BY <1>0, <1>4, TakenFacts DEF Show
  <2>2. Accounted' = Accounted /\ wrote' = wrote /\ got' \in 0..wrote
    BY <1>0, <1>4, <2>1 DEF Accounted, Show
  <2>3. TypeOK'
    BY <1>0, <1>4, <2>1, <2>2 DEF StreamInv, TypeOK, Show
  <2>4. AskedInv' /\ ReapInv'
    BY <1>0, <1>4, <2>1 DEF StreamInv, AskedInv, ReapInv, Show
  <2>5. OrderInv'
    BY <1>0, <1>4, <2>1, <2>2 DEF StreamInv, TypeOK, OrderInv, Watched, Show
  <2> QED BY <1>0, <2>2, <2>3, <2>4, <2>5 DEF StreamInv
<1>5. CASE BridgeEnds
  <2>1. /\ q' \in [Hops -> 0..Cap] /\ q'["wd"] = 0
        /\ \A h \in Hops \ {"wd"} : q'[h] = q[h]
    BY <1>0, <1>5, DroppedFacts DEF BridgeEnds
  <2>2. TypeOK'
    BY <1>0, <1>5, <2>1 DEF BridgeEnds, StreamInv, TypeOK
  <2>5. (Accounted <= wrote)'
    BY <1>0, <1>5, <2>1 DEF BridgeEnds, Accounted
  <2>3. AskedInv' /\ ReapInv'
    BY <1>0, <1>5, <2>1 DEF StreamInv, AskedInv, ReapInv, BridgeEnds
  <2>4. OrderInv'
    BY <1>5 DEF OrderInv, Watched, BridgeEnds
  <2> QED BY <2>2, <2>3, <2>4, <2>5 DEF StreamInv
<1>6. CASE SshClientDone
  <2>1. TypeOK' /\ AskedInv' /\ ReapInv' /\ OrderInv' /\ (Accounted <= wrote)'
    BY <1>0, <1>6 DEF StreamInv, TypeOK, AskedInv, ReapInv, OrderInv, Watched, Accounted, SshClientDone
  <2> QED BY <2>1 DEF StreamInv
<1> QED BY <1>1, <1>2, <1>3, <1>4, <1>5, <1>6 DEF Client

\* The relay copies, closes and returns.
LEMMA RelayStep == ASSUME StreamInv, kind # "rpc", Relay PROVE StreamInv'
<1>0. q \in [Hops -> 0..Cap] /\ got \in Nat /\ wrote \in Nat /\ Accounted <= wrote /\ StreamInv
  BY DEF StreamInv, TypeOK
<1> USE HopFacts, StreamsAssumption
<1>1. CASE RelayUp
  <2>1. /\ q' \in [Hops -> 0..Cap] /\ q'["wu"] = q["wu"] - 1 /\ q'["su"] = q["su"] + 1
        /\ \A h \in Hops \ {"wu", "su"} : q'[h] = q[h]
    BY <1>0, <1>1, MovedFacts DEF RelayUp
  <2>2. TypeOK'
    BY <1>0, <1>1, <2>1 DEF StreamInv, TypeOK, RelayUp
  <2>3. AskedInv' /\ ReapInv'
    BY <1>0, <1>1, <2>1 DEF StreamInv, AskedInv, ReapInv, RelayUp
  <2>4. Accounted' = Accounted /\ wrote' = wrote
    BY <1>0, <1>1, <2>1 DEF Accounted, RelayUp
  <2>5. OrderInv'
    BY <1>0, <1>1, <2>1, <2>4 DEF StreamInv, OrderInv, Watched, RelayUp
  <2> QED BY <1>0, <2>2, <2>3, <2>4, <2>5 DEF StreamInv
<1>2. CASE RelayUpEnds
  <2>1. TypeOK'
    BY <1>0, <1>2 DEF StreamInv, TypeOK, RelayUpEnds, ClosesStream
  <2>2. AskedInv' /\ ReapInv'
    BY <1>0, <1>2 DEF StreamInv, AskedInv, ReapInv, RelayUpEnds
  <2>3. Accounted' = Accounted /\ wrote' = wrote
    BY <1>2 DEF Accounted, RelayUpEnds
  <2>4. OrderInv'
    BY <1>0, <1>2, <2>3 DEF StreamInv, OrderInv, Watched, RelayUpEnds, ClosesStream, WriteFails
  <2> QED BY <1>0, <2>1, <2>2, <2>3, <2>4 DEF StreamInv
<1>3. CASE RelayDown
  <2>1. /\ q' \in [Hops -> 0..Cap] /\ q'["sd"] = q["sd"] - 1 /\ q'["wd"] = q["wd"] + 1
        /\ \A h \in Hops \ {"sd", "wd"} : q'[h] = q[h]
    BY <1>0, <1>3, MovedFacts DEF RelayDown
  <2>2. TypeOK'
    BY <1>0, <1>3, <2>1 DEF StreamInv, TypeOK, RelayDown
  <2>3. AskedInv' /\ ReapInv'
    BY <1>0, <1>3, <2>1 DEF StreamInv, AskedInv, ReapInv, RelayDown
  <2>4. Accounted' = Accounted /\ wrote' = wrote
    BY <1>0, <1>3, <2>1 DEF Accounted, RelayDown
  <2>5. OrderInv'
    BY <1>0, <1>3, <2>1, <2>4 DEF StreamInv, OrderInv, Watched, RelayDown
  <2> QED BY <1>0, <2>2, <2>3, <2>4, <2>5 DEF StreamInv
<1>4. CASE RelayReturns
  <2>1. /\ q' \in [Hops -> 0..Cap] /\ q'["wd"] \in {q["wd"], 0}
        /\ q["wu"] = 0 => q' = q
        /\ \A h \in Hops \ {"wd"} : q'[h] = q[h]
    BY <1>0, <1>4, DroppedFacts DEF RelayReturns
  <2>2. TypeOK'
    BY <1>0, <1>4, <2>1 DEF StreamInv, TypeOK, RelayReturns
  <2>3. AskedInv' /\ ReapInv'
    BY <1>0, <1>4, <2>1 DEF StreamInv, AskedInv, ReapInv, RelayReturns
  <2>4. (Accounted <= wrote)'
    BY <1>0, <1>4, <2>1 DEF Accounted, RelayReturns
  <2>5. SUFFICES ASSUME Watched' PROVE OrderInv'
    BY <2>2, <2>3, <2>4 DEF OrderInv, StreamInv
  <2>6. Watched /\ prog' = prog /\ prog # "run"
    BY <1>0, <1>4, <2>5 DEF StreamInv, OrderInv, Watched, RelayReturns, ReadEnds
  <2>7. SUFFICES ASSUME prog = "exited", ~ late PROVE OrderInv'
    BY <1>4, <2>6 DEF OrderInv, RelayReturns
  <2>8. q' = q /\ q["sd"] = 0 /\ q["out"] = 0 /\ ~ (handle /\ holder)
    BY <1>0, <1>4, <2>1, <2>6, <2>7 DEF StreamInv, OrderInv, RelayReturns, ReadEnds, Watched
  <2>9. Accounted' = Accounted
    BY <1>4, <2>8 DEF Accounted, RelayReturns
  <2> QED BY <1>0, <1>4, <2>6, <2>7, <2>8, <2>9 DEF StreamInv, OrderInv, RelayReturns
<1> QED BY <1>1, <1>2, <1>3, <1>4 DEF Relay

\* The program, and the tunnel under everybody.
LEMMA ProgramStep ==
  ASSUME StreamInv, kind # "rpc", Program \/ StreamReset \/ TunnelDies
  PROVE  StreamInv'
<1>0. q \in [Hops -> 0..Cap] /\ got \in Nat /\ wrote \in Nat /\ Accounted <= wrote /\ StreamInv
  BY DEF StreamInv, TypeOK
<1> USE HopFacts, StreamsAssumption
<1>1. CASE ProgReads
  <2>1. /\ q' \in [Hops -> 0..Cap]
        /\ \A h \in Hops \ {"in"} : q'[h] = q[h]
    BY <1>0, <1>1, TakenFacts DEF ProgReads
  <2>2. TypeOK'
    BY <1>0, <1>1, <2>1 DEF StreamInv, TypeOK, ProgReads
  <2>3. AskedInv' /\ ReapInv'
    BY <1>0, <1>1, <2>1 DEF StreamInv, AskedInv, ReapInv, ProgReads
  <2>4. Accounted' = Accounted /\ wrote' = wrote
    BY <1>0, <1>1, <2>1 DEF Accounted, ProgReads
  <2>5. OrderInv'
    BY <1>0, <1>1, <2>1, <2>4 DEF StreamInv, OrderInv, Watched, ProgReads
  <2> QED BY <1>0, <2>2, <2>3, <2>4, <2>5 DEF StreamInv
<1>2. CASE ProgWrites
  <2>1. /\ q' \in [Hops -> 0..Cap] /\ q'["out"] = q["out"] + 1
        /\ \A h \in Hops \ {"out"} : q'[h] = q[h]
    BY <1>0, <1>2, AddedFacts DEF ProgWrites
  <2>2. TypeOK'
    BY <1>0, <1>2, <2>1 DEF StreamInv, TypeOK, ProgWrites
  <2>3. AskedInv' /\ ReapInv'
    BY <1>0, <1>2, <2>1 DEF StreamInv, AskedInv, ReapInv, ProgWrites
  <2>4. Accounted' = Accounted + 1 /\ wrote' = wrote + 1 /\ Accounted \in Nat
    BY <1>0, <1>2, <2>1 DEF Accounted, ProgWrites
  <2>5. OrderInv'
    BY <1>0, <1>2, <2>1, <2>4 DEF StreamInv, OrderInv, Watched, ProgWrites, Alive
  <2> QED BY <1>0, <2>2, <2>3, <2>4, <2>5 DEF StreamInv
<1>3. CASE ProgExits
  <2>0. late' \in BOOLEAN
    BY <1>0, <1>3 DEF StreamInv, TypeOK, ProgExits
  <2>1. TypeOK'
    BY <1>0, <1>3, <2>0 DEF StreamInv, TypeOK, ProgExits
  <2>2. AskedInv' /\ ReapInv'
    BY <1>0, <1>3 DEF StreamInv, AskedInv, ReapInv, ProgExits
  <2>3. Accounted' = Accounted /\ wrote' = wrote
    BY <1>3 DEF Accounted, ProgExits
  <2>4. ~ late' => q["wu"] = 0 /\ q["su"] = 0
    <3>1. q["wu"] + q["su"] + q["in"] > 0 => late'
      BY <1>3 DEF ProgExits
    <3> QED BY <1>0, <3>1
  <2>5. OrderInv'
    BY <1>0, <1>3, <2>3, <2>4 DEF StreamInv, OrderInv, Watched, ProgExits
  <2> QED BY <1>0, <2>1, <2>2, <2>3, <2>5 DEF StreamInv
<1>4. CASE StreamReset \/ TunnelDies
  <2>1. TypeOK'
    BY <1>0, <1>4 DEF StreamInv, TypeOK, StreamReset, TunnelDies
  <2>2. AskedInv' /\ ReapInv'
    BY <1>0, <1>4 DEF StreamInv, AskedInv, ReapInv, StreamReset, TunnelDies
  <2>3. Accounted' = Accounted /\ wrote' = wrote
    BY <1>4 DEF Accounted, StreamReset, TunnelDies
  <2>4. OrderInv'
    BY <1>4 DEF OrderInv, Watched, StreamReset, TunnelDies
  <2> QED BY <1>0, <2>1, <2>2, <2>3, <2>4 DEF StreamInv
<1>5. CASE ProgForks \/ HolderEnds
  <2>1. TypeOK'
    BY <1>0, <1>5 DEF StreamInv, TypeOK, ProgForks, HolderEnds
  <2>2. AskedInv' /\ ReapInv'
    BY <1>0, <1>5 DEF StreamInv, AskedInv, ReapInv, ProgForks, HolderEnds
  <2>3. Accounted' = Accounted /\ wrote' = wrote
    BY <1>5 DEF Accounted, ProgForks, HolderEnds
  <2>4. OrderInv'
    BY <1>0, <1>5, <2>3 DEF StreamInv, OrderInv, Watched, ProgForks, HolderEnds
  <2> QED BY <1>0, <2>1, <2>2, <2>3, <2>4 DEF StreamInv
<1> QED BY <1>1, <1>2, <1>3, <1>4, <1>5 DEF Program

\* The agent's handler opens, copies, and ends.
LEMMA HandlerStep == ASSUME StreamInv, kind # "rpc", Handler PROVE StreamInv'
<1>0. q \in [Hops -> 0..Cap] /\ got \in Nat /\ wrote \in Nat /\ Accounted <= wrote /\ StreamInv
  BY DEF StreamInv, TypeOK
<1> USE HopFacts, StreamsAssumption
<1>1. CASE Opens
  <2>1. TypeOK'
    BY <1>0, <1>1 DEF StreamInv, TypeOK, Opens
  <2>2. AskedInv' /\ ReapInv'
    BY <1>0, <1>1 DEF StreamInv, AskedInv, ReapInv, Opens
  <2>3. Accounted' = Accounted /\ wrote' = wrote
    BY <1>1 DEF Accounted, Opens
  <2>4. OrderInv'
    BY <1>0, <1>1, <2>3 DEF StreamInv, OrderInv, Watched, Opens
  <2> QED BY <1>0, <2>1, <2>2, <2>3, <2>4 DEF StreamInv
<1>2. CASE Refuses
  <2>1. /\ wrote = 0 /\ got = 0 /\ \A h \in Hops : q[h] = 0
        /\ prog = "run" /\ {"agentUp", "agentDown"} \subseteq pump
    BY <1>0, <1>2 DEF StreamInv, AskedInv, Refuses, NotServed
  <2>2. /\ q' \in [Hops -> 0..Cap] /\ q'["sd"] = IF reset THEN 0 ELSE 1
        /\ \A h \in Hops \ {"sd"} : q'[h] = 0
    BY <1>0, <1>2, <2>1 DEF Refuses
  <2>3. got' = 0 /\ wrote' = 1 /\ Accounted' = IF reset THEN 0 ELSE 1
    BY <1>2, <2>1, <2>2 DEF Refuses, NotServed, Accounted
  <2>4. TypeOK'
    <3>1. exitSent' \in BOOLEAN /\ closed' \subseteq {"relay", "agent"}
      BY <1>0, <1>2 DEF StreamInv, TypeOK, Refuses
    <3>2. /\ kind' = kind /\ phase' = "open" /\ client' = client /\ ws' = ws /\ reset' = reset
          /\ late' = late /\ handle' = FALSE /\ prog' = "exited" /\ sent' = sent
          /\ pump' \subseteq pump /\ holder' = holder
      BY <1>2 DEF Refuses, NotServed
    <3>3. {ws', reset', holder', handle', exitSent', late'} \subseteq BOOLEAN
      BY <1>0, <3>1, <3>2 DEF StreamInv, TypeOK
    <3>4. q' \in [Hops -> 0..Cap] /\ wrote' \in 0..MaxOut /\ got' \in 0..wrote'
      BY <2>2, <2>3
    <3>5. /\ kind' \in {"pty", "rpc"} \cup Bridged /\ client' \in {"here", "eof", "gone"}
          /\ pump' \subseteq Pumps /\ sent' \in 0..MaxIn
      BY <1>0, <3>2 DEF StreamInv, TypeOK
    <3> QED BY <3>1, <3>2, <3>3, <3>4, <3>5 DEF TypeOK
  <2>5. AskedInv' /\ ReapInv'
    BY <1>0, <1>2 DEF StreamInv, AskedInv, ReapInv, Refuses, NotServed
  <2>6. SUFFICES ASSUME Watched' PROVE OrderInv'
    BY <2>3, <2>4, <2>5 DEF OrderInv, StreamInv
  <2>7. ~ reset /\ ws' /\ closed = {} /\ "relay" \notin closed'
    BY <1>0, <1>2, <2>1, <2>6 DEF StreamInv, OrderInv, Watched, Refuses, NotServed
  <2>8. prog' = "exited" /\ ~ handle' /\ Accounted' = wrote'
    BY <1>2, <2>3, <2>7 DEF Refuses, NotServed
  <2>9. q'["wu"] = 0 /\ q'["su"] = 0 /\ q'["out"] = 0
    BY <2>2 DEF Hops
  <2> QED BY <2>7, <2>8, <2>9 DEF OrderInv
<1>9. CASE handleSSHFails
  <2>1. TypeOK'
    BY <1>0, <1>9 DEF StreamInv, TypeOK, handleSSHFails, NotServed
  <2>2. AskedInv' /\ ReapInv'
    BY <1>0, <1>9 DEF StreamInv, AskedInv, ReapInv, handleSSHFails, NotServed
  <2>3. Accounted' = Accounted /\ wrote' = wrote
    BY <1>9 DEF Accounted, handleSSHFails, NotServed
  <2>4. \A h \in Hops : q'[h] = 0
    BY <1>0, <1>9 DEF StreamInv, AskedInv, handleSSHFails, NotServed
  <2>5. OrderInv'
    BY <1>0, <1>9, <2>3, <2>4 DEF StreamInv, AskedInv, OrderInv, Watched, handleSSHFails, NotServed
  <2> QED BY <1>0, <2>1, <2>2, <2>3, <2>5 DEF StreamInv
<1>3. CASE AgentUp
  <2>1. /\ q' \in [Hops -> 0..Cap] /\ q'["su"] = q["su"] - 1 /\ q'["in"] = q["in"] + 1
        /\ \A h \in Hops \ {"su", "in"} : q'[h] = q[h]
    BY <1>0, <1>3, MovedFacts DEF AgentUp
  <2>2. TypeOK'
    BY <1>0, <1>3, <2>1 DEF StreamInv, TypeOK, AgentUp
  <2>3. AskedInv' /\ ReapInv'
    BY <1>0, <1>3, <2>1 DEF StreamInv, AskedInv, ReapInv, AgentUp, Serving
  <2>4. Accounted' = Accounted /\ wrote' = wrote
    BY <1>0, <1>3, <2>1 DEF Accounted, AgentUp
  <2>5. OrderInv'
    BY <1>0, <1>3, <2>1, <2>4 DEF StreamInv, OrderInv, Watched, AgentUp
  <2> QED BY <1>0, <2>2, <2>3, <2>4, <2>5 DEF StreamInv
<1>4. CASE AgentUpEnds
  <2>1. /\ phase = "open" /\ phase' = "open" /\ kind' = kind /\ got' = got /\ wrote' = wrote
        /\ client' = client /\ reset' = reset /\ late' = late /\ ws' = ws /\ exitSent' = exitSent
        /\ sent' = sent /\ holder' = holder /\ pump' = pump \ {"agentUp"}
        /\ InputEnds \/ InputFails
    BY <1>4 DEF AgentUpEnds, Serving
  <2>2. CASE EndsWithInput
    <3>1. /\ ~ handle' /\ handle' \in BOOLEAN /\ prog' = Stopped
          /\ closed' = closed \cup {"agent"}
          /\ q' \in [Hops -> 0..Cap] /\ q'["out"] = 0
          /\ \A h \in Hops \ {"out"} : q'[h] = q[h]
          /\ kind \in {"pty", "forward"}
      BY <1>0, <1>4, <2>2, DroppedFacts DEF AgentUpEnds, EndsWithInput
    <3>2. TypeOK'
      BY <1>0, <2>1, <3>1 DEF StreamInv, TypeOK, Stopped
    <3>3. AskedInv' /\ ReapInv'
      BY <1>0, <2>1, <3>1 DEF StreamInv, AskedInv, ReapInv, Stopped
    <3>4. (Accounted <= wrote)'
      BY <1>0, <2>1, <3>1 DEF Accounted
    <3>5. SUFFICES ASSUME Watched' PROVE OrderInv'
      BY <3>2, <3>3, <3>4 DEF OrderInv, StreamInv
    <3>6. Watched /\ prog # "run"
      BY <1>0, <2>1, <3>1, <3>5
         DEF StreamInv, OrderInv, Watched, InputEnds, InputFails, Alive, ReadEnds, Ssh
    <3>7. prog' = prog
      BY <3>1, <3>6 DEF Stopped
    <3>8. SUFFICES ASSUME prog = "exited", ~ late PROVE OrderInv'
      BY <2>1, <3>6, <3>7 DEF OrderInv
    <3>9. q["su"] = 0 /\ closed # {} /\ q["out"] = 0
      BY <1>0, <2>1, <3>1, <3>6, <3>8
         DEF StreamInv, OrderInv, Watched, InputEnds, InputFails, ReadEnds, Ssh
    <3>10. Accounted' = Accounted
      BY <1>0, <2>1, <3>1, <3>9 DEF Accounted
    <3> QED BY <1>0, <2>1, <3>1, <3>6, <3>7, <3>8, <3>9, <3>10 DEF StreamInv, OrderInv
  <2>3. CASE ~ EndsWithInput
    <3>1. handle' = handle /\ prog' = prog /\ closed' = closed /\ q' = q /\ kind \notin {"pty", "forward"}
      BY <1>4, <2>3 DEF AgentUpEnds, EndsWithInput
    <3>2. TypeOK'
      BY <1>0, <2>1, <3>1 DEF StreamInv, TypeOK
    <3>3. AskedInv' /\ ReapInv'
      BY <1>0, <2>1, <3>1 DEF StreamInv, AskedInv, ReapInv
    <3>4. Accounted' = Accounted
      BY <2>1, <3>1 DEF Accounted
    <3>5. OrderInv'
      BY <1>0, <2>1, <3>1, <3>4 DEF StreamInv, OrderInv, Watched
    <3> QED BY <1>0, <2>1, <3>2, <3>3, <3>4, <3>5 DEF StreamInv
  <2> QED BY <2>2, <2>3
<1>5. CASE AgentDown
  <2>1. /\ q' \in [Hops -> 0..Cap] /\ q'["out"] = q["out"] - 1 /\ q'["sd"] = q["sd"] + 1
        /\ \A h \in Hops \ {"out", "sd"} : q'[h] = q[h]
    BY <1>0, <1>5, MovedFacts DEF AgentDown
  <2>2. TypeOK'
    BY <1>0, <1>5, <2>1 DEF StreamInv, TypeOK, AgentDown
  <2>3. AskedInv' /\ ReapInv'
    BY <1>0, <1>5, <2>1 DEF StreamInv, AskedInv, ReapInv, AgentDown, Serving
  <2>4. Accounted' = Accounted /\ wrote' = wrote
    BY <1>0, <1>5, <2>1 DEF Accounted, AgentDown
  <2>5. OrderInv'
    BY <1>0, <1>5, <2>1, <2>4 DEF StreamInv, OrderInv, Watched, AgentDown
  <2> QED BY <1>0, <2>2, <2>3, <2>4, <2>5 DEF StreamInv
<1>6. CASE AgentDownEnds
  <2>1. /\ phase = "open" /\ phase' = "open" /\ kind' = kind /\ got' = got /\ wrote' = wrote
        /\ client' = client /\ reset' = reset /\ late' = late /\ ws' = ws /\ sent' = sent
        /\ holder' = holder /\ pump' = pump \ {"agentDown"}
        /\ closed' \in {closed, closed \cup {"agent"}}
        /\ OutputEnds \/ OutputFails
    BY <1>6 DEF AgentDownEnds, Serving
  <2>2. exitSent' \in BOOLEAN
    BY <1>0, <1>6 DEF AgentDownEnds, StreamInv, TypeOK
  <2>3. /\ q' \in [Hops -> 0..Cap] /\ q'["out"] \in {q["out"], 0}
        /\ \A h \in Hops \ {"out"} : q'[h] = q[h]
        /\ prog' \in {prog, Stopped} /\ handle' \in {handle, FALSE}
        /\ kind \in {"forward", "sshpty"} => ~ handle' /\ prog' = Stopped
        /\ kind \notin {"forward", "sshpty"} => handle' = handle /\ prog' = prog
    BY <1>0, <1>6, DroppedFacts DEF AgentDownEnds
  <2>4. TypeOK'
    BY <1>0, <2>1, <2>2, <2>3 DEF StreamInv, TypeOK, Stopped
  <2>5. AskedInv' /\ ReapInv'
    BY <1>0, <2>1, <2>3 DEF StreamInv, AskedInv, ReapInv, Stopped
  <2>6. (Accounted <= wrote)'
    BY <1>0, <2>1, <2>3 DEF Accounted
  <2>7. SUFFICES ASSUME Watched' PROVE OrderInv'
    BY <2>4, <2>5, <2>6 DEF OrderInv, StreamInv
  <2>8. Watched /\ prog # "run"
    BY <1>0, <2>1, <2>7 DEF StreamInv, OrderInv, Watched, OutputEnds, OutputFails, WriteFails, Alive
  <2>9. prog' = prog
    BY <2>3, <2>8 DEF Stopped
  <2>10. SUFFICES ASSUME prog = "exited", ~ late PROVE OrderInv'
    BY <2>1, <2>8, <2>9 DEF OrderInv
  <2>11. q["out"] = 0 /\ ~ (handle /\ holder)
    BY <1>0, <2>1, <2>8, <2>10
       DEF StreamInv, OrderInv, Watched, OutputEnds, OutputFails, WriteFails, Alive
  <2>12. Accounted' = Accounted
    BY <1>0, <2>1, <2>3, <2>11 DEF Accounted
  <2> QED BY <1>0, <2>1, <2>3, <2>8, <2>9, <2>10, <2>11, <2>12 DEF StreamInv, OrderInv
<1>7. CASE RunReturns
  <2>1. TypeOK'
    BY <1>0, <1>7 DEF StreamInv, TypeOK, RunReturns
  <2>2. AskedInv' /\ ReapInv'
    BY <1>0, <1>7 DEF StreamInv, AskedInv, ReapInv, RunReturns
  <2>3. Accounted' = Accounted /\ wrote' = wrote
    BY <1>7 DEF Accounted, RunReturns
  <2>4. OrderInv'
    BY <1>0, <1>7, <2>3 DEF StreamInv, OrderInv, Watched, RunReturns
  <2> QED BY <1>0, <2>1, <2>2, <2>3, <2>4 DEF StreamInv
<1>8. CASE SshConnEnds
  <2>1. TypeOK'
    BY <1>0, <1>8 DEF StreamInv, TypeOK, SshConnEnds, Stopped
  <2>2. AskedInv' /\ ReapInv'
    BY <1>0, <1>8 DEF StreamInv, AskedInv, ReapInv, SshConnEnds, Stopped
  <2>3. Accounted' = Accounted /\ wrote' = wrote
    BY <1>8 DEF Accounted, SshConnEnds
  <2>4. OrderInv'
    BY <1>0, <1>8, <2>3 DEF StreamInv, OrderInv, Watched, SshConnEnds, Stopped
  <2> QED BY <1>0, <2>1, <2>2, <2>3, <2>4 DEF StreamInv
<1> QED BY <1>1, <1>2, <1>3, <1>4, <1>5, <1>6, <1>7, <1>8, <1>9 DEF Handler

\* A remote command.
LEMMA ExecStep ==
  ASSUME ExecTypeOK, BoundInv, ExecNext
  PROVE  ExecTypeOK' /\ BoundInv'
<1> USE ExecAssumption DEF AgentBoundComesFirst
<1>1. CASE opExecFails
  BY <1>1 DEF opExecFails, ExecTypeOK, BoundInv, Answers
<1>2. ASSUME NEW t \in Requests, opExec(t) PROVE ExecTypeOK' /\ BoundInv'
  <2>0. t \in Int /\ timeout' = Bounded(t)
        /\ defaultTimeout \in Nat /\ maxTimeout \in Nat /\ 0 < defaultTimeout /\ defaultTimeout <= maxTimeout
    BY <1>2 DEF opExec
  <2>1. timeout' \in Nat /\ timeout' > 0 /\ timeout' <= maxTimeout
    BY <2>0 DEF Bounded
  <2>2. began' = now /\ transit' = transit /\ now' = now /\ transit = now
    BY <1>2 DEF opExec, BoundInv
  <2> QED BY <1>2, <2>1, <2>2 DEF opExec, ExecTypeOK, BoundInv
<1>3. CASE Forks \/ ChildEnds \/ ShellExits \/ Kill
  BY <1>3 DEF Forks, ChildEnds, ShellExits, Kill, ExecTypeOK, BoundInv
<1>4. CASE RunReturnsExec
  BY <1>4 DEF RunReturnsExec, ExecTypeOK, BoundInv, Answers
<1>5. CASE agentRPCReturns \/ StreamLost
  BY <1>5 DEF agentRPCReturns, StreamLost, ExecTypeOK, BoundInv
<1>6. CASE Deadline
  BY <1>6 DEF Deadline, ExecTypeOK, BoundInv
<1>7. CASE Tick
  <2>1. overrun' \in BOOLEAN
    BY <1>7 DEF Tick, ExecTypeOK
  <2>2. ExecTypeOK'
    BY <1>7, <2>1 DEF Tick, ExecTypeOK, BoundInv
  <2>3. BoundInv'
    BY <1>7 DEF Tick, ExecTypeOK, BoundInv, Due, CanReturn, InTransit
  <2> QED BY <2>2, <2>3
<1> QED BY <1>1, <1>2, <1>3, <1>4, <1>5, <1>6, <1>7 DEF ExecNext
-----------------------------------------------------------------------------
LEMMA InitInv == StreamsInit => IInv
<1> USE HopFacts, StreamsAssumption, ExecAssumption
<1>1. ASSUME Init \/ NoStream PROVE StreamInv
  <2>1. /\ q = [h \in Hops |-> 0] /\ q \in [Hops -> 0..Cap] /\ \A h \in Hops : q[h] = 0
        /\ got = 0 /\ wrote = 0 /\ sent = 0
    BY <1>1 DEF Init, NoStream
  <2>2. TypeOK
    <3>1. /\ kind \in {"pty", "rpc"} \cup Bridged /\ phase \in {"none", "asked"}
          /\ client \in {"here", "gone"} /\ prog \in {"run", "exited"}
          /\ closed = {} /\ pump \subseteq Pumps
      BY <1>1 DEF Init, NoStream
    <3>2. {ws, reset, holder, handle, exitSent, late} \subseteq BOOLEAN
      BY <1>1 DEF Init, NoStream
    <3> QED BY <2>1, <3>1, <3>2 DEF TypeOK
  <2>3. AskedInv /\ ReapInv
    BY <1>1, <2>1 DEF Init, NoStream, AskedInv, ReapInv, Pumps, Bridged, Ssh
  <2>4. Accounted = 0
    BY <2>1 DEF Accounted, Hops
  <2>5. OrderInv
    BY <1>1, <2>1, <2>4 DEF Init, NoStream, OrderInv, Watched, Pumps
  <2> QED BY <2>1, <2>2, <2>3, <2>4, <2>5 DEF StreamInv
<1>2. ASSUME NoCall \/ ExecInit PROVE ExecTypeOK /\ BoundInv
  <2>1. /\ now = 0 /\ timeout = 0 /\ began = 0 /\ transit = 0 /\ shell = "none" /\ answer = "none"
        /\ call \in {"none", "sent"}
    BY <1>2 DEF NoCall, ExecInit
  <2>2. child \in BOOLEAN /\ overrun \in BOOLEAN
    BY <1>2 DEF NoCall, ExecInit
  <2> QED BY <2>1, <2>2 DEF ExecTypeOK, BoundInv, AgentBoundComesFirst, Answers
<1> QED BY <1>1, <1>2 DEF StreamsInit, IInv, StreamInv, StreamsTypeOK

LEMMA InvStep == IInv /\ [handleStream]_allVars => IInv'
<1> SUFFICES ASSUME IInv, [handleStream]_allVars PROVE IInv'
  OBVIOUS
<1>0. StreamInv /\ ExecTypeOK /\ BoundInv
  BY DEF IInv, StreamInv, StreamsTypeOK
<1>1. UNCHANGED vars => StreamInv'
  BY <1>0 DEF vars, StreamInv, TypeOK, AskedInv, Accounted, ReapInv, OrderInv, Watched
<1>2. UNCHANGED execVars => (ExecTypeOK /\ BoundInv)'
  BY <1>0 DEF execVars, ExecTypeOK, BoundInv, AgentBoundComesFirst
<1>3. CASE kind # "rpc" /\ Next /\ UNCHANGED execVars
  <2>1. StreamInv'
    BY <1>0, <1>3, ClientStep, RelayStep, HandlerStep, ProgramStep DEF Next
  <2> QED BY <1>2, <1>3, <2>1 DEF IInv, StreamInv, StreamsTypeOK
<1>4. CASE kind = "rpc" /\ ExecNext /\ UNCHANGED vars
  <2>1. (ExecTypeOK /\ BoundInv)'
    BY <1>0, <1>4, ExecStep
  <2> QED BY <1>1, <1>4, <2>1 DEF IInv, StreamInv, StreamsTypeOK
<1>5. CASE UNCHANGED allVars
  BY <1>1, <1>2, <1>5 DEF allVars, IInv, StreamInv, StreamsTypeOK
<1> QED BY <1>3, <1>4, <1>5 DEF handleStream

\* The variables of a stream and of a command keep their types; with got never
\* ahead of wrote, no chunk reaches a client that no program wrote.
THEOREM TypeCorrect == StreamsSpec => []StreamsTypeOK
<1>1. IInv => StreamsTypeOK
  BY DEF IInv
<1> QED BY <1>1, InitInv, InvStep, PTL DEF StreamsSpec

\* pty-pump, pipeStream and serveSession tell the client of the end only behind
\* the last of the output, for buffers of any size and any interleaving.
THEOREM OutputFirst == StreamsSpec => []EndComesLast
<1>1. IInv => EndComesLast
  <2> SUFFICES ASSUME IInv, Told, client # "gone", prog = "exited", ~ reset, ~ late
               PROVE  got = wrote
    BY DEF EndComesLast
  <2>1. q["out"] = 0 /\ q["sd"] = 0 /\ q["wd"] = 0 /\ Accounted = wrote
    BY DEF IInv, OrderInv, Watched, Told
  <2>2. got \in Nat /\ wrote \in Nat
    BY DEF IInv, StreamsTypeOK, TypeOK
  <2> QED BY <2>1, <2>2 DEF Accounted
<1> QED BY <1>1, InitInv, InvStep, PTL DEF StreamsSpec

\* handlePTY, serveSession, runWithoutPTY and pipeStream, once they returned,
\* leave no program running and no local connection open, whoever ended first.
THEOREM NothingLeft == StreamsSpec => []HandlerLeavesNothing
<1>1. IInv => HandlerLeavesNothing
  <2> SUFFICES ASSUME IInv, Returned PROVE ~ handle /\ (kind # "forward" => prog # "run")
    BY DEF HandlerLeavesNothing
  <2>1. kind \in {"pty", "sshpty", "command", "forward"}
    BY DEF Returned, IInv, AskedInv, StreamsTypeOK, TypeOK, Bridged, Ssh
  <2> QED BY <2>1 DEF Returned, IInv, ReapInv
<1> QED BY <1>1, InitInv, InvStep, PTL DEF StreamsSpec

\* Whatever timeout a caller asks for, agentRPC's deadline ends no command that
\* opExec's own bound could have ended: only one whose pipes were held past it,
\* or whose request and answer used up the margin between the two.
THEOREM AgentFirst == StreamsSpec => []AgentBoundComesFirst
<1>1. IInv => AgentBoundComesFirst
  BY DEF IInv, BoundInv
<1> QED BY <1>1, InitInv, InvStep, PTL DEF StreamsSpec
-----------------------------------------------------------------------------
(* The stream the agent opens itself: its log, in Feed.                    *)

ShipTypes ==
  /\ lines \in Seq(Nat) /\ born \in Seq(Nat)
  /\ wire \in [Sessions -> Seq(Nat)]
  /\ published \in Seq(Nat \X Nat)
  /\ runner \in [pc : {"idle", "popped", "writing"}, line : Nat, w : Nat]
  /\ sess \in Nat /\ sess <= MaxSessions /\ attached \in BOOLEAN /\ w \in Nat

\* The sink writes to the stream of the tunnel the agent is in, or to none; one
\* it still holds from an earlier tunnel has a line queued before this one.
ShipInv ==
  /\ attached => sess > 0
  /\ w \in {None, sess}
  /\ attached /\ sess \in up \ failed => w = sess
  /\ \A n \in 1 .. logged : born[n] <= sess
  /\ \A l \in Range(lines) : l <= logged
  /\ runner.line <= logged /\ (runner.pc = "idle" => runner.line = 0)
  /\ up \subseteq 1 .. sess
  /\ runner.pc = "writing" =>
       /\ runner.w \in 1 .. sess
       /\ attached /\ runner.line > 0 /\ born[runner.line] = sess => runner.w = sess

\* What each way of handling a sequence does to its elements.
LEMMA Appended ==
  ASSUME NEW S, NEW s \in Seq(S), NEW e \in S
  PROVE  Append(s, e) \in Seq(S) /\ Range(Append(s, e)) = Range(s) \cup {e}
<1>1. Append(s, e) \in Seq(S) /\ Len(Append(s, e)) = Len(s) + 1
  OBVIOUS
<1>2. \A i \in 1 .. Len(s) : Append(s, e)[i] = s[i]
  OBVIOUS
<1>3. Append(s, e)[Len(s) + 1] = e
  OBVIOUS
<1>4. DOMAIN s = 1 .. Len(s) /\ DOMAIN Append(s, e) = 1 .. (Len(s) + 1) /\ Len(s) \in Nat
  BY <1>1
<1>5. 1 .. (Len(s) + 1) = (1 .. Len(s)) \cup {Len(s) + 1}
  BY <1>4
<1> QED BY <1>1, <1>2, <1>3, <1>4, <1>5 DEF Range

LEMMA Taken ==
  ASSUME NEW S, NEW s \in Seq(S), s # <<>>
  PROVE  /\ Head(s) \in S /\ Tail(s) \in Seq(S)
         /\ Range(s) = {Head(s)} \cup Range(Tail(s))
<1>1. Head(s) = s[1] /\ Tail(s) \in Seq(S) /\ Len(Tail(s)) = Len(s) - 1 /\ Len(s) \in Nat /\ Len(s) > 0
      /\ Head(s) \in S
  OBVIOUS
<1>2. \A i \in 1 .. Len(Tail(s)) : Tail(s)[i] = s[i + 1]
  OBVIOUS
<1>3. DOMAIN s = 1 .. Len(s) /\ DOMAIN Tail(s) = 1 .. (Len(s) - 1)
  BY <1>1
<1>4. ASSUME NEW i \in 2 .. Len(s) PROVE i - 1 \in 1 .. (Len(s) - 1) /\ s[i] = Tail(s)[i - 1]
  BY <1>1, <1>2
<1>5. ASSUME NEW i \in 1 .. Len(s) PROVE s[i] \in {Head(s)} \cup Range(Tail(s))
  <2>1. i = 1 \/ i \in 2 .. Len(s)
    BY <1>1
  <2> QED BY <1>1, <1>3, <1>4, <2>1 DEF Range
<1>6. {Head(s)} \cup Range(Tail(s)) \subseteq Range(s)
  BY <1>1, <1>2, <1>3 DEF Range
<1> QED BY <1>1, <1>3, <1>5, <1>6 DEF Range

LEMMA Shortened ==
  ASSUME NEW s \in Seq(Nat), NEW n \in 0 .. Len(s)
  PROVE  SubSeq(s, 1, n) \in Seq(Nat)
OBVIOUS

Shipped == ShipTypes /\ ShipInv /\ LateFailureSilencesNobody

\* The lines that were queued in the tunnel the agent is in, as long as it works.
Owed(n) == attached /\ n \in 1 .. logged /\ born[n] = sess /\ sess \in up \ failed

LEMMA Owing == LateFailureSilencesNobody <=> \A n : Owed(n) => n \in UnderWay
BY DEF LateFailureSilencesNobody, Owed

LEMMA HandleStep == ASSUME Shipped, Handle PROVE Shipped'
<1> USE DEF Shipped, logged
<1>1. /\ runner' = runner /\ w' = w /\ sess' = sess /\ attached' = attached /\ failed' = failed
      /\ up' = up /\ wire' = wire /\ published' = published
  BY DEF Handle, busVars
<1>2. PICK m \in {None, sess} : born' = Append(born, m)
                                   /\ (m = sess /\ attached => lines' = Append(lines, logged + 1))
                                   /\ lines' \in {lines, Append(lines, logged + 1)}
  BY DEF Handle, ShipInv, ShipTypes, None
<1>3. /\ logged \in Nat /\ logged' = logged + 1 /\ born' \in Seq(Nat)
      /\ \A n \in 1 .. logged : born'[n] = born[n]
      /\ born'[logged + 1] = m
  BY <1>2 DEF ShipTypes, None
<1>4. /\ lines' \in Seq(Nat) /\ Range(lines) \subseteq Range(lines')
      /\ Range(lines') \subseteq Range(lines) \cup {logged + 1}
      /\ m = sess /\ attached => logged + 1 \in Range(lines')
  <2>1. lines \in Seq(Nat) /\ logged + 1 \in Nat
    BY <1>3 DEF ShipTypes
  <2>2. /\ Append(lines, logged + 1) \in Seq(Nat)
        /\ Range(Append(lines, logged + 1)) = Range(lines) \cup {logged + 1}
    BY <2>1, Appended
  <2> QED BY <1>2, <2>1, <2>2
<1>5. ShipTypes'
  BY <1>1, <1>3, <1>4 DEF ShipTypes
<1>6. \A l \in Range(lines') : l <= logged'
  <2>1. \A l \in Range(lines) : l <= logged /\ l \in Nat
    BY DEF ShipTypes, ShipInv, Range
  <2> QED BY <1>3, <1>4, <2>1
<1>7. ShipInv'
  <2>1. \A n \in 1 .. logged' : born'[n] <= sess
    BY <1>2, <1>3 DEF ShipTypes, ShipInv, None
  <2>2. runner.line <= logged' /\ (runner.line > 0 => born'[runner.line] = born[runner.line])
    BY <1>3 DEF ShipTypes, ShipInv
  <2> QED BY <1>1, <1>6, <2>1, <2>2 DEF ShipInv, None
<1>8. ASSUME NEW n, Owed(n)' PROVE n \in UnderWay'
  <2>1. n \in 1 .. logged \/ n = logged + 1
    BY <1>3, <1>8 DEF Owed
  <2>2. CASE n \in 1 .. logged
    <3>1. Owed(n)
      BY <1>1, <1>3, <1>8, <2>2 DEF Owed
    <3>2. n \in 1 .. logged'
      BY <1>3, <2>2
    <3> QED BY <1>1, <1>4, <3>1, <3>2, Owing DEF UnderWay
  <2>3. CASE n = logged + 1
    BY <1>1, <1>3, <1>4, <1>8, <2>3 DEF Owed, UnderWay
  <2> QED BY <2>1, <2>2, <2>3
<1> QED BY <1>5, <1>7, <1>8, Owing DEF LateFailureSilencesNobody, Owed

\* A step that queues nothing: what it still owes it owed, and has under way.
LEMMA OthersStep ==
  ASSUME Shipped, ShipTypes', ShipInv', \A n : Owed(n)' => Owed(n),
         \A n : Owed(n)' /\ n \in UnderWay => n \in UnderWay'
  PROVE  Shipped'
<1>1. \A n : Owed(n)' => n \in UnderWay'
  BY Owing DEF Shipped
<1>2. LateFailureSilencesNobody'
  BY <1>1 DEF LateFailureSilencesNobody, Owed
<1> QED BY <1>2 DEF Shipped

LEMMA SinkStep ==
  ASSUME Shipped, Pop \/ ReadStream \/ WriteLine \/ LineLost
  PROVE  Shipped'
<1> USE DEF logged
<1>0. ShipTypes /\ ShipInv /\ MaxSessions \in Nat
  BY FeedAssumptions DEF Shipped
<1>1. /\ born' = born /\ sess' = sess /\ attached' = attached /\ up' = up /\ published' = published
  BY DEF Pop, ReadStream, WriteLine, LineLost, busVars
<1>2. CASE Pop
  <2>1. /\ lines # <<>> /\ lines' = Tail(lines)
        /\ runner' = [pc |-> "popped", line |-> Head(lines), w |-> 0]
        /\ w' = w /\ failed' = failed /\ wire' = wire /\ runner.pc = "idle"
    BY <1>2 DEF Pop, None
  <2>2. /\ Head(lines) \in Nat /\ Tail(lines) \in Seq(Nat)
        /\ Range(lines) = {Head(lines)} \cup Range(lines')
    BY <1>0, <2>1, Taken DEF ShipTypes
  <2>3. ShipTypes'
    BY <1>0, <1>1, <2>1, <2>2 DEF ShipTypes
  <2>4. ShipInv'
    BY <1>0, <1>1, <2>1, <2>2 DEF ShipInv
  <2>5. \A n : Owed(n)' => Owed(n)
    BY <1>1, <2>1 DEF Owed
  <2>6. ASSUME NEW n, Owed(n)', n \in UnderWay PROVE n \in UnderWay'
    <3>1. n # runner.line
      BY <1>0, <2>1, <2>6 DEF Owed, ShipInv
    <3> QED BY <1>1, <2>1, <2>2, <2>6, <3>1 DEF UnderWay
  <2> QED BY <2>3, <2>4, <2>5, <2>6, OthersStep
<1>3. CASE ReadStream
  <2>1. /\ runner.pc = "popped" /\ lines' = lines /\ w' = w /\ failed' = failed /\ wire' = wire
        /\ w = 0 => runner' = [pc |-> "idle", line |-> 0, w |-> 0]
        /\ w # 0 => runner' = [runner EXCEPT !.pc = "writing", !.w = w]
    BY <1>3 DEF ReadStream, None, Idle
  <2>2. w \in Nat /\ (w # 0 => w = sess /\ runner'.pc = "writing" /\ runner'.w = w /\ runner'.line = runner.line)
    BY <1>0, <2>1 DEF ShipTypes, ShipInv, None
  <2>3. ShipTypes'
    <3>1. runner' \in [pc : {"idle", "popped", "writing"}, line : Nat, w : Nat]
      <4>1. CASE w = 0
        BY <2>1, <4>1
      <4>2. CASE w # 0
        BY <1>0, <2>1, <2>2, <4>2 DEF ShipTypes
      <4> QED BY <4>1, <4>2
    <3> QED BY <1>0, <1>1, <2>1, <3>1 DEF ShipTypes
  <2>4. ShipInv'
    BY <1>0, <1>1, <2>1, <2>2 DEF ShipInv, ShipTypes
  <2>5. \A n : Owed(n)' => Owed(n)
    BY <1>1, <2>1 DEF Owed
  <2>6. \A n : Owed(n)' /\ n \in UnderWay => n \in UnderWay'
    <3>1. ASSUME NEW n, Owed(n)' PROVE runner'.line = runner.line
      BY <1>0, <1>1, <2>1, <2>2, <3>1 DEF Owed, ShipInv, ShipTypes
    <3> QED BY <1>1, <2>1, <3>1 DEF UnderWay
  <2> QED BY <2>3, <2>4, <2>5, <2>6, OthersStep
<1>4. CASE WriteLine \/ LineLost
  <2>1. /\ runner.pc = "writing" /\ lines' = lines
        /\ runner' = [pc |-> "idle", line |-> 0, w |-> 0]
        /\ w' = w \/ (w = runner.w /\ w' = 0)
        /\ \/ WriteLine /\ w' = w /\ failed' = failed
           \/ failed' = failed \cup {runner.w}
        /\ \/ wire' = wire /\ runner.w \in failed'
           \/ runner.w \in up /\ wire' = [wire EXCEPT ![runner.w] = Append(@, runner.line)]
    BY <1>4 DEF WriteLine, LineLost, None, Idle, Cleared
  <2>2. /\ runner.line \in Nat /\ runner.w \in Nat /\ up \subseteq Sessions
        /\ \A s \in Sessions : wire[s] \in Seq(Nat)
    <3>1. up \subseteq Sessions
      BY <1>0 DEF ShipTypes, ShipInv, Sessions
    <3> QED BY <1>0, <3>1 DEF ShipTypes
  <2>3. /\ wire' \in [Sessions -> Seq(Nat)]
        /\ \A s \in Sessions : Range(wire[s]) \subseteq Range(wire'[s])
        /\ runner.w \in failed' \/ (runner.w \in Sessions /\ runner.line \in Range(wire'[runner.w]))
    <3>1. CASE wire' = wire /\ runner.w \in failed'
      BY <1>0, <3>1 DEF ShipTypes
    <3>2. CASE runner.w \in up /\ wire' = [wire EXCEPT ![runner.w] = Append(@, runner.line)]
      <4>0. wire[runner.w] \in Seq(Nat) /\ runner.line \in Nat
        BY <2>2, <3>2
      <4>1. /\ Append(wire[runner.w], runner.line) \in Seq(Nat)
            /\ Range(Append(wire[runner.w], runner.line)) = Range(wire[runner.w]) \cup {runner.line}
        BY <4>0, Appended
      <4> QED BY <1>0, <2>2, <3>2, <4>1 DEF ShipTypes
    <3> QED BY <2>1, <3>1, <3>2
  <2>4. ShipTypes'
    BY <1>0, <1>1, <2>1, <2>3 DEF ShipTypes
  <2>5. ShipInv'
    BY <1>0, <1>1, <2>1 DEF ShipInv, ShipTypes, None
  <2>6. \A n : Owed(n)' => Owed(n)
    BY <1>1, <2>1 DEF Owed
  <2>7. ASSUME NEW n, Owed(n)', n \in UnderWay PROVE n \in UnderWay'
    <3>1. sess \in Sessions /\ sess \notin failed' /\ attached /\ n \in 1 .. Len(born) /\ born[n] = sess
      BY <1>1, <2>2, <2>7 DEF Owed
    <3>2. CASE n = runner.line
      <4>1. runner.w = sess
        BY <1>0, <2>1, <3>1, <3>2 DEF ShipInv
      <4> QED BY <1>1, <2>3, <3>1, <3>2, <4>1 DEF UnderWay
    <3>3. CASE n # runner.line
      BY <1>1, <2>1, <2>3, <2>7, <3>1, <3>3 DEF UnderWay
    <3> QED BY <3>2, <3>3
  <2> QED BY <2>4, <2>5, <2>6, <2>7, OthersStep
<1> QED BY <1>2, <1>3, <1>4

LEMMA SessionStep ==
  ASSUME Shipped,
         attach \/ detach \/ \E s \in Sessions : SessionDies(s)
  PROVE  Shipped'
<1> USE DEF logged
<1>0. ShipTypes /\ ShipInv /\ MaxSessions \in Nat
  BY FeedAssumptions DEF Shipped
<1>1. lines' = lines /\ born' = born /\ runner' = runner /\ published' = published /\ failed' = failed
  BY DEF attach, detach, SessionDies, busVars, agentVars
<1>2. CASE attach
  <2>1. /\ ~ attached /\ sess < MaxSessions /\ sess' = sess + 1 /\ attached' = TRUE /\ w' = sess + 1
        /\ up' = up \cup {sess + 1} /\ wire' = wire
    BY <1>2 DEF attach
  <2>2. ShipTypes'
    BY <1>0, <1>1, <2>1 DEF ShipTypes
  <2>3. runner.line > 0 => runner.line \in 1 .. Len(born)
    BY <1>0 DEF ShipInv, ShipTypes
  <2>4. \A n \in 1 .. Len(born) : born[n] # sess + 1 /\ born[n] <= sess + 1
    <3>1. sess \in Nat /\ born \in Seq(Nat)
      BY <1>0 DEF ShipTypes
    <3>2. \A n \in 1 .. Len(born) : born[n] <= sess
      BY <1>0 DEF ShipInv
    <3>3. \A n \in 1 .. Len(born) : born[n] \in Nat
      BY <3>1
    <3> QED BY <3>1, <3>2, <3>3
  <2>5. ShipInv'
    <3>1. sess \in Nat /\ up' \subseteq 1 .. sess'
      <4>1. sess \in Nat
        BY <1>0 DEF ShipTypes
      <4>2. up \subseteq 1 .. sess
        BY <1>0 DEF ShipInv
      <4> QED BY <2>1, <4>1, <4>2
    <3>2. runner.pc = "writing" => runner.w \in 1 .. sess'
      BY <1>0, <2>1, <3>1 DEF ShipInv
    <3>3. attached' => sess' > 0
      BY <2>1, <3>1
    <3>4. runner.line > 0 => born[runner.line] # sess'
      BY <2>1, <2>3, <2>4
    <3> QED BY <1>0, <1>1, <2>1, <2>4, <3>1, <3>2, <3>3, <3>4 DEF ShipInv
  <2>6. \A n : ~ Owed(n)'
    BY <1>1, <2>1, <2>4 DEF Owed
  <2> QED BY <2>2, <2>5, <2>6, OthersStep
<1>3. CASE detach
  <2>1. attached' = FALSE /\ w' \in {0, w} /\ sess' = sess /\ up' = up /\ wire' = wire
    BY <1>3 DEF detach, None
  <2>2. ShipTypes'
    <3>1. w' \in Nat
      BY <1>0, <2>1 DEF ShipTypes
    <3>2. attached' \in BOOLEAN
      BY <2>1
    <3> QED BY <1>0, <1>1, <2>1, <3>1, <3>2 DEF ShipTypes
  <2>3. ShipInv'
    BY <1>0, <1>1, <2>1 DEF ShipInv, None
  <2>4. \A n : ~ Owed(n)'
    BY <2>1 DEF Owed
  <2> QED BY <2>2, <2>3, <2>4, OthersStep
<1>4. ASSUME NEW s \in Sessions, SessionDies(s) PROVE Shipped'
  <2>1. PICK k \in 0 .. Len(wire[s]) : wire' = [wire EXCEPT ![s] = SubSeq(wire[s], 1, k)]
    BY <1>4 DEF SessionDies
  <2>2. attached' = attached /\ w' = w /\ sess' = sess /\ up' = up \ {s}
    BY <1>4 DEF SessionDies, agentVars
  <2>3. wire[s] \in Seq(Nat) /\ SubSeq(wire[s], 1, k) \in Seq(Nat)
    BY <1>0, <2>1, Shortened DEF ShipTypes
  <2>4. ShipTypes'
    BY <1>0, <1>1, <2>1, <2>2, <2>3 DEF ShipTypes
  <2>5. ShipInv'
    BY <1>0, <1>1, <2>2 DEF ShipInv
  <2>6. \A n : Owed(n)' => Owed(n) /\ sess # s
    BY <1>1, <2>2 DEF Owed
  <2>7. sess # s => wire'[sess'] = wire[sess]
    BY <1>0, <2>1, <2>2 DEF ShipTypes
  <2>8. \A n : Owed(n)' /\ n \in UnderWay => n \in UnderWay'
    BY <1>1, <2>2, <2>6, <2>7 DEF UnderWay
  <2> QED BY <2>4, <2>5, <2>6, <2>8, OthersStep
<1> QED BY <1>2, <1>3, <1>4

LEMMA PublishStep ==
  ASSUME Shipped, PublishOwn \/ \E s \in Sessions : consumeAgentLog(s)
  PROVE  Shipped'
<1> USE DEF logged
<1>0. ShipTypes /\ ShipInv /\ published \in Seq(Nat \X Nat) /\ MaxSessions \in Nat
  BY FeedAssumptions DEF Shipped, ShipTypes
<1>1. /\ lines' = lines /\ born' = born /\ runner' = runner /\ failed' = failed /\ w' = w
      /\ sess' = sess /\ attached' = attached /\ up' = up
  BY DEF PublishOwn, consumeAgentLog, agentVars
<1>2. ShipInv'
  BY <1>0, <1>1 DEF ShipInv
<1>3. \A n : Owed(n)' => Owed(n)
  BY <1>1 DEF Owed
<1>4. CASE PublishOwn
  <2>1. wire' = wire /\ \E e \in Nat \X Nat : published' = Append(published, e)
    <3>1. published' = Append(published, <<None, Len(published) + 1>>) /\ wire' = wire
      BY <1>4 DEF PublishOwn, Publish
    <3>2. <<None, Len(published) + 1>> \in Nat \X Nat
      BY <1>0 DEF None
    <3> QED BY <3>1, <3>2
  <2>2. PICK e \in Nat \X Nat : published' = Append(published, e)
    BY <2>1
  <2>3. published' \in Seq(Nat \X Nat) /\ Range(published') = Range(published) \cup {e}
    BY <1>0, <2>2, Appended
  <2>4. ShipTypes'
    BY <1>0, <1>1, <2>1, <2>3 DEF ShipTypes
  <2>5. \A n : Owed(n)' /\ n \in UnderWay => n \in UnderWay'
    BY <1>1, <2>1, <2>3 DEF UnderWay
  <2> QED BY <1>2, <1>3, <2>4, <2>5, OthersStep
<1>5. ASSUME NEW s \in Sessions, consumeAgentLog(s) PROVE Shipped'
  <2>1. /\ wire[s] # <<>> /\ wire' = [wire EXCEPT ![s] = Tail(wire[s])]
        /\ published' = Append(published, <<s, Head(wire[s])>>)
    BY <1>5 DEF consumeAgentLog, Publish
  <2>2. wire[s] \in Seq(Nat) /\ s \in Nat
    BY <1>0 DEF ShipTypes, Sessions
  <2>3. /\ Head(wire[s]) \in Nat /\ Tail(wire[s]) \in Seq(Nat)
        /\ Range(wire[s]) = {Head(wire[s])} \cup Range(Tail(wire[s]))
    BY <2>1, <2>2, Taken
  <2>4. /\ published' \in Seq(Nat \X Nat)
        /\ Range(published') = Range(published) \cup {<<s, Head(wire[s])>>}
    <3>1. <<s, Head(wire[s])>> \in Nat \X Nat
      BY <2>2, <2>3
    <3> QED BY <1>0, <2>1, <3>1, Appended
  <2>5. ShipTypes'
    BY <1>0, <1>1, <2>1, <2>3, <2>4 DEF ShipTypes
  <2>6. ASSUME NEW n, Owed(n)', n \in UnderWay PROVE n \in UnderWay'
    <3>1. CASE n \in Range(wire[sess])
      <4>1. CASE s = sess
        <5>1. wire'[sess] = Tail(wire[s])
          BY <1>0, <2>1, <4>1 DEF ShipTypes
        <5>2. CASE n = Head(wire[s])
          <6>1. <<sess', n>> \in Range(published') /\ n \in 1 .. logged'
            BY <1>1, <2>4, <2>6, <4>1, <5>2 DEF Owed
          <6> QED BY <6>1 DEF UnderWay
        <5>3. CASE n \in Range(Tail(wire[s]))
          BY <1>1, <5>1, <5>3 DEF UnderWay
        <5> QED BY <2>3, <3>1, <4>1, <5>2, <5>3
      <4>2. CASE s # sess
        BY <1>0, <1>1, <2>1, <3>1, <4>2 DEF ShipTypes, UnderWay
      <4> QED BY <4>1, <4>2
    <3>2. CASE n \notin Range(wire[sess])
      BY <1>1, <2>4, <2>6, <3>2 DEF UnderWay
    <3> QED BY <3>1, <3>2
  <2> QED BY <1>2, <1>3, <2>5, <2>6, OthersStep
<1> QED BY <1>4, <1>5

\* What the pages do is downstream of all this.
LEMMA PageStep ==
  ASSUME Shipped,
         \/ \E b \in Browsers : \/ Subscribe(b) \/ Receive(b) \/ writeSSE(b)
                                \/ Leave(b) \/ Return(b)
         \/ UNCHANGED feedVars
  PROVE  Shipped'
<1>1. /\ lines' = lines /\ born' = born /\ runner' = runner /\ failed' = failed /\ w' = w
      /\ sess' = sess /\ attached' = attached /\ up' = up /\ wire' = wire /\ published' = published
  BY DEF Subscribe, Receive, writeSSE, Leave, Return, feedVars, agentVars, busVars
<1> QED BY <1>1 DEF Shipped, ShipTypes, ShipInv, LateFailureSilencesNobody, UnderWay, logged

LEMMA ShippedInit == ASSUME FeedInit PROVE Shipped
<1>1. /\ lines = <<>> /\ born = <<>> /\ published = <<>> /\ up = {} /\ w = 0 /\ sess = 0
      /\ wire = [s \in Sessions |-> <<>>] /\ attached = FALSE
      /\ runner = [pc |-> "idle", line |-> 0, w |-> 0]
  BY DEF FeedInit, Idle, None
<1>2. MaxSessions \in Nat
  BY FeedAssumptions
<1>3. ShipTypes
  <2>1. /\ lines \in Seq(Nat) /\ born \in Seq(Nat) /\ published \in Seq(Nat \X Nat)
        /\ wire \in [Sessions -> Seq(Nat)]
    BY <1>1
  <2>2. runner \in [pc : {"idle", "popped", "writing"}, line : Nat, w : Nat]
    BY <1>1
  <2>3. attached \in BOOLEAN
    BY <1>1
  <2> QED BY <1>1, <1>2, <2>1, <2>2, <2>3 DEF ShipTypes
<1>4. Range(lines) = {} /\ logged = 0
  BY <1>1 DEF Range, logged
<1>5. ShipInv
  BY <1>1, <1>4 DEF ShipInv, None
<1>6. LateFailureSilencesNobody
  BY <1>1 DEF LateFailureSilencesNobody
<1> QED BY <1>3, <1>5, <1>6 DEF Shipped

LEMMA ShippedStep == ASSUME Shipped, [FeedNext]_feedVars PROVE Shipped'
BY HandleStep, SinkStep, SessionStep, PublishStep, PageStep DEF FeedNext

\* The log sink: a failed write, of this tunnel or of one long gone, never takes
\* the stream away from a tunnel that works. For queues and windows of any size
\* and any number of lines, tunnels and pages.
THEOREM NobodySilenced == FeedSpec => []LateFailureSilencesNobody
<1>1. Shipped => LateFailureSilencesNobody
  BY DEF Shipped
<1> QED BY <1>1, ShippedInit, ShippedStep, PTL DEF FeedSpec
-----------------------------------------------------------------------------
(* The bus and the pages, in Feed.                                         *)

Event == Nat \X Nat

\* g lists, in order, the elements of p whose places are in D.
Ranked(g, D, p) ==
  /\ Len(g) = Cardinality(D)
  /\ \A k \in D : g[Cardinality(D \cap (1 .. k))] = p[k]

\* The rank of a place of D is a position of a sequence as long as D.
LEMMA RankInside ==
  ASSUME NEW n \in Nat, NEW D \in SUBSET (1 .. n), NEW k \in D
  PROVE  Cardinality(D \cap (1 .. k)) \in 1 .. Cardinality(D)
<1>1. IsFiniteSet(D) /\ Cardinality(D) \in Nat
  <2>1. IsFiniteSet(1 .. n)
    BY FS_Interval, 1 \in Int, n \in Int
  <2> QED BY <2>1, FS_Subset, FS_CardinalityType
<1>2. /\ IsFiniteSet(D \cap (1 .. k)) /\ Cardinality(D \cap (1 .. k)) <= Cardinality(D)
      /\ Cardinality(D \cap (1 .. k)) \in Nat
  BY <1>1, FS_Subset, FS_CardinalityType
<1>3. k \in D \cap (1 .. k)
  OBVIOUS
<1>4. Cardinality(D \cap (1 .. k)) # 0
  BY <1>2, <1>3, FS_EmptySet
<1> QED BY <1>1, <1>2, <1>4

\* One more event, refused: what was due stays due.
LEMMA RankedSkip ==
  ASSUME NEW p \in Seq(Event), NEW e \in Event, NEW D \in SUBSET (1 .. Len(p)), NEW g,
         Ranked(g, D, p)
  PROVE  Ranked(g, D, Append(p, e))
<1>1. \A k \in D : Append(p, e)[k] = p[k]
  BY AppendProperties
<1> QED BY <1>1 DEF Ranked

\* One more event, accepted: it is the last of what is due.
LEMMA RankedAppend ==
  ASSUME NEW p \in Seq(Event), NEW e \in Event, NEW D \in SUBSET (1 .. Len(p)),
         NEW g \in Seq(Event), Ranked(g, D, p)
  PROVE  Ranked(Append(g, e), D \cup {Len(p) + 1}, Append(p, e))
<1> DEFINE n == Len(p) + 1
           E == D \cup {n}
<1>1. /\ Len(p) \in Nat /\ n \in Nat /\ n \notin D
      /\ Append(p, e)[n] = e /\ \A k \in D : Append(p, e)[k] = p[k]
  BY LenProperties, AppendProperties
<1>2. /\ Len(g) \in Nat /\ Len(Append(g, e)) = Len(g) + 1 /\ Append(g, e)[Len(g) + 1] = e
      /\ \A i \in 1 .. Len(g) : Append(g, e)[i] = g[i]
  BY LenProperties, AppendProperties
<1>3. IsFiniteSet(D)
  <2>1. IsFiniteSet(1 .. Len(p))
    BY <1>1, FS_Interval, 1 \in Int, Len(p) \in Int
  <2> QED BY <2>1, FS_Subset
<1>4. Cardinality(E) = Len(g) + 1
  BY <1>1, <1>3, FS_AddElement DEF Ranked
<1>5. ASSUME NEW k \in D
      PROVE  Append(g, e)[Cardinality(E \cap (1 .. k))] = Append(p, e)[k]
  <2>1. E \cap (1 .. k) = D \cap (1 .. k)
    BY <1>1
  <2>2. Cardinality(D \cap (1 .. k)) \in 1 .. Len(g)
    BY <1>1, RankInside DEF Ranked
  <2> QED BY <1>1, <1>2, <2>1, <2>2 DEF Ranked
<1>6. Append(g, e)[Cardinality(E \cap (1 .. n))] = Append(p, e)[n]
  <2>1. \A k \in E : k \in 1 .. n
    BY <1>1
  <2>2. E \cap (1 .. n) = E
    BY <2>1
  <2> QED BY <1>1, <1>2, <1>4, <2>2
<1> HIDE DEF E, n
<1>7. Ranked(Append(g, e), E, Append(p, e))
  <2>1. \A k \in E : k \in D \/ k = n
    BY DEF E
  <2> QED BY <1>2, <1>4, <1>5, <1>6, <2>1 DEF Ranked
<1> QED BY <1>7 DEF E, n

\* The last events of p, listed as they are.
LEMMA RankedSuffix ==
  ASSUME NEW p \in Seq(Event), NEW g \in Seq(Event), Len(g) <= Len(p),
         \A i \in 1 .. Len(g) : g[i] = p[Len(p) - Len(g) + i]
  PROVE  Ranked(g, (Len(p) - Len(g) + 1) .. Len(p), p)
<1> DEFINE m == Len(p) - Len(g) + 1
<1>1. Len(p) \in Nat /\ Len(g) \in Nat /\ m \in Nat /\ m >= 1
  BY LenProperties
<1>2. Cardinality(m .. Len(p)) = Len(g)
  <2>1. Cardinality(m .. Len(p)) = IF m > Len(p) THEN 0 ELSE Len(p) - m + 1
    BY <1>1, FS_Interval, m \in Int, Len(p) \in Int
  <2> QED BY <1>1, <2>1
<1>3. ASSUME NEW k \in m .. Len(p)
      PROVE  g[Cardinality((m .. Len(p)) \cap (1 .. k))] = p[k]
  <2>1. (m .. Len(p)) \cap (1 .. k) = m .. k
    BY <1>1
  <2>2. Cardinality(m .. k) = k - m + 1
    <3>1. Cardinality(m .. k) = IF m > k THEN 0 ELSE k - m + 1
      BY <1>1, FS_Interval
    <3> QED BY <1>1, <3>1
  <2>3. k - m + 1 \in 1 .. Len(g) /\ Len(p) - Len(g) + (k - m + 1) = k
    BY <1>1
  <2> QED BY <2>1, <2>2, <2>3
<1> QED BY <1>2, <1>3 DEF Ranked

LEMMA JoinAppend ==
  ASSUME NEW s \in Seq(Event), NEW t \in Seq(Event), NEW e \in Event
  PROVE  s \o Append(t, e) = Append(s \o t, e)
<1>1. <<e>> \in Seq(Event) /\ s \o t \in Seq(Event)
  BY ConcatProperties
<1>2. Append(t, e) = t \o <<e>> /\ Append(s \o t, e) = (s \o t) \o <<e>>
  BY <1>1, AppendIsConcat
<1>3. (s \o t) \o <<e>> = s \o (t \o <<e>>)
  BY <1>1, ConcatAssociative
<1> QED BY <1>2, <1>3

\* Moving the first of t behind s changes nothing of s followed by t.
LEMMA HandOver ==
  ASSUME NEW s \in Seq(Event), NEW t \in Seq(Event), t # <<>>
  PROVE  /\ Append(s, Head(t)) \o Tail(t) = s \o t
         /\ s \o <<Head(t)>> \o Tail(t) = s \o t
<1>1. /\ Head(t) \in Event /\ Tail(t) \in Seq(Event) /\ Len(Tail(t)) = Len(t) - 1
      /\ \A i \in 1 .. Len(Tail(t)) : Tail(t)[i] = t[i + 1]
  BY HeadTailProperties
<1>2. /\ <<Head(t)>> \in Seq(Event) /\ Len(<<Head(t)>>) = 1 /\ <<Head(t)>>[1] = t[1]
  BY <1>1
<1>3. <<Head(t)>> \o Tail(t) = t
  <2> DEFINE r == <<Head(t)>> \o Tail(t)
  <2>1. /\ r \in Seq(Event) /\ Len(r) = 1 + Len(Tail(t))
        /\ \A i \in 1 .. 1 + Len(Tail(t)) : r[i] = IF i <= 1 THEN <<Head(t)>>[i] ELSE Tail(t)[i - 1]
    BY <1>1, <1>2, ConcatProperties
  <2>2. Len(t) \in Nat \ {0}
    BY EmptySeq
  <2>3. Len(r) = Len(t)
    BY <1>1, <2>1, <2>2
  <2>4. ASSUME NEW i \in 1 .. Len(r) PROVE r[i] = t[i]
    BY <1>1, <1>2, <2>1, <2>2, <2>3
  <2> QED BY <2>1, <2>3, <2>4, SeqEqual
<1>4. Append(s, Head(t)) = s \o <<Head(t)>>
  BY <1>1, AppendIsConcat
<1>5. s \o <<Head(t)>> \o Tail(t) = s \o (<<Head(t)>> \o Tail(t))
  BY <1>1, <1>2, ConcatAssociative
<1> QED BY <1>3, <1>4, <1>5
-----------------------------------------------------------------------------
\* t holds the last eventBacklog elements of p.
Keeps(t, p) ==
  /\ Len(t) = IF Len(p) > eventBacklog THEN eventBacklog ELSE Len(p)
  /\ \A i \in 1 .. Len(t) : t[i] = p[Len(p) - Len(t) + i]

PageTypes ==
  /\ published \in Seq(Event) /\ backlog \in Seq(Event)
  /\ seen \in [Browsers -> Seq(Event)] /\ hand \in [Browsers -> Seq(Event)]
  /\ ch \in [Browsers -> Seq(Event)]
  /\ since \in [Browsers -> Int] /\ dropped \in [Browsers -> SUBSET Nat]
  /\ subs \subseteq Browsers

\* A page that has not subscribed has nothing yet.
PageInv ==
  \A b \in Browsers :
    /\ since[b] \in -1 .. Len(published) /\ dropped[b] \subseteq 1 .. Len(published)
    /\ since[b] = -1 => /\ b \notin subs /\ dropped[b] = {}
                        /\ seen[b] = <<>> /\ hand[b] = <<>> /\ ch[b] = <<>>

Paged == PageTypes /\ Keeps(backlog, published) /\ PageInv /\ FeedHasNoGap

LEMMA Gapless == FeedHasNoGap <=> \A b \in subs : Ranked(Got(b), DueTo(b), published)
BY DEF FeedHasNoGap, Ranked

LEMMA TrimKeeps ==
  ASSUME NEW p \in Seq(Event), NEW t \in Seq(Event), NEW e \in Event, Keeps(t, p)
  PROVE  Trimmed(Append(t, e)) \in Seq(Event) /\ Keeps(Trimmed(Append(t, e)), Append(p, e))
<1> DEFINE r == Append(t, e)
           x == Append(p, e)
<1>0. eventBacklog \in Nat /\ eventBacklog > 0 /\ Len(p) \in Nat /\ Len(t) \in Nat
  BY FeedAssumptions, LenProperties
<1>1. /\ r \in Seq(Event) /\ Len(r) = Len(t) + 1 /\ r[Len(t) + 1] = e
      /\ \A i \in 1 .. Len(t) : r[i] = t[i]
  BY AppendProperties
<1>2. /\ x \in Seq(Event) /\ Len(x) = Len(p) + 1 /\ x[Len(p) + 1] = e
      /\ \A i \in 1 .. Len(p) : x[i] = p[i]
  BY AppendProperties
<1>3. /\ Len(t) <= Len(p) /\ Len(t) <= eventBacklog
      /\ Len(t) < eventBacklog => Len(t) = Len(p)
      /\ \A i \in 1 .. Len(t) : t[i] = p[Len(p) - Len(t) + i]
  <2>1. Len(t) = IF Len(p) > eventBacklog THEN eventBacklog ELSE Len(p)
    BY DEF Keeps
  <2>2. Len(t) <= Len(p) /\ Len(t) <= eventBacklog /\ (Len(t) < eventBacklog => Len(t) = Len(p))
    BY <1>0, <2>1
  <2> QED BY <2>2 DEF Keeps
<1>4. \A i \in 1 .. Len(r) : r[i] = x[Len(x) - Len(r) + i] /\ r[i] \in Event
  <2> SUFFICES ASSUME NEW i \in 1 .. Len(r)
               PROVE  r[i] = x[Len(x) - Len(r) + i] /\ r[i] \in Event
    OBVIOUS
  <2>1. r[i] \in Event
    BY <1>1, ElementOfSeq
  <2>2. CASE i = Len(t) + 1
    BY <1>0, <1>1, <1>2, <2>1, <2>2
  <2>3. CASE i \in 1 .. Len(t)
    <3>1. Len(p) - Len(t) + i \in 1 .. Len(p) /\ Len(x) - Len(r) + i = Len(p) - Len(t) + i
      BY <1>0, <1>1, <1>2, <1>3, <2>3
    <3> QED BY <1>1, <1>2, <1>3, <2>1, <2>3, <3>1
  <2>4. i = Len(t) + 1 \/ i \in 1 .. Len(t)
    BY <1>0, <1>1
  <2> QED BY <2>2, <2>3, <2>4
<1> HIDE DEF r, x
<1>5. CASE Len(t) < eventBacklog
  <2>1. Trimmed(r) = r
    BY <1>0, <1>1, <1>5 DEF Trimmed
  <2>2. Len(r) = IF Len(x) > eventBacklog THEN eventBacklog ELSE Len(x)
    BY <1>0, <1>1, <1>2, <1>3, <1>5
  <2> QED BY <1>1, <1>4, <2>1, <2>2 DEF Keeps, r, x
<1>6. CASE Len(t) = eventBacklog
  <2>1. Len(r) = eventBacklog + 1 /\ Trimmed(r) = SubSeq(r, 2, eventBacklog + 1)
    <3>1. Len(r) - eventBacklog + 1 = 2 /\ Len(r) = eventBacklog + 1 /\ Len(r) > eventBacklog
      BY <1>0, <1>1, <1>6
    <3> QED BY <3>1 DEF Trimmed
  <2>2. \A i \in 2 .. eventBacklog + 1 : r[i] \in Event
    BY <1>0, <1>4, <2>1
  <2>3. /\ Trimmed(r) \in Seq(Event)
        /\ Len(Trimmed(r)) = IF 2 <= eventBacklog + 1 THEN eventBacklog + 1 - 2 + 1 ELSE 0
        /\ \A i \in 1 .. eventBacklog + 1 - 2 + 1 : Trimmed(r)[i] = r[2 + i - 1]
    BY <1>0, <2>1, <2>2, SubSeqProperties, 2 \in Int, eventBacklog + 1 \in Int
  <2>4. Len(Trimmed(r)) = eventBacklog
    BY <1>0, <2>3
  <2>5. \A i \in 1 .. eventBacklog : Trimmed(r)[i] = x[Len(x) - eventBacklog + i]
    <3> SUFFICES ASSUME NEW i \in 1 .. eventBacklog
                 PROVE  Trimmed(r)[i] = x[Len(x) - eventBacklog + i]
      OBVIOUS
    <3>1. /\ i \in 1 .. eventBacklog + 1 - 2 + 1 /\ 2 + i - 1 = i + 1 /\ i + 1 \in 1 .. Len(r)
          /\ Len(x) - Len(r) + (i + 1) = Len(x) - eventBacklog + i
      BY <1>0, <1>2, <2>1
    <3> QED BY <1>4, <2>3, <3>1
  <2>6. eventBacklog = IF Len(x) > eventBacklog THEN eventBacklog ELSE Len(x)
    BY <1>0, <1>2, <1>3, <1>6
  <2>7. Keeps(Trimmed(r), x)
    BY <2>4, <2>5, <2>6 DEF Keeps
  <2> QED BY <2>3, <2>7 DEF r, x
<1> QED BY <1>0, <1>3, <1>5, <1>6

\* What is due to a page lies among the events published.
LEMMA DueRange ==
  ASSUME PageTypes, PageInv, NEW b \in Browsers
  PROVE  /\ First(b) \in Nat /\ First(b) >= 1 /\ First(b) <= Len(published) + 1
         /\ Len(published) \in Nat /\ DueTo(b) \in SUBSET (1 .. Len(published))
<1>1. /\ eventBacklog \in Nat /\ eventBacklog > 0 /\ Len(published) \in Nat
      /\ since[b] \in Int /\ since[b] <= Len(published)
  BY FeedAssumptions DEF PageTypes, PageInv
<1>2. First(b) \in Nat /\ First(b) >= 1 /\ First(b) <= Len(published) + 1
  BY <1>1 DEF First
<1> QED BY <1>1, <1>2 DEF DueTo

\* Publish reaches every page that has room, and tells of the others in dropped.
LEMMA PublishPages ==
  ASSUME Paged, NEW e \in Event, Publish(e), UNCHANGED pageVars
  PROVE  Paged'
<1> DEFINE n == Len(published) + 1
           full == {b \in subs : Len(ch[b]) >= subBuffer}
<1>0. PageTypes /\ PageInv /\ Keeps(backlog, published) /\ FeedHasNoGap
  BY DEF Paged
<1>1. /\ backlog' = Trimmed(Append(backlog, e)) /\ published' = Append(published, e)
      /\ ch' = [b \in Browsers |-> IF b \in subs \ full THEN Append(ch[b], e) ELSE ch[b]]
      /\ dropped' = [b \in Browsers |-> IF b \in full THEN dropped[b] \cup {n} ELSE dropped[b]]
      /\ subs' = subs /\ hand' = hand /\ seen' = seen /\ since' = since
  BY DEF Publish, pageVars
<1>2. backlog' \in Seq(Event) /\ Keeps(backlog, published)'
  BY <1>0, <1>1, TrimKeeps DEF PageTypes, Keeps
<1>3. /\ Len(published) \in Nat /\ published' \in Seq(Event) /\ Len(published') = n
  BY <1>0, <1>1, AppendProperties DEF PageTypes
<1>4. \A b \in Browsers : Append(ch[b], e) \in Seq(Event)
  BY <1>0, AppendProperties DEF PageTypes
<1>5. PageTypes'
  <2>1. ch' \in [Browsers -> Seq(Event)]
    BY <1>0, <1>1, <1>4 DEF PageTypes
  <2>2. dropped' \in [Browsers -> SUBSET Nat]
    BY <1>0, <1>1, <1>3 DEF PageTypes
  <2> QED BY <1>0, <1>1, <1>2, <1>3, <2>1, <2>2 DEF PageTypes
<1>6. PageInv'
  <2> SUFFICES ASSUME NEW b \in Browsers
               PROVE  /\ since[b] \in -1 .. n /\ dropped'[b] \subseteq 1 .. n
                      /\ since[b] = -1 => /\ b \notin subs /\ dropped'[b] = {}
                                          /\ seen[b] = <<>> /\ hand[b] = <<>> /\ ch'[b] = <<>>
    BY <1>1, <1>3 DEF PageInv
  <2>1. since[b] \in -1 .. n
    BY <1>0, <1>3 DEF PageInv
  <2>2. dropped'[b] \subseteq 1 .. n
    BY <1>0, <1>1, <1>3 DEF PageInv
  <2>3. since[b] = -1 => /\ b \notin subs /\ dropped'[b] = {}
                         /\ seen[b] = <<>> /\ hand[b] = <<>> /\ ch'[b] = <<>>
    BY <1>0, <1>1 DEF PageInv
  <2> QED BY <2>1, <2>2, <2>3
<1>7. ASSUME NEW b \in subs PROVE Ranked(Got(b)', DueTo(b)', published')
  <2>1. b \in Browsers /\ Ranked(Got(b), DueTo(b), published)
    BY <1>0, Gapless DEF PageTypes
  <2>2. /\ First(b)' = First(b) /\ First(b) \in Nat /\ First(b) <= n
        /\ DueTo(b) \in SUBSET (1 .. Len(published))
    BY <1>0, <1>1, <2>1, DueRange DEF First
  <2>3. /\ seen[b] \in Seq(Event) /\ hand[b] \in Seq(Event) /\ ch[b] \in Seq(Event)
        /\ seen[b] \o hand[b] \in Seq(Event) /\ Got(b) \in Seq(Event)
    BY <1>0, <2>1, ConcatProperties DEF PageTypes, Got
  <2>4. CASE b \in full
    <3>1. Got(b)' = Got(b)
      BY <1>1, <2>1, <2>4 DEF Got
    <3>2. DueTo(b)' = (First(b) .. n) \ (dropped[b] \cup {n})
      BY <1>1, <1>3, <2>1, <2>2, <2>4 DEF DueTo
    <3>3. DueTo(b)' = DueTo(b)
      BY <1>3, <2>2, <3>2 DEF DueTo
    <3> QED BY <1>0, <1>1, <2>1, <2>2, <3>1, <3>3, RankedSkip DEF PageTypes
  <2>5. CASE b \notin full
    <3>1. Got(b)' = Append(Got(b), e)
      <4>1. Got(b)' = (seen[b] \o hand[b]) \o Append(ch[b], e)
        BY <1>1, <2>1, <2>5 DEF Got
      <4>2. (seen[b] \o hand[b]) \o Append(ch[b], e) = Append((seen[b] \o hand[b]) \o ch[b], e)
        BY <2>3, JoinAppend
      <4> QED BY <4>1, <4>2 DEF Got
    <3>2. DueTo(b)' = (First(b) .. n) \ dropped[b]
      BY <1>1, <1>3, <2>1, <2>2, <2>5 DEF DueTo
    <3>3. n \notin dropped[b]
      BY <1>0, <1>3, <2>1 DEF PageInv
    <3>4. DueTo(b)' = DueTo(b) \cup {n}
      BY <1>3, <2>2, <3>2, <3>3 DEF DueTo
    <3> QED BY <1>0, <1>1, <2>1, <2>2, <2>3, <3>1, <3>4, RankedAppend DEF PageTypes
  <2> QED BY <2>4, <2>5
<1>8. FeedHasNoGap'
  BY <1>1, <1>7, Gapless DEF FeedHasNoGap, Ranked
<1> QED BY <1>2, <1>5, <1>6, <1>8 DEF Paged

\* Subscribe hands out the backlog in the step that registers the page.
LEMMA SubscribePages ==
  ASSUME Paged, NEW b \in Browsers, Subscribe(b)
  PROVE  Paged'
<1>0. PageTypes /\ PageInv /\ Keeps(backlog, published) /\ FeedHasNoGap
  BY DEF Paged
<1>1. /\ since[b] = -1 /\ subs' = subs \cup {b}
      /\ hand' = [hand EXCEPT ![b] = backlog] /\ since' = [since EXCEPT ![b] = Len(published)]
      /\ published' = published /\ backlog' = backlog /\ dropped' = dropped /\ ch' = ch /\ seen' = seen
  BY DEF Subscribe, History, busVars
<1>2. /\ Len(published) \in Nat /\ Len(backlog) \in Nat /\ eventBacklog \in Nat /\ eventBacklog > 0
  BY <1>0, FeedAssumptions DEF PageTypes
<1>3. PageTypes'
  <2>1. hand' \in [Browsers -> Seq(Event)]
    BY <1>0, <1>1 DEF PageTypes
  <2>2. since' \in [Browsers -> Int]
    BY <1>0, <1>1, <1>2 DEF PageTypes
  <2> QED BY <1>0, <1>1, <2>1, <2>2 DEF PageTypes
<1>4. /\ hand'[b] = backlog /\ since'[b] = Len(published)
      /\ \A c \in Browsers \ {b} : hand'[c] = hand[c] /\ since'[c] = since[c]
  BY <1>0, <1>1 DEF PageTypes
<1>5. PageInv'
  <2> SUFFICES ASSUME NEW c \in Browsers
               PROVE  /\ since'[c] \in -1 .. Len(published) /\ dropped[c] \subseteq 1 .. Len(published)
                      /\ since'[c] = -1 => /\ c \notin subs' /\ dropped[c] = {}
                                           /\ seen[c] = <<>> /\ hand'[c] = <<>> /\ ch[c] = <<>>
    BY <1>1 DEF PageInv
  <2>1. CASE c = b
    BY <1>0, <1>2, <1>4, <2>1 DEF PageInv
  <2>2. CASE c # b
    BY <1>0, <1>1, <1>4, <2>2 DEF PageInv
  <2> QED BY <2>1, <2>2
<1>6. Ranked(Got(b)', DueTo(b)', published)
  <2>1. seen[b] = <<>> /\ ch[b] = <<>> /\ dropped[b] = {} /\ backlog \in Seq(Event)
    BY <1>0, <1>1 DEF PageInv, PageTypes
  <2>2. Got(b)' = <<>> \o backlog \o <<>>
    BY <1>1, <1>4, <2>1 DEF Got
  <2>3. Got(b)' = backlog
    BY <2>1, <2>2, ConcatEmptySeq
  <2>4. /\ Len(backlog) <= Len(published)
        /\ First(b)' = Len(published) - Len(backlog) + 1
    BY <1>0, <1>2, <1>4 DEF First, Keeps
  <2>5. DueTo(b)' = (Len(published) - Len(backlog) + 1) .. Len(published)
    BY <1>1, <2>1, <2>4 DEF DueTo
  <2>6. \A i \in 1 .. Len(backlog) : backlog[i] = published[Len(published) - Len(backlog) + i]
    BY <1>0 DEF Keeps
  <2>7. published \in Seq(Event)
    BY <1>0 DEF PageTypes
  <2> QED BY <2>1, <2>3, <2>4, <2>5, <2>6, <2>7, RankedSuffix
<1>7. ASSUME NEW c \in subs, c # b PROVE Got(c)' = Got(c) /\ DueTo(c)' = DueTo(c)
  <2>1. c \in Browsers \ {b}
    BY <1>0, <1>7 DEF PageTypes
  <2> QED BY <1>1, <1>4, <2>1 DEF Got, DueTo, First
<1>8. \A c \in subs' : Ranked(Got(c)', DueTo(c)', published')
  BY <1>0, <1>1, <1>6, <1>7, Gapless
<1>9. FeedHasNoGap'
  BY <1>8 DEF FeedHasNoGap, Ranked
<1> QED BY <1>0, <1>1, <1>3, <1>5, <1>9 DEF Paged, Keeps

\* The handler moves what it has from the channel to the page, in order.
LEMMA HandlerPages ==
  ASSUME Paged, NEW b \in Browsers, Receive(b) \/ writeSSE(b)
  PROVE  Paged'
<1>0. PageTypes /\ PageInv /\ Keeps(backlog, published) /\ FeedHasNoGap
  BY DEF Paged
<1>1. /\ b \in subs /\ subs' = subs /\ since' = since
      /\ published' = published /\ backlog' = backlog /\ dropped' = dropped
  BY DEF Receive, writeSSE, busVars
<1>2. seen[b] \in Seq(Event) /\ hand[b] \in Seq(Event) /\ ch[b] \in Seq(Event)
  BY <1>0 DEF PageTypes
<1>3. PageTypes' /\ (\A c \in Browsers \ {b} : seen'[c] = seen[c] /\ hand'[c] = hand[c] /\ ch'[c] = ch[c])
  <2>1. CASE Receive(b)
    <3>1. /\ ch[b] # <<>> /\ seen' = seen
          /\ hand' = [hand EXCEPT ![b] = <<Head(ch[b])>>] /\ ch' = [ch EXCEPT ![b] = Tail(ch[b])]
      BY <2>1 DEF Receive
    <3>2. <<Head(ch[b])>> \in Seq(Event) /\ Tail(ch[b]) \in Seq(Event)
      BY <1>2, <3>1, HeadTailProperties
    <3>3. hand' \in [Browsers -> Seq(Event)] /\ ch' \in [Browsers -> Seq(Event)]
      BY <1>0, <3>1, <3>2 DEF PageTypes
    <3> QED BY <1>0, <1>1, <3>1, <3>3 DEF PageTypes
  <2>2. CASE writeSSE(b)
    <3>1. /\ hand[b] # <<>> /\ ch' = ch
          /\ seen' = [seen EXCEPT ![b] = Append(seen[b], Head(hand[b]))]
          /\ hand' = [hand EXCEPT ![b] = Tail(hand[b])]
      BY <2>2 DEF writeSSE
    <3>2. Head(hand[b]) \in Event /\ Tail(hand[b]) \in Seq(Event)
      BY <1>2, <3>1, HeadTailProperties
    <3>3. Append(seen[b], Head(hand[b])) \in Seq(Event)
      BY <1>2, <3>2, AppendProperties
    <3>4. hand' \in [Browsers -> Seq(Event)] /\ seen' \in [Browsers -> Seq(Event)]
      BY <1>0, <3>1, <3>2, <3>3 DEF PageTypes
    <3> QED BY <1>0, <1>1, <3>1, <3>4 DEF PageTypes
  <2> QED BY <2>1, <2>2
<1>4. Got(b)' = Got(b)
  <2>1. CASE Receive(b)
    <3>1. /\ ch[b] # <<>> /\ hand[b] = <<>> /\ seen'[b] = seen[b]
          /\ hand'[b] = <<Head(ch[b])>> /\ ch'[b] = Tail(ch[b])
      BY <1>0, <2>1 DEF Receive, PageTypes
    <3>2. seen[b] \o <<Head(ch[b])>> \o Tail(ch[b]) = seen[b] \o ch[b]
      BY <1>2, <3>1, HandOver
    <3>3. seen[b] \o hand[b] = seen[b]
      BY <1>2, <3>1, ConcatEmptySeq
    <3> QED BY <3>1, <3>2, <3>3 DEF Got
  <2>2. CASE writeSSE(b)
    <3>1. /\ hand[b] # <<>> /\ ch'[b] = ch[b]
          /\ seen'[b] = Append(seen[b], Head(hand[b])) /\ hand'[b] = Tail(hand[b])
      BY <1>0, <2>2 DEF writeSSE, PageTypes
    <3>2. Append(seen[b], Head(hand[b])) \o Tail(hand[b]) = seen[b] \o hand[b]
      BY <1>2, <3>1, HandOver
    <3> QED BY <3>1, <3>2 DEF Got
  <2> QED BY <2>1, <2>2
<1>5. ASSUME NEW c \in subs PROVE Got(c)' = Got(c) /\ DueTo(c)' = DueTo(c)
  <2>1. c \in Browsers
    BY <1>0 DEF PageTypes
  <2>2. Got(c)' = Got(c)
    BY <1>3, <1>4, <2>1 DEF Got
  <2> QED BY <1>1, <2>2 DEF DueTo, First
<1>6. \A c \in subs' : Ranked(Got(c)', DueTo(c)', published')
  BY <1>0, <1>1, <1>5, Gapless
<1>7. FeedHasNoGap'
  BY <1>6 DEF FeedHasNoGap, Ranked
<1>8. PageInv'
  <2> SUFFICES ASSUME NEW c \in Browsers
               PROVE  /\ since[c] \in -1 .. Len(published) /\ dropped[c] \subseteq 1 .. Len(published)
                      /\ since[c] = -1 => /\ c \notin subs /\ dropped[c] = {}
                                          /\ seen'[c] = <<>> /\ hand'[c] = <<>> /\ ch'[c] = <<>>
    BY <1>1 DEF PageInv
  <2>1. since[b] # -1
    BY <1>0, <1>1 DEF PageInv
  <2> QED BY <1>0, <1>3, <2>1 DEF PageInv
<1> QED BY <1>0, <1>1, <1>3, <1>7, <1>8 DEF Paged, Keeps

\* The rest touches neither the bus nor what an open page has.
LEMMA ElsewherePages ==
  ASSUME Paged, UNCHANGED <<published, backlog, dropped, ch, hand, seen, since>>, subs' \subseteq subs
  PROVE  Paged'
<1>1. PageTypes' /\ Keeps(backlog, published)' /\ PageInv'
  BY DEF Paged, PageTypes, Keeps, PageInv
<1>2. \A b \in subs : Got(b)' = Got(b) /\ DueTo(b)' = DueTo(b)
  BY DEF Got, DueTo, First
<1>3. FeedHasNoGap'
  BY <1>2 DEF Paged, FeedHasNoGap
<1> QED BY <1>1, <1>3 DEF Paged

LEMMA PagedInit == ASSUME FeedInit PROVE Paged
<1>1. /\ published = <<>> /\ backlog = <<>> /\ subs = {}
      /\ ch = [b \in Browsers |-> <<>>] /\ hand = [b \in Browsers |-> <<>>]
      /\ seen = [b \in Browsers |-> <<>>] /\ since = [b \in Browsers |-> -1]
      /\ dropped = [b \in Browsers |-> {}]
  BY DEF FeedInit
<1>2. <<>> \in Seq(Event) /\ Len(<<>>) = 0
  BY EmptySeq
<1>3. PageTypes
  BY <1>1, <1>2 DEF PageTypes
<1>4. Keeps(backlog, published)
  BY <1>1, <1>2, FeedAssumptions DEF Keeps
<1>5. PageInv
  BY <1>1, <1>2 DEF PageInv
<1>6. FeedHasNoGap
  BY <1>1 DEF FeedHasNoGap
<1> QED BY <1>3, <1>4, <1>5, <1>6 DEF Paged

LEMMA ReadEvent ==
  ASSUME Shipped, NEW s \in Sessions, consumeAgentLog(s)
  PROVE  <<s, Head(wire[s])>> \in Event
<1>1. wire[s] \in Seq(Nat) /\ s \in Nat /\ wire[s] # <<>>
  BY FeedAssumptions DEF Shipped, ShipTypes, Sessions, consumeAgentLog
<1> QED BY <1>1, HeadTailProperties DEF Event

LEMMA PagedStep == ASSUME Shipped, Paged, [FeedNext]_feedVars PROVE Paged'
<1>1. CASE PublishOwn
  <2>1. published \in Seq(Event)
    BY DEF Paged, PageTypes
  <2>2. <<None, Len(published) + 1>> \in Event
    BY <2>1 DEF Event, None
  <2> QED BY <1>1, <2>2, PublishPages DEF PublishOwn
<1>2. ASSUME NEW s \in Sessions, consumeAgentLog(s) PROVE Paged'
  <2>1. <<s, Head(wire[s])>> \in Event
    BY <1>2, ReadEvent
  <2> QED BY <1>2, <2>1, PublishPages DEF consumeAgentLog
<1>3. ASSUME NEW b \in Browsers, Subscribe(b) \/ Receive(b) \/ writeSSE(b) PROVE Paged'
  BY <1>3, SubscribePages, HandlerPages
<1>4. CASE \/ Handle \/ Pop \/ ReadStream \/ WriteLine \/ LineLost \/ attach \/ detach
           \/ \E s \in Sessions : SessionDies(s)
           \/ \E b \in Browsers : Leave(b) \/ Return(b)
           \/ UNCHANGED feedVars
  <2>1. UNCHANGED <<published, backlog, dropped, ch, hand, seen, since>> /\ subs' \subseteq subs
    BY <1>4 DEF Handle, Pop, ReadStream, WriteLine, LineLost, attach, detach, SessionDies, Leave,
       Return, unsubscribe, feedVars, busVars, pageVars
  <2> QED BY <2>1, ElsewherePages
<1> QED BY <1>1, <1>2, <1>3, <1>4 DEF FeedNext

\* handleEvents and the bus: a page that is open has been sent, or will be, every
\* event since it came and the backlog before, each once and in the order of
\* Publish, but for those its own full channel refused. For any backlog, channel
\* size and number of pages, and readers of any number of sessions publishing.
THEOREM NoGap == FeedSpec => []FeedHasNoGap
<1>1. Paged => FeedHasNoGap
  BY DEF Paged
<1> QED BY <1>1, ShippedInit, ShippedStep, PagedInit, PagedStep, PTL DEF FeedSpec
-----------------------------------------------------------------------------
InLimits == FeedTypeOK /\ logged <= MaxLines /\ (runner.pc # "idle" => runner.line > 0)

LEMMA InLimitsInit == ASSUME FeedInit PROVE InLimits
<1>1. <<>> \in Seq(1 .. MaxLines) /\ Len(<<>>) = 0
  BY EmptySeq
<1>2. {ShipQueue, eventBacklog, subBuffer, MaxLines, MaxSessions} \subseteq Nat
  BY FeedAssumptions
<1>3. /\ lines = <<>> /\ w = 0 /\ runner = [pc |-> "idle", line |-> 0, w |-> 0]
      /\ sess = 0 /\ attached = FALSE /\ up = {} /\ wire = [s \in Sessions |-> <<>>]
      /\ backlog = <<>> /\ subs = {} /\ here = {} /\ ch = [b \in Browsers |-> <<>>]
      /\ born = <<>> /\ failed = {}
  BY DEF FeedInit, Idle, None
<1>4. runner \in [pc : {"idle", "popped", "writing"}, line : 0 .. MaxLines, w : Sessions \cup {None}]
  BY <1>2, <1>3 DEF None
<1>5. attached \in BOOLEAN
  BY <1>3
<1>6. \A b \in Browsers : Len(ch[b]) <= subBuffer
  BY <1>1, <1>2, <1>3
<1> QED BY <1>1, <1>2, <1>3, <1>4, <1>5, <1>6 DEF InLimits, FeedTypeOK, logged, None

\* The sink, the stream it writes to and the tunnel under it.
LEMMA InLimitsSink ==
  ASSUME InLimits, Shipped,
         \/ Handle \/ Pop \/ ReadStream \/ WriteLine \/ LineLost \/ attach \/ detach
         \/ \E s \in Sessions : SessionDies(s)
  PROVE  InLimits'
<1>0. /\ FeedTypeOK /\ logged <= MaxLines /\ (runner.pc # "idle" => runner.line > 0)
      /\ ShipTypes /\ ShipInv
      /\ ShipQueue \in Nat /\ MaxLines \in Nat /\ MaxSessions \in Nat
  BY FeedAssumptions DEF InLimits, Shipped
<1>1. UNCHANGED <<busVars, ch, pageVars>>
  BY DEF Handle, Pop, ReadStream, WriteLine, LineLost, attach, detach, SessionDies
<1>2. /\ Len(backlog') <= eventBacklog /\ subs' \subseteq Browsers /\ here' \subseteq Browsers
      /\ \A b \in Browsers : Len(ch'[b]) <= subBuffer
  BY <1>0, <1>1 DEF FeedTypeOK, busVars, pageVars
<1>3. logged \in Nat /\ lines \in Seq(1 .. MaxLines) /\ Len(lines) \in Nat /\ Len(lines) <= ShipQueue
  BY <1>0 DEF FeedTypeOK, ShipTypes, logged
<1>4. /\ w \in Sessions \cup {None} /\ up \subseteq Sessions /\ failed \subseteq Sessions
      /\ sess \in 0 .. MaxSessions /\ attached \in BOOLEAN
      /\ wire \in [Sessions -> Seq(1 .. MaxLines)]
      /\ runner \in [pc : {"idle", "popped", "writing"}, line : 0 .. MaxLines, w : Sessions \cup {None}]
  BY <1>0 DEF FeedTypeOK
<1>5. Idle \in [pc : {"idle", "popped", "writing"}, line : 0 .. MaxLines, w : Sessions \cup {None}]
  BY <1>0 DEF Idle, None
<1>6. lines' \in Seq(1 .. MaxLines) /\ Len(lines') <= ShipQueue /\ logged' <= MaxLines
  <2>1. CASE Handle
    <3>1. /\ logged < MaxLines
          /\ born' = Append(born, IF Len(lines) < ShipQueue /\ attached THEN sess ELSE None)
          /\ lines' = IF Len(lines) < ShipQueue THEN Append(lines, logged + 1) ELSE lines
      BY <2>1 DEF Handle
    <3>2. logged' = logged + 1
      BY <1>0, <3>1 DEF ShipTypes, logged
    <3>3. /\ Append(lines, logged + 1) \in Seq(1 .. MaxLines)
          /\ Len(Append(lines, logged + 1)) = Len(lines) + 1
      <4>1. logged + 1 \in 1 .. MaxLines
        BY <1>0, <1>3, <3>1
      <4> QED BY <1>3, <4>1, AppendProperties
    <3>4. logged' <= MaxLines
      BY <1>0, <1>3, <3>1, <3>2
    <3>5. lines' \in Seq(1 .. MaxLines) /\ Len(lines') <= ShipQueue
      <4>1. CASE Len(lines) < ShipQueue
        BY <1>0, <1>3, <3>1, <3>3, <4>1
      <4>2. CASE ~ (Len(lines) < ShipQueue)
        BY <1>0, <1>3, <3>1, <4>2
      <4> QED BY <4>1, <4>2
    <3> QED BY <3>4, <3>5
  <2>2. CASE Pop
    <3>1. lines # <<>> /\ lines' = Tail(lines) /\ born' = born
      BY <2>2 DEF Pop
    <3>2. Tail(lines) \in Seq(1 .. MaxLines) /\ Len(Tail(lines)) = Len(lines) - 1
      BY <1>3, <3>1, HeadTailProperties
    <3>3. Len(lines') <= ShipQueue
      BY <1>0, <1>3, <3>1, <3>2
    <3> QED BY <1>0, <3>1, <3>2, <3>3 DEF logged
  <2>3. CASE ~ Handle /\ ~ Pop
    <3>1. lines' = lines /\ born' = born
      BY <2>3 DEF ReadStream, WriteLine, LineLost, attach, detach, SessionDies, agentVars
    <3> QED BY <1>0, <1>3, <3>1 DEF logged
  <2> QED BY <2>1, <2>2, <2>3
<1>7. /\ runner' \in [pc : {"idle", "popped", "writing"}, line : 0 .. MaxLines, w : Sessions \cup {None}]
      /\ runner'.pc # "idle" => runner'.line > 0
  <2>1. CASE Pop
    <3>1. lines # <<>> /\ runner' = [pc |-> "popped", line |-> Head(lines), w |-> None]
      BY <2>1 DEF Pop
    <3>2. Head(lines) \in 0 .. MaxLines /\ Head(lines) > 0
      <4>1. Head(lines) \in 1 .. MaxLines
        BY <1>3, <3>1, HeadTailProperties
      <4> QED BY <1>0, <4>1
    <3> QED BY <3>1, <3>2
  <2>2. CASE ReadStream
    BY <1>0, <1>4, <1>5, <2>2 DEF ReadStream, Idle
  <2>3. CASE ~ Pop /\ ~ ReadStream
    <3>1. runner' \in {runner, Idle}
      BY <2>3 DEF Handle, WriteLine, LineLost, attach, detach, SessionDies, agentVars
    <3> QED BY <1>0, <1>4, <1>5, <3>1 DEF Idle
  <2> QED BY <2>1, <2>2, <2>3
<1>8. /\ w' \in Sessions \cup {None} /\ sess' \in 0 .. MaxSessions /\ attached' \in BOOLEAN
      /\ up' \subseteq Sessions
  <2>1. CASE attach
    <3>1. sess < MaxSessions /\ sess' = sess + 1 /\ attached' = TRUE /\ w' = sess + 1
          /\ up' = up \cup {sess + 1}
      BY <2>1 DEF attach
    <3>2. sess + 1 \in 0 .. MaxSessions /\ sess + 1 \in Sessions
      BY <1>0, <1>4, <3>1 DEF Sessions
    <3>3. attached' \in BOOLEAN
      BY <3>1
    <3> QED BY <1>4, <3>1, <3>2, <3>3
  <2>2. CASE ~ attach
    <3>1. w' \in {w, None} /\ sess' = sess /\ attached' \in {attached, FALSE} /\ up' \subseteq up
      BY <2>2 DEF Handle, Pop, ReadStream, WriteLine, LineLost, detach, SessionDies, Cleared, agentVars
    <3>2. attached' \in BOOLEAN
      BY <1>4, <3>1
    <3> QED BY <1>4, <3>1, <3>2
  <2> QED BY <2>1, <2>2
<1>9. failed' \subseteq Sessions
  <2>1. CASE LineLost
    <3>1. runner.pc = "writing" /\ failed' = failed \cup {runner.w}
      BY <2>1 DEF LineLost
    <3>2. runner.w \in Sessions
      BY <1>0, <1>4, <3>1 DEF ShipInv, Sessions
    <3> QED BY <1>4, <3>1, <3>2
  <2>2. CASE ~ LineLost
    BY <1>4, <2>2 DEF Handle, Pop, ReadStream, WriteLine, attach, detach, SessionDies, agentVars
  <2> QED BY <2>1, <2>2
<1>10. wire' \in [Sessions -> Seq(1 .. MaxLines)]
  <2>1. ASSUME NEW s \in Sessions, SessionDies(s) PROVE wire' \in [Sessions -> Seq(1 .. MaxLines)]
    <3>1. PICK n \in 0 .. Len(wire[s]) : wire' = [wire EXCEPT ![s] = SubSeq(wire[s], 1, n)]
      BY <2>1 DEF SessionDies
    <3>2. wire[s] \in Seq(1 .. MaxLines) /\ Len(wire[s]) \in Nat
      BY <1>4
    <3>3. \A i \in 1 .. n : wire[s][i] \in 1 .. MaxLines
      <4>1. \A i \in 1 .. Len(wire[s]) : wire[s][i] \in 1 .. MaxLines
        BY <3>2, ElementOfSeq
      <4> QED BY <3>2, <4>1
    <3>4. SubSeq(wire[s], 1, n) \in Seq(1 .. MaxLines)
      BY <3>2, <3>3, SubSeqProperties, 1 \in Int, n \in Int
    <3> QED BY <1>4, <3>1, <3>4
  <2>2. CASE WriteLine \/ LineLost
    <3>1. /\ runner.pc = "writing"
          /\ wire' = wire \/ wire' = [wire EXCEPT ![runner.w] = Append(wire[runner.w], runner.line)]
      BY <2>2 DEF WriteLine, LineLost
    <3>2. CASE wire' = wire
      BY <1>4, <3>2
    <3>3. CASE wire' = [wire EXCEPT ![runner.w] = Append(wire[runner.w], runner.line)]
      <4>1. runner.w \in Sessions /\ wire[runner.w] \in Seq(1 .. MaxLines) /\ runner.line \in 1 .. MaxLines
        BY <1>0, <1>4, <3>1 DEF ShipInv, Sessions
      <4>2. Append(wire[runner.w], runner.line) \in Seq(1 .. MaxLines)
        BY <4>1, AppendProperties
      <4> QED BY <1>4, <3>3, <4>2
    <3> QED BY <3>1, <3>2, <3>3
  <2>3. CASE Handle \/ Pop \/ ReadStream \/ attach \/ detach
    <3>1. wire' = wire
      BY <2>3 DEF Handle, Pop, ReadStream, attach, detach
    <3> QED BY <1>4, <3>1
  <2> QED BY <2>1, <2>2, <2>3
<1> QED BY <1>2, <1>6, <1>7, <1>8, <1>9, <1>10 DEF InLimits, FeedTypeOK

\* The bus and the pages.
LEMMA InLimitsBus ==
  ASSUME InLimits, Shipped, Paged, Paged',
         \/ PublishOwn \/ \E s \in Sessions : consumeAgentLog(s)
         \/ \E b \in Browsers : Subscribe(b) \/ Receive(b) \/ writeSSE(b) \/ Leave(b) \/ Return(b)
         \/ UNCHANGED feedVars
  PROVE  InLimits'
<1>0. /\ FeedTypeOK /\ logged <= MaxLines /\ (runner.pc # "idle" => runner.line > 0)
      /\ PageTypes /\ subBuffer \in Nat /\ subBuffer > 0 /\ eventBacklog \in Nat
  BY FeedAssumptions DEF InLimits, Paged
<1>1. UNCHANGED <<lines, w, runner, sess, attached, up, born, failed>>
  BY DEF PublishOwn, consumeAgentLog, Subscribe, Receive, writeSSE, Leave, Return, feedVars, agentVars
<1>2. wire' \in [Sessions -> Seq(1 .. MaxLines)]
  <2>1. ASSUME NEW s \in Sessions, consumeAgentLog(s) PROVE wire' \in [Sessions -> Seq(1 .. MaxLines)]
    <3>1. wire[s] # <<>> /\ wire' = [wire EXCEPT ![s] = Tail(wire[s])]
      BY <2>1 DEF consumeAgentLog
    <3>2. wire \in [Sessions -> Seq(1 .. MaxLines)] /\ wire[s] \in Seq(1 .. MaxLines)
      BY <1>0 DEF FeedTypeOK
    <3>3. Tail(wire[s]) \in Seq(1 .. MaxLines)
      BY <3>1, <3>2, HeadTailProperties
    <3> QED BY <3>1, <3>2, <3>3
  <2>2. CASE ~ \E s \in Sessions : consumeAgentLog(s)
    <3>1. wire' = wire
      BY <2>2 DEF PublishOwn, Subscribe, Receive, writeSSE, Leave, Return, feedVars
    <3> QED BY <1>0, <3>1 DEF FeedTypeOK
  <2> QED BY <2>1, <2>2
<1>3. subs' \subseteq Browsers /\ here' \subseteq Browsers
  <2>1. \/ UNCHANGED <<subs, here>>
        \/ \E b \in Browsers : subs' \subseteq subs \cup {b} /\ here' \subseteq here \cup {b}
    BY DEF PublishOwn, consumeAgentLog, Subscribe, Receive, writeSSE, Leave, Return, unsubscribe,
       feedVars, pageVars
  <2> QED BY <1>0, <2>1 DEF FeedTypeOK
<1>4. Len(backlog') <= eventBacklog /\ \A b \in Browsers : Len(ch'[b]) <= subBuffer
  <2>1. Len(backlog') <= eventBacklog
    <3>1. Keeps(backlog, published)' /\ published' \in Seq(Event)
      BY DEF Paged, PageTypes
    <3> QED BY <1>0, <3>1 DEF Keeps
  <2>2. ASSUME NEW e \in Event, Publish(e), NEW b \in Browsers PROVE Len(ch'[b]) <= subBuffer
    <3>1. \/ ch'[b] = ch[b]
          \/ ~ (Len(ch[b]) >= subBuffer) /\ ch'[b] = Append(ch[b], e)
      BY <2>2 DEF Publish
    <3>2. ch[b] \in Seq(Event) /\ Len(ch[b]) \in Nat /\ Len(ch[b]) <= subBuffer
      BY <1>0 DEF PageTypes, FeedTypeOK
    <3>3. Len(Append(ch[b], e)) = Len(ch[b]) + 1
      BY <3>2, AppendProperties
    <3> QED BY <1>0, <3>1, <3>2, <3>3
  <2>3. ASSUME NEW c \in Browsers, Receive(c), NEW b \in Browsers PROVE Len(ch'[b]) <= subBuffer
    <3>1. /\ ch[c] # <<>> /\ ch' = [ch EXCEPT ![c] = Tail(ch[c])]
      BY <2>3 DEF Receive
    <3>2. /\ ch[b] \in Seq(Event) /\ Len(ch[b]) \in Nat /\ Len(ch[b]) <= subBuffer
          /\ ch \in [Browsers -> Seq(Event)]
      BY <1>0 DEF PageTypes, FeedTypeOK
    <3>3. b = c => Len(Tail(ch[b])) = Len(ch[b]) - 1
      BY <3>1, <3>2, HeadTailProperties
    <3>4. ch'[b] = IF b = c THEN Tail(ch[b]) ELSE ch[b]
      BY <3>1, <3>2
    <3> QED BY <1>0, <3>2, <3>3, <3>4
  <2>4. \/ \E e \in Event : Publish(e)
        \/ \E c \in Browsers : Receive(c)
        \/ ch' = ch
    <3>1. ASSUME NEW s \in Sessions, consumeAgentLog(s) PROVE \E e \in Event : Publish(e)
      <4>1. <<s, Head(wire[s])>> \in Event
        BY <3>1, ReadEvent
      <4> QED BY <3>1, <4>1 DEF consumeAgentLog
    <3>2. CASE PublishOwn
      <4>1. <<None, Len(published) + 1>> \in Event
        BY <1>0 DEF PageTypes, Event, None
      <4> QED BY <3>2, <4>1 DEF PublishOwn
    <3>3. ASSUME NEW b \in Browsers, Subscribe(b) \/ writeSSE(b) \/ Leave(b) \/ Return(b)
          PROVE  ch' = ch
      BY <3>3 DEF Subscribe, writeSSE, Leave, Return
    <3>4. UNCHANGED feedVars => ch' = ch
      BY DEF feedVars
    <3> QED BY <3>1, <3>2, <3>3, <3>4
  <2>5. \A b \in Browsers : Len(ch[b]) <= subBuffer
    BY <1>0 DEF FeedTypeOK
  <2>6. ASSUME NEW b \in Browsers PROVE Len(ch'[b]) <= subBuffer
    BY <2>2, <2>3, <2>4, <2>5
  <2> QED BY <2>1, <2>6
<1> QED BY <1>0, <1>1, <1>2, <1>3, <1>4 DEF InLimits, FeedTypeOK, logged

\* Every queue keeps its limit (shipQueue, the backlog, a subscriber's channel)
\* and every line and session its range, whatever the sizes.
THEOREM FeedTypeCorrect == FeedSpec => []FeedTypeOK
<1>1. ASSUME InLimits, Shipped, Paged, [FeedNext]_feedVars PROVE InLimits'
  BY <1>1, PagedStep, InLimitsSink, InLimitsBus DEF FeedNext
<1>2. InLimits => FeedTypeOK
  BY DEF InLimits
<1> QED BY <1>1, <1>2, InLimitsInit, ShippedInit, ShippedStep, PagedInit, PagedStep, PTL DEF FeedSpec
=============================================================================
