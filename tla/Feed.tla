-------------------------------- MODULE Feed --------------------------------
(***************************************************************************)
(* How a warning logged on a machine reaches a dashboard: the agent's log  *)
(* sink and the stream it drains to (client/logship.go, session.go), the   *)
(* relay's reader of that stream (server/agent.go), the event bus          *)
(* (server/events.go) and the handler that feeds one browser               *)
(* (server/http.go).                                                       *)
(*                                                                         *)
(* An event is where it came from and its number: <<s, n>> is the agent's  *)
(* n-th warning, read from session s, and <<None, k>>, the k-th of all     *)
(* events, one of the relay itself (connected, kick, ...). What an event   *)
(* says is left out. Lines below warning never reach the sink.             *)
(***************************************************************************)
EXTENDS Integers, Sequences, FiniteSets, Functions

CONSTANTS
  ShipQueue,     \* shipQueue
  Window,        \* what a log stream holds before a write on it blocks
  eventBacklog, subBuffer,
  Browsers,      \* requests to /api/events, one per page opened
  MaxLines, MaxOwn, MaxSessions  \* bounds: warnings, events of the relay, tunnels

ASSUME FeedAssumptions ==
  /\ {ShipQueue, Window, eventBacklog, subBuffer} \subseteq Nat \ {0}
  /\ {MaxLines, MaxOwn, MaxSessions} \subseteq Nat

None == 0
Sessions == 1 .. MaxSessions

VARIABLES
  lines,      \* logSink.lines
  w,          \* logSink.w: the session whose log stream it is, or None
  runner,     \* logSink.run: what it holds and where it is
  sess,       \* the session the agent's runSession is in; the count of them
  attached,   \* runSession has attached a stream it has still to detach
  up,         \* the tunnels that are alive
  wire,       \* per session, lines written and not yet read by the relay
  backlog,    \* EventBus.backlog
  subs,       \* EventBus.subs
  ch,         \* per browser, its channel
  hand,       \* per browser, what its handler has still to write before it waits again
  seen,       \* per browser, what it was sent
  here,       \* browsers that are connected
  published,  \* history: every event, in the order of Publish
  since,      \* history: what was published when the browser subscribed
  dropped,    \* history: per browser, the places of the events its full channel refused
  born,       \* history: per line, the session it was queued in, or None
  failed      \* history: sessions whose log stream refused a write

agentVars == <<lines, w, runner, sess, attached, born, failed>>
busVars == <<backlog, published, dropped>>
pageVars == <<subs, hand, seen, here, since>>
feedVars == <<agentVars, up, wire, busVars, ch, pageVars>>

Idle == [pc |-> "idle", line |-> 0, w |-> None]
logged == Len(born)

FeedTypeOK ==
  /\ lines \in Seq(1 .. MaxLines) /\ Len(lines) <= ShipQueue
  /\ w \in Sessions \cup {None}
  /\ runner \in [pc : {"idle", "popped", "writing"}, line : 0 .. MaxLines, w : Sessions \cup {None}]
  /\ sess \in 0 .. MaxSessions /\ attached \in BOOLEAN /\ up \subseteq Sessions
  /\ wire \in [Sessions -> Seq(1 .. MaxLines)]
  /\ Len(backlog) <= eventBacklog
  /\ subs \subseteq Browsers /\ here \subseteq Browsers
  /\ \A b \in Browsers : Len(ch[b]) <= subBuffer
  /\ failed \subseteq Sessions

FeedInit ==
  /\ lines = <<>> /\ w = None /\ runner = Idle
  /\ sess = 0 /\ attached = FALSE /\ up = {}
  /\ wire = [s \in Sessions |-> <<>>]
  /\ backlog = <<>> /\ subs = {} /\ here = {}
  /\ ch = [b \in Browsers |-> <<>>] /\ hand = [b \in Browsers |-> <<>>]
  /\ seen = [b \in Browsers |-> <<>>]
  /\ published = <<>> /\ since = [b \in Browsers |-> -1]
  /\ dropped = [b \in Browsers |-> {}]
  /\ born = <<>> /\ failed = {}
-----------------------------------------------------------------------------
\* Mutants: a failed write that silences whatever stream is current, a backlog
\* that keeps one event too few.
Silences(s) == None
OneShort(q) == IF Len(q) >= eventBacklog THEN Tail(q) ELSE q

\* Handle, for a record at warning or above: queued if there is room.
Handle ==
  /\ logged < MaxLines
  /\ LET room == Len(lines) < ShipQueue
     IN  /\ lines' = IF room THEN Append(lines, logged + 1) ELSE lines
         /\ born' = Append(born, IF room /\ attached THEN sess ELSE None)
  /\ UNCHANGED <<w, runner, sess, attached, failed, up, wire, busVars, ch, pageVars>>

\* run: the next line is taken from the channel ...
Pop ==
  /\ runner.pc = "idle" /\ lines # <<>>
  /\ runner' = [pc |-> "popped", line |-> Head(lines), w |-> None]
  /\ lines' = Tail(lines)
  /\ UNCHANGED <<w, sess, attached, born, failed, up, wire, busVars, ch, pageVars>>

\* ... the current stream is read under the lock; without one the line is lost ...
ReadStream ==
  /\ runner.pc = "popped"
  /\ runner' = IF w = None THEN Idle ELSE [runner EXCEPT !.pc = "writing", !.w = w]
  /\ UNCHANGED <<lines, w, sess, attached, born, failed, up, wire, busVars, ch, pageVars>>

\* ... and the write happens without it.
WriteLine ==
  /\ runner.pc = "writing"
  /\ runner.w \in up /\ Len(wire[runner.w]) < Window
  /\ wire' = [wire EXCEPT ![runner.w] = Append(@, runner.line)]
  /\ runner' = Idle
  /\ UNCHANGED <<lines, w, sess, attached, born, failed, up, busVars, ch, pageVars>>

\* if s.w == w { s.w = nil }
Cleared(s) == IF w = s THEN None ELSE w

\* The write fails: the session is dead, or its connection stalled for longer
\* than yamux waits. The line is lost, though an error does not say that nothing
\* arrived.
LineLost ==
  /\ runner.pc = "writing"
  /\ w' = Cleared(runner.w)
  /\ runner' = Idle
  /\ failed' = failed \cup {runner.w}
  /\ \/ UNCHANGED wire
     \/ /\ runner.w \in up /\ Len(wire[runner.w]) < Window
        /\ wire' = [wire EXCEPT ![runner.w] = Append(@, runner.line)]
  /\ UNCHANGED <<lines, sess, attached, born, up, busVars, ch, pageVars>>
-----------------------------------------------------------------------------
\* runSession: a new tunnel, its log stream opened and attached ...
attach ==
  /\ ~attached /\ sess < MaxSessions
  /\ sess' = sess + 1 /\ attached' = TRUE
  /\ w' = sess + 1
  /\ up' = up \cup {sess + 1}
  /\ UNCHANGED <<lines, runner, born, failed, wire, busVars, ch, pageVars>>

\* External: the tunnel dies. What the relay had received it can still read.
SessionDies(s) ==
  /\ s \in up
  /\ up' = up \ {s}
  /\ \E n \in 0 .. Len(wire[s]) : wire' = [wire EXCEPT ![s] = SubSeq(@, 1, n)]
  /\ UNCHANGED <<agentVars, busVars, ch, pageVars>>

\* ... and detached when AcceptStream has failed.
detach ==
  /\ attached /\ sess \notin up
  /\ attached' = FALSE
  /\ w' = IF w = sess THEN None ELSE w
  /\ UNCHANGED <<lines, runner, sess, born, failed, up, wire, busVars, ch, pageVars>>
-----------------------------------------------------------------------------
\* The backlog keeps the last eventBacklog events.
Trimmed(q) == IF Len(q) > eventBacklog THEN SubSeq(q, Len(q) - eventBacklog + 1, Len(q)) ELSE q

\* Mutant: a send without a default waits for the slowest page.
Stalls(e) ==
  /\ \A b \in subs : Len(ch[b]) < subBuffer
  /\ backlog' = Trimmed(Append(backlog, e))
  /\ ch' = [b \in Browsers |-> IF b \in subs THEN Append(ch[b], e) ELSE ch[b]]
  /\ published' = Append(published, e)
  /\ UNCHANGED dropped

\* Publish, under the bus's lock: the backlog and every channel with room.
Publish(e) ==
  LET full == {b \in subs : Len(ch[b]) >= subBuffer}
  IN  /\ backlog' = Trimmed(Append(backlog, e))
      /\ ch' = [b \in Browsers |-> IF b \in subs \ full THEN Append(ch[b], e) ELSE ch[b]]
      /\ dropped' = [b \in Browsers |-> IF b \in full THEN dropped[b] \cup {Len(published) + 1}
                                          ELSE dropped[b]]
      /\ published' = Append(published, e)

\* consumeAgentLog of one session's stream; takeovers leave several at work.
consumeAgentLog(s) ==
  /\ wire[s] # <<>>
  /\ Publish(<<s, Head(wire[s])>>)
  /\ wire' = [wire EXCEPT ![s] = Tail(@)]
  /\ UNCHANGED <<agentVars, up, pageVars>>

\* Any other Publish of the relay: connected, disconnected, kick, stream, ...
PublishOwn ==
  /\ Cardinality({i \in DOMAIN published : published[i][1] = None}) < MaxOwn
  /\ Publish(<<None, Len(published) + 1>>)
  /\ UNCHANGED <<agentVars, up, wire, pageVars>>
-----------------------------------------------------------------------------
\* The copy Subscribe makes under the lock that also registers the channel.
History == backlog

\* handleEvents: Subscribe, with the history to write first.
Subscribe(b) ==
  /\ since[b] = -1
  /\ subs' = subs \cup {b} /\ here' = here \cup {b}
  /\ hand' = [hand EXCEPT ![b] = History]
  /\ since' = [since EXCEPT ![b] = Len(published)]
  /\ UNCHANGED <<agentVars, up, wire, busVars, ch, seen>>

\* case e := <-ch
Receive(b) ==
  /\ b \in subs /\ hand[b] = <<>> /\ ch[b] # <<>>
  /\ hand' = [hand EXCEPT ![b] = <<Head(ch[b])>>]
  /\ ch' = [ch EXCEPT ![b] = Tail(@)]
  /\ UNCHANGED <<agentVars, up, wire, busVars, subs, seen, here, since>>

\* writeSSE and the flush; a browser that does not read makes it wait.
writeSSE(b) ==
  /\ b \in subs /\ hand[b] # <<>>
  /\ seen' = [seen EXCEPT ![b] = Append(@, Head(hand[b]))]
  /\ hand' = [hand EXCEPT ![b] = Tail(@)]
  /\ UNCHANGED <<agentVars, up, wire, busVars, ch, subs, here, since>>

\* External: the page is closed, or the connection to it breaks.
Leave(b) ==
  /\ b \in here
  /\ here' = here \ {b}
  /\ UNCHANGED <<agentVars, up, wire, busVars, ch, subs, hand, seen, since>>

unsubscribe(b) == subs \ {b}

\* handleEvents returns: r.Context() is done, or a write failed.
Return(b) ==
  /\ b \in subs \ here
  /\ subs' = unsubscribe(b)
  /\ UNCHANGED <<agentVars, up, wire, busVars, ch, hand, seen, here, since>>

Ship == Pop \/ ReadStream \/ WriteLine \/ (runner.w \notin up /\ LineLost)

FeedNext ==
  \/ Handle \/ Pop \/ ReadStream \/ WriteLine \/ LineLost \/ attach \/ detach \/ PublishOwn
  \/ \E s \in Sessions : SessionDies(s) \/ consumeAgentLog(s)
  \/ \E b \in Browsers : Subscribe(b) \/ Receive(b) \/ writeSSE(b) \/ Leave(b) \/ Return(b)

FeedSpec == FeedInit /\ [][FeedNext]_feedVars

\* Goroutines run; a write on a dead tunnel fails; a handler learns that its
\* browser is gone. Nobody promises that a browser reads or a tunnel lives.
FeedFairness ==
  /\ WF_feedVars(Ship) /\ WF_feedVars(detach)
  /\ \A s \in Sessions : WF_feedVars(consumeAgentLog(s))
  /\ \A b \in Browsers : WF_feedVars(Return(b))

FeedFairSpec == FeedSpec /\ FeedFairness
-----------------------------------------------------------------------------
\* What a page was sent and will be sent, and which events that ought to be, by
\* their place in the order of Publish: the last eventBacklog before it came and
\* all after, except those its full channel refused.
Got(b) == seen[b] \o hand[b] \o ch[b]
First(b) == IF since[b] > eventBacklog THEN since[b] - eventBacklog + 1 ELSE 1
DueTo(b) == (First(b) .. Len(published)) \ dropped[b]

\* A page that is open misses nothing, sees nothing twice and sees it in order:
\* as many events as are due, and each due one in the place its rank gives it.
FeedHasNoGap ==
  \A b \in subs :
    /\ Len(Got(b)) = Cardinality(DueTo(b))
    /\ \A k \in DueTo(b) : Got(b)[Cardinality(DueTo(b) \cap (1 .. k))] = published[k]

\* The lines on their way to the relay over the tunnel the agent is in, and those
\* it published from there.
UnderWay ==
  Range(lines) \cup {runner.line} \cup Range(wire[sess])
    \cup {n \in 1 .. logged : <<sess, n>> \in Range(published)}

\* A session that failed cannot silence the next one: a warning queued while a
\* stream is attached is on its way or delivered as long as that tunnel lives
\* and none of its own writes failed.
LateFailureSilencesNobody ==
  \A n \in 1 .. logged :
    attached /\ born[n] = sess /\ sess \in up \ failed => n \in UnderWay

\* A warning logged while the tunnel is up is shown, unless that tunnel dies or
\* refuses a write first: earlier failures and slow pages do not hold it back.
WarningArrives ==
  \A n \in 1 .. MaxLines, s \in Sessions :
    (n <= logged /\ born[n] = s)
      ~> (s \notin up \/ s \in failed \/ <<s, n>> \in Range(published))

\* A queue at its limit gives up its oldest line (client/logship.go: "dropping old
\* warnings is better"). Does not hold: it is the new line that is refused.
NewestIsKept == [][logged' > logged => logged' \in Range(lines')]_feedVars

\* Reconnecting is not needed to be heard again. Does not hold: after one write
\* that timed out nothing attaches a stream until the next session.
HeardWhileConnected == attached /\ sess \in up => w = sess
=============================================================================
