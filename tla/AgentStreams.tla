---------------------------- MODULE AgentStreams ----------------------------
(***************************************************************************)
(* handleStream (client/session.go): the agent reads one header from each  *)
(* stream the relay opens and hands the stream to the handler of its kind: *)
(* a terminal, a forward or an ssh session (Streams), or one remote        *)
(* command (Exec). The other handler's variables stay as they are.         *)
(***************************************************************************)
EXTENDS Streams, Exec

allVars == <<vars, execVars>>

NoStream ==
  /\ kind = "rpc" /\ phase = "none" /\ client = "gone" /\ ws = FALSE
  /\ pump = {} /\ closed = {} /\ reset = FALSE
  /\ prog = "exited" /\ holder = FALSE /\ handle = FALSE /\ exitSent = FALSE
  /\ q = [h \in Hops |-> 0] /\ sent = 0 /\ wrote = 0 /\ got = 0 /\ late = FALSE

NoCall ==
  /\ now = 0 /\ call = "none" /\ timeout = 0 /\ began = 0 /\ transit = 0
  /\ shell = "none" /\ child = FALSE /\ overrun = FALSE /\ answer = "none"

StreamsInit == (Init /\ NoCall) \/ (NoStream /\ ExecInit)

handleStream ==
  \/ kind # "rpc" /\ Next /\ UNCHANGED execVars
  \/ kind = "rpc" /\ ExecNext /\ UNCHANGED vars

StreamsSpec == StreamsInit /\ [][handleStream]_allVars /\ Fairness

StreamsTypeOK == TypeOK /\ ExecTypeOK
=============================================================================
