SPECIFICATION StreamsSpec
CONSTANTS Cap = 1 MaxIn = 2 MaxOut = 2
defaultTimeout = 1 maxTimeout = 2 rpcTimeout = 4
Requests <- MCRequests
INVARIANTS EndComesLast HandlerLeavesNothing AgentBoundComesFirst
PROPERTIES HangupReaps ExitIsNoticed
CHECK_DEADLOCK FALSE
