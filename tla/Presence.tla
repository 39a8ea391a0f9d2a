------------------------------ MODULE Presence ------------------------------
(***************************************************************************)
(* What the relay's registry promises about the presence of an agent,      *)
(* without goroutines, locks or sockets: an agent id has at most one       *)
(* current session; a session takes the id over once and, having lost it,  *)
(* never gets it back; it loses the id in exactly one of two ways, by      *)
(* dying while it held it (which is announced) or by being replaced.       *)
(***************************************************************************)

CONSTANTS Agents, Sessions, NoSession

VARIABLES
  current,     \* current[a]: the session an agent is reached through
  lost,        \* the sessions that died while they were current
  replaced     \* the sessions another session of the same agent took over

presenceVars == <<current, lost, replaced>>

PresenceInit ==
  /\ current = [a \in Agents |-> NoSession]
  /\ lost = {}
  /\ replaced = {}

\* A session that has never held an id takes it over.
Arrive(a, s) ==
  /\ s \notin lost \cup replaced
  /\ \A b \in Agents : current[b] # s
  /\ current' = [current EXCEPT ![a] = s]
  /\ replaced' = replaced \cup ({current[a]} \ {NoSession})
  /\ UNCHANGED lost

\* The session that holds an id dies and nobody has taken over.
Leave(a) ==
  /\ current[a] # NoSession
  /\ lost' = lost \cup {current[a]}
  /\ current' = [current EXCEPT ![a] = NoSession]
  /\ UNCHANGED replaced

PresenceNext ==
  \E a \in Agents : Leave(a) \/ \E s \in Sessions : Arrive(a, s)

PresenceSpec == PresenceInit /\ [][PresenceNext]_presenceVars
=============================================================================
