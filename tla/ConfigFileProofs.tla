-------------------------- MODULE ConfigFileProofs --------------------------
(***************************************************************************)
(* Proofs about ConfigFile, for any number of commands, connections and    *)
(* keys, and whatever of the environment and of the caller's home a        *)
(* process sees.                                                           *)
(***************************************************************************)
EXTENDS ConfigFile, TLAPS

Kinds == {"login", "logout", "set", "form", "enroll"}

Process == [pc : {"idle", "loaded", "gen", "save", "write", "over"}, kind : Kinds \cup {"none"},
            who : Accounts, copy : Config, to : Files, stale : BOOLEAN]

\* The types, the histories' too: what a command is known by, and what it is about.
Types ==
  /\ file \in [Files -> Config \cup {Absent, Torn}]
  /\ proc \in [Procs -> Process]
  /\ sshServer \in 0 .. MaxKeys /\ shown \in 0 .. MaxKeys
  /\ keys \in [machine : 0 .. MaxKeys, host : 0 .. MaxKeys]
  /\ clash \in BOOLEAN /\ formed \in BOOLEAN /\ asked \in BOOLEAN
  /\ enrolled \subseteq Files /\ edited \subseteq Files
  /\ \A p \in Commands : proc[p].pc # "idle" => proc[p].kind \in Kinds

\* An assertion is for the key beside it, in every copy.
PairsInv ==
  /\ \A p \in Procs : proc[p].copy.assertion \in {0, proc[p].copy.key}
  /\ KeyMatchesAssertion

\* Until somebody saved a resolved configuration the environment is in no file,
\* nor in a copy of an ssh connection or a `config set` on its way to one.
EnvInv ==
  ~asked /\ ~formed =>
    /\ \A f \in Files : Readable(f) => file[f].server # "env"
    /\ \A p \in Commands : proc[p].pc # "idle" /\ proc[p].kind = "set" => proc[p].copy.server # "env"
    /\ \A c \in Conns : proc[c].pc \in {"save", "write", "over"} => proc[c].copy.server # "env"

\* Where a process will write: the connections to the machine's file, a person
\* to their own, root to either, and to the person's only if it is there.
PathsInv ==
  /\ \A c \in Conns : proc[c].pc # "idle" => proc[c].who = "service" /\ proc[c].to = "machine"
  /\ \A p \in Commands : proc[p].pc # "idle" =>
       /\ proc[p].who \in {"person", "root"}
       /\ proc[p].who = "person" => proc[p].to = "user"
       /\ proc[p].who = "root" /\ proc[p].to = "user" => SharesHome /\ file["user"] # Absent

\* A copy that may be written without overtaking anybody. (The form's is never
\* complete.)
Current(p) ==
  /\ proc[p].kind # "form"
  /\ \/ proc[p].pc = "write"
     \/ proc[p].pc \in {"loaded", "save"} /\ ~proc[p].stale

\* c has what was stored in f.
Keeps(f, c) == (f \in enrolled => c.assertion # 0) /\ (f \in edited => c.custom)

\* Nothing was stored in a file that is not there, and what was stored is in the
\* file and in every copy that may be written over it.
KeepsInv ==
  /\ \A f \in Files : file[f] = Absent => f \notin enrolled \cup edited
  /\ ~clash /\ ~formed =>
       /\ \A f \in Files : Readable(f) => Keeps(f, file[f])
       /\ \A p \in Procs : Current(p) => Keeps(proc[p].to, proc[p].copy)

\* The connection that holds sshMu, which is building the server.
Building(c) == proc[c].pc \in {"gen", "save", "write", "over"}

\* One builds at a time, with a key to save.
BuildInv ==
  /\ \A c, d \in Conns : Building(c) /\ Building(d) => c = d
  /\ \A c \in Conns : Building(c) => proc[c].copy.host # 0

\* Before a client saw a host key there is none, except the one being made.
UnseenInv ==
  shown = 0 =>
    /\ sshServer = 0
    /\ \A f \in Files : Readable(f) => file[f].host = 0
    /\ \A p \in Commands : proc[p].copy.host = 0
    /\ \A c \in Conns : proc[c].pc = "loaded" => proc[c].copy.host = 0

\* Once a client saw one it is the server's, the machine file's and that of every
\* copy that may be written there, and no other is being made.
SeenInv ==
  ~clash /\ ~formed /\ shown # 0 =>
    /\ sshServer \in {0, shown}
    /\ file["machine"] # Absent /\ (Readable("machine") => file["machine"].host = shown)
    /\ \A p \in Commands : Current(p) /\ proc[p].to = "machine" => proc[p].copy.host = shown
    /\ \A c \in Conns : /\ ~Building(c)
                        /\ proc[c].pc = "loaded" =>
                             \/ proc[c].copy.host = shown
                             \/ proc[c].copy.host = 0 /\ sshServer # 0

IInv == /\ Types /\ PairsInv /\ EnvInv /\ PathsInv /\ KeepsInv /\ BuildInv
        /\ UnseenInv /\ SeenInv
-----------------------------------------------------------------------------
(***************************************************************************)
(* What the operators of the model return.                                 *)
(***************************************************************************)

LEMMA EmptyConfig == Empty \in Config /\ Idle \in Process
<1>1. 0 \in 0 .. MaxKeys
  BY ConfigAssumptions
<1>2. Empty \in Config
  BY <1>1 DEF Empty, Config
<1> QED BY <1>2 DEF Idle, Process, Accounts, Files

\* saveConfigPath and readConfigFile agree: a process starts from the file it
\* will write to, or that file is not there yet.
LEMMA ReadsWhereItWrites ==
  ASSUME Types, NEW a \in Accounts, file[configPath(a)] # Torn
  PROVE  /\ saveConfigPath(a) \in Files
         /\ readConfigFile(a) \in Config
         /\ \/ /\ Readable(saveConfigPath(a))
               /\ readConfigFile(a) = file[saveConfigPath(a)]
            \/ file[saveConfigPath(a)] = Absent /\ readConfigFile(a) = Empty
<1>1. configPath(a) \in Files
  BY DEF configPath, Files
<1>2. CASE MayUse(a, configPath(a)) /\ file[configPath(a)] # Absent
  BY <1>1, <1>2 DEF saveConfigPath, readConfigFile, Readable, Types
<1>3. CASE MayUse(a, configPath(a)) /\ file[configPath(a)] = Absent
  BY <1>1, <1>3, EmptyConfig DEF saveConfigPath, readConfigFile
<1>4. CASE ~MayUse(a, configPath(a))
  BY <1>4, EmptyConfig DEF saveConfigPath, readConfigFile, MayUse, configPath, SeesUserFile, Files
<1> QED BY <1>2, <1>3, <1>4

\* loadConfig lays the environment over the file and leaves the rest alone.
LEMMA ResolvedKeeps ==
  ASSUME NEW a, NEW c \in Config
  PROVE  /\ Resolved(a, c) \in Config
         /\ Resolved(a, c).key = c.key /\ Resolved(a, c).assertion = c.assertion
         /\ Resolved(a, c).host = c.host /\ Resolved(a, c).custom = c.custom
BY DEF Resolved, Config

\* What a command's change keeps of its copy.
LEMMA ChangedKeeps ==
  ASSUME Types, NEW k \in Kinds, NEW c \in Config,
         k = "enroll" => ensureKeypair(c) <= MaxKeys
  PROVE  /\ Changed(k, c) \in Config
         /\ c.assertion \in {0, c.key} => Changed(k, c).assertion \in {0, Changed(k, c).key}
         /\ k # "form" => /\ Changed(k, c).host = c.host /\ Changed(k, c).custom = c.custom
                          /\ c.assertion # 0 => Changed(k, c).assertion # 0
         /\ c.host = 0 => Changed(k, c).host = 0
         /\ k = "set" => Changed(k, c).server = "file"
<1>1. CASE k = "login"
  BY <1>1 DEF Changed, cmdLogin, Config
<1>2. CASE k = "logout"
  BY <1>2 DEF Changed, cmdLogout, Config
<1>3. CASE k = "set"
  BY <1>3 DEF Changed, configSet, Config
<1>4. CASE k = "form"
  <2>1. Changed(k, c) = result(c)
    BY <1>4 DEF Changed
  <2>2. result(c) \in Config /\ result(c).assertion = 0 /\ result(c).host = 0
    BY EmptyConfig DEF result, Empty, Config
  <2> QED BY <1>4, <2>1, <2>2
<1>5. CASE k = "enroll"
  <2>1. Changed(k, c) = enrollThisMachineAs(c)
    BY <1>5 DEF Changed
  <2>2. ensureKeypair(c) \in 1 .. MaxKeys
    <3>1. c.key \in 0 .. MaxKeys /\ keys.machine \in 0 .. MaxKeys
      BY DEF Types, Config
    <3>2. ensureKeypair(c) \in Nat /\ ensureKeypair(c) # 0
      BY <3>1 DEF ensureKeypair
    <3> QED BY <1>5, <3>2, ConfigAssumptions
  <2>3. /\ enrollThisMachineAs(c) \in Config
        /\ enrollThisMachineAs(c).assertion = ensureKeypair(c)
        /\ enrollThisMachineAs(c).key = ensureKeypair(c)
        /\ enrollThisMachineAs(c).host = c.host /\ enrollThisMachineAs(c).custom = c.custom
    <3>1. ASSUME NEW e \in 0 .. MaxKeys
          PROVE  LET d == [c EXCEPT !.key = e, !.assertion = e]
                 IN  /\ d \in Config /\ d.assertion = e /\ d.key = e
                     /\ d.host = c.host /\ d.custom = c.custom
      <4> DEFINE b == [c EXCEPT !.key = e]
      <4>1. b \in Config /\ b.key = e /\ b.host = c.host /\ b.custom = c.custom
        BY DEF Config
      <4>2. [c EXCEPT !.key = e, !.assertion = e] = [b EXCEPT !.assertion = e]
        BY DEF Config
      <4> HIDE DEF b
      <4> QED BY <4>1, <4>2 DEF Config
    <3>2. ensureKeypair(c) \in 0 .. MaxKeys
      BY <2>2
    <3> QED BY <3>1, <3>2 DEF enrollThisMachineAs
  <2> QED BY <1>5, <2>1, <2>2, <2>3
<1> QED BY <1>1, <1>2, <1>3, <1>4, <1>5 DEF Kinds
-----------------------------------------------------------------------------
(***************************************************************************)
(* What each step does to the processes: p gets new fields, q keeps its.   *)
(***************************************************************************)

Others(p) == \A q \in Procs \ {p} : proc'[q] = proc[q]

LEMMA ProcFields ==
  ASSUME Types, NEW p \in Procs
  PROVE  /\ proc[p] \in Process /\ proc[p].copy \in Config /\ proc[p].to \in Files
         /\ proc[p].who \in Accounts /\ proc[p].stale \in BOOLEAN
         /\ proc[p].kind \in Kinds \cup {"none"}
         /\ proc[p].pc \in {"idle", "loaded", "gen", "save", "write", "over"}
BY DEF Types, Process

LEMMA SetOne ==
  ASSUME Types, NEW p \in Procs, NEW x \in Process, proc' = [proc EXCEPT ![p] = x]
  PROVE  proc' \in [Procs -> Process] /\ proc'[p] = x /\ Others(p)
BY DEF Types, Others

LEMMA LoadFacts ==
  ASSUME Types, NEW p \in Commands, NEW k \in Kinds, NEW a \in {"person", "root"}, Load(p, k, a)
  PROVE  /\ proc[p].pc = "idle" /\ file[configPath(a)] # Torn
         /\ proc' \in [Procs -> Process] /\ Others(p)
         /\ proc'[p].pc = "loaded" /\ proc'[p].kind = k /\ proc'[p].who = a
         /\ proc'[p].to = saveConfigPath(a)
         /\ proc'[p].copy.key = readConfigFile(a).key
         /\ proc'[p].copy.assertion = readConfigFile(a).assertion
         /\ proc'[p].copy.host = readConfigFile(a).host
         /\ proc'[p].copy.custom = readConfigFile(a).custom
         /\ k = "set" => proc'[p].copy = readConfigFile(a)
<1> DEFINE x == [pc |-> "loaded", kind |-> k, who |-> a, copy |-> Start(k, a),
                 to |-> saveConfigPath(a), stale |-> FALSE]
<1>1. p \in Procs /\ a \in Accounts /\ file[configPath(a)] # Torn
  BY DEF Load, Procs, Accounts
<1>2. readConfigFile(a) \in Config /\ saveConfigPath(a) \in Files
  BY <1>1, ReadsWhereItWrites
<1>3. /\ Start(k, a) \in Config
      /\ Start(k, a).key = readConfigFile(a).key
      /\ Start(k, a).assertion = readConfigFile(a).assertion
      /\ Start(k, a).host = readConfigFile(a).host
      /\ Start(k, a).custom = readConfigFile(a).custom
      /\ k = "set" => Start(k, a) = readConfigFile(a)
  BY <1>2, ResolvedKeeps DEF Start
<1>4. x \in Process
  BY <1>1, <1>2, <1>3 DEF Process
<1>5. proc' \in [Procs -> Process] /\ proc'[p] = x /\ Others(p)
  <2>1. proc' = [proc EXCEPT ![p] = x]
    BY DEF Load
  <2> HIDE DEF x
  <2> QED BY <1>1, <1>4, <2>1, SetOne
<1> QED BY <1>1, <1>3, <1>5 DEF Load

LEMMA AnswerFacts ==
  ASSUME Types, NEW p \in Commands, Answer(p)
  PROVE  /\ proc[p].pc = "loaded" /\ proc' \in [Procs -> Process] /\ Others(p)
         /\ proc'[p].pc = "save" /\ proc'[p].copy = Changed(proc[p].kind, proc[p].copy)
         /\ proc'[p].kind = proc[p].kind /\ proc'[p].who = proc[p].who
         /\ proc'[p].to = proc[p].to /\ proc'[p].stale = proc[p].stale
         /\ proc[p].kind \in Kinds
         /\ proc[p].kind = "enroll" => ensureKeypair(proc[p].copy) <= MaxKeys
<1>1. p \in Procs /\ proc[p].pc = "loaded" /\ proc[p].kind \in Kinds
  BY DEF Procs, Types, Answer
<1> DEFINE d == Changed(proc[p].kind, proc[p].copy)
           x == [proc[p] EXCEPT !.pc = "save", !.copy = d]
<1>2. d \in Config /\ (proc[p].kind = "enroll" => ensureKeypair(proc[p].copy) <= MaxKeys)
  BY <1>1, ProcFields, ChangedKeeps DEF Answer
<1>3. proc' = [proc EXCEPT ![p] = x]
  BY <1>1 DEF Answer, Types
<1> HIDE DEF d
<1>4. /\ x \in Process /\ x.pc = "save" /\ x.copy = d /\ x.kind = proc[p].kind
      /\ x.who = proc[p].who /\ x.to = proc[p].to /\ x.stale = proc[p].stale
  BY <1>1, <1>2, ProcFields DEF Process
<1> HIDE DEF x
<1>5. proc' \in [Procs -> Process] /\ proc'[p] = x /\ Others(p)
  BY <1>1, <1>3, <1>4, SetOne
<1> QED BY <1>1, <1>2, <1>4, <1>5 DEF d

LEMMA TruncateFacts ==
  ASSUME Types, NEW p \in Procs, Truncate(p)
  PROVE  /\ proc[p].pc = "save" /\ proc' \in [Procs -> Process] /\ Others(p)
         /\ proc'[p].pc = "write" /\ proc'[p].to = saveConfigPath(proc[p].who)
         /\ proc'[p].copy = proc[p].copy
         /\ proc'[p].kind = proc[p].kind /\ proc'[p].who = proc[p].who
         /\ proc'[p].stale = proc[p].stale
         /\ saveConfigPath(proc[p].who) \in Files
<1> DEFINE to == saveConfigPath(proc[p].who)
           x == [proc[p] EXCEPT !.pc = "write", !.to = to]
<1>1. to \in Files
  BY DEF saveConfigPath, configPath, Files
<1>2. proc' = [proc EXCEPT ![p] = x]
  BY DEF Truncate, Types
<1> HIDE DEF to
<1>3. /\ x \in Process /\ x.pc = "write" /\ x.to = to /\ x.copy = proc[p].copy
      /\ x.kind = proc[p].kind /\ x.who = proc[p].who /\ x.stale = proc[p].stale
  BY <1>1, ProcFields DEF Process
<1> HIDE DEF x
<1>4. proc' \in [Procs -> Process] /\ proc'[p] = x /\ Others(p)
  BY <1>2, <1>3, SetOne
<1> QED BY <1>1, <1>3, <1>4 DEF Truncate, to

LEMMA WriteFacts ==
  ASSUME Types, NEW p \in Procs, Write(p)
  PROVE  /\ proc' \in [Procs -> Process] /\ proc'[p] = Idle
         /\ \A q \in Procs \ {p} :
              /\ proc'[q].copy = proc[q].copy /\ proc'[q].kind = proc[q].kind
              /\ proc'[q].who = proc[q].who /\ proc'[q].to = proc[q].to
              /\ proc'[q].pc = proc[q].pc \/ (proc[q].pc = "write" /\ proc'[q].pc = "over")
              /\ proc[q].to = proc[p].to => ~Current(q)'
              /\ Current(q)' => Current(q)
<1> DEFINE f == proc[p].to
           g == Overtaken(p, f)
<1>1. proc' = g
  BY DEF Write
<1>2. g[p] = Idle
  BY DEF Overtaken
<1>3. ASSUME NEW q \in Procs \ {p}
      PROVE  /\ g[q] \in Process
             /\ g[q].copy = proc[q].copy /\ g[q].kind = proc[q].kind
             /\ g[q].who = proc[q].who /\ g[q].to = proc[q].to
             /\ g[q].pc = proc[q].pc \/ (proc[q].pc = "write" /\ g[q].pc = "over")
             /\ proc[q].to = f => g[q].pc # "write" /\ (g[q].pc \in {"loaded", "save"} => g[q].stale)
             /\ ~g[q].stale => ~proc[q].stale
  <2>1. CASE proc[q].to = f /\ proc[q].pc \in {"write", "over"}
    <3>1. g[q] = [proc[q] EXCEPT !.pc = "over"]
      BY <2>1 DEF Overtaken
    <3> HIDE DEF g, f
    <3> QED BY <2>1, <3>1, ProcFields DEF Process
  <2>2. CASE proc[q].to = f /\ proc[q].pc \in {"loaded", "save"}
    <3>1. g[q] = [proc[q] EXCEPT !.stale = TRUE]
      BY <2>2 DEF Overtaken
    <3> HIDE DEF g, f
    <3> QED BY <2>2, <3>1, ProcFields DEF Process
  <2>3. CASE ~(proc[q].to = f /\ proc[q].pc \in {"write", "over", "loaded", "save"})
    <3>1. g[q] = proc[q]
      BY <2>3 DEF Overtaken
    <3> HIDE DEF g, f
    <3> QED BY <2>3, <3>1, ProcFields
  <2> QED BY <2>1, <2>2, <2>3
<1>4. g \in [Procs -> Process]
  <2>1. g = [q \in Procs |-> g[q]]
    BY DEF Overtaken
  <2> HIDE DEF g
  <2> QED BY <1>2, <1>3, <2>1, EmptyConfig
<1> HIDE DEF g
<1> QED BY <1>1, <1>2, <1>3, <1>4 DEF Current

\* A process that ends.
LEMMA EndFacts ==
  ASSUME Types, NEW p \in Procs, proc' = [proc EXCEPT ![p] = Idle]
  PROVE  proc' \in [Procs -> Process] /\ proc'[p] = Idle /\ Others(p)
BY EmptyConfig, SetOne

LEMMA ServeFacts ==
  ASSUME Types, NEW c \in Conns, serveEmbeddedSSH(c)
  PROVE  /\ proc' \in [Procs -> Process] /\ Others(c)
         /\ file[configPath("service")] # Torn
         /\ proc'[c].pc = "loaded" /\ proc'[c].who = "service" /\ proc'[c].to = "machine"
         /\ saveConfigPath("service") = "machine"
         /\ proc'[c].copy.key = readConfigFile("service").key
         /\ proc'[c].copy.assertion = readConfigFile("service").assertion
         /\ proc'[c].copy.host = readConfigFile("service").host
         /\ proc'[c].copy.custom = readConfigFile("service").custom
<1> DEFINE d == Resolved("service", readConfigFile("service"))
           x == [Idle EXCEPT !.pc = "loaded", !.who = "service", !.copy = d,
                             !.to = saveConfigPath("service")]
<1>1. /\ c \in Procs /\ "service" \in Accounts /\ file[configPath("service")] # Torn
      /\ saveConfigPath("service") = "machine" /\ "machine" \in Files
  BY DEF serveEmbeddedSSH, Procs, Accounts, saveConfigPath, configPath, MayUse, SeesUserFile, Files
<1>2. /\ d \in Config
      /\ d.key = readConfigFile("service").key
      /\ d.assertion = readConfigFile("service").assertion
      /\ d.host = readConfigFile("service").host
      /\ d.custom = readConfigFile("service").custom
  BY <1>1, ReadsWhereItWrites, ResolvedKeeps
<1>3. proc' = [proc EXCEPT ![c] = x]
  BY DEF serveEmbeddedSSH
<1> HIDE DEF d
<1>4. x.pc = "loaded" /\ x.who = "service" /\ x.copy = d /\ x.to = "machine"
  BY <1>1, EmptyConfig DEF Process
<1>5. x \in Process
  BY <1>1, <1>2, EmptyConfig DEF Process
<1> HIDE DEF x
<1>6. proc' \in [Procs -> Process] /\ proc'[c] = x /\ Others(c)
  BY <1>1, <1>3, <1>5, SetOne
<1> QED BY <1>1, <1>2, <1>4, <1>6

\* The second case of embeddedSSH: a key is made.
Generates(c) ==
  /\ proc[c].pc = "loaded" /\ MutexFree(c)
  /\ sshServer = 0 /\ proc[c].copy.host = 0 /\ keys.host < MaxKeys
  /\ keys' = [keys EXCEPT !.host = @ + 1]
  /\ proc' = [proc EXCEPT ![c].pc = "gen", ![c].copy.host = keys.host + 1]
  /\ UNCHANGED <<sshServer, shown, begun, file, up, history>>

LEMMA GenerateFacts ==
  ASSUME Types, NEW c \in Conns, Generates(c)
  PROVE  /\ proc' \in [Procs -> Process] /\ Others(c)
         /\ proc'[c].pc = "gen" /\ proc'[c].copy.host # 0
         /\ proc'[c].who = proc[c].who /\ proc'[c].to = proc[c].to
         /\ proc'[c].copy.key = proc[c].copy.key
         /\ proc'[c].copy.assertion = proc[c].copy.assertion
<1> DEFINE d == [proc[c].copy EXCEPT !.host = keys.host + 1]
           x == [proc[c] EXCEPT !.pc = "gen", !.copy = d]
<1>1. c \in Procs /\ keys.host + 1 \in 0 .. MaxKeys /\ keys.host + 1 # 0
  BY ConfigAssumptions DEF Procs, Types, Generates
<1>2. d \in Config /\ d.host # 0 /\ d.key = proc[c].copy.key /\ d.assertion = proc[c].copy.assertion
  BY <1>1, ProcFields DEF Config
<1>3. proc' = [proc EXCEPT ![c] = x]
  BY <1>1, ProcFields DEF Generates, Types, Process
<1> HIDE DEF d
<1>4. /\ x \in Process /\ x.pc = "gen" /\ x.copy = d
      /\ x.who = proc[c].who /\ x.to = proc[c].to
  BY <1>1, <1>2, ProcFields DEF Process
<1> HIDE DEF x
<1>5. proc' \in [Procs -> Process] /\ proc'[c] = x /\ Others(c)
  BY <1>1, <1>3, <1>4, SetOne
<1> QED BY <1>2, <1>4, <1>5

\* persistHostKey's first case: the key goes into a fresh copy of the file.
Persists(c) ==
  /\ proc[c].pc = "gen" /\ file[configPath("service")] # Torn
  /\ proc' = [proc EXCEPT ![c].pc = "save", ![c].stale = FALSE,
                          ![c].copy = [Stored("service") EXCEPT !.host = proc[c].copy.host]]
  /\ UNCHANGED <<begun, file, up, keys, sshServer, shown, history>>

LEMMA PersistFacts ==
  ASSUME Types, NEW c \in Conns, Persists(c)
  PROVE  /\ proc' \in [Procs -> Process] /\ Others(c)
         /\ proc'[c].pc = "save" /\ proc'[c].who = proc[c].who /\ proc'[c].to = proc[c].to
         /\ proc'[c].copy.host = proc[c].copy.host
         /\ proc'[c].copy.key = readConfigFile("service").key
         /\ proc'[c].copy.assertion = readConfigFile("service").assertion
         /\ proc'[c].copy.custom = readConfigFile("service").custom
         /\ proc'[c].copy.server = readConfigFile("service").server
<1> DEFINE r == readConfigFile("service")
           d == [r EXCEPT !.host = proc[c].copy.host]
           x == [proc[c] EXCEPT !.pc = "save", !.stale = FALSE, !.copy = d]
<1>1. c \in Procs /\ r \in Config /\ proc[c].copy.host \in 0 .. MaxKeys
  <2>1. c \in Procs /\ "service" \in Accounts
    BY DEF Procs, Accounts
  <2> QED BY <2>1, ReadsWhereItWrites, ProcFields DEF Persists, Config
<1>2. proc' = [proc EXCEPT ![c] = x]
  BY <1>1, ProcFields DEF Persists, Types, Process, Stored
<1> HIDE DEF r
<1>3. /\ d \in Config /\ d.host = proc[c].copy.host /\ d.key = r.key
      /\ d.assertion = r.assertion /\ d.custom = r.custom /\ d.server = r.server
  BY <1>1 DEF Config
<1> HIDE DEF d
<1>4. /\ x \in Process /\ x.pc = "save" /\ x.copy = d
      /\ x.who = proc[c].who /\ x.to = proc[c].to
  BY <1>1, <1>3, ProcFields DEF Process
<1> HIDE DEF x
<1>5. proc' \in [Procs -> Process] /\ proc'[c] = x /\ Others(c)
  BY <1>1, <1>2, <1>4, SetOne
<1> QED BY <1>3, <1>4, <1>5 DEF r

\* The other two cases: the server there is, or the key of the copy, is used; and
\* a file that cannot be read stays without the new key.
Reuses(c) ==
  /\ c \in Conns /\ proc[c].pc = "loaded" /\ MutexFree(c)
  /\ sshServer # 0 \/ proc[c].copy.host # 0
  /\ sshServer' = IF sshServer # 0 THEN sshServer ELSE proc[c].copy.host
  /\ shown' = sshServer'
  /\ proc' = [proc EXCEPT ![c] = Idle]
  /\ UNCHANGED <<keys, begun, file, up, history>>

GivesUp(c) ==
  /\ c \in Conns /\ proc[c].pc = "gen"
  /\ proc' = [proc EXCEPT ![c] = Idle]
  /\ clash' = TRUE
  /\ Serve(c)
  /\ UNCHANGED <<begun, file, up, keys, formed, asked, enrolled, edited>>

\* The steps with which a process ends without having written.
Ends(p) == Abandon(p) \/ WriteFails(p) \/ Reuses(p) \/ GivesUp(p)

LEMMA StepCases ==
  ASSUME [Next]_vars
  PROVE  \/ \E p \in Commands : Answer(p)
         \/ \E p \in Commands, k \in Kinds, a \in {"person", "root"} : Load(p, k, a)
         \/ \E p \in Procs : Truncate(p) \/ Write(p)
         \/ \E p \in Commands : Abandon(p)
         \/ \E p \in Procs : WriteFails(p)
         \/ \E c \in Conns : serveEmbeddedSSH(c) \/ Generates(c) \/ Persists(c)
         \/ \E c \in Conns : Reuses(c) \/ GivesUp(c)
         \/ AgentStops
         \/ \E f \in Files : EditByHand(f)
         \/ UNCHANGED <<file, proc, sshServer, keys, shown, history>>
<1>1. ASSUME NEW c \in Conns, embeddedSSH(c) PROVE Reuses(c) \/ Generates(c)
  BY <1>1 DEF embeddedSSH, Reuses, Generates
<1>2. ASSUME NEW c \in Conns, persistHostKey(c) PROVE Persists(c) \/ GivesUp(c)
  BY <1>2 DEF persistHostKey, Persists, GivesUp, history
<1>3. runAgent => UNCHANGED <<file, proc, sshServer, keys, shown, history>>
  BY DEF runAgent
<1> QED BY <1>1, <1>2, <1>3 DEF Next, Kinds, vars, history
-----------------------------------------------------------------------------
LEMMA TypesStep == ASSUME Types, [Next]_vars PROVE Types'
<1> USE ConfigAssumptions
<1>0. Commands \subseteq Procs /\ Conns \subseteq Procs /\ \A c \in Conns : c \notin Commands
  BY DEF Procs
<1>a. ASSUME NEW c \in Conns, Others(c)
      PROVE  \A q \in Commands : proc'[q].pc # "idle" => proc'[q].kind \in Kinds
  BY <1>0, <1>a DEF Others, Types
<1>1. ASSUME NEW p \in Procs, Serve(p) PROVE sshServer' \in 0 .. MaxKeys /\ shown' \in 0 .. MaxKeys
  BY <1>1, ProcFields DEF Serve, Types, Config
<1>2. ASSUME NEW p \in Procs, proc' = [proc EXCEPT ![p] = Idle]
      PROVE  /\ proc' \in [Procs -> Process]
             /\ \A q \in Commands : proc'[q].pc # "idle" => proc'[q].kind \in Kinds
  BY <1>0, <1>2, EndFacts DEF Types, Others, Idle
<1>3. ASSUME NEW p \in Commands, Answer(p) PROVE Types'
  <2>1. keys' \in [machine : 0 .. MaxKeys, host : 0 .. MaxKeys]
    <3>1. CASE proc[p].kind = "enroll" /\ proc[p].copy.key = 0
      <4>1. keys.machine + 1 \in 0 .. MaxKeys
        BY <1>3, <3>1, AnswerFacts DEF ensureKeypair, Types
      <4> QED BY <1>3, <3>1, <4>1 DEF Answer, Types
    <3> QED BY <1>3, <3>1 DEF Answer, Types
  <2> QED BY <1>0, <1>3, <2>1, AnswerFacts DEF Types, Others, Answer, history
<1>4. ASSUME NEW p \in Commands, NEW k \in Kinds, NEW a \in {"person", "root"}, Load(p, k, a)
      PROVE  Types'
  BY <1>0, <1>4, LoadFacts DEF Types, Others, Load, history
<1>5. ASSUME NEW p \in Procs, Truncate(p) PROVE Types'
  <2>1. clash' \in BOOLEAN /\ file' \in [Files -> Config \cup {Absent, Torn}]
    BY <1>5, TruncateFacts, ProcFields DEF Truncate, Types
  <2> QED BY <1>0, <1>5, <2>1, TruncateFacts DEF Types, Others, Truncate
<1>6. ASSUME NEW p \in Procs, Write(p) PROVE Types'
  <2>1. /\ clash' \in BOOLEAN /\ formed' \in BOOLEAN /\ asked' \in BOOLEAN
        /\ enrolled' \subseteq Files
    BY <1>6, ProcFields DEF Write, Types
  <2>2. file' \in [Files -> Config \cup {Absent, Torn}]
    BY <1>6, ProcFields DEF Write, Types, Written
  <2>3. \A q \in Commands : proc'[q].pc # "idle" => proc'[q].kind \in Kinds
    BY <1>0, <1>6, WriteFacts DEF Types, Idle
  <2> QED BY <1>0, <1>1, <1>6, <2>1, <2>2, <2>3, WriteFacts DEF Types, Write
<1>7. ASSUME NEW p \in Commands, Abandon(p) PROVE Types'
  BY <1>0, <1>2, <1>7 DEF Types, Abandon, history
<1>8. ASSUME NEW p \in Procs, WriteFails(p) PROVE Types'
  BY <1>0, <1>1, <1>2, <1>8 DEF Types, WriteFails
<1>9. ASSUME NEW c \in Conns, serveEmbeddedSSH(c) PROVE Types'
  BY <1>0, <1>9, <1>a, ServeFacts DEF Types, serveEmbeddedSSH, history
<1>10. ASSUME NEW c \in Conns, Generates(c) PROVE Types'
  <2>1. keys' \in [machine : 0 .. MaxKeys, host : 0 .. MaxKeys]
    <3>1. keys.host + 1 \in 0 .. MaxKeys
      BY <1>10 DEF Generates, Types
    <3> QED BY <1>10, <3>1 DEF Generates, Types
  <2> QED BY <1>0, <1>10, <2>1, <1>a, GenerateFacts DEF Types, Generates, history
<1>11. ASSUME NEW c \in Conns, Persists(c) PROVE Types'
  BY <1>0, <1>11, <1>a, PersistFacts DEF Types, Persists, history
<1>12. ASSUME NEW c \in Conns, Reuses(c) PROVE Types'
  <2>1. sshServer' \in 0 .. MaxKeys /\ shown' \in 0 .. MaxKeys
    BY <1>0, <1>12, ProcFields DEF Reuses, Types, Config
  <2> QED BY <1>0, <1>2, <1>12, <2>1 DEF Types, Reuses, history
<1>13. ASSUME NEW c \in Conns, GivesUp(c) PROVE Types'
  BY <1>0, <1>1, <1>2, <1>13 DEF Types, GivesUp
<1>14. CASE AgentStops
  BY <1>0, <1>14, EmptyConfig DEF Types, AgentStops, history
<1>15. ASSUME NEW f \in Files, EditByHand(f) PROVE Types'
  <2>1. file[f] \in Config
    BY <1>15 DEF EditByHand, Types
  <2>2. [file[f] EXCEPT !.custom = TRUE] \in Config
    BY <2>1 DEF Config
  <2>3. file' \in [Files -> Config \cup {Absent, Torn}]
    BY <1>15, <2>2 DEF EditByHand, Types
  <2> QED BY <1>15, <2>3 DEF Types, EditByHand
<1>16. CASE UNCHANGED <<file, proc, sshServer, keys, shown, history>>
  BY <1>16 DEF Types, history
<1> QED
  BY <1>3, <1>4, <1>5, <1>6, <1>7, <1>8, <1>9, <1>10, <1>11, <1>12, <1>13, <1>14, <1>15,
     <1>16, StepCases
-----------------------------------------------------------------------------
(***************************************************************************)
(* The invariants, step by step.                                           *)
(***************************************************************************)

LEMMA ProcKinds ==
  Commands \subseteq Procs /\ Conns \subseteq Procs /\ \A c \in Conns : c \notin Commands
BY ConfigAssumptions DEF Procs

LEMMA EndsFacts ==
  ASSUME Types, NEW p \in Procs, Ends(p)
  PROVE  /\ proc'[p] = Idle /\ Others(p)
         /\ UNCHANGED <<file, formed, asked, enrolled, edited>>
BY EndFacts DEF Ends, Abandon, WriteFails, Reuses, GivesUp, history

\* The files a truncation and a write leave.
LEMMA FileFacts ==
  ASSUME Types, NEW p \in Procs
  PROVE  /\ Truncate(p) => \A f \in Files :
              file'[f] = IF f = proc'[p].to THEN Torn ELSE file[f]
         /\ Write(p) => \A f \in Files : \/ f # proc[p].to /\ file'[f] = file[f]
                                         \/ f = proc[p].to /\ file'[f] \in {proc[p].copy, Torn}
         /\ Write(p) /\ proc[p].pc = "write" => file'[proc[p].to] = proc[p].copy
<1>1. ASSUME Truncate(p) PROVE \A f \in Files : file'[f] = IF f = proc'[p].to THEN Torn ELSE file[f]
  BY <1>1, TruncateFacts DEF Truncate, Types
<1>2. ASSUME Write(p)
      PROVE  /\ \A f \in Files : \/ f # proc[p].to /\ file'[f] = file[f]
                                 \/ f = proc[p].to /\ file'[f] \in {proc[p].copy, Torn}
             /\ proc[p].pc = "write" => file'[proc[p].to] = proc[p].copy
  BY <1>2, ProcFields DEF Write, Written, Types
<1> QED BY <1>1, <1>2

LEMMA EditFacts ==
  ASSUME Types, NEW g \in Files, EditByHand(g)
  PROVE  /\ Readable(g) /\ file[g] \in Config
         /\ \A f \in Files \ {g} : file'[f] = file[f]
         /\ file'[g] = [file[g] EXCEPT !.custom = TRUE]
         /\ file'[g].custom /\ file'[g].key = file[g].key
         /\ file'[g].assertion = file[g].assertion /\ file'[g].host = file[g].host
         /\ file'[g].server = file[g].server
         /\ file'[g] \in Config
<1>1. Readable(g) /\ file[g] \in Config
  BY DEF EditByHand, Readable, Types
<1>2. file' = [file EXCEPT ![g] = [file[g] EXCEPT !.custom = TRUE]]
  BY DEF EditByHand, Types
<1> QED BY <1>1, <1>2 DEF Types, Config

LEMMA PairsStep == ASSUME Types, PairsInv, [Next]_vars PROVE PairsInv'
<1> USE ProcKinds DEF PairsInv, KeyMatchesAssertion, Readable
<1> DEFINE Pair(c) == c.assertion \in {0, c.key}
<1>1. Pair(Empty) /\ Pair(Idle.copy)
  BY DEF Empty, Idle
<1>2. ASSUME NEW a \in Accounts, file[configPath(a)] # Torn PROVE Pair(readConfigFile(a))
  BY <1>1, <1>2, ReadsWhereItWrites
<1>3. ASSUME NEW p \in Commands, Answer(p) PROVE PairsInv'
  <2>1. Pair(proc'[p].copy)
    BY <1>3, AnswerFacts, ChangedKeeps, ProcFields
  <2>2. file' = file
    BY <1>3 DEF Answer
  <2> QED BY <1>3, <2>1, <2>2, AnswerFacts DEF Others
<1>4. ASSUME NEW p \in Commands, NEW k \in Kinds, NEW a \in {"person", "root"}, Load(p, k, a)
      PROVE  PairsInv'
  <2>1. Pair(readConfigFile(a))
    BY <1>2, <1>4, LoadFacts DEF Accounts
  <2>2. file' = file
    BY <1>4 DEF Load
  <2>3. Pair(proc'[p].copy)
    BY <1>4, <2>1, LoadFacts
  <2> QED BY <1>4, <2>2, <2>3, LoadFacts DEF Others
<1>5. ASSUME NEW p \in Procs, Truncate(p) PROVE PairsInv'
  BY <1>5, TruncateFacts, FileFacts DEF Others
<1>6. ASSUME NEW p \in Procs, Write(p) PROVE PairsInv'
  BY <1>1, <1>6, WriteFacts, FileFacts
<1>7. ASSUME NEW p \in Procs, Ends(p) PROVE PairsInv'
  BY <1>1, <1>7, EndsFacts DEF Others
<1>8. ASSUME NEW c \in Conns, serveEmbeddedSSH(c) PROVE PairsInv'
  <2>1. Pair(readConfigFile("service"))
    BY <1>2, <1>8, ServeFacts DEF Accounts
  <2> QED BY <1>8, <2>1, ServeFacts DEF Others, serveEmbeddedSSH
<1>9. ASSUME NEW c \in Conns, Generates(c) PROVE PairsInv'
  BY <1>9, GenerateFacts DEF Others, Generates
<1>10. ASSUME NEW c \in Conns, Persists(c) PROVE PairsInv'
  <2>1. Pair(readConfigFile("service"))
    BY <1>2, <1>10 DEF Accounts, Persists
  <2> QED BY <1>10, <2>1, PersistFacts DEF Others, Persists
<1>11. CASE AgentStops
  BY <1>1, <1>11 DEF AgentStops
<1>12. ASSUME NEW f \in Files, EditByHand(f) PROVE PairsInv'
  BY <1>12, EditFacts DEF EditByHand
<1>13. CASE UNCHANGED <<file, proc, sshServer, keys, shown, history>>
  BY <1>13
<1> QED
  BY <1>3, <1>4, <1>5, <1>6, <1>7, <1>8, <1>9, <1>10, <1>11, <1>12, <1>13, StepCases DEF Ends

\* The steps that change their own process only.
Quiet == UNCHANGED <<file, sshServer, shown, clash, formed, asked, enrolled, edited>>

LEMMA QuietSteps ==
  ASSUME NEW p, NEW k, NEW a
  PROVE  Answer(p) \/ Load(p, k, a) \/ serveEmbeddedSSH(p) \/ Generates(p) \/ Persists(p) => Quiet
BY DEF Answer, Load, serveEmbeddedSSH, Generates, Persists, Quiet, history

\* What has happened stays happened.
LEMMA HistoryStays ==
  ASSUME Types, [Next]_vars PROVE (clash => clash') /\ (formed => formed') /\ (asked => asked')
<1>1. ASSUME NEW p \in Procs, Truncate(p) \/ Write(p) \/ WriteFails(p) \/ GivesUp(p)
      PROVE  (clash => clash') /\ (formed => formed') /\ (asked => asked')
  <2>1. {clash, formed, asked} \subseteq BOOLEAN
    BY DEF Types
  <2>2. CASE Truncate(p)
    BY <2>1, <2>2 DEF Truncate
  <2>3. CASE Write(p)
    BY <2>1, <2>3 DEF Write
  <2>4. CASE WriteFails(p) \/ GivesUp(p)
    BY <2>4 DEF WriteFails, GivesUp
  <2> QED BY <1>1, <2>2, <2>3, <2>4
<1>2. ASSUME NEW p \in Procs, Abandon(p) \/ Reuses(p)
      PROVE  (clash => clash') /\ (formed => formed') /\ (asked => asked')
  BY <1>2 DEF Abandon, Reuses, history
<1>3. ASSUME AgentStops \/ \E f \in Files : EditByHand(f)
      PROVE  (clash => clash') /\ (formed => formed') /\ (asked => asked')
  BY <1>3 DEF AgentStops, EditByHand, history
<1>4. Quiet => (clash => clash') /\ (formed => formed') /\ (asked => asked')
  BY DEF Quiet
<1> QED BY <1>1, <1>2, <1>3, <1>4, ProcKinds, QuietSteps, StepCases DEF history

LEMMA EnvStep == ASSUME Types, EnvInv, [Next]_vars PROVE EnvInv'
<1> SUFFICES ASSUME ~asked', ~formed' PROVE EnvInv'
  BY DEF EnvInv
<1> USE ProcKinds DEF EnvInv, Readable
<1>0. ~asked /\ ~formed
  BY HistoryStays
<1>1. Empty.server # "env" /\ Idle.pc = "idle"
  BY DEF Empty, Idle
<1>2. ASSUME NEW a \in Accounts, file[configPath(a)] # Torn
      PROVE  readConfigFile(a).server # "env"
  BY <1>0, <1>1, <1>2, ReadsWhereItWrites
<1>3. ASSUME NEW p \in Commands, Answer(p) PROVE EnvInv'
  <2>1. proc[p].kind = "set" => proc'[p].copy.server = "file"
    BY <1>3, AnswerFacts, ChangedKeeps, ProcFields
  <2>2. proc[p].pc = "loaded" /\ proc'[p].kind = proc[p].kind /\ Others(p)
    BY <1>3, AnswerFacts
  <2>3. Quiet
    BY <1>3, QuietSteps
  <2> QED BY <1>0, <2>1, <2>2, <2>3 DEF Others, Quiet
<1>4. ASSUME NEW p \in Commands, NEW k \in Kinds, NEW a \in {"person", "root"}, Load(p, k, a)
      PROVE  EnvInv'
  <2>1. readConfigFile(a).server # "env"
    BY <1>2, <1>4, LoadFacts DEF Accounts
  <2> QED BY <1>0, <1>4, <2>1, LoadFacts, QuietSteps DEF Others, Quiet
<1>5. ASSUME NEW p \in Procs, Truncate(p) PROVE EnvInv'
  <2>1. \A f \in Files : Readable(f)' => Readable(f) /\ file'[f] = file[f]
    BY <1>5, TruncateFacts, FileFacts
  <2>2. /\ proc[p].pc = "save" /\ proc'[p].kind = proc[p].kind
        /\ proc'[p].copy = proc[p].copy /\ Others(p)
    BY <1>5, TruncateFacts
  <2> QED BY <1>0, <2>1, <2>2 DEF Others
<1>6. ASSUME NEW p \in Procs, Write(p) PROVE EnvInv'
  <2>1. proc[p].copy.server # "env"
    <3>1. p \in Commands => proc[p].kind = "set" /\ proc[p].pc # "idle"
      BY <1>6 DEF Write, Types
    <3>2. p \in Conns => proc[p].pc \in {"write", "over"}
      BY <1>6 DEF Write
    <3> QED BY <1>0, <3>1, <3>2 DEF Procs
  <2>2. \A f \in Files : Readable(f)' => file'[f].server # "env"
    BY <1>0, <1>6, <2>1, FileFacts
  <2>3. ASSUME NEW q \in Procs \ {p}
        PROVE  /\ proc'[q].pc # "idle" => proc[q].pc # "idle"
               /\ proc'[q].pc \in {"save", "write", "over"} => proc[q].pc \in {"save", "write", "over"}
               /\ proc'[q].copy = proc[q].copy /\ proc'[q].kind = proc[q].kind
    BY <1>6, WriteFacts
  <2>4. proc'[p].pc = "idle"
    BY <1>1, <1>6, WriteFacts
  <2> QED BY <1>0, <2>2, <2>3, <2>4
<1>7. ASSUME NEW p \in Procs, Ends(p) PROVE EnvInv'
  BY <1>0, <1>1, <1>7, EndsFacts DEF Others
<1>8. ASSUME NEW c \in Conns, serveEmbeddedSSH(c) PROVE EnvInv'
  BY <1>0, <1>8, ServeFacts, QuietSteps DEF Others, Quiet
<1>9. ASSUME NEW c \in Conns, Generates(c) PROVE EnvInv'
  BY <1>0, <1>9, GenerateFacts, QuietSteps DEF Others, Quiet
<1>10. ASSUME NEW c \in Conns, Persists(c) PROVE EnvInv'
  <2>1. readConfigFile("service").server # "env"
    BY <1>2, <1>10 DEF Accounts, Persists
  <2> QED BY <1>0, <1>10, <2>1, PersistFacts, QuietSteps DEF Others, Quiet
<1>11. CASE AgentStops
  BY <1>0, <1>1, <1>11 DEF AgentStops, history
<1>12. ASSUME NEW f \in Files, EditByHand(f) PROVE EnvInv'
  BY <1>0, <1>12, EditFacts DEF EditByHand
<1>13. CASE UNCHANGED <<file, proc, sshServer, keys, shown, history>>
  BY <1>0, <1>13
<1> QED
  BY <1>3, <1>4, <1>5, <1>6, <1>7, <1>8, <1>9, <1>10, <1>11, <1>12, <1>13, StepCases DEF Ends

\* The path a process settled on changes only from the machine's file to the
\* person's, and only for root.
LEMMA PathsStep == ASSUME Types, PathsInv, [Next]_vars PROVE PathsInv'
<1> USE ProcKinds DEF PathsInv
<1>0. Idle.pc = "idle" /\ Files = {"machine", "user"}
  BY DEF Idle, Files
<1>1. file["user"] # Absent => file'["user"] # Absent
  <2>1. ASSUME NEW p \in Procs, Truncate(p) PROVE file["user"] # Absent => file'["user"] # Absent
    BY <1>0, <2>1, FileFacts, ConfigAssumptions
  <2>2. ASSUME NEW p \in Procs, Write(p) PROVE file["user"] # Absent => file'["user"] # Absent
    BY <1>0, <2>2, FileFacts, ProcFields, ConfigAssumptions
  <2>3. ASSUME NEW f \in Files, EditByHand(f) PROVE file["user"] # Absent => file'["user"] # Absent
    BY <1>0, <2>3, EditFacts, ConfigAssumptions
  <2> QED
    BY <2>1, <2>2, <2>3, StepCases, QuietSteps, EndsFacts DEF Quiet, Ends, AgentStops
<1>2. ASSUME NEW p \in Commands, Answer(p) PROVE PathsInv'
  BY <1>1, <1>2, AnswerFacts DEF Others
<1>3. ASSUME NEW p \in Commands, NEW k \in Kinds, NEW a \in {"person", "root"}, Load(p, k, a)
      PROVE  PathsInv'
  <2>1. /\ a = "person" => saveConfigPath(a) = "user"
        /\ a = "root" /\ saveConfigPath(a) = "user" => SharesHome /\ file["user"] # Absent
    BY DEF saveConfigPath, configPath, MayUse, SeesUserFile
  <2> QED BY <1>1, <1>3, <2>1, LoadFacts DEF Others
<1>4. ASSUME NEW p \in Procs, Truncate(p) PROVE PathsInv'
  <2>1. /\ saveConfigPath("person") = "user" /\ saveConfigPath("service") = "machine"
        /\ saveConfigPath("root") = "user" => SharesHome /\ file["user"] # Absent
    BY DEF saveConfigPath, configPath, MayUse, SeesUserFile
  <2> QED BY <1>1, <1>4, <2>1, TruncateFacts DEF Others
<1>5. ASSUME NEW p \in Procs, Write(p) PROVE PathsInv'
  <2>1. ASSUME NEW q \in Procs \ {p}
        PROVE  /\ proc'[q].pc # "idle" => proc[q].pc # "idle"
               /\ proc'[q].who = proc[q].who /\ proc'[q].to = proc[q].to
    BY <1>5, WriteFacts
  <2>2. proc'[p].pc = "idle"
    BY <1>0, <1>5, WriteFacts
  <2> QED BY <1>1, <2>1, <2>2
<1>6. ASSUME NEW p \in Procs, Ends(p) PROVE PathsInv'
  BY <1>0, <1>1, <1>6, EndsFacts DEF Others
<1>7. ASSUME NEW c \in Conns, serveEmbeddedSSH(c) PROVE PathsInv'
  BY <1>1, <1>7, ServeFacts DEF Others
<1>8. ASSUME NEW c \in Conns, Generates(c) PROVE PathsInv'
  <2>1. proc[c].pc # "idle"
    BY <1>8 DEF Generates
  <2> QED BY <1>1, <1>8, <2>1, GenerateFacts DEF Others
<1>9. ASSUME NEW c \in Conns, Persists(c) PROVE PathsInv'
  <2>1. proc[c].pc # "idle"
    BY <1>9 DEF Persists
  <2> QED BY <1>1, <1>9, <2>1, PersistFacts DEF Others
<1>10. CASE AgentStops
  BY <1>0, <1>1, <1>10 DEF AgentStops
<1>11. ASSUME NEW f \in Files, EditByHand(f) PROVE PathsInv'
  BY <1>1, <1>11 DEF EditByHand
<1>12. CASE UNCHANGED <<file, proc, sshServer, keys, shown, history>>
  BY <1>12
<1> QED
  BY <1>2, <1>3, <1>4, <1>5, <1>6, <1>7, <1>8, <1>9, <1>10, <1>11, <1>12, StepCases DEF Ends

\* A write that overtakes nobody, by anything but the form, is of a current copy.
LEMMA CleanWrite ==
  ASSUME Types, NEW p \in Procs, Write(p), ~clash', ~formed'
  PROVE  Current(p) /\ proc[p].pc = "write" /\ file'[proc[p].to] = proc[p].copy
<1>1. proc[p].pc = "write" /\ proc[p].kind # "form"
  BY DEF Write
<1> QED BY <1>1, FileFacts DEF Current

\* A truncation by one that overtakes nobody: its copy is still current.
LEMMA CleanTruncate ==
  ASSUME Types, NEW p \in Procs, Truncate(p), ~clash'
  PROVE  /\ proc'[p].to = proc[p].to
         /\ Current(p)' => Current(p)
<1>1. proc'[p].to = proc[p].to /\ ~proc[p].stale
  BY TruncateFacts DEF Truncate
<1> QED BY <1>1, TruncateFacts DEF Current

LEMMA AbsentStep ==
  ASSUME Types, \A f \in Files : file[f] = Absent => f \notin enrolled \cup edited, [Next]_vars
  PROVE  \A f \in Files : file'[f] = Absent => f \notin enrolled' \cup edited'
<1>1. ASSUME NEW p \in Procs, Truncate(p), NEW f \in Files, file'[f] = Absent
      PROVE  f \notin enrolled' \cup edited'
  <2>1. UNCHANGED <<enrolled, edited>>
    BY <1>1 DEF Truncate
  <2> QED BY <1>1, <2>1, FileFacts, ConfigAssumptions
<1>2. ASSUME NEW p \in Procs, Write(p), NEW f \in Files, file'[f] = Absent
      PROVE  f \notin enrolled' \cup edited'
  <2>1. f # proc[p].to /\ file[f] = Absent
    BY <1>2, FileFacts, ProcFields, ConfigAssumptions
  <2>2. enrolled' \subseteq enrolled \cup {proc[p].to} /\ edited' = edited
    BY <1>2 DEF Write
  <2> QED BY <2>1, <2>2
<1>3. ASSUME NEW g \in Files, EditByHand(g), NEW f \in Files, file'[f] = Absent
      PROVE  f \notin enrolled' \cup edited'
  <2>1. f # g /\ file[f] = Absent
    BY <1>3, EditFacts, ConfigAssumptions
  <2>2. edited' = edited \cup {g} /\ enrolled' = enrolled
    BY <1>3 DEF EditByHand
  <2> QED BY <2>1, <2>2
<1>4. ASSUME NEW p \in Procs, Ends(p) PROVE UNCHANGED <<file, enrolled, edited>>
  BY <1>4, EndsFacts
<1>5. Quiet \/ AgentStops => UNCHANGED <<file, enrolled, edited>>
  BY DEF Quiet, AgentStops, history
<1>6. CASE UNCHANGED <<file, enrolled, edited>>
  BY <1>6
<1> QED
  BY <1>1, <1>2, <1>3, <1>4, <1>5, <1>6, ProcKinds, QuietSteps, StepCases DEF Ends, history

LEMMA KeepsStep == ASSUME Types, PathsInv, KeepsInv, [Next]_vars PROVE KeepsInv'
<1>0. \A f \in Files : file'[f] = Absent => f \notin enrolled' \cup edited'
  BY AbsentStep DEF KeepsInv
<1> SUFFICES ASSUME ~clash', ~formed'
             PROVE  /\ \A f \in Files : Readable(f)' => Keeps(f, file[f])'
                    /\ \A p \in Procs : Current(p)' => Keeps(proc[p].to, proc[p].copy)'
  BY <1>0 DEF KeepsInv
<1> DEFINE Goal == /\ \A f \in Files : Readable(f)' => Keeps(f, file[f])'
                   /\ \A p \in Procs : Current(p)' => Keeps(proc[p].to, proc[p].copy)'
<1>1. /\ \A f \in Files : Readable(f) => Keeps(f, file[f])
      /\ \A p \in Procs : Current(p) => Keeps(proc[p].to, proc[p].copy)
      /\ \A f \in Files : file[f] = Absent => f \notin enrolled \cup edited
  BY HistoryStays DEF KeepsInv
<1>2. ASSUME NEW a \in Accounts, file[configPath(a)] # Torn
      PROVE  Keeps(saveConfigPath(a), readConfigFile(a))
  BY <1>1, <1>2, ReadsWhereItWrites DEF Keeps
<1>3. ASSUME NEW p \in Procs, Quiet, Others(p),
             Current(p)' => Keeps(proc'[p].to, proc'[p].copy)
      PROVE  Goal
  BY <1>1, <1>3 DEF Others, Quiet, Current, Keeps, Readable
<1>4. ASSUME NEW p \in Commands, Answer(p) PROVE Goal
  <2>1. p \in Procs /\ Quiet /\ Others(p)
    BY <1>4, ProcKinds, QuietSteps, AnswerFacts
  <2>2. ASSUME Current(p)' PROVE Keeps(proc'[p].to, proc'[p].copy)
    <3>1. /\ Current(p) /\ proc[p].kind # "form" /\ proc'[p].to = proc[p].to
          /\ proc'[p].copy = Changed(proc[p].kind, proc[p].copy)
      BY <1>4, <2>2, AnswerFacts DEF Current
    <3>2. /\ proc'[p].copy.custom = proc[p].copy.custom
          /\ proc[p].copy.assertion # 0 => proc'[p].copy.assertion # 0
      BY <1>4, <2>1, <3>1, AnswerFacts, ProcFields, ChangedKeeps
    <3> QED BY <1>1, <2>1, <3>1, <3>2 DEF Keeps
  <2> QED BY <1>3, <2>1, <2>2
<1>5. ASSUME NEW p \in Commands, NEW k \in Kinds, NEW a \in {"person", "root"}, Load(p, k, a)
      PROVE  Goal
  <2>1. p \in Procs /\ Quiet /\ Others(p)
    BY <1>5, ProcKinds, QuietSteps, LoadFacts
  <2>2. Keeps(saveConfigPath(a), readConfigFile(a))
    BY <1>2, <1>5, LoadFacts DEF Accounts
  <2>3. Keeps(proc'[p].to, proc'[p].copy)
    BY <1>5, <2>2, LoadFacts DEF Keeps
  <2> QED BY <1>3, <2>1, <2>3
<1>6. ASSUME NEW p \in Procs, Truncate(p) PROVE Goal
  <2>1. UNCHANGED <<enrolled, edited>>
    BY <1>6 DEF Truncate
  <2>2. \A f \in Files : Readable(f)' => Readable(f) /\ file'[f] = file[f]
    BY <1>6, TruncateFacts, FileFacts DEF Readable
  <2>3. ASSUME NEW q \in Procs
        PROVE  /\ Current(q)' => Current(q)
               /\ proc'[q].to = proc[q].to /\ proc'[q].copy = proc[q].copy
    BY <1>6, TruncateFacts, CleanTruncate DEF Others, Current
  <2> QED BY <1>1, <2>1, <2>2, <2>3 DEF Keeps
<1>7. ASSUME NEW p \in Procs, Write(p) PROVE Goal
  <2> DEFINE f == proc[p].to
  <2>1. f \in Files /\ file'[f] = proc[p].copy /\ Keeps(f, proc[p].copy)
    BY <1>1, <1>7, CleanWrite, ProcFields
  <2>2. /\ edited' = edited
        /\ enrolled' = IF proc[p].copy.assertion # 0 THEN enrolled \cup {f} ELSE enrolled
    BY <1>7 DEF Write, Written
  <2>3. (f \in enrolled' => file'[f].assertion # 0) /\ (f \in edited' => file'[f].custom)
    BY <2>1, <2>2 DEF Keeps
  <2>4. ASSUME NEW g \in Files \ {f} PROVE g \in enrolled' <=> g \in enrolled
    BY <2>2
  <2>5. ASSUME NEW g \in Files, Readable(g)' PROVE Keeps(g, file[g])'
    <3>1. CASE g # f
      <4>1. file'[g] = file[g] /\ Readable(g)
        BY <1>7, <2>5, <3>1, FileFacts DEF Readable
      <4> QED BY <1>1, <2>2, <2>4, <3>1, <4>1 DEF Keeps
    <3>2. CASE g = f
      BY <2>3, <3>2 DEF Keeps
    <3> QED BY <3>1, <3>2
  <2>6. ASSUME NEW q \in Procs, Current(q)' PROVE Keeps(proc[q].to, proc[q].copy)'
    <3>1. q # p
      BY <1>7, <2>6, WriteFacts DEF Current, Idle
    <3>2. /\ proc'[q].to = proc[q].to /\ proc'[q].copy = proc[q].copy
          /\ Current(q) /\ proc[q].to # f /\ proc[q].to \in Files
      BY <1>7, <2>6, <3>1, WriteFacts, ProcFields
    <3> QED BY <1>1, <2>2, <2>4, <3>2 DEF Keeps
  <2> QED BY <2>5, <2>6
<1>8. ASSUME NEW p \in Procs, Ends(p) PROVE Goal
  <2>1. Others(p) /\ proc'[p].pc = "idle" /\ UNCHANGED <<file, enrolled, edited>>
    BY <1>8, EndsFacts DEF Idle
  <2> QED BY <1>1, <2>1 DEF Others, Current, Keeps, Readable
<1>9. ASSUME NEW c \in Conns, serveEmbeddedSSH(c) PROVE Goal
  <2>1. c \in Procs /\ Quiet /\ Others(c)
    BY <1>9, ProcKinds, QuietSteps, ServeFacts
  <2>2. Keeps("machine", readConfigFile("service"))
    BY <1>2, <1>9, ServeFacts DEF Accounts
  <2>3. Keeps(proc'[c].to, proc'[c].copy)
    BY <1>9, <2>2, ServeFacts DEF Keeps
  <2> QED BY <1>3, <2>1, <2>3
<1>10. ASSUME NEW c \in Conns, Generates(c) PROVE Goal
  <2>1. c \in Procs /\ Quiet /\ Others(c) /\ ~Current(c)'
    BY <1>10, ProcKinds, QuietSteps, GenerateFacts DEF Current
  <2> QED BY <1>3, <2>1
<1>11. ASSUME NEW c \in Conns, Persists(c) PROVE Goal
  <2>1. c \in Procs /\ Quiet /\ Others(c)
    BY <1>11, ProcKinds, QuietSteps, PersistFacts
  <2>2. proc[c].to = "machine" /\ saveConfigPath("service") = "machine"
    BY <1>11 DEF PathsInv, Persists, saveConfigPath, configPath, MayUse, SeesUserFile
  <2>3. Keeps("machine", readConfigFile("service"))
    BY <1>2, <1>11, <2>2 DEF Accounts, Persists
  <2>4. Keeps(proc'[c].to, proc'[c].copy)
    BY <1>11, <2>2, <2>3, PersistFacts DEF Keeps
  <2> QED BY <1>3, <2>1, <2>4
<1>12. CASE AgentStops
  BY <1>1, <1>12 DEF AgentStops, history, Current, Keeps, Readable, Idle
<1>13. ASSUME NEW f \in Files, EditByHand(f) PROVE Goal
  <2>1. /\ proc' = proc /\ enrolled' = enrolled /\ edited' = edited \cup {f}
        /\ \A p \in Procs : proc[p].pc # "idle" => proc[p].to # f
    BY <1>13 DEF EditByHand
  <2>2. ASSUME NEW g \in Files, Readable(g)' PROVE Keeps(g, file[g])'
    <3>1. CASE g = f
      <4>1. Keeps(f, file[f]) /\ file'[f].custom /\ file'[f].assertion = file[f].assertion
        BY <1>1, <1>13, EditFacts
      <4> QED BY <2>1, <3>1, <4>1 DEF Keeps
    <3>2. CASE g # f
      <4>1. file'[g] = file[g] /\ Readable(g)
        BY <1>13, <2>2, <3>2, EditFacts DEF Readable
      <4>2. Keeps(g, file[g])
        BY <1>1, <4>1
      <4> QED BY <2>1, <3>2, <4>1, <4>2 DEF Keeps
    <3> QED BY <3>1, <3>2
  <2>3. ASSUME NEW p \in Procs, Current(p)' PROVE Keeps(proc[p].to, proc[p].copy)'
    <3>1. Current(p) /\ proc[p].to # f
      BY <2>1, <2>3 DEF Current
    <3> QED BY <1>1, <2>1, <3>1 DEF Keeps
  <2> QED BY <2>2, <2>3
<1>14. CASE UNCHANGED <<file, proc, sshServer, keys, shown, history>>
  BY <1>1, <1>14 DEF history, Current, Keeps, Readable
<1> QED
  BY <1>4, <1>5, <1>6, <1>7, <1>8, <1>9, <1>10, <1>11, <1>12, <1>13, <1>14, StepCases,
     ProcKinds DEF Ends

\* One connection builds the server at a time: the others wait for sshMu.
LEMMA BuildStep == ASSUME Types, BuildInv, [Next]_vars PROVE BuildInv'
<1> USE ProcKinds DEF BuildInv, Building
<1>0. Idle.pc = "idle"
  BY DEF Idle
<1>1. ASSUME \A c \in Conns : /\ Building(c)' => Building(c)
                              /\ Building(c)' => proc'[c].copy.host = proc[c].copy.host
      PROVE  BuildInv'
  BY <1>1
<1>2. ASSUME NEW p \in Commands, Others(p) PROVE BuildInv'
  BY <1>1, <1>2 DEF Others
<1>3. ASSUME NEW p \in Procs, Truncate(p) PROVE BuildInv'
  BY <1>1, <1>3, TruncateFacts DEF Others
<1>4. ASSUME NEW p \in Procs, Write(p) PROVE BuildInv'
  BY <1>0, <1>1, <1>4, WriteFacts
<1>5. ASSUME NEW p \in Procs, Ends(p) PROVE BuildInv'
  BY <1>0, <1>1, <1>5, EndsFacts DEF Others
<1>6. ASSUME NEW c \in Conns, serveEmbeddedSSH(c) PROVE BuildInv'
  BY <1>1, <1>6, ServeFacts DEF Others
<1>7. ASSUME NEW c \in Conns, Generates(c) PROVE BuildInv'
  <2>1. \A d \in Conns : ~Building(d)
    BY <1>7 DEF Generates, MutexFree
  <2> QED BY <1>7, <2>1, GenerateFacts DEF Others
<1>8. ASSUME NEW c \in Conns, Persists(c) PROVE BuildInv'
  <2>1. Building(c)
    BY <1>8 DEF Persists
  <2> QED BY <1>1, <1>8, <2>1, PersistFacts DEF Others
<1>9. CASE AgentStops
  BY <1>0, <1>1, <1>9 DEF AgentStops
<1>10. CASE UNCHANGED proc
  BY <1>10
<1> QED
  BY <1>2, <1>3, <1>4, <1>5, <1>6, <1>7, <1>8, <1>9, <1>10, AnswerFacts, LoadFacts, StepCases
  DEF Ends, EditByHand

\* What Serve and a write do to the key that is shown.
LEMMA ServeShows ==
  ASSUME NEW p \in Procs, Serve(p)
  PROVE  /\ p \in Conns => sshServer' = proc[p].copy.host /\ shown' = proc[p].copy.host
         /\ p \notin Conns => sshServer' = sshServer /\ shown' = shown
BY DEF Serve

LEMMA UnseenStep == ASSUME Types, BuildInv, UnseenInv, [Next]_vars PROVE UnseenInv'
<1> SUFFICES ASSUME shown' = 0 PROVE UnseenInv'
  BY DEF UnseenInv
<1> USE ProcKinds DEF UnseenInv, Readable
<1>0. Idle.pc = "idle" /\ Idle.copy.host = 0 /\ Empty.host = 0
  BY DEF Idle, Empty
<1>1. ASSUME NEW a \in Accounts, file[configPath(a)] # Torn, shown = 0
      PROVE  readConfigFile(a).host = 0
  BY <1>0, <1>1, ReadsWhereItWrites
<1>2. ASSUME NEW p \in Commands, Answer(p) PROVE UnseenInv'
  <2>1. Quiet /\ shown = 0 /\ Others(p)
    BY <1>2, QuietSteps, AnswerFacts DEF Quiet
  <2>2. proc'[p].copy.host = 0
    BY <1>2, <2>1, AnswerFacts, ChangedKeeps, ProcFields
  <2> QED BY <2>1, <2>2 DEF Others, Quiet
<1>3. ASSUME NEW p \in Commands, NEW k \in Kinds, NEW a \in {"person", "root"}, Load(p, k, a)
      PROVE  UnseenInv'
  <2>1. Quiet /\ shown = 0 /\ Others(p)
    BY <1>3, QuietSteps, LoadFacts DEF Quiet
  <2>2. proc'[p].copy.host = 0
    BY <1>1, <1>3, <2>1, LoadFacts DEF Accounts
  <2> QED BY <2>1, <2>2 DEF Others, Quiet
<1>4. ASSUME NEW p \in Procs, Truncate(p) PROVE UnseenInv'
  <2>1. shown = 0 /\ sshServer' = sshServer
    BY <1>4 DEF Truncate
  <2>2. \A f \in Files : Readable(f)' => Readable(f) /\ file'[f] = file[f]
    BY <1>4, TruncateFacts, FileFacts
  <2> QED BY <1>4, <2>1, <2>2, TruncateFacts DEF Others
<1>5. ASSUME NEW p \in Procs, Write(p) PROVE UnseenInv'
  <2>1. proc[p].pc \in {"write", "over"} /\ Serve(p)
    BY <1>5 DEF Write
  <2>2. p \notin Conns
    BY <2>1, ServeShows DEF BuildInv, Building
  <2>3. shown = 0 /\ sshServer' = sshServer /\ p \in Commands
    BY <2>1, <2>2, ServeShows DEF Procs
  <2>4. \A f \in Files : Readable(f)' => file'[f].host = 0
    BY <1>5, <2>3, FileFacts
  <2> QED BY <1>0, <1>5, <2>3, <2>4, WriteFacts
<1>6. ASSUME NEW p \in Procs, Abandon(p) \/ WriteFails(p) \/ GivesUp(p) PROVE UnseenInv'
  <2>1. shown = 0 /\ sshServer' = sshServer
    <3>1. CASE Abandon(p)
      BY <3>1 DEF Abandon
    <3>2. CASE WriteFails(p) \/ GivesUp(p)
      <4>1. Serve(p) /\ proc[p].pc \in {"gen", "write", "over"}
        BY <3>2 DEF WriteFails, GivesUp
      <4> QED BY <4>1, ServeShows DEF BuildInv, Building
    <3> QED BY <1>6, <3>1, <3>2
  <2>2. proc'[p] = Idle /\ Others(p) /\ file' = file
    BY <1>6, EndsFacts DEF Ends
  <2> QED BY <1>0, <2>1, <2>2 DEF Others
<1>7. ASSUME NEW c \in Conns, Reuses(c) PROVE UnseenInv'
  BY <1>7 DEF Reuses
<1>8. ASSUME NEW c \in Conns, serveEmbeddedSSH(c) PROVE UnseenInv'
  <2>1. Quiet /\ shown = 0 /\ Others(c)
    BY <1>8, QuietSteps, ServeFacts DEF Quiet
  <2>2. proc'[c].copy.host = 0
    BY <1>1, <1>8, <2>1, ServeFacts DEF Accounts
  <2> QED BY <2>1, <2>2 DEF Others, Quiet
<1>9. ASSUME NEW c \in Conns, Generates(c) \/ Persists(c) PROVE UnseenInv'
  <2>1. Quiet /\ shown = 0 /\ Others(c) /\ proc'[c].pc # "loaded"
    BY <1>9, QuietSteps, GenerateFacts, PersistFacts DEF Quiet
  <2> QED BY <2>1 DEF Others, Quiet
<1>10. CASE AgentStops
  BY <1>0, <1>10 DEF AgentStops
<1>11. ASSUME NEW f \in Files, EditByHand(f) PROVE UnseenInv'
  <2>1. shown = 0 /\ sshServer' = sshServer /\ proc' = proc
    BY <1>11 DEF EditByHand
  <2> QED BY <1>11, <2>1, EditFacts
<1>12. CASE UNCHANGED <<file, proc, sshServer, keys, shown, history>>
  BY <1>12
<1> QED
  BY <1>2, <1>3, <1>4, <1>5, <1>6, <1>7, <1>8, <1>9, <1>10, <1>11, <1>12, StepCases

\* What SeenInv says once a key was seen.
Seen ==
  /\ sshServer \in {0, shown}
  /\ file["machine"] # Absent /\ (Readable("machine") => file["machine"].host = shown)
  /\ \A p \in Commands : Current(p) /\ proc[p].to = "machine" => proc[p].copy.host = shown
  /\ \A c \in Conns : /\ ~Building(c)
                      /\ proc[c].pc = "loaded" =>
                           \/ proc[c].copy.host = shown
                           \/ proc[c].copy.host = 0 /\ sshServer # 0

LEMMA ReadsSeen ==
  ASSUME Types, Seen, NEW a \in Accounts, file[configPath(a)] # Torn,
         saveConfigPath(a) = "machine"
  PROVE  readConfigFile(a).host = shown
BY ReadsWhereItWrites DEF Seen

\* A step that shows no other key and that overtakes nobody keeps it.
LEMMA SeenStep ==
  ASSUME Types, PathsInv, BuildInv, Seen, shown # 0, shown' = shown,
         ~clash', ~formed', [Next]_vars
  PROVE  Seen'
<1> USE ProcKinds
<1>0. Idle.pc = "idle" /\ "machine" \in Files
  BY DEF Idle, Files
<1>1. ASSUME NEW p \in Commands, Answer(p) PROVE Seen'
  <2>1. Quiet /\ Others(p) /\ proc'[p].to = proc[p].to
    BY <1>1, QuietSteps, AnswerFacts
  <2>2. ASSUME Current(p)' PROVE Current(p) /\ proc'[p].copy.host = proc[p].copy.host
    BY <1>1, <2>2, AnswerFacts, ChangedKeeps, ProcFields DEF Current
  <2> QED BY <2>1, <2>2 DEF Seen, Others, Quiet, Current, Building, Readable
<1>2. ASSUME NEW p \in Commands, NEW k \in Kinds, NEW a \in {"person", "root"}, Load(p, k, a)
      PROVE  Seen'
  <2>1. Quiet /\ Others(p)
    BY <1>2, QuietSteps, LoadFacts
  <2>2. ASSUME proc'[p].to = "machine" PROVE proc'[p].copy.host = shown
    BY <1>2, <2>2, LoadFacts, ReadsSeen DEF Accounts
  <2> QED BY <2>1, <2>2 DEF Seen, Others, Quiet, Current, Building, Readable
<1>3. ASSUME NEW p \in Procs, Truncate(p) PROVE Seen'
  <2>1. sshServer' = sshServer /\ proc[p].pc = "save" /\ Others(p)
    BY <1>3, TruncateFacts DEF Truncate
  <2>2. p \in Commands
    BY <2>1 DEF Seen, Building, Procs
  <2>3. /\ file'["machine"] # Absent
        /\ Readable("machine")' => Readable("machine") /\ file'["machine"] = file["machine"]
    BY <1>0, <1>3, FileFacts, ConfigAssumptions DEF Seen, Readable
  <2>4. /\ proc'[p].to = proc[p].to /\ proc'[p].copy = proc[p].copy
        /\ Current(p)' => Current(p)
    BY <1>3, TruncateFacts, CleanTruncate
  <2> QED BY <2>1, <2>2, <2>3, <2>4 DEF Seen, Others, Current, Building
<1>4. ASSUME NEW p \in Procs, Write(p) PROVE Seen'
  <2>1. p \in Commands /\ sshServer' = sshServer
    <3>1. proc[p].pc \in {"write", "over"} /\ Serve(p)
      BY <1>4 DEF Write
    <3> QED BY <3>1, ServeShows DEF Seen, Building, Procs
  <2>2. Current(p) /\ file'[proc[p].to] = proc[p].copy
    BY <1>4, CleanWrite
  <2>3. /\ file'["machine"] # Absent
        /\ Readable("machine")' => file'["machine"].host = shown
    <3>1. CASE proc[p].to = "machine"
      BY <2>1, <2>2, <3>1, ProcFields, ConfigAssumptions DEF Seen
    <3>2. CASE proc[p].to # "machine"
      BY <1>0, <1>4, <3>2, FileFacts DEF Seen, Readable
    <3> QED BY <3>1, <3>2
  <2>4. \A q \in Commands : Current(q)' /\ proc'[q].to = "machine" => proc'[q].copy.host = shown
    BY <1>0, <1>4, WriteFacts DEF Seen, Current
  <2>5. ASSUME NEW c \in Conns
        PROVE  /\ ~Building(c)' /\ proc'[c].copy = proc[c].copy
               /\ proc'[c].pc = "loaded" => proc[c].pc = "loaded"
    BY <1>4, <2>1, WriteFacts DEF Seen, Building
  <2> QED BY <2>1, <2>3, <2>4, <2>5 DEF Seen
<1>5. ASSUME NEW p \in Procs, Abandon(p) PROVE Seen'
  <2>1. sshServer' = sshServer /\ file' = file /\ proc'[p] = Idle /\ Others(p)
    BY <1>5, EndsFacts DEF Abandon, Ends
  <2> QED BY <1>0, <2>1 DEF Seen, Others, Current, Building, Readable
<1>6. ASSUME NEW p \in Procs, WriteFails(p) \/ GivesUp(p) PROVE Seen'
  BY <1>6 DEF WriteFails, GivesUp
<1>7. ASSUME NEW c \in Conns, Reuses(c) PROVE Seen'
  <2>1. sshServer' = shown /\ file' = file /\ proc'[c] = Idle /\ Others(c)
    BY <1>7, EndsFacts DEF Reuses, Ends
  <2> QED BY <1>0, <2>1 DEF Seen, Others, Current, Building, Readable
<1>8. ASSUME NEW c \in Conns, serveEmbeddedSSH(c) PROVE Seen'
  <2>1. Quiet /\ Others(c) /\ proc'[c].pc = "loaded"
    BY <1>8, QuietSteps, ServeFacts
  <2>2. proc'[c].copy.host = shown
    BY <1>8, ServeFacts, ReadsSeen DEF Accounts
  <2> QED BY <2>1, <2>2 DEF Seen, Others, Quiet, Current, Building, Readable
<1>9. ASSUME NEW c \in Conns, Generates(c) \/ Persists(c) PROVE Seen'
  BY <1>9 DEF Generates, Persists, Seen, Building
<1>10. CASE AgentStops
  BY <1>0, <1>10 DEF AgentStops, Seen, Current, Building, Readable
<1>11. ASSUME NEW f \in Files, EditByHand(f) PROVE Seen'
  <2>1. sshServer' = sshServer /\ proc' = proc
    BY <1>11 DEF EditByHand
  <2>2. /\ file'["machine"] # Absent
        /\ Readable("machine")' => file'["machine"].host = shown
    BY <1>0, <1>11, EditFacts, ConfigAssumptions DEF Seen, Readable
  <2> QED BY <2>1, <2>2 DEF Seen, Current, Building
<1>12. CASE UNCHANGED <<file, proc, sshServer, keys, shown, history>>
  BY <1>12 DEF Seen, Current, Building, Readable
<1> QED
  BY <1>1, <1>2, <1>3, <1>4, <1>5, <1>6, <1>7, <1>8, <1>9, <1>10, <1>11, <1>12, StepCases

\* While nobody was overtaken and the form was not saved, only a connection that
\* builds the server could show another key, and once one was seen there is none.
LEMMA ShownStays ==
  ASSUME IInv, ~clash, ~formed, shown # 0, [Next]_vars PROVE shown' = shown
<1> USE ProcKinds DEF IInv
<1>1. Seen
  BY DEF SeenInv, Seen
<1>2. ASSUME NEW p \in Procs, Write(p) \/ WriteFails(p) \/ GivesUp(p) PROVE shown' = shown
  <2>1. Serve(p) /\ proc[p].pc \in {"gen", "write", "over"}
    BY <1>2 DEF Write, WriteFails, GivesUp
  <2> QED BY <1>1, <2>1, ServeShows DEF Seen, Building
<1>3. ASSUME NEW c \in Conns, Reuses(c) PROVE shown' = shown
  BY <1>1, <1>3 DEF Reuses, Seen
<1>4. ASSUME NEW p \in Procs, Truncate(p) \/ Abandon(p) PROVE shown' = shown
  BY <1>4 DEF Truncate, Abandon
<1>5. Quiet \/ AgentStops \/ (\E f \in Files : EditByHand(f)) => shown' = shown
  BY DEF Quiet, AgentStops, EditByHand
<1> QED BY <1>2, <1>3, <1>4, <1>5, QuietSteps, StepCases

\* The first time a key is seen it is in the file, and nobody has an older copy.
LEMMA FirstSeen ==
  ASSUME IInv, ~clash', ~formed', shown = 0, shown' # 0, [Next]_vars PROVE Seen'
<1> USE ProcKinds DEF IInv
<1>1. PICK p \in Conns : Write(p)
  <2>1. ASSUME NEW p \in Procs, WriteFails(p) \/ GivesUp(p) PROVE FALSE
    BY <2>1 DEF WriteFails, GivesUp
  <2>2. ASSUME NEW c \in Conns, Reuses(c) PROVE FALSE
    BY <2>2 DEF Reuses, UnseenInv
  <2>3. ASSUME NEW p \in Procs, Truncate(p) \/ Abandon(p) PROVE FALSE
    BY <2>3 DEF Truncate, Abandon
  <2>4. ~(Quiet \/ AgentStops \/ (\E f \in Files : EditByHand(f)))
    BY DEF Quiet, AgentStops, EditByHand
  <2>5. ASSUME NEW p \in Procs, Write(p), p \notin Conns PROVE FALSE
    BY <2>5, ServeShows DEF Write
  <2> QED BY <2>1, <2>2, <2>3, <2>4, <2>5, QuietSteps, StepCases
<1>2. proc[p].pc = "write" /\ file'[proc[p].to] = proc[p].copy
  BY <1>1, CleanWrite
<1>3. proc[p].to = "machine" /\ sshServer' = shown' /\ shown' = proc[p].copy.host
  BY <1>1, <1>2, ServeShows DEF PathsInv, Write
<1>4. file'["machine"] # Absent /\ file'["machine"].host = shown'
  BY <1>2, <1>3, ProcFields, ConfigAssumptions
<1>5. Idle.pc = "idle"
  BY DEF Idle
<1>6. \A q \in Commands : ~(Current(q)' /\ proc'[q].to = "machine")
  BY <1>1, <1>3, WriteFacts
<1>7. ASSUME NEW c \in Conns
      PROVE  ~Building(c)' /\ (proc'[c].pc = "loaded" => proc'[c].copy.host = 0)
  <2>1. CASE c = p
    BY <1>1, <1>5, <2>1, WriteFacts DEF Building
  <2>2. CASE c # p
    <3>1. ~Building(c)
      BY <1>2, <2>2 DEF BuildInv, Building
    <3>2. /\ proc'[c].pc = proc[c].pc \/ proc[c].pc = "write"
          /\ proc'[c].copy = proc[c].copy
      BY <1>1, <2>2, WriteFacts
    <3> QED BY <3>1, <3>2 DEF UnseenInv, Building
  <2> QED BY <2>1, <2>2
<1> QED BY <1>3, <1>4, <1>6, <1>7 DEF Seen
-----------------------------------------------------------------------------
LEMMA InitIInv == Init => IInv
<1> SUFFICES ASSUME Init PROVE IInv
  OBVIOUS
<1>1. /\ \A p \in Procs : proc[p] = Idle
      /\ \A f \in Files : file[f] = Absent /\ ~Readable(f)
      /\ Idle.pc = "idle" /\ Idle.copy = Empty
      /\ Empty.host = 0 /\ Empty.assertion = 0
      /\ shown = 0 /\ sshServer = 0 /\ enrolled = {} /\ edited = {}
  BY DEF Init, Idle, Empty, Readable
<1>2. Types
  <2>1. 0 \in 0 .. MaxKeys
    BY ConfigAssumptions
  <2> QED BY <1>1, <2>1, EmptyConfig, ProcKinds DEF Init, Types
<1>3. PairsInv
  BY <1>1 DEF PairsInv, KeyMatchesAssertion
<1>4. EnvInv /\ PathsInv /\ BuildInv /\ UnseenInv /\ SeenInv
  BY <1>1, ProcKinds DEF EnvInv, PathsInv, BuildInv, Building, UnseenInv, SeenInv
<1>5. KeepsInv
  BY <1>1 DEF KeepsInv, Current
<1> QED BY <1>2, <1>3, <1>4, <1>5 DEF IInv

LEMMA NextIInv == ASSUME IInv, [Next]_vars PROVE IInv'
<1>1. Types' /\ PairsInv' /\ EnvInv' /\ PathsInv' /\ KeepsInv' /\ BuildInv' /\ UnseenInv'
  BY TypesStep, PairsStep, EnvStep, PathsStep, KeepsStep, BuildStep, UnseenStep DEF IInv
<1>2. ASSUME ~clash', ~formed', shown' # 0 PROVE Seen'
  <2>1. ~clash /\ ~formed
    BY <1>2, HistoryStays DEF IInv
  <2>2. CASE shown = 0
    BY <1>2, <2>2, FirstSeen
  <2>3. CASE shown # 0
    <3>1. shown' = shown
      BY <2>1, <2>3, ShownStays
    <3>2. Seen
      BY <2>1, <2>3 DEF IInv, SeenInv, Seen
    <3> QED BY <1>2, <2>3, <3>1, <3>2, SeenStep DEF IInv
  <2> QED BY <2>2, <2>3
<1>3. SeenInv'
  BY <1>2 DEF SeenInv, Seen
<1> QED BY <1>1, <1>3 DEF IInv

LEMMA AlwaysIInv == Spec => []IInv
BY InitIInv, NextIInv, PTL DEF Spec

\* The files, the copies and the keys keep their types.
THEOREM TypeCorrect == Spec => []TypeOK
<1>1. IInv => TypeOK
  BY ProcFields DEF IInv, Types, TypeOK
<1> QED BY <1>1, AlwaysIInv, PTL

\* saveConfigTo, ensureKeypair: no overlap, kill or full disk leaves a file whose
\* assertion is for another key than the one beside it.
THEOREM KeyMatches == Spec => []KeyMatchesAssertion
<1>1. IInv => KeyMatchesAssertion
  BY DEF IInv, PairsInv
<1> QED BY <1>1, AlwaysIInv, PTL

\* persistHostKey, configSet: neither an ssh connection nor `config set` puts what
\* the environment says into a file; only a command that saves what it resolved
\* (login, logout, enroll, the form) does.
THEOREM EnvDynamic == Spec => []EnvStaysDynamic
<1>1. IInv => EnvStaysDynamic
  BY DEF IInv, EnvInv, EnvStaysDynamic
<1> QED BY <1>1, AlwaysIInv, PTL

\* saveConfig: processes that write one after the other lose nothing of each
\* other's, whichever file each of them finds to be its own.
THEOREM NothingForgotten == Spec => []NothingIsForgotten
<1>1. IInv => NothingIsForgotten
  BY DEF IInv, KeepsInv, Keeps, NothingIsForgotten
<1> QED BY <1>1, AlwaysIInv, PTL

\* embeddedSSH, persistHostKey: the first host key a client saw is the one every
\* later client sees, over restarts and connections at once.
THEOREM HostKeyStable == Spec => HostKeyIsStable
<1>1. IInv /\ [Next]_vars => [shown # 0 /\ shown' # shown => clash \/ formed]_vars
  BY ShownStays
<1> QED BY <1>1, AlwaysIInv, PTL DEF Spec, HostKeyIsStable
=============================================================================
