--------------------------- MODULE SettingsProofs ---------------------------
(***************************************************************************)
(* Proofs about Settings: what handlers that read, change and write the    *)
(* same file without a lock still guarantee, for any number of requests    *)
(* handled at the same time, any changes, crashes and failed writes.       *)
(***************************************************************************)
EXTENDS Settings, TLAPS

-----------------------------------------------------------------------------
(* Types.                                                                  *)

\* The fields of every handler are fields.
LEMMA RequestType ==
  ASSUME NEW q \in Request
  PROVE  /\ q.field \in Field /\ q.value \in Nat /\ q # NoRequest
         /\ q.handler \in {"config", "mining", "pair", "unpair", "peer", "switch"}
         /\ q.field = "name" => q.handler = "config"
         /\ q.field = "mode" => q.handler = "mining"
         /\ q.field = "peers" => q.handler = "peer"
         /\ q.field = "enabled" <=> q.handler = "switch"
         /\ q.field = "agent" <=> q.handler \in {"pair", "unpair"}
  <1>1. q.handler \in DOMAIN FieldsOf /\ q.field \in FieldsOf[q.handler]
        /\ q.value \in Nat /\ q # NoRequest
    BY SettingsAssumption
  <1>2. DOMAIN FieldsOf = {"config", "mining", "pair", "unpair", "peer", "switch"}
    BY DEF FieldsOf
  <1> QED BY <1>1, <1>2 DEF FieldsOf, Field

\* Types, to start with.
LEMMA InitType == Init => TypeOK
  <1> SUFFICES ASSUME Init PROVE TypeOK
    OBVIOUS
  <1>1. Start \in Configuration /\ Start["enabled"] \in Nat
    BY SettingsAssumption
  <1>2. NewAgent \in [at : {"poll", "sync", "run"}, creds : Nat, prev : Nat,
                      results : SUBSET Nat, left : 0..MaxCommands]
        /\ NewAgent.left = 0
    BY SettingsAssumption DEF NewAgent
  <1>3. 0 \in 0..MaxRequests /\ 0 \in 0..MaxFailures
    BY SettingsAssumption
  <1>4. /\ {file, intended, boot, live} \subseteq Configuration
        /\ enabled \in Nat /\ {restart, overlapped} \subseteq BOOLEAN
    BY <1>1 DEF Init
  <1>7. unapplied \subseteq Field
    BY DEF Init
  <1>5. /\ request \in [Slot -> Request \cup {NoRequest}]
        /\ pc \in [Slot -> {"idle", "loaded", "saved", "reloaded"}]
        /\ \A r \in Slot : pc[r] = "idle" <=> request[r] = NoRequest
        /\ copy \in [Slot -> Configuration]
    BY <1>1 DEF Init
  <1>6. agent = NewAgent /\ requests = 0 /\ failures = 0
    BY DEF Init
  <1> QED BY <1>2, <1>3, <1>4, <1>5, <1>6, <1>7 DEF TypeOK

\* A change to one field of a configuration.
LEMMA ChangeType ==
  ASSUME NEW c \in Configuration, NEW f \in Field, NEW v \in Nat
  PROVE  /\ [c EXCEPT ![f] = v] \in Configuration
         /\ [c EXCEPT ![f] = v][f] = v
         /\ \A g \in Field \ {f} : [c EXCEPT ![f] = v][g] = c[g]
  BY DEF Configuration

\* The types after a step of a request.
LEMMA HandlerType ==
  ASSUME TypeOK, NEW r \in Slot
  PROVE  /\ \A q \in Request : Load(r, q) => TypeOK'
         /\ Handle(r) \/ HandleFails(r) => TypeOK'
  <1>0. Start \in Configuration
    BY SettingsAssumption
  <1>1. ASSUME NEW q \in Request, Load(r, q) PROVE TypeOK'
    <2>1. copy' \in [Slot -> Configuration]
      <3>1. [file EXCEPT ![q.field] = q.value] \in Configuration
        BY RequestType, ChangeType DEF TypeOK
      <3> QED BY <1>1, <3>1 DEF Load, TypeOK
    <2>2. requests' \in 0..MaxRequests
      BY <1>1, SettingsAssumption DEF Load, TypeOK
    <2>3. overlapped' \in BOOLEAN
      BY <1>1 DEF Load, TypeOK
    <2> QED BY <1>1, <2>1, <2>2, <2>3, RequestType DEF Load, TypeOK, process
  <1>2. ASSUME Return(r), UNCHANGED agent, {file', intended'} \subseteq Configuration,
               overlapped' = overlapped, live' \in Configuration,
               enabled' \in Nat, restart' \in BOOLEAN, boot' = boot,
               failures' \in 0..MaxFailures, unapplied' \subseteq Field
        PROVE  TypeOK'
    BY <1>0, <1>2 DEF Return, TypeOK
  <1>3. CASE Refuse(r)
    <2>1. live' \in Configuration /\ enabled' \in Nat /\ restart' \in BOOLEAN
      BY <1>3 DEF Refuse, process, TypeOK
    <2>2. {file', intended'} \subseteq Configuration
      BY <1>3 DEF Refuse, store, TypeOK
    <2> QED BY <1>2, <1>3, <2>1, <2>2 DEF Refuse, process, store, TypeOK
  <1>8. ASSUME Write(r)
        PROVE  /\ {file', intended'} \subseteq Configuration
               /\ request[r].field \in Field
    <2>1. request[r] \in Request
      BY <1>8 DEF Write, TypeOK
    <2>2. [intended EXCEPT ![request[r].field] = request[r].value] \in Configuration
      BY <2>1, RequestType, ChangeType DEF TypeOK
    <2> QED BY <1>8, <2>1, <2>2, RequestType DEF Write, TypeOK
  <1>4. CASE Save(r)
    <2>1. {file', intended'} \subseteq Configuration /\ pc[r] = "loaded"
          /\ overlapped' = overlapped
      BY <1>4, <1>8 DEF Save, Write
    <2> QED BY <1>4, <2>1 DEF Save, TypeOK, process
  <1>5. CASE SaveFails(r)
    <2>1. live' \in Configuration /\ enabled' \in Nat /\ restart' \in BOOLEAN
      BY <1>5 DEF SaveFails, process, TypeOK
    <2>2. failures' \in 0..MaxFailures
      BY <1>5, SettingsAssumption DEF SaveFails, TypeOK
    <2>3. {file', intended'} \subseteq Configuration /\ unapplied' \subseteq Field
      BY <1>5 DEF SaveFails, store, TypeOK
    <2> QED BY <1>2, <1>5, <2>1, <2>2, <2>3 DEF SaveFails, process, store
  <1>9. CASE SaveHalfFails(r)
    <2>1. live' \in Configuration /\ enabled' \in Nat /\ restart' \in BOOLEAN
      BY <1>9 DEF SaveHalfFails, process, TypeOK
    <2>2. failures' \in 0..MaxFailures
      BY <1>9, SettingsAssumption DEF SaveHalfFails, TypeOK
    <2>3. {file', intended'} \subseteq Configuration /\ unapplied' \subseteq Field
      BY <1>8, <1>9 DEF SaveHalfFails, TypeOK
    <2> QED BY <1>2, <1>9, <2>1, <2>2, <2>3 DEF SaveHalfFails, Write, process
  <1>10. CASE ReloadFails(r)
    <2>1. live' \in Configuration /\ enabled' \in Nat /\ restart' \in BOOLEAN
      BY <1>10 DEF ReloadFails, process, TypeOK
    <2>2. failures' \in 0..MaxFailures
      BY <1>10, SettingsAssumption DEF ReloadFails, TypeOK
    <2>3. {file', intended'} \subseteq Configuration /\ unapplied' \subseteq Field
      BY <1>10 DEF ReloadFails, store, TypeOK, Field
    <2> QED BY <1>2, <1>10, <2>1, <2>2, <2>3 DEF ReloadFails, process, store
  <1>6. CASE Reload(r)
    BY <1>6 DEF Reload, TypeOK, store, process
  <1>7. CASE Apply(r)
    <2>1. request[r] \in Request
      BY <1>7 DEF Apply, TypeOK
    <2>2. live' \in Configuration /\ enabled' \in Nat
      BY <1>7, <2>1, RequestType DEF Apply, TypeOK
    <2>3. restart' \in BOOLEAN
      BY <1>7 DEF Apply, NeedsRestart, TypeOK
    <2>4. {file', intended'} \subseteq Configuration /\ unapplied' \subseteq Field
      BY <1>7 DEF Apply, store, TypeOK
    <2> QED BY <1>2, <1>7, <2>2, <2>3, <2>4 DEF Apply, store, TypeOK
  <1> QED BY <1>1, <1>3, <1>4, <1>5, <1>6, <1>7, <1>9, <1>10 DEF Handle, HandleFails

\* The types after the process was started again.
LEMMA ProcessType ==
  ASSUME TypeOK, Restart \/ Crash
  PROVE  TypeOK'
  <1>1. NewAgent \in [at : {"poll", "sync", "run"}, creds : Nat, prev : Nat,
                      results : SUBSET Nat, left : 0..MaxCommands]
        /\ NewAgent.left = 0
    BY SettingsAssumption DEF NewAgent
  <1>2. failures' \in 0..MaxFailures
    BY SettingsAssumption DEF Restart, Crash, TypeOK
  <1>3. file["enabled"] \in Nat
    BY DEF TypeOK, Configuration, Field
  <1>4. /\ {file', intended', boot', live'} \subseteq Configuration
        /\ enabled' \in Nat /\ {restart', overlapped'} \subseteq BOOLEAN
    <2>1. /\ file' = file /\ intended' = intended /\ boot' = file /\ live' = file
          /\ enabled' = file["enabled"] /\ restart' = FALSE /\ overlapped' = overlapped
      BY DEF Restart, Crash, StartProcess, store
    <2> QED BY <1>3, <2>1 DEF TypeOK
  <1>5. /\ request' \in [Slot -> Request \cup {NoRequest}]
        /\ pc' \in [Slot -> {"idle", "loaded", "saved", "reloaded"}]
        /\ \A r \in Slot : pc'[r] = "idle" <=> request'[r] = NoRequest
        /\ copy' \in [Slot -> Configuration]
    BY SettingsAssumption DEF Restart, Crash, StartProcess
  <1>6. agent' = NewAgent /\ requests' \in 0..MaxRequests /\ unapplied' \subseteq Field
    BY DEF Restart, Crash, StartProcess, TypeOK
  <1> QED BY <1>1, <1>2, <1>4, <1>5, <1>6 DEF TypeOK

\* The types after a step of the portal agent.
LEMMA AgentType ==
  ASSUME TypeOK, AgentStep \/ AgentSyncFails
  PROVE  TypeOK'
  <1> DEFINE A == [at : {"poll", "sync", "run"}, creds : Nat, prev : Nat,
                   results : SUBSET Nat, left : 0..MaxCommands]
  <1>1. agent' \in A /\ (agent'.at # "run" => agent'.left = 0)
    <2>0. agent \in A /\ (agent.at # "run" => agent.left = 0)
          /\ live["agent"] \in Nat /\ 0 \in 0..MaxCommands
      BY SettingsAssumption DEF TypeOK, Configuration, Field
    <2>1. CASE AgentPoll
      BY <2>0, <2>1 DEF AgentPoll
    <2>2. CASE AgentRun
      <3>1. agent.left - 1 \in 0..MaxCommands
        BY <2>0, <2>2, SettingsAssumption DEF AgentRun
      <3>2. agent.results \cup {agent.creds} \in SUBSET Nat
        BY <2>0
      <3> QED BY <2>0, <2>2, <3>1, <3>2 DEF AgentRun
    <2>3. CASE AgentDone
      BY <2>0, <2>3 DEF AgentDone
    <2>4. CASE \E n \in 0..MaxCommands : AgentSync(n)
      BY <2>0, <2>4 DEF AgentSync
    <2>5. CASE AgentSyncFails
      BY <2>0, <2>5 DEF AgentSyncFails
    <2> QED BY <2>1, <2>2, <2>3, <2>4, <2>5 DEF AgentStep
  <1>2. UNCHANGED <<store, process, handlers, unapplied>> /\ failures' \in 0..MaxFailures
    <2>1. CASE AgentStep
      <3>1. UNCHANGED <<store, process, handlers, unapplied, failures>>
        BY ONLY <2>1, Zenon DEF AgentStep, AgentPoll, AgentRun, AgentDone, AgentSync
      <3>2. failures \in 0..MaxFailures
        BY DEF TypeOK
      <3> QED BY <3>1, <3>2
    <2>2. CASE AgentSyncFails
      BY <2>2, SettingsAssumption DEF AgentSyncFails, TypeOK
    <2> QED BY <2>1, <2>2
  <1> HIDE DEF A
  <1> QED BY <1>1, <1>2 DEF A, TypeOK, store, process, handlers

\* TypeOK: a busy slot has a request and the agent commands only while it runs
\* them, through restarts and crashes in the middle of both.
THEOREM TypeCorrect == Spec => []TypeOK
  <1>1. Init => TypeOK
    BY InitType
  <1>2. TypeOK /\ [Next]_vars => TypeOK'
    <2> SUFFICES ASSUME TypeOK, [Next]_vars PROVE TypeOK'
      OBVIOUS
    <2>1. CASE UNCHANGED vars
      BY <2>1 DEF vars, TypeOK, store, process, handlers
    <2> QED BY <2>1, HandlerType, ProcessType, AgentType DEF Next
  <1> QED BY <1>1, <1>2, PTL DEF Spec

-----------------------------------------------------------------------------
(* The agent.                                                              *)

\* ResultsStayWithAgent: the results of commands go to the portal that sent
\* them, although the credentials change while commands run, a report fails or
\* the process starts again.
THEOREM ResultsStay == Spec => []ResultsStayWithAgent
  <1>1. Init => AgentConsistent
    BY DEF Init, NewAgent, AgentConsistent
  <1>2. TypeOK /\ AgentConsistent /\ [Next]_vars => AgentConsistent'
    <2> SUFFICES ASSUME TypeOK, AgentConsistent, [Next]_vars
        PROVE  AgentConsistent'
      OBVIOUS
    <2>0. agent \in [at : {"poll", "sync", "run"}, creds : Nat, prev : Nat,
                     results : SUBSET Nat, left : 0..MaxCommands]
      BY DEF TypeOK
    <2>1. CASE AgentStep \/ AgentSyncFails
      <3>1. CASE AgentPoll
        BY <2>0, <3>1 DEF AgentPoll, AgentConsistent
      <3>2. CASE AgentRun \/ AgentDone \/ AgentSyncFails
        BY <2>0, <3>2 DEF AgentRun, AgentDone, AgentSyncFails, AgentConsistent
      <3>3. CASE \E n \in 0..MaxCommands : AgentSync(n)
        BY <2>0, <3>3 DEF AgentSync, AgentConsistent
      <3> QED BY <2>1, <3>1, <3>2, <3>3 DEF AgentStep
    <2>2. CASE Restart \/ Crash
      BY <2>2 DEF Restart, Crash, StartProcess, NewAgent, AgentConsistent
    <2>3. CASE \E r \in Slot : Handle(r) \/ HandleFails(r) \/ \E q \in Request : Load(r, q)
      BY <2>3 DEF Handle, Refuse, Save, Reload, Apply, HandleFails, SaveFails,
         SaveHalfFails, ReloadFails, Load, AgentConsistent
    <2>4. CASE UNCHANGED vars
      BY <2>4 DEF vars, AgentConsistent
    <2> QED BY <2>1, <2>2, <2>3, <2>4 DEF Next
  <1>3. AgentConsistent => ResultsStayWithAgent
    BY DEF AgentConsistent, ResultsStayWithAgent
  <1> QED BY <1>1, <1>2, <1>3, TypeCorrect, PTL DEF Spec

-----------------------------------------------------------------------------
(* Restarts.                                                               *)

\* A field keeps being covered while nothing it depends on moves.
LEMMA StaysCovered ==
  ASSUME NEW f \in {"name", "mode", "peers"}, Covered(f),
         UNCHANGED <<file, boot, restart, pc, request, copy, unapplied>>
  PROVE  Covered(f)'
  BY DEF Covered, WillRestart

\* A request that loads the file changes nothing yet.
LEMMA LoadCovered ==
  ASSUME TypeOK, NEW f \in {"name", "mode", "peers"}, Covered(f),
         NEW r \in Slot, NEW q \in Request, Load(r, q)
  PROVE  Covered(f)'
  <1>1. CASE restart \/ f \in unapplied
    BY <1>1 DEF Load, process, Covered
  <1>2. ASSUME NEW s \in Slot, WillRestart(s, f) PROVE Covered(f)'
    <2>1. s # r
      BY <1>2 DEF Load, WillRestart
    <2>2. WillRestart(s, f)'
      BY <1>2, <2>1 DEF Load, WillRestart, process, TypeOK
    <2> QED BY <2>2 DEF Covered
  <1>3. CASE /\ file[f] = boot[f]
             /\ \A s \in Slot : pc[s] = "loaded" =>
                  copy[s][f] = boot[f] \/ request[s].field = f
    <2>1. file'[f] = boot'[f]
      BY <1>3 DEF Load, process
    <2>2. copy'[r] = [file EXCEPT ![q.field] = q.value] /\ request'[r] = q
      BY DEF Load, TypeOK
    <2>3. copy'[r][f] = boot'[f] \/ request'[r].field = f
      <3>1. CASE f = q.field
        BY <2>2, <3>1
      <3>2. CASE f # q.field
        <4>1. f \in Field \ {q.field} /\ file \in Configuration
          BY <3>2 DEF Field, TypeOK
        <4>2. copy'[r][f] = file[f]
          BY <2>2, <4>1, RequestType, ChangeType
        <4> QED BY <1>3, <4>2 DEF Load, process
      <3> QED BY <3>1, <3>2
    <2>4. \A s \in Slot \ {r} : pc'[s] = "loaded" =>
             copy'[s][f] = boot'[f] \/ request'[s].field = f
      BY <1>3 DEF Load, process, TypeOK
    <2> QED BY <2>1, <2>3, <2>4 DEF Covered
  <1> QED BY <1>1, <1>2, <1>3 DEF Covered

\* Every other step of a handler, but Apply, that leaves the file alone.
LEMMA ReturnCovered ==
  ASSUME TypeOK, NEW f \in {"name", "mode", "peers"}, Covered(f),
         NEW r \in Slot, UNCHANGED <<file, boot, restart>>,
         f \in unapplied => f \in unapplied',
         ~WillRestart(r, f), pc'[r] # "loaded",
         \A s \in Slot \ {r} : /\ pc'[s] = pc[s] /\ request'[s] = request[s]
                               /\ copy'[s] = copy[s]
  PROVE  Covered(f)'
  <1>1. CASE restart \/ f \in unapplied
    BY <1>1 DEF Covered
  <1>2. ASSUME NEW s \in Slot, WillRestart(s, f) PROVE Covered(f)'
    <2>1. s # r
      BY <1>2
    <2>2. WillRestart(s, f)'
      BY <1>2, <2>1 DEF WillRestart
    <2> QED BY <2>2 DEF Covered
  <1>3. CASE /\ file[f] = boot[f]
             /\ \A s \in Slot : pc[s] = "loaded" =>
                  copy[s][f] = boot[f] \/ request[s].field = f
    BY <1>3 DEF Covered
  <1> QED BY <1>1, <1>2, <1>3 DEF Covered

\* A request that writes the file schedules what the process lacks.
LEMMA SaveCovered ==
  ASSUME TypeOK, NEW f \in {"name", "mode", "peers"}, Covered(f),
         NEW r \in Slot, Save(r)
  PROVE  Covered(f)'
  <1>0. /\ file' = copy[r] /\ copy' = copy /\ request' = request
        /\ boot' = boot /\ restart' = restart /\ unapplied' = unapplied
        /\ pc' = [pc EXCEPT ![r] = "saved"] /\ pc[r] = "loaded"
    BY DEF Save, Write, process
  <1>1. CASE restart \/ f \in unapplied
    BY <1>0, <1>1 DEF Covered
  <1>2. ASSUME NEW s \in Slot, WillRestart(s, f) PROVE Covered(f)'
    <2>1. s # r
      BY <1>0, <1>2 DEF WillRestart
    <2>2. WillRestart(s, f)'
      BY <1>0, <1>2, <2>1 DEF WillRestart, TypeOK
    <2> QED BY <2>2 DEF Covered
  <1>3. CASE /\ file[f] = boot[f]
             /\ \A s \in Slot : pc[s] = "loaded" =>
                  copy[s][f] = boot[f] \/ request[s].field = f
    <2>1. CASE copy[r][f] = boot[f]
      <3>1. \A s \in Slot : pc'[s] = "loaded" => pc[s] = "loaded"
        BY <1>0 DEF TypeOK
      <3> QED BY <1>0, <1>3, <2>1, <3>1 DEF Covered
    <2>2. CASE copy[r][f] # boot[f]
      <3>1. request[r].handler = HandlerFor[f]
        <4>1. request[r].field = f /\ request[r] \in Request
          BY <1>0, <1>3, <2>2 DEF TypeOK
        <4> QED BY <4>1, RequestType DEF HandlerFor
      <3>2. WillRestart(r, f)'
        BY <1>0, <2>2, <3>1 DEF WillRestart, TypeOK
      <3> QED BY <3>2 DEF Covered
    <2> QED BY <2>1, <2>2
  <1> QED BY <1>1, <1>2, <1>3 DEF Covered

\* A request that fails after it wrote the file leaves its own field behind.
LEMMA HalfCovered ==
  ASSUME TypeOK, NEW f \in {"name", "mode", "peers"}, Covered(f),
         NEW r \in Slot, SaveHalfFails(r)
  PROVE  Covered(f)'
  <1>0. /\ file' = copy[r] /\ boot' = boot /\ restart' = restart
        /\ unapplied' = unapplied \cup {request[r].field} /\ pc[r] = "loaded"
        /\ pc'[r] = "idle"
        /\ \A s \in Slot \ {r} : /\ pc'[s] = pc[s] /\ request'[s] = request[s]
                                 /\ copy'[s] = copy[s]
    BY DEF SaveHalfFails, Write, Return, process, TypeOK
  <1>1. CASE restart \/ f \in unapplied
    BY <1>0, <1>1 DEF Covered
  <1>2. ASSUME NEW s \in Slot, WillRestart(s, f) PROVE Covered(f)'
    <2>1. s # r
      BY <1>0, <1>2 DEF WillRestart
    <2>2. WillRestart(s, f)'
      BY <1>0, <1>2, <2>1 DEF WillRestart
    <2> QED BY <2>2 DEF Covered
  <1>3. CASE /\ file[f] = boot[f]
             /\ \A s \in Slot : pc[s] = "loaded" =>
                  copy[s][f] = boot[f] \/ request[s].field = f
    <2>1. CASE copy[r][f] = boot[f]
      BY <1>0, <1>3, <2>1 DEF Covered
    <2>2. CASE copy[r][f] # boot[f]
      <3>1. f \in unapplied'
        BY <1>0, <1>3, <2>2
      <3> QED BY <3>1 DEF Covered
    <2> QED BY <2>1, <2>2
  <1> QED BY <1>1, <1>2, <1>3 DEF Covered

\* A request that applies the values, or asks for the restart.
LEMMA ApplyCovered ==
  ASSUME TypeOK, NEW f \in {"name", "mode", "peers"}, Covered(f),
         NEW r \in Slot, Apply(r)
  PROVE  Covered(f)'
  <1>1. CASE WillRestart(r, f)
    <2>1. NeedsRestart(request[r], copy[r])
      BY <1>1 DEF WillRestart, NeedsRestart, HandlerFor
    <2> QED BY <2>1 DEF Apply, Covered
  <1>2. CASE ~WillRestart(r, f)
    <2>1. CASE restart'
      BY <2>1 DEF Covered
    <2>2. CASE ~restart'
      <3>1. UNCHANGED <<file, boot, restart>>
        BY <2>2 DEF Apply, store, TypeOK
      <3>2. /\ pc'[r] # "loaded"
            /\ \A s \in Slot \ {r} : /\ pc'[s] = pc[s] /\ request'[s] = request[s]
                                     /\ copy'[s] = copy[s]
        BY DEF Apply, Return, TypeOK
      <3>3. f \in unapplied => f \in unapplied'
        BY DEF Apply, TakenOver
      <3> QED BY <1>2, <3>1, <3>2, <3>3, ReturnCovered
    <2> QED BY <2>1, <2>2
  <1> QED BY <1>1, <1>2

\* RestartCovers: however the requests overlap, fail and crash, once none is
\* being handled the process has the device name, the mode and the peers of the
\* file, or a restart is scheduled, or the request that wrote the field to the
\* file was told that it failed and no new process has read it since.
THEOREM RestartsCover == Spec => []RestartCovers
  <1>1. Init => AllCovered
    BY DEF Init, AllCovered, Covered
  <1>2. TypeOK /\ AllCovered /\ [Next]_vars => AllCovered'
    <2> SUFFICES ASSUME TypeOK, [Next]_vars, NEW f \in {"name", "mode", "peers"},
                        Covered(f)
        PROVE  Covered(f)'
      BY DEF AllCovered
    <2>1. ASSUME NEW r \in Slot, NEW q \in Request, Load(r, q) PROVE Covered(f)'
      BY <2>1, LoadCovered
    <2>2. ASSUME NEW r \in Slot,
                 Refuse(r) \/ SaveFails(r) \/ Reload(r) \/ ReloadFails(r)
          PROVE  Covered(f)'
      <3>1. UNCHANGED <<file, boot, restart>>
        BY <2>2 DEF Refuse, SaveFails, Reload, ReloadFails, store, process
      <3>2. /\ pc'[r] # "loaded"
            /\ \A s \in Slot \ {r} : /\ pc'[s] = pc[s] /\ request'[s] = request[s]
                                     /\ copy'[s] = copy[s]
        BY <2>2 DEF Refuse, SaveFails, Reload, ReloadFails, Return, TypeOK
      <3>3. ~WillRestart(r, f)
        BY <2>2 DEF Refuse, SaveFails, Reload, ReloadFails, WillRestart, HandlerFor
      <3>4. f \in unapplied => f \in unapplied'
        BY <2>2 DEF Refuse, SaveFails, Reload, ReloadFails
      <3> QED BY <3>1, <3>2, <3>3, <3>4, ReturnCovered
    <2>3. ASSUME NEW r \in Slot, Save(r) PROVE Covered(f)'
      BY <2>3, SaveCovered
    <2>4. ASSUME NEW r \in Slot, Apply(r) PROVE Covered(f)'
      BY <2>4, ApplyCovered
    <2>8. ASSUME NEW r \in Slot, SaveHalfFails(r) PROVE Covered(f)'
      BY <2>8, HalfCovered
    <2>5. CASE Restart \/ Crash
      BY <2>5 DEF Restart, Crash, StartProcess, Covered, store
    <2>6. CASE AgentStep \/ AgentSyncFails
      <3>1. UNCHANGED <<store, process, handlers, unapplied>>
        BY ONLY <2>6, Zenon DEF AgentStep, AgentPoll, AgentRun, AgentDone, AgentSync,
           AgentSyncFails
      <3>2. UNCHANGED <<file, boot, restart, pc, request, copy, unapplied>>
        BY <3>1 DEF store, process, handlers
      <3> QED BY <3>2, StaysCovered
    <2>7. CASE UNCHANGED vars
      <3>1. UNCHANGED <<file, boot, restart, pc, request, copy, unapplied>>
        BY <2>7 DEF vars, store, process, handlers
      <3> QED BY <3>1, StaysCovered
    <2> QED
      BY <2>1, <2>2, <2>3, <2>4, <2>5, <2>6, <2>7, <2>8 DEF Next, Handle, HandleFails
  <1>3. AllCovered => RestartCovers
    BY DEF AllCovered, Covered, WillRestart, RestartCovers, Quiet
  <1> QED BY <1>1, <1>2, <1>3, TypeCorrect, PTL DEF Spec

-----------------------------------------------------------------------------
(* One request at a time.                                                  *)

\* A request starts alone, or others overlap with it.
LEMMA LoadAlone ==
  ASSUME TypeOK, OneAtATime, NEW r \in Slot, NEW q \in Request, Load(r, q)
  PROVE  OneAtATime'
  <1> SUFFICES ASSUME ~overlapped' PROVE OneAtATime'
    BY DEF OneAtATime
  <1>1. ~overlapped /\ \A s \in Slot : pc[s] = "idle"
    BY DEF Load
  <1>2. \A s \in Slot : pc'[s] = IF s = r THEN "loaded" ELSE "idle"
    BY <1>1 DEF Load, TypeOK
  <1>3. request'[r] = q /\ copy'[r] = [file EXCEPT ![q.field] = q.value]
    BY DEF Load, TypeOK
  <1>4. UNCHANGED <<file, intended, live, enabled, unapplied>>
    BY DEF Load, process
  <1>5. WorksWithFile /\ ChangesPreserved
    BY <1>1 DEF OneAtATime
  <1>6. WorksWithFile' /\ ChangesPreserved'
    BY <1>4, <1>5 DEF WorksWithFile, WorksWith, ChangesPreserved
  <1> QED BY <1>2, <1>3, <1>4, <1>6 DEF OneAtATime

\* Once every slot is idle, all that matters is that nothing is missing.
LEMMA AllIdle ==
  ASSUME \A s \in Slot : pc'[s] = "idle",
         ~overlapped' => ChangesPreserved' /\ WorksWithFile'
  PROVE  OneAtATime'
  BY DEF OneAtATime

\* The only request at work is r, which returns.
LEMMA ReturnAlone ==
  ASSUME TypeOK, OneAtATime, ~overlapped, NEW r \in Slot, pc[r] # "idle", Return(r)
  PROVE  \A s \in Slot : pc'[s] = "idle"
  BY DEF OneAtATime, Return, TypeOK

\* A request that runs alone writes its own field and no other.
LEMMA WriteAlone ==
  ASSUME TypeOK, OneAtATime, ~overlapped, NEW r \in Slot, Write(r),
         UNCHANGED <<live, enabled>>
  PROVE  /\ ChangesPreserved' /\ file'[request[r].field] = request[r].value
         /\ \A f \in LiveField \ (unapplied \cup {request[r].field}) : WorksWith(f)'
  <1> DEFINE q == request[r]
  <1>1. q \in Request
    BY DEF Write, TypeOK
  <1>2. /\ file' = copy[r] /\ copy[r] = [file EXCEPT ![q.field] = q.value]
        /\ intended' = [intended EXCEPT ![q.field] = q.value] /\ file = intended
    BY DEF Write, OneAtATime, ChangesPreserved
  <1>3. file'[q.field] = q.value /\ \A g \in Field \ {q.field} : file'[g] = file[g]
    BY <1>1, <1>2, RequestType, ChangeType DEF TypeOK
  <1>4. WorksWithFile
    <2>1. \A s \in Slot : pc[s] # "idle" => s = r
      BY DEF Write, OneAtATime
    <2>2. \A s \in Slot : pc[s] \in {"idle", "loaded"}
      BY <2>1 DEF Write
    <2> QED BY <2>2 DEF OneAtATime
  <1>5. ASSUME NEW f \in LiveField \ (unapplied \cup {q.field}) PROVE WorksWith(f)'
    <2>1. f \in Field \ {q.field} /\ WorksWith(f)
      BY <1>4 DEF LiveField, Field, WorksWithFile
    <2>2. file'[f] = file[f]
      BY <1>3, <2>1
    <2>3. f = "enabled" => file'["enabled"] = file["enabled"]
      BY <2>2
    <2> QED BY <2>1, <2>2, <2>3 DEF WorksWith
  <1> QED BY <1>2, <1>3, <1>5 DEF ChangesPreserved

\* What a request that runs alone takes over is no longer missing.
LEMMA ApplyAlone ==
  ASSUME TypeOK, OneAtATime, ~overlapped, NEW r \in Slot, Apply(r)
  PROVE  ChangesPreserved' /\ WorksWithFile'
  <1> DEFINE q == request[r]
  <1>1. /\ pc[r] \in {"saved", "reloaded"} /\ UNCHANGED <<file, intended>>
        /\ live' = IF q.handler \in {"config", "mining", "pair", "unpair"}
                   THEN copy[r] ELSE live
        /\ enabled' = IF q.handler = "switch" THEN q.value ELSE enabled
        /\ unapplied' = unapplied \ TakenOver(q)
    BY DEF Apply, store
  <1>2. /\ ChangesPreserved /\ copy[r] = file /\ file[q.field] = q.value
        /\ \A f \in LiveField \ (unapplied \cup {q.field}) : WorksWith(f)
    BY <1>1 DEF OneAtATime
  <1>3. q \in Request
    BY <1>1 DEF TypeOK
  <1>4. ASSUME NEW f \in LiveField \ unapplied' PROVE WorksWith(f)'
    <2>1. CASE q.handler \in {"config", "mining", "pair", "unpair"}
      <3>1. q.field # "enabled" /\ live' = file' /\ enabled' = enabled
            /\ TakenOver(q) = {"mining", "url", "agent"}
        BY <1>1, <1>2, <1>3, <2>1, RequestType DEF TakenOver
      <3>2. f = "enabled" => f \in LiveField \ (unapplied \cup {q.field})
        BY <1>1, <3>1
      <3>3. f = "enabled" => enabled' = file'["enabled"]
        BY <1>1, <1>2, <3>1, <3>2 DEF WorksWith
      <3> QED BY <3>1, <3>3 DEF WorksWith
    <2>2. CASE q.handler = "switch"
      <3>1. q.field = "enabled" /\ live' = live /\ enabled' = file'["enabled"]
            /\ TakenOver(q) = {"enabled"}
        BY <1>1, <1>2, <1>3, <2>2, RequestType DEF TakenOver
      <3>2. f # "enabled" => f \in LiveField \ (unapplied \cup {q.field})
        BY <1>1, <3>1
      <3> QED BY <1>1, <1>2, <3>1, <3>2 DEF WorksWith
    <2>3. CASE q.handler = "peer"
      <3>1. q.field \notin LiveField
        BY <1>3, <2>3, SettingsAssumption DEF FieldsOf, LiveField
      <3>2. f \in LiveField \ (unapplied \cup {q.field})
            /\ UNCHANGED <<live, enabled, file>>
        BY <1>1, <2>3, <3>1 DEF TakenOver
      <3> QED BY <1>2, <3>2 DEF WorksWith
    <2> QED BY <1>3, <2>1, <2>2, <2>3, RequestType
  <1> QED BY <1>1, <1>2, <1>4 DEF ChangesPreserved, WorksWithFile

\* The steps of a request that runs alone.
LEMMA HandleAlone ==
  ASSUME TypeOK, OneAtATime, NEW r \in Slot, Handle(r) \/ HandleFails(r)
  PROVE  OneAtATime'
  <1>0. overlapped' = overlapped
    BY DEF Handle, Refuse, Save, Write, Reload, Apply, HandleFails, SaveFails,
       SaveHalfFails, ReloadFails, store
  <1> SUFFICES ASSUME ~overlapped PROVE OneAtATime'
    BY <1>0 DEF OneAtATime
  <1> DEFINE q == request[r]
  <1>1. pc[r] # "idle"
    BY DEF Handle, Refuse, Save, Write, Reload, Apply, HandleFails, SaveFails,
       SaveHalfFails, ReloadFails
  <1>2. q \in Request /\ \A s \in Slot \ {r} : pc[s] = "idle"
    BY <1>1 DEF TypeOK, OneAtATime
  <1>3. CASE Refuse(r) \/ SaveFails(r)
    <2>1. /\ Return(r) /\ pc[r] = "loaded"
          /\ UNCHANGED <<file, intended, live, enabled, unapplied>>
      BY <1>3 DEF Refuse, SaveFails, store, process
    <2>2. WorksWithFile /\ ChangesPreserved
      BY <1>2, <2>1 DEF OneAtATime
    <2>3. WorksWithFile' /\ ChangesPreserved'
      BY <2>1, <2>2 DEF WorksWithFile, WorksWith, ChangesPreserved
    <2> QED BY <1>1, <2>1, <2>3, ReturnAlone, AllIdle
  <1>4. CASE Save(r)
    <2>1. /\ Write(r) /\ UNCHANGED <<live, enabled, unapplied, copy, request>>
          /\ \A s \in Slot : pc'[s] = IF s = r THEN "saved" ELSE "idle"
      BY <1>2, <1>4 DEF Save, process, TypeOK
    <2>2. /\ ChangesPreserved' /\ file'[q.field] = q.value
          /\ \A f \in LiveField \ (unapplied \cup {q.field}) : WorksWith(f)'
      BY <2>1, WriteAlone
    <2> QED BY <2>1, <2>2 DEF OneAtATime, Write
  <1>5. CASE SaveHalfFails(r)
    <2>1. /\ Write(r) /\ Return(r) /\ UNCHANGED <<live, enabled>>
          /\ unapplied' = unapplied \cup {q.field}
      BY <1>5 DEF SaveHalfFails, process
    <2>2. /\ ChangesPreserved'
          /\ \A f \in LiveField \ (unapplied \cup {q.field}) : WorksWith(f)'
      BY <2>1, WriteAlone
    <2>3. WorksWithFile'
      BY <2>1, <2>2 DEF WorksWithFile
    <2> QED BY <1>1, <2>1, <2>2, <2>3, ReturnAlone, AllIdle
  <1>6. CASE Reload(r)
    <2>1. /\ pc[r] = "saved" /\ q.handler \in {"pair", "unpair"} /\ copy'[r] = file
          /\ UNCHANGED <<file, intended, live, enabled, unapplied, request>>
          /\ \A s \in Slot : pc'[s] = IF s = r THEN "reloaded" ELSE "idle"
      BY <1>2, <1>6 DEF Reload, store, process, TypeOK
    <2>2. /\ ChangesPreserved /\ file[q.field] = q.value
          /\ \A f \in LiveField \ (unapplied \cup {q.field}) : WorksWith(f)
      BY <2>1 DEF OneAtATime
    <2> QED BY <2>1, <2>2 DEF OneAtATime, ChangesPreserved, WorksWith
  <1>7. CASE ReloadFails(r)
    <2>1. /\ pc[r] = "saved" /\ Return(r) /\ unapplied' = unapplied \cup {"agent"}
          /\ q.field = "agent" /\ UNCHANGED <<file, intended, live, enabled>>
      BY <1>2, <1>7, RequestType DEF ReloadFails, store, process
    <2>2. /\ ChangesPreserved
          /\ \A f \in LiveField \ (unapplied \cup {q.field}) : WorksWith(f)
      BY <2>1 DEF OneAtATime
    <2>3. ChangesPreserved' /\ WorksWithFile'
      BY <2>1, <2>2 DEF ChangesPreserved, WorksWithFile, WorksWith
    <2> QED BY <1>1, <2>1, <2>3, ReturnAlone, AllIdle
  <1>8. CASE Apply(r)
    BY <1>1, <1>8, ApplyAlone, ReturnAlone, AllIdle DEF Apply
  <1> QED BY <1>3, <1>4, <1>5, <1>6, <1>7, <1>8 DEF Handle, HandleFails

\* ConsistentUnlessOverlapped: requests that are handled one at a time leave the
\* file as they were meant to and the process working with it, whatever fails
\* and whenever the process starts again, but for the fields of a request that
\* was told it failed after it had written them.
THEOREM ConsistentAlone == Spec => []ConsistentUnlessOverlapped
  <1>1. Init => OneAtATime
    BY DEF Init, OneAtATime, WorksWithFile, WorksWith, ChangesPreserved
  <1>2. TypeOK /\ OneAtATime /\ [Next]_vars => OneAtATime'
    <2> SUFFICES ASSUME TypeOK, OneAtATime, [Next]_vars PROVE OneAtATime'
      OBVIOUS
    <2>1. CASE \E r \in Slot, q \in Request : Load(r, q)
      BY <2>1, LoadAlone
    <2>2. CASE \E r \in Slot : Handle(r) \/ HandleFails(r)
      BY <2>2, HandleAlone
    <2>3. CASE Restart \/ Crash
      <3>1. /\ \A s \in Slot : pc'[s] = "idle"
            /\ live' = file' /\ enabled' = file'["enabled"]
            /\ UNCHANGED <<file, intended, overlapped>>
        BY <2>3 DEF Restart, Crash, StartProcess, store
      <3>2. ~overlapped => ChangesPreserved
        BY DEF OneAtATime
      <3> QED BY <3>1, <3>2, AllIdle DEF WorksWithFile, WorksWith, ChangesPreserved
    <2>4. CASE AgentStep \/ AgentSyncFails \/ UNCHANGED vars
      <3>1. UNCHANGED <<store, process, handlers, unapplied>>
        BY ONLY <2>4, Zenon DEF AgentStep, AgentPoll, AgentRun, AgentDone, AgentSync,
           AgentSyncFails, vars
      <3>2. UNCHANGED <<file, intended, overlapped, live, enabled, request, pc, copy,
                        unapplied>>
        BY <3>1 DEF store, process, handlers
      <3> QED BY <3>2 DEF OneAtATime, ChangesPreserved, WorksWithFile, WorksWith
    <2> QED BY <2>1, <2>2, <2>3, <2>4 DEF Next
  <1>3. OneAtATime => ConsistentUnlessOverlapped
    BY DEF OneAtATime, ConsistentUnlessOverlapped, Quiet
  <1> QED BY <1>1, <1>2, <1>3, TypeCorrect, PTL DEF Spec
=============================================================================
