------------------------------ MODULE Settings ------------------------------
(***************************************************************************)
(* The configuration of a running node: config.json (src/src/config.rs),   *)
(* the copy the process was started with (Node.config), the copy it works  *)
(* with (Node.runtime_mining) and the switch node_enabled; the handlers of *)
(* the management interface that change them (src/src/rpc.rs) and          *)
(* the portal agent that follows them (src/src/portal.rs).                 *)
(*                                                                         *)
(* Every handler reads the file, changes its fields, writes the whole file *)
(* back and then applies the change to the process. Nothing locks the file *)
(* in between, and some handlers wait for the network with the file in     *)
(* their hands.                                                            *)
(***************************************************************************)
EXTENDS Naturals, FiniteSets

CONSTANTS
  Request,      \* changes: [handler, field, value]
  Start,        \* the configuration at first
  Slot,         \* bound: requests that are handled at the same time
  NoRequest,    \* a free slot
  MaxRequests,  \* bound: requests in a behaviour
  MaxFailures,  \* bound: failed writes and crashes
  MaxCommands   \* MAX_COMMANDS

\* The fields the handlers change: performance, public URL, device name,
\* RandomX mode, node_enabled, the portal credentials (0: not paired) and the
\* peer URLs.
Field == {"mining", "url", "name", "mode", "enabled", "agent", "peers"}
FieldsOf == [config |-> {"url", "name"}, mining |-> {"mining", "mode"},
             pair |-> {"agent"}, unpair |-> {"agent"}, peer |-> {"peers"},
             switch |-> {"enabled"}]

Configuration == [Field -> Nat]

ASSUME SettingsAssumption ==
  /\ Start \in Configuration /\ Start["enabled"] \in 0..1
  /\ \A q \in Request : /\ q.handler \in DOMAIN FieldsOf
                        /\ q.field \in FieldsOf[q.handler] /\ q.value \in Nat
  /\ NoRequest \notin Request /\ IsFiniteSet(Slot)
  /\ MaxRequests \in Nat /\ MaxFailures \in Nat /\ MaxCommands \in Nat

VARIABLES
  file,       \* config.json
  boot,       \* Node.config
  live,       \* Node.runtime_mining
  enabled,    \* Node.node_enabled
  restart,    \* schedule_restart was called
  request,    \* the request in every slot
  pc,         \* "idle", "loaded", "saved" or "reloaded"
  copy,       \* its own copy of the configuration
  agent,      \* the portal agent: at, creds, prev, results, left
  requests, failures,
  intended,   \* history: the last value written to every field on purpose
  overlapped, \* history: two requests were handled at the same time
  unapplied   \* history: fields in the file by a request that then failed

store == <<file, intended, overlapped>>
process == <<boot, live, enabled, restart>>
handlers == <<request, pc, copy, requests>>
vars == <<store, process, handlers, agent, failures, unapplied>>

NewAgent == [at |-> "poll", creds |-> 0, prev |-> 0, results |-> {}, left |-> 0]

Init ==
  /\ file = Start /\ intended = Start /\ overlapped = FALSE /\ unapplied = {}
  /\ boot = Start /\ live = Start /\ enabled = Start["enabled"] /\ restart = FALSE
  /\ request = [r \in Slot |-> NoRequest] /\ pc = [r \in Slot |-> "idle"]
  /\ copy = [r \in Slot |-> Start] /\ requests = 0
  /\ agent = NewAgent /\ failures = 0

-----------------------------------------------------------------------------
(* The handlers.                                                           *)

\* Config::load_or_create, with the change made to the copy. pair loads after
\* the portal has answered; unpair and a change of the device name wait for
\* the network from here on.
Load(r, q) ==
  /\ pc[r] = "idle" /\ requests < MaxRequests
  /\ request' = [request EXCEPT ![r] = q]
  /\ copy' = [copy EXCEPT ![r] = [file EXCEPT ![q.field] = q.value]]
  /\ pc' = [pc EXCEPT ![r] = "loaded"]
  /\ requests' = requests + 1
  /\ overlapped' = (overlapped \/ \E s \in Slot : pc[s] # "idle")
  /\ UNCHANGED <<file, intended, process, agent, failures, unapplied>>

\* The handler returns.
Return(r) ==
  /\ pc' = [pc EXCEPT ![r] = "idle"]
  /\ request' = [request EXCEPT ![r] = NoRequest]
  /\ copy' = [copy EXCEPT ![r] = Start]
  /\ UNCHANGED requests

\* validate refuses the change, or a check before it does.
Refuse(r) ==
  /\ pc[r] = "loaded"
  /\ Return(r)
  /\ UNCHANGED <<store, process, agent, failures, unapplied>>

\* The rename of Config::save.
Write(r) ==
  /\ pc[r] = "loaded"
  /\ file' = copy[r]
  /\ intended' = [intended EXCEPT ![request[r].field] = request[r].value]
  /\ UNCHANGED overlapped

\* Config::save: a temporary file of its own and the rename.
Save(r) ==
  /\ Write(r)
  /\ pc' = [pc EXCEPT ![r] = "saved"]
  /\ UNCHANGED <<process, request, copy, requests, agent, failures, unapplied>>

\* An error of it, and the request is refused: before the rename,
SaveFails(r) ==
  /\ pc[r] = "loaded" /\ failures < MaxFailures
  /\ failures' = failures + 1
  /\ Return(r)
  /\ UNCHANGED <<store, process, agent, unapplied>>

\* or after it, from set_private_permissions: the file has the change, and the
\* process neither takes it over nor restarts for it.
SaveHalfFails(r) ==
  /\ Write(r) /\ failures < MaxFailures
  /\ failures' = failures + 1
  /\ unapplied' = unapplied \cup {request[r].field}
  /\ Return(r)
  /\ UNCHANGED <<process, agent>>

\* admin_pair and admin_unpair read the file again.
Reload(r) ==
  /\ pc[r] = "saved" /\ request[r].handler \in {"pair", "unpair"}
  /\ copy' = [copy EXCEPT ![r] = file]
  /\ pc' = [pc EXCEPT ![r] = "reloaded"]
  /\ UNCHANGED <<store, process, request, requests, agent, failures, unapplied>>

\* They cannot: the pairing is in the file, and the process keeps the old one.
ReloadFails(r) ==
  /\ pc[r] = "saved" /\ request[r].handler \in {"pair", "unpair"}
  /\ failures < MaxFailures
  /\ failures' = failures + 1
  /\ unapplied' = unapplied \cup {"agent"}
  /\ Return(r)
  /\ UNCHANGED <<store, process, agent>>

\* Mutation: a new device name is applied without a restart.
NeedsRestartNever(q, config) == q.handler = "peer"

\* What the process cannot take over while it runs.
NeedsRestart(q, config) ==
  \/ q.handler = "config" /\ config["name"] # boot["name"]
  \/ q.handler = "mining" /\ config["mode"] # boot["mode"]
  \/ q.handler = "peer"

\* The fields that a request takes over: apply_mining_config takes the whole
\* configuration, set_enabled the switch.
TakenOver(q) ==
  IF q.handler \in {"config", "mining", "pair", "unpair"} THEN {"mining", "url", "agent"}
  ELSE IF q.handler = "switch" THEN {"enabled"} ELSE {}

\* Mutation: the switch is only written to the file.
ApplyNoSwitch(r) ==
  LET q == request[r] IN
  /\ q # NoRequest
  /\ pc[r] = IF q.handler \in {"pair", "unpair"} THEN "reloaded" ELSE "saved"
  /\ live' = IF q.handler \in {"config", "mining", "pair", "unpair"}
             THEN copy[r] ELSE live
  /\ restart' = (restart \/ NeedsRestart(q, copy[r]))
  /\ unapplied' = unapplied \ TakenOver(q)
  /\ Return(r)
  /\ UNCHANGED <<store, boot, enabled, agent, failures>>

\* apply_mining_config or set_enabled, and schedule_restart.
Apply(r) ==
  LET q == request[r] IN
  /\ q # NoRequest
  /\ pc[r] = IF q.handler \in {"pair", "unpair"} THEN "reloaded" ELSE "saved"
  /\ live' = IF q.handler \in {"config", "mining", "pair", "unpair"}
             THEN copy[r] ELSE live
  /\ enabled' = IF q.handler = "switch" THEN q.value ELSE enabled
  /\ restart' = (restart \/ NeedsRestart(q, copy[r]))
  /\ unapplied' = unapplied \ TakenOver(q)
  /\ Return(r)
  /\ UNCHANGED <<store, boot, agent, failures>>

\* A new process: everything comes from the file.
StartProcess ==
  /\ boot' = file /\ live' = file /\ enabled' = file["enabled"]
  /\ restart' = FALSE
  /\ request' = [r \in Slot |-> NoRequest] /\ pc' = [r \in Slot |-> "idle"]
  /\ copy' = [r \in Slot |-> Start]
  /\ agent' = NewAgent /\ unapplied' = {}
  /\ UNCHANGED <<store, requests>>

\* exit(75), three seconds after schedule_restart, whatever is going on.
Restart == restart /\ StartProcess /\ UNCHANGED failures

Crash == failures < MaxFailures /\ StartProcess /\ failures' = failures + 1

-----------------------------------------------------------------------------
(* The portal agent.                                                       *)

\* Mutation: results are kept when the pairing changes.
AgentPollKeep ==
  /\ agent.at = "poll"
  /\ agent' = [agent EXCEPT !.creds = live["agent"], !.prev = live["agent"],
                            !.at = IF live["agent"] = 0 THEN "poll" ELSE "sync"]
  /\ UNCHANGED <<store, process, handlers, failures, unapplied>>

\* Mutation: the first credentials are kept.
AgentPollOnce ==
  /\ agent.at = "poll"
  /\ LET creds == IF agent.prev = 0 THEN live["agent"] ELSE agent.prev
     IN  agent' = [agent EXCEPT !.creds = creds, !.prev = creds,
                                !.at = IF creds = 0 THEN "poll" ELSE "sync"]
  /\ UNCHANGED <<store, process, handlers, failures, unapplied>>

\* The top of the loop: the credentials in force; other ones than the last
\* time have no results to report. Without any it sleeps and looks again.
AgentPoll ==
  /\ agent.at = "poll"
  /\ agent' = [agent EXCEPT
       !.creds = live["agent"], !.prev = live["agent"],
       !.results = IF live["agent"] = agent.prev THEN @ ELSE {},
       !.at = IF live["agent"] = 0 THEN "poll" ELSE "sync"]
  /\ UNCHANGED <<store, process, handlers, failures, unapplied>>

\* sync_once delivers the results and brings commands.
AgentSync(n) ==
  /\ agent.at = "sync"
  /\ agent' = [agent EXCEPT !.results = {}, !.left = n, !.at = "run"]
  /\ UNCHANGED <<store, process, handlers, failures, unapplied>>

\* It fails, perhaps after the portal got the results: they are sent again.
AgentSyncFails ==
  /\ agent.at = "sync" /\ failures < MaxFailures
  /\ failures' = failures + 1
  /\ agent' = [agent EXCEPT !.at = "poll"]
  /\ UNCHANGED <<store, process, handlers, unapplied>>

\* The next command, unless the pairing has changed.
AgentRun ==
  /\ agent.at = "run" /\ agent.left > 0 /\ live["agent"] = agent.creds
  /\ agent' = [agent EXCEPT !.results = @ \cup {agent.creds}, !.left = @ - 1]
  /\ UNCHANGED <<store, process, handlers, failures, unapplied>>

\* All commands are executed, or the rest of them is dropped.
AgentDone ==
  /\ agent.at = "run" /\ (agent.left = 0 \/ live["agent"] # agent.creds)
  /\ agent' = [agent EXCEPT !.at = "poll", !.left = 0]
  /\ UNCHANGED <<store, process, handlers, failures, unapplied>>

Handle(r) == Refuse(r) \/ Save(r) \/ Reload(r) \/ Apply(r)
HandleFails(r) == SaveFails(r) \/ SaveHalfFails(r) \/ ReloadFails(r)
AgentStep ==
  AgentPoll \/ AgentRun \/ AgentDone \/ \E n \in 0..MaxCommands : AgentSync(n)

Next ==
  \/ \E r \in Slot, q \in Request : Load(r, q)
  \/ \E r \in Slot : Handle(r) \/ HandleFails(r)
  \/ Restart \/ Crash
  \/ AgentStep \/ AgentSyncFails

Spec == Init /\ [][Next]_vars

\* Handlers finish, every request of the agent has a time limit, and a
\* scheduled restart takes place.
FairSpec ==
  /\ Spec
  /\ \A r \in Slot : WF_vars(Handle(r))
  /\ WF_vars(AgentStep) /\ WF_vars(Restart)

-----------------------------------------------------------------------------
(* Properties.                                                             *)

Quiet == ~restart /\ \A r \in Slot : pc[r] = "idle"

\* Types; a busy slot has a request, and only a running agent has commands.
TypeOK ==
  /\ {file, intended, boot, live} \subseteq Configuration
  /\ enabled \in Nat /\ {restart, overlapped} \subseteq BOOLEAN
  /\ unapplied \subseteq Field
  /\ request \in [Slot -> Request \cup {NoRequest}]
  /\ pc \in [Slot -> {"idle", "loaded", "saved", "reloaded"}]
  /\ \A r \in Slot : pc[r] = "idle" <=> request[r] = NoRequest
  /\ copy \in [Slot -> Configuration]
  /\ agent \in [at : {"poll", "sync", "run"}, creds : Nat, prev : Nat,
                results : SUBSET Nat, left : 0..MaxCommands]
  /\ agent.at # "run" => agent.left = 0
  /\ requests \in 0..MaxRequests /\ failures \in 0..MaxFailures

\* "performance, public URL and pairing apply live" (rpc.rs:723): the node works
\* with what the file says of field f.
WorksWith(f) == IF f = "enabled" THEN enabled = file["enabled"] ELSE live[f] = file[f]
LiveField == {"mining", "url", "agent", "enabled"}
WorksWithFile == \A f \in LiveField \ unapplied : WorksWith(f)

\* No request undoes what another one has written.
ChangesPreserved == file = intended

\* Both hold as long as requests are handled one at a time, through failed
\* writes, crashes at any point and restarts in the middle of a request: what
\* the file says and the node does not do was asked for by a request that was
\* told it failed, after the rename (config.rs:199) or reading the file again
\* (rpc.rs:836, 850), and no later request or process has taken it over.
ConsistentUnlessOverlapped ==
  ~overlapped => ChangesPreserved /\ (Quiet => WorksWithFile)

\* "Preserve performance/settings changes made while the portal responded"
\* (portal.rs:75): what pairing and unpairing write changes nothing else.
PairingPreservesChanges ==
  [][\A r \in Slot :
       pc[r] = "loaded" /\ request[r].handler \in {"pair", "unpair"} /\ Write(r)
         => \A f \in Field \ {"agent"} : file'[f] = file[f]]_vars

\* What ConsistentUnlessOverlapped rests on: a single request has the file as it
\* is, with its own change, and the process lacks no more than that change.
OneAtATime ==
  ~overlapped =>
    /\ ChangesPreserved
    /\ \A r, s \in Slot : pc[r] # "idle" /\ pc[s] # "idle" => r = s
    /\ \A r \in Slot : LET q == request[r] IN
         /\ pc[r] = "loaded" => copy[r] = [file EXCEPT ![q.field] = q.value]
         /\ pc[r] \in {"saved", "reloaded"} =>
              /\ copy[r] = file /\ file[q.field] = q.value
              /\ \A f \in LiveField \ (unapplied \cup {q.field}) : WorksWith(f)
         /\ pc[r] = "reloaded" => q.handler \in {"pair", "unpair"}
    /\ (\A r \in Slot : pc[r] \in {"idle", "loaded"}) => WorksWithFile

\* "RandomX mode and device name require restart" (rpc.rs:723), and so do the
\* peers: however requests overlap, the process never goes on with a value of
\* these that is not the file's, unless a restart is scheduled, a handler still
\* has to schedule it, or the request that wrote it failed after the rename.
RestartCovers ==
  Quiet => \A f \in {"name", "mode", "peers"} \ unapplied : boot[f] = file[f]

\* What RestartCovers rests on, for a field and the handler that changes it: a
\* value that the process does not have is in the file only with a restart, or
\* with a handler on its way to one, behind it.
HandlerFor == [name |-> "config", mode |-> "mining", peers |-> "peer"]
WillRestart(r, f) ==
  /\ pc[r] = "saved" /\ request[r].handler = HandlerFor[f]
  /\ f = "peers" \/ copy[r][f] # boot[f]
Covered(f) ==
  \/ restart \/ f \in unapplied \/ \E r \in Slot : WillRestart(r, f)
  \/ /\ file[f] = boot[f]
     /\ \A r \in Slot : pc[r] = "loaded" =>
          copy[r][f] = boot[f] \/ request[r].field = f
AllCovered == \A f \in {"name", "mode", "peers"} : Covered(f)

\* The results of commands go to the portal that sent them, also when the
\* pairing changes while a command is executed.
ResultsStayWithAgent ==
  agent.at = "sync" => agent.results \subseteq {agent.creds}

\* What it rests on: the agent works with the credentials it last saw, and has
\* only their results.
AgentConsistent ==
  agent.creds = agent.prev /\ agent.results \subseteq {agent.prev}

\* "Portal-Agent ... uebernimmt neue Zugangsdaten automatisch"
\* (CHANGELOG.md:8-9): the agent ends up with the credentials in force.
AgentFollows ==
  \A c \in {0} \cup {q.value : q \in Request} :
    <>[](live["agent"] = c) => <>[](agent.prev = c)
=============================================================================
