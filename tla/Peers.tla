------------------------------- MODULE Peers --------------------------------
(***************************************************************************)
(* Who is connected to whom: the outbound manager and the two ends of a    *)
(* connection (src/src/p2p.rs: spawn_outbound_manager, outbound_once,      *)
(* serve_socket), the table of connected peers (src/src/node.rs:           *)
(* peer_connected, peer_disconnected) and the switch that stops a node.    *)
(*                                                                         *)
(* The handshake is three Hellos:                                          *)
(*   server: challenge; client: answer; server: acknowledgement,           *)
(* after which either end registers the other in its own table. The ends   *)
(* are tasks of different processes: one may have given up long before the *)
(* other notices, and an answer or an acknowledgement on its way is still  *)
(* read after its sender has gone. What is exchanged afterwards is         *)
(* modelled in Sync, Mining and Mempool.                                   *)
(***************************************************************************)
EXTENDS Naturals, FiniteSets

CONSTANTS
  Node,
  Dial,         \* <<client, server>>: server is a configured peer of client
                \* (spawn_outbound_manager takes the first max_outbound_peers)
  MaxIn,        \* max_inbound_peers
  MaxOut,       \* max_outbound_peers
  MaxEnds,      \* bound: connections of a dialler that exist at once
  MaxFailures,  \* bound: timeouts and connections that break
  MaxSwitches   \* bound: how often nodes are started and stopped

ASSUME PeersAssumption ==
  /\ Dial \subseteq Node \X Node /\ IsFiniteSet(Node)
  /\ \A n \in Node : Cardinality({d \in Dial : d[1] = n}) <= MaxOut
  /\ MaxEnds \in Nat \ {0} /\ MaxIn \in Nat /\ MaxOut \in Nat /\ MaxFailures \in Nat /\ MaxSwitches \in Nat

VARIABLES
  enabled,    \* Node.node_enabled
  peers,      \* Node.connected_peers: "none", or the direction of a peer
  manager,    \* the task of a configured peer: "ready", "running", "asleep"
  session,    \* the connections
  late,       \* the ends <<k, direction>> whose second without a message is up
  failures, switches

vars == <<enabled, peers, manager, session, late, failures, switches>>

\* The connections <<client, server, i>>.
Slot == {<<d[1], d[2], i>> : d \in Dial, i \in 1..MaxEnds}
Client(k) == k[1]
Server(k) == k[2]
DialOf(k) == <<k[1], k[2]>>

Session ==
  [client : {"hello", "answered", "up", "closed"},
   server : {"hello", "acked", "up", "closed"},
   answer : BOOLEAN, ack : BOOLEAN]

\* No connection, and one whose server has just sent its challenge. `answer`
\* and `ack` are the Hellos the other end has sent since; one that is not
\* signed, for another chain or not in response to ours ends the connection,
\* as ClientFails and ServerFails do.
Free == [client |-> "closed", server |-> "closed",
         answer |-> FALSE, ack |-> FALSE]
Fresh == [client |-> "hello", server |-> "hello",
          answer |-> FALSE, ack |-> FALSE]

Init ==
  /\ enabled = [n \in Node |-> TRUE]
  /\ peers = [n \in Node |-> [p \in Node |-> "none"]]
  /\ manager = [d \in Dial |-> "ready"]
  /\ session = [k \in Slot |-> Free] /\ late = {}
  /\ failures = 0 /\ switches = 0

Open(k) == session[k] # Free

\* The connection after one end changed; when both have closed it is gone.
Put(k, rec) ==
  session' = [session EXCEPT ![k] =
    IF rec.client = "closed" /\ rec.server = "closed" THEN Free ELSE rec]

-----------------------------------------------------------------------------
(* The table of connected peers.                                           *)

Count(n, dir) == Cardinality({p \in Node : peers[n][p] = dir})

\* The guard of peer_connected.
MayRegister(n, p, dir) ==
  /\ peers[n][p] = "none"
  /\ Count(n, dir) < IF dir = "in" THEN MaxIn ELSE MaxOut

Registered(n, p, dir) == [peers EXCEPT ![n][p] = dir]

\* Mutation: the entry stays.
DisconnectedNot(n, p) == peers

\* peer_disconnected, of the table; the sync queue and the orphan workshares
\* of the peer are dropped in Sync and Mining.
Disconnected(n, p) == [peers EXCEPT ![n][p] = "none"]

-----------------------------------------------------------------------------
(* The client: spawn_outbound_manager and outbound_once.                   *)

\* The manager connects. A stopped server refuses the upgrade.
Connect(d) ==
  /\ manager[d] = "ready" /\ enabled[d[1]]
  /\ IF enabled[d[2]]
     THEN LET unused == {k \in Slot : DialOf(k) = d /\ ~Open(k)}
          IN  /\ unused # {}
              /\ session' = [session EXCEPT ![CHOOSE k \in unused : TRUE] = Fresh]
              /\ manager' = [manager EXCEPT ![d] = "running"]
     ELSE manager' = [manager EXCEPT ![d] = "asleep"] /\ UNCHANGED session
  /\ UNCHANGED <<enabled, peers, late, failures, switches>>

\* The challenge arrives. A node that reached itself hangs up.
Answer(k) ==
  /\ Open(k) /\ session[k].client = "hello" /\ Client(k) # Server(k)
  /\ session[k].server # "closed"
  /\ Put(k, [session[k] EXCEPT !.client = "answered", !.answer = TRUE])
  /\ UNCHANGED <<enabled, peers, manager, late, failures, switches>>

\* The client's end closes, the table entry is removed if it was made, and the
\* manager sleeps before the next attempt.
CloseClient(k, table) ==
  /\ Put(k, [session[k] EXCEPT !.client = "closed"])
  /\ manager' = [manager EXCEPT ![DialOf(k)] = "asleep"]
  /\ peers' = table
  /\ late' = late \ {<<k, "out">>}

\* The acknowledgement arrives; a refused registration closes the connection.
ClientRegister(k) ==
  /\ Open(k) /\ session[k].client = "answered" /\ session[k].ack
  /\ IF MayRegister(Client(k), Server(k), "out")
     THEN /\ Put(k, [session[k] EXCEPT !.client = "up"])
          /\ peers' = Registered(Client(k), Server(k), "out")
          /\ UNCHANGED <<manager, late>>
     ELSE CloseClient(k, peers)
  /\ UNCHANGED <<enabled, failures, switches>>

\* The client notices that it reached itself or that the server has gone with
\* nothing left to read.
ClientAbandons(k) ==
  /\ Open(k) /\ session[k].client \in {"hello", "answered"} /\ ~session[k].ack
  /\ session[k].server = "closed" \/ Client(k) = Server(k)
  /\ CloseClient(k, peers)
  /\ UNCHANGED <<enabled, failures, switches>>

\* The client's loop ends: the server has gone.
ClientEnds(k) ==
  /\ Open(k) /\ session[k].client = "up" /\ session[k].server = "closed"
  /\ CloseClient(k, Disconnected(Client(k), Server(k)))
  /\ UNCHANGED <<enabled, failures, switches>>

\* The branch of the loop that looks at the switch, after a second without a
\* message; a node that runs sleeps again.
ClientWakes(k) ==
  /\ session[k].client = "up" /\ <<k, "out">> \in late
  /\ IF enabled[Client(k)]
     THEN late' = late \ {<<k, "out">>} /\ UNCHANGED <<session, manager, peers>>
     ELSE CloseClient(k, Disconnected(Client(k), Server(k)))
  /\ UNCHANGED <<enabled, failures, switches>>

\* The sleep of the manager ends.
Wake(d) ==
  /\ manager[d] = "asleep"
  /\ manager' = [manager EXCEPT ![d] = "ready"]
  /\ UNCHANGED <<enabled, peers, session, late, failures, switches>>

-----------------------------------------------------------------------------
(* The server: serve_socket.                                               *)

\* The client's answer arrives and is acknowledged.
Acknowledge(k) ==
  /\ Open(k) /\ session[k].server = "hello" /\ session[k].answer
  /\ Put(k, [session[k] EXCEPT !.server = "acked", !.ack = TRUE])
  /\ UNCHANGED <<enabled, peers, manager, late, failures, switches>>

\* Mutation: a refused registration ends like a connection.
ServerRegisterRemoves(k) ==
  /\ Open(k) /\ session[k].server = "acked"
  /\ IF MayRegister(Server(k), Client(k), "in")
     THEN /\ Put(k, [session[k] EXCEPT !.server = "up"])
          /\ peers' = Registered(Server(k), Client(k), "in")
     ELSE /\ Put(k, [session[k] EXCEPT !.server = "closed"])
          /\ peers' = Disconnected(Server(k), Client(k))
  /\ UNCHANGED <<enabled, manager, late, failures, switches>>

\* Only then is the client registered; if that is refused the acknowledged
\* connection is closed again.
ServerRegister(k) ==
  /\ Open(k) /\ session[k].server = "acked"
  /\ IF MayRegister(Server(k), Client(k), "in")
     THEN /\ Put(k, [session[k] EXCEPT !.server = "up"])
          /\ peers' = Registered(Server(k), Client(k), "in")
     ELSE Put(k, [session[k] EXCEPT !.server = "closed"]) /\ UNCHANGED peers
  /\ UNCHANGED <<enabled, manager, late, failures, switches>>

ServerAbandons(k) ==
  /\ Open(k) /\ session[k].server = "hello" /\ ~session[k].answer
  /\ session[k].client = "closed"
  /\ Put(k, [session[k] EXCEPT !.server = "closed"])
  /\ UNCHANGED <<enabled, peers, manager, late, failures, switches>>

CloseServer(k, table) ==
  /\ Put(k, [session[k] EXCEPT !.server = "closed"])
  /\ peers' = table
  /\ late' = late \ {<<k, "in">>}
  /\ UNCHANGED manager

ServerEnds(k) ==
  /\ Open(k) /\ session[k].server = "up" /\ session[k].client = "closed"
  /\ CloseServer(k, Disconnected(Server(k), Client(k)))
  /\ UNCHANGED <<enabled, failures, switches>>

ServerWakes(k) ==
  /\ session[k].server = "up" /\ <<k, "in">> \in late
  /\ IF enabled[Server(k)]
     THEN late' = late \ {<<k, "in">>} /\ UNCHANGED <<session, manager, peers>>
     ELSE CloseServer(k, Disconnected(Server(k), Client(k)))
  /\ UNCHANGED <<enabled, failures, switches>>

-----------------------------------------------------------------------------
(* The second of select!: its sleep is made anew in every turn of the      *)
(* loop, so that each message the end sends or reads starts it again.      *)

End(k, dir) == IF dir = "in" THEN session[k].server ELSE session[k].client
OtherEnd(k, dir) == IF dir = "in" THEN session[k].client ELSE session[k].server

\* The second since the last message is up, but for the poll of the task.
RunsOut(k, dir) ==
  /\ End(k, dir) = "up" /\ <<k, dir>> \notin late
  /\ late' = late \cup {<<k, dir>>}
  /\ UNCHANGED <<enabled, peers, manager, session, failures, switches>>

\* A message comes first and is served in place of the sleep. Messages that are
\* further apart than a second do not do this.
Message(k, dir) ==
  /\ <<k, dir>> \in late /\ OtherEnd(k, dir) # "closed"
  /\ late' = late \ {<<k, dir>>}
  /\ UNCHANGED <<enabled, peers, manager, session, failures, switches>>

-----------------------------------------------------------------------------
(* Failures and the switch.                                                *)

\* A handshake times out, a peer exceeds its message budget or sends garbage,
\* or the connection breaks, as one end sees it.
ClientFails(k) ==
  /\ Open(k) /\ session[k].client # "closed" /\ failures < MaxFailures
  /\ failures' = failures + 1
  /\ CloseClient(k, IF session[k].client = "up"
                    THEN Disconnected(Client(k), Server(k)) ELSE peers)
  /\ UNCHANGED <<enabled, switches>>

ServerFails(k) ==
  /\ Open(k) /\ session[k].server # "closed" /\ failures < MaxFailures
  /\ failures' = failures + 1
  /\ CloseServer(k, IF session[k].server = "up"
                    THEN Disconnected(Server(k), Client(k)) ELSE peers)
  /\ UNCHANGED <<enabled, switches>>

\* set_enabled, from /admin/start and /admin/stop.
SetEnabled(n) ==
  /\ switches < MaxSwitches
  /\ switches' = switches + 1
  /\ enabled' = [enabled EXCEPT ![n] = ~@]
  /\ UNCHANGED <<peers, manager, session, late, failures>>

ClientStep(k) ==
  Answer(k) \/ ClientRegister(k) \/ ClientAbandons(k) \/ ClientEnds(k)
ServerStep(k) ==
  Acknowledge(k) \/ ServerRegister(k) \/ ServerAbandons(k) \/ ServerEnds(k)

Next ==
  \/ \E d \in Dial : Connect(d) \/ Wake(d)
  \/ \E k \in Slot : ClientStep(k) \/ ServerStep(k)
  \/ \E k \in Slot : ClientWakes(k) \/ ServerWakes(k)
  \/ \E k \in Slot, dir \in {"in", "out"} : RunsOut(k, dir) \/ Message(k, dir)
  \/ \E k \in Slot : ClientFails(k) \/ ServerFails(k)
  \/ \E n \in Node : SetEnabled(n)

Spec == Init /\ [][Next]_vars

\* The runtime polls every task, sleeps end and a closed connection is noticed
\* by the heartbeat at the latest. Nothing is assumed of the messages: they may
\* come in every second.
FairSpec ==
  /\ Spec
  /\ \A d \in Dial : WF_vars(Connect(d)) /\ WF_vars(Wake(d))
  /\ \A k \in Slot : /\ WF_vars(ClientStep(k)) /\ WF_vars(ServerStep(k))
                     /\ WF_vars(ClientWakes(k)) /\ WF_vars(ServerWakes(k))
                     /\ \A dir \in {"in", "out"} : WF_vars(RunsOut(k, dir))

-----------------------------------------------------------------------------
(* Properties.                                                             *)

\* Types.
TypeOK ==
  /\ enabled \in [Node -> BOOLEAN]
  /\ peers \in [Node -> [Node -> {"none", "in", "out"}]]
  /\ manager \in [Dial -> {"ready", "running", "asleep"}]
  /\ session \in [Slot -> Session] /\ late \subseteq Slot \X {"in", "out"}
  /\ failures \in 0..MaxFailures /\ switches \in 0..MaxSwitches

\* The connections the task of a configured peer is busy with: it runs one at a
\* time and no other task does so on its behalf (outbound_once is awaited).
Trying(d) == {k \in Slot : DialOf(k) = d /\ session[k].client # "closed"}
OneAttempt ==
  \A d \in Dial : /\ manager[d] = "running" <=> Trying(d) # {}
                  /\ \A k, l \in Trying(d) : k = l

\* The connections in which n serves, and in which it has reached, p.
Serving(n, p) ==
  {k \in Slot : session[k].server = "up" /\ DialOf(k) = <<p, n>>}
Reaching(n, p) ==
  {k \in Slot : session[k].client = "up" /\ DialOf(k) = <<n, p>>}

\* peer_connected and peer_disconnected are called by different tasks, for
\* whole directions of the same peer, and the second removes an entry without
\* looking at it. Still the table is exact: a peer is in it if and only if one
\* connection with that peer, of that direction, is open, and never two; so no
\* node serves or keeps more connections than it is configured to.
TableMatchesSessions ==
  \A n, p \in Node :
    /\ Cardinality(Serving(n, p)) = IF peers[n][p] = "in" THEN 1 ELSE 0
    /\ Cardinality(Reaching(n, p)) = IF peers[n][p] = "out" THEN 1 ELSE 0
    /\ Count(n, "in") <= MaxIn /\ Count(n, "out") <= MaxOut

\* The same without counting connections: an end that is up is in the table, in
\* its own direction, and no other end of that direction is.
Entry(n, p, dir) == IF dir = "in" THEN Serving(n, p) ELSE Reaching(n, p)
TableExact ==
  \A n, p \in Node, dir \in {"in", "out"} :
    /\ peers[n][p] = dir <=> Entry(n, p, dir) # {}
    /\ \A k, l \in Entry(n, p, dir) : k = l
TableBounded == \A n \in Node : Count(n, "in") <= MaxIn /\ Count(n, "out") <= MaxOut

\* "Im gestoppten Zustand ... ruhen" P2P and mining (INSTALLATION.md:63-64): a
\* node that stays stopped ends up without connections.
Alone(n) == \A p \in Node : peers[n][p] = "none"
LeavesWhenStopped == \A n \in Node : <>[]~enabled[n] => <>[]Alone(n)

\* A message cuts the second of a connection of n short.
Interrupted(n) == \E k \in Slot : \/ Client(k) = n /\ Message(k, "out")
                                  \/ Server(k) = n /\ Message(k, "in")

\* What the loops achieve: it does if messages leave seconds between them from
\* some time on. Handshakes that were on their way when the node was stopped
\* still become connections, and are left too.
StopsWhenDisabled ==
  \A n \in Node :
    <>[]~enabled[n] /\ <>[][~Interrupted(n)]_vars => <>[]Alone(n)

\* Both ends of a connection have registered each other.
Linked(d) == \E k \in Slot : DialOf(k) = d /\ session[k].client = "up"
                                                /\ session[k].server = "up"

Dialers(s) == {d \in Dial : d[2] = s /\ d[1] # s /\ enabled[d[1]] /\ enabled[s]}

\* Connections come back: once nothing fails any more, every running server
\* has a lasting connection with each running node that dials it, or as many
\* as it accepts, those with a stopped node that does not leave among them. A
\* connection the server has not yet given up, which makes it refuse the same
\* peer, delays the next one but does not prevent it.
Reconnects ==
  \A s \in Node :
    <>[](\/ \A d \in Dialers(s) : Linked(d)
         \/ Cardinality({d \in Dial : d[2] = s /\ Linked(d)}) = MaxIn)
=============================================================================
