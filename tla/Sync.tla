-------------------------------- MODULE Sync --------------------------------
(***************************************************************************)
(* How nodes exchange blocks: the Inventory, GetData, Block, GetHeaders    *)
(* and Headers arms of Node::handle_wire with the sync queues              *)
(* (src/src/node.rs), and the connection loops of serve_socket and         *)
(* outbound_once with their handshake (src/src/p2p.rs).                    *)
(*                                                                         *)
(* A connection is a websocket, so messages arrive in order or not at all. *)
(* Announcements travel through the node's broadcast channel: the task of  *)
(* a connection forwards them when it gets to it, so they and its answers  *)
(* interleave in any order, and a full channel loses the oldest.           *)
(* Every block here is valid; ChainStore models what happens to others.    *)
(***************************************************************************)
EXTENDS BlockTree, Sequences, SequencesExt

CONSTANTS
  Node,
  Dial,         \* pairs <<client, server>> that connect
  Joined,       \* those of them that are connected already
  Start,        \* the chain every node opens with, by its tip
  Mined,        \* Mined[n]: blocks that reach node n from its own miner
  MaxHeaders,   \* MAX_HEADERS
  DenseLocator, \* 10 in block_locator: entries before the steps double
  Capacity,     \* broadcast::channel(2_048)
  MaxDrops,     \* bound: connections that break
  MaxRequests   \* bound: calls of request_sync

ASSUME SyncAssumption ==
  /\ Dial \subseteq Node \X Node /\ \A d \in Dial : <<d[2], d[1]>> \notin Dial
  /\ Joined \subseteq Dial /\ \A d \in Joined : Start[d[1]] = Start[d[2]]
  /\ Start \in [Node -> Block] /\ Mined \in [Node -> SUBSET Block]
  /\ MaxHeaders \in Nat \ {0} /\ DenseLocator \in Nat \ {0}
  /\ Capacity \in Nat \ {0} /\ MaxDrops \in Nat /\ MaxRequests \in Nat
  /\ Valid = Block

VARIABLES
  tip,       \* the active chain of every node
  stored,    \* its blocks table
  queue,     \* sync_queues, by node and peer
  conn,      \* "none", "hello" or "up": a node's end of a connection
  told,      \* the tip in the Hello a node sent
  events,    \* broadcast events not yet forwarded, by node and peer
  chan,      \* messages on their way, by sender and receiver
  drops, requests

vars == <<tip, stored, queue, conn, told, events, chan, drops, requests>>

Pair == Node \X Node
Linked == {e \in Pair : e \in Dial \/ <<e[2], e[1]>> \in Dial}

Init ==
  /\ tip = Start
  /\ stored = [n \in Node |-> Anc[Start[n]]]
  /\ queue = [e \in Linked |-> <<>>]
  /\ conn = [e \in Linked |-> IF e \in Joined \/ <<e[2], e[1]>> \in Joined
                            THEN "up" ELSE "none"]
  /\ told = [e \in Linked |-> Start[e[1]]]
  /\ events = [e \in Linked |-> <<>>] /\ chan = [e \in Linked |-> <<>>]
  /\ drops = 0 /\ requests = 0

-----------------------------------------------------------------------------
(* Chains and locators.                                                    *)

\* The heights of block_locator: how far below the tip each entry lies. The steps
\* double once it has DenseLocator entries, and the last one ends at genesis.
LocatorHeights(h) ==
  LET step[k \in 0..h] == IF k < DenseLocator THEN 1 ELSE 2 * step[k - 1]
      down[k \in 0..h] == IF k = 0 THEN 0 ELSE down[k - 1] + step[k - 1]
  IN  {IF down[k] < h THEN h - down[k] ELSE 0 : k \in 0..h}

Locator(t) == {b \in Anc[t] : Height[b] \in LocatorHeights(Height[t])}

\* Mutation: the block after the common one is skipped.
FirstHeightLate(t, locator) ==
  LET common == {Height[b] : b \in locator \cap Anc[t]}
  IN  IF common = {} THEN 0
      ELSE 2 + CHOOSE h \in common : \A k \in common : k <= h

\* The height after the highest block of the locator that is on the chain.
FirstHeight(t, locator) ==
  LET common == {Height[b] : b \in locator \cap Anc[t]}
  IN  IF common = {} THEN 0
      ELSE 1 + CHOOSE h \in common : \A k \in common : k <= h

\* The answer to GetHeaders: the active chain from that height on, at most
\* MaxHeaders blocks.
HeadersAfter(t, locator) ==
  LET start == FirstHeight(t, locator)
      last  == IF start + MaxHeaders - 1 < Height[t]
               THEN start + MaxHeaders - 1 ELSE Height[t]
  IN  [i \in 1..(last - start + 1) |->
         CHOOSE b \in Anc[t] : Height[b] = start + i - 1]

Inventory(b) == [type |-> "Inventory", id |-> b]
GetData(b) == [type |-> "GetData", id |-> b]
BlockMsg(b) == [type |-> "Block", id |-> b]
GetHeaders(t) == [type |-> "GetHeaders", locator |-> Locator(t)]
Headers(ids) == [type |-> "Headers", ids |-> ids]

\* Mutation: a block without its ancestors is kept as a side chain.
OutcomeOrphan(n, b) ==
  IF b \in Anc[tip[n]] THEN "Known"
  ELSE IF Parent[b] = tip[n] THEN "Extended"
  ELSE IF ~(Anc[b] \ {b} \subseteq stored[n]) THEN "SideChain"
  ELSE IF Preferred(b, tip[n]) THEN "Reorganized" ELSE "SideChain"

\* What submit_block makes of b at node n.
Outcome(n, b) ==
  IF b \in Anc[tip[n]] THEN "Known"
  ELSE IF Parent[b] = tip[n] THEN "Extended"
  ELSE IF ~(Anc[b] \ {b} \subseteq stored[n]) THEN "Err"
  ELSE IF Preferred(b, tip[n]) THEN "Reorganized" ELSE "SideChain"

\* A new event for every connection of n that has subscribed; a receiver that
\* is Capacity events behind loses the oldest.
Broadcast(n, msg) ==
  [e \in Linked |->
     IF e[1] = n /\ conn[e] = "up"
     THEN LET all == Append(events[e], msg)
          IN  IF Len(all) > Capacity THEN Tail(all) ELSE all
     ELSE events[e]]

\* Node::submit_block: a side chain is stored and not announced.
SubmitBlock(n, b) ==
  LET moves == Outcome(n, b) \in {"Extended", "Reorganized"}
  IN  /\ tip' = IF moves THEN [tip EXCEPT ![n] = b] ELSE tip
      /\ stored' = IF Outcome(n, b) \in {"Err", "Known"} THEN stored
                   ELSE [stored EXCEPT ![n] = @ \cup {b}]
      /\ events' = IF moves THEN Broadcast(n, Inventory(b)) ELSE events

-----------------------------------------------------------------------------
(* Connections.                                                            *)

\* The client's Hello, with its tip.
ClientHello(c, s) ==
  /\ <<c, s>> \in Dial /\ conn[<<c, s>>] = "none" /\ conn[<<s, c>>] = "none"
  /\ conn' = [conn EXCEPT ![<<c, s>>] = "hello"]
  /\ told' = [told EXCEPT ![<<c, s>>] = tip[c]]
  /\ UNCHANGED <<tip, stored, queue, events, chan, drops, requests>>

\* The server's answer, with its own.
ServerHello(c, s) ==
  /\ <<c, s>> \in Dial /\ conn[<<c, s>>] = "hello" /\ conn[<<s, c>>] = "none"
  /\ conn' = [conn EXCEPT ![<<s, c>>] = "hello"]
  /\ told' = [told EXCEPT ![<<s, c>>] = tip[s]]
  /\ UNCHANGED <<tip, stored, queue, events, chan, drops, requests>>

\* Either side registers the peer, subscribes to its own node's events and,
\* if the tip in the other's Hello is not its own, asks for headers.
Subscribe(n, m) ==
  /\ conn[<<n, m>>] = "hello" /\ conn[<<m, n>>] # "none"
  /\ conn' = [conn EXCEPT ![<<n, m>>] = "up"]
  /\ chan' = IF told[<<m, n>>] = tip[n] THEN chan
             ELSE [chan EXCEPT ![<<n, m>>] = Append(@, GetHeaders(tip[n]))]
  /\ UNCHANGED <<tip, stored, queue, told, events, drops, requests>>

\* The task of a connection forwards the next event.
Forward(n, m) ==
  /\ conn[<<n, m>>] = "up" /\ events[<<n, m>>] # <<>>
  /\ chan' = [chan EXCEPT ![<<n, m>>] = Append(@, Head(events[<<n, m>>]))]
  /\ events' = [events EXCEPT ![<<n, m>>] = Tail(@)]
  /\ UNCHANGED <<tip, stored, queue, conn, told, drops, requests>>

\* The connection breaks; peer_disconnected on both sides.
Disconnect(c, s) ==
  /\ <<c, s>> \in Dial /\ conn[<<c, s>>] # "none" /\ drops < MaxDrops
  /\ drops' = drops + 1
  /\ LET ends == {<<c, s>>, <<s, c>>}
         cut(f, v) == [e \in Linked |-> IF e \in ends THEN v ELSE f[e]]
     IN  /\ conn' = cut(conn, "none") /\ chan' = cut(chan, <<>>)
         /\ events' = cut(events, <<>>) /\ queue' = cut(queue, <<>>)
  /\ UNCHANGED <<tip, stored, told, requests>>

-----------------------------------------------------------------------------
(* handle_wire: node n takes the next message of peer m.                   *)

Receive(n, m, type) ==
  /\ conn[<<n, m>>] = "up" /\ chan[<<m, n>>] # <<>>
  /\ Head(chan[<<m, n>>]).type = type

\* The message is consumed and the answer, if any, is sent.
Answer(n, m, reply) ==
  chan' = [chan EXCEPT ![<<m, n>>] = Tail(@), ![<<n, m>>] = @ \o reply]

HandleInventory(n, m) ==
  /\ Receive(n, m, "Inventory")
  /\ LET b == Head(chan[<<m, n>>]).id
     IN  Answer(n, m, IF b \in stored[n] THEN <<>> ELSE <<GetData(b)>>)
  /\ UNCHANGED <<tip, stored, queue, conn, told, events, drops, requests>>

HandleGetData(n, m) ==
  /\ Receive(n, m, "GetData")
  /\ LET b == Head(chan[<<m, n>>]).id
     IN  Answer(n, m, IF b \in stored[n] THEN <<BlockMsg(b)>> ELSE <<>>)
  /\ UNCHANGED <<tip, stored, queue, conn, told, events, drops, requests>>

\* Mutation: the next block of the queue is not requested.
NextRequestNone(rest, t) == IF rest = <<>> THEN <<GetHeaders(t)>> ELSE <<>>

\* After the front of the queue: the next block, or the next headers.
NextRequest(rest, t) ==
  IF rest = <<>> THEN <<GetHeaders(t)>> ELSE <<GetData(Head(rest))>>

\* A refused block, or one that is not the front of the peer's queue, ends the
\* synchronization with that peer.
HandleBlock(n, m) ==
  /\ Receive(n, m, "Block")
  /\ LET b     == Head(chan[<<m, n>>]).id
         q     == queue[<<n, m>>]
         front == Outcome(n, b) # "Err" /\ q # <<>> /\ q[1] = b
     IN  /\ SubmitBlock(n, b)
         /\ queue' = [queue EXCEPT ![<<n, m>>] =
                         IF front THEN Tail(q) ELSE <<>>]
         /\ Answer(n, m, IF front THEN NextRequest(Tail(q), tip'[n]) ELSE <<>>)
  /\ UNCHANGED <<conn, told, drops, requests>>

HandleGetHeaders(n, m) ==
  /\ Receive(n, m, "GetHeaders")
  /\ LET locator == Head(chan[<<m, n>>]).locator
     IN  Answer(n, m, <<Headers(HeadersAfter(tip[n], locator))>>)
  /\ UNCHANGED <<tip, stored, queue, conn, told, events, drops, requests>>

\* Mutation: headers without news are asked for again.
WhenNothingNewAgain(t) == <<GetHeaders(t)>>

\* All headers are known: nothing is asked.
WhenNothingNew(t) == <<>>

\* The headers' blocks that a node does not have, in their order.
Unknown(ids, have) ==
  LET pick[i \in 0..Len(ids)] ==
        IF i = 0 THEN <<>>
        ELSE IF ids[i] \in have THEN pick[i - 1]
        ELSE Append(pick[i - 1], ids[i])
  IN  pick[Len(ids)]

\* The unknown blocks of a chain of headers that starts on a known block are
\* queued and the first one requested. Headers that are all known leave an
\* older queue in place.
HandleHeaders(n, m) ==
  /\ Receive(n, m, "Headers")
  /\ LET ids  == Head(chan[<<m, n>>]).ids
         good == /\ ids # <<>> /\ ids[1] # Genesis
                 /\ Parent[ids[1]] \in stored[n]
         new  == Unknown(ids, stored[n])
     IN  /\ queue' = [queue EXCEPT ![<<n, m>>] =
                        IF ~good THEN <<>> ELSE IF new = <<>> THEN @ ELSE new]
         /\ Answer(n, m, CASE ~good -> <<>>
                           [] good /\ new = <<>> -> WhenNothingNew(tip[n])
                           [] OTHER -> <<GetData(new[1])>>)
  /\ UNCHANGED <<tip, stored, conn, told, events, drops, requests>>

-----------------------------------------------------------------------------

\* The node's own miner finds a block.
Mine(n, b) ==
  /\ b \in Mined[n] \ stored[n] /\ Parent[b] = tip[n]
  /\ SubmitBlock(n, b)
  /\ UNCHANGED <<queue, conn, told, chan, drops, requests>>

\* request_sync, from the management interface.
RequestSync(n) ==
  /\ requests < MaxRequests
  /\ requests' = requests + 1
  /\ events' = Broadcast(n, GetHeaders(tip[n]))
  /\ UNCHANGED <<tip, stored, queue, conn, told, chan, drops>>

Handle(n, m) ==
  \/ HandleInventory(n, m) \/ HandleGetData(n, m) \/ HandleBlock(n, m)
  \/ HandleGetHeaders(n, m) \/ HandleHeaders(n, m)

Connect(n, m) == ClientHello(n, m) \/ ServerHello(n, m) \/ Subscribe(n, m)

Next ==
  \/ \E e \in Linked : Connect(e[1], e[2])
  \/ \E e \in Linked : Forward(e[1], e[2]) \/ Handle(e[1], e[2])
  \/ \E d \in Dial : Disconnect(d[1], d[2])
  \/ \E n \in Node : RequestSync(n) \/ \E b \in Mined[n] : Mine(n, b)

Spec == Init /\ [][Next]_vars

\* The runtime polls the task of every connection: handshakes proceed, events
\* are forwarded and messages handled.
FairSpec ==
  /\ Spec
  /\ \A e \in Linked : /\ WF_vars(Connect(e[1], e[2]))
                       /\ WF_vars(Forward(e[1], e[2]))
                       /\ WF_vars(Handle(e[1], e[2]))

-----------------------------------------------------------------------------
(* Properties.                                                             *)

\* What a node tells all its peers, and what passes between two of them.
Event ==
  [type : {"Inventory"}, id : Block]
    \cup [type : {"GetHeaders"}, locator : SUBSET Block]
Message ==
  Event \cup [type : {"GetData", "Block"}, id : Block]
        \cup [type : {"Headers"}, ids : Seq(Block)]

\* Types; a node stores the chain it follows and its channel its capacity.
TypeOK ==
  /\ tip \in [Node -> Block] /\ stored \in [Node -> SUBSET Block]
  /\ \A n \in Node : Anc[tip[n]] \subseteq stored[n]
  /\ conn \in [Linked -> {"none", "hello", "up"}] /\ told \in [Linked -> Block]
  /\ queue \in [Linked -> Seq(Block)]
  /\ chan \in [Linked -> Seq(Message)] /\ events \in [Linked -> Seq(Event)]
  /\ \A e \in Linked : Len(events[e]) <= Capacity
  /\ drops \in 0..MaxDrops /\ requests \in 0..MaxRequests

Up(e) == conn[e] = "up" /\ conn[<<e[2], e[1]>>] = "up"

\* Nothing is on its way.
Quiet == \A e \in Linked : Up(e) /\ chan[e] = <<>> /\ events[e] = <<>>

\* The branch a node stores is complete, whatever the peers sent and in
\* whatever order it arrived.
StoredComplete == \A n \in Node : \A b \in stored[n] : Anc[b] \subseteq stored[n]

\* A synchronization under way is not forgotten: while a queue is not empty,
\* the request for its front, or the block itself, is on its way.
QueueServed ==
  \A e \in Linked :
    queue[e] # <<>> =>
      \/ Contains(chan[e], GetData(queue[e][1]))
      \/ Contains(chan[<<e[2], e[1]>>], BlockMsg(queue[e][1]))

\* What a node queues for a peer, and the headers it is sent, name blocks that
\* the peer stores.
Stocked ==
  \A e \in Linked :
    /\ \A i \in DOMAIN queue[e] : queue[e][i] \in stored[e[2]]
    /\ \A k \in DOMAIN chan[e] : chan[e][k].type = "Headers" =>
         \A i \in DOMAIN chan[e][k].ids : chan[e][k].ids[i] \in stored[e[1]]

SyncInv == TypeOK /\ StoredComplete /\ QueueServed /\ Stocked

\* "The valid chain with greatest sum of L1 block work is preferred"
\* (spec/PROTOCOL-9.md:159): connected nodes that have nothing more to say to
\* each other follow the same chain.
Converged == Quiet => \A n, m \in Node : tip[n] = tip[m]

\* Neither a new block nor a request_sync came between.
Undisturbed ==
  /\ requests = 0
  /\ \A n \in Node : Mined[n] \cap stored[n] \subseteq Anc[Start[n]]

\* The same where nothing interferes with the synchronization that a new
\* connection starts, however often the connection is lost and made again.
UndisturbedConverge == Undisturbed => Converged

\* The conversation ends: no two nodes ask each other for ever.
Quiesces == <>[]Quiet
=============================================================================
