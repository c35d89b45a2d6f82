---------------------------- MODULE PeersProofs -----------------------------
(***************************************************************************)
(* The table of connected peers is exact and bounded, for any set of       *)
(* nodes, any dial lists and any limits.                                   *)
(***************************************************************************)
EXTENDS Peers, FiniteSetTheorems, TLAPS

\* What is needed beside the types: neither conjunct holds without the other
\* half of the table, since one entry stands for connections of both directions.
TableInv == TypeOK /\ TableExact /\ TableBounded

USE PeersAssumption

-----------------------------------------------------------------------------
(* Connections and their ends.                                             *)

\* A slot stands for a dial between two nodes.
LEMMA SlotDial ==
  ASSUME NEW k \in Slot
  PROVE  /\ DialOf(k) \in Dial /\ DialOf(k) = <<Client(k), Server(k)>>
         /\ Client(k) \in Node /\ Server(k) \in Node
<1>1. PICK d \in Dial, i \in 1..MaxEnds : k = <<d[1], d[2], i>>
  BY DEF Slot
<1>2. d \in Node \X Node
  OBVIOUS
<1>3. d = <<d[1], d[2]>> /\ d[1] \in Node /\ d[2] \in Node
  BY <1>2
<1> QED
  BY <1>1, <1>3 DEF DialOf, Client, Server

\* A slot is overwritten, and freed when both ends are closed.
LEMMA PutSound ==
  ASSUME session \in [Slot -> Session], NEW k \in Slot, NEW rec \in Session,
         Put(k, rec)
  PROVE  /\ session' \in [Slot -> Session]
         /\ session'[k].client = rec.client /\ session'[k].server = rec.server
         /\ \A l \in Slot : l # k => session'[l] = session[l]
<1>1. Free \in Session
  BY DEF Free, Session
<1>2. CASE rec.client = "closed" /\ rec.server = "closed"
  <2>1. session' = [session EXCEPT ![k] = Free]
    BY <1>2 DEF Put
  <2> QED
    BY <1>1, <1>2, <2>1 DEF Free
<1>3. CASE ~(rec.client = "closed" /\ rec.server = "closed")
  <2>1. session' = [session EXCEPT ![k] = rec]
    BY <1>3 DEF Put
  <2> QED
    BY <2>1
<1> QED
  BY <1>2, <1>3

\* An end that is up, and what it stands for in the table of its node.
Up(k, dir) == IF dir = "in" THEN session[k].server = "up" ELSE session[k].client = "up"
Ends(n, p, dir) == IF dir = "in" THEN <<p, n>> ELSE <<n, p>>

\* The ends that an entry of the table stands for.
LEMMA EntryIs ==
  ASSUME NEW n, NEW p, NEW dir \in {"in", "out"}
  PROVE  Entry(n, p, dir) = {k \in Slot : Up(k, dir) /\ DialOf(k) = Ends(n, p, dir)}
BY DEF Entry, Serving, Reaching, Up, Ends

\* The same, after a step.
LEMMA EntryIsNext ==
  ASSUME NEW n, NEW p, NEW dir \in {"in", "out"}
  PROVE  Entry(n, p, dir)' = {k \in Slot : Up(k, dir)' /\ DialOf(k) = Ends(n, p, dir)}
BY DEF Entry, Serving, Reaching, Up, Ends

\* An entry stands for the same ends while none of them comes up or closes.
LEMMA EntryKept ==
  ASSUME NEW n, NEW p, NEW dir \in {"in", "out"},
         \A k \in Slot : DialOf(k) = Ends(n, p, dir) => (Up(k, dir)' <=> Up(k, dir))
  PROVE  Entry(n, p, dir)' = Entry(n, p, dir)
<1>1. CASE dir = "in"
  <2>1. \A k \in Slot :
          DialOf(k) = <<p, n>> => (session'[k].server = "up" <=> session[k].server = "up")
    BY <1>1 DEF Up, Ends
  <2>2. Serving(n, p)' = Serving(n, p)
    BY <2>1 DEF Serving
  <2> QED
    BY <1>1, <2>2 DEF Entry
<1>2. CASE dir = "out"
  <2>1. \A k \in Slot :
          DialOf(k) = <<n, p>> => (session'[k].client = "up" <=> session[k].client = "up")
    BY <1>2 DEF Up, Ends
  <2>2. Reaching(n, p)' = Reaching(n, p)
    BY <2>1 DEF Reaching
  <2>3. dir # "in"
    BY <1>2
  <2> QED
    BY <2>2, <2>3 DEF Entry
<1> QED
  BY <1>1, <1>2

-----------------------------------------------------------------------------
(* The three ways in which a step meets the table: not at all, by adding   *)
(* the entry of an end that comes up, by removing that of one that closes. *)

\* A step that registers and disconnects nobody keeps the table exact.
LEMMA QuietStep ==
  ASSUME TableInv, UNCHANGED peers,
         \A k \in Slot, dir \in {"in", "out"} : Up(k, dir)' <=> Up(k, dir)
  PROVE  TableExact' /\ TableBounded'
<1>1. ASSUME NEW n \in Node, NEW p \in Node, NEW dir \in {"in", "out"}
      PROVE  Entry(n, p, dir)' = Entry(n, p, dir)
  BY EntryKept
<1>2. TableExact'
  BY <1>1 DEF TableInv, TableExact
<1>3. TableBounded'
  BY DEF TableInv, TableBounded, Count
<1> QED
  BY <1>2, <1>3

\* A registration stays within the limit that was checked.
LEMMA CountGrows ==
  ASSUME TableInv, NEW n \in Node, NEW p \in Node, NEW dir \in {"in", "out"},
         MayRegister(n, p, dir), peers' = Registered(n, p, dir)
  PROVE  TableBounded'
<1> DEFINE Of(m, d) == {q \in Node : peers[m][q] = d}
           Then(m, d) == {q \in Node : peers'[m][q] = d}
<1>1. /\ peers'[n][p] = dir
      /\ \A m, q \in Node : m # n \/ q # p => peers'[m][q] = peers[m][q]
  BY DEF TableInv, TypeOK, Registered
<1>2. \A m \in Node, d \in {"in", "out"} : IsFiniteSet(Of(m, d))
  BY FS_Subset
<1>3. \A m \in Node, d \in {"in", "out"} : Count(m, d) \in Nat
  BY <1>2, FS_CardinalityType DEF Count
<1>4. ASSUME NEW m \in Node, NEW d \in {"in", "out"}, m # n \/ d # dir
      PROVE  Count(m, d)' = Count(m, d)
  <2>1. Then(m, d) = Of(m, d)
    BY <1>1, <1>4 DEF MayRegister
  <2> QED
    BY <2>1 DEF Count
<1>5. Count(n, dir)' = Count(n, dir) + 1
  <2>1. Then(n, dir) = Of(n, dir) \cup {p}
    BY <1>1
  <2>2. p \notin Of(n, dir)
    BY DEF MayRegister
  <2>3. Cardinality(Of(n, dir) \cup {p}) = Cardinality(Of(n, dir)) + 1
    <3> DEFINE S == Of(n, dir)
    <3>1. IsFiniteSet(S) /\ p \notin S
      BY <1>2, <2>2
    <3> HIDE DEF S
    <3>2. Cardinality(S \cup {p}) = Cardinality(S) + 1
      BY <3>1, FS_AddElement
    <3> QED
      BY <3>2 DEF S
  <2> QED
    BY <2>1, <2>3 DEF Count
<1>6. Count(n, dir)' <= IF dir = "in" THEN MaxIn ELSE MaxOut
  BY <1>3, <1>5 DEF MayRegister
<1>7. ASSUME NEW m \in Node
      PROVE  Count(m, "in")' <= MaxIn /\ Count(m, "out")' <= MaxOut
  <2>1. Count(m, "in") <= MaxIn /\ Count(m, "out") <= MaxOut
    BY DEF TableInv, TableBounded
  <2>2. Count(m, "in")' <= MaxIn
    BY <2>1, <1>4, <1>6
  <2>3. Count(m, "out")' <= MaxOut
    BY <2>1, <1>4, <1>6
  <2> QED
    BY <2>2, <2>3
<1> QED
  BY <1>7 DEF TableBounded

\* The entry of a new connection stands for that end, and for no other.
LEMMA RegisterStep ==
  ASSUME TableInv, NEW k \in Slot, NEW n \in Node, NEW p \in Node,
         NEW dir \in {"in", "out"},
         DialOf(k) = Ends(n, p, dir),
         MayRegister(n, p, dir), peers' = Registered(n, p, dir),
         Up(k, dir)',
         \A l \in Slot, d \in {"in", "out"} :
           l # k \/ d # dir => (Up(l, d)' <=> Up(l, d))
  PROVE  TableExact' /\ TableBounded'
<1>1. TableBounded'
  BY CountGrows
<1>2. /\ peers'[n][p] = dir
      /\ \A m, q \in Node : m # n \/ q # p => peers'[m][q] = peers[m][q]
  BY DEF TableInv, TypeOK, Registered
<1>3. Entry(n, p, "in") = {} /\ Entry(n, p, "out") = {}
  BY DEF TableInv, TableExact, MayRegister
<1>4. ASSUME NEW m \in Node, NEW q \in Node, NEW d \in {"in", "out"}
      PROVE  /\ peers'[m][q] = d <=> Entry(m, q, d)' # {}
             /\ \A l, j \in Entry(m, q, d)' : l = j
  <2>0. /\ peers[m][q] = d <=> Entry(m, q, d) # {}
        /\ \A l, j \in Entry(m, q, d) : l = j
    BY DEF TableInv, TableExact
  <2>1. CASE m = n /\ q = p /\ d = dir
    <3>1. \A l \in Slot : ~(Up(l, d) /\ DialOf(l) = Ends(m, q, d))
      BY <1>3, <2>1, EntryIs
    <3>2. Entry(m, q, d)' = {k}
      BY <2>1, <3>1, EntryIsNext
    <3> QED
      BY <1>2, <2>1, <3>2
  <2>2. CASE m = n /\ q = p /\ d # dir
    <3>1. Entry(m, q, d)' = Entry(m, q, d)
      BY <2>2, EntryKept
    <3> QED
      BY <1>2, <1>3, <2>2, <3>1
  <2>3. CASE m # n \/ q # p
    <3>1. DialOf(k) # Ends(m, q, d) \/ d # dir
      BY <2>3 DEF Ends
    <3>2. Entry(m, q, d)' = Entry(m, q, d)
      BY <3>1, EntryKept
    <3> QED
      BY <1>2, <2>0, <2>3, <3>2
  <2> QED
    BY <2>1, <2>2, <2>3
<1>5. TableExact'
  BY <1>4 DEF TableExact
<1> QED
  BY <1>1, <1>5

\* A disconnection stays within the limits.
LEMMA CountShrinks ==
  ASSUME TableInv, NEW n \in Node, NEW p \in Node, peers' = Disconnected(n, p)
  PROVE  TableBounded'
<1> DEFINE Of(m, d) == {q \in Node : peers[m][q] = d}
           Then(m, d) == {q \in Node : peers'[m][q] = d}
<1>1. \A m, q \in Node : peers'[m][q] = peers[m][q] \/ peers'[m][q] = "none"
  BY DEF TableInv, TypeOK, Disconnected
<1>2. ASSUME NEW m \in Node, NEW d \in {"in", "out"}
      PROVE  /\ Count(m, d)' <= Count(m, d)
             /\ Count(m, d) \in Nat /\ Count(m, d)' \in Nat
  <2>1. Then(m, d) \subseteq Of(m, d)
    BY <1>1
  <2>2. IsFiniteSet(Of(m, d)) /\ IsFiniteSet(Then(m, d))
    BY FS_Subset
  <2>3. Cardinality(Then(m, d)) <= Cardinality(Of(m, d))
    BY <2>1, <2>2, FS_Subset
  <2>4. Cardinality(Then(m, d)) \in Nat /\ Cardinality(Of(m, d)) \in Nat
    BY <2>2, FS_CardinalityType
  <2> QED
    BY <2>3, <2>4 DEF Count
<1>3. ASSUME NEW m \in Node
      PROVE  Count(m, "in")' <= MaxIn /\ Count(m, "out")' <= MaxOut
  <2>1. Count(m, "in") <= MaxIn /\ Count(m, "out") <= MaxOut
    BY DEF TableInv, TableBounded
  <2> QED
    BY <1>2, <2>1
<1> QED
  BY <1>3 DEF TableBounded

\* The entry of a closed connection stood for that end only.
LEMMA DisconnectStep ==
  ASSUME TableInv, NEW k \in Slot, NEW n \in Node, NEW p \in Node,
         NEW dir \in {"in", "out"},
         DialOf(k) = Ends(n, p, dir),
         Up(k, dir), ~Up(k, dir)', peers' = Disconnected(n, p),
         \A l \in Slot, d \in {"in", "out"} :
           l # k \/ d # dir => (Up(l, d)' <=> Up(l, d))
  PROVE  TableExact' /\ TableBounded'
<1>1. TableBounded'
  BY CountShrinks
<1>2. /\ peers'[n][p] = "none"
      /\ \A m, q \in Node : m # n \/ q # p => peers'[m][q] = peers[m][q]
  BY DEF TableInv, TypeOK, Disconnected
<1>3. k \in Entry(n, p, dir)
  BY EntryIs
<1>4. /\ peers[n][p] = dir
      /\ \A l, j \in Entry(n, p, dir) : l = j
  BY <1>3 DEF TableInv, TableExact
<1>5. ASSUME NEW m \in Node, NEW q \in Node, NEW d \in {"in", "out"}
      PROVE  /\ peers'[m][q] = d <=> Entry(m, q, d)' # {}
             /\ \A l, j \in Entry(m, q, d)' : l = j
  <2>0. /\ peers[m][q] = d <=> Entry(m, q, d) # {}
        /\ \A l, j \in Entry(m, q, d) : l = j
    BY DEF TableInv, TableExact
  <2>1. CASE m = n /\ q = p /\ d = dir
    <3>1. Entry(m, q, d)' = {}
      BY <1>3, <1>4, <2>1, EntryIs, EntryIsNext
    <3> QED
      BY <1>2, <2>1, <3>1
  <2>2. CASE m = n /\ q = p /\ d # dir
    <3>1. Entry(m, q, d)' = Entry(m, q, d)
      BY <2>2, EntryKept
    <3> QED
      BY <1>2, <1>4, <2>0, <2>2, <3>1
  <2>3. CASE m # n \/ q # p
    <3>1. DialOf(k) # Ends(m, q, d) \/ d # dir
      BY <2>3 DEF Ends
    <3>2. Entry(m, q, d)' = Entry(m, q, d)
      BY <3>1, EntryKept
    <3> QED
      BY <1>2, <2>0, <2>3, <3>2
  <2> QED
    BY <2>1, <2>2, <2>3
<1>6. TableExact'
  BY <1>5 DEF TableExact
<1> QED
  BY <1>1, <1>6

-----------------------------------------------------------------------------
(* What the actions do to one connection.                                  *)

\* The connection k after Put, seen from the table.
LEMMA PutUp ==
  ASSUME TypeOK, NEW k \in Slot, NEW rec \in Session, Put(k, rec)
  PROVE  /\ session' \in [Slot -> Session]
         /\ Up(k, "in")' <=> rec.server = "up"
         /\ Up(k, "out")' <=> rec.client = "up"
         /\ \A l \in Slot, d \in {"in", "out"} : l # k => (Up(l, d)' <=> Up(l, d))
<1>1. session \in [Slot -> Session]
  BY DEF TypeOK
<1>2. /\ session' \in [Slot -> Session]
      /\ session'[k].client = rec.client /\ session'[k].server = rec.server
      /\ \A l \in Slot : l # k => session'[l] = session[l]
  BY <1>1, PutSound
<1> QED
  BY <1>2 DEF Up

\* The table after a registration or a disconnection.
LEMMA TableTypes ==
  ASSUME TypeOK, NEW n \in Node, NEW p \in Node
  PROVE  /\ \A dir \in {"in", "out"} :
              Registered(n, p, dir) \in [Node -> [Node -> {"none", "in", "out"}]]
         /\ Disconnected(n, p) \in [Node -> [Node -> {"none", "in", "out"}]]
BY DEF TypeOK, Registered, Disconnected

\* An end that changes without coming up or closing a registered connection.
LEMMA QuietPut ==
  ASSUME TableInv, NEW k \in Slot, NEW rec \in Session, Put(k, rec),
         UNCHANGED peers,
         rec.server = "up" <=> session[k].server = "up",
         rec.client = "up" <=> session[k].client = "up"
  PROVE  /\ session' \in [Slot -> Session]
         /\ TableExact' /\ TableBounded'
<1>1. TypeOK
  BY DEF TableInv
<1>2. /\ session' \in [Slot -> Session]
      /\ Up(k, "in")' <=> rec.server = "up"
      /\ Up(k, "out")' <=> rec.client = "up"
      /\ \A l \in Slot, d \in {"in", "out"} : l # k => (Up(l, d)' <=> Up(l, d))
  BY <1>1, PutUp
<1>3. /\ Up(k, "in")' <=> Up(k, "in")
      /\ Up(k, "out")' <=> Up(k, "out")
  BY <1>2 DEF Up
<1>4. \A l \in Slot, d \in {"in", "out"} : Up(l, d)' <=> Up(l, d)
  BY <1>2, <1>3
<1> QED
  BY <1>2, <1>4, QuietStep

\* The server's end, and the client's, comes up and is registered.
LEMMA ServerUp ==
  ASSUME TableInv, NEW k \in Slot,
         MayRegister(Server(k), Client(k), "in"),
         Put(k, [session[k] EXCEPT !.server = "up"]),
         peers' = Registered(Server(k), Client(k), "in")
  PROVE  TableExact' /\ TableBounded' /\ session' \in [Slot -> Session]
<1> DEFINE rec == [session[k] EXCEPT !.server = "up"]
<1>1. TypeOK /\ session[k] \in Session
  BY DEF TableInv, TypeOK
<1>2. rec \in Session /\ rec.server = "up" /\ rec.client = session[k].client
  BY <1>1 DEF Session
<1>3. Put(k, rec)
  OBVIOUS
<1> HIDE DEF rec
<1>4. /\ session' \in [Slot -> Session]
      /\ Up(k, "in")' <=> rec.server = "up"
      /\ Up(k, "out")' <=> rec.client = "up"
      /\ \A l \in Slot, d \in {"in", "out"} : l # k => (Up(l, d)' <=> Up(l, d))
  BY <1>1, <1>2, <1>3, PutUp
<1>5. Up(k, "in")' /\ (Up(k, "out")' <=> Up(k, "out"))
  BY <1>2, <1>4 DEF Up
<1>6. \A l \in Slot, d \in {"in", "out"} :
        l # k \/ d # "in" => (Up(l, d)' <=> Up(l, d))
  BY <1>4, <1>5
<1>7. DialOf(k) = Ends(Server(k), Client(k), "in") /\ Server(k) \in Node /\ Client(k) \in Node
  BY SlotDial DEF Ends
<1> QED
  BY <1>4, <1>5, <1>6, <1>7, RegisterStep

\* The dialling end registers.
LEMMA ClientUp ==
  ASSUME TableInv, NEW k \in Slot,
         MayRegister(Client(k), Server(k), "out"),
         Put(k, [session[k] EXCEPT !.client = "up"]),
         peers' = Registered(Client(k), Server(k), "out")
  PROVE  TableExact' /\ TableBounded' /\ session' \in [Slot -> Session]
<1> DEFINE rec == [session[k] EXCEPT !.client = "up"]
<1>1. TypeOK /\ session[k] \in Session
  BY DEF TableInv, TypeOK
<1>2. rec \in Session /\ rec.client = "up" /\ rec.server = session[k].server
  BY <1>1 DEF Session
<1>3. Put(k, rec)
  OBVIOUS
<1> HIDE DEF rec
<1>4. /\ session' \in [Slot -> Session]
      /\ Up(k, "in")' <=> rec.server = "up"
      /\ Up(k, "out")' <=> rec.client = "up"
      /\ \A l \in Slot, d \in {"in", "out"} : l # k => (Up(l, d)' <=> Up(l, d))
  BY <1>1, <1>2, <1>3, PutUp
<1>5. Up(k, "out")' /\ (Up(k, "in")' <=> Up(k, "in"))
  BY <1>2, <1>4 DEF Up
<1>6. \A l \in Slot, d \in {"in", "out"} :
        l # k \/ d # "out" => (Up(l, d)' <=> Up(l, d))
  BY <1>4, <1>5
<1>7. DialOf(k) = Ends(Client(k), Server(k), "out") /\ Server(k) \in Node /\ Client(k) \in Node
  BY SlotDial DEF Ends
<1> QED
  BY <1>4, <1>5, <1>6, <1>7, RegisterStep

\* Either end closes; an end that was up takes its entry with it.
LEMMA ServerCloses ==
  ASSUME TableInv, NEW k \in Slot,
         Put(k, [session[k] EXCEPT !.server = "closed"]),
         peers' = IF session[k].server = "up"
                  THEN Disconnected(Server(k), Client(k)) ELSE peers
  PROVE  TableExact' /\ TableBounded' /\ session' \in [Slot -> Session]
<1> DEFINE rec == [session[k] EXCEPT !.server = "closed"]
<1>1. TypeOK /\ session[k] \in Session
  BY DEF TableInv, TypeOK
<1>2. rec \in Session /\ rec.server = "closed" /\ rec.client = session[k].client
  BY <1>1 DEF Session
<1>3. Put(k, rec)
  OBVIOUS
<1> HIDE DEF rec
<1>4. /\ session' \in [Slot -> Session]
      /\ Up(k, "in")' <=> rec.server = "up"
      /\ Up(k, "out")' <=> rec.client = "up"
      /\ \A l \in Slot, d \in {"in", "out"} : l # k => (Up(l, d)' <=> Up(l, d))
  BY <1>1, <1>2, <1>3, PutUp
<1>5. CASE session[k].server = "up"
  <2>1. Up(k, "in") /\ ~Up(k, "in")' /\ (Up(k, "out")' <=> Up(k, "out"))
    BY <1>2, <1>4, <1>5 DEF Up
  <2>2. \A l \in Slot, d \in {"in", "out"} :
          l # k \/ d # "in" => (Up(l, d)' <=> Up(l, d))
    BY <1>4, <2>1
  <2>3. DialOf(k) = Ends(Server(k), Client(k), "in") /\ Server(k) \in Node /\ Client(k) \in Node
    BY SlotDial DEF Ends
  <2>4. peers' = Disconnected(Server(k), Client(k))
    BY <1>5
  <2> QED
    BY <1>4, <2>1, <2>2, <2>3, <2>4, DisconnectStep
<1>6. CASE session[k].server # "up"
  BY <1>2, <1>3, <1>6, QuietPut
<1> QED
  BY <1>5, <1>6

\* The dialling end closes, registered or not.
LEMMA ClientCloses ==
  ASSUME TableInv, NEW k \in Slot,
         Put(k, [session[k] EXCEPT !.client = "closed"]),
         peers' = IF session[k].client = "up"
                  THEN Disconnected(Client(k), Server(k)) ELSE peers
  PROVE  TableExact' /\ TableBounded' /\ session' \in [Slot -> Session]
<1> DEFINE rec == [session[k] EXCEPT !.client = "closed"]
<1>1. TypeOK /\ session[k] \in Session
  BY DEF TableInv, TypeOK
<1>2. rec \in Session /\ rec.client = "closed" /\ rec.server = session[k].server
  BY <1>1 DEF Session
<1>3. Put(k, rec)
  OBVIOUS
<1> HIDE DEF rec
<1>4. /\ session' \in [Slot -> Session]
      /\ Up(k, "in")' <=> rec.server = "up"
      /\ Up(k, "out")' <=> rec.client = "up"
      /\ \A l \in Slot, d \in {"in", "out"} : l # k => (Up(l, d)' <=> Up(l, d))
  BY <1>1, <1>2, <1>3, PutUp
<1>5. CASE session[k].client = "up"
  <2>1. Up(k, "out") /\ ~Up(k, "out")' /\ (Up(k, "in")' <=> Up(k, "in"))
    BY <1>2, <1>4, <1>5 DEF Up
  <2>2. \A l \in Slot, d \in {"in", "out"} :
          l # k \/ d # "out" => (Up(l, d)' <=> Up(l, d))
    BY <1>4, <2>1
  <2>3. DialOf(k) = Ends(Client(k), Server(k), "out") /\ Server(k) \in Node /\ Client(k) \in Node
    BY SlotDial DEF Ends
  <2>4. peers' = Disconnected(Client(k), Server(k))
    BY <1>5
  <2> QED
    BY <1>4, <2>1, <2>2, <2>3, <2>4, DisconnectStep
<1>6. CASE session[k].client # "up"
  BY <1>2, <1>3, <1>6, QuietPut
<1> QED
  BY <1>5, <1>6

-----------------------------------------------------------------------------
(* Every step preserves the invariant.                                     *)

\* What is left of the types when connections and table are known.
LEMMA TypesOfStep ==
  ASSUME TypeOK, session' \in [Slot -> Session], TableExact', TableBounded',
         peers' \in [Node -> [Node -> {"none", "in", "out"}]],
         manager' \in [Dial -> {"ready", "running", "asleep"}],
         UNCHANGED enabled, failures' \in 0..MaxFailures, UNCHANGED switches,
         late' \subseteq late
  PROVE  TableInv'
BY DEF TypeOK, TableInv

\* A manager dials.
LEMMA ConnectSound == ASSUME TableInv, NEW d \in Dial, Connect(d) PROVE TableInv'
<1>0. TypeOK
  BY DEF TableInv
<1>1. manager' \in [Dial -> {"ready", "running", "asleep"}]
  BY <1>0 DEF Connect, TypeOK
<1>2. session' \in [Slot -> Session] /\ TableExact' /\ TableBounded'
  <2>1. CASE enabled[d[2]]
    <3> DEFINE unused == {k \in Slot : DialOf(k) = d /\ ~Open(k)}
               chosen == CHOOSE k \in unused : TRUE
    <3>1. unused # {} /\ session' = [session EXCEPT ![chosen] = Fresh] /\ UNCHANGED peers
      BY <2>1 DEF Connect
    <3>2. PICK k \in unused : k = chosen
      BY <3>1
    <3>3. k \in Slot /\ session[k] = Free
      BY DEF Open
    <3> HIDE DEF chosen, unused
    <3>4. session' = [session EXCEPT ![k] = Fresh]
      BY <3>1, <3>2
    <3>5. Fresh \in Session
      BY DEF Fresh, Session
    <3>6. session' \in [Slot -> Session]
      BY <1>0, <3>4, <3>5 DEF TypeOK
    <3>7. /\ session'[k] = Fresh
          /\ \A l \in Slot : l # k => session'[l] = session[l]
      BY <1>0, <3>3, <3>4 DEF TypeOK
    <3>8. \A l \in Slot, dir \in {"in", "out"} : Up(l, dir)' <=> Up(l, dir)
      BY <3>3, <3>7 DEF Up, Free, Fresh
    <3> QED
      BY <3>1, <3>6, <3>8, QuietStep
  <2>2. CASE ~enabled[d[2]]
    <3>1. UNCHANGED <<session, peers>>
      BY <2>2 DEF Connect
    <3>2. \A l \in Slot, dir \in {"in", "out"} : Up(l, dir)' <=> Up(l, dir)
      BY <3>1 DEF Up
    <3> QED
      BY <1>0, <3>1, <3>2, QuietStep DEF TypeOK
  <2> QED
    BY <2>1, <2>2
<1> QED
  BY <1>0, <1>1, <1>2, TypesOfStep DEF Connect, TypeOK

\* Steps that leave the connections and the table alone.
LEMMA IdleSound ==
  ASSUME TableInv, UNCHANGED <<session, peers>>, TypeOK'
  PROVE  TableInv'
<1>1. \A l \in Slot, dir \in {"in", "out"} : Up(l, dir)' <=> Up(l, dir)
  BY DEF Up
<1> QED
  BY <1>1, QuietStep DEF TableInv

\* A manager ends its back-off.
LEMMA WakeSound == ASSUME TableInv, NEW d \in Dial, Wake(d) PROVE TableInv'
<1>1. TypeOK'
  BY DEF TableInv, TypeOK, Wake
<1> QED
  BY <1>1, IdleSound DEF Wake

\* Serving is switched on or off.
LEMMA SetEnabledSound == ASSUME TableInv, NEW n \in Node, SetEnabled(n) PROVE TableInv'
<1>1. TypeOK
  BY DEF TableInv
<1>2. switches' \in 0..MaxSwitches
  BY <1>1 DEF TypeOK, SetEnabled
<1>3. enabled' \in [Node -> BOOLEAN]
  BY <1>1 DEF TypeOK, SetEnabled
<1>4. TypeOK'
  BY <1>1, <1>2, <1>3 DEF TypeOK, SetEnabled
<1> QED
  BY <1>4, IdleSound DEF SetEnabled

\* The challenge arrives at the dialling end, which answers.
LEMMA AnswerSound == ASSUME TableInv, NEW k \in Slot, Answer(k) PROVE TableInv'
<1> DEFINE rec == [session[k] EXCEPT !.client = "answered", !.answer = TRUE]
<1>1. TypeOK /\ session[k] \in Session
  BY DEF TableInv, TypeOK
<1>2. /\ rec \in Session /\ rec.server = session[k].server
      /\ rec.client # "up" /\ session[k].client # "up"
  BY <1>1 DEF Session, Answer
<1>3. Put(k, rec) /\ UNCHANGED peers
  BY DEF Answer
<1> HIDE DEF rec
<1>4. session' \in [Slot -> Session] /\ TableExact' /\ TableBounded'
  BY <1>2, <1>3, QuietPut
<1> QED
  BY <1>1, <1>4, TypesOfStep DEF Answer, TypeOK

\* The client's answer arrives and is acknowledged.
LEMMA AcknowledgeSound == ASSUME TableInv, NEW k \in Slot, Acknowledge(k) PROVE TableInv'
<1> DEFINE rec == [session[k] EXCEPT !.server = "acked", !.ack = TRUE]
<1>1. TypeOK /\ session[k] \in Session
  BY DEF TableInv, TypeOK
<1>2. /\ rec \in Session /\ rec.client = session[k].client
      /\ rec.server # "up" /\ session[k].server # "up"
  BY <1>1 DEF Session, Acknowledge
<1>3. Put(k, rec) /\ UNCHANGED peers
  BY DEF Acknowledge
<1> HIDE DEF rec
<1>4. session' \in [Slot -> Session] /\ TableExact' /\ TableBounded'
  BY <1>2, <1>3, QuietPut
<1> QED
  BY <1>1, <1>4, TypesOfStep DEF Acknowledge, TypeOK

\* CloseClient, of a connection that is up or not.
LEMMA CloseClientSound ==
  ASSUME TableInv, NEW k \in Slot, NEW table, CloseClient(k, table),
         table = IF session[k].client = "up"
                 THEN Disconnected(Client(k), Server(k)) ELSE peers,
         UNCHANGED enabled, failures' \in 0..MaxFailures, UNCHANGED switches
  PROVE  TableInv'
<1>0. late' \subseteq late
  BY DEF CloseClient
<1>1. TypeOK /\ DialOf(k) \in Dial /\ Client(k) \in Node /\ Server(k) \in Node
  BY SlotDial DEF TableInv
<1>2. TableExact' /\ TableBounded' /\ session' \in [Slot -> Session]
  BY ClientCloses DEF CloseClient
<1>3. manager' \in [Dial -> {"ready", "running", "asleep"}]
  BY <1>1 DEF CloseClient, TypeOK
<1>4. peers' \in [Node -> [Node -> {"none", "in", "out"}]]
  <2>1. CASE session[k].client = "up"
    BY <1>1, <2>1, TableTypes DEF CloseClient
  <2>2. CASE session[k].client # "up"
    BY <1>1, <2>2 DEF CloseClient, TypeOK
  <2> QED
    BY <2>1, <2>2
<1> QED
  BY <1>0, <1>1, <1>2, <1>3, <1>4, TypesOfStep

\* The dialling end registers, or is refused.
LEMMA ClientRegisterSound == ASSUME TableInv, NEW k \in Slot, ClientRegister(k) PROVE TableInv'
<1>1. TypeOK /\ Client(k) \in Node /\ Server(k) \in Node
  BY SlotDial DEF TableInv
<1>2. CASE MayRegister(Client(k), Server(k), "out")
  <2>1. /\ Put(k, [session[k] EXCEPT !.client = "up"])
        /\ peers' = Registered(Client(k), Server(k), "out")
        /\ UNCHANGED <<manager, late, enabled, failures, switches>>
    BY <1>2 DEF ClientRegister
  <2>2. TableExact' /\ TableBounded' /\ session' \in [Slot -> Session]
    BY <1>2, <2>1, ClientUp
  <2>3. peers' \in [Node -> [Node -> {"none", "in", "out"}]]
    BY <1>1, <2>1, TableTypes
  <2> QED
    BY <1>1, <2>1, <2>2, <2>3, TypesOfStep DEF TypeOK
<1>3. CASE ~MayRegister(Client(k), Server(k), "out")
  <2>1. CloseClient(k, peers) /\ UNCHANGED <<enabled, failures, switches>>
    BY <1>3 DEF ClientRegister
  <2>2. session[k].client # "up"
    BY DEF ClientRegister
  <2> QED
    BY <1>1, <2>1, <2>2, CloseClientSound DEF TypeOK
<1> QED
  BY <1>2, <1>3

\* The dialling end gives up before it is registered.
LEMMA ClientAbandonsSound == ASSUME TableInv, NEW k \in Slot, ClientAbandons(k) PROVE TableInv'
<1>1. /\ CloseClient(k, peers) /\ session[k].client # "up"
      /\ UNCHANGED <<enabled, failures, switches>>
  BY DEF ClientAbandons
<1> QED
  BY <1>1, CloseClientSound DEF TableInv, TypeOK

\* A registered connection ends at the dialling end.
LEMMA ClientEndsSound == ASSUME TableInv, NEW k \in Slot, ClientEnds(k) PROVE TableInv'
<1>1. /\ CloseClient(k, Disconnected(Client(k), Server(k))) /\ session[k].client = "up"
      /\ UNCHANGED <<enabled, failures, switches>>
  BY DEF ClientEnds
<1> QED
  BY <1>1, CloseClientSound DEF TableInv, TypeOK

\* The dialling end breaks.
LEMMA ClientFailsSound == ASSUME TableInv, NEW k \in Slot, ClientFails(k) PROVE TableInv'
<1> DEFINE table == IF session[k].client = "up"
                    THEN Disconnected(Client(k), Server(k)) ELSE peers
<1>1. CloseClient(k, table) /\ UNCHANGED <<enabled, switches>>
  BY DEF ClientFails
<1>2. failures' \in 0..MaxFailures
  BY DEF ClientFails, TableInv, TypeOK
<1> QED
  BY <1>1, <1>2, CloseClientSound

\* The server's end closes.
LEMMA CloseServerSound ==
  ASSUME TableInv, NEW k \in Slot,
         Put(k, [session[k] EXCEPT !.server = "closed"]),
         peers' = IF session[k].server = "up"
                  THEN Disconnected(Server(k), Client(k)) ELSE peers,
         UNCHANGED <<enabled, manager, switches>>, failures' \in 0..MaxFailures,
         late' \subseteq late
  PROVE  TableInv'
<1>1. TypeOK /\ Client(k) \in Node /\ Server(k) \in Node
  BY SlotDial DEF TableInv
<1>2. TableExact' /\ TableBounded' /\ session' \in [Slot -> Session]
  BY ServerCloses
<1>3. peers' \in [Node -> [Node -> {"none", "in", "out"}]]
  <2>1. CASE session[k].server = "up"
    BY <1>1, <2>1, TableTypes
  <2>2. CASE session[k].server # "up"
    BY <1>1, <2>2 DEF TypeOK
  <2> QED
    BY <2>1, <2>2
<1> QED
  BY <1>1, <1>2, <1>3, TypesOfStep DEF TypeOK

\* The serving end registers, or is refused.
LEMMA ServerRegisterSound == ASSUME TableInv, NEW k \in Slot, ServerRegister(k) PROVE TableInv'
<1>1. TypeOK /\ Client(k) \in Node /\ Server(k) \in Node
  BY SlotDial DEF TableInv
<1>2. CASE MayRegister(Server(k), Client(k), "in")
  <2>1. /\ Put(k, [session[k] EXCEPT !.server = "up"])
        /\ peers' = Registered(Server(k), Client(k), "in")
        /\ UNCHANGED <<manager, late, enabled, failures, switches>>
    BY <1>2 DEF ServerRegister
  <2>2. TableExact' /\ TableBounded' /\ session' \in [Slot -> Session]
    BY <1>2, <2>1, ServerUp
  <2>3. peers' \in [Node -> [Node -> {"none", "in", "out"}]]
    BY <1>1, <2>1, TableTypes
  <2> QED
    BY <1>1, <2>1, <2>2, <2>3, TypesOfStep DEF TypeOK
<1>3. CASE ~MayRegister(Server(k), Client(k), "in")
  <2>1. /\ Put(k, [session[k] EXCEPT !.server = "closed"])
        /\ UNCHANGED <<peers, manager, late, enabled, failures, switches>>
    BY <1>3 DEF ServerRegister
  <2>2. session[k].server # "up"
    BY DEF ServerRegister
  <2> QED
    BY <1>1, <2>1, <2>2, CloseServerSound DEF TypeOK
<1> QED
  BY <1>2, <1>3

\* The serving end gives up before it is registered.
LEMMA ServerAbandonsSound == ASSUME TableInv, NEW k \in Slot, ServerAbandons(k) PROVE TableInv'
<1>1. /\ Put(k, [session[k] EXCEPT !.server = "closed"]) /\ session[k].server # "up"
      /\ UNCHANGED <<peers, manager, late, enabled, failures, switches>>
  BY DEF ServerAbandons
<1> QED
  BY <1>1, CloseServerSound DEF TableInv, TypeOK

\* A registered connection ends at the serving end.
LEMMA ServerEndsSound == ASSUME TableInv, NEW k \in Slot, ServerEnds(k) PROVE TableInv'
<1>1. /\ Put(k, [session[k] EXCEPT !.server = "closed"]) /\ session[k].server = "up"
      /\ peers' = Disconnected(Server(k), Client(k)) /\ late' \subseteq late
      /\ UNCHANGED <<manager, enabled, failures, switches>>
  BY DEF ServerEnds, CloseServer
<1> QED
  BY <1>1, CloseServerSound DEF TableInv, TypeOK

\* The serving end breaks.
LEMMA ServerFailsSound == ASSUME TableInv, NEW k \in Slot, ServerFails(k) PROVE TableInv'
<1>1. failures' \in 0..MaxFailures
  BY DEF ServerFails, TableInv, TypeOK
<1> QED
  BY <1>1, CloseServerSound DEF ServerFails, CloseServer

\* The sleep of an end ends: it sleeps again, or leaves.
LEMMA WakesSound ==
  ASSUME TableInv, NEW k \in Slot, ClientWakes(k) \/ ServerWakes(k)
  PROVE  TableInv'
<1>1. CASE UNCHANGED <<session, manager, peers>> /\ late' \subseteq late
  <2>1. UNCHANGED <<enabled, failures, switches>>
    BY DEF ClientWakes, ServerWakes
  <2>2. TypeOK'
    BY <1>1, <2>1 DEF TableInv, TypeOK
  <2> QED
    BY <1>1, <2>2, IdleSound
<1>2. CASE ClientWakes(k) /\ CloseClient(k, Disconnected(Client(k), Server(k)))
  <2>1. session[k].client = "up" /\ UNCHANGED <<enabled, failures, switches>>
    BY <1>2 DEF ClientWakes
  <2> QED
    BY <1>2, <2>1, CloseClientSound DEF TableInv, TypeOK
<1>3. CASE ServerWakes(k) /\ CloseServer(k, Disconnected(Server(k), Client(k)))
  <2>1. session[k].server = "up" /\ UNCHANGED <<enabled, failures, switches>>
    BY <1>3 DEF ServerWakes
  <2> QED
    BY <1>3, <2>1, CloseServerSound DEF CloseServer, TableInv, TypeOK
<1> QED
  BY <1>1, <1>2, <1>3 DEF ClientWakes, ServerWakes

\* The second of an end runs out, or starts again.
LEMMA TimerSound ==
  ASSUME TableInv, NEW k \in Slot, NEW dir \in {"in", "out"},
         RunsOut(k, dir) \/ Message(k, dir)
  PROVE  TableInv'
<1>1. late' \subseteq Slot \X {"in", "out"}
  BY DEF RunsOut, Message, TableInv, TypeOK
<1>2. TypeOK'
  BY <1>1 DEF RunsOut, Message, TableInv, TypeOK
<1> QED
  BY <1>2, IdleSound DEF RunsOut, Message

\* Nothing happens.
LEMMA StutterSound == ASSUME TableInv, UNCHANGED vars PROVE TableInv'
<1>1. TypeOK'
  BY DEF TableInv, TypeOK, vars
<1> QED
  BY <1>1, IdleSound DEF vars

-----------------------------------------------------------------------------
(* The theorems.                                                           *)

\* Nobody is connected, and the tables are empty.
LEMMA InitSound == Init => TableInv
<1> SUFFICES ASSUME Init PROVE TableInv
  OBVIOUS
<1>1. TypeOK
  BY DEF Init, TypeOK, Free, Session
<1>2. \A n, p \in Node, dir \in {"in", "out"} : Entry(n, p, dir) = {}
  BY DEF Init, Free, Entry, Serving, Reaching
<1>3. \A n, p \in Node : peers[n][p] = "none"
  BY DEF Init
<1>4. TableExact
  BY <1>2, <1>3 DEF TableExact
<1>5. ASSUME NEW n \in Node
      PROVE  Count(n, "in") <= MaxIn /\ Count(n, "out") <= MaxOut
  <2>1. {p \in Node : peers[n][p] = "in"} = {} /\ {p \in Node : peers[n][p] = "out"} = {}
    BY <1>3
  <2>2. Count(n, "in") = 0 /\ Count(n, "out") = 0
    BY <2>1, FS_EmptySet DEF Count
  <2> QED
    BY <2>2
<1>6. TableBounded
  BY <1>5 DEF TableBounded
<1> QED
  BY <1>1, <1>4, <1>6 DEF TableInv

\* Every step of the managers and of both ends.
LEMMA NextSound == TableInv /\ [Next]_vars => TableInv'
<1> SUFFICES ASSUME TableInv, [Next]_vars PROVE TableInv'
  OBVIOUS
<1>1. CASE \E d \in Dial : Connect(d) \/ Wake(d)
  BY <1>1, ConnectSound, WakeSound
<1>2. CASE \E k \in Slot : ClientStep(k)
  BY <1>2, AnswerSound, ClientRegisterSound, ClientAbandonsSound, ClientEndsSound DEF ClientStep
<1>3. CASE \E k \in Slot : ServerStep(k)
  BY <1>3, AcknowledgeSound, ServerRegisterSound, ServerAbandonsSound, ServerEndsSound
     DEF ServerStep
<1>4. CASE \E k \in Slot : ClientFails(k) \/ ServerFails(k)
  BY <1>4, ClientFailsSound, ServerFailsSound
<1>5. CASE \E n \in Node : SetEnabled(n)
  BY <1>5, SetEnabledSound
<1>6. CASE UNCHANGED vars
  BY <1>6, StutterSound
<1>7. CASE \E k \in Slot : ClientWakes(k) \/ ServerWakes(k)
  BY <1>7, WakesSound
<1>8. CASE \E k \in Slot, dir \in {"in", "out"} : RunsOut(k, dir) \/ Message(k, dir)
  BY <1>8, TimerSound
<1> QED
  BY <1>1, <1>2, <1>3, <1>4, <1>5, <1>6, <1>7, <1>8 DEF Next

\* The invariant of the tables.
LEMMA TableInvAlways == Spec => []TableInv
BY InitSound, NextSound, PTL DEF Spec

\* Entries that stand for one end each make the numbers agree.
LEMMA ExactMeansMatches == TableInv => TableMatchesSessions
<1> SUFFICES ASSUME TableInv, NEW n \in Node, NEW p \in Node
             PROVE  /\ Cardinality(Serving(n, p)) = IF peers[n][p] = "in" THEN 1 ELSE 0
                    /\ Cardinality(Reaching(n, p)) = IF peers[n][p] = "out" THEN 1 ELSE 0
                    /\ Count(n, "in") <= MaxIn /\ Count(n, "out") <= MaxOut
  BY DEF TableMatchesSessions
<1>1. ASSUME NEW dir \in {"in", "out"}
      PROVE  Cardinality(Entry(n, p, dir)) = IF peers[n][p] = dir THEN 1 ELSE 0
  <2>1. /\ peers[n][p] = dir <=> Entry(n, p, dir) # {}
        /\ \A k, l \in Entry(n, p, dir) : k = l
    BY DEF TableInv, TableExact
  <2>2. CASE Entry(n, p, dir) = {}
    BY <2>1, <2>2, FS_EmptySet
  <2>3. CASE Entry(n, p, dir) # {}
    <3>1. PICK k : k \in Entry(n, p, dir)
      BY <2>3
    <3>2. Entry(n, p, dir) = {k}
      BY <2>1, <3>1
    <3>3. Cardinality({k}) = 1
      BY FS_Singleton
    <3> QED
      BY <2>1, <2>3, <3>2, <3>3
  <2> QED
    BY <2>2, <2>3
<1>2. Entry(n, p, "in") = Serving(n, p) /\ Entry(n, p, "out") = Reaching(n, p)
  BY DEF Entry
<1>3. Count(n, "in") <= MaxIn /\ Count(n, "out") <= MaxOut
  BY DEF TableInv, TableBounded
<1> QED
  BY <1>1, <1>2, <1>3

\* Types of the table, the dial loops and the connections.
THEOREM TypeCorrect == Spec => []TypeOK
BY TableInvAlways, PTL DEF TableInv

\* peer_connected and peer_disconnected keep the table exact although the tasks
\* that call them never look at each other: one entry for each open connection,
\* none without, and never more than max_inbound_peers or max_outbound_peers.
THEOREM TableIsExact == Spec => []TableMatchesSessions
BY TableInvAlways, ExactMeansMatches, PTL
=============================================================================
