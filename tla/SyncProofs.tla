----------------------------- MODULE SyncProofs -----------------------------
(***************************************************************************)
(* Proofs about Sync for every graph of nodes and every tree of blocks:    *)
(* types, complete branches and served queues, from the inductive          *)
(* invariant SyncInv. Chains, locators and queues are data of any size;    *)
(* what the proofs need of them is by induction, each time with the least  *)
(* number that would be an exception (LeastNumber).                        *)
(*                                                                         *)
(* From there on: where one node has the preferred chain to start with and *)
(* every connection, an undisturbed synchronization ends on that chain. A  *)
(* second invariant, Converging, says that each other node then either     *)
(* stores its last block or has exactly one message on its way that brings *)
(* it closer.                                                              *)
(***************************************************************************)
EXTENDS Sync, WellFoundedInduction, TLAPS

-----------------------------------------------------------------------------
(* Chains, headers and queues.                                             *)

\* A set of numbers that is not empty has a least one.
LEMMA LeastNumber ==
  ASSUME NEW T \in SUBSET Nat, T # {}
  PROVE  \E k \in T : \A j \in T : k <= j
  <1>1. IsWellFoundedOn(OpToRel(<, Nat), Nat)
    BY NatLessThanWellFounded, Zenon
  <1>2. PICK k \in T : \A j \in T : ~(<<j, k>> \in OpToRel(<, Nat))
    BY <1>1, WFMin, Zenon
  <1>3. \A j \in T : ~(j < k)
    BY <1>2 DEF OpToRel
  <1> QED BY <1>3

\* The chain of a block has the chains of all its blocks, the genesis block,
\* and a block at every height up to its own.
Proper(b) ==
  /\ b \in Anc[b] /\ Genesis \in Anc[b] /\ Anc[b] \subseteq Block
  /\ \A c \in Anc[b] : Anc[c] \subseteq Anc[b] /\ Height[c] <= Height[b]
  /\ \A h \in 0..Height[b] : \E c \in Anc[b] : Height[c] = h

\* Chain::from_blocks links every block to its parent: by induction on the
\* height, all chains are proper.
LEMMA ChainsProper == \A b \in Block : Proper(b)
  <1> DEFINE Bad == {h \in Nat : \E b \in Block : Height[b] = h /\ ~Proper(b)}
  <1>1. SUFFICES Bad = {}
    BY HeightAssumption
  <1>2. SUFFICES ASSUME Bad # {} PROVE FALSE
    OBVIOUS
  <1>3. PICK h \in Bad : \A j \in Bad : h <= j
    <2>1. Bad \in SUBSET Nat
      OBVIOUS
    <2> QED BY <1>2, <2>1, LeastNumber
  <1>4. PICK b \in Block : Height[b] = h /\ ~Proper(b)
    BY <1>3
  <1>5. CASE b = Genesis
    <2>1. Anc[b] = {b} /\ Height[b] = 0 /\ Genesis \in Block
      BY <1>5, TreeAssumption, HeightAssumption
    <2> QED BY <1>4, <1>5, <2>1 DEF Proper
  <1>6. CASE b # Genesis
    <2> DEFINE p == Parent[b]
    <2>1. p \in Block /\ Anc[b] = Anc[p] \cup {b}
      BY <1>6, TreeAssumption
    <2>2. Height[b] = Height[p] + 1 /\ Height[p] \in Nat
      BY <1>6, <2>1, HeightAssumption
    <2>3. Proper(p)
      BY <1>3, <1>4, <2>1, <2>2
    <2> HIDE DEF p, Bad
    <2>4. \A c \in Anc[p] : Height[c] \in Nat
      BY <2>3, HeightAssumption DEF Proper
    <2>5. /\ b \in Anc[b] /\ Genesis \in Anc[b] /\ Anc[b] \subseteq Block
          /\ \A c \in Anc[b] : Anc[c] \subseteq Anc[b]
      BY <2>1, <2>3 DEF Proper
    <2>6. \A c \in Anc[b] : Height[c] <= Height[b]
      BY <2>1, <2>2, <2>3, <2>4 DEF Proper
    <2>7. \A k \in 0..Height[b] : \E c \in Anc[b] : Height[c] = k
      BY <2>1, <2>2, <2>3 DEF Proper
    <2> QED BY <1>4, <2>5, <2>6, <2>7 DEF Proper
  <1> QED BY <1>5, <1>6

\* The filter goes through the headers one by one.
LEMMA UnknownSteps ==
  ASSUME NEW S, NEW ids \in Seq(S), NEW have
  PROVE  \E f : /\ f[0] = <<>> /\ Unknown(ids, have) = f[Len(ids)]
                /\ \A k \in 1..Len(ids) :
                     f[k] = IF ids[k] \in have THEN f[k - 1]
                            ELSE Append(f[k - 1], ids[k])
  <1> DEFINE Next1(v, i) == IF ids[i] \in have THEN v ELSE Append(v, ids[i])
             Fits(g, k) ==
               g = [i \in 0..k |-> IF i = 0 THEN <<>>
                                   ELSE IF ids[i] \in have THEN g[i - 1]
                                   ELSE Append(g[i - 1], ids[i])]
             pick == CHOOSE g : Fits(g, Len(ids))
  <1>1. \A k \in Nat : \E g : Fits(g, k)
    <2> DEFINE Bad == {k \in Nat : ~\E g : Fits(g, k)}
    <2>1. SUFFICES ASSUME Bad # {} PROVE FALSE
      OBVIOUS
    <2>2. PICK k \in Bad : \A j \in Bad : k <= j
      <3>1. Bad \in SUBSET Nat
        OBVIOUS
      <3> HIDE DEF Bad
      <3> QED BY <2>1, <3>1, LeastNumber
    <2>3. CASE k = 0
      <3>1. Fits([i \in 0..0 |-> <<>>], 0)
        OBVIOUS
      <3> QED BY <2>2, <2>3, <3>1
    <2>4. CASE k # 0
      <3>1. k \in Nat /\ k - 1 \in Nat /\ ~(k <= k - 1)
        BY <2>2, <2>4
      <3>2. PICK g : Fits(g, k - 1)
        BY <2>2, <3>1
      <3> DEFINE h == [i \in 0..k |-> IF i <= k - 1 THEN g[i]
                                      ELSE Next1(g[k - 1], k)]
      <3>3. \A i \in 0..k : h[i] = IF i = 0 THEN <<>> ELSE Next1(h[i - 1], i)
        <4> SUFFICES ASSUME NEW i \in 0..k
                     PROVE  h[i] = IF i = 0 THEN <<>> ELSE Next1(h[i - 1], i)
          OBVIOUS
        <4>1. CASE i = k
          <5>1. h[k] = Next1(g[k - 1], k) /\ h[k - 1] = g[k - 1]
            BY <3>1
          <5> QED BY <2>4, <4>1, <5>1
        <4>2. CASE i # k
          <5>1. i \in 0..(k - 1) /\ h[i] = g[i]
            BY <3>1, <4>2
          <5>2. g[i] = IF i = 0 THEN <<>> ELSE Next1(g[i - 1], i)
            BY <3>2, <5>1
          <5>3. i # 0 => h[i - 1] = g[i - 1]
            BY <3>1, <4>2
          <5> QED BY <5>1, <5>2, <5>3
        <4> QED BY <4>1, <4>2
      <3>4. Fits(h, k)
        <4>1. h = [i \in 0..k |-> h[i]]
          OBVIOUS
        <4> HIDE DEF h
        <4> QED BY <3>3, <4>1
      <3> QED BY <2>2, <3>4
    <2> QED BY <2>3, <2>4
  <1>n. Len(ids) \in Nat
    OBVIOUS
  <1>2. Fits(pick, Len(ids))
    <2>1. \E g : Fits(g, Len(ids))
      <3> HIDE DEF Fits
      <3> QED BY <1>1, <1>n
    <2> HIDE DEF Fits
    <2> QED BY <2>1
  <1>p. \A k \in 0..Len(ids) :
          pick[k] = IF k = 0 THEN <<>> ELSE Next1(pick[k - 1], k)
    <2> HIDE DEF pick
    <2> QED BY <1>2
  <1>3. Unknown(ids, have) = pick[Len(ids)]
    BY DEF Unknown, pick
  <1> HIDE DEF pick
  <1>4. pick[0] = <<>>
    BY <1>n, <1>p
  <1>5. ASSUME NEW k \in 1..Len(ids) PROVE pick[k] = Next1(pick[k - 1], k)
    <2>1. k \in 0..Len(ids) /\ k # 0
      BY <1>n
    <2> QED BY <1>p, <2>1
  <1> QED BY <1>3, <1>4, <1>5

\* handle_wire queues blocks the headers named, and only those.
LEMMA UnknownSound ==
  ASSUME NEW S, NEW ids \in Seq(S), NEW have
  PROVE  Unknown(ids, have) \in Seq({ids[i] : i \in DOMAIN ids})
  <1> DEFINE Named == {ids[i] : i \in DOMAIN ids}
             Next1(v, i) == IF ids[i] \in have THEN v ELSE Append(v, ids[i])
  <1>n. Len(ids) \in Nat /\ \A k \in 1..Len(ids) : ids[k] \in Named
    OBVIOUS
  <1>p. PICK pick : /\ pick[0] = <<>> /\ Unknown(ids, have) = pick[Len(ids)]
                    /\ \A k \in 1..Len(ids) : pick[k] = Next1(pick[k - 1], k)
    BY UnknownSteps
  <1> HIDE DEF Named
  <1>3. \A k \in 0..Len(ids) : pick[k] \in Seq(Named)
    <2> DEFINE Bad == {k \in Nat : k <= Len(ids) /\ pick[k] \notin Seq(Named)}
    <2>1. SUFFICES ASSUME Bad # {} PROVE FALSE
      BY <1>n
    <2>2. PICK k \in Bad : \A j \in Bad : k <= j
      <3>1. Bad \in SUBSET Nat
        OBVIOUS
      <3> HIDE DEF Bad
      <3> QED BY <2>1, <3>1, LeastNumber
    <2>3. k \in 0..Len(ids) /\ pick[k] \notin Seq(Named)
      BY <1>n, <2>2
    <2>4. k # 0
      <3>1. pick[0] = <<>>
        BY <1>p
      <3>2. <<>> \in Seq(Named)
        OBVIOUS
      <3> QED BY <2>3, <3>1, <3>2
    <2>5. k \in 1..Len(ids) /\ k - 1 \in Nat /\ k - 1 <= Len(ids)
          /\ ~(k <= k - 1)
      BY <1>n, <2>3, <2>4
    <2>6. k - 1 \notin Bad
      BY <2>2, <2>5
    <2>7. pick[k - 1] \in Seq(Named)
      BY <2>5, <2>6
    <2>8. Next1(pick[k - 1], k) \in Seq(Named)
      BY <1>n, <2>5, <2>7
    <2> QED BY <1>p, <2>3, <2>5, <2>8
  <1> QED BY <1>n, <1>p, <1>3 DEF Named

\* An answer to GetHeaders names blocks of the chain of the peer that sends it.
LEMMA HeadersSound ==
  ASSUME NEW t \in Block, NEW locator
  PROVE  HeadersAfter(t, locator) \in Seq(Anc[t])
  <1> DEFINE top == Height[t]
             start == FirstHeight(t, locator)
             last == IF start + MaxHeaders - 1 < top
                     THEN start + MaxHeaders - 1 ELSE top
             common == {Height[b] : b \in locator \cap Anc[t]}
  <1>1. Proper(t) /\ top \in Nat
    BY ChainsProper, HeightAssumption
  <1>2. common \subseteq 0..top
    BY <1>1, HeightAssumption DEF Proper
  <1>3. start \in Nat /\ start <= top + 1
    <2>1. CASE common = {}
      BY <1>1, <2>1 DEF FirstHeight
    <2>2. CASE common # {}
      <3> DEFINE low == {k \in 0..top : top - k \in common}
      <3> HIDE DEF common, top
      <3>1. low \in SUBSET Nat /\ low # {}
        <4>1. PICK h \in common : h \in 0..top
          BY <1>2, <2>2
        <4>2. top - h \in low
          BY <1>1, <4>1
        <4> QED BY <4>2
      <3>2. PICK k \in low : \A j \in low : k <= j
        <4> HIDE DEF low
        <4> QED BY <3>1, LeastNumber
      <3>3. top - k \in common /\ \A c \in common : c <= top - k
        <4>1. k \in 0..top /\ top - k \in common
          BY <3>2
        <4>2. ASSUME NEW c \in common PROVE c <= top - k
          <5>1. c \in 0..top
            BY <1>2
          <5>2. top - c \in low
            BY <1>1, <5>1
          <5>3. k <= top - c
            BY <3>2, <5>2
          <5> QED BY <1>1, <4>1, <5>1, <5>3
        <4> QED BY <4>1, <4>2
      <3> DEFINE high == CHOOSE h \in common : \A j \in common : j <= h
      <3>4. high \in common
        BY <3>3
      <3>5. start = 1 + high
        BY <2>2 DEF FirstHeight, common
      <3> HIDE DEF high
      <3> QED BY <1>1, <1>2, <3>4, <3>5
    <2> QED BY <2>1, <2>2
  <1>4. HeadersAfter(t, locator) =
          [i \in 1..(last - start + 1) |->
             CHOOSE b \in Anc[t] : Height[b] = start + i - 1]
    BY DEF HeadersAfter
  <1> HIDE DEF start, top, common
  <1>5. last - start + 1 \in Nat /\ last \in Nat /\ last <= top
    BY <1>1, <1>3, SyncAssumption
  <1> HIDE DEF last
  <1>6. ASSUME NEW i \in 1..(last - start + 1)
        PROVE  (CHOOSE b \in Anc[t] : Height[b] = start + i - 1) \in Anc[t]
    <2>1. start + i - 1 \in 0..top
      BY <1>1, <1>3, <1>5
    <2>2. \E b \in Anc[t] : Height[b] = start + i - 1
      BY <1>1, <2>1 DEF Proper, top
    <2> QED BY <2>2
  <1>7. HeadersAfter(t, locator) \in [1..(last - start + 1) -> Anc[t]]
    BY <1>4, <1>6, Zenon
  <1>8. \A n \in Nat : \A f : f \in [1..n -> Anc[t]] => f \in Seq(Anc[t])
    OBVIOUS
  <1> QED BY <1>5, <1>7, <1>8

-----------------------------------------------------------------------------
(* Messages on their way.                                                  *)

\* What an appended sequence holds.
LEMMA ContainsConcat ==
  ASSUME NEW S, NEW s \in Seq(S), NEW r \in Seq(S), NEW x
  PROVE  Contains(s \o r, x) <=> Contains(s, x) \/ Contains(r, x)
  <1>1. /\ Len(s) \in Nat /\ Len(r) \in Nat /\ Len(s \o r) = Len(s) + Len(r)
        /\ \A i \in 1..Len(s) : (s \o r)[i] = s[i]
        /\ \A i \in 1..Len(r) : (s \o r)[Len(s) + i] = r[i]
    OBVIOUS
  <1>2. ASSUME Contains(s \o r, x) PROVE Contains(s, x) \/ Contains(r, x)
    <2>1. PICK i \in 1..(Len(s) + Len(r)) : (s \o r)[i] = x
      BY <1>1, <1>2 DEF Contains
    <2>2. CASE i <= Len(s)
      BY <1>1, <2>1, <2>2 DEF Contains
    <2>3. CASE ~(i <= Len(s))
      <3>1. i - Len(s) \in 1..Len(r) /\ Len(s) + (i - Len(s)) = i
        BY <1>1, <2>1, <2>3
      <3>2. r[i - Len(s)] = x
        BY <1>1, <2>1, <3>1
      <3> QED BY <3>1, <3>2 DEF Contains
    <2> QED BY <2>2, <2>3
  <1>3. ASSUME Contains(s, x) PROVE Contains(s \o r, x)
    BY <1>1, <1>3 DEF Contains
  <1>4. ASSUME Contains(r, x) PROVE Contains(s \o r, x)
    <2>1. PICK i \in 1..Len(r) : r[i] = x
      BY <1>4 DEF Contains
    <2>2. Len(s) + i \in 1..Len(s \o r) /\ (s \o r)[Len(s) + i] = x
      BY <1>1, <2>1
    <2> QED BY <2>2 DEF Contains
  <1> QED BY <1>2, <1>3, <1>4

\* What a sequence holds without its head.
LEMMA ContainsTail ==
  ASSUME NEW S, NEW s \in Seq(S), s # <<>>, NEW x
  PROVE  Contains(s, x) <=> x = Head(s) \/ Contains(Tail(s), x)
  <1>1. /\ Len(s) \in Nat \ {0} /\ Len(Tail(s)) = Len(s) - 1 /\ Head(s) = s[1]
        /\ \A i \in 1..(Len(s) - 1) : Tail(s)[i] = s[i + 1]
    OBVIOUS
  <1>2. ASSUME Contains(s, x) PROVE x = Head(s) \/ Contains(Tail(s), x)
    <2>1. PICK i \in 1..Len(s) : s[i] = x
      BY <1>2 DEF Contains
    <2>2. i # 1 => i - 1 \in 1..(Len(s) - 1) /\ (i - 1) + 1 = i
      BY <1>1, <2>1
    <2> QED BY <1>1, <2>1, <2>2 DEF Contains
  <1>3. ASSUME Contains(Tail(s), x) PROVE Contains(s, x)
    <2>1. PICK i \in 1..(Len(s) - 1) : Tail(s)[i] = x
      BY <1>1, <1>3 DEF Contains
    <2>2. i + 1 \in 1..Len(s) /\ s[i + 1] = x
      BY <1>1, <2>1
    <2> QED BY <2>2 DEF Contains
  <1>4. Contains(s, Head(s))
    BY <1>1 DEF Contains
  <1> QED BY <1>2, <1>3, <1>4

\* A connection has two ends, each of which is linked to the other.
LEMMA TwoEnds ==
  ASSUME NEW e \in Linked
  PROVE  /\ e = <<e[1], e[2]>> /\ e[1] \in Node /\ e[2] \in Node
         /\ <<e[2], e[1]>> \in Linked /\ e # <<e[2], e[1]>>
  <1>1. e \in Node \X Node /\ (e \in Dial \/ <<e[2], e[1]>> \in Dial)
    BY DEF Linked, Pair
  <1>2. <<e[2], e[1]>> \in Linked
    BY <1>1 DEF Linked, Pair
  <1>3. e # <<e[2], e[1]>>
    BY <1>1, SyncAssumption
  <1> QED BY <1>1, <1>2, <1>3

\* A message is consumed and a reply sent: nothing else leaves the
\* connections and nothing else enters them.
LEMMA AnswerSound ==
  ASSUME chan \in [Linked -> Seq(Message)], NEW n, NEW m, <<n, m>> \in Linked,
         chan[<<m, n>>] # <<>>, NEW reply \in Seq(Message), Answer(n, m, reply)
  PROVE  /\ chan' \in [Linked -> Seq(Message)]
         /\ \A x : Contains(reply, x) => Contains(chan'[<<n, m>>], x)
         /\ \A f \in Linked : \A x :
              Contains(chan[f], x) =>
                \/ Contains(chan'[f], x)
                \/ f = <<m, n>> /\ x = Head(chan[<<m, n>>])
         /\ \A f \in Linked : \A x :
              Contains(chan'[f], x) =>
                Contains(chan[f], x) \/ (f = <<n, m>> /\ Contains(reply, x))
  <1> DEFINE in == <<m, n>>  out == <<n, m>>
  <1>1. in \in Linked /\ out \in Linked /\ in # out
    BY TwoEnds
  <1>2. /\ chan[in] \in Seq(Message) /\ chan[out] \in Seq(Message)
        /\ chan[in] # <<>> /\ Tail(chan[in]) \in Seq(Message)
        /\ chan[out] \o reply \in Seq(Message)
    BY <1>1
  <1>3. chan' = [chan EXCEPT ![in] = Tail(@), ![out] = @ \o reply]
    BY DEF Answer
  <1> HIDE DEF in, out
  <1>4. /\ chan' \in [Linked -> Seq(Message)]
        /\ chan'[in] = Tail(chan[in]) /\ chan'[out] = chan[out] \o reply
        /\ \A f \in Linked : f # in /\ f # out => chan'[f] = chan[f]
    BY <1>1, <1>2, <1>3
  <1>5. \A x : Contains(chan'[out], x)
               <=> Contains(chan[out], x) \/ Contains(reply, x)
    BY <1>2, <1>4, ContainsConcat
  <1>6. \A x : Contains(chan[in], x)
               <=> x = Head(chan[in]) \/ Contains(chan'[in], x)
    BY <1>2, <1>4, ContainsTail
  <1>7. \A f \in Linked : \A x :
          Contains(chan[f], x) =>
            Contains(chan'[f], x) \/ (f = in /\ x = Head(chan[in]))
    BY <1>4, <1>5, <1>6, Zenon
  <1>8. \A f \in Linked : \A x :
          Contains(chan'[f], x) =>
            Contains(chan[f], x) \/ (f = out /\ Contains(reply, x))
    BY <1>4, <1>5, <1>6, Zenon
  <1> QED BY <1>4, <1>5, <1>7, <1>8 DEF in, out

\* The headers of a connection name stored blocks, said of what it contains.
LEMMA HeadersHeld ==
  ASSUME NEW c \in Seq(Message), NEW S
  PROVE  (\A k \in DOMAIN c : c[k].type = "Headers" =>
            \A i \in DOMAIN c[k].ids : c[k].ids[i] \in S)
         <=> (\A x : Contains(c, x) /\ x.type = "Headers" =>
                \A i \in DOMAIN x.ids : x.ids[i] \in S)
  <1>1. DOMAIN c = 1..Len(c)
    OBVIOUS
  <1> QED BY <1>1, Zenon DEF Contains

\* A handler that answers leaves Stocked as it is, if its reply and the queue
\* it changes are stocked.
LEMMA StockedAfter ==
  ASSUME TypeOK, Stocked, NEW n, NEW m, <<n, m>> \in Linked,
         chan[<<m, n>>] # <<>>, NEW reply \in Seq(Message), Answer(n, m, reply),
         \A k \in Node : stored[k] \subseteq stored'[k],
         \A e \in Linked : \A i \in DOMAIN queue'[e] :
            queue'[e][i] \in stored'[e[2]],
         \A x : Contains(reply, x) /\ x.type = "Headers" =>
            \A i \in DOMAIN x.ids : x.ids[i] \in stored'[n]
  PROVE  Stocked'
  <1>1. chan \in [Linked -> Seq(Message)] /\ chan' \in [Linked -> Seq(Message)]
    BY AnswerSound DEF TypeOK
  <1>2. SUFFICES ASSUME NEW e \in Linked
                 PROVE  \A k \in DOMAIN chan'[e] :
                          chan'[e][k].type = "Headers" =>
                            \A i \in DOMAIN chan'[e][k].ids :
                               chan'[e][k].ids[i] \in stored'[e[1]]
    BY DEF Stocked
  <1>3. \A x : Contains(chan[e], x) /\ x.type = "Headers" =>
               \A i \in DOMAIN x.ids : x.ids[i] \in stored[e[1]]
    <2>1. chan[e] \in Seq(Message)
      BY <1>1
    <2>2. \A k \in DOMAIN chan[e] : chan[e][k].type = "Headers" =>
            \A i \in DOMAIN chan[e][k].ids :
               chan[e][k].ids[i] \in stored[e[1]]
      BY DEF Stocked
    <2> HIDE DEF Stocked
    <2> QED BY <2>1, <2>2, HeadersHeld
  <1>4. \A x : Contains(chan'[e], x) =>
               Contains(chan[e], x) \/ (e = <<n, m>> /\ Contains(reply, x))
    BY <1>1, AnswerSound
  <1>5. e[1] \in Node /\ stored[e[1]] \subseteq stored'[e[1]]
    BY TwoEnds
  <1>6. \A x : Contains(chan'[e], x) /\ x.type = "Headers" =>
               \A i \in DOMAIN x.ids : x.ids[i] \in stored'[e[1]]
    <2>1. e = <<n, m>> => e[1] = n
      OBVIOUS
    <2> QED BY <1>3, <1>4, <1>5, <2>1
  <1>7. chan'[e] \in Seq(Message)
    BY <1>1
  <1> QED BY <1>6, <1>7, HeadersHeld

\* A handler that answers leaves every queue served: a request for a block is
\* answered with it, and a block that arrives moves the queue.
LEMMA ServedAfter ==
  ASSUME TypeOK, QueueServed, NEW n, NEW m, <<n, m>> \in Linked,
         chan[<<m, n>>] # <<>>, NEW reply \in Seq(Message), Answer(n, m, reply),
         \A e \in Linked : e # <<n, m>> => queue'[e] = queue[e],
         \/ /\ queue'[<<n, m>>] = queue[<<n, m>>]
            /\ Head(chan[<<m, n>>]).type # "Block"
         \/ queue'[<<n, m>>] # <<>> =>
              Contains(reply, GetData(queue'[<<n, m>>][1])),
         queue[<<m, n>>] # <<>>
           /\ Head(chan[<<m, n>>]) = GetData(queue[<<m, n>>][1]) =>
             Contains(reply, BlockMsg(queue[<<m, n>>][1]))
  PROVE  QueueServed'
  <1> DEFINE head == Head(chan[<<m, n>>])
  <1>1. chan \in [Linked -> Seq(Message)]
    BY DEF TypeOK
  <1>2. /\ \A x : Contains(reply, x) => Contains(chan'[<<n, m>>], x)
        /\ \A f \in Linked : \A x : Contains(chan[f], x) =>
             Contains(chan'[f], x) \/ (f = <<m, n>> /\ x = head)
    BY <1>1, AnswerSound
  <1> HIDE DEF head
  <1>3. SUFFICES ASSUME NEW e \in Linked, queue'[e] # <<>>
                 PROVE  \/ Contains(chan'[e], GetData(queue'[e][1]))
                        \/ Contains(chan'[<<e[2], e[1]>>],
                                    BlockMsg(queue'[e][1]))
    BY DEF QueueServed, GetData, BlockMsg
  <1>4. CASE e = <<n, m>> /\ Contains(reply, GetData(queue'[e][1]))
    BY <1>2, <1>4
  <1>5. CASE queue'[e] = queue[e] /\ (e = <<n, m>> => head.type # "Block")
    <2>1. /\ e = <<e[1], e[2]>> /\ <<e[2], e[1]>> \in Linked
      BY TwoEnds
    <2>2. \/ Contains(chan[e], GetData(queue[e][1]))
          \/ Contains(chan[<<e[2], e[1]>>], BlockMsg(queue[e][1]))
      BY <1>3, <1>5 DEF QueueServed
    <2>3. CASE Contains(chan[e], GetData(queue[e][1]))
      <3>1. CASE e = <<m, n>> /\ head = GetData(queue[e][1])
        <4>1. Contains(reply, BlockMsg(queue[e][1]))
          BY <1>3, <1>5, <3>1 DEF head
        <4>2. <<e[2], e[1]>> = <<n, m>>
          BY <3>1
        <4> QED BY <1>2, <1>5, <4>1, <4>2
      <3>2. CASE ~(e = <<m, n>> /\ head = GetData(queue[e][1]))
        BY <1>2, <1>5, <2>3, <3>2
      <3> QED BY <3>1, <3>2
    <2>4. CASE Contains(chan[<<e[2], e[1]>>], BlockMsg(queue[e][1]))
      <3>1. BlockMsg(queue[e][1]).type = "Block"
        BY DEF BlockMsg
      <3>2. <<e[2], e[1]>> = <<m, n>> => e = <<n, m>>
        BY <2>1
      <3>3. ~(<<e[2], e[1]>> = <<m, n>> /\ BlockMsg(queue[e][1]) = head)
        BY <1>5, <3>1, <3>2
      <3> QED BY <1>2, <1>5, <2>1, <2>4, <3>3
    <2> QED BY <2>2, <2>3, <2>4
  <1> QED BY <1>3, <1>4, <1>5 DEF head

-----------------------------------------------------------------------------
(* What the operations on blocks and events preserve.                      *)

\* An event for every connection: a channel that is full loses its oldest.
LEMMA BroadcastSound ==
  ASSUME TypeOK, NEW n \in Node, NEW msg \in Event
  PROVE  /\ Broadcast(n, msg) \in [Linked -> Seq(Event)]
         /\ \A e \in Linked : Len(Broadcast(n, msg)[e]) <= Capacity
  <1> SUFFICES ASSUME NEW e \in Linked
               PROVE  /\ Broadcast(n, msg)[e] \in Seq(Event)
                      /\ Len(Broadcast(n, msg)[e]) <= Capacity
    BY DEF Broadcast
  <1> DEFINE all == Append(events[e], msg)
  <1>1. events[e] \in Seq(Event) /\ Len(events[e]) <= Capacity
    BY DEF TypeOK
  <1>2. /\ all \in Seq(Event) /\ all # <<>> /\ Len(all) = Len(events[e]) + 1
        /\ Len(events[e]) \in Nat
    BY <1>1
  <1>3. Capacity \in Nat
    BY SyncAssumption
  <1> HIDE DEF all
  <1>4. Len(all) > Capacity => /\ Tail(all) \in Seq(Event)
                               /\ Len(Tail(all)) <= Capacity
    BY <1>1, <1>2, <1>3
  <1>5. Broadcast(n, msg)[e] =
          IF e[1] = n /\ conn[e] = "up"
          THEN IF Len(all) > Capacity THEN Tail(all) ELSE all
          ELSE events[e]
    BY DEF Broadcast, all
  <1> QED BY <1>1, <1>2, <1>3, <1>4, <1>5

\* submit_block stores a block only on a stored chain, and follows only a
\* chain it stores.
LEMMA SubmitSound ==
  ASSUME TypeOK, StoredComplete, NEW n \in Node, NEW b \in Block,
         SubmitBlock(n, b)
  PROVE  /\ tip' \in [Node -> Block] /\ stored' \in [Node -> SUBSET Block]
         /\ \A k \in Node : /\ Anc[tip'[k]] \subseteq stored'[k]
                            /\ stored[k] \subseteq stored'[k]
         /\ StoredComplete'
         /\ events' \in [Linked -> Seq(Event)]
         /\ \A e \in Linked : Len(events'[e]) <= Capacity
  <1>1. /\ tip \in [Node -> Block] /\ stored \in [Node -> SUBSET Block]
        /\ \A k \in Node : Anc[tip[k]] \subseteq stored[k]
    BY DEF TypeOK
  <1>2. Outcome(n, b) \notin {"Err", "Known"} =>
          Anc[b] \subseteq stored[n] \cup {b}
    <2>1. CASE Outcome(n, b) = "Extended"
      <3>1. b \notin Anc[tip[n]] /\ Parent[b] = tip[n]
        BY <2>1 DEF Outcome
      <3>2. b # Genesis
        BY <1>1, <3>1, ChainsProper DEF Proper
      <3>3. Anc[b] = Anc[tip[n]] \cup {b}
        BY <3>1, <3>2, TreeAssumption
      <3> QED BY <1>1, <3>3
    <2>2. CASE Outcome(n, b) \in {"Reorganized", "SideChain"}
      <3>1. Anc[b] \ {b} \subseteq stored[n]
        BY <2>2 DEF Outcome
      <3> QED BY <3>1
    <2>3. Outcome(n, b)
            \in {"Known", "Extended", "Err", "Reorganized", "SideChain"}
      BY DEF Outcome
    <2> QED BY <2>1, <2>2, <2>3
  <1> DEFINE moves == Outcome(n, b) \in {"Extended", "Reorganized"}
             kept == Outcome(n, b) \in {"Err", "Known"}
  <1>3. /\ tip' = IF moves THEN [tip EXCEPT ![n] = b] ELSE tip
        /\ stored' = IF kept THEN stored
                     ELSE [stored EXCEPT ![n] = @ \cup {b}]
        /\ events' = IF moves THEN Broadcast(n, Inventory(b)) ELSE events
    BY DEF SubmitBlock
  <1>4. (moves => ~kept) /\ (~kept => Anc[b] \subseteq stored[n] \cup {b})
    BY <1>2
  <1> HIDE DEF moves, kept
  <1>5. tip' \in [Node -> Block] /\ stored' \in [Node -> SUBSET Block]
    BY <1>1, <1>3
  <1>6. \A k \in Node : /\ Anc[tip'[k]] \subseteq stored'[k]
                       /\ stored[k] \subseteq stored'[k]
    BY <1>1, <1>3, <1>4
  <1>7. StoredComplete'
    <2> SUFFICES ASSUME NEW k \in Node, NEW c \in stored'[k]
                 PROVE  Anc[c] \subseteq stored'[k]
      BY DEF StoredComplete
    <2>1. CASE c \in stored[k]
      BY <1>6, <2>1 DEF StoredComplete
    <2>2. CASE c \notin stored[k]
      <3>1. ~kept /\ k = n /\ c = b /\ stored'[k] = stored[n] \cup {b}
        BY <1>1, <1>3, <2>2
      <3> QED BY <1>4, <3>1
    <2> QED BY <2>1, <2>2
  <1>8. /\ events' \in [Linked -> Seq(Event)]
        /\ \A e \in Linked : Len(events'[e]) <= Capacity
    <2>1. Inventory(b) \in Event
      BY DEF Inventory, Event
    <2>2. CASE moves
      BY <1>3, <2>1, <2>2, BroadcastSound
    <2>3. CASE ~moves
      BY <1>3, <2>3 DEF TypeOK
    <2> QED BY <2>2, <2>3
  <1> QED BY <1>5, <1>6, <1>7, <1>8

\* A locator is made of blocks.
LEMMA GetHeadersSound ==
  ASSUME NEW t \in Block
  PROVE  GetHeaders(t) \in Event /\ GetHeaders(t).type = "GetHeaders"
  <1>1. Locator(t) \in SUBSET Block
    BY TreeAssumption DEF Locator
  <1> QED BY <1>1 DEF GetHeaders, Event

\* A message sent on its own.
LEMMA SendSound ==
  ASSUME SyncInv, NEW e \in Linked, NEW x \in Event,
         chan' = [chan EXCEPT ![e] = Append(@, x)],
         UNCHANGED <<stored, queue>>
  PROVE  /\ chan' \in [Linked -> Seq(Message)]
         /\ QueueServed' /\ Stocked'
  <1>1. chan \in [Linked -> Seq(Message)] /\ x \in Message
    BY DEF SyncInv, TypeOK, Message
  <1>2. x.type # "Headers"
    BY DEF Event
  <1>3. <<x>> \in Seq(Message) /\ \A y : Contains(<<x>>, y) => y = x
    BY <1>1 DEF Contains
  <1>4. /\ chan' \in [Linked -> Seq(Message)]
        /\ chan'[e] = chan[e] \o <<x>> /\ chan[e] \in Seq(Message)
        /\ \A f \in Linked : f # e => chan'[f] = chan[f]
    BY <1>1
  <1>5. \A y : Contains(chan'[e], y)
               <=> Contains(chan[e], y) \/ Contains(<<x>>, y)
    <2>1. \A y : Contains(chan[e] \o <<x>>, y)
                 <=> Contains(chan[e], y) \/ Contains(<<x>>, y)
      <3>1. <<x>> \in Seq(Message) /\ chan[e] \in Seq(Message)
        BY <1>3, <1>4
      <3> QED BY <3>1, ContainsConcat, Zenon
    <2> QED BY <1>4, <2>1, Zenon
  <1>6. QueueServed'
    <2> SUFFICES ASSUME NEW f \in Linked, queue[f] # <<>>
                 PROVE  \/ Contains(chan'[f], GetData(queue[f][1]))
                        \/ Contains(chan'[<<f[2], f[1]>>],
                                    BlockMsg(queue[f][1]))
      BY DEF QueueServed, GetData, BlockMsg
    <2>1. <<f[2], f[1]>> \in Linked
      BY TwoEnds
    <2>2. \A g \in Linked : \A y : Contains(chan[g], y) => Contains(chan'[g], y)
      BY <1>4, <1>5
    <2>3. \/ Contains(chan[f], GetData(queue[f][1]))
          \/ Contains(chan[<<f[2], f[1]>>], BlockMsg(queue[f][1]))
      BY DEF SyncInv, QueueServed
    <2> QED BY <2>1, <2>2, <2>3
  <1>7. Stocked'
    <2> SUFFICES ASSUME NEW f \in Linked
                 PROVE  \A k \in DOMAIN chan'[f] :
                          chan'[f][k].type = "Headers" =>
                            \A i \in DOMAIN chan'[f][k].ids :
                               chan'[f][k].ids[i] \in stored[f[1]]
      BY DEF SyncInv, Stocked
    <2>1. \A y : Contains(chan[f], y) /\ y.type = "Headers" =>
                 \A i \in DOMAIN y.ids : y.ids[i] \in stored[f[1]]
      <3>1. chan[f] \in Seq(Message)
        BY <1>1
      <3>2. \A k \in DOMAIN chan[f] : chan[f][k].type = "Headers" =>
              \A i \in DOMAIN chan[f][k].ids :
                 chan[f][k].ids[i] \in stored[f[1]]
        BY DEF SyncInv, Stocked
      <3> QED BY <3>1, <3>2, HeadersHeld
    <2>2. \A y : Contains(chan'[f], y) => Contains(chan[f], y) \/ y = x
      BY <1>3, <1>4, <1>5
    <2>3. \A y : Contains(chan'[f], y) /\ y.type = "Headers" =>
                 \A i \in DOMAIN y.ids : y.ids[i] \in stored[f[1]]
      BY <1>2, <2>1, <2>2
    <2>4. chan'[f] \in Seq(Message)
      BY <1>4
    <2> QED BY <2>3, <2>4, HeadersHeld
  <1> QED BY <1>4, <1>6, <1>7

\* The fields of a message that is received, and the ends of its connection.
LEMMA Received ==
  ASSUME TypeOK, NEW n, NEW m, <<n, m>> \in Linked, NEW type,
         Receive(n, m, type)
  PROVE  LET head == Head(chan[<<m, n>>])
         IN  /\ n \in Node /\ m \in Node /\ <<m, n>> \in Linked
             /\ <<m, n>> # <<n, m>>
             /\ chan[<<m, n>>] \in Seq(Message) /\ chan[<<m, n>>] # <<>>
             /\ head \in Message /\ head.type = type
             /\ Contains(chan[<<m, n>>], head)
             /\ type \in {"Inventory", "GetData", "Block"} => head.id \in Block
             /\ type = "Headers" => head.ids \in Seq(Block)
  <1> DEFINE head == Head(chan[<<m, n>>])
  <1>1. /\ n \in Node /\ m \in Node /\ <<m, n>> \in Linked
        /\ <<m, n>> # <<n, m>>
    BY TwoEnds
  <1>2. /\ chan[<<m, n>>] \in Seq(Message) /\ chan[<<m, n>>] # <<>>
        /\ head.type = type
    BY <1>1 DEF Receive, TypeOK
  <1>3. head \in Message
    BY <1>2
  <1>4. Contains(chan[<<m, n>>], head)
    BY <1>2, ContainsTail
  <1> HIDE DEF head
  <1>5. /\ head.type \in {"Inventory", "GetData", "Block"} => head.id \in Block
        /\ head.type = "Headers" => head.ids \in Seq(Block)
    BY <1>3 DEF Message, Event
  <1> QED BY <1>1, <1>2, <1>3, <1>4, <1>5 DEF head

\* Replies of at most one message.
LEMMA OneMessage ==
  /\ <<>> \in Seq(Message) /\ \A x : ~Contains(<<>>, x)
  /\ \A y \in Message : /\ <<y>> \in Seq(Message)
                        /\ \A x : Contains(<<y>>, x) <=> x = y
  BY DEF Contains

\* The messages handle_wire answers with are messages.
LEMMA RepliesTyped ==
  /\ \A b \in Block : /\ GetData(b) \in Message /\ GetData(b).type = "GetData"
                      /\ BlockMsg(b) \in Message /\ BlockMsg(b).type = "Block"
                      /\ GetData(b).id = b /\ BlockMsg(b).id = b
  /\ \A t \in Block : /\ GetHeaders(t) \in Message
                      /\ GetHeaders(t).type = "GetHeaders"
  <1>1. \A t \in Block : /\ GetHeaders(t) \in Message
                        /\ GetHeaders(t).type = "GetHeaders"
    BY GetHeadersSound DEF Message
  <1> QED BY <1>1 DEF GetData, BlockMsg, Message

-----------------------------------------------------------------------------
(* The handlers.                                                           *)

\* A handler that only replies preserves the invariant.
LEMMA ReplyInv ==
  ASSUME SyncInv, NEW n, NEW m, <<n, m>> \in Linked, NEW type,
         Receive(n, m, type), NEW reply \in Seq(Message), Answer(n, m, reply),
         UNCHANGED <<tip, stored, queue, conn, told, events, drops, requests>>,
         type # "Block",
         \A x : Contains(reply, x) /\ x.type = "Headers" =>
            \A i \in DOMAIN x.ids : x.ids[i] \in stored[n],
         \A b \in stored[n] : Head(chan[<<m, n>>]) = GetData(b) =>
            Contains(reply, BlockMsg(b))
  PROVE  SyncInv'
  <1> DEFINE head == Head(chan[<<m, n>>])
  <1>1. TypeOK /\ StoredComplete /\ QueueServed /\ Stocked
    BY DEF SyncInv
  <1>2. /\ n \in Node /\ <<m, n>> \in Linked /\ chan[<<m, n>>] # <<>>
        /\ head.type = type
    BY <1>1, Received
  <1>3. TypeOK'
    <2>1. chan' \in [Linked -> Seq(Message)]
      BY <1>1, <1>2, AnswerSound DEF TypeOK
    <2> QED BY <1>1, <2>1 DEF TypeOK
  <1>4. StoredComplete'
    BY <1>1 DEF StoredComplete
  <1>5. Stocked'
    <2>1. \A e \in Linked : \A i \in DOMAIN queue[e] :
             queue[e][i] \in stored[e[2]]
      BY <1>1 DEF Stocked
    <2> QED BY <1>1, <1>2, <2>1, StockedAfter
  <1>6. QueueServed'
    <2>1. queue[<<m, n>>] # <<>> => queue[<<m, n>>][1] \in stored[n]
      <3>1. queue[<<m, n>>] \in Seq(Block)
        BY <1>1, <1>2 DEF TypeOK
      <3>2. queue[<<m, n>>] # <<>> => 1 \in DOMAIN queue[<<m, n>>]
        BY <3>1
      <3> QED BY <1>1, <1>2, <3>2 DEF Stocked
    <2> QED BY <1>1, <1>2, <2>1, ServedAfter
  <1> QED BY <1>3, <1>4, <1>5, <1>6 DEF SyncInv

\* An announcement is answered with a request, or not at all.
LEMMA HandleInventoryInv ==
  ASSUME SyncInv, NEW n, NEW m, <<n, m>> \in Linked, HandleInventory(n, m)
  PROVE  SyncInv'
  <1> DEFINE head == Head(chan[<<m, n>>])
             reply == IF head.id \in stored[n] THEN <<>>
                      ELSE <<GetData(head.id)>>
  <1>1. /\ Receive(n, m, "Inventory") /\ Answer(n, m, reply)
        /\ UNCHANGED <<tip, stored, queue, conn, told, events, drops, requests>>
    BY DEF HandleInventory
  <1>2. head.type = "Inventory" /\ head.id \in Block
    BY <1>1, Received DEF SyncInv
  <1>3. /\ reply \in Seq(Message)
        /\ \A x : Contains(reply, x) => x.type = "GetData"
    BY <1>2, OneMessage, RepliesTyped
  <1>4. \A b : head # GetData(b)
    BY <1>2 DEF GetData
  <1> HIDE DEF head, reply
  <1>5. \A x : ~(Contains(reply, x) /\ x.type = "Headers")
    BY <1>3
  <1> QED BY <1>1, <1>3, <1>4, <1>5, ReplyInv DEF head

\* A request for a stored block is answered with the block.
LEMMA HandleGetDataInv ==
  ASSUME SyncInv, NEW n, NEW m, <<n, m>> \in Linked, HandleGetData(n, m)
  PROVE  SyncInv'
  <1> DEFINE head == Head(chan[<<m, n>>])
             reply == IF head.id \in stored[n] THEN <<BlockMsg(head.id)>>
                      ELSE <<>>
  <1>1. /\ Receive(n, m, "GetData") /\ Answer(n, m, reply)
        /\ UNCHANGED <<tip, stored, queue, conn, told, events, drops, requests>>
    BY DEF HandleGetData
  <1>2. head.type = "GetData" /\ head.id \in Block
    BY <1>1, Received DEF SyncInv
  <1>3. /\ reply \in Seq(Message)
        /\ \A x : Contains(reply, x) => x.type = "Block"
    BY <1>2, OneMessage, RepliesTyped
  <1>4. \A b \in stored[n] : head = GetData(b) => Contains(reply, BlockMsg(b))
    <2> SUFFICES ASSUME NEW b \in stored[n], head = GetData(b)
                 PROVE  Contains(reply, BlockMsg(b))
      OBVIOUS
    <2>1. head.id = b
      BY DEF GetData
    <2> QED BY <1>2, <2>1, OneMessage, RepliesTyped
  <1> HIDE DEF head, reply
  <1>5. \A x : ~(Contains(reply, x) /\ x.type = "Headers")
    BY <1>3
  <1> QED BY <1>1, <1>3, <1>4, <1>5, ReplyInv DEF head

\* A request for headers is answered with blocks of the own chain.
LEMMA HandleGetHeadersInv ==
  ASSUME SyncInv, NEW n, NEW m, <<n, m>> \in Linked, HandleGetHeaders(n, m)
  PROVE  SyncInv'
  <1> DEFINE head == Head(chan[<<m, n>>])
             ids == HeadersAfter(tip[n], head.locator)
             reply == <<Headers(ids)>>
  <1>1. /\ Receive(n, m, "GetHeaders") /\ Answer(n, m, reply)
        /\ UNCHANGED <<tip, stored, queue, conn, told, events, drops, requests>>
    BY DEF HandleGetHeaders
  <1>2. head.type = "GetHeaders" /\ n \in Node
    BY <1>1, Received DEF SyncInv
  <1>3. /\ tip[n] \in Block /\ Anc[tip[n]] \subseteq stored[n]
        /\ stored[n] \subseteq Block
    BY <1>2 DEF SyncInv, TypeOK
  <1>4. ids \in Seq(Anc[tip[n]])
    BY <1>3, HeadersSound
  <1> HIDE DEF head, ids
  <1>5. ids \in Seq(Block) /\ \A i \in DOMAIN ids : ids[i] \in stored[n]
    BY <1>3, <1>4
  <1>6. Headers(ids) \in Message /\ Headers(ids).ids = ids
    BY <1>5 DEF Headers, Message
  <1>7. /\ reply \in Seq(Message)
        /\ \A x : Contains(reply, x) /\ x.type = "Headers" =>
                \A i \in DOMAIN x.ids : x.ids[i] \in stored[n]
    BY <1>5, <1>6, OneMessage
  <1>8. \A b : head # GetData(b)
    BY <1>2 DEF GetData
  <1> HIDE DEF reply
  <1> QED BY <1>1, <1>7, <1>8, ReplyInv DEF head

\* A block that arrives is submitted and moves the queue of its sender.
LEMMA HandleBlockInv ==
  ASSUME SyncInv, NEW n, NEW m, <<n, m>> \in Linked, HandleBlock(n, m)
  PROVE  SyncInv'
  <1> DEFINE b == Head(chan[<<m, n>>]).id
             q == queue[<<n, m>>]
             front == Outcome(n, b) # "Err" /\ q # <<>> /\ q[1] = b
             rest == IF front THEN Tail(q) ELSE <<>>
             reply == IF front THEN NextRequest(Tail(q), tip'[n]) ELSE <<>>
  <1>1. /\ Receive(n, m, "Block") /\ SubmitBlock(n, b)
        /\ queue' = [queue EXCEPT ![<<n, m>>] = rest]
        /\ Answer(n, m, reply)
        /\ UNCHANGED <<conn, told, drops, requests>>
    BY DEF HandleBlock
  <1>2. TypeOK /\ StoredComplete /\ QueueServed /\ Stocked
    BY DEF SyncInv
  <1>3. /\ n \in Node /\ m \in Node /\ b \in Block /\ <<m, n>> \in Linked
        /\ chan[<<m, n>>] # <<>> /\ Head(chan[<<m, n>>]).type = "Block"
    BY <1>1, <1>2, Received
  <1>4. /\ tip' \in [Node -> Block] /\ stored' \in [Node -> SUBSET Block]
        /\ \A k \in Node : /\ Anc[tip'[k]] \subseteq stored'[k]
                           /\ stored[k] \subseteq stored'[k]
        /\ StoredComplete'
        /\ events' \in [Linked -> Seq(Event)]
        /\ \A e \in Linked : Len(events'[e]) <= Capacity
    <2> HIDE DEF b
    <2> QED BY <1>1, <1>2, <1>3, SubmitSound
  <1>5. q \in Seq(Block) /\ \A i \in DOMAIN q : q[i] \in stored[m]
    BY <1>2 DEF TypeOK, Stocked
  <1> HIDE DEF q, b
  <1>6. rest \in Seq(Block) /\ \A i \in DOMAIN rest : rest[i] \in stored[m]
    <2>1. CASE front
      <3>1. q # <<>> /\ rest = Tail(q)
        BY <2>1
      <3>2. /\ rest \in Seq(Block)
            /\ \A i \in DOMAIN rest : i + 1 \in DOMAIN q /\ rest[i] = q[i + 1]
        BY <1>5, <3>1
      <3> QED BY <1>5, <3>2
    <2>2. CASE ~front
      BY <2>2
    <2> QED BY <2>1, <2>2
  <1>7. /\ reply \in Seq(Message)
        /\ \A x : Contains(reply, x) => x.type # "Headers"
        /\ rest # <<>> => Contains(reply, GetData(rest[1]))
    <2>1. CASE front /\ rest = <<>>
      <3>1. reply = <<GetHeaders(tip'[n])>> /\ tip'[n] \in Block
        BY <1>3, <1>4, <2>1 DEF NextRequest
      <3> HIDE DEF reply, rest, front
      <3> QED BY <2>1, <3>1, OneMessage, RepliesTyped
    <2>2. CASE front /\ rest # <<>>
      <3>1. reply = <<GetData(Head(rest))>> /\ Head(rest) = rest[1]
        BY <2>2 DEF NextRequest
      <3>2. rest[1] \in Block
        BY <1>6, <2>2
      <3> HIDE DEF reply, rest, front
      <3> QED BY <3>1, <3>2, OneMessage, RepliesTyped
    <2>3. CASE ~front
      BY <2>3, OneMessage
    <2> QED BY <2>1, <2>2, <2>3
  <1> HIDE DEF front, rest, reply
  <1>8. /\ queue' \in [Linked -> Seq(Block)]
        /\ queue'[<<n, m>>] = rest
        /\ \A e \in Linked : e # <<n, m>> => queue'[e] = queue[e]
    BY <1>1, <1>2, <1>6 DEF TypeOK
  <1>9. TypeOK'
    <2>1. chan' \in [Linked -> Seq(Message)]
      BY <1>1, <1>2, <1>3, <1>7, AnswerSound DEF TypeOK
    <2> QED BY <1>1, <1>2, <1>4, <1>8, <2>1 DEF TypeOK
  <1>10. Stocked'
    <2>1. ASSUME NEW e \in Linked, NEW i \in DOMAIN queue'[e]
          PROVE  queue'[e][i] \in stored'[e[2]]
      <3>1. e[2] \in Node /\ (e = <<n, m>> => e[2] = m)
        BY TwoEnds
      <3>2. queue'[e][i] \in stored[e[2]]
        <4>1. CASE e = <<n, m>>
          BY <1>6, <1>8, <3>1, <4>1
        <4>2. CASE e # <<n, m>>
          BY <1>2, <1>8, <4>2 DEF Stocked
        <4> QED BY <4>1, <4>2
      <3> QED BY <1>4, <3>1, <3>2
    <2>2. \A x : Contains(reply, x) /\ x.type = "Headers" =>
            \A i \in DOMAIN x.ids : x.ids[i] \in stored'[n]
      BY <1>7
    <2> QED BY <1>1, <1>2, <1>3, <1>4, <1>7, <2>1, <2>2, StockedAfter
  <1>11. QueueServed'
    <2>1. queue'[<<n, m>>] # <<>> =>
            Contains(reply, GetData(queue'[<<n, m>>][1]))
      BY <1>7, <1>8
    <2>2. \A c : Head(chan[<<m, n>>]) # GetData(c)
      BY <1>3 DEF GetData
    <2> QED BY <1>1, <1>2, <1>3, <1>7, <1>8, <2>1, <2>2, ServedAfter, ZenonT(40)
  <1> QED BY <1>4, <1>9, <1>10, <1>11 DEF SyncInv

\* Headers replace the queue, or leave it when they bring nothing new.
LEMMA HandleHeadersInv ==
  ASSUME SyncInv, NEW n, NEW m, <<n, m>> \in Linked, HandleHeaders(n, m)
  PROVE  SyncInv'
  <1> DEFINE head == Head(chan[<<m, n>>])
             ids == head.ids
             good == /\ ids # <<>> /\ ids[1] # Genesis
                     /\ Parent[ids[1]] \in stored[n]
             new == Unknown(ids, stored[n])
             q == queue[<<n, m>>]
             next == IF ~good THEN <<>> ELSE IF new = <<>> THEN q ELSE new
             reply == CASE ~good -> <<>>
                        [] good /\ new = <<>> -> WhenNothingNew(tip[n])
                        [] OTHER -> <<GetData(new[1])>>
  <1>1. /\ Receive(n, m, "Headers")
        /\ queue' = [queue EXCEPT ![<<n, m>>] = next]
        /\ Answer(n, m, reply)
        /\ UNCHANGED <<tip, stored, conn, told, events, drops, requests>>
    BY DEF HandleHeaders
  <1>2. TypeOK /\ StoredComplete /\ QueueServed /\ Stocked
    BY DEF SyncInv
  <1>3. /\ n \in Node /\ m \in Node /\ <<m, n>> \in Linked
        /\ chan[<<m, n>>] # <<>> /\ chan[<<m, n>>] \in Seq(Message)
        /\ head.type = "Headers" /\ ids \in Seq(Block)
        /\ Contains(chan[<<m, n>>], head)
    BY <1>1, <1>2, Received
  <1>4. \A i \in DOMAIN ids : ids[i] \in stored[m]
    <2>1. \A k \in DOMAIN chan[<<m, n>>] :
            chan[<<m, n>>][k].type = "Headers" =>
              \A i \in DOMAIN chan[<<m, n>>][k].ids :
                 chan[<<m, n>>][k].ids[i] \in stored[m]
      BY <1>2, <1>3 DEF Stocked
    <2>2. \A x : Contains(chan[<<m, n>>], x) /\ x.type = "Headers" =>
                 \A i \in DOMAIN x.ids : x.ids[i] \in stored[m]
      BY <1>3, <2>1, HeadersHeld
    <2> QED BY <1>3, <2>2
  <1>5. new \in Seq(Block) /\ \A i \in DOMAIN new : new[i] \in stored[m]
    <2>1. new \in Seq({ids[i] : i \in DOMAIN ids})
      BY <1>3, UnknownSound
    <2>2. {ids[i] : i \in DOMAIN ids} \subseteq Block \cap stored[m]
      BY <1>3, <1>4
    <2> HIDE DEF new
    <2> QED BY <2>1, <2>2
  <1>6. q \in Seq(Block) /\ \A i \in DOMAIN q : q[i] \in stored[m]
    BY <1>2 DEF TypeOK, Stocked
  <1> HIDE DEF q, new, good, head, ids
  <1>7. next \in Seq(Block) /\ \A i \in DOMAIN next : next[i] \in stored[m]
    BY <1>5, <1>6
  <1>8. /\ reply \in Seq(Message)
        /\ \A x : Contains(reply, x) => x.type # "Headers"
        /\ \/ next = q
           \/ next # <<>> => Contains(reply, GetData(next[1]))
    <2>1. CASE ~good
      BY <2>1, OneMessage
    <2>2. CASE good /\ new = <<>>
      <3>1. reply = <<>> /\ next = q
        BY <2>2 DEF WhenNothingNew
      <3> HIDE DEF reply, next
      <3> QED BY <3>1, OneMessage
    <2>3. CASE good /\ new # <<>>
      <3>1. reply = <<GetData(new[1])>> /\ next = new
        BY <2>3
      <3>2. new[1] \in Block
        BY <1>5, <2>3
      <3> HIDE DEF reply, next
      <3> QED BY <3>1, <3>2, OneMessage, RepliesTyped
    <2> QED BY <2>1, <2>2, <2>3
  <1> HIDE DEF next, reply
  <1>9. /\ queue' \in [Linked -> Seq(Block)]
        /\ queue'[<<n, m>>] = next
        /\ \A e \in Linked : e # <<n, m>> => queue'[e] = queue[e]
    BY <1>1, <1>2, <1>7 DEF TypeOK
  <1>10. TypeOK'
    <2>1. chan' \in [Linked -> Seq(Message)]
      BY <1>1, <1>2, <1>3, <1>8, AnswerSound DEF TypeOK
    <2> QED BY <1>1, <1>2, <1>9, <2>1 DEF TypeOK
  <1>11. Stocked'
    <2>1. ASSUME NEW e \in Linked, NEW i \in DOMAIN queue'[e]
          PROVE  queue'[e][i] \in stored'[e[2]]
      <3>1. e = <<n, m>> => e[2] = m
        BY TwoEnds
      <3>2. CASE e = <<n, m>>
        BY <1>1, <1>7, <1>9, <3>1, <3>2
      <3>3. CASE e # <<n, m>>
        BY <1>1, <1>2, <1>9, <3>3 DEF Stocked
      <3> QED BY <3>2, <3>3
    <2>2. \A x : Contains(reply, x) /\ x.type = "Headers" =>
            \A i \in DOMAIN x.ids : x.ids[i] \in stored'[n]
      BY <1>8
    <2>3. \A k \in Node : stored[k] \subseteq stored'[k]
      BY <1>1
    <2> QED BY <1>1, <1>2, <1>3, <1>8, <2>1, <2>2, <2>3, StockedAfter
  <1>12. QueueServed'
    <2>1. \/ queue'[<<n, m>>] = queue[<<n, m>>]
          \/ queue'[<<n, m>>] # <<>> =>
               Contains(reply, GetData(queue'[<<n, m>>][1]))
      BY <1>8, <1>9 DEF q
    <2>2. \A c : Head(chan[<<m, n>>]) # GetData(c)
      BY <1>3 DEF GetData, head
    <2>3. Head(chan[<<m, n>>]).type # "Block"
      BY <1>3 DEF head
    <2> QED BY <1>1, <1>2, <1>3, <1>8, <1>9, <2>1, <2>2, <2>3, ServedAfter, ZenonT(40)
  <1>13. StoredComplete'
    BY <1>1, <1>2 DEF StoredComplete
  <1> QED BY <1>10, <1>11, <1>12, <1>13 DEF SyncInv

-----------------------------------------------------------------------------
(* The initial state, the other actions and the theorems.                  *)

\* Node::open: a node has its chain, and nothing queued or on its way.
LEMMA InitInv == Init => SyncInv
  <1> SUFFICES ASSUME Init PROVE SyncInv
    OBVIOUS
  <1>1. \A n \in Node : Start[n] \in Block /\ Proper(Start[n])
    BY ChainsProper, SyncAssumption
  <1>2. TypeOK
    <2>1. /\ tip \in [Node -> Block] /\ stored \in [Node -> SUBSET Block]
          /\ \A n \in Node : Anc[tip[n]] \subseteq stored[n]
      BY <1>1, SyncAssumption DEF Init, Proper
    <2>2. conn \in [Linked -> {"none", "hello", "up"}]
      BY DEF Init
    <2>3. told \in [Linked -> Block]
      BY <1>1, TwoEnds DEF Init
    <2>4. /\ queue \in [Linked -> Seq(Block)]
          /\ chan \in [Linked -> Seq(Message)]
          /\ events \in [Linked -> Seq(Event)]
          /\ \A e \in Linked : events[e] = <<>>
      BY DEF Init
    <2>5. \A e \in Linked : Len(events[e]) <= Capacity
      BY <2>4, SyncAssumption
    <2>6. drops \in 0..MaxDrops /\ requests \in 0..MaxRequests
      BY SyncAssumption DEF Init
    <2> QED BY <2>1, <2>2, <2>3, <2>4, <2>5, <2>6 DEF TypeOK
  <1>3. StoredComplete
    BY <1>1 DEF Init, StoredComplete, Proper
  <1>4. QueueServed /\ Stocked
    BY DEF Init, QueueServed, Stocked
  <1> QED BY <1>2, <1>3, <1>4 DEF SyncInv

\* Both ends' handshakes: only the last step sends a message.
LEMMA ConnectInv ==
  ASSUME SyncInv, NEW n, NEW m, <<n, m>> \in Linked, Connect(n, m)
  PROVE  SyncInv'
  <1>1. TypeOK /\ StoredComplete /\ QueueServed /\ Stocked
    BY DEF SyncInv
  <1>2. /\ n \in Node /\ m \in Node /\ <<m, n>> \in Linked
        /\ tip[n] \in Block /\ tip[m] \in Block
    BY <1>1, TwoEnds DEF TypeOK
  <1>3. CASE ClientHello(n, m) \/ ServerHello(n, m)
    <2>1. /\ conn' \in [Linked -> {"none", "hello", "up"}]
          /\ told' \in [Linked -> Block]
          /\ UNCHANGED <<tip, stored, queue, events, chan, drops, requests>>
      BY <1>1, <1>2, <1>3 DEF ClientHello, ServerHello, TypeOK
    <2> QED BY <1>1, <2>1
          DEF SyncInv, TypeOK, StoredComplete, QueueServed, Stocked
  <1>4. CASE Subscribe(n, m)
    <2>1. /\ conn' = [conn EXCEPT ![<<n, m>>] = "up"]
          /\ UNCHANGED <<tip, stored, queue, told, events, drops, requests>>
          /\ \/ chan' = chan
             \/ chan' = [chan EXCEPT ![<<n, m>>] =
                            Append(@, GetHeaders(tip[n]))]
      BY <1>4 DEF Subscribe
    <2>2. conn' \in [Linked -> {"none", "hello", "up"}]
      BY <1>1, <2>1 DEF TypeOK
    <2>3. chan' \in [Linked -> Seq(Message)] /\ QueueServed' /\ Stocked'
      <3>1. CASE chan' = chan
        BY <1>1, <2>1, <3>1 DEF TypeOK, QueueServed, Stocked
      <3>2. CASE chan' # chan
        <4>1. GetHeaders(tip[n]) \in Event
          BY <1>2, GetHeadersSound
        <4> QED BY <2>1, <3>2, <4>1, SendSound
      <3> QED BY <3>1, <3>2
    <2> QED BY <1>1, <2>1, <2>2, <2>3 DEF SyncInv, TypeOK, StoredComplete
  <1> QED BY <1>3, <1>4 DEF Connect

\* An event that is forwarded is no answer to a request.
LEMMA ForwardInv ==
  ASSUME SyncInv, NEW n, NEW m, <<n, m>> \in Linked, Forward(n, m)
  PROVE  SyncInv'
  <1> DEFINE e == <<n, m>>
  <1>1. TypeOK /\ StoredComplete
    BY DEF SyncInv
  <1>2. /\ events[e] # <<>>
        /\ chan' = [chan EXCEPT ![e] = Append(@, Head(events[e]))]
        /\ events' = [events EXCEPT ![e] = Tail(@)]
        /\ UNCHANGED <<tip, stored, queue, conn, told, drops, requests>>
    BY DEF Forward
  <1> HIDE DEF e
  <1>3. e \in Linked
    BY DEF e
  <1>4. /\ events[e] \in Seq(Event) /\ Len(events[e]) <= Capacity
        /\ Capacity \in Nat
    BY <1>1, <1>3, SyncAssumption DEF TypeOK
  <1>5. /\ Head(events[e]) \in Event /\ Tail(events[e]) \in Seq(Event)
        /\ Len(Tail(events[e])) <= Capacity
    BY <1>2, <1>4
  <1>6. chan' \in [Linked -> Seq(Message)] /\ QueueServed' /\ Stocked'
    BY <1>2, <1>3, <1>5, SendSound
  <1>7. /\ events' \in [Linked -> Seq(Event)]
        /\ \A f \in Linked : Len(events'[f]) <= Capacity
    BY <1>1, <1>2, <1>3, <1>5 DEF TypeOK
  <1> QED BY <1>1, <1>2, <1>6, <1>7 DEF SyncInv, TypeOK, StoredComplete

\* A connection that breaks forgets its queues with its messages.
LEMMA DisconnectInv ==
  ASSUME SyncInv, NEW c, NEW s, <<c, s>> \in Dial, Disconnect(c, s)
  PROVE  SyncInv'
  <1> DEFINE ends == {<<c, s>>, <<s, c>>}
             cut(f, v) == [e \in Linked |-> IF e \in ends THEN v ELSE f[e]]
  <1>1. TypeOK /\ StoredComplete /\ QueueServed /\ Stocked
    BY DEF SyncInv
  <1>2. /\ conn' = cut(conn, "none") /\ chan' = cut(chan, <<>>)
        /\ events' = cut(events, <<>>) /\ queue' = cut(queue, <<>>)
        /\ drops < MaxDrops /\ drops' = drops + 1
        /\ UNCHANGED <<tip, stored, told, requests>>
    BY DEF Disconnect
  <1>3. \A e \in Linked : e \in ends <=> <<e[2], e[1]>> \in ends
    <2> SUFFICES ASSUME NEW e \in Linked
                 PROVE  e \in ends <=> <<e[2], e[1]>> \in ends
      OBVIOUS
    <2>1. e = <<e[1], e[2]>>
      BY TwoEnds
    <2> QED BY <2>1
  <1> HIDE DEF ends
  <1>4. TypeOK'
    <2>1. conn' \in [Linked -> {"none", "hello", "up"}]
      BY <1>1, <1>2 DEF TypeOK
    <2>2. /\ queue' \in [Linked -> Seq(Block)]
          /\ chan' \in [Linked -> Seq(Message)]
      BY <1>1, <1>2 DEF TypeOK
    <2>3. events' \in [Linked -> Seq(Event)]
      BY <1>1, <1>2 DEF TypeOK
    <2>4. \A e \in Linked : Len(events'[e]) <= Capacity
      <3>1. Len(<<>>) <= Capacity
        BY SyncAssumption
      <3> QED BY <1>1, <1>2, <3>1 DEF TypeOK
    <2>5. drops' \in 0..MaxDrops
      BY <1>1, <1>2, SyncAssumption DEF TypeOK
    <2> QED BY <1>1, <1>2, <2>1, <2>2, <2>3, <2>4, <2>5 DEF TypeOK
  <1>5. StoredComplete'
    BY <1>1, <1>2 DEF StoredComplete
  <1>6. QueueServed'
    <2> SUFFICES ASSUME NEW e \in Linked, queue'[e] # <<>>
                 PROVE  \/ Contains(chan'[e], GetData(queue'[e][1]))
                        \/ Contains(chan'[<<e[2], e[1]>>],
                                    BlockMsg(queue'[e][1]))
      BY DEF QueueServed, GetData, BlockMsg
    <2>1. e \notin ends /\ queue'[e] = queue[e] /\ chan'[e] = chan[e]
      BY <1>2
    <2>2. /\ <<e[2], e[1]>> \in Linked /\ <<e[2], e[1]>> \notin ends
          /\ chan'[<<e[2], e[1]>>] = chan[<<e[2], e[1]>>]
      <3>1. <<e[2], e[1]>> \in Linked /\ <<e[2], e[1]>> \notin ends
        BY <1>3, <2>1, TwoEnds
      <3> QED BY <1>2, <3>1
    <2>3. \/ Contains(chan[e], GetData(queue[e][1]))
          \/ Contains(chan[<<e[2], e[1]>>], BlockMsg(queue[e][1]))
      BY <1>1, <2>1 DEF QueueServed
    <2> QED BY <2>1, <2>2, <2>3
  <1>7. Stocked'
    <2> SUFFICES ASSUME NEW e \in Linked
                 PROVE  /\ \A i \in DOMAIN queue'[e] :
                             queue'[e][i] \in stored[e[2]]
                        /\ \A k \in DOMAIN chan'[e] :
                             chan'[e][k].type = "Headers" =>
                               \A i \in DOMAIN chan'[e][k].ids :
                                  chan'[e][k].ids[i] \in stored[e[1]]
      BY <1>2 DEF Stocked
    <2>1. \/ queue'[e] = <<>> /\ chan'[e] = <<>>
          \/ queue'[e] = queue[e] /\ chan'[e] = chan[e]
      BY <1>2
    <2> QED BY <1>1, <2>1 DEF Stocked
  <1> QED BY <1>4, <1>5, <1>6, <1>7 DEF SyncInv

\* The node's own events: they disturb no connection.
LEMMA OwnStepInv ==
  ASSUME SyncInv, NEW n \in Node,
         RequestSync(n) \/ \E b \in Mined[n] : Mine(n, b)
  PROVE  SyncInv'
  <1>1. TypeOK /\ StoredComplete /\ QueueServed /\ Stocked
    BY DEF SyncInv
  <1>2. CASE RequestSync(n)
    <2>1. /\ requests < MaxRequests /\ requests' = requests + 1
          /\ events' = Broadcast(n, GetHeaders(tip[n]))
          /\ UNCHANGED <<tip, stored, queue, conn, told, chan, drops>>
      BY <1>2 DEF RequestSync
    <2>2. GetHeaders(tip[n]) \in Event
      BY <1>1, GetHeadersSound DEF TypeOK
    <2>3. /\ events' \in [Linked -> Seq(Event)]
          /\ \A e \in Linked : Len(events'[e]) <= Capacity
      BY <1>1, <2>1, <2>2, BroadcastSound
    <2>4. requests' \in 0..MaxRequests
      BY <1>1, <2>1, SyncAssumption DEF TypeOK
    <2>5. TypeOK'
      BY <1>1, <2>1, <2>3, <2>4 DEF TypeOK
    <2> QED BY <1>1, <2>1, <2>5
          DEF SyncInv, StoredComplete, QueueServed, Stocked
  <1>3. ASSUME NEW b \in Mined[n], Mine(n, b) PROVE SyncInv'
    <2>1. /\ SubmitBlock(n, b) /\ b \in Block
          /\ UNCHANGED <<queue, conn, told, chan, drops, requests>>
      BY <1>3, SyncAssumption DEF Mine
    <2>2. /\ tip' \in [Node -> Block] /\ stored' \in [Node -> SUBSET Block]
          /\ \A k \in Node : /\ Anc[tip'[k]] \subseteq stored'[k]
                             /\ stored[k] \subseteq stored'[k]
          /\ StoredComplete'
          /\ events' \in [Linked -> Seq(Event)]
          /\ \A e \in Linked : Len(events'[e]) <= Capacity
      BY <1>1, <2>1, SubmitSound
    <2>3. TypeOK'
      BY <1>1, <2>1, <2>2 DEF TypeOK
    <2>4. QueueServed'
      BY <1>1, <2>1 DEF QueueServed
    <2>5. Stocked'
      <3>1. \A e \in Linked : /\ stored[e[1]] \subseteq stored'[e[1]]
                             /\ stored[e[2]] \subseteq stored'[e[2]]
        BY <2>2, TwoEnds
      <3> QED BY <1>1, <2>1, <3>1 DEF Stocked
    <2> QED BY <2>2, <2>3, <2>4, <2>5 DEF SyncInv
  <1> QED BY <1>2, <1>3

\* Every step of the nodes and of their connections preserves the invariant.
LEMMA NextInv == SyncInv /\ [Next]_vars => SyncInv'
  <1> SUFFICES ASSUME SyncInv, [Next]_vars PROVE SyncInv'
    OBVIOUS
  <1>1. ASSUME NEW e \in Linked,
               \/ Connect(e[1], e[2]) \/ Forward(e[1], e[2])
               \/ Handle(e[1], e[2])
        PROVE  SyncInv'
    <2>1. <<e[1], e[2]>> \in Linked
      BY TwoEnds
    <2> QED BY <1>1, <2>1, ConnectInv, ForwardInv, HandleInventoryInv,
               HandleGetDataInv, HandleBlockInv, HandleGetHeadersInv,
               HandleHeadersInv DEF Handle
  <1>2. ASSUME NEW d \in Dial, Disconnect(d[1], d[2]) PROVE SyncInv'
    <2>1. <<d[1], d[2]>> \in Dial
      BY SyncAssumption
    <2> QED BY <1>2, <2>1, DisconnectInv
  <1>3. ASSUME NEW n \in Node,
               RequestSync(n) \/ \E b \in Mined[n] : Mine(n, b)
        PROVE  SyncInv'
    BY <1>3, OwnStepInv
  <1>4. CASE UNCHANGED vars
    BY <1>4 DEF vars, SyncInv, TypeOK, StoredComplete, QueueServed, Stocked
  <1> QED BY <1>1, <1>2, <1>3, <1>4 DEF Next

\* handle_wire and the connection loops preserve types, complete branches,
\* served queues and stocked headers in every reachable state.
THEOREM Invariance == Spec => []SyncInv
  BY InitInv, NextInv, PTL DEF Spec

\* Types, for every graph of nodes and every tree of blocks: in particular a
\* node stores the whole chain it follows, and a node's channel never holds
\* more than its capacity.
THEOREM TypeCorrect == Spec => []TypeOK
  <1>1. SyncInv => TypeOK
    BY DEF SyncInv
  <1> QED BY <1>1, Invariance, PTL

\* submit_block: whatever peers send, in whatever order and however often
\* connections break, the branches a node stores lead to the genesis block.
THEOREM BranchesComplete == Spec => []StoredComplete
  <1>1. SyncInv => StoredComplete
    BY DEF SyncInv
  <1> QED BY <1>1, Invariance, PTL

\* handle_wire: a queue that is not empty has the request for its front, or
\* the block itself, on its way; no synchronization waits for nothing.
THEOREM QueuesServed == Spec => []QueueServed
  <1>1. SyncInv => QueueServed
    BY DEF SyncInv
  <1> QED BY <1>1, Invariance, PTL

-----------------------------------------------------------------------------
(* A chain, its heights and its locator.                                   *)

\* Chain::from_blocks: along a chain, heights and work grow, so that a chain
\* has one block of each height, and of two of its blocks the lower one is on
\* the chain of the other.
LEMMA ChainOrder ==
  ASSUME NEW b \in Block
  PROVE  \A c \in Anc[b] :
           /\ c = b \/ (Height[c] < Height[b] /\ CumWork[c] < CumWork[b])
           /\ \A d \in Anc[b] : Height[c] <= Height[d] => c \in Anc[d]
  <1> DEFINE Ordered(t) ==
               \A c \in Anc[t] :
                 /\ c = t \/ (Height[c] < Height[t] /\ CumWork[c] < CumWork[t])
                 /\ \A d \in Anc[t] : Height[c] <= Height[d] => c \in Anc[d]
             Bad == {k \in Nat : \E t \in Block : Height[t] = k /\ ~Ordered(t)}
  <1>1. SUFFICES Bad = {}
    BY HeightAssumption
  <1>2. SUFFICES ASSUME Bad # {} PROVE FALSE
    OBVIOUS
  <1>3. PICK k \in Bad : \A j \in Bad : k <= j
    <2>1. Bad \in SUBSET Nat
      OBVIOUS
    <2> HIDE DEF Bad
    <2> QED BY <1>2, <2>1, LeastNumber
  <1>4. PICK t \in Block : Height[t] = k /\ ~Ordered(t)
    BY <1>3
  <1>5. CASE t = Genesis
    <2>1. Anc[t] = {t} /\ Height[t] = 0
      BY <1>5, TreeAssumption, HeightAssumption
    <2> QED BY <1>4, <2>1
  <1>6. CASE t # Genesis
    <2> DEFINE p == Parent[t]
    <2>1. p \in Block /\ Anc[t] = Anc[p] \cup {t}
      BY <1>6, TreeAssumption
    <2>2. /\ Height[t] = Height[p] + 1 /\ Height[p] \in Nat
          /\ CumWork[p] < CumWork[t] /\ CumWork[p] \in Nat /\ CumWork[t] \in Nat
      <3>1. Work[t] \in Nat \ {0} /\ CumWork[t] = CumWork[p] + Work[t]
        BY <1>6, WorkAssumption
      <3> QED BY <1>6, <2>1, <3>1, HeightAssumption, WorkAssumption
    <2>3. Ordered(p)
      <3>1. Height[p] \notin Bad
        BY <1>3, <1>4, <2>2
      <3> QED BY <2>1, <2>2, <3>1
    <2>4. Proper(p) /\ Proper(t)
      BY <2>1, ChainsProper
    <2> HIDE DEF p, Bad
    <2>5. \A c \in Anc[p] : Height[c] \in Nat /\ CumWork[c] \in Nat
      BY <2>4, HeightAssumption, WorkAssumption DEF Proper
    <2>6. \A c \in Anc[p] : Height[c] < Height[t] /\ CumWork[c] < CumWork[t]
      BY <2>2, <2>3, <2>5
    <2>7. ASSUME NEW c \in Anc[t], NEW d \in Anc[t], Height[c] <= Height[d]
          PROVE  c \in Anc[d]
      <3>1. CASE d = t
        BY <3>1
      <3>2. CASE d \in Anc[p] /\ c \in Anc[p]
        BY <2>3, <2>7, <3>2
      <3>3. CASE d \in Anc[p] /\ c = t
        BY <2>2, <2>5, <2>6, <2>7, <3>3
      <3> QED BY <2>1, <3>1, <3>2, <3>3
    <2> QED BY <1>4, <2>1, <2>6, <2>7
  <1> QED BY <1>5, <1>6

\* Of two blocks of a chain, the one that is higher has the other on its chain;
\* blocks of the same height are the same.
LEMMA OneAtHeight ==
  ASSUME NEW b \in Block, NEW c \in Anc[b], NEW d \in Anc[b],
         Height[c] = Height[d]
  PROVE  c = d
  <1>1. c \in Block /\ d \in Block
    BY TreeAssumption
  <1>2. Height[c] \in Nat /\ Height[d] \in Nat
    BY <1>1, HeightAssumption
  <1>3. c \in Anc[d]
    BY <1>2, ChainOrder
  <1>4. c = d \/ Height[c] < Height[d]
    BY <1>1, <1>3, ChainOrder
  <1> QED BY <1>2, <1>4

\* A function on 0..n that is defined by linear steps.
LEMMA LinearSteps ==
  ASSUME NEW n \in Nat, NEW first \in Nat,
         NEW m \in [0..n -> Nat], NEW c \in [0..n -> Nat]
  PROVE  \E g \in [0..n -> Nat] :
           /\ g[0] = first
           /\ \A k \in 1..n : g[k] = m[k] * g[k - 1] + c[k]
  <1> DEFINE Fits(g, j) ==
               /\ g \in [0..n -> Nat] /\ g[0] = first
               /\ \A k \in 1..j : g[k] = m[k] * g[k - 1] + c[k]
             Bad == {j \in 0..n : ~\E g : Fits(g, j)}
  <1>1. Bad = {}
    <2> SUFFICES ASSUME Bad # {} PROVE FALSE
      OBVIOUS
    <2>1. PICK j \in Bad : \A i \in Bad : j <= i
      <3>1. Bad \in SUBSET Nat
        OBVIOUS
      <3> HIDE DEF Bad
      <3> QED BY <3>1, LeastNumber
    <2>2. CASE j = 0
      <3> DEFINE g == [k \in 0..n |-> first]
      <3>1. Fits(g, 0)
        OBVIOUS
      <3> HIDE DEF Fits, g
      <3> QED BY <2>1, <2>2, <3>1
    <2>3. CASE j # 0
      <3>1. j \in 1..n /\ j - 1 \in 0..n /\ ~(j <= j - 1) /\ j \in 0..n
        BY <2>1, <2>3
      <3>2. PICK g : Fits(g, j - 1)
        <4> HIDE DEF Fits
        <4> QED BY <2>1, <3>1
      <3>3. PICK v : v = m[j] * g[j - 1] + c[j]
        OBVIOUS
      <3>4. v \in Nat
        <4>1. m[j] \in Nat /\ c[j] \in Nat /\ g[j - 1] \in Nat
          BY <3>1, <3>2
        <4>2. \A x, y, z \in Nat : x * y + z \in Nat
          OBVIOUS
        <4> QED BY <3>3, <4>1, <4>2
      <3> DEFINE f == [g EXCEPT ![j] = v]
      <3>5. /\ f \in [0..n -> Nat] /\ f[j] = v
            /\ \A k \in 0..n : k # j => f[k] = g[k]
        BY <3>1, <3>2, <3>4
      <3> HIDE DEF f
      <3>6. f[0] = first
        BY <3>1, <3>2, <3>5
      <3>7. ASSUME NEW k \in 1..j PROVE f[k] = m[k] * f[k - 1] + c[k]
        <4>1. k \in 0..n /\ k - 1 \in 0..n /\ k - 1 # j
          BY <3>1
        <4>2. f[k - 1] = g[k - 1]
          BY <3>5, <4>1
        <4>3. CASE k = j
          BY <3>3, <3>5, <4>2, <4>3
        <4>4. CASE k # j
          <5>1. k \in 1..(j - 1) /\ f[k] = g[k]
            BY <3>1, <3>5, <4>1, <4>4
          <5> QED BY <3>2, <4>2, <5>1
        <4> QED BY <4>3, <4>4
      <3>8. Fits(f, j)
        BY <3>5, <3>6, <3>7
      <3> HIDE DEF Fits
      <3> QED BY <2>1, <3>8
    <2> QED BY <2>2, <2>3
  <1>2. \E g : Fits(g, n)
    <2>1. n \in 0..n
      OBVIOUS
    <2> HIDE DEF Fits
    <2> QED BY <1>1, <2>1
  <1> QED BY <1>2

\* block_locator ends at the genesis block.
LEMMA GenesisLocated ==
  ASSUME NEW t \in Block
  PROVE  Genesis \in Locator(t) /\ Locator(t) \subseteq Anc[t]
  <1> DEFINE h == Height[t]
             Steps(g) ==
               g = [k \in 0..h |-> IF k < DenseLocator THEN 1 ELSE 2 * g[k - 1]]
             step == CHOOSE g : Steps(g)
             Downs(g) ==
               g = [k \in 0..h |-> IF k = 0 THEN 0 ELSE g[k - 1] + step[k - 1]]
             down == CHOOSE g : Downs(g)
  <1>1. h \in Nat /\ DenseLocator \in Nat \ {0}
    BY HeightAssumption, SyncAssumption
  <1>2. LocatorHeights(h) = {IF down[k] < h THEN h - down[k] ELSE 0 : k \in 0..h}
    BY DEF LocatorHeights
  <1> HIDE DEF h
  <1>3. \E g \in [0..h -> Nat] : Steps(g)
    <2> DEFINE m == [k \in 0..h |-> IF k < DenseLocator THEN 0 ELSE 2]
               c == [k \in 0..h |-> IF k < DenseLocator THEN 1 ELSE 0]
    <2>1. m \in [0..h -> Nat] /\ c \in [0..h -> Nat]
      OBVIOUS
    <2>2. \A k \in 0..h : /\ k < DenseLocator => m[k] = 0 /\ c[k] = 1
                          /\ ~(k < DenseLocator) => m[k] = 2 /\ c[k] = 0
      OBVIOUS
    <2> HIDE DEF m, c
    <2>3. PICK g \in [0..h -> Nat] :
            /\ g[0] = 1 /\ \A k \in 1..h : g[k] = m[k] * g[k - 1] + c[k]
      <3> HIDE DEF Steps, step, Downs, down
      <3>1. \A n, d \in Nat : \A a, b \in [0..n -> Nat] :
              \E g \in [0..n -> Nat] :
                 /\ g[0] = d
                 /\ \A k \in 1..n : g[k] = a[k] * g[k - 1] + b[k]
        BY LinearSteps, Zenon
      <3>2. h \in Nat /\ 1 \in Nat
        BY <1>1
      <3> QED BY <2>1, <3>1, <3>2, ZenonT(40)
    <2>4. ASSUME NEW k \in 0..h
          PROVE  g[k] = IF k < DenseLocator THEN 1 ELSE 2 * g[k - 1]
      <3>1. CASE k = 0
        BY <1>1, <2>3, <3>1
      <3>2. CASE k # 0
        <4>1. k \in 1..h /\ k - 1 \in 0..h
          BY <1>1, <3>2
        <4>2. g[k] = m[k] * g[k - 1] + c[k] /\ g[k - 1] \in Nat
          BY <2>3, <4>1
        <4>3. CASE k < DenseLocator
          BY <2>2, <4>2, <4>3
        <4>4. CASE ~(k < DenseLocator)
          BY <2>2, <4>2, <4>4
        <4> QED BY <4>3, <4>4
      <3> QED BY <3>1, <3>2
    <2>5. g = [k \in 0..h |-> g[k]]
      BY <2>3
    <2>6. Steps(g)
      BY <2>4, <2>5
    <2> QED BY <2>3, <2>6
  <1>4. Steps(step)
    <2> HIDE DEF Steps
    <2> QED BY <1>3
  <1> HIDE DEF step
  <1>5. \A k \in 0..h : step[k] = IF k < DenseLocator THEN 1 ELSE 2 * step[k - 1]
    BY <1>4
  <1>6. \A k \in 0..h : step[k] \in Nat \ {0}
    <2> DEFINE Bad == {k \in 0..h : step[k] \notin Nat \ {0}}
    <2> SUFFICES ASSUME Bad # {} PROVE FALSE
      OBVIOUS
    <2>1. PICK k \in Bad : \A j \in Bad : k <= j
      <3>1. Bad \in SUBSET Nat
        BY <1>1
      <3> HIDE DEF Bad
      <3> QED BY <3>1, LeastNumber
    <2>2. k \in 0..h /\ step[k] \notin Nat \ {0}
      BY <2>1
    <2>3. ~(k < DenseLocator) /\ step[k] = 2 * step[k - 1]
      BY <1>5, <2>2
    <2>4. k - 1 \in 0..h /\ ~(k <= k - 1)
      BY <1>1, <2>2, <2>3
    <2>5. step[k - 1] \in Nat \ {0}
      BY <2>1, <2>4
    <2> QED BY <2>2, <2>3, <2>5
  <1>7. \E g \in [0..h -> Nat] : Downs(g)
    <2> DEFINE m == [k \in 0..h |-> 1]
               c == [k \in 0..h |-> IF k = 0 THEN 0 ELSE step[k - 1]]
    <2>1. m \in [0..h -> Nat] /\ c \in [0..h -> Nat]
      <3>1. \A k \in 0..h : k # 0 => step[k - 1] \in Nat
        BY <1>1, <1>6
      <3> QED BY <3>1
    <2>2. \A k \in 1..h : m[k] = 1 /\ c[k] = step[k - 1] /\ step[k - 1] \in Nat
      BY <1>1, <1>6
    <2> HIDE DEF m, c
    <2>3. PICK g \in [0..h -> Nat] :
            /\ g[0] = 0 /\ \A k \in 1..h : g[k] = m[k] * g[k - 1] + c[k]
      <3> HIDE DEF Downs, down
      <3>1. \A n, d \in Nat : \A a, b \in [0..n -> Nat] :
              \E g \in [0..n -> Nat] :
                 /\ g[0] = d
                 /\ \A k \in 1..n : g[k] = a[k] * g[k - 1] + b[k]
        BY LinearSteps, Zenon
      <3>2. h \in Nat /\ 0 \in Nat
        BY <1>1
      <3> QED BY <2>1, <3>1, <3>2, ZenonT(40)
    <2>4. ASSUME NEW k \in 0..h
          PROVE  g[k] = IF k = 0 THEN 0 ELSE g[k - 1] + step[k - 1]
      <3>1. CASE k = 0
        BY <2>3, <3>1
      <3>2. CASE k # 0
        <4>1. k \in 1..h /\ k - 1 \in 0..h
          BY <1>1, <3>2
        <4>2. g[k] = m[k] * g[k - 1] + c[k] /\ g[k - 1] \in Nat
          BY <2>3, <4>1
        <4> QED BY <2>2, <3>2, <4>1, <4>2
      <3> QED BY <3>1, <3>2
    <2>5. g = [k \in 0..h |-> g[k]]
      BY <2>3
    <2>6. Downs(g)
      BY <2>4, <2>5
    <2> QED BY <2>3, <2>6
  <1>8. Downs(down)
    <2> HIDE DEF Downs
    <2> QED BY <1>7
  <1> HIDE DEF down
  <1>9. \A k \in 0..h : down[k] = IF k = 0 THEN 0 ELSE down[k - 1] + step[k - 1]
    BY <1>8
  <1>10. \A k \in 0..h : down[k] \in Nat /\ down[k] >= k
    <2> DEFINE Bad == {k \in 0..h : ~(down[k] \in Nat /\ down[k] >= k)}
    <2> SUFFICES ASSUME Bad # {} PROVE FALSE
      OBVIOUS
    <2>1. PICK k \in Bad : \A j \in Bad : k <= j
      <3>1. Bad \in SUBSET Nat
        BY <1>1
      <3> HIDE DEF Bad
      <3> QED BY <3>1, LeastNumber
    <2>2. k \in 0..h /\ ~(down[k] \in Nat /\ down[k] >= k)
      BY <2>1
    <2>3. k # 0 /\ down[k] = down[k - 1] + step[k - 1]
      BY <1>9, <2>2
    <2>4. k - 1 \in 0..h /\ ~(k <= k - 1)
      BY <1>1, <2>2, <2>3
    <2>5. down[k - 1] \in Nat /\ down[k - 1] >= k - 1 /\ step[k - 1] \in Nat \ {0}
      BY <1>6, <2>1, <2>4
    <2> QED BY <2>2, <2>3, <2>5
  <1>11. 0 \in LocatorHeights(h)
    <2>1. h \in 0..h /\ ~(down[h] < h)
      BY <1>1, <1>10
    <2> QED BY <1>2, <2>1
  <1>12. Genesis \in Anc[t] /\ Height[Genesis] = 0
    BY ChainsProper, HeightAssumption DEF Proper
  <1> QED BY <1>11, <1>12 DEF Locator, h

-----------------------------------------------------------------------------
(* Headers and queues that lead to a block.                                *)

\* The blocks of q, one after the other, lead a node that has the blocks `have`
\* to block b: each finds its ancestors there, or earlier in q.
Leads(q, have, b) ==
  /\ q # <<>> /\ q[Len(q)] = b
  /\ \A i \in DOMAIN q : Anc[q[i]] \subseteq have \cup {q[k] : k \in 1..i}

\* The answer to a locator of known blocks, the genesis block among them, leads
\* to the tip of the chain it is from, unless the batch is too short for it.
LEMMA HeadersLead ==
  ASSUME NEW t \in Block, NEW locator, NEW have,
         Genesis \in locator, locator \subseteq have, have \subseteq Block,
         \A b \in have : Anc[b] \subseteq have, t \notin have,
         Height[t] <= MaxHeaders
  PROVE  /\ Leads(HeadersAfter(t, locator), have, t)
         /\ HeadersAfter(t, locator)[1] # Genesis
  <1> DEFINE top == Height[t]
             common == {Height[b] : b \in locator \cap Anc[t]}
             start == FirstHeight(t, locator)
             last == IF start + MaxHeaders - 1 < top
                     THEN start + MaxHeaders - 1 ELSE top
             ids == HeadersAfter(t, locator)
  <1>1. Proper(t) /\ top \in Nat
    BY ChainsProper, HeightAssumption
  <1>2. common \subseteq 0..top /\ 0 \in common
    <2>1. Genesis \in locator \cap Anc[t] /\ Height[Genesis] = 0
      BY <1>1, HeightAssumption DEF Proper
    <2> QED BY <1>1, <2>1, HeightAssumption DEF Proper
  <1>3. PICK c \in locator \cap Anc[t] :
          /\ Height[c] < top /\ Height[c] \in Nat
          /\ start = Height[c] + 1
    <2> DEFINE high == CHOOSE k \in common : \A j \in common : j <= k
               low == {k \in 0..top : top - k \in common}
    <2>1. start = 1 + high
      BY <1>2 DEF FirstHeight
    <2> HIDE DEF start
    <2>2. PICK k \in low : \A j \in low : k <= j
      <3>1. top \in low
        BY <1>1, <1>2
      <3>2. low \in SUBSET Nat
        OBVIOUS
      <3> HIDE DEF low
      <3> QED BY <3>1, <3>2, LeastNumber
    <2>3. top - k \in common /\ \A j \in common : j <= top - k
      <3>1. k \in 0..top /\ top - k \in common
        BY <2>2
      <3>2. ASSUME NEW j \in common PROVE j <= top - k
        <4>1. j \in 0..top
          BY <1>2
        <4> HIDE DEF common, top
        <4>2. top - j \in 0..top /\ top - (top - j) = j
          BY <1>1, <4>1
        <4>3. top - j \in low
          BY <4>2
        <4>4. k <= top - j
          BY <2>2, <4>3
        <4> QED BY <1>1, <3>1, <4>1, <4>4
      <3> QED BY <3>1, <3>2
    <2>4. high \in common
      <3> HIDE DEF common
      <3> QED BY <2>3
    <2>5. PICK c \in locator \cap Anc[t] : Height[c] = high
      BY <2>4
    <2>6. c # t /\ Height[c] \in Nat
      BY HeightAssumption
    <2>7. Height[c] < top
      BY <2>6, ChainOrder
    <2> HIDE DEF high
    <2> QED BY <2>1, <2>5, <2>6, <2>7
  <1>4. c \in have /\ c \in Anc[t] /\ Anc[c] \subseteq have
    BY <1>3
  <1>5. last = top
    <2> HIDE DEF start, top
    <2> QED BY <1>1, <1>3, SyncAssumption DEF top
  <1>6. ids = [i \in 1..(last - start + 1) |->
                 CHOOSE b \in Anc[t] : Height[b] = start + i - 1]
    BY DEF HeadersAfter
  <1> DEFINE len == top - Height[c]
             block(i) == CHOOSE b \in Anc[t] : Height[b] = start + i - 1
  <1> HIDE DEF ids, start, last, top, common
  <1>7. len \in Nat \ {0} /\ last - start + 1 = len
    BY <1>1, <1>3, <1>5
  <1>8. ids = [i \in 1..len |-> block(i)]
    BY <1>6, <1>7
  <1>9. \A i \in 1..len : block(i) \in Anc[t] /\ Height[block(i)] = Height[c] + i
    <2> SUFFICES ASSUME NEW i \in 1..len
                 PROVE  block(i) \in Anc[t] /\ Height[block(i)] = Height[c] + i
      OBVIOUS
    <2>1. start + i - 1 \in 0..top /\ start + i - 1 = Height[c] + i
      BY <1>1, <1>3
    <2>2. \E b \in Anc[t] : Height[b] = start + i - 1
      BY <1>1, <2>1 DEF Proper, top
    <2> QED BY <2>1, <2>2
  <1> HIDE DEF block, len
  <1>10. /\ ids # <<>> /\ Len(ids) = len /\ DOMAIN ids = 1..len
         /\ \A i \in 1..len : /\ ids[i] \in Anc[t]
                              /\ Height[ids[i]] = Height[c] + i
    <2>1. \A i \in 1..len : ids[i] = block(i)
      BY <1>8
    <2>2. Len(ids) = len /\ DOMAIN ids = 1..len
      BY <1>7, <1>8
    <2>3. ids # <<>>
      BY <1>7, <2>2
    <2> QED BY <1>9, <2>1, <2>2, <2>3
  <1>11. ids[len] = t
    <2>1. len \in 1..len /\ Height[c] + len = Height[t]
      BY <1>1, <1>3, <1>7 DEF len, top
    <2>2. t \in Anc[t]
      BY <1>1 DEF Proper
    <2> QED BY <1>10, <2>1, <2>2, OneAtHeight
  <1>12. ASSUME NEW i \in 1..len, NEW d \in Anc[ids[i]]
         PROVE  d \in have \cup {ids[k] : k \in 1..i}
    <2>1. ids[i] \in Anc[t] /\ Height[ids[i]] = Height[c] + i
      BY <1>10
    <2>2. d \in Anc[t] /\ ids[i] \in Block
      BY <1>1, <2>1 DEF Proper
    <2>3. Height[d] \in Nat /\ Height[d] <= Height[c] + i
      <3>1. Proper(ids[i])
        BY <2>2, ChainsProper
      <3> QED BY <2>1, <2>2, <3>1, TreeAssumption, HeightAssumption DEF Proper
    <2>4. CASE Height[d] <= Height[c]
      <3>1. d \in Anc[c]
        BY <1>4, <2>2, <2>4, ChainOrder
      <3> QED BY <1>4, <3>1
    <2>5. CASE ~(Height[d] <= Height[c])
      <3> DEFINE k == Height[d] - Height[c]
      <3>1. k \in 1..i /\ k \in 1..len /\ Height[c] + k = Height[d]
        BY <1>3, <1>7, <2>3, <2>5
      <3> HIDE DEF k
      <3>2. ids[k] \in Anc[t] /\ Height[ids[k]] = Height[d]
        BY <1>10, <3>1
      <3>3. d = ids[k]
        BY <2>2, <3>2, OneAtHeight
      <3> QED BY <3>1, <3>3
    <2> QED BY <2>4, <2>5
  <1>13. Leads(ids, have, t)
    BY <1>10, <1>11, <1>12 DEF Leads
  <1>14. ids[1] # Genesis
    <2>1. 1 \in 1..len
      BY <1>7
    <2>2. Height[ids[1]] = Height[c] + 1
      BY <1>10, <2>1
    <2> QED BY <1>3, <2>2, HeightAssumption
  <1> QED BY <1>13, <1>14 DEF ids

\* The first block that leads to another one stands on a known parent.
LEMMA FirstStands ==
  ASSUME NEW q \in Seq(Block), NEW have, NEW b, Leads(q, have, b)
  PROVE  /\ q[1] \in Block /\ Anc[q[1]] \subseteq have \cup {q[1]}
         /\ q[1] # Genesis => Parent[q[1]] \in have
  <1>1. 1 \in DOMAIN q /\ q[1] \in Block
    BY DEF Leads
  <1>2. Anc[q[1]] \subseteq have \cup {q[1]}
    <2>1. Anc[q[1]] \subseteq have \cup {q[k] : k \in 1..1}
      BY <1>1 DEF Leads
    <2>2. \A k \in 1..1 : k = 1
      OBVIOUS
    <2> QED BY <2>1, <2>2
  <1>3. ASSUME q[1] # Genesis PROVE Parent[q[1]] \in have
    <2>1. Parent[q[1]] \in Block /\ Anc[q[1]] = Anc[Parent[q[1]]] \cup {q[1]}
      BY <1>1, <1>3, TreeAssumption
    <2>2. Parent[q[1]] \in Anc[q[1]]
      BY <2>1, ChainsProper DEF Proper
    <2>3. Height[q[1]] = Height[Parent[q[1]]] + 1 /\ Height[Parent[q[1]]] \in Nat
      BY <1>1, <1>3, <2>1, HeightAssumption
    <2>4. Parent[q[1]] # q[1]
      BY <2>3
    <2> QED BY <1>2, <2>2, <2>4
  <1> QED BY <1>1, <1>2, <1>3

\* What leads to a block still does after its first block arrived.
LEMMA RestLeads ==
  ASSUME NEW q \in Seq(Block), NEW have, NEW b, Leads(q, have, b),
         NEW more, have \subseteq more, q[1] \in more, b \notin more
  PROVE  Tail(q) # <<>> /\ Leads(Tail(q), more, b)
  <1>1. q # <<>> /\ q[Len(q)] = b /\ Len(q) \in Nat
    BY DEF Leads
  <1>2. /\ Len(Tail(q)) = Len(q) - 1 /\ DOMAIN Tail(q) = 1..(Len(q) - 1)
        /\ DOMAIN q = 1..Len(q)
        /\ \A i \in 1..(Len(q) - 1) : Tail(q)[i] = q[i + 1]
    BY <1>1
  <1>3. Len(q) > 1
    BY <1>1, <1>2
  <1>4. Tail(q) # <<>> /\ Tail(q)[Len(Tail(q))] = b
    <2>1. Len(q) - 1 \in 1..(Len(q) - 1) /\ (Len(q) - 1) + 1 = Len(q)
      BY <1>1, <1>3
    <2>2. Tail(q)[Len(q) - 1] = q[Len(q)]
      BY <1>2, <2>1
    <2>3. Tail(q) # <<>>
      BY <1>2, <2>1
    <2> QED BY <1>1, <1>2, <2>2, <2>3
  <1>5. ASSUME NEW i \in DOMAIN Tail(q)
        PROVE  Anc[Tail(q)[i]] \subseteq more \cup {Tail(q)[k] : k \in 1..i}
    <2>1. i + 1 \in DOMAIN q /\ Tail(q)[i] = q[i + 1] /\ i \in Nat
      BY <1>1, <1>2
    <2>2. Anc[q[i + 1]] \subseteq have \cup {q[k] : k \in 1..(i + 1)}
      BY <2>1 DEF Leads
    <2>3. ASSUME NEW k \in 1..(i + 1), k # 1
          PROVE  q[k] \in {Tail(q)[j] : j \in 1..i}
      <3>1. k - 1 \in 1..i /\ k - 1 \in 1..(Len(q) - 1) /\ (k - 1) + 1 = k
        BY <1>1, <1>2, <2>1, <2>3
      <3>2. Tail(q)[k - 1] = q[k]
        BY <1>2, <3>1
      <3> QED BY <3>1, <3>2
    <2> QED BY <2>1, <2>2, <2>3, SMTT(30)
  <1> QED BY <1>4, <1>5 DEF Leads

\* The filter of known blocks keeps what leads to an unknown one.
LEMMA UnknownLeads ==
  ASSUME NEW ids \in Seq(Block), NEW have, NEW b, Leads(ids, have, b),
         b \notin have
  PROVE  Leads(Unknown(ids, have), have, b)
  <1> DEFINE S == {ids[i] : i \in DOMAIN ids}
  <1>n. Len(ids) \in Nat \ {0} /\ DOMAIN ids = 1..Len(ids) /\ ids[Len(ids)] = b
    BY DEF Leads
  <1>1. PICK f : /\ f[0] = <<>> /\ Unknown(ids, have) = f[Len(ids)]
                 /\ \A k \in 1..Len(ids) :
                      f[k] = IF ids[k] \in have THEN f[k - 1]
                             ELSE Append(f[k - 1], ids[k])
    BY UnknownSteps
  <1> DEFINE Kept(k) == {f[k][i] : i \in DOMAIN f[k]}
             Good(k) ==
               /\ f[k] \in Seq(Block)
               /\ \A i \in 1..k : ids[i] \in have \cup Kept(k)
               /\ \A i \in DOMAIN f[k] :
                    Anc[f[k][i]] \subseteq have \cup {f[k][j] : j \in 1..i}
             Bad == {k \in 0..Len(ids) : ~Good(k)}
  <1>2. Bad = {}
    <2> SUFFICES ASSUME Bad # {} PROVE FALSE
      OBVIOUS
    <2>1. PICK k \in Bad : \A j \in Bad : k <= j
      <3>1. Bad \in SUBSET Nat
        BY <1>n
      <3> HIDE DEF Bad
      <3> QED BY <3>1, LeastNumber
    <2>2. CASE k = 0
      <3>1. f[0] = <<>> /\ DOMAIN f[0] = {} /\ f[0] \in Seq(Block)
        BY <1>1
      <3>2. Good(0)
        BY <3>1
      <3> QED BY <2>1, <2>2, <3>2
    <2>3. CASE k # 0
      <3>1. /\ k \in 1..Len(ids) /\ k - 1 \in 0..Len(ids) /\ k \in Nat
            /\ ~(k <= k - 1)
        BY <1>n, <2>1, <2>3
      <3>2. Good(k - 1)
        BY <2>1, <3>1
      <3> DEFINE g == f[k - 1]
      <3>3. /\ g \in Seq(Block)
            /\ \A i \in 1..(k - 1) :
                 ids[i] \in have \cup {g[j] : j \in DOMAIN g}
            /\ \A i \in DOMAIN g :
                 Anc[g[i]] \subseteq have \cup {g[j] : j \in 1..i}
        BY <3>2
      <3>4. f[k] = IF ids[k] \in have THEN g ELSE Append(g, ids[k])
        BY <1>1, <3>1
      <3>5. \A i \in 1..k : i = k \/ i \in 1..(k - 1)
        BY <3>1
      <3> HIDE DEF g, Bad, Good
      <3>6. CASE ids[k] \in have
        <4>1. f[k] = g
          BY <3>4, <3>6
        <4>2. Good(k)
          BY <3>3, <3>5, <3>6, <4>1 DEF Good
        <4> QED BY <2>1, <4>2 DEF Bad
      <3>7. CASE ids[k] \notin have
        <4> DEFINE r == Append(g, ids[k])
        <4>1. ids[k] \in Block
          BY <1>n, <3>1
        <4>2. /\ r \in Seq(Block) /\ Len(r) = Len(g) + 1 /\ Len(g) \in Nat
              /\ DOMAIN r = 1..(Len(g) + 1) /\ DOMAIN g = 1..Len(g)
              /\ r[Len(g) + 1] = ids[k]
              /\ \A i \in 1..Len(g) : r[i] = g[i]
          BY <3>3, <4>1
        <4>3. f[k] = r
          BY <3>4, <3>7
        <4> HIDE DEF r
        <4>4. /\ \A j \in DOMAIN g : g[j] \in {r[i] : i \in DOMAIN r}
              /\ ids[k] \in {r[i] : i \in DOMAIN r}
          <5>1. Len(g) + 1 \in DOMAIN r /\ \A j \in DOMAIN g : j \in DOMAIN r
            BY <4>2
          <5> QED BY <4>2, <5>1
        <4>5. \A i \in 1..k : ids[i] \in have \cup {r[j] : j \in DOMAIN r}
          BY <3>3, <3>5, <4>4
        <4>6. ASSUME NEW i \in DOMAIN r
              PROVE  Anc[r[i]] \subseteq have \cup {r[j] : j \in 1..i}
          <5>1. CASE i \in 1..Len(g)
            <6>1. \A j \in 1..i : j \in 1..Len(g)
              BY <4>2, <5>1
            <6>2. {g[j] : j \in 1..i} = {r[j] : j \in 1..i} /\ r[i] = g[i]
              BY <4>2, <5>1, <6>1
            <6> QED BY <3>3, <4>2, <5>1, <6>2
          <5>2. CASE i = Len(g) + 1
            <6>1. Anc[ids[k]] \subseteq have \cup {ids[j] : j \in 1..k}
              BY <1>n, <3>1 DEF Leads
            <6>2. {r[j] : j \in DOMAIN r} = {r[j] : j \in 1..i}
              BY <4>2, <5>2
            <6> QED BY <4>2, <4>5, <5>2, <6>1, <6>2
          <5> QED BY <4>2, <5>1, <5>2
        <4>7. Good(k)
          BY <4>2, <4>3, <4>5, <4>6 DEF Good
        <4> QED BY <2>1, <4>7 DEF Bad
      <3> QED BY <3>6, <3>7
    <2> QED BY <2>2, <2>3
  <1> DEFINE n == Len(ids)
  <1>3. Good(n) /\ Good(n - 1) /\ n \in 1..n
    <2> HIDE DEF Good
    <2>1. n \in 1..n /\ n \in 0..n /\ n - 1 \in 0..n
      BY <1>n
    <2> QED BY <1>2, <2>1
  <1>4. f[n] = Append(f[n - 1], b)
    BY <1>1, <1>n, <1>3
  <1>5. f[n] # <<>> /\ f[n][Len(f[n])] = b
    <2>1. f[n - 1] \in Seq(Block) /\ b \in Block
      BY <1>3, <1>n
    <2> HIDE DEF n, Good
    <2>2. \A s \in Seq(Block), x \in Block :
            Append(s, x) # <<>> /\ Append(s, x)[Len(Append(s, x))] = x
      OBVIOUS
    <2> QED BY <1>4, <2>1, <2>2
  <1> QED BY <1>1, <1>3, <1>5 DEF Leads

-----------------------------------------------------------------------------
(* A node whose chain the others draw.                                     *)

\* A node with a preferred start to which every other node has its only
\* connection, and whose chain fits into one batch of headers.
Seed(h) ==
  /\ h \in Node
  /\ \A d \in Dial : h \in {d[1], d[2]}
  /\ \A n \in Node \ {h} : <<n, h>> \in Linked
  /\ \A n \in Node : Start[n] = Start[h] \/ Preferred(Start[h], Start[n])
  /\ Height[Start[h]] <= MaxHeaders

\* The blocks of the chains the nodes open with.
Opened == UNION {Anc[Start[n]] : n \in Node}

\* A node keeps what it opened with and gets nothing but what others opened
\* with; it follows the preferred start as soon as it stores it.
Drawn(h) ==
  \A n \in Node :
    /\ Anc[Start[n]] \subseteq stored[n] /\ stored[n] \subseteq Opened
    /\ Start[h] \in stored[n] => tip[n] = Start[h]

\* No block is preferred to the preferred start.
LEMMA BestOpened ==
  ASSUME NEW h, Seed(h), NEW b \in Opened
  PROVE  /\ b \in Block /\ Start[h] \in Block
         /\ ~(CumWork[b] > CumWork[Start[h]])
         /\ ~Preferred(b, Start[h])
         /\ b # Start[h] => Preferred(Start[h], b)
  <1>1. PICK n \in Node : b \in Anc[Start[n]]
    BY DEF Opened
  <1>2. Start[n] \in Block /\ Start[h] \in Block
    BY SyncAssumption DEF Seed
  <1>3. b \in Block
    BY <1>1, <1>2, TreeAssumption
  <1>4. b = Start[n] \/ CumWork[b] < CumWork[Start[n]]
    BY <1>1, <1>2, ChainOrder
  <1>5. Start[n] = Start[h] \/ Preferred(Start[h], Start[n])
    BY DEF Seed
  <1>6. /\ \A x \in {b, Start[n], Start[h]} : CumWork[x] \in Nat /\ Rank[x] \in Nat
        /\ b # Start[h] => Rank[b] # Rank[Start[h]]
    BY <1>2, <1>3, WorkAssumption, RankAssumption
  <1> QED BY <1>2, <1>3, <1>4, <1>5, <1>6 DEF Preferred

\* submit_block of a block that some node opened with: a node on the preferred
\* start stays there, and another one moves there with its last block.
LEMMA SubmitDrawn ==
  ASSUME NEW h, Seed(h), SyncInv, Drawn(h), NEW n \in Node, NEW b \in Opened,
         SubmitBlock(n, b)
  PROVE  /\ Drawn(h)'
         /\ \A k \in Node : k # n => stored'[k] = stored[k]
         /\ stored[n] \subseteq stored'[n]
         /\ Outcome(n, b) # "Err" => b \in stored'[n]
         /\ Start[h] \in stored[n] => events' = events
         /\ events' = events \/ events' = Broadcast(n, Inventory(b))
  <1> DEFINE s == Start[h]
             o == Outcome(n, b)
  <1>1. /\ tip \in [Node -> Block] /\ stored \in [Node -> SUBSET Block]
        /\ Anc[tip[n]] \subseteq stored[n] /\ tip[n] \in stored[n]
    <2>1. tip[n] \in Anc[tip[n]]
      BY ChainsProper DEF SyncInv, TypeOK, Proper
    <2> QED BY <2>1 DEF SyncInv, TypeOK
  <1>2. \A c \in Opened : /\ c \in Block /\ s \in Block
                          /\ ~(CumWork[c] > CumWork[s])
                          /\ ~Preferred(c, s)
                          /\ c # s => Preferred(s, c)
    BY BestOpened
  <1>3. o \in {"Known", "Extended", "Err", "Reorganized", "SideChain"}
    BY DEF Outcome
  <1>4. /\ tip' = IF o \in {"Extended", "Reorganized"}
                  THEN [tip EXCEPT ![n] = b] ELSE tip
        /\ stored' = IF o \in {"Err", "Known"} THEN stored
                     ELSE [stored EXCEPT ![n] = @ \cup {b}]
        /\ events' = IF o \in {"Extended", "Reorganized"}
                     THEN Broadcast(n, Inventory(b)) ELSE events
    BY DEF SubmitBlock
  <1>5. tip[n] = s => o \notin {"Extended", "Reorganized"}
    <2> SUFFICES ASSUME tip[n] = s PROVE o \notin {"Extended", "Reorganized"}
      OBVIOUS
    <2>1. o # "Reorganized"
      BY <1>2 DEF Outcome
    <2>2. ASSUME o = "Extended" PROVE FALSE
      <3>1. b \notin Anc[s] /\ Parent[b] = s
        BY <2>2 DEF Outcome
      <3>2. b \in Block /\ Genesis \in Anc[s] /\ s \in Block
        BY <1>2, ChainsProper DEF Proper
      <3>3. b # Genesis
        BY <3>1, <3>2
      <3>4. CumWork[b] = CumWork[s] + Work[b] /\ Work[b] \in Nat \ {0}
            /\ CumWork[s] \in Nat
        BY <3>1, <3>2, <3>3, WorkAssumption
      <3> QED BY <1>2, <3>4
    <2> QED BY <2>1, <2>2
  <1>6. o = "Known" => b \in stored[n]
    BY <1>1 DEF Outcome
  <1>7. o = "SideChain" => ~Preferred(b, tip[n])
    BY DEF Outcome
  <1>8. /\ \A k \in Node : Anc[Start[k]] \subseteq stored[k]
                           /\ stored[k] \subseteq Opened
        /\ \A k \in Node : s \in stored[k] => tip[k] = s
    BY DEF Drawn
  <1> HIDE DEF s, o
  <1>9. /\ stored'[n] \subseteq stored[n] \cup {b} /\ stored[n] \subseteq stored'[n]
        /\ \A k \in Node : k # n => stored'[k] = stored[k] /\ tip'[k] = tip[k]
        /\ o # "Err" => b \in stored'[n]
    BY <1>1, <1>3, <1>4, <1>6
  <1>10. s \in stored'[n] => tip'[n] = s
    <2>1. CASE s \in stored[n]
      BY <1>4, <1>5, <1>8, <2>1
    <2>2. CASE s \notin stored[n] /\ s \in stored'[n]
      <3>1. b = s /\ o \notin {"Err", "Known"}
        BY <1>4, <1>9, <2>2
      <3>2. tip[n] \in Opened /\ tip[n] # s
        BY <1>1, <1>8, <2>2
      <3>3. Preferred(b, tip[n])
        BY <1>2, <3>1, <3>2
      <3>4. o \in {"Extended", "Reorganized"}
        BY <1>3, <1>7, <3>1, <3>3
      <3> QED BY <1>1, <1>4, <3>1, <3>4
    <2> QED BY <2>1, <2>2
  <1>11. Drawn(h)'
    <2> SUFFICES ASSUME NEW k \in Node
                 PROVE  /\ Anc[Start[k]] \subseteq stored'[k]
                        /\ stored'[k] \subseteq Opened
                        /\ s \in stored'[k] => tip'[k] = s
      BY DEF Drawn, Opened, s
    <2>1. CASE k = n
      BY <1>8, <1>9, <1>10, <2>1
    <2>2. CASE k # n
      BY <1>8, <1>9, <2>2
    <2> QED BY <2>1, <2>2
  <1>12. s \in stored[n] => events' = events
    BY <1>4, <1>5, <1>8
  <1> QED BY <1>4, <1>9, <1>11, <1>12 DEF s, o

-----------------------------------------------------------------------------
(* Messages of some types among others.                                    *)

\* No message of s has one of the types T.
Without(s, T) == \A k \in DOMAIN s : s[k].type \notin T

\* x is the only message of s that has one of the types T.
Single(s, T, x) ==
  \E k \in DOMAIN s : /\ s[k] = x /\ x.type \in T
                      /\ \A j \in DOMAIN s : s[j].type \in T => j = k

\* What is appended to a channel.
LEMMA AppendedTypes ==
  ASSUME NEW M, NEW s \in Seq(M), NEW r \in Seq(M), NEW T
  PROVE  /\ Without(s, T) /\ Without(r, T) => Without(s \o r, T)
         /\ \A x : Single(s, T, x) /\ Without(r, T) => Single(s \o r, T, x)
         /\ \A x : Without(s, T) /\ Single(r, T, x) => Single(s \o r, T, x)
  <1> DEFINE c == s \o r
  <1>1. /\ DOMAIN s = 1..Len(s) /\ DOMAIN r = 1..Len(r)
        /\ Len(s) \in Nat /\ Len(r) \in Nat
        /\ DOMAIN c = 1..(Len(s) + Len(r))
        /\ \A i \in 1..Len(s) : c[i] = s[i]
        /\ \A i \in 1..Len(r) : c[Len(s) + i] = r[i]
    OBVIOUS
  <1> HIDE DEF c
  <1>2. \A j \in DOMAIN c :
          \/ j \in DOMAIN s /\ c[j] = s[j]
          \/ \E i \in DOMAIN r : j = Len(s) + i /\ c[j] = r[i]
    <2> SUFFICES ASSUME NEW j \in DOMAIN c, j \notin DOMAIN s
                 PROVE  \E i \in DOMAIN r : j = Len(s) + i /\ c[j] = r[i]
      BY <1>1
    <2>1. j - Len(s) \in DOMAIN r /\ j = Len(s) + (j - Len(s))
      BY <1>1
    <2>2. c[Len(s) + (j - Len(s))] = r[j - Len(s)]
      BY <1>1, <2>1
    <2> QED BY <2>1, <2>2
  <1>3. ASSUME Without(s, T), Without(r, T) PROVE Without(c, T)
    BY <1>2, <1>3 DEF Without
  <1>4. ASSUME NEW x, Single(s, T, x), Without(r, T) PROVE Single(c, T, x)
    <2>1. PICK k \in DOMAIN s :
            /\ s[k] = x /\ x.type \in T
            /\ \A j \in DOMAIN s : s[j].type \in T => j = k
      BY <1>4 DEF Single
    <2>2. k \in DOMAIN c /\ c[k] = x
      BY <1>1, <2>1
    <2>3. \A j \in DOMAIN c : c[j].type \in T => j = k
      BY <1>2, <1>4, <2>1 DEF Without
    <2> QED BY <2>1, <2>2, <2>3 DEF Single
  <1>5. ASSUME NEW x, Without(s, T), Single(r, T, x) PROVE Single(c, T, x)
    <2>1. PICK k \in DOMAIN r :
            /\ r[k] = x /\ x.type \in T
            /\ \A j \in DOMAIN r : r[j].type \in T => j = k
      BY <1>5 DEF Single
    <2>2. Len(s) + k \in DOMAIN c /\ c[Len(s) + k] = x
      BY <1>1, <2>1
    <2>3. \A j \in DOMAIN c : c[j].type \in T => j = Len(s) + k
      BY <1>2, <1>5, <2>1 DEF Without
    <2> QED BY <2>1, <2>2, <2>3 DEF Single
  <1> QED BY <1>3, <1>4, <1>5 DEF c

\* What is left of a channel.
LEMMA RemainingTypes ==
  ASSUME NEW M, NEW s \in Seq(M), s # <<>>, NEW T
  PROVE  /\ Without(s, T) => Without(Tail(s), T) /\ Head(s).type \notin T
         /\ \A x : Single(s, T, x) =>
              \/ Head(s).type \notin T /\ Single(Tail(s), T, x)
              \/ Head(s) = x /\ x.type \in T /\ Without(Tail(s), T)
  <1> DEFINE c == Tail(s)
  <1>1. /\ DOMAIN s = 1..Len(s) /\ Len(s) \in Nat \ {0}
        /\ DOMAIN c = 1..(Len(s) - 1) /\ Head(s) = s[1]
        /\ \A i \in 1..(Len(s) - 1) : c[i] = s[i + 1]
    OBVIOUS
  <1> HIDE DEF c
  <1>2. \A i \in DOMAIN c : i + 1 \in DOMAIN s /\ c[i] = s[i + 1]
                            /\ i \in Nat \ {0}
    BY <1>1
  <1>3. ASSUME Without(s, T) PROVE Without(c, T) /\ Head(s).type \notin T
    BY <1>1, <1>2, <1>3 DEF Without
  <1>4. ASSUME NEW x, Single(s, T, x)
        PROVE  \/ Head(s).type \notin T /\ Single(c, T, x)
               \/ Head(s) = x /\ x.type \in T /\ Without(c, T)
    <2>1. PICK k \in DOMAIN s :
            /\ s[k] = x /\ x.type \in T
            /\ \A j \in DOMAIN s : s[j].type \in T => j = k
      BY <1>4 DEF Single
    <2>2. CASE k = 1
      <3>1. \A i \in DOMAIN c : c[i].type \notin T
        <4> SUFFICES ASSUME NEW i \in DOMAIN c, c[i].type \in T PROVE FALSE
          OBVIOUS
        <4>1. i + 1 = k
          BY <1>2, <2>1
        <4> QED BY <1>2, <2>2, <4>1
      <3> QED BY <1>1, <2>1, <2>2, <3>1 DEF Without
    <2>3. CASE k # 1
      <3>1. k - 1 \in DOMAIN c /\ (k - 1) + 1 = k
        BY <1>1, <2>1, <2>3
      <3>2. c[k - 1] = x
        BY <1>2, <2>1, <3>1
      <3>3. Head(s).type \notin T
        BY <1>1, <2>1, <2>3
      <3>4. \A j \in DOMAIN c : c[j].type \in T => j = k - 1
        <4> SUFFICES ASSUME NEW j \in DOMAIN c, c[j].type \in T
                     PROVE  j = k - 1
          OBVIOUS
        <4>1. j + 1 = k /\ j \in Nat
          BY <1>2, <2>1
        <4> QED BY <4>1
      <3> QED BY <2>1, <3>1, <3>2, <3>3, <3>4 DEF Single
    <2> QED BY <2>2, <2>3
  <1> QED BY <1>3, <1>4 DEF c

\* Channels and replies of at most one message.
LEMMA ShortTypes ==
  ASSUME NEW T
  PROVE  /\ Without(<<>>, T) /\ \A x : ~Single(<<>>, T, x)
         /\ \A x : /\ x.type \notin T => Without(<<x>>, T)
                   /\ x.type \in T => Single(<<x>>, T, x)
  <1>1. \A x : DOMAIN <<x>> = {1} /\ <<x>>[1] = x
    OBVIOUS
  <1> QED BY <1>1 DEF Without, Single

\* What a channel without some types contains.
LEMMA WithoutContains ==
  ASSUME NEW M, NEW s \in Seq(M), NEW T
  PROVE  Without(s, T) <=> \A x : Contains(s, x) => x.type \notin T
  <1>1. DOMAIN s = 1..Len(s)
    OBVIOUS
  <1> QED BY <1>1, Zenon DEF Contains, Without

-----------------------------------------------------------------------------
(* The conversation with the seed.                                         *)

\* What a node that synchronizes sends, and what it gets.
Requests == {"GetHeaders", "GetData"}
Replies == {"Headers", "Block"}

\* The seed tells its start in every Hello and announces nothing; nobody asks
\* for headers but at the beginning and the end of a queue; who sends a block
\* stores it.
Silent(h) ==
  \A e \in Linked :
    /\ Without(events[e], {"GetHeaders"})
    /\ \A x : Contains(chan[e], x) /\ x.type = "Block" => x.id \in stored[e[1]]
    /\ e[1] = h => /\ told[e] = Start[h] /\ events[e] = <<>>
                   /\ Without(chan[e], {"Inventory"})

\* What n has asked the seed h for: headers after a locator that reaches the
\* genesis block, or the front of a queue that leads to the seed's chain.
Asks(n, h, x) ==
  \/ /\ x.type = "GetHeaders" /\ queue[<<n, h>>] = <<>>
     /\ Genesis \in x.locator /\ x.locator \subseteq stored[n]
  \/ /\ x.type = "GetData" /\ Leads(queue[<<n, h>>], stored[n], Start[h])
     /\ x.id = queue[<<n, h>>][1]

\* What the seed has answered.
Brings(n, h, x) ==
  \/ /\ x.type = "Headers" /\ queue[<<n, h>>] = <<>>
     /\ Leads(x.ids, stored[n], Start[h]) /\ x.ids[1] # Genesis
  \/ /\ x.type = "Block" /\ Leads(queue[<<n, h>>], stored[n], Start[h])
     /\ x.id = queue[<<n, h>>][1]

\* Not subscribed yet: n will compare the tip in the seed's Hello with its own.
Unsubscribed(n, h) ==
  /\ conn[<<n, h>>] # "up" /\ queue[<<n, h>>] = <<>> /\ chan[<<n, h>>] = <<>>
  /\ Without(chan[<<h, n>>], Replies)
Asking(n, h) ==
  /\ conn[<<n, h>>] = "up" /\ Without(chan[<<h, n>>], Replies)
  /\ \E x : Single(chan[<<n, h>>], Requests, x) /\ Asks(n, h, x)
Answered(n, h) ==
  /\ conn[<<n, h>>] = "up" /\ Without(chan[<<n, h>>], Requests)
  /\ \E x : Single(chan[<<h, n>>], Replies, x) /\ Brings(n, h, x)

\* Exactly one thing brings n closer to the seed's chain.
Fetching(n, h) == Unsubscribed(n, h) \/ Asking(n, h) \/ Answered(n, h)

\* The parts of an answered message.
LEMMA AnswerParts ==
  ASSUME chan \in [Linked -> Seq(Message)], NEW n, NEW m, <<n, m>> \in Linked,
         chan[<<m, n>>] # <<>>, NEW reply \in Seq(Message), Answer(n, m, reply)
  PROVE  /\ chan'[<<m, n>>] = Tail(chan[<<m, n>>])
         /\ chan'[<<n, m>>] = chan[<<n, m>>] \o reply
         /\ \A f \in Linked : f # <<n, m>> /\ f # <<m, n>> => chan'[f] = chan[f]
  <1> DEFINE in == <<m, n>>  out == <<n, m>>
  <1>1. in \in Linked /\ out \in Linked /\ in # out
    BY TwoEnds
  <1>2. chan' = [chan EXCEPT ![in] = Tail(@), ![out] = @ \o reply]
    BY DEF Answer
  <1> HIDE DEF in, out
  <1>3. /\ chan'[in] = Tail(chan[in]) /\ chan'[out] = chan[out] \o reply
        /\ \A f \in Linked : f # in /\ f # out => chan'[f] = chan[f]
    BY <1>1, <1>2
  <1> QED BY <1>3 DEF in, out

\* Every connection is one of the seed's.
LEMMA SeedLinks ==
  ASSUME NEW h, Seed(h)
  PROVE  /\ h \in Node
         /\ \A e \in Linked : e[1] = h \/ e[2] = h
         /\ \A n \in Node \ {h} : <<n, h>> \in Linked /\ <<h, n>> \in Linked
  <1>1. \A e \in Linked : e[1] = h \/ e[2] = h
    <2> SUFFICES ASSUME NEW e \in Linked PROVE e[1] = h \/ e[2] = h
      OBVIOUS
    <2>1. e \in Dial \/ <<e[2], e[1]>> \in Dial
      BY DEF Linked
    <2>2. e \in Dial => h \in {e[1], e[2]}
      BY DEF Seed
    <2>3. <<e[2], e[1]>> \in Dial => h \in {<<e[2], e[1]>>[1], <<e[2], e[1]>>[2]}
      BY DEF Seed
    <2>4. <<e[2], e[1]>>[1] = e[2] /\ <<e[2], e[1]>>[2] = e[1]
      OBVIOUS
    <2> QED BY <2>1, <2>2, <2>3, <2>4
  <1>2. \A n \in Node \ {h} : <<n, h>> \in Linked /\ <<h, n>> \in Linked
    <2> SUFFICES ASSUME NEW n \in Node \ {h}
                 PROVE  <<n, h>> \in Linked /\ <<h, n>> \in Linked
      OBVIOUS
    <2>1. <<n, h>> \in Linked
      BY DEF Seed
    <2>2. <<n, h>>[1] = n /\ <<n, h>>[2] = h
      OBVIOUS
    <2> QED BY <2>1, <2>2, TwoEnds
  <1> QED BY <1>1, <1>2 DEF Seed

\* The messages that are no part of it leave the conversation where it is.
LEMMA FetchGoesOn ==
  ASSUME TypeOK, NEW h, NEW n, n # h, Fetching(n, h), <<n, h>> \in Linked,
         NEW x, NEW y, <<x, y>> \in Linked, NEW type, Receive(x, y, type),
         NEW reply \in Seq(Message), Answer(x, y, reply),
         conn' = conn, queue'[<<n, h>>] = queue[<<n, h>>],
         stored'[n] = stored[n],
         x = n /\ y = h => type \notin Replies /\ Without(reply, Requests),
         x = h /\ y = n => type \notin Requests /\ Without(reply, Replies)
  PROVE  Fetching(n, h)'
  <1> DEFINE own == <<n, h>>  back == <<h, n>>  in == <<y, x>>  out == <<x, y>>
  <1>1. /\ own \in Linked /\ back \in Linked /\ in \in Linked /\ out \in Linked
        /\ chan[own] \in Seq(Message) /\ chan[back] \in Seq(Message)
        /\ chan[in] # <<>> /\ Head(chan[in]).type = type /\ conn[out] = "up"
    BY TwoEnds DEF Receive, TypeOK
  <1>2. /\ chan'[in] = Tail(chan[in]) /\ chan'[out] = chan[out] \o reply
        /\ \A f \in Linked : f # out /\ f # in => chan'[f] = chan[f]
    <2>1. chan \in [Linked -> Seq(Message)] /\ chan[<<y, x>>] # <<>>
      BY <1>1 DEF TypeOK
    <2> QED BY <2>1, AnswerParts
  <1>3. \A z : Asks(n, h, z)' <=> Asks(n, h, z)
    BY DEF Asks
  <1>4. \A z : Brings(n, h, z)' <=> Brings(n, h, z)
    BY DEF Brings
  <1>5. CASE x = n /\ y = h
    <2>1. /\ in = back /\ out = own
          /\ type \notin Replies /\ Without(reply, Requests)
      BY <1>5
    <2> HIDE DEF in, out, own, back
    <2>2. conn[own] = "up"
      BY <1>1, <2>1
    <2>3. /\ Without(chan[own], Requests) => Without(chan'[own], Requests)
          /\ \A z : Single(chan[own], Requests, z) =>
                    Single(chan'[own], Requests, z)
      BY <1>1, <1>2, <2>1, AppendedTypes
    <2>4. /\ Without(chan[back], Replies) => Without(chan'[back], Replies)
          /\ \A z : Single(chan[back], Replies, z) =>
                    Single(chan'[back], Replies, z)
      BY <1>1, <1>2, <2>1, RemainingTypes
    <2>5. ~Unsubscribed(n, h)
      BY <2>2 DEF Unsubscribed, own
    <2>6. Asking(n, h) => Asking(n, h)'
      BY <1>3, <2>3, <2>4 DEF Asking, own, back
    <2>7. Answered(n, h) => Answered(n, h)'
      BY <1>4, <2>3, <2>4 DEF Answered, own, back
    <2> QED BY <2>5, <2>6, <2>7 DEF Fetching
  <1>6. CASE x = h /\ y = n
    <2>1. /\ in = own /\ out = back
          /\ type \notin Requests /\ Without(reply, Replies)
      BY <1>6
    <2> HIDE DEF in, out, own, back
    <2>2. chan[own] # <<>>
      BY <1>1, <2>1
    <2>3. /\ Without(chan[own], Requests) => Without(chan'[own], Requests)
          /\ \A z : Single(chan[own], Requests, z) =>
                    Single(chan'[own], Requests, z)
      BY <1>1, <1>2, <2>1, RemainingTypes
    <2>4. /\ Without(chan[back], Replies) => Without(chan'[back], Replies)
          /\ \A z : Single(chan[back], Replies, z) =>
                    Single(chan'[back], Replies, z)
      BY <1>1, <1>2, <2>1, AppendedTypes
    <2>5. ~Unsubscribed(n, h)
      BY <2>2 DEF Unsubscribed, own
    <2>6. Asking(n, h) => Asking(n, h)'
      BY <1>3, <2>3, <2>4 DEF Asking, own, back
    <2>7. Answered(n, h) => Answered(n, h)'
      BY <1>4, <2>3, <2>4 DEF Answered, own, back
    <2> QED BY <2>5, <2>6, <2>7 DEF Fetching
  <1>7. CASE ~(x = n /\ y = h) /\ ~(x = h /\ y = n)
    <2>1. in # own /\ in # back /\ out # own /\ out # back
      BY <1>7
    <2>2. chan'[own] = chan[own] /\ chan'[back] = chan[back]
      BY <1>1, <1>2, <2>1
    <2> QED BY <1>3, <1>4, <2>2
         DEF Fetching, Unsubscribed, Asking, Answered
  <1> QED BY <1>5, <1>6, <1>7

\* A request of n that the seed takes is the one n waits for.
LEMMA AskTaken ==
  ASSUME TypeOK, NEW h, NEW n, Fetching(n, h), <<n, h>> \in Linked,
         NEW type, Receive(h, n, type), type \in Requests
  PROVE  /\ conn[<<n, h>>] = "up" /\ Asks(n, h, Head(chan[<<n, h>>]))
         /\ Without(chan[<<h, n>>], Replies)
         /\ Without(Tail(chan[<<n, h>>]), Requests)
  <1> DEFINE own == <<n, h>>
  <1>1. /\ chan[own] \in Seq(Message) /\ chan[own] # <<>>
        /\ Head(chan[own]).type = type
    BY DEF Receive, TypeOK
  <1> HIDE DEF own
  <1>2. /\ ~Without(chan[own], Requests)
        /\ \A x : Single(chan[own], Requests, x) =>
                    Head(chan[own]) = x /\ Without(Tail(chan[own]), Requests)
    BY <1>1, RemainingTypes
  <1>3. Asking(n, h)
    BY <1>1, <1>2 DEF Fetching, Unsubscribed, Answered, own
  <1> QED BY <1>2, <1>3 DEF Asking, own

\* A reply of the seed that n takes is the one n waits for.
LEMMA ReplyTaken ==
  ASSUME TypeOK, NEW h, NEW n, Fetching(n, h), <<h, n>> \in Linked,
         NEW type, Receive(n, h, type), type \in Replies
  PROVE  /\ conn[<<n, h>>] = "up" /\ Brings(n, h, Head(chan[<<h, n>>]))
         /\ Without(chan[<<n, h>>], Requests)
         /\ Without(Tail(chan[<<h, n>>]), Replies)
  <1> DEFINE back == <<h, n>>
  <1>1. /\ chan[back] \in Seq(Message) /\ chan[back] # <<>>
        /\ Head(chan[back]).type = type /\ conn[<<n, h>>] = "up"
    BY DEF Receive, TypeOK
  <1> HIDE DEF back
  <1>2. /\ ~Without(chan[back], Replies)
        /\ \A x : Single(chan[back], Replies, x) =>
                    Head(chan[back]) = x /\ Without(Tail(chan[back]), Replies)
    BY <1>1, RemainingTypes
  <1>3. Answered(n, h)
    BY <1>1, <1>2 DEF Fetching, Unsubscribed, Asking, back
  <1> QED BY <1>2, <1>3 DEF Answered, back

\* The seed's answer to the request it took.
LEMMA NowAnswered ==
  ASSUME TypeOK, NEW h, NEW n, Fetching(n, h), <<n, h>> \in Linked,
         NEW type, Receive(h, n, type), type \in Requests,
         NEW y \in Message, y.type \in Replies, Answer(h, n, <<y>>),
         conn' = conn, Brings(n, h, y)'
  PROVE  Fetching(n, h)'
  <1> DEFINE own == <<n, h>>  back == <<h, n>>
  <1>1. /\ own \in Linked /\ back \in Linked /\ <<y>> \in Seq(Message)
        /\ chan[own] \in Seq(Message) /\ chan[back] \in Seq(Message)
        /\ chan[own] # <<>> /\ chan \in [Linked -> Seq(Message)]
    BY TwoEnds DEF Receive, TypeOK
  <1>2. /\ conn[own] = "up" /\ Without(chan[back], Replies)
        /\ Without(Tail(chan[own]), Requests)
    BY AskTaken
  <1>3. chan'[own] = Tail(chan[own]) /\ chan'[back] = chan[back] \o <<y>>
    BY <1>1, AnswerParts
  <1> HIDE DEF own, back
  <1>4. Single(<<y>>, Replies, y)
    BY ShortTypes
  <1>5. Single(chan'[back], Replies, y)
    BY <1>1, <1>2, <1>3, <1>4, AppendedTypes
  <1>6. Without(chan'[own], Requests) /\ conn'[own] = "up"
    BY <1>2, <1>3
  <1> QED BY <1>5, <1>6 DEF Fetching, Answered, own, back

\* What n asks for after the reply it took.
LEMMA NowAsking ==
  ASSUME TypeOK, NEW h, NEW n, Fetching(n, h), <<n, h>> \in Linked,
         NEW type, Receive(n, h, type), type \in Replies,
         NEW y \in Message, y.type \in Requests, Answer(n, h, <<y>>),
         conn' = conn, Asks(n, h, y)'
  PROVE  Fetching(n, h)'
  <1> DEFINE own == <<n, h>>  back == <<h, n>>
  <1>1. /\ own \in Linked /\ back \in Linked /\ <<y>> \in Seq(Message)
        /\ chan[own] \in Seq(Message) /\ chan[back] \in Seq(Message)
        /\ chan[back] # <<>> /\ chan \in [Linked -> Seq(Message)]
    BY TwoEnds DEF Receive, TypeOK
  <1>2. /\ conn[own] = "up" /\ Without(chan[own], Requests)
        /\ Without(Tail(chan[back]), Replies)
    BY <1>1, ReplyTaken
  <1>3. chan'[back] = Tail(chan[back]) /\ chan'[own] = chan[own] \o <<y>>
    BY <1>1, AnswerParts
  <1> HIDE DEF own, back
  <1>4. Single(<<y>>, Requests, y)
    BY ShortTypes
  <1>5. Single(chan'[own], Requests, y)
    BY <1>1, <1>2, <1>3, <1>4, AppendedTypes
  <1>6. Without(chan'[back], Replies) /\ conn'[own] = "up"
    BY <1>2, <1>3
  <1> QED BY <1>5, <1>6 DEF Fetching, Asking, own, back

-----------------------------------------------------------------------------
(* What the handlers do to it.                                             *)

\* What holds as long as nothing disturbs the synchronization with the seed.
Converging(h) ==
  /\ Drawn(h) /\ Silent(h)
  /\ \A n \in Node \ {h} : Start[h] \notin stored[n] => Fetching(n, h)

\* A handler that answers, and announces nothing as the seed, leaves Silent.
LEMMA SilentAfter ==
  ASSUME TypeOK, NEW h, Silent(h), NEW x, NEW y, <<x, y>> \in Linked,
         NEW type, Receive(x, y, type),
         NEW reply \in Seq(Message), Answer(x, y, reply), told' = told,
         \A k \in Node : stored[k] \subseteq stored'[k],
         \A e \in Linked : /\ Without(events'[e], {"GetHeaders"})
                           /\ e[1] = h => events'[e] = <<>>,
         \A z : Contains(reply, z) =>
                  /\ z.type = "Block" => z.id \in stored'[x]
                  /\ z.type # "Inventory"
  PROVE  Silent(h)'
  <1>1. /\ chan \in [Linked -> Seq(Message)] /\ chan[<<y, x>>] # <<>>
        /\ chan' \in [Linked -> Seq(Message)]
        /\ \A f \in Linked : \A z : Contains(chan'[f], z) =>
             Contains(chan[f], z) \/ (f = <<x, y>> /\ Contains(reply, z))
    <2>1. chan \in [Linked -> Seq(Message)] /\ chan[<<y, x>>] # <<>>
      BY DEF TypeOK, Receive
    <2> QED BY <2>1, AnswerSound
  <1>2. ASSUME NEW e \in Linked, NEW z, Contains(chan'[e], z), z.type = "Block"
        PROVE  z.id \in stored'[e[1]]
    <2>1. e[1] \in Node /\ (e = <<x, y>> => e[1] = x)
      BY TwoEnds
    <2>2. CASE Contains(chan[e], z)
      BY <1>2, <2>1, <2>2 DEF Silent
    <2>3. CASE e = <<x, y>> /\ Contains(reply, z)
      BY <1>2, <2>1, <2>3
    <2> QED BY <1>1, <1>2, <2>2, <2>3
  <1>3. ASSUME NEW e \in Linked, e[1] = h
        PROVE  Without(chan'[e], {"Inventory"})
    <2>1. chan[e] \in Seq(Message) /\ chan'[e] \in Seq(Message)
      BY <1>1
    <2>2. \A z : Contains(chan[e], z) => z.type \notin {"Inventory"}
      <3>1. Without(chan[e], {"Inventory"})
        BY <1>3 DEF Silent
      <3> QED BY <2>1, <3>1, WithoutContains
    <2>3. \A z : Contains(chan'[e], z) => z.type \notin {"Inventory"}
      BY <1>1, <2>2
    <2> QED BY <2>1, <2>3, WithoutContains
  <1>4. \A e \in Linked : e[1] = h => told'[e] = Start[h]
    BY DEF Silent
  <1> QED BY <1>2, <1>3, <1>4 DEF Silent

\* One of the two ends of a connection is the seed.
LEMMA SeedEnds ==
  ASSUME NEW h, Seed(h), NEW x, NEW y, <<x, y>> \in Linked
  PROVE  /\ x \in Node /\ y \in Node /\ x # y
         /\ x = h \/ y = h
         /\ <<y, x>> \in Linked
  <1>1. <<x, y>>[1] = x /\ <<x, y>>[2] = y
    OBVIOUS
  <1>2. x = h \/ y = h
    BY <1>1, SeedLinks
  <1> QED BY <1>1, <1>2, TwoEnds

\* An announcement: the seed makes none, and what it asks for is no reply.
LEMMA InventoryConverging ==
  ASSUME SyncInv, NEW h, Seed(h), Converging(h), NEW x, NEW y,
         <<x, y>> \in Linked, HandleInventory(x, y)
  PROVE  Converging(h)'
  <1> DEFINE head == Head(chan[<<y, x>>])
             reply == IF head.id \in stored[x] THEN <<>> ELSE <<GetData(head.id)>>
  <1>1. /\ Receive(x, y, "Inventory") /\ Answer(x, y, reply) /\ TypeOK
        /\ UNCHANGED <<tip, stored, queue, conn, told, events, drops, requests>>
    BY DEF HandleInventory, SyncInv
  <1>2. head.type = "Inventory" /\ head.id \in Block
        /\ chan[<<y, x>>] \in Seq(Message) /\ Contains(chan[<<y, x>>], head)
    BY <1>1, Received
  <1>3. /\ reply \in Seq(Message)
        /\ \A z : Contains(reply, z) => z.type = "GetData"
    BY <1>2, OneMessage, RepliesTyped
  <1> HIDE DEF reply, head
  <1>4. Without(reply, Replies)
    <2>1. \A z : Contains(reply, z) => z.type \notin Replies
      BY <1>3 DEF Replies
    <2> QED BY <1>3, <2>1, WithoutContains
  <1>5. y # h
    <2> SUFFICES ASSUME y = h PROVE FALSE
      OBVIOUS
    <2>1. <<y, x>> \in Linked /\ <<y, x>>[1] = h
      BY SeedEnds
    <2>2. Without(chan[<<y, x>>], {"Inventory"})
      BY <2>1 DEF Converging, Silent
    <2>3. head.type \notin {"Inventory"}
      BY <1>2, <2>2, WithoutContains
    <2> QED BY <1>2, <2>3
  <1>6. Drawn(h)'
    BY <1>1 DEF Converging, Drawn, Opened
  <1>7. Silent(h)'
    BY <1>1, <1>3, SilentAfter DEF Converging, Silent
  <1>8. ASSUME NEW n \in Node \ {h}, Start[h] \notin stored'[n]
        PROVE  Fetching(n, h)'
    <2>1. Fetching(n, h) /\ <<n, h>> \in Linked /\ n # h
      BY <1>1, <1>8, SeedLinks DEF Converging
    <2>2. "Inventory" \notin Requests
      BY DEF Requests
    <2> QED BY <1>1, <1>3, <1>4, <1>5, <2>1, <2>2, FetchGoesOn
  <1> QED BY <1>6, <1>7, <1>8 DEF Converging

\* A request for a block: the seed stores what its neighbours ask for.
LEMMA GetDataConverging ==
  ASSUME SyncInv, NEW h, Seed(h), Converging(h), NEW x, NEW y,
         <<x, y>> \in Linked, HandleGetData(x, y)
  PROVE  Converging(h)'
  <1> DEFINE head == Head(chan[<<y, x>>])
             reply == IF head.id \in stored[x] THEN <<BlockMsg(head.id)>> ELSE <<>>
  <1>1. /\ Receive(x, y, "GetData") /\ Answer(x, y, reply) /\ TypeOK
        /\ UNCHANGED <<tip, stored, queue, conn, told, events, drops, requests>>
    BY DEF HandleGetData, SyncInv
  <1>2. head.type = "GetData" /\ head.id \in Block
    BY <1>1, Received
  <1>3. /\ reply \in Seq(Message)
        /\ \A z : Contains(reply, z) => z.type = "Block" /\ z.id \in stored[x]
    BY <1>2, OneMessage, RepliesTyped
  <1>4. head.id \in stored[x] => reply = <<BlockMsg(head.id)>>
    OBVIOUS
  <1> HIDE DEF reply, head
  <1>5. Without(reply, Requests)
    <2>1. \A z : Contains(reply, z) => z.type \notin Requests
      BY <1>3 DEF Requests
    <2> QED BY <1>3, <2>1, WithoutContains
  <1>6. Drawn(h)'
    BY <1>1 DEF Converging, Drawn, Opened
  <1>7. Silent(h)'
    BY <1>1, <1>3, SilentAfter DEF Converging, Silent
  <1>8. ASSUME NEW n \in Node \ {h}, Start[h] \notin stored'[n]
        PROVE  Fetching(n, h)'
    <2>1. Fetching(n, h) /\ <<n, h>> \in Linked /\ n # h
      BY <1>1, <1>8, SeedLinks DEF Converging
    <2>2. "GetData" \notin Replies /\ "GetData" \in Requests
      BY DEF Requests, Replies
    <2>3. CASE x = h /\ y = n
      <3>1. Asks(n, h, head)
        BY <1>1, <2>1, <2>2, <2>3, AskTaken DEF head
      <3>2. /\ Leads(queue[<<n, h>>], stored[n], Start[h])
            /\ head.id = queue[<<n, h>>][1]
        BY <1>2, <3>1 DEF Asks
      <3>3. head.id \in stored[h]
        <4>1. queue[<<n, h>>] \in Seq(Block) /\ <<n, h>>[2] = h
          BY <1>1, <2>1 DEF TypeOK
        <4>2. 1 \in DOMAIN queue[<<n, h>>]
          BY <3>2, <4>1 DEF Leads
        <4> QED BY <2>1, <3>2, <4>1, <4>2 DEF SyncInv, Stocked
      <3>m. PICK m : m = BlockMsg(head.id)
        OBVIOUS
      <3>4. /\ m \in Message /\ m.type \in Replies /\ m.type = "Block"
            /\ m.id = head.id
        BY <1>2, <3>m, RepliesTyped DEF Replies
      <3>5. reply = <<m>>
        BY <1>4, <2>3, <3>3, <3>m
      <3>6. Brings(n, h, m)'
        BY <1>1, <3>2, <3>4 DEF Brings
      <3>7. Answer(h, n, <<m>>) /\ Receive(h, n, "GetData")
        BY <1>1, <2>3, <3>5
      <3> QED BY <1>1, <2>1, <2>2, <3>4, <3>6, <3>7, NowAnswered
    <2>4. CASE ~(x = h /\ y = n)
      BY <1>1, <1>3, <1>5, <2>1, <2>2, <2>4, FetchGoesOn
    <2> QED BY <2>3, <2>4
  <1> QED BY <1>6, <1>7, <1>8 DEF Converging

\* A request for headers: the seed's answer leads to its tip.
LEMMA GetHeadersConverging ==
  ASSUME SyncInv, NEW h, Seed(h), Converging(h), NEW x, NEW y,
         <<x, y>> \in Linked, HandleGetHeaders(x, y)
  PROVE  Converging(h)'
  <1> DEFINE head == Head(chan[<<y, x>>])
             ids == HeadersAfter(tip[x], head.locator)
  <1>m. PICK m : m = Headers(ids)
    OBVIOUS
  <1>1. /\ Receive(x, y, "GetHeaders") /\ Answer(x, y, <<m>>) /\ TypeOK
        /\ UNCHANGED <<tip, stored, queue, conn, told, events, drops, requests>>
    BY <1>m DEF HandleGetHeaders, SyncInv
  <1>2. head.type = "GetHeaders" /\ x \in Node /\ chan[<<y, x>>] # <<>>
    BY <1>1, Received
  <1>3. m \in Message /\ m.type = "Headers" /\ m.ids = ids
    <2>1. tip[x] \in Block /\ Anc[tip[x]] \subseteq Block
      BY <1>1, <1>2, TreeAssumption DEF TypeOK
    <2>2. ids \in Seq(Anc[tip[x]])
      BY <2>1, HeadersSound
    <2> HIDE DEF ids
    <2>3. ids \in Seq(Block)
      BY <2>1, <2>2
    <2> QED BY <1>m, <2>3 DEF Headers, Message
  <1> HIDE DEF head
  <1>4. /\ <<m>> \in Seq(Message) /\ \A z : Contains(<<m>>, z) => z = m
        /\ Without(<<m>>, Requests)
    <2>1. m.type \notin Requests
      BY <1>3 DEF Requests
    <2> QED BY <1>3, <2>1, OneMessage, ShortTypes
  <1>5. Drawn(h)'
    BY <1>1 DEF Converging, Drawn, Opened
  <1>6. Silent(h)'
    BY <1>1, <1>3, <1>4, SilentAfter DEF Converging, Silent
  <1>7. ASSUME NEW n \in Node \ {h}, Start[h] \notin stored'[n]
        PROVE  Fetching(n, h)'
    <2>1. Fetching(n, h) /\ <<n, h>> \in Linked /\ n # h
      BY <1>1, <1>7, SeedLinks DEF Converging
    <2>2. "GetHeaders" \notin Replies /\ "GetHeaders" \in Requests
      BY DEF Requests, Replies
    <2>3. CASE x = h /\ y = n
      <3>1. Asks(n, h, head)
        BY <1>1, <2>1, <2>2, <2>3, AskTaken DEF head
      <3>2. /\ queue[<<n, h>>] = <<>> /\ Genesis \in head.locator
            /\ head.locator \subseteq stored[n]
        BY <1>2, <3>1 DEF Asks
      <3>3. tip[h] = Start[h] /\ Start[h] \in Block
            /\ Height[Start[h]] <= MaxHeaders
        <4>1. h \in Node /\ Start[h] \in Block
          BY SyncAssumption DEF Seed
        <4>2. Start[h] \in Anc[Start[h]]
          BY <4>1, ChainsProper DEF Proper
        <4> QED BY <4>1, <4>2 DEF Converging, Drawn, Seed
      <3>4. /\ stored[n] \subseteq Block /\ Start[h] \notin stored[n]
            /\ \A b \in stored[n] : Anc[b] \subseteq stored[n]
        BY <1>1, <1>7 DEF TypeOK, SyncInv, StoredComplete
      <3>5. Leads(ids, stored[n], Start[h]) /\ ids[1] # Genesis
        <4>1. ids = HeadersAfter(Start[h], head.locator)
          BY <2>3, <3>3
        <4> QED BY <3>2, <3>3, <3>4, <4>1, HeadersLead
      <3>6. Brings(n, h, m)'
        BY <1>1, <1>3, <3>2, <3>5 DEF Brings
      <3>7. Answer(h, n, <<m>>) /\ Receive(h, n, "GetHeaders")
        BY <1>1, <2>3
      <3>8. m.type \in Replies
        BY <1>3 DEF Replies
      <3> QED BY <1>1, <1>3, <2>1, <2>2, <3>6, <3>7, <3>8, NowAnswered
    <2>4. CASE ~(x = h /\ y = n)
      BY <1>1, <1>4, <2>1, <2>2, <2>4, FetchGoesOn
    <2> QED BY <2>3, <2>4
  <1> QED BY <1>5, <1>6, <1>7 DEF Converging

\* A block: the next one that leads to the seed's chain stands on what the node
\* has, moves the queue and is followed by a request, or it is the last.
LEMMA BlockConverging ==
  ASSUME SyncInv, NEW h, Seed(h), Converging(h), NEW x, NEW y,
         <<x, y>> \in Linked, HandleBlock(x, y)
  PROVE  Converging(h)'
  <1> DEFINE head == Head(chan[<<y, x>>])
             q == queue[<<x, y>>]
  <1>b. PICK b : b = head.id
    OBVIOUS
  <1> DEFINE front == Outcome(x, b) # "Err" /\ q # <<>> /\ q[1] = b
  <1>r. PICK reply : reply = IF front THEN NextRequest(Tail(q), tip'[x]) ELSE <<>>
    OBVIOUS
  <1>1. /\ Receive(x, y, "Block") /\ SubmitBlock(x, b)
        /\ queue' = [queue EXCEPT ![<<x, y>>] = IF front THEN Tail(q) ELSE <<>>]
        /\ Answer(x, y, reply)
        /\ conn' = conn /\ told' = told
    BY <1>b, <1>r DEF HandleBlock
  <1>2. TypeOK /\ Drawn(h) /\ Silent(h) /\ StoredComplete
    BY DEF SyncInv, Converging
  <1>3. /\ x \in Node /\ y \in Node /\ head.type = "Block" /\ b \in Block
        /\ Contains(chan[<<y, x>>], head) /\ <<y, x>> \in Linked
    BY <1>1, <1>2, <1>b, Received
  <1>4. b \in Opened
    <2>1. <<y, x>>[1] = y
      OBVIOUS
    <2>2. head.id \in stored[y]
      BY <1>2, <1>3, <2>1 DEF Silent
    <2> QED BY <1>2, <1>3, <1>b, <2>2 DEF Drawn
  <1> HIDE DEF head
  <1>5. /\ Drawn(h)'
        /\ \A k \in Node : k # x => stored'[k] = stored[k]
        /\ stored[x] \subseteq stored'[x]
        /\ Outcome(x, b) # "Err" => b \in stored'[x]
        /\ Start[h] \in stored[x] => events' = events
        /\ events' = events \/ events' = Broadcast(x, Inventory(b))
    BY <1>1, <1>2, <1>3, <1>4, SubmitDrawn
  <1>6. tip' \in [Node -> Block]
    BY <1>1, <1>2, <1>3, SubmitSound
  <1>7. /\ reply \in Seq(Message)
        /\ \A z : Contains(reply, z) => z.type \in Requests
    <2>1. q \in Seq(Block) /\ tip'[x] \in Block
      BY <1>2, <1>3, <1>6 DEF TypeOK
    <2> HIDE DEF q
    <2>2. CASE ~front
      BY <1>r, <2>2, OneMessage
    <2>3. CASE front /\ Tail(q) = <<>>
      <3>1. reply = <<GetHeaders(tip'[x])>>
        BY <1>r, <2>3 DEF NextRequest
      <3> QED BY <2>1, <3>1, OneMessage, RepliesTyped DEF Requests
    <2>4. CASE front /\ Tail(q) # <<>>
      <3>1. reply = <<GetData(Head(Tail(q)))>>
        BY <1>r, <2>4 DEF NextRequest
      <3>2. Head(Tail(q)) \in Block
        BY <2>1, <2>4
      <3>3. PICK m : m = GetData(Head(Tail(q)))
        OBVIOUS
      <3>4. m \in Message /\ m.type \in Requests
        BY <3>2, <3>3, RepliesTyped DEF Requests
      <3>5. reply = <<m>>
        BY <3>1, <3>3
      <3> QED BY <3>4, <3>5, OneMessage
    <2> QED BY <2>2, <2>3, <2>4
  <1> HIDE DEF front
  <1>8. Without(reply, Replies)
    <2>1. \A z : Contains(reply, z) => z.type \notin Replies
      BY <1>7 DEF Requests, Replies
    <2> QED BY <1>7, <2>1, WithoutContains
  <1>9. Silent(h)'
    <2>1. \A e \in Linked : Without(events'[e], {"GetHeaders"})
      <3> SUFFICES ASSUME NEW e \in Linked, events' # events
                   PROVE  Without(events'[e], {"GetHeaders"})
        BY <1>2 DEF Silent
      <3> DEFINE i == Inventory(b)  all == Append(events[e], i)
      <3>1. /\ events[e] \in Seq(Event) /\ i \in Event
            /\ i.type = "Inventory" /\ Without(events[e], {"GetHeaders"})
        BY <1>2, <1>3 DEF TypeOK, Event, Inventory, Silent
      <3>2. events'[e] = IF e[1] = x /\ conn[e] = "up"
                         THEN IF Len(all) > Capacity THEN Tail(all) ELSE all
                         ELSE events[e]
        BY <1>5 DEF Broadcast
      <3> HIDE DEF i
      <3>3. <<i>> \in Seq(Event) /\ Without(<<i>>, {"GetHeaders"})
        <4>1. i.type \notin {"GetHeaders"}
          BY <3>1
        <4>2. Without(<<i>>, {"GetHeaders"})
          BY <4>1, ShortTypes
        <4> QED BY <3>1, <4>2
      <3>4. all = events[e] \o <<i>> /\ all \in Seq(Event) /\ all # <<>>
        BY <3>1
      <3> HIDE DEF all
      <3>5. Without(all, {"GetHeaders"})
        <4>1. Without(events[e] \o <<i>>, {"GetHeaders"})
          BY <3>1, <3>3, AppendedTypes
        <4> QED BY <3>4, <4>1
      <3>6. Without(Tail(all), {"GetHeaders"})
        BY <3>4, <3>5, RemainingTypes
      <3> QED BY <3>1, <3>2, <3>5, <3>6
    <2>2. \A e \in Linked : e[1] = h => events'[e] = <<>>
      <3> SUFFICES ASSUME NEW e \in Linked, e[1] = h PROVE events'[e] = <<>>
        OBVIOUS
      <3>1. events[e] = <<>>
        BY <1>2 DEF Silent
      <3>2. CASE x = h
        <4>1. Start[h] \in stored[h]
          <5>1. Start[h] \in Anc[Start[h]] /\ h \in Node
            BY SyncAssumption, ChainsProper DEF Seed, Proper
          <5> QED BY <1>2, <5>1 DEF Drawn
        <4> QED BY <1>5, <3>1, <3>2, <4>1
      <3>3. CASE x # h
        BY <1>5, <3>1, <3>3 DEF Broadcast
      <3> QED BY <3>2, <3>3
    <2>3. \A z : Contains(reply, z) => z.type # "Block" /\ z.type # "Inventory"
      BY <1>7 DEF Requests
    <2>4. \A k \in Node : stored[k] \subseteq stored'[k]
      BY <1>5
    <2> QED BY <1>1, <1>2, <1>7, <2>1, <2>2, <2>3, <2>4, SilentAfter
  <1>10. ASSUME NEW n \in Node \ {h}, Start[h] \notin stored'[n]
         PROVE  Fetching(n, h)'
    <2>1. Fetching(n, h) /\ <<n, h>> \in Linked /\ <<h, n>> \in Linked /\ n # h
      <3>1. Start[h] \notin stored[n]
        BY <1>5, <1>10
      <3> QED BY <3>1, SeedLinks DEF Converging
    <2>2. "Block" \notin Requests /\ "Block" \in Replies
      BY DEF Requests, Replies
    <2>3. CASE x = n
      <3>1. y = h
        BY <2>1, <2>3, SeedEnds
      <3>2. q = queue[<<n, h>>] /\ Receive(n, h, "Block")
        BY <1>1, <2>3, <3>1
      <3>3. Brings(n, h, head)
        BY <1>2, <2>1, <2>2, <2>3, <3>1, <3>2, ReplyTaken DEF head
      <3>4. Leads(q, stored[n], Start[h]) /\ b = q[1]
        BY <1>3, <1>b, <3>2, <3>3 DEF Brings
      <3>5. q \in Seq(Block) /\ q # <<>>
        BY <1>2, <2>1, <3>2, <3>4 DEF TypeOK, Leads
      <3> HIDE DEF q
      <3>6. Anc[b] \ {b} \subseteq stored[n]
        BY <3>4, <3>5, FirstStands
      <3>7. Outcome(x, b) # "Err"
        BY <2>3, <3>6 DEF Outcome
      <3>8. b \in stored'[n] /\ stored[n] \subseteq stored'[n]
        BY <1>5, <2>3, <3>7
      <3>9. Tail(q) # <<>> /\ Leads(Tail(q), stored'[n], Start[h])
        BY <1>10, <3>4, <3>5, <3>8, RestLeads
      <3>10. front
        BY <3>4, <3>5, <3>7 DEF front
      <3>11. PICK m : m = GetData(Tail(q)[1])
        OBVIOUS
      <3>12. reply = <<m>>
        BY <1>r, <3>9, <3>10, <3>11 DEF NextRequest
      <3>13. queue'[<<n, h>>] = Tail(q)
        BY <1>1, <1>2, <2>1, <2>3, <3>1, <3>10 DEF TypeOK
      <3>14. /\ m \in Message /\ m.type = "GetData" /\ m.type \in Requests
             /\ m.id = Tail(q)[1]
        <4>1. Tail(q)[1] \in Block
          BY <3>5, <3>9
        <4> QED BY <3>11, <4>1, RepliesTyped DEF Requests
      <3>15. Asks(n, h, m)'
        BY <3>9, <3>13, <3>14 DEF Asks
      <3>16. Answer(n, h, <<m>>)
        BY <1>1, <2>3, <3>1, <3>12
      <3> QED BY <1>1, <1>2, <2>1, <2>2, <3>2, <3>14, <3>15, <3>16, NowAsking
    <2>4. CASE x # n
      <3>1. stored'[n] = stored[n]
        BY <1>5, <2>4
      <3>2. queue'[<<n, h>>] = queue[<<n, h>>]
        BY <1>1, <1>2, <2>1, <2>4 DEF TypeOK
      <3> QED BY <1>1, <1>2, <1>7, <1>8, <2>1, <2>2, <2>4, <3>1, <3>2, FetchGoesOn
    <2> QED BY <2>3, <2>4
  <1> QED BY <1>5, <1>9, <1>10 DEF Converging

\* Headers: what the seed sends becomes a queue that leads to its tip.
LEMMA HeadersConverging ==
  ASSUME SyncInv, NEW h, Seed(h), Converging(h), NEW x, NEW y,
         <<x, y>> \in Linked, HandleHeaders(x, y)
  PROVE  Converging(h)'
  <1> DEFINE head == Head(chan[<<y, x>>])
             good == /\ head.ids # <<>> /\ head.ids[1] # Genesis
                     /\ Parent[head.ids[1]] \in stored[x]
  <1>n. PICK new : new = Unknown(head.ids, stored[x])
    OBVIOUS
  <1>r. PICK reply : reply = CASE ~good -> <<>>
                               [] good /\ new = <<>> -> WhenNothingNew(tip[x])
                               [] OTHER -> <<GetData(new[1])>>
    OBVIOUS
  <1>1. /\ Receive(x, y, "Headers")
        /\ queue' = [queue EXCEPT ![<<x, y>>] =
                        IF ~good THEN <<>> ELSE IF new = <<>> THEN @ ELSE new]
        /\ Answer(x, y, reply)
        /\ UNCHANGED <<tip, stored, conn, told, events, drops, requests>>
    BY <1>n, <1>r DEF HandleHeaders
  <1>2. TypeOK /\ Drawn(h) /\ Silent(h) /\ StoredComplete
    BY DEF SyncInv, Converging
  <1>3. /\ x \in Node /\ y \in Node /\ head.type = "Headers"
        /\ head.ids \in Seq(Block)
    BY <1>1, <1>2, Received
  <1>4. new \in Seq(Block)
    <2> DEFINE Named == {head.ids[i] : i \in DOMAIN head.ids}
    <2>1. new \in Seq(Named)
      BY <1>3, <1>n, UnknownSound
    <2>2. Named \subseteq Block
      BY <1>3
    <2> HIDE DEF Named
    <2> QED BY <2>1, <2>2
  <1> HIDE DEF head
  <1>5. /\ reply \in Seq(Message)
        /\ \A z : Contains(reply, z) => z.type = "GetData"
    <2>1. CASE ~good \/ new = <<>>
      <3>1. reply = <<>>
        BY <1>r, <2>1 DEF WhenNothingNew
      <3> QED BY <3>1, OneMessage
    <2>2. CASE good /\ new # <<>>
      <3>1. reply = <<GetData(new[1])>> /\ new[1] \in Block
        BY <1>r, <1>4, <2>2
      <3> QED BY <3>1, OneMessage, RepliesTyped
    <2> QED BY <2>1, <2>2
  <1> HIDE DEF good
  <1>6. Without(reply, Replies)
    <2>1. \A z : Contains(reply, z) => z.type \notin Replies
      BY <1>5 DEF Replies
    <2> QED BY <1>5, <2>1, WithoutContains
  <1>7. Drawn(h)'
    BY <1>1, <1>2 DEF Drawn, Opened
  <1>8. Silent(h)'
    BY <1>1, <1>2, <1>5, SilentAfter DEF Silent
  <1>9. ASSUME NEW n \in Node \ {h}, Start[h] \notin stored'[n]
        PROVE  Fetching(n, h)'
    <2>1. /\ Fetching(n, h) /\ <<n, h>> \in Linked /\ <<h, n>> \in Linked
          /\ n # h /\ Start[h] \notin stored[n]
      BY <1>1, <1>9, SeedLinks DEF Converging
    <2>2. "Headers" \notin Requests /\ "Headers" \in Replies
      BY DEF Requests, Replies
    <2>3. CASE x = n
      <3>1. y = h
        BY <2>1, <2>3, SeedEnds
      <3>2. Receive(n, h, "Headers")
        BY <1>1, <2>3, <3>1
      <3>3. Brings(n, h, head)
        BY <1>2, <2>1, <2>2, <2>3, <3>1, <3>2, ReplyTaken DEF head
      <3>4. Leads(head.ids, stored[n], Start[h]) /\ head.ids[1] # Genesis
        BY <1>3, <3>3 DEF Brings
      <3>5. Leads(new, stored[n], Start[h])
        BY <1>3, <1>n, <2>1, <2>3, <3>4, UnknownLeads
      <3>6. good /\ new # <<>>
        <4>1. Parent[head.ids[1]] \in stored[n]
          BY <1>3, <3>4, FirstStands
        <4>2. head.ids # <<>> /\ new # <<>>
          BY <3>4, <3>5 DEF Leads
        <4> QED BY <2>3, <3>4, <4>1, <4>2 DEF good
      <3>7. PICK m : m = GetData(new[1])
        OBVIOUS
      <3>8. reply = <<m>>
        BY <1>r, <3>6, <3>7
      <3>9. queue'[<<n, h>>] = new
        BY <1>1, <1>2, <2>1, <2>3, <3>1, <3>6 DEF TypeOK
      <3>10. /\ m \in Message /\ m.type = "GetData" /\ m.type \in Requests
             /\ m.id = new[1]
        <4>1. new[1] \in Block
          BY <1>4, <3>6
        <4> QED BY <3>7, <4>1, RepliesTyped DEF Requests
      <3>11. Asks(n, h, m)'
        BY <1>1, <3>5, <3>9, <3>10 DEF Asks
      <3>12. Answer(n, h, <<m>>)
        BY <1>1, <2>3, <3>1, <3>8
      <3> QED BY <1>1, <1>2, <2>1, <2>2, <3>2, <3>10, <3>11, <3>12, NowAsking
    <2>4. CASE x # n
      <3>1. queue'[<<n, h>>] = queue[<<n, h>>]
        BY <1>1, <1>2, <2>1, <2>4 DEF TypeOK
      <3> QED BY <1>1, <1>2, <1>5, <1>6, <2>1, <2>2, <2>4, <3>1, FetchGoesOn
    <2> QED BY <2>3, <2>4
  <1> QED BY <1>7, <1>8, <1>9 DEF Converging

-----------------------------------------------------------------------------
(* What the other actions do to it.                                        *)

\* A message sent on its own leaves Silent.
LEMMA SentSilent ==
  ASSUME TypeOK, NEW h, Silent(h), NEW f \in Linked, NEW m \in Message,
         chan' = [chan EXCEPT ![f] = Append(@, m)],
         m.type # "Block", f[1] = h => m.type # "Inventory",
         stored' = stored, told' = told,
         \A e \in Linked : /\ Without(events'[e], {"GetHeaders"})
                           /\ e[1] = h => events'[e] = <<>>
  PROVE  Silent(h)'
  <1>1. /\ chan[f] \in Seq(Message) /\ <<m>> \in Seq(Message)
        /\ chan'[f] = chan[f] \o <<m>> /\ chan \in [Linked -> Seq(Message)]
        /\ \A e \in Linked : e # f => chan'[e] = chan[e]
    BY SMTT(30) DEF TypeOK
  <1>2. \A z : Contains(chan'[f], z) <=> Contains(chan[f], z) \/ z = m
    <2>1. \A z : Contains(chan[f] \o <<m>>, z)
                 <=> Contains(chan[f], z) \/ Contains(<<m>>, z)
      BY <1>1, ContainsConcat, Zenon
    <2> QED BY <1>1, <2>1, OneMessage, ZenonT(40)
  <1>3. \A e \in Linked : \A z :
          Contains(chan'[e], z) /\ z.type = "Block" => z.id \in stored'[e[1]]
    BY <1>1, <1>2 DEF Silent
  <1>4. ASSUME NEW e \in Linked, e[1] = h
        PROVE  Without(chan'[e], {"Inventory"})
    <2>1. Without(chan[e], {"Inventory"})
      BY <1>4 DEF Silent
    <2>2. CASE e = f
      <3>1. m.type \notin {"Inventory"}
        BY <1>4, <2>2
      <3>2. Without(<<m>>, {"Inventory"})
        BY <3>1, ShortTypes
      <3>3. Without(chan[f] \o <<m>>, {"Inventory"})
        BY <1>1, <2>1, <2>2, <3>2, AppendedTypes
      <3> QED BY <1>1, <2>2, <3>3
    <2>3. CASE e # f
      BY <1>1, <2>1, <2>3
    <2> QED BY <2>2, <2>3
  <1>5. \A e \in Linked : e[1] = h => told'[e] = Start[h]
    BY DEF Silent
  <1> QED BY <1>3, <1>4, <1>5 DEF Silent

\* A message sent on its own that is no part of the conversation.
LEMMA SentFetching ==
  ASSUME TypeOK, NEW h, NEW n, n # h, Fetching(n, h), <<n, h>> \in Linked,
         NEW f \in Linked, NEW m \in Message,
         chan' = [chan EXCEPT ![f] = Append(@, m)],
         queue' = queue, stored' = stored, conn'[<<n, h>>] = conn[<<n, h>>],
         f = <<n, h>> => m.type \notin Requests /\ conn[f] = "up",
         f = <<h, n>> => m.type \notin Replies
  PROVE  Fetching(n, h)'
  <1> DEFINE own == <<n, h>>  back == <<h, n>>
  <1>1. /\ own \in Linked /\ back \in Linked /\ own # back
        /\ chan[own] \in Seq(Message) /\ chan[back] \in Seq(Message)
        /\ <<m>> \in Seq(Message) /\ chan \in [Linked -> Seq(Message)]
    BY TwoEnds DEF TypeOK
  <1>2. /\ chan'[f] = chan[f] \o <<m>>
        /\ \A e \in Linked : e # f => chan'[e] = chan[e]
    BY <1>1
  <1>3. \A z : Asks(n, h, z)' <=> Asks(n, h, z)
    BY DEF Asks
  <1>4. \A z : Brings(n, h, z)' <=> Brings(n, h, z)
    BY DEF Brings
  <1>5. /\ f = own => m.type \notin Requests /\ conn[own] = "up"
        /\ f = back => m.type \notin Replies
        /\ conn'[own] = conn[own]
    OBVIOUS
  <1> HIDE DEF own, back
  <1>6. /\ Without(chan[own], Requests) => Without(chan'[own], Requests)
        /\ \A z : Single(chan[own], Requests, z) =>
                  Single(chan'[own], Requests, z)
    <2>1. CASE f = own
      <3>1. Without(<<m>>, Requests)
        BY <1>5, <2>1, ShortTypes
      <3>2. chan'[own] = chan[own] \o <<m>>
        BY <1>2, <2>1
      <3>3. Without(chan[own], Requests) => Without(chan[own] \o <<m>>, Requests)
        BY <1>1, <3>1, AppendedTypes
      <3>4. \A z : Single(chan[own], Requests, z) =>
                   Single(chan[own] \o <<m>>, Requests, z)
        BY <1>1, <3>1, AppendedTypes
      <3> QED BY <3>2, <3>3, <3>4
    <2>2. CASE f # own
      BY <1>1, <1>2, <2>2
    <2> QED BY <2>1, <2>2
  <1>7. /\ Without(chan[back], Replies) => Without(chan'[back], Replies)
        /\ \A z : Single(chan[back], Replies, z) =>
                  Single(chan'[back], Replies, z)
    <2>1. CASE f = back
      <3>1. Without(<<m>>, Replies)
        BY <1>5, <2>1, ShortTypes
      <3>2. chan'[back] = chan[back] \o <<m>>
        BY <1>2, <2>1
      <3>3. Without(chan[back], Replies) => Without(chan[back] \o <<m>>, Replies)
        BY <1>1, <3>1, AppendedTypes
      <3>4. \A z : Single(chan[back], Replies, z) =>
                   Single(chan[back] \o <<m>>, Replies, z)
        BY <1>1, <3>1, AppendedTypes
      <3> QED BY <3>2, <3>3, <3>4
    <2>2. CASE f # back
      BY <1>1, <1>2, <2>2
    <2> QED BY <2>1, <2>2
  <1>8. conn[own] # "up" => chan'[own] = chan[own]
    BY <1>1, <1>2, <1>5
  <1>9. Unsubscribed(n, h) => Unsubscribed(n, h)'
    BY <1>5, <1>7, <1>8 DEF Unsubscribed, own, back
  <1>10. Asking(n, h) => Asking(n, h)'
    BY <1>3, <1>5, <1>6, <1>7 DEF Asking, own, back
  <1>11. Answered(n, h) => Answered(n, h)'
    BY <1>4, <1>5, <1>6, <1>7 DEF Answered, own, back
  <1> QED BY <1>9, <1>10, <1>11 DEF Fetching

\* The seed stays on its start, and what it says stays true.
LEMMA SeedStays ==
  ASSUME NEW h, Seed(h), Drawn(h)
  PROVE  /\ h \in Node /\ Start[h] \in Block
         /\ Start[h] \in stored[h] /\ tip[h] = Start[h]
  <1>1. h \in Node /\ Start[h] \in Block
    BY SyncAssumption DEF Seed
  <1>2. Start[h] \in Anc[Start[h]]
    BY <1>1, ChainsProper DEF Proper
  <1> QED BY <1>1, <1>2 DEF Drawn

\* A Hello carries the tip of the node that sends it.
LEMMA HelloConverging ==
  ASSUME SyncInv, NEW h, Seed(h), Converging(h), NEW f \in Linked,
         conn[f] = "none", conn' = [conn EXCEPT ![f] = "hello"],
         told' = [told EXCEPT ![f] = tip[f[1]]],
         UNCHANGED <<tip, stored, queue, events, chan, drops, requests>>
  PROVE  Converging(h)'
  <1>1. /\ conn \in [Linked -> {"none", "hello", "up"}]
        /\ told \in [Linked -> Block]
    BY DEF SyncInv, TypeOK
  <1>2. tip[h] = Start[h]
    BY SeedStays DEF Converging
  <1>3. Drawn(h)'
    BY DEF Converging, Drawn, Opened
  <1>4. Silent(h)'
    <2>1. \A e \in Linked : e[1] = h => told'[e] = Start[h]
      BY <1>1, <1>2 DEF Converging, Silent
    <2> QED BY <2>1 DEF Converging, Silent
  <1>5. ASSUME NEW n \in Node \ {h}, Start[h] \notin stored'[n]
        PROVE  Fetching(n, h)'
    <2>1. Fetching(n, h) /\ <<n, h>> \in Linked
      BY <1>5, SeedLinks DEF Converging
    <2>2. /\ conn[<<n, h>>] = "up" => conn'[<<n, h>>] = "up"
          /\ conn[<<n, h>>] # "up" => conn'[<<n, h>>] # "up"
      BY <1>1, <2>1
    <2> QED BY <2>1, <2>2 DEF Fetching, Unsubscribed, Asking, Answered,
                                Asks, Brings
  <1> QED BY <1>3, <1>4, <1>5 DEF Converging

\* A node that is not on the seed's tip asks for headers when it subscribes.
LEMMA SubscribeConverging ==
  ASSUME SyncInv, NEW h, Seed(h), Converging(h), NEW x, NEW y,
         <<x, y>> \in Linked, Subscribe(x, y)
  PROVE  Converging(h)'
  <1>m. PICK m : m = GetHeaders(tip[x])
    OBVIOUS
  <1>1. /\ conn[<<x, y>>] = "hello"
        /\ conn' = [conn EXCEPT ![<<x, y>>] = "up"]
        /\ IF told[<<y, x>>] = tip[x] THEN chan' = chan
           ELSE chan' = [chan EXCEPT ![<<x, y>>] = Append(@, m)]
        /\ UNCHANGED <<tip, stored, queue, told, events, drops, requests>>
    BY <1>m DEF Subscribe
  <1>2. /\ TypeOK /\ Drawn(h) /\ Silent(h) /\ x \in Node /\ <<y, x>> \in Linked
        /\ conn \in [Linked -> {"none", "hello", "up"}] /\ tip[x] \in Block
    BY TwoEnds DEF SyncInv, Converging, TypeOK
  <1>3. m \in Message /\ m.type = "GetHeaders"
    BY <1>m, <1>2, RepliesTyped
  <1>4. Drawn(h)'
    BY <1>1, <1>2 DEF Drawn, Opened
  <1>5. Silent(h)'
    <2>1. CASE chan' = chan
      BY <1>1, <1>2, <2>1 DEF Silent
    <2>2. CASE chan' = [chan EXCEPT ![<<x, y>>] = Append(@, m)]
      <3>1. \A e \in Linked : /\ Without(events'[e], {"GetHeaders"})
                              /\ e[1] = h => events'[e] = <<>>
        BY <1>1, <1>2 DEF Silent
      <3> QED BY <1>1, <1>2, <1>3, <2>2, <3>1, SentSilent
    <2> QED BY <1>1, <2>1, <2>2
  <1>6. ASSUME NEW n \in Node \ {h}, Start[h] \notin stored'[n]
        PROVE  Fetching(n, h)'
    <2>1. /\ Fetching(n, h) /\ <<n, h>> \in Linked /\ <<h, n>> \in Linked
          /\ n # h /\ Start[h] \notin stored[n]
      BY <1>1, <1>6, SeedLinks DEF Converging
    <2>2. CASE x = n
      <3> DEFINE own == <<n, h>>  back == <<h, n>>
      <3>1. y = h
        BY <2>1, <2>2, SeedEnds
      <3>2. /\ Unsubscribed(n, h) /\ queue[own] = <<>> /\ chan[own] = <<>>
            /\ Without(chan[back], Replies)
        BY <1>1, <2>1, <2>2, <3>1 DEF Fetching, Unsubscribed, Asking, Answered
      <3>3. Anc[tip[n]] \subseteq stored[n] /\ tip[n] \in Anc[tip[n]]
        BY <1>2, <2>1, <2>2, ChainsProper DEF TypeOK, Proper
      <3>4. told[back] = Start[h]
        <4>1. back[1] = h
          OBVIOUS
        <4> QED BY <1>2, <2>1, <4>1 DEF Silent
      <3>5. chan' = [chan EXCEPT ![own] = Append(@, m)]
        BY <1>1, <2>1, <2>2, <3>1, <3>3, <3>4
      <3>6. Genesis \in Locator(tip[n]) /\ Locator(tip[n]) \subseteq stored[n]
        BY <1>2, <2>2, <3>3, GenesisLocated
      <3>7. m.locator = Locator(tip[n])
        BY <1>m, <2>2 DEF GetHeaders
      <3>8. Asks(n, h, m)'
        BY <1>1, <1>3, <3>2, <3>6, <3>7 DEF Asks
      <3>9. own \in Linked /\ back \in Linked /\ own # back
        BY <2>1
      <3>10. conn'[own] = "up"
        BY <1>1, <1>2, <2>2, <3>1, <3>9
      <3> HIDE DEF own, back
      <3>11. chan'[own] = Append(<<>>, m) /\ chan'[back] = chan[back]
        BY <1>2, <3>2, <3>5, <3>9 DEF TypeOK
      <3>12. chan'[own] = <<m>>
        BY <3>11
      <3>13. Single(chan'[own], Requests, m)
        <4>1. m.type \in Requests
          BY <1>3 DEF Requests
        <4> QED BY <3>12, <4>1, ShortTypes
      <3>14. Without(chan'[back], Replies)
        BY <3>2, <3>11
      <3> QED BY <3>8, <3>10, <3>13, <3>14 DEF Fetching, Asking, own, back
    <2>3. CASE x # n
      <3>1. conn'[<<n, h>>] = conn[<<n, h>>]
        BY <1>1, <1>2, <2>1, <2>3
      <3>2. CASE chan' = chan
        BY <1>1, <2>1, <3>1, <3>2 DEF Fetching, Unsubscribed, Asking,
                                      Answered, Asks, Brings
      <3>3. CASE chan' = [chan EXCEPT ![<<x, y>>] = Append(@, m)]
        <4>1. m.type \notin Replies /\ <<x, y>> # <<n, h>>
          BY <1>3, <2>3 DEF Replies
        <4> QED BY <1>1, <1>2, <1>3, <2>1, <3>1, <3>3, <4>1, SentFetching
      <3> QED BY <1>1, <3>2, <3>3
    <2> QED BY <2>2, <2>3
  <1> QED BY <1>4, <1>5, <1>6 DEF Converging

\* An event that is forwarded is an announcement, and none of the seed's.
LEMMA ForwardConverging ==
  ASSUME SyncInv, NEW h, Seed(h), Converging(h), NEW x, NEW y,
         <<x, y>> \in Linked, Forward(x, y)
  PROVE  Converging(h)'
  <1> DEFINE f == <<x, y>>
  <1>m. PICK m : m = Head(events[f])
    OBVIOUS
  <1>1. /\ conn[f] = "up" /\ events[f] # <<>>
        /\ chan' = [chan EXCEPT ![f] = Append(@, m)]
        /\ events' = [events EXCEPT ![f] = Tail(@)]
        /\ UNCHANGED <<tip, stored, queue, conn, told, drops, requests>>
    BY <1>m DEF Forward
  <1>2. /\ TypeOK /\ Drawn(h) /\ Silent(h) /\ f \in Linked /\ f[1] = x
        /\ events[f] \in Seq(Event) /\ events \in [Linked -> Seq(Event)]
    BY DEF SyncInv, Converging, TypeOK
  <1> HIDE DEF f
  <1>3. m \in Event /\ m \in Message
    BY <1>m, <1>1, <1>2 DEF Message
  <1>4. Without(events[f], {"GetHeaders"}) /\ (x = h => events[f] = <<>>)
    BY <1>2 DEF Silent
  <1>5. m.type \notin {"GetHeaders"} /\ Without(Tail(events[f]), {"GetHeaders"})
    BY <1>m, <1>1, <1>2, <1>4, RemainingTypes
  <1>6. m.type = "Inventory" /\ x # h
    BY <1>1, <1>3, <1>4, <1>5 DEF Event
  <1>7. Drawn(h)'
    BY <1>1, <1>2 DEF Drawn, Opened
  <1>8. Silent(h)'
    <2>1. \A e \in Linked : /\ Without(events'[e], {"GetHeaders"})
                            /\ e[1] = h => events'[e] = <<>>
      BY <1>1, <1>2, <1>5, <1>6 DEF Silent
    <2> QED BY <1>1, <1>2, <1>3, <1>6, <2>1, SentSilent
  <1>9. ASSUME NEW n \in Node \ {h}, Start[h] \notin stored'[n]
        PROVE  Fetching(n, h)'
    <2>1. Fetching(n, h) /\ <<n, h>> \in Linked /\ n # h
      BY <1>1, <1>9, SeedLinks DEF Converging
    <2>2. m.type \notin Requests /\ m.type \notin Replies
      BY <1>6 DEF Requests, Replies
    <2> QED BY <1>1, <1>2, <1>3, <2>1, <2>2, SentFetching
  <1> QED BY <1>7, <1>8, <1>9 DEF Converging

\* A connection that breaks takes the conversation with it, on both sides.
LEMMA DisconnectConverging ==
  ASSUME SyncInv, NEW h, Seed(h), Converging(h), NEW c, NEW s,
         <<c, s>> \in Dial, Disconnect(c, s)
  PROVE  Converging(h)'
  <1> DEFINE ends == {<<c, s>>, <<s, c>>}
             cut(f, v) == [e \in Linked |-> IF e \in ends THEN v ELSE f[e]]
  <1>1. /\ conn' = cut(conn, "none") /\ chan' = cut(chan, <<>>)
        /\ events' = cut(events, <<>>) /\ queue' = cut(queue, <<>>)
        /\ UNCHANGED <<tip, stored, told, requests>>
    BY DEF Disconnect
  <1>2. \A n, m : <<n, m>> \in ends <=> <<m, n>> \in ends
    OBVIOUS
  <1>3. \A T : Without(<<>>, T) /\ \A x : ~Contains(<<>>, x)
    BY ShortTypes, OneMessage
  <1> HIDE DEF ends
  <1>4. Drawn(h)'
    BY <1>1 DEF Converging, Drawn, Opened
  <1>5. Silent(h)'
    <2> SUFFICES ASSUME NEW e \in Linked
                 PROVE  /\ Without(events'[e], {"GetHeaders"})
                        /\ \A x : Contains(chan'[e], x) /\ x.type = "Block"
                                  => x.id \in stored'[e[1]]
                        /\ e[1] = h => /\ told'[e] = Start[h]
                                       /\ events'[e] = <<>>
                                       /\ Without(chan'[e], {"Inventory"})
      BY DEF Silent
    <2>1. \/ events'[e] = <<>> /\ chan'[e] = <<>>
          \/ events'[e] = events[e] /\ chan'[e] = chan[e]
      BY <1>1
    <2> QED BY <1>1, <1>3, <2>1 DEF Converging, Silent
  <1>6. ASSUME NEW n \in Node \ {h}, Start[h] \notin stored'[n]
        PROVE  Fetching(n, h)'
    <2> DEFINE own == <<n, h>>  back == <<h, n>>
    <2>1. /\ Fetching(n, h) /\ own \in Linked /\ back \in Linked
          /\ own \in ends <=> back \in ends
      BY <1>1, <1>2, <1>6, SeedLinks DEF Converging
    <2>2. CASE own \in ends
      <3>1. /\ conn'[own] = "none" /\ queue'[own] = <<>> /\ chan'[own] = <<>>
            /\ chan'[back] = <<>>
        BY <1>1, <2>1, <2>2
      <3> QED BY <1>3, <3>1 DEF Fetching, Unsubscribed
    <2>3. CASE own \notin ends
      <3>1. /\ conn'[own] = conn[own] /\ queue'[own] = queue[own]
            /\ chan'[own] = chan[own] /\ chan'[back] = chan[back]
        BY <1>1, <2>1, <2>3
      <3> QED BY <1>1, <2>1, <3>1 DEF Fetching, Unsubscribed, Asking,
                                      Answered, Asks, Brings
    <2> QED BY <2>2, <2>3
  <1> QED BY <1>4, <1>5, <1>6 DEF Converging

-----------------------------------------------------------------------------
(* An undisturbed synchronization converges.                               *)

\* Init: connections that exist already join nodes of the same chain, and
\* the others are not subscribed.
LEMMA InitConverging ==
  ASSUME Init, NEW h, Seed(h)
  PROVE  Converging(h)
  <1>1. /\ tip = Start
        /\ stored = [n \in Node |-> Anc[Start[n]]]
        /\ queue = [e \in Linked |-> <<>>]
        /\ conn = [e \in Linked |->
                     IF e \in Joined \/ <<e[2], e[1]>> \in Joined
                     THEN "up" ELSE "none"]
        /\ told = [e \in Linked |-> Start[e[1]]]
        /\ events = [e \in Linked |-> <<>>] /\ chan = [e \in Linked |-> <<>>]
    BY DEF Init
  <1>2. \A n \in Node : /\ Start[n] \in Block /\ Start[n] \in Anc[Start[n]]
                        /\ stored[n] = Anc[Start[n]] /\ tip[n] = Start[n]
    BY <1>1, SyncAssumption, ChainsProper DEF Proper
  <1>3. \A T : Without(<<>>, T) /\ \A x : ~Contains(<<>>, x)
    BY ShortTypes, OneMessage
  <1>4. Drawn(h)
    <2> SUFFICES ASSUME NEW n \in Node
                 PROVE  /\ stored[n] \subseteq Opened
                        /\ Start[h] \in stored[n] => tip[n] = Start[h]
      BY <1>2 DEF Drawn
    <2>1. stored[n] \subseteq Opened
      BY <1>2 DEF Opened
    <2>2. ASSUME Start[h] \in stored[n] PROVE tip[n] = Start[h]
      <3>1. CASE Start[n] = Start[h]
        BY <1>2, <3>1
      <3>2. CASE Start[n] # Start[h]
        <4>1. Start[n] \in Opened /\ Preferred(Start[h], Start[n])
          BY <1>2, <3>2 DEF Opened, Seed
        <4>2. CumWork[Start[h]] < CumWork[Start[n]]
          BY <1>2, <2>2, <3>2, ChainOrder
        <4>3. CumWork[Start[h]] \in Nat /\ CumWork[Start[n]] \in Nat
          BY <1>2, WorkAssumption DEF Seed
        <4>4. CumWork[Start[n]] > CumWork[Start[h]]
          BY <4>2, <4>3
        <4> QED BY <4>1, <4>4, BestOpened
      <3> QED BY <3>1, <3>2
    <2> QED BY <2>1, <2>2
  <1>5. Silent(h)
    BY <1>1, <1>3 DEF Silent
  <1>6. ASSUME NEW n \in Node \ {h}, Start[h] \notin stored[n]
        PROVE  Fetching(n, h)
    <2> DEFINE own == <<n, h>>  back == <<h, n>>
    <2>1. own \in Linked /\ back \in Linked /\ h \in Node
      BY SeedLinks
    <2>2. Start[n] # Start[h]
      BY <1>2, <1>6
    <2>3. own \notin Joined /\ <<own[2], own[1]>> \notin Joined
      <3>1. \A d \in Joined : Start[d[1]] = Start[d[2]]
        BY SyncAssumption
      <3>2. /\ own[1] = n /\ own[2] = h /\ back[1] = h /\ back[2] = n
            /\ <<own[2], own[1]>> = back
        OBVIOUS
      <3> QED BY <2>2, <3>1, <3>2
    <2>4. conn[own] = "none"
      BY <1>1, <2>1, <2>3
    <2>5. queue[own] = <<>> /\ chan[own] = <<>> /\ chan[back] = <<>>
      BY <1>1, <2>1
    <2> QED BY <1>3, <2>4, <2>5 DEF Fetching, Unsubscribed
  <1> QED BY <1>4, <1>5, <1>6 DEF Converging

\* No step forgets a block or a call of request_sync.
LEMMA DisturbedStays ==
  ASSUME SyncInv, [Next]_vars, Undisturbed'
  PROVE  Undisturbed
  <1>1. TypeOK /\ StoredComplete /\ requests \in Nat
    BY SyncAssumption DEF SyncInv, TypeOK
  <1>2. /\ \A k \in Node : stored[k] \subseteq stored'[k]
        /\ requests' = requests \/ requests' = requests + 1
    <2>1. CASE UNCHANGED vars
      BY <2>1 DEF vars
    <2>2. ASSUME NEW e \in Linked, Connect(e[1], e[2]) \/ Forward(e[1], e[2])
          PROVE  UNCHANGED <<stored, requests>>
      BY <2>2 DEF Connect, ClientHello, ServerHello, Subscribe, Forward
    <2>3. ASSUME NEW e \in Linked, Handle(e[1], e[2])
          PROVE  /\ \A k \in Node : stored[k] \subseteq stored'[k]
                 /\ requests' = requests
      <3>1. CASE HandleBlock(e[1], e[2])
        <4> DEFINE b == Head(chan[<<e[2], e[1]>>]).id
        <4>1. /\ Receive(e[1], e[2], "Block") /\ SubmitBlock(e[1], b)
              /\ requests' = requests
          BY <3>1 DEF HandleBlock
        <4>2. e[1] \in Node /\ e[2] \in Node /\ e = <<e[1], e[2]>>
          BY <2>3 DEF Linked, Pair
        <4>3. b \in Block
          BY <1>1, <2>3, <4>1, <4>2, Received
        <4> HIDE DEF b
        <4> QED BY <1>1, <4>1, <4>2, <4>3, SubmitSound
      <3>2. CASE ~HandleBlock(e[1], e[2])
        BY <2>3, <3>2 DEF Handle, HandleInventory, HandleGetData,
                          HandleGetHeaders, HandleHeaders
      <3> QED BY <3>1, <3>2
    <2>4. ASSUME NEW d \in Dial, Disconnect(d[1], d[2])
          PROVE  UNCHANGED <<stored, requests>>
      BY <2>4 DEF Disconnect
    <2>5. ASSUME NEW n \in Node, RequestSync(n)
          PROVE  stored' = stored /\ requests' = requests + 1
      BY <2>5 DEF RequestSync
    <2>6. ASSUME NEW n \in Node, NEW b \in Mined[n], Mine(n, b)
          PROVE  /\ \A k \in Node : stored[k] \subseteq stored'[k]
                 /\ requests' = requests
      <3>1. SubmitBlock(n, b) /\ requests' = requests /\ b \in Block
        BY <2>6, SyncAssumption DEF Mine
      <3> QED BY <1>1, <3>1, SubmitSound
    <2> QED BY <2>1, <2>2, <2>3, <2>4, <2>5, <2>6 DEF Next
  <1>3. requests = 0
    BY <1>1, <1>2 DEF Undisturbed
  <1> QED BY <1>2, <1>3 DEF Undisturbed

\* One step: request_sync and the miner are what disturbs.
LEMMA NextConverging ==
  ASSUME SyncInv, NEW h, Seed(h), Undisturbed => Converging(h), [Next]_vars
  PROVE  Undisturbed' => Converging(h)'
  <1> SUFFICES ASSUME Undisturbed' PROVE Converging(h)'
    OBVIOUS
  <1>1. Undisturbed /\ Converging(h)
    BY DisturbedStays
  <1>2. CASE UNCHANGED vars
    BY <1>1, <1>2 DEF vars, Converging, Drawn, Opened, Silent, Fetching,
                      Unsubscribed, Asking, Answered, Asks, Brings
  <1>3. ASSUME NEW e \in Linked, Connect(e[1], e[2])
        PROVE  Converging(h)'
    <2>1. e = <<e[1], e[2]>> /\ <<e[2], e[1]>> \in Linked
      BY TwoEnds DEF Linked, Pair
    <2>2. CASE ClientHello(e[1], e[2])
      <3>1. e[1] = <<e[1], e[2]>>[1]
        OBVIOUS
      <3> QED BY <1>1, <2>1, <2>2, <3>1, HelloConverging DEF ClientHello
    <2>3. CASE ServerHello(e[1], e[2])
      <3>1. PICK f : f = <<e[2], e[1]>>
        OBVIOUS
      <3>2. f \in Linked /\ f[1] = e[2]
        BY <2>1, <3>1
      <3>3. /\ conn[f] = "none" /\ conn' = [conn EXCEPT ![f] = "hello"]
            /\ told' = [told EXCEPT ![f] = tip[f[1]]]
            /\ UNCHANGED <<tip, stored, queue, events, chan, drops, requests>>
        BY <2>3, <3>1, <3>2 DEF ServerHello
      <3> QED BY <1>1, <3>2, <3>3, HelloConverging
    <2>4. CASE Subscribe(e[1], e[2])
      BY <1>1, <2>1, <2>4, SubscribeConverging
    <2> QED BY <1>3, <2>2, <2>3, <2>4 DEF Connect
  <1>4. ASSUME NEW e \in Linked, Forward(e[1], e[2]) \/ Handle(e[1], e[2])
        PROVE  Converging(h)'
    <2>1. <<e[1], e[2]>> \in Linked
      BY DEF Linked, Pair
    <2> QED BY <1>1, <1>4, <2>1, ForwardConverging, InventoryConverging,
               GetDataConverging, BlockConverging, GetHeadersConverging,
               HeadersConverging DEF Handle
  <1>5. ASSUME NEW d \in Dial, Disconnect(d[1], d[2])
        PROVE  Converging(h)'
    <2>1. <<d[1], d[2]>> \in Dial
      BY SyncAssumption
    <2> QED BY <1>1, <1>5, <2>1, DisconnectConverging
  <1>6. ASSUME NEW n \in Node, RequestSync(n)
        PROVE  FALSE
    <2>1. requests' = requests + 1 /\ requests = 0 /\ requests' = 0
      BY <1>1, <1>6 DEF RequestSync, Undisturbed
    <2> QED BY <2>1
  <1>7. ASSUME NEW n \in Node, NEW b \in Mined[n], Mine(n, b)
        PROVE  FALSE
    <2>1. /\ b \in Mined[n] \ stored[n] /\ Parent[b] = tip[n]
          /\ SubmitBlock(n, b)
      BY <1>7 DEF Mine
    <2>2. /\ stored \in [Node -> SUBSET Block]
          /\ Anc[tip[n]] \subseteq stored[n] /\ Anc[Start[n]] \subseteq stored[n]
      BY <1>1 DEF SyncInv, TypeOK, Converging, Drawn
    <2>3. Outcome(n, b) = "Extended"
      BY <2>1, <2>2 DEF Outcome
    <2>4. b \in stored'[n]
      BY <2>1, <2>2, <2>3 DEF SubmitBlock
    <2> QED BY <2>1, <2>2, <2>4 DEF Undisturbed
  <1> QED BY <1>2, <1>3, <1>4, <1>5, <1>6, <1>7 DEF Next

\* Where nothing is on its way, no node is fetching: all follow the seed.
LEMMA QuietConverged ==
  ASSUME NEW h, Seed(h), Converging(h)
  PROVE  Converged
  <1> SUFFICES ASSUME Quiet, NEW n \in Node PROVE tip[n] = Start[h]
    BY DEF Converged
  <1>1. h \in Node /\ Drawn(h)
    BY DEF Converging, Seed
  <1>2. CASE n = h
    BY <1>1, <1>2, SeedStays
  <1>3. CASE n # h
    <2>1. <<n, h>> \in Linked /\ <<h, n>> \in Linked
      BY <1>3, SeedLinks
    <2>2. /\ conn[<<n, h>>] = "up"
          /\ chan[<<n, h>>] = <<>> /\ chan[<<h, n>>] = <<>>
      BY <2>1 DEF Quiet, Up
    <2>3. ~Fetching(n, h)
      BY <2>2, ShortTypes DEF Fetching, Unsubscribed, Asking, Answered
    <2>4. Start[h] \in stored[n]
      BY <1>3, <2>3 DEF Converging
    <2> QED BY <1>1, <2>4 DEF Drawn
  <1> QED BY <1>2, <1>3

\* handle_wire, outbound_once and submit_block: where one node has the preferred
\* start and every connection, and its chain fits into one batch of headers,
\* nodes with nothing on its way follow the same chain, unless a miner or a
\* call of request_sync came between. This holds for any other starts and
\* however often connections break and are made again.
THEOREM SeedConverges ==
  ASSUME NEW h, Seed(h)
  PROVE  Spec => []UndisturbedConverge
  <1> DEFINE Inv == SyncInv /\ (Undisturbed => Converging(h))
  <1>1. Init => Inv
    BY InitInv, InitConverging
  <1>2. Inv /\ [Next]_vars => Inv'
    <2> SUFFICES ASSUME Inv, [Next]_vars PROVE Inv'
      OBVIOUS
    <2>1. SyncInv'
      BY NextInv
    <2>2. Undisturbed' => Converging(h)'
      BY NextConverging
    <2> QED BY <2>1, <2>2
  <1>3. Inv => UndisturbedConverge
    BY QuietConverged DEF UndisturbedConverge
  <1> HIDE DEF Inv
  <1> QED BY <1>1, <1>2, <1>3, PTL DEF Spec

\* The same of any two nodes: whichever of them has the preferred chain, and
\* whichever dials, they end up on it.
THEOREM PairConverges ==
  ASSUME NEW c, NEW s, Node = {c, s}, Dial = {<<c, s>>},
         \A n \in Node : Height[Start[n]] <= MaxHeaders
  PROVE  Spec => []UndisturbedConverge
  <1>1. PICK h : Seed(h)
    <2>1. /\ Start[c] \in Block /\ Start[s] \in Block /\ c \in Node /\ s \in Node
          /\ <<c, s>> \in Linked /\ <<s, c>> \in Linked
      BY SyncAssumption DEF Linked, Pair
    <2>2. \/ Start[c] = Start[s] \/ Preferred(Start[c], Start[s])
          \/ Preferred(Start[s], Start[c])
      <3>1. \A x \in {Start[c], Start[s]} : CumWork[x] \in Nat /\ Rank[x] \in Nat
        BY <2>1, WorkAssumption, RankAssumption
      <3>2. Start[c] # Start[s] => Rank[Start[c]] # Rank[Start[s]]
        BY <2>1, RankAssumption
      <3> QED BY <3>1, <3>2 DEF Preferred
    <2>3. \A h \in Node :
            /\ \A d \in Dial : h \in {d[1], d[2]}
            /\ \A n \in Node \ {h} : <<n, h>> \in Linked
      BY <2>1
    <2> QED BY <2>1, <2>2, <2>3 DEF Seed
  <1> QED BY <1>1, SeedConverges
=============================================================================
