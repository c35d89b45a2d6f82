------------------------------- MODULE Codec --------------------------------
(***************************************************************************)
(* The byte format of blocks and messages (src/src/codec.rs, the           *)
(* ConsensusEncode and ConsensusDecode of src/src/consensus/types.rs and   *)
(* src/src/p2p.rs) and the Merkle root of a block's transactions.          *)
(*                                                                         *)
(* A field of fixed width (an integer, a hash, an address, a header, a     *)
(* claim) is one symbol, and so is a count: what can go wrong is where a   *)
(* field starts and ends, how often it repeats and which limit it has.     *)
(* Hashes are injective, so a node of the Merkle tree is its children.     *)
(***************************************************************************)
EXTENDS Integers, SequencesExt

CONSTANT Limit  \* the limits of params.rs, codec.rs and p2p.rs, by name

ASSUME CodecAssumption ==
  /\ Limit \in [{"allocation", "frame", "block", "tx", "txs", "template",
                 "templates", "witness", "shares", "key", "signature",
                 "locator", "headers", "urls", "url", "hello", "chain",
                 "node_key"} -> Nat]
  /\ \A kind \in DOMAIN Limit \ {"frame"} : Limit[kind] <= Limit.allocation
  /\ 1 <= Limit.allocation
  /\ Limit.chain + Limit.node_key + Limit.url + Limit.signature + 7 <= Limit.hello
  /\ \A kind \in {"hello", "block", "tx", "template", "headers"} :
       Limit[kind] + 3 <= Limit.frame
  /\ Limit.locator + 4 <= Limit.frame
  /\ Limit.urls * (Limit.url + 1) + 3 <= Limit.frame

Magic == 9

-----------------------------------------------------------------------------
(* What messages carry. The claim of a block is an Option: <<>> or <<claim>>. *)

TransactionData == [head : Nat, key : Seq(Nat), signature : Seq(Nat)]
TemplateData == [head : Nat, txs : Seq(TransactionData)]
WitnessData ==
  [head : Nat, templates : Seq(TemplateData), shares : Seq(Nat)]
BlockData ==
  [head : Nat, claim : {c \in Seq(Nat) : Len(c) <= 1},
   txs : Seq(TransactionData), witness : WitnessData]

\* state stands for the fields from timestamp to cumulative_work.
HelloData ==
  [protocol : Nat, chain : Seq(Nat), genesis : Nat, key : Seq(Nat), state : Nat,
   url : Seq(Nat), signature : Seq(Nat)]

\* WireMessage, by its tag.
MessageData(tag) ==
  CASE tag = 1              -> HelloData
    [] tag \in {2, 3}       -> [kind : Nat, id : Nat]
    [] tag = 4              -> BlockData
    [] tag = 5              -> TransactionData
    [] tag \in {6, 10, 11}  -> Nat
    [] tag = 7              -> TemplateData
    [] tag = 8              -> [locator : Seq(Nat), stop : Nat]
    [] tag = 9              -> Seq(Nat)
    [] tag = 12             -> Seq(Seq(Nat))

-----------------------------------------------------------------------------
(* Writer.                                                                 *)

Prefixed(bytes) == <<Len(bytes)>> \o bytes
EncodeAll(items) == <<Len(items)>> \o FlattenSeq(items)
PrefixedAll(items, Encode(_)) ==
  EncodeAll([i \in DOMAIN items |-> Prefixed(Encode(items[i]))])

EncodeTransaction(t) == <<t.head>> \o Prefixed(t.key) \o Prefixed(t.signature)
EncodeTemplate(t) == <<t.head>> \o PrefixedAll(t.txs, EncodeTransaction)
EncodeShare(s) == <<s>>
EncodeWitness(w) ==
  <<w.head>> \o PrefixedAll(w.templates, EncodeTemplate)
             \o PrefixedAll(w.shares, EncodeShare)

EncodeBlock(b) ==
  <<b.head, Len(b.claim)>> \o b.claim \o PrefixedAll(b.txs, EncodeTransaction)
    \o Prefixed(EncodeWitness(b.witness))

EncodeHello(h) ==
  <<h.protocol>> \o Prefixed(h.chain) \o <<h.genesis>> \o Prefixed(h.key)
    \o <<h.state>> \o Prefixed(h.url) \o Prefixed(h.signature)

\* A message is its tag and its content.
Content(m) ==
  CASE m.tag = 1          -> Prefixed(EncodeHello(m.value))
    [] m.tag \in {2, 3}   -> <<m.value.kind, m.value.id>>
    [] m.tag = 4          -> Prefixed(EncodeBlock(m.value))
    [] m.tag = 5          -> Prefixed(EncodeTransaction(m.value))
    [] m.tag = 6          -> Prefixed(EncodeShare(m.value))
    [] m.tag = 7          -> Prefixed(EncodeTemplate(m.value))
    [] m.tag = 8          -> EncodeAll([i \in DOMAIN m.value.locator |->
                                          <<m.value.locator[i]>>])
                               \o <<m.value.stop>>
    [] m.tag = 9          -> EncodeAll([i \in DOMAIN m.value |-> <<m.value[i]>>])
    [] m.tag \in {10, 11} -> <<m.value>>
    [] m.tag = 12         -> EncodeAll([i \in DOMAIN m.value |->
                                          Prefixed(m.value[i])])

EncodeFrame(m) == <<Magic, m.tag>> \o Content(m)

-----------------------------------------------------------------------------
(* Reader: a value and where the next one starts, or Fail.                 *)

Fail == [ok |-> FALSE]
Got(v, at) == [ok |-> TRUE, value |-> v, at |-> at]
Then(r, Rest(_, _)) == IF r.ok THEN Rest(r.value, r.at) ELSE Fail

Fixed(b, at) == IF at <= Len(b) THEN Got(b[at], at + 1) ELSE Fail

ReadBytes(b, at, max) ==
  Then(Fixed(b, at), LAMBDA n, i :
    IF n <= max /\ n <= Limit.allocation /\ i + n - 1 <= Len(b)
    THEN Got(SubSeq(b, i, i + n - 1), i + n) ELSE Fail)

\* The places where something may stand in b; the last one is its end.
Places(b) == 1..(Len(b) + 1)

\* A count of at most max, then as many items; item[j] is what is read at j.
Counted(b, at, max, item) ==
  Then(Fixed(b, at), LAMBDA n, i :
    LET read[k \in 0..n] ==
          IF k = 0 THEN Got(<<>>, i)
          ELSE Then(read[k - 1], LAMBDA vs, j :
                 Then(item[j], LAMBDA v, end : Got(Append(vs, v), end)))
    IN  IF n <= max THEN read[n] ELSE Fail)

Vector(b, at, max, Item(_, _)) ==
  Counted(b, at, max, [j \in Places(b) |-> Item(b, j)])

\* consensus_decode: a value, and nothing after it (Reader::finish).
ConsensusDecode(b, Read(_, _)) ==
  IF Len(b) > Limit.allocation THEN Fail
  ELSE Then(Read(b, 1), LAMBDA v, end :
         IF end = Len(b) + 1 THEN Got(v, end) ELSE Fail)

Nested(b, at, max, Read(_, _)) ==
  Then(ReadBytes(b, at, max), LAMBDA bytes, i :
    Then(ConsensusDecode(bytes, Read), LAMBDA v, end : Got(v, i)))

ReadTransaction(b, at) ==
  Then(Fixed(b, at), LAMBDA head, i :
    Then(ReadBytes(b, i, Limit.key), LAMBDA key, j :
      Then(ReadBytes(b, j, Limit.signature), LAMBDA signature, k :
        LET t == [head |-> head, key |-> key, signature |-> signature]
        IN  IF Len(EncodeTransaction(t)) <= Limit.tx THEN Got(t, k) ELSE Fail)))

TransactionItem(b, at) == Nested(b, at, Limit.tx, ReadTransaction)

ReadTemplate(b, at) ==
  Then(Fixed(b, at), LAMBDA head, i :
    Then(Vector(b, i, Limit.txs, TransactionItem), LAMBDA txs, j :
      Got([head |-> head, txs |-> txs], j)))

TemplateItem(b, at) == Nested(b, at, Limit.template, ReadTemplate)
ShareItem(b, at) == Nested(b, at, 1, Fixed)

ReadWitness(b, at) ==
  Then(Fixed(b, at), LAMBDA head, i :
    Then(Vector(b, i, Limit.templates, TemplateItem), LAMBDA templates, j :
      Then(Vector(b, j, Limit.shares, ShareItem), LAMBDA shares, k :
        Got([head |-> head, templates |-> templates, shares |-> shares], k))))

\* The tag of the claim is 0 or 1.
ReadClaim(b, at) == Vector(b, at, 1, Fixed)

ReadBlock(b, at) ==
  Then(Fixed(b, at), LAMBDA head, i :
    Then(ReadClaim(b, i), LAMBDA claim, j :
      Then(Vector(b, j, Limit.txs, TransactionItem), LAMBDA txs, k :
        Then(Nested(b, k, Limit.witness, ReadWitness), LAMBDA witness, end :
          Got([head |-> head, claim |-> claim, txs |-> txs,
               witness |-> witness], end)))))

ReadHello(b, at) ==
  Then(Fixed(b, at), LAMBDA protocol, i :
   Then(ReadBytes(b, i, Limit.chain), LAMBDA chain, j :
    Then(Fixed(b, j), LAMBDA genesis, k :
     Then(ReadBytes(b, k, Limit.node_key), LAMBDA key, l :
      Then(Fixed(b, l), LAMBDA state, m :
       Then(ReadBytes(b, m, Limit.url), LAMBDA url, n :
        Then(ReadBytes(b, n, Limit.signature), LAMBDA signature, end :
         Got([protocol |-> protocol, chain |-> chain, genesis |-> genesis,
              key |-> key, state |-> state, url |-> url,
              signature |-> signature], end))))))))

ReadObject(b, at) ==
  Then(Fixed(b, at), LAMBDA kind, i :
    Then(Fixed(b, i), LAMBDA id, j :
      IF kind \in 1..4 THEN Got([kind |-> kind, id |-> id], j) ELSE Fail))

ReadLocator(b, at) ==
  Then(Vector(b, at, Limit.locator, Fixed), LAMBDA locator, i :
    Then(Fixed(b, i), LAMBDA stop, j :
      Got([locator |-> locator, stop |-> stop], j)))

ReadUrl(b, at) == ReadBytes(b, at, Limit.url)
ReadPeers(b, at) ==
  Then(Vector(b, at, Limit.urls, ReadUrl), LAMBDA urls, i :
    IF IsInjective(urls) THEN Got(urls, i) ELSE Fail)

ReadContent(tag, b, at) ==
  CASE tag = 1          -> Nested(b, at, Limit.hello, ReadHello)
    [] tag \in {2, 3}   -> ReadObject(b, at)
    [] tag = 4          -> Nested(b, at, Limit.block, ReadBlock)
    [] tag = 5          -> TransactionItem(b, at)
    [] tag = 6          -> ShareItem(b, at)
    [] tag = 7          -> TemplateItem(b, at)
    [] tag = 8          -> ReadLocator(b, at)
    [] tag = 9          -> Vector(b, at, Limit.headers, Fixed)
    [] tag \in {10, 11} -> Fixed(b, at)
    [] tag = 12         -> ReadPeers(b, at)
    [] OTHER            -> Fail

ReadFrame(b, at) ==
  Then(Fixed(b, at), LAMBDA magic, i :
    IF magic # Magic THEN Fail
    ELSE Then(Fixed(b, i), LAMBDA tag, j :
           Then(ReadContent(tag, b, j), LAMBDA v, end :
             Got([tag |-> tag, value |-> v], end))))

\* Mutation: what follows the message is ignored.
DecodeFrameOpen(b) ==
  IF Len(b) <= Limit.frame THEN ReadFrame(b, 1) ELSE Fail

DecodeFrame(b) ==
  IF Len(b) > Limit.frame THEN Fail
  ELSE Then(ReadFrame(b, 1), LAMBDA m, end :
         IF end = Len(b) + 1 THEN Got(m, end) ELSE Fail)

-----------------------------------------------------------------------------
(* Limits that a block the node accepted keeps.                            *)

\* validate_transaction_structure, for the size.
TransactionFits(t) ==
  /\ Len(t.key) <= Limit.key /\ Len(t.signature) <= Limit.signature
  /\ Len(EncodeTransaction(t)) <= Limit.tx

TemplateFits(t) ==
  /\ Len(EncodeTemplate(t)) <= Limit.template
  /\ Len(t.txs) <= Limit.txs
  /\ \A i \in DOMAIN t.txs : TransactionFits(t.txs[i])

\* validate_witness_shape, and the pool's count of templates and shares.
WitnessFits(w) ==
  /\ Len(EncodeWitness(w)) <= Limit.witness
  /\ Len(w.templates) <= Limit.templates /\ Len(w.shares) <= Limit.shares
  /\ \A i \in DOMAIN w.templates : TemplateFits(w.templates[i])

\* validate_block.
BlockFits(b) ==
  /\ Len(EncodeBlock(b)) <= Limit.block /\ Len(b.txs) <= Limit.txs
  /\ \A i \in DOMAIN b.txs : TransactionFits(b.txs[i])
  /\ WitnessFits(b.witness)

\* What a node that keeps its limits may send.
Sendable(m) ==
  CASE m.tag = 1  -> /\ Len(m.value.chain) <= Limit.chain
                     /\ Len(m.value.key) <= Limit.node_key
                     /\ Len(m.value.url) <= Limit.url
                     /\ Len(m.value.signature) <= Limit.signature
    [] m.tag \in {2, 3} -> m.value.kind \in 1..4
    [] m.tag = 4  -> BlockFits(m.value)
    [] m.tag = 5  -> TransactionFits(m.value)
    [] m.tag = 7  -> TemplateFits(m.value)
    [] m.tag = 8  -> Len(m.value.locator) <= Limit.locator
    [] m.tag = 9  -> Len(m.value) <= Limit.headers
    [] m.tag = 12 -> /\ Len(m.value) <= Limit.urls /\ IsInjective(m.value)
                     /\ \A i \in DOMAIN m.value : Len(m.value[i]) <= Limit.url
    [] OTHER      -> TRUE

-----------------------------------------------------------------------------

\* Mutation: the last hash of an odd level is left out.
ParentsEven(level) ==
  [i \in 1..(Len(level) \div 2) |-> <<level[2 * i - 1], level[2 * i]>>]

\* One round of merkle_root: the last hash of an odd level is paired with
\* itself.
Parents(level) ==
  [i \in 1..((Len(level) + 1) \div 2) |->
     <<level[2 * i - 1], level[IF 2 * i > Len(level) THEN 2 * i - 1 ELSE 2 * i]>>]

\* merkle_root of at least one leaf; a leaf is a tuple of one, unlike a node.
MerkleRoot(leaves) ==
  LET level[n \in 0..Len(leaves)] ==
        IF n = 0 THEN [i \in DOMAIN leaves |-> <<leaves[i]>>]
        ELSE IF Len(level[n - 1]) > 1 THEN Parents(level[n - 1])
        ELSE level[n - 1]
  IN  level[Len(leaves)][1]
=============================================================================
