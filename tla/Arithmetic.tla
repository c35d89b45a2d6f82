----------------------------- MODULE Arithmetic -----------------------------
(***************************************************************************)
(* The consensus computations, each compared with what it stands for:      *)
(* reward_allocation with a proportional division, the compact encoding    *)
(* with rounding down, the difficulty schedule with doubling once per      *)
(* half-life, the byte format with its own inverse, the Merkle root with   *)
(* the list it commits to. The computations have no state of their own, so *)
(* a behaviour is one call: what it is asked, and its answer.              *)
(***************************************************************************)
EXTENDS Rewards, Difficulty, Codec

CONSTANTS
  MaxWeight, MaxSubsidy, MaxFees,  \* bounds of the inputs of Rewards
  MaxDelay, MaxParent,             \* bounds of timestamps and heights
  MaxLeaves,                       \* bound of the transactions under a root
  Messages,                        \* what is sent
  Symbol                           \* symbols that damage a frame

ASSUME ArithmeticAssumption ==
  /\ {MaxWeight, MaxSubsidy, MaxFees, MaxDelay, MaxParent, MaxLeaves} \subseteq Nat
  /\ \A m \in Messages :
       m.tag \in 1..12 /\ m \in [tag : {m.tag}, value : MessageData(m.tag)]
  /\ Symbol \subseteq Nat

VARIABLES asked, answer

NotYet == [none |-> TRUE]

\* A frame as it was sent, or with one symbol replaced, left out or inserted.
Damaged(bytes) ==
  {bytes}
    \cup {[bytes EXCEPT ![i] = x] : i \in DOMAIN bytes, x \in Symbol}
    \cup {SubSeq(bytes, 1, i - 1) \o SubSeq(bytes, i + 1, Len(bytes))
            : i \in DOMAIN bytes}
    \cup {SubSeq(bytes, 1, i) \o <<x>> \o SubSeq(bytes, i + 1, Len(bytes))
            : i \in 0..Len(bytes), x \in Symbol}

\* Lists without a repetition: apply_transactions refuses the others.
Leaves ==
  UNION {{s \in [1..n -> 1..MaxLeaves] : IsInjective(s)} : n \in 1..MaxLeaves}

-----------------------------------------------------------------------------

Inputs ==
  [w : [Addr -> 0..MaxWeight], subsidy : 0..MaxSubsidy, fees : 0..MaxFees]
    \cup [target : 1..MaxTarget]
    \cup [height : 0..MaxParent, time : 0..MaxDelay, launch : 0..1]
    \cup [message : Messages]
    \cup [leaves : Leaves]

Unanswered == asked \in Inputs /\ answer = NotYet

\* One call of reward_allocation.
Allotment(i) ==
  [finder |-> FinderAmount(i.subsidy, i.w, i.fees),
   shares |-> WorkshareRewards(Pool(i.subsidy), i.w)]

Divide ==
  /\ answer = NotYet /\ "subsidy" \in DOMAIN asked
  /\ answer' = Allotment(asked)
  /\ UNCHANGED asked

\* A target travels through a header, and its work and the target of the
\* block's workshares are computed from there.
Encoding(i) ==
  LET bits == TargetToBits(i.target)
  IN  [bits  |-> bits,
       back  |-> BitsToTarget(bits),
       share |-> WorkshareBits(bits),
       work  |-> TargetWork(i.target)]

Encode ==
  /\ answer = NotYet /\ "target" \in DOMAIN asked
  /\ answer' = Encoding(asked)
  /\ UNCHANGED asked

\* One call of required_target and required_bits.
Retargeting(i) ==
  [target |-> RequiredTarget(i.height, i.time, i.launch),
   bits   |-> RequiredBits(i.height, i.time, i.launch)]

Retarget ==
  /\ answer = NotYet /\ "height" \in DOMAIN asked
  /\ answer' = Retargeting(asked)
  /\ UNCHANGED asked

\* A frame is sent, and something like it is received.
Deliver ==
  /\ answer = NotYet /\ "message" \in DOMAIN asked
  /\ \E bytes \in Damaged(EncodeFrame(asked.message)) :
       answer' = [bytes |-> bytes, got |-> DecodeFrame(bytes)]
  /\ UNCHANGED asked

\* One call of merkle_root.
Commit ==
  /\ answer = NotYet /\ "leaves" \in DOMAIN asked
  /\ answer' = [root |-> MerkleRoot(asked.leaves)]
  /\ UNCHANGED asked

Answer == Divide \/ Encode \/ Retarget \/ Deliver \/ Commit

ArithmeticSpec == Unanswered /\ [][Answer]_<<asked, answer>>

-----------------------------------------------------------------------------

Allocated == answer # NotYet /\ "subsidy" \in DOMAIN asked
Encoded == answer # NotYet /\ "target" \in DOMAIN asked
Retargeted == answer # NotYet /\ "height" \in DOMAIN asked
Delivered == answer # NotYet /\ "message" \in DOMAIN asked
Rooted == answer # NotYet /\ "leaves" \in DOMAIN asked

\* The check at the end of reward_allocation (rewards.rs:99-101,
\* RewardMismatch) never fires although every share is rounded.
Proportional ==
  Allocated => FairlyAllocated(asked.subsidy, asked.w, asked.fees, answer.finder,
                               answer.shares)

\* target_to_bits and bits_to_target round down, a workshare is never harder
\* than its block, and the work is that of a division in wider numbers.
CompactRoundsDown ==
  Encoded => RoundedDown(asked.target, answer.back, answer.share, answer.work)

\* required_target follows the clock: never out of range, monotone in the
\* parent's time and height, and doubled after a half-life.
FollowsSchedule ==
  Retargeted => Scheduled(asked.height, asked.time, asked.launch, answer.target,
                          answer.bits)

\* "a canonical u32 element/byte count" (codec.rs:3-4): a value has one
\* encoding, so what is accepted is what its sender encoded, and ids computed
\* from it are the sender's; and nothing the node may send is refused for a
\* limit on its way: a block that validate_block accepts can be relayed.
Canonical ==
  Delivered =>
    /\ answer.got.ok => EncodeFrame(answer.got.value) = answer.bytes
    /\ Sendable(asked.message) /\ answer.bytes = EncodeFrame(asked.message) =>
         answer.got.ok /\ answer.got.value = asked.message

\* A header commits to the list of its transactions: although the last hash of
\* an odd level is used twice, no other list that a block may have has the
\* same root.
RootInjective ==
  Rooted =>
    \A other \in Leaves : MerkleRoot(other) = answer.root => other = asked.leaves
=============================================================================
