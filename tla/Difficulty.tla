---------------------------- MODULE Difficulty ------------------------------
(***************************************************************************)
(* Targets: their compact encoding in block headers, the ASERT schedule    *)
(* and the work they stand for (src/src/consensus/difficulty.rs). A target *)
(* is a number of Digits digits in base Radix (32 bytes in the code); the  *)
(* compact form keeps the digit count and the leading three digits, whose  *)
(* top bit must be clear.                                                  *)
(***************************************************************************)
EXTENDS Integers

CONSTANTS
  Radix, Digits,  \* 256 and 32
  InitialTarget,  \* initial_target()
  PowLimit,       \* pow_limit()
  BlockTime,      \* TARGET_BLOCK_TIME
  HalfLife,       \* ASERT_HALF_LIFE
  Frac,           \* 65_536: the steps of one doubling
  Factor,         \* the cubic polynomial: Frac * 2^(x / Frac), rounded
  Multiplier,     \* WORKSHARE_TARGET_MULTIPLIER
  Invalid         \* None

\* base to the n: n digits, or n shifts.
Power(base, n) ==
  LET power[k \in Nat] == IF k = 0 THEN 1 ELSE base * power[k - 1]
  IN  power[n]

MaxTarget == Power(Radix, Digits) - 1

ASSUME DifficultyAssumption ==
  /\ Radix \in Nat /\ Radix >= 2 /\ Radix % 2 = 0 /\ Digits \in Nat \ {0, 1, 2}
  /\ PowLimit \in 1..MaxTarget /\ InitialTarget \in 1..PowLimit
  /\ BlockTime \in Nat \ {0} /\ HalfLife \in Nat \ {0} /\ Multiplier \in Nat \ {0}
  /\ Frac \in Nat \ {0} /\ Factor \in [0..(Frac - 1) -> Frac..(2 * Frac - 1)]
  /\ Factor[0] = Frac /\ \A x, y \in 0..(Frac - 1) : x <= y => Factor[x] <= Factor[y]
  /\ Invalid \notin Nat

LowerOf(a, b) == IF a < b THEN a ELSE b
HigherOf(a, b) == IF a > b THEN a ELSE b

\* The number of significant digits of a target.
SizeOf(t) ==
  CHOOSE n \in 1..Digits : Power(Radix, n - 1) <= t /\ t < Power(Radix, n)

\* The leading digits of t when its first digit is moved to place `size`.
Leading(t, size) ==
  IF size >= 3 THEN t \div Power(Radix, size - 3)
               ELSE t * Power(Radix, 3 - size)

\* Mutation: no room is made for the top bit.
TargetToBitsSigned(t) ==
  IF t = 0 THEN [size |-> 0, word |-> 0]
  ELSE [size |-> SizeOf(t), word |-> Leading(t, SizeOf(t))]

TargetToBits(t) ==
  IF t = 0 THEN [size |-> 0, word |-> 0]
  ELSE LET high == 2 * t >= Power(Radix, SizeOf(t))  \* the top bit is set
           size == IF high THEN SizeOf(t) + 1 ELSE SizeOf(t)
       IN  [size |-> size, word |-> Leading(t, size)]

\* The target whose leading digits are given; the others are zero.
Padded(bits) ==
  IF bits.size <= 3 THEN bits.word \div Power(Radix, 3 - bits.size)
                    ELSE bits.word * Power(Radix, bits.size - 3)

\* Only what target_to_bits produces is decoded.
BitsToTarget(bits) ==
  IF \/ bits.word = 0 \/ 2 * bits.word >= Power(Radix, 3)
     \/ bits.size = 0 \/ bits.size > Digits + 1
     \/ bits.size = Digits + 1 /\ bits.word >= Power(Radix, 2)
     \/ TargetToBits(Padded(bits)) # bits
  THEN Invalid ELSE Padded(bits)

\* Mutation: the division of a negative drift rounds towards zero.
ExponentTruncated(drift) ==
  IF drift >= 0 THEN (drift * Frac) \div HalfLife
                ELSE -((-drift * Frac) \div HalfLife)

\* div_euclid rounds down.
Exponent(drift) == (drift * Frac) \div HalfLife

\* base * 2^shifts, without leaving the width of the target.
ShiftedBy(base, shifts) ==
  IF shifts < 0 THEN base \div Power(2, -shifts)
  ELSE IF base > PowLimit \div Power(2, shifts) THEN PowLimit
  ELSE base * Power(2, shifts)

\* The target after `exponent` steps from the initial one.
TargetAfter(exponent) ==
  LET base    == (InitialTarget * Factor[exponent % Frac]) \div Frac
      shifted == ShiftedBy(base, exponent \div Frac)
  IN  HigherOf(LowerOf(shifted, PowLimit), 1)

\* The target of the block after a parent at `height`; the first mined block
\* of the branch, at `launch`, anchors the schedule.
RequiredTarget(height, time, launch) ==
  IF height <= 1 THEN InitialTarget
  ELSE TargetAfter(Exponent((time - launch) - (height - 1) * BlockTime))

RequiredBits(height, time, launch) ==
  TargetToBits(RequiredTarget(height, time, launch))

WorkshareBits(bits) ==
  LET target == BitsToTarget(bits)
  IN  IF target = Invalid THEN Invalid
      ELSE TargetToBits(HigherOf(LowerOf(target * Multiplier, MaxTarget), 1))

\* The expected number of hashes below a target, without leaving the width of
\* the target: !t / (t + 1) + 1.
TargetWork(t) ==
  IF t = MaxTarget THEN 1 ELSE (MaxTarget - t) \div (t + 1) + 1

-----------------------------------------------------------------------------
(* What they are to be.                                                    *)

Representable ==
  {BitsToTarget(bits) :
     bits \in [size : 0..(Digits + 2), word : 0..Power(Radix, 3)]} \ {Invalid}

\* The compact form of target t stands for `back`, the greatest representable
\* target that is not above t (so the encoding is monotone, never eases a
\* target and never turns a positive one into an invalid header), a workshare
\* is never harder to find than its block, up to the greatest target, and the
\* work computed inside 256 bits is 2^256 / (t + 1).
RoundedDown(t, back, share, work) ==
  /\ back \in Representable /\ back <= t
  /\ \A other \in Representable : other <= t => other <= back
  /\ BitsToTarget(share) \in Representable
  /\ BitsToTarget(share) >= back
  /\ work = (MaxTarget + 1) \div (t + 1)

\* The schedule of required_target: always a usable target; a later parent or
\* a lower one never makes the next block harder; and a delay of one half-life
\* doubles the target, up to the limit and to what rounding loses below it.
Scheduled(height, time, launch, target, bits) ==
  LET later == RequiredTarget(height, time + 1, launch)
      twice == RequiredTarget(height, time + HalfLife, launch)
      above == RequiredTarget(height + 1, time, launch)
  IN  /\ target \in 1..PowLimit
      /\ BitsToTarget(bits) \in 1..target
      /\ height > 1 =>
           /\ target <= later /\ above <= target
           /\ twice <= 2 * target + 1
           /\ target > 1 => twice >= LowerOf(2 * target, PowLimit)
=============================================================================
