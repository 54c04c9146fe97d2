----------------------------- MODULE BspTimeProofs -----------------------------
(***************************************************************************)
(* Proofs about BspTime, for every width of the counter's halves: the      *)
(* conversion of the counter is a division, a time that is used is not     *)
(* torn, and a reply whose deadline did not wrap keeps its lifetime.       *)
(***************************************************************************)
EXTENDS BspTime, Integers, FiniteSets, FiniteSetTheorems,
        WellFoundedInduction, TLAPS

-----------------------------------------------------------------------------
(* Induction over the numbers, in terms of a set: the library's theorem    *)
(* about minimal elements needs no operator for the property.              *)

\* Less-than on the numbers, as a set of pairs, is well-founded.
LEMMA LessWellFounded ==
  IsWellFoundedOn({r \in Nat \X Nat : r[1] < r[2]}, Nat)
<1> DEFINE R == {r \in Nat \X Nat : r[1] < r[2]}
<1>1. OpToRel(<, Nat) = R
  BY DEF OpToRel
<1> HIDE DEF R
<1>2. IsWellFoundedOn(R, Nat)
  BY Zenon, <1>1, NatLessThanWellFounded
<1> QED
  BY <1>2 DEF R

\* A set with 0 and the successors of its numbers has all numbers.
LEMMA SetInduction ==
  ASSUME NEW S, 0 \in S, \A n \in Nat : n \in S => n + 1 \in S
  PROVE  Nat \subseteq S
<1> DEFINE R == {r \in Nat \X Nat : r[1] < r[2]}
           T == Nat \ S
<1> SUFFICES ASSUME T # {} PROVE FALSE
  OBVIOUS
<1>1. PICK x \in T : \A y \in T : ~(<<y, x>> \in R)
  <2>1. T \subseteq Nat
    OBVIOUS
  <2>2. IsWellFoundedOn(R, Nat)
    BY LessWellFounded
  <2> HIDE DEF T, R
  <2> QED
    BY WFMin, <2>1, <2>2
<1>2. x \in Nat /\ x # 0 /\ x \notin S
  OBVIOUS
<1>3. x - 1 \in Nat /\ x - 1 \notin S
  BY <1>2
<1>4. <<x - 1, x>> \in R
  BY <1>2, <1>3
<1> QED
  BY <1>1, <1>3, <1>4

-----------------------------------------------------------------------------
(* Powers of two, as the numbers of subsets of intervals                   *)

LEMMA Subsets ==
  ASSUME NEW n \in Nat
  PROVE  /\ IsFiniteSet(SUBSET (1 .. n))
         /\ Cardinality(SUBSET (1 .. n)) = 2 ^ n
<1>1. IsFiniteSet(1 .. n) /\ Cardinality(1 .. n) = n
  BY FS_Interval
<1> QED
  BY <1>1, FS_SUBSET

LEMMA PowerPositive ==
  ASSUME NEW n \in Nat
  PROVE  2 ^ n \in Nat /\ 2 ^ n > 0
<1>1. 2 ^ n \in Nat
  BY Subsets, FS_CardinalityType
<1>2. SUBSET (1 .. n) # {}
  OBVIOUS
<1>3. 2 ^ n # 0
  BY <1>2, Subsets, FS_EmptySet
<1> QED
  BY <1>1, <1>3

LEMMA PowerZero == 2 ^ 0 = 1
<1>1. IsFiniteSet({}) /\ Cardinality({}) = 0
  BY FS_EmptySet
<1>2. Cardinality(SUBSET {}) = 2 ^ 0
  BY <1>1, FS_SUBSET
<1>3. SUBSET {} = {{}}
  OBVIOUS
<1>4. Cardinality({{}}) = 1
  BY FS_Singleton
<1> QED
  BY <1>2, <1>3, <1>4

\* The subsets with n + 1 are as many as those without.
LEMMA PowerNext ==
  ASSUME NEW n \in Nat
  PROVE  2 ^ (n + 1) = 2 * 2 ^ n
<1> DEFINE A == SUBSET (1 .. n)
           B == {T \cup {n + 1} : T \in A}
           f == [T \in A |-> T \cup {n + 1}]
<1>1. SUBSET (1 .. n + 1) = A \cup B
  <2>1. 1 .. n + 1 = (1 .. n) \cup {n + 1}
    OBVIOUS
  <2>2. ASSUME NEW U \in SUBSET (1 .. n + 1)
        PROVE  U \in A \cup B
    <3>1. CASE n + 1 \in U
      <4>1. U \ {n + 1} \in A /\ U = (U \ {n + 1}) \cup {n + 1}
        BY <2>1, <3>1
      <4> QED
        BY <4>1
    <3>2. CASE n + 1 \notin U
      BY <2>1, <3>2
    <3> QED
      BY <3>1, <3>2
  <2>3. ASSUME NEW U \in A \cup B
        PROVE  U \in SUBSET (1 .. n + 1)
    BY <2>1
  <2> HIDE DEF A, B
  <2> QED
    BY <2>2, <2>3
<1>2. A \cap B = {}
  <2>1. ASSUME NEW U \in A, U \in B
        PROVE  FALSE
    <3>1. n + 1 \in U /\ U \subseteq 1 .. n
      BY <2>1
    <3> QED
      BY <3>1
  <2> QED
    BY <2>1
<1>3. f \in Bijection(A, B)
  <2>1. f \in [A -> B]
    OBVIOUS
  <2>2. ASSUME NEW T \in A, NEW U \in A, f[T] = f[U]
        PROVE  T = U
    <3>1. n + 1 \notin T /\ n + 1 \notin U
      BY <2>2
    <3> QED
      BY <2>2, <3>1
  <2>3. \A U \in B : \E T \in A : f[T] = U
    OBVIOUS
  <2> HIDE DEF f, A, B
  <2> QED
    BY <2>1, <2>2, <2>3 DEF Bijection, Injection, Surjection, IsInjective
<1>4. IsFiniteSet(A) /\ Cardinality(A) = 2 ^ n
  BY Subsets
<1>5. IsFiniteSet(B) /\ Cardinality(B) = 2 ^ n
  <2>1. ExistsBijection(A, B)
    BY <1>3 DEF ExistsBijection
  <2> HIDE DEF A, B
  <2> QED
    BY <1>4, <2>1, FS_Bijection
<1>6. Cardinality(A \cup B) = 2 ^ n + 2 ^ n - Cardinality(A \cap B)
  <2> HIDE DEF A, B
  <2> QED
    BY <1>4, <1>5, FS_Union
<1>7. Cardinality(A \cap B) = 0
  BY <1>2, FS_EmptySet
<1>8. Cardinality(A \cup B) = 2 ^ (n + 1)
  <2>1. n + 1 \in Nat
    OBVIOUS
  <2>2. Cardinality(SUBSET (1 .. n + 1)) = 2 ^ (n + 1)
    BY <2>1, Subsets
  <2> HIDE DEF A, B
  <2> QED
    BY <1>1, <2>2
<1> QED
  BY <1>6, <1>7, <1>8, PowerPositive

-----------------------------------------------------------------------------
(* Division                                                                *)

LEMMA Euclid ==
  ASSUME NEW a \in Nat, NEW d \in Nat \ {0}
  PROVE  /\ a \div d \in Nat /\ a % d \in 0 .. d - 1
         /\ a = d * (a \div d) + (a % d)
  OBVIOUS

LEMMA Monotone ==
  ASSUME NEW d \in Nat, NEW x \in Nat, NEW y \in Nat, x <= y
  PROVE  d * x <= d * y /\ d * x \in Nat
  OBVIOUS

\* Quotient and remainder are unique.
LEMMA Quotient ==
  ASSUME NEW d \in Nat \ {0}, NEW q \in Nat, NEW r \in 0 .. d - 1
  PROVE  (d * q + r) \div d = q /\ (d * q + r) % d = r
<1>1. ASSUME NEW x \in Nat, NEW y \in Nat,
             NEW u \in 0 .. d - 1, NEW v \in 0 .. d - 1,
             d * x + u = d * y + v, x < y
      PROVE  FALSE
  <2>1. d * (x + 1) <= d * y
    BY <1>1, Monotone
  <2>2. d * (x + 1) = d * x + d
    OBVIOUS
  <2>3. d * x \in Nat /\ d * y \in Nat
    OBVIOUS
  <2> QED
    BY <1>1, <2>1, <2>2, <2>3
<1>2. d * q + r \in Nat
  OBVIOUS
<1>3. /\ (d * q + r) \div d \in Nat /\ (d * q + r) % d \in 0 .. d - 1
      /\ d * q + r = d * ((d * q + r) \div d) + ((d * q + r) % d)
  BY <1>2, Euclid
<1>4. (d * q + r) \div d = q
  BY <1>1, <1>3
<1> QED
  BY <1>3, <1>4

LEMMA Small ==
  ASSUME NEW d \in Nat \ {0}, NEW r \in 0 .. d - 1
  PROVE  r % d = r /\ r \div d = 0
<1>1. (d * 0 + r) \div d = 0 /\ (d * 0 + r) % d = r
  BY Quotient
<1> QED
  BY <1>1

\* Dividing by 2 * p is dividing by p and halving: the bit of weight p joins
\* the bits above it.
LEMMA NextBit ==
  ASSUME NEW n \in Nat, NEW p \in Nat \ {0}
  PROVE  n \div p = 2 * (n \div (2 * p)) + ((n \div p) % 2)
<1> DEFINE a == n \div p
           r == n % p
           b == a \div 2
           c == a % 2
<1>1. a \in Nat /\ r \in 0 .. p - 1 /\ n = p * a + r
  BY Euclid
<1>2. b \in Nat /\ c \in 0 .. 1 /\ a = 2 * b + c
  BY <1>1, Euclid
<1>3. p * c + r \in 0 .. 2 * p - 1
  <2>1. CASE c = 0
    BY <1>1, <2>1
  <2>2. CASE c = 1
    BY <1>1, <2>2
  <2> QED
    BY <1>2, <2>1, <2>2
<1>4. n = (2 * p) * b + (p * c + r)
  <2> HIDE DEF a, b, c, r
  <2> QED
    BY <1>1, <1>2
<1>5. n \div (2 * p) = b
  <2> HIDE DEF a, b, c, r
  <2>1. 2 * p \in Nat \ {0}
    OBVIOUS
  <2> QED
    BY <1>2, <1>3, <1>4, <2>1, Quotient
<1> QED
  BY <1>2, <1>5

-----------------------------------------------------------------------------
(* counter_to_units is a division                                          *)

\* The width of a half and the divisor.
LEMMA Widths ==
  /\ Half \in Nat /\ Half > 1 /\ Size \in Nat /\ Size >= 2 * Half
  /\ TicksPerUnit \in Nat \ {0} /\ 2 * TicksPerUnit <= Half
  /\ TicksPerUnit < Half
<1>1. Half \in Nat /\ Half > 1
  <2>1. Bits - 1 \in Nat /\ Bits = (Bits - 1) + 1
    BY TimeAssumption
  <2>2. 2 ^ Bits = 2 * 2 ^ (Bits - 1)
    BY <2>1, PowerNext
  <2> QED
    BY <2>1, <2>2, PowerPositive DEF Half
<1>2. Size \in Nat /\ Size >= 2 * Half
  BY <1>1, Monotone DEF Size
<1>3. TicksPerUnit \in 1 .. Half \div 2
  BY TimeAssumption
<1>4. Half \div 2 \in Nat /\ 2 * (Half \div 2) <= Half
  BY <1>1
<1> QED
  BY <1>1, <1>2, <1>3, <1>4

\* One turn of the loop takes the division of w to that of 2 * w + bit; the
\* shifted remainder fits into a half.
LEMMA ShiftDivides ==
  ASSUME NEW w \in Nat, NEW bit \in 0 .. 1, NEW d \in Nat \ {0}, 2 * d <= Half
  PROVE  ShiftIn([remainder |-> w % d, result |-> w \div d], bit, d)
           = [remainder |-> (2 * w + bit) % d, result |-> (2 * w + bit) \div d]
<1> DEFINE q == w \div d
           r == w % d
           next == 2 * r + bit
<1>1. q \in Nat /\ r \in 0 .. d - 1 /\ w = d * q + r
  BY Euclid
<1>2. next \in 0 .. 2 * d - 1 /\ next % Half = next
  <2> HIDE DEF q, r
  <2>1. next \in 0 .. 2 * d - 1 /\ next < Half
    BY <1>1, Widths
  <2> HIDE DEF next
  <2>2. Half \in Nat \ {0} /\ next = Half * 0 + next /\ next \in 0 .. Half - 1
    BY <2>1, Widths
  <2> QED
    BY <2>1, <2>2, Quotient
<1>3. ShiftIn([remainder |-> r, result |-> q], bit, d)
        = [remainder |-> IF next >= d THEN next - d ELSE next,
           result |-> 2 * q + (IF next >= d THEN 1 ELSE 0)]
  <2> HIDE DEF q, r
  <2> QED
    BY <1>2 DEF ShiftIn
<1>4. 2 * w + bit = d * (2 * q) + next
  <2> HIDE DEF q, r
  <2> QED
    BY <1>1
<1>5. CASE next >= d
  <2> HIDE DEF q, r, next
  <2>1. 2 * w + bit = d * (2 * q + 1) + (next - d)
    BY <1>1, <1>2, <1>4
  <2>2. next - d \in 0 .. d - 1 /\ 2 * q + 1 \in Nat
    BY <1>1, <1>2, <1>5
  <2>3. (2 * w + bit) \div d = 2 * q + 1 /\ (2 * w + bit) % d = next - d
    BY <2>1, <2>2, Quotient
  <2> QED
    BY <1>3, <1>5, <2>3 DEF q, r
<1>6. CASE ~(next >= d)
  <2> HIDE DEF q, r, next
  <2>1. next \in 0 .. d - 1 /\ 2 * q \in Nat
    BY <1>1, <1>2, <1>6
  <2>2. (2 * w + bit) \div d = 2 * q /\ (2 * w + bit) % d = next
    BY <1>4, <2>1, Quotient
  <2> QED
    BY <1>1, <1>3, <1>6, <2>2 DEF q, r
<1> QED
  BY <1>5, <1>6

\* The divided number after k turns: what is left of the high half and the
\* first k bits of the low half.
Shifted(high, lo, divisor, k) ==
  (high % divisor) * 2 ^ k + (lo \div 2 ^ (Bits - k))

LEMMA ShiftedFirst ==
  ASSUME NEW high \in 0 .. Half - 1, NEW lo \in 0 .. Half - 1,
         NEW d \in Nat \ {0}
  PROVE  Shifted(high, lo, d, 0) = high % d
<1>1. high % d \in Nat
  BY Widths, Euclid
<1>2. Half \in Nat \ {0} /\ lo = Half * 0 + lo
  BY Widths
<1>3. lo \div Half = 0
  BY <1>2, Quotient
<1>4. lo \div 2 ^ (Bits - 0) = 0
  BY <1>3, TimeAssumption DEF Half
<1> QED
  BY <1>1, <1>4, PowerZero DEF Shifted

LEMMA ShiftedLast ==
  ASSUME NEW high \in 0 .. Half - 1, NEW lo \in 0 .. Half - 1,
         NEW d \in Nat \ {0}
  PROVE  Shifted(high, lo, d, Bits) = (high % d) * Half + lo
<1>1. 2 ^ (Bits - Bits) = 1
  BY PowerZero, TimeAssumption
<1>2. lo \div 1 = lo
  BY Widths
<1> QED
  BY <1>1, <1>2 DEF Shifted, Half

LEMMA ShiftedNext ==
  ASSUME NEW high \in 0 .. Half - 1, NEW lo \in 0 .. Half - 1,
         NEW d \in Nat \ {0}, NEW k \in 1 .. Bits
  PROVE  /\ Shifted(high, lo, d, k - 1) \in Nat
         /\ Bit(lo, Bits - k) \in 0 .. 1
         /\ Shifted(high, lo, d, k)
              = 2 * Shifted(high, lo, d, k - 1) + Bit(lo, Bits - k)
<1> DEFINE p == 2 ^ (Bits - k)
           rest == high % d
           power == 2 ^ (k - 1)
<1>1. p \in Nat \ {0} /\ power \in Nat /\ rest \in Nat
  <2>1. Bits - k \in Nat /\ k - 1 \in Nat
    BY TimeAssumption
  <2>2. rest \in Nat
    BY Widths, Euclid
  <2> QED
    BY <2>1, <2>2, PowerPositive
<1>2. 2 ^ k = 2 * power /\ 2 ^ (Bits - (k - 1)) = 2 * p
  <2>1. k - 1 \in Nat /\ k = (k - 1) + 1
    OBVIOUS
  <2>2. Bits - k \in Nat /\ Bits - (k - 1) = (Bits - k) + 1
    BY TimeAssumption
  <2> QED
    BY <2>1, <2>2, PowerNext
<1>3. lo \in Nat
  BY Widths
<1>4. lo \div p = 2 * (lo \div (2 * p)) + ((lo \div p) % 2)
  <2> HIDE DEF p
  <2> QED
    BY <1>1, <1>3, NextBit
<1>5. lo \div (2 * p) \in Nat /\ lo \div p \in Nat
  <2> HIDE DEF p
  <2>1. 2 * p \in Nat \ {0}
    BY <1>1
  <2> QED
    BY <1>1, <1>3, <2>1, Euclid
<1>6. Bit(lo, Bits - k) = (lo \div p) % 2
  BY DEF Bit
<1>7. Shifted(high, lo, d, k - 1) = rest * power + (lo \div (2 * p))
  BY <1>2 DEF Shifted
<1>8. Shifted(high, lo, d, k) = rest * (2 * power) + (lo \div p)
  BY <1>2 DEF Shifted
<1> HIDE DEF p, rest, power
<1>9. rest * power \in Nat /\ rest * (2 * power) = 2 * (rest * power)
  BY <1>1
<1>10. (lo \div p) % 2 \in 0 .. 1
  BY <1>5
<1> QED
  BY <1>4, <1>5, <1>6, <1>7, <1>8, <1>9, <1>10

\* What the recursive function of the loop holds after every turn.
LEMMA LoopDivides ==
  ASSUME NEW high \in 0 .. Half - 1, NEW lo \in 0 .. Half - 1,
         NEW d \in Nat \ {0}, 2 * d <= Half
  PROVE  counter_to_units(high, lo, d) = ((high % d) * Half + lo) \div d
<1> DEFINE turn(g, k) == IF k = 0 THEN [remainder |-> high % d, result |-> 0]
                         ELSE ShiftIn(g[k - 1], Bit(lo, Bits - k), d)
           loop == CHOOSE g : g = [k \in 0 .. Bits |-> turn(g, k)]
           w(k) == Shifted(high, lo, d, k)
           division == [k \in 0 .. Bits |-> [remainder |-> w(k) % d,
                                             result |-> w(k) \div d]]
<1>1. \A k \in 0 .. Bits : turn(division, k) = division[k]
  <2> TAKE k \in 0 .. Bits
  <2>1. CASE k = 0
    <3>1. high % d \in 0 .. d - 1 /\ high % d = d * 0 + (high % d)
      BY Widths, Euclid
    <3>2. (high % d) % d = high % d /\ (high % d) \div d = 0
      BY <3>1, Small
    <3> QED
      BY <2>1, <3>2, ShiftedFirst
  <2>2. CASE k # 0
    <3>1. k \in 1 .. Bits /\ k - 1 \in 0 .. Bits
      BY <2>2, TimeAssumption
    <3>2. division[k - 1] = [remainder |-> w(k - 1) % d, result |-> w(k - 1) \div d]
      BY <3>1
    <3>3. /\ w(k - 1) \in Nat /\ Bit(lo, Bits - k) \in 0 .. 1
          /\ w(k) = 2 * w(k - 1) + Bit(lo, Bits - k)
      BY <3>1, ShiftedNext
    <3>4. ShiftIn(division[k - 1], Bit(lo, Bits - k), d)
            = [remainder |-> w(k) % d, result |-> w(k) \div d]
      <4> HIDE DEF division, w
      <4> QED
        BY <3>2, <3>3, ShiftDivides
    <3> QED
      BY <2>2, <3>4
  <2> QED
    BY <2>1, <2>2
<1>2. division = [k \in 0 .. Bits |-> turn(division, k)]
  <2> HIDE DEF turn
  <2> QED
    BY <1>1
<1>3. loop = [k \in 0 .. Bits |-> turn(loop, k)]
  <2> HIDE DEF division, turn
  <2> QED
    BY <1>2
<1>4. \A k \in 0 .. Bits : loop[k] = division[k]
  <2> DEFINE S == {k \in Nat : k \in 0 .. Bits => loop[k] = division[k]}
  <2> HIDE DEF loop, division
  <2>1. 0 \in S
    <3>1. 0 \in 0 .. Bits
      BY TimeAssumption
    <3>2. loop[0] = turn(loop, 0) /\ division[0] = turn(division, 0)
      <4> HIDE DEF turn
      <4> QED
        BY <1>1, <1>3, <3>1
    <3> QED
      BY <3>2
  <2>2. ASSUME NEW k \in Nat, k \in S
        PROVE  k + 1 \in S
    <3> SUFFICES ASSUME k + 1 \in 0 .. Bits
                 PROVE  loop[k + 1] = division[k + 1]
      OBVIOUS
    <3>1. k \in 0 .. Bits /\ loop[k] = division[k]
      BY <2>2, TimeAssumption
    <3>2. loop[k + 1] = turn(loop, k + 1) /\ division[k + 1] = turn(division, k + 1)
      <4> HIDE DEF turn
      <4> QED
        BY <1>1, <1>3
    <3>3. k + 1 # 0 /\ (k + 1) - 1 = k
      OBVIOUS
    <3>4. turn(loop, k + 1) = turn(division, k + 1)
      BY <3>1, <3>3
    <3> QED
      BY <3>2, <3>4
  <2>3. Nat \subseteq S
    <3> HIDE DEF S
    <3> QED
      BY <2>1, <2>2, SetInduction
  <2> QED
    BY <2>3, TimeAssumption
<1>5. counter_to_units(high, lo, d) = loop[Bits].result
  BY DEF counter_to_units
<1>6. Bits \in 0 .. Bits
  BY TimeAssumption
<1>7. loop[Bits].result = w(Bits) \div d
  <2>1. division[Bits].result = w(Bits) \div d
    BY <1>6
  <2> HIDE DEF loop, division
  <2> QED
    BY <1>4, <1>6, <2>1
<1> HIDE DEF loop, division
<1> QED
  BY <1>5, <1>7, ShiftedLast

\* The loop of counter_to_units divides the whole counter, and its result
\* wraps at the width of a half: no remainder overflows and no bit of the
\* quotient is lost but the upper half, for every width.
THEOREM ConversionDivides ==
  \A high, lo \in 0 .. Half - 1 :
     counter_to_units(high, lo, TicksPerUnit)
       = ((high * Half + lo) \div TicksPerUnit) % Half
<1> TAKE high, lo \in 0 .. Half - 1
<1> DEFINE d == TicksPerUnit
           h == high \div d
           rest == high % d
           low_part == rest * Half + lo
           q == low_part \div d
           r == low_part % d
<1>1. /\ h \in Nat /\ rest \in 0 .. d - 1 /\ high = d * h + rest
      /\ d \in Nat \ {0} /\ 2 * d <= Half /\ Half \in Nat \ {0} /\ lo \in Nat
  <2>1. /\ d \in Nat \ {0} /\ 2 * d <= Half /\ Half \in Nat \ {0} /\ lo \in Nat
        /\ high \in Nat
    BY Widths
  <2> HIDE DEF d
  <2>2. h \in Nat /\ rest \in 0 .. d - 1 /\ high = d * h + rest
    BY <2>1, Euclid
  <2> QED
    BY <2>1, <2>2
<1>2. low_part \in Nat /\ low_part < Half * d
  <2> HIDE DEF rest, h, d
  <2>1. Half * (rest + 1) <= Half * d /\ Half * rest \in Nat
    BY <1>1, Monotone
  <2>2. Half * (rest + 1) = rest * Half + Half
    BY <1>1
  <2> QED
    BY <1>1, <2>1, <2>2
<1>3. q \in Nat /\ r \in 0 .. d - 1 /\ low_part = d * q + r
  <2> HIDE DEF d, low_part
  <2> QED
    BY <1>1, <1>2, Euclid
<1>4. q < Half
  <2> HIDE DEF q, r, low_part, d
  <2> SUFFICES ASSUME Half <= q PROVE FALSE
    BY <1>1, <1>3
  <2>1. d * Half <= d * q /\ d * Half = Half * d
    BY <1>1, <1>3, Monotone
  <2> QED
    BY <1>1, <1>2, <1>3, <2>1
<1>5. high * Half + lo = d * (Half * h + q) + r
  <2>1. high * Half + lo = d * (Half * h) + low_part
    <3> HIDE DEF h, rest, d
    <3> QED
      BY <1>1
  <2> HIDE DEF h, q, r, d, low_part
  <2>2. Half * h \in Nat
    BY <1>1
  <2> QED
    BY <1>1, <1>3, <2>1, <2>2
<1>6. (high * Half + lo) \div d = Half * h + q
  <2> HIDE DEF h, q, r, d, low_part
  <2>1. Half * h + q \in Nat
    BY <1>1, <1>3
  <2>2. (d * (Half * h + q) + r) \div d = Half * h + q
    BY <1>1, <1>3, <2>1, Quotient
  <2> QED
    BY <1>5, <2>2
<1>7. (Half * h + q) % Half = q
  <2> HIDE DEF h, q, r, d, low_part
  <2>1. q \in 0 .. Half - 1
    BY <1>1, <1>3, <1>4
  <2> QED
    BY <1>1, <2>1, Quotient
<1>8. counter_to_units(high, lo, d) = q
  BY <1>1, LoopDivides
<1> QED
  BY <1>6, <1>7, <1>8

-----------------------------------------------------------------------------
(* The inductive invariant                                                 *)

TypeInv ==
  /\ counter \in 0 .. Size - 1
  /\ pc \in {"idle", "high", "low", "again"} /\ purpose \in {"expire", "arm"}
  /\ before \in 0 .. Half - 1 /\ low \in 0 .. Half - 1
  /\ drift \in 0 .. MaxDrift /\ age \in 0 .. MaxAge
  /\ wchlink_response_pending \in BOOLEAN
  /\ wchlink_response_deadline_us \in 0 .. Half - 1
  /\ armed_at \in 0 .. Half - 1 /\ lifetime \in Lifetimes

\* b is n ticks after a, and the counter wrapped at most once in between.
Later(a, b, n) == b = a + n \/ b = a + n - Size

\* The high half is that of the moment `start` in the reading, the low half
\* that of a later one, `middle`; a reading that arms a reply resets the age
\* at `middle`.
ReadingInv ==
  /\ pc = "low" =>
       \E start \in 0 .. Size - 1, e \in 0 .. drift :
          before = start \div Half /\ Later(start, counter, e)
  /\ pc = "again" =>
       \E start, middle \in 0 .. Size - 1, e, f \in 0 .. drift :
          /\ e + f <= drift
          /\ before = start \div Half /\ Later(start, middle, e)
          /\ low = middle % Half /\ Later(middle, counter, f)
          /\ purpose = "arm" /\ age < MaxAge => f = age

\* The reply was armed with the time of `age` ticks ago, before the reading
\* that looks at its deadline began.
AgeInv ==
  wchlink_response_pending =>
    /\ wchlink_response_deadline_us = (armed_at + lifetime) % Half
    /\ pc # "idle" => purpose = "expire"
    /\ age < MaxAge /\ age < Size =>
         /\ pc # "idle" => drift <= age
         /\ \E armed \in 0 .. Size - 1 :
              /\ armed_at = (armed \div TicksPerUnit) % Half
              /\ Later(armed, counter, age)

TimeInv == TypeInv /\ ReadingInv /\ AgeInv

-----------------------------------------------------------------------------
(* The clock                                                               *)

LEMMA Bounds ==
  /\ MaxDrift \in Nat /\ MaxDrift <= Size - Half
  /\ MaxAge \in Nat
  /\ \A n \in Lifetimes : n \in 1 .. Half - 1 /\ n * TicksPerUnit < MaxAge
BY TimeAssumption

\* The halves of a time, and the time of its halves.
LEMMA Halves ==
  ASSUME NEW t \in 0 .. Size - 1
  PROVE  /\ t \div Half \in 0 .. Half - 1 /\ t % Half \in 0 .. Half - 1
         /\ t = Half * (t \div Half) + (t % Half)
<1>1. t \in Nat /\ Half \in Nat \ {0} /\ Size = Half * Half
  BY Widths DEF Size
<1>2. /\ t \div Half \in Nat /\ t % Half \in 0 .. Half - 1
      /\ t = Half * (t \div Half) + (t % Half)
  BY <1>1, Euclid
<1>3. t \div Half < Half
  <2> SUFFICES ASSUME Half <= t \div Half PROVE FALSE
    BY <1>1, <1>2
  <2>1. Half * Half <= Half * (t \div Half)
    BY <1>1, <1>2, Monotone
  <2> QED
    BY <1>1, <1>2, <2>1
<1> QED
  BY <1>1, <1>2, <1>3

\* A tick.
LEMMA Wraps ==
  ASSUME TypeInv, Tick
  PROVE  counter' = IF counter + 1 = Size THEN 0 ELSE counter + 1
<1>1. counter \in 0 .. Size - 1 /\ Size \in Nat \ {0}
  BY Widths DEF TypeInv
<1>2. CASE counter + 1 = Size
  <2>1. (Size * 1 + 0) % Size = 0
    BY <1>1, Quotient
  <2> QED
    BY <1>1, <1>2, <2>1 DEF Tick
<1>3. CASE counter + 1 # Size
  <2>1. counter + 1 \in 0 .. Size - 1
    BY <1>1, <1>3
  <2>2. (Size * 0 + (counter + 1)) % Size = counter + 1
    BY <1>1, <2>1, Quotient
  <2> QED
    BY <1>1, <1>3, <2>2 DEF Tick
<1> QED
  BY <1>2, <1>3

LEMMA LaterTick ==
  ASSUME TypeInv, Tick, NEW a \in 0 .. Size - 1, NEW n \in Nat, n < Size - 1,
         Later(a, counter, n)
  PROVE  Later(a, counter', n + 1)
BY Wraps, Widths DEF TypeInv, Later

\* When the high half is the same again, the low half was read in between,
\* and the halves together are the time at which it was.
LEMMA Untorn ==
  ASSUME TypeInv, Same, NEW start \in 0 .. Size - 1,
         NEW middle \in 0 .. Size - 1, NEW e \in Nat, NEW f \in Nat,
         e + f <= drift, before = start \div Half, Later(start, middle, e),
         low = middle % Half, Later(middle, counter, f)
  PROVE  middle = before * Half + low /\ counter = middle + f
<1> DEFINE base == Half * before
<1>1. start \in base .. base + Half - 1 /\ counter \in base .. base + Half - 1
  <2>1. start = Half * before + (start % Half) /\ start % Half \in 0 .. Half - 1
    BY Halves
  <2>2. counter = Half * before + (counter % Half) /\ counter % Half \in 0 .. Half - 1
    BY Halves DEF TypeInv, Same, CNTH
  <2>3. base \in Nat
    BY Widths DEF TypeInv
  <2> HIDE DEF base
  <2> QED
    BY <2>1, <2>2, <2>3, Widths DEF base
<1>2. e + f <= Size - Half /\ base \in Nat
  <2>1. base \in Nat
    BY Widths DEF TypeInv
  <2>2. drift \in Nat /\ drift <= MaxDrift
    BY Bounds DEF TypeInv
  <2> QED
    BY <2>1, <2>2, Bounds, Widths
<1>3. middle = start + e /\ counter = middle + f
  <2> HIDE DEF base
  <2> QED
    BY <1>1, <1>2, Widths DEF Later
<1>4. middle - base \in 0 .. Half - 1
  <2> HIDE DEF base
  <2> QED
    BY <1>1, <1>2, <1>3, Widths
<1>5. low = middle - base
  <2>1. (Half * before + (middle - base)) % Half = middle - base
    <3>1. Half \in Nat \ {0} /\ before \in Nat
      BY Widths DEF TypeInv
    <3> HIDE DEF base
    <3> QED
      BY <1>4, <3>1, Quotient
  <2> HIDE DEF base
  <2>2. base + (middle - base) = middle
    BY <1>2
  <2> QED
    BY <2>1, <2>2 DEF base
<1>6. base = before * Half
  BY Widths DEF TypeInv
<1> HIDE DEF base
<1> QED
  BY <1>2, <1>3, <1>5, <1>6

-----------------------------------------------------------------------------
(* Every step keeps the invariant.                                         *)

LEMMA NowInHalf ==
  ASSUME TypeInv
  PROVE  /\ Now = ((before * Half + low) \div TicksPerUnit) % Half
         /\ Now \in 0 .. Half - 1
<1>1. before \in 0 .. Half - 1 /\ low \in 0 .. Half - 1
  BY DEF TypeInv
<1>2. Now = ((before * Half + low) \div TicksPerUnit) % Half
  BY <1>1, ConversionDivides DEF Now
<1>3. before * Half + low \in Nat /\ Half \in Nat \ {0} /\ TicksPerUnit \in Nat \ {0}
  BY <1>1, Widths
<1>4. (before * Half + low) \div TicksPerUnit \in Nat
  BY <1>3, Euclid
<1> QED
  BY <1>2, <1>3, <1>4, Euclid

LEMMA TypeStep ==
  ASSUME TypeInv, [Next]_vars
  PROVE  TypeInv'
<1> USE DEF TypeInv, reading, response
<1>1. CASE Tick
  <2>1. counter' \in 0 .. Size - 1
    BY <1>1, Wraps, Widths
  <2>2. drift' \in 0 .. MaxDrift /\ age' \in 0 .. MaxAge
    BY <1>1, Bounds DEF Tick
  <2> QED
    BY <1>1, <2>1, <2>2 DEF Tick
<1>2. CASE CheckExpiry \/ Answer
  BY <1>2, Bounds DEF CheckExpiry, Answer
<1>3. CASE ReadHigh
  BY <1>3, Halves DEF ReadHigh, CNTH
<1>4. CASE ReadLow
  BY <1>4, Halves, Bounds DEF ReadLow, CNTL
<1>5. CASE ReadAgain
  BY <1>5 DEF ReadAgain
<1>6. CASE Expire
  BY <1>6 DEF Expire
<1>7. CASE Arm
  <2>1. (Now + lifetime) % Half \in 0 .. Half - 1
    <3>1. Now + lifetime \in Nat /\ Half \in Nat \ {0}
      BY NowInHalf, Widths, Bounds
    <3> QED
      BY <3>1, Euclid
  <2> QED
    BY <1>7, <2>1, NowInHalf DEF Arm
<1>8. CASE HostReads
  BY <1>8 DEF HostReads
<1>9. CASE UNCHANGED vars
  BY <1>9 DEF vars
<1> QED
  BY <1>1, <1>2, <1>3, <1>4, <1>5, <1>6, <1>7, <1>8, <1>9 DEF Next

LEMMA ReadingStep ==
  ASSUME TypeInv, ReadingInv, [Next]_vars
  PROVE  ReadingInv'
<1> USE DEF reading, response
<1>1. CASE Tick
  <2>1. UNCHANGED <<pc, purpose, before, low>>
    BY <1>1 DEF Tick
  <2>2. CASE pc = "low"
    <3>1. PICK start \in 0 .. Size - 1, e \in 0 .. drift :
             before = start \div Half /\ Later(start, counter, e)
      BY <2>2 DEF ReadingInv
    <3>2. /\ drift \in Nat /\ drift' = drift + 1 /\ e \in Nat /\ e < Size - 1
          /\ e + 1 \in 0 .. drift'
      BY <1>1, <2>2, Bounds, Widths DEF Tick, TypeInv
    <3>3. Later(start, counter', e + 1)
      BY <1>1, <3>1, <3>2, LaterTick
    <3> QED
      BY <2>1, <2>2, <3>1, <3>2, <3>3 DEF ReadingInv, Later
  <2>3. CASE pc = "again"
    <3>1. PICK start \in 0 .. Size - 1, middle \in 0 .. Size - 1,
               e \in 0 .. drift, f \in 0 .. drift :
             /\ e + f <= drift
             /\ before = start \div Half /\ Later(start, middle, e)
             /\ low = middle % Half /\ Later(middle, counter, f)
             /\ purpose = "arm" /\ age < MaxAge => f = age
      BY <2>3 DEF ReadingInv
    <3>2. /\ drift \in Nat /\ drift' = drift + 1 /\ f \in Nat /\ f < Size - 1
          /\ f + 1 \in 0 .. drift' /\ e \in 0 .. drift' /\ e + (f + 1) <= drift'
      BY <1>1, <2>3, <3>1, Bounds, Widths DEF Tick, TypeInv
    <3>3. Later(middle, counter', f + 1)
      BY <1>1, <3>1, <3>2, LaterTick
    <3>4. purpose = "arm" /\ age' < MaxAge => f + 1 = age'
      BY <1>1, <3>1, Bounds DEF Tick, TypeInv
    <3> QED
      BY <2>1, <2>3, <3>1, <3>2, <3>3, <3>4 DEF ReadingInv, Later
  <2> QED
    BY <2>1, <2>2, <2>3 DEF ReadingInv
<1>2. CASE CheckExpiry \/ Answer
  BY <1>2 DEF CheckExpiry, Answer, ReadingInv
<1>3. CASE ReadHigh
  <2>1. counter \in 0 .. Size - 1 /\ 0 \in 0 .. drift' /\ counter' = counter
    BY <1>3 DEF ReadHigh, TypeInv
  <2>2. pc' = "low" /\ before' = counter \div Half /\ Later(counter, counter', 0)
    BY <1>3, <2>1, Widths DEF ReadHigh, CNTH, Later
  <2> QED
    BY <2>1, <2>2 DEF ReadingInv, Later
<1>4. CASE ReadLow
  <2>1. PICK start \in 0 .. Size - 1, e \in 0 .. drift :
           before = start \div Half /\ Later(start, counter, e)
    BY <1>4 DEF ReadLow, ReadingInv
  <2>2. /\ counter \in 0 .. Size - 1 /\ drift' = drift /\ counter' = counter
        /\ e \in 0 .. drift' /\ 0 \in 0 .. drift' /\ e + 0 <= drift'
    BY <1>4, <2>1 DEF ReadLow, TypeInv
  <2>3. Later(start, counter, e)' /\ Later(counter, counter', 0)
    BY <2>1, <2>2, Widths DEF Later
  <2>4. /\ before' = start \div Half /\ low' = counter % Half /\ pc' = "again"
        /\ purpose' = "arm" /\ age' < MaxAge => 0 = age'
    BY <1>4, <2>1 DEF ReadLow, CNTL
  <2> QED
    BY <2>1, <2>2, <2>3, <2>4 DEF ReadingInv, Later
<1>5. CASE ReadAgain \/ Expire \/ Arm
  BY <1>5 DEF ReadAgain, Expire, Arm, ReadingInv
<1>6. CASE HostReads
  BY <1>6 DEF HostReads, ReadingInv, Later
<1>7. CASE UNCHANGED vars
  BY <1>7 DEF vars, ReadingInv, Later
<1> QED
  BY <1>1, <1>2, <1>3, <1>4, <1>5, <1>6, <1>7 DEF Next

LEMMA AgeStep ==
  ASSUME TimeInv, [Next]_vars
  PROVE  AgeInv'
<1> USE DEF TimeInv, reading, response
<1>1. CASE Tick
  <2> SUFFICES ASSUME wchlink_response_pending PROVE AgeInv'
    BY <1>1 DEF Tick, AgeInv
  <2>1. UNCHANGED <<pc, purpose, response>>
    BY <1>1 DEF Tick
  <2>2. CASE age' < MaxAge /\ age' < Size
    <3>1. age \in Nat /\ age' = age + 1 /\ age < MaxAge /\ age < Size - 1
      BY <1>1, <2>2, Bounds, Widths DEF Tick, TypeInv
    <3>2. pc # "idle" => drift' <= age'
      BY <1>1, <3>1, Widths, Bounds DEF Tick, TypeInv, AgeInv
    <3>3. PICK armed \in 0 .. Size - 1 :
             /\ armed_at = (armed \div TicksPerUnit) % Half
             /\ Later(armed, counter, age)
      BY <3>1, Widths DEF AgeInv
    <3>4. Later(armed, counter', age + 1)
      BY <1>1, <3>1, <3>3, LaterTick
    <3> QED
      BY <2>1, <3>1, <3>2, <3>3, <3>4 DEF AgeInv, Later
  <2>3. CASE ~(age' < MaxAge /\ age' < Size)
    BY <2>1, <2>3 DEF AgeInv
  <2> QED
    BY <2>2, <2>3
<1>2. CASE CheckExpiry
  BY <1>2 DEF CheckExpiry, AgeInv, TypeInv, Later
<1>3. CASE Answer
  BY <1>3 DEF Answer, AgeInv
<1>4. CASE ReadHigh \/ ReadAgain
  BY <1>4 DEF ReadHigh, ReadAgain, AgeInv, Later
<1>5. CASE ReadLow
  BY <1>5 DEF ReadLow, AgeInv, Later
<1>6. CASE Expire
  BY <1>6 DEF Expire, AgeInv, Later
<1>7. CASE Arm
  <2>1. PICK start \in 0 .. Size - 1, middle \in 0 .. Size - 1,
             e \in 0 .. drift, f \in 0 .. drift :
           /\ e + f <= drift
           /\ before = start \div Half /\ Later(start, middle, e)
           /\ low = middle % Half /\ Later(middle, counter, f)
           /\ age < MaxAge => f = age
    BY <1>7 DEF Arm, ReadingInv
  <2>2. middle = before * Half + low /\ counter = middle + f
    BY <1>7, <2>1, Untorn DEF Arm, TypeInv
  <2>3. armed_at' = (middle \div TicksPerUnit) % Half
    BY <1>7, <2>2, NowInHalf DEF Arm
  <2>4. wchlink_response_deadline_us' = (armed_at' + lifetime') % Half /\ pc' = "idle"
    BY <1>7 DEF Arm
  <2>5. age' < MaxAge => Later(middle, counter', age')
    BY <1>7, <2>1, <2>2 DEF Arm, Later
  <2> QED
    BY <2>3, <2>4, <2>5 DEF AgeInv, Later
<1>8. CASE HostReads
  BY <1>8 DEF HostReads, AgeInv
<1>9. CASE UNCHANGED vars
  BY <1>9 DEF vars, AgeInv, Later
<1> QED
  BY <1>1, <1>2, <1>3, <1>4, <1>5, <1>6, <1>7, <1>8, <1>9 DEF Next

LEMMA InitTimeInv == Init => TimeInv
<1> SUFFICES ASSUME Init PROVE TimeInv
  OBVIOUS
<1>1. /\ 0 \in 0 .. Size - 1 /\ 0 \in 0 .. Half - 1
      /\ 0 \in 0 .. MaxDrift /\ 0 \in 0 .. MaxAge
  BY Widths, Bounds
<1>2. TypeInv
  BY <1>1 DEF Init, TypeInv
<1> QED
  BY <1>2 DEF Init, TimeInv, ReadingInv, AgeInv

\* The invariant of the clock and its users holds in every reachable state, for
\* every width of the halves and every divisor of counter_to_units.
THEOREM TimeInvariance == Spec => []TimeInv
<1>1. TimeInv /\ [Next]_vars => TimeInv'
  BY TypeStep, ReadingStep, AgeStep DEF TimeInv
<1> QED
  BY InitTimeInv, <1>1, PTL DEF Spec

-----------------------------------------------------------------------------
(* The theorems about the time                                             *)

\* No time that is used has its halves from two sides of a carry, for every
\* width of the halves and every number of ticks during the reading, short
\* of those that take the high half around.
THEOREM NoTornTime == Spec => []TimeNotTorn
<1>1. ASSUME TimeInv, pc = "again", Same
      PROVE  (counter + Size - (before * Half + low)) % Size <= drift
  <2>1. PICK start \in 0 .. Size - 1, middle \in 0 .. Size - 1,
             e \in 0 .. drift, f \in 0 .. drift :
           /\ e + f <= drift
           /\ before = start \div Half /\ Later(start, middle, e)
           /\ low = middle % Half /\ Later(middle, counter, f)
    BY <1>1 DEF TimeInv, ReadingInv
  <2>2. middle = before * Half + low /\ counter = middle + f
    BY <1>1, <2>1, Untorn DEF TimeInv, TypeInv
  <2>3. f \in 0 .. Size - 1 /\ Size \in Nat \ {0}
    BY <1>1, Bounds, Widths DEF TimeInv, TypeInv
  <2>4. (Size * 1 + f) % Size = f
    BY <2>3, Quotient
  <2>5. counter + Size - middle = Size * 1 + f
    BY <2>2, <2>3
  <2> QED
    BY <1>1, <2>2, <2>4, <2>5 DEF TimeInv, TypeInv
<1>2. TimeInv => TimeNotTorn
  BY <1>1 DEF TimeNotTorn
<1> QED
  BY TimeInvariance, <1>2, PTL

\* Less than a number of units after a time, its number of units has grown by
\* less than that.
LEMMA UnitsPass ==
  ASSUME NEW v \in Nat, NEW a \in Nat, NEW n \in Nat \ {0},
         a <= (n - 1) * TicksPerUnit
  PROVE  \E j \in 0 .. n - 1 :
            (v + a) \div TicksPerUnit = (v \div TicksPerUnit) + j
<1> DEFINE d == TicksPerUnit
           q == v \div d
           r == v % d
           p == (v + a) \div d
           s == (v + a) % d
<1>1. d \in Nat \ {0}
  BY Widths
<1>2. /\ q \in Nat /\ r \in 0 .. d - 1 /\ v = d * q + r
      /\ p \in Nat /\ s \in 0 .. d - 1 /\ v + a = d * p + s
  <2> HIDE DEF d
  <2>1. v + a \in Nat
    OBVIOUS
  <2> QED
    BY <1>1, <2>1, Euclid
<1> HIDE DEF d, q, r, p, s
<1>3. a <= d * (n - 1)
  BY <1>1 DEF d
<1>4. q <= p
  <2> SUFFICES ASSUME p + 1 <= q PROVE FALSE
    BY <1>2
  <2>1. d * (p + 1) <= d * q /\ d * (p + 1) = d * p + d
    BY <1>1, <1>2, Monotone
  <2> QED
    BY <1>1, <1>2, <2>1
<1>5. p <= q + (n - 1)
  <2> SUFFICES ASSUME q + n <= p PROVE FALSE
    BY <1>2
  <2>1. d * (q + n) <= d * p
    BY <1>1, <1>2, Monotone
  <2>2. d * (q + n) = d * q + d * (n - 1) + d
    BY <1>1, <1>2
  <2>3. d * q \in Nat /\ d * (n - 1) \in Nat /\ d * p \in Nat
    BY <1>1, <1>2
  <2> QED
    BY <1>1, <1>2, <1>3, <2>1, <2>2, <2>3
<1>6. p - q \in 0 .. n - 1 /\ p = q + (p - q)
  BY <1>2, <1>4, <1>5
<1> QED
  BY <1>6 DEF p, q, d

\* A reply that has waited for less than its lifetime has its deadline ahead.
LEMMA DeadlineAhead ==
  ASSUME TimeInv, pc = "again", Same, wchlink_response_pending,
         armed_at <= wchlink_response_deadline_us,
         age <= (lifetime - 1) * TicksPerUnit
  PROVE  Now < wchlink_response_deadline_us
<1> DEFINE T == TicksPerUnit
           now == before * Half + low
<1>1. /\ lifetime \in 1 .. Half - 1 /\ lifetime * T < MaxAge
      /\ T \in Nat \ {0} /\ Half \in Nat \ {0} /\ Size \in Nat
      /\ age \in Nat /\ armed_at \in 0 .. Half - 1
  BY Bounds, Widths DEF TimeInv, TypeInv
<1>2. age < MaxAge /\ age < Size
  <2>1. (lifetime - 1) * T <= lifetime * T /\ age <= lifetime * T
    <3> HIDE DEF T
    <3>1. (lifetime - 1) * T = lifetime * T - T /\ lifetime * T \in Nat
      BY <1>1
    <3>2. age <= (lifetime - 1) * T
      BY DEF T
    <3> QED
      BY <1>1, <3>1, <3>2
  <2>2. Half * T <= Half * Half /\ Half * Half = Size
    BY <1>1, Widths, Monotone DEF Size
  <2>3. T * lifetime <= T * (Half - 1) /\ T * (Half - 1) < T * Half
    <3> HIDE DEF T
    <3>1. T * lifetime <= T * (Half - 1)
      BY <1>1, Monotone
    <3>2. T * (Half - 1) = T * Half - T
      BY <1>1
    <3>3. T * Half \in Nat
      BY <1>1
    <3> QED
      BY <1>1, <3>1, <3>2, <3>3
  <2>4. T * lifetime = lifetime * T /\ T * Half = Half * T
    BY <1>1
  <2>5. lifetime * T \in Nat /\ Half * T \in Nat /\ T * (Half - 1) \in Nat
    BY <1>1
  <2> HIDE DEF T
  <2>6. age <= T * (Half - 1)
    BY <1>1, <2>1, <2>3, <2>4, <2>5
  <2>7. age < Size
    BY <1>1, <2>2, <2>3, <2>4, <2>5, <2>6
  <2>8. age < MaxAge
    BY <1>1, <2>1, <2>5, Bounds
  <2> QED
    BY <2>7, <2>8
<1>3. wchlink_response_deadline_us = armed_at + lifetime
  <2>1. wchlink_response_deadline_us = (armed_at + lifetime) % Half
    BY DEF TimeInv, AgeInv
  <2>2. CASE armed_at + lifetime < Half
    <3>1. (Half * 0 + (armed_at + lifetime)) % Half = armed_at + lifetime
      <4>1. armed_at + lifetime \in 0 .. Half - 1
        BY <1>1, <2>2
      <4> QED
        BY <1>1, <4>1, Quotient
    <3> QED
      BY <1>1, <2>1, <3>1
  <2>3. CASE armed_at + lifetime >= Half
    <3>1. (Half * 1 + (armed_at + lifetime - Half)) % Half = armed_at + lifetime - Half
      <4>1. armed_at + lifetime - Half \in 0 .. Half - 1
        BY <1>1, <2>3
      <4> QED
        BY <1>1, <4>1, Quotient
    <3>2. Half * 1 + (armed_at + lifetime - Half) = armed_at + lifetime
      BY <1>1
    <3>3. wchlink_response_deadline_us = armed_at + lifetime - Half
      BY <2>1, <3>1, <3>2
    <3> QED
      BY <1>1, <3>3
  <2> QED
    BY <1>1, <2>2, <2>3
<1>4. armed_at + lifetime < Half
  BY <1>1, <1>3, Widths DEF TimeInv, TypeInv
<1>5. PICK armed \in 0 .. Size - 1 :
         armed_at = (armed \div T) % Half /\ Later(armed, counter, age)
  BY <1>2 DEF TimeInv, AgeInv
<1>6. PICK f \in 0 .. drift : counter = now + f /\ now \in Nat
  <2>1. PICK start \in 0 .. Size - 1, middle \in 0 .. Size - 1,
             e \in 0 .. drift, f \in 0 .. drift :
           /\ e + f <= drift
           /\ before = start \div Half /\ Later(start, middle, e)
           /\ low = middle % Half /\ Later(middle, counter, f)
    BY DEF TimeInv, ReadingInv
  <2>2. middle = now /\ counter = middle + f
    BY <2>1, Untorn DEF TimeInv, TypeInv
  <2> HIDE DEF now
  <2> QED
    BY <2>1, <2>2
<1>7. f <= age /\ f \in Nat
  BY <1>2 DEF TimeInv, TypeInv, AgeInv
<1>8. Now = (now \div T) % Half
  BY NowInHalf DEF TimeInv
<1>9. age - f <= (lifetime - 1) * T /\ age - f \in Nat
  BY <1>1, <1>7
<1>10. CASE counter = armed + age
  <2> HIDE DEF now, T
  <2>1. now = armed + (age - f)
    BY <1>1, <1>6, <1>7, <1>10
  <2>2. PICK j \in 0 .. lifetime - 1 : now \div T = (armed \div T) + j
    <3> DEFINE a == age - f
    <3>1. a \in Nat /\ a <= (lifetime - 1) * T /\ lifetime \in Nat \ {0} /\ armed \in Nat
      BY <1>1, <1>9
    <3> HIDE DEF a
    <3>2. \E j \in 0 .. lifetime - 1 : (armed + a) \div T = (armed \div T) + j
      BY <3>1, UnitsPass DEF T
    <3> QED
      BY <2>1, <3>2 DEF a
  <2> DEFINE units == armed \div T
             turns == units \div Half
  <2>3. /\ units \in Nat /\ turns \in Nat /\ units = Half * turns + armed_at
    <3>1. armed \in Nat
      BY <1>1
    <3>2. units \in Nat
      BY <1>1, <3>1, Euclid
    <3>3. armed_at = units % Half
      BY <1>5
    <3> HIDE DEF units
    <3> QED
      BY <1>1, <3>2, <3>3, Euclid
  <2>4. (Half * turns + (armed_at + j)) % Half = armed_at + j
    <3> DEFINE x == armed_at + j
    <3>1. x \in 0 .. Half - 1
      BY <1>1, <1>4
    <3> HIDE DEF turns, x
    <3>2. (Half * turns + x) % Half = x
      BY <1>1, <2>3, <3>1, Quotient
    <3> QED
      BY <3>2 DEF x
  <2>5. Half * turns + (armed_at + j) = units + j
    <3> HIDE DEF turns, units
    <3> QED
      BY <1>1, <2>3
  <2>6. Now = armed_at + j
    BY <1>8, <2>2, <2>4, <2>5
  <2> QED
    BY <1>1, <1>3, <2>6
<1>11. CASE counter = armed + age - Size
  <2> HIDE DEF now, T
  <2>1. now <= age - f
    BY <1>1, <1>6, <1>7, <1>11
  <2>2. PICK j \in 0 .. lifetime - 1 : (0 + now) \div T = (0 \div T) + j
    <3>1. (lifetime - 1) * T \in Nat
      BY <1>1
    <3>2. now <= (lifetime - 1) * T
      BY <1>6, <1>9, <2>1, <3>1
    <3>3. lifetime \in Nat \ {0}
      BY <1>1
    <3> QED
      BY <1>6, <3>2, <3>3, UnitsPass DEF T
  <2>3. 0 \div T = 0
    <3>1. (T * 0 + 0) \div T = 0
      BY <1>1, Quotient
    <3> QED
      BY <1>1, <3>1
  <2>4. now \div T = j /\ j \in 0 .. Half - 1
    BY <1>1, <1>6, <2>2, <2>3
  <2>5. j % Half = j
    BY <1>1, <2>4, Small
  <2>6. Now = j
    BY <1>1, <1>8, <2>4, <2>5
  <2> QED
    BY <1>1, <1>3, <2>6
<1> QED
  BY <1>5, <1>10, <1>11 DEF Later

\* A reply is never retired before its lifetime is over, short of the unit in
\* which it was armed, unless its deadline wrapped: for every width and every
\* divisor, over carries and the wrap of the whole counter.
THEOREM ReplyKeepsLifetime == Spec => UnwrappedReplyKept
<1>1. ASSUME TimeInv, [Next]_vars, Retired,
             armed_at <= wchlink_response_deadline_us
      PROVE  age > (lifetime - 1) * TicksPerUnit
  <2>1. Expire
    BY <1>1 DEF Retired, Next, Tick, CheckExpiry, Answer, ReadHigh, ReadLow,
       ReadAgain, Arm, HostReads, vars, response, reading
  <2>2. ~(Now < wchlink_response_deadline_us)
    BY <1>1, <2>1 DEF Retired, Expire
  <2>3. ~(age <= (lifetime - 1) * TicksPerUnit)
    BY <1>1, <2>1, <2>2, DeadlineAhead DEF Retired, Expire
  <2>4. age \in Nat /\ (lifetime - 1) * TicksPerUnit \in Nat
    BY <1>1, Bounds, Widths DEF TimeInv, TypeInv
  <2> QED
    BY <2>3, <2>4
<1>2. TimeInv /\ [Next]_vars
        => [Retired /\ armed_at <= wchlink_response_deadline_us
              => age > (lifetime - 1) * TicksPerUnit]_vars
  BY <1>1
<1> QED
  BY TimeInvariance, <1>2, PTL DEF Spec, UnwrappedReplyKept
=============================================================================
