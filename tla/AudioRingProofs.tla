--------------------------- MODULE AudioRingProofs ---------------------------
(***************************************************************************)
(* What the operations of the ring do to the pairs that wait in it, for a  *)
(* ring of any size and positions of any width that is a multiple of it.   *)
(***************************************************************************)
EXTENDS AudioRing, SequenceTheorems, TLAPS

\* Live, of a ring with these contents and positions.
Waiting(r, w) == Wrap(w - r)
LiveOf(d, r, w) == [i \in 1..Waiting(r, w) |-> d[Slot(r + i - 1)]]

Contents == [0..(Capacity - 1) -> Pair]
Positions == 0..(Width - 1)
RampPair == [l |-> Ramp, r |-> Ramp]

\* A queue after a ramp of so many pairs that its newest do not fit behind.
Spoiled(q, pad) == [k \in 1..Len(q) |-> IF k + pad > Capacity THEN RampPair ELSE q[k]]

LEMMA LiveIsLiveOf == Live = LiveOf(data, readPos, writePos) /\ Queued = Waiting(readPos, writePos)
BY DEF Live, LiveOf, Queued, Waiting

-----------------------------------------------------------------------------
(***************************************************************************)
(* Division with remainder.                                                *)
(***************************************************************************)
LEMMA Division ==
    ASSUME NEW D \in Nat \ {0}, NEW x \in Int
    PROVE  /\ x = (x \div D) * D + (x % D)
           /\ x \div D \in Int /\ x % D \in 0..(D - 1)
OBVIOUS

LEMMA Remainder ==
    ASSUME NEW D \in Nat \ {0}, NEW x \in Int, NEW q \in Int, NEW r \in 0..(D - 1),
           x = q * D + r
    PROVE  r = x % D
OBVIOUS

LEMMA NoMultiple ==
    ASSUME NEW D \in Nat \ {0}, NEW k \in Int, k * D < D, -D < k * D
    PROVE  k = 0
OBVIOUS

LEMMA TwiceAtLeast ==
    ASSUME NEW D \in Nat \ {0}, NEW k \in Int, k * D > D
    PROVE  k * D >= 2 * D
<1>1. 2 * D \in Int /\ k * D \in Int /\ k - 1 \in Int /\ (k - 1) * D = k * D - D
  OBVIOUS
<1>2. CASE k * D < 2 * D
  <2>1. (k - 1) * D < D /\ -D < (k - 1) * D
    BY <1>1, <1>2
  <2>2. k - 1 = 0
    BY <1>1, <2>1, NoMultiple
  <2> QED BY <1>1, <2>2
<1> QED BY <1>1, <1>2

LEMMA Distribute ==
    ASSUME NEW D \in Nat \ {0}, NEW k \in Int, NEW j \in Int
    PROVE  (k + j) * D = k * D + j * D /\ (k - j) * D = k * D - j * D
OBVIOUS

LEMMA RemainderSmall ==
    ASSUME NEW D \in Nat \ {0}, NEW x \in Nat
    PROVE  x % D \in Nat /\ x % D <= x
OBVIOUS

LEMMA Associate ==
    ASSUME NEW q \in Int, NEW k \in Int, NEW D \in Int
    PROVE  q * (k * D) = (q * k) * D /\ q * k \in Int
OBVIOUS

LEMMA ShiftRemainder ==
    ASSUME NEW D \in Nat \ {0}, NEW x \in Int, NEW k \in Int
    PROVE  (x + k * D) % D = x % D
<1>1. x = (x \div D) * D + (x % D) /\ x \div D \in Int /\ x % D \in 0..(D - 1)
  BY Division
<1>2. x + k * D = ((x \div D) + k) * D + (x % D)
  BY <1>1, Distribute
<1>3. x + k * D \in Int /\ (x \div D) + k \in Int
  BY <1>1
<1> QED BY <1>1, <1>2, <1>3, Remainder

LEMMA RemaindersDiffer ==
    ASSUME NEW D \in Nat \ {0}, NEW x \in Int, NEW y \in Int, x < y, y < x + D
    PROVE  x % D # y % D
<1>1. x = (x \div D) * D + (x % D) /\ x \div D \in Int /\ x % D \in 0..(D - 1)
  BY Division
<1>2. y = (y \div D) * D + (y % D) /\ y \div D \in Int /\ y % D \in 0..(D - 1)
  BY Division
<1>3. SUFFICES ASSUME x % D = y % D
               PROVE  FALSE
  OBVIOUS
<1>4. ((y \div D) - (x \div D)) * D = y - x
  BY <1>1, <1>2, <1>3, Distribute
<1>5. (y \div D) - (x \div D) \in Int
  BY <1>1, <1>2
<1>6. (y \div D) - (x \div D) = 0
  BY <1>4, <1>5, NoMultiple
<1> QED BY <1>4, <1>6

-----------------------------------------------------------------------------
(***************************************************************************)
(* Positions and slots.                                                    *)
(***************************************************************************)
LEMMA RingSizes == Capacity \in Nat \ {0} /\ Width \in Nat \ {0} /\ Width > Capacity
BY RingAssumption

\* Positions go round the ring twice at least.
LEMMA TwoRounds == Width >= 2 * Capacity
<1>1. Capacity \in Nat \ {0} /\ Width \in Nat /\ Width > Capacity /\ Width % Capacity = 0
  BY RingAssumption
<1> DEFINE k == Width \div Capacity
<1>2. Width = k * Capacity /\ k \in Int
  BY <1>1, Division
<1> HIDE DEF k
<1> QED BY <1>1, <1>2, TwiceAtLeast

LEMMA WrapIs ==
    /\ \A x \in Int : Wrap(x) \in Positions
    /\ \A x \in 0..(Width - 1) : Wrap(x) = x
    /\ \A x \in Width..(2 * Width - 1) : Wrap(x) = x - Width
    /\ \A x \in (-Width)..(-1) : Wrap(x) = x + Width
<1>0. Width \in Nat \ {0}
  BY RingSizes
<1>1. \A x \in Int : Wrap(x) \in Positions
  BY <1>0 DEF Wrap, Positions
<1>2. \A x \in 0..(Width - 1) : Wrap(x) = x
  BY <1>0 DEF Wrap
<1>3. \A x \in Width..(2 * Width - 1) : Wrap(x) = x - Width
  BY <1>0 DEF Wrap
<1>4. ASSUME NEW x \in (-Width)..(-1)
      PROVE  Wrap(x) = x + Width
  <2>1. x = (-1) * Width + (x + Width) /\ x + Width \in 0..(Width - 1) /\ x \in Int
    BY <1>0
  <2>2. x + Width = x % Width
    BY <1>0, <2>1, Remainder
  <2> QED BY <2>2 DEF Wrap
<1> QED BY <1>1, <1>2, <1>3, <1>4

LEMMA SlotIs ==
    /\ \A x \in Int : Slot(x) \in 0..(Capacity - 1)
    /\ \A x \in Int : Slot(x + Width) = Slot(x) /\ Slot(x - Width) = Slot(x)
    /\ \A x, y \in Int : x < y /\ y < x + Capacity => Slot(x) # Slot(y)
<1>0. Capacity \in Nat \ {0} /\ Width \in Nat \ {0} /\ Width % Capacity = 0
  BY RingAssumption
<1> DEFINE k == Width \div Capacity
<1>1. Width = k * Capacity /\ k \in Int
  BY <1>0, Division
<1> HIDE DEF k
<1>2. -Width = (-k) * Capacity /\ -k \in Int
  BY <1>0, <1>1
<1>3. ASSUME NEW x \in Int
      PROVE  Slot(x + Width) = Slot(x) /\ Slot(x - Width) = Slot(x)
  <2>1. (x + k * Capacity) % Capacity = x % Capacity
    BY <1>0, <1>1, ShiftRemainder
  <2>2. (x + (-k) * Capacity) % Capacity = x % Capacity
    BY <1>0, <1>2, ShiftRemainder
  <2>3. x + Width = x + k * Capacity /\ x - Width = x + (-k) * Capacity
    BY <1>0, <1>1, <1>2
  <2> QED BY <2>1, <2>2, <2>3 DEF Slot
<1>4. \A x \in Int : Slot(x) \in 0..(Capacity - 1)
  BY <1>0 DEF Slot
<1>5. \A x, y \in Int : x < y /\ y < x + Capacity => Slot(x) # Slot(y)
  BY <1>0, RemaindersDiffer DEF Slot
<1> QED BY <1>3, <1>4, <1>5

\* A slot is the same however its position is wrapped.
LEMMA SlotOfAnyWrap ==
    ASSUME NEW x \in Int, NEW i \in Int
    PROVE  Slot(Wrap(x) + i) = Slot(x + i)
<1>0. Capacity \in Nat \ {0} /\ Width \in Nat \ {0} /\ Width % Capacity = 0
  BY RingAssumption
<1> DEFINE k == Width \div Capacity
           q == x \div Width
<1>1. Width = k * Capacity /\ k \in Int
  BY <1>0, Division
<1>2. x = q * Width + Wrap(x) /\ q \in Int /\ Wrap(x) \in Int
  BY <1>0, Division DEF Wrap
<1> HIDE DEF k, q
<1>3. q * Width = (q * k) * Capacity /\ q * k \in Int
  <2>1. Capacity \in Int
    BY <1>0
  <2>2. q * (k * Capacity) = (q * k) * Capacity /\ q * k \in Int
    BY <1>1, <1>2, <2>1, Associate
  <2>3. Width = k * Capacity
    BY <1>1
  <2> QED BY ONLY <2>2, <2>3
<1>4. x + i = (Wrap(x) + i) + (q * k) * Capacity /\ Wrap(x) + i \in Int
  <2> DEFINE y == (q * k) * Capacity
             z == Wrap(x)
  <2>1. y \in Int /\ z \in Int /\ x = y + z
    BY <1>0, <1>2, <1>3
  <2> HIDE DEF y, z
  <2>2. x + i = (z + i) + y /\ z + i \in Int
    BY <2>1
  <2> QED BY <2>2 DEF y, z
<1>5. ((Wrap(x) + i) + (q * k) * Capacity) % Capacity = (Wrap(x) + i) % Capacity
  BY <1>0, <1>3, <1>4, ShiftRemainder
<1> QED BY <1>4, <1>5 DEF Slot

LEMMA SlotOfWrap ==
    ASSUME NEW x \in (-Width)..(2 * Width - 1), NEW i \in Int
    PROVE  Slot(Wrap(x) + i) = Slot(x + i)
<1>0. Width \in Nat \ {0} /\ x \in Int
  BY RingSizes
<1>1. CASE x \in 0..(Width - 1)
  BY <1>1, WrapIs
<1>2. CASE x \in Width..(2 * Width - 1)
  <2>1. Wrap(x) + i = (x + i) - Width /\ x + i \in Int
    BY <1>0, <1>2, WrapIs
  <2> QED BY <2>1, SlotIs
<1>3. CASE x \in (-Width)..(-1)
  <2>1. Wrap(x) + i = (x + i) + Width /\ x + i \in Int
    BY <1>0, <1>3, WrapIs
  <2> QED BY <2>1, SlotIs
<1> QED BY <1>0, <1>1, <1>2, <1>3

LEMMA WaitingIs ==
    ASSUME NEW r \in Positions, NEW w \in Positions
    PROVE  /\ Waiting(r, w) = IF w >= r THEN w - r ELSE w - r + Width
           /\ Waiting(r, w) \in Positions /\ Waiting(r, w) \in Nat
           /\ Slot(r + Waiting(r, w)) = Slot(w)
<1>0. Width \in Nat \ {0} /\ r \in Int /\ w \in Int
  BY RingSizes DEF Positions
<1>1. CASE w >= r
  <2>1. w - r \in 0..(Width - 1) /\ r + (w - r) = w
    BY <1>0, <1>1 DEF Positions
  <2> QED BY <1>1, <2>1, WrapIs DEF Waiting, Positions
<1>2. CASE ~(w >= r)
  <2>1. w - r \in (-Width)..(-1)
    BY <1>0, <1>2 DEF Positions
  <2>2. Wrap(w - r) = w - r + Width
    BY <2>1, WrapIs
  <2>3. r + (w - r + Width) = w + Width /\ w - r + Width \in Positions
    BY <1>0, <1>2, <2>1 DEF Positions
  <2>4. Slot(w + Width) = Slot(w)
    BY <1>0, SlotIs
  <2>5. w - r + Width \in Nat
    BY <2>3 DEF Positions
  <2> QED BY <1>2, <2>2, <2>3, <2>4, <2>5 DEF Waiting
<1> QED BY <1>1, <1>2

LEMMA LiveIs ==
    ASSUME NEW d \in Contents, NEW r \in Positions, NEW w \in Positions
    PROVE  /\ LiveOf(d, r, w) \in Seq(Pair)
           /\ Len(LiveOf(d, r, w)) = Waiting(r, w)
           /\ \A i \in 1..Waiting(r, w) : LiveOf(d, r, w)[i] = d[Slot(r + i - 1)]
<1>1. Waiting(r, w) \in Nat /\ r \in Int
  BY WaitingIs, RingSizes DEF Positions
<1>2. ASSUME NEW i \in 1..Waiting(r, w)
      PROVE  d[Slot(r + i - 1)] \in Pair
  <2>1. r + i - 1 \in Int
    BY <1>1
  <2> QED BY <2>1, SlotIs DEF Contents
<1> QED BY <1>1, <1>2 DEF LiveOf

-----------------------------------------------------------------------------
(***************************************************************************)
(* The operations.                                                         *)
(***************************************************************************)
\* Two rings in which the same pairs wait.
LEMMA SameLive ==
    ASSUME NEW d \in Contents, NEW e \in Contents, NEW r \in Positions, NEW w \in Positions,
           \A i \in 1..Waiting(r, w) : e[Slot(r + i - 1)] = d[Slot(r + i - 1)]
    PROVE  LiveOf(e, r, w) = LiveOf(d, r, w)
BY DEF LiveOf

(* push() writes where no pair waits, if the ring is not full.             *)
LEMMA WriteBehind ==
    ASSUME NEW d \in Contents, NEW e \in Contents, NEW r \in Positions, NEW w \in Positions,
           Waiting(r, w) < Capacity,
           \A j \in 0..(Capacity - 1) : j # Slot(w) => e[j] = d[j]
    PROVE  LiveOf(e, r, w) = LiveOf(d, r, w)
<1> DEFINE n == Waiting(r, w)
<1>1. n \in Nat /\ r \in Int /\ Slot(r + n) = Slot(w) /\ Capacity \in Nat \ {0}
  BY WaitingIs, RingSizes DEF Positions
<1>2. ASSUME NEW i \in 1..n
      PROVE  e[Slot(r + i - 1)] = d[Slot(r + i - 1)]
  <2>1. r + i - 1 \in Int /\ r + n \in Int /\ r + i - 1 < r + n /\ r + n < (r + i - 1) + Capacity
    BY <1>1
  <2>2. Slot(r + i - 1) # Slot(r + n) /\ Slot(r + i - 1) \in 0..(Capacity - 1)
    BY <2>1, SlotIs
  <2> QED BY <1>1, <2>2
<1> QED BY <1>2, SameLive

(* The publication appends the pair at the write position.                 *)
LEMMA PublishAppends ==
    ASSUME NEW d \in Contents, NEW r \in Positions, NEW w \in Positions,
           Waiting(r, w) < Capacity
    PROVE  /\ Wrap(w + 1) \in Positions
           /\ Waiting(r, Wrap(w + 1)) = Waiting(r, w) + 1
           /\ LiveOf(d, r, Wrap(w + 1)) = Append(LiveOf(d, r, w), d[Slot(w)])
<1> DEFINE v == Wrap(w + 1)
           n == Waiting(r, w)
<1>1. n \in Nat /\ n < Width - 1 /\ r \in Int /\ w \in Int /\ Slot(r + n) = Slot(w)
      /\ Width \in Nat \ {0} /\ n = IF w >= r THEN w - r ELSE w - r + Width
  BY WaitingIs, RingSizes DEF Positions
<1>2. v = IF w = Width - 1 THEN 0 ELSE w + 1
  <2>1. w + 1 \in 0..Width
    BY <1>1 DEF Positions
  <2> QED BY <1>1, <2>1, WrapIs
<1>3. v \in Positions
  BY <1>1, <1>2 DEF Positions
<1> HIDE DEF v
<1>4. Waiting(r, v) = n + 1
  <2>1. Waiting(r, v) = IF v >= r THEN v - r ELSE v - r + Width
    BY <1>3, WaitingIs
  <2> QED BY <1>1, <1>2, <2>1 DEF Positions
<1> HIDE DEF n
<1>5. /\ LiveOf(d, r, w) \in Seq(Pair) /\ Len(LiveOf(d, r, w)) = n
      /\ \A i \in 1..n : LiveOf(d, r, w)[i] = d[Slot(r + i - 1)]
      /\ LiveOf(d, r, v) \in Seq(Pair) /\ Len(LiveOf(d, r, v)) = n + 1
      /\ \A i \in 1..(n + 1) : LiveOf(d, r, v)[i] = d[Slot(r + i - 1)]
  <2>1. /\ LiveOf(d, r, w) \in Seq(Pair) /\ Len(LiveOf(d, r, w)) = n
        /\ \A i \in 1..n : LiveOf(d, r, w)[i] = d[Slot(r + i - 1)]
    BY LiveIs DEF n
  <2>2. /\ LiveOf(d, r, v) \in Seq(Pair) /\ Len(LiveOf(d, r, v)) = Waiting(r, v)
        /\ \A i \in 1..Waiting(r, v) : LiveOf(d, r, v)[i] = d[Slot(r + i - 1)]
    BY <1>3, LiveIs
  <2>3. /\ Len(LiveOf(d, r, v)) = n + 1
        /\ \A i \in 1..(n + 1) : LiveOf(d, r, v)[i] = d[Slot(r + i - 1)]
    BY <1>4, <2>2, Zenon
  <2> QED BY <2>1, <2>2, <2>3, Zenon
<1>6. d[Slot(w)] \in Pair
  BY <1>1, SlotIs DEF Contents
<1> DEFINE more == Append(LiveOf(d, r, w), d[Slot(w)])
<1>7. more \in Seq(Pair) /\ Len(more) = n + 1
  BY <1>5, <1>6
<1>8. \A i \in 1..(n + 1) : LiveOf(d, r, v)[i] = more[i]
  <2>1. TAKE i \in 1..(n + 1)
  <2>2. CASE i = n + 1
    <3>1. r + (n + 1) - 1 = r + n
      BY <1>1
    <3> QED BY <1>1, <1>5, <2>2, <3>1
  <2>3. CASE i \in 1..n
    BY <1>5, <2>3
  <2>4. i = n + 1 \/ i \in 1..n
    BY <1>1
  <2> QED BY <2>2, <2>3, <2>4
<1> HIDE DEF more
<1>9. LiveOf(d, r, v) = more
  BY <1>5, <1>7, <1>8, SeqEqual
<1> QED BY <1>3, <1>4, <1>9 DEF more, v, n

(* Moving the read position forward drops the oldest pairs.                *)
LEMMA ForwardDrops ==
    ASSUME NEW d \in Contents, NEW r \in Positions, NEW w \in Positions,
           NEW k \in 0..Waiting(r, w)
    PROVE  /\ Wrap(r + k) \in Positions
           /\ Waiting(Wrap(r + k), w) = Waiting(r, w) - k
           /\ LiveOf(d, Wrap(r + k), w) = SubSeq(LiveOf(d, r, w), k + 1, Waiting(r, w))
<1> DEFINE q == Wrap(r + k)
           n == Waiting(r, w)
<1>1. n \in Nat /\ n < Width /\ r \in Int /\ w \in Int /\ k \in Int /\ k <= n
      /\ Width \in Nat \ {0} /\ n = IF w >= r THEN w - r ELSE w - r + Width
  BY WaitingIs, RingSizes DEF Positions
<1>2. r + k \in 0..(2 * Width - 1) /\ r + k \in (-Width)..(2 * Width - 1)
  BY <1>1 DEF Positions
<1>3. q = IF r + k < Width THEN r + k ELSE r + k - Width
  <2>1. CASE r + k < Width
    <3>1. r + k \in 0..(Width - 1)
      BY <1>1, <1>2, <2>1
    <3>2. q = r + k
      BY <3>1, WrapIs
    <3> QED BY <2>1, <3>2
  <2>2. CASE ~(r + k < Width)
    <3>1. r + k \in Width..(2 * Width - 1)
      BY <1>1, <1>2, <2>2
    <3>2. q = (r + k) - Width
      BY <3>1, WrapIs, Zenon
    <3> HIDE DEF q
    <3> QED BY <1>1, <2>2, <3>2
  <2> HIDE DEF q
  <2> QED BY <1>1, <2>1, <2>2
<1>4. \A i \in Int : Slot(q + i) = Slot(r + k + i)
  BY <1>2, SlotOfWrap
<1>5. q \in Positions
  BY <1>1, <1>2, <1>3 DEF Positions
<1> HIDE DEF q
<1>6. Waiting(q, w) = n - k
  <2>1. Waiting(q, w) = IF w >= q THEN w - q ELSE w - q + Width
    BY <1>5, WaitingIs
  <2> QED BY <1>1, <1>3, <2>1 DEF Positions
<1> HIDE DEF n
<1>7. /\ LiveOf(d, r, w) \in Seq(Pair) /\ Len(LiveOf(d, r, w)) = n
      /\ \A i \in 1..n : LiveOf(d, r, w)[i] = d[Slot(r + i - 1)]
      /\ LiveOf(d, q, w) \in Seq(Pair) /\ Len(LiveOf(d, q, w)) = n - k
      /\ \A i \in 1..(n - k) : LiveOf(d, q, w)[i] = d[Slot(q + i - 1)]
  <2>1. /\ LiveOf(d, r, w) \in Seq(Pair) /\ Len(LiveOf(d, r, w)) = n
        /\ \A i \in 1..n : LiveOf(d, r, w)[i] = d[Slot(r + i - 1)]
    BY LiveIs DEF n
  <2>2. /\ LiveOf(d, q, w) \in Seq(Pair) /\ Len(LiveOf(d, q, w)) = Waiting(q, w)
        /\ \A i \in 1..Waiting(q, w) : LiveOf(d, q, w)[i] = d[Slot(q + i - 1)]
    BY <1>5, LiveIs
  <2>3. /\ Len(LiveOf(d, q, w)) = n - k
        /\ \A i \in 1..(n - k) : LiveOf(d, q, w)[i] = d[Slot(q + i - 1)]
    BY <1>6, <2>2, Zenon
  <2> QED BY <2>1, <2>2, <2>3, Zenon
<1> DEFINE rest == SubSeq(LiveOf(d, r, w), k + 1, n)
<1>8. rest \in Seq(Pair) /\ Len(rest) = n - k
      /\ \A i \in 1..(n - k) : rest[i] = LiveOf(d, r, w)[k + i]
  <2>1. n - (k + 1) + 1 = n - k /\ \A i \in 1..(n - k) : (k + 1) + i - 1 = k + i
    BY <1>1
  <2>2. k + 1 \in 1..(n + 1) /\ n \in Nat /\ k \in Nat
    BY <1>1
  <2> QED BY <1>7, <2>1, <2>2
<1>9. \A i \in 1..(n - k) : LiveOf(d, q, w)[i] = rest[i]
  <2>1. TAKE i \in 1..(n - k)
  <2>2. k + i \in 1..n /\ i - 1 \in Int /\ q \in Int
    BY <1>1, <1>5, RingSizes DEF Positions
  <2>3. LiveOf(d, q, w)[i] = d[Slot(q + (i - 1))]
    <3>1. q + i - 1 = q + (i - 1)
      BY <2>2
    <3> QED BY <1>7, <3>1
  <2>4. rest[i] = d[Slot(r + k + (i - 1))]
    <3>1. r + (k + i) - 1 = r + k + (i - 1)
      BY <1>1, <2>2
    <3>2. LiveOf(d, r, w)[k + i] = d[Slot(r + (k + i) - 1)]
      BY <1>7, <2>2
    <3> QED BY <1>8, <3>1, <3>2
  <2> QED BY <1>4, <2>2, <2>3, <2>4
<1> HIDE DEF rest
<1>10. LiveOf(d, q, w) = rest
  BY <1>7, <1>8, <1>9, SeqEqual
<1> QED BY <1>5, <1>6, <1>10 DEF rest, q, n

(* prepend_ramp() puts ramp behind the read position, and nothing but ramp *)
(* anywhere...                                                             *)
LEMMA RampPlaced ==
    ASSUME NEW d \in Contents, NEW r \in Positions, NEW pad \in Nat,
           NEW e,
           e = [j \in DOMAIN d |-> IF j \in {Slot(r - pad + i) : i \in 0..(pad - 1)}
                                   THEN RampPair ELSE d[j]]
    PROVE  /\ e \in Contents
           /\ \A i \in 0..(pad - 1) : e[Slot(r - pad + i)] = RampPair
           /\ \A j \in 0..(Capacity - 1) : e[j] \in {d[j], RampPair}
<1>1. r \in Int
  BY RingSizes DEF Positions
<1>2. e \in Contents /\ \A j \in 0..(Capacity - 1) : e[j] \in {d[j], RampPair}
  BY DEF Contents, Pair, Samples, RampPair
<1>3. ASSUME NEW i \in 0..(pad - 1)
      PROVE  e[Slot(r - pad + i)] = RampPair
  <2>1. r - pad + i \in Int
    BY <1>1
  <2>2. Slot(r - pad + i) \in DOMAIN d
    BY <2>1, SlotIs DEF Contents
  <2> QED BY <2>2
<1> QED BY <1>2, <1>3

(* ... where no pair waits, but for the newest that it does not fit        *)
(* behind...                                                               *)
LEMMA RampSpoils ==
    ASSUME NEW d \in Contents, NEW r \in Positions, NEW w \in Positions, NEW pad \in Nat,
           pad < Capacity, Waiting(r, w) <= Capacity,
           NEW e,
           e = [j \in DOMAIN d |-> IF j \in {Slot(r - pad + i) : i \in 0..(pad - 1)}
                                   THEN RampPair ELSE d[j]]
    PROVE  LiveOf(e, r, w) = Spoiled(LiveOf(d, r, w), pad)
<1> DEFINE n == Waiting(r, w)
<1>1. n \in Nat /\ r \in Int /\ Capacity \in Nat \ {0} /\ n <= Capacity
  BY WaitingIs, RingSizes DEF Positions
<1>2. /\ Len(LiveOf(d, r, w)) = n
      /\ \A k \in 1..n : LiveOf(d, r, w)[k] = d[Slot(r + k - 1)]
  BY LiveIs
<1>3. LiveOf(e, r, w) = [k \in 1..n |-> e[Slot(r + k - 1)]]
  BY DEF LiveOf
<1> HIDE DEF n
<1>4. ASSUME NEW k \in 1..n
      PROVE  e[Slot(r + k - 1)] = IF k + pad > Capacity THEN RampPair ELSE d[Slot(r + k - 1)]
  <2>1. r + k - 1 \in Int
    BY <1>1
  <2>2. Slot(r + k - 1) \in DOMAIN d
    BY <2>1, SlotIs DEF Contents
  <2>3. CASE k + pad > Capacity
    <3> DEFINE i == k - 1 + pad - Capacity
    <3>1. i \in 0..(pad - 1) /\ r - pad + i \in Int /\ r + k - 1 = (r - pad + i) + Capacity
      BY <1>1, <2>3
    <3> HIDE DEF i
    <3> DEFINE x == r - pad + i
    <3>2. x \in Int /\ r + k - 1 = x + 1 * Capacity /\ 1 \in Int
      BY <1>1, <3>1
    <3> HIDE DEF x
    <3>3. (x + 1 * Capacity) % Capacity = x % Capacity
      BY <1>1, <3>2, ShiftRemainder
    <3>4. Slot(r + k - 1) = Slot(r - pad + i)
      BY <3>2, <3>3 DEF Slot, x
    <3>5. e[Slot(r - pad + i)] = RampPair
      BY <3>1, RampPlaced
    <3> QED BY <2>3, <3>4, <3>5
  <2>4. CASE ~(k + pad > Capacity)
    <3>1. ASSUME NEW i \in 0..(pad - 1)
          PROVE  Slot(r - pad + i) # Slot(r + k - 1)
      <4>1. r - pad + i \in Int /\ r - pad + i < r + k - 1
            /\ r + k - 1 < (r - pad + i) + Capacity
        BY <1>1, <2>4
      <4> QED BY <2>1, <4>1, SlotIs
    <3> QED BY <2>2, <2>4, <3>1
  <2> QED BY <2>3, <2>4
<1>5. LiveOf(e, r, w)
        = [k \in 1..n |-> IF k + pad > Capacity THEN RampPair ELSE LiveOf(d, r, w)[k]]
  BY <1>2, <1>3, <1>4
<1> QED BY <1>2, <1>5 DEF Spoiled

(* ... and stepping back puts it in front.                                 *)
LEMMA BackPrepends ==
    ASSUME NEW d \in Contents, NEW r \in Positions, NEW w \in Positions, NEW pad \in Nat,
           Waiting(r, w) + pad < Width,
           \A i \in 0..(pad - 1) : d[Slot(r - pad + i)] = RampPair
    PROVE  /\ Wrap(r - pad) \in Positions
           /\ Waiting(Wrap(r - pad), w) = Waiting(r, w) + pad
           /\ LiveOf(d, Wrap(r - pad), w) = [i \in 1..pad |-> RampPair] \o LiveOf(d, r, w)
<1> DEFINE q == Wrap(r - pad)
           n == Waiting(r, w)
<1>1. n \in Nat /\ n + pad < Width /\ r \in Int /\ w \in Int /\ pad \in Int
      /\ Width \in Nat \ {0} /\ n = IF w >= r THEN w - r ELSE w - r + Width
  BY WaitingIs, RingSizes DEF Positions
<1>2. r - pad \in (-Width)..(2 * Width - 1)
  BY <1>1 DEF Positions
<1>3. q = IF r >= pad THEN r - pad ELSE r - pad + Width
  <2>1. CASE r >= pad
    <3>1. r - pad \in 0..(Width - 1)
      BY <1>1, <1>2, <2>1 DEF Positions
    <3>2. q = r - pad
      BY <3>1, WrapIs
    <3> QED BY <2>1, <3>2
  <2>2. CASE ~(r >= pad)
    <3>1. r - pad \in (-Width)..(-1)
      BY <1>1, <1>2, <2>2
    <3>2. q = r - pad + Width
      BY <3>1, WrapIs
    <3> QED BY <2>2, <3>2
  <2> HIDE DEF q
  <2> QED BY <1>1, <2>1, <2>2
<1>4. \A i \in Int : Slot(q + i) = Slot(r - pad + i)
  BY <1>2, SlotOfWrap
<1>5. q \in Positions
  BY <1>1, <1>2, WrapIs
<1> HIDE DEF q
<1>6. Waiting(q, w) = n + pad
  <2>1. Waiting(q, w) = IF w >= q THEN w - q ELSE w - q + Width
    BY <1>5, WaitingIs
  <2> QED BY <1>1, <1>3, <2>1 DEF Positions
<1> HIDE DEF n
<1>7. /\ LiveOf(d, r, w) \in Seq(Pair) /\ Len(LiveOf(d, r, w)) = n
      /\ \A i \in 1..n : LiveOf(d, r, w)[i] = d[Slot(r + i - 1)]
      /\ LiveOf(d, q, w) \in Seq(Pair) /\ Len(LiveOf(d, q, w)) = n + pad
      /\ \A i \in 1..(n + pad) : LiveOf(d, q, w)[i] = d[Slot(q + i - 1)]
  <2>1. /\ LiveOf(d, r, w) \in Seq(Pair) /\ Len(LiveOf(d, r, w)) = n
        /\ \A i \in 1..n : LiveOf(d, r, w)[i] = d[Slot(r + i - 1)]
    BY LiveIs DEF n
  <2>2. /\ LiveOf(d, q, w) \in Seq(Pair) /\ Len(LiveOf(d, q, w)) = Waiting(q, w)
        /\ \A i \in 1..Waiting(q, w) : LiveOf(d, q, w)[i] = d[Slot(q + i - 1)]
    BY <1>5, LiveIs
  <2>3. /\ Len(LiveOf(d, q, w)) = n + pad
        /\ \A i \in 1..(n + pad) : LiveOf(d, q, w)[i] = d[Slot(q + i - 1)]
    BY <1>6, <2>2, Zenon
  <2> QED BY <2>1, <2>2, <2>3, Zenon
<1> DEFINE ramp == [i \in 1..pad |-> RampPair]
           all == ramp \o LiveOf(d, r, w)
<1>8. ramp \in Seq(Pair) /\ Len(ramp) = pad /\ \A i \in 1..pad : ramp[i] = RampPair
  BY <1>1 DEF RampPair, Pair, Samples
<1> HIDE DEF ramp
<1>9. /\ all \in Seq(Pair) /\ Len(all) = n + pad
      /\ \A i \in 1..(n + pad) : all[i] = IF i <= pad THEN ramp[i] ELSE LiveOf(d, r, w)[i - pad]
  <2> DEFINE l == LiveOf(d, r, w)
  <2>1. l \in Seq(Pair) /\ Len(l) = n
    BY <1>7
  <2> HIDE DEF l
  <2>2. ramp \o l \in Seq(Pair) /\ Len(ramp \o l) = pad + n /\ pad + n = n + pad
    BY <1>1, <1>8, <2>1
  <2>3. \A i \in 1..(n + pad) :
          (ramp \o l)[i] = IF i <= pad THEN ramp[i] ELSE l[i - pad]
    BY <1>1, <1>8, <2>1
  <2> QED BY <2>2, <2>3 DEF l
<1>10. ASSUME NEW i \in 1..(n + pad)
       PROVE  LiveOf(d, q, w)[i] = all[i]
  <2>0. i - 1 \in Int /\ q \in Int /\ q + i - 1 = q + (i - 1)
    BY <1>1, <1>5, RingSizes DEF Positions
  <2>1. LiveOf(d, q, w)[i] = d[Slot(r - pad + (i - 1))]
    BY <1>4, <1>7, <2>0
  <2>2. CASE i <= pad
    <3>1. i - 1 \in 0..(pad - 1) /\ i \in 1..pad
      BY <1>1, <2>2
    <3> QED BY <1>8, <1>9, <2>1, <2>2, <3>1
  <2>3. CASE ~(i <= pad)
    <3>1. i - pad \in 1..n /\ r - pad + (i - 1) = r + (i - pad) - 1
      BY <1>1, <2>3
    <3>2. LiveOf(d, r, w)[i - pad] = d[Slot(r + (i - pad) - 1)]
      BY <1>7, <3>1
    <3> QED BY <1>9, <2>1, <2>3, <3>1, <3>2
  <2> QED BY <2>2, <2>3
<1> HIDE DEF all
<1>11. LiveOf(d, q, w) = all
  BY <1>7, <1>9, <1>10, SeqEqual
<1> QED BY <1>5, <1>6, <1>11 DEF all, ramp, q, n

(* The two ways to name the position that leaves `keep' pairs.             *)
LEMMA WaitingReaches ==
    ASSUME NEW r \in Positions, NEW w \in Positions, NEW keep \in 0..Waiting(r, w)
    PROVE  Wrap(r + (Waiting(r, w) - keep)) = Wrap(w - keep)
<1> DEFINE n == Waiting(r, w)
<1>1. n \in Nat /\ n < Width /\ r \in Int /\ w \in Int /\ keep \in Nat /\ keep <= n
      /\ Width \in Nat \ {0} /\ n = IF w >= r THEN w - r ELSE w - r + Width
  BY WaitingIs, RingSizes DEF Positions
<1> HIDE DEF n
<1>2. CASE w >= r
  <2>1. r + (n - keep) = w - keep
    BY <1>1, <1>2
  <2> QED BY <2>1 DEF n
<1>3. CASE ~(w >= r)
  <2>1. r + (n - keep) = (w - keep) + Width /\ w - keep \in Int
    BY <1>1, <1>3
  <2>2. ((w - keep) + 1 * Width) % Width = (w - keep) % Width
    <3> DEFINE x == w - keep
    <3>1. x \in Int /\ 1 \in Int
      BY <2>1
    <3> HIDE DEF x
    <3>2. (x + 1 * Width) % Width = x % Width
      BY <1>1, <3>1, ShiftRemainder
    <3> QED BY <3>2 DEF x
  <2>3. (w - keep) + 1 * Width = (w - keep) + Width
    BY <1>1
  <2>4. Wrap(r + (n - keep)) = Wrap(w - keep)
    BY <2>1, <2>2, <2>3 DEF Wrap
  <2> QED BY <2>4 DEF n
<1> QED BY <1>2, <1>3

-----------------------------------------------------------------------------
(***************************************************************************)
(* What the pairs that wait are made of: the left halves of all of them    *)
(* are among the samples ok.  Unlike the sequence of pairs, this can be    *)
(* followed through positions that lie anywhere.                           *)
(***************************************************************************)
AllWaiting(d, r, w, ok) == \A i \in 0..(Waiting(r, w) - 1) : d[Slot(r + i)].l \in ok

LEMMA NoneWaiting ==
    ASSUME NEW d, NEW w \in Positions, NEW ok
    PROVE  AllWaiting(d, w, w, ok)
<1>1. Waiting(w, w) = 0
  BY WaitingIs, RingSizes DEF Positions
<1> QED BY <1>1 DEF AllWaiting

(* Stores of such samples keep it so, ...                                  *)
LEMMA AllStored ==
    ASSUME NEW d, NEW e, NEW r \in Positions, NEW w \in Positions, NEW ok, NEW more,
           AllWaiting(d, r, w, ok),
           \A j \in 0..(Capacity - 1) : d[j].l \in ok => e[j].l \in more
    PROVE  AllWaiting(e, r, w, more)
<1>1. ASSUME NEW i \in 0..(Waiting(r, w) - 1)
      PROVE  Slot(r + i) \in 0..(Capacity - 1)
  <2>1. r + i \in Int
    BY WaitingIs, RingSizes DEF Positions
  <2> QED BY <2>1, SlotIs
<1> QED BY <1>1 DEF AllWaiting

(* ... and so does the publication of one, even where the write position   *)
(* comes round to the read position, ...                                   *)
LEMMA AllPublished ==
    ASSUME NEW d, NEW r \in Positions, NEW w \in Positions, NEW ok,
           AllWaiting(d, r, w, ok), d[Slot(w)].l \in ok
    PROVE  AllWaiting(d, r, Wrap(w + 1), ok)
<1> DEFINE v == Wrap(w + 1)
           n == Waiting(r, w)
<1>1. /\ n \in Nat /\ r \in Int /\ w \in Int /\ Slot(r + n) = Slot(w) /\ Width \in Nat \ {0}
      /\ n = IF w >= r THEN w - r ELSE w - r + Width
  BY WaitingIs, RingSizes DEF Positions
<1>2. v = IF w = Width - 1 THEN 0 ELSE w + 1
  <2>1. w + 1 \in 0..Width
    BY <1>1 DEF Positions
  <2> QED BY <1>1, <2>1, WrapIs
<1>3. v \in Positions
  BY <1>1, <1>2 DEF Positions
<1> HIDE DEF v
<1>4. Waiting(r, v) = 0 \/ Waiting(r, v) = n + 1
  <2>1. Waiting(r, v) = IF v >= r THEN v - r ELSE v - r + Width
    BY <1>3, WaitingIs
  <2> QED BY <1>1, <1>2, <2>1 DEF Positions
<1> HIDE DEF n
<1>5. ASSUME NEW i \in 0..(Waiting(r, v) - 1)
      PROVE  d[Slot(r + i)].l \in ok
  <2>1. i = n \/ i \in 0..(n - 1)
    BY <1>1, <1>4
  <2> QED BY <1>1, <2>1 DEF AllWaiting, n
<1> QED BY <1>5 DEF AllWaiting, v

(* ... a read position further on, ...                                     *)
LEMMA AllForward ==
    ASSUME NEW d, NEW r \in Positions, NEW w \in Positions, NEW ok,
           AllWaiting(d, r, w, ok), NEW k \in 0..Waiting(r, w)
    PROVE  Wrap(r + k) \in Positions /\ AllWaiting(d, Wrap(r + k), w, ok)
<1>1. Waiting(r, w) \in Nat /\ r \in Int /\ k \in Nat /\ w \in Int
  BY WaitingIs, RingSizes DEF Positions
<1> DEFINE q == Wrap(r + k)
<1>2. q \in Positions
  BY <1>1, WrapIs
<1>3. Waiting(q, w) = Waiting(r, w) - k
  <2>1. PICK d0 : d0 \in Contents
    <3>1. [j \in 0..(Capacity - 1) |-> RampPair] \in Contents
      BY DEF Contents, Pair, Samples, RampPair
    <3> QED BY <3>1
  <2> QED BY <2>1, ForwardDrops
<1>4. \A i \in Int : Slot(q + i) = Slot((r + k) + i)
  BY <1>1, SlotOfAnyWrap
<1> HIDE DEF q
<1>5. ASSUME NEW i \in 0..(Waiting(q, w) - 1)
      PROVE  d[Slot(q + i)].l \in ok
  <2>1. k + i \in 0..(Waiting(r, w) - 1) /\ (r + k) + i = r + (k + i) /\ i \in Int
    BY <1>1, <1>3
  <2> QED BY <1>4, <2>1 DEF AllWaiting
<1> QED BY <1>2, <1>5 DEF AllWaiting, q

(* ... and one further back, behind as many of them, however many.         *)
LEMMA AllBack ==
    ASSUME NEW d, NEW r \in Positions, NEW w \in Positions, NEW ok, NEW pad \in Nat,
           AllWaiting(d, r, w, ok),
           \A i \in 0..(pad - 1) : d[Slot(r - pad + i)].l \in ok
    PROVE  Wrap(r - pad) \in Positions /\ AllWaiting(d, Wrap(r - pad), w, ok)
<1>1. Waiting(r, w) \in Nat /\ r \in Int /\ w \in Int /\ pad \in Int /\ Width \in Nat \ {0}
  BY WaitingIs, RingSizes DEF Positions
<1> DEFINE x == r - pad
           q == Wrap(x)
           n == Waiting(r, w)
           m == Waiting(q, w)
<1>2. x \in Int /\ q \in Positions
  BY <1>1, WrapIs
<1>3. \A i \in Int : Slot(q + i) = Slot(x + i)
  BY <1>2, SlotOfAnyWrap
<1>4. m \in Nat /\ m <= n + pad
  <2> DEFINE s == x \div Width
             t == (w - r) \div Width
  <2>1. x = s * Width + q /\ s \in Int /\ q \in Int
    BY <1>1, <1>2, Division DEF Wrap
  <2>2. w - r = t * Width + n /\ t \in Int /\ n \in Int
    BY <1>1, Division DEF Waiting, Wrap
  <2> HIDE DEF s, t, q, n
  <2>3. s * Width \in Int /\ t * Width \in Int /\ (t + s) * Width = t * Width + s * Width
    BY <1>1, <2>1, <2>2, Distribute
  <2>4. w - q = (n + pad) + (t + s) * Width
    <3>1. r - pad = s * Width + q
      BY <2>1
    <3> HIDE DEF x
    <3> QED BY <1>1, <2>1, <2>2, <2>3, <3>1
  <2>5. n + pad \in Nat /\ t + s \in Int
    BY <1>1, <2>1, <2>2 DEF n
  <2> DEFINE y == n + pad
             z == t + s
  <2>6. y \in Int /\ z \in Int /\ w - q = y + z * Width /\ y \in Nat
    BY <2>4, <2>5
  <2> HIDE DEF y, z
  <2>7. (w - q) % Width = y % Width
    BY <1>1, <2>6, ShiftRemainder
  <2>8. y % Width \in Nat /\ y % Width <= y
    BY <1>1, <2>6, RemainderSmall
  <2> QED BY <2>7, <2>8 DEF Waiting, Wrap, y
<1> HIDE DEF q, n, m
<1>5. ASSUME NEW i \in 0..(m - 1)
      PROVE  d[Slot(q + i)].l \in ok
  <2>1. CASE i < pad
    <3>1. i \in 0..(pad - 1) /\ i \in Int
      BY <1>1, <1>4, <2>1
    <3> QED BY <1>3, <3>1
  <2>2. CASE ~(i < pad)
    <3>1. i - pad \in 0..(n - 1) /\ x + i = r + (i - pad) /\ i \in Int
      BY <1>1, <1>4, <2>2 DEF n
    <3> QED BY <1>3, <3>1 DEF AllWaiting, n
  <2> QED BY <2>1, <2>2
<1> QED BY <1>2, <1>5 DEF AllWaiting, q, m

=============================================================================
