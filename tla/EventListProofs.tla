-------------------------- MODULE EventListProofs --------------------------
(***************************************************************************)
(* What the list operators of scheduler_t return, for lists of any length: *)
(* the facts about add_abs, add_after_first_event and delete_if_exist that *)
(* the proofs about Scheduler rest on.                                     *)
(***************************************************************************)
EXTENDS EventList, SequenceTheorems, FiniteSetTheorems, WellFoundedInduction, TLAPS

(* Two events of a list are never the same event.                          *)
UniqueIds(list) ==
    \A i, j \in 1..Len(list) : list[i].id = list[j].id => i = j

(* What is still to come is sorted by time; what is due may be anywhere    *)
(* in front of it.                                                         *)
FutureSorted(list, now) ==
    \A i, j \in 1..Len(list) :
        i < j /\ list[i].timecode > now => list[i].timecode <= list[j].timecode

(* Events that were linked in before they were due are sorted by time.     *)
OnTimeSorted(list) ==
    \A i, j \in 1..Len(list) :
        i < j /\ ~list[i].late /\ ~list[j].late
           => list[i].timecode <= list[j].timecode

-----------------------------------------------------------------------------
(* A nonempty set of indices has a least one.  The argument goes through   *)
(* the well-founded inclusion of the initial segments 1..k: the smallest   *)
(* segment ending in S ends in the minimum.                                *)
LEMMA MinProperty ==
    ASSUME NEW n \in Nat, NEW S \in SUBSET (1..n), S # {}
    PROVE  Min(S) \in S /\ \A x \in S : Min(S) <= x
<1> DEFINE T == {1..k : k \in S}
           R == StrictSubsetOrdering(1..n)
<1>1. IsFiniteSet(1..n)
  BY FS_Interval
<1>2. IsWellFoundedOn(R, SUBSET (1..n))
  BY <1>1, FS_StrictSubsetOrderingWellFounded, FS_FiniteSubsetsOfFinite
<1>3. T \subseteq SUBSET (1..n) /\ T # {}
  <2>1. \A k \in S : 1..k \subseteq 1..n
    OBVIOUS
  <2> QED BY <2>1
<1>4. PICK t \in T : \A y \in T : ~ (<<y, t>> \in R)
  <2> HIDE DEF T, R
  <2> QED BY <1>2, <1>3, WFMin
<1>5. PICK m \in S : t = 1..m
  BY <1>4
<1>6. ASSUME NEW x \in S, x < m
      PROVE  FALSE
  <2>1. 1..x \subseteq 1..m /\ 1..x # 1..m
    <3>1. m \in 1..m /\ m \notin 1..x
      BY <1>6
    <3> QED BY <1>6, <3>1
  <2>2. 1..x \in SUBSET (1..n) /\ 1..m \in SUBSET (1..n)
    BY <1>6
  <2>3. <<1..x, 1..m>> \in R
    BY <2>1, <2>2 DEF StrictSubsetOrdering
  <2>4. 1..x \in T
    BY <1>6
  <2> QED BY <1>4, <1>5, <2>3, <2>4
<1>7. \A x \in S : m <= x
  BY <1>6
<1> QED BY <1>7 DEF Min

(* Linking e in at place p keeps what is before p and shifts the rest.     *)
LEMMA InsertAtProperty ==
    ASSUME NEW S, NEW s \in Seq(S), NEW e \in S, NEW p \in 1..(Len(s) + 1)
    PROVE  /\ InsertAt(s, p, e) \in Seq(S)
           /\ Len(InsertAt(s, p, e)) = Len(s) + 1
           /\ \A j \in 1..(Len(s) + 1) :
                InsertAt(s, p, e)[j] =
                  IF j < p THEN s[j] ELSE IF j = p THEN e ELSE s[j - 1]
<1> DEFINE a == SubSeq(s, 1, p - 1)
           b == SubSeq(s, p, Len(s))
           c == a \o <<e>>
<1>1. a \in Seq(S) /\ Len(a) = p - 1 /\ \A i \in 1..(p - 1) : a[i] = s[i]
  OBVIOUS
<1>2. b \in Seq(S) /\ Len(b) = Len(s) - p + 1 /\ \A i \in 1..(Len(s) - p + 1) : b[i] = s[p + i - 1]
  OBVIOUS
<1>3. InsertAt(s, p, e) = c \o b
  BY DEF InsertAt
<1> HIDE DEF a, b
<1>4. c \in Seq(S) /\ Len(c) = p
  BY <1>1
<1>5. \A i \in 1..p : c[i] = IF i < p THEN s[i] ELSE e
  BY <1>1
<1> HIDE DEF c
<1>6. c \o b \in Seq(S) /\ Len(c \o b) = Len(s) + 1
  <2>1. c \o b \in Seq(S) /\ Len(c \o b) = Len(c) + Len(b)
    BY <1>2, <1>4, ConcatProperties
  <2> QED BY <1>2, <1>4, <2>1
<1>7. ASSUME NEW j \in 1..(Len(s) + 1)
      PROVE  (c \o b)[j] = IF j < p THEN s[j] ELSE IF j = p THEN e ELSE s[j - 1]
  <2>1. CASE j <= p
    <3>1. (c \o b)[j] = c[j]
      BY <1>2, <1>4, <2>1
    <3> QED BY <1>5, <2>1, <3>1
  <2>2. CASE j > p
    <3>1. (c \o b)[j] = b[j - p]
      BY <1>2, <1>4, <2>2
    <3>2. j - p \in 1..(Len(s) - p + 1)
      BY <2>2
    <3>3. b[j - p] = s[p + (j - p) - 1]
      BY <1>2, <3>2
    <3> QED BY <2>2, <3>1, <3>3
  <2>3. j <= p \/ j > p
    OBVIOUS
  <2> QED BY <2>1, <2>2, <2>3, Zenon
<1> QED BY <1>3, <1>6, <1>7

(* Unlinking place p closes the gap.                                       *)
LEMMA RemoveAtProperty ==
    ASSUME NEW S, NEW s \in Seq(S), NEW p \in 1..Len(s)
    PROVE  /\ RemoveAt(s, p) \in Seq(S)
           /\ Len(RemoveAt(s, p)) = Len(s) - 1
           /\ \A j \in 1..(Len(s) - 1) :
                RemoveAt(s, p)[j] = IF j < p THEN s[j] ELSE s[j + 1]
<1> DEFINE a == SubSeq(s, 1, p - 1)
           b == SubSeq(s, p + 1, Len(s))
<1>1. a \in Seq(S) /\ Len(a) = p - 1 /\ \A i \in 1..(p - 1) : a[i] = s[i]
  OBVIOUS
<1>2. b \in Seq(S) /\ Len(b) = Len(s) - p /\ \A i \in 1..(Len(s) - p) : b[i] = s[p + i]
  OBVIOUS
<1>3. RemoveAt(s, p) = a \o b
  BY DEF RemoveAt
<1> HIDE DEF a, b
<1>4. a \o b \in Seq(S) /\ Len(a \o b) = Len(s) - 1
  <2>1. a \o b \in Seq(S) /\ Len(a \o b) = Len(a) + Len(b)
    BY <1>1, <1>2, ConcatProperties
  <2> QED BY <1>1, <1>2, <2>1
<1>5. ASSUME NEW j \in 1..(Len(s) - 1)
      PROVE  (a \o b)[j] = IF j < p THEN s[j] ELSE s[j + 1]
  <2>1. CASE j < p
    BY <1>1, <1>2, <2>1
  <2>2. CASE j >= p
    <3>1. (a \o b)[j] = b[j - (p - 1)]
      BY <1>1, <1>2, <2>2
    <3>2. j - (p - 1) \in 1..(Len(s) - p)
      BY <2>2
    <3>3. b[j - (p - 1)] = s[p + (j - (p - 1))]
      BY <1>2, <3>2
    <3> QED BY <2>2, <3>1, <3>3
  <2>3. j < p \/ j >= p
    OBVIOUS
  <2> QED BY <2>1, <2>2, <2>3, Zenon
<1> QED BY <1>3, <1>4, <1>5

-----------------------------------------------------------------------------
(* Linking in adds exactly one element, unlinking takes exactly one away.  *)
LEMMA InsertAtToSet ==
    ASSUME NEW S, NEW s \in Seq(S), NEW e \in S, NEW p \in 1..(Len(s) + 1)
    PROVE  ToSet(InsertAt(s, p, e)) = ToSet(s) \cup {e}
<1> DEFINE r == InsertAt(s, p, e)
<1>1. /\ r \in Seq(S) /\ Len(r) = Len(s) + 1
      /\ \A j \in 1..(Len(s) + 1) :
            r[j] = IF j < p THEN s[j] ELSE IF j = p THEN e ELSE s[j - 1]
  BY InsertAtProperty
<1> HIDE DEF r
<1>2. ASSUME NEW j \in 1..Len(r)
      PROVE  r[j] \in ToSet(s) \cup {e}
  <2>1. j \in 1..(Len(s) + 1)
    BY <1>1
  <2>2. CASE j < p
    <3>1. r[j] = s[j] /\ j \in 1..Len(s)
      BY <1>1, <2>1, <2>2
    <3> QED BY <3>1 DEF ToSet
  <2>3. CASE j = p
    BY <1>1, <2>1, <2>3
  <2>4. CASE j > p
    <3>1. r[j] = s[j - 1] /\ j - 1 \in 1..Len(s)
      BY <1>1, <2>1, <2>4
    <3> QED BY <3>1 DEF ToSet
  <2> QED BY <2>1, <2>2, <2>3, <2>4
<1>3. ASSUME NEW i \in 1..Len(s)
      PROVE  s[i] \in ToSet(r)
  <2>1. CASE i < p
    BY <1>1, <2>1 DEF ToSet
  <2>2. CASE i >= p
    <3>1. i + 1 \in 1..Len(r) /\ r[i + 1] = s[i]
      BY <1>1, <2>2
    <3> QED BY <3>1 DEF ToSet
  <2> QED BY <2>1, <2>2
<1>4. e \in ToSet(r)
  BY <1>1 DEF ToSet
<1>5. ToSet(r) = ToSet(s) \cup {e}
  BY <1>2, <1>3, <1>4 DEF ToSet
<1> QED BY <1>5 DEF r

LEMMA RemoveAtToSet ==
    ASSUME NEW S, NEW s \in Seq(S), NEW p \in 1..Len(s), UniqueIds(s)
    PROVE  ToSet(RemoveAt(s, p)) = {x \in ToSet(s) : x.id # s[p].id}
<1> DEFINE r == RemoveAt(s, p)
<1>1. /\ r \in Seq(S) /\ Len(r) = Len(s) - 1
      /\ \A j \in 1..(Len(s) - 1) : r[j] = IF j < p THEN s[j] ELSE s[j + 1]
  BY RemoveAtProperty
<1> HIDE DEF r
<1>2. ASSUME NEW j \in 1..Len(r)
      PROVE  r[j] \in ToSet(s) /\ r[j].id # s[p].id
  <2>1. PICK k \in 1..Len(s) : k # p /\ r[j] = s[k]
    <3>1. CASE j < p
      BY <1>1, <3>1
    <3>2. CASE j >= p
      <4>1. j + 1 \in 1..Len(s) /\ j + 1 # p /\ r[j] = s[j + 1]
        BY <1>1, <3>2
      <4> QED BY <4>1
    <3> QED BY <3>1, <3>2
  <2> QED BY <2>1 DEF ToSet, UniqueIds
<1>3. ASSUME NEW i \in 1..Len(s), s[i].id # s[p].id
      PROVE  s[i] \in ToSet(r)
  <2>1. i # p
    BY <1>3
  <2>2. CASE i < p
    BY <1>1, <2>2 DEF ToSet
  <2>3. CASE i > p
    <3>1. i - 1 \in 1..Len(r) /\ r[i - 1] = s[i]
      BY <1>1, <2>3
    <3> QED BY <3>1 DEF ToSet
  <2> QED BY <2>1, <2>2, <2>3
<1>4. ToSet(r) = {x \in ToSet(s) : x.id # s[p].id}
  BY <1>2, <1>3 DEF ToSet
<1> QED BY <1>4 DEF r

(* Unlinking keeps ids apart and the order of what is left.                *)
LEMMA RemoveAtKeeps ==
    ASSUME NEW S, NEW s \in Seq(S), NEW p \in 1..Len(s), NEW now
    PROVE  /\ UniqueIds(s) => UniqueIds(RemoveAt(s, p))
           /\ FutureSorted(s, now) => FutureSorted(RemoveAt(s, p), now)
           /\ OnTimeSorted(s) => OnTimeSorted(RemoveAt(s, p))
<1> DEFINE r == RemoveAt(s, p)
           At(j) == IF j < p THEN j ELSE j + 1
<1>1. /\ Len(r) = Len(s) - 1
      /\ \A j \in 1..(Len(s) - 1) : r[j] = IF j < p THEN s[j] ELSE s[j + 1]
  BY RemoveAtProperty
<1> HIDE DEF r
<1>2. ASSUME NEW j \in 1..Len(r)
      PROVE  At(j) \in 1..Len(s) /\ r[j] = s[At(j)]
  BY <1>1
<1>3. ASSUME NEW i \in 1..Len(r), NEW j \in 1..Len(r)
      PROVE  (i < j => At(i) < At(j)) /\ (At(i) = At(j) => i = j)
  BY <1>1
<1> HIDE DEF At
<1>4. UniqueIds(s) => UniqueIds(r)
  BY <1>2, <1>3 DEF UniqueIds
<1>5. FutureSorted(s, now) => FutureSorted(r, now)
  BY <1>2, <1>3 DEF FutureSorted
<1>6. OnTimeSorted(s) => OnTimeSorted(r)
  BY <1>2, <1>3 DEF OnTimeSorted
<1> QED BY <1>4, <1>5, <1>6 DEF r

(* Linking in keeps ids apart if the new id is fresh.                      *)
LEMMA InsertAtKeepsIds ==
    ASSUME NEW S, NEW s \in Seq(S), NEW e \in S, NEW p \in 1..(Len(s) + 1),
           UniqueIds(s), \A i \in 1..Len(s) : s[i].id # e.id
    PROVE  UniqueIds(InsertAt(s, p, e))
<1> DEFINE r == InsertAt(s, p, e)
           At(j) == IF j < p THEN j ELSE j - 1
<1>1. /\ Len(r) = Len(s) + 1
      /\ \A j \in 1..(Len(s) + 1) :
            r[j] = IF j < p THEN s[j] ELSE IF j = p THEN e ELSE s[j - 1]
  BY InsertAtProperty
<1> HIDE DEF r
<1>2. ASSUME NEW j \in 1..Len(r)
      PROVE  IF j = p THEN r[j] = e ELSE At(j) \in 1..Len(s) /\ r[j] = s[At(j)]
  BY <1>1
<1>3. ASSUME NEW i \in 1..Len(r), NEW j \in 1..Len(r), i # p, j # p, At(i) = At(j)
      PROVE  i = j
  BY <1>1, <1>3
<1> HIDE DEF At
<1>4. UniqueIds(r)
  BY <1>2, <1>3 DEF UniqueIds
<1> QED BY <1>4 DEF r

(* Linking in keeps the order if the new event fits where it is put.       *)
LEMMA InsertAtKeepsOrder ==
    ASSUME NEW S, NEW s \in Seq(S), NEW e \in S, NEW p \in 1..(Len(s) + 1), NEW now \in Nat
    PROVE  /\ /\ FutureSorted(s, now)
              /\ \A i \in 1..(p - 1) : s[i].timecode > now => s[i].timecode <= e.timecode
              /\ e.timecode > now => \A i \in p..Len(s) : e.timecode <= s[i].timecode
              => FutureSorted(InsertAt(s, p, e), now)
           /\ /\ OnTimeSorted(s)
              /\ ~e.late => \A i \in 1..(p - 1) : ~s[i].late => s[i].timecode <= e.timecode
              /\ ~e.late => \A i \in p..Len(s) : ~s[i].late => e.timecode <= s[i].timecode
              => OnTimeSorted(InsertAt(s, p, e))
<1> DEFINE r == InsertAt(s, p, e)
           At(j) == IF j < p THEN j ELSE j - 1
<1>1. /\ r \in Seq(S) /\ Len(r) = Len(s) + 1
      /\ \A j \in 1..(Len(s) + 1) :
            r[j] = IF j < p THEN s[j] ELSE IF j = p THEN e ELSE s[j - 1]
  <2> HIDE DEF At
  <2>1. r \in Seq(S) /\ Len(r) = Len(s) + 1
    BY InsertAtProperty
  <2>2. ASSUME NEW j \in 1..(Len(s) + 1)
        PROVE  r[j] = IF j < p THEN s[j] ELSE IF j = p THEN e ELSE s[j - 1]
    BY InsertAtProperty
  <2> QED BY <2>1, <2>2
<1> HIDE DEF r
<1>2. ASSUME NEW j \in 1..Len(r)
      PROVE  /\ j = p => r[j] = e
             /\ j < p => At(j) \in 1..(p - 1) /\ At(j) \in 1..Len(s) /\ r[j] = s[At(j)]
             /\ j > p => At(j) \in p..Len(s) /\ At(j) \in 1..Len(s) /\ r[j] = s[At(j)]
  BY <1>1
<1>3. ASSUME NEW i \in 1..Len(r), NEW j \in 1..Len(r), i < j, i # p, j # p
      PROVE  At(i) < At(j)
  BY <1>1, <1>3
<1>4. \A i \in 1..Len(r) : i = p \/ i < p \/ i > p
  OBVIOUS
<1> HIDE DEF At
<1>5. ASSUME FutureSorted(s, now),
             \A i \in 1..(p - 1) : s[i].timecode > now => s[i].timecode <= e.timecode,
             e.timecode > now => \A i \in p..Len(s) : e.timecode <= s[i].timecode,
             NEW i \in 1..Len(r), NEW j \in 1..Len(r), i < j, r[i].timecode > now
      PROVE  r[i].timecode <= r[j].timecode
  <2>1. CASE i = p
    BY <1>2, <1>5, <2>1
  <2>2. CASE j = p
    BY <1>2, <1>5, <2>2
  <2>3. CASE i # p /\ j # p
    BY <1>2, <1>3, <1>4, <1>5, <2>3 DEF FutureSorted
  <2> QED BY <2>1, <2>2, <2>3
<1>6. ASSUME OnTimeSorted(s),
             ~e.late => \A i \in 1..(p - 1) : ~s[i].late => s[i].timecode <= e.timecode,
             ~e.late => \A i \in p..Len(s) : ~s[i].late => e.timecode <= s[i].timecode,
             NEW i \in 1..Len(r), NEW j \in 1..Len(r), i < j, ~r[i].late, ~r[j].late
      PROVE  r[i].timecode <= r[j].timecode
  <2>1. CASE i = p
    BY <1>2, <1>6, <2>1
  <2>2. CASE j = p
    BY <1>2, <1>6, <2>2
  <2>3. CASE i # p /\ j # p
    BY <1>2, <1>3, <1>4, <1>6, <2>3 DEF OnTimeSorted
  <2> QED BY <2>1, <2>2, <2>3
<1> QED BY <1>5, <1>6 DEF r, FutureSorted, OnTimeSorted

-----------------------------------------------------------------------------
(* Events that carry a time.                                               *)
Timed(S) == \A x \in S : x.timecode \in Nat

LEMMA TimeOf ==
    ASSUME NEW S, Timed(S), NEW s \in Seq(S), NEW i \in 1..Len(s)
    PROVE  s[i].timecode \in Nat
<1>1. s[i] \in S
  OBVIOUS
<1> QED BY <1>1 DEF Timed

LEMMA Several ==
    ASSUME NEW S, NEW s \in Seq(S), Len(s) > 1
    PROVE  Len(s) # 0 /\ Len(s) # 1
<1> DEFINE n == Len(s)
<1>1. n \in Nat /\ n > 1
  OBVIOUS
<1> HIDE DEF n
<1>2. n # 0 /\ n # 1
  BY <1>1
<1> QED BY <1>2 DEF n

LEMMA NotEmpty ==
    ASSUME NEW S, NEW s \in Seq(S), Len(s) # 0
    PROVE  s # <<>>
BY EmptySeq

(* add_abs's walk stops inside the list, behind everything that is due     *)
(* before the new event or with it.                                        *)
LEMMA WalkStopProperty ==
    ASSUME NEW S, NEW list \in Seq(S), list # <<>>, NEW timecode \in Nat,
           Timed(S)
    PROVE  LET w == WalkStop(list, timecode) IN
           /\ w \in 1..Len(list)
           /\ w = Len(list) \/ list[w + 1].timecode > timecode
           /\ \A i \in 2..w : list[i].timecode <= timecode
<1> DEFINE Q == {i \in 1..Len(list) : i = Len(list) \/ list[i + 1].timecode > timecode}
           w == Min(Q)
<1>1. Len(list) \in Nat /\ Len(list) \in Q
  OBVIOUS
<1>2. w \in Q /\ \A x \in Q : w <= x
  <2>1. Q \in SUBSET (1..Len(list)) /\ Q # {}
    BY <1>1
  <2> HIDE DEF Q
  <2> QED BY <1>1, <2>1, MinProperty
<1> HIDE DEF w
<1>3. w \in 1..Len(list) /\ (w = Len(list) \/ list[w + 1].timecode > timecode)
  BY <1>2
<1>4. ASSUME NEW i \in 2..w
      PROVE  list[i].timecode <= timecode
  <2>1. i - 1 \in 1..Len(list) /\ i \in 1..Len(list) /\ i - 1 < w
    BY <1>3
  <2>2. i - 1 \notin Q
    <3> HIDE DEF Q
    <3> QED BY <1>2, <1>3, <2>1
  <2>3. ~(list[(i - 1) + 1].timecode > timecode)
    BY <2>1, <2>2
  <2>4. list[i].timecode \in Nat
    BY <2>1, TimeOf
  <2> QED BY <2>3, <2>4
<1> QED BY <1>3, <1>4 DEF w, WalkStop

(* The place of a new event is in the list; if the event is still to come, *)
(* nothing in front of it is due later and nothing behind it earlier.      *)
LEMMA PlaceOfProperty ==
    ASSUME NEW S, NEW list \in Seq(S), NEW timecode \in Nat, NEW now \in Nat,
           Timed(S)
    PROVE  LET p == PlaceOf(list, timecode, now) IN
           /\ p \in 1..(Len(list) + 1)
           /\ IsDue(timecode, now) => p = 1
           /\ FutureSorted(list, now) /\ ~IsDue(timecode, now) =>
                 /\ \A i \in 1..(p - 1) : list[i].timecode <= timecode
                 /\ \A i \in p..Len(list) : timecode <= list[i].timecode
<1> DEFINE p == PlaceOf(list, timecode, now)
<1>0. SUFFICES /\ p \in 1..(Len(list) + 1)
               /\ IsDue(timecode, now) => p = 1
               /\ FutureSorted(list, now) /\ ~IsDue(timecode, now) =>
                     /\ \A i \in 1..(p - 1) : list[i].timecode <= timecode
                     /\ \A i \in p..Len(list) : timecode <= list[i].timecode
  OBVIOUS
<1>1. CASE IsDue(timecode, now) \/ list = <<>>
  <2>1. p = 1
    BY <1>1 DEF PlaceOf
  <2> QED BY <1>1, <2>1
<1>2. CASE ~IsDue(timecode, now) /\ Len(list) = 1
  <2>1. list # <<>>
    <3>1. Len(list) # 0
      BY <1>2
    <3> QED BY <3>1, NotEmpty, Zenon
  <2>2. p = IF timecode <= list[1].timecode THEN 1 ELSE 2
    BY <1>2, <2>1, Zenon DEF PlaceOf
  <2>3. list[1].timecode \in Nat
    BY <1>2, TimeOf
  <2> HIDE DEF p
  <2>4. CASE timecode <= list[1].timecode
    BY <1>2, <2>2, <2>4
  <2>5. CASE ~(timecode <= list[1].timecode)
    BY <1>2, <2>2, <2>3, <2>5
  <2> QED BY <2>4, <2>5
<1>3. CASE ~IsDue(timecode, now) /\ Len(list) > 1 /\ list[1].timecode > timecode
  <2>1. p = 1
    <3>1. Len(list) # 0 /\ Len(list) # 1
      BY <1>3, Several, Zenon
    <3>2. list # <<>>
      BY <3>1, NotEmpty, Zenon
    <3> QED BY <1>3, <3>1, <3>2, Zenon DEF PlaceOf
  <2>2. timecode > now
    BY <1>3 DEF IsDue
  <2>3. ASSUME FutureSorted(list, now), NEW i \in 1..Len(list)
        PROVE  timecode <= list[i].timecode
    <3>1. list[1].timecode \in Nat /\ list[i].timecode \in Nat
      BY <1>3, TimeOf
    <3>2. CASE i = 1
      BY <1>3, <3>1, <3>2
    <3>3. CASE i > 1
      <4>1. list[1].timecode <= list[i].timecode
        BY <1>3, <2>2, <2>3, <3>1, <3>3 DEF FutureSorted
      <4> QED BY <1>3, <3>1, <4>1
    <3> QED BY <3>2, <3>3
  <2> QED BY <1>3, <2>1, <2>3
<1>4. CASE ~IsDue(timecode, now) /\ Len(list) > 1 /\ ~(list[1].timecode > timecode)
  <2> DEFINE w == WalkStop(list, timecode)
  <2>1. p = w + 1
    <3>1. Len(list) # 0 /\ Len(list) # 1
      BY <1>4, Several, Zenon
    <3>2. list # <<>>
      BY <3>1, NotEmpty, Zenon
    <3>3. WalkStop(list, timecode) = w
      BY DEF w
    <3> QED BY <1>4, <3>1, <3>2, <3>3, Zenon DEF PlaceOf
  <2>2. /\ w \in 1..Len(list)
        /\ w = Len(list) \/ list[w + 1].timecode > timecode
        /\ \A i \in 2..w : list[i].timecode <= timecode
    BY <1>4, WalkStopProperty
  <2> HIDE DEF p, w
  <2>3. timecode > now
    BY <1>4 DEF IsDue
  <2>4. \A i \in 1..Len(list) : list[i].timecode \in Nat
    BY TimeOf
  <2>5. \A i \in 1..(p - 1) : list[i].timecode <= timecode
    <3>1. ASSUME NEW i \in 1..(p - 1)
          PROVE  list[i].timecode <= timecode
      <4>1. CASE i = 1
        BY <1>4, <2>4, <4>1
      <4>2. CASE i > 1
        BY <2>1, <2>2, <4>2
      <4> QED BY <4>1, <4>2
    <3> QED BY <3>1
  <2>6. ASSUME FutureSorted(list, now), NEW i \in p..Len(list)
        PROVE  timecode <= list[i].timecode
    <3>1. w + 1 \in 1..Len(list) /\ list[w + 1].timecode > timecode
      BY <2>1, <2>2, <2>6
    <3>2. CASE i = w + 1
      BY <2>4, <3>1, <3>2
    <3>3. CASE i > w + 1
      <4>1. i \in 1..Len(list)
        BY <2>1, <2>2, <2>6
      <4>2. list[w + 1].timecode > now
        BY <2>3, <2>4, <3>1
      <4>3. list[w + 1].timecode <= list[i].timecode
        BY <2>6, <3>1, <3>3, <4>1, <4>2 DEF FutureSorted
      <4> QED BY <2>4, <3>1, <4>1, <4>3
    <3> QED BY <2>1, <2>2, <3>2, <3>3
  <2> QED BY <1>4, <2>1, <2>2, <2>5, <2>6 DEF p
<1>5. list = <<>> \/ Len(list) = 1 \/ Len(list) > 1
  <2> DEFINE n == Len(list)
  <2>1. n \in Nat
    OBVIOUS
  <2> HIDE DEF n
  <2>2. n = 0 \/ n = 1 \/ n > 1
    BY <2>1
  <2> QED BY <2>2, EmptySeq, Zenon DEF n
<1> QED BY <1>1, <1>2, <1>3, <1>4, <1>5, Zenon

(* add_abs of an event with a fresh id.                                    *)
LEMMA AddAbsProperty ==
    ASSUME NEW S, NEW list \in Seq(S), NEW e \in S, NEW now \in Nat,
           Timed(S)
    PROVE  /\ AddAbs(list, e, now) \in Seq(S)
           /\ Len(AddAbs(list, e, now)) = Len(list) + 1
           /\ ToSet(AddAbs(list, e, now)) = ToSet(list) \cup {e}
           /\ UniqueIds(list) /\ (\A x \in ToSet(list) : x.id # e.id)
                 => UniqueIds(AddAbs(list, e, now))
           /\ FutureSorted(list, now) => FutureSorted(AddAbs(list, e, now), now)
           /\ /\ FutureSorted(list, now) /\ OnTimeSorted(list)
              /\ e.late = IsDue(e.timecode, now)
              => OnTimeSorted(AddAbs(list, e, now))
<1> DEFINE p == PlaceOf(list, e.timecode, now)
<1>1. e.timecode \in Nat /\ Len(list) \in Nat
  BY DEF Timed
<1>2. /\ p \in 1..(Len(list) + 1)
      /\ IsDue(e.timecode, now) => p = 1
      /\ FutureSorted(list, now) /\ ~IsDue(e.timecode, now) =>
            /\ \A i \in 1..(p - 1) : list[i].timecode <= e.timecode
            /\ \A i \in p..Len(list) : e.timecode <= list[i].timecode
  BY <1>1, PlaceOfProperty
<1> HIDE DEF p
<1>3. AddAbs(list, e, now) = InsertAt(list, p, e)
  BY DEF AddAbs, p
<1>4. UniqueIds(list) /\ (\A x \in ToSet(list) : x.id # e.id)
         => UniqueIds(InsertAt(list, p, e))
  <2>1. ASSUME \A x \in ToSet(list) : x.id # e.id
        PROVE  \A i \in 1..Len(list) : list[i].id # e.id
    BY <2>1 DEF ToSet
  <2> QED BY <1>2, <2>1, InsertAtKeepsIds
<1>5. FutureSorted(list, now) => FutureSorted(InsertAt(list, p, e), now)
  <2>1. CASE IsDue(e.timecode, now)
    <3>1. ~(e.timecode > now)
      BY <1>1, <2>1 DEF IsDue
    <3> QED BY <1>2, <2>1, <3>1, InsertAtKeepsOrder
  <2>2. CASE ~IsDue(e.timecode, now)
    BY <1>2, <2>2, InsertAtKeepsOrder
  <2> QED BY <2>1, <2>2
<1>6. FutureSorted(list, now) /\ OnTimeSorted(list) /\ e.late = IsDue(e.timecode, now)
         => OnTimeSorted(InsertAt(list, p, e))
  <2>1. CASE IsDue(e.timecode, now) /\ e.late
    BY <1>2, <2>1, InsertAtKeepsOrder
  <2>2. CASE ~IsDue(e.timecode, now)
    BY <1>2, <2>2, InsertAtKeepsOrder
  <2> QED BY <2>1, <2>2
<1> QED BY <1>2, <1>3, <1>4, <1>5, <1>6, InsertAtProperty, InsertAtToSet

(* add_after_first_event: the events up to TieStop share first's time.     *)
LEMMA TieStopProperty ==
    ASSUME NEW S, NEW list \in Seq(S), list # <<>>
    PROVE  /\ TieStop(list) \in 1..Len(list)
           /\ \A i \in 1..TieStop(list) : list[i].timecode = list[1].timecode
<1> DEFINE Q == {i \in 1..Len(list) : i = Len(list) \/ list[i + 1].timecode # list[1].timecode}
           w == Min(Q)
<1>1. Len(list) \in Nat /\ Len(list) \in Q
  OBVIOUS
<1>2. w \in Q /\ \A x \in Q : w <= x
  <2>1. Q \in SUBSET (1..Len(list)) /\ Q # {}
    BY <1>1
  <2> HIDE DEF Q
  <2> QED BY <1>1, <2>1, MinProperty
<1> HIDE DEF w
<1>3. ASSUME NEW i \in 1..w
      PROVE  list[i].timecode = list[1].timecode
  <2>1. CASE i = 1
    BY <2>1
  <2>2. CASE i > 1
    <3>1. i - 1 \in 1..Len(list) /\ i - 1 < w
      BY <1>2, <2>2
    <3>2. i - 1 \notin Q
      <4>1. w \in 1..Len(list)
        BY <1>2
      <4> HIDE DEF Q
      <4> QED BY <1>2, <3>1, <4>1
    <3> QED BY <3>1, <3>2
  <2> QED BY <2>1, <2>2
<1> QED BY <1>2, <1>3 DEF w, TieStop

(* delete_if_exist: with the ids apart it removes the one event with that  *)
(* id, whose place is one entry of the list, and nothing else.             *)
LEMMA DeleteIfExistProperty ==
    ASSUME NEW S, NEW list \in Seq(S), NEW id \in Nat, NEW now \in Nat,
           UniqueIds(list), \A x \in ToSet(list) : x.id # 0
    PROVE  LET r == DeleteIfExist(list, id) IN
           /\ r \in Seq(S)
           /\ Len(r) = Len(list) - (IF HasId(list, id) THEN 1 ELSE 0)
           /\ ToSet(r) = {x \in ToSet(list) : x.id # id}
           /\ UniqueIds(r)
           /\ FutureSorted(list, now) => FutureSorted(r, now)
           /\ OnTimeSorted(list) => OnTimeSorted(r)
<1>1. CASE HasId(list, id)
  <2> DEFINE Q == {i \in 1..Len(list) : list[i].id = id}
             p == Min(Q)
  <2>1. Q \in SUBSET (1..Len(list)) /\ Q # {} /\ Len(list) \in Nat
    BY <1>1 DEF HasId, ToSet
  <2>2. p \in Q
    <3> HIDE DEF Q
    <3> QED BY <2>1, MinProperty
  <2> HIDE DEF p
  <2>3. p \in 1..Len(list) /\ list[p].id = id
    BY <2>2
  <2>4. id # 0
    BY <1>1 DEF HasId
  <2>5. DeleteIfExist(list, id) = RemoveAt(list, p)
    BY <1>1, <2>4 DEF DeleteIfExist, IndexOfId, p
  <2> DEFINE r == RemoveAt(list, p)
  <2>6. r \in Seq(S) /\ Len(r) = Len(list) - 1
    BY <2>3, RemoveAtProperty
  <2>7. ToSet(r) = {x \in ToSet(list) : x.id # id}
    BY <2>3, RemoveAtToSet
  <2>8. /\ UniqueIds(r)
        /\ FutureSorted(list, now) => FutureSorted(r, now)
        /\ OnTimeSorted(list) => OnTimeSorted(r)
    BY <2>3, RemoveAtKeeps
  <2> HIDE DEF r
  <2>9. DeleteIfExist(list, id) = r
    BY <2>5 DEF r
  <2> QED BY <1>1, <2>6, <2>7, <2>8, <2>9
<1>2. CASE ~HasId(list, id)
  <2>1. DeleteIfExist(list, id) = list
    BY <1>2 DEF DeleteIfExist
  <2>2. ToSet(list) = {x \in ToSet(list) : x.id # id}
    BY <1>2 DEF HasId
  <2> QED BY <1>2, <2>1, <2>2
<1> QED BY <1>1, <1>2

(* Taking first_event off the list.                                        *)
LEMMA TailProperty ==
    ASSUME NEW S, NEW list \in Seq(S), list # <<>>, UniqueIds(list), NEW now
    PROVE  /\ Head(list) = list[1] /\ Head(list) \in ToSet(list)
           /\ Tail(list) \in Seq(S) /\ Len(Tail(list)) = Len(list) - 1
           /\ ToSet(Tail(list)) = {x \in ToSet(list) : x.id # Head(list).id}
           /\ UniqueIds(Tail(list))
           /\ FutureSorted(list, now) => FutureSorted(Tail(list), now)
           /\ OnTimeSorted(list) => OnTimeSorted(Tail(list))
<1>1. 1 \in 1..Len(list) /\ Head(list) = list[1]
  OBVIOUS
<1>2. Tail(list) = RemoveAt(list, 1)
  <2>1. RemoveAt(list, 1) \in Seq(S) /\ Len(RemoveAt(list, 1)) = Len(list) - 1
        /\ \A j \in 1..(Len(list) - 1) : RemoveAt(list, 1)[j] = list[j + 1]
    BY <1>1, RemoveAtProperty
  <2>2. Tail(list) \in Seq(S) /\ Len(Tail(list)) = Len(list) - 1
        /\ \A j \in 1..(Len(list) - 1) : Tail(list)[j] = list[j + 1]
    OBVIOUS
  <2> QED BY <2>1, <2>2, SeqEqual
<1>3. Head(list) \in ToSet(list)
  BY <1>1 DEF ToSet
<1> DEFINE r == RemoveAt(list, 1)
<1>4. r \in Seq(S) /\ Len(r) = Len(list) - 1
  BY <1>1, RemoveAtProperty
<1>5. ToSet(r) = {x \in ToSet(list) : x.id # list[1].id}
  BY <1>1, RemoveAtToSet
<1>6. /\ UniqueIds(r)
      /\ FutureSorted(list, now) => FutureSorted(r, now)
      /\ OnTimeSorted(list) => OnTimeSorted(r)
  BY <1>1, RemoveAtKeeps
<1> HIDE DEF r
<1>7. Tail(list) = r
  BY <1>2 DEF r
<1> QED BY <1>1, <1>3, <1>4, <1>5, <1>6, <1>7
=============================================================================
