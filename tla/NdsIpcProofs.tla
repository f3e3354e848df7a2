---------------------------- MODULE NdsIpcProofs ----------------------------
(***************************************************************************)
(* NdsIpc's properties, proved for FIFOs of any depth and any words.       *)
(***************************************************************************)
EXTENDS NdsIpc, SequenceTheorems, TLAPS

Fifos == [data : [0..(Depth - 1) -> Words \cup {Nothing}],
          head : 0..(Depth - 1), tail : 0..(Depth - 1),
          len : 0..Depth, last : Words \cup {Nothing}]

\* The write index is where the words end.
Sound(f) == f.tail = (f.head + f.len) % Depth

(* The inductive invariant.                                                *)
IInv == TypeOK /\ Sound(fifo)

-----------------------------------------------------------------------------
(***************************************************************************)
(* Indices.                                                                *)
(***************************************************************************)
LEMMA SlotIs ==
    ASSUME NEW i \in 0..(2 * Depth - 1)
    PROVE  i % Depth = IF i < Depth THEN i ELSE i - Depth
<1>1. Depth \in Nat \ {0}
  BY LinkAssumption
<1>2. CASE i < Depth
  <2>1. i \in 0..(Depth - 1)
    BY <1>1, <1>2
  <2>2. i % Depth = i
    BY <1>1, <2>1
  <2> QED BY <1>2, <2>2
<1>3. CASE ~(i < Depth)
  <2>1. i \in Depth..(2 * Depth - 1)
    BY <1>1, <1>3
  <2>2. i % Depth = i - Depth
    BY <1>1, <2>1
  <2> QED BY <1>3, <2>2
<1> QED BY <1>2, <1>3

LEMMA SlotOfSum ==
    ASSUME NEW h \in 0..(Depth - 1), NEW n \in 0..Depth
    PROVE  (h + n) % Depth = IF h + n < Depth THEN h + n ELSE h + n - Depth
<1>1. h + n \in 0..(2 * Depth - 1) /\ h \in Int /\ n \in Int /\ Depth \in Nat \ {0}
  BY LinkAssumption
<1> QED BY <1>1, SlotIs

LEMMA SlotBehind ==
    ASSUME NEW h \in 0..(Depth - 1), NEW i \in 1..Depth
    PROVE  (h + i - 1) % Depth = IF h + i - 1 < Depth THEN h + i - 1 ELSE h + i - 1 - Depth
<1>1. h + i - 1 \in 0..(2 * Depth - 1) /\ h \in Int /\ i \in Int /\ Depth \in Nat \ {0}
  BY LinkAssumption
<1> QED BY <1>1, SlotIs

LEMMA FollowingIs ==
    ASSUME NEW i \in 0..(Depth - 1)
    PROVE  /\ Following(i) = IF i = Depth - 1 THEN 0 ELSE i + 1
           /\ Following(i) \in 0..(Depth - 1)
<1>1. i + 1 \in 0..(2 * Depth - 1) /\ i \in Nat /\ Depth \in Nat \ {0}
  BY LinkAssumption
<1>2. (i + 1) % Depth = IF i + 1 < Depth THEN i + 1 ELSE i + 1 - Depth
  BY <1>1, SlotIs
<1> QED BY <1>1, <1>2 DEF Following

-----------------------------------------------------------------------------
(***************************************************************************)
(* What each operation of IPC_FIFO does to the words that wait.            *)
(***************************************************************************)
LEMMA StartIs ==
    /\ Start \in Fifos /\ Sound(Start)
    /\ Start.len = 0 /\ Start.last = Nothing
<1>1. Depth \in Nat \ {0} /\ 0 \in 0..(Depth - 1) /\ 0 \in 0..Depth
  BY LinkAssumption
<1>2. [i \in 0..(Depth - 1) |-> Nothing] \in [0..(Depth - 1) -> Words \cup {Nothing}]
  OBVIOUS
<1>3. 0 % Depth = 0
  BY <1>1, SlotIs
<1> QED BY <1>1, <1>2, <1>3 DEF Start, Fifos, Sound

LEMMA EmptyIs ==
    ASSUME NEW f \in Fifos
    PROVE  /\ Empty(f) \in Fifos /\ Sound(Empty(f))
           /\ Empty(f).len = 0 /\ Empty(f).last = Nothing
<1> DEFINE d == [i \in DOMAIN f.data |-> IF i < 4 THEN Nothing ELSE f.data[i]]
<1>1. d \in [0..(Depth - 1) -> Words \cup {Nothing}]
  BY DEF Fifos
<1>2. Empty(f) = [Start EXCEPT !.data = d]
  BY DEF Empty
<1> HIDE DEF d
<1>3. /\ Empty(f).head = 0 /\ Empty(f).tail = 0 /\ Empty(f).len = 0
      /\ Empty(f).last = Nothing /\ Empty(f).data = d
      /\ Empty(f) = [data |-> d, head |-> 0, tail |-> 0, len |-> 0, last |-> Nothing]
  BY <1>2 DEF Start
<1>4. 0 % Depth = 0 /\ 0 \in 0..(Depth - 1) /\ 0 \in 0..Depth
  <2>1. 0 \in 0..(2 * Depth - 1) /\ Depth \in Nat \ {0}
    BY LinkAssumption
  <2> QED BY <2>1, SlotIs
<1> QED BY <1>1, <1>3, <1>4 DEF Fifos, Sound

LEMMA NoContents ==
    ASSUME NEW f \in Fifos, f.len = 0
    PROVE  Contents(f) = <<>>
BY DEF Contents

LEMMA ContentsAre ==
    ASSUME NEW f \in Fifos
    PROVE  /\ Contents(f) \in Seq(Words \cup {Nothing})
           /\ Len(Contents(f)) = f.len
           /\ \A i \in 1..f.len :
                Contents(f)[i] = IF f.head + i - 1 < Depth THEN f.data[f.head + i - 1]
                                 ELSE f.data[f.head + i - 1 - Depth]
<1>1. /\ f.len \in 0..Depth /\ f.head \in 0..(Depth - 1) /\ Depth \in Nat \ {0}
      /\ f.data \in [0..(Depth - 1) -> Words \cup {Nothing}]
  BY LinkAssumption DEF Fifos
<1>2. ASSUME NEW i \in 1..f.len
      PROVE  /\ (f.head + i - 1) % Depth
                  = IF f.head + i - 1 < Depth THEN f.head + i - 1 ELSE f.head + i - 1 - Depth
             /\ (f.head + i - 1) % Depth \in 0..(Depth - 1)
  <2>1. f.head + i - 1 \in 0..(2 * Depth - 1)
    BY <1>1
  <2>2. (f.head + i - 1) % Depth
          = IF f.head + i - 1 < Depth THEN f.head + i - 1 ELSE f.head + i - 1 - Depth
    <3>1. i \in 1..Depth
      BY <1>1
    <3> QED BY <1>1, <3>1, SlotBehind
  <2>3. (IF f.head + i - 1 < Depth THEN f.head + i - 1 ELSE f.head + i - 1 - Depth)
          \in 0..(Depth - 1)
    BY <1>1, <2>1
  <2> QED BY <2>2, <2>3, Zenon
<1>3. Contents(f) \in Seq(Words \cup {Nothing}) /\ Len(Contents(f)) = f.len
  <2>1. \A i \in 1..f.len : f.data[(f.head + i - 1) % Depth] \in Words \cup {Nothing}
    BY <1>1, <1>2
  <2>2. f.len \in Nat
    BY <1>1
  <2> QED BY <2>1, <2>2 DEF Contents
<1>4. ASSUME NEW i \in 1..f.len
      PROVE  Contents(f)[i] = f.data[(f.head + i - 1) % Depth]
  BY <1>4 DEF Contents
<1>5. ASSUME NEW i \in 1..f.len
      PROVE  Contents(f)[i] = IF f.head + i - 1 < Depth THEN f.data[f.head + i - 1]
                              ELSE f.data[f.head + i - 1 - Depth]
  BY <1>2, <1>4, <1>5
<1> QED BY <1>3, <1>5

\* The index behind the words, without the modulus.
LEMMA TailIs ==
    ASSUME NEW f \in Fifos
    PROVE  Sound(f) <=> f.tail = IF f.head + f.len < Depth THEN f.head + f.len
                                 ELSE f.head + f.len - Depth
<1>1. f.head + f.len \in 0..(2 * Depth - 1)
  BY LinkAssumption DEF Fifos
<1>2. f.head \in Int /\ f.len \in Int /\ f.tail \in Int /\ Depth \in Nat \ {0}
  BY LinkAssumption DEF Fifos
<1>3. (f.head + f.len) % Depth
        = IF f.head + f.len < Depth THEN f.head + f.len ELSE f.head + f.len - Depth
  BY <1>1, <1>2, SlotOfSum DEF Fifos
<1> QED BY <1>2, <1>3 DEF Sound

LEMMA PushAppends ==
    ASSUME NEW f \in Fifos, Sound(f), f.len < Depth, NEW w \in Words
    PROVE  /\ Push(f, w) \in Fifos /\ Sound(Push(f, w))
           /\ Push(f, w).len = f.len + 1 /\ Push(f, w).last = f.last
           /\ Contents(Push(f, w)) = Append(Contents(f), w)
<1> DEFINE g == Push(f, w)
<1>1. /\ f.len \in 0..Depth /\ f.head \in 0..(Depth - 1) /\ f.tail \in 0..(Depth - 1)
      /\ f.data \in [0..(Depth - 1) -> Words \cup {Nothing}]
      /\ f.last \in Words \cup {Nothing}
      /\ f = [data |-> f.data, head |-> f.head, tail |-> f.tail,
              len |-> f.len, last |-> f.last]
      /\ Depth \in Nat \ {0}
  BY LinkAssumption DEF Fifos
<1>2. g = [data |-> [f.data EXCEPT ![f.tail] = w], head |-> f.head,
           tail |-> Following(f.tail), len |-> f.len + 1, last |-> f.last]
  <2>1. g = [f EXCEPT !.data = [@ EXCEPT ![f.tail] = w], !.tail = Following(@), !.len = @ + 1]
    BY <1>1 DEF Push
  <2> QED BY <1>1, <2>1
<1> HIDE DEF g
<1>3. /\ g.data = [f.data EXCEPT ![f.tail] = w] /\ g.head = f.head
      /\ g.tail = Following(f.tail) /\ g.len = f.len + 1 /\ g.last = f.last
  BY <1>2
<1>4. g \in Fifos
  <2>1. [f.data EXCEPT ![f.tail] = w] \in [0..(Depth - 1) -> Words \cup {Nothing}]
    BY <1>1
  <2>2. f.len + 1 \in 0..Depth
    BY <1>1
  <2>3. Following(f.tail) \in 0..(Depth - 1)
    BY <1>1, FollowingIs
  <2> QED BY <1>1, <1>2, <2>1, <2>2, <2>3 DEF Fifos
<1>5. f.tail = IF f.head + f.len < Depth THEN f.head + f.len ELSE f.head + f.len - Depth
  BY TailIs
<1>6. Sound(g)
  <2>1. Following(f.tail) = IF f.tail = Depth - 1 THEN 0 ELSE f.tail + 1
    BY <1>1, FollowingIs
  <2>2. g.tail = IF g.head + g.len < Depth THEN g.head + g.len ELSE g.head + g.len - Depth
    BY <1>1, <1>3, <1>5, <2>1
  <2> QED BY <1>4, <2>2, TailIs
<1>7. Contents(g) = Append(Contents(f), w)
  <2>1. /\ Contents(f) \in Seq(Words \cup {Nothing}) /\ Len(Contents(f)) = f.len
        /\ Contents(g) \in Seq(Words \cup {Nothing}) /\ Len(Contents(g)) = f.len + 1
    BY <1>3, <1>4, ContentsAre
  <2>2. ASSUME NEW i \in 1..(f.len + 1)
        PROVE  Contents(g)[i] = Append(Contents(f), w)[i]
    <3>1. Contents(g)[i] = IF f.head + i - 1 < Depth THEN g.data[f.head + i - 1]
                           ELSE g.data[f.head + i - 1 - Depth]
      <4>1. g.head = f.head /\ i \in 1..g.len
        BY <1>3, <2>2
      <4>2. Contents(g)[i] = IF g.head + i - 1 < Depth THEN g.data[g.head + i - 1]
                             ELSE g.data[g.head + i - 1 - Depth]
        BY <1>4, <4>1, ContentsAre
      <4> QED BY <4>1, <4>2
    <3>2. CASE i = f.len + 1
      <4>1. Contents(g)[i] = g.data[f.tail]
        BY <1>1, <1>5, <3>1, <3>2
      <4>2. g.data[f.tail] = w
        BY <1>1, <1>3
      <4>3. Append(Contents(f), w)[i] = w
        BY <2>1, <3>2
      <4> QED BY <4>1, <4>2, <4>3
    <3>3. CASE i \in 1..f.len
      <4>1. Append(Contents(f), w)[i] = Contents(f)[i]
        BY <2>1, <3>3
      <4>2. Contents(f)[i] = IF f.head + i - 1 < Depth THEN f.data[f.head + i - 1]
                             ELSE f.data[f.head + i - 1 - Depth]
        BY <3>3, ContentsAre
      <4>3. \A j \in 0..(Depth - 1) : j # f.tail => g.data[j] = f.data[j]
        BY <1>1, <1>3
      <4>4. CASE f.head + i - 1 < Depth
        <5>1. f.head + i - 1 \in 0..(Depth - 1) /\ f.head + i - 1 # f.tail
          BY <1>1, <1>5, <3>3, <4>4
        <5> QED BY <3>1, <4>1, <4>2, <4>3, <4>4, <5>1
      <4>5. CASE ~(f.head + i - 1 < Depth)
        <5>1. f.head + i - 1 - Depth \in 0..(Depth - 1) /\ f.head + i - 1 - Depth # f.tail
          BY <1>1, <1>5, <3>3, <4>5
        <5> QED BY <3>1, <4>1, <4>2, <4>3, <4>5, <5>1
      <4> QED BY <4>4, <4>5
    <3>4. i = f.len + 1 \/ i \in 1..f.len
      BY <1>1, <2>2
    <3> QED BY <3>2, <3>3, <3>4
  <2>3. Append(Contents(f), w) \in Seq(Words \cup {Nothing})
        /\ Len(Append(Contents(f), w)) = f.len + 1
    BY <2>1
  <2> DEFINE more == Append(Contents(f), w)
  <2>4. Contents(g) \in Seq(Words \cup {Nothing}) /\ Len(Contents(g)) = f.len + 1
    BY <2>1
  <2>5. \A i \in 1..Len(Contents(g)) : Contents(g)[i] = more[i]
    BY <2>2, <2>4
  <2>6. more \in Seq(Words \cup {Nothing}) /\ Len(Contents(g)) = Len(more)
    BY <2>1, <2>3
  <2> HIDE DEF more
  <2>7. Contents(g) = more
    BY <2>4, <2>5, <2>6, SeqEqual
  <2> QED BY <2>7 DEF more
<1> QED BY <1>3, <1>4, <1>6, <1>7 DEF g

LEMMA PopTakes ==
    ASSUME NEW f \in Fifos, Sound(f), f.len # 0
    PROVE  /\ Pop(f) \in Fifos /\ Sound(Pop(f))
           /\ Pop(f).len = f.len - 1
           /\ Contents(f) # <<>>
           /\ Pop(f).last = Head(Contents(f))
           /\ Contents(Pop(f)) = Tail(Contents(f))
<1> DEFINE g == Pop(f)
<1>1. /\ f.len \in 1..Depth /\ f.head \in 0..(Depth - 1) /\ f.tail \in 0..(Depth - 1)
      /\ f.data \in [0..(Depth - 1) -> Words \cup {Nothing}]
      /\ f.last \in Words \cup {Nothing}
      /\ f = [data |-> f.data, head |-> f.head, tail |-> f.tail,
              len |-> f.len, last |-> f.last]
      /\ Depth \in Nat \ {0}
  BY LinkAssumption DEF Fifos
<1>2. g = [data |-> f.data, head |-> Following(f.head), tail |-> f.tail,
           len |-> f.len - 1, last |-> f.data[f.head]]
  <2>1. g = [f EXCEPT !.last = f.data[f.head], !.len = @ - 1, !.head = Following(@)]
    BY DEF Pop
  <2> QED BY <1>1, <2>1
<1> HIDE DEF g
<1>3. /\ g.data = f.data /\ g.head = Following(f.head) /\ g.tail = f.tail
      /\ g.len = f.len - 1 /\ g.last = f.data[f.head]
  BY <1>2
<1>4. /\ Following(f.head) = IF f.head = Depth - 1 THEN 0 ELSE f.head + 1
      /\ Following(f.head) \in 0..(Depth - 1)
  BY <1>1, FollowingIs
<1>5. g \in Fifos
  <2>1. f.len - 1 \in 0..Depth /\ f.data[f.head] \in Words \cup {Nothing}
    BY <1>1
  <2> QED BY <1>1, <1>2, <1>4, <2>1 DEF Fifos
<1>6. Sound(g)
  <2>1. f.tail = IF f.head + f.len < Depth THEN f.head + f.len ELSE f.head + f.len - Depth
    BY TailIs
  <2>2. g.tail = IF g.head + g.len < Depth THEN g.head + g.len ELSE g.head + g.len - Depth
    BY <1>1, <1>3, <1>4, <2>1
  <2> QED BY <1>5, <2>2, TailIs
<1>7. /\ Contents(f) \in Seq(Words \cup {Nothing}) /\ Len(Contents(f)) = f.len
      /\ Contents(g) \in Seq(Words \cup {Nothing}) /\ Len(Contents(g)) = f.len - 1
  BY <1>3, <1>5, ContentsAre
<1>8. Contents(f) # <<>> /\ g.last = Head(Contents(f))
  <2> DEFINE one == 1
  <2>0. one \in 1..f.len
    BY <1>1
  <2>1. Contents(f)[one] = IF f.head + one - 1 < Depth THEN f.data[f.head + one - 1]
                           ELSE f.data[f.head + one - 1 - Depth]
    <3> HIDE DEF one
    <3> QED BY <2>0, ContentsAre
  <2>2. Contents(f)[1] = f.data[f.head]
    BY <1>1, <2>1
  <2> QED BY <1>1, <1>3, <1>7, <2>2
<1>9. Contents(g) = Tail(Contents(f))
  <2>1. ASSUME NEW i \in 1..(f.len - 1)
        PROVE  Contents(g)[i] = Tail(Contents(f))[i]
    <3>1. Tail(Contents(f))[i] = Contents(f)[i + 1]
      BY <1>1, <1>7, <2>1
    <3>2. Contents(f)[i + 1] = IF f.head + (i + 1) - 1 < Depth THEN f.data[f.head + (i + 1) - 1]
                               ELSE f.data[f.head + (i + 1) - 1 - Depth]
      <4>1. i + 1 \in 1..f.len
        BY <1>1, <2>1
      <4> QED BY <4>1, ContentsAre
    <3>3. Contents(g)[i] = IF g.head + i - 1 < Depth THEN f.data[g.head + i - 1]
                           ELSE f.data[g.head + i - 1 - Depth]
      BY <1>3, <1>5, <2>1, ContentsAre
    <3>4. CASE f.head = Depth - 1
      <4>1. g.head + i - 1 < Depth /\ g.head + i - 1 = f.head + (i + 1) - 1 - Depth
            /\ ~(f.head + (i + 1) - 1 < Depth)
        BY <1>1, <1>3, <1>4, <2>1, <3>4
      <4> QED BY <3>1, <3>2, <3>3, <4>1
    <3>5. CASE f.head # Depth - 1
      <4>1. g.head + i - 1 = f.head + (i + 1) - 1
        BY <1>1, <1>3, <1>4, <2>1, <3>5
      <4>2. CASE g.head + i - 1 < Depth
        <5>1. Contents(g)[i] = f.data[g.head + i - 1]
          BY <3>3, <4>2, Zenon
        <5>2. Contents(f)[i + 1] = f.data[f.head + (i + 1) - 1]
          BY <3>2, <4>1, <4>2, Zenon
        <5> QED BY <3>1, <4>1, <5>1, <5>2, Zenon
      <4>3. CASE ~(g.head + i - 1 < Depth)
        <5>1. Contents(g)[i] = f.data[g.head + i - 1 - Depth]
          BY <3>3, <4>3, Zenon
        <5>2. Contents(f)[i + 1] = f.data[f.head + (i + 1) - 1 - Depth]
          BY <3>2, <4>1, <4>3, Zenon
        <5>3. g.head + i - 1 - Depth = f.head + (i + 1) - 1 - Depth
          BY <1>1, <1>3, <1>4, <2>1, <3>5
        <5> QED BY <3>1, <5>1, <5>2, <5>3, Zenon
      <4> QED BY <4>2, <4>3
    <3> QED BY <3>4, <3>5
  <2>2. Tail(Contents(f)) \in Seq(Words \cup {Nothing}) /\ Len(Tail(Contents(f))) = f.len - 1
    BY <1>1, <1>7
  <2> QED BY <1>7, <2>1, <2>2
<1> QED BY <1>3, <1>5, <1>6, <1>8, <1>9 DEF g

-----------------------------------------------------------------------------
(***************************************************************************)
(* The steps.                                                              *)
(***************************************************************************)
\* The part of the state that is not the FIFO.
RegsOK ==
    /\ sendIrq \in BOOLEAN /\ recvIrq \in BOOLEAN /\ syncIrq \in BOOLEAN
    /\ enable \in [Cpus -> BOOLEAN] /\ error \in [Cpus -> BOOLEAN]
    /\ output \in Nibbles /\ input \in Nibbles
    /\ \A cpu \in Cpus : irqFlags[cpu] \subseteq Irqs[cpu]
    /\ DOMAIN irqFlags = Cpus

LEMMA Parts == IInv <=> fifo \in Fifos /\ Sound(fifo) /\ RegsOK
BY DEF IInv, TypeOK, RegsOK, Fifos

LEMMA RaiseKeeps ==
    ASSUME NEW cpu \in Cpus, NEW irq \in Irqs[cpu], NEW when,
           \A c \in Cpus : irqFlags[c] \subseteq Irqs[c], DOMAIN irqFlags = Cpus,
           Raise(cpu, irq, when)
    PROVE  /\ \A c \in Cpus : irqFlags'[c] \subseteq Irqs[c]
           /\ DOMAIN irqFlags' = Cpus
BY DEF Raise

LEMMA InitInv ==
    ASSUME Init
    PROVE  IInv
<1>1. fifo \in Fifos /\ Sound(fifo)
  BY StartIs DEF Init
<1>2. RegsOK
  BY LinkAssumption DEF Init, RegsOK, Cpus
<1> QED BY <1>1, <1>2, Parts

LEMMA SendInv ==
    ASSUME IInv, NEW w \in Words, Send(w)
    PROVE  IInv'
<1>1. fifo \in Fifos /\ Sound(fifo) /\ RegsOK
  BY Parts
<1>2. fifo' \in Fifos /\ Sound(fifo')
  <2>1. CASE fifo.len = Depth
    BY <1>1, <2>1 DEF Send, Push
  <2>2. CASE fifo.len # Depth
    <3>1. fifo.len < Depth
      BY <1>1, <2>2, LinkAssumption DEF Fifos
    <3> QED BY <1>1, <3>1, PushAppends DEF Send
  <2> QED BY <2>1, <2>2
<1>3. RegsOK'
  <2>1. /\ \A c \in Cpus : irqFlags'[c] \subseteq Irqs[c]
        /\ DOMAIN irqFlags' = Cpus
    BY <1>1, RaiseKeeps DEF Send, RegsOK, Cpus, Irqs
  <2>2. error' \in [Cpus -> BOOLEAN]
    BY <1>1 DEF Send, RegsOK
  <2> QED BY <1>1, <2>1, <2>2 DEF Send, RegsOK, syncVars
<1> QED BY <1>2, <1>3, Parts DEF IInv, TypeOK, RegsOK, Fifos, Sound

LEMMA ReceiveInv ==
    ASSUME IInv, Receive
    PROVE  IInv'
<1>1. fifo \in Fifos /\ Sound(fifo) /\ RegsOK
  BY Parts
<1>2. fifo' \in Fifos /\ Sound(fifo')
  BY <1>1, PopTakes DEF Receive
<1>3. RegsOK'
  <2>1. /\ \A c \in Cpus : irqFlags'[c] \subseteq Irqs[c]
        /\ DOMAIN irqFlags' = Cpus
    BY <1>1, RaiseKeeps DEF Receive, RegsOK, Cpus, Irqs
  <2>2. error' \in [Cpus -> BOOLEAN]
    BY <1>1 DEF Receive, RegsOK
  <2> QED BY <1>1, <2>1, <2>2 DEF Receive, RegsOK, syncVars
<1> QED BY <1>2, <1>3, Parts DEF IInv, TypeOK, RegsOK, Fifos, Sound

LEMMA SendControlInv ==
    ASSUME IInv, NEW irq \in BOOLEAN, NEW flush \in BOOLEAN, WriteSendControl(irq, flush)
    PROVE  IInv'
<1>1. fifo \in Fifos /\ Sound(fifo) /\ RegsOK
  BY Parts
<1>2. fifo' \in Fifos /\ Sound(fifo')
  BY <1>1, EmptyIs DEF WriteSendControl
<1>3. RegsOK'
  <2>1. /\ \A c \in Cpus : irqFlags'[c] \subseteq Irqs[c]
        /\ DOMAIN irqFlags' = Cpus
    BY <1>1, RaiseKeeps DEF WriteSendControl, RegsOK, Cpus, Irqs
  <2> QED BY <1>1, <2>1 DEF WriteSendControl, RegsOK, syncVars
<1> QED BY <1>2, <1>3, Parts DEF IInv, TypeOK, RegsOK, Fifos, Sound

\* Every other step leaves the FIFO alone.
Elsewhere ==
    \/ \E acknowledge, on \in BOOLEAN :
         \/ WriteSenderControl(acknowledge, on)
         \/ \E irq \in BOOLEAN : WriteReceiverControl(irq, acknowledge, on)
    \/ \E cpu \in Cpus :
         \/ ErrorOfLinkBack(cpu)
         \/ \E bits \in SUBSET Irqs[cpu] : Acknowledge(cpu, bits)
    \/ \E value \in Nibbles, request \in BOOLEAN : WriteSync(value, request)
    \/ \E on \in BOOLEAN : EnableSync(on)
    \/ Reset

LEMMA ElsewhereRegs ==
    ASSUME RegsOK, Elsewhere
    PROVE  RegsOK'
<1> USE DEF RegsOK, syncVars
<1>1. ASSUME NEW acknowledge \in BOOLEAN, NEW on \in BOOLEAN,
             WriteSenderControl(acknowledge, on)
      PROVE  RegsOK'
  BY <1>1 DEF WriteSenderControl, WriteControl, Cpus
<1>2. ASSUME NEW acknowledge \in BOOLEAN, NEW on \in BOOLEAN, NEW irq \in BOOLEAN,
             WriteReceiverControl(irq, acknowledge, on)
      PROVE  RegsOK'
  <2>1. /\ \A c \in Cpus : irqFlags'[c] \subseteq Irqs[c]
        /\ DOMAIN irqFlags' = Cpus
    BY <1>2, RaiseKeeps DEF WriteReceiverControl, Cpus, Irqs
  <2> QED BY <1>2, <2>1 DEF WriteReceiverControl, WriteControl, Cpus
<1>3. ASSUME NEW cpu \in Cpus, ErrorOfLinkBack(cpu)
      PROVE  RegsOK'
  BY <1>3 DEF ErrorOfLinkBack
<1>4. ASSUME NEW cpu \in Cpus, NEW bits \in SUBSET Irqs[cpu], Acknowledge(cpu, bits)
      PROVE  RegsOK'
  BY <1>4 DEF Acknowledge
<1>5. ASSUME NEW value \in Nibbles, NEW request \in BOOLEAN, WriteSync(value, request)
      PROVE  RegsOK'
  <2>1. /\ \A c \in Cpus : irqFlags'[c] \subseteq Irqs[c]
        /\ DOMAIN irqFlags' = Cpus
    BY <1>5, RaiseKeeps DEF WriteSync, Cpus, Irqs
  <2> QED BY <1>5, <2>1 DEF WriteSync
<1>6. ASSUME NEW on \in BOOLEAN, EnableSync(on)
      PROVE  RegsOK'
  BY <1>6 DEF EnableSync
<1>7. CASE Reset
  BY <1>7 DEF Reset
<1> QED BY <1>1, <1>2, <1>3, <1>4, <1>5, <1>6, <1>7 DEF Elsewhere

LEMMA ElsewhereKeeps ==
    ASSUME Elsewhere
    PROVE  fifo' = fifo /\ sendIrq' = sendIrq
BY DEF Elsewhere, WriteSenderControl, WriteReceiverControl, ErrorOfLinkBack, Acknowledge,
       WriteSync, EnableSync, Reset

LEMMA StepInv ==
    ASSUME IInv, [Next]_vars
    PROVE  IInv'
<1>1. CASE \E w \in Words : Send(w)
  BY <1>1, SendInv
<1>2. CASE Receive
  BY <1>2, ReceiveInv
<1>3. CASE \E irq, flush \in BOOLEAN : WriteSendControl(irq, flush)
  BY <1>3, SendControlInv
<1>4. CASE Elsewhere
  <2>1. RegsOK'
    BY <1>4, Parts, ElsewhereRegs
  <2>2. fifo' = fifo
    BY <1>4, ElsewhereKeeps
  <2> QED BY <2>1, <2>2 DEF IInv, TypeOK, RegsOK, Sound
<1>5. CASE UNCHANGED vars
  BY <1>5 DEF vars, syncVars, IInv, TypeOK, Sound
<1> QED BY <1>1, <1>2, <1>3, <1>4, <1>5 DEF Next, Elsewhere

-----------------------------------------------------------------------------
(* The registers and the ring keep their types.  (nds_ipc.cpp)             *)
THEOREM TypeCorrect == Spec => []TypeOK
<1>1. Init => IInv
  BY InitInv
<1>2. IInv /\ [Next]_vars => IInv'
  BY StepInv
<1>3. IInv => TypeOK
  BY DEF IInv
<1> QED BY <1>1, <1>2, <1>3, PTL DEF Spec

(* Each register access is a step of the bounded queue, or none.           *)
LEMMA LinkStep ==
    ASSUME IInv, [Next]_vars
    PROVE  [Link!Next]_(Link!linkVars)
<1>1. fifo \in Fifos /\ Sound(fifo) /\ fifo.len \in 0..Depth /\ Depth \in Nat \ {0}
  BY Parts, LinkAssumption DEF Fifos
<1>2. fifo' = fifo => UNCHANGED Link!linkVars
  BY DEF Link!linkVars, Contents
<1>3. ASSUME NEW w \in Words, Send(w)
      PROVE  [Link!Next]_(Link!linkVars)
  <2>1. CASE fifo.len = Depth
    BY <1>2, <1>3, <2>1 DEF Send, Push
  <2>2. CASE fifo.len # Depth
    <3>1. fifo.len < Depth
      BY <1>1, <2>2
    <3>2. Contents(fifo)' = Append(Contents(fifo), w) /\ fifo'.last = fifo.last
      BY <1>1, <1>3, <3>1, PushAppends DEF Send, Contents
    <3>3. Len(Contents(fifo)) < Depth
      BY <1>1, <3>1, ContentsAre
    <3> QED BY <3>2, <3>3 DEF Link!Next, Link!Put
  <2> QED BY <2>1, <2>2
<1>4. CASE Receive
  <2>1. CASE fifo.len = 0
    BY <1>2, <1>4, <2>1 DEF Receive
  <2>2. CASE fifo.len # 0
    BY <1>1, <1>4, <2>2, PopTakes DEF Receive, Contents, Link!Next, Link!Take
  <2> QED BY <2>1, <2>2
<1>5. ASSUME NEW irq \in BOOLEAN, NEW flush \in BOOLEAN, WriteSendControl(irq, flush)
      PROVE  [Link!Next]_(Link!linkVars)
  <2>1. CASE flush
    <3>1. fifo' = Empty(fifo)
      BY <1>5, <2>1 DEF WriteSendControl
    <3>2. Contents(Empty(fifo)) = <<>> /\ Empty(fifo).last = Nothing
      BY <1>1, EmptyIs, NoContents
    <3> QED BY <3>1, <3>2 DEF Contents, Link!Next, Link!Flush
  <2>2. CASE ~flush
    BY <1>2, <1>5, <2>2 DEF WriteSendControl
  <2> QED BY <2>1, <2>2
<1>6. CASE Elsewhere
  BY <1>2, <1>6, ElsewhereKeeps
<1>7. CASE UNCHANGED vars
  BY <1>2, <1>7 DEF vars
<1> QED BY <1>3, <1>4, <1>5, <1>6, <1>7 DEF Next, Elsewhere

(* The ARM7 takes the words in the order the ARM9 sent them, none twice    *)
(* and none after a flush, for a FIFO of any depth.  (nds_ipc.cpp)         *)
THEOREM LinkImplemented == Spec => LinkSpec
<1>1. Init => Link!Init
  BY StartIs, NoContents DEF Init, Link!Init
<1>2. Init => IInv
  BY InitInv
<1>3. IInv /\ [Next]_vars => IInv'
  BY StepInv
<1>4. IInv /\ [Next]_vars => [Link!Next]_(Link!linkVars)
  BY LinkStep
<1> QED BY <1>1, <1>2, <1>3, <1>4, PTL DEF Spec, LinkSpec, Link!Spec

-----------------------------------------------------------------------------
(***************************************************************************)
(* Edges.                                                                  *)
(***************************************************************************)
LEMMA RaiseIs ==
    ASSUME NEW cpu \in Cpus, NEW irq, NEW when \in BOOLEAN, DOMAIN irqFlags = Cpus,
           Raise(cpu, irq, when)
    PROVE  /\ irqFlags'[cpu] = irqFlags[cpu] \cup (IF when THEN {irq} ELSE {})
           /\ \A c \in Cpus \ {cpu} : irqFlags'[c] = irqFlags[c]
BY DEF Raise

\* What EdgesRaise says of one step.
Edges ==
    /\ ~RecvLevel /\ RecvLevel' => "RECV_NOT_EMPTY" \in irqFlags["arm7"]'
    /\ ~SendLevel /\ SendLevel' => "SEND_EMPTY" \in irqFlags["arm9"]'
    /\ "RECV_NOT_EMPTY" \in irqFlags["arm7"]' \ irqFlags["arm7"]
          => ~RecvLevel /\ RecvLevel'

LEMMA EdgeStep ==
    ASSUME IInv, [Next]_vars
    PROVE  Edges
<1>1. /\ fifo \in Fifos /\ Sound(fifo) /\ fifo.len \in 0..Depth /\ Depth \in Nat \ {0}
      /\ sendIrq \in BOOLEAN /\ recvIrq \in BOOLEAN /\ syncIrq \in BOOLEAN
      /\ DOMAIN irqFlags = Cpus
  BY Parts, LinkAssumption DEF Fifos, RegsOK
<1>2. "arm7" \in Cpus /\ "arm9" \in Cpus /\ "arm7" # "arm9"
  BY DEF Cpus
<1> USE DEF RecvLevel, SendLevel, RecvLevelOf, SendLevelOf
<1>3. ASSUME NEW w \in Words, Send(w)
      PROVE  Edges
  <2>1. fifo'.len # 0
    <3>1. CASE fifo.len = Depth
      BY <1>1, <1>3, <3>1 DEF Send, Push
    <3>2. CASE fifo.len < Depth
      BY <1>1, <1>3, <3>2, PushAppends DEF Send
    <3> QED BY <1>1, <3>1, <3>2
  <2>2. /\ irqFlags'["arm7"] = irqFlags["arm7"]
              \cup (IF ~RecvLevel /\ RecvLevelOf(recvIrq, fifo') THEN {"RECV_NOT_EMPTY"} ELSE {})
        /\ recvIrq' = recvIrq
    BY <1>1, <1>2, <1>3, RaiseIs DEF Send
  <2> QED BY <1>1, <2>1, <2>2 DEF Edges
<1>4. CASE Receive
  <2>1. CASE fifo.len = 0
    BY <1>4, <2>1 DEF Receive, Edges
  <2>2. CASE fifo.len # 0
    <3>1. fifo'.len = fifo.len - 1
      BY <1>1, <1>4, <2>2, PopTakes DEF Receive
    <3>2. /\ irqFlags'["arm9"] = irqFlags["arm9"]
                \cup (IF ~SendLevel /\ SendLevelOf(sendIrq, fifo') THEN {"SEND_EMPTY"} ELSE {})
          /\ irqFlags'["arm7"] = irqFlags["arm7"]
          /\ recvIrq' = recvIrq /\ sendIrq' = sendIrq
      BY <1>1, <1>2, <1>4, <2>2, RaiseIs DEF Receive
    <3>3. ~SendLevel /\ SendLevel' => "SEND_EMPTY" \in irqFlags["arm9"]'
      BY <3>2 DEF SendLevel
    <3>4. RecvLevel' => RecvLevel
      BY <1>1, <2>2, <3>1, <3>2 DEF RecvLevel, RecvLevelOf
    <3> QED BY <3>2, <3>3, <3>4 DEF Edges
  <2> QED BY <2>1, <2>2
<1>5. ASSUME NEW irq \in BOOLEAN, NEW flush \in BOOLEAN, WriteSendControl(irq, flush)
      PROVE  Edges
  <2>1. fifo'.len = 0 \/ fifo' = fifo
    BY <1>1, <1>5, EmptyIs DEF WriteSendControl
  <2>2. /\ irqFlags'["arm9"] = irqFlags["arm9"]
              \cup (IF irq /\ ~SendLevel THEN {"SEND_EMPTY"} ELSE {})
        /\ irqFlags'["arm7"] = irqFlags["arm7"]
        /\ recvIrq' = recvIrq /\ sendIrq' = irq
    BY <1>1, <1>2, <1>5, RaiseIs DEF WriteSendControl
  <2> QED BY <1>1, <2>1, <2>2 DEF Edges
<1>6. ASSUME NEW irq \in BOOLEAN, NEW acknowledge \in BOOLEAN, NEW on \in BOOLEAN,
             WriteReceiverControl(irq, acknowledge, on)
      PROVE  Edges
  <2>1. /\ irqFlags'["arm7"] = irqFlags["arm7"]
              \cup (IF ~RecvLevel /\ RecvLevelOf(irq, fifo) THEN {"RECV_NOT_EMPTY"} ELSE {})
        /\ recvIrq' = irq /\ sendIrq' = sendIrq /\ fifo' = fifo
    BY <1>1, <1>2, <1>6, RaiseIs DEF WriteReceiverControl
  <2> QED BY <1>1, <2>1 DEF Edges
<1>7. ASSUME NEW value \in Nibbles, NEW request \in BOOLEAN, WriteSync(value, request)
      PROVE  Edges
  <2>1. /\ irqFlags'["arm7"] = irqFlags["arm7"]
              \cup (IF request /\ syncIrq THEN {"SYNC"} ELSE {})
        /\ recvIrq' = recvIrq /\ sendIrq' = sendIrq /\ fifo' = fifo
    BY <1>1, <1>2, <1>7, RaiseIs DEF WriteSync
  <2> QED BY <1>1, <2>1 DEF Edges
<1>8. ASSUME fifo' = fifo, sendIrq' = sendIrq, recvIrq' = recvIrq,
             irqFlags'["arm7"] \subseteq irqFlags["arm7"]
      PROVE  Edges
  BY <1>1, <1>8 DEF Edges
<1>9. ASSUME NEW acknowledge \in BOOLEAN, NEW on \in BOOLEAN,
             WriteSenderControl(acknowledge, on)
      PROVE  Edges
  BY <1>8, <1>9 DEF WriteSenderControl
<1>10. ASSUME NEW cpu \in Cpus, ErrorOfLinkBack(cpu)
       PROVE  Edges
  BY <1>8, <1>10 DEF ErrorOfLinkBack
<1>11. ASSUME NEW cpu \in Cpus, NEW bits \in SUBSET Irqs[cpu], Acknowledge(cpu, bits)
       PROVE  Edges
  <2>1. irqFlags'["arm7"] \subseteq irqFlags["arm7"]
    BY <1>1, <1>2, <1>11 DEF Acknowledge
  <2> QED BY <1>8, <1>11, <2>1 DEF Acknowledge
<1>12. ASSUME NEW on \in BOOLEAN, EnableSync(on)
       PROVE  Edges
  BY <1>8, <1>12 DEF EnableSync
<1>13. CASE Reset
  <2>1. irqFlags'["arm7"] \subseteq irqFlags["arm7"]
    BY <1>2, <1>13 DEF Reset
  <2> QED BY <1>8, <1>13, <2>1 DEF Reset
<1>14. CASE UNCHANGED vars
  BY <1>8, <1>14 DEF vars
<1> QED BY <1>3, <1>4, <1>5, <1>6, <1>7, <1>9, <1>10, <1>11, <1>12, <1>13, <1>14 DEF Next

(* Whatever access makes words wait at a receiver that asked to be told,   *)
(* or empties the FIFO of a sender that did, raises the interrupt, for a   *)
(* FIFO of any depth; the receiver is told of nothing else.                *)
(* (nds_bus.cpp:828-837, 1354-1374, 2291-2318, 2395-2417)                  *)
THEOREM NoEdgeMissed == Spec => EdgesRaise
<1>1. Init => IInv
  BY InitInv
<1>2. IInv /\ [Next]_vars => IInv'
  BY StepInv
<1>3. IInv /\ [Next]_vars
        => [/\ ~RecvLevel /\ RecvLevel' => "RECV_NOT_EMPTY" \in irqFlags["arm7"]'
            /\ ~SendLevel /\ SendLevel' => "SEND_EMPTY" \in irqFlags["arm9"]'
            /\ "RECV_NOT_EMPTY" \in irqFlags["arm7"]' \ irqFlags["arm7"]
                  => ~RecvLevel /\ RecvLevel']_vars
  BY EdgeStep DEF Edges
<1> QED BY <1>1, <1>2, <1>3, PTL DEF Spec, EdgesRaise

=============================================================================
