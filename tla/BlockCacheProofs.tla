-------------------------- MODULE BlockCacheProofs --------------------------
(***************************************************************************)
(* BlockCache's invariants and its refinement of CodeMemory, proved for    *)
(* any number of CPUs, any region, any pages and any instructions.         *)
(***************************************************************************)
EXTENDS BlockCache, FiniteSetTheorems, SequenceTheorems, TLAPS

(* One CPU's store, of the slots sl, n blocks and the free list fr: every  *)
(* block is in a slot or free, and in one place only.                      *)
StoreOK(sl, n, fr) ==
    /\ n <= Size
    /\ \A a \in Addrs : sl[a] <= n
    /\ \A i \in 1..Len(fr) : fr[i] \in 1..n
    /\ \A a, b \in Addrs : sl[a] # 0 /\ sl[a] = sl[b] => a = b
    /\ \A i, j \in 1..Len(fr) : fr[i] = fr[j] => i = j
    /\ \A a \in Addrs, i \in 1..Len(fr) : sl[a] # fr[i]
    /\ \A id \in 1..n : (\E a \in Addrs : sl[a] = id) \/ (\E i \in 1..Len(fr) : fr[i] = id)

StoresOK == \A c \in Cpus : StoreOK(slots[c], Len(pool[c]), freeList[c])

(* A decoded block knows the pages it was decoded from, and no version of  *)
(* them that is yet to come; while any CPU runs blocks, one whose pages    *)
(* have not changed is what the memory holds.                              *)
Faithful(a, b, m, ver, on) ==
    /\ Len(b.code) <= MaxBlock
    /\ a + Len(b.code) <= Size
    /\ C!Whole(b.code)
    /\ b.pages = PageOf(a)..PageOf(a + Len(b.code) - 1)
    /\ \A p \in b.pages : b.snap[p] <= ver[p]
    /\ on /\ (\A p \in b.pages : ver[p] = b.snap[p])
        => \A i \in 1..Len(b.code) : b.code[i] = m[a + i - 1]

Some == \E d \in Cpus : cached[d]

AllFaithful ==
    \A c \in Cpus, a \in Addrs :
        slots[c][a] # 0 /\ pool[c][slots[c][a]].code # <<>>
            => Faithful(a, pool[c][slots[c][a]], mem, version, Some)

(* The inductive invariant.                                                *)
IInv == TypeOK /\ StoresOK

LEMMA PageMonotone ==
    ASSUME NEW x \in Nat, NEW y \in Nat, x <= y
    PROVE  PageOf(x) \in Nat /\ PageOf(y) \in Nat /\ PageOf(x) <= PageOf(y)
BY SizesAssumption, SMTT(30) DEF PageOf

LEMMA PagesOfRegion ==
    ASSUME NEW a \in Addrs, NEW n \in Nat \ {0}, a + n <= Size
    PROVE  /\ PageOf(a) \in Nat /\ PageOf(a + n - 1) \in Nat
           /\ PageOf(a)..PageOf(a + n - 1) \subseteq Pages
<1>1. /\ a \in Nat /\ a + n - 1 \in Nat /\ Size - 1 \in Nat
      /\ a <= a + n - 1 /\ a + n - 1 <= Size - 1 /\ 0 <= a
  BY SizesAssumption DEF Addrs
<1>2. /\ PageOf(a) \in Nat /\ PageOf(a + n - 1) \in Nat /\ PageOf(0) \in Nat
      /\ PageOf(Size - 1) \in Nat /\ PageOf(0) <= PageOf(a)
      /\ PageOf(a + n - 1) <= PageOf(Size - 1)
  BY <1>1, PageMonotone, 0 \in Nat
<1> QED BY <1>2 DEF Pages

LEMMA PageInRegion ==
    ASSUME NEW x \in Addrs
    PROVE  PageOf(x) \in Pages /\ PageOf(x) \in Nat
<1>1. x \in Nat /\ x + 1 <= Size /\ x + 1 - 1 = x /\ 1 \in Nat \ {0}
  BY SizesAssumption DEF Addrs
<1>2. PageOf(x) \in Nat /\ PageOf(x)..PageOf(x + 1 - 1) \subseteq Pages
  BY <1>1, PagesOfRegion
<1> QED BY <1>1, <1>2

-----------------------------------------------------------------------------
(* Blocks.                                                                 *)
LEMMA ClearedBlock ==
    ASSUME NEW a \in Addrs
    PROVE  Cleared(a) \in Blocks /\ Cleared(a).code = <<>> /\ Cleared(a).addr = a
<1>1. <<>> \in Seq(Ops) /\ [p \in Pages |-> 0] \in [Pages -> Nat] /\ {} \in SUBSET Pages
  OBVIOUS
<1> QED BY <1>1 DEF Cleared, Blocks

(* What get_next_block() decodes at a is a block of the memory at a, with  *)
(* the versions its pages have now.                                        *)
LEMMA CompiledBlock ==
    ASSUME TypeOK, NEW a \in Addrs, NEW b \in Compiled(a)
    PROVE  /\ b \in Blocks
           /\ b.code \in C!BlocksAt(mem, a)
           /\ Len(b.code) \in Nat \ {0} /\ b.code # <<>>
           /\ Faithful(a, b, mem, version, Some)
<1>1. PICK n \in 1..MaxBlock :
        /\ a + n <= Size /\ C!Whole(C!Fetch(mem, a, n))
        /\ b = [addr |-> a, code |-> C!Fetch(mem, a, n),
                pages |-> PagesOf(a, Len(C!Fetch(mem, a, n))),
                snap |-> Snapshot(PagesOf(a, Len(C!Fetch(mem, a, n))))]
  BY DEF Compiled, C!BlocksAt
<1> DEFINE code == C!Fetch(mem, a, n)
<1>2. n \in Nat \ {0}
  BY SizesAssumption
<1>3. code \in Seq(Ops) /\ Len(code) = n /\ \A i \in 1..n : code[i] = mem[a + i - 1]
  <2>1. code = [i \in 1..n |-> mem[a + i - 1]]
    BY DEF C!Fetch
  <2>2. \A i \in 1..n : a + i - 1 \in Addrs
    BY <1>1, <1>2, SizesAssumption DEF Addrs
  <2>3. mem \in [Addrs -> Ops]
    BY DEF TypeOK
  <2> QED BY <2>1, <2>2, <2>3, <1>2
<1>4. PageOf(a)..PageOf(a + n - 1) \subseteq Pages
  BY <1>1, <1>2, PagesOfRegion
<1> DEFINE pages == PageOf(a)..PageOf(a + n - 1)
<1>5. b = [addr |-> a, code |-> code, pages |-> pages, snap |-> Snapshot(pages)]
  BY <1>1, <1>3 DEF PagesOf
<1>6. /\ Snapshot(pages) \in [Pages -> Nat] /\ version \in [Pages -> Nat]
      /\ \A p \in pages : Snapshot(pages)[p] = version[p]
  BY <1>4 DEF TypeOK, Snapshot
<1>7. b \in Blocks
  BY <1>3, <1>4, <1>5, <1>6 DEF Blocks
<1>8. code \in C!BlocksAt(mem, a)
  BY <1>1 DEF C!BlocksAt
<1>9. Faithful(a, b, mem, version, Some)
  <2>1. b.code = code /\ b.pages = pages /\ b.snap = Snapshot(pages)
    BY <1>5
  <2>2. \A p \in pages : version[p] \in Nat
    BY <1>4, <1>6
  <2> QED BY <1>1, <1>2, <1>3, <1>6, <2>1, <2>2 DEF Faithful
<1> QED BY <1>2, <1>3, <1>5, <1>7, <1>8, <1>9

-----------------------------------------------------------------------------
LEMMA NoElements ==
    Len(<<>>) = 0 /\ DOMAIN <<>> = {}
OBVIOUS

(* The inductive invariant.                                                *)
LEMMA InitInv ==
    ASSUME Init
    PROVE  IInv /\ AllFaithful
<1>1. \A c \in Cpus, a \in Addrs : slots[c][a] = 0
  BY DEF Init, NoSlots
<1>2. \A c \in Cpus : pool[c] = <<>> /\ freeList[c] = <<>>
  BY DEF Init
<1>3. TypeOK
  <2>1. slots \in [Cpus -> [Addrs -> Nat]]
    BY DEF Init, NoSlots
  <2>2. version \in [Pages -> Nat] /\ mem \in [Addrs -> Ops] /\ running = Idle
    BY DEF Init
  <2>3. /\ pool \in [Cpus -> Seq(Blocks)] /\ freeList \in [Cpus -> Seq(Nat)]
        /\ cached \in [Cpus -> BOOLEAN]
    BY DEF Init
  <2>4. \A c \in Cpus : Len(pool[c]) = 0 /\ DOMAIN freeList[c] = {}
    BY <1>2, NoElements
  <2> QED BY <1>1, <2>1, <2>2, <2>3, <2>4 DEF TypeOK
<1>4. StoresOK
  <2> SUFFICES ASSUME NEW c \in Cpus
               PROVE  StoreOK(slots[c], Len(pool[c]), freeList[c])
    BY DEF StoresOK
  <2>1. Len(pool[c]) = 0 /\ Len(freeList[c]) = 0
    BY <1>2, NoElements
  <2> QED BY <1>1, <2>1, SizesAssumption DEF StoreOK
<1>5. AllFaithful
  BY <1>1 DEF AllFaithful
<1> QED BY <1>3, <1>4, <1>5 DEF IInv

LEMMA AllButLast ==
    ASSUME NEW s \in Seq(Nat), s # <<>>
    PROVE  /\ SubSeq(s, 1, Len(s) - 1) \in Seq(Nat)
           /\ Len(SubSeq(s, 1, Len(s) - 1)) = Len(s) - 1
           /\ \A i \in 1..(Len(s) - 1) : SubSeq(s, 1, Len(s) - 1)[i] = s[i]
<1> DEFINE n == Len(s) - 1
<1>1. n \in Nat /\ n - 1 + 1 = n /\ (IF 1 <= n THEN n - 1 + 1 ELSE 0) = n
  <2>1. Len(s) \in Nat \ {0}
    OBVIOUS
  <2>2. n \in Nat
    BY <2>1
  <2> HIDE DEF n
  <2> QED BY <2>2
<1>2. \A i \in 1..n : s[i] \in Nat /\ 1 + i - 1 = i
  OBVIOUS
<1> HIDE DEF n
<1>3. /\ SubSeq(s, 1, n) \in Seq(Nat) /\ Len(SubSeq(s, 1, n)) = n
      /\ \A i \in 1..n : SubSeq(s, 1, n)[i] = s[1 + i - 1]
  BY <1>1, <1>2, SubSeqProperties
<1> QED BY <1>2, <1>3 DEF n

(* alloc_or_reuse() takes the last block off the free list.                *)
LEMMA ReuseKeeps ==
    ASSUME NEW sl \in [Addrs -> Nat], NEW n \in Nat, NEW fr \in Seq(Nat),
           StoreOK(sl, n, fr), NEW a \in Addrs, sl[a] = 0, fr # <<>>,
           NEW more \in Seq(Nat), Len(more) = Len(fr) - 1,
           \A i \in 1..(Len(fr) - 1) : more[i] = fr[i]
    PROVE  StoreOK([sl EXCEPT ![a] = fr[Len(fr)]], n, more)
<1> DEFINE id == fr[Len(fr)]
           sl2 == [sl EXCEPT ![a] = id]
<1>1. Len(fr) \in Nat \ {0} /\ Len(fr) \in 1..Len(fr) /\ id \in 1..n
  BY DEF StoreOK
<1>2. /\ sl2[a] = id /\ \A x \in Addrs : x # a => sl2[x] = sl[x]
      /\ \A i \in 1..Len(more) : i \in 1..Len(fr) /\ i # Len(fr) /\ more[i] = fr[i]
  <2>1. sl2[a] = id /\ \A x \in Addrs : x # a => sl2[x] = sl[x]
    OBVIOUS
  <2> HIDE DEF id, sl2
  <2>2. \A i \in 1..Len(more) : i \in 1..Len(fr) /\ i # Len(fr) /\ more[i] = fr[i]
    BY <1>1
  <2> QED BY <2>1, <2>2
<1> HIDE DEF sl2
<1>3. /\ \A i \in 1..Len(more) : more[i] # id
      /\ \A x \in Addrs : sl[x] # id
  <2>1. \A i, j \in 1..Len(fr) : fr[i] = fr[j] => i = j
    BY DEF StoreOK
  <2>2. \A x \in Addrs, i \in 1..Len(fr) : sl[x] # fr[i]
    BY DEF StoreOK
  <2>3. ASSUME NEW i \in 1..Len(more)
        PROVE  more[i] # id
    <3>1. i \in 1..Len(fr) /\ i # Len(fr) /\ more[i] = fr[i]
      BY <1>2
    <3>2. fr[i] # fr[Len(fr)]
      BY <1>1, <2>1, <3>1
    <3> QED BY <3>1, <3>2, Zenon
  <2>4. ASSUME NEW x \in Addrs
        PROVE  sl[x] # id
    BY <1>1, <2>2, Zenon
  <2> QED BY <2>3, <2>4
<1> HIDE DEF id
<1>4. n <= Size /\ \A x \in Addrs : sl2[x] <= n
  <2>1. n <= Size /\ \A x \in Addrs : sl[x] <= n
    BY DEF StoreOK
  <2>2. id <= n
    BY <1>1
  <2> QED BY <1>2, <2>1, <2>2, Zenon
<1>5. \A i \in 1..Len(more) : more[i] \in 1..n
  BY <1>2 DEF StoreOK
<1>6. \A x, y \in Addrs : sl2[x] # 0 /\ sl2[x] = sl2[y] => x = y
  <2>1. \A x, y \in Addrs : sl[x] # 0 /\ sl[x] = sl[y] => x = y
    BY DEF StoreOK
  <2>2. ASSUME NEW x \in Addrs, NEW y \in Addrs, sl2[x] # 0, sl2[x] = sl2[y]
        PROVE  x = y
    <3>1. CASE x # a /\ y # a
      BY <1>2, <2>1, <2>2, <3>1
    <3>2. CASE x = a \/ y = a
      BY <1>2, <1>3, <2>2, <3>2
    <3> QED BY <3>1, <3>2
  <2> QED BY <2>2
<1>7. \A i, j \in 1..Len(more) : more[i] = more[j] => i = j
  BY <1>2 DEF StoreOK
<1>8. \A x \in Addrs, i \in 1..Len(more) : sl2[x] # more[i]
  <2>1. \A x \in Addrs, i \in 1..Len(fr) : sl[x] # fr[i]
    BY DEF StoreOK
  <2>2. ASSUME NEW x \in Addrs, NEW i \in 1..Len(more)
        PROVE  sl2[x] # more[i]
    <3>1. CASE x = a
      BY <1>2, <1>3, <3>1
    <3>2. CASE x # a
      BY <1>2, <2>1, <3>2
    <3> QED BY <3>1, <3>2
  <2> QED BY <2>2
<1>9. ASSUME NEW e \in 1..n
      PROVE  (\E x \in Addrs : sl2[x] = e) \/ (\E i \in 1..Len(more) : more[i] = e)
  <2>1. CASE e = id
    BY <1>2, <2>1
  <2>2. CASE \E x \in Addrs : sl[x] = e
    <3>1. PICK x \in Addrs : sl[x] = e
      BY <2>2
    <3>2. x # a
      BY <3>1
    <3> QED BY <1>2, <3>1, <3>2
  <2>3. CASE e # id /\ \E i \in 1..Len(fr) : fr[i] = e
    <3>1. PICK i \in 1..Len(fr) : fr[i] = e
      BY <2>3
    <3>2. i # Len(fr)
      BY <2>3, <3>1 DEF id
    <3>3. i \in 1..Len(more)
      BY <1>1, <3>1, <3>2
    <3> QED BY <1>2, <3>1, <3>3, Zenon
  <2> QED BY <2>1, <2>2, <2>3 DEF StoreOK
<1> HIDE DEF id, sl2
<1>10. StoreOK(sl2, n, more)
  BY <1>4, <1>5, <1>6, <1>7, <1>8, <1>9 DEF StoreOK
<1> QED BY <1>10 DEF sl2, id

(* If no block is free and a slot is empty, there are fewer blocks than    *)
(* slots.                                                                  *)
LEMMA RoomForOne ==
    ASSUME NEW sl \in [Addrs -> Nat], NEW n \in Nat, StoreOK(sl, n, <<>>),
           NEW a \in Addrs, sl[a] = 0
    PROVE  n < Size
<1> DEFINE Others == Addrs \ {a}
           Slot == [id \in 1..n |-> CHOOSE x \in Others : sl[x] = id]
<1>1. \A id \in 1..n : \E x \in Others : sl[x] = id
  <2> SUFFICES ASSUME NEW id \in 1..n
               PROVE  \E x \in Others : sl[x] = id
    OBVIOUS
  <2>1. PICK x \in Addrs : sl[x] = id
    BY NoElements DEF StoreOK
  <2> QED BY <2>1
<1>2. \A id \in 1..n : Slot[id] \in Others /\ sl[Slot[id]] = id
  BY <1>1
<1>3. Slot \in Injection(1..n, Others)
  <2>1. Slot \in [1..n -> Others] /\ DOMAIN Slot = 1..n
    BY <1>2
  <2>2. \A x, y \in DOMAIN Slot : Slot[x] = Slot[y] => x = y
    BY <1>2, <2>1
  <2> HIDE DEF Slot, Others
  <2> QED BY <2>1, <2>2 DEF Injection, IsInjective
<1>4. IsFiniteSet(Others) /\ Cardinality(Others) = Size - 1
  <2>1. Size - 1 \in Int /\ 0 \in Int /\ Size - 1 >= 0
    BY SizesAssumption
  <2>2. IsFiniteSet(Addrs) /\ Cardinality(Addrs) = Size
    BY <2>1, FS_Interval, SizesAssumption DEF Addrs
  <2> QED BY <2>2, FS_RemoveElement
<1>5. Cardinality(1..n) <= Size - 1
  BY <1>3, <1>4, FS_Injection
<1>6. Cardinality(1..n) = n
  BY FS_Interval
<1> QED BY <1>5, <1>6, SizesAssumption

(* alloc_or_reuse() makes a new block.                                     *)
LEMMA AllocKeeps ==
    ASSUME NEW sl \in [Addrs -> Nat], NEW n \in Nat, StoreOK(sl, n, <<>>),
           NEW a \in Addrs, sl[a] = 0
    PROVE  StoreOK([sl EXCEPT ![a] = n + 1], n + 1, <<>>)
<1>1. n < Size
  BY RoomForOne
<1> QED BY <1>1, NoElements, SizesAssumption DEF StoreOK

(* clear_all_blocks_in().                                                  *)
LEMMA ClearKeeps ==
    ASSUME NEW n \in Nat, n <= Size
    PROVE  StoreOK([a \in Addrs |-> 0], n, [i \in 1..n |-> i])
<1>1. Len([i \in 1..n |-> i]) = n
  OBVIOUS
<1> QED BY <1>1 DEF StoreOK

-----------------------------------------------------------------------------
(* The steps.                                                              *)

(* Steps that leave the stores alone.                                      *)
LEMMA StoresKept ==
    ASSUME IInv, UNCHANGED stores, mem' \in [Addrs -> Ops], version' \in [Pages -> Nat],
           cached' \in [Cpus -> BOOLEAN],
           running' # Idle =>
                /\ running' \in [cpu : Cpus, block : Nat, next : Nat]
                /\ running'.block \in DOMAIN pool[running'.cpu]
                /\ running'.next \in DOMAIN pool[running'.cpu][running'.block].code
    PROVE  IInv'
<1>1. UNCHANGED <<slots, pool, freeList>>
  BY DEF stores
<1>2. TypeOK'
  BY <1>1 DEF IInv, TypeOK, Idle
<1>3. StoresOK'
  BY <1>1 DEF IInv, StoresOK
<1> QED BY <1>2, <1>3 DEF IInv

(* What the steps that decode have in common: block id of c's store now    *)
(* holds b, is in the slot of a, and runs; nothing else is moved.          *)
PutsBlock(c, a, b, id) ==
    /\ slots' \in [Cpus -> [Addrs -> Nat]] /\ freeList' \in [Cpus -> Seq(Nat)]
    /\ \A d \in Cpus \ {c} : slots'[d] = slots[d] /\ freeList'[d] = freeList[d]
    /\ pool' \in [Cpus -> Seq(Blocks)] /\ \A d \in Cpus \ {c} : pool'[d] = pool[d]
    /\ id \in DOMAIN pool'[c] /\ pool'[c][id] = b
    /\ \A i \in DOMAIN pool[c] : i # id => pool'[c][i] = pool[c][i]
    /\ slots'[c][a] = id /\ \A x \in Addrs \ {a} : slots'[c][x] = slots[c][x]
    /\ StoreOK(slots'[c], Len(pool'[c]), freeList'[c])
    /\ Execute(c, id) /\ UNCHANGED <<mem, version, cached>>

LEMMA DecodedKeeps ==
    ASSUME IInv, NEW c \in Cpus, NEW a \in Addrs, NEW b \in Compiled(a), NEW id \in Nat \ {0},
           PutsBlock(c, a, b, id)
    PROVE  IInv'
<1>1. \A d \in Cpus : StoreOK(slots'[d], Len(pool'[d]), freeList'[d])
  BY DEF IInv, StoresOK, PutsBlock
<1>2. 1 \in DOMAIN b.code
  <2>1. b.code \in Seq(Ops) /\ Len(b.code) \in Nat \ {0}
    BY CompiledBlock DEF IInv, Blocks
  <2> QED BY <2>1
<1>3. /\ running' \in [cpu : Cpus, block : Nat, next : Nat]
      /\ running'.block \in DOMAIN pool'[running'.cpu]
      /\ running'.next \in DOMAIN pool'[running'.cpu][running'.block].code
  BY <1>2 DEF Execute, PutsBlock
<1>4. \A d \in Cpus :
        /\ \A x \in Addrs : slots'[d][x] <= Len(pool'[d])
        /\ \A i \in DOMAIN freeList'[d] : freeList'[d][i] \in DOMAIN pool'[d]
  <2> SUFFICES ASSUME NEW d \in Cpus
               PROVE  /\ \A x \in Addrs : slots'[d][x] <= Len(pool'[d])
                      /\ \A i \in DOMAIN freeList'[d] : freeList'[d][i] \in DOMAIN pool'[d]
    OBVIOUS
  <2>1. DOMAIN pool'[d] = 1..Len(pool'[d]) /\ DOMAIN freeList'[d] = 1..Len(freeList'[d])
    BY DEF PutsBlock
  <2> QED BY <1>1, <2>1 DEF StoreOK
<1>5. /\ mem' \in [Addrs -> Ops] /\ version' \in [Pages -> Nat]
      /\ cached' \in [Cpus -> BOOLEAN]
  BY DEF IInv, TypeOK, PutsBlock
<1>6. TypeOK'
  BY <1>3, <1>4, <1>5 DEF TypeOK, PutsBlock
<1>7. StoresOK'
  BY <1>1 DEF StoresOK
<1> QED BY <1>6, <1>7 DEF IInv

(* A block of the store is replaced.                                       *)
LEMMA ReplaceBlock ==
    ASSUME IInv, NEW c \in Cpus, NEW id \in DOMAIN pool[c], NEW b \in Blocks,
           pool' = [pool EXCEPT ![c][id] = b]
    PROVE  /\ pool' \in [Cpus -> Seq(Blocks)]
           /\ Len(pool'[c]) = Len(pool[c]) /\ id \in DOMAIN pool'[c]
           /\ pool'[c][id] = b
           /\ \A i \in DOMAIN pool[c] : i # id => pool'[c][i] = pool[c][i]
           /\ \A d \in Cpus \ {c} : pool'[d] = pool[d]
<1>1. pool \in [Cpus -> Seq(Blocks)]
  BY DEF IInv, TypeOK
<1>2. /\ [pool[c] EXCEPT ![id] = b] \in Seq(Blocks)
      /\ Len([pool[c] EXCEPT ![id] = b]) = Len(pool[c])
      /\ \A i \in DOMAIN pool[c] : [pool[c] EXCEPT ![id] = b][i] = IF i = id THEN b ELSE pool[c][i]
  BY <1>1, ExceptSeq
<1>3. pool' = [pool EXCEPT ![c] = [pool[c] EXCEPT ![id] = b]]
  OBVIOUS
<1> QED BY <1>1, <1>2, <1>3

(* What the three steps that decode do to the store.                       *)
LEMMA EnterAgainStep ==
    ASSUME IInv, NEW c \in Cpus, NEW a \in Addrs, EnterAgain(c, a)
    PROVE  \E b \in Compiled(a), id \in Nat \ {0} : PutsBlock(c, a, b, id)
<1> DEFINE id == slots[c][a]
<1>1. PICK b \in Compiled(a) : pool' = [pool EXCEPT ![c][id] = b]
  BY DEF EnterAgain
<1>2. b \in Blocks
  BY CompiledBlock DEF IInv
<1>3. id \in DOMAIN pool[c] /\ id \in Nat \ {0}
  BY DEF IInv, TypeOK, EnterAgain
<1>4. /\ UNCHANGED <<mem, version, slots, freeList, cached>> /\ Execute(c, id)
      /\ slots \in [Cpus -> [Addrs -> Nat]] /\ freeList \in [Cpus -> Seq(Nat)]
      /\ StoreOK(slots[c], Len(pool[c]), freeList[c])
  BY DEF EnterAgain, IInv, TypeOK, StoresOK
<1>5. /\ pool' \in [Cpus -> Seq(Blocks)] /\ \A d \in Cpus \ {c} : pool'[d] = pool[d]
      /\ Len(pool'[c]) = Len(pool[c]) /\ id \in DOMAIN pool'[c] /\ pool'[c][id] = b
      /\ \A i \in DOMAIN pool[c] : i # id => pool'[c][i] = pool[c][i]
  <2> HIDE DEF id
  <2> QED BY <1>1, <1>2, <1>3, ReplaceBlock
<1>6. StoreOK(slots'[c], Len(pool'[c]), freeList'[c]) /\ slots'[c][a] = id
  BY <1>4, <1>5
<1> HIDE DEF id
<1>7. PutsBlock(c, a, b, id)
  BY <1>4, <1>5, <1>6 DEF PutsBlock
<1> QED BY <1>3, <1>7

LEMMA EnterReusedStep ==
    ASSUME IInv, NEW c \in Cpus, NEW a \in Addrs, EnterReused(c, a)
    PROVE  \E b \in Compiled(a), id \in Nat \ {0} : PutsBlock(c, a, b, id)
<1> DEFINE fr == freeList[c]
           id == fr[Len(fr)]
           more == SubSeq(fr, 1, Len(fr) - 1)
<1>1. PICK b \in Compiled(a) : pool' = [pool EXCEPT ![c][id] = b]
  BY DEF EnterReused
<1>2. b \in Blocks
  BY CompiledBlock DEF IInv
<1>3. /\ slots \in [Cpus -> [Addrs -> Nat]] /\ slots[c][a] = 0
      /\ fr \in Seq(Nat) /\ fr # <<>> /\ Len(fr) \in 1..Len(fr)
      /\ StoreOK(slots[c], Len(pool[c]), fr) /\ pool[c] \in Seq(Blocks)
  BY DEF IInv, TypeOK, StoresOK, EnterReused
<1>4. id \in DOMAIN pool[c] /\ id \in Nat \ {0}
  BY <1>3 DEF StoreOK
<1>5. /\ pool' \in [Cpus -> Seq(Blocks)] /\ \A d \in Cpus \ {c} : pool'[d] = pool[d]
      /\ Len(pool'[c]) = Len(pool[c]) /\ id \in DOMAIN pool'[c] /\ pool'[c][id] = b
      /\ \A i \in DOMAIN pool[c] : i # id => pool'[c][i] = pool[c][i]
  <2> HIDE DEF id
  <2> QED BY <1>1, <1>2, <1>4, ReplaceBlock
<1>6. /\ more \in Seq(Nat) /\ Len(more) = Len(fr) - 1
      /\ \A i \in 1..(Len(fr) - 1) : more[i] = fr[i]
  <2> HIDE DEF fr
  <2> QED BY <1>3, AllButLast
<1>7. StoreOK([slots[c] EXCEPT ![a] = id], Len(pool[c]), more)
  <2>1. slots[c] \in [Addrs -> Nat] /\ Len(pool[c]) \in Nat
    BY <1>3
  <2> HIDE DEF more, fr
  <2> QED BY <1>3, <1>6, <2>1, ReuseKeeps
<1>8. /\ slots' \in [Cpus -> [Addrs -> Nat]] /\ slots'[c] = [slots[c] EXCEPT ![a] = id]
      /\ slots'[c][a] = id /\ \A x \in Addrs \ {a} : slots'[c][x] = slots[c][x]
      /\ \A d \in Cpus \ {c} : slots'[d] = slots[d]
  <2>1. slots' = [slots EXCEPT ![c] = [slots[c] EXCEPT ![a] = id]]
    BY DEF EnterReused
  <2> HIDE DEF id
  <2> QED BY <1>3, <1>4, <2>1
<1>9. /\ freeList' \in [Cpus -> Seq(Nat)] /\ freeList'[c] = more
      /\ \A d \in Cpus \ {c} : freeList'[d] = freeList[d]
  <2>1. freeList' = [freeList EXCEPT ![c] = more] /\ freeList \in [Cpus -> Seq(Nat)]
    BY DEF EnterReused, IInv, TypeOK
  <2> HIDE DEF more
  <2> QED BY <1>6, <2>1
<1>10. Execute(c, id) /\ UNCHANGED <<mem, version, cached>>
  BY DEF EnterReused
<1>11. StoreOK(slots'[c], Len(pool'[c]), freeList'[c])
  BY <1>5, <1>7, <1>8, <1>9
<1> HIDE DEF id, more, fr
<1>12. PutsBlock(c, a, b, id)
  BY <1>5, <1>8, <1>9, <1>10, <1>11 DEF PutsBlock
<1> QED BY <1>4, <1>12

LEMMA EnterNewStep ==
    ASSUME IInv, NEW c \in Cpus, NEW a \in Addrs, EnterNew(c, a)
    PROVE  \E b \in Compiled(a), id \in Nat \ {0} : PutsBlock(c, a, b, id)
<1> DEFINE n == Len(pool[c])
           id == n + 1
<1>1. PICK b \in Compiled(a) : pool' = [pool EXCEPT ![c] = Append(pool[c], b)]
  BY DEF EnterNew
<1>2. b \in Blocks
  BY CompiledBlock DEF IInv
<1>3. /\ slots \in [Cpus -> [Addrs -> Nat]] /\ slots[c][a] = 0
      /\ freeList \in [Cpus -> Seq(Nat)] /\ freeList[c] = <<>>
      /\ StoreOK(slots[c], n, freeList[c])
      /\ pool \in [Cpus -> Seq(Blocks)] /\ n \in Nat /\ DOMAIN pool[c] = 1..n
  BY DEF IInv, TypeOK, StoresOK, EnterNew
<1>4. /\ Append(pool[c], b) \in Seq(Blocks) /\ Len(Append(pool[c], b)) = id
      /\ Append(pool[c], b)[id] = b
      /\ \A i \in DOMAIN pool[c] : Append(pool[c], b)[i] = pool[c][i]
  BY <1>2, <1>3, AppendProperties
<1>5. /\ pool' \in [Cpus -> Seq(Blocks)] /\ \A d \in Cpus \ {c} : pool'[d] = pool[d]
      /\ Len(pool'[c]) = id /\ pool'[c][id] = b /\ DOMAIN pool'[c] = 1..id
      /\ \A i \in DOMAIN pool[c] : pool'[c][i] = pool[c][i]
  <2>1. pool'[c] = Append(pool[c], b) /\ \A d \in Cpus \ {c} : pool'[d] = pool[d]
    BY <1>1, <1>3
  <2>2. pool' \in [Cpus -> Seq(Blocks)]
    BY <1>1, <1>3, <1>4
  <2> QED BY <1>4, <2>1, <2>2
<1>6. StoreOK([slots[c] EXCEPT ![a] = id], id, <<>>)
  BY <1>3, AllocKeeps
<1>7. /\ slots' \in [Cpus -> [Addrs -> Nat]] /\ slots'[c] = [slots[c] EXCEPT ![a] = id]
      /\ slots'[c][a] = id /\ \A x \in Addrs \ {a} : slots'[c][x] = slots[c][x]
      /\ \A d \in Cpus \ {c} : slots'[d] = slots[d]
  <2>1. slots' = [slots EXCEPT ![c] = [slots[c] EXCEPT ![a] = id]] /\ id \in Nat
    BY <1>3 DEF EnterNew
  <2> HIDE DEF id
  <2> QED BY <1>3, <2>1
<1>8. Execute(c, id) /\ UNCHANGED <<mem, version, freeList, cached>>
  BY DEF EnterNew
<1>9. id \in Nat \ {0} /\ id \in 1..id
  BY <1>3
<1>10. StoreOK(slots'[c], Len(pool'[c]), freeList'[c])
  BY <1>3, <1>5, <1>6, <1>7, <1>8
<1> HIDE DEF id, n
<1>11. PutsBlock(c, a, b, id)
  BY <1>3, <1>5, <1>7, <1>8, <1>9, <1>10 DEF PutsBlock
<1> QED BY <1>9, <1>11

LEMMA ClearedStores ==
    ASSUME IInv, ClearAllBlocks
    PROVE  /\ slots' \in [Cpus -> [Addrs -> Nat]]
           /\ \A c \in Cpus, a \in Addrs : slots'[c][a] = 0
           /\ pool' \in [Cpus -> Seq(Blocks)] /\ freeList' \in [Cpus -> Seq(Nat)]
           /\ \A c \in Cpus : \A i \in DOMAIN freeList'[c] : freeList'[c][i] \in DOMAIN pool'[c]
           /\ StoresOK'
<1>1. slots' = [c \in Cpus |-> [a \in Addrs |-> 0]]
  BY DEF ClearAllBlocks, NoSlots
<1>2. \A c \in Cpus : /\ pool[c] \in Seq(Blocks) /\ Len(pool[c]) \in Nat
                      /\ DOMAIN pool[c] = 1..Len(pool[c]) /\ Len(pool[c]) <= Size
  <2>1. \A c \in Cpus : Len(pool[c]) <= Size
    BY DEF IInv, StoresOK, StoreOK
  <2>2. pool \in [Cpus -> Seq(Blocks)]
    BY DEF IInv, TypeOK
  <2> SUFFICES ASSUME NEW c \in Cpus
               PROVE  /\ pool[c] \in Seq(Blocks) /\ Len(pool[c]) \in Nat
                      /\ DOMAIN pool[c] = 1..Len(pool[c]) /\ Len(pool[c]) <= Size
    OBVIOUS
  <2>3. pool[c] \in Seq(Blocks)
    BY <2>2
  <2> QED BY <2>1, <2>3
<1>3. ASSUME NEW c \in Cpus
      PROVE  /\ pool'[c] \in Seq(Blocks) /\ Len(pool'[c]) = Len(pool[c])
             /\ freeList'[c] = [i \in 1..Len(pool[c]) |-> i]
  <2>1. \A i \in 1..Len(pool[c]) : Cleared(pool[c][i].addr) \in Blocks
    <3>1. \A i \in 1..Len(pool[c]) : pool[c][i] \in Blocks
      BY <1>2
    <3>2. \A i \in 1..Len(pool[c]) : pool[c][i].addr \in Addrs
      BY <3>1 DEF Blocks
    <3> QED BY <3>2, ClearedBlock
  <2>2. pool'[c] = [i \in 1..Len(pool[c]) |-> Cleared(pool[c][i].addr)]
    BY <1>2 DEF ClearAllBlocks
  <2>3. freeList'[c] = [i \in 1..Len(pool[c]) |-> i]
    BY <1>2 DEF ClearAllBlocks, AllOf
  <2> QED BY <1>2, <2>1, <2>2, <2>3
<1>4. \A c \in Cpus : freeList'[c] \in Seq(Nat) /\ DOMAIN pool'[c] = 1..Len(pool[c])
  <2> SUFFICES ASSUME NEW c \in Cpus
               PROVE  freeList'[c] \in Seq(Nat) /\ DOMAIN pool'[c] = 1..Len(pool[c])
    OBVIOUS
  <2>1. [i \in 1..Len(pool[c]) |-> i] \in Seq(Nat)
    BY <1>2
  <2>2. DOMAIN pool'[c] = 1..Len(pool'[c])
    BY <1>3
  <2> QED BY <1>3, <2>1, <2>2
<1>5. pool' \in [Cpus -> Seq(Blocks)] /\ freeList' \in [Cpus -> Seq(Nat)]
  BY <1>3, <1>4 DEF ClearAllBlocks
<1>6. StoresOK'
  <2> SUFFICES ASSUME NEW c \in Cpus
               PROVE  StoreOK(slots'[c], Len(pool'[c]), freeList'[c])
    BY DEF StoresOK
  <2>1. slots'[c] = [a \in Addrs |-> 0]
    BY <1>1
  <2> QED BY <1>2, <1>3, <2>1, ClearKeeps
<1> QED BY <1>1, <1>3, <1>4, <1>5, <1>6

(* Every step preserves the inductive invariant.                           *)
LEMMA NextInv ==
    ASSUME IInv, [Next]_vars
    PROVE  IInv'
<1>1. /\ mem \in [Addrs -> Ops] /\ version \in [Pages -> Nat] /\ cached \in [Cpus -> BOOLEAN]
      /\ slots \in [Cpus -> [Addrs -> Nat]] /\ pool \in [Cpus -> Seq(Blocks)]
  BY DEF IInv, TypeOK
<1>2. ASSUME NEW c \in Cpus, NEW a \in Addrs, EnterDecoded(c, a)
      PROVE  IInv'
  <2> DEFINE id == slots[c][a]
  <2>1. id \in Nat \ {0} /\ id <= Len(pool[c])
    BY <1>1, <1>2 DEF IInv, TypeOK, EnterDecoded, Hit
  <2>2. id \in DOMAIN pool[c] /\ pool[c][id] \in Blocks /\ pool[c][id].code # <<>>
    <3>1. pool[c] \in Seq(Blocks)
      BY <1>1
    <3> QED BY <2>1, <3>1, <1>2 DEF EnterDecoded, Hit
  <2>3. 1 \in DOMAIN pool[c][id].code
    <3>1. pool[c][id].code \in Seq(Ops)
      BY <2>2 DEF Blocks
    <3> HIDE DEF id
    <3> QED BY <2>2, <3>1
  <2>4. running' = [cpu |-> c, block |-> id, next |-> 1] /\ UNCHANGED <<mem, version, stores, cached>>
    BY <1>2 DEF EnterDecoded, Execute
  <2>5. id \in Nat
    BY <2>1
  <2> HIDE DEF id
  <2>6. /\ running' \in [cpu : Cpus, block : Nat, next : Nat]
        /\ running'.block \in DOMAIN pool[running'.cpu]
        /\ running'.next \in DOMAIN pool[running'.cpu][running'.block].code
    BY <2>2, <2>3, <2>4, <2>5
  <2> QED BY <1>1, <2>4, <2>6, StoresKept
<1>3. ASSUME NEW c \in Cpus, NEW a \in Addrs, EnterAgain(c, a) \/ EnterReused(c, a) \/ EnterNew(c, a)
      PROVE  IInv'
  BY <1>3, EnterAgainStep, EnterReusedStep, EnterNewStep, DecodedKeeps
<1>4. ASSUME NEW leave \in BOOLEAN, Instruction(leave)
      PROVE  IInv'
  <2> DEFINE code == pool[running.cpu][running.block].code
  <2>1. /\ running \in [cpu : Cpus, block : Nat, next : Nat]
        /\ running.block \in DOMAIN pool[running.cpu]
        /\ running.next \in DOMAIN code
    BY <1>4 DEF Instruction, IInv, TypeOK
  <2>2. code \in Seq(Ops)
    <3>1. pool[running.cpu] \in Seq(Blocks)
      BY <1>1, <2>1
    <3>2. pool[running.cpu][running.block] \in Blocks
      BY <2>1, <3>1
    <3> QED BY <3>2 DEF Blocks
  <2>3. UNCHANGED <<mem, version, stores, cached>>
    BY <1>4 DEF Instruction
  <2>4. CASE running' = Idle
    BY <1>1, <2>3, <2>4, StoresKept
  <2>5. CASE running' = [running EXCEPT !.next = running.next + 1] /\ running.next # Len(code)
    <3>1. running.next + 1 \in DOMAIN code
      <4> HIDE DEF code
      <4> QED BY <2>1, <2>2, <2>5
    <3>2. /\ running' \in [cpu : Cpus, block : Nat, next : Nat]
          /\ running'.cpu = running.cpu /\ running'.block = running.block
          /\ running'.next = running.next + 1
      BY <2>1, <2>5
    <3> QED BY <1>1, <2>1, <2>3, <3>1, <3>2, StoresKept
  <2> QED BY <1>4, <2>4, <2>5 DEF Instruction
<1>5. ASSUME NEW c \in Cpus, NEW x \in Addrs, NEW v \in Ops, Write(c, x, v)
      PROVE  IInv'
  <2>1. mem' \in [Addrs -> Ops] /\ UNCHANGED <<stores, cached, running>>
    BY <1>1, <1>5 DEF Write
  <2>2. version' \in [Pages -> Nat]
    BY <1>1, <1>5, PageInRegion DEF Write
  <2>3. UNCHANGED pool
    BY <2>1 DEF stores
  <2> QED BY <1>1, <2>1, <2>2, <2>3, StoresKept DEF IInv, TypeOK
<1>6. ASSUME NEW c \in Cpus, EnterCachedMode(c)
      PROVE  IInv'
  <2>1. /\ running' = Idle /\ cached' \in [Cpus -> BOOLEAN] /\ UNCHANGED <<mem, version>>
    BY <1>1, <1>6 DEF EnterCachedMode
  <2> QED BY <1>1, <1>6, <2>1, ClearedStores DEF IInv, TypeOK, EnterCachedMode
<1>7. ASSUME NEW c \in Cpus, ExitCachedMode(c)
      PROVE  IInv'
  <2>1. /\ running' = Idle /\ cached' \in [Cpus -> BOOLEAN] /\ UNCHANGED <<mem, version, stores>>
    BY <1>1, <1>7 DEF ExitCachedMode
  <2> QED BY <1>1, <2>1, StoresKept
<1>8. ASSUME NEW m \in [Addrs -> Ops], NEW anew \in BOOLEAN, Replace(m, anew)
      PROVE  IInv'
  <2>1. /\ running' = Idle /\ mem' \in [Addrs -> Ops] /\ version' \in [Pages -> Nat]
        /\ cached' \in [Cpus -> BOOLEAN]
    BY <1>1, <1>8 DEF Replace
  <2> QED BY <1>1, <1>8, <2>1, ClearedStores DEF IInv, TypeOK, Replace
<1>9. CASE UNCHANGED vars
  <2>1. UNCHANGED <<mem, version, stores, slots, pool, freeList, cached, running>>
    BY <1>9 DEF vars, stores
  <2> QED BY <1>1, <2>1, StoresKept DEF IInv, TypeOK
<1> QED BY <1>2, <1>3, <1>4, <1>5, <1>6, <1>7, <1>8, <1>9 DEF Next, Enter

-----------------------------------------------------------------------------
(* What the slots hold is faithful, if every CPU's writes are marked.      *)

(* A marked write: a block on its page is not current any more, any other  *)
(* is what the memory holds as before.                                     *)
LEMMA WriteKeepsFaithful ==
    ASSUME IInv, Marking = Cpus, NEW c \in Cpus, NEW x \in Addrs, NEW v \in Ops, Write(c, x, v),
           NEW a \in Addrs, NEW b \in Blocks, Len(b.code) \in Nat \ {0},
           Faithful(a, b, mem, version, Some)
    PROVE  Faithful(a, b, mem', version', Some')
<1> DEFINE n == Len(b.code)
           page == PageOf(x)
<1>1. /\ version \in [Pages -> Nat] /\ mem \in [Addrs -> Ops] /\ page \in Pages
      /\ a \in Nat /\ x \in Nat /\ n \in Nat \ {0}
  BY PageInRegion DEF IInv, TypeOK, Addrs
<1>2. b.pages = PageOf(a)..PageOf(a + n - 1) /\ b.pages \subseteq Pages /\ a + n <= Size
      /\ \A p \in b.pages : b.snap[p] <= version[p] /\ b.snap[p] \in Nat
  <2>1. b.snap \in [Pages -> Nat]
    BY DEF Blocks
  <2> QED BY <1>1, <2>1, PagesOfRegion DEF Faithful
<1>3. mem' = [mem EXCEPT ![x] = v] /\ Some' = Some
  BY DEF Write, Some
<1>4. CASE ~Some
  <2>1. version' = version
    BY <1>4 DEF Write, Marks, Some
  <2> QED BY <1>3, <1>4, <2>1 DEF Faithful
<1>5. CASE Some
  <2>1. version' = [version EXCEPT ![page] = version[page] + 1]
    BY <1>5 DEF Write, Marks, Some
  <2>2. \A p \in b.pages : b.snap[p] <= version'[p]
    BY <1>1, <1>2, <2>1
  <2>3. CASE page \in b.pages
    <3>1. version'[page] # b.snap[page]
      BY <1>1, <1>2, <2>1, <2>3
    <3> QED BY <2>2, <2>3, <3>1 DEF Faithful
  <2>4. CASE page \notin b.pages
    <3>1. \A p \in b.pages : version'[p] = version[p]
      BY <1>1, <1>2, <2>1, <2>4
    <3>2. ASSUME NEW i \in 1..n
          PROVE  mem'[a + i - 1] = mem[a + i - 1]
      <4>1. /\ a + i - 1 \in Nat /\ a <= a + i - 1 /\ a + i - 1 <= a + n - 1 /\ a + n - 1 \in Nat
        BY <1>1
      <4>2. PageOf(a + i - 1) \in PageOf(a)..PageOf(a + n - 1)
        <5> DEFINE y == a + i - 1
                   z == a + n - 1
        <5>1. y \in Nat /\ z \in Nat /\ a <= y /\ y <= z
          BY <4>1
        <5> HIDE DEF y, z
        <5>2. /\ PageOf(a) \in Nat /\ PageOf(y) \in Nat /\ PageOf(z) \in Nat
              /\ PageOf(a) <= PageOf(y) /\ PageOf(y) <= PageOf(z)
          BY <1>1, <5>1, PageMonotone
        <5>3. PageOf(y) \in PageOf(a)..PageOf(z)
          BY <5>2
        <5> QED BY <5>3 DEF y, z
      <4>3. a + i - 1 # x
        BY <1>2, <2>4, <4>2
      <4> QED BY <1>1, <1>3, <4>3
    <3> QED BY <1>3, <2>2, <3>1, <3>2 DEF Faithful
  <2> QED BY <2>3, <2>4
<1> QED BY <1>4, <1>5

LEMMA NextFaithful ==
    ASSUME IInv, AllFaithful, Marking = Cpus, [Next]_vars
    PROVE  AllFaithful'
<1>1. ASSUME NEW c \in Cpus, NEW a \in Addrs, slots[c][a] # 0
      PROVE  pool[c][slots[c][a]] \in Blocks
  <2>1. slots[c][a] \in DOMAIN pool[c] /\ pool[c] \in Seq(Blocks)
    BY <1>1 DEF IInv, TypeOK
  <2> QED BY <2>1
<1>2. ASSUME NEW c \in Cpus, NEW a \in Addrs,
             EnterAgain(c, a) \/ EnterReused(c, a) \/ EnterNew(c, a)
      PROVE  AllFaithful'
  <2>1. PICK b \in Compiled(a), id \in Nat \ {0} : PutsBlock(c, a, b, id)
    BY <1>2, EnterAgainStep, EnterReusedStep, EnterNewStep
  <2>2. UNCHANGED <<mem, version, Some>>
    BY <2>1 DEF PutsBlock, Some
  <2>3. ASSUME NEW d \in Cpus, NEW x \in Addrs, slots'[d][x] # 0,
               pool'[d][slots'[d][x]].code # <<>>
        PROVE  Faithful(x, pool'[d][slots'[d][x]], mem', version', Some')
    <3>1. CASE d = c /\ x = a
      <4>1. Faithful(a, b, mem, version, Some)
        BY CompiledBlock DEF IInv
      <4>2. pool'[d][slots'[d][x]] = b
        BY <2>1, <3>1 DEF PutsBlock
      <4> QED BY <2>2, <3>1, <4>1, <4>2
    <3>2. CASE ~(d = c /\ x = a)
      <4>1. slots'[d][x] = slots[d][x] /\ slots[d][x] # 0
        BY <2>1, <2>3, <3>2 DEF PutsBlock
      <4>2. pool'[d][slots[d][x]] = pool[d][slots[d][x]]
        <5>1. CASE d # c
          BY <2>1, <5>1 DEF PutsBlock
        <5>2. CASE d = c /\ x # a
          <6>1. slots'[c][x] # slots'[c][a]
            BY <2>1, <2>3, <5>2 DEF PutsBlock, StoreOK
          <6>2. slots[c][x] # id /\ slots[c][x] \in DOMAIN pool[c]
            BY <2>1, <4>1, <5>2, <6>1 DEF PutsBlock, IInv, TypeOK
          <6> QED BY <2>1, <5>2, <6>2 DEF PutsBlock
        <5> QED BY <3>2, <5>1, <5>2
      <4>3. Faithful(x, pool[d][slots[d][x]], mem, version, Some)
        BY <2>3, <4>1, <4>2 DEF AllFaithful
      <4> QED BY <2>2, <4>1, <4>2, <4>3
    <3> QED BY <3>1, <3>2
  <2> QED BY <2>3 DEF AllFaithful
<1>3. CASE UNCHANGED <<mem, version, slots, pool, cached>>
  <2>1. Some' = Some
    BY <1>3 DEF Some
  <2> QED BY <1>3, <2>1 DEF AllFaithful
<1>4. ASSUME NEW c \in Cpus, NEW x \in Addrs, NEW v \in Ops, Write(c, x, v)
      PROVE  AllFaithful'
  <2>1. UNCHANGED <<slots, pool>>
    BY <1>4 DEF Write, stores
  <2>2. ASSUME NEW d \in Cpus, NEW a \in Addrs, slots[d][a] # 0,
               pool[d][slots[d][a]].code # <<>>
        PROVE  Faithful(a, pool[d][slots[d][a]], mem', version', Some')
    <3> DEFINE b == pool[d][slots[d][a]]
    <3>1. b \in Blocks /\ Faithful(a, b, mem, version, Some)
      BY <1>1, <2>2 DEF AllFaithful
    <3>2. Len(b.code) \in Nat \ {0}
      <4>1. b.code \in Seq(Ops)
        BY <3>1 DEF Blocks
      <4>2. b.code # <<>>
        BY <2>2
      <4> HIDE DEF b
      <4> DEFINE code == b.code
      <4>3. code \in Seq(Ops) /\ code # <<>>
        BY <4>1, <4>2
      <4> HIDE DEF code
      <4>4. Len(code) \in Nat \ {0}
        BY <4>3
      <4> QED BY <4>4 DEF code
    <3> HIDE DEF b
    <3>3. Faithful(a, b, mem', version', Some')
      BY <1>4, <3>1, <3>2, WriteKeepsFaithful
    <3> QED BY <3>3 DEF b
  <2> QED BY <2>1, <2>2 DEF AllFaithful
<1>5. CASE ClearAllBlocks
  BY <1>5, ClearedStores DEF AllFaithful
<1>6. ASSUME NEW c \in Cpus, ExitCachedMode(c)
      PROVE  AllFaithful'
  <2>1. UNCHANGED <<mem, version, slots, pool>> /\ cached' = [cached EXCEPT ![c] = FALSE]
    BY <1>6 DEF ExitCachedMode, stores
  <2>2. Some' => Some
    BY <2>1 DEF IInv, TypeOK, Some
  <2>3. ASSUME NEW d \in Cpus, NEW a \in Addrs,
               slots[d][a] # 0, pool[d][slots[d][a]].code # <<>>
        PROVE  Faithful(a, pool[d][slots[d][a]], mem, version, Some')
    <3> DEFINE b == pool[d][slots[d][a]]
    <3>1. Faithful(a, b, mem, version, Some)
      BY <2>3 DEF AllFaithful
    <3> HIDE DEF b
    <3>2. Faithful(a, b, mem, version, Some')
      BY <2>2, <3>1 DEF Faithful
    <3> QED BY <3>2 DEF b
  <2> QED BY <2>1, <2>3, Zenon DEF AllFaithful
<1>7. ASSUME NEW c \in Cpus, NEW a \in Addrs, EnterDecoded(c, a)
      PROVE  AllFaithful'
  BY <1>3, <1>7 DEF EnterDecoded, stores
<1>8. ASSUME NEW leave \in BOOLEAN, Instruction(leave)
      PROVE  AllFaithful'
  BY <1>3, <1>8 DEF Instruction, stores
<1>9. CASE UNCHANGED vars
  BY <1>3, <1>9 DEF vars
<1> QED BY <1>2, <1>4, <1>5, <1>6, <1>7, <1>8, <1>9 DEF Next, Enter, EnterCachedMode, Replace

-----------------------------------------------------------------------------
(* The theorems.                                                           *)

(* A block that is found current is one that decoding would give.          *)
LEMMA HitIsFaithful ==
    ASSUME IInv, AllFaithful, NEW c \in Cpus, cached[c], NEW a \in Addrs, Hit(c, a)
    PROVE  LET code == pool[c][slots[c][a]].code IN
           /\ code \in Seq(Ops) /\ code # <<>> /\ C!Whole(code)
           /\ Len(code) <= MaxBlock /\ a + Len(code) <= Size
           /\ \A i \in 1..Len(code) : code[i] = mem[a + i - 1]
<1>1. slots[c][a] \in DOMAIN pool[c] /\ pool[c] \in Seq(Blocks)
  BY DEF IInv, TypeOK, Hit
<1>2. pool[c][slots[c][a]] \in Blocks
  BY <1>1
<1>3. Faithful(a, pool[c][slots[c][a]], mem, version, Some)
  BY DEF AllFaithful, Hit
<1>4. Some /\ \A p \in pool[c][slots[c][a]].pages :
                version[p] = pool[c][slots[c][a]].snap[p]
  BY DEF Some, Hit, Current
<1>5. pool[c][slots[c][a]].code \in Seq(Ops)
  BY <1>2 DEF Blocks
<1> QED BY <1>3, <1>4, <1>5 DEF Faithful, Hit

(* Types, for any CPUs, region, pages and instructions.                    *)
THEOREM TypeCorrect == Spec => []TypeOK
<1>1. Init => IInv
  BY InitInv
<1>2. IInv /\ [Next]_vars => IInv'
  BY NextInv
<1>3. IInv => TypeOK
  BY DEF IInv
<1> QED BY <1>1, <1>2, <1>3, PTL DEF Spec

(* No block serves two addresses, no free block is in use or free twice,   *)
(* and there are never more blocks than addresses.                         *)
THEOREM OwnersUnique == Spec => []OneOwner
<1>1. Init => IInv
  BY InitInv
<1>2. IInv /\ [Next]_vars => IInv'
  BY NextInv
<1>3. ASSUME IInv
      PROVE  OneOwner
  <2> SUFFICES ASSUME NEW c \in Cpus
               PROVE  /\ \A a, b \in Addrs : slots[c][a] # 0 /\ slots[c][a] = slots[c][b] => a = b
                      /\ \A i, j \in DOMAIN freeList[c] : freeList[c][i] = freeList[c][j] => i = j
                      /\ \A a \in Addrs, i \in DOMAIN freeList[c] : slots[c][a] # freeList[c][i]
                      /\ Len(pool[c]) <= Size
    BY DEF OneOwner
  <2>1. freeList[c] \in Seq(Nat) /\ StoreOK(slots[c], Len(pool[c]), freeList[c])
    BY <1>3 DEF IInv, TypeOK, StoresOK
  <2>2. DOMAIN freeList[c] = 1..Len(freeList[c])
    BY <2>1
  <2> QED BY <2>1, <2>2 DEF StoreOK
<1> QED BY <1>1, <1>2, <1>3, PTL DEF Spec

(* If the write functions of every CPU mark their page, no CPU ever runs a *)
(* decoded block that is not what the memory holds.                        *)
THEOREM NeverStale ==
    ASSUME Marking = Cpus
    PROVE  Spec => []NothingStale
<1>1. Init => IInv /\ AllFaithful
  BY InitInv
<1>2. IInv /\ AllFaithful /\ [Next]_vars => IInv' /\ AllFaithful'
  BY NextInv, NextFaithful
<1>3. ASSUME IInv, AllFaithful
      PROVE  NothingStale
  <2> SUFFICES ASSUME NEW c \in Cpus, NEW a \in Addrs, cached[c], Hit(c, a)
               PROVE  LET code == pool[c][slots[c][a]].code
                      IN  /\ \A i \in 1..Len(code) : a + i - 1 < Size /\ code[i] = mem[a + i - 1]
                          /\ C!Whole(code)
    BY DEF NothingStale
  <2> DEFINE code == pool[c][slots[c][a]].code
  <2>1. /\ code \in Seq(Ops) /\ C!Whole(code) /\ a + Len(code) <= Size
        /\ \A i \in 1..Len(code) : code[i] = mem[a + i - 1]
    BY <1>3, HitIsFaithful
  <2>2. a \in Nat /\ Len(code) \in Nat
    BY <2>1 DEF Addrs
  <2> HIDE DEF code
  <2>3. \A i \in 1..Len(code) : a + i - 1 < Size
    BY <2>1, <2>2, SizesAssumption
  <2> QED BY <2>1, <2>3 DEF code
<1> QED BY <1>1, <1>2, <1>3, PTL DEF Spec

(* A step of the cache is a step of the memory without a cache, or none.   *)
LEMMA StepRefines ==
    ASSUME IInv, AllFaithful, Marking = Cpus, [Next]_vars
    PROVE  [C!Next]_(C!vars)
<1> USE DEF C!vars
<1>1. ASSUME NEW c \in Cpus, NEW a \in Addrs, NEW id \in Nat \ {0}, NEW code,
             running = Idle, running' = [cpu |-> c, block |-> id, next |-> 1],
             pool'[c][id].code = code, code \in Seq(Ops), code \in C!BlocksAt(mem, a),
             mem' = mem
      PROVE  C!Begin(a)
  <2>1. Rest = <<>>
    BY <1>1 DEF Rest
  <2>2. Rest' = SubSeq(code, 1, Len(code))
    BY <1>1 DEF Rest, Idle
  <2>3. Rest' = code
    BY <1>1, <2>2, SubSeqFull
  <2> QED BY <1>1, <2>1, <2>3 DEF C!Begin
<1>2. ASSUME NEW c \in Cpus, NEW a \in Addrs, EnterDecoded(c, a)
      PROVE  C!Begin(a)
  <2> DEFINE id == slots[c][a]
             code == pool[c][id].code
  <2>1. id \in Nat \ {0} /\ Hit(c, a) /\ cached[c] /\ running = Idle /\ mem' = mem
        /\ pool' = pool /\ running' = [cpu |-> c, block |-> id, next |-> 1]
    BY <1>2 DEF EnterDecoded, Hit, CanEnter, Execute, stores, IInv, TypeOK
  <2>2. /\ code \in Seq(Ops) /\ code # <<>> /\ C!Whole(code)
        /\ Len(code) <= MaxBlock /\ a + Len(code) <= Size
        /\ \A i \in 1..Len(code) : code[i] = mem[a + i - 1]
    BY <2>1, HitIsFaithful
  <2> HIDE DEF id
  <2>3. code \in C!BlocksAt(mem, a)
    <3> HIDE DEF code
    <3>1. Len(code) \in Nat \ {0}
      BY <2>2
    <3>2. code = C!Fetch(mem, a, Len(code))
      BY <2>2 DEF C!Fetch
    <3>3. Len(code) \in 1..MaxBlock
      BY <2>2, <3>1, SizesAssumption
    <3> QED BY <2>2, <3>2, <3>3 DEF C!BlocksAt
  <2>4. pool'[c][id].code = code
    BY <2>1
  <2> HIDE DEF code
  <2> QED BY <1>1, <2>1, <2>2, <2>3, <2>4
<1>3. ASSUME NEW c \in Cpus, NEW a \in Addrs,
             EnterAgain(c, a) \/ EnterReused(c, a) \/ EnterNew(c, a)
      PROVE  C!Begin(a)
  <2>1. PICK b \in Compiled(a), id \in Nat \ {0} : PutsBlock(c, a, b, id)
    BY <1>3, EnterAgainStep, EnterReusedStep, EnterNewStep
  <2>2. running = Idle
    BY <1>3 DEF EnterAgain, EnterReused, EnterNew, CanEnter
  <2>3. b.code \in C!BlocksAt(mem, a) /\ b.code \in Seq(Ops)
    BY CompiledBlock DEF IInv, Blocks
  <2>4. /\ mem' = mem /\ running' = [cpu |-> c, block |-> id, next |-> 1]
        /\ pool'[c][id].code = b.code
    BY <2>1 DEF PutsBlock, Execute
  <2> QED BY <1>1, <2>2, <2>3, <2>4
<1>4. ASSUME NEW leave \in BOOLEAN, Instruction(leave)
      PROVE  C!Run
  <2> DEFINE code == pool[running.cpu][running.block].code
             k == running.next
  <2>1. /\ running # Idle /\ mem' = mem /\ pool' = pool
        /\ running.cpu \in Cpus /\ running.block \in DOMAIN pool[running.cpu]
        /\ running.block \in Nat /\ k \in DOMAIN code
    BY <1>4 DEF Instruction, stores, IInv, TypeOK
  <2>2. code \in Seq(Ops)
    <3>1. pool[running.cpu] \in Seq(Blocks)
      BY <2>1 DEF IInv, TypeOK
    <3>2. pool[running.cpu][running.block] \in Blocks
      BY <2>1, <3>1
    <3> QED BY <3>2 DEF Blocks
  <2>3. Rest = SubSeq(code, k, Len(code))
    BY <2>1 DEF Rest
  <2>4. k \in 1..Len(code) /\ Len(code) \in k..Len(code) /\ k \in Nat /\ Len(code) \in Nat
    <3> HIDE DEF code, k
    <3> QED BY <2>1, <2>2
  <2>5. Rest # <<>>
    <3> HIDE DEF code, k
    <3>1. Len(SubSeq(code, k, Len(code))) = Len(code) - k + 1
      <4>1. \A i \in k..Len(code) : code[i] \in Ops
        BY <2>2, <2>4
      <4> QED BY <2>4, <4>1, SubSeqProperties
    <3>2. Len(SubSeq(code, k, Len(code))) # 0
      BY <2>4, <3>1
    <3> QED BY <2>3, <3>2, NoElements
  <2>6. CASE running' = Idle
    <3>1. Rest' = <<>>
      BY <2>6 DEF Rest
    <3> QED BY <2>1, <2>5, <3>1 DEF C!Run
  <2>7. CASE running' # Idle
    <3>1. running' = [running EXCEPT !.next = k + 1]
      BY <1>4, <2>7 DEF Instruction
    <3>2. running \in [cpu : Cpus, block : Nat, next : Nat]
      BY <2>1 DEF IInv, TypeOK
    <3>3. /\ running'.next = k + 1 /\ running'.cpu = running.cpu
          /\ running'.block = running.block
      BY <3>1, <3>2
    <3>4. Rest' = SubSeq(code, k + 1, Len(code))
      BY <2>1, <2>7, <3>3 DEF Rest
    <3>5. Tail(SubSeq(code, k, Len(code))) = SubSeq(code, k + 1, Len(code))
      <4> HIDE DEF code, k
      <4> QED BY <2>2, <2>4, HeadTailOfSubSeq
    <3> HIDE DEF code, k
    <3> QED BY <2>1, <2>3, <2>5, <3>4, <3>5 DEF C!Run
  <2> QED BY <2>6, <2>7
<1>5. ASSUME NEW c \in Cpus, NEW x \in Addrs, NEW v \in Ops, Write(c, x, v)
      PROVE  C!Store(x, v)
  <2>1. mem' = [mem EXCEPT ![x] = v] /\ UNCHANGED <<pool, running>>
    BY <1>5 DEF Write, stores
  <2> QED BY <2>1 DEF C!Store, Rest
<1>6. ASSUME NEW c \in Cpus, EnterCachedMode(c) \/ ExitCachedMode(c)
      PROVE  UNCHANGED C!vars
  BY <1>6 DEF EnterCachedMode, ExitCachedMode, Rest
<1>7. ASSUME NEW m \in [Addrs -> Ops], NEW anew \in BOOLEAN, Replace(m, anew)
      PROVE  C!Replace
  BY <1>7 DEF Replace, C!Replace, C!Addrs, Addrs, Rest
<1>8. CASE UNCHANGED vars
  BY <1>8 DEF vars, Rest
<1>9. C!Addrs = Addrs
  BY DEF C!Addrs, Addrs
<1> QED BY <1>2, <1>3, <1>4, <1>5, <1>6, <1>7, <1>8, <1>9 DEF Next, Enter, C!Next

(* If every CPU's write functions mark their page, a program cannot tell   *)
(* the cache from a memory without one.                                    *)
THEOREM CacheIsInvisible ==
    ASSUME Marking = Cpus
    PROVE  Spec => CodeSpec
<1>1. Init => IInv /\ AllFaithful
  BY InitInv
<1>2. IInv /\ AllFaithful /\ [Next]_vars => IInv' /\ AllFaithful'
  BY NextInv, NextFaithful
<1>3. Init => C!Init
  BY DEF Init, Rest, C!Init, C!Addrs, Addrs
<1>4. IInv /\ AllFaithful /\ [Next]_vars => [C!Next]_(C!vars)
  BY StepRefines
<1> QED BY <1>1, <1>2, <1>3, <1>4, PTL DEF Spec, CodeSpec, C!Spec
=============================================================================
