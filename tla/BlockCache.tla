----------------------------- MODULE BlockCache -----------------------------
(***************************************************************************)
(* The block cache of the ARM cores, block_cache_better.h, with what uses  *)
(* it: get_next_block and execute_cached_block (arm32/cached.h), the write *)
(* functions of the bus and the switching between cached and interpreted   *)
(* execution (nds_bus.cpp).  One cache covers one region of memory and has *)
(* a store of blocks for each CPU that can execute from it.                *)
(*                                                                         *)
(* A write increments the version of the page it hits; a block remembers   *)
(* the versions of its pages at the time it was decoded, and is decoded    *)
(* anew if one of them has changed when it is looked up.                   *)
(*                                                                         *)
(* A decoded instruction is the halfword it was decoded from.  The garbage *)
(* collector and the handling of counters about to wrap have no caller.    *)
(***************************************************************************)
EXTENDS Naturals, Sequences

CONSTANTS
    Cpus,       \* the CPUs that execute from the region
    Marking,    \* those whose write functions call mark_dirty()
    Size,       \* the region's halfwords
    PageSize,   \* halfwords of a page
    Ops,        \* what a halfword holds
    Ends,       \* the instructions that end a block
    MaxBlock,   \* cached_max_block_size
    MaxVersion  \* bound on page versions, below 2^32, where they wrap

ASSUME SizesAssumption ==
    /\ Size \in Nat \ {0} /\ PageSize \in Nat \ {0}
    /\ MaxBlock \in Nat \ {0} /\ MaxVersion \in Nat
ASSUME OpsAssumption == Ends \subseteq Ops /\ Marking \subseteq Cpus

VARIABLES
    mem,        \* the region
    version,    \* page_version
    slots,      \* slots of each store: the index of a block in pool, or 0
    pool,       \* pool: every block there is
    freeList,   \* free_list: indices into pool
    cached,     \* cached_mode of each CPU
    running     \* the block that is executed, and the next instruction in it

stores == <<slots, pool, freeList>>
vars == <<mem, version, slots, pool, freeList, cached, running>>

Addrs == 0..(Size - 1)
PageOf(a) == a \div PageSize
Pages == PageOf(0)..PageOf(Size - 1)

Idle == [cpu |-> 0, block |-> 0, next |-> 1]

\* What is left of the block that is executed.
Rest ==
    IF running = Idle THEN <<>>
    ELSE LET code == pool[running.cpu][running.block].code
         IN  SubSeq(code, running.next, Len(code))

C == INSTANCE CodeMemory WITH rest <- Rest

\* page_first and page_span: the pages of a block of n instructions.
\* Mutant: only the first page.
PagesOfMutant(a, n) == {PageOf(a)}

PagesOf(a, n) == PageOf(a)..PageOf(a + n - 1)

\* version_snap: the versions of the block's pages, 0 for the others.
Snapshot(pages) == [p \in Pages |-> IF p \in pages THEN version[p] ELSE 0]

\* clear(): no code, so that get_block() does not look at the snapshot, which
\* the code leaves as it was.
Cleared(a) == [addr |-> a, code |-> <<>>, pages |-> {}, snap |-> [p \in Pages |-> 0]]

\* compile_cached_block_into() and commit(), on a block that was empty.  That
\* a block stays inside of the region is commit()'s assertion.
Compiled(a) ==
    {LET pages == PagesOf(a, Len(code))
     IN  [addr |-> a, code |-> code, pages |-> pages, snap |-> Snapshot(pages)] :
        code \in C!BlocksAt(mem, a)}

\* get_block(): is every page still the one that was decoded?
Current(b) == \A p \in b.pages : version[p] = b.snap[p]

Hit(c, a) ==
    /\ slots[c][a] # 0
    /\ pool[c][slots[c][a]].code # <<>>
    /\ Current(pool[c][slots[c][a]])

-----------------------------------------------------------------------------
(* get_next_block(): the three ways to come by a block at a.               *)
Execute(c, id) == running' = [cpu |-> c, block |-> id, next |-> 1]

CanEnter(c) == cached[c] /\ running = Idle

EnterDecoded(c, a) ==
    /\ CanEnter(c)
    /\ Hit(c, a)
    /\ Execute(c, slots[c][a])
    /\ UNCHANGED <<mem, version, stores, cached>>

EnterAgain(c, a) ==
    /\ CanEnter(c)
    /\ slots[c][a] # 0 /\ ~Hit(c, a)
    /\ \E b \in Compiled(a) : pool' = [pool EXCEPT ![c][slots[c][a]] = b]
    /\ Execute(c, slots[c][a])
    /\ UNCHANGED <<mem, version, slots, freeList, cached>>

\* alloc_or_reuse(): the block last freed, or else a new one.
EnterReused(c, a) ==
    /\ CanEnter(c)
    /\ slots[c][a] = 0 /\ freeList[c] # <<>>
    /\ LET id == freeList[c][Len(freeList[c])] IN
        /\ \E b \in Compiled(a) : pool' = [pool EXCEPT ![c][id] = b]
        /\ slots' = [slots EXCEPT ![c][a] = id]
        /\ Execute(c, id)
    /\ freeList' = [freeList EXCEPT ![c] = SubSeq(@, 1, Len(@) - 1)]
    /\ UNCHANGED <<mem, version, cached>>

EnterNew(c, a) ==
    /\ CanEnter(c)
    /\ slots[c][a] = 0 /\ freeList[c] = <<>>
    /\ LET id == Len(pool[c]) + 1 IN
        /\ \E b \in Compiled(a) : pool' = [pool EXCEPT ![c] = Append(@, b)]
        /\ slots' = [slots EXCEPT ![c][a] = id]
        /\ Execute(c, id)
    /\ UNCHANGED <<mem, version, freeList, cached>>

\* execute_cached_block(): one instruction.  A branch, an interrupt or a halt
\* leaves the block.
\* Mutant: one instruction too many.
InstructionMutant(leave) ==
    /\ running # Idle
    /\ running' = IF leave \/ running.next > Len(pool[running.cpu][running.block].code)
                  THEN Idle ELSE [running EXCEPT !.next = @ + 1]
    /\ UNCHANGED <<mem, version, stores, cached>>

Instruction(leave) ==
    /\ running # Idle
    /\ running' = IF leave \/ running.next = Len(pool[running.cpu][running.block].code)
                  THEN Idle ELSE [running EXCEPT !.next = @ + 1]
    /\ UNCHANGED <<mem, version, stores, cached>>

-----------------------------------------------------------------------------
(* A store through the bus of CPU c: by an instruction of a block or of    *)
(* the interpreter, or by c's DMA.  remap_cached_write_funcs() leaves the  *)
(* marking out while no CPU runs blocks.                                   *)
Marks(c) == c \in Marking /\ \E d \in Cpus : cached[d]

Write(c, x, v) ==
    /\ version[PageOf(x)] < MaxVersion
    /\ version' = IF Marks(c) THEN [version EXCEPT ![PageOf(x)] = @ + 1] ELSE version
    /\ mem' = [mem EXCEPT ![x] = v]
    /\ UNCHANGED <<stores, cached, running>>

-----------------------------------------------------------------------------
NoSlots == [c \in Cpus |-> [a \in Addrs |-> 0]]
AllOf(s) == [i \in DOMAIN s |-> i]

\* clear_all_blocks(): every block of every store, used or not, is free.
\* Mutant: the list of free blocks is added to, not started anew.
ClearAllBlocksMutant ==
    /\ slots' = NoSlots
    /\ pool' = [c \in Cpus |-> [i \in DOMAIN pool[c] |-> Cleared(pool[c][i].addr)]]
    /\ freeList' = [c \in Cpus |-> freeList[c] \o AllOf(pool[c])]

ClearAllBlocks ==
    /\ slots' = NoSlots
    /\ pool' = [c \in Cpus |-> [i \in DOMAIN pool[c] |-> Cleared(pool[c][i].addr)]]
    /\ freeList' = [c \in Cpus |-> AllOf(pool[c])]

\* Mutant: the blocks of an earlier time in cached mode are kept.
EnterCachedModeMutant(c) ==
    /\ running = Idle /\ ~cached[c]
    /\ cached' = [cached EXCEPT ![c] = TRUE]
    /\ UNCHANGED <<mem, version, stores, running>>

EnterCachedMode(c) ==
    /\ running = Idle /\ ~cached[c]
    /\ ClearAllBlocks
    /\ cached' = [cached EXCEPT ![c] = TRUE]
    /\ UNCHANGED <<mem, version, running>>

ExitCachedMode(c) ==
    /\ running = Idle /\ cached[c]
    /\ cached' = [cached EXCEPT ![c] = FALSE]
    /\ UNCHANGED <<mem, version, stores, running>>

\* A save state is loaded, the machine is reset, or an instruction maps other
\* banks into the region; a running block has no instructions left then.  Some
\* callers use reset(), which starts the versions anew.
Replace(m, anew) ==
    /\ mem' = m
    /\ ClearAllBlocks
    /\ version' = IF anew THEN [p \in Pages |-> 1] ELSE version
    /\ running' = Idle
    /\ UNCHANGED cached

Init ==
    /\ mem \in [Addrs -> Ops]
    /\ version = [p \in Pages |-> 1]
    /\ slots = NoSlots
    /\ pool = [c \in Cpus |-> <<>>]
    /\ freeList = [c \in Cpus |-> <<>>]
    /\ cached = [c \in Cpus |-> TRUE]
    /\ running = Idle

Enter(c, a) ==
    EnterDecoded(c, a) \/ EnterAgain(c, a) \/ EnterReused(c, a) \/ EnterNew(c, a)

Next ==
    \/ \E c \in Cpus, a \in Addrs : Enter(c, a)
    \/ \E leave \in BOOLEAN : Instruction(leave)
    \/ \E c \in Cpus, x \in Addrs, v \in Ops : Write(c, x, v)
    \/ \E c \in Cpus : EnterCachedMode(c) \/ ExitCachedMode(c)
    \/ \E m \in [Addrs -> Ops], anew \in BOOLEAN : Replace(m, anew)

Spec == Init /\ [][Next]_vars

-----------------------------------------------------------------------------
(***************************************************************************)
(* Properties.                                                             *)
(***************************************************************************)
Blocks ==
    [addr : Addrs, code : Seq(Ops), pages : SUBSET Pages, snap : [Pages -> Nat]]

(* Types; and a running block is one of its CPU's, with an instruction     *)
(* left to execute.                                                        *)
TypeOK ==
    /\ mem \in [Addrs -> Ops]
    /\ version \in [Pages -> Nat]
    /\ slots \in [Cpus -> [Addrs -> Nat]]
    /\ pool \in [Cpus -> Seq(Blocks)]
    /\ freeList \in [Cpus -> Seq(Nat)]
    /\ \A c \in Cpus :
        /\ \A a \in Addrs : slots[c][a] <= Len(pool[c])
        /\ \A i \in DOMAIN freeList[c] : freeList[c][i] \in DOMAIN pool[c]
    /\ cached \in [Cpus -> BOOLEAN]
    /\ running # Idle =>
        /\ running \in [cpu : Cpus, block : Nat, next : Nat]
        /\ running.block \in DOMAIN pool[running.cpu]
        /\ running.next \in DOMAIN pool[running.cpu][running.block].code

(* What a CPU would execute at an address without decoding it is what the  *)
(* memory holds there, whoever wrote it last, by whichever CPU's bus, and  *)
(* whatever was switched between cached and interpreted execution since.   *)
NothingStale ==
    \A c \in Cpus, a \in Addrs : cached[c] /\ Hit(c, a) =>
        LET code == pool[c][slots[c][a]].code
        IN  /\ \A i \in 1..Len(code) : a + i - 1 < Size /\ code[i] = mem[a + i - 1]
            /\ C!Whole(code)

(* A block serves one address, and none while it is free; there are never  *)
(* more blocks than addresses, however often the blocks are cleared.       *)
OneOwner ==
    \A c \in Cpus :
        /\ \A a, b \in Addrs : slots[c][a] # 0 /\ slots[c][a] = slots[c][b] => a = b
        /\ \A i, j \in DOMAIN freeList[c] : freeList[c][i] = freeList[c][j] => i = j
        /\ \A a \in Addrs, i \in DOMAIN freeList[c] : slots[c][a] # freeList[c][i]
        /\ Len(pool[c]) <= Size

(* To a program, there is no cache: what runs is what the memory held when *)
(* the CPU came to it.                                                     *)
CodeSpec == C!Spec
=============================================================================
