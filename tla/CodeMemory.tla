----------------------------- MODULE CodeMemory -----------------------------
(***************************************************************************)
(* What a block cache promises to look like: a memory of instructions      *)
(* without a cache.  A CPU begins at some address and from there takes     *)
(* what the memory holds at that moment, up to an instruction that ends    *)
(* the block; it runs that in order and may leave it at any instruction.   *)
(***************************************************************************)
EXTENDS Naturals, Sequences

CONSTANTS
    Size,       \* halfwords of the memory
    Ops,        \* what a halfword holds
    Ends,       \* the instructions that end a block
    MaxBlock    \* a block has no more instructions than that

VARIABLES
    mem,        \* the memory
    rest        \* what is left of the block that runs

vars == <<mem, rest>>

Addrs == 0..(Size - 1)

\* n instructions from address a on.
Fetch(m, a, n) == [i \in 1..n |-> m[a + i - 1]]

Whole(code) ==
    /\ \A i \in 1..(Len(code) - 1) : code[i] \notin Ends
    /\ Len(code) = MaxBlock \/ code[Len(code)] \in Ends

\* The blocks that begin at a: one, if the code does not run off the end.
BlocksAt(m, a) ==
    {Fetch(m, a, n) : n \in {k \in 1..MaxBlock : a + k <= Size /\ Whole(Fetch(m, a, k))}}

Begin(a) ==
    /\ rest = <<>>
    /\ rest' \in BlocksAt(mem, a)
    /\ UNCHANGED mem

Run ==
    /\ rest # <<>>
    /\ rest' \in {Tail(rest), <<>>}
    /\ UNCHANGED mem

Store(x, v) ==
    /\ mem' = [mem EXCEPT ![x] = v]
    /\ UNCHANGED rest

\* A save state is loaded, or other memory is mapped in.
Replace ==
    /\ mem' \in [Addrs -> Ops]
    /\ rest' = <<>>

Init ==
    /\ mem \in [Addrs -> Ops]
    /\ rest = <<>>

Next ==
    \/ \E a \in Addrs : Begin(a)
    \/ Run
    \/ \E x \in Addrs, v \in Ops : Store(x, v)
    \/ Replace

Spec == Init /\ [][Next]_vars
=============================================================================
