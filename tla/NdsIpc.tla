------------------------------- MODULE NdsIpc -------------------------------
(***************************************************************************)
(* The link from the ARM9 of the NDS to its ARM7: IPC_FIFO (nds_ipc.cpp)   *)
(* and the handlers of nds_bus.cpp for IPCFIFOCNT, IPCFIFOSEND,            *)
(* IPCFIFORECV and IPCSYNC.  The link back is the same code with the names *)
(* of the CPUs exchanged; all the two share is each CPU's enable and error *)
(* bit.  What IF does to a CPU is the business of NdsIrq.                  *)
(***************************************************************************)
EXTENDS Naturals, Sequences

CONSTANTS
    Words,   \* what is sent
    Nothing, \* the word of an empty FIFO (0 in the code)
    Depth,   \* words in a FIFO (16 in the code)
    Nibbles  \* values of the IPCSYNC outputs (0 to 15 in the code)

ASSUME LinkAssumption == Depth \in Nat \ {0} /\ 0 \in Nibbles

VARIABLES
    fifo,    \* to_arm7
    sendIrq, \* arm9.irq_on_send_fifo_empty
    recvIrq, \* arm7.irq_on_recv_fifo_not_empty
    enable,  \* fifo_enable of each CPU
    error,   \* error of each CPU
    output,  \* arm9sync.doutput
    input,   \* arm7sync.dinput
    syncIrq, \* arm7sync.enable_irq_from_remote
    irqFlags \* IF: the interrupts of the link that are pending at each CPU

syncVars == <<output, input, syncIrq>>
vars == <<fifo, sendIrq, recvIrq, enable, error, syncVars, irqFlags>>

Cpus == {"arm9", "arm7"}
Irqs == [arm9 |-> {"SEND_EMPTY"}, arm7 |-> {"RECV_NOT_EMPTY", "SYNC"}]

(***************************************************************************)
(* IPC_FIFO.                                                               *)
(***************************************************************************)
Start == [data |-> [i \in 0..(Depth - 1) |-> Nothing],
          head |-> 0, tail |-> 0, len |-> 0, last |-> Nothing]

\* Mutant: the read index stays where it was.
EmptyMutant(f) == [f EXCEPT !.tail = 0, !.len = 0, !.last = Nothing]

\* empty(): the first four words are overwritten, the others stay.
Empty(f) == [Start EXCEPT !.data = [i \in DOMAIN f.data |-> IF i < 4 THEN Nothing ELSE f.data[i]]]

Following(i) == (i + 1) % Depth

\* Mutant: a full FIFO takes one more word.
PushMutant(f, w) == [f EXCEPT !.data[f.tail] = w, !.tail = Following(@), !.len = @ + 1]

Push(f, w) == IF f.len = Depth THEN f
              ELSE [f EXCEPT !.data[f.tail] = w, !.tail = Following(@), !.len = @ + 1]

Pop(f) == [f EXCEPT !.last = f.data[f.head], !.len = @ - 1, !.head = Following(@)]

Contents(f) == [i \in 1..f.len |-> f.data[(f.head + i - 1) % Depth]]

(***************************************************************************)
(* Interrupts: the handlers compare the level before and after.            *)
(***************************************************************************)
SendLevelOf(irq, f) == irq /\ f.len = 0
RecvLevelOf(irq, f) == irq /\ f.len # 0
SendLevel == SendLevelOf(sendIrq, fifo)
RecvLevel == RecvLevelOf(recvIrq, fifo)

Raise(cpu, irq, when) ==
    irqFlags' = IF when THEN [irqFlags EXCEPT ![cpu] = @ \cup {irq}] ELSE irqFlags

-----------------------------------------------------------------------------
\* The ARM9 writes IPCFIFOSEND; a full FIFO drops the word and says so.
Send(w) ==
    /\ enable["arm9"]
    /\ fifo' = Push(fifo, w)
    /\ error' = [error EXCEPT !["arm9"] = @ \/ fifo.len = Depth]
    /\ Raise("arm7", "RECV_NOT_EMPTY", ~RecvLevel /\ RecvLevelOf(recvIrq, fifo'))
    /\ UNCHANGED <<sendIrq, recvIrq, enable, syncVars>>

\* The ARM7 reads IPCFIFORECV.
Receive ==
    /\ enable["arm7"]
    /\ IF fifo.len = 0
       THEN /\ error' = [error EXCEPT !["arm7"] = TRUE]
            /\ UNCHANGED <<fifo, irqFlags>>
       ELSE /\ fifo' = Pop(fifo)
            /\ Raise("arm9", "SEND_EMPTY", ~SendLevel /\ SendLevelOf(sendIrq, fifo'))
            /\ UNCHANGED error
    /\ UNCHANGED <<sendIrq, recvIrq, enable, syncVars>>

\* Mutant: the level of before is not looked at after a flush.
WriteSendControlMutant(irq, flush) ==
    /\ sendIrq' = irq
    /\ fifo' = IF flush THEN Empty(fifo) ELSE fifo
    /\ Raise("arm9", "SEND_EMPTY", irq /\ ~sendIrq)
    /\ UNCHANGED <<recvIrq, enable, error, syncVars>>

\* The ARM9 writes the low byte of IPCFIFOCNT.
WriteSendControl(irq, flush) ==
    /\ sendIrq' = irq
    /\ fifo' = IF flush THEN Empty(fifo) ELSE fifo
    /\ Raise("arm9", "SEND_EMPTY", irq /\ ~SendLevel)
    /\ UNCHANGED <<recvIrq, enable, error, syncVars>>

\* The high byte: acknowledge the error, enable, and, at the receiver, the
\* interrupt.
WriteControl(cpu, acknowledge, on) ==
    /\ error' = [error EXCEPT ![cpu] = @ /\ ~acknowledge]
    /\ enable' = [enable EXCEPT ![cpu] = on]

WriteSenderControl(acknowledge, on) ==
    /\ WriteControl("arm9", acknowledge, on)
    /\ UNCHANGED <<fifo, sendIrq, recvIrq, syncVars, irqFlags>>

WriteReceiverControl(irq, acknowledge, on) ==
    /\ WriteControl("arm7", acknowledge, on)
    /\ recvIrq' = irq
    /\ Raise("arm7", "RECV_NOT_EMPTY", ~RecvLevel /\ RecvLevelOf(irq, fifo))
    /\ UNCHANGED <<fifo, sendIrq, syncVars>>

\* The link back sets the same error bits.
ErrorOfLinkBack(cpu) ==
    /\ enable[cpu]
    /\ error' = [error EXCEPT ![cpu] = TRUE]
    /\ UNCHANGED <<fifo, sendIrq, recvIrq, enable, syncVars, irqFlags>>

\* The ARM9 writes IPCSYNC, the ARM7 enables its interrupt there.
WriteSync(value, request) ==
    /\ output' = value
    /\ input' = value
    /\ Raise("arm7", "SYNC", request /\ syncIrq)
    /\ UNCHANGED <<fifo, sendIrq, recvIrq, enable, error, syncIrq>>

EnableSync(on) ==
    /\ syncIrq' = on
    /\ UNCHANGED <<fifo, sendIrq, recvIrq, enable, error, output, input, irqFlags>>

\* A CPU acknowledges interrupts in IF.
Acknowledge(cpu, bits) ==
    /\ irqFlags' = [irqFlags EXCEPT ![cpu] = @ \ bits]
    /\ UNCHANGED <<fifo, sendIrq, recvIrq, enable, error, syncVars>>

\* reset() clears IF and leaves the link alone.
Reset ==
    /\ irqFlags' = [cpu \in Cpus |-> {}]
    /\ UNCHANGED <<fifo, sendIrq, recvIrq, enable, error, syncVars>>

Init ==
    /\ fifo = Start
    /\ sendIrq = FALSE /\ recvIrq = FALSE
    /\ enable = [cpu \in Cpus |-> FALSE]
    /\ error = [cpu \in Cpus |-> FALSE]
    /\ output = 0 /\ input = 0 /\ syncIrq = FALSE
    /\ irqFlags = [cpu \in Cpus |-> {}]

Next ==
    \/ \E w \in Words : Send(w)
    \/ Receive
    \/ \E irq, flush \in BOOLEAN : WriteSendControl(irq, flush)
    \/ \E acknowledge, on \in BOOLEAN :
         \/ WriteSenderControl(acknowledge, on)
         \/ \E irq \in BOOLEAN : WriteReceiverControl(irq, acknowledge, on)
    \/ \E cpu \in Cpus :
         \/ ErrorOfLinkBack(cpu)
         \/ \E bits \in SUBSET Irqs[cpu] : Acknowledge(cpu, bits)
    \/ \E value \in Nibbles, request \in BOOLEAN : WriteSync(value, request)
    \/ \E on \in BOOLEAN : EnableSync(on)
    \/ Reset

Spec == Init /\ [][Next]_vars

-----------------------------------------------------------------------------
(***************************************************************************)
(* Properties.                                                             *)
(***************************************************************************)
TypeOK ==
    /\ fifo \in [data : [0..(Depth - 1) -> Words \cup {Nothing}],
                 head : 0..(Depth - 1), tail : 0..(Depth - 1),
                 len : 0..Depth, last : Words \cup {Nothing}]
    /\ {sendIrq, recvIrq, syncIrq} \subseteq BOOLEAN
    /\ enable \in [Cpus -> BOOLEAN] /\ error \in [Cpus -> BOOLEAN]
    /\ {output, input} \subseteq Nibbles
    /\ \A cpu \in Cpus : irqFlags[cpu] \subseteq Irqs[cpu]
    /\ DOMAIN irqFlags = Cpus

(* The ring of sixteen words behaves as a bounded queue: the ARM7 takes    *)
(* the words in the order the ARM9 sent them, none twice, whatever is      *)
(* flushed, enabled or reset in between.  (nds_ipc.cpp)                    *)
Link == INSTANCE WordLink
        WITH Limit <- Depth,
             queue <- Contents(fifo),
             got <- fifo.last

LinkSpec == Link!Spec

(* No edge is missed: whichever register access makes words wait at a      *)
(* receiver that asked to be told, or empties the FIFO of a sender that    *)
(* did, raises the interrupt; a CPU that halts until then would otherwise  *)
(* sleep for good.  The receiver is told of edges only.                    *)
EdgesRaise ==
    [][/\ ~RecvLevel /\ RecvLevel' => "RECV_NOT_EMPTY" \in irqFlags["arm7"]'
       /\ ~SendLevel /\ SendLevel' => "SEND_EMPTY" \in irqFlags["arm9"]'
       /\ "RECV_NOT_EMPTY" \in irqFlags["arm7"]' \ irqFlags["arm7"]
             => ~RecvLevel /\ RecvLevel']_vars

(* So is the sender.  (nds_bus.cpp:823: "Edge-sensitive trigger...")       *)
SendEmptyOnEdge ==
    []["SEND_EMPTY" \in irqFlags["arm9"]' \ irqFlags["arm9"]
          => ~SendLevel /\ SendLevel']_vars
=============================================================================
