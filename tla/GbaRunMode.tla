----------------------------- MODULE GbaRunMode -----------------------------
(***************************************************************************)
(* What the GBA core runs next: the CPU (interpreted or from decoded       *)
(* blocks), a DMA transfer, or nothing until an interrupt ends a HALT.     *)
(* The scheduler calls run.func whenever no event is due, and run.func is  *)
(* switched by whoever changes the reason: a DMA channel that starts or    *)
(* ends (gba_dma.cpp), the HALTCNT register and the halted step            *)
(* (gba_bus.cpp), the frontend (gba.cpp, gba_serialize.cpp).               *)
(*                                                                         *)
(* The clock is abstracted to the number of events that are due.  A DMA    *)
(* step does not advance the clock.  Transfers that write to HALTCNT or to *)
(* DMA registers are left out.                                             *)
(***************************************************************************)
EXTENDS Integers, FiniteSets

CONSTANTS
    Channels,   \* DMA channels in use
    Lines,      \* interrupts in use, as bit numbers of IE and IF
    Controls,   \* values the program writes to a DMA control register
    WordMask,   \* word_mask: where a word count wraps
    SoundWords, \* words a sound FIFO takes at a time
    MaxDue      \* bound on the events that are due at once

ASSUME ChannelsAssumption == Channels \subseteq 0..3
ASSUME LinesAssumption == Lines \subseteq 0..13
ASSUME ControlsAssumption ==
    Controls \subseteq [enable : BOOLEAN, repeat : BOOLEAN,
                        timing : 0..3, irq : BOOLEAN]
ASSUME SizesAssumption ==
    /\ WordMask \in Nat \ {0} /\ SoundWords \in 1..WordMask
    /\ MaxDue \in Nat \ {0}

VARIABLES
    func,       \* scheduler.run.func
    cached,     \* cpu.cached_mode
    halted,     \* io.halted
    ch,         \* dma.channel: the fields of io and latch that matter here
    normal,     \* dma.bit_mask.normal
    IE, IFlags, IME,   \* io.IE, io.IF, io.IME
    IRQ_line,   \* cpu.regs.IRQ_line
    inQuantum,  \* whether cached_run() is being executed
    due,        \* events whose time has come
    stepping    \* whether finish_scanline() or step_master() runs, and was_cached

dmaVars == <<ch, normal>>
irqVars == <<IE, IFlags, IME, IRQ_line>>
loopVars == <<inQuantum, due>>
vars == <<func, cached, halted, dmaVars, irqVars, loopVars, stepping>>

-----------------------------------------------------------------------------
VBlankLine == 0
HBlankLine == 1
VCountLine == 2
KeypadLine == 12
TimerLine(num) == 3 + num
DmaLine(num) == 8 + num

SoundChannels == {1, 2} \cap Channels
Byte(b) == {i \in Lines : i \div 8 = b}

CpuStep(mode) == IF mode THEN "cached" ELSE "interpreter"

Running(chans) == {c \in Channels : chans[c].enable /\ chans[c].started}

(* eval_bit_masks(): the mask, and the step that follows from it, whatever *)
(* the step was before.                                                    *)
EvalBitMasks ==
    /\ normal' = Running(ch')
    /\ func' = IF normal' # {} THEN "dma" ELSE CpuStep(cached)

EvalIrqs == IRQ_line' = (IE' \cap IFlags' # {} /\ IME')

(* Sets the bits of `raised` in IF. *)
RaiseIrq(raised) ==
    /\ IFlags' = IFlags \cup (raised \cap Lines)
    /\ UNCHANGED <<IE, IME>>
    /\ EvalIrqs

(* start() of every channel of S *)
StartAllMutant(S) ==
    /\ ch' = [c \in Channels |-> IF c \in S THEN [ch[c] EXCEPT !.started = TRUE] ELSE ch[c]]
    /\ EvalBitMasks

StartAll(S) ==
    /\ ch' = [c \in Channels |-> IF c \in S THEN [ch[c] EXCEPT !.started = TRUE] ELSE ch[c]]
    /\ IF S = {} THEN UNCHANGED <<normal, func>> ELSE EvalBitMasks

Init ==
    /\ func = "cached" /\ cached = TRUE /\ halted = FALSE
    /\ ch = [c \in Channels |->
                [enable |-> FALSE, started |-> FALSE, repeat |-> FALSE, timing |-> 0,
                 irq |-> FALSE, sound |-> FALSE, words |-> 0]]
    /\ normal = {}
    /\ IE = {} /\ IFlags = {} /\ IME = FALSE /\ IRQ_line = FALSE
    /\ inQuantum = FALSE /\ due \in 0..MaxDue
    /\ stepping = "no"

-----------------------------------------------------------------------------
(* The scheduler calls run.func. *)
StepDue(step) == ~inQuantum /\ due = 0 /\ func = step

(* Time passes. *)
Advance == due' \in 0..MaxDue

(* block_step_cpu_cached(): instructions run, and whatever they do to      *)
(* run.func is not seen before the budget of cached_run() is used up.      *)
BeginQuantum ==
    /\ StepDue("cached")
    /\ inQuantum' = TRUE
    /\ UNCHANGED <<func, cached, halted, dmaVars, irqVars, due, stepping>>

EndQuantum ==
    /\ inQuantum
    /\ inQuantum' = FALSE
    /\ Advance
    /\ UNCHANGED <<func, cached, halted, dmaVars, irqVars, stepping>>

(* One instruction, in a quantum or as block_step_cpu_interpreter(). *)
Instruction ==
    /\ inQuantum \/ StepDue("interpreter")
    /\ IF inQuantum THEN UNCHANGED due ELSE Advance
    /\ UNCHANGED <<cached, inQuantum, stepping>>

Compute == Instruction /\ UNCHANGED <<func, halted, dmaVars, irqVars>>

WriteHALTCNT ==
    /\ Instruction
    /\ halted' = TRUE
    /\ func' = "halt"
    /\ UNCHANGED <<dmaVars, irqVars>>

(* The values of ch[c] that a write of w can leave: on 0->1 the word count *)
(* is latched from io.word_count, of which any value may have been written. *)
Written(c, w) ==
    LET old == ch[c]
        sound == w.timing = 3 /\ c \in {1, 2}
        io(started, isSound, words) ==
            [enable |-> w.enable, repeat |-> w.repeat, timing |-> w.timing, irq |-> w.irq,
             started |-> started, sound |-> isSound, words |-> words]
    IN  IF ~w.enable THEN {io(FALSE, old.sound, old.words)}
        ELSE IF old.enable THEN {io(old.started, old.sound, old.words)}
        ELSE IF sound THEN {io(old.started, TRUE, SoundWords)}
        ELSE {io(old.started \/ w.timing = 0, FALSE, n) : n \in 0..WordMask}

(* cnt_written() evaluates the masks if the channel is switched off, and   *)
(* if start() is called.                                                   *)
EvaluatesMutant(old, w) == w.enable /\ ~old.enable /\ w.timing = 0

Evaluates(old, w) == w.enable => ~old.enable /\ w.timing = 0

(* The control register of a channel. *)
WriteDmaControl(c, w) ==
    /\ Instruction
    /\ \E new \in Written(c, w) : ch' = [ch EXCEPT ![c] = new]
    /\ IF Evaluates(ch[c], w)
       THEN EvalBitMasks
       ELSE UNCHANGED <<normal, func>>
    /\ UNCHANGED <<halted, irqVars>>

(* Byte writes to IE, IF (which acknowledges) and IME. *)
WriteIE(b, bits) ==
    /\ Instruction
    /\ IE' = (IE \ Byte(b)) \cup bits
    /\ UNCHANGED <<func, halted, dmaVars, IFlags, IME>>
    /\ EvalIrqs

WriteIF(bits) ==
    /\ Instruction
    /\ IFlags' = IFlags \ bits
    /\ UNCHANGED <<func, halted, dmaVars, IE, IME>>
    /\ EvalIrqs

WriteIMEMutant(on) ==
    /\ Instruction
    /\ IME' = on
    /\ UNCHANGED <<func, halted, dmaVars, IE, IFlags, IRQ_line>>

WriteIME(on) ==
    /\ Instruction
    /\ IME' = on
    /\ UNCHANGED <<func, halted, dmaVars, IE, IFlags>>
    /\ EvalIrqs

Cpu ==
    \/ Compute \/ WriteHALTCNT
    \/ \E c \in Channels, w \in Controls : WriteDmaControl(c, w)
    \/ \E b \in {0, 1} : \E bits \in SUBSET Byte(b) : WriteIE(b, bits) \/ WriteIF(bits)
    \/ \E on \in BOOLEAN : WriteIME(on)

-----------------------------------------------------------------------------
LeftMutant(words) == words - 1

(* The words left of a transfer after one: the count wraps below 0. *)
Left(words) == IF words = 0 THEN WordMask ELSE words - 1

Reloads(chan) == chan.repeat /\ chan.timing # 0

(* The channel after the last word: the count is reloaded for the next     *)
(* time, or the channel is switched off unless it repeats.                 *)
FinishedMutant(chan) ==
    {[chan EXCEPT !.enable = chan.repeat, !.started = Reloads(chan), !.words = n] :
        n \in IF Reloads(chan) THEN IF chan.sound THEN {SoundWords} ELSE 0..WordMask ELSE {0}}

Finished(chan) ==
    {[chan EXCEPT !.enable = chan.repeat, !.started = FALSE, !.words = n] :
        n \in IF Reloads(chan) THEN IF chan.sound THEN {SoundWords} ELSE 0..WordMask ELSE {0}}

(* go(): one word of channel c. *)
TransferWord(c) ==
    /\ Left(ch[c].words) # 0
    /\ ch' = [ch EXCEPT ![c].words = Left(@)]
    /\ UNCHANGED <<normal, func, irqVars>>

TransferLast(c) ==
    /\ Left(ch[c].words) = 0
    /\ \E chan \in Finished(ch[c]) : ch' = [ch EXCEPT ![c] = chan]
    /\ RaiseIrq(IF ch[c].irq THEN {DmaLine(c)} ELSE {})
    /\ EvalBitMasks

(* block_step_dma(): the channel hipri names; go() does nothing for one    *)
(* that does not run.                                                      *)
DmaBlock ==
    /\ StepDue("dma")
    /\ \E c \in normal :
        /\ \A d \in normal : c <= d
        /\ ch[c].enable /\ ch[c].started
        /\ TransferWord(c) \/ TransferLast(c)
    /\ UNCHANGED <<cached, halted, loopVars, stepping>>

AwakenedMutant == IRQ_line

(* What ends a HALT: IE and IF, not IME. *)
Awakened == IE \cap IFlags # {}

(* block_step_halted() moves the clock to the first event if the CPU stays *)
(* halted.                                                                 *)
HaltBlock ==
    /\ StepDue("halt")
    /\ halted' = (halted /\ ~Awakened)
    /\ IF halted'
       THEN due' \in 1..MaxDue /\ UNCHANGED func
       ELSE func' = CpuStep(cached) /\ UNCHANGED due
    /\ UNCHANGED <<cached, dmaVars, irqVars, inQuantum, stepping>>

-----------------------------------------------------------------------------
(* An event that is due is taken off the list and its callback called. *)
Event ==
    /\ ~inQuantum /\ due > 0
    /\ due' = due - 1
    /\ UNCHANGED <<cached, halted, inQuantum, stepping>>

(* Events that do not touch this state *)
OtherEvent == Event /\ UNCHANGED <<func, dmaVars, irqVars>>

(* hblank(): the interrupt, then check_dma_at_hblank().  HBlank transfers  *)
(* run in the lines 0 to 159, video capture by channel 3 in 2 to 162.      *)
HBlank(irq, visible, captured) ==
    /\ Event
    /\ RaiseIrq(IF irq THEN {HBlankLine} ELSE {})
    /\ StartAll({c \in Channels :
                    /\ ch[c].enable /\ ~ch[c].started
                    /\ \/ ch[c].timing = 2 /\ visible
                       \/ ch[c].timing = 3 /\ c = 3 /\ captured})

VBlank(irq) ==
    /\ Event
    /\ StartAll({c \in Channels : ch[c].enable /\ ~ch[c].started /\ ch[c].timing = 1})
    /\ RaiseIrq(IF irq THEN {VBlankLine} ELSE {})

VCount ==
    /\ Event
    /\ RaiseIrq({VCountLine})
    /\ UNCHANGED <<func, dmaVars>>

(* overflow(): the interrupt, then sound_FIFO() of the FIFOs the timer     *)
(* feeds, which starts the channel again even if it is already running.    *)
TimerOverflow(num, irq, hungry) ==
    /\ Event
    /\ RaiseIrq(IF irq THEN {TimerLine(num)} ELSE {})
    /\ StartAll({c \in hungry : ch[c].enable /\ ch[c].timing = 3})

(* process_button_IRQ(): the keypad's bit is set and cleared with the keys. *)
NewFrame(pressed) ==
    /\ Event
    /\ IFlags' = IF pressed THEN IFlags \cup ({KeypadLine} \cap Lines) ELSE IFlags \ {KeypadLine}
    /\ UNCHANGED <<func, dmaVars, IE, IME>>
    /\ EvalIrqs

Events ==
    \/ OtherEvent \/ VCount
    \/ \E irq, visible, captured \in BOOLEAN : HBlank(irq, visible, captured)
    \/ \E irq \in BOOLEAN : VBlank(irq)
    \/ \E num \in 0..3, irq \in BOOLEAN, hungry \in SUBSET SoundChannels :
          TimerOverflow(num, irq, hungry)
    \/ \E pressed \in BOOLEAN : NewFrame(pressed)

-----------------------------------------------------------------------------
(* Calls of the frontend, between two runs of the scheduler. *)

(* option_changed("cached_interp") *)
OptionChanged ==
    /\ ~inQuantum /\ stepping = "no"
    /\ cached' = ~cached
    /\ func' = CpuStep(cached')
    /\ UNCHANGED <<halted, dmaVars, irqVars, loopVars, stepping>>

(* finish_scanline() and step_master() interpret, in either mode. *)
BeginStep ==
    /\ ~inQuantum /\ stepping = "no"
    /\ stepping' = IF cached THEN "was_cached" ELSE "was_interpreted"
    /\ cached' = FALSE
    /\ func' = IF cached THEN CpuStep(FALSE) ELSE func
    /\ UNCHANGED <<halted, dmaVars, irqVars, loopVars>>

EndStepMutant ==
    /\ ~inQuantum /\ stepping # "no"
    /\ stepping' = "no"
    /\ cached' = (stepping = "was_cached")
    /\ UNCHANGED <<func, halted, dmaVars, irqVars, loopVars>>

EndStep ==
    /\ ~inQuantum /\ stepping # "no"
    /\ stepping' = "no"
    /\ cached' = (stepping = "was_cached")
    /\ func' = IF cached' THEN CpuStep(TRUE) ELSE func
    /\ UNCHANGED <<halted, dmaVars, irqVars, loopVars>>

(* reset() leaves the DMA channels, HALT and the interrupts as they are. *)
Reset ==
    /\ ~inQuantum /\ stepping = "no"
    /\ func' = CpuStep(cached)
    /\ Advance
    /\ UNCHANGED <<cached, halted, dmaVars, irqVars, inQuantum, stepping>>

(* A state is saved, in mode `mode`, and loaded, perhaps after the option  *)
(* has been changed: post_deserialize().  The events are scheduled anew,   *)
(* at the times they had, or after the clock.                              *)
SaveAndLoadMutant(mode) ==
    /\ ~inQuantum /\ stepping = "no"
    /\ cached' = mode
    /\ normal' = Running(ch)
    /\ func' = IF halted THEN "halt" ELSE IF normal' # {} THEN "dma" ELSE CpuStep(mode)
    /\ UNCHANGED <<halted, ch, IE, IFlags, IME, inQuantum, stepping>>
    /\ EvalIrqs
    /\ due' \in 0..due

SaveAndLoad(mode) ==
    /\ ~inQuantum /\ stepping = "no"
    /\ cached' = mode
    /\ normal' = Running(ch)
    /\ func' = IF normal' # {} THEN "dma" ELSE IF halted THEN "halt" ELSE CpuStep(mode)
    /\ UNCHANGED <<halted, ch, IE, IFlags, IME, inQuantum, stepping>>
    /\ EvalIrqs
    /\ due' \in 0..due

(* The calls that point run.func at the CPU whatever it was. *)
Override == OptionChanged \/ BeginStep \/ EndStep \/ Reset

Next ==
    \/ BeginQuantum \/ EndQuantum \/ Cpu
    \/ DmaBlock \/ HaltBlock
    \/ Events
    \/ Override
    \/ \E mode \in BOOLEAN : SaveAndLoad(mode)

Spec == Init /\ [][Next]_vars

(* The frontend keeps running the scheduler, which handles the events that *)
(* are due and calls run.func; cached_run() returns when its budget of at  *)
(* most 8 cycles is used up.                                               *)
Fairness ==
    /\ WF_vars(Events)
    /\ WF_vars(DmaBlock)
    /\ WF_vars(HaltBlock)
    /\ WF_vars(EndQuantum)

FairSpec == Spec /\ Fairness

-----------------------------------------------------------------------------
(* Type invariant *)
TypeOK ==
    /\ func \in {"cached", "interpreter", "dma", "halt"}
    /\ cached \in BOOLEAN /\ halted \in BOOLEAN
    /\ ch \in [Channels -> [enable : BOOLEAN, started : BOOLEAN, repeat : BOOLEAN,
                            timing : 0..3, irq : BOOLEAN, sound : BOOLEAN,
                            words : 0..WordMask]]
    /\ normal \subseteq Channels
    /\ IE \subseteq Lines /\ IFlags \subseteq Lines
    /\ IME \in BOOLEAN /\ IRQ_line \in BOOLEAN
    /\ inQuantum \in BOOLEAN /\ due \in 0..MaxDue
    /\ stepping \in {"no", "was_cached", "was_interpreted"}

(* The mask hipri is looked up with is the set of the channels that run,   *)
(* and is not empty while the DMA step is called: with an empty or a stale *)
(* mask, go() would do nothing, no clock would advance and the scheduler   *)
(* would call it for ever.  (eval_bit_masks is called, or not, in          *)
(* cnt_written, start, go and post_deserialize)                            *)
DmaNeverSpins ==
    /\ normal = Running(ch)
    /\ func = "dma" => normal # {}

(* The CPU is only ever stepped in the mode cached_mode says: the cached   *)
(* and the interpreted CPU keep the pipeline differently.  (set_step_cpu   *)
(* after each enter_cached_mode and exit_cached_mode)                      *)
FuncMatchesMode == func \in {"cached", "interpreter"} => func = CpuStep(cached)

(* The CPU's interrupt line is what IE, IF and IME say, whoever changed    *)
(* one of them last: no interrupt is missed and none is taken twice.       *)
(* (eval_irqs in each of them)                                             *)
LineCurrent == IRQ_line = (IE \cap IFlags # {} /\ IME)

(* A CPU that is halted stays so until an enabled interrupt is pending, a  *)
(* transfer starts, or the frontend points run.func at the CPU.            *)
HaltHolds ==
    [][func = "halt" /\ ~inQuantum /\ func' # "halt" /\ ~Override
         => func' = "dma" \/ IE \cap IFlags # {}]_vars

(* While channels run, nothing takes the step away from the DMA but the    *)
(* frontend, or a program that writes HALTCNT in the same quantum as it    *)
(* starts the transfer.                                                    *)
DmaKept ==
    [][func = "dma" /\ func' # "dma" /\ ~inQuantum /\ ~Override => normal' = {}]_vars

(* A transfer ends, whatever its word count, its repeat bit and the events *)
(* that start other channels meanwhile.                                    *)
DmaEnds == func = "dma" ~> func # "dma"

(* A halted CPU for which an enabled interrupt is pending wakes up, or the *)
(* interrupt goes away.                                                    *)
HaltedWakes == (func = "halt" /\ IE \cap IFlags # {}) ~> (func # "halt" \/ IE \cap IFlags = {})
=============================================================================
