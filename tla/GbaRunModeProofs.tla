-------------------------- MODULE GbaRunModeProofs --------------------------
(***************************************************************************)
(* For every set of channels, of interrupts and of control values: the     *)
(* step of the GBA core is the one its state calls for, and is taken away  *)
(* from a transfer or a HALT only for the reasons GbaRunMode names.        *)
(***************************************************************************)
EXTENDS GbaRunMode, TLAPS

Chan == [enable : BOOLEAN, started : BOOLEAN, repeat : BOOLEAN,
         timing : 0..3, irq : BOOLEAN, sound : BOOLEAN, words : 0..WordMask]

(* A channel that is switched off is not started: otherwise switching it   *)
(* on, which does not evaluate the masks, would leave them stale.          *)
OffIsStopped == \A c \in Channels : ch[c].started => ch[c].enable

(* The halted step is only called while io.halted is set. *)
HaltIsHalted == func = "halt" => halted

ChannelsOK == ch \in [Channels -> Chan] /\ OffIsStopped
StepOK ==
    /\ func \in {"cached", "interpreter", "dma", "halt"}
    /\ normal \subseteq Channels
    /\ DmaNeverSpins /\ FuncMatchesMode /\ HaltIsHalted
IrqsOK ==
    /\ IE \subseteq Lines /\ IFlags \subseteq Lines
    /\ IME \in BOOLEAN /\ IRQ_line \in BOOLEAN
    /\ LineCurrent
LoopOK ==
    /\ cached \in BOOLEAN /\ halted \in BOOLEAN
    /\ inQuantum \in BOOLEAN /\ due \in 0..MaxDue
    /\ stepping \in {"no", "was_cached", "was_interpreted"}
    /\ stepping # "no" => cached = FALSE

IInv == ChannelsOK /\ StepOK /\ IrqsOK /\ LoopOK

(* The invariant is the type invariant and the properties it is for. *)
LEMMA InvariantParts ==
    /\ IInv => TypeOK
    /\ IInv => DmaNeverSpins /\ FuncMatchesMode /\ LineCurrent
BY DEF IInv, ChannelsOK, StepOK, IrqsOK, LoopOK, TypeOK, Chan

-----------------------------------------------------------------------------
(* set_step_cpu() selects the CPU's step for the mode. *)
LEMMA CpuStepMatches ==
    ASSUME NEW mode \in BOOLEAN
    PROVE  /\ CpuStep(mode) \in {"cached", "interpreter"}
           /\ CpuStep(mode) # "dma" /\ CpuStep(mode) # "halt"
BY DEF CpuStep

(* Once eval_bit_masks() has run, the step is right. *)
LEMMA Evaluated ==
    ASSUME LoopOK, EvalBitMasks, UNCHANGED cached
    PROVE  StepOK'
<1>1. CpuStep(cached) \in {"cached", "interpreter"}
      /\ CpuStep(cached) # "dma" /\ CpuStep(cached) # "halt"
  BY CpuStepMatches DEF LoopOK
<1>2. normal' = Running(ch)' /\ normal' \subseteq Channels
  BY DEF EvalBitMasks, Running
<1>3. CASE normal' = {}
  BY <1>1, <1>2, <1>3 DEF EvalBitMasks, StepOK, DmaNeverSpins, FuncMatchesMode, HaltIsHalted
<1>4. CASE normal' # {}
  BY <1>2, <1>4 DEF EvalBitMasks, StepOK, DmaNeverSpins, FuncMatchesMode, HaltIsHalted
<1> QED BY <1>3, <1>4

(* Nothing that the step depends on changes. *)
LEMMA SameStep ==
    ASSUME StepOK, UNCHANGED <<func, cached, ch, normal>>, halted => halted'
    PROVE  StepOK'
BY DEF StepOK, DmaNeverSpins, FuncMatchesMode, HaltIsHalted, Running

(* eval_irqs() brings the line up to date. *)
LEMMA IrqsEvaluated ==
    ASSUME IE' \subseteq Lines, IFlags' \subseteq Lines, IME' \in BOOLEAN, EvalIrqs
    PROVE  IrqsOK'
BY DEF IrqsOK, EvalIrqs, LineCurrent

LEMMA Raised ==
    ASSUME IrqsOK, NEW S, RaiseIrq(S)
    PROVE  IrqsOK'
<1>1. IE' \subseteq Lines /\ IFlags' \subseteq Lines /\ IME' \in BOOLEAN /\ EvalIrqs
  BY DEF IrqsOK, RaiseIrq
<1> QED BY <1>1, IrqsEvaluated

LEMMA SameIrqs ==
    ASSUME IrqsOK, UNCHANGED irqVars
    PROVE  IrqsOK'
BY DEF IrqsOK, irqVars, LineCurrent

(* Starting channels that are switched on. *)
LEMMA Started ==
    ASSUME ChannelsOK, StepOK, LoopOK, UNCHANGED <<cached, halted>>,
           NEW S, \A c \in Channels : c \in S => ch[c].enable,
           StartAll(S)
    PROVE  ChannelsOK' /\ StepOK'
<1>1. ChannelsOK'
  <2>1. ch \in [Channels -> Chan] /\ ch' \in [Channels -> Chan]
    BY DEF ChannelsOK, StartAll, Chan
  <2> QED BY <2>1 DEF ChannelsOK, OffIsStopped, StartAll
<1>2. CASE S = {}
  <2>1. \A c \in Channels : ch'[c] = ch[c]
    BY <1>2 DEF StartAll
  <2>2. Running(ch)' = Running(ch)
    BY <2>1 DEF Running
  <2>3. UNCHANGED <<normal, func>>
    BY <1>2 DEF StartAll
  <2> QED BY <1>1, <2>2, <2>3 DEF StepOK, DmaNeverSpins, FuncMatchesMode, HaltIsHalted
<1>3. CASE S # {}
  BY <1>1, <1>3, Evaluated DEF StartAll
<1> QED BY <1>1, <1>2, <1>3

-----------------------------------------------------------------------------
(* The initial state *)
LEMMA InitOK == Init => IInv
<1> SUFFICES ASSUME Init PROVE IInv
  OBVIOUS
<1> USE DEF Init
<1>1. ChannelsOK
  BY SizesAssumption DEF ChannelsOK, OffIsStopped, Chan
<1>2. StepOK
  BY DEF StepOK, DmaNeverSpins, FuncMatchesMode, HaltIsHalted, Running, CpuStep
<1>3. IrqsOK
  BY DEF IrqsOK, LineCurrent
<1>4. LoopOK
  BY DEF LoopOK
<1> QED BY <1>1, <1>2, <1>3, <1>4 DEF IInv

-----------------------------------------------------------------------------
(* The CPU's quantum *)
LEMMA QuantumStep ==
    ASSUME IInv, BeginQuantum \/ EndQuantum
    PROVE  IInv'
<1> USE DEF BeginQuantum, EndQuantum
<1>1. UNCHANGED <<func, cached, halted, ch, normal, irqVars>>
  BY DEF dmaVars
<1>2. ChannelsOK'
  BY <1>1 DEF IInv, ChannelsOK, OffIsStopped
<1>3. StepOK'
  BY <1>1, SameStep DEF IInv
<1>4. IrqsOK'
  BY <1>1, SameIrqs DEF IInv
<1>5. LoopOK'
  BY DEF IInv, LoopOK, Advance
<1> QED BY <1>2, <1>3, <1>4, <1>5 DEF IInv

(* What an instruction does not change *)
LEMMA InstructionLoop ==
    ASSUME LoopOK, Instruction, halted' \in BOOLEAN
    PROVE  LoopOK' /\ UNCHANGED cached
BY DEF LoopOK, Instruction, Advance

LEMMA ComputeStep ==
    ASSUME IInv, Compute
    PROVE  IInv'
<1>1. UNCHANGED <<func, cached, halted, ch, normal, irqVars>>
  BY DEF Compute, Instruction, dmaVars
<1>2. ChannelsOK'
  BY <1>1 DEF IInv, ChannelsOK, OffIsStopped
<1>3. StepOK'
  BY <1>1, SameStep DEF IInv
<1>4. IrqsOK'
  BY <1>1, SameIrqs DEF IInv
<1>5. LoopOK'
  BY <1>1, InstructionLoop DEF IInv, LoopOK, Compute
<1> QED BY <1>2, <1>3, <1>4, <1>5 DEF IInv

LEMMA HaltStep ==
    ASSUME IInv, WriteHALTCNT
    PROVE  IInv'
<1>1. Instruction /\ halted' = TRUE /\ func' = "halt" /\ UNCHANGED <<ch, normal, irqVars>>
  BY DEF WriteHALTCNT, dmaVars
<1>2. ChannelsOK'
  BY <1>1 DEF IInv, ChannelsOK, OffIsStopped
<1>3. StepOK'
  BY <1>1 DEF IInv, StepOK, DmaNeverSpins, FuncMatchesMode, HaltIsHalted, Running
<1>4. IrqsOK'
  BY <1>1, SameIrqs DEF IInv
<1>5. LoopOK'
  BY <1>1, InstructionLoop DEF IInv
<1> QED BY <1>2, <1>3, <1>4, <1>5 DEF IInv

-----------------------------------------------------------------------------
(* What a write leaves in a control register is a channel; it is started   *)
(* only if it is switched on.                                              *)
LEMMA WrittenOK ==
    ASSUME ChannelsOK, NEW c \in Channels, NEW w \in Controls, NEW new \in Written(c, w)
    PROVE  /\ new \in Chan
           /\ new.started => new.enable
<1>1. ch[c] \in Chan /\ (ch[c].started => ch[c].enable)
  BY DEF ChannelsOK, OffIsStopped
<1>2. w \in [enable : BOOLEAN, repeat : BOOLEAN, timing : 0..3, irq : BOOLEAN]
  BY ControlsAssumption
<1>3. SoundWords \in 0..WordMask
  BY SizesAssumption
<1> DEFINE io(started, isSound, words) ==
             [enable |-> w.enable, repeat |-> w.repeat, timing |-> w.timing, irq |-> w.irq,
              started |-> started, sound |-> isSound, words |-> words]
<1>4. \A started, isSound \in BOOLEAN, words \in 0..WordMask :
        io(started, isSound, words) \in Chan
        /\ io(started, isSound, words).started = started
        /\ io(started, isSound, words).enable = w.enable
  BY <1>2 DEF Chan
<1>5. /\ ch[c].started \in BOOLEAN /\ (ch[c].started \/ w.timing = 0) \in BOOLEAN
      /\ ch[c].sound \in BOOLEAN /\ ch[c].words \in 0..WordMask
  BY <1>1 DEF Chan
<1>6. CASE ~w.enable
  <2>1. new = io(FALSE, ch[c].sound, ch[c].words)
    BY <1>6 DEF Written
  <2> HIDE DEF io
  <2> QED BY <2>1, <1>4, <1>5
<1>7. CASE w.enable
  <2>1. \E started, isSound \in BOOLEAN, words \in 0..WordMask :
          new = io(started, isSound, words)
    BY <1>3, <1>5, <1>7 DEF Written
  <2> HIDE DEF io
  <2> QED BY <2>1, <1>4, <1>7
<1> QED BY <1>6, <1>7

(* Where the masks are not evaluated, the same channels run as before. *)
LEMMA WrittenRuns ==
    ASSUME ChannelsOK, NEW c \in Channels, NEW w \in Controls, NEW new \in Written(c, w),
           ~Evaluates(ch[c], w)
    PROVE  (new.enable /\ new.started) <=> (ch[c].enable /\ ch[c].started)
<1>1. ch[c] \in Chan /\ (ch[c].started => ch[c].enable)
  BY DEF ChannelsOK, OffIsStopped
<1>2. w \in [enable : BOOLEAN, repeat : BOOLEAN, timing : 0..3, irq : BOOLEAN]
  BY ControlsAssumption
<1> QED BY <1>1, <1>2 DEF Written, Evaluates, Chan

LEMMA DmaControlStep ==
    ASSUME IInv, NEW c \in Channels, NEW w \in Controls, WriteDmaControl(c, w)
    PROVE  IInv'
<1>1. PICK new \in Written(c, w) : ch' = [ch EXCEPT ![c] = new]
  BY DEF WriteDmaControl
<1>2. Instruction /\ UNCHANGED <<halted, irqVars>>
  BY DEF WriteDmaControl
<1>3. LoopOK' /\ UNCHANGED cached
  BY <1>2, InstructionLoop DEF IInv, LoopOK
<1>4. ChannelsOK'
  <2>1. new \in Chan /\ (new.started => new.enable)
    BY WrittenOK DEF IInv
  <2> QED BY <1>1, <2>1 DEF IInv, ChannelsOK, OffIsStopped
<1>5. StepOK'
  <2>1. CASE Evaluates(ch[c], w)
    BY <1>3, <2>1, Evaluated DEF IInv, WriteDmaControl
  <2>2. CASE ~Evaluates(ch[c], w)
    <3>1. (new.enable /\ new.started) <=> (ch[c].enable /\ ch[c].started)
      BY <2>2, WrittenRuns DEF IInv
    <3>2. Running(ch)' = Running(ch)
      BY <1>1, <3>1 DEF IInv, ChannelsOK, Running
    <3>3. UNCHANGED <<normal, func>>
      BY <2>2 DEF WriteDmaControl
    <3> QED BY <1>2, <1>3, <3>2, <3>3
            DEF IInv, StepOK, DmaNeverSpins, FuncMatchesMode, HaltIsHalted
  <2> QED BY <2>1, <2>2
<1>6. IrqsOK'
  BY <1>2, SameIrqs DEF IInv
<1> QED BY <1>3, <1>4, <1>5, <1>6 DEF IInv

(* Writes to the interrupt registers *)
LEMMA IrqRegisterStep ==
    ASSUME IInv,
           \/ \E b \in {0, 1} : \E bits \in SUBSET Byte(b) : WriteIE(b, bits) \/ WriteIF(bits)
           \/ \E on \in BOOLEAN : WriteIME(on)
    PROVE  IInv'
<1>1. Instruction /\ UNCHANGED <<func, halted, ch, normal>>
  BY DEF WriteIE, WriteIF, WriteIME, dmaVars
<1>2. ChannelsOK'
  BY <1>1 DEF IInv, ChannelsOK, OffIsStopped
<1>3. LoopOK' /\ UNCHANGED cached
  BY <1>1, InstructionLoop DEF IInv, LoopOK
<1>4. StepOK'
  BY <1>1, <1>3, SameStep DEF IInv
<1>5. IE' \subseteq Lines /\ IFlags' \subseteq Lines /\ IME' \in BOOLEAN /\ EvalIrqs
  BY DEF IInv, IrqsOK, WriteIE, WriteIF, WriteIME, Byte
<1>6. IrqsOK'
  BY <1>5, IrqsEvaluated
<1> QED BY <1>2, <1>3, <1>4, <1>6 DEF IInv

LEMMA CpuStepOK ==
    ASSUME IInv, Cpu
    PROVE  IInv'
BY ComputeStep, HaltStep, DmaControlStep, IrqRegisterStep DEF Cpu

-----------------------------------------------------------------------------
(* The DMA's step *)
LEMMA LeftOK ==
    ASSUME NEW words \in 0..WordMask
    PROVE  Left(words) \in 0..WordMask
BY SizesAssumption DEF Left

LEMMA FinishedOK ==
    ASSUME NEW chan \in Chan, NEW new \in Finished(chan)
    PROVE  new \in Chan /\ new.started = FALSE
<1>1. PICK n \in 0..WordMask :
        new = [chan EXCEPT !.enable = chan.repeat, !.started = FALSE, !.words = n]
  <2>1. SoundWords \in 0..WordMask /\ 0 \in 0..WordMask
    BY SizesAssumption
  <2> QED BY <2>1 DEF Finished
<1> QED BY <1>1 DEF Chan

LEMMA WordStep ==
    ASSUME IInv, NEW c \in Channels, TransferWord(c), UNCHANGED <<cached, halted>>
    PROVE  ChannelsOK' /\ StepOK' /\ IrqsOK'
<1>1. ch[c] \in Chan /\ Left(ch[c].words) \in 0..WordMask
  BY LeftOK DEF IInv, ChannelsOK, Chan
<1>2. ch' = [ch EXCEPT ![c].words = Left(ch[c].words)]
  BY DEF TransferWord
<1>3. /\ ch' \in [Channels -> Chan]
      /\ \A d \in Channels : /\ ch'[d].enable = ch[d].enable
                             /\ ch'[d].started = ch[d].started
  BY <1>1, <1>2 DEF IInv, ChannelsOK, Chan
<1>4. ChannelsOK'
  BY <1>3 DEF IInv, ChannelsOK, OffIsStopped
<1>5. Running(ch)' = Running(ch)
  BY <1>3 DEF Running
<1>6. UNCHANGED <<normal, func, irqVars>>
  BY DEF TransferWord
<1>7. StepOK'
  BY <1>5, <1>6 DEF IInv, StepOK, DmaNeverSpins, FuncMatchesMode, HaltIsHalted
<1>8. IrqsOK'
  BY <1>6, SameIrqs DEF IInv
<1> QED BY <1>4, <1>7, <1>8

LEMMA LastStep ==
    ASSUME IInv, NEW c \in Channels, TransferLast(c), UNCHANGED <<cached, halted>>
    PROVE  ChannelsOK' /\ StepOK' /\ IrqsOK'
<1>1. PICK chan \in Finished(ch[c]) : ch' = [ch EXCEPT ![c] = chan]
  BY DEF TransferLast
<1>2. chan \in Chan /\ chan.started = FALSE
  BY FinishedOK DEF IInv, ChannelsOK
<1>3. ChannelsOK'
  BY <1>1, <1>2 DEF IInv, ChannelsOK, OffIsStopped
<1>4. StepOK'
  BY Evaluated DEF TransferLast, IInv
<1>5. IrqsOK'
  BY Raised DEF TransferLast, IInv
<1> QED BY <1>3, <1>4, <1>5

LEMMA DmaStep ==
    ASSUME IInv, DmaBlock
    PROVE  IInv'
<1>1. PICK c \in normal : TransferWord(c) \/ TransferLast(c)
  BY DEF DmaBlock
<1>2. c \in Channels
  BY DEF IInv, StepOK
<1>3. UNCHANGED <<cached, halted, inQuantum, due, stepping>>
  BY DEF DmaBlock, loopVars
<1>4. ChannelsOK' /\ StepOK' /\ IrqsOK'
  BY <1>1, <1>2, <1>3, WordStep, LastStep
<1>5. LoopOK'
  BY <1>3 DEF IInv, LoopOK
<1> QED BY <1>4, <1>5 DEF IInv

(* The halted step *)
LEMMA HaltBlockStep ==
    ASSUME IInv, HaltBlock
    PROVE  IInv'
<1>1. UNCHANGED <<cached, ch, normal, irqVars, inQuantum, stepping>>
  BY DEF HaltBlock, dmaVars
<1>2. func = "halt" /\ halted' \in BOOLEAN
  BY DEF HaltBlock, StepDue
<1>3. ChannelsOK'
  BY <1>1 DEF IInv, ChannelsOK, OffIsStopped
<1>4. StepOK'
  <2>1. CASE halted'
    BY <1>1, <2>1, SameStep DEF IInv, HaltBlock
  <2>2. CASE ~halted'
    <3>1. func' = CpuStep(cached)
      BY <2>2 DEF HaltBlock
    <3>2. CpuStep(cached) \in {"cached", "interpreter"}
          /\ CpuStep(cached) # "dma" /\ CpuStep(cached) # "halt"
      BY CpuStepMatches DEF IInv, LoopOK
    <3> QED BY <1>1, <3>1, <3>2
            DEF IInv, StepOK, DmaNeverSpins, FuncMatchesMode, HaltIsHalted, Running
  <2> QED BY <2>1, <2>2
<1>5. IrqsOK'
  BY <1>1, SameIrqs DEF IInv
<1>6. LoopOK'
  BY <1>1, <1>2, SizesAssumption DEF IInv, LoopOK, HaltBlock
<1> QED BY <1>3, <1>4, <1>5, <1>6 DEF IInv

-----------------------------------------------------------------------------
(* Events *)
LEMMA EventLoop ==
    ASSUME LoopOK, Event
    PROVE  LoopOK' /\ UNCHANGED <<cached, halted>>
BY SizesAssumption DEF LoopOK, Event

(* An event that starts channels and may raise an interrupt *)
LEMMA StartingEvent ==
    ASSUME IInv, Event, NEW S, \A c \in Channels : c \in S => ch[c].enable, StartAll(S),
           NEW raised, RaiseIrq(raised)
    PROVE  IInv'
<1>1. LoopOK' /\ UNCHANGED <<cached, halted>>
  BY EventLoop DEF IInv
<1>2. ChannelsOK' /\ StepOK'
  BY <1>1, Started DEF IInv
<1>3. IrqsOK'
  BY Raised DEF IInv
<1> QED BY <1>1, <1>2, <1>3 DEF IInv

(* An event that starts none *)
LEMMA QuietEvent ==
    ASSUME IInv, Event, UNCHANGED <<func, ch, normal>>, IrqsOK'
    PROVE  IInv'
<1>1. LoopOK' /\ UNCHANGED <<cached, halted>>
  BY EventLoop DEF IInv
<1>2. ChannelsOK'
  BY DEF IInv, ChannelsOK, OffIsStopped
<1>3. StepOK'
  BY <1>1, SameStep DEF IInv
<1> QED BY <1>1, <1>2, <1>3 DEF IInv

LEMMA EventStep ==
    ASSUME IInv, Events
    PROVE  IInv'
<1>1. CASE OtherEvent
  <2>1. IrqsOK'
    BY <1>1, SameIrqs DEF IInv, OtherEvent
  <2> QED BY <1>1, <2>1, QuietEvent DEF OtherEvent, dmaVars
<1>2. CASE VCount
  <2>1. IrqsOK'
    BY <1>2, Raised DEF IInv, VCount
  <2> QED BY <1>2, <2>1, QuietEvent DEF VCount, dmaVars
<1>3. ASSUME NEW irq \in BOOLEAN, NEW visible \in BOOLEAN, NEW captured \in BOOLEAN,
             HBlank(irq, visible, captured)
      PROVE  IInv'
  <2> DEFINE S == {c \in Channels :
                     /\ ch[c].enable /\ ~ch[c].started
                     /\ \/ ch[c].timing = 2 /\ visible
                        \/ ch[c].timing = 3 /\ c = 3 /\ captured}
  <2>1. Event /\ StartAll(S) /\ \E raised : RaiseIrq(raised)
    BY <1>3 DEF HBlank
  <2>2. \A c \in Channels : c \in S => ch[c].enable
    OBVIOUS
  <2> HIDE DEF S
  <2> QED BY <2>1, <2>2, StartingEvent
<1>4. ASSUME NEW irq \in BOOLEAN, VBlank(irq)
      PROVE  IInv'
  <2> DEFINE S == {c \in Channels : ch[c].enable /\ ~ch[c].started /\ ch[c].timing = 1}
  <2>1. Event /\ StartAll(S) /\ \E raised : RaiseIrq(raised)
    BY <1>4 DEF VBlank
  <2>2. \A c \in Channels : c \in S => ch[c].enable
    OBVIOUS
  <2> HIDE DEF S
  <2> QED BY <2>1, <2>2, StartingEvent
<1>5. ASSUME NEW num \in 0..3, NEW irq \in BOOLEAN, NEW hungry \in SUBSET SoundChannels,
             TimerOverflow(num, irq, hungry)
      PROVE  IInv'
  <2> DEFINE S == {c \in hungry : ch[c].enable /\ ch[c].timing = 3}
  <2>1. Event /\ StartAll(S) /\ \E raised : RaiseIrq(raised)
    BY <1>5 DEF TimerOverflow
  <2>2. \A c \in Channels : c \in S => ch[c].enable
    OBVIOUS
  <2> HIDE DEF S
  <2> QED BY <2>1, <2>2, StartingEvent
<1>6. ASSUME NEW pressed \in BOOLEAN, NewFrame(pressed)
      PROVE  IInv'
  <2>1. IE' \subseteq Lines /\ IFlags' \subseteq Lines /\ IME' \in BOOLEAN /\ EvalIrqs
    BY <1>6 DEF NewFrame, IInv, IrqsOK
  <2> QED BY <1>6, <2>1, IrqsEvaluated, QuietEvent DEF NewFrame, dmaVars
<1> QED BY <1>1, <1>2, <1>3, <1>4, <1>5, <1>6 DEF Events

-----------------------------------------------------------------------------
(* The frontend.  Whatever the step was, it becomes the CPU's in the mode  *)
(* that is set, or stays if the mode does.                                 *)
LEMMA OverrideStep ==
    ASSUME IInv, Override
    PROVE  IInv'
<1> USE DEF Override, OptionChanged, BeginStep, EndStep, Reset
<1>1. UNCHANGED <<halted, ch, normal, irqVars, inQuantum>> /\ cached' \in BOOLEAN
  BY DEF dmaVars, loopVars, IInv, LoopOK
<1>2. ChannelsOK'
  BY <1>1 DEF IInv, ChannelsOK, OffIsStopped
<1>3. StepOK'
  <2>1. CASE func' = CpuStep(cached')
    <3>1. CpuStep(cached') \in {"cached", "interpreter"}
          /\ CpuStep(cached') # "dma" /\ CpuStep(cached') # "halt"
      BY <1>1, CpuStepMatches
    <3> QED BY <1>1, <2>1, <3>1
            DEF IInv, StepOK, DmaNeverSpins, FuncMatchesMode, HaltIsHalted, Running
  <2>2. CASE UNCHANGED <<func, cached>>
    BY <1>1, <2>2, SameStep DEF IInv
  <2>3. CASE OptionChanged \/ Reset
    BY <2>1, <2>3
  <2>4. CASE BeginStep
    <3>1. CASE cached = TRUE
      BY <2>1, <2>4, <3>1
    <3>2. CASE cached = FALSE
      BY <2>2, <2>4, <3>2
    <3> QED BY <3>1, <3>2 DEF IInv, LoopOK
  <2>5. CASE EndStep
    <3>1. CASE cached' = TRUE
      BY <2>1, <2>5, <3>1
    <3>2. CASE cached' = FALSE
      BY <2>2, <2>5, <3>2 DEF IInv, LoopOK
    <3> QED BY <1>1, <3>1, <3>2
  <2> QED BY <2>3, <2>4, <2>5
<1>4. IrqsOK'
  BY <1>1, SameIrqs DEF IInv
<1>5. LoopOK'
  BY <1>1 DEF IInv, LoopOK, Advance, loopVars
<1> QED BY <1>2, <1>3, <1>4, <1>5 DEF IInv

LEMMA LoadStep ==
    ASSUME IInv, NEW mode \in BOOLEAN, SaveAndLoad(mode)
    PROVE  IInv'
<1> USE DEF SaveAndLoad
<1>1. ChannelsOK'
  BY DEF IInv, ChannelsOK, OffIsStopped
<1>2. StepOK'
  <2>1. CpuStep(mode) \in {"cached", "interpreter"}
        /\ CpuStep(mode) # "dma" /\ CpuStep(mode) # "halt"
    BY CpuStepMatches
  <2>2. normal' = Running(ch)' /\ normal' \subseteq Channels
    BY DEF Running
  <2> QED BY <2>1, <2>2 DEF StepOK, DmaNeverSpins, FuncMatchesMode, HaltIsHalted
<1>3. IrqsOK'
  <2>1. IE' \subseteq Lines /\ IFlags' \subseteq Lines /\ IME' \in BOOLEAN /\ EvalIrqs
    BY DEF IInv, IrqsOK
  <2> QED BY <2>1, IrqsEvaluated
<1>4. LoopOK'
  BY SizesAssumption DEF IInv, LoopOK
<1> QED BY <1>1, <1>2, <1>3, <1>4 DEF IInv

LEMMA Inductive == IInv /\ [Next]_vars => IInv'
<1> SUFFICES ASSUME IInv, [Next]_vars PROVE IInv'
  OBVIOUS
<1>1. CASE UNCHANGED vars
  <2>1. UNCHANGED <<func, cached, halted, ch, normal, irqVars, inQuantum, due, stepping>>
    BY <1>1 DEF vars, dmaVars, loopVars
  <2>2. ChannelsOK' /\ StepOK' /\ LoopOK'
    BY <2>1, SameStep DEF IInv, ChannelsOK, OffIsStopped, LoopOK
  <2> QED BY <2>1, <2>2, SameIrqs DEF IInv
<1>2. CASE Next
  BY <1>2, QuantumStep, CpuStepOK, DmaStep, HaltBlockStep, EventStep, OverrideStep, LoadStep
  DEF Next
<1> QED BY <1>1, <1>2

LEMMA Invariant == Spec => []IInv
BY InitOK, Inductive, PTL DEF Spec

-----------------------------------------------------------------------------
(* Every field keeps its type. *)
THEOREM TypeCorrect == Spec => []TypeOK
BY Invariant, InvariantParts, PTL

(* The DMA step is only called for a channel that runs, which the mask     *)
(* names: the scheduler never spins on it without the clock advancing.     *)
THEOREM NeverSpins == Spec => []DmaNeverSpins
BY Invariant, InvariantParts, PTL

(* The CPU is stepped in the mode cached_mode says.                        *)
THEOREM ModeMatches == Spec => []FuncMatchesMode
BY Invariant, InvariantParts, PTL

(* The CPU's interrupt line is up to date in every state.                  *)
THEOREM LineAlwaysCurrent == Spec => []LineCurrent
BY Invariant, InvariantParts, PTL

(* What ends a HALT: an enabled interrupt, a transfer, or the frontend.    *)
THEOREM HaltStays == Spec => HaltHolds
<1> DEFINE Held == func = "halt" /\ ~inQuantum /\ func' # "halt" /\ ~Override
                     => func' = "dma" \/ IE \cap IFlags # {}
<1>1. IInv /\ [Next]_vars => [Held]_vars
  <2> SUFFICES ASSUME IInv, Next, func = "halt", ~inQuantum, func' # "halt", ~Override
               PROVE  func' = "dma" \/ IE \cap IFlags # {}
    OBVIOUS
  <2>1. halted
    BY DEF IInv, StepOK, HaltIsHalted
  <2>2. ~BeginQuantum /\ ~EndQuantum /\ ~DmaBlock
    BY DEF BeginQuantum, EndQuantum, DmaBlock, StepDue
  <2>3. ~Cpu
    BY DEF Cpu, Compute, WriteHALTCNT, WriteDmaControl, WriteIE, WriteIF, WriteIME,
           Instruction, StepDue
  <2>4. CASE HaltBlock
    BY <2>1, <2>4 DEF HaltBlock, Awakened
  <2>5. CASE Events
    <3>1. ASSUME NEW S, StartAll(S), \A c \in Channels : c \in S => ch[c].enable,
                 S \subseteq Channels
          PROVE  func' = "dma"
      <4>1. S # {}
        BY <3>1 DEF StartAll
      <4>2. \E c \in Channels : ch'[c].enable /\ ch'[c].started
        BY <3>1, <4>1 DEF StartAll, IInv, ChannelsOK, Chan
      <4>3. Running(ch') # {}
        BY <4>2 DEF Running
      <4> QED BY <3>1, <4>1, <4>3 DEF StartAll, EvalBitMasks
    <3>2. ASSUME NEW irq \in BOOLEAN, NEW visible \in BOOLEAN, NEW captured \in BOOLEAN,
                 HBlank(irq, visible, captured)
          PROVE  func' = "dma"
      BY <3>1, <3>2 DEF HBlank
    <3>3. ASSUME NEW irq \in BOOLEAN, VBlank(irq)
          PROVE  func' = "dma"
      BY <3>1, <3>3 DEF VBlank
    <3>4. ASSUME NEW num \in 0..3, NEW irq \in BOOLEAN, NEW hungry \in SUBSET SoundChannels,
                 TimerOverflow(num, irq, hungry)
          PROVE  func' = "dma"
      <4> DEFINE S == {c \in hungry : ch[c].enable /\ ch[c].timing = 3}
      <4>1. StartAll(S)
        BY <3>4 DEF TimerOverflow
      <4>2. S \subseteq Channels /\ \A c \in Channels : c \in S => ch[c].enable
        BY DEF SoundChannels
      <4> HIDE DEF S
      <4> QED BY <3>1, <4>1, <4>2
    <3>5. ~OtherEvent /\ ~VCount /\ \A pressed \in BOOLEAN : ~NewFrame(pressed)
      BY DEF OtherEvent, VCount, NewFrame
    <3> QED BY <2>5, <3>2, <3>3, <3>4, <3>5 DEF Events
  <2>6. ASSUME NEW mode \in BOOLEAN, SaveAndLoad(mode)
        PROVE  func' = "dma"
    BY <2>1, <2>6 DEF SaveAndLoad
  <2> QED BY <2>2, <2>3, <2>4, <2>5, <2>6 DEF Next
<1>2. Spec => [][Held]_vars
  BY <1>1, Invariant, PTL DEF Spec
<1> QED BY <1>2 DEF HaltHolds

(* What ends the DMA's steps: the last transfer, the frontend, or a HALT   *)
(* written in the quantum that started the transfer.                       *)
THEOREM TransferStays == Spec => DmaKept
<1> DEFINE Kept == func = "dma" /\ func' # "dma" /\ ~inQuantum /\ ~Override => normal' = {}
<1>1. [Next]_vars => [Kept]_vars
  <2> SUFFICES ASSUME Next, func = "dma", func' # "dma", ~inQuantum, ~Override
               PROVE  normal' = {}
    OBVIOUS
  <2>1. ~BeginQuantum /\ ~EndQuantum /\ ~HaltBlock
    BY DEF BeginQuantum, EndQuantum, HaltBlock, StepDue
  <2>2. ~Cpu
    BY DEF Cpu, Compute, WriteHALTCNT, WriteDmaControl, WriteIE, WriteIF, WriteIME,
           Instruction, StepDue
  <2>3. CASE DmaBlock
    BY <2>3 DEF DmaBlock, TransferWord, TransferLast, EvalBitMasks
  <2>4. CASE Events
    BY <2>4 DEF Events, OtherEvent, VCount, HBlank, VBlank, TimerOverflow, NewFrame,
                StartAll, EvalBitMasks
  <2>5. ASSUME NEW mode \in BOOLEAN, SaveAndLoad(mode)
        PROVE  normal' = {}
    BY <2>5 DEF SaveAndLoad
  <2> QED BY <2>1, <2>2, <2>3, <2>4, <2>5 DEF Next
<1>2. Spec => [][Kept]_vars
  BY <1>1, PTL DEF Spec
<1> QED BY <1>2 DEF DmaKept
=============================================================================
