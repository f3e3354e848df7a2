------------------------------- MODULE NdsIrq -------------------------------
(***************************************************************************)
(* How an interrupt reaches one CPU of the NDS: nds_irq.cpp, the handlers  *)
(* of IE, IF, IME and HALTCNT in nds_bus.cpp, run_block, and IRQcheck,     *)
(* sch_check_irq and schedule_IRQ_check of the ARM core (arm32/exec.h).    *)
(*                                                                         *)
(* The interrupt line is recomputed by whoever changes IE, IF or IME.  If  *)
(* that happens while this CPU is in run_block, the check is left to an    *)
(* event of the scheduler, which fires after the block; otherwise the CPU  *)
(* takes the interrupt at once.  An instruction that writes CPSR schedules *)
(* a check too, unless sch_irq_sch says that one is pending.               *)
(*                                                                         *)
(* wrong records, for the properties only, what a restart left behind: a   *)
(* check that clear() threw away, a line that nobody recomputed.           *)
(***************************************************************************)
EXTENDS Naturals

CONSTANTS
    Sources,    \* interrupts of the high half of IE and IF, IPC's among them
    CachedMode  \* the CPU runs decoded blocks instead of single instructions

ASSUME ModeAssumption == CachedMode \in BOOLEAN

VARIABLES
    cpu,        \* which of the two this is
    turn,       \* who runs: the scheduler, this CPU, the other, or nobody
    enabled,    \* IE
    pending,    \* IF
    master,     \* IME
    line,       \* regs.IRQ_line
    masked,     \* regs.CPSR.I
    halted,     \* halted
    check,      \* sch_check_irq is pending, added by IRQcheck
    cpsrCheck,  \* sch_check_irq is pending, added by schedule_IRQ_check
    irqSch,     \* sch_irq_sch, the still_sched of cpsrCheck
    saved,      \* a save state
    wrong       \* history

irqRegs == <<enabled, pending, master>>
cpuRegs == <<masked, halted>>
checks == <<check, cpsrCheck, irqSch>>
frontend == <<cpu, saved>>
vars == <<cpu, turn, enabled, pending, master, line, masked, halted,
          check, cpsrCheck, irqSch, saved, wrong>>

Level(e, p, m) == m /\ e \cap p # {}

\* do_interrupt wakes a halted CPU and masks further interrupts.
TakeInterrupt == masked' = TRUE /\ halted' = FALSE

\* eval_irqs inside this CPU's turn and outside of it, on the new registers.
EvalInside(e, p, m) ==
    /\ line' = Level(e, p, m)
    /\ check' = TRUE
    /\ wrong' = wrong \ {"line"}
    /\ UNCHANGED <<cpuRegs, cpsrCheck, irqSch>>

\* Mutant: the line goes up, and the CPU is not told.
EvalOutsideMutant(e, p, m) ==
    /\ line' = Level(e, p, m)
    /\ wrong' = wrong \ {"line"}
    /\ UNCHANGED <<cpuRegs, checks>>

EvalOutside(e, p, m) ==
    /\ line' = Level(e, p, m)
    /\ IF line' /\ ~masked THEN TakeInterrupt ELSE UNCHANGED cpuRegs
    /\ wrong' = wrong \ {"line"}
    /\ UNCHANGED checks

-----------------------------------------------------------------------------
(* The CPU executes.  Halted, it does not, but for an interpreted ARM7,    *)
(* which looks at halted only after an instruction, and for the rest of a  *)
(* decoded block, if the halt comes when its cycles have run out.          *)
Executes ==
    /\ turn \in {"own", "ran"}
    /\ halted => IF CachedMode THEN turn = "ran" ELSE cpu = "arm7" /\ turn = "own"
    /\ turn' = "ran"

WriteIE(e) ==
    /\ Executes
    /\ enabled' = e
    /\ EvalInside(e, pending, master)
    /\ UNCHANGED <<frontend, pending, master>>

\* A byte or a halfword to the low half of IE: the ARM7's handler loses the
\* high half.
WriteIELow ==
    /\ Executes
    /\ enabled' = IF cpu = "arm7" THEN {} ELSE enabled
    /\ EvalInside(enabled', pending, master)
    /\ UNCHANGED <<frontend, pending, master>>

WriteIME(m) ==
    /\ Executes
    /\ master' = m
    /\ EvalInside(enabled, pending, m)
    /\ UNCHANGED <<frontend, enabled, pending>>

\* Mutant: IF changes, and the line is left alone.
AcknowledgeMutant(p) ==
    /\ Executes
    /\ pending' = pending \ p
    /\ UNCHANGED <<frontend, enabled, master, line, cpuRegs, checks, wrong>>

Acknowledge(p) ==
    /\ Executes
    /\ pending' = pending \ p
    /\ EvalInside(enabled, pending \ p, master)
    /\ UNCHANGED <<frontend, enabled, master>>

\* update_IF: the ARM7's evaluates only if IF changes.
NothingNew(s) == cpu = "arm7" /\ s \in pending

\* A register access of this CPU raises an interrupt of its own, e.g. by
\* enabling it in IPCFIFOCNT.
RaiseInside(s) ==
    /\ Executes
    /\ pending' = pending \cup {s}
    /\ IF NothingNew(s) THEN UNCHANGED <<line, cpuRegs, checks, wrong>>
                        ELSE EvalInside(enabled, pending', master)
    /\ UNCHANGED <<frontend, enabled, master>>

\* The other CPU, or a device in its event, raises one.
RaiseOutside(s) ==
    /\ turn \in {"other", "events"}
    /\ pending' = pending \cup {s}
    /\ IF NothingNew(s) THEN UNCHANGED <<line, cpuRegs, checks, wrong>>
                        ELSE EvalOutside(enabled, pending', master)
    /\ UNCHANGED <<frontend, turn, enabled, master>>

\* Mutant: CPSR is written without a check.
WriteCPSRMutant(i) ==
    /\ Executes
    /\ masked' = i
    /\ UNCHANGED <<frontend, irqRegs, line, halted, checks, wrong>>

\* MSR and the returns from exceptions.
WriteCPSR(i) ==
    /\ Executes
    /\ masked' = i
    /\ IF irqSch THEN UNCHANGED <<cpsrCheck, irqSch>>
                 ELSE cpsrCheck' = TRUE /\ irqSch' = TRUE
    /\ UNCHANGED <<frontend, irqRegs, line, halted, check, wrong>>

\* SWI and undefined instructions enter their handlers masked.
Exception ==
    /\ Executes
    /\ masked' = TRUE
    /\ UNCHANGED <<frontend, irqRegs, line, halted, checks, wrong>>

\* HALTCNT of the ARM7, coprocessor 15 of the ARM9.
Halt ==
    /\ Executes
    /\ halted' = TRUE
    /\ UNCHANGED <<frontend, irqRegs, line, masked, checks, wrong>>

-----------------------------------------------------------------------------
(***************************************************************************)
(* The run loop of the scheduler: all that is due fires before a block,    *)
(* and run_block runs the ARM7, then the ARM9.                             *)
(***************************************************************************)
\* Entering the handler takes time, which may be the last of a single step.
CheckIrq ==
    /\ IF line /\ ~masked THEN TakeInterrupt /\ turn' \in {"events", "rest"}
                         ELSE UNCHANGED <<cpuRegs, turn>>
    /\ UNCHANGED <<frontend, irqRegs, line, wrong>>

FireCheck ==
    /\ turn = "events" /\ check
    /\ check' = FALSE
    /\ CheckIrq
    /\ UNCHANGED <<cpsrCheck, irqSch>>

FireCpsrCheck ==
    /\ turn = "events" /\ cpsrCheck
    /\ cpsrCheck' = FALSE /\ irqSch' = FALSE
    /\ CheckIrq
    /\ UNCHANGED check

StartBlock ==
    /\ turn = "events" /\ ~check /\ ~cpsrCheck
    /\ turn' = IF cpu = "arm7" THEN "own" ELSE "other"
    /\ UNCHANGED <<frontend, irqRegs, line, cpuRegs, checks, wrong>>

NextCpu ==
    /\ turn' = IF cpu = "arm7" THEN "other" ELSE "own"
    /\ turn \in (IF cpu = "arm7" THEN {"own", "ran"} ELSE {"other"})
    /\ UNCHANGED <<frontend, irqRegs, line, cpuRegs, checks, wrong>>

\* The block ends; at a breakpoint, or after the cycles of a single step, the
\* loop ends with it.
EndBlock(break) ==
    /\ turn \in (IF cpu = "arm7" THEN {"other"} ELSE {"own", "ran"})
    /\ turn' = IF break THEN "rest" ELSE "events"
    /\ UNCHANGED <<frontend, irqRegs, line, cpuRegs, checks, wrong>>

\* The frame's event fires after every check that is pending.
EndFrame ==
    /\ turn = "events" /\ ~check /\ ~cpsrCheck
    /\ turn' = "rest"
    /\ UNCHANGED <<frontend, irqRegs, line, cpuRegs, checks, wrong>>

-----------------------------------------------------------------------------
(* The frontend, between frames or at a breakpoint.                        *)
Resume ==
    /\ turn = "rest"
    /\ turn' = "events"
    /\ UNCHANGED <<frontend, irqRegs, line, cpuRegs, checks, wrong>>

When(condition, what) == IF condition THEN {what} ELSE {}

\* reset(): the scheduler is cleared; IRQ_line, halted and sch_irq_sch stay.
Reset ==
    /\ turn = "rest"
    /\ enabled' = {} /\ pending' = {} /\ master' = FALSE
    /\ masked' = TRUE
    /\ check' = FALSE /\ cpsrCheck' = FALSE
    /\ wrong' = wrong \cup When(cpsrCheck, "check") \cup When(line, "line")
    /\ UNCHANGED <<frontend, turn, line, halted, irqSch>>

SaveState ==
    /\ turn = "rest"
    /\ saved' = [enabled |-> enabled, pending |-> pending, master |-> master, line |-> line,
                 masked |-> masked, halted |-> halted,
                 wrong |-> wrong \cup When(check \/ cpsrCheck, "check")]
    /\ UNCHANGED <<cpu, turn, irqRegs, line, cpuRegs, checks, wrong>>

\* Mutant: sch_irq_sch keeps its value over a load.
LoadStateMutant ==
    /\ turn = "rest"
    /\ enabled' = saved.enabled /\ pending' = saved.pending /\ master' = saved.master
    /\ line' = saved.line /\ masked' = saved.masked /\ halted' = saved.halted
    /\ check' = FALSE /\ cpsrCheck' = FALSE
    /\ wrong' = saved.wrong
    /\ UNCHANGED <<frontend, turn, irqSch>>

\* load_state(): post_deserialize() rebuilds the scheduler without checks.
LoadState ==
    /\ turn = "rest"
    /\ enabled' = saved.enabled /\ pending' = saved.pending /\ master' = saved.master
    /\ line' = saved.line /\ masked' = saved.masked /\ halted' = saved.halted
    /\ check' = FALSE /\ cpsrCheck' = FALSE /\ irqSch' = FALSE
    /\ wrong' = saved.wrong
    /\ UNCHANGED <<frontend, turn>>

-----------------------------------------------------------------------------
AtReset == [enabled |-> {}, pending |-> {}, master |-> FALSE, line |-> FALSE,
            masked |-> TRUE, halted |-> FALSE, wrong |-> {}]

Init ==
    /\ cpu \in {"arm7", "arm9"}
    /\ turn = "rest"
    /\ enabled = {} /\ pending = {} /\ master = FALSE
    /\ line = FALSE /\ masked = TRUE /\ halted = FALSE
    /\ check = FALSE /\ cpsrCheck = FALSE /\ irqSch = FALSE
    /\ saved = AtReset
    /\ wrong = {}

Instruction ==
    \/ \E s \in SUBSET Sources : WriteIE(s) \/ Acknowledge(s)
    \/ WriteIELow
    \/ \E b \in BOOLEAN : WriteIME(b) \/ WriteCPSR(b)
    \/ \E s \in Sources : RaiseInside(s)
    \/ Exception
    \/ Halt

RunLoop ==
    \/ FireCheck \/ FireCpsrCheck
    \/ StartBlock \/ NextCpu \/ (\E break \in BOOLEAN : EndBlock(break)) \/ EndFrame

Frontend == Reset \/ SaveState \/ LoadState

Next ==
    \/ Instruction
    \/ \E s \in Sources : RaiseOutside(s)
    \/ RunLoop
    \/ Resume
    \/ Frontend

(***************************************************************************)
(* Fairness: the emulation is one thread that runs to the end of what it   *)
(* has begun, and the frontend goes on asking for frames.                  *)
(***************************************************************************)
Spec == Init /\ [][Next]_vars /\ WF_vars(RunLoop) /\ WF_vars(Resume)

-----------------------------------------------------------------------------
(***************************************************************************)
(* Properties.                                                             *)
(***************************************************************************)
State == [enabled : SUBSET Sources, pending : SUBSET Sources, master : BOOLEAN,
          line : BOOLEAN, masked : BOOLEAN, halted : BOOLEAN,
          wrong : SUBSET {"check", "line"}]

(* Types; and sch_irq_sch is up only while its event is pending, unless    *)
(* clear() threw that away.                                                *)
TypeOK ==
    /\ cpu \in {"arm7", "arm9"}
    /\ turn \in {"rest", "events", "own", "ran", "other"}
    /\ enabled \in SUBSET Sources /\ pending \in SUBSET Sources /\ master \in BOOLEAN
    /\ line \in BOOLEAN /\ masked \in BOOLEAN /\ halted \in BOOLEAN
    /\ check \in BOOLEAN /\ cpsrCheck \in BOOLEAN /\ irqSch \in BOOLEAN
    /\ saved \in State
    /\ wrong \in SUBSET {"check", "line"}
    /\ irqSch /\ "check" \notin wrong => cpsrCheck

(* IRQ_line is what IE, IF and IME say, at whatever point of a block, of   *)
(* the other CPU's turn or of a save they were changed: update_IF7 may     *)
(* skip the evaluation, and a load restores the line instead of computing  *)
(* it.  (Only reset() leaves it behind.)                                   *)
LineExact == "line" \notin wrong => line = Level(enabled, pending, master)

(* An interrupt that the CPU could take is never forgotten: as long as it  *)
(* is not taken, a check of it is pending in the scheduler.  Whoever       *)
(* raises, enables or unmasks it last has to see to that, in its own turn  *)
(* or in the other CPU's.  (Only clear() throws checks away.)              *)
NoForgottenIrq ==
    line /\ ~masked /\ "check" \notin wrong => check \/ cpsrCheck

(* So it is taken, and a CPU that halted to wait for it wakes up, unless   *)
(* the program or a restart withdraws it first.                            *)
InterruptHappens ==
    (line /\ ~masked /\ "check" \notin wrong)
      ~> (masked \/ ~line \/ "check" \in wrong)
=============================================================================
