---------------------------- MODULE NdsIrqProofs ----------------------------
(***************************************************************************)
(* NdsIrq's invariants, proved for any set of interrupts, either CPU and   *)
(* either way to run it.                                                   *)
(***************************************************************************)
EXTENDS NdsIrq, TLAPS

(* A save state is as consistent as the machine it was taken from: if it   *)
(* restores an interrupt that could be taken, no check of which will be    *)
(* pending, then it was taken at a moment when one was.                    *)
SavedInv ==
    /\ "line" \notin saved.wrong
          => saved.line = Level(saved.enabled, saved.pending, saved.master)
    /\ saved.line /\ ~saved.masked => "check" \in saved.wrong

(* The inductive invariant.                                                *)
IInv == TypeOK /\ LineExact /\ NoForgottenIrq /\ SavedInv

LEMMA LevelType ==
    ASSUME NEW e, NEW p, NEW m \in BOOLEAN
    PROVE  Level(e, p, m) \in BOOLEAN
BY DEF Level

LEMMA InitInv ==
    ASSUME Init
    PROVE  IInv
<1>1. /\ enabled = {} /\ pending = {} /\ wrong = {} /\ saved = AtReset
      /\ line = FALSE /\ masked = TRUE /\ irqSch = FALSE
  BY DEF Init
<1>2. AtReset \in State
  <2>1. {} \in SUBSET Sources /\ {} \in SUBSET {"check", "line"}
    OBVIOUS
  <2> QED BY <2>1 DEF AtReset, State
<1>3. TypeOK
  BY <1>1, <1>2 DEF Init, TypeOK
<1>4. LineExact /\ NoForgottenIrq
  <2>1. Level(enabled, pending, master) = FALSE
    BY DEF Init, Level
  <2> QED BY <1>1, <2>1 DEF LineExact, NoForgottenIrq
<1>5. SavedInv
  <2>1. /\ saved.line = FALSE /\ saved.enabled = {} /\ saved.pending = {}
        /\ saved.master = FALSE
    BY <1>1 DEF AtReset
  <2>2. Level(saved.enabled, saved.pending, saved.master) = FALSE
    BY <2>1 DEF Level
  <2> QED BY <2>1, <2>2 DEF SavedInv
<1> QED BY <1>3, <1>4, <1>5 DEF IInv

(* What the handlers that recompute the line do to the invariant: inside   *)
(* this CPU's turn a check is pending afterwards, outside of it whatever   *)
(* could be taken is.                                                      *)
LEMMA EvalInsideKeeps ==
    ASSUME IInv, NEW e \in SUBSET Sources, NEW p \in SUBSET Sources, NEW m \in BOOLEAN,
           enabled' = e, pending' = p, master' = m, turn' = "ran",
           EvalInside(e, p, m), UNCHANGED frontend
    PROVE  IInv'
BY LevelType DEF IInv, TypeOK, LineExact, NoForgottenIrq, SavedInv, EvalInside, cpuRegs, frontend

LEMMA EvalOutsideKeeps ==
    ASSUME IInv, NEW e \in SUBSET Sources, NEW p \in SUBSET Sources, NEW m \in BOOLEAN,
           enabled' = e, pending' = p, master' = m, turn' = turn,
           EvalOutside(e, p, m), UNCHANGED frontend
    PROVE  IInv'
<1>1. (line' /\ ~masked => masked' /\ ~halted') /\ (~(line' /\ ~masked) => UNCHANGED cpuRegs)
  BY DEF EvalOutside, TakeInterrupt
<1>2. masked' \in BOOLEAN /\ halted' \in BOOLEAN /\ (line' => masked')
  BY <1>1 DEF IInv, TypeOK, cpuRegs, EvalOutside, TakeInterrupt
<1> QED BY <1>2, LevelType
        DEF IInv, TypeOK, LineExact, NoForgottenIrq, SavedInv, EvalOutside, checks, frontend

(* The event of a check: what it leaves of the checks that were pending is *)
(* enough, since the CPU has taken whatever it could.                      *)
LEMMA CheckIrqKeeps ==
    ASSUME IInv, CheckIrq, check' \in BOOLEAN, cpsrCheck' \in BOOLEAN, irqSch' \in BOOLEAN,
           irqSch' /\ "check" \notin wrong => cpsrCheck'
    PROVE  IInv'
<1>1. /\ UNCHANGED <<cpu, saved, enabled, pending, master, line, wrong>>
      /\ turn' \in {"rest", "events", "own", "ran", "other"}
      /\ masked' \in BOOLEAN /\ halted' \in BOOLEAN
      /\ line' => masked'
  BY DEF CheckIrq, TakeInterrupt, frontend, irqRegs, cpuRegs, IInv, TypeOK
<1> QED BY <1>1 DEF IInv, TypeOK, LineExact, NoForgottenIrq, SavedInv

(* The instructions of the CPU.                                            *)
LEMMA InstructionKeeps ==
    ASSUME IInv, Instruction
    PROVE  IInv'
<1> USE DEF Executes
<1>1. ASSUME NEW e \in SUBSET Sources, WriteIE(e) PROVE IInv'
  <2>1. pending \in SUBSET Sources /\ master \in BOOLEAN
    BY DEF IInv, TypeOK
  <2> QED BY <1>1, <2>1, EvalInsideKeeps DEF WriteIE
<1>2. ASSUME NEW p \in SUBSET Sources, Acknowledge(p) PROVE IInv'
  <2>1. enabled \in SUBSET Sources /\ pending \ p \in SUBSET Sources /\ master \in BOOLEAN
    BY DEF IInv, TypeOK
  <2> QED BY <1>2, <2>1, EvalInsideKeeps DEF Acknowledge
<1>3. CASE WriteIELow
  <2>1. enabled' \in SUBSET Sources /\ pending \in SUBSET Sources /\ master \in BOOLEAN
    BY <1>3 DEF WriteIELow, IInv, TypeOK
  <2> QED BY <1>3, <2>1, EvalInsideKeeps DEF WriteIELow
<1>4. ASSUME NEW m \in BOOLEAN, WriteIME(m) PROVE IInv'
  <2>1. enabled \in SUBSET Sources /\ pending \in SUBSET Sources
    BY DEF IInv, TypeOK
  <2> QED BY <1>4, <2>1, EvalInsideKeeps DEF WriteIME
<1>5. ASSUME NEW i \in BOOLEAN, WriteCPSR(i) PROVE IInv'
  <2>1. /\ UNCHANGED <<cpu, saved, enabled, pending, master, line, halted, check, wrong>>
        /\ masked' \in BOOLEAN /\ turn' = "ran"
        /\ cpsrCheck' \in BOOLEAN /\ irqSch' = TRUE
        /\ "check" \notin wrong => cpsrCheck' = TRUE
    BY <1>5 DEF WriteCPSR, frontend, irqRegs, IInv, TypeOK
  <2> QED BY <2>1 DEF IInv, TypeOK, LineExact, NoForgottenIrq, SavedInv
<1>6. ASSUME NEW s \in Sources, RaiseInside(s) PROVE IInv'
  <2>1. /\ enabled \in SUBSET Sources /\ pending' \in SUBSET Sources /\ master \in BOOLEAN
        /\ pending' = pending \cup {s}
    BY <1>6 DEF RaiseInside, IInv, TypeOK
  <2>2. CASE NothingNew(s)
    <3>1. UNCHANGED <<cpu, saved, enabled, pending, master, line, masked, halted, check,
                      cpsrCheck, irqSch, wrong>> /\ turn' = "ran"
      BY <1>6, <2>2 DEF RaiseInside, NothingNew, frontend, cpuRegs, checks
    <3> QED BY <3>1 DEF IInv, TypeOK, LineExact, NoForgottenIrq, SavedInv
  <2>3. CASE ~NothingNew(s)
    BY <1>6, <2>1, <2>3, EvalInsideKeeps DEF RaiseInside
  <2> QED BY <2>2, <2>3
<1>7. CASE Exception
  BY <1>7 DEF Exception, frontend, irqRegs, checks, IInv, TypeOK, LineExact, NoForgottenIrq,
              SavedInv
<1>8. CASE Halt
  BY <1>8 DEF Halt, frontend, irqRegs, checks, IInv, TypeOK, LineExact, NoForgottenIrq,
              SavedInv
<1> QED BY <1>1, <1>2, <1>3, <1>4, <1>5, <1>6, <1>7, <1>8 DEF Instruction

(* The other CPU and the devices.                                          *)
LEMMA RaiseOutsideKeeps ==
    ASSUME IInv, NEW s \in Sources, RaiseOutside(s)
    PROVE  IInv'
<1>1. /\ enabled \in SUBSET Sources /\ pending' \in SUBSET Sources /\ master \in BOOLEAN
      /\ pending' = pending \cup {s}
  BY DEF RaiseOutside, IInv, TypeOK
<1>2. CASE NothingNew(s)
  <2>1. UNCHANGED <<cpu, saved, turn, enabled, pending, master, line, masked, halted, check,
                    cpsrCheck, irqSch, wrong>>
    BY <1>2 DEF RaiseOutside, NothingNew, frontend, cpuRegs, checks
  <2> QED BY <2>1 DEF IInv, TypeOK, LineExact, NoForgottenIrq, SavedInv
<1>3. CASE ~NothingNew(s)
  BY <1>1, <1>3, EvalOutsideKeeps DEF RaiseOutside
<1> QED BY <1>2, <1>3

(* The run loop: only the two events of checks touch the invariant.        *)
LEMMA RunLoopKeeps ==
    ASSUME IInv, RunLoop
    PROVE  IInv'
<1>1. CASE FireCheck
  <2>1. /\ CheckIrq /\ check' \in BOOLEAN /\ cpsrCheck' \in BOOLEAN /\ irqSch' \in BOOLEAN
        /\ irqSch' /\ "check" \notin wrong => cpsrCheck'
    BY <1>1 DEF FireCheck, IInv, TypeOK
  <2> QED BY <2>1, CheckIrqKeeps
<1>2. CASE FireCpsrCheck
  <2>1. /\ CheckIrq /\ check' \in BOOLEAN /\ cpsrCheck' \in BOOLEAN /\ irqSch' \in BOOLEAN
        /\ irqSch' /\ "check" \notin wrong => cpsrCheck'
    BY <1>2 DEF FireCpsrCheck, IInv, TypeOK
  <2> QED BY <2>1, CheckIrqKeeps
<1>3. CASE StartBlock \/ NextCpu \/ (\E break \in BOOLEAN : EndBlock(break)) \/ EndFrame
  <2>1. /\ UNCHANGED <<cpu, saved, enabled, pending, master, line, masked, halted, check,
                       cpsrCheck, irqSch, wrong>>
        /\ turn' \in {"rest", "events", "own", "ran", "other"}
    BY <1>3 DEF StartBlock, NextCpu, EndBlock, EndFrame, frontend, irqRegs, cpuRegs, checks
  <2> QED BY <2>1 DEF IInv, TypeOK, LineExact, NoForgottenIrq, SavedInv
<1> QED BY <1>1, <1>2, <1>3 DEF RunLoop

(* The frontend: a save relies on NoForgottenIrq, a load on SavedInv.      *)
LEMMA FrontendKeeps ==
    ASSUME IInv, Frontend
    PROVE  IInv'
<1>1. CASE Reset
  <2>1. /\ UNCHANGED <<cpu, saved, turn, line, halted, irqSch>>
        /\ enabled' = {} /\ pending' = {} /\ master' = FALSE
        /\ masked' = TRUE /\ check' = FALSE /\ cpsrCheck' = FALSE
        /\ wrong' \in SUBSET {"check", "line"} /\ wrong \subseteq wrong'
        /\ cpsrCheck => "check" \in wrong'
        /\ line => "line" \in wrong'
    BY <1>1 DEF Reset, When, frontend, IInv, TypeOK
  <2>2. TypeOK'
    BY <2>1 DEF IInv, TypeOK
  <2>3. Level(enabled', pending', master') = FALSE
    BY <2>1 DEF Level
  <2>4. LineExact' /\ NoForgottenIrq'
    BY <2>1, <2>3 DEF IInv, TypeOK, LineExact, NoForgottenIrq
  <2>5. SavedInv'
    BY <2>1 DEF IInv, SavedInv
  <2> QED BY <2>2, <2>4, <2>5 DEF IInv
<1>2. CASE SaveState
  <2>1. /\ UNCHANGED <<cpu, turn, enabled, pending, master, line, masked, halted, check,
                       cpsrCheck, irqSch, wrong>>
        /\ saved' = [enabled |-> enabled, pending |-> pending, master |-> master, line |-> line,
                     masked |-> masked, halted |-> halted,
                     wrong |-> wrong \cup When(check \/ cpsrCheck, "check")]
    BY <1>2 DEF SaveState, irqRegs, cpuRegs, checks
  <2>2. wrong \cup When(check \/ cpsrCheck, "check") \in SUBSET {"check", "line"}
    BY DEF When, IInv, TypeOK
  <2>3. saved' \in State
    BY <2>1, <2>2 DEF State, IInv, TypeOK
  <2>4. SavedInv'
    <3>1. /\ saved'.enabled = enabled /\ saved'.pending = pending /\ saved'.master = master
          /\ saved'.line = line /\ saved'.masked = masked
          /\ saved'.wrong = wrong \cup When(check \/ cpsrCheck, "check")
      BY <2>1
    <3> QED BY <3>1 DEF IInv, LineExact, NoForgottenIrq, SavedInv, When
  <2> QED BY <2>1, <2>3, <2>4 DEF IInv, TypeOK, LineExact, NoForgottenIrq
<1>3. CASE LoadState
  <2>1. /\ UNCHANGED <<cpu, saved, turn>>
        /\ enabled' = saved.enabled /\ pending' = saved.pending /\ master' = saved.master
        /\ line' = saved.line /\ masked' = saved.masked /\ halted' = saved.halted
        /\ check' = FALSE /\ cpsrCheck' = FALSE /\ irqSch' = FALSE /\ wrong' = saved.wrong
    BY <1>3 DEF LoadState, frontend
  <2>2. /\ saved.enabled \in SUBSET Sources /\ saved.pending \in SUBSET Sources
        /\ saved.master \in BOOLEAN /\ saved.line \in BOOLEAN /\ saved.masked \in BOOLEAN
        /\ saved.halted \in BOOLEAN /\ saved.wrong \in SUBSET {"check", "line"}
    BY DEF IInv, TypeOK, State
  <2>3. TypeOK'
    BY <2>1, <2>2 DEF IInv, TypeOK
  <2> QED BY <2>1, <2>3 DEF IInv, LineExact, NoForgottenIrq, SavedInv
<1> QED BY <1>1, <1>2, <1>3 DEF Frontend

LEMMA StepInv ==
    ASSUME IInv, [Next]_vars
    PROVE  IInv'
<1>1. CASE Resume
  <2>1. UNCHANGED <<cpu, saved, enabled, pending, master, line, masked, halted, check,
                    cpsrCheck, irqSch, wrong>> /\ turn' = "events"
    BY <1>1 DEF Resume, frontend, irqRegs, cpuRegs, checks
  <2> QED BY <2>1 DEF IInv, TypeOK, LineExact, NoForgottenIrq, SavedInv
<1>2. CASE UNCHANGED vars
  BY <1>2 DEF vars, IInv, TypeOK, LineExact, NoForgottenIrq, SavedInv
<1> QED BY <1>1, <1>2, InstructionKeeps, RaiseOutsideKeeps, RunLoopKeeps, FrontendKeeps DEF Next

(* The invariant holds of every behaviour of the interrupt delivery.       *)
THEOREM InvHolds == Spec => []IInv
<1>1. Init => IInv
  BY InitInv
<1>2. IInv /\ [Next]_vars => IInv'
  BY StepInv
<1> QED BY <1>1, <1>2, PTL DEF Spec

(* The types, and sch_irq_sch: it is up only while its event is pending,   *)
(* or a reset has thrown that event away.                                  *)
THEOREM TypeCorrect == Spec => []TypeOK
<1>1. IInv => TypeOK
  BY DEF IInv
<1> QED BY InvHolds, <1>1, PTL

(* IRQ_line follows IE, IF and IME through every handler and every load,   *)
(* for any set of interrupts.                                              *)
THEOREM LineIsExact == Spec => []LineExact
<1>1. IInv => LineExact
  BY DEF IInv
<1> QED BY InvHolds, <1>1, PTL

(* No interrupt is forgotten: as long as one can be taken, an event that   *)
(* makes the CPU take it is pending, whoever raised, enabled or unmasked   *)
(* it.                                                                     *)
THEOREM NoIrqIsForgotten == Spec => []NoForgottenIrq
<1>1. IInv => NoForgottenIrq
  BY DEF IInv
<1> QED BY InvHolds, <1>1, PTL
=============================================================================
