------------------------------ MODULE Scheduler ------------------------------
(***************************************************************************)
(* scheduler_t (jocasta-lib helpers/scheduler.cpp): the event scheduler    *)
(* that drives every modern core of the emulator, together with the code   *)
(* that calls it, which is everything a core does inside an event callback *)
(* or inside run.func.                                                     *)
(*                                                                         *)
(* There are two families of run loops, and a core uses one of them:       *)
(*   Exact = FALSE  run_for_cycles / run_til_tag: fire what is due, then   *)
(*                  let run.func consume master cycles (GBA, NDS, PS1,     *)
(*                  SNES, Genesis, Dreamcast);                             *)
(*   Exact = TRUE   run_for_cycles_tg16 / run_til_tag_tg16: no run.func,   *)
(*                  the clock jumps to each event (TG16, NeoGeo, NGP).     *)
(*                                                                         *)
(* A holder is a device field pair (id, still_sched), e.g. a timer's       *)
(* sch_id and sch_scheduled_still.  Events without still_sched are         *)
(* anonymous; one of them, tagged FrameTag, is the core's frame event,     *)
(* whose callback schedules its successor.                                 *)
(*                                                                         *)
(* The variables owed and dropped and the event field late record history  *)
(* for the properties; no guard reads them.                                *)
(***************************************************************************)
EXTENDS EventList

CONSTANTS
    Holders, NoHolder,  \* devices with an (id, still_sched) pair; nullptr
    SelfArming,         \* those whose callback may arm their own pair again
                        \* while add_or_run_abs runs it (the timers)
    Tags, FrameTag,     \* event tags; the one of the frame event
    FrameLen,           \* master cycles from a frame event to the next
    DeleteNum,          \* SCHEDULER_DELETE_NUM, the capacity of to_delete
    Exact,              \* which family of run loops the core uses
    MaxClock,           \* bound: largest value of *clock and of a timecode
    MaxId,              \* bound: no device arms an event past this id
    MaxStep             \* bound: cycles per step of run.func, per run_for_cycles

ASSUME HolderAssumption == NoHolder \notin Holders /\ SelfArming \subseteq Holders
ASSUME TagAssumption == FrameTag \in Tags /\ Tags \subseteq Nat \ {0}
ASSUME SizeAssumption ==
    /\ FrameLen \in Nat \ {0}
    /\ DeleteNum \in Nat \ {0}
    /\ Exact \in BOOLEAN
    /\ MaxClock \in Nat
    /\ MaxId \in Nat
    /\ MaxStep \in Nat \ {0}

VARIABLES
    clock,      \* *clock, the core's master cycle counter
    events,     \* the list from first_event on
    heap,       \* pool: to_delete.num; live: scheduler_events malloc'ed, not freed
    flag,       \* *still_sched of each holder
    heldId,     \* the id each holder got from its last add
    idCounter,  \* id_counter
    doBreak,    \* dbg.do_break
    pc,         \* where the run loop is
    call,       \* kind, tag and exit_at of the running run_* call
    running,    \* the event whose callback runs, NoEvent if none
    inline,     \* the holders whose add_or_run_abs runs their callback, as a stack
    loopStart,  \* loop_start_clock
    cyclesLeft, \* cycles_left_to_run
    owed,       \* history: cycles granted by run_for_cycles and not yet run
    dropped     \* history: holders whose pending event clear() discarded

vars == <<clock, events, heap, flag, heldId, idCounter, doBreak, pc, call,
          running, inline, loopStart, cyclesLeft, owed, dropped>>

loopVars == <<pc, call, running, inline, loopStart, cyclesLeft, owed>>
holderVars == <<flag, heldId, dropped>>

AnyHolder == Holders \cup {NoHolder}
EventRec == [id : Nat, timecode : Nat, holder : AnyHolder,
             tag : Tags \cup {0}, late : BOOLEAN]
NoEvent == [id |-> 0, timecode |-> 0, holder |-> NoHolder, tag |-> 0, late |-> FALSE]
FirstId == 100

(***************************************************************************)
(* Storage: alloc_event takes from to_delete before it mallocs; del_event  *)
(* puts an event there and frees the whole pool when it is full.           *)
(***************************************************************************)
Alloc(hp) == IF hp.pool > 0 THEN [hp EXCEPT !.pool = @ - 1]
                            ELSE [hp EXCEPT !.live = @ + 1]

\* Mutant: the pool is emptied one event too late.
DelEventMutant(hp) == IF hp.pool = DeleteNum
                      THEN [pool |-> 0, live |-> hp.live - DeleteNum]
                      ELSE [hp EXCEPT !.pool = @ + 1]

DelEvent(hp) == IF hp.pool + 1 = DeleteNum
                THEN [pool |-> 0, live |-> hp.live - DeleteNum]
                ELSE [hp EXCEPT !.pool = @ + 1]

\* clear() calls del_event n times, k of which empty the pool.
DelMany(hp, n, k) == [pool |-> hp.pool + n - k * DeleteNum,
                      live |-> hp.live - k * DeleteNum]

(***************************************************************************)
(* What a core does to its scheduler: between frames, in a callback and    *)
(* inside run.func.                                                        *)
(***************************************************************************)
CoreRuns == pc \in {"idle", "callback", "block"}

\* No callback runs on the spot; the frontend has control.
NoInline == inline = <<>>
Idle == pc = "idle" /\ NoInline

\* While h's callback runs on the spot, only that callback could arm h.
MayArm(h) == h \in ToSet(inline) => h \in SelfArming

\* Mutant: the callers ask for any time.
MayAskMutant(timecode) == TRUE

\* With Exact loops the callers only ask for times that are not in the past.
MayAsk(timecode) == Exact => timecode >= clock

NewEvent(h, timecode, tag, late) ==
    [id |-> idCounter, timecode |-> timecode, holder |-> h, tag |-> tag, late |-> late]

Holds(h) == heldId[h] # 0 /\ HasId(events, heldId[h])

\* Mutants: a re-arm forgets the event of before, or does not give it back.
DisarmedMutant(h) == events
DisarmedHeapMutant(h) == heap

\* `if (still) delete_if_exist(id)' in front of a re-arm.
Disarmed(h) == IF flag[h] = 1 THEN DeleteIfExist(events, heldId[h]) ELSE events
DisarmedHeap(h) == IF flag[h] = 1 /\ Holds(h) THEN DelEvent(heap) ELSE heap

Bind(h) ==
    /\ flag' = [flag EXCEPT ![h] = 1]
    /\ heldId' = [heldId EXCEPT ![h] = idCounter]
    /\ dropped' = dropped \ {h}

\* only_add_abs with a still_sched; add_or_run_abs too, if the time is to come,
\* and it is the only one that the self-arming holders call.
RearmOnlyAbs(h, timecode) ==
    /\ CoreRuns /\ MayArm(h) /\ MayAsk(timecode) /\ idCounter < MaxId
    /\ h \in SelfArming => ~IsDue(timecode, clock)
    /\ events' = AddAbs(Disarmed(h),
                        NewEvent(h, timecode, 0, IsDue(timecode, clock)), clock)
    /\ heap' = Alloc(DisarmedHeap(h))
    /\ Bind(h)
    /\ idCounter' = idCounter + 1
    /\ UNCHANGED <<clock, doBreak, loopVars>>

\* add_or_run_abs, the time has come: an id is used up, the flag is cleared and
\* the callback runs at once, inside the caller; what it does is further steps
\* of the core.  Only cores with run.func use it.
RearmOrRunNow(h, timecode) ==
    /\ CoreRuns /\ ~Exact /\ MayArm(h) /\ idCounter < MaxId
    /\ IsDue(timecode, clock)
    /\ events' = Disarmed(h)
    /\ heap' = DisarmedHeap(h)
    /\ flag' = [flag EXCEPT ![h] = 0]
    /\ dropped' = dropped \ {h}
    /\ idCounter' = idCounter + 1
    /\ inline' = <<h>> \o inline
    /\ UNCHANGED <<clock, heldId, doBreak, pc, call, running, loopStart, cyclesLeft, owed>>

\* That callback returns: only now the caller stores the 0 that add_or_run_abs
\* gave it, over whatever id the callback left there.
InlineReturn ==
    /\ ~NoInline
    /\ heldId' = [heldId EXCEPT ![Head(inline)] = 0]
    /\ inline' = Tail(inline)
    /\ UNCHANGED <<clock, events, heap, flag, dropped, idCounter, doBreak,
                   pc, call, running, loopStart, cyclesLeft, owed>>

\* add_next: timecode 0, in front of everything.  Only cores with run.func use it.
RearmNext(h) ==
    /\ CoreRuns /\ ~Exact /\ MayArm(h) /\ idCounter < MaxId
    /\ h \notin SelfArming
    /\ events' = <<NewEvent(h, 0, 0, TRUE)>> \o Disarmed(h)
    /\ heap' = Alloc(DisarmedHeap(h))
    /\ Bind(h)
    /\ idCounter' = idCounter + 1
    /\ UNCHANGED <<clock, doBreak, loopVars>>

\* add_after_first_event, which the halted CPU of the NGP calls from its own
\* event: the clock jumps to the first event and the new one goes behind the
\* events that share its time.
ArmAfterFirst(h) ==
    /\ pc = "callback" /\ Exact /\ MayArm(h) /\ idCounter < MaxId
    /\ running.holder = h /\ flag[h] = 0
    /\ IF events = <<>>
       THEN /\ events' = AddAbs(events, NewEvent(h, clock + 1, 0, FALSE), clock)
            /\ clock' = clock
       ELSE /\ events[1].timecode <= MaxClock
            /\ clock' = events[1].timecode
            /\ events' = InsertAt(events, TieStop(events) + 1,
                                  NewEvent(h, events[1].timecode, 0, FALSE))
    /\ heap' = Alloc(heap)
    /\ Bind(h)
    /\ idCounter' = idCounter + 1
    /\ UNCHANGED <<doBreak, loopVars>>

\* only_add_abs or only_add_abs_w_tag without still_sched: hblank, vblank, DMA irqs.
AddAnonymous(timecode, tag) ==
    /\ CoreRuns /\ MayAsk(timecode) /\ idCounter < MaxId
    /\ tag # FrameTag
    /\ events' = AddAbs(events, NewEvent(NoHolder, timecode, tag, IsDue(timecode, clock)), clock)
    /\ heap' = Alloc(heap)
    /\ idCounter' = idCounter + 1
    /\ UNCHANGED <<clock, doBreak, holderVars, loopVars>>

\* delete_if_exist(id) on behalf of its holder, who may hold a stale id.
Cancel(h) ==
    /\ CoreRuns
    /\ heldId[h] # 0
    /\ events' = DeleteIfExist(events, heldId[h])
    /\ IF Holds(h)
       THEN heap' = DelEvent(heap) /\ flag' = [flag EXCEPT ![h] = 0]
       ELSE UNCHANGED <<heap, flag>>
    /\ UNCHANGED <<clock, heldId, idCounter, doBreak, dropped, loopVars>>

\* The frame event's callback schedules its successor: only_add_abs_w_tag at
\* clock - jitter + frame length, and clock - jitter is the event's timecode.
FramePending == \E e \in ToSet(events) : e.tag = FrameTag

\* Mutant: the next frame is counted from the late clock.
ScheduleFrameMutant ==
    LET timecode == clock + FrameLen IN
    /\ pc = "callback" /\ NoInline /\ running.tag = FrameTag
    /\ ~FramePending
    /\ events' = AddAbs(events, NewEvent(NoHolder, timecode, FrameTag, IsDue(timecode, clock)), clock)
    /\ heap' = Alloc(heap)
    /\ idCounter' = idCounter + 1
    /\ UNCHANGED <<clock, doBreak, holderVars, loopVars>>

ScheduleFrame ==
    LET timecode == running.timecode + FrameLen IN
    /\ pc = "callback" /\ NoInline /\ running.tag = FrameTag
    /\ ~FramePending
    /\ events' = AddAbs(events, NewEvent(NoHolder, timecode, FrameTag, IsDue(timecode, clock)), clock)
    /\ heap' = Alloc(heap)
    /\ idCounter' = idCounter + 1
    /\ UNCHANGED <<clock, doBreak, holderVars, loopVars>>

\* from_event_adjust_master_clock in a callback.
AdjustMasterClock(n) ==
    /\ pc = "callback" /\ ~Exact /\ NoInline
    /\ clock + n <= MaxClock
    /\ clock' = clock + n
    /\ owed' = IF call.kind = "cycles" THEN owed - n ELSE owed
    /\ UNCHANGED <<events, heap, holderVars, idCounter, doBreak,
                   pc, call, running, inline, loopStart, cyclesLeft>>

\* Mutant: a halted CPU's run.func leaves the clock where it is.
RunCyclesMutant(n) == pc = "block" /\ NoInline /\ UNCHANGED vars

\* run.func advances the clock, by less or more than the slice it was given.
RunCycles(n) ==
    /\ pc = "block" /\ NoInline
    /\ clock + n <= MaxClock
    /\ clock' = clock + n
    /\ owed' = IF call.kind = "cycles" THEN owed - n ELSE owed
    /\ UNCHANGED <<events, heap, holderVars, idCounter, doBreak,
                   pc, call, running, inline, loopStart, cyclesLeft>>

\* A breakpoint: the debugger stops the run loops.
Break ==
    /\ pc \in {"callback", "block"} /\ ~doBreak
    /\ doBreak' = TRUE
    /\ UNCHANGED <<clock, events, heap, holderVars, idCounter, loopVars>>

Resume ==
    /\ Idle /\ doBreak
    /\ doBreak' = FALSE
    /\ UNCHANGED <<clock, events, heap, holderVars, idCounter, loopVars>>

\* A core's reset(): clear(), which leaves every still_sched as it is, the
\* clock back to 0, and schedule_first.
Reset ==
    /\ Idle /\ idCounter < MaxId
    /\ clock' = 0
    /\ events' = <<NewEvent(NoHolder, FrameLen, FrameTag, FALSE)>>
    /\ \E k \in 0..Len(events) :
         /\ DelMany(heap, Len(events), k).pool \in 0..(DeleteNum - 1)
         /\ heap' = Alloc(DelMany(heap, Len(events), k))
    /\ dropped' = dropped \cup {h \in Holders : flag[h] = 1}
    /\ idCounter' = idCounter + 1
    /\ UNCHANGED <<flag, heldId, doBreak, loopVars>>

-----------------------------------------------------------------------------
(***************************************************************************)
(* The run loops.                                                          *)
(***************************************************************************)
\* Every way out of a run_* function; a break forfeits the cycles left.
Leave(left, stillOwed) ==
    /\ pc' = "idle"
    /\ running' = NoEvent
    /\ cyclesLeft' = IF doBreak THEN 0 ELSE left
    /\ owed' = IF doBreak THEN 0 ELSE stillOwed
    /\ UNCHANGED <<call, inline>>

\* run_for_cycles(howmany), run_for_cycles_tg16(howmany).
RunForCycles(howmany) ==
    /\ Idle /\ events # <<>>
    /\ Exact => \E e \in ToSet(events) :
                   e.tag = FrameTag /\ e.timecode \in clock + howmany .. MaxClock
    /\ pc' = "outer"
    /\ call' = [kind |-> "cycles", tag |-> 0, exitAt |-> clock + howmany]
    /\ cyclesLeft' = IF Exact THEN cyclesLeft ELSE cyclesLeft + howmany
    /\ owed' = IF Exact THEN owed ELSE owed + howmany
    /\ UNCHANGED <<clock, events, heap, holderVars, idCounter, doBreak, running, inline,
                   loopStart>>

\* run_til_tag(tag), run_til_tag_tg16(tag).
RunTilTag(tag) ==
    /\ Idle /\ events # <<>>
    /\ Exact => \E e \in ToSet(events) : e.tag = tag /\ e.timecode <= MaxClock
    /\ pc' = "outer"
    /\ call' = [kind |-> "tag", tag |-> tag, exitAt |-> 0]
    /\ UNCHANGED <<clock, events, heap, holderVars, idCounter, doBreak, running, inline,
                   loopStart, cyclesLeft, owed>>

\* Mutant: the flag is not cleared before the callback.
DispatchMutant(now) ==
    /\ events' = Tail(events)
    /\ running' = Head(events)
    /\ clock' = now
    /\ pc' = "callback"
    /\ UNCHANGED <<heap, holderVars, idCounter, doBreak, call, inline>>

\* Unlink first_event and clear its flag before its callback runs.
Dispatch(now) ==
    /\ events' = Tail(events)
    /\ running' = Head(events)
    /\ flag' = [h \in Holders |-> IF h = Head(events).holder THEN 0 ELSE flag[h]]
    /\ clock' = now
    /\ pc' = "callback"
    /\ UNCHANGED <<heap, heldId, idCounter, doBreak, dropped, call, inline>>

\* while(!dbg.do_break) ... loop_start_clock = current_time().
LoopTop ==
    /\ pc = "outer" /\ ~Exact
    /\ IF doBreak
       THEN Leave(0, 0) /\ UNCHANGED loopStart
       ELSE /\ pc' = "inner"
            /\ loopStart' = clock
            /\ UNCHANGED <<call, running, inline, cyclesLeft, owed>>
    /\ UNCHANGED <<clock, events, heap, holderVars, idCounter, doBreak>>

\* while(loop_start_clock >= e->timecode): call it.
FireDue ==
    /\ pc = "inner"
    /\ loopStart >= Head(events).timecode
    /\ Dispatch(clock)
    /\ UNCHANGED <<loopStart, cyclesLeft, owed>>

\* Mutant: the test for a break is the wrong way round.
EnterBlockMutant ==
    /\ pc = "inner"
    /\ loopStart < Head(events).timecode
    /\ IF doBreak
       THEN pc' = "block" /\ UNCHANGED <<call, running, inline, cyclesLeft, owed>>
       ELSE Leave(cyclesLeft, owed)
    /\ UNCHANGED <<clock, events, heap, holderVars, idCounter, doBreak, loopStart>>

\* Nothing is due: stop if the budget is spent, else call run.func.  Only the
\* debugging instance of run_til_tag looks at a break here.
EnterBlock ==
    /\ pc = "inner"
    /\ loopStart < Head(events).timecode
    /\ \/ /\ call.kind = "cycles" => cyclesLeft > 0
          /\ pc' = "block"
          /\ UNCHANGED <<call, running, inline, cyclesLeft, owed>>
       \/ /\ \/ call.kind = "cycles" /\ cyclesLeft <= 0
             \/ call.kind = "tag" /\ doBreak
          /\ Leave(cyclesLeft, owed)
    /\ UNCHANGED <<clock, events, heap, holderVars, idCounter, doBreak, loopStart>>

\* Mutant: what run.func took is not charged.
LeaveBlockMutant ==
    /\ pc = "block" /\ NoInline
    /\ pc' = "outer"
    /\ UNCHANGED <<clock, events, heap, holderVars, idCounter, doBreak, call, running,
                   inline, loopStart, cyclesLeft, owed>>

\* run.func returns; run_for_cycles charges what it took.
LeaveBlock ==
    /\ pc = "block" /\ NoInline
    /\ pc' = "outer"
    /\ cyclesLeft' = IF call.kind = "cycles" THEN cyclesLeft - (clock - loopStart) ELSE cyclesLeft
    /\ UNCHANGED <<clock, events, heap, holderVars, idCounter, doBreak, call, running,
                   inline, loopStart, owed>>

\* Mutant: the frame event's callback may forget the next frame.
CallbackDoneMutant == NoInline

\* A callback of the frame event has scheduled the next frame before it returns.
CallbackDone == NoInline /\ (running.tag = FrameTag => FramePending)

\* The callback returns into run_til_tag.
ReturnToTag ==
    /\ pc = "callback" /\ ~Exact /\ call.kind = "tag" /\ CallbackDone
    /\ heap' = DelEvent(heap)
    /\ IF running.tag = call.tag \/ events = <<>>
       THEN /\ pc' = "idle"
            /\ UNCHANGED loopStart
       ELSE /\ pc' = "inner"
            /\ loopStart' = clock
    /\ running' = NoEvent
    /\ UNCHANGED <<clock, events, holderVars, idCounter, doBreak, call, inline,
                   cyclesLeft, owed>>

\* The callback returns into run_for_cycles, which charges the time it took;
\* an empty list ends the call before that.
ReturnToCycles ==
    LET d == clock - loopStart
        left == cyclesLeft - d IN
    /\ pc = "callback" /\ ~Exact /\ call.kind = "cycles" /\ CallbackDone
    /\ heap' = DelEvent(heap)
    /\ IF events = <<>>
       THEN /\ pc' = "idle" /\ running' = NoEvent
            /\ UNCHANGED <<loopStart, cyclesLeft, owed, call, inline>>
       ELSE /\ loopStart' = clock
            /\ IF d # 0 /\ left <= 0
               THEN Leave(left, owed)
               ELSE /\ pc' = "inner" /\ running' = NoEvent
                    /\ cyclesLeft' = left
                    /\ UNCHANGED <<owed, call, inline>>
    /\ UNCHANGED <<clock, events, holderVars, idCounter, doBreak>>

\* The tg16 loops: the clock jumps to the first event, whatever its time.
ExactTop ==
    /\ pc = "outer" /\ Exact
    /\ IF doBreak \/ (call.kind = "cycles" /\ clock >= call.exitAt)
       THEN /\ Leave(cyclesLeft, owed)
            /\ UNCHANGED <<clock, events, heap, holderVars, idCounter, doBreak>>
       ELSE /\ Dispatch(Head(events).timecode)
            /\ UNCHANGED <<cyclesLeft, owed>>
    /\ UNCHANGED loopStart

ReturnToExact ==
    /\ pc = "callback" /\ Exact /\ CallbackDone
    /\ heap' = DelEvent(heap)
    /\ pc' = IF \/ call.kind = "tag" /\ running.tag = call.tag
                \/ call.kind = "cycles" /\ events = <<>>
             THEN "idle" ELSE "outer"
    /\ running' = NoEvent
    /\ UNCHANGED <<clock, events, holderVars, idCounter, doBreak, call, inline, loopStart,
                   cyclesLeft, owed>>

-----------------------------------------------------------------------------
Init ==
    /\ clock = 0
    /\ events = <<[id |-> FirstId, timecode |-> FrameLen, holder |-> NoHolder,
                   tag |-> FrameTag, late |-> FALSE]>>
    /\ heap = [pool |-> 0, live |-> 1]
    /\ flag = [h \in Holders |-> 0]
    /\ heldId = [h \in Holders |-> 0]
    /\ idCounter = FirstId + 1
    /\ doBreak = FALSE
    /\ pc = "idle"
    /\ call = [kind |-> "tag", tag |-> FrameTag, exitAt |-> 0]
    /\ running = NoEvent
    /\ inline = <<>>
    /\ loopStart = 0
    /\ cyclesLeft = 0
    /\ owed = 0
    /\ dropped = {}

CoreStep ==
    \/ \E h \in Holders :
         \/ \E t \in 0..MaxClock :
              \/ RearmOnlyAbs(h, t)
              \/ RearmOrRunNow(h, t)
         \/ RearmNext(h)
         \/ ArmAfterFirst(h)
         \/ Cancel(h)
    \/ InlineReturn
    \/ \E t \in 0..MaxClock, tag \in Tags \cup {0} : AddAnonymous(t, tag)
    \/ ScheduleFrame
    \/ \E n \in 1..MaxStep : AdjustMasterClock(n) \/ RunCycles(n)
    \/ Break

Driver ==
    \/ Resume
    \/ Reset
    \/ \E n \in 1..MaxStep : RunForCycles(n)
    \/ \E tag \in Tags : RunTilTag(tag)

LoopStep ==
    \/ LoopTop \/ FireDue \/ EnterBlock \/ LeaveBlock
    \/ ReturnToTag \/ ReturnToCycles
    \/ ExactTop \/ ReturnToExact

Next == CoreStep \/ Driver \/ LoopStep

Spec == Init /\ [][Next]_vars

(***************************************************************************)
(* Fairness: the emulation is one thread that runs its functions to their  *)
(* end, the frontend keeps asking for frames, and run.func keeps consuming *)
(* cycles: a block may return without having moved the clock (a CPU that   *)
(* just left HALT), but not for ever.                                      *)
(***************************************************************************)
Fairness ==
    /\ WF_vars(LoopStep)
    /\ WF_vars(InlineReturn)
    /\ WF_vars(ScheduleFrame)
    /\ SF_vars(Resume)
    /\ SF_vars(RunTilTag(FrameTag))
    /\ SF_vars(\E n \in 1..MaxStep : RunCycles(n))

FairSpec == Spec /\ Fairness

-----------------------------------------------------------------------------
(***************************************************************************)
(* Properties.                                                             *)
(***************************************************************************)
Pending == ToSet(events)
Busy == running # NoEvent

(* Type invariant of every field of scheduler_t and of its callers' pairs. *)
TypeOK ==
    /\ clock \in Nat
    /\ events \in Seq(EventRec)
    /\ heap \in [pool : 0..(DeleteNum - 1), live : Nat]
    /\ flag \in [Holders -> {0, 1}]
    /\ heldId \in [Holders -> Nat]
    /\ idCounter \in Nat
    /\ doBreak \in BOOLEAN
    /\ pc \in {"idle", "outer", "inner", "callback", "block"}
    /\ call \in [kind : {"cycles", "tag"}, tag : Tags \cup {0}, exitAt : Nat]
    /\ running \in EventRec
    /\ inline \in Seq(Holders)
    /\ loopStart \in Nat
    /\ cyclesLeft \in Int
    /\ owed \in Int
    /\ dropped \in SUBSET Holders

(* While an event with a still_sched is linked, its holder sees still = 1  *)
(* and has that very id in hand: it is always able to cancel it, and owns  *)
(* no second event, whatever fired, was deleted, was re-armed or was run   *)
(* on the spot before (bind_or_run, delete_if_exist, the run loops and the *)
(* caller of add_or_run_abs each write the pair).  The self-arming devices *)
(* are left out: of them see EveryHolderCanCancel.                         *)
HolderCanCancel ==
    \A e \in Pending :
        e.holder \in Holders \ SelfArming =>
            flag[e.holder] = 1 /\ heldId[e.holder] = e.id

(* The same of every device, timers too: once no callback runs on the spot *)
(* the id in hand is that of the event that is linked, so that a write to  *)
(* a timer's control register deletes the overflow that is scheduled.      *)
(* (gba_timers.cpp:82, scheduler.h:25)                                     *)
EveryHolderCanCancel ==
    NoInline =>
        \A e \in Pending : e.holder \in Holders => heldId[e.holder] = e.id

(* still = 1 means that the event is linked, unless clear() threw it away  *)
(* behind its holder's back (scheduler.cpp:44-55 leaves still_sched as is). *)
StillMeansPending ==
    \A h \in Holders :
        flag[h] = 1 => h \in dropped \/ \E e \in Pending : e.holder = h

(* Events asked for in time stay in the order of their times, and none of  *)
(* them is due before the one whose callback is running: looking only at   *)
(* first_event, the run loops never let a later event overtake an earlier. *)
NoOvertaking ==
    /\ \A i, j \in 1..Len(events) :
          i < j /\ ~events[i].late /\ ~events[j].late
             => events[i].timecode <= events[j].timecode
    /\ Busy /\ ~running.late =>
          \A e \in Pending : ~e.late => running.timecode <= e.timecode

(* While the CPU runs, no event is waiting that was due when run.func was  *)
(* called: all that are were asked for too late.  (run loops, 336-395)     *)
NoDueEventWaits ==
    pc = "block" => \A e \in Pending : e.late \/ e.timecode > loopStart

(* Every scheduler_event is in the list, in to_delete, or is the one that  *)
(* is running: none is leaked, none is freed or pooled twice.              *)
NodesConserved ==
    heap.live = Len(events) + heap.pool + (IF Busy THEN 1 ELSE 0)

(* run_for_cycles charges every cycle that passes, in callbacks and in     *)
(* blocks, exactly once: what is left is what was granted minus what ran.  *)
BudgetExact ==
    cyclesLeft = owed + (IF call.kind = "cycles" /\ pc \in {"callback", "block"} /\ ~Exact
                         THEN clock - loopStart ELSE 0)

(* A call returns only when the cycles it was granted are used up: what is *)
(* carried into the next call is a debt, never a surplus, so no call runs  *)
(* further than it was asked for because an earlier one stopped short.     *)
(* (scheduler.cpp:338, 375, 380, 392)                                      *)
BudgetSpent == pc = "idle" => cyclesLeft <= 0

(* The frame event re-arms itself from its own callback without drift,     *)
(* however late that callback runs, and there is always exactly one: the   *)
(* run loops, which dereference first_event, never meet an empty list.     *)
FrameOnGrid ==
    LET frames == {e \in Pending : e.tag = FrameTag} IN
    /\ \A e \in frames : e.timecode % FrameLen = 0 /\ e.holder = NoHolder
    /\ \A e, f \in frames : e = f
    /\ frames = {} => pc = "callback" /\ running.tag = FrameTag

(* The clock never runs backwards except at a reset, which needs the run   *)
(* loop to be idle; not even in the tg16 loops, which set *clock from the  *)
(* event they take off the list.                                           *)
ClockForward == [][clock' >= clock \/ (pc = "idle" /\ clock' = 0)]_vars

(* The set of pending events behaves as Agenda promises.                   *)
Promise == INSTANCE Agenda
           WITH pending <- Pending,
                handling <- running,
                now <- clock

AgendaSpec == Promise!Spec

(* Whatever a holder arms happens: its event eventually fires, is          *)
(* cancelled or re-armed, or the bound on the clock is reached.            *)
ArmedEventHappens ==
    \A h \in Holders, id \in FirstId..MaxId :
        (\E e \in Pending : e.id = id /\ e.holder = h)
          ~> ((\A e \in Pending : e.id # id) \/ clock + MaxStep > MaxClock)

(* Every run_* call returns to the frontend (up to the bound on the clock).*)
CallsReturn == (pc # "idle") ~> (pc = "idle" \/ clock + MaxStep > MaxClock)
=============================================================================
