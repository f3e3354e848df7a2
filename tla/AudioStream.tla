----------------------------- MODULE AudioStream -----------------------------
(***************************************************************************)
(* One audio stream of the GUI and the two threads that share it: the      *)
(* emulator thread (imgui_jocasta_app::mainloop, do_play, do_pause, a      *)
(* media swap, and the core's pushes), and the audio thread (data_callback *)
(* of audiowrap.cpp).  They share the ring and two atomics, locked and     *)
(* fade_out_steps; nothing else orders them.                               *)
(*                                                                         *)
(* A stream whose rate is not the device's goes through clownresampler,    *)
(* which is not part of the repository's source: of it the model has what  *)
(* its two callbacks show, that it asks for pairs, as many and as often as *)
(* it likes, that it may keep of them what it likes from one callback to   *)
(* the next, and that it returns.                                          *)
(*                                                                         *)
(* Steps are single accesses to shared memory, in the order the code makes *)
(* them; memory itself is taken to be sequentially consistent.             *)
(*                                                                         *)
(* era, leftover, cb.fresh record history: the emulated sound changes era  *)
(* when lock_all() has returned, leftover is what the resampler holds from *)
(* callbacks that began before, and fresh says that this one did not.  No  *)
(* guard reads them.                                                       *)
(***************************************************************************)
EXTENDS AudioRing

CONSTANTS
    FrameSamples,  \* pairs that the core pushes in a frame
    CatchUpFrames, \* most frames in one turn of the main loop (4 in the code)
    FastFrames,    \* frames in one turn while fast forward is held
    Pad, Keep,     \* pairs in the start-up ramp; pairs end_fastforward keeps
    FadeSteps,     \* callback periods in a fade-out (5 in the code)
    Period, Chunk, \* pairs per callback; most pairs per pop()
    Needed,        \* pairs a resampled stream wants to see before it plays
    Demand,        \* most pairs the resampler asks for at once
    Exclusive,     \* what the environment never lets overlap a callback
    CommandLine    \* the game was named on the command line

ASSUME StreamAssumption ==
    /\ {FrameSamples, CatchUpFrames, FastFrames, FadeSteps} \subseteq Nat \ {0}
    /\ {Period, Chunk, Needed, Demand} \subseteq Nat \ {0}
    /\ {Pad, Keep} \subseteq Nat
    /\ Pad < Capacity   \* a ramp is a frame at most, the ring four and more
    /\ Exclusive \subseteq {"lock", "prime", "keep"}
    /\ CommandLine \in BOOLEAN

VARIABLES
    resample,     \* audio_stream::resample
    held,         \* eras of the pairs that the resampler holds
    locked,       \* audio_stream::locked
    fade,         \* audio_stream::fade_out_steps
    run,          \* run_state
    needsPrime,   \* audio_needs_prime
    fastWasDown,  \* key_was_down
    gui,          \* where the emulator thread is
    turn,         \* its locals: pairs left to push, how the turn goes on
    cb,           \* where the audio thread is, and its locals
    era,          \* history: which sound the core produces
    leftover      \* history: what the resampler holds from before that

resampler == <<resample, held, leftover>>
streamVars == <<locked, fade, resampler>>
guiRest == <<run, needsPrime, fastWasDown, turn, era>>
guiVars == <<gui, guiRest>>
vars == <<ringVars, streamVars, guiVars, cb>>

NoTurn == [left |-> 0, prime |-> FALSE, keep |-> FALSE]
NoCallback == [pc |-> "idle", fade |-> 0, r |-> 0, w |-> 0, want |-> 0,
               count |-> 0, out |-> <<>>, ask |-> 0, done |-> 0, fresh |-> TRUE]

InLock == gui \in {"lockFade", "lockDrain", "lockClose"}
InKeep == gui \in {"keep", "keepStore"}

\* The environment's timing assumption, both ways round.
MayOverlap(op) == op \in Exclusive => cb.pc = "idle"
MayCall == ~("lock" \in Exclusive /\ InLock) /\ ~("keep" \in Exclusive /\ InKeep)

-----------------------------------------------------------------------------
(***************************************************************************)
(* The emulator thread: one turn of the main loop after another.           *)
(***************************************************************************)
\* Mutant: play without asking for the streams to be primed.
DoPlayMutant ==
    /\ gui = "idle" /\ run = "pause" /\ MayOverlap("lock")
    /\ run' = "play"
    /\ gui' = "lockFade"
    /\ UNCHANGED <<ringVars, streamVars, needsPrime, fastWasDown, turn, cb, era>>

DoPlay ==
    /\ gui = "idle" /\ run = "pause" /\ MayOverlap("lock")
    /\ run' = "play"
    /\ needsPrime' = TRUE
    /\ gui' = "lockFade"
    /\ UNCHANGED <<ringVars, streamVars, fastWasDown, turn, cb, era>>

\* A new cartridge or tape goes into the running core.
SwapMedia ==
    /\ gui = "idle" /\ MayOverlap("lock")
    /\ needsPrime' = (run = "play")
    /\ gui' = "lockFade"
    /\ UNCHANGED <<ringVars, streamVars, run, fastWasDown, turn, cb, era>>

(* lock_all(): three stores.                                               *)
LockFade ==
    /\ gui = "lockFade"
    /\ fade' = 0
    /\ gui' = "lockDrain"
    /\ UNCHANGED <<ringVars, locked, resampler, guiRest, cb>>

\* Mutant: lock_all() does not drain.
LockDrainMutant ==
    /\ gui = "lockDrain"
    /\ gui' = "lockClose"
    /\ UNCHANGED <<ringVars, streamVars, guiRest, cb>>

LockDrain ==
    /\ gui = "lockDrain"
    /\ DrainTo(writePos)
    /\ gui' = "lockClose"
    /\ UNCHANGED <<data, writePos, streamVars, guiRest, cb>>

\* Mutant: lock_all() does not lock.
LockCloseMutant ==
    /\ gui = "lockClose"
    /\ gui' = "idle"
    /\ era' = 1 - era
    /\ leftover' = held
    /\ cb' = [cb EXCEPT !.fresh = cb.pc = "idle"]
    /\ UNCHANGED <<ringVars, locked, fade, resample, held, run, needsPrime, fastWasDown, turn>>

LockClose ==
    /\ gui = "lockClose"
    /\ locked' = TRUE
    /\ gui' = "idle"
    /\ era' = 1 - era
    /\ leftover' = held
    /\ cb' = [cb EXCEPT !.fresh = cb.pc = "idle"]
    /\ UNCHANGED <<ringVars, fade, resample, held, run, needsPrime, fastWasDown, turn>>

\* do_pause() and begin_fadeout(): only streams that are not locked fade.
DoPause ==
    /\ gui = "idle" /\ run = "play"
    /\ run' = "pause"
    /\ needsPrime' = FALSE
    /\ gui' = IF locked THEN "idle" ELSE "fade"
    /\ UNCHANGED <<ringVars, streamVars, fastWasDown, turn, cb, era>>

BeginFade ==
    /\ gui = "fade"
    /\ fade' = FadeSteps
    /\ gui' = "idle"
    /\ UNCHANGED <<ringVars, locked, resampler, guiRest, cb>>

\* The main loop finds the debugger stopped: it pauses, and leaves the audio
\* alone.
Break ==
    /\ gui = "idle" /\ run = "play"
    /\ run' = "pause"
    /\ UNCHANGED <<ringVars, streamVars, needsPrime, fastWasDown, gui, turn, cb, era>>

\* A turn that emulates.  Fast forward runs FastFrames; otherwise the wall
\* clock says how many frames are due, and it may be none.
RunFrames(fast, frames) ==
    LET keep == fastWasDown /\ ~fast IN
    /\ gui = "idle" /\ run = "play"
    /\ fast => frames = FastFrames
    /\ turn' = [left |-> frames * FrameSamples,
                prime |-> frames > 0 /\ needsPrime,
                keep |-> keep]
    /\ gui' = "frames"
    /\ fastWasDown' = fast
    /\ UNCHANGED <<ringVars, streamVars, run, needsPrime, cb, era>>

\* A turn that does not, paused or with a menu open: only the key is looked at.
SkipTurn(fast) ==
    /\ gui = "idle"
    /\ fastWasDown' = fast
    /\ UNCHANGED <<ringVars, streamVars, run, needsPrime, gui, turn, cb, era>>

\* The step buttons of the debugger push what they emulate.
StepButton ==
    /\ gui = "idle"
    /\ turn' = [NoTurn EXCEPT !.left = FrameSamples]
    /\ gui' = "frames"
    /\ UNCHANGED <<ringVars, streamVars, run, needsPrime, fastWasDown, cb, era>>

(* push(), for each pair of the turn.                                      *)
PushCheck ==
    /\ gui = "frames" /\ turn.left > 0
    /\ turn' = [turn EXCEPT !.left = @ - 1]
    /\ gui' = IF Full THEN "frames" ELSE "left"
    /\ UNCHANGED <<ringVars, streamVars, run, needsPrime, fastWasDown, cb, era>>

\* A breakpoint: advance_time() returns at once, the rest of the turn goes on.
BreakHits ==
    /\ gui = "frames" /\ turn.left > 0
    /\ turn' = [turn EXCEPT !.left = 0]
    /\ UNCHANGED <<ringVars, streamVars, run, needsPrime, fastWasDown, gui, cb, era>>

PushLeft ==
    /\ gui = "left"
    /\ WriteLeft(era)
    /\ gui' = "right"
    /\ UNCHANGED <<writePos, readPos, streamVars, guiRest, cb>>

PushRight ==
    /\ gui = "right"
    /\ WriteRight(era)
    /\ gui' = "publish"
    /\ UNCHANGED <<writePos, readPos, streamVars, guiRest, cb>>

PushPublish ==
    /\ gui = "publish"
    /\ Publish
    /\ gui' = "frames"
    /\ UNCHANGED <<data, readPos, streamVars, guiRest, cb>>

\* Leaving fast forward ends the turn with end_fastforward().
TurnEnds ==
    /\ turn.keep => MayOverlap("keep")
    /\ gui' = IF turn.keep THEN "keep" ELSE "idle"
    /\ turn' = NoTurn

\* The frames have run: prime first, if that is due.
FramesDone ==
    /\ gui = "frames" /\ turn.left = 0
    /\ IF turn.prime THEN gui' = "ramp" /\ UNCHANGED turn ELSE TurnEnds
    /\ UNCHANGED <<ringVars, streamVars, run, needsPrime, fastWasDown, cb, era>>

(* prime_and_unlock(): the ramp, its publication, and two stores.          *)
PrimeRamp ==
    /\ gui = "ramp" /\ MayOverlap("prime")
    /\ WriteRamp(Pad)
    /\ gui' = "stepBack"
    /\ UNCHANGED <<writePos, readPos, streamVars, guiRest, cb>>

PrimeStepBack ==
    /\ gui = "stepBack"
    /\ StepBack(Pad)
    /\ gui' = "primeFade"
    /\ UNCHANGED <<data, writePos, streamVars, guiRest, cb>>

PrimeFade ==
    /\ gui = "primeFade"
    /\ fade' = 0
    /\ gui' = "unlock"
    /\ UNCHANGED <<ringVars, locked, resampler, guiRest, cb>>

PrimeUnlock ==
    /\ gui = "unlock"
    /\ locked' = FALSE
    /\ needsPrime' = FALSE
    /\ TurnEnds
    /\ UNCHANGED <<ringVars, fade, resampler, run, fastWasDown, cb, era>>

(* keep_latest(): look, then store.                                        *)
KeepCheck ==
    /\ gui = "keep"
    /\ gui' = IF Queued > Keep THEN "keepStore" ELSE "idle"
    /\ UNCHANGED <<ringVars, streamVars, guiRest, cb>>

KeepStore ==
    /\ gui = "keepStore"
    /\ KeepLatest(Keep)
    /\ gui' = "idle"
    /\ UNCHANGED <<data, writePos, streamVars, guiRest, cb>>

-----------------------------------------------------------------------------
(***************************************************************************)
(* The audio thread: data_callback, once per period.                       *)
(***************************************************************************)
\* A locked stream is skipped.
CallbackStart ==
    /\ cb.pc = "idle" /\ MayCall
    /\ ~locked
    /\ cb' = [NoCallback EXCEPT !.pc = "fade"]
    /\ UNCHANGED <<ringVars, streamVars, guiVars>>

\* Mutant: the fade is not counted down.
FadeLoadMutant ==
    /\ cb.pc = "fade"
    /\ cb' = IF fade > 0 THEN [cb EXCEPT !.pc = "fadeStore", !.fade = fade]
                         ELSE [cb EXCEPT !.pc = "available"]
    /\ UNCHANGED <<ringVars, streamVars, guiVars>>

FadeLoad ==
    /\ cb.pc = "fade"
    /\ cb' = IF fade > 0 THEN [cb EXCEPT !.pc = "fadeStore", !.fade = fade - 1]
                         ELSE [cb EXCEPT !.pc = "available"]
    /\ UNCHANGED <<ringVars, streamVars, guiVars>>

FadeStore ==
    /\ cb.pc = "fadeStore"
    /\ fade' = cb.fade
    /\ cb' = [cb EXCEPT !.pc = IF cb.fade = 0 THEN "close" ELSE "available", !.fade = 0]
    /\ UNCHANGED <<ringVars, locked, resampler, guiVars>>

\* The fade is complete: lock, then drain; no output in this period.
FadeClose ==
    /\ cb.pc = "close"
    /\ locked' = TRUE
    /\ cb' = [cb EXCEPT !.pc = "drain"]
    /\ UNCHANGED <<ringVars, fade, resampler, guiVars>>

FadeDrainLoad ==
    /\ cb.pc = "drain"
    /\ cb' = [cb EXCEPT !.pc = "drainStore", !.w = writePos]
    /\ UNCHANGED <<ringVars, streamVars, guiVars>>

FadeDrainStore ==
    /\ cb.pc = "drainStore"
    /\ DrainTo(cb.w)
    /\ cb' = NoCallback
    /\ UNCHANGED <<data, writePos, streamVars, guiVars>>

\* Output only if there is enough for it: the period, or what a resampled
\* stream is reckoned to need for one.
Wanted == IF resample THEN Needed ELSE Period

Available ==
    /\ cb.pc = "available"
    /\ cb' = IF Queued < Wanted THEN NoCallback
             ELSE IF resample THEN [cb EXCEPT !.pc = "resample"]
             ELSE [cb EXCEPT !.pc = "popRead", !.ask = Period]
    /\ UNCHANGED <<ringVars, streamVars, guiVars>>

(* ClownResampler_HighLevel_Resample: it asks for some pairs, or returns   *)
(* and holds what it has not used.                                         *)
ResamplerAsks(pairs) ==
    /\ cb.pc = "resample"
    /\ cb' = [cb EXCEPT !.pc = "popRead", !.ask = pairs]
    /\ UNCHANGED <<ringVars, streamVars, guiVars>>

ResamplerReturns ==
    /\ cb.pc = "resample"
    /\ held' \in SUBSET held
    /\ leftover' = leftover \cap held'
    /\ cb' = NoCallback
    /\ UNCHANGED <<ringVars, locked, fade, resample, guiVars>>

(* pop(), chunk by chunk until what was asked for is there or the ring is  *)
(* empty.                                                                  *)
PopRead ==
    /\ cb.pc = "popRead"
    /\ cb' = [cb EXCEPT !.pc = "popWrite", !.r = readPos,
                        !.want = IF cb.ask - cb.done < Chunk THEN cb.ask - cb.done ELSE Chunk]
    /\ UNCHANGED <<ringVars, streamVars, guiVars>>

\* Mutant: pop() takes all there is.
PopWriteMutant ==
    /\ cb.pc = "popWrite"
    /\ cb' = [cb EXCEPT !.pc = "copy", !.count = Wrap(writePos - cb.r)]
    /\ UNCHANGED <<ringVars, streamVars, guiVars>>

PopWrite ==
    LET there == Wrap(writePos - cb.r) IN
    /\ cb.pc = "popWrite"
    /\ cb' = [cb EXCEPT !.pc = "copy", !.count = IF cb.want < there THEN cb.want ELSE there]
    /\ UNCHANGED <<ringVars, streamVars, guiVars>>

\* A pair is read in two loads: out ends in a left half in between.
Unread == 4
Half == cb.out # <<>> /\ cb.out[Len(cb.out)].r = Unread

CopyLeft ==
    LET pair == data[Slot(cb.r + Len(cb.out))] IN
    /\ cb.pc = "copy" /\ ~Half /\ Len(cb.out) < cb.count
    /\ cb' = [cb EXCEPT !.out = Append(@, [l |-> pair.l, r |-> Unread])]
    /\ UNCHANGED <<ringVars, streamVars, guiVars>>

CopyRight ==
    LET pair == data[Slot(cb.r + Len(cb.out) - 1)] IN
    /\ cb.pc = "copy" /\ Half
    /\ cb' = [cb EXCEPT !.out[Len(cb.out)].r = pair.r]
    /\ UNCHANGED <<ringVars, streamVars, guiVars>>

PopStore ==
    LET done == cb.done + cb.count IN
    /\ cb.pc = "copy" /\ ~Half /\ Len(cb.out) = cb.count
    /\ Consume(cb.r, cb.count)
    /\ cb' = IF cb.count = cb.want /\ done < cb.ask
             THEN [NoCallback EXCEPT !.pc = "popRead", !.ask = cb.ask, !.done = done,
                                     !.fresh = cb.fresh]
             ELSE IF resample THEN [NoCallback EXCEPT !.pc = "resample", !.fresh = cb.fresh]
             ELSE NoCallback
    /\ held' = IF resample THEN held \cup ({cb.out[i].l : i \in 1..Len(cb.out)} \ {Ramp})
                           ELSE held
    /\ leftover' = IF cb.fresh THEN leftover ELSE held'
    /\ UNCHANGED <<data, writePos, locked, fade, resample, guiVars>>

-----------------------------------------------------------------------------
Init ==
    /\ RingInit
    /\ resample \in BOOLEAN /\ held = {}
    /\ locked = TRUE /\ fade = 0
    /\ run = IF CommandLine THEN "play" ELSE "pause"
    /\ needsPrime = FALSE /\ fastWasDown = FALSE
    /\ gui = "idle" /\ turn = NoTurn
    /\ cb = NoCallback
    /\ era = 0 /\ leftover = {}

GuiInput ==
    \/ DoPlay \/ SwapMedia \/ DoPause \/ Break \/ StepButton \/ BreakHits
    \/ \E fast \in BOOLEAN :
         \/ \E frames \in 0..CatchUpFrames \cup {FastFrames} : RunFrames(fast, frames)
         \/ SkipTurn(fast)

GuiStep ==
    \/ LockFade \/ LockDrain \/ LockClose \/ BeginFade
    \/ PushCheck \/ PushLeft \/ PushRight \/ PushPublish \/ FramesDone
    \/ PrimeRamp \/ PrimeStepBack \/ PrimeFade \/ PrimeUnlock
    \/ KeepCheck \/ KeepStore

ResamplerStep == ResamplerReturns \/ \E pairs \in 1..Demand : ResamplerAsks(pairs)

Callback ==
    \/ CallbackStart \/ FadeLoad \/ FadeStore
    \/ FadeClose \/ FadeDrainLoad \/ FadeDrainStore
    \/ Available \/ PopRead \/ PopWrite \/ CopyLeft \/ CopyRight \/ PopStore
    \/ ResamplerStep

Next == GuiInput \/ GuiStep \/ Callback

(***************************************************************************)
(* Fairness: what the main loop has begun it finishes, the device goes on  *)
(* asking for periods and a callback runs to its end, however often the    *)
(* resampler asks.  Nothing says that the user does anything.              *)
(***************************************************************************)
Spec ==
    /\ Init /\ [][Next]_vars
    /\ WF_vars(GuiStep) /\ WF_vars(Callback) /\ SF_vars(ResamplerReturns)

-----------------------------------------------------------------------------
(***************************************************************************)
(* Properties.                                                             *)
(***************************************************************************)
TypeOK ==
    /\ RingTypeOK
    /\ {resample, locked} \subseteq BOOLEAN /\ fade \in 0..FadeSteps
    /\ held \subseteq Samples /\ leftover \subseteq held /\ (~resample => held = {})
    /\ run \in {"play", "pause"}
    /\ {needsPrime, fastWasDown} \subseteq BOOLEAN
    /\ gui \in {"idle", "lockFade", "lockDrain", "lockClose", "fade", "frames", "left",
                "right", "publish", "ramp", "stepBack", "primeFade", "unlock", "keep",
                "keepStore"}
    /\ turn.left \in Nat
    /\ cb.pc \in {"idle", "fade", "fadeStore", "close", "drain", "drainStore",
                  "available", "resample", "popRead", "popWrite", "copy"}
    /\ cb.count <= cb.want /\ cb.done + cb.want <= cb.ask /\ Len(cb.out) <= cb.count
    /\ era \in Eras

(* The stream is the bounded queue that AudioQueue promises: whatever the  *)
(* interleaving of push, pop, fade, prime and flush, the audio thread      *)
(* consumes whole pairs, in the order they were pushed, none twice.        *)
Promise == INSTANCE AudioQueue
           WITH Limit <- Capacity,
                RampLength <- Pad,
                RampPair <- [l |-> Ramp, r |-> Ramp],
                queue <- Live,
                taken <- cb.out,
                open <- ~locked

QueueSpec == Promise!Spec

(* Once lock_all() has returned, no callback that begins later ever takes  *)
(* from the ring what was pushed before: the new game is not greeted with  *)
(* the old one's sound, but for the exception that this names.  What the   *)
(* resampler holds from callbacks before, nothing empties, and it is heard *)
(* after the next prime; whatever else it holds is of the new era.         *)
(* (application.cpp:4164, audiowrap.h:53-54)                               *)
NoStaleAudio ==
    /\ cb.fresh => \A i \in 1..Len(cb.out) : cb.out[i].l \in {era, Ramp}
    /\ held \subseteq {era} \cup leftover

(* While the emulation plays, between two turns of the main loop, with     *)
(* nothing left to prime and sound waiting in the ring, the stream is not  *)
(* locked: if it were, it would stay silent until the user pauses and      *)
(* plays again.  (application.cpp:4557-4566)                               *)
PrimedPlays ==
    run = "play" /\ ~needsPrime /\ gui = "idle" /\ Queued > 0 => ~locked

(* A stream is primed only while it is locked, so the ramp is written and  *)
(* published where no callback is reading.  (audio_ring.h:102-103)         *)
PrimedInSilence ==
    gui \in {"ramp", "stepBack", "primeFade", "unlock"} => locked /\ cb.pc = "idle"

(* A fade that a pause began comes to its end, and the stream is closed,   *)
(* unless the user plays on first.                                         *)
FadeEnds == (run = "pause" /\ fade > 0) ~> (locked \/ run = "play")
=============================================================================
