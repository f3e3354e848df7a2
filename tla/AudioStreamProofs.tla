-------------------------- MODULE AudioStreamProofs --------------------------
(***************************************************************************)
(* AudioStream's invariants, proved for rings of any size, any lengths of  *)
(* frames, periods, ramps and fades.  What is assumed of the environment   *)
(* is named in each theorem.                                               *)
(***************************************************************************)
EXTENDS AudioStream, AudioRingProofs

GuiPlaces == {"idle", "lockFade", "lockDrain", "lockClose", "fade", "frames", "left",
              "right", "publish", "ramp", "stepBack", "primeFade", "unlock", "keep",
              "keepStore"}
CbPlaces == {"idle", "fade", "fadeStore", "close", "drain", "drainStore",
             "available", "resample", "popRead", "popWrite", "copy"}
Popping == {"popRead", "popWrite", "copy"}

Turns == [left : Nat, prime : BOOLEAN, keep : BOOLEAN]
Heard == [l : Samples, r : Samples \cup {Unread}]
Callbacks == [pc : CbPlaces, fade : 0..FadeSteps, r : 0..(Width - 1), w : 0..(Width - 1),
              want : Nat, count : Nat, out : Seq(Heard), ask : Nat, done : Nat,
              fresh : BOOLEAN]

(* Types, in full: a callback has copied nothing but while it copies, and  *)
(* no more than it was asked for.                                          *)
GuiType ==
    /\ locked \in BOOLEAN /\ fade \in 0..FadeSteps
    /\ run \in {"play", "pause"}
    /\ needsPrime \in BOOLEAN /\ fastWasDown \in BOOLEAN
    /\ gui \in GuiPlaces
    /\ turn \in Turns
    /\ era \in Eras

CbType ==
    /\ cb \in Callbacks
    /\ cb.count <= cb.want /\ cb.done + cb.want <= cb.ask /\ Len(cb.out) <= cb.count
    /\ cb.pc # "copy" => cb.out = <<>> /\ cb.count = 0
    /\ cb.pc \notin Popping => cb.want = 0 /\ cb.done = 0

TypeInv == RingTypeOK /\ GuiType /\ CbType

(* Only a resampled stream holds anything.                                 *)
HeldType ==
    /\ resample \in BOOLEAN /\ held \subseteq Samples /\ leftover \subseteq held
    /\ ~resample => held = {}

LEMMA TypeInvIsTypeOK == TypeInv /\ HeldType => TypeOK
BY DEF TypeInv, HeldType, GuiType, CbType, TypeOK, GuiPlaces, CbPlaces, Turns, Callbacks

-----------------------------------------------------------------------------
LEMMA Sizes ==
    /\ Capacity \in Nat \ {0} /\ Width \in Nat \ {0} /\ Width > Capacity
    /\ FrameSamples \in Nat \ {0} /\ CatchUpFrames \in Nat \ {0} /\ FastFrames \in Nat \ {0}
    /\ FadeSteps \in Nat \ {0} /\ Period \in Nat \ {0} /\ Chunk \in Nat \ {0}
    /\ Needed \in Nat \ {0} /\ Demand \in Nat \ {0}
    /\ Pad \in Nat /\ Keep \in Nat /\ Pad < Capacity
BY RingAssumption, StreamAssumption

LEMMA WrapType ==
    ASSUME NEW x \in Int
    PROVE  Wrap(x) \in 0..(Width - 1) /\ Wrap(x) \in Nat
BY Sizes DEF Wrap

LEMMA SlotType ==
    ASSUME NEW x \in Int
    PROVE  Slot(x) \in 0..(Capacity - 1)
BY Sizes DEF Slot

LEMMA InitType ==
    ASSUME Init
    PROVE  TypeInv
<1>1. RingTypeOK
  BY Sizes DEF Init, RingInit, RingTypeOK, Pair, Samples
<1>2. GuiType
  <2>1. NoTurn \in Turns /\ 0 \in 0..FadeSteps
    BY Sizes DEF Turns, NoTurn
  <2>2. run \in {"play", "pause"}
    BY DEF Init
  <2> QED BY <2>1, <2>2 DEF Init, GuiType, GuiPlaces, Eras
<1>3. CbType
  <2>1. <<>> \in Seq(Heard) /\ Len(<<>>) = 0
    OBVIOUS
  <2> QED BY Sizes, <2>1 DEF Init, CbType, Callbacks, CbPlaces, NoCallback, Popping
<1> QED BY <1>1, <1>2, <1>3 DEF TypeInv

-----------------------------------------------------------------------------
(***************************************************************************)
(* Steps of the emulator thread.                                           *)
(***************************************************************************)
LEMMA InputType ==
    ASSUME TypeInv, GuiInput
    PROVE  TypeInv'
<1> USE DEF TypeInv, GuiType, CbType, RingTypeOK, ringVars, streamVars, GuiPlaces
<1>1. CASE DoPlay
  BY <1>1 DEF DoPlay
<1>2. CASE SwapMedia
  BY <1>2 DEF SwapMedia
<1>3. CASE DoPause
  BY <1>3 DEF DoPause
<1>4. CASE Break
  BY <1>4 DEF Break
<1>5. CASE StepButton
  BY <1>5, Sizes DEF StepButton, NoTurn, Turns
<1>6. CASE BreakHits
  BY <1>6 DEF BreakHits, Turns
<1>7. ASSUME NEW fast \in BOOLEAN, NEW frames \in 0..CatchUpFrames \cup {FastFrames},
             RunFrames(fast, frames)
      PROVE  TypeInv'
  <2>1. frames * FrameSamples \in Nat
    BY Sizes
  <2> QED BY <1>7, <2>1 DEF RunFrames, Turns
<1>8. ASSUME NEW fast \in BOOLEAN, SkipTurn(fast)
      PROVE  TypeInv'
  BY <1>8 DEF SkipTurn
<1> QED BY <1>1, <1>2, <1>3, <1>4, <1>5, <1>6, <1>7, <1>8 DEF GuiInput

LEMMA RingWrites ==
    ASSUME RingTypeOK, NEW s \in Samples, NEW d,
           \/ d = [data EXCEPT ![Slot(writePos)].l = s]
           \/ d = [data EXCEPT ![Slot(writePos)].r = s]
    PROVE  d \in [0..(Capacity - 1) -> Pair]
<1>1. Slot(writePos) \in 0..(Capacity - 1)
  BY SlotType, Sizes DEF RingTypeOK
<1> QED BY <1>1 DEF RingTypeOK, Pair

LEMMA GuiStepType ==
    ASSUME TypeInv, GuiStep
    PROVE  TypeInv'
<1> USE DEF TypeInv, GuiType, CbType, RingTypeOK, ringVars, streamVars, guiRest, GuiPlaces
<1>1. CASE LockFade
  BY <1>1, Sizes DEF LockFade
<1>2. CASE LockDrain
  BY <1>2 DEF LockDrain, DrainTo
<1>3. CASE LockClose
  <2>1. cb' \in Callbacks /\ cb'.pc = cb.pc /\ cb'.count = cb.count /\ cb'.want = cb.want
        /\ cb'.ask = cb.ask /\ cb'.done = cb.done /\ cb'.out = cb.out
    <3>1. (cb.pc = "idle") \in BOOLEAN
      OBVIOUS
    <3>2. cb' = [cb EXCEPT !.fresh = (cb.pc = "idle")]
      BY <1>3 DEF LockClose
    <3> HIDE DEF GuiType, RingTypeOK
    <3> QED BY <3>1, <3>2 DEF Callbacks
  <2>2. CbType'
    BY <2>1 DEF CbType
  <2>3. era' \in Eras
    BY <1>3 DEF LockClose, Eras
  <2> QED BY <1>3, <2>2, <2>3 DEF LockClose
<1>4. CASE BeginFade
  BY <1>4, Sizes DEF BeginFade
<1>5. CASE PushCheck
  BY <1>5 DEF PushCheck, Turns
<1>6. CASE PushLeft
  <2>1. data' \in [0..(Capacity - 1) -> Pair]
    BY <1>6, RingWrites DEF PushLeft, WriteLeft, Samples
  <2> QED BY <1>6, <2>1 DEF PushLeft
<1>7. CASE PushRight
  <2>1. data' \in [0..(Capacity - 1) -> Pair]
    BY <1>7, RingWrites DEF PushRight, WriteRight, Samples
  <2> QED BY <1>7, <2>1 DEF PushRight
<1>8. CASE PushPublish
  BY <1>8, WrapType, Sizes DEF PushPublish, Publish
<1>9. CASE FramesDone
  <2>1. NoTurn \in Turns
    BY DEF NoTurn, Turns
  <2>2. turn' \in Turns /\ gui' \in GuiPlaces
    BY <1>9, <2>1 DEF FramesDone, TurnEnds
  <2> QED BY <1>9, <2>2 DEF FramesDone
<1>10. CASE PrimeRamp
  <2>1. data' \in [0..(Capacity - 1) -> Pair]
    BY <1>10 DEF PrimeRamp, WriteRamp, Pair, Samples
  <2> QED BY <1>10, <2>1 DEF PrimeRamp
<1>11. CASE PrimeStepBack
  BY <1>11, WrapType, Sizes DEF PrimeStepBack, StepBack
<1>12. CASE PrimeFade
  BY <1>12, Sizes DEF PrimeFade
<1>13. CASE PrimeUnlock
  BY <1>13 DEF PrimeUnlock, TurnEnds, NoTurn, Turns
<1>14. CASE KeepCheck
  BY <1>14 DEF KeepCheck
<1>15. CASE KeepStore
  BY <1>15, WrapType, Sizes DEF KeepStore, KeepLatest
<1> QED BY <1>1, <1>2, <1>3, <1>4, <1>5, <1>6, <1>7, <1>8, <1>9, <1>10, <1>11, <1>12,
           <1>13, <1>14, <1>15 DEF GuiStep

-----------------------------------------------------------------------------
(***************************************************************************)
(* Steps of the audio thread.                                              *)
(***************************************************************************)
LEMMA IdleType ==
    /\ NoCallback \in Callbacks /\ NoCallback.out = <<>>
    /\ NoCallback.count = 0 /\ NoCallback.want = 0 /\ NoCallback.done = 0
    /\ NoCallback.ask = 0 /\ NoCallback.pc = "idle" /\ NoCallback.fresh = TRUE
<1>1. <<>> \in Seq(Heard)
  OBVIOUS
<1> QED BY Sizes, <1>1 DEF NoCallback, Callbacks, CbPlaces

LEMMA Reset ==
    ASSUME cb' = NoCallback
    PROVE  CbType'
BY IdleType, Sizes DEF CbType

\* A step that only moves on to another place.
LEMMA MoveOn ==
    ASSUME CbType, NEW p \in CbPlaces \ {"copy"}, NEW f \in 0..FadeSteps,
           NEW w \in 0..(Width - 1), cb.pc \notin Popping,
           cb' = [cb EXCEPT !.pc = p, !.fade = f, !.w = w]
    PROVE  CbType'
<1>1. cb' \in Callbacks
  BY DEF CbType, Callbacks
<1>2. /\ cb'.pc = p /\ cb'.count = cb.count /\ cb'.want = cb.want
      /\ cb'.ask = cb.ask /\ cb'.done = cb.done /\ cb'.out = cb.out
  BY DEF CbType, Callbacks
<1> QED BY <1>1, <1>2 DEF CbType, Popping

\* A step that asks for pairs.
LEMMA StartPopping ==
    ASSUME CbType, NEW pairs \in Nat, cb.pc \in {"available", "resample"},
           cb' = [cb EXCEPT !.pc = "popRead", !.ask = pairs]
    PROVE  CbType'
<1>1. cb' \in Callbacks
  BY DEF CbType, Callbacks, CbPlaces
<1>2. /\ cb'.pc = "popRead" /\ cb'.count = cb.count /\ cb'.want = 0 /\ cb'.done = 0
      /\ cb'.ask = pairs /\ cb'.out = cb.out
  BY DEF CbType, Callbacks, Popping
<1> QED BY <1>1, <1>2 DEF CbType, Popping

LEMMA CallbackCb ==
    ASSUME TypeInv, Callback
    PROVE  CbType'
<1>0. /\ cb \in Callbacks /\ CbType /\ fade \in 0..FadeSteps
      /\ cb.fade \in 0..FadeSteps /\ cb.w \in 0..(Width - 1) /\ cb.r \in 0..(Width - 1)
      /\ cb.done \in Nat /\ cb.want \in Nat /\ cb.count \in Nat /\ cb.out \in Seq(Heard)
      /\ cb.ask \in Nat
      /\ writePos \in 0..(Width - 1) /\ readPos \in 0..(Width - 1)
      /\ data \in [0..(Capacity - 1) -> Pair]
  BY DEF TypeInv, CbType, GuiType, RingTypeOK, Callbacks
<1>1. CASE CallbackStart
  <2>1. cb' = [NoCallback EXCEPT !.pc = "fade"]
    BY <1>1 DEF CallbackStart
  <2>2. cb' \in Callbacks
    BY <2>1, IdleType DEF Callbacks, CbPlaces
  <2>3. /\ cb'.pc = "fade" /\ cb'.count = 0 /\ cb'.want = 0 /\ cb'.done = 0 /\ cb'.ask = 0
        /\ cb'.out = <<>>
    BY <2>1 DEF NoCallback
  <2> QED BY <2>2, <2>3, Sizes DEF CbType
<1>2. CASE FadeLoad
  <2>1. CASE fade > 0
    <3>1. fade - 1 \in 0..FadeSteps
      BY <1>0, <2>1, Sizes
    <3>2. cb' = [cb EXCEPT !.pc = "fadeStore", !.fade = fade - 1, !.w = cb.w]
      BY <1>0, <1>2, <2>1 DEF FadeLoad, Callbacks
    <3>3. cb.pc \notin Popping /\ "fadeStore" \in CbPlaces \ {"copy"}
      BY <1>2 DEF FadeLoad, CbPlaces, Popping
    <3> QED BY <1>0, <3>1, <3>2, <3>3, MoveOn
  <2>2. CASE ~(fade > 0)
    <3>1. cb' = [cb EXCEPT !.pc = "available", !.fade = cb.fade, !.w = cb.w]
      BY <1>0, <1>2, <2>2 DEF FadeLoad, Callbacks
    <3>2. cb.pc \notin Popping /\ "available" \in CbPlaces \ {"copy"}
      BY <1>2 DEF FadeLoad, CbPlaces, Popping
    <3> QED BY <1>0, <3>1, <3>2, MoveOn
  <2> QED BY <2>1, <2>2
<1>3. CASE FadeStore
  <2> DEFINE p == IF cb.fade = 0 THEN "close" ELSE "available"
  <2>1. p \in CbPlaces \ {"copy"} /\ cb.pc \notin Popping /\ 0 \in 0..FadeSteps
    BY <1>3, Sizes DEF FadeStore, CbPlaces, Popping
  <2>2. cb' = [cb EXCEPT !.pc = p, !.fade = 0]
    BY <1>3 DEF FadeStore
  <2> HIDE DEF p
  <2>3. cb' = [cb EXCEPT !.pc = p, !.fade = 0, !.w = cb.w]
    BY <1>0, <2>2 DEF Callbacks
  <2> QED BY <1>0, <2>1, <2>3, MoveOn
<1>4. CASE FadeClose
  <2>1. cb' = [cb EXCEPT !.pc = "drain", !.fade = cb.fade, !.w = cb.w]
    BY <1>0, <1>4 DEF FadeClose, Callbacks
  <2>2. cb.pc \notin Popping /\ "drain" \in CbPlaces \ {"copy"}
    BY <1>4 DEF FadeClose, CbPlaces, Popping
  <2> QED BY <1>0, <2>1, <2>2, MoveOn
<1>5. CASE FadeDrainLoad
  <2>1. cb' = [cb EXCEPT !.pc = "drainStore", !.fade = cb.fade, !.w = writePos]
    BY <1>0, <1>5 DEF FadeDrainLoad, Callbacks
  <2>2. cb.pc \notin Popping /\ "drainStore" \in CbPlaces \ {"copy"}
    BY <1>5 DEF FadeDrainLoad, CbPlaces, Popping
  <2> QED BY <1>0, <2>1, <2>2, MoveOn
<1>6. CASE FadeDrainStore
  BY <1>6, Reset DEF FadeDrainStore
<1>7. CASE Available
  <2>1. cb.pc = "available"
    BY <1>7 DEF Available
  <2>2. CASE cb' = NoCallback
    BY <2>2, Reset, Zenon
  <2>3. CASE cb' = [cb EXCEPT !.pc = "resample"]
    <3>1. cb' = [cb EXCEPT !.pc = "resample", !.fade = cb.fade, !.w = cb.w]
      BY <1>0, <2>3 DEF Callbacks
    <3>2. cb.pc \notin Popping /\ "resample" \in CbPlaces \ {"copy"}
      BY <2>1 DEF CbPlaces, Popping
    <3> QED BY <1>0, <3>1, <3>2, MoveOn
  <2>4. CASE cb' = [cb EXCEPT !.pc = "popRead", !.ask = Period]
    <3>1. Period \in Nat
      BY Sizes
    <3> QED BY <1>0, <2>1, <2>4, <3>1, StartPopping
  <2> QED BY <1>7, <2>2, <2>3, <2>4 DEF Available
<1>8. CASE PopRead
  <2> DEFINE n == IF cb.ask - cb.done < Chunk THEN cb.ask - cb.done ELSE Chunk
  <2>1. n \in Nat /\ cb.done + n <= cb.ask
    <3>1. cb.done \in Nat /\ cb.done <= cb.ask /\ cb.ask \in Nat /\ Chunk \in Nat
      BY <1>0, Sizes DEF CbType
    <3> QED BY <3>1
  <2>2. cb' = [cb EXCEPT !.pc = "popWrite", !.r = readPos, !.want = n] /\ cb.pc = "popRead"
    BY <1>8, Zenon DEF PopRead
  <2> HIDE DEF n
  <2>3. cb' \in Callbacks
    BY <1>0, <2>1, <2>2 DEF Callbacks, CbPlaces
  <2>4. /\ cb'.pc = "popWrite" /\ cb'.count = cb.count /\ cb'.want = n
        /\ cb'.ask = cb.ask /\ cb'.done = cb.done /\ cb'.out = cb.out
    BY <1>0, <2>2 DEF Callbacks
  <2>5. cb.count = 0 /\ cb.out = <<>> /\ Len(<<>>) = 0
    BY <1>0, <2>2 DEF CbType
  <2> QED BY <1>0, <2>1, <2>3, <2>4, <2>5 DEF CbType, Popping
<1>9. CASE PopWrite
  <2> DEFINE there == Wrap(writePos - cb.r)
             n == IF cb.want < there THEN cb.want ELSE there
  <2>1. there \in Nat
    <3>1. writePos - cb.r \in Int
      BY <1>0
    <3> QED BY <3>1, WrapType
  <2>2. cb' = [cb EXCEPT !.pc = "copy", !.count = n] /\ cb.pc = "popWrite"
    BY <1>9 DEF PopWrite
  <2> HIDE DEF there
  <2>3. n \in Nat /\ n <= cb.want
    BY <1>0, <2>1
  <2> HIDE DEF n
  <2>4. cb' \in Callbacks
    BY <1>0, <2>2, <2>3 DEF Callbacks, CbPlaces
  <2>5. /\ cb'.pc = "copy" /\ cb'.count = n /\ cb'.want = cb.want
        /\ cb'.ask = cb.ask /\ cb'.done = cb.done /\ cb'.out = cb.out
    BY <1>0, <2>2 DEF Callbacks
  <2>6. cb.out = <<>> /\ Len(<<>>) = 0
    BY <1>0, <2>2 DEF CbType
  <2> QED BY <1>0, <2>3, <2>4, <2>5, <2>6 DEF CbType, Popping
<1>10. CASE CopyLeft
  <2> DEFINE at == Slot(cb.r + Len(cb.out))
             heard == [l |-> data[at].l, r |-> Unread]
  <2>1. at \in 0..(Capacity - 1)
    <3>1. cb.r + Len(cb.out) \in Int
      BY <1>0
    <3> QED BY <3>1, SlotType
  <2>2. cb' = [cb EXCEPT !.out = Append(cb.out, heard)] /\ cb.pc = "copy"
        /\ Len(cb.out) < cb.count
    BY <1>10 DEF CopyLeft
  <2> HIDE DEF at
  <2>3. heard \in Heard
    BY <1>0, <2>1 DEF Heard, Pair
  <2> HIDE DEF heard
  <2>4. Append(cb.out, heard) \in Seq(Heard) /\ Len(Append(cb.out, heard)) = Len(cb.out) + 1
    BY <1>0, <2>3
  <2>5. cb' \in Callbacks
    BY <1>0, <2>2, <2>4 DEF Callbacks
  <2>6. /\ cb'.pc = "copy" /\ cb'.count = cb.count /\ cb'.want = cb.want
        /\ cb'.ask = cb.ask /\ cb'.done = cb.done /\ cb'.out = Append(cb.out, heard)
    BY <1>0, <2>2 DEF Callbacks
  <2>7. Len(cb'.out) <= cb'.count
    <3>1. Len(cb.out) \in Nat
      BY <1>0
    <3> QED BY <1>0, <2>2, <2>4, <2>6, <3>1
  <2> QED BY <1>0, <2>5, <2>6, <2>7 DEF CbType, Popping
<1>11. CASE CopyRight
  <2> DEFINE n == Len(cb.out)
             at == Slot(cb.r + n - 1)
             heard == data[at].r
             last == [cb.out[n] EXCEPT !.r = heard]
             more == [cb.out EXCEPT ![n] = last]
  <2>1. cb' = [cb EXCEPT !.out = more] /\ cb.pc = "copy" /\ cb.out # <<>>
    BY <1>11 DEF CopyRight, Half
  <2>2. n \in Nat /\ n \in 1..n
    BY <1>0, <2>1
  <2>3. at \in 0..(Capacity - 1)
    <3>1. cb.r + n - 1 \in Int
      BY <1>0, <2>2
    <3> HIDE DEF n
    <3> QED BY <3>1, SlotType
  <2> HIDE DEF at
  <2>4. heard \in Samples
    BY <1>0, <2>3 DEF Pair
  <2>5. cb.out[n] \in Heard
    BY <1>0, <2>2
  <2> HIDE DEF heard
  <2>6. last \in Heard
    BY <2>4, <2>5 DEF Heard
  <2> HIDE DEF last
  <2>7. more \in Seq(Heard) /\ Len(more) = n
    BY <1>0, <2>2, <2>6
  <2> HIDE DEF more
  <2>8. cb' \in Callbacks
    BY <1>0, <2>1, <2>7 DEF Callbacks
  <2>9. /\ cb'.pc = "copy" /\ cb'.count = cb.count /\ cb'.want = cb.want
        /\ cb'.ask = cb.ask /\ cb'.done = cb.done /\ cb'.out = more
    BY <1>0, <2>1 DEF Callbacks
  <2> QED BY <1>0, <2>7, <2>8, <2>9 DEF CbType, Popping
<1>12. CASE PopStore
  <2> DEFINE done == cb.done + cb.count
  <2>1. CASE cb' = NoCallback
    BY <2>1, Reset
  <2>2. CASE cb' = [NoCallback EXCEPT !.pc = "resample", !.fresh = cb.fresh]
    <3>1. cb' \in Callbacks
      BY <1>0, <2>2, IdleType DEF Callbacks, CbPlaces
    <3>2. /\ cb'.pc = "resample" /\ cb'.count = 0 /\ cb'.want = 0 /\ cb'.ask = 0
          /\ cb'.done = 0 /\ cb'.out = <<>> /\ Len(<<>>) = 0
      BY <2>2 DEF NoCallback
    <3> QED BY <3>1, <3>2 DEF CbType, Popping
  <2>3. CASE /\ done < cb.ask
             /\ cb' = [NoCallback EXCEPT !.pc = "popRead", !.ask = cb.ask, !.done = done,
                                         !.fresh = cb.fresh]
    <3>1. done \in Nat /\ cb.ask \in Nat
      BY <1>0
    <3> HIDE DEF done
    <3>2. cb' \in Callbacks
      BY <1>0, <2>3, <3>1, IdleType DEF Callbacks, CbPlaces
    <3>3. /\ cb'.pc = "popRead" /\ cb'.count = 0 /\ cb'.want = 0 /\ cb'.ask = cb.ask
          /\ cb'.done = done /\ cb'.out = <<>> /\ Len(<<>>) = 0
      BY <2>3 DEF NoCallback
    <3> QED BY <2>3, <3>1, <3>2, <3>3 DEF CbType, Popping
  <2> QED BY <1>12, <2>1, <2>2, <2>3 DEF PopStore
<1>13. CASE ResamplerReturns
  BY <1>13, Reset DEF ResamplerReturns
<1>14. ASSUME NEW pairs \in 1..Demand, ResamplerAsks(pairs)
       PROVE  CbType'
  <2>1. cb.pc = "resample" /\ cb' = [cb EXCEPT !.pc = "popRead", !.ask = pairs] /\ pairs \in Nat
    BY <1>14, Sizes DEF ResamplerAsks
  <2> QED BY <1>0, <2>1, StartPopping
<1> QED BY <1>1, <1>2, <1>3, <1>4, <1>5, <1>6, <1>7, <1>8, <1>9, <1>10, <1>11, <1>12, <1>13,
           <1>14 DEF Callback, ResamplerStep

LEMMA CallbackRest ==
    ASSUME TypeInv, Callback
    PROVE  RingTypeOK' /\ GuiType'
<1>0. /\ cb.fade \in 0..FadeSteps /\ cb.w \in 0..(Width - 1) /\ cb.r \in 0..(Width - 1)
      /\ cb.count \in Nat
      /\ RingTypeOK /\ GuiType
  BY DEF TypeInv, CbType, Callbacks
<1> USE DEF GuiType, RingTypeOK, ringVars, streamVars, guiVars, guiRest
<1>1. CASE UNCHANGED <<ringVars, streamVars, guiVars>>
  BY <1>0, <1>1
<1>2. CASE FadeStore
  BY <1>0, <1>2 DEF FadeStore
<1>3. CASE FadeClose
  BY <1>0, <1>3 DEF FadeClose
<1>4. CASE FadeDrainStore
  BY <1>0, <1>4 DEF FadeDrainStore, DrainTo
<1>5. CASE PopStore
  <2>1. Wrap(cb.r + cb.count) \in 0..(Width - 1)
    <3>1. cb.r + cb.count \in Int
      BY <1>0
    <3> QED BY <3>1, WrapType
  <2> QED BY <1>0, <1>5, <2>1 DEF PopStore, Consume
<1>6. CASE ResamplerReturns
  BY <1>0, <1>6 DEF ResamplerReturns
<1> QED BY <1>1, <1>2, <1>3, <1>4, <1>5, <1>6
        DEF Callback, CallbackStart, FadeLoad, FadeDrainLoad, Available, PopRead, PopWrite,
            CopyLeft, CopyRight, ResamplerStep, ResamplerAsks

LEMMA StepType ==
    ASSUME TypeInv, [Next]_vars
    PROVE  TypeInv'
<1>1. CASE UNCHANGED vars
  BY <1>1 DEF vars, ringVars, streamVars, guiVars, guiRest, TypeInv, RingTypeOK, GuiType, CbType
<1> QED BY <1>1, InputType, GuiStepType, CallbackCb, CallbackRest DEF Next, TypeInv

(* What the resampler holds changes where it is handed pairs, where it     *)
(* returns, and, as history, where lock_all() does.                        *)
LEMMA ResamplerKept ==
    ASSUME [Next]_vars, ~LockClose, ~PopStore, ~ResamplerReturns
    PROVE  UNCHANGED resampler
<1> USE DEF streamVars
<1>1. CASE UNCHANGED vars
  BY <1>1 DEF vars
<1>2. CASE GuiInput
  BY <1>2 DEF GuiInput, DoPlay, SwapMedia, DoPause, Break, StepButton, BreakHits, RunFrames,
     SkipTurn
<1>3. CASE GuiStep
  BY <1>3 DEF GuiStep, LockFade, LockDrain, BeginFade, PushCheck, PushLeft, PushRight,
     PushPublish, FramesDone, PrimeRamp, PrimeStepBack, PrimeFade, PrimeUnlock, KeepCheck,
     KeepStore
<1>4. CASE Callback
  BY <1>4 DEF Callback, CallbackStart, FadeLoad, FadeStore, FadeClose, FadeDrainLoad,
     FadeDrainStore, Available, PopRead, PopWrite, CopyLeft, CopyRight, ResamplerStep,
     ResamplerAsks
<1> QED BY <1>1, <1>2, <1>3, <1>4 DEF Next

\* The eras of the pairs that a callback has copied.
HandedOver == {cb.out[i].l : i \in 1..Len(cb.out)} \ {Ramp}

LEMMA HandedOverType ==
    ASSUME TypeInv
    PROVE  HandedOver \subseteq Samples
<1>1. ASSUME NEW i \in 1..Len(cb.out)
      PROVE  cb.out[i].l \in Samples
  <2>1. cb.out \in Seq(Heard)
    BY DEF TypeInv, CbType, Callbacks
  <2>2. cb.out[i] \in Heard
    BY <2>1
  <2> QED BY <2>2 DEF Heard
<1> QED BY <1>1 DEF HandedOver

LEMMA StepHeld ==
    ASSUME TypeInv, HeldType, [Next]_vars
    PROVE  HeldType'
<1> USE DEF HeldType
<1>1. CASE UNCHANGED resampler
  BY <1>1 DEF resampler
<1>2. CASE LockClose
  BY <1>2 DEF LockClose
<1>3. CASE ResamplerReturns
  BY <1>3 DEF ResamplerReturns
<1>4. CASE PopStore
  <2>1. held' = (IF resample THEN held \cup HandedOver ELSE held) /\ resample' = resample
        /\ leftover' = (IF cb.fresh THEN leftover ELSE held')
    BY <1>4 DEF PopStore, HandedOver
  <2> QED BY <2>1, HandedOverType
<1> QED BY <1>1, <1>2, <1>3, <1>4, ResamplerKept

LEMMA InitHeld == Init => HeldType
BY DEF Init, HeldType

(* Positions stay below Width, a callback never takes more than what it or *)
(* its resampler asks for, the fade never exceeds its steps, and only a    *)
(* resampled stream holds pairs back.  (audiowrap.cpp:79-97, 132)          *)
THEOREM TypeCorrect == Spec => []TypeOK
<1>1. Init => TypeInv /\ HeldType
  BY InitType, InitHeld
<1>2. TypeInv /\ HeldType /\ [Next]_vars => (TypeInv /\ HeldType)'
  BY StepType, StepHeld
<1> QED BY <1>1, <1>2, TypeInvIsTypeOK, PTL DEF Spec

-----------------------------------------------------------------------------
(***************************************************************************)
(* Locks.  The main loop asks for priming only together with lock_all(),   *)
(* and only priming unlocks.  What is needed of the environment is that no *)
(* callback overlaps lock_all().                                           *)
(***************************************************************************)
Pushing == gui \in {"frames", "left", "right", "publish"}
Priming == gui \in {"ramp", "stepBack", "primeFade", "unlock"}
Closed == locked /\ cb.pc = "idle"

(* A stream that is to be primed is closed, from lock_all() on until the   *)
(* end of prime_and_unlock().                                              *)
ClosedInv ==
    /\ InLock => cb.pc = "idle"
    /\ needsPrime /\ ~InLock => Closed
    /\ Pushing /\ turn.prime => needsPrime
    /\ Priming => needsPrime /\ turn.prime
    /\ ~Pushing /\ ~Priming => ~turn.prime

(* A stream that plays and needs no priming is open and does not fade.      *)
Fading == cb.pc \in {"fadeStore", "close", "drain", "drainStore"}

PlaysInv ==
    /\ run = "play" /\ ~needsPrime => ~locked /\ fade = 0 /\ ~InLock /\ ~Fading
    /\ gui = "fade" => run = "pause"
    /\ gui = "unlock" => fade = 0

LockInv == TypeInv /\ ClosedInv

(* The resampler's two moves: it asks, or returns and ends the callback.   *)
LEMMA ResamplerMoves ==
    ASSUME cb \in Callbacks, ResamplerStep
    PROVE  /\ cb.pc = "resample" /\ cb'.pc \in {"idle", "popRead"}
           /\ cb'.out \in {<<>>, cb.out}
<1>1. CASE ResamplerReturns
  BY <1>1 DEF ResamplerReturns, NoCallback
<1>2. ASSUME NEW pairs \in 1..Demand, ResamplerAsks(pairs)
      PROVE  cb.pc = "resample" /\ cb' = [cb EXCEPT !.pc = "popRead", !.ask = pairs]
  BY <1>2 DEF ResamplerAsks
<1>3. CASE \E pairs \in 1..Demand : ResamplerAsks(pairs)
  <2>1. PICK pairs \in 1..Demand : ResamplerAsks(pairs)
    BY <1>3
  <2>2. cb.pc = "resample" /\ cb' = [cb EXCEPT !.pc = "popRead", !.ask = pairs]
    BY <2>1, <1>2
  <2> QED BY <2>2 DEF Callbacks
<1> QED BY <1>1, <1>3 DEF ResamplerStep

LEMMA InitClosed ==
    ASSUME Init
    PROVE  ClosedInv
BY DEF Init, ClosedInv, InLock, Pushing, Priming, NoTurn

LEMMA StepClosed ==
    ASSUME "lock" \in Exclusive, TypeInv, ClosedInv, [Next]_vars
    PROVE  ClosedInv'
<1> USE DEF ClosedInv, InLock, Pushing, Priming, Closed, MayOverlap, ringVars, streamVars,
            guiVars, guiRest
<1>0. /\ turn.left \in Nat /\ turn.prime \in BOOLEAN /\ turn.keep \in BOOLEAN
      /\ needsPrime \in BOOLEAN /\ locked \in BOOLEAN
      /\ turn = [left |-> turn.left, prime |-> turn.prime, keep |-> turn.keep]
  BY DEF TypeInv, GuiType, Turns
<1>1. CASE DoPlay
  BY <1>0, <1>1 DEF DoPlay
<1>2. CASE SwapMedia
  BY <1>0, <1>2 DEF SwapMedia
<1>3. CASE DoPause
  BY <1>0, <1>3 DEF DoPause
<1>4. CASE Break
  BY <1>0, <1>4 DEF Break
<1>5. CASE StepButton
  BY <1>0, <1>5 DEF StepButton, NoTurn
<1>6. CASE BreakHits
  BY <1>0, <1>6 DEF BreakHits
<1>7. ASSUME NEW fast \in BOOLEAN, NEW frames \in 0..CatchUpFrames \cup {FastFrames},
             RunFrames(fast, frames)
      PROVE  ClosedInv'
  BY <1>0, <1>7 DEF RunFrames
<1>8. ASSUME NEW fast \in BOOLEAN, SkipTurn(fast)
      PROVE  ClosedInv'
  BY <1>0, <1>8 DEF SkipTurn
<1>9. CASE LockFade
  BY <1>0, <1>9 DEF LockFade
<1>10. CASE LockDrain
  BY <1>0, <1>10 DEF LockDrain
<1>11. CASE LockClose
  <2>1. cb'.pc = cb.pc
    BY <1>11 DEF LockClose, TypeInv, CbType, Callbacks
  <2> QED BY <1>0, <1>11, <2>1 DEF LockClose
<1>12. CASE BeginFade
  BY <1>0, <1>12 DEF BeginFade
<1>13. CASE PushCheck
  BY <1>0, <1>13 DEF PushCheck
<1>14. CASE PushLeft \/ PushRight \/ PushPublish
  BY <1>0, <1>14 DEF PushLeft, PushRight, PushPublish
<1>15. CASE FramesDone
  BY <1>0, <1>15 DEF FramesDone, TurnEnds, NoTurn
<1>16. CASE PrimeRamp \/ PrimeStepBack \/ PrimeFade
  BY <1>0, <1>16 DEF PrimeRamp, PrimeStepBack, PrimeFade
<1>17. CASE PrimeUnlock
  BY <1>0, <1>17 DEF PrimeUnlock, TurnEnds, NoTurn
<1>18. CASE KeepCheck \/ KeepStore
  BY <1>0, <1>18 DEF KeepCheck, KeepStore
<1>19. CASE CallbackStart
  BY <1>0, <1>19 DEF CallbackStart, MayCall
<1>20. ASSUME cb.pc # "idle", UNCHANGED guiVars, locked' = locked \/ locked' = TRUE
       PROVE  ClosedInv'
  BY <1>0, <1>20
<1>21. CASE Callback /\ ~CallbackStart
  BY <1>20, <1>21 DEF Callback, FadeLoad, FadeStore, FadeClose, FadeDrainLoad,
       FadeDrainStore, Available, PopRead, PopWrite, CopyLeft, CopyRight, PopStore,
       ResamplerStep, ResamplerAsks, ResamplerReturns
<1>22. CASE UNCHANGED vars
  BY <1>0, <1>22 DEF vars
<1> QED BY <1>1, <1>2, <1>3, <1>4, <1>5, <1>6, <1>7, <1>8, <1>9, <1>10, <1>11, <1>12, <1>13,
           <1>14, <1>15, <1>16, <1>17, <1>18, <1>19, <1>21, <1>22 DEF Next, GuiInput, GuiStep

(* A stream is primed only while it is locked and no callback is under     *)
(* way, although nothing keeps a callback from overlapping the priming;    *)
(* all that it needs is that none overlaps lock_all().                     *)
(* (audio_ring.h:102-103)                                                  *)
THEOREM PrimingIsSilent ==
    ASSUME "lock" \in Exclusive
    PROVE  Spec => []PrimedInSilence
<1>1. Init => LockInv
  BY InitType, InitClosed DEF LockInv
<1>2. LockInv /\ [Next]_vars => LockInv'
  BY StepType, StepClosed DEF LockInv
<1>3. LockInv => PrimedInSilence
  BY DEF LockInv, ClosedInv, PrimedInSilence, Priming, Closed, InLock
<1> QED BY <1>1, <1>2, <1>3, PTL DEF Spec

LEMMA InitPlays ==
    ASSUME Init, ~CommandLine
    PROVE  PlaysInv
BY DEF Init, PlaysInv

LEMMA StepPlays ==
    ASSUME LockInv, PlaysInv, [Next]_vars
    PROVE  PlaysInv'
<1> USE DEF PlaysInv, InLock, Fading, ringVars, streamVars, guiVars, guiRest
<1>0. /\ needsPrime \in BOOLEAN /\ locked \in BOOLEAN /\ fade \in 0..FadeSteps
      /\ cb \in Callbacks /\ run \in {"play", "pause"}
      /\ Priming => cb.pc = "idle" /\ needsPrime
  BY DEF LockInv, TypeInv, GuiType, CbType, ClosedInv, Closed, Priming
<1>1. CASE DoPlay
  BY <1>0, <1>1 DEF DoPlay
<1>2. CASE SwapMedia
  BY <1>0, <1>2 DEF SwapMedia
<1>3. CASE DoPause
  BY <1>0, <1>3 DEF DoPause
<1>4. CASE Break
  BY <1>0, <1>4 DEF Break
<1>5. CASE StepButton
  BY <1>0, <1>5 DEF StepButton
<1>6. CASE BreakHits
  BY <1>0, <1>6 DEF BreakHits
<1>7. ASSUME NEW fast \in BOOLEAN, NEW frames \in 0..CatchUpFrames \cup {FastFrames},
             RunFrames(fast, frames)
      PROVE  PlaysInv'
  BY <1>0, <1>7 DEF RunFrames
<1>8. ASSUME NEW fast \in BOOLEAN, SkipTurn(fast)
      PROVE  PlaysInv'
  BY <1>0, <1>8 DEF SkipTurn
<1>9. CASE LockFade \/ LockDrain
  BY <1>0, <1>9 DEF LockFade, LockDrain
<1>10. CASE LockClose
  BY <1>0, <1>10 DEF LockClose
<1>11. CASE BeginFade
  BY <1>0, <1>11 DEF BeginFade
<1>12. CASE PushCheck \/ PushLeft \/ PushRight \/ PushPublish
  BY <1>0, <1>12 DEF PushCheck, PushLeft, PushRight, PushPublish
<1>13. CASE FramesDone
  BY <1>0, <1>13 DEF FramesDone, TurnEnds
<1>14. CASE PrimeRamp \/ PrimeStepBack \/ PrimeFade
  BY <1>0, <1>14 DEF PrimeRamp, PrimeStepBack, PrimeFade
<1>15. CASE PrimeUnlock
  BY <1>0, <1>15 DEF PrimeUnlock, TurnEnds, Priming
<1>16. CASE KeepCheck \/ KeepStore
  BY <1>0, <1>16 DEF KeepCheck, KeepStore
<1>17. CASE CallbackStart
  BY <1>0, <1>17 DEF CallbackStart, NoCallback
<1>18. CASE FadeLoad
  <2>1. CASE fade > 0
    <3>1. gui # "unlock" /\ ~(run = "play" /\ ~needsPrime)
      BY <1>0, <1>18, <2>1
    <3> QED BY <1>0, <1>18, <3>1 DEF FadeLoad
  <2>2. CASE ~(fade > 0)
    <3>1. cb'.pc = "available"
      BY <1>0, <1>18, <2>2 DEF FadeLoad, Callbacks
    <3> QED BY <1>0, <1>18, <3>1 DEF FadeLoad
  <2> QED BY <2>1, <2>2
<1>19. CASE FadeStore \/ FadeClose \/ FadeDrainLoad \/ FadeDrainStore
  BY <1>0, <1>19 DEF FadeStore, FadeClose, FadeDrainLoad, FadeDrainStore, Priming
<1>20. CASE Available \/ PopRead \/ PopWrite \/ CopyLeft \/ CopyRight \/ PopStore
  <2>1. ~Fading'
    <3>1. CASE Available
      BY <1>0, <3>1 DEF Available, NoCallback, Callbacks
    <3>2. CASE PopRead \/ PopWrite
      BY <1>0, <3>2 DEF PopRead, PopWrite, Callbacks
    <3>3. CASE CopyLeft \/ CopyRight
      <4>1. cb'.pc = cb.pc /\ cb.pc = "copy"
        BY <1>0, <3>3 DEF CopyLeft, CopyRight, Callbacks
      <4> QED BY <4>1
    <3>4. CASE PopStore
      BY <1>0, <3>4 DEF PopStore, NoCallback
    <3> QED BY <1>20, <3>1, <3>2, <3>3, <3>4
  <2>2. UNCHANGED <<run, needsPrime, locked, fade, gui>>
    BY <1>20 DEF Available, PopRead, PopWrite, CopyLeft, CopyRight, PopStore
  <2> QED BY <2>1, <2>2
<1>21. CASE ResamplerStep
  <2>1. cb'.pc \in {"idle", "popRead"}
    BY <1>0, <1>21, ResamplerMoves
  <2>2. UNCHANGED <<run, needsPrime, locked, fade, gui>>
    BY <1>21 DEF ResamplerStep, ResamplerAsks, ResamplerReturns
  <2> QED BY <2>1, <2>2
<1>22. CASE UNCHANGED vars
  BY <1>0, <1>22 DEF vars
<1> QED BY <1>1, <1>2, <1>3, <1>4, <1>5, <1>6, <1>7, <1>8, <1>9, <1>10, <1>11, <1>12, <1>13,
           <1>14, <1>15, <1>16, <1>17, <1>18, <1>19, <1>20, <1>21, <1>22
        DEF Next, GuiInput, GuiStep, Callback

(* What plays is heard: unless the game was named on the command line, a   *)
(* stream is open whenever the main loop plays and has nothing to prime,   *)
(* whatever fades, media swaps and breakpoints came before.                *)
(* (application.cpp:4557-4566, audiowrap.cpp:150-161)                      *)
THEOREM PlayingIsHeard ==
    ASSUME "lock" \in Exclusive, ~CommandLine
    PROVE  Spec => []PrimedPlays
<1>1. Init => LockInv /\ PlaysInv
  BY InitType, InitClosed, InitPlays DEF LockInv
<1>2. LockInv /\ PlaysInv /\ [Next]_vars => (LockInv /\ PlaysInv)'
  BY StepType, StepClosed, StepPlays DEF LockInv
<1>3. PlaysInv => PrimedPlays
  BY DEF PlaysInv, PrimedPlays
<1> QED BY <1>1, <1>2, <1>3, PTL DEF Spec

-----------------------------------------------------------------------------
(***************************************************************************)
(* What is heard.  What is needed of the environment is again no more than *)
(* that no callback overlaps lock_all(): whatever the sizes, and wherever  *)
(* the unsynchronized stores leave the read position, what lies between it *)
(* and the write position was pushed since the last lock_all(), or is      *)
(* ramp; and so is what lies beyond each position that a thread has in     *)
(* hand and will store.                                                    *)
(***************************************************************************)
LEMMA RingTypes ==
    ASSUME TypeInv
    PROVE  /\ data \in Contents /\ readPos \in Positions /\ writePos \in Positions
           /\ readPos \in Int /\ writePos \in Int
           /\ Queued \in Nat /\ Queued = Waiting(readPos, writePos)
           /\ Live = LiveOf(data, readPos, writePos)
           /\ Live \in Seq(Pair) /\ Len(Live) = Queued
           /\ \A i \in 1..Queued : Live[i] = data[Slot(readPos + i - 1)]
<1>1. /\ data \in Contents /\ readPos \in Positions /\ writePos \in Positions
      /\ readPos \in Int /\ writePos \in Int
  BY Sizes DEF TypeInv, RingTypeOK, Contents, Positions
<1>2. Queued = Waiting(readPos, writePos) /\ Live = LiveOf(data, readPos, writePos)
  BY LiveIsLiveOf
<1>3. Waiting(readPos, writePos) \in Nat
  BY <1>1, WaitingIs
<1>4. /\ LiveOf(data, readPos, writePos) \in Seq(Pair)
      /\ Len(LiveOf(data, readPos, writePos)) = Waiting(readPos, writePos)
      /\ \A i \in 1..Waiting(readPos, writePos) :
            LiveOf(data, readPos, writePos)[i] = data[Slot(readPos + i - 1)]
  BY <1>1, LiveIs
<1>5. /\ Live \in Seq(Pair) /\ Len(Live) = Queued
      /\ \A i \in 1..Queued : Live[i] = data[Slot(readPos + i - 1)]
  BY <1>2, <1>4, Zenon
<1>6. Queued \in Nat
  BY <1>2, <1>3, Zenon
<1> QED BY <1>1, <1>2, <1>5, <1>6, Zenon

\* What may be heard now, and the positions beyond which nothing else waits.
Ours == {era, Ramp}
Clean(r) == AllWaiting(data, r, writePos, Ours)

\* The read position, and what the emulator thread is about to make of it.
GuiClean ==
    /\ Clean(readPos)
    /\ gui = "lockClose" => readPos = writePos
    /\ gui \in {"right", "publish"} => data[Slot(writePos)].l = era
    /\ gui = "keepStore" => Clean(Wrap(writePos - Keep))

\* What a callback has in hand: a position to store, or pairs.
CbClean ==
    /\ cb.pc = "drainStore" => Clean(cb.w)
    /\ cb.pc = "popWrite" => Clean(cb.r)
    /\ cb.pc = "copy" =>
          /\ \A i \in 0..(cb.count - 1) : data[Slot(cb.r + i)].l \in Ours
          /\ Clean(Wrap(cb.r + cb.count))
    /\ \A i \in 1..Len(cb.out) : cb.out[i].l \in Ours

(* The slots behind the read position hold the ramp that the step back     *)
(* publishes.                                                              *)
RampInv ==
    gui = "stepBack" => \A i \in 0..(Pad - 1) : data[Slot(readPos - Pad + i)] = RampPair

(* What the resampler holds is of this era, or it has held it since before.*)
HeldClean == held \subseteq {era} \cup leftover

HeardInv == LockInv /\ GuiClean /\ CbClean /\ RampInv /\ HeldClean

LEMMA InitHeard ==
    ASSUME Init
    PROVE  GuiClean /\ CbClean /\ RampInv /\ HeldClean
<1>1. readPos = writePos /\ writePos \in Positions /\ gui = "idle"
  BY RingSizes DEF Init, RingInit, Positions
<1>2. cb.pc = "idle" /\ cb.out = <<>>
  BY DEF Init, NoCallback
<1>3. HeldClean
  BY DEF Init, HeldClean
<1> QED BY <1>1, <1>2, <1>3, NoneWaiting DEF GuiClean, CbClean, RampInv, Clean

-----------------------------------------------------------------------------
\* The stores of push() go to the slot at the write position, ...
LEMMA StoreWrites ==
    ASSUME TypeInv, PushLeft \/ PushRight
    PROVE  /\ data \in Contents /\ data' \in Contents /\ UNCHANGED <<readPos, writePos, era>>
           /\ Slot(writePos) \in 0..(Capacity - 1)
           /\ \A j \in 0..(Capacity - 1) : j # Slot(writePos) => data'[j] = data[j]
           /\ PushLeft => data'[Slot(writePos)].l = era
           /\ PushRight => data'[Slot(writePos)].l = data[Slot(writePos)].l
<1>1. TypeInv'
  BY GuiStepType DEF GuiStep
<1>2. data \in Contents /\ data' \in Contents /\ UNCHANGED <<readPos, writePos, era>>
  BY <1>1, RingTypes DEF PushLeft, PushRight, guiRest, TypeInv, RingTypeOK, Contents
<1>3. Slot(writePos) \in 0..(Capacity - 1)
  BY RingTypes, SlotType
<1>4. \A j \in 0..(Capacity - 1) : j # Slot(writePos) => data'[j] = data[j]
  BY <1>2 DEF PushLeft, PushRight, WriteLeft, WriteRight, Contents
<1>5. data[Slot(writePos)] \in Pair /\ Slot(writePos) \in DOMAIN data
  BY <1>2, <1>3 DEF Contents
<1>6. ASSUME PushLeft PROVE data'[Slot(writePos)].l = era
  BY <1>5, <1>6 DEF PushLeft, WriteLeft, Pair
<1>7. ASSUME PushRight PROVE data'[Slot(writePos)].l = data[Slot(writePos)].l
  BY <1>5, <1>7 DEF PushRight, WriteRight, Pair
<1> QED BY <1>2, <1>3, <1>4, <1>6, <1>7

\* ... and those of prepend_ramp() behind the read position.
LEMMA RampWrites ==
    ASSUME TypeInv, PrimeRamp
    PROVE  /\ UNCHANGED <<readPos, writePos, era>>
           /\ \A i \in 0..(Pad - 1) : data'[Slot(readPos - Pad + i)] = RampPair
           /\ \A j \in 0..(Capacity - 1) : data'[j] \in {data[j], RampPair}
<1> DEFINE e == data'
<1>1. /\ UNCHANGED <<readPos, writePos, era>>
      /\ e = [j \in DOMAIN data |-> IF j \in {Slot(readPos - Pad + i) : i \in 0..(Pad - 1)}
                                    THEN RampPair ELSE data[j]]
  BY DEF PrimeRamp, WriteRamp, RampPair, guiRest
<1>2. data \in Contents /\ readPos \in Positions /\ Pad \in Nat
  BY RingTypes, Sizes
<1> HIDE DEF e
<1>3. /\ \A i \in 0..(Pad - 1) : e[Slot(readPos - Pad + i)] = RampPair
      /\ \A j \in 0..(Capacity - 1) : e[j] \in {data[j], RampPair}
  BY <1>1, <1>2, RampPlaced
<1> QED BY <1>1, <1>3 DEF e

(* Between two lock_all() the emulator thread stores nothing but samples   *)
(* of the era and ramp, and publishes nothing else.                        *)
StaysClean ==
    /\ era' = era
    /\ \A j \in 0..(Capacity - 1) : data[j].l \in Ours => data'[j].l \in Ours
    /\ \A r \in Positions : Clean(r) => AllWaiting(data', r, writePos', Ours)

LEMMA StoredClean ==
    ASSUME TypeInv, UNCHANGED <<writePos, era>>,
           \A j \in 0..(Capacity - 1) : data[j].l \in Ours => data'[j].l \in Ours
    PROVE  StaysClean
<1>1. writePos \in Positions /\ writePos' = writePos
  BY RingTypes
<1>2. ASSUME NEW r \in Positions, Clean(r)
      PROVE  AllWaiting(data', r, writePos, Ours)
  BY <1>1, <1>2, AllStored DEF Clean
<1> QED BY <1>1, <1>2 DEF StaysClean

LEMMA GuiStaysClean ==
    ASSUME TypeInv, GuiClean, GuiInput \/ GuiStep, ~LockClose
    PROVE  StaysClean
<1>1. CASE PushLeft \/ PushRight
  <2>1. UNCHANGED <<writePos, era>>
    BY <1>1, StoreWrites
  <2>2. ASSUME NEW j \in 0..(Capacity - 1), data[j].l \in Ours
        PROVE  data'[j].l \in Ours
    <3>1. CASE j # Slot(writePos)
      BY <1>1, <2>2, <3>1, StoreWrites
    <3>2. CASE j = Slot(writePos)
      BY <1>1, <2>2, <3>2, StoreWrites DEF Ours
    <3> QED BY <3>1, <3>2
  <2> QED BY <2>1, <2>2, StoredClean
<1>2. CASE PrimeRamp
  <2>1. UNCHANGED <<writePos, era>>
    BY <1>2, RampWrites
  <2>2. ASSUME NEW j \in 0..(Capacity - 1), data[j].l \in Ours
        PROVE  data'[j].l \in Ours
    BY <1>2, <2>2, RampWrites DEF Ours, RampPair
  <2> QED BY <2>1, <2>2, StoredClean
<1>3. CASE PushPublish
  <2>1. data' = data /\ era' = era /\ writePos' = Wrap(writePos + 1) /\ writePos \in Positions
    BY <1>3, RingTypes DEF PushPublish, Publish, guiRest
  <2>2. data[Slot(writePos)].l \in Ours
    BY <1>3 DEF PushPublish, GuiClean, Ours
  <2>3. ASSUME NEW r \in Positions, Clean(r)
        PROVE  AllWaiting(data, r, Wrap(writePos + 1), Ours)
    BY <2>1, <2>2, <2>3, AllPublished DEF Clean
  <2> QED BY <2>1, <2>3 DEF StaysClean
<1>4. CASE UNCHANGED <<data, writePos, era>>
  <2>1. \A j \in 0..(Capacity - 1) : data[j].l \in Ours => data'[j].l \in Ours
    BY <1>4
  <2> QED BY <1>4, <2>1, StoredClean
<1>5. CASE GuiInput
  <2>1. UNCHANGED <<data, writePos, era>>
    BY <1>5 DEF GuiInput, DoPlay, SwapMedia, DoPause, Break, StepButton, BreakHits,
       RunFrames, SkipTurn, ringVars
  <2> QED BY <1>4, <2>1
<1>6. CASE LockFade \/ LockDrain \/ BeginFade \/ PushCheck \/ FramesDone
  <2>1. UNCHANGED <<data, writePos, era>>
    BY <1>6 DEF LockFade, LockDrain, BeginFade, PushCheck, FramesDone, ringVars, guiRest
  <2> QED BY <1>4, <2>1
<1>7. CASE PrimeStepBack \/ PrimeFade \/ PrimeUnlock \/ KeepCheck \/ KeepStore
  <2>1. UNCHANGED <<data, writePos, era>>
    BY <1>7 DEF PrimeStepBack, PrimeFade, PrimeUnlock, KeepCheck, KeepStore, ringVars, guiRest
  <2> QED BY <1>4, <2>1
<1> QED BY <1>1, <1>2, <1>3, <1>5, <1>6, <1>7 DEF GuiStep

LEMMA GuiReadsClean ==
    ASSUME TypeInv, GuiClean, RampInv, GuiInput \/ GuiStep, StaysClean
    PROVE  Clean(readPos)'
<1>1. /\ readPos \in Positions /\ writePos \in Positions /\ readPos \in Int /\ writePos \in Int
      /\ Clean(readPos) /\ Ours' = Ours
  BY RingTypes DEF GuiClean, StaysClean, Ours
<1>2. CASE readPos' = readPos
  BY <1>1, <1>2 DEF StaysClean, Clean
<1>3. CASE LockDrain
  <2>1. data' = data /\ writePos' = writePos /\ readPos' = writePos
    BY <1>3 DEF LockDrain, DrainTo
  <2>2. AllWaiting(data, writePos, writePos, Ours)
    BY <1>1, NoneWaiting
  <2> QED BY <1>1, <2>1, <2>2 DEF Clean
<1>4. CASE PrimeStepBack
  <2>1. /\ data' = data /\ writePos' = writePos /\ readPos' = Wrap(readPos - Pad)
        /\ Pad \in Nat
    BY <1>4, Sizes DEF PrimeStepBack, StepBack
  <2>2. \A i \in 0..(Pad - 1) : data[Slot(readPos - Pad + i)].l \in Ours
    BY <1>4 DEF PrimeStepBack, RampInv, RampPair, Ours
  <2>3. AllWaiting(data, Wrap(readPos - Pad), writePos, Ours)
    BY <1>1, <2>1, <2>2, AllBack DEF Clean
  <2> QED BY <1>1, <2>1, <2>3 DEF Clean
<1>5. CASE KeepStore
  <2>1. data' = data /\ writePos' = writePos /\ readPos' = Wrap(writePos - Keep)
    BY <1>5 DEF KeepStore, KeepLatest
  <2>2. Clean(Wrap(writePos - Keep))
    BY <1>5 DEF KeepStore, GuiClean
  <2> QED BY <1>1, <2>1, <2>2 DEF Clean
<1>6. CASE GuiInput
  <2>1. readPos' = readPos
    BY <1>6 DEF GuiInput, DoPlay, SwapMedia, DoPause, Break, StepButton, BreakHits,
       RunFrames, SkipTurn, ringVars
  <2> QED BY <1>2, <2>1
<1>7. CASE LockFade \/ LockClose \/ BeginFade \/ PushCheck \/ PushLeft \/ PushRight
  <2>1. readPos' = readPos
    BY <1>7 DEF LockFade, LockClose, BeginFade, PushCheck, PushLeft, PushRight, ringVars
  <2> QED BY <1>2, <2>1
<1>8. CASE PushPublish \/ FramesDone \/ PrimeRamp \/ PrimeFade \/ PrimeUnlock \/ KeepCheck
  <2>1. readPos' = readPos
    BY <1>8 DEF PushPublish, FramesDone, PrimeRamp, PrimeFade, PrimeUnlock, KeepCheck, ringVars
  <2> QED BY <1>2, <2>1
<1> QED BY <1>3, <1>4, <1>5, <1>6, <1>7, <1>8 DEF GuiStep

\* What the emulator thread will store or publish next.
LEMMA GuiNextClean ==
    ASSUME TypeInv, GuiClean, GuiInput \/ GuiStep
    PROVE  /\ gui' = "lockClose" => readPos' = writePos'
           /\ gui' \in {"right", "publish"} => data'[Slot(writePos')].l = era'
           /\ gui' = "keepStore" => Clean(Wrap(writePos - Keep))'
<1>1. CASE LockDrain
  BY <1>1 DEF LockDrain, DrainTo
<1>2. CASE PushLeft
  BY <1>2, StoreWrites DEF PushLeft
<1>3. CASE PushRight
  BY <1>3, StoreWrites DEF PushRight, GuiClean
<1>4. CASE KeepCheck
  <2>1. /\ readPos \in Positions /\ writePos \in Positions /\ Queued \in Nat /\ Keep \in Nat
        /\ Queued = Waiting(readPos, writePos) /\ Clean(readPos)
    BY RingTypes, Sizes DEF GuiClean
  <2>2. ASSUME gui' = "keepStore"
        PROVE  Clean(Wrap(writePos - Keep))
    <3>1. Keep \in 0..Queued /\ Queued - Keep \in 0..Queued
      BY <1>4, <2>1, <2>2 DEF KeepCheck
    <3>2. AllWaiting(data, Wrap(readPos + (Queued - Keep)), writePos, Ours)
      BY <2>1, <3>1, AllForward DEF Clean
    <3>3. Wrap(readPos + (Queued - Keep)) = Wrap(writePos - Keep)
      BY <2>1, <3>1, WaitingReaches
    <3> QED BY <3>2, <3>3 DEF Clean
  <2>3. gui' \in {"keepStore", "idle"} /\ UNCHANGED <<data, writePos, era>>
    BY <1>4 DEF KeepCheck, ringVars, guiRest
  <2> QED BY <2>2, <2>3 DEF Clean, Ours
<1>5. CASE BreakHits
  BY <1>5 DEF BreakHits
<1>6. CASE GuiInput /\ ~BreakHits
  BY <1>6 DEF GuiInput, DoPlay, SwapMedia, DoPause, Break, StepButton, RunFrames, SkipTurn
<1>7. CASE LockFade \/ LockClose \/ BeginFade \/ PushCheck \/ PushPublish \/ FramesDone
  BY <1>7 DEF LockFade, LockClose, BeginFade, PushCheck, PushPublish, FramesDone, TurnEnds
<1>8. CASE PrimeRamp \/ PrimeStepBack \/ PrimeFade \/ PrimeUnlock \/ KeepStore
  BY <1>8 DEF PrimeRamp, PrimeStepBack, PrimeFade, PrimeUnlock, KeepStore, TurnEnds
<1> QED BY <1>1, <1>2, <1>3, <1>4, <1>5, <1>6, <1>7, <1>8 DEF GuiStep

\* What a callback has in hand stays so while the emulator thread works, ...
LEMMA HandsStayClean ==
    ASSUME TypeInv, CbClean, StaysClean, cb' = cb
    PROVE  CbClean'
<1>1. /\ Ours' = Ours /\ cb.w \in Positions /\ cb.r \in Positions /\ cb.r \in Int
      /\ cb.count \in Nat
  BY Sizes DEF StaysClean, Ours, TypeInv, CbType, Callbacks, Positions
<1>2. Wrap(cb.r + cb.count) \in Positions
  BY <1>1, WrapIs
<1>3. \A i \in 0..(cb.count - 1) : Slot(cb.r + i) \in 0..(Capacity - 1)
  BY <1>1, SlotIs
<1>4. /\ Clean(cb.w) => AllWaiting(data', cb.w, writePos', Ours)
      /\ Clean(cb.r) => AllWaiting(data', cb.r, writePos', Ours)
      /\ Clean(Wrap(cb.r + cb.count))
            => AllWaiting(data', Wrap(cb.r + cb.count), writePos', Ours)
  BY <1>1, <1>2 DEF StaysClean
<1>5. /\ cb.pc = "drainStore" => AllWaiting(data', cb.w, writePos', Ours)
      /\ cb.pc = "popWrite" => AllWaiting(data', cb.r, writePos', Ours)
      /\ cb.pc = "copy" => AllWaiting(data', Wrap(cb.r + cb.count), writePos', Ours)
  BY <1>4 DEF CbClean
<1>6. ASSUME cb.pc = "copy", NEW i \in 0..(cb.count - 1)
      PROVE  data'[Slot(cb.r + i)].l \in Ours
  BY <1>3, <1>6 DEF CbClean, StaysClean
<1>7. \A i \in 1..Len(cb.out) : cb.out[i].l \in Ours
  BY DEF CbClean
<1> QED BY <1>1, <1>5, <1>6, <1>7 DEF CbClean, Clean

\* ... and no callback is there when the era changes.
LEMMA GuiHeard ==
    ASSUME HeardInv, GuiInput \/ GuiStep
    PROVE  GuiClean' /\ CbClean'
<1>0. TypeInv /\ GuiClean /\ CbClean /\ RampInv
  BY DEF HeardInv, LockInv
<1>1. CASE LockClose
  <2>1. cb.pc = "idle" /\ cb.out = <<>> /\ readPos = writePos /\ writePos \in Positions
    BY <1>0, <1>1, RingTypes
       DEF LockClose, HeardInv, LockInv, ClosedInv, InLock, GuiClean, TypeInv, CbType
  <2>2. /\ cb'.pc = "idle" /\ cb'.out = <<>> /\ gui' = "idle"
        /\ readPos' = writePos /\ writePos' = writePos
    BY <1>0, <1>1, <2>1 DEF LockClose, ringVars, TypeInv, CbType, Callbacks
  <2>3. AllWaiting(data', writePos, writePos, Ours')
    BY <2>1, NoneWaiting
  <2> QED BY <2>2, <2>3 DEF GuiClean, CbClean, Clean
<1>2. CASE ~LockClose
  <2>1. StaysClean
    BY <1>0, <1>2, GuiStaysClean
  <2>2. cb' = cb
    BY <1>2 DEF GuiInput, DoPlay, SwapMedia, DoPause, Break, StepButton, BreakHits, RunFrames,
       SkipTurn, GuiStep, LockFade, LockDrain, BeginFade, PushCheck, PushLeft, PushRight,
       PushPublish, FramesDone, PrimeRamp, PrimeStepBack, PrimeFade, PrimeUnlock, KeepCheck,
       KeepStore
  <2>3. Clean(readPos)'
    BY <1>0, <2>1, GuiReadsClean
  <2> QED BY <1>0, <2>1, <2>2, <2>3, GuiNextClean, HandsStayClean DEF GuiClean
<1> QED BY <1>1, <1>2

-----------------------------------------------------------------------------
\* A step of the audio thread leaves all but the read position alone.
LEMMA CallbackStores ==
    ASSUME TypeInv, Callback
    PROVE  /\ UNCHANGED <<data, writePos, guiVars>> /\ Ours' = Ours
           /\ ~FadeDrainStore /\ ~PopStore => readPos' = readPos
<1>1. UNCHANGED <<data, writePos, guiVars>> /\ (~FadeDrainStore /\ ~PopStore => readPos' = readPos)
  BY DEF Callback, CallbackStart, FadeLoad, FadeStore, FadeClose, FadeDrainLoad,
     FadeDrainStore, Available, PopRead, PopWrite, CopyLeft, CopyRight, PopStore,
     ResamplerStep, ResamplerAsks, ResamplerReturns, ringVars
<1> QED BY <1>1 DEF guiVars, guiRest, Ours

LEMMA CallbackGuiClean ==
    ASSUME HeardInv, Callback
    PROVE  GuiClean'
<1>0. TypeInv /\ GuiClean /\ CbClean /\ (cb.pc # "idle" => gui # "lockClose")
  BY DEF HeardInv, LockInv, ClosedInv, InLock
<1>1. UNCHANGED <<data, writePos, gui, era>> /\ Ours' = Ours
  BY <1>0, CallbackStores DEF guiVars, guiRest
<1>2. Clean(readPos)' /\ (gui = "lockClose" => readPos' = writePos')
  <2>1. CASE FadeDrainStore
    <3>1. readPos' = cb.w /\ Clean(cb.w) /\ gui # "lockClose"
      BY <1>0, <2>1 DEF FadeDrainStore, DrainTo, CbClean
    <3> QED BY <1>1, <3>1 DEF Clean
  <2>2. CASE PopStore
    <3>1. readPos' = Wrap(cb.r + cb.count) /\ Clean(Wrap(cb.r + cb.count)) /\ gui # "lockClose"
      BY <1>0, <2>2 DEF PopStore, Consume, CbClean
    <3> QED BY <1>1, <3>1 DEF Clean
  <2>3. CASE ~FadeDrainStore /\ ~PopStore
    <3>1. readPos' = readPos
      BY <1>0, <2>3, CallbackStores
    <3> QED BY <1>0, <1>1, <3>1 DEF GuiClean, Clean
  <2> QED BY <2>1, <2>2, <2>3
<1> QED BY <1>0, <1>1, <1>2 DEF GuiClean, Clean

LEMMA CallbackCbClean ==
    ASSUME HeardInv, Callback
    PROVE  CbClean'
<1>0. /\ TypeInv /\ GuiClean /\ CbClean /\ UNCHANGED <<data, writePos>> /\ Ours' = Ours
      /\ cb \in Callbacks /\ cb.out \in Seq(Heard) /\ Len(cb.out) \in Nat
      /\ cb.pc # "copy" => cb.out = <<>>
      /\ cb.r \in Positions /\ cb.r \in Int /\ cb.count \in Nat /\ cb.want \in Nat
      /\ Clean(readPos) /\ readPos \in Positions /\ writePos \in Positions
  <2>1. TypeInv /\ GuiClean /\ CbClean
    BY DEF HeardInv, LockInv
  <2>2. /\ cb \in Callbacks /\ cb.out \in Seq(Heard) /\ Len(cb.out) \in Nat
        /\ cb.pc # "copy" => cb.out = <<>>
        /\ cb.r \in Positions /\ cb.count \in Nat /\ cb.want \in Nat
    BY <2>1 DEF TypeInv, CbType, Callbacks, Positions
  <2> QED BY <2>1, <2>2, Sizes, RingTypes, CallbackStores DEF GuiClean, Positions
<1>1. CASE cb'.pc \notin {"drainStore", "popWrite", "copy"} /\ cb'.out = <<>>
  BY <1>1 DEF CbClean
<1>2. CASE CallbackStart \/ FadeLoad \/ FadeStore \/ FadeClose
  <2>1. cb'.pc \notin {"drainStore", "popWrite", "copy"} /\ cb'.out = <<>>
    BY <1>0, <1>2 DEF CallbackStart, FadeLoad, FadeStore, FadeClose, Callbacks, NoCallback
  <2> QED BY <1>1, <2>1
<1>3. CASE FadeDrainStore \/ Available \/ PopStore \/ ResamplerStep
  <2>1. CASE FadeDrainStore \/ PopStore
    <3>1. CASE FadeDrainStore
      BY <1>1, <3>1 DEF FadeDrainStore, NoCallback
    <3>2. CASE PopStore
      <4>1. cb'.pc \in {"idle", "popRead", "resample"}
        BY <3>2 DEF PopStore, NoCallback
      <4>2. cb'.out = <<>>
        BY <3>2 DEF PopStore, NoCallback
      <4> QED BY <1>1, <4>1, <4>2
    <3> QED BY <2>1, <3>1, <3>2
  <2>2. CASE Available
    <3>1. cb'.pc \in {"idle", "popRead", "resample"} /\ cb'.out = <<>>
      BY <1>0, <2>2 DEF Available, NoCallback, Callbacks
    <3> QED BY <1>1, <3>1
  <2>3. CASE ResamplerStep
    <3>1. cb'.pc \in {"idle", "popRead", "resample"} /\ cb'.out = <<>>
      BY <1>0, <2>3, ResamplerMoves
    <3> QED BY <1>1, <3>1
  <2> QED BY <1>3, <2>1, <2>2, <2>3
<1>4. CASE FadeDrainLoad
  <2>1. cb'.pc = "drainStore" /\ cb'.w = writePos /\ cb'.out = <<>>
    BY <1>0, <1>4 DEF FadeDrainLoad, Callbacks
  <2>2. AllWaiting(data, writePos, writePos, Ours)
    BY <1>0, NoneWaiting
  <2> QED BY <1>0, <2>1, <2>2 DEF CbClean, Clean
<1>5. CASE PopRead
  <2>1. cb'.pc = "popWrite" /\ cb'.r = readPos /\ cb'.out = <<>>
    BY <1>0, <1>5 DEF PopRead, Callbacks
  <2> QED BY <1>0, <2>1 DEF CbClean, Clean
<1>6. CASE PopWrite
  <2> DEFINE there == Waiting(cb.r, writePos)
  <2>1. Clean(cb.r) /\ cb.pc = "popWrite" /\ there \in Nat
    BY <1>0, <1>6, WaitingIs DEF PopWrite, CbClean
  <2>2. /\ cb'.pc = "copy" /\ cb'.r = cb.r /\ cb'.out = <<>>
        /\ cb'.count = IF cb.want < there THEN cb.want ELSE there
    BY <1>0, <1>6 DEF PopWrite, Callbacks, Waiting
  <2>3. cb'.count \in 0..there
    BY <1>0, <2>1, <2>2
  <2>4. AllWaiting(data, Wrap(cb.r + cb'.count), writePos, Ours)
    BY <1>0, <2>1, <2>3, AllForward DEF Clean
  <2>5. ASSUME NEW i \in 0..(cb'.count - 1)
        PROVE  data[Slot(cb.r + i)].l \in Ours
    <3>1. i \in 0..(there - 1)
      BY <2>1, <2>3
    <3> QED BY <2>1, <3>1 DEF Clean, AllWaiting
  <2> QED BY <1>0, <2>2, <2>4, <2>5 DEF CbClean, Clean
<1>7. CASE CopyLeft \/ CopyRight
  <2>1. /\ cb.pc = "copy"
        /\ \A i \in 0..(cb.count - 1) : data[Slot(cb.r + i)].l \in Ours
        /\ Clean(Wrap(cb.r + cb.count))
        /\ \A i \in 1..Len(cb.out) : cb.out[i].l \in Ours
    BY <1>0, <1>7 DEF CopyLeft, CopyRight, CbClean
  <2>2. cb'.pc = "copy" /\ cb'.r = cb.r /\ cb'.count = cb.count
    BY <1>0, <1>7, <2>1 DEF CopyLeft, CopyRight, Callbacks
  <2>3. CASE CopyLeft
    <3> DEFINE half == [l |-> data[Slot(cb.r + Len(cb.out))].l, r |-> Unread]
    <3>1. cb'.out = Append(cb.out, half) /\ Len(cb.out) < cb.count
      BY <1>0, <2>3 DEF CopyLeft, Callbacks
    <3>2. half.l \in Ours
      <4>1. Len(cb.out) \in 0..(cb.count - 1)
        BY <1>0, <3>1
      <4> QED BY <2>1, <4>1
    <3> HIDE DEF half
    <3>3. ASSUME NEW i \in 1..Len(cb'.out)
          PROVE  cb'.out[i] = half \/ (i \in 1..Len(cb.out) /\ cb'.out[i] = cb.out[i])
      <4>1. Len(cb'.out) = Len(cb.out) + 1
        BY <1>0, <3>1
      <4>2. CASE i = Len(cb.out) + 1
        BY <1>0, <3>1, <4>2
      <4>3. CASE i # Len(cb.out) + 1
        <5>1. i \in 1..Len(cb.out)
          BY <1>0, <4>1, <4>3
        <5> QED BY <1>0, <3>1, <5>1
      <4> QED BY <4>2, <4>3
    <3>4. \A i \in 1..Len(cb'.out) : cb'.out[i].l \in Ours
      BY <2>1, <3>2, <3>3
    <3> QED BY <1>0, <2>1, <2>2, <3>4 DEF CbClean, Clean
  <2>4. CASE CopyRight
    <3> DEFINE n == Len(cb.out)
               right == data[Slot(cb.r + n - 1)].r
    <3>1. n \in 1..Len(cb.out) /\ DOMAIN cb.out = 1..n
      BY <1>0, <2>4, EmptySeq DEF CopyRight, Half
    <3>2. cb'.out = [cb.out EXCEPT ![n].r = right]
      BY <1>0, <2>4 DEF CopyRight, Callbacks
    <3> HIDE DEF right, n
    <3>3. DOMAIN cb'.out = 1..n /\ \A i \in 1..n : cb'.out[i].l = cb.out[i].l
      <4>1. \A i \in 1..n : cb.out[i] \in Heard
        BY <1>0, <3>1 DEF n
      <4> QED BY <3>1, <3>2, <4>1 DEF Heard
    <3>4. Len(cb'.out) = n
      BY <1>0, <3>1, <3>3, StepType DEF Next, TypeInv, CbType, Callbacks
    <3>5. \A i \in 1..Len(cb'.out) : cb'.out[i].l \in Ours
      BY <2>1, <3>3, <3>4 DEF n
    <3> QED BY <1>0, <2>1, <2>2, <3>5 DEF CbClean, Clean
  <2> QED BY <1>7, <2>3, <2>4
<1> QED BY <1>2, <1>3, <1>4, <1>5, <1>6, <1>7 DEF Callback

\* A callback that pops hands the resampler what it has copied, ...
LEMMA StepHeldClean ==
    ASSUME HeardInv, [Next]_vars
    PROVE  HeldClean'
<1> USE DEF HeldClean
<1>0. TypeInv /\ HeldClean /\ CbClean
  BY DEF HeardInv, LockInv
<1>1. CASE LockClose
  BY <1>1 DEF LockClose
<1>2. CASE ResamplerReturns
  BY <1>0, <1>2 DEF ResamplerReturns, guiVars, guiRest
<1>3. CASE PopStore
  <2>1. /\ held' = (IF resample THEN held \cup HandedOver ELSE held) /\ era' = era
        /\ leftover' = (IF cb.fresh THEN leftover ELSE held')
    BY <1>3 DEF PopStore, HandedOver, guiVars, guiRest
  <2>2. HandedOver \subseteq {era}
    BY <1>0 DEF CbClean, Ours, HandedOver
  <2> QED BY <1>0, <2>1, <2>2
<1>4. CASE ~LockClose /\ ~PopStore /\ ~ResamplerReturns
  <2>1. UNCHANGED resampler
    BY <1>4, ResamplerKept
  <2>2. era' = era
    <3>1. CASE GuiInput \/ GuiStep
      <4>1. TypeInv /\ GuiClean
        BY DEF HeardInv, LockInv
      <4> QED BY <1>4, <3>1, <4>1, GuiStaysClean DEF StaysClean
    <3>2. CASE Callback
      BY <1>0, <3>2, CallbackStores DEF guiVars, guiRest
    <3>3. CASE UNCHANGED vars
      BY <3>3 DEF vars, guiVars, guiRest
    <3> QED BY <3>1, <3>2, <3>3 DEF Next
  <2> QED BY <1>0, <2>1, <2>2 DEF resampler
<1> QED BY <1>1, <1>2, <1>3, <1>4

\* ... and the ramp stays where it was written until the step back.
LEMMA StepRamp ==
    ASSUME LockInv, RampInv, [Next]_vars
    PROVE  RampInv'
<1>0. /\ TypeInv
      /\ gui = "stepBack" => locked /\ cb.pc = "idle"
  BY DEF LockInv, ClosedInv, Priming, Closed, InLock
<1>1. CASE PrimeRamp
  BY <1>0, <1>1, RampWrites DEF RampInv
<1>2. CASE GuiInput
  BY <1>2 DEF RampInv, GuiInput, DoPlay, SwapMedia, DoPause, Break, StepButton, BreakHits,
     RunFrames, SkipTurn
<1>3. CASE GuiStep /\ ~PrimeRamp
  <2>1. gui' # "stepBack"
    BY <1>3 DEF GuiStep, LockFade, LockDrain, LockClose, BeginFade, PushCheck, PushLeft,
       PushRight, PushPublish, FramesDone, PrimeStepBack, PrimeFade, PrimeUnlock, KeepCheck,
       KeepStore, TurnEnds
  <2> QED BY <2>1 DEF RampInv
<1>4. CASE Callback
  <2>1. gui # "stepBack" /\ gui' = gui
    BY <1>0, <1>4 DEF Callback, CallbackStart, FadeLoad, FadeStore, FadeClose, FadeDrainLoad,
       FadeDrainStore, Available, PopRead, PopWrite, CopyLeft, CopyRight, PopStore,
       ResamplerStep, ResamplerAsks, ResamplerReturns, guiVars
  <2> QED BY <2>1 DEF RampInv
<1>5. CASE UNCHANGED vars
  BY <1>5 DEF vars, ringVars, guiVars, RampInv
<1> QED BY <1>1, <1>2, <1>3, <1>4, <1>5 DEF Next

LEMMA StepHeard ==
    ASSUME "lock" \in Exclusive, HeardInv, [Next]_vars
    PROVE  HeardInv'
<1>1. LockInv' /\ RampInv' /\ HeldClean'
  BY StepType, StepClosed, StepRamp, StepHeldClean DEF HeardInv, LockInv
<1>2. CASE GuiInput \/ GuiStep
  BY <1>1, <1>2, GuiHeard DEF HeardInv
<1>3. CASE Callback
  BY <1>1, <1>3, CallbackGuiClean, CallbackCbClean DEF HeardInv
<1>4. CASE UNCHANGED vars
  <2>1. TypeInv /\ GuiClean /\ CbClean /\ UNCHANGED <<ringVars, gui, era, cb>>
    BY <1>4 DEF HeardInv, LockInv, vars, guiVars, guiRest
  <2>2. StaysClean
    BY <2>1, StoredClean DEF ringVars
  <2>3. CbClean'
    BY <2>1, <2>2, HandsStayClean
  <2>4. GuiClean'
    BY <2>1 DEF GuiClean, Clean, Ours, ringVars
  <2> QED BY <1>1, <2>3, <2>4 DEF HeardInv
<1> QED BY <1>2, <1>3, <1>4 DEF Next

(* No sound from before a lock_all() is taken from the ring after it,      *)
(* however a callback and end_fastforward() race and however far the ramp  *)
(* reaches; so none is heard but what a resampled stream took before, and  *)
(* held in its resampler when lock_all() returned.                         *)
(* (application.cpp:4164, audiowrap.h:53-54, audiowrap.cpp:79-97)          *)
THEOREM NothingStaleHeard ==
    ASSUME "lock" \in Exclusive
    PROVE  Spec => []NoStaleAudio
<1>1. Init => HeardInv
  BY InitType, InitClosed, InitHeard DEF HeardInv, LockInv
<1>2. HeardInv /\ [Next]_vars => HeardInv'
  BY StepHeard
<1>3. HeardInv => NoStaleAudio
  BY DEF HeardInv, CbClean, HeldClean, NoStaleAudio, Ours
<1> QED BY <1>1, <1>2, <1>3, PTL DEF Spec

-----------------------------------------------------------------------------
(***************************************************************************)
(* The queue.  What is needed of the environment: no callback overlaps     *)
(* lock_all() or keep_latest().                                            *)
(***************************************************************************)
Storing == gui \in {"left", "right", "publish"}

(* How much waits in the ring: what fits, until the ramp goes in front;    *)
(* then the ramp may come on top.                                          *)
Unprimed == needsPrime /\ gui \notin {"lockFade", "lockDrain", "primeFade", "unlock"}

BoundInv ==
    /\ Queued <= Capacity + Pad
    /\ Unprimed => Queued <= Capacity
    /\ Storing => Queued < Capacity
    /\ gui = "keepStore" => Queued > Keep

(* A callback that pops still stands where it began, and what it has       *)
(* copied is what waits in front.                                          *)
CopyInv ==
    /\ InKeep => cb.pc = "idle"
    /\ cb.pc \notin {"idle", "drain", "drainStore"} => ~locked
    /\ cb.pc \in {"popWrite", "copy"} => cb.r = readPos
    /\ cb.pc = "copy" => cb.count <= Queued
    /\ \A i \in 1..Len(cb.out) :
         /\ cb.out[i].l = Live[i].l
         /\ cb.out[i].r = Live[i].r \/ (i = Len(cb.out) /\ cb.out[i].r = Unread)
    /\ cb.pc = "drainStore" => Waiting(readPos, cb.w) <= Queued

\* Live and Queued of the next state.
LEMMA NextLive ==
    /\ Live' = LiveOf(data', readPos', writePos')
    /\ Queued' = Waiting(readPos', writePos')
BY DEF Live, Queued, LiveOf, Waiting

-----------------------------------------------------------------------------
(***************************************************************************)
(* What the steps that touch the ring do to the queue.                     *)
(***************************************************************************)
LEMMA StillLive ==
    ASSUME UNCHANGED ringVars
    PROVE  Live' = Live /\ Queued' = Queued
BY NextLive, LiveIsLiveOf DEF ringVars

LEMMA StoreLive ==
    ASSUME TypeInv, BoundInv, PushLeft \/ PushRight
    PROVE  Live' = Live /\ Queued' = Queued
<1>1. Waiting(readPos, writePos) < Capacity
  BY RingTypes DEF BoundInv, Storing, PushLeft, PushRight
<1>2. /\ data' \in Contents /\ UNCHANGED <<readPos, writePos>>
      /\ \A j \in 0..(Capacity - 1) : j # Slot(writePos) => data'[j] = data[j]
  BY StoreWrites
<1>3. LiveOf(data', readPos, writePos) = LiveOf(data, readPos, writePos)
  BY <1>1, <1>2, RingTypes, WriteBehind
<1> QED BY <1>2, <1>3, NextLive, LiveIsLiveOf

LEMMA PublishLive ==
    ASSUME TypeInv, BoundInv, PushPublish
    PROVE  Live' = Append(Live, data[Slot(writePos)]) /\ Queued' = Queued + 1
<1>1. Waiting(readPos, writePos) < Capacity
  BY RingTypes DEF BoundInv, Storing, PushPublish
<1>2. data' = data /\ readPos' = readPos /\ writePos' = Wrap(writePos + 1)
  BY DEF PushPublish, Publish
<1> QED BY <1>1, <1>2, RingTypes, PublishAppends, NextLive

\* Any store to the read position that drops k pairs.
Drops(k) == Live' = SubSeq(Live, k + 1, Queued) /\ Queued' = Queued - k

LEMMA DropLive ==
    ASSUME TypeInv, NEW k \in 0..Queued, readPos' = Wrap(readPos + k),
           UNCHANGED <<data, writePos>>
    PROVE  Drops(k)
<1>1. k \in 0..Waiting(readPos, writePos)
  BY RingTypes
<1>2. /\ Waiting(Wrap(readPos + k), writePos) = Waiting(readPos, writePos) - k
      /\ LiveOf(data, Wrap(readPos + k), writePos)
            = SubSeq(LiveOf(data, readPos, writePos), k + 1, Waiting(readPos, writePos))
  BY <1>1, RingTypes, ForwardDrops
<1> QED BY <1>2, RingTypes, NextLive DEF Drops

LEMMA LockDrainLive ==
    ASSUME TypeInv, LockDrain
    PROVE  Drops(Queued)
<1>1. Wrap(writePos) = writePos
  BY RingTypes, WrapIs DEF Positions
<1>2. Wrap(readPos + (Queued - 0)) = Wrap(writePos - 0)
  <2>1. 0 \in 0..Waiting(readPos, writePos)
    BY RingTypes
  <2> QED BY <2>1, RingTypes, WaitingReaches
<1>3. readPos' = Wrap(readPos + Queued) /\ Queued \in 0..Queued
  <2>1. Queued - 0 = Queued /\ writePos - 0 = writePos
    BY RingTypes
  <2> QED BY <1>1, <1>2, <2>1, RingTypes DEF LockDrain, DrainTo
<1> QED BY <1>3, DropLive DEF LockDrain

LEMMA KeepLive ==
    ASSUME TypeInv, BoundInv, KeepStore
    PROVE  Queued - Keep \in 0..Queued /\ Drops(Queued - Keep)
<1>1. Keep \in 0..Queued /\ Queued - Keep \in 0..Queued
  BY RingTypes, Sizes DEF BoundInv, KeepStore
<1>2. readPos' = Wrap(readPos + (Queued - Keep))
  BY <1>1, RingTypes, WaitingReaches DEF KeepStore, KeepLatest
<1> QED BY <1>1, <1>2, DropLive DEF KeepStore

LEMMA FadeDrainLive ==
    ASSUME TypeInv, CopyInv, FadeDrainStore
    PROVE  \E k \in 0..Queued : Drops(k)
<1> DEFINE k == Waiting(readPos, cb.w)
<1>1. cb.w \in Positions /\ cb.w \in Int
  BY Sizes DEF TypeInv, CbType, Callbacks, Positions
<1>2. k \in Nat
  BY <1>1, RingTypes, WaitingIs
<1>3. k \in 0..Queued
  BY <1>2, RingTypes DEF CopyInv, FadeDrainStore
<1>4. Wrap(readPos + (k - 0)) = Wrap(cb.w - 0)
  <2>1. 0 \in 0..k
    BY <1>2
  <2> QED BY <1>1, <2>1, RingTypes, WaitingReaches
<1>5. readPos' = Wrap(readPos + k)
  <2>1. k - 0 = k /\ cb.w - 0 = cb.w /\ Wrap(cb.w) = cb.w
    BY <1>1, <1>2, WrapIs DEF Positions
  <2> QED BY <1>4, <2>1 DEF FadeDrainStore, DrainTo
<1> QED BY <1>3, <1>5, DropLive DEF FadeDrainStore

LEMMA PopLive ==
    ASSUME TypeInv, CopyInv, PopStore
    PROVE  cb.count \in 0..Queued /\ Drops(cb.count)
<1>1. cb.count \in 0..Queued
  BY RingTypes DEF TypeInv, CbType, Callbacks, CopyInv, PopStore
<1>2. readPos' = Wrap(readPos + cb.count)
  BY DEF CopyInv, PopStore, Consume
<1> QED BY <1>1, <1>2, DropLive DEF PopStore

LEMMA RampLive ==
    ASSUME LockInv, BoundInv, PrimeRamp
    PROVE  /\ Live' = [k \in 1..Len(Live) |-> IF k + Pad > Capacity THEN RampPair ELSE Live[k]]
           /\ Queued' = Queued
<1>1. TypeInv /\ Queued <= Capacity
  BY DEF LockInv, ClosedInv, BoundInv, Unprimed, Priming, PrimeRamp
<1>2. Waiting(readPos, writePos) <= Capacity
  BY <1>1, RingTypes
<1> DEFINE e == data'
<1>3. /\ UNCHANGED <<readPos, writePos>>
      /\ e = [j \in DOMAIN data |-> IF j \in {Slot(readPos - Pad + i) : i \in 0..(Pad - 1)}
                                    THEN RampPair ELSE data[j]]
  BY DEF PrimeRamp, WriteRamp, RampPair
<1>4. /\ data \in Contents /\ readPos \in Positions /\ writePos \in Positions
      /\ Pad \in Nat /\ Pad < Capacity
  BY <1>1, RingTypes, Sizes
<1> HIDE DEF e
<1>5. LiveOf(e, readPos, writePos) = Spoiled(LiveOf(data, readPos, writePos), Pad)
  BY <1>2, <1>3, <1>4, RampSpoils
<1>6. Live' = Spoiled(Live, Pad) /\ Queued' = Queued
  BY <1>3, <1>5, NextLive, LiveIsLiveOf DEF e
<1> QED BY <1>6 DEF Spoiled

LEMMA BackLive ==
    ASSUME LockInv, BoundInv, RampInv, PrimeStepBack
    PROVE  /\ Live' = [i \in 1..Pad |-> RampPair] \o Live
           /\ Queued' = Queued + Pad /\ Queued <= Capacity
<1>0. TypeInv /\ Queued <= Capacity
  BY DEF LockInv, ClosedInv, BoundInv, Unprimed, Priming, PrimeStepBack
<1>1. Waiting(readPos, writePos) + Pad < Width
  BY <1>0, RingTypes, TwoRounds, Sizes
<1>2. UNCHANGED <<data, writePos>> /\ readPos' = Wrap(readPos - Pad)
  BY DEF PrimeStepBack, StepBack
<1>3. \A i \in 0..(Pad - 1) : data[Slot(readPos - Pad + i)] = RampPair
  BY DEF RampInv, PrimeStepBack
<1>4. data \in Contents /\ readPos \in Positions /\ writePos \in Positions /\ Pad \in Nat
  BY <1>0, RingTypes, Sizes
<1>5. /\ Waiting(Wrap(readPos - Pad), writePos) = Waiting(readPos, writePos) + Pad
      /\ LiveOf(data, Wrap(readPos - Pad), writePos)
            = [i \in 1..Pad |-> RampPair] \o LiveOf(data, readPos, writePos)
  BY <1>1, <1>3, <1>4, BackPrepends
<1> QED BY <1>0, <1>2, <1>5, NextLive, LiveIsLiveOf

-----------------------------------------------------------------------------
(***************************************************************************)
(* BoundInv is kept.                                                       *)
(***************************************************************************)
\* Steps of the audio thread that leave the ring alone.
Quiet ==
    \/ CallbackStart \/ FadeLoad \/ FadeStore \/ FadeClose \/ FadeDrainLoad
    \/ Available \/ PopRead \/ PopWrite \/ CopyLeft \/ CopyRight \/ ResamplerStep

LEMMA QuietLive ==
    ASSUME Quiet
    PROVE  Live' = Live /\ Queued' = Queued /\ UNCHANGED <<ringVars, guiVars>>
BY StillLive DEF Quiet, CallbackStart, FadeLoad, FadeStore, FadeClose, FadeDrainLoad,
   Available, PopRead, PopWrite, CopyLeft, CopyRight, ResamplerStep, ResamplerAsks,
   ResamplerReturns

\* The audio thread only ever takes from the ring.
LEMMA CallbackTakes ==
    ASSUME TypeInv, CopyInv, Callback
    PROVE  /\ Queued' \in Nat /\ Queued' <= Queued
           /\ UNCHANGED guiVars
           /\ gui = "keepStore" => Queued' = Queued
<1>0. Queued \in Nat
  BY RingTypes
<1>1. CASE Quiet
  BY <1>0, <1>1, QuietLive
<1>2. CASE FadeDrainStore
  <2>1. PICK k \in 0..Queued : Drops(k)
    BY <1>2, FadeDrainLive
  <2>2. gui # "keepStore" /\ UNCHANGED guiVars
    BY <1>2 DEF FadeDrainStore, CopyInv, InKeep
  <2> QED BY <1>0, <2>1, <2>2 DEF Drops
<1>3. CASE PopStore
  <2>1. cb.count \in 0..Queued /\ Drops(cb.count)
    BY <1>3, PopLive
  <2>2. gui # "keepStore" /\ UNCHANGED guiVars
    BY <1>3 DEF PopStore, CopyInv, InKeep
  <2> QED BY <1>0, <2>1, <2>2 DEF Drops
<1> QED BY <1>1, <1>2, <1>3 DEF Callback, Quiet

LEMMA InitBound ==
    ASSUME Init
    PROVE  BoundInv
<1>1. Queued = 0
  BY WrapIs, Sizes DEF Init, RingInit, Queued
<1> QED BY <1>1, Sizes DEF Init, BoundInv, Storing

LEMMA StepBound ==
    ASSUME LockInv, BoundInv, CopyInv, RampInv, [Next]_vars
    PROVE  BoundInv'
<1> USE DEF BoundInv, Storing, Unprimed
<1>0. /\ TypeInv /\ Queued \in Nat /\ Pad \in Nat /\ Keep \in Nat /\ Capacity \in Nat
      /\ Queued' = Waiting(readPos', writePos')
      /\ Priming => needsPrime
  BY RingTypes, NextLive, Sizes DEF LockInv, ClosedInv
<1>1. CASE GuiInput
  <2>1. Queued' = Queued
    BY <1>1, StillLive DEF GuiInput, DoPlay, SwapMedia, DoPause, Break, StepButton, BreakHits,
       RunFrames, SkipTurn
  <2>2. /\ gui' \in {"lockFade", "fade", "frames", "idle"}
        /\ needsPrime' /\ gui' # "lockFade" => Unprimed
    BY <1>1 DEF GuiInput, DoPlay, SwapMedia, DoPause, Break, StepButton, BreakHits, RunFrames,
       SkipTurn
  <2> QED BY <1>0, <2>1, <2>2
<1>2. CASE LockFade
  BY <1>0, <1>2, StillLive DEF LockFade, guiRest
<1>3. CASE LockDrain
  <2>1. Queued' = 0
    BY <1>0, <1>3, LockDrainLive DEF Drops
  <2> QED BY <1>0, <1>3, <2>1 DEF LockDrain, guiRest
<1>4. CASE LockClose
  BY <1>0, <1>4, StillLive DEF LockClose
<1>5. CASE BeginFade
  BY <1>0, <1>5, StillLive DEF BeginFade, guiRest
<1>6. CASE PushCheck
  BY <1>0, <1>6, StillLive DEF PushCheck, Full
<1>7. CASE PushLeft \/ PushRight
  <2>1. Queued' = Queued
    BY <1>0, <1>7, StoreLive
  <2> QED BY <1>0, <1>7, <2>1 DEF PushLeft, PushRight, guiRest
<1>8. CASE PushPublish
  <2>1. Queued' = Queued + 1 /\ Queued < Capacity
    BY <1>0, <1>8, PublishLive DEF PushPublish
  <2> QED BY <1>0, <1>8, <2>1 DEF PushPublish, guiRest
<1>9. CASE FramesDone
  BY <1>0, <1>9, StillLive DEF FramesDone, TurnEnds
<1>10. CASE PrimeRamp
  <2>1. Queued' = Queued
    BY <1>10, RampLive
  <2> QED BY <1>0, <1>10, <2>1 DEF PrimeRamp, guiRest
<1>11. CASE PrimeStepBack
  <2>1. Queued' = Queued + Pad /\ Queued <= Capacity
    BY <1>11, BackLive
  <2> QED BY <1>0, <1>11, <2>1 DEF PrimeStepBack
<1>12. CASE PrimeFade
  BY <1>0, <1>12, StillLive DEF PrimeFade
<1>13. CASE PrimeUnlock
  BY <1>0, <1>13, StillLive DEF PrimeUnlock, TurnEnds
<1>14. CASE KeepCheck
  BY <1>0, <1>14, StillLive DEF KeepCheck, guiRest
<1>15. CASE KeepStore
  <2>1. Queued' = Keep /\ Queued > Keep
    <3>1. Queued > Keep
      BY <1>15 DEF KeepStore
    <3> QED BY <1>0, <1>15, <3>1, KeepLive DEF Drops
  <2> QED BY <1>0, <1>15, <2>1 DEF KeepStore, guiRest
<1>16. CASE Callback
  <2>1. /\ Queued' \in Nat /\ Queued' <= Queued /\ UNCHANGED guiVars
        /\ gui = "keepStore" => Queued' = Queued
    BY <1>0, <1>16, CallbackTakes
  <2> QED BY <1>0, <2>1 DEF guiVars, guiRest
<1>17. CASE UNCHANGED vars
  BY <1>0, <1>17, StillLive DEF vars, guiVars, guiRest
<1> QED BY <1>1, <1>2, <1>3, <1>4, <1>5, <1>6, <1>7, <1>8, <1>9, <1>10, <1>11, <1>12, <1>13,
           <1>14, <1>15, <1>16, <1>17 DEF Next, GuiStep

-----------------------------------------------------------------------------
(***************************************************************************)
(* CopyInv is kept: first by the emulator thread, ...                      *)
(***************************************************************************)
LEMMA CbTypes ==
    ASSUME TypeInv
    PROVE  /\ cb \in Callbacks /\ cb.out \in Seq(Heard) /\ Len(cb.out) \in Nat
           /\ cb.count \in Nat /\ cb.want \in Nat /\ cb.done \in Nat
           /\ Len(cb.out) <= cb.count /\ cb.count <= cb.want
           /\ cb.pc # "copy" => cb.out = <<>> /\ Len(cb.out) = 0 /\ cb.count = 0
           /\ cb.r \in Int /\ cb.w \in Positions
<1>1. /\ cb \in Callbacks /\ cb.out \in Seq(Heard)
      /\ cb.count \in Nat /\ cb.want \in Nat /\ cb.done \in Nat
      /\ Len(cb.out) <= cb.count /\ cb.count <= cb.want
      /\ cb.pc # "copy" => cb.out = <<>> /\ cb.count = 0
      /\ cb.r \in 0..(Width - 1) /\ cb.w \in Positions
  BY DEF TypeInv, CbType, Callbacks, Positions
<1>2. Len(cb.out) \in Nat /\ Len(<<>>) = 0 /\ cb.r \in Int
  BY <1>1, Sizes
<1> QED BY <1>1, <1>2

LEMMA IdleCopy ==
    ASSUME cb'.pc = "idle", cb'.out = <<>>
    PROVE  CopyInv'
BY DEF CopyInv

LEMMA GuiCopy ==
    ASSUME TypeInv, CopyInv, cb' = cb, locked' = locked, readPos' = readPos,
           Queued' \in Nat, Queued <= Queued', \A i \in 1..Queued : Live'[i] = Live[i],
           InKeep' => cb.pc = "idle"
    PROVE  CopyInv'
<1>1. Queued \in Nat /\ Len(cb.out) \in Nat
  BY RingTypes, CbTypes
<1>2. Len(cb.out) <= Queued
  BY <1>1, CbTypes DEF CopyInv
<1>3. ASSUME NEW i \in 1..Len(cb.out)
      PROVE  Live'[i] = Live[i]
  BY <1>1, <1>2
<1>4. cb.pc = "copy" => cb.count <= Queued'
  BY <1>1, CbTypes DEF CopyInv
<1>5. cb.pc = "drainStore" => Waiting(readPos, cb.w) <= Queued'
  BY <1>1, CbTypes, RingTypes, WaitingIs DEF CopyInv
<1>6. Waiting(readPos', cb'.w) = Waiting(readPos, cb.w)
  OBVIOUS
<1> QED BY <1>3, <1>4, <1>5, <1>6 DEF CopyInv

LEMMA GuiCopyInv ==
    ASSUME {"lock", "keep"} \subseteq Exclusive, LockInv, BoundInv, CopyInv, RampInv,
           GuiInput \/ GuiStep
    PROVE  CopyInv'
<1>0. /\ TypeInv /\ Queued \in Nat /\ Queued <= Queued
      /\ InLock => cb.pc = "idle"
      /\ Priming => cb.pc = "idle" /\ locked
      /\ cb.pc = "idle" => cb.out = <<>>
      /\ "keep" \in Exclusive
  BY RingTypes, CbTypes DEF LockInv, ClosedInv, Closed, Priming, InLock
<1>1. ASSUME UNCHANGED ringVars, cb' = cb, locked' = locked, InKeep' => cb.pc = "idle"
      PROVE  CopyInv'
  BY <1>0, <1>1, StillLive, GuiCopy DEF ringVars
<1>2. CASE GuiInput
  <2>1. UNCHANGED ringVars /\ cb' = cb /\ locked' = locked /\ ~InKeep'
    BY <1>2 DEF GuiInput, DoPlay, SwapMedia, DoPause, Break, StepButton, BreakHits,
       RunFrames, SkipTurn, streamVars, InKeep
  <2> QED BY <1>1, <2>1
<1>3. CASE LockFade \/ LockDrain
  <2>1. cb' = cb /\ cb.pc = "idle"
    BY <1>0, <1>3 DEF LockFade, LockDrain, InLock
  <2> QED BY <1>0, <2>1, IdleCopy
<1>4. CASE LockClose
  <2>1. cb'.pc = cb.pc /\ cb'.out = cb.out /\ cb.pc = "idle"
    BY <1>0, <1>4, CbTypes DEF LockClose, InLock, Callbacks
  <2> QED BY <1>0, <2>1, IdleCopy
<1>5. CASE BeginFade \/ PushCheck
  BY <1>1, <1>5 DEF BeginFade, PushCheck, streamVars, InKeep
<1>6. CASE PushLeft \/ PushRight
  <2>1. Live' = Live /\ Queued' = Queued /\ readPos' = readPos
    BY <1>0, <1>6, StoreLive, StoreWrites
  <2>2. cb' = cb /\ locked' = locked /\ ~InKeep'
    BY <1>6 DEF PushLeft, PushRight, streamVars, InKeep
  <2> QED BY <1>0, <2>1, <2>2, GuiCopy
<1>7. CASE PushPublish
  <2>1. Live' = Append(Live, data[Slot(writePos)]) /\ Queued' = Queued + 1
    BY <1>0, <1>7, PublishLive
  <2>2. \A i \in 1..Queued : Live'[i] = Live[i]
    BY <1>0, <2>1, RingTypes
  <2>3. cb' = cb /\ locked' = locked /\ ~InKeep' /\ readPos' = readPos
    BY <1>7 DEF PushPublish, streamVars, InKeep
  <2>4. Queued' \in Nat /\ Queued <= Queued'
    BY <1>0, <2>1
  <2> QED BY <1>0, <2>2, <2>3, <2>4, GuiCopy
<1>8. CASE FramesDone
  <2>1. InKeep' => cb.pc = "idle"
    BY <1>0, <1>8 DEF FramesDone, TurnEnds, MayOverlap, InKeep
  <2> QED BY <1>1, <1>8, <2>1 DEF FramesDone, streamVars
<1>9. CASE PrimeRamp \/ PrimeStepBack \/ PrimeFade \/ PrimeUnlock
  <2>1. cb' = cb /\ cb.pc = "idle"
    BY <1>0, <1>9 DEF PrimeRamp, PrimeStepBack, PrimeFade, PrimeUnlock, Priming
  <2> QED BY <1>0, <2>1, IdleCopy
<1>10. CASE KeepCheck \/ KeepStore
  <2>1. cb' = cb /\ cb.pc = "idle"
    BY <1>10 DEF KeepCheck, KeepStore, CopyInv, InKeep
  <2> QED BY <1>0, <2>1, IdleCopy
<1> QED BY <1>2, <1>3, <1>4, <1>5, <1>6, <1>7, <1>8, <1>9, <1>10 DEF GuiStep

(***************************************************************************)
(* ... then by the audio thread.                                           *)
(***************************************************************************)
\* What CopyInv says of the pairs copied so far.
Faithful(out, live) ==
    \A i \in 1..Len(out) :
        /\ out[i].l = live[i].l
        /\ out[i].r = live[i].r \/ (i = Len(out) /\ out[i].r = Unread)

LEMMA CopyLeftFaithful ==
    ASSUME TypeInv, CopyInv, CopyLeft
    PROVE  Faithful(cb'.out, Live) /\ cb'.pc = "copy" /\ cb'.r = cb.r /\ cb'.count = cb.count
<1> DEFINE n == Len(cb.out)
           heard == [l |-> data[Slot(cb.r + n)].l, r |-> Unread]
<1>1. /\ n \in Nat /\ cb.out \in Seq(Heard) /\ cb \in Callbacks /\ cb.pc = "copy"
      /\ cb.r = readPos /\ readPos \in Int /\ n < cb.count /\ cb.count <= Queued
      /\ Queued \in Nat /\ cb.count \in Nat
  BY CbTypes, RingTypes DEF CopyLeft, CopyInv
<1>2. /\ cb'.out = Append(cb.out, heard) /\ cb'.pc = "copy" /\ cb'.r = cb.r
      /\ cb'.count = cb.count
  BY <1>1 DEF CopyLeft, Callbacks
<1>3. heard.l = Live[n + 1].l /\ heard.r = Unread
  <2>1. n + 1 \in 1..Queued /\ readPos + (n + 1) - 1 = readPos + n
    BY <1>1
  <2>2. Live[n + 1] = data[Slot(readPos + (n + 1) - 1)]
    BY <2>1, RingTypes
  <2> QED BY <1>1, <2>1, <2>2
<1>4. ASSUME NEW i \in 1..n
      PROVE  cb.out[i].l = Live[i].l /\ cb.out[i].r = Live[i].r
  <2>1. cb.out[i].l = Live[i].l
        /\ (cb.out[i].r = Live[i].r \/ (i = n /\ cb.out[i].r = Unread))
    BY <1>1 DEF CopyInv
  <2>2. i = n => cb.out[i].r # Unread
    <3>1. ~Half /\ cb.out # <<>>
      BY <1>1 DEF CopyLeft
    <3> QED BY <3>1 DEF Half
  <2> QED BY <2>1, <2>2
<1> HIDE DEF heard
<1>5. Len(cb'.out) = n + 1 /\ \A i \in 1..n : cb'.out[i] = cb.out[i]
  BY <1>1, <1>2
<1>6. cb'.out[n + 1] = heard
  BY <1>1, <1>2
<1> HIDE DEF n
<1>7. Faithful(cb'.out, Live)
  <2>1. ASSUME NEW i \in 1..(n + 1)
        PROVE  /\ cb'.out[i].l = Live[i].l
               /\ cb'.out[i].r = Live[i].r \/ (i = n + 1 /\ cb'.out[i].r = Unread)
    <3>1. CASE i = n + 1
      BY <1>3, <1>6, <3>1
    <3>2. CASE i \in 1..n
      BY <1>4, <1>5, <3>2
    <3>3. i = n + 1 \/ i \in 1..n
      BY <1>1
    <3> QED BY <3>1, <3>2, <3>3
  <2> QED BY <1>5, <2>1 DEF Faithful
<1> QED BY <1>2, <1>7

LEMMA CopyRightFaithful ==
    ASSUME TypeInv, CopyInv, CopyRight
    PROVE  Faithful(cb'.out, Live) /\ cb'.pc = "copy" /\ cb'.r = cb.r /\ cb'.count = cb.count
<1> DEFINE n == Len(cb.out)
           heard == data[Slot(cb.r + n - 1)].r
           last == [cb.out[n] EXCEPT !.r = heard]
           more == [cb.out EXCEPT ![n] = last]
<1>1. /\ n \in Nat /\ cb.out \in Seq(Heard) /\ cb \in Callbacks /\ cb.pc = "copy"
      /\ cb.r = readPos /\ readPos \in Int /\ n <= cb.count /\ cb.count <= Queued
      /\ Queued \in Nat /\ cb.count \in Nat /\ cb.out # <<>>
  BY CbTypes, RingTypes DEF CopyRight, CopyInv, Half
<1>2. cb' = [cb EXCEPT !.out = more]
  BY DEF CopyRight
<1>3. n \in 1..n /\ n \in 1..Queued
  BY <1>1
<1>4. heard = Live[n].r
  <2>1. Live[n] = data[Slot(readPos + n - 1)]
    BY <1>3, RingTypes
  <2> QED BY <1>1, <2>1
<1>5. cb.out[n] \in Heard /\ cb.out[n].l = Live[n].l
  <2>1. cb.out[n] \in Heard
    BY <1>1, <1>3
  <2> QED BY <1>3, <2>1 DEF CopyInv
<1> HIDE DEF heard
<1>6. last.l = Live[n].l /\ last.r = Live[n].r
  BY <1>4, <1>5 DEF Heard
<1>7. Len(more) = n /\ more[n] = last /\ \A i \in 1..n : i # n => more[i] = cb.out[i]
  <2> HIDE DEF last
  <2> QED BY <1>1, <1>3
<1> HIDE DEF last, more
<1>8. cb'.out = more /\ cb'.pc = "copy" /\ cb'.r = cb.r /\ cb'.count = cb.count
  BY <1>1, <1>2 DEF Callbacks
<1>9. \A i \in 1..n : i # n => cb.out[i].l = Live[i].l /\ cb.out[i].r = Live[i].r
  BY <1>1 DEF CopyInv
<1> HIDE DEF n
<1>10. Faithful(more, Live)
  BY <1>6, <1>7, <1>9 DEF Faithful
<1> QED BY <1>8, <1>10

LEMMA CallbackCopyInv ==
    ASSUME {"lock", "keep"} \subseteq Exclusive, LockInv, BoundInv, CopyInv, Callback
    PROVE  CopyInv'
<1>0. /\ TypeInv /\ cb \in Callbacks /\ Queued \in Nat /\ "keep" \in Exclusive
      /\ cb.pc # "copy" => cb.out = <<>>
      /\ Queued = Wrap(writePos - readPos) /\ Queued = Waiting(readPos, writePos)
      /\ Len(<<>>) = 0
  BY RingTypes, CbTypes DEF LockInv, Queued
<1>1. ASSUME cb'.pc \notin {"copy", "popWrite", "drainStore"}, cb'.out = <<>>,
             InKeep' => cb'.pc = "idle",
             cb'.pc \notin {"idle", "drain"} => ~locked'
      PROVE  CopyInv'
  BY <1>0, <1>1 DEF CopyInv
<1>2. cb.pc # "idle" => ~InKeep
  BY DEF CopyInv
<1>3. CASE CallbackStart
  <2>1. cb'.pc = "fade" /\ cb'.out = <<>> /\ ~locked' /\ ~InKeep'
    BY <1>0, <1>3 DEF CallbackStart, MayCall, NoCallback, streamVars, guiVars, InKeep
  <2> QED BY <1>1, <2>1
<1>4. CASE FadeLoad \/ FadeStore \/ FadeClose \/ Available \/ ResamplerStep
  <2>1. cb'.pc \in {"idle", "fadeStore", "available", "close", "drain", "resample", "popRead"}
        /\ cb'.out = <<>>
    <3>1. CASE FadeLoad
      BY <1>0, <3>1 DEF FadeLoad, Callbacks
    <3>2. CASE FadeStore
      BY <1>0, <3>2 DEF FadeStore, Callbacks
    <3>3. CASE FadeClose
      BY <1>0, <3>3 DEF FadeClose, Callbacks
    <3>4. CASE Available
      BY <1>0, <3>4 DEF Available, Callbacks, NoCallback
    <3>5. CASE ResamplerStep
      BY <1>0, <3>5, ResamplerMoves
    <3> QED BY <1>4, <3>1, <3>2, <3>3, <3>4, <3>5
  <2>2. ~InKeep'
    BY <1>2, <1>4 DEF FadeLoad, FadeStore, FadeClose, Available, ResamplerStep,
       ResamplerAsks, ResamplerReturns, guiVars, InKeep
  <2>3. cb'.pc \notin {"idle", "drain"} => ~locked'
    <3>1. CASE FadeClose
      BY <1>0, <3>1 DEF FadeClose, Callbacks
    <3>2. CASE FadeLoad \/ FadeStore \/ Available \/ ResamplerStep
      BY <3>2 DEF FadeLoad, FadeStore, Available, ResamplerStep, ResamplerAsks,
         ResamplerReturns, streamVars, CopyInv
    <3> QED BY <1>4, <3>1, <3>2
  <2> QED BY <1>1, <2>1, <2>2, <2>3
<1>5. CASE FadeDrainLoad
  <2>1. cb'.pc = "drainStore" /\ cb'.out = <<>> /\ cb'.w = writePos
        /\ UNCHANGED <<ringVars, guiVars>>
    BY <1>0, <1>5 DEF FadeDrainLoad, Callbacks
  <2>2. Queued' = Queued /\ readPos' = readPos /\ ~InKeep'
    BY <1>2, <1>5, <2>1, StillLive DEF ringVars, guiVars, InKeep, FadeDrainLoad
  <2>3. Waiting(readPos', cb'.w) <= Queued'
    BY <1>0, <2>1, <2>2
  <2> QED BY <1>0, <2>1, <2>2, <2>3 DEF CopyInv
<1>6. CASE FadeDrainStore
  BY <1>6, IdleCopy DEF FadeDrainStore, NoCallback
<1>7. CASE PopRead
  <2>1. cb'.pc = "popWrite" /\ cb'.out = <<>> /\ cb'.r = readPos
        /\ UNCHANGED <<ringVars, locked, guiVars>> /\ ~locked
    BY <1>0, <1>7 DEF PopRead, Callbacks, streamVars, CopyInv
  <2> QED BY <1>0, <1>2, <1>7, <2>1 DEF CopyInv, ringVars, guiVars, InKeep, PopRead
<1>8. CASE PopWrite
  <2>1. cb'.pc = "copy" /\ cb'.out = <<>> /\ cb'.r = cb.r /\ cb.r = readPos
        /\ cb'.count = (IF cb.want < Wrap(writePos - cb.r) THEN cb.want ELSE Wrap(writePos - cb.r))
        /\ UNCHANGED <<ringVars, locked, guiVars>> /\ ~locked
    BY <1>0, <1>8 DEF PopWrite, Callbacks, streamVars, CopyInv
  <2>2. Queued' = Queued /\ readPos' = readPos /\ ~InKeep'
    BY <1>2, <1>8, <2>1, StillLive DEF ringVars, guiVars, InKeep, PopWrite
  <2>3. cb'.count <= Queued'
    BY <1>0, <2>1, <2>2, CbTypes
  <2> QED BY <1>0, <2>1, <2>2, <2>3 DEF CopyInv
<1>9. CASE CopyLeft \/ CopyRight
  <2>1. Faithful(cb'.out, Live) /\ cb'.pc = "copy" /\ cb'.r = cb.r /\ cb'.count = cb.count
    BY <1>0, <1>9, CopyLeftFaithful, CopyRightFaithful
  <2>2. Live' = Live /\ Queued' = Queued /\ UNCHANGED <<ringVars, guiVars>>
    BY <1>9, QuietLive DEF Quiet
  <2>3. cb.pc = "copy" /\ locked' = locked
    BY <1>9 DEF CopyLeft, CopyRight, streamVars
  <2>4. ~InKeep' /\ readPos' = readPos
    BY <1>2, <2>2, <2>3 DEF ringVars, guiVars, InKeep
  <2> QED BY <2>1, <2>2, <2>3, <2>4 DEF CopyInv, Faithful
<1>10. CASE PopStore
  <2>1. cb'.pc \in {"idle", "popRead", "resample"} /\ cb'.out = <<>> /\ locked' = locked
        /\ ~locked
    BY <1>10 DEF PopStore, NoCallback, streamVars, CopyInv
  <2>2. ~InKeep'
    BY <1>2, <1>10 DEF PopStore, guiVars, InKeep
  <2> QED BY <1>1, <2>1, <2>2
<1> QED BY <1>3, <1>4, <1>5, <1>6, <1>7, <1>8, <1>9, <1>10 DEF Callback

-----------------------------------------------------------------------------
(***************************************************************************)
(* All of it together.                                                     *)
(***************************************************************************)
LEMMA InitRing ==
    ASSUME Init
    PROVE  CopyInv /\ RampInv
<1>1. Queued = 0
  BY WrapIs, Sizes DEF Init, RingInit, Queued
<1>2. cb.pc = "idle" /\ cb.out = <<>> /\ gui = "idle"
  BY DEF Init, NoCallback
<1> QED BY <1>1, <1>2 DEF CopyInv, RampInv

LEMMA StepCopy ==
    ASSUME {"lock", "keep"} \subseteq Exclusive, LockInv, BoundInv, CopyInv, RampInv,
           [Next]_vars
    PROVE  CopyInv'
<1>1. CASE UNCHANGED vars
  <2>1. Live' = Live /\ Queued' = Queued
    BY <1>1, StillLive DEF vars
  <2> QED BY <1>1, <2>1 DEF vars, ringVars, streamVars, guiVars, CopyInv, InKeep
<1> QED BY <1>1, GuiCopyInv, CallbackCopyInv DEF Next

StreamInv == LockInv /\ BoundInv /\ CopyInv /\ RampInv

LEMMA InitStream ==
    ASSUME Init
    PROVE  StreamInv
BY InitType, InitClosed, InitBound, InitRing DEF StreamInv, LockInv

LEMMA StepStream ==
    ASSUME {"lock", "keep"} \subseteq Exclusive, StreamInv, [Next]_vars
    PROVE  StreamInv'
<1>1. LockInv'
  BY StepType, StepClosed DEF StreamInv, LockInv
<1> QED BY <1>1, StepBound, StepCopy, StepRamp DEF StreamInv

-----------------------------------------------------------------------------
(***************************************************************************)
(* The stream implements AudioQueue.                                       *)
(***************************************************************************)
LEMMA LiveTypes ==
    ASSUME TypeInv
    PROVE  /\ Live \in Seq(Pair) /\ Len(Live) = Queued /\ Queued \in Nat
           /\ cb.out \in Seq(Heard) /\ Len(cb.out) \in Nat /\ Capacity \in Nat
BY RingTypes, CbTypes, Sizes

\* The ring keeps what waits, the callback what it has copied.
SameQueue == Live' = Live /\ cb'.out = cb.out

LEMMA SameQueueSteps ==
    ASSUME SameQueue, locked \in BOOLEAN, locked' \in BOOLEAN
    PROVE  [Promise!Next]_(Promise!queueVars)
BY DEF SameQueue, Promise!Next, Promise!OpenOrClose, Promise!queueVars

LEMMA DropsDiscard ==
    ASSUME TypeInv, NEW k \in 0..Queued, Drops(k), cb'.out = cb.out, locked' = locked
    PROVE  [Promise!Next]_(Promise!queueVars)
<1>1. CASE k = 0
  <2>1. SubSeq(Live, 1, Queued) = Live
    BY LiveTypes
  <2>2. 0 + 1 = 1
    OBVIOUS
  <2> QED BY <1>1, <2>1, <2>2 DEF Drops, Promise!queueVars
<1>2. CASE k \in 1..Queued
  <2>1. Live' = SubSeq(Live, k + 1, Len(Live)) /\ k \in 1..Len(Live)
    BY <1>2, LiveTypes DEF Drops
  <2>2. Promise!Discard
    BY <2>1 DEF Promise!Discard
  <2> QED BY <2>2 DEF Promise!Next
<1>3. k = 0 \/ k \in 1..Queued
  BY LiveTypes
<1> QED BY <1>1, <1>2, <1>3

LEMMA PublishAdds ==
    ASSUME TypeInv, BoundInv, PushPublish
    PROVE  Promise!Add
<1> DEFINE pair == data[Slot(writePos)]
<1>1. Live' = Append(Live, pair) /\ Queued < Capacity /\ pair \in Pair
  <2>1. Slot(writePos) \in 0..(Capacity - 1)
    BY RingTypes, SlotType
  <2> QED BY <2>1, PublishLive, RingTypes DEF BoundInv, Storing, PushPublish, Contents
<1> HIDE DEF pair
<1>2. Len(Live') = Len(Live) + 1 /\ Len(Live) < Capacity
  BY <1>1, LiveTypes
<1>3. SubSeq(Live', 1, Len(Live)) = Live
  <2> DEFINE l == Live
             first == SubSeq(Append(l, pair), 1, Len(l))
  <2>1. l \in Seq(Pair) /\ Len(l) \in Nat
    BY LiveTypes
  <2> HIDE DEF l
  <2>2. first \in Seq(Pair) /\ Len(first) = Len(l) /\ \A i \in 1..Len(l) : first[i] = l[i]
    BY <1>1, <2>1
  <2> HIDE DEF first
  <2>3. first = l
    BY <2>1, <2>2, SeqEqual
  <2> QED BY <1>1, <2>3 DEF first, l
<1>4. cb'.out = cb.out /\ (~locked') = ~locked
  BY DEF PushPublish, streamVars
<1> QED BY <1>2, <1>3, <1>4 DEF Promise!Add

LEMMA CopyCopies ==
    ASSUME TypeInv, CopyInv, CopyLeft \/ CopyRight
    PROVE  Promise!Copy
<1>1. Live' = Live /\ locked' = locked
  BY QuietLive DEF Quiet, CopyLeft, CopyRight, streamVars
<1>2. Queued > 0
  <2>1. cb.count <= Queued /\ cb.count \in Nat
    BY CbTypes DEF CopyInv, CopyLeft, CopyRight
  <2>2. Len(cb.out) <= cb.count /\ Len(cb.out) \in Nat
    BY CbTypes
  <2>3. CASE CopyLeft
    BY <2>1, <2>2, <2>3, LiveTypes DEF CopyLeft
  <2>4. CASE CopyRight
    <3>1. Len(cb.out) > 0
      BY <2>2, <2>4, LiveTypes DEF CopyRight, Half
    <3> QED BY <2>1, <2>2, <3>1, LiveTypes
  <2> QED BY <2>3, <2>4
<1>3. Live # <<>>
  <2>1. Len(<<>>) = 0
    OBVIOUS
  <2> QED BY <1>2, <2>1, LiveTypes
<1> QED BY <1>1, <1>3 DEF Promise!Copy

LEMMA PopConsumes ==
    ASSUME TypeInv, CopyInv, PopStore
    PROVE  Promise!Consume
<1> DEFINE n == cb.count
           out == cb.out
           live == Live
           rest == SubSeq(live, n + 1, Queued)
<1>1. /\ n \in Nat /\ n <= Queued /\ Live' = rest /\ cb.pc = "copy"
      /\ Len(out) = n /\ out \in Seq(Heard) /\ live \in Seq(Pair) /\ Len(live) = Queued
      /\ Queued \in Nat
  BY PopLive, LiveTypes DEF Drops, PopStore
<1>2. ASSUME NEW i \in 1..n
      PROVE  out[i] = live[i]
  <2>1. out[i] \in Heard /\ live[i] \in Pair
    <3>1. i \in 1..Queued
      BY <1>1
    <3> QED BY <1>1, <3>1
  <2>2. out[i].l = live[i].l
        /\ (out[i].r = live[i].r \/ (i = n /\ out[i].r = Unread))
    BY <1>1 DEF CopyInv
  <2>3. i = n => out[i].r # Unread
    <3>1. ~Half /\ Len(out) = n
      BY DEF PopStore
    <3>2. out # <<>>
      <4>1. Len(<<>>) = 0 /\ n # 0
        BY <1>1
      <4> QED BY <1>1, <4>1
    <3> QED BY <3>1, <3>2 DEF Half
  <2>4. out[i].r = live[i].r
    BY <2>2, <2>3
  <2> HIDE DEF out, live
  <2> QED BY <2>1, <2>2, <2>4 DEF Heard, Pair
<1>3. cb'.out = <<>> /\ locked' = locked /\ ~locked
  BY <1>1 DEF PopStore, NoCallback, streamVars, CopyInv
<1> HIDE DEF out, live
<1>4. rest \in Seq(Pair) /\ Len(rest) = Queued - n
      /\ \A i \in 1..(Queued - n) : rest[i] = live[n + i]
  <2>0. n \in Nat /\ Queued \in Nat /\ n <= Queued
    BY <1>1
  <2> HIDE DEF n, rest
  <2>1. Queued - (n + 1) + 1 = Queued - n /\ \A i \in 1..(Queued - n) : (n + 1) + i - 1 = n + i
    BY <2>0
  <2>2. n + 1 \in 1..(Queued + 1)
    BY <2>0
  <2> USE DEF rest
  <2> QED BY <1>1, <2>1, <2>2
<1> HIDE DEF rest
<1>5. out \in Seq(Pair)
  <2>1. \A i \in 1..n : out[i] \in Pair
    <3>1. TAKE i \in 1..n
    <3>2. i \in 1..Queued
      BY <1>1
    <3> QED BY <1>1, <1>2, <3>2
  <2>2. out = [i \in 1..n |-> out[i]]
    BY <1>1
  <2> QED BY <1>1, <2>1, <2>2
<1> HIDE DEF n
<1>6. out \o rest \in Seq(Pair) /\ Len(out \o rest) = Queued
  BY <1>1, <1>4, <1>5
<1>7. \A i \in 1..Queued : (out \o rest)[i] = live[i]
  <2>1. TAKE i \in 1..Queued
  <2>2. CASE i <= n
    <3>1. i \in 1..n /\ (out \o rest)[i] = out[i]
      BY <1>1, <1>4, <1>5, <2>2
    <3> QED BY <1>2, <3>1
  <2>3. CASE ~(i <= n)
    <3>1. i - n \in 1..(Queued - n) /\ n + (i - n) = i
      BY <1>1, <2>3
    <3>2. (out \o rest)[i] = rest[i - n]
      BY <1>1, <1>4, <1>5, <2>3
    <3> QED BY <1>4, <3>1, <3>2
  <2> QED BY <2>2, <2>3
<1>8. live = out \o rest
  BY <1>1, <1>6, <1>7, SeqEqual
<1>9. Live = cb.out \o Live'
  BY <1>1, <1>8 DEF out, live
<1> QED BY <1>3, <1>9 DEF Promise!Consume

LEMMA RampSpoilsNewest ==
    ASSUME LockInv, BoundInv, PrimeRamp
    PROVE  Promise!Spoil
<1>1. TypeInv /\ locked /\ Queued <= Capacity
  BY DEF LockInv, ClosedInv, BoundInv, Unprimed, Priming, Closed, InLock, PrimeRamp
<1>2. Live' = [k \in 1..Len(Live) |-> IF k + Pad > Capacity THEN RampPair ELSE Live[k]]
  BY RampLive
<1>3. cb' = cb /\ locked' = locked
  BY DEF PrimeRamp, streamVars
<1>4. Len(Live) <= Capacity
  BY <1>1, LiveTypes
<1> QED BY <1>1, <1>2, <1>3, <1>4 DEF Promise!Spoil, RampPair

LEMMA BackPrependsRamp ==
    ASSUME LockInv, BoundInv, RampInv, PrimeStepBack
    PROVE  Promise!Prepend
<1>1. TypeInv /\ locked /\ Queued <= Capacity
  BY DEF LockInv, ClosedInv, BoundInv, Unprimed, Priming, Closed, InLock, PrimeStepBack
<1>2. Live' = [i \in 1..Pad |-> RampPair] \o Live
  BY BackLive
<1>3. cb' = cb /\ locked' = locked
  BY DEF PrimeStepBack, streamVars
<1>4. Len(Live) <= Capacity
  BY <1>1, LiveTypes
<1> QED BY <1>1, <1>2, <1>3, <1>4 DEF Promise!Prepend, RampPair

LEMMA QueueStep ==
    ASSUME StreamInv, [Next]_vars
    PROVE  [Promise!Next]_(Promise!queueVars)
<1>0. /\ LockInv /\ TypeInv /\ BoundInv /\ CopyInv /\ RampInv /\ cb \in Callbacks
      /\ locked \in BOOLEAN /\ locked' \in BOOLEAN
      /\ cb.pc # "copy" => cb.out = <<>>
  <2>1. TypeInv /\ TypeInv'
    BY StepType DEF StreamInv, LockInv
  <2> QED BY <2>1, CbTypes DEF StreamInv, LockInv, TypeInv, GuiType
<1>1. CASE UNCHANGED <<ringVars, cb>>
  <2>1. SameQueue
    BY <1>1, StillLive DEF SameQueue
  <2> QED BY <1>0, <2>1, SameQueueSteps
<1>2. CASE LockClose
  <2>1. SameQueue
    <3>1. cb'.out = cb.out
      BY <1>0, <1>2 DEF LockClose, Callbacks
    <3> QED BY <1>2, <3>1, StillLive DEF LockClose, SameQueue
  <2> QED BY <1>0, <2>1, SameQueueSteps
<1>3. CASE PushLeft \/ PushRight
  <2>1. SameQueue
    <3>1. cb'.out = cb.out
      BY <1>3 DEF PushLeft, PushRight
    <3> QED BY <1>0, <1>3, <3>1, StoreLive DEF SameQueue
  <2> QED BY <1>0, <2>1, SameQueueSteps
<1>4. CASE PrimeRamp
  BY <1>0, <1>4, RampSpoilsNewest DEF Promise!Next
<1>5. CASE LockDrain
  <2>1. Drops(Queued) /\ Queued \in 0..Queued /\ cb' = cb /\ locked' = locked
    BY <1>0, <1>5, LockDrainLive, LiveTypes DEF LockDrain, streamVars
  <2> QED BY <1>0, <2>1, DropsDiscard
<1>6. CASE KeepStore
  <2>1. Queued - Keep \in 0..Queued /\ Drops(Queued - Keep) /\ cb' = cb /\ locked' = locked
    BY <1>0, <1>6, KeepLive DEF KeepStore, streamVars
  <2> QED BY <1>0, <2>1, DropsDiscard
<1>7. CASE FadeDrainStore
  <2>1. PICK k \in 0..Queued : Drops(k)
    BY <1>0, <1>7, FadeDrainLive
  <2>2. cb'.out = cb.out /\ locked' = locked
    BY <1>0, <1>7 DEF FadeDrainStore, NoCallback, streamVars
  <2> QED BY <1>0, <2>1, <2>2, DropsDiscard
<1>8. CASE PushPublish
  BY <1>0, <1>8, PublishAdds DEF Promise!Next
<1>9. CASE PrimeStepBack
  BY <1>0, <1>9, BackPrependsRamp DEF Promise!Next
<1>10. CASE CopyLeft \/ CopyRight
  BY <1>0, <1>10, CopyCopies DEF Promise!Next
<1>11. CASE PopStore
  BY <1>0, <1>11, PopConsumes DEF Promise!Next
<1>12. CASE Quiet /\ ~CopyLeft /\ ~CopyRight
  <2>1. Live' = Live
    BY <1>12, QuietLive
  <2>2. cb.pc # "copy"
    BY <1>12 DEF Quiet, CallbackStart, FadeLoad, FadeStore, FadeClose, FadeDrainLoad,
       Available, PopRead, PopWrite, ResamplerStep, ResamplerAsks, ResamplerReturns
  <2>3. cb'.out = <<>>
    <3>1. CASE CallbackStart
      BY <3>1 DEF CallbackStart, NoCallback
    <3>2. CASE Available
      BY <1>0, <3>2 DEF Available, NoCallback, Callbacks
    <3>3. CASE FadeLoad \/ FadeStore \/ FadeClose \/ FadeDrainLoad
      BY <1>0, <3>3 DEF FadeLoad, FadeStore, FadeClose, FadeDrainLoad, Callbacks
    <3>4. CASE PopRead \/ PopWrite
      BY <1>0, <3>4 DEF PopRead, PopWrite, Callbacks
    <3>5. CASE ResamplerStep
      BY <1>0, <3>5, ResamplerMoves
    <3> QED BY <1>12, <3>1, <3>2, <3>3, <3>4, <3>5 DEF Quiet
  <2> QED BY <1>0, <2>1, <2>2, <2>3, SameQueueSteps DEF SameQueue
<1>13. CASE GuiInput
  BY <1>1, <1>13 DEF GuiInput, DoPlay, SwapMedia, DoPause, Break, StepButton, BreakHits,
     RunFrames, SkipTurn
<1>14. CASE LockFade \/ BeginFade \/ PushCheck \/ FramesDone \/ PrimeFade \/ PrimeUnlock
            \/ KeepCheck
  BY <1>1, <1>14 DEF LockFade, BeginFade, PushCheck, FramesDone, PrimeFade, PrimeUnlock,
     KeepCheck
<1>15. CASE UNCHANGED vars
  BY <1>1, <1>15 DEF vars
<1> QED BY <1>2, <1>3, <1>4, <1>5, <1>6, <1>7, <1>8, <1>9, <1>10, <1>11, <1>12, <1>13, <1>14,
           <1>15 DEF Next, GuiStep, Callback, Quiet

LEMMA InitQueue ==
    ASSUME Init
    PROVE  Promise!Init
<1>1. TypeInv /\ Queued = 0
  <2>1. Queued = 0
    BY WrapIs, Sizes DEF Init, RingInit, Queued
  <2> QED BY <2>1, InitType
<1>2. Live = <<>>
  BY <1>1, LiveTypes
<1> QED BY <1>2 DEF Init, NoCallback, Promise!Init

(* The stream is the queue: the audio thread takes whole pairs, in the     *)
(* order they were pushed, none twice, whatever the interleaving of push,  *)
(* pop, fade, prime and flush, for a ring and periods of any size; a ramp  *)
(* that finds too much queued spoils the newest pairs and no others.       *)
(* (audio_ring.h)                                                          *)
THEOREM QueueImplemented ==
    ASSUME {"lock", "keep"} \subseteq Exclusive
    PROVE  Spec => QueueSpec
<1>1. Init => Promise!Init
  BY InitQueue
<1>2. Init => StreamInv
  BY InitStream
<1>3. StreamInv /\ [Next]_vars => StreamInv'
  BY StepStream
<1>4. StreamInv /\ [Next]_vars => [Promise!Next]_(Promise!queueVars)
  BY QueueStep
<1> QED BY <1>1, <1>2, <1>3, <1>4, PTL DEF Spec, QueueSpec, Promise!Spec

=============================================================================
