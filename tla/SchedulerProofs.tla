-------------------------- MODULE SchedulerProofs --------------------------
(***************************************************************************)
(* Scheduler's invariants, proved for any number of holders and events,    *)
(* any frame length, any pool size and any bounds.                         *)
(***************************************************************************)
EXTENDS Scheduler, EventListProofs

-----------------------------------------------------------------------------
(* The ids in hand: every linked event has an id of its own that was given *)
(* out before, and an id that a holder has in hand never names an event of *)
(* anyone else, so a stale one deletes nothing.                            *)
IdsInv ==
    /\ UniqueIds(events)
    /\ \A e \in Pending : e.id # 0 /\ e.id < idCounter
    /\ running.id < idCounter
    /\ \A h \in Holders : heldId[h] < idCounter
    /\ \A h \in Holders : \A e \in Pending : e.id = heldId[h] => e.holder = h

(* While a callback runs on the spot its holder has nothing linked: what it *)
(* loses when the id in hand is overwritten afterwards names no event.  It *)
(* is what the self-arming devices break.                                  *)
InlineInv == \A e \in Pending : e.holder \in ToSet(inline) => e.holder \in SelfArming

(* Where the run loop is and what its variables mean there.                *)
LoopInv ==
    /\ pc = "callback" <=> Busy
    /\ pc = "inner" => loopStart = clock
    /\ pc \in {"callback", "block"} /\ ~Exact => loopStart <= clock
    /\ Exact => pc \notin {"inner", "block"}

(* How the list is sorted, and when an event may lie in the past.          *)
OrderInv ==
    /\ FutureSorted(events, clock)
    /\ OnTimeSorted(events)
    /\ \A e \in Pending : e.late => e.timecode <= clock
    /\ Exact => \A e \in Pending : e.timecode >= clock
    /\ Busy => running.timecode <= clock
    /\ Busy /\ Exact /\ running.tag = FrameTag => running.timecode = clock

(* The frame event whose callback is running is on the grid like the ones  *)
(* that are linked.                                                        *)
FrameInv ==
    /\ FrameOnGrid
    /\ running.tag = FrameTag =>
          running.timecode % FrameLen = 0 /\ running.holder = NoHolder

(* The inductive invariant.                                                *)
IInv ==
    /\ TypeOK
    /\ IdsInv
    /\ HolderCanCancel
    /\ InlineInv
    /\ StillMeansPending
    /\ NodesConserved
    /\ LoopInv
    /\ BudgetExact
    /\ OrderInv
    /\ NoOvertaking
    /\ NoDueEventWaits
    /\ FrameInv

-----------------------------------------------------------------------------
(* What each action does to the list: what it keeps, what it links in, the *)
(* length of the result, and that it stays sorted.                         *)
ListOf(list, set, n, now) ==
    /\ list \in Seq(EventRec)
    /\ ToSet(list) = set
    /\ Len(list) = n
    /\ UniqueIds(list)
    /\ FutureSorted(list, now)
    /\ OnTimeSorted(list)

Others(h) == {e \in Pending : e.holder # h}

\* What cancelling, and the re-arming code, leave of the linked events.
Spared(h) == {e \in Pending : e.id # heldId[h]}
Kept(h) == IF flag[h] = 1 THEN Spared(h) ELSE Pending

\* All that h may give back: its own events, and no more than one of them.
Gives(h, set) ==
    /\ Others(h) \subseteq set /\ set \subseteq Pending
    /\ \A x, y \in Pending \ set : x = y
    /\ h \notin SelfArming => set = Others(h)

LEMMA EventRecTimes == \A x \in EventRec : x.timecode \in Nat /\ x.id \in Nat
BY DEF EventRec

LEMMA IdsName ==
    ASSUME IInv, NEW x \in Pending, NEW y \in Pending, x.id = y.id
    PROVE  x = y
<1>1. UniqueIds(events) /\ events \in Seq(EventRec)
  BY DEF IInv, IdsInv, TypeOK
<1> QED BY <1>1 DEF UniqueIds, Pending, ToSet

(* The id in hand takes away an event of the holder's own, and all of them *)
(* unless the holder arms itself while its callback runs on the spot.      *)
LEMMA GivesBack ==
    ASSUME IInv, NEW h \in Holders
    PROVE  Gives(h, Spared(h)) /\ Gives(h, Kept(h))
<1>1. \A e \in Pending : e.id = heldId[h] => e.holder = h
  BY DEF IInv, IdsInv
<1>2. h \notin SelfArming =>
        \A e \in Pending : e.holder = h => flag[h] = 1 /\ heldId[h] = e.id
  BY DEF IInv, HolderCanCancel
<1>3. Gives(h, Spared(h))
  BY <1>1, <1>2, IdsName DEF Gives, Spared, Others
<1>4. CASE flag[h] = 1
  BY <1>3, <1>4 DEF Kept
<1>5. CASE flag[h] # 1
  BY <1>2, <1>5, <1>3 DEF Kept, Gives, Others
<1> QED BY <1>3, <1>4, <1>5

(* Cancelling takes away the event of the id in hand, if it is linked.     *)
LEMMA CancelEffect ==
    ASSUME IInv, NEW h \in Holders
    PROVE  ListOf(DeleteIfExist(events, heldId[h]), Spared(h),
                  Len(events) - (IF Holds(h) THEN 1 ELSE 0), clock)
<1>1. /\ events \in Seq(EventRec) /\ heldId[h] \in Nat /\ clock \in Nat
      /\ UniqueIds(events) /\ FutureSorted(events, clock) /\ OnTimeSorted(events)
      /\ \A x \in ToSet(events) : x.id # 0
  BY DEF IInv, TypeOK, IdsInv, OrderInv, Pending
<1> DEFINE r == DeleteIfExist(events, heldId[h])
<1>2. /\ r \in Seq(EventRec)
      /\ Len(r) = Len(events) - (IF HasId(events, heldId[h]) THEN 1 ELSE 0)
      /\ ToSet(r) = {x \in ToSet(events) : x.id # heldId[h]}
      /\ UniqueIds(r)
      /\ FutureSorted(r, clock)
      /\ OnTimeSorted(r)
  BY <1>1, DeleteIfExistProperty
<1> HIDE DEF r
<1>3. Holds(h) <=> HasId(events, heldId[h])
  BY <1>1 DEF Holds, HasId
<1>4. ToSet(r) = Spared(h)
  BY <1>2 DEF Spared, Pending
<1> QED BY <1>2, <1>3, <1>4 DEF ListOf, r

(* So does the re-arming code, which asks the holder's flag first.         *)
LEMMA DisarmEffect ==
    ASSUME IInv, NEW h \in Holders
    PROVE  ListOf(Disarmed(h), Kept(h),
                  Len(events) - (IF flag[h] = 1 /\ Holds(h) THEN 1 ELSE 0), clock)
<1>1. CASE flag[h] = 1
  BY <1>1, CancelEffect DEF Disarmed, Kept
<1>2. CASE flag[h] # 1
  <2>1. Kept(h) = ToSet(events)
    BY <1>2 DEF Kept, Pending
  <2>2. Disarmed(h) = events
    BY <1>2 DEF Disarmed
  <2> QED BY <1>2, <2>1, <2>2 DEF ListOf, IInv, TypeOK, IdsInv, OrderInv
<1> QED BY <1>1, <1>2

(* Linking in an event with the next id.                                   *)
LEMMA AddEffect ==
    ASSUME IInv, NEW list, NEW set \in SUBSET Pending, NEW n, NEW e \in EventRec,
           ListOf(list, set, n, clock),
           e.id = idCounter, e.late = IsDue(e.timecode, clock)
    PROVE  ListOf(AddAbs(list, e, clock), set \cup {e}, n + 1, clock)
<1>1. clock \in Nat
  BY DEF IInv, TypeOK
<1>2. \A x \in ToSet(list) : x.id # e.id
  BY EventRecTimes DEF ListOf, IInv, TypeOK, IdsInv
<1>3. Timed(EventRec)
  BY EventRecTimes DEF Timed
<1> QED BY <1>1, <1>2, <1>3, AddAbsProperty DEF ListOf

(* A new event is a record like the others.                                *)
LEMMA NewEventType ==
    ASSUME TypeOK, NEW h \in AnyHolder, NEW t \in Nat, NEW tag \in Tags \cup {0},
           NEW late \in BOOLEAN
    PROVE  NewEvent(h, t, tag, late) \in EventRec
BY DEF TypeOK, NewEvent, EventRec

LEMMA RearmOnlyAbsEffect ==
    ASSUME IInv, NEW h \in Holders, NEW t \in 0..MaxClock, RearmOnlyAbs(h, t)
    PROVE  ListOf(events', Kept(h) \cup {NewEvent(h, t, 0, IsDue(t, clock))},
                  Len(events) - (IF flag[h] = 1 /\ Holds(h) THEN 1 ELSE 0) + 1, clock')
<1> DEFINE e == NewEvent(h, t, 0, IsDue(t, clock))
<1>1. e \in EventRec /\ e.id = idCounter /\ e.late = IsDue(e.timecode, clock)
  <2>1. t \in Nat /\ IsDue(t, clock) \in BOOLEAN /\ h \in AnyHolder
    BY SizeAssumption DEF IsDue, AnyHolder
  <2>2. e \in EventRec
    BY <2>1, NewEventType DEF IInv
  <2> QED BY <2>2 DEF NewEvent
<1>2. Kept(h) \in SUBSET Pending
  BY GivesBack DEF Gives
<1> HIDE DEF e
<1>3. ListOf(AddAbs(Disarmed(h), e, clock), Kept(h) \cup {e},
             Len(events) - (IF flag[h] = 1 /\ Holds(h) THEN 1 ELSE 0) + 1, clock)
  BY <1>1, <1>2, DisarmEffect, AddEffect
<1>4. events' = AddAbs(Disarmed(h), e, clock) /\ clock' = clock
  BY DEF RearmOnlyAbs, e
<1> QED BY <1>3, <1>4 DEF e

LEMMA RearmNextEffect ==
    ASSUME IInv, NEW h \in Holders, RearmNext(h)
    PROVE  ListOf(events', Kept(h) \cup {NewEvent(h, 0, 0, TRUE)},
                  Len(events) - (IF flag[h] = 1 /\ Holds(h) THEN 1 ELSE 0) + 1, clock')
<1> DEFINE e == NewEvent(h, 0, 0, TRUE)
           s == Disarmed(h)
<1>1. e \in EventRec /\ e.id = idCounter /\ e.timecode = 0 /\ e.late = TRUE
  <2>1. h \in AnyHolder
    BY DEF AnyHolder
  <2>2. e \in EventRec
    BY <2>1, NewEventType DEF IInv
  <2> QED BY <2>2 DEF NewEvent
<1>2. Kept(h) \in SUBSET Pending
  BY GivesBack DEF Gives
<1>3. ListOf(s, Kept(h), Len(events) - (IF flag[h] = 1 /\ Holds(h) THEN 1 ELSE 0), clock)
  BY DisarmEffect
<1>4. events' = <<e>> \o s /\ clock' = clock
  BY DEF RearmNext
<1> HIDE DEF e, s
<1>5. <<e>> \o s = AddAbs(s, e, clock)
  <2>1. IsDue(e.timecode, clock)
    BY <1>1 DEF IsDue
  <2>2. AddAbs(s, e, clock) = InsertAt(s, 1, e)
    BY <2>1 DEF AddAbs, PlaceOf
  <2>3. s \in Seq(EventRec)
    BY <1>3 DEF ListOf
  <2>4. /\ InsertAt(s, 1, e) \in Seq(EventRec) /\ Len(InsertAt(s, 1, e)) = Len(s) + 1
        /\ \A j \in 1..(Len(s) + 1) :
              InsertAt(s, 1, e)[j] = IF j < 1 THEN s[j] ELSE IF j = 1 THEN e ELSE s[j - 1]
    BY <1>1, <2>3, InsertAtProperty
  <2>5. /\ <<e>> \o s \in Seq(EventRec) /\ Len(<<e>> \o s) = Len(s) + 1
        /\ \A j \in 1..(Len(s) + 1) : (<<e>> \o s)[j] = IF j = 1 THEN e ELSE s[j - 1]
    BY <1>1, <2>3
  <2>6. \A j \in 1..(Len(s) + 1) : (<<e>> \o s)[j] = InsertAt(s, 1, e)[j]
    BY <2>3, <2>4, <2>5
  <2> QED BY <2>2, <2>4, <2>5, <2>6, SeqEqual
<1>6. e.late = IsDue(e.timecode, clock)
  BY <1>1 DEF IsDue
<1>7. ListOf(AddAbs(s, e, clock), Kept(h) \cup {e},
             Len(events) - (IF flag[h] = 1 /\ Holds(h) THEN 1 ELSE 0) + 1, clock)
  BY <1>1, <1>2, <1>3, <1>6, AddEffect
<1> QED BY <1>4, <1>5, <1>7 DEF e

LEMMA AnonymousEffect ==
    ASSUME IInv, NEW t \in Nat, NEW tag \in Tags \cup {0},
           events' = AddAbs(events, NewEvent(NoHolder, t, tag, IsDue(t, clock)), clock),
           clock' = clock
    PROVE  ListOf(events', Pending \cup {NewEvent(NoHolder, t, tag, IsDue(t, clock))},
                  Len(events) + 1, clock')
<1> DEFINE e == NewEvent(NoHolder, t, tag, IsDue(t, clock))
<1>1. e \in EventRec /\ e.id = idCounter /\ e.late = IsDue(e.timecode, clock)
  <2>1. IsDue(t, clock) \in BOOLEAN /\ NoHolder \in AnyHolder
    BY DEF IsDue, AnyHolder
  <2>2. e \in EventRec
    BY <2>1, NewEventType DEF IInv
  <2> QED BY <2>2 DEF NewEvent
<1>2. ListOf(events, Pending, Len(events), clock)
  BY DEF IInv, TypeOK, IdsInv, OrderInv, ListOf, Pending
<1>3. events' = AddAbs(events, e, clock) /\ clock' = clock
  OBVIOUS
<1> HIDE DEF e
<1>4. ListOf(AddAbs(events, e, clock), Pending \cup {e}, Len(events) + 1, clock)
  BY <1>1, <1>2, AddEffect
<1> QED BY <1>3, <1>4 DEF e

\* The clock may move on without disturbing the order.
LEMMA FutureSortedLater ==
    ASSUME NEW list \in Seq(EventRec), NEW a \in Nat, NEW b \in Nat, a <= b,
           FutureSorted(list, a)
    PROVE  FutureSorted(list, b)
<1>1. \A i \in 1..Len(list) : list[i].timecode \in Nat
  BY EventRecTimes
<1> QED BY <1>1 DEF FutureSorted

LEMMA UnchangedEffect ==
    ASSUME IInv, events' = events, clock' \in Nat, clock' >= clock
    PROVE  ListOf(events', Pending, Len(events), clock')
<1>1. events \in Seq(EventRec) /\ clock \in Nat
  BY DEF IInv, TypeOK
<1>2. FutureSorted(events, clock')
  BY <1>1, FutureSortedLater DEF IInv, OrderInv
<1> QED BY <1>1, <1>2 DEF IInv, IdsInv, OrderInv, ListOf, Pending

\* The first event leaves the list, and the clock is at or past its old value.
LEMMA DispatchEffect ==
    ASSUME IInv, events # <<>>, NEW now \in Nat, now >= clock, Dispatch(now)
    PROVE  /\ running' \in Pending /\ running' = events[1]
           /\ ListOf(events', {e \in Pending : e.id # running'.id}, Len(events) - 1, clock')
<1>1. /\ events \in Seq(EventRec) /\ clock \in Nat
      /\ UniqueIds(events) /\ FutureSorted(events, clock) /\ OnTimeSorted(events)
  BY DEF IInv, TypeOK, IdsInv, OrderInv
<1>2. events' = Tail(events) /\ running' = Head(events) /\ clock' = now
  BY DEF Dispatch
<1>3. /\ Head(events) = events[1] /\ Head(events) \in ToSet(events)
      /\ Tail(events) \in Seq(EventRec) /\ Len(Tail(events)) = Len(events) - 1
      /\ ToSet(Tail(events)) = {x \in ToSet(events) : x.id # Head(events).id}
      /\ UniqueIds(Tail(events))
      /\ FutureSorted(Tail(events), clock)
      /\ OnTimeSorted(Tail(events))
  BY <1>1, TailProperty
<1>4. FutureSorted(Tail(events), now)
  BY <1>1, <1>3, FutureSortedLater
<1> QED BY <1>2, <1>3, <1>4 DEF ListOf, Pending

\* add_after_first_event: the new event goes behind the events that are first.
LEMMA AfterFirstEffect ==
    ASSUME IInv, NEW h \in Holders, ArmAfterFirst(h)
    PROVE  \E t \in Nat :
              /\ t >= clock' /\ clock' \in Nat /\ clock' >= clock
              /\ \A e \in Pending : e.timecode >= clock'
              /\ Kept(h) = Pending
              /\ ListOf(events', Kept(h) \cup {NewEvent(h, t, 0, FALSE)}, Len(events) + 1, clock')
<1>1. /\ events \in Seq(EventRec) /\ clock \in Nat /\ h \in AnyHolder
      /\ UniqueIds(events) /\ FutureSorted(events, clock) /\ OnTimeSorted(events)
      /\ \A e \in Pending : e.timecode >= clock /\ e.id # idCounter
  BY EventRecTimes DEF IInv, TypeOK, IdsInv, OrderInv, ArmAfterFirst, AnyHolder
<1>2. Kept(h) = Pending
  BY DEF ArmAfterFirst, Kept
<1>3. CASE events = <<>>
  <2> DEFINE e == NewEvent(h, clock + 1, 0, FALSE)
  <2>1. e \in EventRec /\ e.id = idCounter /\ e.late = IsDue(e.timecode, clock)
    <3>1. clock + 1 \in Nat /\ IsDue(clock + 1, clock) = FALSE
      BY <1>1 DEF IsDue
    <3>2. e \in EventRec
      BY <1>1, <3>1, NewEventType DEF IInv
    <3> QED BY <3>1, <3>2 DEF NewEvent
  <2>2. ListOf(events, Pending, Len(events), clock)
    BY <1>1 DEF ListOf, Pending
  <2>3. events' = AddAbs(events, e, clock) /\ clock' = clock
    BY <1>3 DEF ArmAfterFirst
  <2> HIDE DEF e
  <2>4. ListOf(AddAbs(events, e, clock), Pending \cup {e}, Len(events) + 1, clock)
    BY <2>1, <2>2, AddEffect
  <2>5. ListOf(events', Kept(h) \cup {NewEvent(h, clock + 1, 0, FALSE)},
               Len(events) + 1, clock')
    BY <1>2, <2>3, <2>4 DEF e
  <2>6. /\ clock + 1 \in Nat /\ clock + 1 >= clock' /\ clock' \in Nat /\ clock' >= clock
        /\ \A x \in Pending : x.timecode >= clock'
    BY <1>1, <2>3
  <2> QED BY <1>2, <2>5, <2>6
<1>4. CASE events # <<>>
  <2> DEFINE t == events[1].timecode
             e == NewEvent(h, t, 0, FALSE)
             p == TieStop(events) + 1
  <2>1. events[1] \in Pending /\ t \in Nat /\ t >= clock
    <3>1. events[1] \in Pending /\ events[1] \in EventRec
      BY <1>1, <1>4 DEF Pending, ToSet
    <3>2. t \in Nat
      BY <3>1, EventRecTimes
    <3> QED BY <1>1, <3>1, <3>2
  <2>2. e \in EventRec /\ e.timecode = t /\ e.late = FALSE /\ e.id = idCounter
    <3>1. e \in EventRec
      BY <1>1, <2>1, NewEventType DEF IInv
    <3> QED BY <3>1 DEF NewEvent
  <2>3. p \in 1..(Len(events) + 1) /\ p > 1 /\ \A i \in 1..(p - 1) : events[i].timecode = t
    BY <1>1, <1>4, TieStopProperty
  <2>4. events' = InsertAt(events, p, e) /\ clock' = t
    BY <1>4 DEF ArmAfterFirst
  <2> HIDE DEF e, p
  <2>5. \A i \in 1..Len(events) : events[i].timecode \in Nat /\ events[i].timecode >= clock
    BY <1>1, EventRecTimes DEF Pending, ToSet
  <2>6. \A i \in 1..Len(events) : events[i].timecode >= t
    <3> SUFFICES ASSUME NEW i \in 1..Len(events)
                 PROVE  events[i].timecode >= t
      OBVIOUS
    <3>1. CASE i = 1
      BY <2>5, <3>1
    <3>2. CASE i > 1 /\ t > clock
      BY <1>1, <2>1, <2>5, <3>2 DEF FutureSorted
    <3>3. CASE ~(t > clock)
      BY <1>1, <2>1, <2>5, <3>3
    <3> QED BY <3>1, <3>2, <3>3
  <2>7. FutureSorted(events, t)
    BY <1>1, <2>1, FutureSortedLater
  <2>8. FutureSorted(events', clock') /\ OnTimeSorted(events')
    <3>1. /\ \A i \in 1..(p - 1) : events[i].timecode > t => events[i].timecode <= e.timecode
          /\ e.timecode > t => \A i \in p..Len(events) : e.timecode <= events[i].timecode
      BY <2>1, <2>2, <2>3
    <3>2. /\ \A i \in 1..(p - 1) : ~events[i].late => events[i].timecode <= e.timecode
          /\ \A i \in p..Len(events) : ~events[i].late => e.timecode <= events[i].timecode
      BY <2>1, <2>2, <2>3, <2>6
    <3> HIDE DEF t
    <3>3. FutureSorted(InsertAt(events, p, e), t)
      BY <1>1, <2>1, <2>2, <2>3, <2>7, <3>1, InsertAtKeepsOrder, EventRecTimes
    <3>4. OnTimeSorted(InsertAt(events, p, e))
      BY <1>1, <2>1, <2>2, <2>3, <3>2, InsertAtKeepsOrder, EventRecTimes
    <3> QED BY <2>4, <3>3, <3>4
  <2>9. UniqueIds(events')
    <3>1. \A i \in 1..Len(events) : events[i].id # e.id
      BY <1>1, <2>2 DEF Pending, ToSet
    <3> QED BY <1>1, <2>2, <2>3, <2>4, <3>1, InsertAtKeepsIds
  <2>10. events' \in Seq(EventRec) /\ Len(events') = Len(events) + 1
         /\ ToSet(events') = Pending \cup {e}
    BY <1>1, <2>2, <2>3, <2>4, InsertAtProperty, InsertAtToSet DEF Pending
  <2>11. \A x \in Pending : x.timecode >= clock'
    BY <2>4, <2>6 DEF Pending, ToSet
  <2>12. ListOf(events', Kept(h) \cup {NewEvent(h, t, 0, FALSE)}, Len(events) + 1, clock')
    BY <1>2, <2>8, <2>9, <2>10 DEF ListOf, e, Pending
  <2>13. t >= clock' /\ clock' \in Nat /\ clock' >= clock
    BY <1>1, <2>1, <2>4
  <2> HIDE DEF t
  <2> QED BY <1>2, <2>1, <2>11, <2>12, <2>13
<1> QED BY <1>3, <1>4

-----------------------------------------------------------------------------
(***************************************************************************)
(* The kinds of step, seen from the set of linked events.                  *)
(***************************************************************************)
ArmKind(h, e) ==
    /\ e \in EventRec /\ e.id = idCounter /\ e.holder = h /\ e.tag = 0
    /\ MayArm(h)
    /\ Pending' = Kept(h) \cup {e}
    /\ Bind(h)
    /\ idCounter' = idCounter + 1
    /\ clock' \in {clock} \cup {x.timecode : x \in Pending}
    /\ UNCHANGED <<running, inline, pc>>

UnarmKind(h) ==
    /\ \/ flag' = [flag EXCEPT ![h] = 0] /\ Pending' \in {Kept(h), Spared(h)}
       \/ flag' = flag /\ dropped' = dropped /\ inline' = inline /\ Pending' = Pending
    /\ inline' = inline \/ inline' = <<h>> \o inline
    /\ dropped' = dropped \/ dropped' = dropped \ {h}
    /\ idCounter' = idCounter \/ idCounter' = idCounter + 1
    /\ UNCHANGED <<heldId, running, pc, clock>>

ReturnKind(h) ==
    /\ h \in ToSet(inline) /\ ToSet(inline') \subseteq ToSet(inline)
    /\ inline' \in Seq(Holders)
    /\ heldId' = [heldId EXCEPT ![h] = 0]
    /\ UNCHANGED <<events, flag, dropped, idCounter, running, pc, clock>>

AnnounceKind(e) ==
    /\ e \in EventRec /\ e.id = idCounter /\ e.holder = NoHolder
    /\ Pending' = Pending \cup {e}
    /\ idCounter' = idCounter + 1
    /\ e.tag = FrameTag =>
          /\ ~FramePending
          /\ running.tag = FrameTag
          /\ e.timecode = running.timecode + FrameLen
    /\ UNCHANGED <<flag, heldId, dropped, running, inline, pc, clock>>

FireKind ==
    /\ pc # "callback" /\ pc' = "callback"
    /\ running' \in Pending
    /\ Pending' = {e \in Pending : e.id # running'.id}
    /\ flag' = [g \in Holders |-> IF g = running'.holder THEN 0 ELSE flag[g]]
    /\ clock' >= clock /\ clock' >= running'.timecode
    /\ ~running'.late => \A e \in Pending : ~e.late => running'.timecode <= e.timecode
    /\ UNCHANGED <<heldId, dropped, idCounter, inline>>

RestartKind(e) ==
    /\ pc = "idle"
    /\ e \in EventRec /\ e.id = idCounter /\ e.holder = NoHolder
    /\ e.tag = FrameTag /\ e.timecode = FrameLen
    /\ Pending' = {e}
    /\ dropped' = dropped \cup {g \in Holders : flag[g] = 1}
    /\ idCounter' = idCounter + 1
    /\ clock' = 0
    /\ UNCHANGED <<flag, heldId, running, inline, pc>>

QuietKind ==
    /\ clock' >= clock
    /\ \/ UNCHANGED running /\ (pc = "callback" <=> pc' = "callback")
       \/ running' = NoEvent /\ clock' = clock /\ pc' # "callback" /\ (pc = "callback" => CallbackDone)
    /\ UNCHANGED <<events, flag, heldId, dropped, idCounter, inline>>

AnyKind ==
    \/ \E h \in Holders : UnarmKind(h) \/ ReturnKind(h) \/ \E e \in EventRec : ArmKind(h, e)
    \/ \E e \in EventRec : AnnounceKind(e) \/ RestartKind(e)
    \/ FireKind
    \/ QuietKind

\* The first event of a sorted list is due before the others that were asked
\* for in time, and before all of them if none lies in the past.
LEMMA FirstIsFirst ==
    ASSUME IInv, events # <<>>, NEW e \in Pending
    PROVE  /\ ~events[1].late /\ ~e.late => events[1].timecode <= e.timecode
           /\ events[1].timecode > clock => events[1].timecode <= e.timecode
<1>1. /\ events \in Seq(EventRec) /\ FutureSorted(events, clock) /\ OnTimeSorted(events)
  BY DEF IInv, TypeOK, OrderInv
<1>2. PICK i \in 1..Len(events) : e = events[i]
  BY <1>1 DEF Pending, ToSet
<1>3. events[1].timecode \in Nat
  BY <1>1, EventRecTimes
<1>4. CASE i = 1
  BY <1>2, <1>3, <1>4
<1>5. CASE i > 1
  BY <1>1, <1>2, <1>5 DEF FutureSorted, OnTimeSorted
<1> QED BY <1>4, <1>5

\* The loops never find the list empty, and fire only what has come.
LEMMA FirstExists ==
    ASSUME IInv, pc # "callback"
    PROVE  events # <<>> /\ events[1] \in Pending /\ events[1].timecode \in Nat
<1>1. \E e \in Pending : e.tag = FrameTag
  BY DEF IInv, FrameInv, FrameOnGrid
<1>2. events # <<>>
  BY <1>1 DEF Pending, ToSet
<1>3. events \in Seq(EventRec)
  BY DEF IInv, TypeOK
<1>4. events[1] \in Pending /\ events[1] \in EventRec
  BY <1>2, <1>3 DEF Pending, ToSet
<1> QED BY <1>2, <1>4, EventRecTimes

LEMMA FireDueEffect ==
    ASSUME IInv, FireDue
    PROVE  /\ running' \in Pending /\ running' = events[1]
           /\ ListOf(events', {e \in Pending : e.id # running'.id}, Len(events) - 1, clock')
           /\ clock' = clock /\ running'.timecode <= clock
           /\ FireKind
<1>1. events # <<>> /\ clock \in Nat /\ clock >= clock /\ Dispatch(clock)
  BY FirstExists DEF FireDue, IInv, TypeOK
<1>2. /\ running' \in Pending /\ running' = events[1]
      /\ ListOf(events', {e \in Pending : e.id # running'.id}, Len(events) - 1, clock')
  BY <1>1, DispatchEffect
<1>3. clock' = clock /\ running' = Head(events) /\ loopStart >= running'.timecode
  BY <1>1 DEF Dispatch, FireDue
<1>4. running'.timecode \in Nat /\ running'.timecode <= clock
  BY <1>2, <1>3, FirstExists DEF IInv, LoopInv, FireDue
<1>5. ~running'.late => \A e \in Pending : ~e.late => running'.timecode <= e.timecode
  BY <1>1, <1>2, FirstIsFirst
<1>6. FireKind
  BY <1>1, <1>2, <1>3, <1>4, <1>5 DEF FireKind, ListOf, Pending, Dispatch, FireDue
<1> QED BY <1>2, <1>3, <1>4, <1>6

\* The tg16 loops set the clock from the event, which is never in the past.
LEMMA ExactFireEffect ==
    ASSUME IInv, pc = "outer", Exact, Dispatch(Head(events).timecode)
    PROVE  /\ running' \in Pending /\ running' = events[1]
           /\ ListOf(events', {e \in Pending : e.id # running'.id}, Len(events) - 1, clock')
           /\ clock' >= clock /\ running'.timecode = clock' /\ clock' \in Nat
           /\ FireKind
<1>1. events # <<>> /\ events[1] \in Pending /\ events[1].timecode \in Nat /\ clock \in Nat
  BY FirstExists DEF IInv, TypeOK
<1>2. Head(events) = events[1]
  BY <1>1 DEF IInv, TypeOK
<1>3. events[1].timecode >= clock
  BY <1>1 DEF IInv, OrderInv
<1>4. /\ running' \in Pending /\ running' = events[1]
      /\ ListOf(events', {e \in Pending : e.id # running'.id}, Len(events) - 1, clock')
  BY <1>1, <1>2, <1>3, DispatchEffect
<1>5. clock' = events[1].timecode
  BY <1>2 DEF Dispatch
<1>6. ~running'.late => \A e \in Pending : ~e.late => running'.timecode <= e.timecode
  BY <1>1, <1>4, FirstIsFirst
<1>7. FireKind
  BY <1>1, <1>2, <1>3, <1>4, <1>5, <1>6 DEF FireKind, ListOf, Pending, Dispatch
<1> QED BY <1>1, <1>3, <1>4, <1>5, <1>7

LEMMA TagFacts == 0 \notin Tags /\ FrameTag # 0 /\ FrameTag \in Tags
BY TagAssumption

\* The stack of callbacks that run on the spot.
LEMMA InlinePush ==
    ASSUME NEW stack \in Seq(Holders), NEW h \in Holders
    PROVE  /\ <<h>> \o stack \in Seq(Holders)
           /\ ToSet(<<h>> \o stack) = ToSet(stack) \cup {h}
<1>1. /\ <<h>> \o stack \in Seq(Holders) /\ Len(<<h>> \o stack) = Len(stack) + 1
      /\ Len(stack) \in Nat
      /\ \A j \in 1..(Len(stack) + 1) : (<<h>> \o stack)[j] = IF j = 1 THEN h ELSE stack[j - 1]
  OBVIOUS
<1> DEFINE new == <<h>> \o stack
<1> HIDE DEF new
<1>2. \A j \in 1..Len(stack) : j + 1 \in 1..Len(new) /\ new[j + 1] = stack[j]
  BY <1>1 DEF new
<1>3. \A j \in 1..Len(new) : j # 1 => j - 1 \in 1..Len(stack) /\ new[j] = stack[j - 1]
  BY <1>1 DEF new
<1>4. new[1] = h /\ 1 \in 1..Len(new)
  BY <1>1 DEF new
<1>5. ToSet(new) \subseteq ToSet(stack) \cup {h}
  <2> SUFFICES ASSUME NEW j \in 1..Len(new)
               PROVE  new[j] \in ToSet(stack) \cup {h}
    BY DEF ToSet
  <2> QED BY <1>3, <1>4 DEF ToSet
<1>6. ToSet(stack) \subseteq ToSet(new) /\ h \in ToSet(new)
  <2>1. ASSUME NEW j \in 1..Len(stack)
        PROVE  stack[j] \in ToSet(new)
    BY <1>2 DEF ToSet
  <2> QED BY <1>4, <2>1 DEF ToSet
<1> QED BY <1>1, <1>5, <1>6 DEF new

LEMMA InlinePop ==
    ASSUME NEW stack \in Seq(Holders), stack # <<>>
    PROVE  /\ Head(stack) \in Holders /\ Head(stack) \in ToSet(stack)
           /\ Tail(stack) \in Seq(Holders) /\ ToSet(Tail(stack)) \subseteq ToSet(stack)
<1>1. /\ Len(stack) \in Nat \ {0} /\ Head(stack) = stack[1] /\ stack[1] \in Holders
      /\ Tail(stack) \in Seq(Holders) /\ Len(Tail(stack)) = Len(stack) - 1
      /\ \A j \in 1..(Len(stack) - 1) : Tail(stack)[j] = stack[j + 1]
  OBVIOUS
<1> QED BY <1>1 DEF ToSet

LEMMA StepKinds ==
    ASSUME IInv, Next
    PROVE  AnyKind /\ UniqueIds(events') /\ events' \in Seq(EventRec)
<1>1. /\ events \in Seq(EventRec) /\ UniqueIds(events) /\ clock \in Nat
      /\ idCounter \in Nat /\ running \in EventRec
      /\ flag \in [Holders -> {0, 1}] /\ heldId \in [Holders -> Nat]
  BY DEF IInv, TypeOK, IdsInv
<1>2. ASSUME NEW h \in Holders, NEW t \in 0..MaxClock, RearmOnlyAbs(h, t)
      PROVE  AnyKind /\ UniqueIds(events') /\ events' \in Seq(EventRec)
  <2> DEFINE e == NewEvent(h, t, 0, IsDue(t, clock))
  <2>1. e \in EventRec /\ e.id = idCounter /\ e.holder = h /\ e.tag = 0
    <3>1. t \in Nat /\ IsDue(t, clock) \in BOOLEAN /\ h \in AnyHolder
      BY SizeAssumption DEF IsDue, AnyHolder
    <3>2. e \in EventRec
      BY <3>1, NewEventType DEF IInv
    <3> QED BY <3>2 DEF NewEvent
  <2>2. ListOf(events', Kept(h) \cup {e},
               Len(events) - (IF flag[h] = 1 /\ Holds(h) THEN 1 ELSE 0) + 1, clock')
    BY <1>2, RearmOnlyAbsEffect
  <2> HIDE DEF e
  <2>3. ArmKind(h, e)
    BY <1>2, <2>1, <2>2 DEF ArmKind, ListOf, Pending, RearmOnlyAbs, loopVars
  <2> QED BY <2>1, <2>2, <2>3 DEF AnyKind, ListOf
<1>3. ASSUME NEW h \in Holders, NEW t \in 0..MaxClock, RearmOrRunNow(h, t)
      PROVE  AnyKind /\ UniqueIds(events') /\ events' \in Seq(EventRec)
  <2>1. ListOf(events', Kept(h),
               Len(events) - (IF flag[h] = 1 /\ Holds(h) THEN 1 ELSE 0), clock)
    BY <1>3, DisarmEffect DEF RearmOrRunNow
  <2>2. UnarmKind(h)
    BY <1>3, <2>1 DEF UnarmKind, ListOf, Pending, RearmOrRunNow, loopVars
  <2> QED BY <2>1, <2>2 DEF AnyKind, ListOf
<1>4. ASSUME NEW h \in Holders, RearmNext(h)
      PROVE  AnyKind /\ UniqueIds(events') /\ events' \in Seq(EventRec)
  <2> DEFINE e == NewEvent(h, 0, 0, TRUE)
  <2>1. e \in EventRec /\ e.id = idCounter /\ e.holder = h /\ e.tag = 0
    BY NewEventType DEF IInv, NewEvent, AnyHolder
  <2>2. ListOf(events', Kept(h) \cup {e},
               Len(events) - (IF flag[h] = 1 /\ Holds(h) THEN 1 ELSE 0) + 1, clock')
    BY <1>4, RearmNextEffect
  <2> HIDE DEF e
  <2>3. ArmKind(h, e)
    BY <1>4, <2>1, <2>2 DEF ArmKind, ListOf, Pending, RearmNext, loopVars
  <2> QED BY <2>1, <2>2, <2>3 DEF AnyKind, ListOf
<1>5. ASSUME NEW h \in Holders, ArmAfterFirst(h)
      PROVE  AnyKind /\ UniqueIds(events') /\ events' \in Seq(EventRec)
  <2>1. PICK t \in Nat :
           ListOf(events', Kept(h) \cup {NewEvent(h, t, 0, FALSE)}, Len(events) + 1, clock')
    BY <1>5, AfterFirstEffect
  <2> DEFINE e == NewEvent(h, t, 0, FALSE)
  <2>2. e \in EventRec /\ e.id = idCounter /\ e.holder = h /\ e.tag = 0
    BY NewEventType DEF IInv, NewEvent, AnyHolder
  <2>3. ListOf(events', Kept(h) \cup {e}, Len(events) + 1, clock')
    BY <2>1
  <2>4. clock' \in {clock} \cup {x.timecode : x \in Pending}
    <3>1. CASE events = <<>>
      BY <1>5, <3>1 DEF ArmAfterFirst
    <3>2. CASE events # <<>>
      <4>1. clock' = events[1].timecode
        BY <1>5, <3>2 DEF ArmAfterFirst
      <4>2. events[1] \in Pending
        BY <1>1, <3>2 DEF Pending, ToSet
      <4> QED BY <4>1, <4>2
    <3> QED BY <3>1, <3>2
  <2> HIDE DEF e
  <2>5. ArmKind(h, e)
    BY <1>5, <2>2, <2>3, <2>4 DEF ArmKind, ListOf, Pending, ArmAfterFirst, loopVars
  <2> QED BY <2>2, <2>3, <2>5 DEF AnyKind, ListOf
<1>6. ASSUME NEW h \in Holders, Cancel(h)
      PROVE  AnyKind /\ UniqueIds(events') /\ events' \in Seq(EventRec)
  <2>1. ListOf(events', Spared(h), Len(events) - (IF Holds(h) THEN 1 ELSE 0), clock)
    BY <1>6, CancelEffect DEF Cancel
  <2>2. CASE Holds(h)
    BY <1>6, <2>1, <2>2 DEF UnarmKind, ListOf, Pending, Cancel, loopVars, AnyKind
  <2>3. CASE ~Holds(h)
    <3>1. events' = events
      BY <1>6, <2>3 DEF Cancel, Holds, DeleteIfExist
    <3>2. UnarmKind(h)
      BY <1>6, <2>1, <2>3, <3>1 DEF UnarmKind, ListOf, Pending, Cancel, loopVars
    <3> QED BY <2>1, <3>2 DEF AnyKind, ListOf
  <2> QED BY <2>2, <2>3
<1>7. ASSUME NEW t \in 0..MaxClock, NEW tag \in Tags \cup {0}, AddAnonymous(t, tag)
      PROVE  AnyKind /\ UniqueIds(events') /\ events' \in Seq(EventRec)
  <2> DEFINE e == NewEvent(NoHolder, t, tag, IsDue(t, clock))
  <2>1. e \in EventRec /\ e.id = idCounter /\ e.holder = NoHolder /\ e.tag # FrameTag
    <3>1. t \in Nat /\ IsDue(t, clock) \in BOOLEAN /\ NoHolder \in AnyHolder
      BY SizeAssumption DEF IsDue, AnyHolder
    <3>2. e \in EventRec
      BY <3>1, NewEventType DEF IInv
    <3>3. tag # FrameTag
      BY <1>7 DEF AddAnonymous
    <3> QED BY <3>2, <3>3 DEF NewEvent
  <2>2. ListOf(events', Pending \cup {e}, Len(events) + 1, clock')
    BY <1>7, SizeAssumption, AnonymousEffect DEF AddAnonymous
  <2> HIDE DEF e
  <2>3. AnnounceKind(e)
    BY <1>7, <2>1, <2>2 DEF AnnounceKind, ListOf, Pending, AddAnonymous, holderVars, loopVars
  <2> QED BY <2>1, <2>2, <2>3 DEF AnyKind, ListOf
<1>8. ASSUME ScheduleFrame
      PROVE  AnyKind /\ UniqueIds(events') /\ events' \in Seq(EventRec)
  <2> DEFINE t == running.timecode + FrameLen
             e == NewEvent(NoHolder, t, FrameTag, IsDue(t, clock))
  <2>1. t \in Nat
    BY <1>1, SizeAssumption, EventRecTimes
  <2>2. e \in EventRec /\ e.id = idCounter /\ e.holder = NoHolder /\ e.timecode = t
    <3> HIDE DEF t
    <3> QED BY <2>1, TagFacts, NewEventType DEF IInv, NewEvent, AnyHolder, IsDue
  <2>3. events' = AddAbs(events, e, clock) /\ clock' = clock
    BY <1>8 DEF ScheduleFrame
  <2>4. ListOf(events', Pending \cup {e}, Len(events) + 1, clock')
    <3> HIDE DEF t
    <3> QED BY <2>1, <2>3, TagFacts, AnonymousEffect
  <2> HIDE DEF e
  <2>5. AnnounceKind(e)
    BY <1>8, <2>2, <2>3, <2>4 DEF AnnounceKind, ListOf, Pending, ScheduleFrame, holderVars, loopVars
  <2> QED BY <2>2, <2>4, <2>5 DEF AnyKind, ListOf
<1>9. ASSUME Reset
      PROVE  AnyKind /\ UniqueIds(events') /\ events' \in Seq(EventRec)
  <2> DEFINE e == NewEvent(NoHolder, FrameLen, FrameTag, FALSE)
  <2>1. e \in EventRec /\ e.id = idCounter /\ e.holder = NoHolder
        /\ e.tag = FrameTag /\ e.timecode = FrameLen
    BY SizeAssumption, TagFacts, NewEventType DEF IInv, NewEvent, AnyHolder
  <2>2. events' = <<e>>
    BY <1>9 DEF Reset
  <2> HIDE DEF e
  <2>3. Pending' = {e} /\ UniqueIds(events') /\ events' \in Seq(EventRec)
    BY <2>1, <2>2 DEF Pending, ToSet, UniqueIds
  <2>4. RestartKind(e)
    BY <1>9, <2>1, <2>3 DEF RestartKind, Reset, loopVars, Idle
  <2> QED BY <2>1, <2>3, <2>4 DEF AnyKind
<1>10. ASSUME FireDue
       PROVE  AnyKind /\ UniqueIds(events') /\ events' \in Seq(EventRec)
  BY <1>10, FireDueEffect DEF AnyKind, ListOf
<1>11. ASSUME ExactTop
       PROVE  AnyKind /\ UniqueIds(events') /\ events' \in Seq(EventRec)
  <2>1. CASE doBreak \/ (call.kind = "cycles" /\ clock >= call.exitAt)
    <3>1. QuietKind
      BY <1>1, <1>11, <2>1 DEF ExactTop, Leave, QuietKind, holderVars
    <3> QED BY <1>1, <1>11, <2>1, <3>1 DEF AnyKind, QuietKind
  <2>2. CASE ~(doBreak \/ (call.kind = "cycles" /\ clock >= call.exitAt))
    BY <1>11, <2>2, ExactFireEffect DEF ExactTop, AnyKind, ListOf
  <2> QED BY <2>1, <2>2
<1>12. ASSUME \/ LoopTop \/ EnterBlock \/ LeaveBlock \/ ReturnToTag \/ ReturnToCycles
              \/ ReturnToExact \/ Break \/ Resume
              \/ \E n \in 1..MaxStep :
                    AdjustMasterClock(n) \/ RunCycles(n) \/ RunForCycles(n)
              \/ \E tag \in Tags : RunTilTag(tag)
       PROVE  AnyKind /\ UniqueIds(events') /\ events' \in Seq(EventRec)
  <2>1. ASSUME LoopTop \/ EnterBlock \/ LeaveBlock
        PROVE  QuietKind
    BY <1>1, <2>1 DEF LoopTop, EnterBlock, LeaveBlock, Leave, QuietKind, holderVars, LoopInv, IInv
  <2>2. ASSUME ReturnToTag \/ ReturnToCycles \/ ReturnToExact
        PROVE  QuietKind
    BY <1>1, <2>2 DEF ReturnToTag, ReturnToCycles, ReturnToExact, Leave, QuietKind, holderVars
  <2>3. ASSUME \/ Break \/ Resume
               \/ \E n \in 1..MaxStep : RunForCycles(n)
               \/ \E tag \in Tags : RunTilTag(tag)
        PROVE  QuietKind
    BY <1>1, <2>3 DEF Break, Resume, RunForCycles, RunTilTag, QuietKind, holderVars, loopVars, Idle
  <2>4. ASSUME NEW n \in 1..MaxStep, AdjustMasterClock(n) \/ RunCycles(n)
        PROVE  QuietKind
    BY <1>1, <2>4, SizeAssumption DEF AdjustMasterClock, RunCycles, QuietKind, holderVars
  <2>5. QuietKind
    BY <1>12, <2>1, <2>2, <2>3, <2>4
  <2> QED BY <1>1, <2>5 DEF AnyKind, QuietKind
<1>13. ASSUME InlineReturn
       PROVE  AnyKind /\ UniqueIds(events') /\ events' \in Seq(EventRec)
  <2>1. inline \in Seq(Holders) /\ inline # <<>>
    BY <1>13 DEF InlineReturn, NoInline, IInv, TypeOK
  <2>2. ReturnKind(Head(inline)) /\ Head(inline) \in Holders
    BY <1>13, <2>1, InlinePop DEF InlineReturn, ReturnKind
  <2>3. events' = events
    BY <1>13 DEF InlineReturn
  <2> QED BY <1>1, <2>2, <2>3 DEF AnyKind
<1> QED BY <1>2, <1>3, <1>4, <1>5, <1>6, <1>7, <1>8, <1>9, <1>10, <1>11, <1>12, <1>13
        DEF Next, CoreStep, Driver, LoopStep

-----------------------------------------------------------------------------
(***************************************************************************)
(* The parts of the invariant that only look at the set of linked events.  *)
(***************************************************************************)
LEMMA IdsStep ==
    ASSUME IInv, Next
    PROVE  (IdsInv /\ HolderCanCancel /\ InlineInv /\ StillMeansPending)'
<1> DEFINE Goal == (IdsInv /\ HolderCanCancel /\ InlineInv /\ StillMeansPending)'
<1>1. /\ UniqueIds(events') /\ idCounter \in Nat /\ NoHolder \notin Holders
      /\ running \in EventRec /\ \A e \in Pending : e \in EventRec /\ e.id \in Nat
      /\ flag \in [Holders -> {0, 1}] /\ heldId \in [Holders -> Nat]
      /\ running.id \in Nat /\ idCounter > 0
      /\ inline \in Seq(Holders) /\ SelfArming \subseteq Holders /\ ToSet(inline) \subseteq Holders
  <2>1. \A e \in Pending : e \in EventRec
    BY DEF IInv, TypeOK, Pending, ToSet
  <2>2. running.id \in Nat /\ running.id < idCounter /\ idCounter \in Nat
    BY EventRecTimes DEF IInv, TypeOK, IdsInv
  <2>3. inline \in Seq(Holders)
    BY DEF IInv, TypeOK
  <2>4. ToSet(inline) \subseteq Holders
    BY <2>3 DEF ToSet
  <2> QED BY <2>1, <2>2, <2>3, <2>4, StepKinds, EventRecTimes, HolderAssumption DEF IInv, TypeOK
<1>2. /\ \A e \in Pending : e.id # 0 /\ e.id < idCounter
      /\ running.id < idCounter
      /\ \A h \in Holders : heldId[h] < idCounter
      /\ \A h \in Holders : \A e \in Pending : e.id = heldId[h] => e.holder = h
      /\ \A e \in Pending : e.holder \in Holders \ SelfArming =>
                                flag[e.holder] = 1 /\ heldId[e.holder] = e.id
      /\ \A e \in Pending : e.holder \in ToSet(inline) => e.holder \in SelfArming
      /\ \A h \in Holders : flag[h] = 1 => h \in dropped \/ \E e \in Pending : e.holder = h
  BY DEF IInv, IdsInv, HolderCanCancel, InlineInv, StillMeansPending
<1>3. ASSUME NEW h \in Holders, NEW e \in EventRec, ArmKind(h, e)
      PROVE  Goal
  <2>1. /\ flag' = [flag EXCEPT ![h] = 1] /\ heldId' = [heldId EXCEPT ![h] = idCounter]
        /\ dropped' = dropped \ {h} /\ idCounter' = idCounter + 1 /\ running' = running
        /\ inline' = inline /\ (h \in ToSet(inline) => h \in SelfArming)
        /\ Pending' = Kept(h) \cup {e} /\ e.id = idCounter /\ e.holder = h
    BY <1>3 DEF ArmKind, Bind, MayArm
  <2>2. /\ Kept(h) \subseteq Pending /\ \A x \in Pending : x.holder # h => x \in Kept(h)
        /\ h \notin SelfArming => \A x \in Kept(h) : x.holder # h
    BY GivesBack DEF Gives, Others
  <2> DEFINE kept == Kept(h)
  <2> HIDE DEF kept
  <2>3. Pending' = kept \cup {e} /\ kept \subseteq Pending
        /\ (\A x \in Pending : x.holder # h => x \in kept)
        /\ (h \notin SelfArming => \A x \in kept : x.holder # h)
    BY <2>1, <2>2 DEF kept
  <2>4. IdsInv'
    BY <1>1, <1>2, <2>1, <2>3 DEF IdsInv
  <2>5. HolderCanCancel'
    <3> SUFFICES ASSUME NEW x \in Pending', x.holder \in Holders \ SelfArming
                 PROVE  flag'[x.holder] = 1 /\ heldId'[x.holder] = x.id
      BY DEF HolderCanCancel
    <3>1. CASE x = e
      BY <1>1, <2>1, <3>1
    <3>2. CASE x # e
      <4>1. x \in Pending /\ x.holder # h
        BY <2>3, <3>2
      <4> QED BY <1>1, <1>2, <2>1, <4>1
    <3> QED BY <3>1, <3>2
  <2>6. InlineInv'
    BY <1>2, <2>1, <2>3 DEF InlineInv
  <2>7. StillMeansPending'
    <3> SUFFICES ASSUME NEW g \in Holders, flag'[g] = 1, g \notin dropped'
                 PROVE  \E x \in Pending' : x.holder = g
      BY DEF StillMeansPending
    <3>1. CASE g = h
      BY <2>1, <3>1
    <3>2. CASE g # h
      BY <1>1, <1>2, <2>1, <2>3, <3>2
    <3> QED BY <3>1, <3>2
  <2> QED BY <2>4, <2>5, <2>6, <2>7
<1>4. ASSUME NEW h \in Holders, UnarmKind(h)
      PROVE  Goal
  <2>1. /\ \/ flag' = [flag EXCEPT ![h] = 0] /\ Gives(h, Pending')
           \/ flag' = flag /\ dropped' = dropped /\ inline' = inline /\ Pending' = Pending
        /\ inline' = inline \/ inline' = <<h>> \o inline
        /\ dropped' = dropped \/ dropped' = dropped \ {h}
        /\ idCounter' = idCounter \/ idCounter' = idCounter + 1
        /\ running' = running /\ heldId' = heldId
    BY <1>4, GivesBack DEF UnarmKind
  <2>2. CASE flag' = flag /\ dropped' = dropped /\ inline' = inline /\ Pending' = Pending
    BY <1>1, <1>2, <2>1, <2>2 DEF IdsInv, HolderCanCancel, InlineInv, StillMeansPending
  <2>3. CASE flag' = [flag EXCEPT ![h] = 0] /\ Gives(h, Pending')
    <3>1. /\ \A x \in Pending' : x \in Pending
          /\ \A x \in Pending : x.holder # h => x \in Pending'
          /\ h \notin SelfArming => \A x \in Pending' : x.holder # h
      BY <2>3, Zenon DEF Gives, Others
    <3>2. \A g : g \in ToSet(inline') => g \in ToSet(inline) \/ g = h
      <4>1. ToSet(<<h>> \o inline) = ToSet(inline) \cup {h}
        BY <1>1, InlinePush
      <4>2. CASE inline' = inline
        BY <4>2
      <4>3. CASE inline' = <<h>> \o inline
        BY <4>1, <4>3
      <4> QED BY <2>1, <4>2, <4>3
    <3>3. IdsInv'
      BY <1>1, <1>2, <2>1, <3>1 DEF IdsInv
    <3>4. HolderCanCancel'
      <4> SUFFICES ASSUME NEW x \in Pending', x.holder \in Holders \ SelfArming
                   PROVE  flag'[x.holder] = 1 /\ heldId'[x.holder] = x.id
        BY DEF HolderCanCancel
      <4>1. x \in Pending /\ x.holder # h
        BY <3>1
      <4> QED BY <1>1, <1>2, <2>1, <2>3, <4>1
    <3>5. InlineInv'
      BY <1>2, <3>1, <3>2 DEF InlineInv
    <3>6. StillMeansPending'
      <4> SUFFICES ASSUME NEW g \in Holders, flag'[g] = 1, g \notin dropped'
                   PROVE  \E x \in Pending' : x.holder = g
        BY DEF StillMeansPending
      <4>1. g # h /\ flag[g] = 1 /\ g \notin dropped
        BY <1>1, <2>1, <2>3
      <4>2. PICK x \in Pending : x.holder = g
        BY <1>2, <4>1
      <4> QED BY <3>1, <4>1, <4>2
    <3> QED BY <3>3, <3>4, <3>5, <3>6
  <2> QED BY <2>1, <2>2, <2>3
<1>5. ASSUME NEW e \in EventRec, AnnounceKind(e)
      PROVE  Goal
  <2>1. /\ Pending' = Pending \cup {e} /\ idCounter' = idCounter + 1
        /\ e.id = idCounter /\ e.holder = NoHolder
        /\ UNCHANGED <<flag, heldId, dropped, running, inline>>
    BY <1>5 DEF AnnounceKind
  <2> QED BY <1>1, <1>2, <2>1 DEF IdsInv, HolderCanCancel, InlineInv, StillMeansPending
<1>6. ASSUME NEW e \in EventRec, RestartKind(e)
      PROVE  Goal
  <2>1. /\ Pending' = {e} /\ idCounter' = idCounter + 1
        /\ e.id = idCounter /\ e.holder = NoHolder
        /\ dropped' = dropped \cup {g \in Holders : flag[g] = 1}
        /\ UNCHANGED <<flag, heldId, running, inline>>
    BY <1>6 DEF RestartKind
  <2> QED BY <1>1, <1>2, <2>1 DEF IdsInv, HolderCanCancel, InlineInv, StillMeansPending
<1>7. ASSUME FireKind
      PROVE  Goal
  <2>1. /\ running' \in Pending
        /\ Pending' = {e \in Pending : e.id # running'.id}
        /\ flag' = [g \in Holders |-> IF g = running'.holder THEN 0 ELSE flag[g]]
        /\ UNCHANGED <<heldId, dropped, idCounter, inline>>
    BY <1>7 DEF FireKind
  <2>2. IdsInv'
    BY <1>1, <1>2, <2>1 DEF IdsInv
  <2>3. HolderCanCancel'
    <3> SUFFICES ASSUME NEW x \in Pending', x.holder \in Holders \ SelfArming
                 PROVE  flag'[x.holder] = 1 /\ heldId'[x.holder] = x.id
      BY DEF HolderCanCancel
    <3>1. x \in Pending /\ x.id # running'.id
      BY <2>1
    <3>2. x.holder # running'.holder
      BY <1>2, <2>1, <3>1
    <3> QED BY <1>2, <2>1, <3>1, <3>2
  <2>4. StillMeansPending'
    <3> SUFFICES ASSUME NEW g \in Holders, flag'[g] = 1, g \notin dropped'
                 PROVE  \E x \in Pending' : x.holder = g
      BY DEF StillMeansPending
    <3>1. g # running'.holder /\ flag[g] = 1
      BY <2>1
    <3>2. PICK x \in Pending : x.holder = g
      BY <1>2, <2>1, <3>1
    <3>3. x.id # running'.id
      BY <2>1, <3>1, <3>2, IdsName
    <3> QED BY <2>1, <3>2, <3>3
  <2>5. InlineInv'
    BY <1>2, <2>1 DEF InlineInv
  <2> QED BY <2>2, <2>3, <2>4, <2>5
<1>8. ASSUME QuietKind
      PROVE  Goal
  <2>1. Pending' = Pending /\ UNCHANGED <<flag, heldId, dropped, idCounter, inline>>
    BY <1>8 DEF QuietKind, Pending
  <2>2. running'.id < idCounter
    BY <1>1, <1>2, <1>8 DEF QuietKind, NoEvent
  <2> QED BY <1>1, <1>2, <2>1, <2>2 DEF IdsInv, HolderCanCancel, InlineInv, StillMeansPending
<1>9. ASSUME NEW h \in Holders, ReturnKind(h)
      PROVE  Goal
  <2>1. /\ h \in ToSet(inline) /\ ToSet(inline') \subseteq ToSet(inline)
        /\ heldId' = [heldId EXCEPT ![h] = 0] /\ Pending' = Pending
        /\ UNCHANGED <<flag, dropped, idCounter, running>>
    BY <1>9 DEF ReturnKind, Pending
  <2>2. IdsInv'
    BY <1>1, <1>2, <2>1 DEF IdsInv
  <2>3. HolderCanCancel'
    BY <1>1, <1>2, <2>1 DEF HolderCanCancel
  <2>4. InlineInv' /\ StillMeansPending'
    BY <1>2, <2>1 DEF InlineInv, StillMeansPending
  <2> QED BY <2>2, <2>3, <2>4
<1> QED BY <1>3, <1>4, <1>5, <1>6, <1>7, <1>8, <1>9, StepKinds DEF AnyKind

\* The next frame is on the grid if the last one was.
LEMMA GridStep ==
    ASSUME NEW t \in Nat, NEW n \in Nat \ {0}, t % n = 0
    PROVE  (t + n) % n = 0 /\ n % n = 0
<1>1. PICK q \in Nat : t = n * q
  <2>1. t = n * (t \div n) + (t % n) /\ t \div n \in Nat
    OBVIOUS
  <2>2. n * (t \div n) \in Nat
    BY <2>1
  <2>3. t = n * (t \div n)
    BY <2>1, <2>2
  <2> QED BY <2>1, <2>3, Zenon
<1>2. t + n = n * (q + 1)
  BY <1>1
<1>3. \A k \in Nat : (n * k) % n = 0
  OBVIOUS
<1>4. n = n * 1
  OBVIOUS
<1> QED BY <1>2, <1>3, <1>4

LEMMA FrameStep ==
    ASSUME IInv, Next
    PROVE  FrameInv'
<1> DEFINE Frames == {e \in Pending : e.tag = FrameTag}
<1>1. /\ NoHolder \notin Holders /\ FrameLen \in Nat \ {0} /\ FrameTag # 0
      /\ running \in EventRec /\ \A e \in Pending : e \in EventRec
  BY HolderAssumption, SizeAssumption, TagFacts DEF IInv, TypeOK, Pending, ToSet
<1>2. /\ \A e \in Frames : e.timecode % FrameLen = 0 /\ e.holder = NoHolder
      /\ \A e, f \in Frames : e = f
      /\ Frames = {} => pc = "callback" /\ running.tag = FrameTag
      /\ running.tag = FrameTag => running.timecode % FrameLen = 0 /\ running.holder = NoHolder
  BY DEF IInv, FrameInv, FrameOnGrid
<1>3. ASSUME Frames' = Frames, pc' = pc, running' = running
      PROVE  FrameInv'
  BY <1>2, <1>3 DEF FrameInv, FrameOnGrid
<1>4. ASSUME NEW h \in Holders, NEW e \in EventRec, ArmKind(h, e)
      PROVE  FrameInv'
  <2>1. Gives(h, Kept(h)) /\ Pending' = Kept(h) \cup {e} /\ e.tag # FrameTag
    BY <1>1, <1>4, GivesBack DEF ArmKind
  <2>2. Frames' = Frames
    BY <1>1, <1>2, <2>1 DEF Gives, Others
  <2> QED BY <1>3, <1>4, <2>2 DEF ArmKind
<1>5. ASSUME NEW h \in Holders, UnarmKind(h)
      PROVE  FrameInv'
  <2>1. Gives(h, Pending') \/ Pending' = Pending
    BY <1>5, GivesBack DEF UnarmKind
  <2>2. Frames' = Frames
    BY <1>1, <1>2, <2>1 DEF Gives, Others
  <2> QED BY <1>3, <1>5, <2>2 DEF UnarmKind
<1>6. ASSUME NEW e \in EventRec, AnnounceKind(e)
      PROVE  FrameInv'
  <2>1. CASE e.tag = FrameTag
    <3>1. /\ Frames = {} /\ Frames' = {e} /\ running' = running /\ e.holder = NoHolder
          /\ running.tag = FrameTag /\ e.timecode = running.timecode + FrameLen
      BY <1>6, <2>1 DEF AnnounceKind, FramePending, Pending
    <3>2. running.timecode \in Nat
      BY <1>1, EventRecTimes
    <3>3. e.timecode % FrameLen = 0
      BY <1>1, <1>2, <3>1, <3>2, GridStep
    <3> QED BY <1>2, <3>1, <3>3 DEF FrameInv, FrameOnGrid
  <2>2. CASE e.tag # FrameTag
    <3>1. Frames' = Frames
      BY <1>6, <2>2 DEF AnnounceKind
    <3> QED BY <1>3, <1>6, <3>1 DEF AnnounceKind
  <2> QED BY <2>1, <2>2
<1>7. ASSUME NEW e \in EventRec, RestartKind(e)
      PROVE  FrameInv'
  <2>1. /\ Frames' = {e} /\ running' = running /\ e.holder = NoHolder
        /\ e.timecode = FrameLen
    BY <1>7 DEF RestartKind
  <2>2. 0 % FrameLen = 0
    BY <1>1
  <2>3. e.timecode % FrameLen = 0
    BY <1>1, <2>1, <2>2, GridStep
  <2> QED BY <1>2, <2>1, <2>3 DEF FrameInv, FrameOnGrid
<1>8. ASSUME FireKind
      PROVE  FrameInv'
  <2>1. /\ running' \in Pending /\ pc' = "callback" /\ pc # "callback"
        /\ Pending' = {e \in Pending : e.id # running'.id}
    BY <1>8 DEF FireKind
  <2>2. Frames' = {e \in Frames : e.id # running'.id}
    BY <2>1
  <2>3. Frames' = {} => running'.tag = FrameTag
    <3>1. PICK f \in Frames : TRUE
      BY <1>2, <2>1
    <3>2. f.id # running'.id => f \in Frames'
      BY <2>2
    <3>3. f.id = running'.id => f = running'
      <4>1. UniqueIds(events) /\ events \in Seq(EventRec)
        BY DEF IInv, IdsInv, TypeOK
      <4>2. PICK i \in 1..Len(events), j \in 1..Len(events) : f = events[i] /\ running' = events[j]
        BY <2>1, <3>1, <4>1 DEF Pending, ToSet
      <4> QED BY <4>1, <4>2 DEF UniqueIds
    <3> QED BY <3>2, <3>3
  <2>4. running'.tag = FrameTag => running' \in Frames
    BY <2>1
  <2> HIDE DEF Frames
  <2>5. /\ \A e \in Frames' : e.timecode % FrameLen = 0 /\ e.holder = NoHolder
        /\ \A e, f \in Frames' : e = f
    BY <1>2, <2>2
  <2> QED BY <1>2, <2>1, <2>3, <2>4, <2>5 DEF FrameInv, FrameOnGrid, Frames
<1>9. ASSUME QuietKind
      PROVE  FrameInv'
  <2>1. Frames' = Frames
    BY <1>9 DEF QuietKind, Pending
  <2>2. CASE running' = running /\ (pc = "callback" <=> pc' = "callback")
    BY <1>2, <2>1, <2>2 DEF FrameInv, FrameOnGrid
  <2>3. CASE running' = NoEvent /\ (pc = "callback" => CallbackDone)
    <3>1. Frames # {}
      BY <1>2, <2>3 DEF CallbackDone, FramePending, Pending
    <3>2. running'.tag # FrameTag
      BY <1>1, <2>3 DEF NoEvent
    <3> QED BY <1>2, <2>1, <3>1, <3>2 DEF FrameInv, FrameOnGrid
  <2> QED BY <1>9, <2>2, <2>3 DEF QuietKind
<1>10. ASSUME NEW h \in Holders, ReturnKind(h)
       PROVE  FrameInv'
  BY <1>3, <1>10 DEF ReturnKind, Pending
<1> QED BY <1>4, <1>5, <1>6, <1>7, <1>8, <1>9, <1>10, StepKinds DEF AnyKind

-----------------------------------------------------------------------------
(***************************************************************************)
(* The run loops and the cycle budget.                                     *)
(***************************************************************************)
\* When a callback returns, the frame event is linked, so the list is not empty.
LEMMA NotDrained ==
    ASSUME IInv, pc = "callback", CallbackDone
    PROVE  events # <<>>
<1>1. \E e \in Pending : e.tag = FrameTag
  BY DEF IInv, FrameInv, FrameOnGrid, CallbackDone, FramePending, Pending
<1> QED BY <1>1 DEF Pending, ToSet

LEMMA ControlStep ==
    ASSUME IInv, Next
    PROVE  (LoopInv /\ BudgetExact)'
<1>1. /\ clock \in Nat /\ loopStart \in Nat /\ cyclesLeft \in Int /\ owed \in Int
      /\ Exact \in BOOLEAN
      /\ call.kind \in {"cycles", "tag"}
  BY SizeAssumption DEF IInv, TypeOK
<1>2. /\ pc = "callback" <=> running # NoEvent
      /\ pc = "inner" => loopStart = clock
      /\ pc \in {"callback", "block"} /\ ~Exact => loopStart <= clock
      /\ Exact => pc \notin {"inner", "block"}
      /\ cyclesLeft = owed + (IF call.kind = "cycles" /\ pc \in {"callback", "block"} /\ ~Exact
                              THEN clock - loopStart ELSE 0)
  BY DEF IInv, LoopInv, BudgetExact, Busy
<1>3. \A e \in Pending : e # NoEvent
  BY DEF IInv, IdsInv, NoEvent
<1> USE DEF LoopInv, BudgetExact, Busy
<1>4. ASSUME UNCHANGED <<pc, call, running, loopStart, cyclesLeft, owed, clock>>
      PROVE  (LoopInv /\ BudgetExact)'
  BY <1>2, <1>4
<1>5. ASSUME NEW h \in Holders, ArmAfterFirst(h)
      PROVE  (LoopInv /\ BudgetExact)'
  BY <1>2, <1>5 DEF ArmAfterFirst, loopVars
<1>6. ASSUME Reset
      PROVE  (LoopInv /\ BudgetExact)'
  BY <1>2, <1>6 DEF Reset, loopVars, Idle
<1>7. ASSUME NEW n \in 1..MaxStep, AdjustMasterClock(n) \/ RunCycles(n)
      PROVE  (LoopInv /\ BudgetExact)'
  <2>1. /\ n \in Nat /\ pc \in {"callback", "block"}
        /\ clock' = clock + n
        /\ owed' = IF call.kind = "cycles" THEN owed - n ELSE owed
        /\ UNCHANGED <<pc, call, running, loopStart, cyclesLeft>>
        /\ ~Exact
    BY <1>2, <1>7, SizeAssumption DEF AdjustMasterClock, RunCycles
  <2> QED BY <1>1, <1>2, <2>1
<1>8. ASSUME NEW n \in 1..MaxStep, RunForCycles(n)
      PROVE  (LoopInv /\ BudgetExact)'
  BY <1>1, <1>2, <1>8, SizeAssumption DEF RunForCycles, Idle
<1>9. ASSUME NEW tag \in Tags, RunTilTag(tag)
      PROVE  (LoopInv /\ BudgetExact)'
  BY <1>1, <1>2, <1>9 DEF RunTilTag, Idle
<1>10. ASSUME LoopTop
       PROVE  (LoopInv /\ BudgetExact)'
  BY <1>1, <1>2, <1>10 DEF LoopTop, Leave
<1>11. ASSUME FireDue
       PROVE  (LoopInv /\ BudgetExact)'
  <2>1. running' # NoEvent /\ clock' = clock
    BY <1>3, <1>11, FireDueEffect
  <2> QED BY <1>1, <1>2, <1>11, <2>1 DEF FireDue, Dispatch
<1>12. ASSUME EnterBlock
       PROVE  (LoopInv /\ BudgetExact)'
  BY <1>1, <1>2, <1>12 DEF EnterBlock, Leave
<1>13. ASSUME LeaveBlock
       PROVE  (LoopInv /\ BudgetExact)'
  BY <1>1, <1>2, <1>13 DEF LeaveBlock
<1>14. ASSUME ReturnToTag
       PROVE  (LoopInv /\ BudgetExact)'
  BY <1>1, <1>2, <1>14 DEF ReturnToTag
<1>15. ASSUME ReturnToCycles
       PROVE  (LoopInv /\ BudgetExact)'
  <2>1. events # <<>>
    BY <1>15, NotDrained DEF ReturnToCycles
  <2> QED BY <1>1, <1>2, <1>15, <2>1 DEF ReturnToCycles, Leave
<1>16. ASSUME ExactTop
       PROVE  (LoopInv /\ BudgetExact)'
  <2>1. CASE doBreak \/ (call.kind = "cycles" /\ clock >= call.exitAt)
    BY <1>1, <1>2, <1>16, <2>1 DEF ExactTop, Leave
  <2>2. CASE ~(doBreak \/ (call.kind = "cycles" /\ clock >= call.exitAt))
    <3>1. running' # NoEvent
      BY <1>3, <1>16, <2>2, ExactFireEffect DEF ExactTop
    <3> QED BY <1>1, <1>2, <1>16, <2>2, <3>1 DEF ExactTop, Dispatch
  <2> QED BY <2>1, <2>2
<1>17. ASSUME ReturnToExact
       PROVE  (LoopInv /\ BudgetExact)'
  BY <1>1, <1>2, <1>17 DEF ReturnToExact
<1>18. ASSUME \/ \E h \in Holders : \/ \E t \in 0..MaxClock : RearmOnlyAbs(h, t) \/ RearmOrRunNow(h, t)
                                    \/ RearmNext(h) \/ Cancel(h)
              \/ \E t \in 0..MaxClock, tag \in Tags \cup {0} : AddAnonymous(t, tag)
              \/ ScheduleFrame \/ InlineReturn \/ Break \/ Resume
       PROVE  (LoopInv /\ BudgetExact)'
  <2>1. UNCHANGED <<pc, call, running, loopStart, cyclesLeft, owed, clock>>
    BY <1>18 DEF RearmOnlyAbs, RearmOrRunNow, RearmNext, Cancel, AddAnonymous, ScheduleFrame,
                 InlineReturn, Break, Resume, loopVars
  <2> QED BY <1>4, <2>1
<1> QED BY <1>5, <1>6, <1>7, <1>8, <1>9, <1>10, <1>11, <1>12, <1>13, <1>14, <1>15, <1>16,
           <1>17, <1>18
        DEF Next, CoreStep, Driver, LoopStep

-----------------------------------------------------------------------------
(***************************************************************************)
(* The storage of events.                                                  *)
(***************************************************************************)
HeapType == [pool : 0..(DeleteNum - 1), live : Nat]

\* The events that are neither pooled nor freed.
InUse(hp) == hp.live - hp.pool

LEMMA AllocProperty ==
    ASSUME NEW hp \in HeapType
    PROVE  Alloc(hp) \in HeapType /\ InUse(Alloc(hp)) = InUse(hp) + 1
BY SizeAssumption DEF HeapType, InUse, Alloc

LEMMA DelEventProperty ==
    ASSUME NEW hp \in HeapType, InUse(hp) > 0
    PROVE  DelEvent(hp) \in HeapType /\ InUse(DelEvent(hp)) = InUse(hp) - 1
<1>1. DeleteNum \in Nat \ {0} /\ hp.pool \in 0..(DeleteNum - 1) /\ hp.live \in Nat
  BY SizeAssumption DEF HeapType
<1>2. CASE hp.pool + 1 = DeleteNum
  <2>1. DelEvent(hp) = [pool |-> 0, live |-> hp.live - DeleteNum]
    BY <1>2 DEF DelEvent
  <2> QED BY <1>1, <1>2, <2>1 DEF HeapType, InUse
<1>3. CASE hp.pool + 1 # DeleteNum
  <2>1. DelEvent(hp) = [hp EXCEPT !.pool = @ + 1]
    BY <1>3 DEF DelEvent
  <2> QED BY <1>1, <1>3, <2>1 DEF HeapType, InUse
<1> QED BY <1>2, <1>3

\* clear() pools every linked event; k times that fills the pool and frees it.
LEMMA DelManyProperty ==
    ASSUME NEW hp \in HeapType, NEW n \in Nat, NEW k \in Nat, InUse(hp) = n,
           DelMany(hp, n, k).pool \in 0..(DeleteNum - 1)
    PROVE  DelMany(hp, n, k) \in HeapType /\ InUse(DelMany(hp, n, k)) = 0
<1> DEFINE m == k * DeleteNum
<1>1. m \in Nat /\ DeleteNum \in Nat /\ hp.pool \in Nat /\ hp.live \in Nat
  BY SizeAssumption DEF HeapType
<1>2. DelMany(hp, n, k) = [pool |-> hp.pool + n - m, live |-> hp.live - m]
  BY DEF DelMany
<1> HIDE DEF m
<1>3. hp.pool + n - m \in 0..(DeleteNum - 1)
  BY <1>2
<1>4. hp.live = hp.pool + n
  BY <1>1 DEF InUse
<1> QED BY <1>1, <1>2, <1>3, <1>4 DEF HeapType, InUse

LEMMA HeapStep ==
    ASSUME IInv, Next
    PROVE  heap' \in HeapType /\ NodesConserved'
<1> DEFINE Running(r) == IF r # NoEvent THEN 1 ELSE 0
           Goal == heap' \in HeapType /\ InUse(heap') = Len(events') + Running(running')
<1>1. /\ heap \in HeapType /\ events \in Seq(EventRec) /\ Len(events) \in Nat
      /\ InUse(heap) = Len(events) + Running(running)
      /\ Running(running) \in {0, 1} /\ Running(NoEvent) = 0
  BY DEF IInv, TypeOK, NodesConserved, HeapType, InUse, Busy
<1>2. Goal => heap' \in HeapType /\ NodesConserved'
  <2>1. ASSUME heap' \in HeapType
        PROVE  heap'.live \in Nat /\ heap'.pool \in Nat
    BY <2>1, SizeAssumption DEF HeapType
  <2>2. events' \in Seq(EventRec)
    BY StepKinds
  <2>3. Len(events') \in Nat
    BY <2>2
  <2> QED BY <2>1, <2>3 DEF NodesConserved, InUse, Busy
<1>3. \A e \in Pending : e # NoEvent
  BY DEF IInv, IdsInv, NoEvent
<1>4. \A h \in Holders : Holds(h) => Len(events) > 0
  BY <1>1 DEF Holds, HasId, ToSet
<1>5. pc = "callback" <=> running # NoEvent
  BY DEF IInv, LoopInv, Busy
<1> HIDE DEF Running
<1>6. ASSUME NEW h \in Holders
      PROVE  LET d == IF flag[h] = 1 /\ Holds(h) THEN 1 ELSE 0 IN
             /\ d \in {0, 1} /\ DisarmedHeap(h) \in HeapType
             /\ InUse(DisarmedHeap(h)) = InUse(heap) - d
  <2>1. CASE flag[h] = 1 /\ Holds(h)
    <3>1. InUse(heap) > 0
      BY <1>1, <1>4, <2>1
    <3>2. DelEvent(heap) \in HeapType /\ InUse(DelEvent(heap)) = InUse(heap) - 1
      BY <1>1, <3>1, DelEventProperty
    <3> QED BY <2>1, <3>2 DEF DisarmedHeap
  <2>2. CASE ~(flag[h] = 1 /\ Holds(h))
    <3>1. DisarmedHeap(h) = heap
      BY <2>2 DEF DisarmedHeap
    <3>2. InUse(heap) \in Int
      BY <1>1
    <3> QED BY <1>1, <2>2, <3>1, <3>2
  <2> QED BY <2>1, <2>2
<1>7. ASSUME NEW h \in Holders, NEW t \in 0..MaxClock, RearmOnlyAbs(h, t)
      PROVE  Goal
  <2>1. Len(events') = Len(events) - (IF flag[h] = 1 /\ Holds(h) THEN 1 ELSE 0) + 1
    BY <1>7, RearmOnlyAbsEffect DEF ListOf
  <2>2. heap' = Alloc(DisarmedHeap(h)) /\ running' = running
    BY <1>7 DEF RearmOnlyAbs, loopVars
  <2> QED BY <1>1, <1>6, <2>1, <2>2, AllocProperty
<1>8. ASSUME NEW h \in Holders, RearmNext(h)
      PROVE  Goal
  <2>1. Len(events') = Len(events) - (IF flag[h] = 1 /\ Holds(h) THEN 1 ELSE 0) + 1
    BY <1>8, RearmNextEffect DEF ListOf
  <2>2. heap' = Alloc(DisarmedHeap(h)) /\ running' = running
    BY <1>8 DEF RearmNext, loopVars
  <2> QED BY <1>1, <1>6, <2>1, <2>2, AllocProperty
<1>9. ASSUME NEW h \in Holders, NEW t \in 0..MaxClock, RearmOrRunNow(h, t)
      PROVE  Goal
  <2>1. Len(events') = Len(events) - (IF flag[h] = 1 /\ Holds(h) THEN 1 ELSE 0)
    BY <1>9, DisarmEffect DEF ListOf, RearmOrRunNow
  <2>2. heap' = DisarmedHeap(h) /\ running' = running
    BY <1>9 DEF RearmOrRunNow, loopVars
  <2> QED BY <1>1, <1>6, <2>1, <2>2
<1>10. ASSUME NEW h \in Holders, ArmAfterFirst(h)
       PROVE  Goal
  <2>1. Len(events') = Len(events) + 1
    BY <1>10, AfterFirstEffect DEF ListOf
  <2>2. heap' = Alloc(heap) /\ running' = running
    BY <1>10 DEF ArmAfterFirst, loopVars
  <2> QED BY <1>1, <2>1, <2>2, AllocProperty
<1>11. ASSUME NEW h \in Holders, Cancel(h)
       PROVE  Goal
  <2>1. Len(events') = Len(events) - (IF Holds(h) THEN 1 ELSE 0)
    BY <1>11, CancelEffect DEF ListOf, Cancel
  <2>2. running' = running
    BY <1>11 DEF Cancel, loopVars
  <2>3. CASE Holds(h)
    <3>1. heap' = DelEvent(heap)
      BY <1>11, <2>3 DEF Cancel
    <3>2. InUse(heap) > 0
      BY <1>1, <1>4, <2>3
    <3> QED BY <1>1, <2>1, <2>2, <2>3, <3>1, <3>2, DelEventProperty
  <2>4. CASE ~Holds(h)
    <3>1. heap' = heap
      BY <1>11, <2>4 DEF Cancel
    <3> QED BY <1>1, <2>1, <2>2, <2>4, <3>1
  <2> QED BY <2>3, <2>4
<1>12. ASSUME NEW t \in 0..MaxClock, NEW tag \in Tags \cup {0}, AddAnonymous(t, tag)
       PROVE  Goal
  <2>1. Len(events') = Len(events) + 1
    BY <1>12, SizeAssumption, AnonymousEffect DEF ListOf, AddAnonymous
  <2>2. heap' = Alloc(heap) /\ running' = running
    BY <1>12 DEF AddAnonymous, loopVars
  <2> QED BY <1>1, <2>1, <2>2, AllocProperty
<1>13. ASSUME ScheduleFrame
       PROVE  Goal
  <2>1. running.timecode + FrameLen \in Nat
    BY SizeAssumption, EventRecTimes DEF IInv, TypeOK
  <2>2. Len(events') = Len(events) + 1
    BY <1>13, <2>1, TagFacts, AnonymousEffect DEF ListOf, ScheduleFrame
  <2>3. heap' = Alloc(heap) /\ running' = running
    BY <1>13 DEF ScheduleFrame, loopVars
  <2> QED BY <1>1, <2>2, <2>3, AllocProperty
<1>14. ASSUME Reset
       PROVE  Goal
  <2>1. /\ running' = running /\ running = NoEvent /\ Len(events') = 1
        /\ \E k \in 0..Len(events) :
              /\ DelMany(heap, Len(events), k).pool \in 0..(DeleteNum - 1)
              /\ heap' = Alloc(DelMany(heap, Len(events), k))
    BY <1>5, <1>14 DEF Reset, loopVars, Idle
  <2>2. PICK k \in 0..Len(events) :
              /\ DelMany(heap, Len(events), k).pool \in 0..(DeleteNum - 1)
              /\ heap' = Alloc(DelMany(heap, Len(events), k))
    BY <2>1
  <2>3. InUse(heap) = Len(events) /\ k \in Nat
    BY <1>1, <2>1
  <2>4. DelMany(heap, Len(events), k) \in HeapType /\ InUse(DelMany(heap, Len(events), k)) = 0
    BY <1>1, <2>2, <2>3, DelManyProperty
  <2>5. heap' \in HeapType /\ InUse(heap') = 0 + 1
    BY <2>2, <2>4, AllocProperty
  <2> QED BY <1>1, <2>1, <2>5
<1>15. ASSUME FireDue \/ (ExactTop /\ ~(doBreak \/ (call.kind = "cycles" /\ clock >= call.exitAt)))
       PROVE  Goal
  <2>1. running' \in Pending /\ Len(events') = Len(events) - 1 /\ heap' = heap /\ running = NoEvent
    <3>1. CASE FireDue
      BY <1>5, <3>1, FireDueEffect DEF ListOf, FireDue, Dispatch
    <3>2. CASE ExactTop /\ ~(doBreak \/ (call.kind = "cycles" /\ clock >= call.exitAt))
      BY <1>5, <3>2, ExactFireEffect DEF ListOf, ExactTop, Dispatch
    <3> QED BY <1>15, <3>1, <3>2
  <2>2. Running(running') = 1
    BY <1>3, <2>1 DEF Running
  <2> QED BY <1>1, <2>1, <2>2
<1>16. ASSUME ReturnToTag \/ ReturnToCycles \/ ReturnToExact
       PROVE  Goal
  <2>1. running' = NoEvent /\ running # NoEvent /\ heap' = DelEvent(heap) /\ events' = events
    BY <1>5, <1>16 DEF ReturnToTag, ReturnToCycles, ReturnToExact, Leave
  <2>2. Running(running) = 1
    BY <2>1 DEF Running
  <2>3. InUse(heap) > 0
    BY <1>1, <2>2
  <2>4. DelEvent(heap) \in HeapType /\ InUse(DelEvent(heap)) = InUse(heap) - 1
    BY <1>1, <2>3, DelEventProperty
  <2> QED BY <1>1, <2>1, <2>2, <2>4
<1>17. ASSUME heap' = heap, events' = events, Running(running') = Running(running)
       PROVE  Goal
  BY <1>1, <1>17
<1>18. ASSUME \/ LoopTop \/ EnterBlock \/ LeaveBlock \/ Break \/ Resume \/ InlineReturn
              \/ ExactTop /\ (doBreak \/ (call.kind = "cycles" /\ clock >= call.exitAt))
       PROVE  Goal
  <2>1. heap' = heap /\ events' = events /\ (running' = running \/ running' = NoEvent) /\ 
        (running' = NoEvent => running = NoEvent)
    BY <1>5, <1>18 DEF LoopTop, EnterBlock, LeaveBlock, Break, Resume, InlineReturn, ExactTop,
                       Leave, loopVars
  <2> QED BY <1>17, <2>1
<1>19. ASSUME \/ \E n \in 1..MaxStep : AdjustMasterClock(n) \/ RunCycles(n) \/ RunForCycles(n)
              \/ \E tag \in Tags : RunTilTag(tag)
       PROVE  Goal
  <2>1. heap' = heap /\ events' = events /\ running' = running
    BY <1>19 DEF AdjustMasterClock, RunCycles, RunForCycles, RunTilTag
  <2> QED BY <1>17, <2>1
<1> HIDE DEF Goal
<1> QED BY <1>2, <1>7, <1>8, <1>9, <1>10, <1>11, <1>12, <1>13, <1>14, <1>15, <1>16, <1>18, <1>19
        DEF Next, CoreStep, Driver, LoopStep

-----------------------------------------------------------------------------
(***************************************************************************)
(* The order of events.                                                    *)
(***************************************************************************)
\* What the order invariants say of the set of linked events, for the state
\* given by the arguments.
InOrder(set, r, now, where, start) ==
    /\ \A e \in set : e.late => e.timecode <= now
    /\ Exact => \A e \in set : e.timecode >= now
    /\ r # NoEvent => r.timecode <= now
    /\ r # NoEvent /\ Exact /\ r.tag = FrameTag => r.timecode = now
    /\ r # NoEvent /\ ~r.late => \A e \in set : ~e.late => r.timecode <= e.timecode
    /\ where = "block" => \A e \in set : e.late \/ e.timecode > start

LEMMA OrderStep ==
    ASSUME IInv, Next
    PROVE  (OrderInv /\ NoOvertaking /\ NoDueEventWaits)'
<1> DEFINE Goal == /\ FutureSorted(events', clock') /\ OnTimeSorted(events')
                   /\ InOrder(Pending', running', clock', pc', loopStart')
<1>1. Goal => (OrderInv /\ NoOvertaking /\ NoDueEventWaits)'
  BY DEF InOrder, OrderInv, NoOvertaking, NoDueEventWaits, Busy, OnTimeSorted
<1>2. InOrder(Pending, running, clock, pc, loopStart)
  BY DEF InOrder, IInv, OrderInv, NoOvertaking, NoDueEventWaits, Busy
<1>3. /\ clock \in Nat /\ loopStart \in Nat /\ running \in EventRec /\ running.timecode \in Nat
      /\ \A e \in Pending : e \in EventRec /\ e.timecode \in Nat
      /\ events \in Seq(EventRec)
      /\ FutureSorted(events, clock) /\ OnTimeSorted(events)
  <2>1. \A e \in Pending : e \in EventRec
    BY DEF IInv, TypeOK, Pending, ToSet
  <2> QED BY <2>1, EventRecTimes DEF IInv, TypeOK, OrderInv
<1>4. /\ pc = "block" => loopStart <= clock /\ ~Exact
      /\ pc = "inner" => loopStart = clock /\ ~Exact
      /\ pc = "callback" <=> running # NoEvent
  BY SizeAssumption DEF IInv, LoopInv, Busy
<1>5. ASSUME NEW e \in EventRec, e.late = IsDue(e.timecode, clock),
             Exact => e.timecode >= clock,
             Pending' \subseteq Pending \cup {e},
             UNCHANGED <<clock, running, pc, loopStart>>
      PROVE  InOrder(Pending', running', clock', pc', loopStart')
  <2>1. /\ e.timecode \in Nat
        /\ e.late => e.timecode <= clock
        /\ ~e.late => e.timecode > clock
    <3>1. e.timecode \in Nat
      BY EventRecTimes
    <3>2. CASE IsDue(e.timecode, clock)
      <4>1. e.late = TRUE
        BY <1>5, <3>2, Zenon DEF IsDue
      <4>2. e.timecode <= clock
        BY <1>3, <3>1, <3>2 DEF IsDue
      <4> QED BY <3>1, <4>1, <4>2
    <3>3. CASE ~IsDue(e.timecode, clock)
      <4>1. e.late = FALSE
        BY <1>5, <3>3, Zenon DEF IsDue
      <4>2. e.timecode > clock
        BY <1>3, <3>1, <3>3 DEF IsDue
      <4> QED BY <3>1, <4>1, <4>2
    <3> QED BY <3>2, <3>3
  <2> QED BY <1>2, <1>3, <1>4, <1>5, <2>1 DEF InOrder
<1>6. ASSUME NEW h \in Holders, NEW t \in 0..MaxClock, RearmOnlyAbs(h, t)
      PROVE  Goal
  <2> DEFINE e == NewEvent(h, t, 0, IsDue(t, clock))
  <2>1. ListOf(events', Kept(h) \cup {e},
               Len(events) - (IF flag[h] = 1 /\ Holds(h) THEN 1 ELSE 0) + 1, clock')
    BY <1>6, RearmOnlyAbsEffect
  <2>2. e \in EventRec
    <3>1. t \in Nat /\ IsDue(t, clock) \in BOOLEAN /\ h \in AnyHolder
      BY SizeAssumption DEF IsDue, AnyHolder
    <3> QED BY <3>1, NewEventType DEF IInv
  <2>3. e.timecode = t /\ e.late = IsDue(t, clock)
    BY DEF NewEvent
  <2> HIDE DEF e
  <2>4. Pending' \subseteq Pending \cup {e}
    BY <2>1, GivesBack DEF ListOf, Pending, Gives
  <2>5. InOrder(Pending', running', clock', pc', loopStart')
    BY <1>5, <1>6, <2>2, <2>3, <2>4 DEF RearmOnlyAbs, MayAsk, loopVars
  <2> QED BY <2>1, <2>5 DEF ListOf
<1>7. ASSUME NEW h \in Holders, NEW t \in 0..MaxClock, RearmOrRunNow(h, t)
      PROVE  Goal
  <2>1. ListOf(events', Kept(h),
               Len(events) - (IF flag[h] = 1 /\ Holds(h) THEN 1 ELSE 0), clock')
    BY <1>7, DisarmEffect DEF RearmOrRunNow
  <2>2. Pending' \subseteq Pending
    BY <2>1, GivesBack DEF ListOf, Pending, Gives
  <2> QED BY <1>2, <1>7, <2>1, <2>2 DEF ListOf, InOrder, RearmOrRunNow, loopVars
<1>8. ASSUME NEW h \in Holders, RearmNext(h)
      PROVE  Goal
  <2> DEFINE e == NewEvent(h, 0, 0, TRUE)
  <2>1. ListOf(events', Kept(h) \cup {e},
               Len(events) - (IF flag[h] = 1 /\ Holds(h) THEN 1 ELSE 0) + 1, clock')
    BY <1>8, RearmNextEffect
  <2>2. e \in EventRec
    BY NewEventType DEF IInv, AnyHolder
  <2>3. e.timecode = 0 /\ e.late = IsDue(e.timecode, clock)
    BY DEF NewEvent, IsDue
  <2> HIDE DEF e
  <2>4. Pending' \subseteq Pending \cup {e}
    BY <2>1, GivesBack DEF ListOf, Pending, Gives
  <2>5. InOrder(Pending', running', clock', pc', loopStart')
    BY <1>5, <1>8, <2>2, <2>3, <2>4 DEF RearmNext, loopVars
  <2> QED BY <2>1, <2>5 DEF ListOf
<1>9. ASSUME NEW h \in Holders, ArmAfterFirst(h)
      PROVE  Goal
  <2>1. PICK t \in Nat :
              /\ t >= clock' /\ clock' \in Nat /\ clock' >= clock
              /\ \A e \in Pending : e.timecode >= clock'
              /\ Kept(h) = Pending
              /\ ListOf(events', Kept(h) \cup {NewEvent(h, t, 0, FALSE)}, Len(events) + 1, clock')
    BY <1>9, AfterFirstEffect
  <2> DEFINE e == NewEvent(h, t, 0, FALSE)
  <2>2. Pending' = Pending \cup {e}
    BY <2>1 DEF ListOf, Pending
  <2>3. e.timecode = t /\ e.late = FALSE
    BY DEF NewEvent
  <2> HIDE DEF e
  <2>4. running.tag # FrameTag
    BY <1>9, HolderAssumption DEF ArmAfterFirst, IInv, FrameInv
  <2>5. pc = "callback" /\ UNCHANGED <<running, pc, loopStart>>
    BY <1>9 DEF ArmAfterFirst, loopVars
  <2>6. InOrder(Pending', running', clock', pc', loopStart')
    BY <1>2, <1>3, <2>1, <2>2, <2>3, <2>4, <2>5 DEF InOrder
  <2> QED BY <2>1, <2>6 DEF ListOf
<1>10. ASSUME NEW h \in Holders, Cancel(h)
       PROVE  Goal
  <2>1. ListOf(events', Spared(h), Len(events) - (IF Holds(h) THEN 1 ELSE 0), clock')
    BY <1>10, CancelEffect DEF Cancel
  <2>2. Pending' \subseteq Pending
    BY <2>1, GivesBack DEF ListOf, Pending, Gives
  <2> QED BY <1>2, <1>10, <2>1, <2>2 DEF ListOf, InOrder, Cancel, loopVars
<1>11. ASSUME NEW t \in 0..MaxClock, NEW tag \in Tags \cup {0}, AddAnonymous(t, tag)
       PROVE  Goal
  <2> DEFINE e == NewEvent(NoHolder, t, tag, IsDue(t, clock))
  <2>1. ListOf(events', Pending \cup {e}, Len(events) + 1, clock')
    BY <1>11, SizeAssumption, AnonymousEffect DEF AddAnonymous
  <2>2. e \in EventRec
    <3>1. t \in Nat /\ IsDue(t, clock) \in BOOLEAN /\ NoHolder \in AnyHolder
      BY SizeAssumption DEF IsDue, AnyHolder
    <3> QED BY <3>1, NewEventType DEF IInv
  <2>3. e.timecode = t /\ e.late = IsDue(t, clock)
    BY DEF NewEvent
  <2> HIDE DEF e
  <2>4. Pending' \subseteq Pending \cup {e}
    BY <2>1 DEF ListOf, Pending
  <2>5. InOrder(Pending', running', clock', pc', loopStart')
    BY <1>5, <1>11, <2>2, <2>3, <2>4 DEF AddAnonymous, MayAsk, loopVars
  <2> QED BY <2>1, <2>5 DEF ListOf
<1>12. ASSUME ScheduleFrame
       PROVE  Goal
  <2> DEFINE t == running.timecode + FrameLen
             e == NewEvent(NoHolder, t, FrameTag, IsDue(t, clock))
  <2>1. t \in Nat
    BY <1>3, SizeAssumption
  <2>2. events' = AddAbs(events, e, clock) /\ clock' = clock
    BY <1>12 DEF ScheduleFrame
  <2>3. ListOf(events', Pending \cup {e}, Len(events) + 1, clock')
    <3> HIDE DEF t
    <3> QED BY <2>1, <2>2, TagFacts, AnonymousEffect
  <2>4. e \in EventRec
    <3> HIDE DEF t
    <3> QED BY <2>1, TagFacts, NewEventType DEF IInv, IsDue, AnyHolder
  <2>5. e.timecode = t /\ e.late = IsDue(t, clock)
    BY DEF NewEvent
  <2>6. Exact => t >= clock
    BY <1>2, <1>3, <1>4, <1>12, SizeAssumption DEF InOrder, ScheduleFrame
  <2> HIDE DEF e, t
  <2>7. Pending' \subseteq Pending \cup {e}
    BY <2>3 DEF ListOf, Pending
  <2>8. InOrder(Pending', running', clock', pc', loopStart')
    BY <1>5, <1>12, <2>4, <2>5, <2>6, <2>7 DEF ScheduleFrame, loopVars
  <2> QED BY <2>3, <2>8 DEF ListOf
<1>13. ASSUME Reset
       PROVE  Goal
  <2> DEFINE e == NewEvent(NoHolder, FrameLen, FrameTag, FALSE)
  <2>1. e.timecode = FrameLen /\ e.late = FALSE
    BY DEF NewEvent
  <2>2. events' = <<e>> /\ clock' = 0 /\ pc = "idle" /\ UNCHANGED <<pc, running, loopStart>>
    BY <1>13 DEF Reset, loopVars, Idle
  <2> HIDE DEF e
  <2>3. Pending' = {e} /\ FutureSorted(events', clock') /\ OnTimeSorted(events')
    BY <2>2 DEF Pending, ToSet, FutureSorted, OnTimeSorted
  <2> QED BY <1>4, <2>1, <2>2, <2>3, SizeAssumption DEF InOrder
<1>14. ASSUME FireDue
       PROVE  Goal
  <2>1. /\ running' \in Pending /\ running' = events[1] /\ events # <<>>
        /\ ListOf(events', {e \in Pending : e.id # running'.id}, Len(events) - 1, clock')
        /\ clock' = clock /\ running'.timecode <= clock
    BY <1>14, FireDueEffect, FirstExists DEF FireDue
  <2>2. Pending' \subseteq Pending /\ ~Exact /\ pc' = "callback"
    BY <1>4, <1>14, <2>1 DEF ListOf, Pending, FireDue, Dispatch
  <2>3. ~running'.late => \A e \in Pending' : ~e.late => running'.timecode <= e.timecode
    BY <2>1, <2>2, FirstIsFirst
  <2> QED BY <1>2, <2>1, <2>2, <2>3 DEF ListOf, InOrder
<1>15. ASSUME ExactTop
       PROVE  Goal
  <2>1. CASE doBreak \/ (call.kind = "cycles" /\ clock >= call.exitAt)
    BY <1>2, <1>3, <1>15, <2>1 DEF ExactTop, Leave, InOrder, Pending, holderVars
  <2>2. CASE ~(doBreak \/ (call.kind = "cycles" /\ clock >= call.exitAt))
    <3>1. /\ running' \in Pending /\ running' = events[1] /\ events # <<>>
          /\ ListOf(events', {e \in Pending : e.id # running'.id}, Len(events) - 1, clock')
          /\ clock' >= clock /\ running'.timecode = clock' /\ clock' \in Nat
      BY <1>15, <2>2, ExactFireEffect, FirstExists DEF ExactTop
    <3>2. Pending' \subseteq Pending /\ Exact /\ pc' = "callback"
      BY <1>15, <2>2, <3>1 DEF ListOf, Pending, ExactTop, Dispatch
    <3>3. ~running'.late => \A e \in Pending' : ~e.late => running'.timecode <= e.timecode
      BY <3>1, <3>2, FirstIsFirst
    <3>4. \A e \in Pending' : e.timecode >= clock'
      <4> SUFFICES ASSUME NEW e \in Pending
                   PROVE  e.timecode >= clock'
        BY <3>2
      <4>1. CASE clock' > clock
        BY <1>3, <3>1, <4>1, FirstIsFirst
      <4>2. CASE ~(clock' > clock)
        BY <1>2, <1>3, <3>1, <3>2, <4>2 DEF InOrder
      <4> QED BY <4>1, <4>2
    <3>5. \A e \in Pending' : e.late => e.timecode <= clock'
      BY <1>2, <1>3, <3>1, <3>2 DEF InOrder
    <3> QED BY <3>1, <3>2, <3>3, <3>4, <3>5 DEF ListOf, InOrder
  <2> QED BY <2>1, <2>2
<1>16. ASSUME EnterBlock
       PROVE  Goal
  <2>1. /\ events # <<>> /\ events[1] \in Pending /\ Head(events) = events[1]
        /\ loopStart < events[1].timecode /\ loopStart = clock
    BY <1>3, <1>4, <1>16, FirstExists DEF EnterBlock
  <2>2. ~events[1].late
    BY <1>2, <1>3, <2>1 DEF InOrder
  <2>3. \A e \in Pending : e.late \/ e.timecode > loopStart
    BY <1>3, <2>1, <2>2, FirstIsFirst
  <2> QED BY <1>2, <1>3, <1>16, <2>3 DEF EnterBlock, Leave, InOrder, Pending
<1>17. ASSUME NEW n \in 1..MaxStep, AdjustMasterClock(n) \/ RunCycles(n)
       PROVE  Goal
  <2>1. /\ clock' = clock + n /\ n \in Nat /\ ~Exact
        /\ UNCHANGED <<events, running, pc, loopStart>>
    BY <1>4, <1>17, SizeAssumption DEF AdjustMasterClock, RunCycles
  <2>2. clock' \in Nat /\ clock <= clock'
    BY <1>3, <2>1
  <2>3. FutureSorted(events', clock')
    BY <1>3, <2>1, <2>2, FutureSortedLater
  <2> QED BY <1>2, <1>3, <2>1, <2>2, <2>3 DEF InOrder, Pending
<1>18. ASSUME \/ LoopTop \/ LeaveBlock \/ ReturnToTag \/ ReturnToCycles \/ ReturnToExact
              \/ \E n \in 1..MaxStep : RunForCycles(n)
              \/ \E tag \in Tags : RunTilTag(tag)
       PROVE  Goal
  <2>1. UNCHANGED <<events, clock>> /\ pc' # "block" /\ (running' = running \/ running' = NoEvent)
    BY <1>18 DEF LoopTop, LeaveBlock, ReturnToTag, ReturnToCycles, ReturnToExact, Leave,
                 RunForCycles, RunTilTag
  <2> QED BY <1>2, <1>3, <2>1 DEF InOrder, Pending
<1>19. ASSUME Break \/ Resume \/ InlineReturn
       PROVE  Goal
  <2>1. UNCHANGED <<events, clock, pc, running, loopStart>>
    BY <1>19 DEF Break, Resume, InlineReturn, loopVars
  <2> QED BY <1>2, <1>3, <2>1 DEF InOrder, Pending
<1> HIDE DEF Goal
<1> QED BY <1>1, <1>6, <1>7, <1>8, <1>9, <1>10, <1>11, <1>12, <1>13, <1>14, <1>15, <1>16,
           <1>17, <1>18, <1>19
        DEF Next, CoreStep, Driver, LoopStep


-----------------------------------------------------------------------------
(***************************************************************************)
(* Types.                                                                  *)
(***************************************************************************)
LEMMA TypeStep ==
    ASSUME IInv, Next
    PROVE  TypeOK'
<1> DEFINE Holding == /\ flag' \in [Holders -> {0, 1}] /\ heldId' \in [Holders -> Nat]
                      /\ idCounter' \in Nat /\ dropped' \in SUBSET Holders
                      /\ running' \in EventRec /\ inline' \in Seq(Holders)
           Looping == /\ pc' \in {"idle", "outer", "inner", "callback", "block"}
                      /\ call' \in [kind : {"cycles", "tag"}, tag : Tags \cup {0}, exitAt : Nat]
                      /\ loopStart' \in Nat /\ cyclesLeft' \in Int /\ owed' \in Int
                      /\ doBreak' \in BOOLEAN /\ clock' \in Nat
<1>1. /\ clock \in Nat /\ idCounter \in Nat /\ doBreak \in BOOLEAN
      /\ flag \in [Holders -> {0, 1}] /\ heldId \in [Holders -> Nat]
      /\ pc \in {"idle", "outer", "inner", "callback", "block"}
      /\ call \in [kind : {"cycles", "tag"}, tag : Tags \cup {0}, exitAt : Nat]
      /\ running \in EventRec /\ loopStart \in Nat /\ cyclesLeft \in Int /\ owed \in Int
      /\ dropped \in SUBSET Holders /\ inline \in Seq(Holders)
      /\ \A e \in Pending : e \in EventRec /\ e.timecode \in Nat
  <2>1. \A e \in Pending : e \in EventRec
    BY DEF IInv, TypeOK, Pending, ToSet
  <2> QED BY <2>1, EventRecTimes DEF IInv, TypeOK
<1>2. events' \in Seq(EventRec) /\ heap' \in [pool : 0..(DeleteNum - 1), live : Nat]
  BY StepKinds, HeapStep DEF HeapType
<1>3. NoEvent \in EventRec
  BY DEF NoEvent, EventRec, AnyHolder
<1>4. Holding
  <2>1. ASSUME NEW h \in Holders, NEW e \in EventRec, ArmKind(h, e)
        PROVE  Holding
    BY <1>1, <2>1 DEF ArmKind, Bind
  <2>2. ASSUME NEW h \in Holders, UnarmKind(h)
        PROVE  Holding
    <3>1. <<h>> \o inline \in Seq(Holders)
      BY <1>1, InlinePush
    <3>2. inline' \in Seq(Holders)
      BY <1>1, <2>2, <3>1 DEF UnarmKind
    <3> QED BY <1>1, <2>2, <3>2 DEF UnarmKind
  <2>3. ASSUME NEW e \in EventRec, AnnounceKind(e) \/ RestartKind(e)
        PROVE  Holding
    BY <1>1, <2>3 DEF AnnounceKind, RestartKind
  <2>4. ASSUME FireKind
        PROVE  Holding
    BY <1>1, <2>4 DEF FireKind
  <2>5. ASSUME QuietKind
        PROVE  Holding
    BY <1>1, <1>3, <2>5 DEF QuietKind
  <2>6. ASSUME NEW h \in Holders, ReturnKind(h)
        PROVE  Holding
    BY <1>1, <2>6 DEF ReturnKind
  <2> QED BY <2>1, <2>2, <2>3, <2>4, <2>5, <2>6, StepKinds DEF AnyKind
<1>5. Looping
  <2>1. ASSUME \/ \E h \in Holders : \/ \E t \in 0..MaxClock : RearmOnlyAbs(h, t) \/ RearmOrRunNow(h, t)
                                     \/ RearmNext(h) \/ Cancel(h)
               \/ \E t \in 0..MaxClock, tag \in Tags \cup {0} : AddAnonymous(t, tag)
               \/ ScheduleFrame \/ InlineReturn \/ Break \/ Resume \/ Reset
        PROVE  Looping
    <3>1. UNCHANGED <<pc, call, loopStart, cyclesLeft, owed>> /\ (clock' = clock \/ clock' = 0)
          /\ (doBreak' = doBreak \/ doBreak' \in BOOLEAN)
      BY <2>1 DEF RearmOnlyAbs, RearmOrRunNow, RearmNext, Cancel, AddAnonymous, ScheduleFrame,
                  InlineReturn, Break, Resume, Reset, loopVars
    <3> QED BY <1>1, <3>1
  <2>2. ASSUME NEW h \in Holders, ArmAfterFirst(h)
        PROVE  Looping
    <3>1. clock' \in Nat
      BY <2>2, AfterFirstEffect
    <3> QED BY <1>1, <2>2, <3>1 DEF ArmAfterFirst, loopVars
  <2>3. ASSUME NEW n \in 1..MaxStep, AdjustMasterClock(n) \/ RunCycles(n) \/ RunForCycles(n)
        PROVE  Looping
    BY <1>1, <2>3, SizeAssumption DEF AdjustMasterClock, RunCycles, RunForCycles
  <2>4. ASSUME NEW tag \in Tags, RunTilTag(tag)
        PROVE  Looping
    BY <1>1, <2>4 DEF RunTilTag
  <2>5. ASSUME LoopTop \/ EnterBlock \/ LeaveBlock
        PROVE  Looping
    BY <1>1, <2>5 DEF LoopTop, EnterBlock, LeaveBlock, Leave
  <2>6. ASSUME ReturnToTag \/ ReturnToCycles \/ ReturnToExact
        PROVE  Looping
    BY <1>1, <2>6 DEF ReturnToTag, ReturnToCycles, ReturnToExact, Leave
  <2>7. ASSUME FireDue
        PROVE  Looping
    BY <1>1, <2>7 DEF FireDue, Dispatch
  <2>8. ASSUME ExactTop
        PROVE  Looping
    <3>1. CASE doBreak \/ (call.kind = "cycles" /\ clock >= call.exitAt)
      BY <1>1, <2>8, <3>1 DEF ExactTop, Leave
    <3>2. CASE ~(doBreak \/ (call.kind = "cycles" /\ clock >= call.exitAt))
      <4>1. clock' \in Nat
        BY <2>8, <3>2, ExactFireEffect DEF ExactTop
      <4> QED BY <1>1, <2>8, <3>2, <4>1 DEF ExactTop, Dispatch
    <3> QED BY <3>1, <3>2
  <2> QED BY <2>1, <2>2, <2>3, <2>4, <2>5, <2>6, <2>7, <2>8
          DEF Next, CoreStep, Driver, LoopStep
<1> QED BY <1>2, <1>4, <1>5 DEF TypeOK

-----------------------------------------------------------------------------
(***************************************************************************)
(* The theorems.                                                           *)
(***************************************************************************)
LEMMA InitInv == Init => IInv
<1> SUFFICES ASSUME Init
             PROVE  IInv
  OBVIOUS
<1> DEFINE e == [id |-> FirstId, timecode |-> FrameLen, holder |-> NoHolder,
                 tag |-> FrameTag, late |-> FALSE]
<1>1. e \in EventRec /\ NoEvent \in EventRec
  BY SizeAssumption, TagFacts DEF EventRec, AnyHolder, FirstId, NoEvent
<1>2. e.id = 100 /\ e.timecode = FrameLen /\ e.holder = NoHolder /\ e.tag = FrameTag /\ e.late = FALSE
  BY DEF FirstId
<1>3. events = <<e>>
  BY DEF Init
<1> HIDE DEF e
<1>4. Pending = {e} /\ Len(events) = 1
  BY <1>3 DEF Pending, ToSet
<1>5. TypeOK
  <2>1. events \in Seq(EventRec)
    BY <1>1, <1>3
  <2>2. heap \in [pool : 0..(DeleteNum - 1), live : Nat]
    BY SizeAssumption DEF Init
  <2>3. call \in [kind : {"cycles", "tag"}, tag : Tags \cup {0}, exitAt : Nat]
    BY TagFacts DEF Init
  <2>4. flag \in [Holders -> {0, 1}] /\ heldId \in [Holders -> Nat] /\ running \in EventRec
        /\ inline \in Seq(Holders)
    BY <1>1 DEF Init
  <2>5. /\ clock \in Nat /\ idCounter \in Nat /\ loopStart \in Nat
        /\ cyclesLeft \in Int /\ owed \in Int
    BY DEF Init, FirstId
  <2>6. /\ pc \in {"idle", "outer", "inner", "callback", "block"}
        /\ doBreak \in BOOLEAN /\ dropped \in SUBSET Holders
    BY Zenon DEF Init
  <2> QED BY <2>1, <2>2, <2>3, <2>4, <2>5, <2>6 DEF TypeOK
<1>6. IdsInv
  BY <1>2, <1>3, <1>4, HolderAssumption DEF Init, IdsInv, UniqueIds, FirstId, NoEvent
<1>7. HolderCanCancel /\ InlineInv /\ StillMeansPending /\ NodesConserved
  BY <1>2, <1>4, HolderAssumption
     DEF Init, HolderCanCancel, InlineInv, StillMeansPending, NodesConserved, Busy, ToSet
<1>8. LoopInv /\ BudgetExact
  BY SizeAssumption DEF Init, LoopInv, BudgetExact, Busy
<1>9. OrderInv /\ NoOvertaking /\ NoDueEventWaits
  BY <1>2, <1>3, <1>4, SizeAssumption
     DEF Init, OrderInv, NoOvertaking, NoDueEventWaits, FutureSorted, OnTimeSorted, Busy
<1>10. FrameInv
  <2>1. FrameLen % FrameLen = 0
    BY SizeAssumption, GridStep
  <2>2. running.tag # FrameTag
    BY TagFacts DEF Init, NoEvent
  <2> QED BY <1>2, <1>4, <2>1, <2>2 DEF FrameInv, FrameOnGrid
<1> QED BY <1>5, <1>6, <1>7, <1>8, <1>9, <1>10 DEF IInv

LEMMA StutterInv == IInv /\ UNCHANGED vars => IInv'
<1> SUFFICES ASSUME IInv, UNCHANGED vars
             PROVE  IInv'
  OBVIOUS
<1> USE DEF vars, IInv, Pending, Busy
<1>1. TypeOK'
  BY DEF TypeOK
<1>2. IdsInv' /\ HolderCanCancel' /\ InlineInv' /\ StillMeansPending'
  BY DEF IdsInv, HolderCanCancel, InlineInv, StillMeansPending
<1>3. NodesConserved' /\ LoopInv' /\ BudgetExact'
  BY DEF NodesConserved, LoopInv, BudgetExact
<1>4. OrderInv' /\ NoOvertaking' /\ NoDueEventWaits'
  BY DEF OrderInv, NoOvertaking, NoDueEventWaits
<1>5. FrameInv'
  BY DEF FrameInv, FrameOnGrid
<1> QED BY <1>1, <1>2, <1>3, <1>4, <1>5

LEMMA StepInv == IInv /\ [Next]_vars => IInv'
<1>1. IInv /\ Next => IInv'
  BY TypeStep, IdsStep, HeapStep, ControlStep, OrderStep, FrameStep DEF IInv
<1> QED BY <1>1, StutterInv

(* The inductive invariant holds in every state of every behaviour.        *)
THEOREM Invariance == Spec => []IInv
BY InitInv, StepInv, PTL DEF Spec

(* Every field of scheduler_t keeps its type: in particular to_delete      *)
(* never overflows and no more events are freed than were malloc'ed.       *)
THEOREM TypeCorrect == Spec => []TypeOK
<1>1. IInv => TypeOK
  BY DEF IInv
<1> QED BY <1>1, Invariance, PTL

(* A holder can always cancel what it armed, and owns at most one event,   *)
(* whatever the other devices do, those included that arm their own pair   *)
(* while add_or_run_abs runs their callback, of whom it is not claimed.    *)
THEOREM CancelSafe == Spec => []HolderCanCancel
<1>1. IInv => HolderCanCancel
  BY DEF IInv
<1> QED BY <1>1, Invariance, PTL

(* still_sched says what it means, except after clear().                   *)
THEOREM StillCorrect == Spec => []StillMeansPending
<1>1. IInv => StillMeansPending
  BY DEF IInv
<1> QED BY <1>1, Invariance, PTL

(* No scheduler_event is leaked, pooled twice or freed while in use.       *)
THEOREM NoLeak == Spec => []NodesConserved
<1>1. IInv => NodesConserved
  BY DEF IInv
<1> QED BY <1>1, Invariance, PTL

(* run_for_cycles charges every cycle once, for any callback durations.    *)
THEOREM BudgetCorrect == Spec => []BudgetExact
<1>1. IInv => BudgetExact
  BY DEF IInv
<1> QED BY <1>1, Invariance, PTL

(* The budget between two calls, and where it never grows.                 *)
SpentInv == pc = "idle" \/ call.kind = "tag" \/ Exact => cyclesLeft <= 0

LEMMA SpentStep ==
    ASSUME IInv, SpentInv, [Next]_vars
    PROVE  SpentInv'
<1>1. clock \in Nat /\ loopStart \in Nat /\ cyclesLeft \in Int /\ Exact \in BOOLEAN
      /\ call.kind \in {"cycles", "tag"}
  BY SizeAssumption DEF IInv, TypeOK
<1> USE DEF SpentInv
<1>2. ASSUME UNCHANGED <<cyclesLeft, call>>, pc' = pc \/ pc' # "idle" \/ call.kind = "tag" \/ Exact
      PROVE  SpentInv'
  BY <1>2
<1>3. CASE CoreStep
  <2>1. UNCHANGED <<cyclesLeft, call, pc>>
    BY <1>3 DEF CoreStep, RearmOnlyAbs, RearmOrRunNow, RearmNext, ArmAfterFirst, Cancel,
       InlineReturn, AddAnonymous, ScheduleFrame, AdjustMasterClock, RunCycles, Break, loopVars
  <2> QED BY <1>2, <2>1
<1>4. CASE Resume \/ Reset
  <2>1. UNCHANGED <<cyclesLeft, call, pc>>
    BY <1>4 DEF Resume, Reset, loopVars, Idle
  <2> QED BY <1>2, <2>1
<1>5. ASSUME NEW n \in 1..MaxStep, RunForCycles(n)
      PROVE  SpentInv'
  BY <1>1, <1>5 DEF RunForCycles
<1>6. ASSUME NEW tag \in Tags, RunTilTag(tag)
      PROVE  SpentInv'
  BY <1>1, <1>6 DEF RunTilTag, Idle
<1>7. CASE LoopTop
  BY <1>1, <1>7 DEF LoopTop, Leave
<1>8. CASE FireDue
  BY <1>2, <1>8 DEF FireDue, Dispatch
<1>9. CASE EnterBlock
  BY <1>1, <1>9 DEF EnterBlock, Leave
<1>10. CASE LeaveBlock
  <2>1. /\ pc' = "outer" /\ call' = call /\ ~Exact
        /\ call.kind # "cycles" => cyclesLeft' = cyclesLeft
    BY <1>10 DEF LeaveBlock, IInv, LoopInv
  <2> QED BY <1>1, <2>1
<1>11. CASE ReturnToTag
  BY <1>2, <1>11 DEF ReturnToTag
<1>12. CASE ReturnToCycles
  <2>1. events # <<>> /\ call.kind = "cycles" /\ ~Exact
    BY <1>12, NotDrained DEF ReturnToCycles
  <2> QED BY <1>1, <1>12, <2>1 DEF ReturnToCycles, Leave
<1>13. CASE ExactTop
  <2>1. CASE doBreak \/ (call.kind = "cycles" /\ clock >= call.exitAt)
    BY <1>1, <1>13, <2>1 DEF ExactTop, Leave
  <2>2. CASE ~(doBreak \/ (call.kind = "cycles" /\ clock >= call.exitAt))
    BY <1>2, <1>13, <2>2 DEF ExactTop, Dispatch
  <2> QED BY <2>1, <2>2
<1>14. CASE ReturnToExact
  BY <1>2, <1>14 DEF ReturnToExact
<1>15. CASE UNCHANGED vars
  BY <1>2, <1>15 DEF vars
<1> QED BY <1>3, <1>4, <1>5, <1>6, <1>7, <1>8, <1>9, <1>10, <1>11, <1>12, <1>13, <1>14, <1>15
        DEF Next, Driver, LoopStep

(* No call of run_for_cycles stops short of what it was granted, whatever  *)
(* its callbacks take and however far run.func overshoots: there is always *)
(* an event to come (FrameOnGrid), so the loops never run out of list.     *)
THEOREM NothingUnspent == Spec => []BudgetSpent
<1>1. Init => SpentInv
  BY DEF Init, SpentInv
<1>2. SpentInv => BudgetSpent
  BY DEF SpentInv, BudgetSpent
<1>3. IInv /\ SpentInv /\ [Next]_vars => SpentInv'
  BY SpentStep
<1> QED BY <1>1, <1>2, <1>3, Invariance, PTL DEF Spec

(* Frames stay on the grid, for any frame length and any jitter.           *)
THEOREM FramesOnGrid == Spec => []FrameOnGrid
<1>1. IInv => FrameOnGrid
  BY DEF IInv, FrameInv
<1> QED BY <1>1, Invariance, PTL

(* Events asked for in time run in the order of their times.               *)
THEOREM OrderCorrect == Spec => []NoOvertaking
<1>1. IInv => NoOvertaking
  BY DEF IInv
<1> QED BY <1>1, Invariance, PTL

(* The CPU never runs while an event that was asked for in time is due.    *)
THEOREM NothingDueWaits == Spec => []NoDueEventWaits
<1>1. IInv => NoDueEventWaits
  BY DEF IInv
<1> QED BY <1>1, Invariance, PTL


-----------------------------------------------------------------------------
(***************************************************************************)
(* The clock, and what the scheduler promises its callers.                 *)
(***************************************************************************)
LEMMA ClockStep ==
    IInv /\ [Next]_vars => (clock' >= clock \/ (pc = "idle" /\ clock' = 0))
<1> SUFFICES ASSUME IInv, [Next]_vars
             PROVE  clock' >= clock \/ (pc = "idle" /\ clock' = 0)
  OBVIOUS
<1>1. clock \in Nat /\ \A e \in Pending : e.timecode \in Nat
  <2>1. \A e \in Pending : e \in EventRec
    BY DEF IInv, TypeOK, Pending, ToSet
  <2> QED BY <2>1, EventRecTimes DEF IInv, TypeOK
<1>2. CASE UNCHANGED vars
  BY <1>1, <1>2 DEF vars
<1>3. CASE Next
  <2>1. ASSUME NEW h \in Holders, ArmAfterFirst(h)
        PROVE  clock' >= clock
    BY <2>1, AfterFirstEffect
  <2>2. ASSUME \/ \E h \in Holders : \/ \E t \in 0..MaxClock : RearmOnlyAbs(h, t) \/ RearmOrRunNow(h, t)
                                     \/ RearmNext(h) \/ Cancel(h)
               \/ \E t \in 0..MaxClock, tag \in Tags \cup {0} : AddAnonymous(t, tag)
               \/ ScheduleFrame \/ InlineReturn \/ Break \/ Resume
               \/ \E n \in 1..MaxStep : RunForCycles(n)
               \/ \E tag \in Tags : RunTilTag(tag)
               \/ LoopTop \/ EnterBlock \/ LeaveBlock \/ ReturnToTag \/ ReturnToCycles
               \/ ReturnToExact
        PROVE  clock' >= clock
    <3>1. clock' = clock
      BY <2>2 DEF RearmOnlyAbs, RearmOrRunNow, RearmNext, Cancel, AddAnonymous, ScheduleFrame,
                  InlineReturn, Break, Resume, RunForCycles, RunTilTag, LoopTop, EnterBlock, LeaveBlock,
                  ReturnToTag, ReturnToCycles, ReturnToExact
    <3> QED BY <1>1, <3>1
  <2>3. ASSUME NEW n \in 1..MaxStep, AdjustMasterClock(n) \/ RunCycles(n)
        PROVE  clock' >= clock
    BY <1>1, <2>3, SizeAssumption DEF AdjustMasterClock, RunCycles
  <2>4. ASSUME Reset
        PROVE  pc = "idle" /\ clock' = 0
    BY <2>4 DEF Reset, Idle
  <2>5. ASSUME FireDue
        PROVE  clock' >= clock
    BY <1>1, <2>5, FireDueEffect
  <2>6. ASSUME ExactTop
        PROVE  clock' >= clock
    BY <1>1, <2>6, ExactFireEffect DEF ExactTop
  <2> QED BY <1>3, <2>1, <2>2, <2>3, <2>4, <2>5, <2>6 DEF Next, CoreStep, Driver, LoopStep
<1> QED BY <1>2, <1>3

(* Emulated time never runs backwards, whichever run loop the core uses.   *)
THEOREM ClockMonotonic == Spec => ClockForward
BY Invariance, ClockStep, PTL DEF Spec, ClockForward

LEMMA PromiseInit == Init => Promise!Init
<1> SUFFICES ASSUME Init
             PROVE  Promise!Init
  OBVIOUS
<1> DEFINE e == [id |-> FirstId, timecode |-> FrameLen, holder |-> NoHolder,
                 tag |-> FrameTag, late |-> FALSE]
<1>1. e.holder = NoHolder
  OBVIOUS
<1>2. events = <<e>>
  BY DEF Init
<1> HIDE DEF e
<1>3. Pending = {e}
  BY <1>2 DEF Pending, ToSet
<1> QED BY <1>1, <1>3 DEF Init, Promise!Init

\* What a holder gives back is what Agenda lets it give back.
LEMMA WithoutIs ==
    ASSUME NEW h \in Holders, NEW set, Gives(h, set)
    PROVE  set \in Promise!Without(h)
<1>1. /\ Others(h) \subseteq set /\ set \subseteq Pending
      /\ \A x, y \in Pending \ set : x = y
      /\ h \notin SelfArming => set = Others(h)
  BY DEF Gives
<1>2. Others(h) = Pending \ Promise!Of(h)
  BY DEF Others, Promise!Of
<1>3. CASE h \notin SelfArming
  BY <1>1, <1>2, <1>3 DEF Promise!Without
<1>4. CASE h \in SelfArming /\ set = Pending
  BY <1>4 DEF Promise!Without
<1>5. CASE h \in SelfArming /\ set # Pending
  <2>1. PICK e \in Pending : e \notin set
    BY <1>1, <1>5
  <2>2. e \in Promise!Of(h) /\ set = Pending \ {e}
    BY <1>1, <1>2, <2>1
  <2> QED BY <1>5, <2>2 DEF Promise!Without
<1> QED BY <1>3, <1>4, <1>5

LEMMA PromiseStep == IInv /\ [Next]_vars => [Promise!Next]_(Promise!agendaVars)
<1> SUFFICES ASSUME IInv, [Next]_vars
             PROVE  Promise!Next \/ UNCHANGED <<Pending, running, clock>>
  BY DEF Promise!agendaVars
<1>1. /\ clock \in Nat /\ running.id < idCounter
      /\ \A e \in Pending : e \in EventRec /\ e.timecode \in Nat /\ e.id < idCounter
      /\ pc = "callback" <=> running # NoEvent
  <2>1. \A e \in Pending : e \in EventRec
    BY DEF IInv, TypeOK, Pending, ToSet
  <2> QED BY <2>1, EventRecTimes DEF IInv, TypeOK, IdsInv, LoopInv, Busy
<1>2. CASE UNCHANGED vars
  BY <1>2 DEF vars, Pending
<1>3. CASE Next
  <2>1. ASSUME NEW h \in Holders, NEW e \in EventRec, ArmKind(h, e)
        PROVE  Promise!Arm(h)
    <3>1. Kept(h) \in Promise!Without(h)
      BY GivesBack, WithoutIs
    <3>2. e \in Pending' /\ e.holder = h /\ Pending' = Kept(h) \cup {e}
      BY <2>1 DEF ArmKind
    <3>3. Promise!Younger(e)
      BY <1>1, <2>1 DEF ArmKind, Promise!Younger
    <3> QED BY <2>1, <3>1, <3>2, <3>3 DEF ArmKind, Promise!Arm
  <2>2. ASSUME NEW h \in Holders, UnarmKind(h)
        PROVE  Promise!Cancel(h) \/ UNCHANGED <<Pending, running, clock>>
    <3>1. CASE Pending' = Pending
      BY <2>2, <3>1 DEF UnarmKind
    <3>2. CASE Pending' \in {Kept(h), Spared(h)}
      <4>1. Pending' \in Promise!Without(h)
        BY <3>2, GivesBack, WithoutIs
      <4> QED BY <2>2, <4>1 DEF UnarmKind, Promise!Cancel
    <3> QED BY <2>2, <3>1, <3>2 DEF UnarmKind
  <2>3. ASSUME NEW e \in EventRec, AnnounceKind(e)
        PROVE  Promise!Announce
    <3>1. Promise!Younger(e)
      BY <1>1, <2>3 DEF AnnounceKind, Promise!Younger
    <3>2. e \in Pending' /\ e.holder = NoHolder /\ Pending' = Pending \cup {e}
      BY <2>3 DEF AnnounceKind
    <3> QED BY <2>3, <3>1, <3>2 DEF AnnounceKind, Promise!Announce
  <2>4. ASSUME NEW e \in EventRec, RestartKind(e)
        PROVE  Promise!Restart
    <3>1. Promise!Younger(e)
      BY <1>1, <2>4 DEF RestartKind, Promise!Younger
    <3>2. e \in Pending' /\ e.holder = NoHolder /\ Pending' = {e}
      BY <2>4 DEF RestartKind
    <3> QED BY <1>1, <2>4, <3>1, <3>2 DEF RestartKind, Promise!Restart
  <2>5. ASSUME FireKind
        PROVE  \E e \in Pending : Promise!Fire(e)
    <3>1. Pending' = Pending \ {running'}
      <4>1. \A x, y \in Pending : x.id = y.id => x = y
        <5>1. UniqueIds(events) /\ events \in Seq(EventRec)
          BY DEF IInv, IdsInv, TypeOK
        <5> QED BY <5>1 DEF UniqueIds, Pending, ToSet
      <4> QED BY <2>5, <4>1 DEF FireKind
    <3>2. running'.late \/ Promise!Ahead(running') = {}
      BY <1>1, <2>5 DEF FireKind, Promise!Ahead
    <3> QED BY <1>1, <2>5, <3>1, <3>2 DEF FireKind, Promise!Fire
  <2>6. ASSUME QuietKind
        PROVE  Promise!Finish \/ Promise!Tick \/ UNCHANGED <<Pending, running, clock>>
    <3>1. Pending' = Pending
      BY <2>6 DEF QuietKind, Pending
    <3>2. clock' = clock \/ clock' > clock
      <4>1. CASE clock' \in Nat
        BY <1>1, <2>6, <4>1 DEF QuietKind
      <4>2. clock' \in Nat
        BY <1>3, TypeStep DEF TypeOK
      <4> QED BY <4>1, <4>2
    <3> QED BY <2>6, <3>1, <3>2 DEF QuietKind, Promise!Finish, Promise!Tick
  <2>7. ASSUME NEW h \in Holders, ReturnKind(h)
        PROVE  UNCHANGED <<Pending, running, clock>>
    BY <2>7 DEF ReturnKind, Pending
  <2> QED BY <1>3, <2>1, <2>2, <2>3, <2>4, <2>5, <2>6, <2>7, StepKinds DEF AnyKind, Promise!Next
<1> QED BY <1>2, <1>3

(* The scheduler, with its list, its pool, its ids in hand and its run     *)
(* loops, implements Agenda: a set of pending events, at most one per      *)
(* holder that is not self-arming, of which a call takes back its own.     *)
THEOREM ImplementsAgenda == Spec => AgendaSpec
BY PromiseInit, PromiseStep, Invariance, PTL DEF Spec, AgendaSpec, Promise!Spec

=============================================================================
