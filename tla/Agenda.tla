------------------------------- MODULE Agenda -------------------------------
(***************************************************************************)
(* What scheduler_t promises its callers, without lists, ids in hand or    *)
(* run loops: a set of pending events.  A holder owns at most one of them, *)
(* arming it again replaces it, and an event leaves the set only when its  *)
(* callback runs, when its holder cancels it, or when the core restarts.   *)
(* An event that was asked for in time runs neither early nor after one    *)
(* that is due later.  Of the self-arming holders less is promised: they   *)
(* may fail to give an event back, and then own several.                   *)
(***************************************************************************)
EXTENDS Integers

CONSTANTS Holders, SelfArming, NoHolder, NoEvent

VARIABLES pending, handling, now

agendaVars == <<pending, handling, now>>

Of(h) == {e \in pending : e.holder = h}

\* What may be left when h gives back the event it has.
Without(h) ==
    IF h \in SelfArming THEN {pending} \cup {pending \ {e} : e \in Of(h)}
                        ELSE {pending \ Of(h)}

\* ids grow, so that an id in hand never names a younger event.
Younger(e) == \A x \in pending \cup {handling} : x.id < e.id

\* Pending events that were asked for in time and are due before e.
Ahead(e) == {x \in pending : ~x.late /\ x.timecode < e.timecode}

Init ==
    /\ \E e \in pending : pending = {e} /\ e.holder = NoHolder
    /\ handling = NoEvent
    /\ now = 0

Arm(h) ==
    /\ \E e \in pending', kept \in Without(h) :
         /\ e.holder = h /\ Younger(e)
         /\ pending' = kept \cup {e}
    /\ now' \in {now} \cup {x.timecode : x \in pending}
    /\ UNCHANGED handling

Announce ==
    /\ \E e \in pending' :
         /\ e.holder = NoHolder /\ Younger(e)
         /\ pending' = pending \cup {e}
    /\ UNCHANGED <<handling, now>>

\* Also what add_or_run_abs does when it runs the callback on the spot.
Cancel(h) ==
    /\ pending' \in Without(h)
    /\ UNCHANGED <<handling, now>>

Fire(e) ==
    /\ handling = NoEvent
    /\ now' >= now /\ now' >= e.timecode
    /\ e.late \/ Ahead(e) = {}
    /\ pending' = pending \ {e}
    /\ handling' = e

Finish ==
    /\ handling # NoEvent /\ handling' = NoEvent
    /\ UNCHANGED <<pending, now>>

Tick ==
    /\ now' > now
    /\ UNCHANGED <<pending, handling>>

Restart ==
    /\ handling = NoEvent
    /\ \E e \in pending' : e.holder = NoHolder /\ Younger(e) /\ pending' = {e}
    /\ now' = 0
    /\ UNCHANGED handling

Next ==
    \/ \E h \in Holders : Arm(h) \/ Cancel(h)
    \/ Announce
    \/ \E e \in pending : Fire(e)
    \/ Finish
    \/ Tick
    \/ Restart

Spec == Init /\ [][Next]_agendaVars
=============================================================================
