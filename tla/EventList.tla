------------------------------ MODULE EventList ------------------------------
(***************************************************************************)
(* The sorted linked list of scheduler_t (jocasta-lib helpers/scheduler.h  *)
(* and scheduler.cpp) as pure operators on sequences: where a new event is *)
(* linked in, and how one is unlinked by id.                               *)
(*                                                                         *)
(* first_event is list[1]; `next' is the successor index.  The bound       *)
(* function pointers of an event are abstracted away: what a callback does *)
(* is decided by the modules that use the list.                            *)
(***************************************************************************)
EXTENDS Integers, Sequences, SequencesExt

(* add_abs takes this branch for everything that is already due: it runs   *)
(* the callback on the spot, or links the event in front of the list.      *)
IsDue(timecode, now) == timecode <= now \/ timecode = 0

\* Mutant: the walk runs to the end of the list whatever the times are.
WalkStopMutant(list, timecode) == Len(list)

(* The index after which add_abs's walk stops: it starts at first_event    *)
(* and follows next for as long as next->timecode <= timecode.             *)
WalkStop(list, timecode) ==
    Min({i \in 1..Len(list) : i = Len(list) \/ list[i + 1].timecode > timecode})

\* Mutant: a new event always goes behind a single one.
PlaceOfMutant(list, timecode, now) ==
    IF IsDue(timecode, now) \/ list = <<>> THEN 1
    ELSE IF list[1].timecode > timecode /\ Len(list) > 1 THEN 1
         ELSE WalkStop(list, timecode) + 1

(* The position that a new event with this timecode takes in the list.     *)
(* The cases are those of add_abs: due, empty list, a single event (whose  *)
(* tie goes in FRONT of it), smaller than the first, and the walk (whose   *)
(* ties go BEHIND the events already there).                               *)
PlaceOf(list, timecode, now) ==
    IF IsDue(timecode, now) \/ list = <<>> THEN 1
    ELSE IF Len(list) = 1
         THEN IF timecode <= list[1].timecode THEN 1 ELSE 2
         ELSE IF list[1].timecode > timecode THEN 1
              ELSE WalkStop(list, timecode) + 1

(* add_abs(timecode, key, 0): link event e in.                             *)
AddAbs(list, e, now) == InsertAt(list, PlaceOf(list, e.timecode, now), e)

\* Mutant: the new event goes behind the last one.
TieStopMutant(list) == Len(list)

(* The end of the run of events that share first_event's timecode, where   *)
(* add_after_first_event links its event in.                               *)
TieStop(list) ==
    Min({i \in 1..Len(list) :
            i = Len(list) \/ list[i + 1].timecode # list[1].timecode})

HasId(list, id) == \E e \in ToSet(list) : e.id = id

IndexOfId(list, id) == Min({i \in 1..Len(list) : list[i].id = id})

\* Mutant: the first event is the one that is unlinked.
DeleteIfExistMutant(list, id) ==
    IF id # 0 /\ HasId(list, id) THEN Tail(list) ELSE list

(* delete_if_exist(id): unlink the first event with that id; id 0 is what  *)
(* add_or_run_abs returns when it ran the callback, and never matches.     *)
DeleteIfExist(list, id) ==
    IF id # 0 /\ HasId(list, id) THEN RemoveAt(list, IndexOfId(list, id)) ELSE list

=============================================================================
