------------------------------- MODULE Events --------------------------------
(***************************************************************************)
(* The timed events of event.c: a list in the order they are next due, from  *)
(* whose front event_run takes those that are.  A handler may add and delete  *)
(* events, its own and others.  io_loop runs them once a second at most.      *)
(***************************************************************************)
EXTENDS Naturals, FiniteSets, SequencesExt

CONSTANTS
  Event,
  When,        \* seconds between two runs of an event
  OneShot,     \* events that are run once each time they are added
  MaxClock, MaxTouch   \* bounds: the clock, and events added or deleted by handlers

ASSUME WhenAssumption == When \in [Event -> Nat \ {0}]

VARIABLES
  clock,
  event_list,  \* active events, first due first
  due,         \* when each is next due
  pass,        \* event_run under way: how many it may still take, and the handler running
  last,        \* the second of the last event_run
  touched
eventsVars == <<clock, event_list, due, pass, last, touched>>

Ready == [left |-> 0, in |-> "none"]
Active(e) == e \in ToSet(event_list)

event_delete(list, e) == IF e \in ToSet(list) THEN RemoveAt(list, CHOOSE i \in DOMAIN list : list[i] = e) ELSE list
\* Mutation: the event goes behind all others.
Placed_last(list, times, e, t) == Append(list, e)
\* Before the first that is due later.
Placed(list, times, e, t) ==
  LET later == {i \in DOMAIN list : times[list[i]] > t}
  IN InsertAt(list, IF later = {} THEN Len(list) + 1 ELSE CHOOSE i \in later : \A j \in later : i <= j, e)
event_add(e) == /\ due' = [due EXCEPT ![e] = clock + When[e]]
                /\ event_list' = Placed(event_delete(event_list, e), due, e, clock + When[e])

event_time_set == /\ pass = Ready /\ clock < MaxClock /\ clock' = clock + 1
                  /\ UNCHANGED <<event_list, due, pass, last, touched>>

\* No more events are taken than there were at first.
event_run == /\ pass = Ready /\ last # clock
             /\ last' = clock /\ pass' = [left |-> Len(event_list), in |-> "none"]
             /\ UNCHANGED <<clock, event_list, due, touched>>

RunOne ==
  /\ pass.left > 0 /\ pass.in = "none" /\ event_list # <<>>
  /\ LET e == Head(event_list) IN
     IF due[e] > clock THEN pass' = Ready /\ UNCHANGED event_list
     ELSE /\ event_list' = event_delete(event_list, e)
          /\ pass' = [left |-> pass.left - 1, in |-> e]
  /\ UNCHANGED <<clock, due, last, touched>>

\* The handler adds or deletes an event.  Others do so between passes.
Touch(e, add) ==
  /\ pass.in # "none" \/ pass = Ready
  /\ touched < MaxTouch /\ touched' = touched + 1
  /\ IF add THEN event_add(e) ELSE event_list' = event_delete(event_list, e) /\ UNCHANGED due
  /\ UNCHANGED <<clock, pass, last>>

HandlerEnds ==
  /\ pass.in # "none" /\ pass' = [pass EXCEPT !.in = "none"]
  /\ IF pass.in \in OneShot THEN UNCHANGED <<event_list, due>> ELSE event_add(pass.in)
  /\ UNCHANGED <<clock, last, touched>>

PassEnds == /\ pass.in = "none" /\ pass # Ready /\ (pass.left = 0 \/ event_list = <<>>)
            /\ pass' = Ready /\ UNCHANGED <<clock, event_list, due, last, touched>>

EventsInit ==
  /\ clock = 1 /\ due \in [Event -> {0}] /\ event_list = <<>> /\ pass = Ready /\ last = 0 /\ touched = 0
EventsNext == \/ event_time_set \/ event_run \/ RunOne \/ HandlerEnds \/ PassEnds
              \/ \E e \in Event, add \in BOOLEAN : Touch(e, add)
EventsSpec == EventsInit /\ [][EventsNext]_eventsVars

-----------------------------------------------------------------------------
(* Properties *)

\* After a pass nothing that was due is left, whatever the handlers added and deleted
\* meanwhile, and each event that is not for once is on the list, once, in its place
\* (event.c:95 and 47).
EventsRun ==
  /\ \A i, j \in DOMAIN event_list : i < j => event_list[i] # event_list[j] /\ due[event_list[i]] <= due[event_list[j]]
  /\ pass = Ready => \A e \in ToSet(event_list) : due[e] > last
=============================================================================
