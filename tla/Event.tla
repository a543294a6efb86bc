------------------------------- MODULE Event -------------------------------
(***************************************************************************)
(* The event source of the demo server (Library/Event.cpp).                *)
(*                                                                         *)
(* Each round of timerLoop sends three events, one from each of three      *)
(* nodes, with a number that counts all events.  The request that fires an *)
(* event may fail, which is only logged: the event is lost, its number is  *)
(* not used again.  An event is known here by its node and its number.     *)
(***************************************************************************)
EXTENDS Naturals

CONSTANT Width  \* 2^32, the numbers of a uint32_t; a smaller number when TLC runs

Sources == << "Event11", "Event12", "Event21" >>
Nodes == {"Event11", "Event12", "Event21"}

Numbers == 0..(Width - 1)
Events == [node : Nodes, number : Numbers]

(* No event yet, or one that got lost. *)
NoEvent == [node |-> "none", number |-> 0]

-----------------------------------------------------------------------------
VARIABLES counter,  \* counter_
          next,     \* which event the round sends next, or 0 between two rounds
          event,    \* the event that subscribers have received last, if any
          wrapped   \* history: counter_ has wrapped around

eventVars == << counter, next, event, wrapped >>

Init ==
  /\ counter = 0
  /\ next = 0
  /\ event = NoEvent
  /\ wrapped = FALSE

Inc(c) == IF c = Width - 1 THEN 0 ELSE c + 1

(* A round of timerLoop begins. *)
BeginRound ==
  /\ next = 0
  /\ next' = 1
  /\ UNCHANGED << counter, event, wrapped >>

(* Mutant: the round does not end after the third event. *)
AdvancePast == next' = next + 1

Advance == next' = IF next = 3 THEN 0 ELSE next + 1

(* Mutant: an event that could not be sent gives its number back. *)
SendEventUncounted ==
  /\ next # 0
  /\ \/ counter' = Inc(counter) /\ event' = [node |-> Sources[next], number |-> counter']
     \/ counter' = counter /\ event' = NoEvent
  /\ wrapped' = (wrapped \/ counter' < counter)
  /\ Advance

(* sendEvent11, sendEvent12 or sendEvent21: the number is used up whether or
   not the event reaches its subscribers. *)
SendEvent ==
  /\ next # 0
  /\ counter' = Inc(counter)
  /\ event' \in {[node |-> Sources[next], number |-> counter'], NoEvent}
  /\ wrapped' = (wrapped \/ counter' < counter)
  /\ Advance

-----------------------------------------------------------------------------
EventTypeOK ==
  /\ counter \in Numbers
  /\ next \in 0..3
  /\ event \in Events \cup {NoEvent}
  /\ wrapped \in BOOLEAN

(* However many events get lost, the number of an event tells the node that
   has sent it, as long as counter_ has not wrapped around. *)
NumberTellsSource ==
  ~wrapped /\ event # NoEvent =>
    event.number # 0 /\ event.node = Sources[((event.number - 1) % 3) + 1]
=============================================================================
