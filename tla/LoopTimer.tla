----------------------------- MODULE LoopTimer -----------------------------
(***************************************************************************)
(* The update timer of a test folder and the node that sets its period     *)
(* (Library/TestFolderLib.cpp and, with the same code, TestStatusCode.cpp).*)
(*                                                                         *)
(* startTimerLoop runs on the application's main thread, writeLoopTimeValue *)
(* on the server's worker threads and timerLoop on the I/O thread.  They   *)
(* share the member slotTimerElement_ without a lock.  A handler is a      *)
(* sequence of accesses to it; here each access is a step.  Using the      *)
(* member while it is null ends the process.                               *)
(*                                                                         *)
(* The slot timer itself belongs to the OPC UA stack: an element that is   *)
(* started expires periodically until it is stopped.                       *)
(***************************************************************************)
EXTENDS Naturals, FiniteSets

CONSTANTS Workers,      \* the server's threads
          Periods,      \* the periods clients write, in milliseconds
          MaxElements,  \* bound on the elements that exist at a time
          Main          \* the application's main thread

ASSUME MainAssumption == Main \notin Workers
ASSUME PeriodsAssumption == Periods \subseteq Nat
ASSUME MaxElementsAssumption == MaxElements \in Nat

Threads == Workers \cup {Main}

NoElement == 0
Elements == 1..MaxElements

MinPeriod == 100       \* the lower bound of writeLoopTimeValue
DefaultPeriod == 1111  \* the period of startTimerLoop
Unset == 0             \* the period of an element before expireTime

(* A definition whose comment begins with "Mutant" is a plausible bug in the
   definition that follows it; no module uses it. *)

(* Mutant: the bound is subtracted. *)
BoundSubtracted(p) == p - MinPeriod

Bounded(p) == IF p < MinPeriod THEN MinPeriod ELSE p

-----------------------------------------------------------------------------
VARIABLES main,      \* where startup stands
          writable,  \* the callbacks of the loop time node are registered
          pc,        \* each thread's next access to the member, or "idle"
          wanted,    \* the period each thread is installing
          loopTime,  \* the value of the loop time node
          member,    \* slotTimerElement_
          period,    \* period[e]: the period of element e
          started,   \* the elements the slot timer runs
          ticks,     \* history: parity of the rounds of timerLoop
          overlap    \* history: which writes have overlapped others, or startup

vars == << main, writable, pc, wanted, loopTime, member, period, started, ticks, overlap >>

Init ==
  /\ main = "getNamespaceInfo"
  /\ writable = FALSE
  /\ pc = [t \in Threads |-> "idle"]
  /\ wanted = [t \in Threads |-> Unset]
  /\ loopTime = 0
  /\ member = NoElement
  /\ period = [e \in Elements |-> Unset]
  /\ started = {}
  /\ ticks = FALSE
  /\ overlap = "none"

Alive == main # "crashed"
Idle(t) == pc[t] = "idle"
Goto(t, next) == pc' = [pc EXCEPT ![t] = next]

-----------------------------------------------------------------------------
(* Startup                                                                 *)

(* A service call of startup: on failure startup returns false, and nothing
   that was done is undone. *)
Lookup(from, to) ==
  /\ main = from
  /\ main' \in {to, "failed"}
  /\ writable' = (writable \/ (from = "registerLoopTimeCallbacks" /\ main' = to))
  /\ UNCHANGED << pc, wanted, loopTime, member, period, started, ticks, overlap >>

getNamespaceInfo == Lookup("getNamespaceInfo", "registerCallbacks")
registerCallbacks == Lookup("registerCallbacks", "registerLoopTimeCallbacks")
registerLoopTimeCallbacks == Lookup("registerLoopTimeCallbacks", "createNodeReferences")
createNodeReferences == Lookup("createNodeReferences", "startTimerLoop")

(* startTimerLoop sets the loop time and goes on to construct an element. *)
startTimerLoop ==
  /\ main = "startTimerLoop"
  /\ main' = "starting"
  /\ loopTime' = DefaultPeriod
  /\ wanted' = [wanted EXCEPT ![Main] = DefaultPeriod]
  /\ Goto(Main, "construct")
  /\ UNCHANGED << writable, member, period, started, ticks, overlap >>

-----------------------------------------------------------------------------
(* writeLoopTimeValue                                                      *)

Busy == {t \in Threads : ~Idle(t)}

(* What a write that begins now overlaps; an overlap of two writes is never
   forgotten. *)
Overlap ==
  IF overlap = "workers" \/ \E w \in Workers : w \in Busy THEN "workers"
  ELSE IF main \in {"started", "failed"} THEN overlap ELSE "startup"

(* A client writes a period: the bounded value is copied into the node. *)
writeLoopTimeValue(w, p) ==
  /\ Alive /\ writable
  /\ Idle(w)
  /\ Cardinality(started) + Cardinality(Busy) + 2 <= MaxElements
  /\ loopTime' = Bounded(p)
  /\ wanted' = [wanted EXCEPT ![w] = Bounded(p)]
  /\ overlap' = Overlap
  /\ Goto(w, "check")
  /\ UNCHANGED << main, writable, member, period, started, ticks >>

(* Is there an element to stop? *)
CheckElement(t) ==
  /\ Alive /\ pc[t] = "check"
  /\ Goto(t, IF member # NoElement THEN "stop" ELSE "construct")
  /\ UNCHANGED << main, writable, wanted, loopTime, member, period, started, ticks, overlap >>

(* Mutant: the element is replaced without being stopped. *)
StopElementForgotten(t) ==
  /\ Alive /\ pc[t] = "stop"
  /\ Goto(t, "reset")
  /\ UNCHANGED << main, writable, wanted, loopTime, member, period, started, ticks, overlap >>

(* The element that the member holds by now is stopped; to stop an element
   that does not run has no effect. *)
StopElement(t) ==
  /\ Alive /\ pc[t] = "stop"
  /\ member # NoElement
  /\ started' = started \ {member}
  /\ Goto(t, "reset")
  /\ UNCHANGED << main, writable, wanted, loopTime, member, period, ticks, overlap >>

ResetElement(t) ==
  /\ Alive /\ pc[t] = "reset"
  /\ member' = NoElement
  /\ Goto(t, "construct")
  /\ UNCHANGED << main, writable, wanted, loopTime, period, started, ticks, overlap >>

(* The first of the elements that do not exist: one that the slot timer does
   not run exists only as long as the member holds it. *)
Fresh ==
  {e \in Elements \ (started \cup {member}) :
     \A f \in Elements \ (started \cup {member}) : e <= f}

(* A new element takes the place of whatever the member holds. *)
ConstructElement(t) ==
  /\ Alive /\ pc[t] = "construct"
  /\ member' \in Fresh
  /\ period' = [period EXCEPT ![member'] = Unset]
  /\ Goto(t, "fill")
  /\ UNCHANGED << main, writable, wanted, loopTime, started, ticks, overlap >>

(* The callback and the period are set through the member. *)
FillElement(t) ==
  /\ Alive /\ pc[t] = "fill"
  /\ member # NoElement
  /\ period' = [period EXCEPT ![member] = wanted[t]]
  /\ Goto(t, "start")
  /\ UNCHANGED << main, writable, wanted, loopTime, member, started, ticks, overlap >>

(* Mutant: writeLoopTimeValue returns without starting the new element. *)
StartElementForgotten(t) ==
  /\ Alive /\ pc[t] = "start"
  /\ member # NoElement
  /\ started' = IF t = Main THEN started \cup {member} ELSE started
  /\ main' = IF t = Main THEN "started" ELSE main
  /\ wanted' = [wanted EXCEPT ![t] = Unset]
  /\ Goto(t, "idle")
  /\ UNCHANGED << writable, loopTime, member, period, ticks, overlap >>

(* The element that the member holds by now is started, and the handler, or
   startup, returns. *)
StartElement(t) ==
  /\ Alive /\ pc[t] = "start"
  /\ member # NoElement
  /\ started' = started \cup {member}
  /\ main' = IF t = Main THEN "started" ELSE main
  /\ wanted' = [wanted EXCEPT ![t] = Unset]
  /\ Goto(t, "idle")
  /\ UNCHANGED << writable, loopTime, member, period, ticks, overlap >>

(* Another thread has reset the member that this one is about to use. *)
UseNull(t) ==
  /\ Alive /\ pc[t] \in {"stop", "fill", "start"}
  /\ member = NoElement
  /\ main' = "crashed"
  /\ UNCHANGED << writable, pc, wanted, loopTime, member, period, started, ticks, overlap >>

-----------------------------------------------------------------------------
(* An element that the slot timer runs expires: one round of timerLoop. *)
Expire ==
  /\ Alive
  /\ started # {}
  /\ ticks' = ~ticks
  /\ UNCHANGED << main, writable, pc, wanted, loopTime, member, period, started, overlap >>

Startup ==
  \/ getNamespaceInfo \/ registerCallbacks \/ registerLoopTimeCallbacks
  \/ createNodeReferences \/ startTimerLoop

Install(t) ==
  \/ CheckElement(t) \/ StopElement(t) \/ ResetElement(t)
  \/ ConstructElement(t) \/ FillElement(t) \/ StartElement(t) \/ UseNull(t)

Next ==
  \/ Startup
  \/ \E w \in Workers, p \in Periods : writeLoopTimeValue(w, p)
  \/ \E t \in Threads : Install(t)
  \/ Expire

(* Threads go on, and an element that runs expires again and again; nothing
   obliges a client to write. *)
Fairness ==
  /\ WF_vars(Startup)
  /\ \A t \in Threads : WF_vars(Install(t))
  /\ WF_vars(Expire)

Spec == Init /\ [][Next]_vars
FairSpec == Spec /\ Fairness

-----------------------------------------------------------------------------
(* Properties                                                              *)

MainStates == {"getNamespaceInfo", "registerCallbacks", "registerLoopTimeCallbacks",
               "createNodeReferences", "startTimerLoop", "starting", "started",
               "failed", "crashed"}
Steps == {"idle", "check", "stop", "reset", "construct", "fill", "start"}

TypeOK ==
  /\ main \in MainStates
  /\ writable \in BOOLEAN
  /\ pc \in [Threads -> Steps]
  /\ wanted \in [Threads -> Nat]
  /\ loopTime \in Nat
  /\ member \in Elements \cup {NoElement}
  /\ period \in [Elements -> Nat]
  /\ started \subseteq Elements
  /\ ticks \in BOOLEAN
  /\ overlap \in {"none", "startup", "workers"}

Quiet == Busy = {}

(* As long as no write has overlapped another one or come before startup was
   over, the member is never used while it is null, and the update loop never
   has two timers, or one whose period is not the value of the loop time node:
   whenever no handler runs, exactly the member's element runs, with the
   period a reader of the node sees, at least 100 ms. *)
TimerMatchesNode ==
  overlap = "none" =>
    /\ Alive
    /\ \A e, f \in started : e = f
    /\ Quiet /\ main \in {"started", "failed"} =>
         /\ started = {member} \ {NoElement}
         /\ member # NoElement => period[member] = loopTime /\ loopTime >= MinPeriod

(* However the writes interleave with each other and with startTimerLoop, the
   update loop does not die: once startup has succeeded, some element runs
   whenever no handler is about to replace it. *)
LoopSurvives == main = "started" /\ Quiet => started # {}

(* As long as no two writes have overlapped, writes that come before startup
   is over leave at most two elements behind that run and that no later write
   can stop: one that startTimerLoop has replaced without a stop, and its
   own. *)
AtMostTwoOrphans ==
  overlap # "workers" => Cardinality(started \ {member}) <= 2

(* After a successful startup the values are updated again and again, unless
   clients write the loop time again and again, which restarts the period. *)
RoundsGoOn ==
  <>[](main = "started" /\ Quiet) => []<>ticks /\ []<>~ticks
=============================================================================
