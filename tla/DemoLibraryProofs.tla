------------------------- MODULE DemoLibraryProofs -------------------------
(***************************************************************************)
(* The demo application is quiet once its shutdown has ended, and its      *)
(* events can be told apart: whichever requests fail, and whatever the     *)
(* width of the event counter.                                             *)
(***************************************************************************)
EXTENDS DemoLibrary, TLAPS

(* The I/O thread is off from the end of the shutdown on. *)
StoppedOff == main = "stopped" => ioThread = "off" /\ round = None

(* Startup begins with the first component. *)
InOrder == main \in {"loaded", "startup"} => at # 0

(* Events are sent in a round of Event only. *)
EventRound == next # 0 => round = "event"

LibInv == TypeOK /\ StoppedOff /\ InOrder /\ EventRound

(* Each round uses up three numbers, whether or not the events arrive. *)
CounterPlace == ~wrapped => counter % 3 = (IF next = 0 THEN 0 ELSE next - 1)

NumberInv == Source!EventTypeOK /\ CounterPlace /\ NumberTellsSource

-----------------------------------------------------------------------------
(* The tables of components and steps                                      *)

LEMMA OrderLength == Len(Order) = 10 /\ \A i \in 1..10 : Order[i] \in Components
BY DEF Order, Components

LEMMA ComponentNames ==
  Components = {"testFolderLib", "testStatusCode", "cameraAnimation", "function",
                "serviceFunction", "event", "alarm", "authentication",
                "historicalAccess", "discovery"}
<1>1. \A i \in 1..10 : \/ i = 1 \/ i = 2 \/ i = 3 \/ i = 4 \/ i = 5
                       \/ i = 6 \/ i = 7 \/ i = 8 \/ i = 9 \/ i = 10
  OBVIOUS
<1> QED
  BY <1>1 DEF Components, Order

(* No startup has more than five steps, and only those of the components with
   a timer arm one. *)
LEMMA StepsTable ==
  ASSUME NEW c \in Components
  PROVE  /\ Len(Steps[c]) \in 0..5
         /\ \A i \in 1..Len(Steps[c]) : Steps[c][i] = "startTimerLoop" => c \in Timed
<1>1. CASE c \in {"testFolderLib", "testStatusCode"}
  BY <1>1 DEF Steps, FolderSteps, Timed
<1>2. CASE c = "cameraAnimation"
  BY <1>2 DEF Steps, CameraAnimationSteps, Timed
<1>3. CASE c = "function"
  BY <1>3 DEF Steps, FunctionSteps, Timed
<1>4. CASE c = "serviceFunction"
  BY <1>4 DEF Steps, ServiceFunctionSteps, Timed
<1>5. CASE c = "event"
  BY <1>5 DEF Steps, EventSteps, Timed
<1>6. CASE c = "alarm"
  BY <1>6 DEF Steps, AlarmSteps, Timed
<1>7. CASE c = "authentication"
  BY <1>7 DEF Steps, AuthenticationSteps, Timed
<1>8. CASE c = "historicalAccess"
  BY <1>8 DEF Steps, HistoricalAccessSteps, Timed
<1>9. CASE c = "discovery"
  BY <1>9 DEF Steps, DiscoverySteps, Timed
<1> QED
  BY ComponentNames, <1>1, <1>2, <1>3, <1>4, <1>5, <1>6, <1>7, <1>8, <1>9

-----------------------------------------------------------------------------
(* Types                                                                   *)

LEMMA InitLib == Init => LibInv
<1> SUFFICES ASSUME Init PROVE LibInv
  OBVIOUS
<1>1. Source!EventTypeOK
  <2>1. counter \in Source!Numbers /\ next \in 0..3
    BY WidthAssumption DEF Init, Source!Init, Source!Numbers
  <2> QED
    BY <2>1 DEF Init, Source!Init, Source!EventTypeOK
<1>2. at \in 0..(Len(Order) + 1)
  BY OrderLength DEF Init
<1>3. pos \in [Components -> 0..5] /\ \A c \in Components : pos[c] <= Len(Steps[c])
  BY StepsTable DEF Init
<1> QED
  BY <1>1, <1>2, <1>3 DEF Init, Source!Init, LibInv, TypeOK, StoppedOff, InOrder, EventRound

(* The step that startup takes next is one of a component's, and a timer is
   armed by a component that has one. *)
LEMMA StepTyped ==
  ASSUME LibInv, AtStep
  PROVE  /\ Current \in Components /\ pos[Current] + 1 \in 1..Len(Steps[Current])
         /\ Step = "startTimerLoop" => Current \in Timed
<1>1. at \in 1..10
  BY OrderLength DEF LibInv, TypeOK, InOrder, AtStep, Starting
<1>2. Current \in Components
  BY <1>1, OrderLength DEF Current
<1>3. pos[Current] \in 0..5 /\ pos[Current] < Len(Steps[Current])
  BY <1>2 DEF LibInv, TypeOK, AtStep
<1>4. pos[Current] + 1 \in 1..Len(Steps[Current])
  BY <1>2, <1>3, StepsTable
<1> QED
  BY <1>2, <1>4, StepsTable DEF Step

LEMMA StartupTyped ==
  ASSUME LibInv, Startup
  PROVE  /\ main' \in {"startup", "running"} /\ ioThread' \in {"running", ioThread}
         /\ at' \in 1..(Len(Order) + 1) /\ armed' \subseteq Timed
         /\ pos' \in [Components -> 0..5] /\ \A c \in Components : pos'[c] <= Len(Steps[c])
         /\ UNCHANGED << round, eventVars >>
<1>1. /\ at \in 0..11 /\ (main \in {"loaded", "startup"} => at # 0)
      /\ armed \subseteq Timed /\ pos \in [Components -> 0..5]
      /\ \A c \in Components : pos[c] <= Len(Steps[c])
  BY OrderLength DEF LibInv, TypeOK, InOrder
<1>2. CASE StartIoThread
  BY <1>1, <1>2, OrderLength DEF StartIoThread
<1>3. CASE StepSucceeds
  <2>1. AtStep /\ pos' = [pos EXCEPT ![Current] = @ + 1]
          /\ UNCHANGED << main, at, ioThread, round, eventVars >>
    BY <1>3 DEF StepSucceeds
  <2>2. Current \in Components /\ pos[Current] + 1 \in 1..Len(Steps[Current])
    BY <2>1, StepTyped
  <2>3. armed' \subseteq Timed
    BY <1>1, <1>3, <2>1, StepTyped DEF StepSucceeds
  <2>4. pos[Current] + 1 \in 0..5
    BY <2>2, StepsTable
  <2> QED
    BY <1>1, <2>1, <2>2, <2>3, <2>4, OrderLength DEF AtStep, Starting
<1>4. CASE StepFails
  BY <1>1, <1>4, OrderLength DEF StepFails, AtStep, Starting
<1>5. CASE ComponentStarted
  BY <1>1, <1>5, OrderLength DEF ComponentStarted, Starting
<1>6. CASE StartupReturns
  BY <1>1, <1>6, OrderLength DEF StartupReturns
<1> QED
  BY <1>2, <1>3, <1>4, <1>5, <1>6 DEF Startup

LEMMA SendEventTyped ==
  ASSUME Source!EventTypeOK, Source!SendEvent
  PROVE  Source!EventTypeOK'
<1>1. counter' \in Source!Numbers
  BY WidthAssumption DEF Source!EventTypeOK, Source!SendEvent, Source!Inc, Source!Numbers
<1>2. next \in 1..3 /\ next' \in 0..3
  BY DEF Source!EventTypeOK, Source!SendEvent, Source!Advance
<1>3. Source!Sources[next] \in Source!Nodes
  BY <1>2 DEF Source!Sources, Source!Nodes
<1>4. event' \in Source!Events \cup {Source!NoEvent}
  BY <1>1, <1>3 DEF Source!SendEvent, Source!Events
<1>5. wrapped' \in BOOLEAN
  BY DEF Source!EventTypeOK, Source!SendEvent
<1> QED
  BY <1>1, <1>2, <1>4, <1>5 DEF Source!EventTypeOK

LEMMA NextLib == LibInv /\ [Next]_vars => LibInv'
<1> SUFFICES ASSUME LibInv, [Next]_vars PROVE LibInv'
  OBVIOUS
<1> USE DEF LibInv, StoppedOff, InOrder, EventRound
<1>1. CASE Startup
  <2>1. Source!EventTypeOK'
    BY <1>1, StartupTyped DEF TypeOK, eventVars, Source!EventTypeOK
  <2>2. TypeOK'
    BY <1>1, <2>1, StartupTyped, OrderLength DEF TypeOK
  <2>3. UNCHANGED << round, next >> /\ main' \in {"startup", "running"} /\ at' # 0
    BY <1>1, StartupTyped DEF eventVars
  <2> QED
    BY <2>2, <2>3
<1>2. CASE Stop
  BY <1>2, OrderLength DEF Stop, TypeOK, eventVars, Source!EventTypeOK
<1>3. CASE ShutdownComponent
  BY <1>3, OrderLength DEF ShutdownComponent, TypeOK, eventVars, Source!EventTypeOK
<1>4. CASE StopIoThread
  BY <1>4 DEF StopIoThread, TypeOK, eventVars, Source!EventTypeOK
<1>5. CASE JoinIoThread
  BY <1>5 DEF JoinIoThread, TypeOK, eventVars, Source!EventTypeOK
<1>6. ASSUME NEW c \in Folders, writeLoopTimeValue(c)
      PROVE  LibInv'
  BY <1>6 DEF writeLoopTimeValue, Folders, Timed, TypeOK, eventVars, Source!EventTypeOK
<1>7. ASSUME NEW c \in Timed, Expire(c)
      PROVE  LibInv'
  <2>1. Source!EventTypeOK'
    BY <1>7 DEF Expire, TypeOK, eventVars, Source!EventTypeOK, Source!BeginRound
  <2>2. next' # 0 => c = "event"
    BY <1>7 DEF Expire, eventVars, None
  <2>3. TypeOK'
    BY <1>7, <2>1 DEF Expire, TypeOK
  <2> QED
    BY <1>7, <2>2, <2>3 DEF Expire
<1>8. CASE SendEvent
  <2>1. TypeOK'
    BY <1>8, SendEventTyped DEF SendEvent, libVars, TypeOK
  <2>2. UNCHANGED libVars /\ round = "event"
    BY <1>8 DEF SendEvent, Source!SendEvent
  <2> QED
    BY <2>1, <2>2 DEF libVars
<1>9. CASE RoundEnds
  BY <1>9 DEF RoundEnds, TypeOK, eventVars, Source!EventTypeOK
<1>10. CASE UNCHANGED vars
  BY <1>10 DEF vars, libVars, eventVars, TypeOK, Source!EventTypeOK
<1> QED
  BY <1>1, <1>2, <1>3, <1>4, <1>5, <1>6, <1>7, <1>8, <1>9, <1>10
     DEF Next, Shutdown, Round

(* The library's state keeps its type, whichever startups fail and whenever
   clients arm timers. *)
THEOREM LibraryTypeCorrect == Spec => []TypeOK
<1>1. LibInv => TypeOK
  BY DEF LibInv
<1> QED
  BY InitLib, NextLib, <1>1, PTL DEF Spec

(* No round of any component runs after DemoLibrary::shutdown has returned,
   although the components' shutdowns leave their timers armed. *)
THEOREM LibraryQuiet == Spec => []QuietAfterShutdown
<1>1. LibInv => QuietAfterShutdown
  BY DEF LibInv, StoppedOff, EventRound, None, QuietAfterShutdown
<1> QED
  BY InitLib, NextLib, <1>1, PTL DEF Spec

-----------------------------------------------------------------------------
(* The numbers of events                                                   *)

LEMMA InitNumbers == Init => NumberInv
<1>1. Init => Source!EventTypeOK
  BY InitLib DEF LibInv, TypeOK
<1> QED
  BY <1>1 DEF Init, Source!Init, NumberInv, CounterPlace, NumberTellsSource,
     Source!NumberTellsSource

LEMMA SendEventNumbered ==
  ASSUME NumberInv, Source!SendEvent
  PROVE  NumberInv'
<1>1. Source!EventTypeOK'
  BY SendEventTyped DEF NumberInv
<1>2. /\ counter \in 0..(Width - 1) /\ next \in 1..3
      /\ wrapped' = (wrapped \/ counter' < counter)
  BY DEF NumberInv, Source!EventTypeOK, Source!SendEvent, Source!Numbers
<1>3. ASSUME ~wrapped' PROVE ~wrapped /\ counter' = counter + 1
  <2>1. ~wrapped /\ ~(counter' < counter)
    BY <1>2, <1>3
  <2>2. counter' = IF counter = Width - 1 THEN 0 ELSE counter + 1
    BY DEF Source!SendEvent, Source!Inc
  <2>3. counter' = counter + 1
    BY <1>2, <2>1, <2>2, WidthAssumption
  <2> QED
    BY <2>1, <2>3
<1>4. ASSUME ~wrapped' PROVE counter % 3 = next - 1
  BY <1>2, <1>3, <1>4 DEF NumberInv, CounterPlace
<1>5. CounterPlace'
  BY <1>2, <1>3, <1>4 DEF CounterPlace, Source!SendEvent, Source!Advance
<1>6. ASSUME ~wrapped', event' # Source!NoEvent
      PROVE  event'.number = counter + 1 /\ event'.node = Source!Sources[next]
  BY <1>3, <1>6 DEF Source!SendEvent
<1>7. NumberTellsSource'
  BY <1>2, <1>4, <1>6 DEF NumberTellsSource, Source!NumberTellsSource
<1> QED
  BY <1>1, <1>5, <1>7 DEF NumberInv

LEMMA NextNumbers == NumberInv /\ [Next]_vars => NumberInv'
<1> SUFFICES ASSUME NumberInv, [Next]_vars PROVE NumberInv'
  OBVIOUS
<1>1. ASSUME UNCHANGED eventVars PROVE NumberInv'
  BY <1>1 DEF eventVars, NumberInv, CounterPlace, NumberTellsSource,
     Source!NumberTellsSource, Source!EventTypeOK
<1>2. ASSUME Source!BeginRound PROVE NumberInv'
  BY <1>2 DEF Source!BeginRound, NumberInv, CounterPlace, NumberTellsSource,
     Source!NumberTellsSource, Source!EventTypeOK
<1>3. CASE Startup
  BY <1>1, <1>3 DEF Startup, StartIoThread, StepSucceeds, StepFails, ComponentStarted,
     StartupReturns
<1>4. CASE Stop \/ Shutdown
  BY <1>1, <1>4 DEF Stop, Shutdown, ShutdownComponent, StopIoThread, JoinIoThread
<1>5. ASSUME NEW c \in Folders, writeLoopTimeValue(c)
      PROVE  NumberInv'
  BY <1>1, <1>5 DEF writeLoopTimeValue
<1>6. ASSUME NEW c \in Timed, Expire(c)
      PROVE  NumberInv'
  BY <1>1, <1>2, <1>6 DEF Expire
<1>7. CASE SendEvent
  BY <1>7, SendEventNumbered DEF SendEvent
<1>8. CASE RoundEnds \/ UNCHANGED vars
  BY <1>1, <1>8 DEF RoundEnds, vars
<1> QED
  BY <1>3, <1>4, <1>5, <1>6, <1>7, <1>8 DEF Next, Round

(* Lost events use up their numbers, so that a number tells the node it was
   sent from until counter_ wraps around, for every width of counter_. *)
THEOREM EventNumbersTellSource == Spec => []NumberTellsSource
<1>1. NumberInv => NumberTellsSource
  BY DEF NumberInv
<1> QED
  BY InitNumbers, NextNumbers, <1>1, PTL DEF Spec
-----------------------------------------------------------------------------
(* What startup leaves behind: the safety halves of ComponentsIndependent   *)
(* and of RoundsShareThread                                                *)

(* The places of the components that startup is through with. *)
Passed == IF main \in {"loaded", "startup"} THEN 1..(at - 1) ELSE 1..Len(Order)

Started(c) == pos[c] = Len(Steps[c])

(* A component that startup is through with has been started in full, unless
   its own requests may fail. *)
PassedStarted == \A i \in Passed : Order[i] \in Failing \/ Started(Order[i])

(* The last step of a component with a timer arms it, and nothing disarms it. *)
TimersArmed == \A c \in Timed : Started(c) => c \in armed

(* Once DemoLibrary::startup has returned, the components whose requests do
   not fail are started in full, whatever has become of the others. *)
AllButFailingStarted ==
  main \notin {"loaded", "startup"} => \A c \in Components \ Failing : Started(c)

(* The I/O thread is stopped by the shutdown only, which follows the startup. *)
StoppedLater == ioThread = "stopping" => main \notin {"loaded", "startup"}

StartedInv == (main = "loaded" => at = 1) /\ StoppedLater /\ PassedStarted /\ TimersArmed

(* A component with a timer has steps, of which arming it is the last. *)
LEMMA ArmingIsLast ==
  ASSUME NEW c \in Timed
  PROVE  c \in Components /\ Len(Steps[c]) \in 1..5 /\ Steps[c][Len(Steps[c])] = "startTimerLoop"
<1>c. c \in Components
  BY ComponentNames DEF Timed
<1>nums. 3 \in 1..5 /\ 5 \in 1..5
  OBVIOUS
<1>1. CASE c \in {"testFolderLib", "testStatusCode"}
  <2>1. Len(FolderSteps) = 5 /\ FolderSteps[5] = "startTimerLoop"
    BY DEF FolderSteps
  <2>2. Steps[c] = FolderSteps
    BY <1>1 DEF Steps
  <2> QED
    BY <1>c, <2>1, <2>2, <1>nums, Zenon
<1>2. CASE c = "event"
  <2>1. Len(EventSteps) = 3 /\ EventSteps[3] = "startTimerLoop"
    BY DEF EventSteps
  <2>2. Steps[c] = EventSteps
    BY <1>2 DEF Steps
  <2> QED
    BY <1>c, <2>1, <2>2, <1>nums, Zenon
<1>3. CASE c = "alarm"
  <2>1. Len(AlarmSteps) = 5 /\ AlarmSteps[5] = "startTimerLoop"
    BY DEF AlarmSteps
  <2>2. Steps[c] = AlarmSteps
    BY <1>3 DEF Steps
  <2> QED
    BY <1>c, <2>1, <2>2, <1>nums, Zenon
<1> QED
  BY <1>1, <1>2, <1>3 DEF Timed

LEMMA InitStarted == Init => StartedInv
<1> SUFFICES ASSUME Init PROVE StartedInv
  OBVIOUS
<1>1. Passed = {}
  BY DEF Init, Passed
<1>2. ASSUME NEW c \in Timed PROVE ~Started(c)
  <2>1. c \in Components /\ Len(Steps[c]) # 0
    BY ArmingIsLast
  <2> QED
    BY <2>1 DEF Init, Started
<1> QED
  BY <1>1, <1>2 DEF Init, StartedInv, StoppedLater, PassedStarted, TimersArmed

LEMMA NextStarted == LibInv /\ StartedInv /\ [Next]_vars => StartedInv'
<1> SUFFICES ASSUME LibInv, StartedInv, [Next]_vars PROVE StartedInv'
  OBVIOUS
<1> USE OrderLength
<1>types. /\ at \in 0..11 /\ pos \in [Components -> 0..5]
          /\ main \in {"loaded", "startup"} => at # 0
  BY DEF LibInv, TypeOK, InOrder
<1>1. ASSUME pos' = pos, armed \subseteq armed', StoppedLater',
             main' = "loaded" => main = "loaded" /\ at' = at,
             \A i \in Passed' : i \in Passed \/ Order[i] \in Failing \/ Started(Order[i])
      PROVE  StartedInv'
  BY <1>1 DEF StartedInv, PassedStarted, TimersArmed, Started
<1>2. CASE StartIoThread
  <2>1. Passed' = {}
    BY <1>2 DEF StartIoThread, StartedInv, Passed
  <2> QED
    BY <1>1, <1>2, <2>1 DEF StartIoThread, StoppedLater
<1>3. CASE StepSucceeds
  <2>1. /\ Current \in Components /\ main = "startup" /\ pos[Current] < Len(Steps[Current])
        /\ pos' = [pos EXCEPT ![Current] = @ + 1] /\ UNCHANGED << main, at, ioThread >>
        /\ armed' = IF Step = "startTimerLoop" THEN armed \cup {Current} ELSE armed
    BY <1>3, StepTyped DEF StepSucceeds, AtStep, Starting
  <2>2. ASSUME NEW c \in Components, c # Current PROVE Started(c)' <=> Started(c)
    BY <1>types, <2>1, <2>2 DEF Started
  <2>3. ~Started(Current)
    BY <1>types, <2>1, StepsTable DEF Started
  <2>4. PassedStarted'
    <3>1. Passed' = Passed /\ Passed \subseteq 1..10
      BY <1>types, <2>1 DEF Passed
    <3> QED
      BY <2>2, <2>3, <3>1 DEF StartedInv, PassedStarted
  <2>5. ASSUME NEW c \in Timed, Started(c)' PROVE c \in armed'
    <3>1. CASE c # Current
      BY <2>1, <2>2, <2>5, <3>1, ArmingIsLast DEF StartedInv, TimersArmed
    <3>2. CASE c = Current
      <4>1. pos[Current] + 1 = Len(Steps[Current])
        BY <1>types, <2>1, <2>5, <3>2 DEF Started
      <4> QED
        BY <2>1, <3>2, <4>1, ArmingIsLast DEF Step
    <3> QED
      BY <3>1, <3>2
  <2> QED
    BY <2>1, <2>4, <2>5 DEF StartedInv, TimersArmed, StoppedLater
<1>4. CASE StepFails \/ ComponentStarted
  <2>1. /\ main = "startup" /\ at <= 10 /\ at' = at + 1
        /\ UNCHANGED << main, pos, armed, ioThread >>
    BY <1>4 DEF StepFails, ComponentStarted, AtStep, Starting
  <2>2. Current \in Failing \/ Started(Current)
    <3>1. CASE StepFails
      BY <3>1 DEF StepFails
    <3>2. CASE ComponentStarted
      <4>1. Current \in Components
        BY <1>types, <2>1 DEF Current
      <4>2. ~(pos[Current] < Len(Steps[Current])) /\ pos[Current] <= Len(Steps[Current])
        BY <3>2, <4>1 DEF ComponentStarted, AtStep, LibInv, TypeOK
      <4> QED
        <5>1. pos[Current] \in Nat /\ Len(Steps[Current]) \in Nat
          BY <1>types, <4>1, StepsTable
        <5> QED
          BY <4>2, <5>1 DEF Started
    <3> QED
      BY <1>4, <3>1, <3>2
  <2>3. \A i \in Passed' : i \in Passed \/ i = at
    BY <1>types, <2>1 DEF Passed
  <2> QED
    BY <1>1, <2>1, <2>2, <2>3 DEF Current, StartedInv, StoppedLater
<1>5. CASE StartupReturns
  <2>1. main = "startup" /\ main' = "running" /\ at > 10 /\ UNCHANGED << at, pos, armed >>
    BY <1>5 DEF StartupReturns
  <2>2. Passed' \subseteq Passed
    BY <1>types, <2>1 DEF Passed
  <2> QED
    BY <1>1, <2>1, <2>2 DEF StoppedLater
<1>6. CASE Stop \/ Shutdown
  <2>1. /\ main \notin {"loaded", "startup"} /\ main' \notin {"loaded", "startup"}
        /\ UNCHANGED << pos, armed >>
    BY <1>6 DEF Stop, Shutdown, ShutdownComponent, StopIoThread, JoinIoThread,
       StartedInv, StoppedLater
  <2> QED
    BY <1>1, <2>1 DEF Passed, StoppedLater
<1>7. ASSUME UNCHANGED << main, at, pos, ioThread >>, armed \subseteq armed'
      PROVE  StartedInv'
  BY <1>1, <1>7 DEF Passed, StartedInv, StoppedLater
<1>8. CASE \/ \E c \in Folders : writeLoopTimeValue(c)
           \/ \E c \in Timed : Expire(c)
           \/ Round \/ UNCHANGED vars
  BY <1>7, <1>8 DEF writeLoopTimeValue, Expire, Round, SendEvent, RoundEnds, vars, libVars
<1> QED
  BY <1>2, <1>3, <1>4, <1>5, <1>6, <1>8 DEF Next, Startup

LEMMA AlwaysStarted == Spec => []StartedInv
BY InitLib, NextLib, InitStarted, NextStarted, PTL DEF Spec

(* When DemoLibrary::startup returns, each component whose own requests have
   not failed has been started in full, although the results of the startups
   are ignored and others may have ended halfway. *)
THEOREM FailuresStayLocal == Spec => []AllButFailingStarted
<1>1. StartedInv => AllButFailingStarted
  BY OrderLength DEF Components, StartedInv, PassedStarted, Passed, AllButFailingStarted
<1> QED
  BY AlwaysStarted, <1>1, PTL

(* A component whose startup has been through has an armed timer from then on:
   no other component's startup, round or shutdown takes it from it. *)
THEOREM StartedTimersStayArmed == Spec => []TimersArmed
<1>1. StartedInv => TimersArmed
  BY DEF StartedInv
<1> QED
  BY AlwaysStarted, <1>1, PTL
=============================================================================
