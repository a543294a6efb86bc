---------------------------- MODULE DemoLibrary ----------------------------
(***************************************************************************)
(* The life cycle of the demo application (Library/DemoLibrary.cpp): its   *)
(* ten components, started one after the other on the main thread, the one *)
(* I/O thread that runs the timers of four of them, and the shutdown.      *)
(*                                                                         *)
(* A component's startup is a sequence of steps, most of them requests to  *)
(* the server; the first that fails ends it, with the effect of the steps  *)
(* before it.  DemoLibrary ignores the results.  Shutting a component down *)
(* does nothing: callbacks stay registered and timers armed, and only the  *)
(* shutdown of the I/O thread, the last of all, ends the rounds.           *)
(*                                                                         *)
(* What a round does is in the components' own modules, except that the    *)
(* events of Event are sent here.  The I/O thread belongs to the OPC UA    *)
(* stack: it runs one round at a time, and its shutdown begins no round    *)
(* and waits for the one in progress.                                      *)
(***************************************************************************)
EXTENDS Naturals, Sequences

CONSTANTS Width,    \* as in Event
          Failing   \* the components whose requests may fail

(* The order of DemoLibrary::startup. *)
Order == << "testFolderLib", "testStatusCode", "cameraAnimation", "function",
            "serviceFunction", "event", "alarm", "authentication",
            "historicalAccess", "discovery" >>
Components == {Order[i] : i \in 1..Len(Order)}

ASSUME WidthAssumption == Width \in Nat /\ Width > 1
ASSUME FailingAssumption == Failing \subseteq Components

(* The steps of each component's startup; that of CameraAnimation returns at once. *)
FolderSteps == << "getNamespaceInfo", "registerCallbacks", "registerLoopTimeCallbacks",
                  "createNodeReferences", "startTimerLoop" >>
CameraAnimationSteps == << >>
FunctionSteps == << "getNamespaceInfo", "func1", "func2", "func3", "funcMult" >>
ServiceFunctionSteps == << "getNamespaceInfo", "Service.Reload" >>
EventSteps == << "getNamespaceInfo", "registerEventCallbacks", "startTimerLoop" >>
AlarmSteps == << "getNamespaceInfo", "getNodeIds", "createNodeReferences",
                 "registerCallbacks", "startTimerLoop" >>
AuthenticationSteps == << "getNamespaceInfo", "registerAuthenticationCallback",
                          "setValuesToDefault", "createUserProfiles" >>
HistoricalAccessSteps == << "getNamespaceInfo", "registerHADataCallback",
                            "registerHAEventCallback" >>
DiscoverySteps == << "registerFindServers" >>

Steps ==
  [testFolderLib |-> FolderSteps,
   testStatusCode |-> FolderSteps,
   cameraAnimation |-> CameraAnimationSteps,
   function |-> FunctionSteps,
   serviceFunction |-> ServiceFunctionSteps,
   event |-> EventSteps,
   alarm |-> AlarmSteps,
   authentication |-> AuthenticationSteps,
   historicalAccess |-> HistoricalAccessSteps,
   discovery |-> DiscoverySteps]

(* The steps that make no request, and cannot fail. *)
Infallible == {"startTimerLoop", "createUserProfiles"}

(* The components whose startup, or loop time node, arms a timer. *)
Timed == {"testFolderLib", "testStatusCode", "event", "alarm"}
Folders == {"testFolderLib", "testStatusCode"}

None == "none"

-----------------------------------------------------------------------------
VARIABLES main,      \* what the main thread does
          at,        \* the component it starts or shuts down, by its place in Order
          pos,       \* how many steps each component's startup has done
          armed,     \* the components with an element that the slot timer runs
          ioThread,  \* the state of ioThread_
          round,     \* the component whose timerLoop runs, or None
          counter, next, event, wrapped  \* the variables of Event

libVars == << main, at, pos, armed, ioThread, round >>
eventVars == << counter, next, event, wrapped >>
vars == << libVars, eventVars >>

Source == INSTANCE Event

Init ==
  /\ main = "loaded"
  /\ at = 1
  /\ pos = [c \in Components |-> 0]
  /\ armed = {}
  /\ ioThread = "off"
  /\ round = None
  /\ Source!Init

-----------------------------------------------------------------------------
(* DemoLibrary::startup                                                    *)

StartIoThread ==
  /\ main = "loaded"
  /\ main' = "startup"
  /\ ioThread' = "running"
  /\ UNCHANGED << at, pos, armed, round, eventVars >>

(* The component that is started, and its next step. *)
Current == Order[at]
Starting == main = "startup" /\ at <= Len(Order)
AtStep == Starting /\ pos[Current] < Len(Steps[Current])
Step == Steps[Current][pos[Current] + 1]

StepSucceeds ==
  /\ AtStep
  /\ pos' = [pos EXCEPT ![Current] = @ + 1]
  /\ armed' = IF Step = "startTimerLoop" THEN armed \cup {Current} ELSE armed
  /\ UNCHANGED << main, at, ioThread, round, eventVars >>

(* Mutant: startup returns the first failure. *)
StepFailsAll ==
  /\ AtStep
  /\ Current \in Failing /\ Step \notin Infallible
  /\ at' = Len(Order) + 1
  /\ UNCHANGED << main, pos, armed, ioThread, round, eventVars >>

(* The startup of the component returns false, and the next one begins. *)
StepFails ==
  /\ AtStep
  /\ Current \in Failing /\ Step \notin Infallible
  /\ at' = at + 1
  /\ UNCHANGED << main, pos, armed, ioThread, round, eventVars >>

(* The startup of the component returns true. *)
ComponentStarted ==
  /\ Starting /\ ~AtStep
  /\ at' = at + 1
  /\ UNCHANGED << main, pos, armed, ioThread, round, eventVars >>

StartupReturns ==
  /\ main = "startup" /\ at > Len(Order)
  /\ main' = "running"
  /\ UNCHANGED << at, pos, armed, ioThread, round, eventVars >>

-----------------------------------------------------------------------------
(* DemoLibrary::shutdown                                                   *)

(* The server asks for it. *)
Stop ==
  /\ main = "running"
  /\ main' = "shutdown"
  /\ at' = Len(Order)
  /\ UNCHANGED << pos, armed, ioThread, round, eventVars >>

(* In the reverse order of startup; a component's shutdown does nothing. *)
ShutdownComponent ==
  /\ main = "shutdown" /\ at > 0
  /\ at' = at - 1
  /\ UNCHANGED << main, pos, armed, ioThread, round, eventVars >>

StopIoThread ==
  /\ main = "shutdown" /\ at = 0
  /\ ioThread = "running"
  /\ ioThread' = "stopping"
  /\ UNCHANGED << main, at, pos, armed, round, eventVars >>

(* Mutant: the shutdown waits until no timer is armed. *)
JoinDisarmed ==
  /\ ioThread = "stopping" /\ round = None /\ armed = {}
  /\ ioThread' = "off"
  /\ main' = "stopped"
  /\ UNCHANGED << at, pos, armed, round, eventVars >>

(* Mutant: the shutdown does not wait for the round. *)
JoinNothing ==
  /\ ioThread = "stopping"
  /\ ioThread' = "off"
  /\ main' = "stopped"
  /\ UNCHANGED << at, pos, armed, round, eventVars >>

JoinIoThread ==
  /\ ioThread = "stopping" /\ round = None
  /\ ioThread' = "off"
  /\ main' = "stopped"
  /\ UNCHANGED << at, pos, armed, round, eventVars >>

-----------------------------------------------------------------------------
(* A client writes the loop time of a test folder, which arms its timer.  The
   callback is in force from its registration on, even if startup fails later,
   and no shutdown takes it back. *)
writeLoopTimeValue(c) ==
  /\ \E i \in 1..pos[c] : Steps[c][i] = "registerLoopTimeCallbacks"
  /\ armed' = armed \cup {c}
  /\ UNCHANGED << main, at, pos, ioThread, round, eventVars >>

-----------------------------------------------------------------------------
(* The I/O thread                                                          *)

(* Mutant: an element expires once. *)
ExpireOnce(c) ==
  /\ ioThread = "running" /\ round = None
  /\ c \in armed
  /\ round' = c
  /\ armed' = armed \ {c}
  /\ IF c = "event" THEN Source!BeginRound ELSE UNCHANGED eventVars
  /\ UNCHANGED << main, at, pos, ioThread >>

Expire(c) ==
  /\ ioThread = "running" /\ round = None
  /\ c \in armed
  /\ round' = c
  /\ IF c = "event" THEN Source!BeginRound ELSE UNCHANGED eventVars
  /\ UNCHANGED << main, at, pos, armed, ioThread >>

SendEvent ==
  /\ Source!SendEvent
  /\ UNCHANGED libVars

RoundEnds ==
  /\ round # None /\ next = 0
  /\ round' = None
  /\ UNCHANGED << main, at, pos, armed, ioThread, eventVars >>

-----------------------------------------------------------------------------
Startup == StartIoThread \/ StepSucceeds \/ StepFails \/ ComponentStarted \/ StartupReturns
Shutdown == ShutdownComponent \/ StopIoThread \/ JoinIoThread
Round == SendEvent \/ RoundEnds

Next ==
  \/ Startup
  \/ Stop
  \/ Shutdown
  \/ \E c \in Folders : writeLoopTimeValue(c)
  \/ \E c \in Timed : Expire(c)
  \/ Round

(* The threads go on, and the slot timer forgets none of its elements: one
   that has expired gets its turn between the rounds of the others. *)
Fairness ==
  /\ WF_vars(Startup)
  /\ WF_vars(Shutdown)
  /\ WF_vars(Round)
  /\ \A c \in Timed : SF_vars(Expire(c))

Spec == Init /\ [][Next]_vars
FairSpec == Spec /\ Fairness

-----------------------------------------------------------------------------
(* Properties                                                              *)

TypeOK ==
  /\ main \in {"loaded", "startup", "running", "shutdown", "stopped"}
  /\ at \in 0..(Len(Order) + 1)
  /\ pos \in [Components -> 0..5]
  /\ \A c \in Components : pos[c] <= Len(Steps[c])
  /\ armed \subseteq Timed
  /\ ioThread \in {"off", "running", "stopping"}
  /\ round \in Timed \cup {None}
  /\ Source!EventTypeOK

(* An event's number tells its node, although events may get lost and other
   components' rounds come in between. *)
NumberTellsSource == Source!NumberTellsSource

(* The components whose own requests do not fail come to be started in full,
   whatever becomes of the others. *)
ComponentsIndependent ==
  <>(\A c \in Components \ Failing : pos[c] = Len(Steps[c]))

(* One thread runs all rounds, yet a component with a timer whose startup has
   succeeded gets its turn again and again until the I/O thread is shut
   down. *)
RoundsShareThread ==
  \A c \in Timed :
    <>[](pos[c] = Len(Steps[c]) /\ ioThread = "running") => []<>(round = c)

(* No round runs once the shutdown has ended, although no component disarms
   its timer and clients may arm one at any time, and none has been cut short:
   the events of a round are sent all three or not at all. *)
QuietAfterShutdown == main = "stopped" => round = None /\ next = 0

(* The shutdown comes to an end, whatever timers are armed. *)
ShutdownEnds == main = "shutdown" ~> main = "stopped"
=============================================================================
