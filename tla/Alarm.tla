------------------------------- MODULE Alarm -------------------------------
(***************************************************************************)
(* The off-normal alarm of the demo server (Library/Alarm.cpp).            *)
(*                                                                         *)
(* The condition's state lives in variable nodes of the address space.     *)
(* Every setter and getter is one synchronous call on one node, so a       *)
(* handler is a sequence of single-node writes, followed by the reads of   *)
(* sendAlarmEvent and the request that fires the event.  No lock covers a  *)
(* handler.  Three kinds of thread run handlers:                           *)
(*   Main     runs startup, which ends with the nodes' default values;     *)
(*   Timer    runs timerLoop, the activation, on the library's I/O thread; *)
(*   Workers  run the method callbacks on the server's threads.            *)
(*                                                                         *)
(* A text node is abstracted to the state its text names ("Acknowledged"   *)
(* is True, "Unacknowledged" is False); Null is a node nobody has set.     *)
(* An event that carries Null in a Boolean field carries whatever the      *)
(* getter's uninitialised local variable held.                             *)
(***************************************************************************)
EXTENDS Naturals, Sequences

CONSTANTS Workers,      \* the server's threads that run method callbacks
          Methods,      \* the methods clients call
          Main, Timer   \* the application's main thread and its I/O thread

AllMethods == {"acknowledge", "confirm", "enabled", "disable", "conditionRefresh"}

ASSUME ThreadsAssumption ==
  /\ Main \notin Workers /\ Timer \notin Workers /\ Main # Timer
ASSUME MethodsAssumption == Methods \subseteq AllMethods

Threads == Workers \cup {Main, Timer}

(* The nodes that show the condition's state, and the node of its comment. *)
StateNodes ==
  {"ackedState", "ackedState_Id", "confirmedState", "confirmedState_Id",
   "activeState", "activeState_Id", "enabledState", "enabledState_Id"}

Nodes == StateNodes \cup {"comment"}

True == "true"
False == "false"
Null == "null"
Empty == "empty"      \* an empty comment

Values == {True, False, Null, Empty}

Ops == AllMethods \cup {"timerLoop", "startup"}

-----------------------------------------------------------------------------
(* What the handlers write, in the order of the code.                      *)

Set(n, v) == [node |-> n, value |-> v]

(* A definition whose comment begins with "Mutant" is a plausible bug in the
   definition that follows it; no module uses it, it only shows that some
   property would notice. *)

acknowledge == << Set("ackedState", True), Set("ackedState_Id", True) >>

(* Mutant: confirm leaves the acknowledgement to the client. *)
confirmWithoutAck == << Set("confirmedState", True), Set("confirmedState_Id", True) >>

confirm == << Set("ackedState", True), Set("ackedState_Id", True),
              Set("confirmedState", True), Set("confirmedState_Id", True) >>

enabled == << Set("enabledState", True), Set("enabledState_Id", True) >>

(* Mutants: the Id is forgotten, or copied from enabled. *)
disableTextOnly == << Set("enabledState", False) >>
disableIdTrue == << Set("enabledState", False), Set("enabledState_Id", True) >>

disable == << Set("enabledState", False), Set("enabledState_Id", False) >>

(* Mutants: one of the two fields of ActiveState is forgotten. *)
timerLoopIdOnly == << Set("ackedState", False), Set("ackedState_Id", False),
                      Set("confirmedState", False), Set("confirmedState_Id", False),
                      Set("activeState_Id", True) >>
timerLoopTextOnly == << Set("ackedState", False), Set("ackedState_Id", False),
                        Set("confirmedState", False), Set("confirmedState_Id", False),
                        Set("activeState", True) >>

timerLoop == << Set("ackedState", False), Set("ackedState_Id", False),
                Set("confirmedState", False), Set("confirmedState_Id", False),
                Set("activeState", True), Set("activeState_Id", True) >>

(* Mutant: the confirmation has no default value. *)
defaultsWithoutConfirmed ==
  << Set("ackedState", True), Set("ackedState_Id", True),
     Set("activeState", False), Set("activeState_Id", False),
     Set("enabledState", True), Set("enabledState_Id", True),
     Set("comment", Empty) >>

(* The default values startup sets. *)
defaults == << Set("ackedState", True), Set("ackedState_Id", True),
               Set("confirmedState", True), Set("confirmedState_Id", True),
               Set("activeState", False), Set("activeState_Id", False),
               Set("enabledState", True), Set("enabledState_Id", True),
               Set("comment", Empty) >>

Writes == [acknowledge |-> acknowledge, confirm |-> confirm, enabled |-> enabled,
           disable |-> disable, conditionRefresh |-> << >>,
           timerLoop |-> timerLoop, startup |-> defaults]

(* The nodes sendAlarmEvent reads, in the order of the code. *)
Reads == << "activeState", "activeState_Id", "ackedState", "ackedState_Id",
            "confirmedState", "confirmedState_Id", "enabledState", "enabledState_Id" >>

(* registerCallbacks registers acknowledge and confirm for the instance and
   for the type; the first failure ends it with the earlier ones in force. *)
Registrations == << "acknowledge", "acknowledge", "confirm", "confirm",
                    "enabled", "disable", "conditionRefresh" >>

-----------------------------------------------------------------------------
VARIABLES main,       \* where startup stands
          registered, \* how many of the Registrations are in force
          node,       \* the value of each node
          op,         \* the handler each thread runs, or "idle"
          step,       \* the handler's next step: writes, then reads, then the event
          seen,       \* what the handler's sendAlarmEvent has read so far
          late,       \* history: activation events fired since the alarm was disabled
          serial,     \* history: no two handlers have overlapped yet
          early       \* history: a client has called before startup was over

vars == << main, registered, node, op, step, seen, late, serial, early >>

NothingSeen == [n \in StateNodes |-> Null]

Init ==
  /\ main = "getNamespaceInfo"
  /\ registered = 0
  /\ node = [n \in Nodes |-> Null]
  /\ op = [t \in Threads |-> "idle"]
  /\ step = [t \in Threads |-> 1]
  /\ seen = [t \in Threads |-> NothingSeen]
  /\ late = 0
  /\ serial = TRUE
  /\ early = FALSE

-----------------------------------------------------------------------------
(* Handlers                                                                *)

Begin(t, o) ==
  /\ op' = [op EXCEPT ![t] = o]
  /\ step' = [step EXCEPT ![t] = 1]
  /\ serial' = (serial /\ \A u \in Threads : op[u] = "idle")
  /\ early' = (early \/ (t \in Workers /\ main \notin {"started", "failed"}))

Writing(t) == op[t] # "idle" /\ step[t] <= Len(Writes[op[t]])

(* One setter: the node is overwritten, whatever it holds. *)
WriteNode(t) ==
  /\ Writing(t)
  /\ LET w == Writes[op[t]][step[t]] IN
       /\ node' = [node EXCEPT ![w.node] = w.value]
       /\ late' = IF w.node = "enabledState_Id" /\ w.value = True THEN 0 ELSE late
  /\ step' = [step EXCEPT ![t] = @ + 1]
  /\ UNCHANGED << main, registered, op, seen, serial, early >>

(* How many reads of sendAlarmEvent the handler has done, plus one. *)
ReadIndex(t) == step[t] - Len(Writes[op[t]])

Sending(t) == op[t] \notin {"idle", "startup"} /\ step[t] > Len(Writes[op[t]])

(* One getter of sendAlarmEvent. *)
ReadNode(t) ==
  /\ Sending(t)
  /\ ReadIndex(t) <= Len(Reads)
  /\ LET n == Reads[ReadIndex(t)] IN
       seen' = [seen EXCEPT ![t][n] = node[n]]
  /\ step' = [step EXCEPT ![t] = @ + 1]
  /\ UNCHANGED << main, registered, node, op, late, serial, early >>

AboutToFire(t) == Sending(t) /\ ReadIndex(t) > Len(Reads)

(* sendSync of the FireEvent request; its outcome is only logged.  The
   handler returns. *)
FireEvent(t) ==
  /\ AboutToFire(t)
  /\ late' = IF op[t] = "timerLoop" /\ node["enabledState_Id"] = False
               THEN late + 1 ELSE late
  /\ op' = [op EXCEPT ![t] = "idle"]
  /\ step' = [step EXCEPT ![t] = 1]
  /\ seen' = [seen EXCEPT ![t] = NothingSeen]
  /\ UNCHANGED << main, registered, node, serial, early >>

(* A client's method call reaches a worker; a method is callable once its
   registration is in force.  The arguments of acknowledge and confirm, the
   identifier of an event and a comment, reach the callback, which reads
   neither. *)
Call(w, m) ==
  /\ op[w] = "idle"
  /\ \E i \in 1..registered : Registrations[i] = m
  /\ Begin(w, m)
  /\ UNCHANGED << main, registered, node, seen, late >>

(* Mutants: the check of enabledState_Id is missing, or inverted. *)
ExpireUnchecked ==
  /\ main = "started"
  /\ op[Timer] = "idle"
  /\ Begin(Timer, "timerLoop")
  /\ UNCHANGED << main, registered, node, seen, late >>

ExpireInverted ==
  /\ main = "started"
  /\ op[Timer] = "idle"
  /\ node["enabledState_Id"] = False
  /\ Begin(Timer, "timerLoop")
  /\ UNCHANGED << main, registered, node, seen, late >>

(* The timer expires: timerLoop returns at once unless the alarm is enabled. *)
Expire ==
  /\ main = "started"
  /\ op[Timer] = "idle"
  /\ node["enabledState_Id"] = True
  /\ Begin(Timer, "timerLoop")
  /\ UNCHANGED << main, registered, node, seen, late >>

-----------------------------------------------------------------------------
(* Startup                                                                 *)

(* A service call of startup: on failure startup returns false, and nothing
   that was done is undone. *)
Lookup(from, to) ==
  /\ main = from
  /\ main' \in {to, "failed"}
  /\ UNCHANGED << registered, node, op, step, seen, late, serial, early >>

getNamespaceInfo == Lookup("getNamespaceInfo", "getNodeIds")
getNodeIds == Lookup("getNodeIds", "createNodeReferences")
createNodeReferences == Lookup("createNodeReferences", "registerCallbacks")

(* Mutant: the loop runs once too often. *)
registerCallbackTooOften ==
  /\ main = "registerCallbacks"
  /\ registered <= Len(Registrations)
  /\ \/ registered' = registered + 1 /\ main' = main
     \/ registered' = registered /\ main' = "failed"
  /\ UNCHANGED << node, op, step, seen, late, serial, early >>

registerCallback ==
  /\ main = "registerCallbacks"
  /\ registered < Len(Registrations)
  /\ \/ registered' = registered + 1 /\ main' = main
     \/ registered' = registered /\ main' = "failed"
  /\ UNCHANGED << node, op, step, seen, late, serial, early >>

(* The default values are written by WriteNode(Main). *)
SetDefaults ==
  /\ main = "registerCallbacks"
  /\ registered = Len(Registrations)
  /\ main' = "defaults"
  /\ Begin(Main, "startup")
  /\ UNCHANGED << registered, node, seen, late >>

startTimerLoop ==
  /\ main = "defaults"
  /\ ~Writing(Main)
  /\ main' = "started"
  /\ op' = [op EXCEPT ![Main] = "idle"]
  /\ step' = [step EXCEPT ![Main] = 1]
  /\ UNCHANGED << registered, node, seen, late, serial, early >>

-----------------------------------------------------------------------------
Startup ==
  \/ getNamespaceInfo \/ getNodeIds \/ createNodeReferences
  \/ registerCallback \/ SetDefaults \/ startTimerLoop

HandlerStep(t) == WriteNode(t) \/ ReadNode(t) \/ FireEvent(t)

Next ==
  \/ Startup
  \/ Expire
  \/ \E w \in Workers, m \in Methods : Call(w, m)
  \/ \E t \in Threads : HandlerStep(t)

(* Every thread that runs a handler goes on, and the timer keeps expiring;
   nothing obliges a client to call. *)
Fairness ==
  /\ WF_vars(Startup)
  /\ WF_vars(Expire)
  /\ \A t \in Threads : WF_vars(HandlerStep(t))

Spec == Init /\ [][Next]_vars
FairSpec == Spec /\ Fairness

-----------------------------------------------------------------------------
(* Properties                                                              *)

MainStates == {"getNamespaceInfo", "getNodeIds", "createNodeReferences",
               "registerCallbacks", "defaults", "started", "failed"}

(* Every variable has its type; a handler's step stays within its writes,
   reads and event. *)
TypeOK ==
  /\ main \in MainStates
  /\ registered \in 0..Len(Registrations)
  /\ node \in [Nodes -> Values]
  /\ op \in [Threads -> Ops \cup {"idle"}]
  /\ step \in [Threads -> Nat \ {0}]
  /\ seen \in [Threads -> [StateNodes -> Values]]
  /\ late \in Nat
  /\ serial \in BOOLEAN
  /\ early \in BOOLEAN

(* A disable (Alarm::disable) takes effect on the timer's very next check:
   while the alarm is disabled at most one "alarm activated..." event is
   fired, the one of an activation that had passed its check before. *)
AtMostOneLateActivation == late <= 1

(* Some thread is between the two writes of the pair text, id. *)
MidPair(id) ==
  \E t \in Threads : Writing(t) /\ Writes[op[t]][step[t]].node = id

PairAgrees(text, id) == MidPair(id) \/ node[text] = node[id]

(* ActiveState and its Id tell the same story to a client that reads both
   outside the activation, whatever the workers do: only startup and
   timerLoop write them, and never at the same time. *)
ActivePairAgrees == PairAgrees("activeState", "activeState_Id")

Idle == \A t \in Threads : op[t] = "idle"

(* As long as handlers have never overlapped, an idle alarm is coherent: the
   pairs agree, an unacknowledged alarm is not confirmed, and only an alarm
   that has been active can wait for a confirmation. *)
SerialAlarmCoherent ==
  serial /\ Idle /\ main = "started" =>
    /\ node["ackedState"] = node["ackedState_Id"]
    /\ node["confirmedState"] = node["confirmedState_Id"]
    /\ node["activeState"] = node["activeState_Id"]
    /\ node["enabledState"] = node["enabledState_Id"]
    /\ node["confirmedState_Id"] = True => node["ackedState_Id"] = True
    /\ node["confirmedState_Id"] = False => node["activeState_Id"] = True

(* An event reports a value nobody wrote (an uninitialised Boolean, an empty
   text) only when a client called before the defaults were set, or after a
   startup that failed but left callbacks registered. *)
EventsDefined ==
  ~early /\ main # "failed" =>
    \A t \in Threads : AboutToFire(t) => \A n \in StateNodes : seen[t][n] # Null

(* The event of an activation says that the alarm is active, in both fields,
   however the workers interleave. *)
ActivationReportsActive ==
  \A t \in Threads : AboutToFire(t) /\ op[t] = "timerLoop" =>
    seen[t]["activeState"] = True /\ seen[t]["activeState_Id"] = True

(* If the alarm is enabled from some time on, timerLoop activates it again
   and again, whatever clients acknowledge and confirm in between. *)
ReactivatesWhileEnabled ==
  <>[](main = "started" /\ node["enabledState_Id"] = True)
    => []<>(op[Timer] = "timerLoop" /\ AboutToFire(Timer))

-----------------------------------------------------------------------------
(* Refinement                                                              *)

NodeOf == [Acked |-> [Text |-> "ackedState", Id |-> "ackedState_Id"],
           Confirmed |-> [Text |-> "confirmedState", Id |-> "confirmedState_Id"],
           Active |-> [Text |-> "activeState", Id |-> "activeState_Id"],
           Enabled |-> [Text |-> "enabledState", Id |-> "enabledState_Id"]]

StateFields == (DOMAIN NodeOf) \X {"Text", "Id"}

(* The fields a handler has still to write at each of its steps. *)
Unwritten ==
  [o \in Ops |-> [i \in 1..Len(Writes[o]) |->
     {sf \in StateFields :
        \E j \in i..Len(Writes[o]) : Writes[o][j].node = NodeOf[sf[1]][sf[2]]}]]

Condition ==
  INSTANCE AlarmCondition WITH
    field <- [s \in DOMAIN NodeOf |-> [f \in DOMAIN NodeOf[s] |-> node[NodeOf[s][f]]]],
    running <- op,
    todo <- [t \in Threads |-> IF Writing(t) THEN Unwritten[op[t]][step[t]] ELSE {}]

(* The handlers keep the promise of AlarmCondition: each brings exactly its
   own variables to its own states, once, before it returns, and the timer
   activates only an enabled alarm. *)
ImplementsCondition == Condition!Spec
=============================================================================
