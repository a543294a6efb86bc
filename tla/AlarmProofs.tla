----------------------------- MODULE AlarmProofs -----------------------------
(***************************************************************************)
(* Theorems about Alarm for every set of workers, every set of methods the *)
(* clients call, and whether or not they call before startup is over.      *)
(***************************************************************************)
EXTENDS Alarm, TLAPS

-----------------------------------------------------------------------------
(* Facts about the handlers' tables                                        *)

(* Every step of a handler that writes sets a node to a state. *)
LEMMA WritesType ==
  ASSUME NEW o \in Ops, NEW i \in Nat \ {0}, i <= Len(Writes[o])
  PROVE  /\ Writes[o][i].node \in Nodes
         /\ Writes[o][i].value \in {True, False, Empty}
         /\ Writes[o][i].node # "comment" => Writes[o][i].value \in {True, False}
<1>1. CASE o = "acknowledge"
  <2>1. i \in {1, 2}
    BY <1>1, SMT DEF Writes, acknowledge, Set
  <2> QED BY <1>1, <2>1, SMT DEF Writes, acknowledge, Set, Nodes, StateNodes, True, False, Empty
<1>2. CASE o = "confirm"
  <2>1. i \in {1, 2, 3, 4}
    BY <1>2, SMT DEF Writes, confirm, Set
  <2> QED BY <1>2, <2>1, SMT DEF Writes, confirm, Set, Nodes, StateNodes, True, False, Empty
<1>3. CASE o = "enabled"
  <2>1. i \in {1, 2}
    BY <1>3, SMT DEF Writes, enabled, Set
  <2> QED BY <1>3, <2>1, SMT DEF Writes, enabled, Set, Nodes, StateNodes, True, False, Empty
<1>4. CASE o = "disable"
  <2>1. i \in {1, 2}
    BY <1>4, SMT DEF Writes, disable, Set
  <2> QED BY <1>4, <2>1, SMT DEF Writes, disable, Set, Nodes, StateNodes, True, False, Empty
<1>5. CASE o = "conditionRefresh"
  <2>1. Len(Writes[o]) = 0
    BY <1>5, SMT DEF Writes
  <2> QED BY <2>1, SMT
<1>6. CASE o = "timerLoop"
  <2>1. i \in {1, 2, 3, 4, 5, 6}
    BY <1>6, SMT DEF Writes, timerLoop, Set
  <2> QED BY <1>6, <2>1, SMT DEF Writes, timerLoop, Set, Nodes, StateNodes, True, False, Empty
<1>7. CASE o = "startup"
  <2>1. i \in {1, 2, 3, 4, 5, 6, 7, 8, 9}
    BY <1>7, SMT DEF Writes, defaults, Set
  <2> QED BY <1>7, <2>1, SMT DEF Writes, defaults, Set, Nodes, StateNodes, True, False, Empty
<1> QED BY <1>1, <1>2, <1>3, <1>4, <1>5, <1>6, <1>7 DEF Ops, AllMethods

(* sendAlarmEvent reads the nodes the handlers write. *)
LEMMA ReadsType ==
  /\ Len(Reads) = 8
  /\ \A i \in 1..8 : Reads[i] \in StateNodes
<1>1. Len(Reads) = 8
  BY SMT DEF Reads
<1>2. ASSUME NEW i \in 1..8 PROVE Reads[i] \in StateNodes
  <2>1. i \in {1, 2, 3, 4, 5, 6, 7, 8}
    BY SMT
  <2> QED BY <2>1, SMT DEF Reads, StateNodes
<1> QED BY <1>1, <1>2

(* The number of writes is a natural number. *)
LEMMA WritesLen ==
  /\ Len(Writes["acknowledge"]) = 2 /\ Len(Writes["confirm"]) = 4
  /\ Len(Writes["enabled"]) = 2 /\ Len(Writes["disable"]) = 2
  /\ Len(Writes["conditionRefresh"]) = 0
  /\ Len(Writes["timerLoop"]) = 6 /\ Len(Writes["startup"]) = 9
BY SMT DEF Writes, acknowledge, confirm, enabled, disable, timerLoop, defaults

LEMMA WritesLenNat == \A o \in Ops : Len(Writes[o]) \in Nat
BY WritesLen DEF Ops, AllMethods

-----------------------------------------------------------------------------
(* Types                                                                   *)

(* TypeOK, and which handlers each thread can be running: the activation
   runs only on the I/O thread after startup, startup only on the main one. *)
Typed ==
  /\ TypeOK
  /\ \A w \in Workers : op[w] \in AllMethods \cup {"idle"}
  /\ op[Main] = IF main = "defaults" THEN "startup" ELSE "idle"
  /\ op[Timer] \in {"idle", "timerLoop"}
  /\ op[Timer] = "timerLoop" => main = "started"

LEMMA InitTyped == Init => Typed
<1> SUFFICES ASSUME Init PROVE Typed
  OBVIOUS
<1>1. NothingSeen \in [StateNodes -> Values]
  BY DEF NothingSeen, Values
<1>2. node \in [Nodes -> Values]
  BY DEF Init, Values
<1>3. /\ main \in MainStates
      /\ registered \in 0..Len(Registrations)
  BY SMT DEF Init, MainStates, Registrations
<1>4. /\ op \in [Threads -> Ops \cup {"idle"}]
      /\ step \in [Threads -> Nat \ {0}]
      /\ seen \in [Threads -> [StateNodes -> Values]]
  BY <1>1 DEF Init
<1>5. TypeOK
  BY <1>2, <1>3, <1>4 DEF Init, TypeOK
<1>6. \A t \in Threads : op[t] = "idle"
  BY DEF Init
<1> QED BY <1>5, <1>6 DEF Typed, Threads, Init

(* The node a handler writes, and the state it writes there, are of the
   tables' types. *)
LEMMA WritingType ==
  ASSUME Typed, NEW t \in Threads, Writing(t)
  PROVE  /\ op[t] \in Ops
         /\ Writes[op[t]][step[t]].node \in Nodes
         /\ Writes[op[t]][step[t]].value \in {True, False, Empty}
         /\ Writes[op[t]][step[t]].node # "comment" => Writes[op[t]][step[t]].value \in {True, False}
<1>1. op[t] \in Ops /\ step[t] \in Nat \ {0} /\ step[t] <= Len(Writes[op[t]])
  BY DEF Typed, TypeOK, Writing
<1> QED BY <1>1, WritesType

LEMMA NextTyped == Typed /\ [Next]_vars => Typed'
<1> SUFFICES ASSUME Typed, [Next]_vars PROVE Typed'
  OBVIOUS
<1> USE DEF Typed, TypeOK
<1>1. ASSUME NEW t \in Threads, WriteNode(t) PROVE Typed'
  <2>1. /\ Writes[op[t]][step[t]].node \in Nodes
        /\ Writes[op[t]][step[t]].value \in {True, False, Empty}
    BY <1>1, WritingType DEF WriteNode
  <2>2. node' \in [Nodes -> Values] /\ late' \in Nat
    BY <1>1, <2>1, SMT DEF WriteNode, Values
  <2>3. step' \in [Threads -> Nat \ {0}]
    BY <1>1, SMT DEF WriteNode
  <2> QED BY <1>1, <2>2, <2>3 DEF WriteNode
<1>2. ASSUME NEW t \in Threads, ReadNode(t) PROVE Typed'
  <2>1. op[t] \in Ops
    BY <1>2 DEF ReadNode, Sending
  <2>2. ReadIndex(t) \in 1..8
    <3> DEFINE n == step[t]
               l == Len(Writes[op[t]])
    <3>1. l \in Nat /\ n \in Nat
      BY <2>1, WritesLenNat
    <3>2. n > l /\ n - l <= 8 /\ ReadIndex(t) = n - l
      BY <1>2, ReadsType DEF ReadNode, Sending, ReadIndex
    <3> HIDE DEF n, l
    <3> QED BY <3>1, <3>2, SMT
  <2>3. Reads[ReadIndex(t)] \in StateNodes
    BY <2>2, ReadsType
  <2>4. seen' \in [Threads -> [StateNodes -> Values]]
    <3>1. node[Reads[ReadIndex(t)]] \in Values
      BY <2>3 DEF Nodes
    <3>2. seen' = [seen EXCEPT ![t] = [@ EXCEPT ![Reads[ReadIndex(t)]] = node[Reads[ReadIndex(t)]]]]
      BY <1>2 DEF ReadNode
    <3>3. seen[t] \in [StateNodes -> Values]
      OBVIOUS
    <3>4. [seen[t] EXCEPT ![Reads[ReadIndex(t)]] = node[Reads[ReadIndex(t)]]] \in [StateNodes -> Values]
      BY <2>3, <3>1, <3>3
    <3> QED BY <3>2, <3>4
  <2>5. step' \in [Threads -> Nat \ {0}]
    BY <1>2, SMT DEF ReadNode
  <2> QED BY <1>2, <2>4, <2>5 DEF ReadNode
<1>3. ASSUME NEW t \in Threads, FireEvent(t) PROVE Typed'
  <2>1. NothingSeen \in [StateNodes -> Values]
    BY DEF NothingSeen, Values
  <2>2. t # Main
    BY <1>3 DEF FireEvent, AboutToFire, Sending
  <2> QED BY <1>3, <2>1, <2>2, ThreadsAssumption, SMT DEF FireEvent, Threads
<1>4. ASSUME NEW w \in Workers, NEW m \in Methods, Call(w, m) PROVE Typed'
  BY <1>4, ThreadsAssumption, MethodsAssumption, SMT DEF Call, Begin, Threads, Ops
<1>5. CASE Expire
  BY <1>5, ThreadsAssumption, SMT DEF Expire, Begin, Threads, Ops
<1>6. CASE getNamespaceInfo \/ getNodeIds \/ createNodeReferences
  BY <1>6, SMT DEF getNamespaceInfo, getNodeIds, createNodeReferences, Lookup, MainStates
<1>7. CASE registerCallback
  BY <1>7, SMT DEF registerCallback, Registrations, MainStates
<1>8. CASE SetDefaults
  BY <1>8, ThreadsAssumption, SMT DEF SetDefaults, Begin, Threads, Ops, MainStates
<1>9. CASE startTimerLoop
  BY <1>9, ThreadsAssumption, SMT DEF startTimerLoop, Threads, Ops, MainStates
<1>10. CASE UNCHANGED vars
  BY <1>10 DEF vars
<1> QED
  BY <1>1, <1>2, <1>3, <1>4, <1>5, <1>6, <1>7, <1>8, <1>9, <1>10 DEF Next, Startup, HandlerStep

(* Every variable keeps its type, and each handler stays on its thread. *)
THEOREM AlwaysTyped == Spec => []Typed
<1> QED BY InitTyped, NextTyped, PTL DEF Spec

THEOREM TypeCorrect == Spec => []TypeOK
<1>1. Typed => TypeOK
  BY DEF Typed
<1> QED BY <1>1, AlwaysTyped, PTL

-----------------------------------------------------------------------------
(* A disable is final for the timer                                        *)

(* While the alarm is disabled, one late event is possible only as long as
   the timer is still in an activation it began before; once that event is
   out, the timer is idle and cannot begin another. *)
LateInv ==
  /\ Typed
  /\ AtMostOneLateActivation
  /\ node["enabledState_Id"] # False => late = 0
  /\ op[Timer] = "timerLoop" => late = 0

LEMMA NextLate == LateInv /\ [Next]_vars => LateInv'
<1> SUFFICES ASSUME LateInv, [Next]_vars PROVE LateInv'
  OBVIOUS
<1>typed. Typed /\ Typed'
  BY NextTyped DEF LateInv
<1>nodes. "enabledState_Id" \in Nodes
  BY DEF Nodes, StateNodes
<1> USE <1>nodes DEF LateInv, AtMostOneLateActivation
<1>1. ASSUME NEW t \in Threads, WriteNode(t) PROVE LateInv'
  <2> DEFINE w == Writes[op[t]][step[t]]
  <2>1. w.node \in Nodes /\ (w.node # "comment" => w.value \in {True, False})
    BY <1>1, <1>typed, WritingType DEF WriteNode
  <2>2. node' = [node EXCEPT ![w.node] = w.value] /\ op' = op
    BY <1>1 DEF WriteNode
  <2>3. node \in [Nodes -> Values]
    BY <1>typed DEF Typed, TypeOK
  <2>4. CASE w.node = "enabledState_Id" /\ w.value = True
    <3>1. late' = 0
      BY <1>1, <2>4 DEF WriteNode
    <3> QED BY <3>1, <1>typed
  <2>5. CASE w.node = "enabledState_Id" /\ w.value = False
    <3>1. late' = late /\ node'["enabledState_Id"] = False
      BY <1>1, <2>2, <2>3, <2>5 DEF WriteNode, True, False
    <3> QED BY <3>1, <2>2, <1>typed
  <2>6. CASE w.node # "enabledState_Id"
    <3>1. late' = late /\ node'["enabledState_Id"] = node["enabledState_Id"]
      BY <1>1, <2>1, <2>2, <2>3, <2>6 DEF WriteNode
    <3> QED BY <3>1, <2>2, <1>typed
  <2> QED BY <2>1, <2>4, <2>5, <2>6
<1>2. ASSUME NEW t \in Threads, FireEvent(t) PROVE LateInv'
  <2>1. node' = node /\ op' = [op EXCEPT ![t] = "idle"]
    BY <1>2 DEF FireEvent
  <2>2. op \in [Threads -> Ops \cup {"idle"}] /\ Timer \in Threads
    BY <1>typed DEF Typed, TypeOK, Threads
  <2>3. CASE op[t] = "timerLoop" /\ node["enabledState_Id"] = False
    <3>1. t = Timer
      BY <2>3, <1>typed, ThreadsAssumption DEF Typed, Threads, AllMethods
    <3>2. op'[Timer] = "idle" /\ late' = 1
      BY <1>2, <2>1, <2>2, <2>3, <3>1, SMT DEF FireEvent
    <3> QED BY <2>1, <2>3, <3>2, <1>typed
  <2>4. CASE ~(op[t] = "timerLoop" /\ node["enabledState_Id"] = False)
    <3>1. late' = late /\ (op'[Timer] = "timerLoop" => op[Timer] = "timerLoop")
      BY <1>2, <2>1, <2>2, <2>4 DEF FireEvent
    <3> QED BY <2>1, <3>1, <1>typed
  <2> QED BY <2>3, <2>4
<1>3. ASSUME NEW t \in Threads, ReadNode(t) PROVE LateInv'
  BY <1>3, <1>typed DEF ReadNode
<1>4. ASSUME NEW w \in Workers, NEW m \in Methods, Call(w, m) PROVE LateInv'
  <2>1. op'[Timer] = op[Timer]
    BY <1>4, <1>typed, ThreadsAssumption DEF Call, Begin, Typed, TypeOK, Threads
  <2> QED BY <1>4, <2>1, <1>typed DEF Call
<1>5. CASE Expire
  BY <1>5, <1>typed, SMT DEF Expire, True, False
<1>6. CASE Startup
  <2>1. op'[Timer] = op[Timer] /\ node' = node /\ late' = late
    BY <1>6, <1>typed, ThreadsAssumption
       DEF Startup, getNamespaceInfo, getNodeIds, createNodeReferences, Lookup,
           registerCallback, SetDefaults, startTimerLoop, Begin, Typed, TypeOK, Threads
  <2> QED BY <2>1, <1>typed
<1>7. CASE UNCHANGED vars
  BY <1>7, <1>typed DEF vars
<1> QED BY <1>1, <1>2, <1>3, <1>4, <1>5, <1>6, <1>7 DEF Next, HandlerStep

(* AtMostOneLateActivation holds for any number of workers: a disable that
   has returned can be followed by at most one more activation event. *)
THEOREM DisableStopsActivations == Spec => []AtMostOneLateActivation
<1>1. Init => LateInv
  <2>1. ASSUME Init PROVE node["enabledState_Id"] = Null /\ late = 0 /\ op[Timer] = "idle"
    BY <2>1, SMT DEF Init, Nodes, StateNodes, Threads
  <2> QED BY <2>1, InitTyped, SMT DEF LateInv, AtMostOneLateActivation
<1>2. LateInv => AtMostOneLateActivation
  BY DEF LateInv
<1> QED BY <1>1, <1>2, NextLate, PTL DEF Spec

-----------------------------------------------------------------------------
(* The two fields of ActiveState                                           *)

(* Only startup and timerLoop write the fields of ActiveState, as their
   fifth and sixth write. *)
LEMMA ActiveWrites ==
  ASSUME NEW o \in Ops, NEW i \in Nat \ {0}, i <= Len(Writes[o])
  PROVE  /\ Writes[o][i].node = "activeState" <=> (o \in {"timerLoop", "startup"} /\ i = 5)
         /\ Writes[o][i].node = "activeState_Id" <=> (o \in {"timerLoop", "startup"} /\ i = 6)
         /\ o = "timerLoop" /\ i \in {5, 6} => Writes[o][i].value = True
         /\ o = "startup" /\ i \in {5, 6} => Writes[o][i].value = False
<1>1. CASE o = "acknowledge"
  <2>1. i \in {1, 2}
    BY <1>1, SMT DEF Writes, acknowledge, Set
  <2> QED BY <1>1, <2>1, SMT DEF Writes, acknowledge, Set
<1>2. CASE o = "confirm"
  <2>1. i \in {1, 2, 3, 4}
    BY <1>2, SMT DEF Writes, confirm, Set
  <2> QED BY <1>2, <2>1, SMT DEF Writes, confirm, Set
<1>3. CASE o = "enabled"
  <2>1. i \in {1, 2}
    BY <1>3, SMT DEF Writes, enabled, Set
  <2> QED BY <1>3, <2>1, SMT DEF Writes, enabled, Set
<1>4. CASE o = "disable"
  <2>1. i \in {1, 2}
    BY <1>4, SMT DEF Writes, disable, Set
  <2> QED BY <1>4, <2>1, SMT DEF Writes, disable, Set
<1>5. CASE o = "conditionRefresh"
  <2>1. Len(Writes[o]) = 0
    BY <1>5, WritesLen
  <2> QED BY <2>1, SMT
<1>6. CASE o = "timerLoop"
  <2>1. i \in {1, 2, 3, 4, 5, 6}
    BY <1>6, SMT DEF Writes, timerLoop, Set
  <2> QED BY <1>6, <2>1, SMT DEF Writes, timerLoop, Set, True, False
<1>7. CASE o = "startup"
  <2>1. i \in {1, 2, 3, 4, 5, 6, 7, 8, 9}
    BY <1>7, SMT DEF Writes, defaults, Set
  <2> QED BY <1>7, <2>1, SMT DEF Writes, defaults, Set, True, False
<1> QED BY <1>1, <1>2, <1>3, <1>4, <1>5, <1>6, <1>7 DEF Ops, AllMethods

(* sendAlarmEvent reads the fields of ActiveState first, each once. *)
LEMMA ActiveReads ==
  ASSUME NEW i \in 1..8
  PROVE  /\ Reads[i] = "activeState" <=> i = 1
         /\ Reads[i] = "activeState_Id" <=> i = 2
<1>1. i \in {1, 2, 3, 4, 5, 6, 7, 8}
  BY SMT
<1> QED BY <1>1, SMT DEF Reads

(* The I/O thread has begun step i of the activation. *)
TimerPast(i) == op[Timer] = "timerLoop" /\ step[Timer] > i
MainAt(i) == op[Main] = "startup" /\ step[Main] = i

(* What the fields of ActiveState, and what the activation has read of them,
   are at each step of the two handlers that write them. *)
ActiveInv ==
  /\ Typed
  /\ MainAt(6) => node["activeState"] = False
  /\ TimerPast(5) => node["activeState"] = True
  /\ TimerPast(6) => node["activeState_Id"] = True
  /\ TimerPast(7) => seen[Timer]["activeState"] = True
  /\ TimerPast(8) => seen[Timer]["activeState_Id"] = True
  /\ ~MainAt(6) /\ ~(op[Timer] = "timerLoop" /\ step[Timer] = 6)
       => node["activeState"] = node["activeState_Id"]

(* A step of another thread than t, or no step at all, leaves t's handler
   where it is. *)
LEMMA OthersKeep ==
  ASSUME Typed, NEW t \in Threads, NEW u \in Threads, u # t,
         HandlerStep(u)
  PROVE  op'[t] = op[t] /\ step'[t] = step[t] /\ seen'[t] = seen[t]
BY DEF HandlerStep, WriteNode, ReadNode, FireEvent, Typed, TypeOK

LEMMA WriteNodeActive ==
  ASSUME ActiveInv, NEW t \in Threads, WriteNode(t)
  PROVE  ActiveInv'
<1> DEFINE w == Writes[op[t]][step[t]]
<1>1. Typed /\ Typed' /\ Main \in Threads /\ Timer \in Threads /\ Main # Timer
  BY NextTyped, ThreadsAssumption DEF ActiveInv, Next, HandlerStep, Threads
<1>2. /\ op[t] \in Ops /\ step[t] \in Nat \ {0} /\ step[t] <= Len(Writes[op[t]])
      /\ node \in [Nodes -> Values]
      /\ "activeState" \in Nodes /\ "activeState_Id" \in Nodes
  BY <1>1, WritingType DEF WriteNode, Writing, Typed, TypeOK, Nodes, StateNodes
<1>3. /\ w.node = "activeState" <=> (op[t] \in {"timerLoop", "startup"} /\ step[t] = 5)
      /\ w.node = "activeState_Id" <=> (op[t] \in {"timerLoop", "startup"} /\ step[t] = 6)
      /\ op[t] = "timerLoop" /\ step[t] \in {5, 6} => w.value = True
      /\ op[t] = "startup" /\ step[t] \in {5, 6} => w.value = False
  BY <1>2, ActiveWrites
<1>4. /\ node' = [node EXCEPT ![w.node] = w.value]
      /\ op' = op /\ step' = [step EXCEPT ![t] = @ + 1] /\ seen' = seen /\ main' = main
  BY DEF WriteNode
<1>5. /\ w.node # "activeState" => node'["activeState"] = node["activeState"]
      /\ w.node # "activeState_Id" => node'["activeState_Id"] = node["activeState_Id"]
      /\ w.node = "activeState" => node'["activeState"] = w.value
      /\ w.node = "activeState_Id" => node'["activeState_Id"] = w.value
  BY <1>2, <1>4
<1>6. \/ op[t] = "timerLoop" /\ t = Timer /\ op[Main] = "idle"
      \/ op[t] = "startup" /\ t = Main /\ op[Timer] = "idle"
      \/ op[t] \notin {"timerLoop", "startup"} /\ t # Main /\ t # Timer
  BY <1>1 DEF Typed, Threads, AllMethods, WriteNode, Writing
<1>7. /\ step'[t] = step[t] + 1
      /\ step[Main] \in Nat \ {0} /\ step[Timer] \in Nat \ {0}
      /\ Main # t => step'[Main] = step[Main]
      /\ Timer # t => step'[Timer] = step[Timer]
  BY <1>1, <1>4 DEF Typed, TypeOK
<1>8. /\ op[t] = "timerLoop" => step[t] <= 6
      /\ op[t] = "startup" => step[t] <= 9
  BY <1>2, WritesLen
<1> USE DEF ActiveInv, MainAt, TimerPast
<1>9. CASE op[t] = "timerLoop"
  BY <1>1, <1>3, <1>4, <1>5, <1>6, <1>7, <1>8, <1>9, SMT
<1>10. CASE op[t] = "startup"
  BY <1>1, <1>3, <1>4, <1>5, <1>6, <1>7, <1>8, <1>10, SMT
<1>11. CASE op[t] \notin {"timerLoop", "startup"}
  BY <1>1, <1>3, <1>4, <1>5, <1>6, <1>7, <1>11, SMT
<1> QED BY <1>9, <1>10, <1>11

LEMMA ReadNodeActive ==
  ASSUME ActiveInv, NEW t \in Threads, ReadNode(t)
  PROVE  ActiveInv'
<1>1. Typed /\ Typed' /\ Main \in Threads /\ Timer \in Threads /\ Main # Timer
  BY NextTyped, ThreadsAssumption DEF ActiveInv, Next, HandlerStep, Threads
<1>2. t # Main
  BY <1>1 DEF ReadNode, Sending, Typed
<1>3. op' = op /\ node' = node /\ step' = [step EXCEPT ![t] = @ + 1]
  BY DEF ReadNode
<1>4. CASE t # Timer
  <2>1. step'[Timer] = step[Timer] /\ seen'[Timer] = seen[Timer] /\ step'[Main] = step[Main]
    BY <1>1, <1>2, <1>4, OthersKeep DEF HandlerStep
  <2> QED BY <1>1, <1>3, <2>1 DEF ActiveInv, MainAt, TimerPast
<1>5. CASE t = Timer
  <2>1. step'[Timer] = step[Timer] + 1 /\ step'[Main] = step[Main] /\ step[Timer] \in Nat
    BY <1>1, <1>3, <1>5 DEF Typed, TypeOK
  <2>2. op[Timer] = "timerLoop" /\ ReadIndex(t) = step[Timer] - 6 /\ ReadIndex(t) \in 1..8
    <3>1. op[Timer] = "timerLoop"
      BY <1>1, <1>5 DEF ReadNode, Sending, Typed
    <3>2. step[Timer] > 6 /\ ReadIndex(t) = step[Timer] - 6 /\ ReadIndex(t) <= 8
      BY <1>5, <3>1, WritesLen, ReadsType DEF ReadNode, Sending, ReadIndex
    <3> QED BY <2>1, <3>1, <3>2, SMT
  <2>3. /\ Reads[ReadIndex(t)] = "activeState" <=> step[Timer] = 7
        /\ Reads[ReadIndex(t)] = "activeState_Id" <=> step[Timer] = 8
    BY <2>1, <2>2, ActiveReads, SMT
  <2>4. seen' = [seen EXCEPT ![Timer][Reads[ReadIndex(t)]] = node[Reads[ReadIndex(t)]]]
    BY <1>5 DEF ReadNode
  <2>5. /\ seen \in [Threads -> [StateNodes -> Values]]
        /\ "activeState" \in StateNodes /\ "activeState_Id" \in StateNodes
    BY <1>1 DEF Typed, TypeOK, StateNodes
  <2>6. /\ step[Timer] = 7 => seen'[Timer]["activeState"] = node["activeState"]
        /\ step[Timer] # 7 => seen'[Timer]["activeState"] = seen[Timer]["activeState"]
        /\ step[Timer] = 8 => seen'[Timer]["activeState_Id"] = node["activeState_Id"]
        /\ step[Timer] # 8 => seen'[Timer]["activeState_Id"] = seen[Timer]["activeState_Id"]
    BY <1>1, <2>3, <2>4, <2>5
  <2> QED BY <1>1, <1>3, <2>1, <2>2, <2>6, SMT DEF ActiveInv, MainAt, TimerPast
<1> QED BY <1>4, <1>5

LEMMA NextActive == ActiveInv /\ [Next]_vars => ActiveInv'
<1> SUFFICES ASSUME ActiveInv, [Next]_vars PROVE ActiveInv'
  OBVIOUS
<1>typed. Typed /\ Typed' /\ Main \in Threads /\ Timer \in Threads /\ Main # Timer
  BY NextTyped, ThreadsAssumption DEF ActiveInv, Threads
<1>1. ASSUME NEW t \in Threads, FireEvent(t) PROVE ActiveInv'
  <2>1. node' = node /\ op' = [op EXCEPT ![t] = "idle"] /\ t # Main
    BY <1>1, <1>typed DEF FireEvent, AboutToFire, Sending, Typed
  <2>2. CASE t # Timer
    <3>1. /\ op'[Timer] = op[Timer] /\ step'[Timer] = step[Timer] /\ seen'[Timer] = seen[Timer]
          /\ op'[Main] = op[Main] /\ step'[Main] = step[Main]
      BY <1>1, <1>typed, <2>1, <2>2, OthersKeep DEF HandlerStep
    <3> QED BY <1>typed, <2>1, <3>1 DEF ActiveInv, MainAt, TimerPast
  <2>3. CASE t = Timer
    <3>1. op'[Timer] = "idle" /\ op'[Main] = op[Main] /\ step'[Main] = step[Main]
      BY <1>1, <1>typed, <2>1, <2>3, OthersKeep DEF HandlerStep, Typed, TypeOK
    <3>2. op[Timer] = "timerLoop" /\ step[Timer] > 6
      BY <1>1, <1>typed, <2>3, WritesLen DEF FireEvent, AboutToFire, Sending, Typed
    <3>3. node["activeState"] = node["activeState_Id"]
      BY <3>2, <1>typed, SMT DEF ActiveInv, TimerPast, Typed, TypeOK
    <3> QED BY <1>typed, <2>1, <3>1, <3>3, SMT DEF ActiveInv, MainAt, TimerPast
  <2> QED BY <2>2, <2>3
<1>2. ASSUME NEW w \in Workers, NEW m \in Methods, Call(w, m) PROVE ActiveInv'
  <2>1. /\ op'[Timer] = op[Timer] /\ step'[Timer] = step[Timer] /\ seen' = seen
        /\ op'[Main] = op[Main] /\ step'[Main] = step[Main] /\ node' = node
    BY <1>2, <1>typed, ThreadsAssumption DEF Call, Begin, Typed, TypeOK
  <2> QED BY <2>1, <1>typed DEF ActiveInv, MainAt, TimerPast
<1>3. CASE Expire
  <2>1. /\ op[Timer] = "idle" /\ step'[Timer] = 1 /\ op'[Main] = op[Main]
        /\ step'[Main] = step[Main] /\ node' = node
    BY <1>3, <1>typed DEF Expire, Begin, Typed, TypeOK
  <2> QED BY <2>1, <1>typed, SMT DEF ActiveInv, MainAt, TimerPast
<1>4. CASE SetDefaults
  <2>1. /\ op'[Timer] = op[Timer] /\ step'[Timer] = step[Timer] /\ seen' = seen
        /\ op[Main] = "idle" /\ step'[Main] = 1 /\ node' = node
    BY <1>4, <1>typed DEF SetDefaults, Begin, Typed, TypeOK
  <2> QED BY <2>1, <1>typed, SMT DEF ActiveInv, MainAt, TimerPast
<1>5. CASE startTimerLoop
  <2>1. /\ op'[Timer] = op[Timer] /\ step'[Timer] = step[Timer] /\ seen' = seen
        /\ op[Main] = "startup" /\ op'[Main] = "idle" /\ node' = node
    BY <1>5, <1>typed DEF startTimerLoop, Typed, TypeOK
  <2>2. step[Main] > 9
    BY <1>5, <2>1, <1>typed, WritesLen, SMT DEF startTimerLoop, Writing, Typed, TypeOK
  <2> QED BY <2>1, <2>2, <1>typed, SMT DEF ActiveInv, MainAt, TimerPast
<1>6. CASE \/ getNamespaceInfo \/ getNodeIds \/ createNodeReferences
           \/ registerCallback \/ UNCHANGED vars
  <2>1. op' = op /\ step' = step /\ seen' = seen /\ node' = node
    BY <1>6 DEF getNamespaceInfo, getNodeIds, createNodeReferences, Lookup, registerCallback, vars
  <2> QED BY <2>1, <1>typed DEF ActiveInv, MainAt, TimerPast
<1> QED BY <1>1, <1>2, <1>3, <1>4, <1>5, <1>6, WriteNodeActive, ReadNodeActive
        DEF Next, Startup, HandlerStep

LEMMA InitActive == Init => ActiveInv
<1> SUFFICES ASSUME Init PROVE ActiveInv
  OBVIOUS
<1>1. Typed /\ op[Main] = "idle" /\ op[Timer] = "idle"
  BY InitTyped DEF Init, Threads
<1>2. node["activeState"] = Null /\ node["activeState_Id"] = Null
  BY DEF Init, Nodes, StateNodes
<1> QED BY <1>1, <1>2 DEF ActiveInv, MainAt, TimerPast

THEOREM AlwaysActiveInv == Spec => []ActiveInv
<1> QED BY InitActive, NextActive, PTL DEF Spec

(* ActivePairAgrees holds whatever the workers do. *)
THEOREM ActivePairAlwaysAgrees == Spec => []ActivePairAgrees
<1>1. ASSUME ActiveInv PROVE ActivePairAgrees
  <2>1. CASE MainAt(6)
    <3>1. Writes["startup"][6].node = "activeState_Id" /\ 6 <= Len(Writes["startup"])
      BY ActiveWrites, WritesLen, SMT DEF Ops
    <3> QED BY <2>1, <3>1 DEF MainAt, ActivePairAgrees, PairAgrees, MidPair, Writing, Threads
  <2>2. CASE op[Timer] = "timerLoop" /\ step[Timer] = 6
    <3>1. Writes["timerLoop"][6].node = "activeState_Id" /\ 6 <= Len(Writes["timerLoop"])
      BY ActiveWrites, WritesLen, SMT DEF Ops
    <3> QED BY <2>2, <3>1 DEF ActivePairAgrees, PairAgrees, MidPair, Writing, Threads
  <2> QED BY <1>1, <2>1, <2>2 DEF ActiveInv, ActivePairAgrees, PairAgrees
<1> QED BY <1>1, AlwaysActiveInv, PTL

(* ActivationReportsActive holds whatever the workers do: nobody else writes
   the fields while the activation is under way. *)
THEOREM ActivationAlwaysReportsActive == Spec => []ActivationReportsActive
<1>1. ASSUME ActiveInv PROVE ActivationReportsActive
  <2> SUFFICES ASSUME NEW t \in Threads, AboutToFire(t), op[t] = "timerLoop"
               PROVE  seen[t]["activeState"] = True /\ seen[t]["activeState_Id"] = True
    BY DEF ActivationReportsActive
  <2>1. t = Timer
    BY <1>1, ThreadsAssumption DEF ActiveInv, Typed, Threads, AllMethods
  <2>2. step[Timer] > 14
    BY <1>1, <2>1, WritesLen, ReadsType, SMT
       DEF AboutToFire, Sending, ReadIndex, ActiveInv, Typed, TypeOK
  <2> QED BY <1>1, <2>1, <2>2, SMT DEF ActiveInv, TimerPast, Typed, TypeOK
<1> QED BY <1>1, AlwaysActiveInv, PTL

-----------------------------------------------------------------------------
(* Refinement of AlarmCondition                                            *)

(* The node of each field, and the names of the variables and fields. *)
LEMMA FieldNodes ==
  /\ DOMAIN NodeOf = Condition!States
  /\ \A s \in Condition!States : DOMAIN NodeOf[s] = Condition!Fields
  /\ \A s \in Condition!States, f \in Condition!Fields :
       NodeOf[s][f] \in Nodes /\ NodeOf[s][f] # "comment"
  /\ StateFields = Condition!States \X Condition!Fields
<1>1. DOMAIN NodeOf = Condition!States
  BY DEF NodeOf, Condition!States
<1>2. \A s \in Condition!States : DOMAIN NodeOf[s] = Condition!Fields
  BY DEF NodeOf, Condition!States, Condition!Fields
<1>3. \A s \in Condition!States, f \in Condition!Fields :
        NodeOf[s][f] \in Nodes /\ NodeOf[s][f] # "comment"
  BY DEF NodeOf, Condition!States, Condition!Fields, Nodes, StateNodes
<1> QED
  BY <1>1, <1>2, <1>3 DEF StateFields, Condition!Fields

(* No two fields share a node. *)
LEMMA FieldNodesDiffer ==
  ASSUME NEW s \in Condition!States, NEW f \in Condition!Fields,
         NEW r \in Condition!States, NEW g \in Condition!Fields,
         NodeOf[s][f] = NodeOf[r][g]
  PROVE  s = r /\ f = g
BY DEF NodeOf, Condition!States, Condition!Fields

(* Each write but that of the comment brings a field of one of the handler's
   variables to the state that the abstract handler gives it. *)
LEMMA WritesTreat ==
  ASSUME NEW o \in Ops, NEW i \in 1..Len(Writes[o]), Writes[o][i].node # "comment"
  PROVE  \E s \in Condition!States, f \in Condition!Fields :
           /\ Writes[o][i].node = NodeOf[s][f]
           /\ Writes[o][i].value = Condition!Effect[o][s]
<1>1. CASE o = "acknowledge"
  <2>1. i \in {1, 2}
    BY <1>1, WritesLen, SMT
  <2> QED BY <1>1, <2>1, SMT DEF Writes, acknowledge, Set, NodeOf, Condition!States, Condition!Fields, Condition!Effect, True, False, Empty
<1>2. CASE o = "confirm"
  <2>1. i \in {1, 2, 3, 4}
    BY <1>2, WritesLen, SMT
  <2> QED BY <1>2, <2>1, SMT DEF Writes, confirm, Set, NodeOf, Condition!States, Condition!Fields, Condition!Effect, True, False, Empty
<1>3. CASE o = "enabled"
  <2>1. i \in {1, 2}
    BY <1>3, WritesLen, SMT
  <2> QED BY <1>3, <2>1, SMT DEF Writes, enabled, Set, NodeOf, Condition!States, Condition!Fields, Condition!Effect, True, False, Empty
<1>4. CASE o = "disable"
  <2>1. i \in {1, 2}
    BY <1>4, WritesLen, SMT
  <2> QED BY <1>4, <2>1, SMT DEF Writes, disable, Set, NodeOf, Condition!States, Condition!Fields, Condition!Effect, True, False, Empty
<1>5. CASE o = "timerLoop"
  <2>1. i \in {1, 2, 3, 4, 5, 6}
    BY <1>5, WritesLen, SMT
  <2> QED BY <1>5, <2>1, SMT DEF Writes, timerLoop, Set, NodeOf, Condition!States, Condition!Fields, Condition!Effect, True, False, Empty
<1>6. CASE o = "startup"
  <2>1. i \in {1, 2, 3, 4, 5, 6, 7, 8, 9}
    BY <1>6, WritesLen, SMT
  <2> QED BY <1>6, <2>1, SMT DEF Writes, defaults, Set, NodeOf, Condition!States, Condition!Fields, Condition!Effect, True, False, Empty
<1>7. CASE o = "conditionRefresh"
  BY <1>7, WritesLen, SMT
<1> QED BY <1>1, <1>2, <1>3, <1>4, <1>5, <1>6, <1>7 DEF Ops, AllMethods

(* No handler writes a node twice. *)
LEMMA WritesOnce ==
  ASSUME NEW o \in Ops, NEW i \in 1..Len(Writes[o]), NEW j \in 1..Len(Writes[o]),
         Writes[o][i].node = Writes[o][j].node
  PROVE  i = j
<1>1. CASE o = "acknowledge"
  <2>1. i \in {1, 2} /\ j \in {1, 2}
    BY <1>1, WritesLen, SMT
  <2> QED BY <1>1, <2>1, SMT DEF Writes, acknowledge, Set
<1>2. CASE o = "confirm"
  <2>1. i \in {1, 2, 3, 4} /\ j \in {1, 2, 3, 4}
    BY <1>2, WritesLen, SMT
  <2> QED BY <1>2, <2>1, SMT DEF Writes, confirm, Set
<1>3. CASE o = "enabled"
  <2>1. i \in {1, 2} /\ j \in {1, 2}
    BY <1>3, WritesLen, SMT
  <2> QED BY <1>3, <2>1, SMT DEF Writes, enabled, Set
<1>4. CASE o = "disable"
  <2>1. i \in {1, 2} /\ j \in {1, 2}
    BY <1>4, WritesLen, SMT
  <2> QED BY <1>4, <2>1, SMT DEF Writes, disable, Set
<1>5. CASE o = "timerLoop"
  <2>1. i \in {1, 2, 3, 4, 5, 6} /\ j \in {1, 2, 3, 4, 5, 6}
    BY <1>5, WritesLen, SMT
  <2> QED BY <1>5, <2>1, SMT DEF Writes, timerLoop, Set
<1>6. CASE o = "startup"
  <2>1. i \in {1, 2, 3, 4, 5, 6, 7, 8, 9} /\ j \in {1, 2, 3, 4, 5, 6, 7, 8, 9}
    BY <1>6, WritesLen, SMT
  <2> QED BY <1>6, <2>1, SMT DEF Writes, defaults, Set
<1>7. CASE o = "conditionRefresh"
  BY <1>7, WritesLen, SMT
<1> QED BY <1>1, <1>2, <1>3, <1>4, <1>5, <1>6, <1>7 DEF Ops, AllMethods

(* A handler writes all fields of the variables it treats, and no others. *)
LEMMA WritesAll ==
  ASSUME NEW o \in Ops, NEW s \in Condition!States, NEW f \in Condition!Fields
  PROVE  s \in DOMAIN Condition!Effect[o]
           <=> \E i \in 1..Len(Writes[o]) : Writes[o][i].node = NodeOf[s][f]
<1>1. CASE o = "acknowledge"
  <2>1. DOMAIN Condition!Effect[o] = {"Acked"}
    BY <1>1 DEF Condition!Effect
  <2>2. 1..Len(Writes[o]) = {1, 2}
    BY <1>1, WritesLen, SMT
  <2> QED
    BY <1>1, <2>1, <2>2, SMT DEF Writes, acknowledge, Set, NodeOf, Condition!States, Condition!Fields
<1>2. CASE o = "confirm"
  <2>1. DOMAIN Condition!Effect[o] = {"Acked", "Confirmed"}
    BY <1>2 DEF Condition!Effect
  <2>2. 1..Len(Writes[o]) = {1, 2, 3, 4}
    BY <1>2, WritesLen, SMT
  <2> QED
    BY <1>2, <2>1, <2>2, SMT DEF Writes, confirm, Set, NodeOf, Condition!States, Condition!Fields
<1>3. CASE o = "enabled"
  <2>1. DOMAIN Condition!Effect[o] = {"Enabled"}
    BY <1>3 DEF Condition!Effect
  <2>2. 1..Len(Writes[o]) = {1, 2}
    BY <1>3, WritesLen, SMT
  <2> QED
    BY <1>3, <2>1, <2>2, SMT DEF Writes, enabled, Set, NodeOf, Condition!States, Condition!Fields
<1>4. CASE o = "disable"
  <2>1. DOMAIN Condition!Effect[o] = {"Enabled"}
    BY <1>4 DEF Condition!Effect
  <2>2. 1..Len(Writes[o]) = {1, 2}
    BY <1>4, WritesLen, SMT
  <2> QED
    BY <1>4, <2>1, <2>2, SMT DEF Writes, disable, Set, NodeOf, Condition!States, Condition!Fields
<1>5. CASE o = "timerLoop"
  <2>1. DOMAIN Condition!Effect[o] = {"Acked", "Confirmed", "Active"}
    BY <1>5 DEF Condition!Effect
  <2>2. 1..Len(Writes[o]) = {1, 2, 3, 4, 5, 6}
    BY <1>5, WritesLen, SMT
  <2> QED
    BY <1>5, <2>1, <2>2, SMT DEF Writes, timerLoop, Set, NodeOf, Condition!States, Condition!Fields
<1>6. CASE o = "startup"
  <2>1. DOMAIN Condition!Effect[o] = {"Acked", "Confirmed", "Active", "Enabled"}
    BY <1>6 DEF Condition!Effect
  <2>2. 1..Len(Writes[o]) = {1, 2, 3, 4, 5, 6, 7, 8, 9}
    BY <1>6, WritesLen, SMT
  <2> QED
    BY <1>6, <2>1, <2>2, SMT DEF Writes, defaults, Set, NodeOf, Condition!States, Condition!Fields
<1>7. CASE o = "conditionRefresh"
  <2>1. DOMAIN Condition!Effect[o] = {}
    BY <1>7 DEF Condition!Effect
  <2> QED
    BY <1>7, <2>1, WritesLen, SMT
<1> QED BY <1>1, <1>2, <1>3, <1>4, <1>5, <1>6, <1>7 DEF Ops, AllMethods

(* The fields that handler o has still to write at step i. *)
Rest(o, i) ==
  {sf \in StateFields : \E j \in i..Len(Writes[o]) : Writes[o][j].node = NodeOf[sf[1]][sf[2]]}

Todo == [t \in Threads |-> IF op[t] = "idle" THEN {} ELSE Rest(op[t], step[t])]
Field == [s \in DOMAIN NodeOf |-> [f \in DOMAIN NodeOf[s] |-> node[NodeOf[s][f]]]]

(* Behind its last write a handler has nothing left to write. *)
LEMMA RestEmpty ==
  ASSUME NEW o \in Ops, NEW i \in Nat, i > Len(Writes[o])
  PROVE  Rest(o, i) = {}
BY WritesLenNat DEF Rest

TodoMapped ==
  Todo = [t \in Threads |-> IF Writing(t) THEN Unwritten[op[t]][step[t]] ELSE {}]

LEMMA TodoIs == Typed => TodoMapped
<1> SUFFICES ASSUME Typed, NEW t \in Threads, op[t] # "idle"
             PROVE  Rest(op[t], step[t]) =
                      IF Writing(t) THEN Unwritten[op[t]][step[t]] ELSE {}
  BY DEF Todo, TodoMapped, Writing
<1>1. op[t] \in Ops /\ step[t] \in Nat \ {0} /\ Len(Writes[op[t]]) \in Nat
  BY WritesLenNat DEF Typed, TypeOK
<1>2. CASE Writing(t)
  <2>1. step[t] \in 1..Len(Writes[op[t]])
    BY <1>1, <1>2 DEF Writing
  <2> QED
    BY <1>1, <1>2, <2>1 DEF Unwritten, Rest
<1>3. CASE ~Writing(t)
  <2>1. step[t] > Len(Writes[op[t]])
    BY <1>1, <1>3 DEF Writing
  <2>2. Rest(op[t], step[t]) = {}
    BY <1>1, <2>1, RestEmpty
  <2> QED
    BY <1>3, <2>2
<1> QED
  BY <1>2, <1>3

(* A handler that begins has its effect still before it. *)
LEMMA RestAtBegin ==
  ASSUME NEW o \in Ops
  PROVE  Rest(o, 1) = (DOMAIN Condition!Effect[o]) \X Condition!Fields
<1>1. DOMAIN Condition!Effect[o] \subseteq Condition!States
  BY DEF Condition!Effect, Condition!States, Ops, AllMethods
<1>2. \A s \in Condition!States, f \in Condition!Fields :
        << s, f >> \in Rest(o, 1) <=> s \in DOMAIN Condition!Effect[o]
  <2> TAKE s \in Condition!States, f \in Condition!Fields
  <2>1. << s, f >> \in StateFields
    BY FieldNodes
  <2>2. << s, f >> \in Rest(o, 1)
          <=> \E i \in 1..Len(Writes[o]) : Writes[o][i].node = NodeOf[s][f]
    BY <2>1 DEF Rest
  <2> QED
    BY <2>2, WritesAll
<1>3. Rest(o, 1) \subseteq Condition!States \X Condition!Fields
  BY FieldNodes DEF Rest
<1>4. ASSUME NEW sf \in Condition!States \X Condition!Fields
      PROVE  sf \in Rest(o, 1) <=> sf \in (DOMAIN Condition!Effect[o]) \X Condition!Fields
  <2>1. PICK s \in Condition!States, f \in Condition!Fields : sf = << s, f >>
    OBVIOUS
  <2>2. sf \in Rest(o, 1) <=> s \in DOMAIN Condition!Effect[o]
    BY <2>1, <1>2
  <2> QED
    BY <2>1, <2>2
<1> QED
  BY <1>1, <1>3, <1>4

(* Writing a field leaves exactly the others; writing the comment, all. *)
LEMMA RestAfterWrite ==
  ASSUME NEW o \in Ops, NEW i \in 1..Len(Writes[o]),
         NEW s \in Condition!States, NEW f \in Condition!Fields,
         Writes[o][i].node = NodeOf[s][f]
  PROVE  << s, f >> \in Rest(o, i) /\ Rest(o, i + 1) = Rest(o, i) \ {<< s, f >>}
<1>1. Len(Writes[o]) \in Nat /\ i \in Nat
  BY WritesLenNat
<1>2. << s, f >> \in Rest(o, i)
  BY <1>1, FieldNodes DEF Rest
<1>3. ASSUME NEW r \in Condition!States, NEW g \in Condition!Fields
      PROVE  << r, g >> \in Rest(o, i + 1) <=> << r, g >> \in Rest(o, i) \ {<< s, f >>}
  <2>1. << r, g >> \in StateFields
    BY FieldNodes
  <2>2. \A k \in Nat : << r, g >> \in Rest(o, k)
          <=> \E j \in k..Len(Writes[o]) : Writes[o][j].node = NodeOf[r][g]
    BY <2>1 DEF Rest
  <2>3. << r, g >> \in Rest(o, i)
          <=> \/ Writes[o][i].node = NodeOf[r][g]
              \/ << r, g >> \in Rest(o, i + 1)
    BY <1>1, <2>2
  <2>4. Writes[o][i].node = NodeOf[r][g] <=> << r, g >> = << s, f >>
    BY FieldNodesDiffer
  <2>5. << r, g >> \in Rest(o, i + 1) => Writes[o][i].node # NodeOf[r][g]
    <3>1. SUFFICES ASSUME NEW j \in (i + 1)..Len(Writes[o]), Writes[o][j].node = NodeOf[r][g],
                          Writes[o][i].node = NodeOf[r][g]
                   PROVE  FALSE
      BY <1>1, <2>2
    <3>2. j \in 1..Len(Writes[o]) /\ i # j
      BY <1>1
    <3> QED
      BY <3>1, <3>2, WritesOnce
  <2> QED
    BY <2>3, <2>4, <2>5
<1>4. \A k \in {i, i + 1} : Rest(o, k) \subseteq Condition!States \X Condition!Fields
  BY FieldNodes DEF Rest
<1> QED
  BY <1>2, <1>3, <1>4

LEMMA RestAfterComment ==
  ASSUME NEW o \in Ops, NEW i \in 1..Len(Writes[o]), Writes[o][i].node = "comment"
  PROVE  Rest(o, i + 1) = Rest(o, i)
<1>1. Len(Writes[o]) \in Nat /\ i \in Nat
  BY WritesLenNat
<1>2. \A sf \in StateFields : NodeOf[sf[1]][sf[2]] # "comment"
  BY FieldNodes
<1> QED
  BY <1>1, <1>2 DEF Rest

LEMMA TodoIsNext == Typed' => TodoMapped'
BY TodoIs, PTL

(* A step that leaves the state nodes, the handlers and what they have still
   to write alone is a stutter of the condition. *)
LEMMA ConditionStutters ==
  ASSUME Typed, Typed', UNCHANGED << Field, op, Todo >>
  PROVE  UNCHANGED Condition!absVars
BY TodoIs, TodoIsNext DEF Condition!absVars, Field, TodoMapped

(* What is left to write in the next state, in terms of the next handlers. *)
LEMMA TodoNext ==
  Todo' = [u \in Threads |-> IF op'[u] = "idle" THEN {} ELSE Rest(op'[u], step'[u])]
BY DEF Todo, Rest

LEMMA BeginMaps ==
  ASSUME Typed, Typed', NEW t \in Threads, NEW o \in Ops, op[t] = "idle",
         op' = [op EXCEPT ![t] = o], step' = [step EXCEPT ![t] = 1], node' = node,
         o = "timerLoop" => node["enabledState_Id"] = True
  PROVE  Condition!Begin(t, o) /\ o \in DOMAIN Condition!Effect
<1>1. op \in [Threads -> Ops \cup {"idle"}] /\ step \in [Threads -> Nat \ {0}] /\ o # "idle"
  BY DEF Typed, TypeOK, Ops, AllMethods
<1>2. Todo' = [Todo EXCEPT ![t] = (DOMAIN Condition!Effect[o]) \X Condition!Fields]
  <2>1. op'[t] = o /\ step'[t] = 1
    BY <1>1
  <2>2. \A u \in Threads : u # t => op'[u] = op[u] /\ step'[u] = step[u]
    BY <1>1
  <2> QED
    BY <1>1, <2>1, <2>2, RestAtBegin, TodoNext DEF Todo
<1>3. o = "timerLoop" => Field["Enabled"]["Id"] = True
  BY DEF Field, NodeOf
<1>4. o \in DOMAIN Condition!Effect
  BY DEF Condition!Effect, Ops, AllMethods
<1>5. UNCHANGED Field
  BY DEF Field
<1> QED
  BY <1>2, <1>3, <1>4, <1>5, TodoIs, TodoIsNext DEF Condition!Begin, TodoMapped, Field

LEMMA ReturnMaps ==
  ASSUME Typed, Typed', NEW t \in Threads, op[t] # "idle", step[t] > Len(Writes[op[t]]),
         op' = [op EXCEPT ![t] = "idle"], step' = [step EXCEPT ![t] = 1], node' = node
  PROVE  Condition!Return(t)
<1>1. op \in [Threads -> Ops \cup {"idle"}] /\ step \in [Threads -> Nat \ {0}]
  BY DEF Typed, TypeOK
<1>2. Rest(op[t], step[t]) = {}
  BY <1>1, RestEmpty
<1>3. Todo[t] = {}
  BY <1>2 DEF Todo
<1>4. Todo' = Todo
  <2>1. op'[t] = "idle"
    BY <1>1
  <2>2. \A u \in Threads : u # t => op'[u] = op[u] /\ step'[u] = step[u]
    BY <1>1
  <2>3. \A u \in Threads : u # t => Todo'[u] = Todo[u]
    BY <2>2, TodoNext DEF Todo
  <2>4. Todo'[t] = Todo[t]
    BY <1>3, <2>1, TodoNext
  <2> QED
    BY <2>3, <2>4, TodoNext DEF Todo
<1>5. UNCHANGED Field
  BY DEF Field
<1> QED
  BY <1>3, <1>4, <1>5, TodoIs, TodoIsNext DEF Condition!Return, TodoMapped, Field

(* One setter treats one field, or writes the comment. *)
LEMMA WriteNodeMaps ==
  ASSUME Typed, Typed', NEW t \in Threads, WriteNode(t)
  PROVE  \/ \E s \in Condition!States, f \in Condition!Fields : Condition!Treat(t, s, f)
         \/ UNCHANGED Condition!absVars
<1> DEFINE o == op[t]
           i == step[t]
<1>1. /\ o \in Ops /\ o # "idle" /\ i \in 1..Len(Writes[o])
      /\ op \in [Threads -> Ops \cup {"idle"}] /\ step \in [Threads -> Nat \ {0}]
      /\ node \in [Nodes -> Values]
  BY WritingType, WritesLenNat DEF WriteNode, Writing, Typed, TypeOK
<1>2. /\ node' = [node EXCEPT ![Writes[o][i].node] = Writes[o][i].value]
      /\ op' = op /\ step' = [step EXCEPT ![t] = i + 1]
  BY DEF WriteNode
<1>3. Todo' = [Todo EXCEPT ![t] = Rest(o, i + 1)] /\ Todo[t] = Rest(o, i)
  BY <1>1, <1>2 DEF Todo, Rest
<1>4. CASE Writes[o][i].node = "comment"
  <2>1. Rest(o, i + 1) = Rest(o, i)
    BY <1>1, <1>4, RestAfterComment
  <2>2. Todo' = Todo
    BY <1>3, <2>1 DEF Todo
  <2>3. \A s \in Condition!States, f \in Condition!Fields : node'[NodeOf[s][f]] = node[NodeOf[s][f]]
    BY <1>1, <1>2, <1>4, FieldNodes
  <2>4. Field' = Field
    BY <2>3, FieldNodes DEF Field
  <2> QED
    BY <1>2, <2>2, <2>4, ConditionStutters
<1>5. CASE Writes[o][i].node # "comment"
  <2>1. PICK s \in Condition!States, f \in Condition!Fields :
          /\ Writes[o][i].node = NodeOf[s][f]
          /\ Writes[o][i].value = Condition!Effect[o][s]
    BY <1>1, <1>5, WritesTreat
  <2>2. << s, f >> \in Rest(o, i) /\ Rest(o, i + 1) = Rest(o, i) \ {<< s, f >>}
    BY <1>1, <2>1, RestAfterWrite
  <2>3. << s, f >> \in Todo[t] /\ Todo' = [Todo EXCEPT ![t] = @ \ {<< s, f >>}]
    BY <1>3, <2>2
  <2>4. node' = [node EXCEPT ![NodeOf[s][f]] = Condition!Effect[o][s]]
    BY <1>2, <2>1
  <2>5. \A r \in Condition!States, g \in Condition!Fields :
          node'[NodeOf[r][g]] =
            IF r = s /\ g = f THEN Condition!Effect[o][s] ELSE node[NodeOf[r][g]]
    BY <1>1, <2>4, FieldNodes, FieldNodesDiffer
  <2>6. Field' = [Field EXCEPT ![s][f] = Condition!Effect[o][s]]
    <3>1. /\ Field = [r \in Condition!States |-> [g \in Condition!Fields |-> node[NodeOf[r][g]]]]
          /\ Field' = [r \in Condition!States |-> [g \in Condition!Fields |-> node'[NodeOf[r][g]]]]
      BY FieldNodes DEF Field
    <3>2. \A r \in Condition!States : r # s => Field'[r] = Field[r]
      BY <2>5, <3>1
    <3>3. Field'[s] = [Field[s] EXCEPT ![f] = Condition!Effect[o][s]]
      BY <2>5, <3>1
    <3> QED
      BY <3>1, <3>2, <3>3
  <2>7. Condition!Treat(t, s, f)
    BY <1>2, <2>3, <2>6, TodoIs, TodoIsNext DEF Condition!Treat, TodoMapped, Field
  <2> QED
    BY <2>7
<1> QED
  BY <1>4, <1>5

(* A getter leaves what the handlers have to write alone. *)
LEMMA ReadNodeMaps ==
  ASSUME Typed, NEW t \in Threads, ReadNode(t)
  PROVE  UNCHANGED << Field, op, Todo >>
<1>1. /\ op[t] \in Ops /\ step[t] > Len(Writes[op[t]]) /\ UNCHANGED << node, op >>
      /\ step' = [step EXCEPT ![t] = @ + 1]
  BY DEF ReadNode, Sending, Typed, TypeOK
<1>2. step \in [Threads -> Nat \ {0}] /\ step[t] \in Nat /\ Len(Writes[op[t]]) \in Nat
  BY <1>1, WritesLenNat DEF Typed, TypeOK
<1>3. Rest(op[t], step[t]) = {} /\ Rest(op[t], step[t] + 1) = {}
  BY <1>1, <1>2, RestEmpty
<1>4. ASSUME NEW u \in Threads, op[u] # "idle"
      PROVE  Rest(op[u], step'[u]) = Rest(op[u], step[u])
  <2>1. CASE u = t
    <3>1. step'[u] = step[t] + 1
      BY <1>1, <1>2, <2>1
    <3> QED
      BY <1>3, <2>1, <3>1
  <2>2. CASE u # t
    <3>1. step'[u] = step[u]
      BY <1>1, <1>2, <2>2
    <3> QED
      BY <3>1
  <2> QED
    BY <2>1, <2>2
<1>5. Todo' = Todo
  BY <1>1, <1>4, TodoNext DEF Todo
<1> QED
  BY <1>1, <1>5 DEF Field

LEMMA NextMaps == Typed /\ [Next]_vars => [Condition!Next]_Condition!absVars
<1> SUFFICES ASSUME Typed, [Next]_vars
             PROVE  Condition!Next \/ UNCHANGED Condition!absVars
  OBVIOUS
<1>typed. /\ Typed' /\ op \in [Threads -> Ops \cup {"idle"}]
          /\ step \in [Threads -> Nat \ {0}] /\ Main \in Threads /\ Timer \in Threads
  BY NextTyped DEF Typed, TypeOK, Threads
<1>1. ASSUME NEW t \in Threads, WriteNode(t)
      PROVE  Condition!Next \/ UNCHANGED Condition!absVars
  BY <1>1, <1>typed, WriteNodeMaps DEF Condition!Next
<1>2. ASSUME NEW t \in Threads, ReadNode(t)
      PROVE  UNCHANGED Condition!absVars
  BY <1>2, <1>typed, ReadNodeMaps, ConditionStutters
<1>3. ASSUME NEW t \in Threads, FireEvent(t)
      PROVE  Condition!Return(t)
  BY <1>3, <1>typed, ReturnMaps DEF FireEvent, AboutToFire, Sending
<1>4. ASSUME NEW w \in Workers, NEW m \in Methods, Call(w, m)
      PROVE  Condition!Begin(w, m) /\ m \in DOMAIN Condition!Effect /\ w \in Threads
  <2>1. w \in Threads /\ m \in Ops /\ m # "timerLoop"
    BY MethodsAssumption DEF Threads, Ops, AllMethods
  <2> QED
    BY <1>4, <1>typed, <2>1, BeginMaps DEF Call, Begin
<1>5. CASE Expire
  <2>1. Condition!Begin(Timer, "timerLoop") /\ "timerLoop" \in DOMAIN Condition!Effect
    BY <1>5, <1>typed, BeginMaps DEF Expire, Begin, Ops
  <2> QED
    BY <1>typed, <2>1 DEF Condition!Next
<1>6. CASE SetDefaults
  <2>1. Condition!Begin(Main, "startup") /\ "startup" \in DOMAIN Condition!Effect
    BY <1>6, <1>typed, BeginMaps DEF SetDefaults, Begin, Ops, Typed
  <2> QED
    BY <1>typed, <2>1 DEF Condition!Next
<1>7. CASE startTimerLoop
  <2>1. op[Main] = "startup" /\ step[Main] > Len(Writes[op[Main]])
    <3>1. op[Main] = "startup" /\ ~(step[Main] <= Len(Writes[op[Main]]))
      BY <1>7 DEF startTimerLoop, Writing, Typed
    <3> QED
      BY <3>1, <1>typed, WritesLen
  <2>2. Condition!Return(Main)
    BY <1>7, <1>typed, <2>1, ReturnMaps DEF startTimerLoop
  <2> QED
    BY <1>typed, <2>2 DEF Condition!Next
<1>8. CASE getNamespaceInfo \/ getNodeIds \/ createNodeReferences \/ registerCallback
             \/ UNCHANGED vars
  <2>1. UNCHANGED << node, op, step >>
    BY <1>8 DEF getNamespaceInfo, getNodeIds, createNodeReferences, Lookup,
       registerCallback, vars
  <2> QED
    BY <1>typed, <2>1, ConditionStutters DEF Field, Todo, Rest
<1> QED
  BY <1>1, <1>2, <1>3, <1>4, <1>5, <1>6, <1>7, <1>8
     DEF Next, Startup, HandlerStep, Condition!Next

LEMMA InitMaps == Init => Condition!Init
<1> SUFFICES ASSUME Init PROVE Condition!Init
  OBVIOUS
<1>1. Field = [s \in Condition!States |-> [f \in Condition!Fields |-> Null]]
  BY FieldNodes DEF Init, Field
<1>2. Todo = [t \in Threads |-> {}]
  BY DEF Init, Todo
<1>3. TodoMapped
  BY InitTyped, TodoIs
<1> QED
  BY <1>1, <1>2, <1>3 DEF Init, Condition!Init, TodoMapped, Field

(* For every set of threads and of methods, and however they interleave, each
   handler brings exactly its own variables to its own states, each field once,
   before it returns, and the timer activates only an enabled alarm. *)
THEOREM AlarmImplementsCondition == Spec => ImplementsCondition
<1> QED BY InitMaps, InitTyped, NextTyped, NextMaps, PTL
        DEF Spec, ImplementsCondition, Condition!Spec

-----------------------------------------------------------------------------
(* Events                                                                  *)

(* sendAlarmEvent reads every state node. *)
LEMMA ReadsAll ==
  ASSUME NEW n \in StateNodes
  PROVE  \E i \in 1..8 : Reads[i] = n
<1> DEFINE R(i) == Reads[i] = n
<1>1. R(1) \/ R(2) \/ R(3) \/ R(4) \/ R(5) \/ R(6) \/ R(7) \/ R(8)
  BY DEF Reads, StateNodes
<1> QED
  BY <1>1

(* The default values cover every state node. *)
LEMMA DefaultsAll ==
  ASSUME NEW n \in StateNodes
  PROVE  \E i \in 1..9 : Writes["startup"][i].node = n
<1> DEFINE D(i) == Writes["startup"][i].node = n
<1>1. D(1) \/ D(2) \/ D(3) \/ D(4) \/ D(5) \/ D(6) \/ D(7) \/ D(8)
  BY DEF Writes, defaults, Set, StateNodes
<1> QED
  BY <1>1

(* Why events are defined.  Without an early call or a failure no event is on
   its way before startup is over; by then the defaults have been written, one
   by one; and no handler ever takes a value back. *)
DefinedInv ==
  ~early /\ main # "failed" =>
    /\ main # "started" => \A w \in Workers : op[w] = "idle"
    /\ main = "defaults" =>
         \A i \in 1..9 : i < step[Main] => node[Writes["startup"][i].node] # Null
    /\ main = "started" => \A n \in StateNodes : node[n] # Null
    /\ \A t \in Threads : Sending(t) =>
         \A i \in 1..8 : i < ReadIndex(t) => seen[t][Reads[i]] # Null

LEMMA InitDefined == Init => DefinedInv
BY DEF Init, DefinedInv, Sending, Threads

(* An event that is on its way belongs to a method or to an activation. *)
LEMMA SendingAfterStartup ==
  ASSUME Typed, DefinedInv, ~early, main # "failed", NEW t \in Threads, Sending(t)
  PROVE  main = "started" /\ t # Main
BY DEF Typed, DefinedInv, Sending, Threads

LEMMA NextDefined == Typed /\ DefinedInv /\ [Next]_vars => DefinedInv'
<1> SUFFICES ASSUME Typed, DefinedInv, [Next]_vars, ~early', main' # "failed"
             PROVE  DefinedInv'
  BY DEF DefinedInv
<1>types. /\ node \in [Nodes -> Values] /\ op \in [Threads -> Ops \cup {"idle"}]
          /\ step \in [Threads -> Nat \ {0}] /\ seen \in [Threads -> [StateNodes -> Values]]
          /\ Main \in Threads /\ Timer \in Threads /\ Workers \subseteq Threads
          /\ StateNodes \subseteq Nodes
  BY DEF Typed, TypeOK, Threads, Nodes
<1>1. ASSUME NEW t \in Threads, WriteNode(t) PROVE DefinedInv'
  <2> DEFINE w == Writes[op[t]][step[t]]
  <2>1. /\ node' = [node EXCEPT ![w.node] = w.value] /\ step' = [step EXCEPT ![t] = @ + 1]
        /\ UNCHANGED << main, op, seen, early >> /\ Writing(t)
    BY <1>1 DEF WriteNode
  <2>2. w.value # Null
    BY <1>types, <2>1, WritingType DEF True, False, Empty, Null
  <2>3. \A n \in Nodes : node[n] # Null \/ n = w.node => node'[n] # Null
    BY <1>types, <2>1, <2>2
  <2>4. main = "defaults" =>
          \A i \in 1..9 : i < step'[Main] => node'[Writes["startup"][i].node] # Null
    <3> SUFFICES ASSUME main = "defaults", NEW i \in 1..9, i < step'[Main]
                 PROVE  node'[Writes["startup"][i].node] # Null
      OBVIOUS
    <3>1. Writes["startup"][i].node \in Nodes
      BY WritesType, WritesLen DEF Ops
    <3>2. CASE i < step[Main]
      BY <2>1, <2>3, <3>1, <3>2 DEF DefinedInv
    <3>3. CASE ~(i < step[Main])
      <4>1. t = Main /\ i = step[Main]
        BY <1>types, <2>1, <3>3
      <4>2. op[Main] = "startup"
        BY DEF Typed
      <4> QED
        BY <2>3, <3>1, <4>1, <4>2
    <3> QED
      BY <3>2, <3>3
  <2>5. main = "started" => \A n \in StateNodes : node'[n] # Null
    BY <1>types, <2>1, <2>3 DEF DefinedInv
  <2>6. ASSUME NEW u \in Threads, Sending(u)', NEW i \in 1..8, i < ReadIndex(u)'
        PROVE  seen'[u][Reads[i]] # Null
    <3>1. CASE u = t
      <4>1. op[t] \in Ops /\ step[t] \in Nat /\ step[t] <= Len(Writes[op[t]])
              /\ Len(Writes[op[t]]) \in Nat
        BY <1>types, <2>1, WritesLenNat DEF Writing
      <4>2. step'[t] = step[t] + 1 /\ op'[t] = op[t]
        BY <1>types, <2>1
      <4>3. ReadIndex(t)' = step[t] + 1 - Len(Writes[op[t]])
        BY <4>1, <4>2 DEF ReadIndex
      <4> QED
        BY <2>6, <3>1, <4>1, <4>3
    <3>2. CASE u # t
      <4>1. step'[u] = step[u]
        BY <1>types, <2>1, <3>2
      <4> QED
        BY <2>1, <2>6, <4>1 DEF DefinedInv, Sending, ReadIndex
    <3> QED
      BY <3>1, <3>2
  <2> QED
    BY <2>1, <2>4, <2>5, <2>6 DEF DefinedInv
<1>2. ASSUME NEW t \in Threads, ReadNode(t) PROVE DefinedInv'
  <2> DEFINE r == ReadIndex(t)
  <2>1. /\ seen' = [seen EXCEPT ![t][Reads[r]] = node[Reads[r]]]
        /\ step' = [step EXCEPT ![t] = @ + 1] /\ Sending(t) /\ r <= 8
        /\ UNCHANGED << main, op, node, early >>
    BY <1>2, ReadsType DEF ReadNode
  <2>2. main = "started" /\ t # Main
    BY <2>1, SendingAfterStartup
  <2>3. op[t] \in Ops /\ Len(Writes[op[t]]) \in Nat /\ step[t] \in Nat /\ r \in 1..8
        /\ ReadIndex(t)' = r + 1
    <3>1. op[t] \in Ops /\ step[t] > Len(Writes[op[t]])
      BY <1>types, <2>1 DEF Sending
    <3>2. Len(Writes[op[t]]) \in Nat /\ step[t] \in Nat
      BY <1>types, <3>1, WritesLenNat
    <3>3. step'[t] = step[t] + 1 /\ op'[t] = op[t]
      BY <1>types, <2>1
    <3>4. ReadIndex(t)' = step[t] + 1 - Len(Writes[op[t]])
      BY <3>2, <3>3 DEF ReadIndex
    <3>5. r = step[t] - Len(Writes[op[t]]) /\ r <= 8
      BY <2>1 DEF ReadIndex
    <3>6. r \in 1..8 /\ step[t] + 1 - Len(Writes[op[t]]) = r + 1
      <4>1. \A a, b \in Nat : a > b /\ a - b <= 8 =>
              a - b \in 1..8 /\ a + 1 - b = (a - b) + 1
        OBVIOUS
      <4> HIDE DEF r
      <4> QED
        BY <3>1, <3>2, <3>5, <4>1
    <3> QED
      BY <3>1, <3>2, <3>4, <3>6
  <2>4. Reads[r] \in StateNodes /\ node[Reads[r]] # Null
    BY <2>1, <2>2, <2>3, ReadsType DEF DefinedInv
  <2>5. ASSUME NEW u \in Threads, Sending(u)', NEW i \in 1..8, i < ReadIndex(u)'
        PROVE  seen'[u][Reads[i]] # Null
    <3>1. Reads[i] \in StateNodes
      BY ReadsType
    <3>2. CASE u = t
      <4>1. i = r \/ i < r
        BY <2>3, <2>5, <3>2
      <4>2. i < r => seen[t][Reads[i]] # Null
        BY <2>1 DEF DefinedInv
      <4>3. seen'[t] = [seen[t] EXCEPT ![Reads[r]] = node[Reads[r]]]
              /\ seen[t] \in [StateNodes -> Values]
        BY <1>types, <2>1
      <4> QED
        BY <2>4, <3>1, <3>2, <4>1, <4>2, <4>3
    <3>3. CASE u # t
      <4>1. step'[u] = step[u] /\ seen'[u] = seen[u]
        BY <1>types, <2>1, <3>3
      <4> QED
        BY <2>1, <2>5, <4>1 DEF DefinedInv, Sending, ReadIndex
    <3> QED
      BY <3>2, <3>3
  <2> QED
    BY <2>1, <2>2, <2>5 DEF DefinedInv
<1>3. ASSUME NEW t \in Threads, FireEvent(t) PROVE DefinedInv'
  <2>1. /\ op' = [op EXCEPT ![t] = "idle"] /\ step' = [step EXCEPT ![t] = 1]
        /\ seen' = [seen EXCEPT ![t] = NothingSeen] /\ Sending(t)
        /\ UNCHANGED << main, node, early >>
    BY <1>3 DEF FireEvent, AboutToFire
  <2>2. main = "started"
    BY <2>1, SendingAfterStartup
  <2>3. ASSUME NEW u \in Threads, Sending(u)'
        PROVE  op'[u] = op[u] /\ step'[u] = step[u] /\ seen'[u] = seen[u]
    BY <1>types, <2>1, <2>3 DEF Sending
  <2> QED
    BY <2>1, <2>2, <2>3 DEF DefinedInv, Sending, ReadIndex
<1>4. ASSUME NEW t \in Threads, NEW o \in Ops, Begin(t, o), UNCHANGED << node, seen >>,
             t = Main => main = "registerCallbacks" /\ main' = "defaults",
             t # Main => main' = main,
             t = Timer => main = "started"
      PROVE  DefinedInv'
  <2>1. /\ op' = [op EXCEPT ![t] = o] /\ step' = [step EXCEPT ![t] = 1]
        /\ early' = (early \/ (t \in Workers /\ main \notin {"started", "failed"}))
    BY <1>4 DEF Begin
  <2>2. ~early /\ main # "failed" /\ (t \in Workers => main = "started")
    BY <1>4, <2>1, ThreadsAssumption
  <2>3. IF t = Main THEN step'[Main] = 1 ELSE step'[Main] = step[Main]
    BY <1>types, <2>1
  <2>4. ASSUME NEW u \in Threads, Sending(u)', NEW i \in 1..8, i < ReadIndex(u)'
        PROVE  seen'[u][Reads[i]] # Null
    <3>1. CASE u = t
      <4>1. Len(Writes[o]) \in Nat /\ op'[u] = o /\ step'[u] = 1
        BY <1>types, <2>1, <3>1, WritesLenNat
      <4> QED
        BY <2>4, <4>1 DEF ReadIndex
    <3>2. CASE u # t
      <4>1. op'[u] = op[u] /\ step'[u] = step[u]
        BY <1>types, <2>1, <3>2
      <4> QED
        BY <1>4, <2>2, <2>4, <4>1 DEF DefinedInv, Sending, ReadIndex
    <3> QED
      BY <3>1, <3>2
  <2>5. main' # "started" => \A w \in Workers : op'[w] = "idle"
    BY <1>4, <1>types, <2>1, <2>2 DEF DefinedInv
  <2> QED
    BY <1>4, <2>2, <2>3, <2>4, <2>5 DEF DefinedInv
<1>5. ASSUME NEW w \in Workers, NEW m \in Methods, Call(w, m) PROVE DefinedInv'
  <2>1. m \in Ops /\ m # "startup" /\ w \in Threads /\ w # Main /\ w # Timer
    BY MethodsAssumption, ThreadsAssumption DEF Threads, Ops, AllMethods
  <2> QED
    BY <1>4, <1>5, <2>1 DEF Call
<1>6. CASE Expire
  <2>1. Timer # Main /\ "timerLoop" \in Ops
    BY ThreadsAssumption DEF Ops
  <2> QED
    BY <1>4, <1>6, <1>types, <2>1 DEF Expire
<1>7. CASE SetDefaults
  <2>1. Timer # Main /\ "startup" \in Ops
    BY ThreadsAssumption DEF Ops
  <2> QED
    BY <1>4, <1>7, <1>types, <2>1 DEF SetDefaults
<1>8. CASE startTimerLoop
  <2>1. /\ main = "defaults" /\ op[Main] = "startup" /\ step[Main] > 9
    <3>1. main = "defaults" /\ op[Main] = "startup" /\ ~(step[Main] <= Len(Writes["startup"]))
      BY <1>8 DEF startTimerLoop, Typed, Writing
    <3> QED
      BY <1>types, <3>1, WritesLen
  <2>2. \A n \in StateNodes : node[n] # Null
    BY <1>8, <1>types, <2>1, DefaultsAll DEF DefinedInv, startTimerLoop
  <2>3. ASSUME NEW u \in Threads, Sending(u)'
        PROVE  op'[u] = op[u] /\ step'[u] = step[u] /\ seen'[u] = seen[u]
    BY <1>8, <1>types, <2>3 DEF startTimerLoop, Sending
  <2> QED
    BY <1>8, <2>1, <2>2, <2>3 DEF startTimerLoop, DefinedInv, Sending, ReadIndex
<1>9. CASE \/ getNamespaceInfo \/ getNodeIds \/ createNodeReferences
           \/ registerCallback \/ UNCHANGED vars
  <2>1. /\ UNCHANGED << node, op, step, seen, early >>
        /\ main' # main => main \notin {"defaults", "started"} /\ main' \notin {"defaults", "started"}
    BY <1>9 DEF getNamespaceInfo, getNodeIds, createNodeReferences, Lookup, registerCallback, vars
  <2>2. main # "failed"
    BY <1>9 DEF getNamespaceInfo, getNodeIds, createNodeReferences, Lookup, registerCallback, vars
  <2> QED
    BY <2>1, <2>2 DEF DefinedInv, Sending, ReadIndex
<1> QED
  BY <1>1, <1>2, <1>3, <1>5, <1>6, <1>7, <1>8, <1>9 DEF Next, Startup, HandlerStep

(* Without an early call and a failed startup, every event carries values that
   somebody wrote, however the handlers interleave: the uninitialised locals of
   the getters of sendAlarmEvent never reach a client. *)
THEOREM EventsAlwaysDefined == Spec => []EventsDefined
<1>1. Spec => []DefinedInv
  BY InitDefined, AlwaysTyped, NextDefined, PTL DEF Spec
<1>2. Typed /\ DefinedInv => EventsDefined
  <2> SUFFICES ASSUME Typed, DefinedInv, ~early, main # "failed", NEW t \in Threads,
                      AboutToFire(t), NEW n \in StateNodes
               PROVE  seen[t][n] # Null
    BY DEF EventsDefined
  <2>1. PICK i \in 1..8 : Reads[i] = n
    BY ReadsAll
  <2>2. Sending(t) /\ i < ReadIndex(t)
    <3>1. op[t] \in Ops /\ step[t] \in Nat
      BY DEF AboutToFire, Sending, Typed, TypeOK
    <3> QED
      BY <3>1, ReadsType, WritesLenNat DEF AboutToFire, ReadIndex
  <2> QED
    BY <2>1, <2>2 DEF DefinedInv
<1> QED
  BY <1>1, <1>2, AlwaysTyped, PTL

-----------------------------------------------------------------------------
(* Handlers one at a time                                                  *)

(* What SerialAlarmCoherent says of an idle alarm, in terms of the fields. *)
Coherent(F) ==
  /\ \A s \in Condition!States : F[s]["Text"] = F[s]["Id"]
  /\ F["Confirmed"]["Id"] = True => F["Acked"]["Id"] = True
  /\ F["Confirmed"]["Id"] = False => F["Active"]["Id"] = True

(* What the fields F show once the fields in T have been brought to the state
   that handler o brings them to. *)
Brought(F, o, T) ==
  [s \in Condition!States |-> [f \in Condition!Fields |->
     IF << s, f >> \in T THEN Condition!Effect[o][s] ELSE F[s][f]]]

FieldSet == [Condition!States -> [Condition!Fields -> Values]]

(* A handler that is alone brings a coherent alarm to a coherent one; the
   defaults make any alarm coherent. *)
LEMMA HandlersCoherent ==
  ASSUME NEW o \in Ops, NEW F \in FieldSet, Coherent(F) \/ o = "startup"
  PROVE  Coherent(Brought(F, o, (DOMAIN Condition!Effect[o]) \X Condition!Fields))
<1> DEFINE G == Brought(F, o, (DOMAIN Condition!Effect[o]) \X Condition!Fields)
<1>1. \A s \in Condition!States, f \in Condition!Fields :
        G[s][f] = IF s \in DOMAIN Condition!Effect[o] THEN Condition!Effect[o][s] ELSE F[s][f]
  BY DEF Brought
<1>2. /\ Condition!States = {"Acked", "Confirmed", "Active", "Enabled"}
      /\ Condition!Fields = {"Text", "Id"}
  BY DEF Condition!States, Condition!Fields
<1> SUFFICES Coherent(G)
  OBVIOUS
<1> HIDE DEF G
<1>3. CASE o = "acknowledge"
  <2>1. DOMAIN Condition!Effect[o] = {"Acked"} /\ Condition!Effect[o]["Acked"] = True
    BY <1>3 DEF Condition!Effect
  <2> QED BY <1>1, <1>2, <1>3, <2>1 DEF Coherent
<1>4. CASE o = "confirm"
  <2>1. /\ DOMAIN Condition!Effect[o] = {"Acked", "Confirmed"}
        /\ Condition!Effect[o]["Acked"] = True /\ Condition!Effect[o]["Confirmed"] = True
    BY <1>4 DEF Condition!Effect
  <2> QED BY <1>1, <1>2, <1>4, <2>1 DEF Coherent, True, False
<1>5. CASE o = "enabled" \/ o = "disable"
  <2>1. DOMAIN Condition!Effect[o] = {"Enabled"}
    BY <1>5 DEF Condition!Effect
  <2> QED BY <1>1, <1>2, <1>5, <2>1 DEF Coherent
<1>6. CASE o = "conditionRefresh"
  <2>1. DOMAIN Condition!Effect[o] = {}
    BY <1>6 DEF Condition!Effect
  <2> QED BY <1>1, <1>2, <1>6, <2>1 DEF Coherent
<1>7. CASE o = "timerLoop"
  <2>1. /\ DOMAIN Condition!Effect[o] = {"Acked", "Confirmed", "Active"}
        /\ Condition!Effect[o]["Confirmed"] = False /\ Condition!Effect[o]["Active"] = True
    BY <1>7 DEF Condition!Effect
  <2> QED BY <1>1, <1>2, <1>7, <2>1 DEF Coherent, True, False
<1>8. CASE o = "startup"
  <2>1. /\ DOMAIN Condition!Effect[o] = {"Acked", "Confirmed", "Active", "Enabled"}
        /\ Condition!Effect[o]["Acked"] = True /\ Condition!Effect[o]["Confirmed"] = True
    BY <1>8 DEF Condition!Effect
  <2> QED BY <1>1, <1>2, <1>8, <2>1 DEF Coherent, True, False
<1> QED
  BY <1>3, <1>4, <1>5, <1>6, <1>7, <1>8 DEF Ops, AllMethods

(* To treat one field is progress towards the same end. *)
LEMMA TreatKeepsEnd ==
  ASSUME NEW F \in FieldSet, NEW o, NEW T, NEW s \in Condition!States,
         NEW f \in Condition!Fields, << s, f >> \in T
  PROVE  Brought([F EXCEPT ![s][f] = Condition!Effect[o][s]], o, T \ {<< s, f >>})
           = Brought(F, o, T)
<1> DEFINE G == [F EXCEPT ![s][f] = Condition!Effect[o][s]]
<1>1. \A r \in Condition!States, g \in Condition!Fields :
        G[r][g] = IF r = s /\ g = f THEN Condition!Effect[o][s] ELSE F[r][g]
  BY DEF FieldSet
<1> HIDE DEF G
<1>2. \A r \in Condition!States, g \in Condition!Fields :
        (IF << r, g >> \in T \ {<< s, f >>} THEN Condition!Effect[o][r] ELSE G[r][g])
          = (IF << r, g >> \in T THEN Condition!Effect[o][r] ELSE F[r][g])
  BY <1>1
<1>3. Brought(G, o, T \ {<< s, f >>}) = Brought(F, o, T)
  BY <1>2 DEF Brought
<1> QED
  BY <1>3 DEF G

(* A handler that has nothing left to write is at its end. *)
LEMMA NothingLeft ==
  ASSUME NEW F \in FieldSet, NEW o
  PROVE  Brought(F, o, {}) = F
BY DEF Brought, FieldSet

(* As long as no two handlers have overlapped, the one that runs is on its way
   to a coherent alarm: that is what SerialAlarmCoherent becomes in the middle
   of a handler.  It begins with the defaults. *)
SerialInv ==
  serial =>
    /\ \A t, u \in Threads : op[t] # "idle" /\ op[u] # "idle" => t = u
    /\ main = "started" /\ Idle => Coherent(Field)
    /\ main \in {"defaults", "started"} =>
         \A t \in Threads : op[t] # "idle" => Coherent(Brought(Field, op[t], Todo[t]))

LEMMA InitSerial == Init => SerialInv
BY DEF Init, SerialInv

LEMMA FieldType == Typed => Field \in FieldSet
<1> SUFFICES ASSUME Typed PROVE Field \in FieldSet
  OBVIOUS
<1>1. \A s \in Condition!States, f \in Condition!Fields : node[NodeOf[s][f]] \in Values
  BY FieldNodes DEF Typed, TypeOK
<1>2. Field = [s \in Condition!States |-> [f \in Condition!Fields |-> node[NodeOf[s][f]]]]
  BY FieldNodes DEF Field
<1> QED
  BY <1>1, <1>2 DEF FieldSet

LEMMA NextSerial == Typed /\ SerialInv /\ [Next]_vars => SerialInv'
<1> SUFFICES ASSUME Typed, SerialInv, [Next]_vars, serial' PROVE SerialInv'
  BY DEF SerialInv
<1>typed. /\ Typed' /\ op \in [Threads -> Ops \cup {"idle"}]
          /\ step \in [Threads -> Nat \ {0}] /\ Main \in Threads /\ Timer \in Threads
  BY NextTyped DEF Typed, TypeOK, Threads
<1>field. Field \in FieldSet
  BY FieldType
<1>1. ASSUME NEW t \in Threads, WriteNode(t) PROVE SerialInv'
  <2>1. UNCHANGED << main, op, serial >> /\ op[t] # "idle"
    BY <1>1 DEF WriteNode, Writing
  <2>2. Brought(Field, op[t], Todo[t])' = Brought(Field, op[t], Todo[t])
    <3>1. CASE \E s \in Condition!States, f \in Condition!Fields : Condition!Treat(t, s, f)
      <4>1. PICK s \in Condition!States, f \in Condition!Fields : Condition!Treat(t, s, f)
        BY <3>1
      <4>2. /\ << s, f >> \in Todo[t]
            /\ Todo' = [Todo EXCEPT ![t] = Todo[t] \ {<< s, f >>}]
            /\ Field' = [Field EXCEPT ![s][f] = Condition!Effect[op[t]][s]]
        <5>1. TodoMapped /\ TodoMapped'
          BY <1>typed, TodoIs, TodoIsNext
        <5>2. << s, f >> \in Todo[t] /\ Todo' = [Todo EXCEPT ![t] = Todo[t] \ {<< s, f >>}]
          BY <4>1, <5>1 DEF Condition!Treat, TodoMapped
        <5>3. Field' = [Field EXCEPT ![s][f] = Condition!Effect[op[t]][s]]
          BY <4>1 DEF Condition!Treat, Field
        <5> QED
          BY <5>2, <5>3
      <4>3. Todo'[t] = Todo[t] \ {<< s, f >>}
        BY <4>2 DEF Todo
      <4>4. Brought(Field', op[t], Todo'[t]) = Brought(Field, op[t], Todo[t])
        <5>1. << s, f >> \in Todo[t]
          BY <4>2
        <5>2. Brought([Field EXCEPT ![s][f] = Condition!Effect[op[t]][s]], op[t],
                      Todo[t] \ {<< s, f >>})
                = Brought(Field, op[t], Todo[t])
          BY <1>field, <5>1, TreatKeepsEnd
        <5> QED
          BY <4>2, <4>3, <5>2, Zenon
      <4> QED
        BY <2>1, <4>4 DEF Brought
    <3>2. CASE UNCHANGED Condition!absVars
      <4>1. Field' = Field /\ Todo' = Todo
        BY <1>typed, <3>2, TodoIs, TodoIsNext DEF Condition!absVars, TodoMapped, Field
      <4> QED
        BY <2>1, <4>1 DEF Brought
    <3> QED
      BY <1>1, <1>typed, <3>1, <3>2, WriteNodeMaps
  <2>3. \A u \in Threads : op[u] # "idle" => u = t
    BY <2>1 DEF SerialInv
  <2> QED
    BY <2>1, <2>2, <2>3 DEF SerialInv, Idle
<1>2. ASSUME NEW t \in Threads, ReadNode(t) PROVE SerialInv'
  <2>1. UNCHANGED << main, op, serial >> /\ op[t] \in Ops /\ UNCHANGED Field
    BY <1>2, <1>typed DEF ReadNode, Sending, Field
  <2>2. UNCHANGED Todo
    BY <1>2, <1>typed, ReadNodeMaps
  <2> QED
    BY <2>1, <2>2 DEF SerialInv, Idle, Brought
<1>3. ASSUME NEW t \in Threads, op[t] # "idle", step[t] > Len(Writes[op[t]]),
             op' = [op EXCEPT ![t] = "idle"], step' = [step EXCEPT ![t] = 1],
             node' = node, serial' = serial, main \in {"defaults", "started"}
      PROVE  SerialInv'
  <2>1. op[t] \in Ops /\ Todo[t] = {} /\ Field' = Field
    BY <1>3, <1>typed, RestEmpty DEF Todo, Field
  <2>2. Coherent(Brought(Field, op[t], Todo[t]))
    BY <1>3 DEF SerialInv
  <2>3. Coherent(Field)
    BY <1>field, <2>1, <2>2, NothingLeft
  <2>4. \A u \in Threads : op'[u] = "idle"
    BY <1>3, <1>typed DEF SerialInv
  <2> QED
    BY <2>1, <2>3, <2>4 DEF SerialInv, Coherent
<1>4. ASSUME NEW t \in Threads, NEW o \in Ops, op[t] = "idle", Begin(t, o), node' = node,
             main' \in {"defaults", "started"} => main = "started" \/ o = "startup",
             o = "timerLoop" => node["enabledState_Id"] = True
      PROVE  SerialInv'
  <2>1. /\ serial /\ (\A u \in Threads : op[u] = "idle") /\ o # "idle"
        /\ op' = [op EXCEPT ![t] = o] /\ step' = [step EXCEPT ![t] = 1]
    BY <1>4 DEF Begin, Ops, AllMethods
  <2>2. /\ op'[t] = o /\ \A u \in Threads : u # t => op'[u] = "idle"
    BY <1>typed, <2>1
  <2>3. Todo'[t] = (DOMAIN Condition!Effect[o]) \X Condition!Fields /\ Field' = Field
    <3>1. Condition!Begin(t, o)
      BY <1>4, <1>typed, <2>1, BeginMaps
    <3>2. TodoMapped /\ TodoMapped'
      BY <1>typed, TodoIs, TodoIsNext
    <3>3. Todo' = [Todo EXCEPT ![t] = (DOMAIN Condition!Effect[o]) \X Condition!Fields]
      BY <3>1, <3>2 DEF Condition!Begin, TodoMapped
    <3>4. Field' = Field
      BY <1>4 DEF Field
    <3> QED
      BY <3>3, <3>4 DEF Todo
  <2>4. main' \in {"defaults", "started"} => Coherent(Field) \/ o = "startup"
    BY <1>4, <2>1 DEF SerialInv, Idle
  <2>5. main' \in {"defaults", "started"} => Coherent(Brought(Field', o, Todo'[t]))
    BY <1>field, <2>3, <2>4, HandlersCoherent
  <2> QED
    BY <2>1, <2>2, <2>5 DEF SerialInv, Idle, Brought
<1>5. ASSUME NEW t \in Threads, FireEvent(t) PROVE SerialInv'
  <2>1. op[t] \notin {"idle", "startup"} /\ step[t] > Len(Writes[op[t]])
    BY <1>5 DEF FireEvent, AboutToFire, Sending
  <2>2. main \in {"defaults", "started"} => SerialInv'
    BY <1>3, <1>5, <2>1 DEF FireEvent
  <2>3. main \notin {"defaults", "started"} => SerialInv'
    BY <1>5, <1>typed DEF FireEvent, SerialInv, Idle
  <2> QED
    BY <2>2, <2>3
<1>6. ASSUME NEW w \in Workers, NEW m \in Methods, Call(w, m) PROVE SerialInv'
  <2>1. m \in Ops /\ m # "timerLoop" /\ w \in Threads
    BY MethodsAssumption DEF Threads, Ops, AllMethods
  <2>2. serial => main # "defaults" \/ ~(\A u \in Threads : op[u] = "idle")
    BY <1>typed DEF Typed
  <2>3. main # "defaults"
    BY <1>6, <2>2, <1>typed DEF Call, Begin
  <2> QED
    BY <1>4, <1>6, <2>1, <2>3 DEF Call
<1>7. CASE Expire
  BY <1>4, <1>7, <1>typed DEF Expire, Ops
<1>8. CASE SetDefaults
  <2>1. op[Main] = "idle"
    BY <1>8 DEF SetDefaults, Typed
  <2> QED
    BY <1>4, <1>8, <1>typed, <2>1 DEF SetDefaults, Ops
<1>9. CASE startTimerLoop
  <2>1. main = "defaults" /\ op[Main] = "startup" /\ step[Main] > Len(Writes["startup"])
    <3>1. main = "defaults" /\ op[Main] = "startup" /\ ~(step[Main] <= Len(Writes["startup"]))
      BY <1>9 DEF startTimerLoop, Typed, Writing
    <3> QED
      BY <1>typed, <3>1, WritesLen
  <2> QED
    BY <1>3, <1>9, <1>typed, <2>1 DEF startTimerLoop
<1>10. CASE \/ getNamespaceInfo \/ getNodeIds \/ createNodeReferences
            \/ registerCallback \/ UNCHANGED vars
  <2>1. UNCHANGED << node, op, step, serial >>
    BY <1>10 DEF getNamespaceInfo, getNodeIds, createNodeReferences, Lookup,
       registerCallback, vars
  <2>2. main' \in {"defaults", "started"} => main' = main
    BY <1>10 DEF getNamespaceInfo, getNodeIds, createNodeReferences, Lookup,
       registerCallback, vars
  <2>3. Field' = Field /\ Todo' = Todo
    BY <2>1 DEF Field, Todo, Rest
  <2>4. Coherent(Field)' <=> Coherent(Field)
    BY <2>3 DEF Coherent
  <2>5. \A t \in Threads :
          Coherent(Brought(Field, op[t], Todo[t]))' <=> Coherent(Brought(Field, op[t], Todo[t]))
    BY <2>1, <2>3 DEF Coherent, Brought
  <2> QED
    BY <2>1, <2>2, <2>4, <2>5 DEF SerialInv, Idle
<1> QED
  BY <1>1, <1>2, <1>5, <1>6, <1>7, <1>8, <1>9, <1>10 DEF Next, Startup, HandlerStep

(* As long as handlers have never overlapped, an idle alarm is coherent: the
   pairs agree, an unacknowledged alarm is not confirmed, and only an alarm
   that has been active waits for a confirmation. *)
THEOREM SerialAlarmStaysCoherent == Spec => []SerialAlarmCoherent
<1>1. Spec => []SerialInv
  BY InitSerial, AlwaysTyped, NextSerial, PTL DEF Spec
<1>2. SerialInv => SerialAlarmCoherent
  <2> SUFFICES ASSUME Coherent(Field)
               PROVE  /\ node["ackedState"] = node["ackedState_Id"]
                      /\ node["confirmedState"] = node["confirmedState_Id"]
                      /\ node["activeState"] = node["activeState_Id"]
                      /\ node["enabledState"] = node["enabledState_Id"]
                      /\ node["confirmedState_Id"] = True => node["ackedState_Id"] = True
                      /\ node["confirmedState_Id"] = False => node["activeState_Id"] = True
    BY DEF SerialInv, SerialAlarmCoherent
  <2>1. /\ Field["Acked"]["Text"] = node["ackedState"]
        /\ Field["Acked"]["Id"] = node["ackedState_Id"]
        /\ Field["Confirmed"]["Text"] = node["confirmedState"]
        /\ Field["Confirmed"]["Id"] = node["confirmedState_Id"]
        /\ Field["Active"]["Text"] = node["activeState"]
        /\ Field["Active"]["Id"] = node["activeState_Id"]
        /\ Field["Enabled"]["Text"] = node["enabledState"]
        /\ Field["Enabled"]["Id"] = node["enabledState_Id"]
    BY DEF Field, NodeOf
  <2> QED
    BY <2>1 DEF Coherent, Condition!States
<1> QED
  BY <1>1, <1>2, PTL
=============================================================================
