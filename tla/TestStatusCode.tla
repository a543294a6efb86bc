--------------------------- MODULE TestStatusCode ---------------------------
(***************************************************************************)
(* The second test folder, Library/TestStatusCode.cpp.                     *)
(*                                                                         *)
(* Its values are stored, read, written and published like those of        *)
(* TestFolderLib, with three differences.  They are published with a       *)
(* status code that timerLoop toggles between Success and BadNotConnected  *)
(* when more than five seconds have passed.  An array is updated in place, *)
(* element by element, while clients write it.  And two neighbouring nodes *)
(* of the map share one data value: createValueMap creates none for node   *)
(* 222 and overwrites the one of node 221.                                 *)
(*                                                                         *)
(* An element is known by the client write it stems from, the number of    *)
(* updates since then and its type.  Copying a whole variant is one step,  *)
(* and shares nothing with the original; node 227, whose elements all      *)
(* point to the text of node 226, is left out.  How numbers move is in     *)
(* ValueWalk, and the timer of the rounds is in LoopTimer.                 *)
(***************************************************************************)
EXTENDS Naturals

CONSTANTS NumNodes,     \* nodes of the value map, numbered in its order
          Shared,       \* the node that shares its predecessor's data value, or 0
          MaxLength,    \* length of createValueMap's arrays, and bound for a client's
          Width,        \* updates are counted modulo Width
          Workers,      \* the server's threads
          MaxWrites     \* bound on the writes of all clients

ASSUME NumNodesAssumption == NumNodes \in Nat \ {0}
ASSUME SharedAssumption == Shared \in {0} \cup 2..NumNodes
ASSUME MaxLengthAssumption == MaxLength \in Nat \ {0}
ASSUME WidthAssumption == Width \in Nat /\ Width > 3
ASSUME MaxWritesAssumption == MaxWrites \in Nat

Nodes == 1..NumNodes

(* The data value of a node. *)
DataValues == Nodes \ {Shared}
DataOf(n) == IF n = Shared THEN Shared - 1 ELSE n

(* The status codes of the component; a client's are all one. *)
Statuses == {"Success", "BadNotConnected", "Written"}

(* Two types that the update reads and sets, DateTime, which it only sets, and
   one that ends in its default case. *)
Types == {"number", "text", "time", "other"}
KnownTypes == Types \ {"other"}

Places == 1..MaxLength
Lengths == 0..MaxLength
Counts == 0..(Width - 1)
Elements == [by : Nat, count : Counts, type : Types]

(* A variant is an array, which may be empty, or one scalar. *)
Shapes == {s \in [array : BOOLEAN, len : Lengths] : ~s.array => s.len = 1}
Variants == [array : BOOLEAN, by : Nat, len : Lengths, cells : [Places -> Elements]]

Fresh(i, t) == [by |-> i, count |-> 0, type |-> t]
Filled(e, s) == [array |-> s.array, by |-> e.by, len |-> s.len, cells |-> [p \in Places |-> e]]
Scalar == [array |-> FALSE, len |-> 1]

(* The stack tells a variant's type by its first element; that of an empty
   array is none the switches list. *)
TypeOf(v) == IF v.len = 0 THEN "other" ELSE v.cells[1].type

(* One update of an element: a step of a counter that wraps around. *)
Inc(c) == IF c = Width - 1 THEN 0 ELSE c + 1
Updated(e) == [e EXCEPT !.count = Inc(e.count)]

(* A DateTime stems from no write; it counts as an update of what it replaces. *)
Dated(e) == [by |-> e.by, count |-> Inc(e.count), type |-> "time"]

-----------------------------------------------------------------------------
VARIABLES main,        \* where startup stands; "crashed" ends the process
          registered,  \* the nodes whose read and write callbacks are in force
          periodNode,  \* the loop time node is writable
          linked,      \* baseNodeClassWMap_: nodes with a reference to the address space
          armed,       \* an element of the slot timer runs
          value,       \* valueMap_: the variant of each data value
          status,      \* valueMap_: its status code
          node,        \* the address space: variant and status of each node
          writes,      \* history: how many writes clients have made
          storing,     \* the data value whose status code each worker has still to store
          due,         \* more than five seconds have passed since switchTime_
          statusCode,  \* statusCode_
          at,          \* the node timerLoop is at, or 0 between two rounds
          phase,       \* its next access
          single,      \* it is in updateSingle, not in updateArray
          type,        \* the case of the switch it is in
          pos,         \* the element it is at
          got,         \* the element it has computed
          copied,      \* the variant it has copied for the address space
          skipped      \* history: the nodes the latest round has passed over

startVars == << main, registered, periodNode, linked, armed >>
clientVars == << writes, storing >>
clockVars == << due, statusCode >>
timerVars == << at, phase, single, type, pos, got, copied, skipped >>
vars == << startVars, value, status, node, clientVars, clockVars, timerVars >>

NoElement == Fresh(0, "other")
Absent == Filled(NoElement, Scalar)
NotStoring == 0

(* createValueMap makes scalars and arrays of one length; of the two values put
   into the shared data value the last remains, which is a string. *)
Created(d, t, s) ==
  IF d + 1 = Shared THEN Filled(Fresh(0, "text"), Scalar) ELSE Filled(Fresh(0, t), s)
CreatedTypes == {"number", "time"}
CreatedShapes == {Scalar, [array |-> TRUE, len |-> MaxLength]}

Init ==
  /\ main = "getNamespaceInfo"
  /\ registered = {}
  /\ periodNode = FALSE
  /\ linked = {}
  /\ armed = FALSE
  /\ \E t \in [DataValues -> CreatedTypes], s \in [DataValues -> CreatedShapes] :
       value = [d \in DataValues |-> Created(d, t[d], s[d])]
  /\ status = [d \in DataValues |-> "Success"]
  /\ node = [n \in Nodes |-> [variant |-> Absent, status |-> "Success"]]
  /\ writes = 0
  /\ storing = [w \in Workers |-> NotStoring]
  /\ due = FALSE
  /\ statusCode = "Success"
  /\ at = 0
  /\ phase = "select"
  /\ single = FALSE
  /\ type = "other"
  /\ pos = 1
  /\ got = NoElement
  /\ copied = Absent
  /\ skipped = Nodes

Alive == main # "crashed"

-----------------------------------------------------------------------------
(* Startup, as in TestFolderLib                                            *)

getNamespaceInfo ==
  /\ main = "getNamespaceInfo"
  /\ main' \in {"registerCallbacks", "failed"}
  /\ UNCHANGED << registered, periodNode, linked, armed >>

registerCallbacks ==
  /\ main = "registerCallbacks"
  /\ registered' \in SUBSET Nodes
  /\ main' = IF registered' = Nodes THEN "registerLoopTimeCallbacks" ELSE "failed"
  /\ UNCHANGED << periodNode, linked, armed >>

registerLoopTimeCallbacks ==
  /\ main = "registerLoopTimeCallbacks"
  /\ periodNode' \in BOOLEAN
  /\ main' = IF periodNode' THEN "createNodeReferences" ELSE "failed"
  /\ UNCHANGED << registered, linked, armed >>

(* The references are inserted one by one up to the first bad one. *)
createNodeReferences ==
  /\ main = "createNodeReferences"
  /\ \/ /\ \E n \in Nodes \ linked :
             /\ \A m \in Nodes \ linked : n <= m
             /\ linked' = linked \cup {n}
        /\ main' = IF linked' = Nodes THEN "startTimerLoop" ELSE main
     \/ linked' = linked /\ main' = "failed"
  /\ UNCHANGED << registered, periodNode, armed >>

startTimerLoop ==
  /\ main = "startTimerLoop"
  /\ main' = "started"
  /\ armed' = TRUE
  /\ UNCHANGED << registered, periodNode, linked >>

Startup ==
  /\ \/ getNamespaceInfo \/ registerCallbacks \/ registerLoopTimeCallbacks
     \/ createNodeReferences \/ startTimerLoop
  /\ UNCHANGED << value, status, node, clientVars, clockVars, timerVars >>

(* A client's write of the loop time also arms a timer that startup has not
   armed yet, or will never arm. *)
writeLoopTimeValue ==
  /\ Alive /\ periodNode
  /\ armed' = TRUE
  /\ UNCHANGED << main, registered, periodNode, linked, value, status, node, clientVars,
                  clockVars, timerVars >>

-----------------------------------------------------------------------------
(* writeValue                                                              *)

(* A client's write, of any type and shape, reaches a worker, which overwrites
   the variant ... *)
WriteVariant(w, n, t, s) ==
  /\ Alive /\ n \in registered
  /\ storing[w] = NotStoring
  /\ writes < MaxWrites
  /\ writes' = writes + 1
  /\ value' = [value EXCEPT ![DataOf(n)] = Filled(Fresh(writes + 1, t), s)]
  /\ storing' = [storing EXCEPT ![w] = DataOf(n)]
  /\ UNCHANGED << startVars, status, node, clockVars, timerVars >>

(* ... and then the status code and the timestamps. *)
WriteStatus(w) ==
  /\ Alive /\ storing[w] # NotStoring
  /\ status' = [status EXCEPT ![storing[w]] = "Written"]
  /\ storing' = [storing EXCEPT ![w] = NotStoring]
  /\ UNCHANGED << startVars, value, node, writes, clockVars, timerVars >>

-----------------------------------------------------------------------------
(* timerLoop                                                               *)

(* The system clock gets five seconds ahead of switchTime_. *)
ClockAdvances ==
  /\ Alive /\ ~due
  /\ due' = TRUE
  /\ UNCHANGED << startVars, value, status, node, clientVars, statusCode, timerVars >>

(* Mutant: the toggle has no way back. *)
ToggledOnce(s) == IF s = "Success" THEN "BadNotConnected" ELSE s

Toggled(s) == IF s = "Success" THEN "BadNotConnected" ELSE "Success"

(* A round begins; it toggles the status if that is due. *)
Expire ==
  /\ Alive /\ armed /\ at = 0
  /\ statusCode' = IF due THEN Toggled(statusCode) ELSE statusCode
  /\ due' = FALSE
  /\ at' = 1
  /\ skipped' = {}
  /\ UNCHANGED << startVars, value, status, node, clientVars, phase, single, type, pos, got,
                  copied >>

(* Mutant: the loop includes the end of the map. *)
NextNodePastEnd ==
  /\ at' = IF at > NumNodes THEN 0 ELSE at + 1
  /\ phase' = "select"

NextNode ==
  /\ at' = IF at = NumNodes THEN 0 ELSE at + 1
  /\ phase' = "select"

(* The round goes on without stamping or publishing the node. *)
Skip == NextNode /\ skipped' = skipped \cup {at}

Data == DataOf(at)

(* A node without a reference is skipped; arrays and scalars have their own
   update. *)
Select ==
  /\ Alive /\ at # 0 /\ phase = "select"
  /\ \/ /\ at \in linked
        /\ phase' = "switch"
        /\ single' = ~value[Data].array
        /\ UNCHANGED << at, skipped >>
     \/ at \notin linked /\ Skip /\ UNCHANGED single
  /\ UNCHANGED << startVars, value, status, node, clientVars, clockVars, type, pos, got, copied >>

FirstAccess(t) == IF t = "time" THEN "set" ELSE "get"

(* Mutant: the loop over the elements begins with the second. *)
SwitchSecond ==
  /\ Alive /\ phase = "switch"
  /\ \/ /\ TypeOf(value[Data]) \in KnownTypes
        /\ type' = TypeOf(value[Data])
        /\ phase' = (IF single THEN FirstAccess(type') ELSE "size")
        /\ pos' = (IF single THEN 1 ELSE 2)
        /\ UNCHANGED << at, single, skipped >>
     \/ /\ TypeOf(value[Data]) \notin KnownTypes
        /\ Skip
        /\ single' = FALSE
        /\ UNCHANGED << type, pos >>
  /\ UNCHANGED << startVars, value, status, node, clientVars, clockVars, got, copied >>

(* The switch over the type returns at once from one that it does not list. *)
Switch ==
  /\ Alive /\ phase = "switch"
  /\ \/ /\ TypeOf(value[Data]) \in KnownTypes
        /\ type' = TypeOf(value[Data])
        /\ phase' = (IF single THEN FirstAccess(type') ELSE "size")
        /\ pos' = 1
        /\ UNCHANGED << at, single, skipped >>
     \/ /\ TypeOf(value[Data]) \notin KnownTypes
        /\ Skip
        /\ single' = FALSE
        /\ UNCHANGED << type, pos >>
  /\ UNCHANGED << startVars, value, status, node, clientVars, clockVars, got, copied >>

InRange == pos <= value[Data].len

(* Mutant: the read of the element is hoisted out of the loop. *)
TestSizeHoisted ==
  /\ Alive /\ phase = "size"
  /\ phase' = IF InRange THEN (IF pos = 1 THEN FirstAccess(type) ELSE "set") ELSE "stamp"
  /\ UNCHANGED << startVars, value, status, node, clientVars, clockVars, at, single, type, pos,
                  got, copied, skipped >>

(* updateArray asks for the size before each element ... *)
TestSize ==
  /\ Alive /\ phase = "size"
  /\ phase' = IF InRange THEN FirstAccess(type) ELSE "stamp"
  /\ UNCHANGED << startVars, value, status, node, clientVars, clockVars, at, single, type, pos,
                  got, copied, skipped >>

Readable == InRange /\ value[Data].cells[pos].type = type

GetElement ==
  /\ Alive /\ phase = "get" /\ Readable
  /\ got' = Updated(value[Data].cells[pos])
  /\ phase' = "set"
  /\ UNCHANGED << startVars, value, status, node, clientVars, clockVars, at, single, type, pos,
                  copied, skipped >>

Put(p) == IF type = "time" THEN Dated(value[Data].cells[p]) ELSE got

(* ... and puts the element back into whatever the array is by now, even if
   that is of another type. *)
SetElement ==
  /\ Alive /\ phase = "set" /\ ~single /\ InRange
  /\ value' = [value EXCEPT ![Data].cells[pos] = Put(pos)]
  /\ pos' = pos + 1
  /\ phase' = "size"
  /\ UNCHANGED << startVars, status, node, clientVars, clockVars, at, single, type, got, copied,
                  skipped >>

(* updateSingle makes the variant a scalar again, whatever it is by now. *)
SetSingle ==
  /\ Alive /\ phase = "set" /\ single
  /\ value' = [value EXCEPT ![Data] = Filled(Put(1), Scalar)]
  /\ phase' = "stamp"
  /\ UNCHANGED << startVars, status, node, clientVars, clockVars, at, single, type, pos, got,
                  copied, skipped >>

(* Since the switch, or since the size was asked for, a client has put a
   variant in place that has no such element, or one of another type: the
   access fails, and the model follows the process no further. *)
AccessFails ==
  /\ Alive
  /\ \/ phase = "get" /\ ~Readable
     \/ phase = "set" /\ ~single /\ ~InRange
  /\ main' = "crashed"
  /\ UNCHANGED << registered, periodNode, linked, armed, value, status, node, clientVars,
                  clockVars, timerVars >>

(* The update is over: what it has in local variables is out of use. *)
Leave ==
  /\ got' = NoElement
  /\ pos' = 1
  /\ single' = FALSE
  /\ type' = "other"

(* Mutant: as in TestFolderLib, the status is always Success. *)
StampSuccess ==
  /\ Alive /\ phase = "stamp"
  /\ status' = [status EXCEPT ![Data] = "Success"]
  /\ phase' = "copy"
  /\ Leave
  /\ UNCHANGED << startVars, value, node, clientVars, clockVars, at, copied, skipped >>

Stamp ==
  /\ Alive /\ phase = "stamp"
  /\ status' = [status EXCEPT ![Data] = statusCode]
  /\ phase' = "copy"
  /\ Leave
  /\ UNCHANGED << startVars, value, node, clientVars, clockVars, at, copied, skipped >>

(* setValueSync copies the data value field by field ... *)
CopyVariant ==
  /\ Alive /\ phase = "copy"
  /\ copied' = value[Data]
  /\ phase' = "publish"
  /\ UNCHANGED << startVars, value, status, node, clientVars, clockVars, at, single, type, pos,
                  got, skipped >>

(* ... and replaces the node's value. *)
Publish ==
  /\ Alive /\ phase = "publish"
  /\ node' = [node EXCEPT ![at] = [variant |-> copied, status |-> status[Data]]]
  /\ copied' = Absent
  /\ NextNode
  /\ UNCHANGED << startVars, value, status, clientVars, clockVars, single, type, pos, got,
                  skipped >>

timerLoop ==
  \/ Select \/ Switch \/ TestSize \/ GetElement \/ SetElement \/ SetSingle \/ AccessFails
  \/ Stamp \/ CopyVariant \/ Publish

-----------------------------------------------------------------------------
Next ==
  \/ Startup
  \/ writeLoopTimeValue
  \/ \E w \in Workers, n \in Nodes, t \in Types, s \in Shapes : WriteVariant(w, n, t, s)
  \/ \E w \in Workers : WriteStatus(w)
  \/ ClockAdvances
  \/ Expire
  \/ timerLoop

(* Threads go on, an armed timer keeps expiring, and the clock is not set back
   for ever; nothing obliges a client to write. *)
Fairness ==
  /\ WF_vars(Startup)
  /\ \A w \in Workers : WF_vars(WriteStatus(w))
  /\ WF_vars(ClockAdvances)
  /\ WF_vars(Expire)
  /\ WF_vars(timerLoop)

Spec == Init /\ [][Next]_vars
FairSpec == Spec /\ Fairness

-----------------------------------------------------------------------------
(* Properties                                                              *)

MainStates == {"getNamespaceInfo", "registerCallbacks", "registerLoopTimeCallbacks",
               "createNodeReferences", "startTimerLoop", "started", "failed", "crashed"}
Phases == {"select", "switch", "size", "get", "set", "stamp", "copy", "publish"}

TypeOK ==
  /\ main \in MainStates
  /\ registered \subseteq Nodes
  /\ periodNode \in BOOLEAN
  /\ linked \subseteq Nodes
  /\ armed \in BOOLEAN
  /\ value \in [DataValues -> Variants]
  /\ status \in [DataValues -> Statuses]
  /\ node \in [Nodes -> [variant : Variants, status : Statuses]]
  /\ writes \in Nat
  /\ storing \in [Workers -> DataValues \cup {NotStoring}]
  /\ due \in BOOLEAN
  /\ statusCode \in Statuses \ {"Written"}
  /\ at \in Nodes \cup {0}
  /\ phase \in Phases
  /\ single \in BOOLEAN
  /\ type \in Types
  /\ pos \in 1..(MaxLength + 1)
  /\ got \in Elements
  /\ copied \in Variants
  /\ skipped \subseteq Nodes

(* The published nodes toggle together: each node that the round (timerLoop)
   is past shows the status of that round, or the one a client has put in
   between.  A node that the round has skipped, having no reference or a value
   of a type the switch does not list, keeps what it showed before. *)
StatusShown ==
  \A n \in Nodes \ skipped : at = 0 \/ n < at => node[n].status \in {statusCode, "Written"}

(* At most one element of an array is not of the latest write to it. *)
MixesOne(a) ==
  \A i, j \in 1..a.len : i # j => a.cells[i].by = a.by \/ a.cells[j].by = a.by

(* Elements of one write differ by at most one update. *)
KeepsPace(a) ==
  \A i, j \in 1..a.len : a.cells[i].by = a.cells[j].by =>
    \/ a.cells[i].count = a.cells[j].count
    \/ a.cells[i].count = Inc(a.cells[j].count)
    \/ a.cells[j].count = Inc(a.cells[i].count)

(* Although updateArray works in place while clients replace the array, no
   client, reader or subscriber, ever sees more than one element that is not
   of the latest write or an update of it. *)
OneForeignElement ==
  \A n \in Nodes : MixesOne(value[DataOf(n)]) /\ MixesOne(node[n].variant)

(* However reads, writes and rounds interleave, no client ever sees an element
   more than one update ahead of another one of the same write. *)
ElementsKeepPace ==
  \A n \in Nodes : KeepsPace(value[DataOf(n)]) /\ KeepsPace(node[n].variant)

(* When clients stop writing and rounds go on, the subscribers of a linked node
   whose value is of a type the switch lists are sent either status again and
   again. *)
SubscribersSeeBoth ==
  <>[][writes' = writes]_vars =>
    \A n \in Nodes :
      <>[](Alive /\ armed /\ n \in linked /\ TypeOf(value[DataOf(n)]) \in KnownTypes) =>
        /\ []<>(node[n].status = "Success")
        /\ []<>(node[n].status = "BadNotConnected")

(* A node shows values of its own type until a client writes it: node 221 is a
   "Boolean array test value" (Config/TestStatusCode.OpcUaNodeSet.xml:349), and
   only node 222 is a string. *)
OwnTypes(n) == IF n = Shared THEN {"text"} ELSE CreatedTypes
PublishedIsOwn ==
  \A n \in Nodes :
    node[n].variant.by = 0 => TypeOf(node[n].variant) \in OwnTypes(n) \cup {"other"}
=============================================================================
