------------------------ MODULE TestStatusCodeProofs ------------------------
(***************************************************************************)
(* Types, the published status and the arrays of TestStatusCode, for any   *)
(* number of nodes, threads and writes, and arrays of any length.          *)
(***************************************************************************)
EXTENDS TestStatusCode, TLAPS

(* Between two nodes timerLoop does nothing but select the next one. *)
PhaseLinked == phase # "select" => at \in linked

(* What is about to be published has the status of the round. *)
StampCurrent ==
  phase \in {"copy", "publish"} => status[Data] \in {statusCode, "Written"}

StatusInv == TypeOK /\ PhaseLinked /\ StampCurrent /\ StatusShown

-----------------------------------------------------------------------------
(* An array whose elements before p have been updated once more than those
   from p on: of two elements of one write, the later one is level or ahead
   within each part, and the earlier one across. *)
Ahead(e, f) == e.count = f.count \/ e.count = Inc(f.count)

Stepped(a, p) ==
  \A i, j \in 1..a.len : i < j /\ a.cells[i].by = a.cells[j].by =>
    IF i < p /\ p <= j THEN Ahead(a.cells[i], a.cells[j]) ELSE Ahead(a.cells[j], a.cells[i])

Sound(a, p) == MixesOne(a) /\ Stepped(a, p)

(* An array whose elements are all of its own write, and not updated yet. *)
Uniform(a) == \A i \in Places : a.cells[i].by = a.by /\ a.cells[i].count = 0

(* How far the pass over a data value has come. *)
InPass(d) == phase \in {"size", "get", "set"} /\ DataOf(at) = d
Split(d) == IF InPass(d) THEN pos ELSE 1

(* A write number that exists. *)
Counted ==
  /\ \A d \in DataValues, i \in Places : value[d].cells[i].by <= writes
  /\ phase = "set" /\ type # "time" => got.by <= writes

(* The element to put back is the next value of the one that is there, or
   comes from an older array than the one that a client has written since. *)
GotCurrent ==
  phase = "set" /\ type # "time" =>
    \/ InRange /\ got = Updated(value[Data].cells[pos])
    \/ got.by # value[Data].by /\ Uniform(value[Data])

ArraysSound ==
  /\ \A d \in DataValues : Sound(value[d], Split(d))
  /\ phase = "publish" => Sound(copied, 1)
  /\ \A n \in Nodes : Sound(node[n].variant, 1)

ArrayInv == StatusInv /\ Counted /\ GotCurrent /\ ArraysSound

-----------------------------------------------------------------------------
(* Types                                                                   *)

LEMMA DataOfTyped == \A n \in Nodes : DataOf(n) \in DataValues
BY NumNodesAssumption, SharedAssumption DEF Nodes, DataValues, DataOf

LEMMA UpdatedTyped == \A e \in Elements : Updated(e) \in Elements /\ Updated(e).by = e.by
                                            /\ Updated(e).count = Inc(e.count)
BY WidthAssumption DEF Elements, Counts, Updated, Inc

LEMMA DatedTyped == \A e \in Elements : Dated(e) \in Elements /\ Dated(e).by = e.by
                                          /\ Dated(e).count = Inc(e.count)
BY WidthAssumption DEF Elements, Counts, Types, Dated, Inc

LEMMA FreshTyped ==
  \A i \in Nat, t \in Types :
    Fresh(i, t) \in Elements /\ Fresh(i, t).by = i /\ Fresh(i, t).count = 0
BY WidthAssumption DEF Elements, Counts, Fresh

LEMMA ShapeTyped ==
  /\ \A s \in Shapes : s.array \in BOOLEAN /\ s.len \in Lengths
  /\ Scalar \in Shapes /\ Scalar.len = 1
  /\ CreatedShapes \subseteq Shapes
<1>1. 1 \in Lengths /\ MaxLength \in Lengths
  BY MaxLengthAssumption DEF Lengths
<1>2. Scalar \in Shapes /\ Scalar.len = 1
  BY <1>1 DEF Scalar, Shapes
<1>3. [array |-> TRUE, len |-> MaxLength] \in Shapes
  BY <1>1 DEF Shapes
<1> QED
  BY <1>2, <1>3 DEF Shapes, CreatedShapes

LEMMA FilledTyped ==
  ASSUME NEW e \in Elements, NEW s \in Shapes
  PROVE  /\ Filled(e, s) \in Variants
         /\ Filled(e, s).by = e.by /\ Filled(e, s).len = s.len
         /\ \A j \in Places : Filled(e, s).cells[j] = e
<1>1. s.array \in BOOLEAN /\ s.len \in Lengths
  BY ShapeTyped
<1>2. e.by \in Nat
  BY DEF Elements
<1> QED
  BY <1>1, <1>2 DEF Filled, Variants

LEMMA NoElementTyped == NoElement \in Elements /\ NoElement.by = 0 /\ NoElement.count = 0
<1>1. 0 \in Nat /\ "other" \in Types
  BY DEF Types
<1> QED
  BY <1>1, FreshTyped DEF NoElement

LEMMA AbsentTyped == Absent \in Variants
BY NoElementTyped, ShapeTyped, FilledTyped DEF Absent

(* Startup leaves the values alone; references are only ever added. *)
LEMMA StartupLinks ==
  ASSUME TypeOK, Startup
  PROVE  /\ linked \subseteq linked' /\ linked' \subseteq Nodes
         /\ main' \in MainStates /\ registered' \subseteq Nodes
         /\ periodNode' \in BOOLEAN /\ armed' \in BOOLEAN
         /\ UNCHANGED << value, status, node, clientVars, clockVars, timerVars >>
<1>1. UNCHANGED << value, status, node, clientVars, clockVars, timerVars >>
  BY DEF Startup
<1>2. CASE getNamespaceInfo
  BY <1>1, <1>2 DEF getNamespaceInfo, TypeOK, MainStates
<1>3. CASE registerCallbacks
  BY <1>1, <1>3 DEF registerCallbacks, TypeOK, MainStates
<1>4. CASE registerLoopTimeCallbacks
  BY <1>1, <1>4 DEF registerLoopTimeCallbacks, TypeOK, MainStates
<1>5. CASE createNodeReferences
  BY <1>1, <1>5 DEF createNodeReferences, TypeOK, MainStates
<1>6. CASE startTimerLoop
  BY <1>1, <1>6 DEF startTimerLoop, TypeOK, MainStates
<1> QED
  BY <1>2, <1>3, <1>4, <1>5, <1>6 DEF Startup

LEMMA NextNodeTyped ==
  ASSUME at \in Nodes, NextNode
  PROVE  at' \in Nodes \cup {0} /\ phase' = "select"
BY NumNodesAssumption DEF NextNode, Nodes

LEMMA CreatedTyped ==
  ASSUME NEW d \in DataValues, NEW t \in CreatedTypes, NEW s \in CreatedShapes
  PROVE  \E e \in Elements, r \in Shapes :
           Created(d, t, s) = Filled(e, r) /\ e.by = 0 /\ e.count = 0
<1>1. 0 \in Nat /\ "text" \in Types /\ t \in Types
  BY DEF Types, CreatedTypes
<1>2. /\ Fresh(0, "text") \in Elements /\ Fresh(0, "text").by = 0 /\ Fresh(0, "text").count = 0
      /\ Fresh(0, t) \in Elements /\ Fresh(0, t).by = 0 /\ Fresh(0, t).count = 0
  BY <1>1, FreshTyped
<1>3. s \in Shapes /\ Scalar \in Shapes
  BY ShapeTyped
<1> QED
  BY <1>2, <1>3 DEF Created

LEMMA InitTyped == Init => TypeOK
<1> SUFFICES ASSUME Init PROVE TypeOK
  OBVIOUS
<1>1. value \in [DataValues -> Variants]
  <2>1. PICK t \in [DataValues -> CreatedTypes], s \in [DataValues -> CreatedShapes] :
          value = [d \in DataValues |-> Created(d, t[d], s[d])]
    BY DEF Init
  <2>2. ASSUME NEW d \in DataValues PROVE Created(d, t[d], s[d]) \in Variants
    <3>1. t[d] \in CreatedTypes /\ s[d] \in CreatedShapes
      BY <2>1
    <3> QED
      BY <3>1, CreatedTyped, FilledTyped
  <2> QED
    BY <2>1, <2>2
<1>2. node \in [Nodes -> [variant : Variants, status : Statuses]]
  BY AbsentTyped DEF Init, Statuses
<1>3. got \in Elements /\ copied \in Variants
  BY AbsentTyped, NoElementTyped DEF Init
<1>4. pos \in 1..(MaxLength + 1)
  BY MaxLengthAssumption DEF Init
<1> QED
  BY <1>1, <1>2, <1>3, <1>4
     DEF Init, TypeOK, MainStates, Phases, Statuses, Types, NotStoring

(* What each step of the update of a node does to the data value and the
   variables of the loop. *)
LEMMA DataTyped ==
  ASSUME TypeOK, PhaseLinked, phase # "select"
  PROVE  /\ at \in Nodes /\ Data \in DataValues
         /\ value[Data] \in Variants /\ value[Data].len \in 0..MaxLength
         /\ InRange <=> pos \in 1..value[Data].len
         /\ InRange => pos \in Places /\ value[Data].cells[pos] \in Elements
<1>1. at \in Nodes
  BY DEF TypeOK, PhaseLinked
<1>2. Data \in DataValues
  BY <1>1, DataOfTyped DEF Data
<1>3. value[Data] \in Variants
  BY <1>2 DEF TypeOK
<1>4. value[Data].len \in 0..MaxLength /\ value[Data].cells \in [Places -> Elements]
  BY <1>3 DEF Variants, Lengths
<1>5. InRange <=> pos \in 1..value[Data].len
  BY <1>4, MaxLengthAssumption DEF InRange, TypeOK
<1>6. InRange => pos \in Places
  BY <1>4, <1>5, MaxLengthAssumption DEF Places
<1> QED
  BY <1>1, <1>2, <1>3, <1>4, <1>5, <1>6

(* The type of a variant is one of the types. *)
LEMMA TypeOfTyped == \A v \in Variants : TypeOf(v) \in Types
<1> SUFFICES ASSUME NEW v \in Variants PROVE TypeOf(v) \in Types
  OBVIOUS
<1>1. 1 \in Places /\ "other" \in Types
  BY MaxLengthAssumption DEF Places, Types
<1>2. v.cells[1] \in Elements
  BY <1>1 DEF Variants
<1> QED
  BY <1>1, <1>2 DEF TypeOf, Elements

LEMMA PutTyped ==
  ASSUME TypeOK, PhaseLinked, phase # "select", NEW p \in Places
  PROVE  /\ Put(p) \in Elements
         /\ type = "time" => Put(p).by = value[Data].cells[p].by
         /\ type # "time" => Put(p) = got
<1>1. value[Data] \in Variants
  BY DataTyped
<1>2. value[Data].cells[p] \in Elements
  BY <1>1 DEF Variants
<1> QED
  BY <1>2, DatedTyped DEF Put, TypeOK

LEMMA NextTyped == TypeOK /\ PhaseLinked /\ [Next]_vars => TypeOK'
<1> SUFFICES ASSUME TypeOK, PhaseLinked, [Next]_vars PROVE TypeOK'
  OBVIOUS
<1> USE DEF TypeOK
<1>1. CASE Startup
  BY <1>1, StartupLinks DEF clientVars, clockVars, timerVars
<1>2. CASE writeLoopTimeValue
  BY <1>2 DEF writeLoopTimeValue, clientVars, clockVars, timerVars
<1>3. ASSUME NEW w \in Workers, NEW n \in Nodes, NEW t \in Types, NEW s \in Shapes, WriteVariant(w, n, t, s)
      PROVE  TypeOK'
  <2>1. Filled(Fresh(writes + 1, t), s) \in Variants /\ DataOf(n) \in DataValues
    <3>1. writes + 1 \in Nat
      OBVIOUS
    <3>2. Fresh(writes + 1, t) \in Elements
      BY <3>1, FreshTyped
    <3> QED
      BY <3>2, FilledTyped, DataOfTyped
  <2>2. value' \in [DataValues -> Variants] /\ writes' \in Nat
    BY <1>3, <2>1 DEF WriteVariant
  <2> QED
    BY <1>3, <2>2 DEF WriteVariant, startVars, clockVars, timerVars
<1>4. ASSUME NEW w \in Workers, WriteStatus(w)
      PROVE  TypeOK'
  <2>1. storing' \in [Workers -> DataValues \cup {NotStoring}]
    BY <1>4 DEF WriteStatus
  <2>2. status' \in [DataValues -> Statuses]
    BY <1>4 DEF WriteStatus, Statuses
  <2> QED
    BY <1>4, <2>1, <2>2 DEF WriteStatus, startVars, clockVars, timerVars
<1>5. CASE ClockAdvances
  BY <1>5 DEF ClockAdvances, startVars, clientVars, timerVars
<1>6. CASE Expire
  <2>1. statusCode' \in Statuses \ {"Written"} /\ due' \in BOOLEAN
    BY <1>6 DEF Expire, Toggled, Statuses
  <2>2. at' \in Nodes /\ skipped' \subseteq Nodes
    BY <1>6, NumNodesAssumption DEF Expire, Nodes
  <2> QED
    BY <1>6, <2>1, <2>2 DEF Expire, startVars, clientVars
<1>7. CASE Select
  <2>1. at \in Nodes
    BY <1>7 DEF Select
  <2>2. at' \in Nodes \cup {0} /\ phase' \in Phases /\ skipped' \subseteq Nodes
    BY <1>7, <2>1, NextNodeTyped DEF Select, Skip, Phases
  <2>3. single' \in BOOLEAN
    BY <1>7 DEF Select
  <2> QED
    BY <1>7, <2>2, <2>3 DEF Select, startVars, clientVars, clockVars
<1>8. CASE Switch
  <2>1. at \in Nodes /\ value[Data] \in Variants
    BY <1>8, DataTyped DEF Switch
  <2>2. at' \in Nodes \cup {0} /\ phase' \in Phases /\ skipped' \subseteq Nodes
    BY <1>8, <2>1, NextNodeTyped DEF Switch, FirstAccess, Skip, Phases
  <2>3. type' \in Types /\ pos' \in 1..(MaxLength + 1)
    BY <1>8, <2>1, TypeOfTyped, MaxLengthAssumption DEF Switch
  <2>4. single' \in BOOLEAN
    BY <1>8 DEF Switch
  <2> QED
    BY <1>8, <2>2, <2>3, <2>4 DEF Switch, startVars, clientVars, clockVars
<1>9. CASE TestSize
  BY <1>9 DEF TestSize, FirstAccess, startVars, clientVars, clockVars, Phases
<1>10. CASE GetElement
  <2>1. got' \in Elements
    BY <1>10, DataTyped, UpdatedTyped DEF GetElement, Readable
  <2> QED
    BY <1>10, <2>1 DEF GetElement, startVars, clientVars, clockVars, Phases
<1>11. CASE SetElement
  <2>1. pos \in Places /\ Data \in DataValues
    BY <1>11, DataTyped DEF SetElement
  <2>2. [value[Data] EXCEPT !.cells[pos] = Put(pos)] \in Variants
    BY <1>11, <2>1, PutTyped DEF SetElement, Variants
  <2>3. value' \in [DataValues -> Variants]
    BY <1>11, <2>1, <2>2 DEF SetElement
  <2>4. pos' \in 1..(MaxLength + 1)
    BY <1>11, <2>1, MaxLengthAssumption DEF SetElement, Places
  <2> QED
    BY <1>11, <2>3, <2>4 DEF SetElement, startVars, clientVars, clockVars, Phases
<1>12. CASE SetSingle
  <2>1. Filled(Put(1), Scalar) \in Variants
    <3>1. 1 \in Places
      BY MaxLengthAssumption DEF Places
    <3> QED
      BY <1>12, <3>1, PutTyped, FilledTyped, ShapeTyped DEF SetSingle
  <2>2. value' \in [DataValues -> Variants]
    BY <1>12, <2>1 DEF SetSingle
  <2> QED
    BY <1>12, <2>2 DEF SetSingle, startVars, clientVars, clockVars, Phases
<1>13. CASE AccessFails
  BY <1>13 DEF AccessFails, clientVars, clockVars, timerVars, MainStates
<1>14. CASE Stamp
  <2>1. status' \in [DataValues -> Statuses]
    BY <1>14 DEF Stamp
  <2>2. got' \in Elements /\ pos' \in 1..(MaxLength + 1) /\ type' \in Types
    BY <1>14, NoElementTyped, MaxLengthAssumption DEF Stamp, Leave, Types
  <2>3. single' \in BOOLEAN
    BY <1>14 DEF Stamp, Leave
  <2> QED
    BY <1>14, <2>1, <2>2, <2>3 DEF Stamp, startVars, clientVars, clockVars, Phases
<1>15. CASE CopyVariant
  <2>1. copied' \in Variants
    BY <1>15, DataTyped DEF CopyVariant
  <2> QED
    BY <1>15, <2>1 DEF CopyVariant, startVars, clientVars, clockVars, Phases
<1>16. CASE Publish
  <2>1. at \in Nodes /\ status[Data] \in Statuses
    BY <1>16, DataTyped DEF Publish
  <2>2. at' \in Nodes \cup {0} /\ phase' = "select"
    BY <1>16, <2>1, NextNodeTyped DEF Publish
  <2>3. node' \in [Nodes -> [variant : Variants, status : Statuses]]
    BY <1>16, <2>1 DEF Publish
  <2>4. copied' \in Variants
    BY <1>16, AbsentTyped DEF Publish
  <2> QED
    BY <1>16, <2>2, <2>3, <2>4 DEF Publish, startVars, clientVars, clockVars, Phases
<1>17. CASE UNCHANGED vars
  BY <1>17 DEF vars, startVars, clientVars, clockVars, timerVars
<1> QED
  BY <1>1, <1>2, <1>3, <1>4, <1>5, <1>6, <1>7, <1>8, <1>9, <1>10, <1>11, <1>12, <1>13,
     <1>14, <1>15, <1>16, <1>17 DEF Next, timerLoop

-----------------------------------------------------------------------------
(* The published status                                                    *)

LEMMA InitStatus == Init => StatusInv
BY InitTyped DEF Init, StatusInv, PhaseLinked, StampCurrent, StatusShown

LEMMA NextLinked == TypeOK /\ PhaseLinked /\ [Next]_vars => PhaseLinked'
<1> SUFFICES ASSUME TypeOK, PhaseLinked, [Next]_vars PROVE PhaseLinked'
  OBVIOUS
<1> USE DEF PhaseLinked
<1>1. CASE Startup
  BY <1>1, StartupLinks DEF timerVars
<1>2. CASE Expire
  <2>1. phase = "select"
    BY <1>2 DEF Expire, TypeOK, Nodes
  <2> QED
    BY <1>2, <2>1 DEF Expire, startVars
<1>3. CASE Select
  BY <1>3 DEF Select, Skip, NextNode, startVars
<1>4. CASE Switch
  BY <1>4 DEF Switch, Skip, NextNode, startVars
<1>5. CASE Publish
  BY <1>5 DEF Publish, NextNode, startVars
<1> QED
  BY <1>1, <1>2, <1>3, <1>4, <1>5
     DEF Next, timerLoop, writeLoopTimeValue, WriteVariant, WriteStatus, ClockAdvances, TestSize,
         GetElement, SetElement, SetSingle, AccessFails, Stamp, CopyVariant, vars, startVars, clientVars,
         clockVars, timerVars

(* The nodes that the round is past once it goes on. *)
LEMMA NextNodePasses ==
  ASSUME at \in Nodes, NextNode, NEW n \in Nodes, n # at, at' = 0 \/ n < at'
  PROVE  n < at
BY NumNodesAssumption DEF NextNode, Nodes

LEMMA SkipShows ==
  ASSUME TypeOK, StatusShown, at \in Nodes, Skip, UNCHANGED << node, statusCode >>
  PROVE  StatusShown'
<1> SUFFICES ASSUME NEW n \in Nodes, n \notin skipped', at' = 0 \/ n < at'
             PROVE  node[n].status \in {statusCode, "Written"}
  BY DEF StatusShown
<1>1. n \notin skipped /\ n # at
  BY DEF Skip
<1>2. n < at
  BY <1>1, NextNodePasses DEF Skip
<1> QED
  BY <1>1, <1>2 DEF StatusShown

LEMMA NextStatus == StatusInv /\ [Next]_vars => StatusInv'
<1> SUFFICES ASSUME StatusInv, [Next]_vars PROVE StatusInv'
  OBVIOUS
<1>1. TypeOK /\ PhaseLinked /\ TypeOK' /\ PhaseLinked'
  BY NextTyped, NextLinked DEF StatusInv
<1> SUFFICES StampCurrent' /\ StatusShown'
  BY <1>1 DEF StatusInv
<1> USE DEF StatusInv, StampCurrent, StatusShown, Data
<1>2. CASE Startup
  BY <1>1, <1>2, StartupLinks DEF clockVars, timerVars
<1>3. CASE writeLoopTimeValue
  BY <1>3 DEF writeLoopTimeValue, clockVars, timerVars
<1>4. ASSUME NEW w \in Workers, NEW n \in Nodes, NEW t \in Types, NEW s \in Shapes, WriteVariant(w, n, t, s)
      PROVE  StampCurrent' /\ StatusShown'
  BY <1>4 DEF WriteVariant, clockVars, timerVars
<1>5. ASSUME NEW w \in Workers, WriteStatus(w)
      PROVE  StampCurrent' /\ StatusShown'
  <2>1. \A d \in DataValues : status'[d] \in {status[d], "Written"}
    BY <1>1, <1>5 DEF WriteStatus, TypeOK
  <2>2. phase # "select" => Data \in DataValues
    BY <1>1, DataTyped
  <2> QED
    BY <1>5, <2>1, <2>2 DEF WriteStatus, clockVars, timerVars
<1>6. CASE ClockAdvances
  BY <1>6 DEF ClockAdvances, timerVars
<1>7. CASE Expire
  <2>1. phase = "select"
    BY <1>1, <1>7 DEF Expire, PhaseLinked, TypeOK, Nodes
  <2>2. at' = 1 /\ phase' = "select"
    BY <1>7, <2>1 DEF Expire
  <2>3. \A n \in Nodes : ~(n < 1)
    BY NumNodesAssumption DEF Nodes
  <2> QED
    BY <2>2, <2>3
<1>8. CASE Select
  <2>1. at \in Nodes /\ phase = "select" /\ phase' \in {"select", "switch"}
          /\ UNCHANGED << node, statusCode >>
    BY <1>1, <1>8 DEF Select, Skip, NextNode, clockVars, TypeOK
  <2>2. StampCurrent'
    BY <2>1
  <2>3. StatusShown'
    <3>1. CASE at \in linked
      BY <1>8, <2>1, <3>1 DEF Select
    <3>2. CASE at \notin linked
      <4>1. Skip
        BY <1>8, <3>2 DEF Select
      <4> QED
        BY <1>1, <2>1, <4>1, SkipShows
    <3> QED
      BY <3>1, <3>2
  <2> QED
    BY <2>2, <2>3
<1>9. CASE Switch
  <2>1. at \in Nodes /\ phase' \in {"select", "get", "set", "size"}
          /\ UNCHANGED << node, statusCode >>
    BY <1>1, <1>9, DataTyped DEF Switch, FirstAccess, Skip, NextNode, clockVars
  <2>2. StampCurrent'
    BY <2>1
  <2>3. StatusShown'
    <3>1. CASE TypeOf(value[DataOf(at)]) \in KnownTypes
      BY <1>9, <2>1, <3>1 DEF Switch
    <3>2. CASE TypeOf(value[DataOf(at)]) \notin KnownTypes
      <4>1. Skip
        BY <1>9, <3>2 DEF Switch
      <4> QED
        BY <1>1, <2>1, <4>1, SkipShows
    <3> QED
      BY <3>1, <3>2
  <2> QED
    BY <2>2, <2>3
<1>10. CASE TestSize
  BY <1>10 DEF TestSize, FirstAccess, clockVars
<1>11. CASE GetElement
  BY <1>11 DEF GetElement, clockVars
<1>12. CASE SetElement
  BY <1>12 DEF SetElement, clockVars
<1>13. CASE SetSingle
  BY <1>13 DEF SetSingle, clockVars
<1>14. CASE AccessFails
  BY <1>14 DEF AccessFails, clockVars, timerVars
<1>15. CASE Stamp
  <2>1. Data \in DataValues
    BY <1>1, <1>15, DataTyped DEF Stamp
  <2>2. status'[Data] = statusCode
    BY <1>1, <1>15, <2>1 DEF Stamp, TypeOK
  <2> QED
    BY <1>15, <2>2 DEF Stamp, clockVars
<1>16. CASE CopyVariant
  <2>1. Data \in DataValues /\ phase = "copy"
    BY <1>1, <1>16, DataTyped DEF CopyVariant
  <2> QED
    BY <1>16, <2>1 DEF CopyVariant, clockVars
<1>17. CASE Publish
  <2>1. at \in Nodes /\ status[Data] \in {statusCode, "Written"}
    BY <1>1, <1>17, DataTyped DEF Publish
  <2>2. \A n \in Nodes : node'[n].status = IF n = at THEN status[Data] ELSE node[n].status
    BY <1>1, <1>17, <2>1 DEF Publish, TypeOK
  <2>3. phase' = "select" /\ NextNode /\ UNCHANGED << statusCode, skipped >>
    BY <1>17 DEF Publish, NextNode, clockVars
  <2>4. ASSUME NEW n \in Nodes, n \notin skipped', at' = 0 \/ n < at'
        PROVE  node'[n].status \in {statusCode', "Written"}
    <3>1. CASE n = at
      BY <2>1, <2>2, <2>3, <3>1
    <3>2. CASE n # at
      <4>1. n < at
        BY <2>1, <2>3, <2>4, <3>2, NextNodePasses
      <4> QED
        BY <2>2, <2>3, <2>4, <3>2, <4>1
    <3> QED
      BY <3>1, <3>2
  <2> QED
    BY <2>3, <2>4
<1>18. CASE UNCHANGED vars
  BY <1>18 DEF vars, clockVars, timerVars
<1> QED
  BY <1>2, <1>3, <1>4, <1>5, <1>6, <1>7, <1>8, <1>9, <1>10, <1>11, <1>12, <1>13, <1>14,
     <1>15, <1>16, <1>17, <1>18 DEF Next, timerLoop

LEMMA AlwaysStatus == Spec => []StatusInv
BY InitStatus, NextStatus, PTL DEF Spec

(* Every variable of TestStatusCode keeps its type. *)
THEOREM StatusTypeCorrect == Spec => []TypeOK
<1>1. StatusInv => TypeOK
  BY DEF StatusInv
<1> QED
  BY AlwaysStatus, <1>1, PTL

(* Each node that the round (timerLoop) is past shows the status of that round,
   unless a client has put in its own, or the round has skipped the node because
   it has no reference or a value of a type the switch does not list. *)
THEOREM PublishedStatusCurrent == Spec => []StatusShown
<1>1. StatusInv => StatusShown
  BY DEF StatusInv
<1> QED
  BY AlwaysStatus, <1>1, PTL

-----------------------------------------------------------------------------
(* Arrays                                                                  *)

LEMMA WithinPlaces ==
  ASSUME NEW a \in Variants, NEW i \in 1..a.len
  PROVE  i \in Places /\ a.cells[i] \in Elements
<1>1. a.len \in 0..MaxLength /\ a.cells \in [Places -> Elements]
  BY DEF Variants, Lengths
<1> QED
  BY <1>1, MaxLengthAssumption DEF Places

LEMMA LenTyped == \A a \in Variants : a.len \in Nat
BY MaxLengthAssumption DEF Variants, Lengths

LEMMA FilledUniform ==
  ASSUME NEW e \in Elements, e.count = 0, NEW s \in Shapes
  PROVE  Uniform(Filled(e, s))
<1> DEFINE a == Filled(e, s)
<1>1. a.by = e.by /\ \A j \in Places : a.cells[j] = e
  BY FilledTyped
<1> QED
  BY <1>1 DEF Uniform

LEMMA UniformSound ==
  ASSUME NEW a \in Variants, Uniform(a), NEW p \in Nat
  PROVE  Sound(a, p)
<1>2. \A i \in 1..a.len : a.cells[i].by = a.by /\ a.cells[i].count = 0
  BY WithinPlaces DEF Uniform
<1> QED
  BY <1>2 DEF Sound, MixesOne, Stepped, Ahead

(* Whatever updateSingle leaves is one element. *)
LEMMA ScalarSound ==
  ASSUME NEW e \in Elements, NEW p \in Nat
  PROVE  Sound(Filled(e, Scalar), p)
<1>1. Filled(e, Scalar).len = 1
  BY FilledTyped, ShapeTyped
<1> QED
  BY <1>1 DEF Sound, MixesOne, Stepped

LEMMA AbsentSound == Sound(Absent, 1)
BY NoElementTyped, ScalarSound DEF Absent

(* A pass that has come to the end of the array has updated all of it. *)
LEMMA PassEnds ==
  ASSUME NEW a \in Variants, NEW p \in Nat, a.len < p, Sound(a, p)
  PROVE  Sound(a, 1)
<1>1. a.len \in Nat
  BY LenTyped
<1> QED
  BY <1>1 DEF Sound, Stepped

(* One step of updateArray: an element is replaced by its next value. *)
LEMMA StepSound ==
  ASSUME NEW a \in Variants, NEW p \in 1..a.len, Sound(a, p), NEW b \in Variants,
         NEW e \in {Updated(a.cells[p]), Dated(a.cells[p])}, b.len = a.len, b.by = a.by,
         \A i \in 1..a.len : b.cells[i] = IF i = p THEN e ELSE a.cells[i]
  PROVE  Sound(b, p + 1)
<1>1. a.len \in Nat /\ p \in Nat
  BY LenTyped
<1>2. /\ b.cells[p].by = a.cells[p].by
      /\ b.cells[p].count = Inc(a.cells[p].count)
  BY WithinPlaces, UpdatedTyped, DatedTyped
<1>3. \A i \in 1..a.len : b.cells[i].by = a.cells[i].by
  BY <1>2
<1>4. MixesOne(b)
  BY <1>3 DEF Sound, MixesOne
<1>5. ASSUME NEW i \in 1..b.len, NEW j \in 1..b.len, i < j, b.cells[i].by = b.cells[j].by
      PROVE  IF i < p + 1 /\ p + 1 <= j THEN Ahead(b.cells[i], b.cells[j])
                                        ELSE Ahead(b.cells[j], b.cells[i])
  <2>1. IF i < p /\ p <= j THEN Ahead(a.cells[i], a.cells[j]) ELSE Ahead(a.cells[j], a.cells[i])
    BY <1>3, <1>5 DEF Sound, Stepped
  <2>2. CASE i = p
    <3>1. Ahead(a.cells[j], a.cells[p]) /\ b.cells[j] = a.cells[j]
      BY <1>1, <1>5, <2>1, <2>2
    <3>2. p + 1 <= j
      BY <1>1, <1>5, <2>2
    <3>3. Ahead(b.cells[p], b.cells[j])
      BY <1>2, <3>1 DEF Ahead
    <3> QED
      BY <1>1, <2>2, <3>2, <3>3
  <2>3. CASE j = p
    <3>1. Ahead(a.cells[i], a.cells[p]) /\ b.cells[i] = a.cells[i]
      BY <1>1, <1>5, <2>1, <2>3
    <3>2. Ahead(b.cells[p], b.cells[i])
      BY <1>2, <3>1 DEF Ahead
    <3> QED
      BY <1>1, <2>3, <3>2
  <2>4. CASE i # p /\ j # p
    <3>1. b.cells[i] = a.cells[i] /\ b.cells[j] = a.cells[j]
      BY <2>4
    <3>2. (i < p /\ p <= j) <=> (i < p + 1 /\ p + 1 <= j)
      BY <1>1, <2>4
    <3> QED
      BY <2>1, <3>1, <3>2
  <2> QED
    BY <2>2, <2>3, <2>4
<1> QED
  BY <1>4, <1>5 DEF Sound, Stepped

(* The same step, when a client has replaced the array in between: it leaves
   one element of an older write. *)
LEMMA StepForeign ==
  ASSUME NEW a \in Variants, NEW p \in 1..a.len, Uniform(a), NEW e \in Elements, e.by # a.by,
         NEW b \in Variants, b.len = a.len, b.by = a.by,
         \A i \in 1..a.len : b.cells[i] = IF i = p THEN e ELSE a.cells[i]
  PROVE  Sound(b, p + 1)
<1>2. \A i \in 1..a.len : a.cells[i].by = a.by /\ a.cells[i].count = 0
  BY WithinPlaces DEF Uniform
<1>3. \A i \in 1..a.len : i # p => b.cells[i].by = a.by /\ b.cells[i].count = 0
  BY <1>2
<1>4. MixesOne(b)
  BY <1>3 DEF MixesOne
<1>5. b.cells[p].by # a.by
  OBVIOUS
<1>6. Stepped(b, p + 1)
  BY <1>3, <1>5 DEF Stepped, Ahead
<1> QED
  BY <1>4, <1>6 DEF Sound

LEMMA InitArray == Init => ArrayInv
<1> SUFFICES ASSUME Init PROVE ArrayInv
  OBVIOUS
<1>1. StatusInv /\ TypeOK
  BY InitStatus DEF StatusInv
<1>2. ASSUME NEW d \in DataValues
      PROVE  value[d] \in Variants /\ Uniform(value[d]) /\ value[d].by = 0
  <2>1. PICK t \in [DataValues -> CreatedTypes], s \in [DataValues -> CreatedShapes] :
          value = [e \in DataValues |-> Created(e, t[e], s[e])]
    BY DEF Init
  <2>2. t[d] \in CreatedTypes /\ s[d] \in CreatedShapes
    BY <2>1
  <2>3. PICK e \in Elements, r \in Shapes :
          value[d] = Filled(e, r) /\ e.by = 0 /\ e.count = 0
    BY <2>1, <2>2, CreatedTyped
  <2> QED
    BY <2>3, FilledTyped, FilledUniform
<1>3. Counted
  BY <1>2 DEF Init, Counted, Uniform
<1>4. GotCurrent
  BY DEF Init, GotCurrent
<1>5. \A d \in DataValues : Split(d) = 1
  BY DEF Init, Split, InPass
<1>6. ArraysSound
  BY <1>2, <1>5, UniformSound, AbsentSound DEF Init, ArraysSound
<1> QED
  BY <1>1, <1>3, <1>4, <1>6 DEF ArrayInv

(* Steps that leave the arrays and the loop alone. *)
LEMMA ArrayStutter ==
  ASSUME ArrayInv, StatusInv',
         UNCHANGED << value, node, writes, at, phase, type, pos, got, copied >>
  PROVE  ArrayInv'
BY DEF ArrayInv, Counted, GotCurrent, ArraysSound, Split, InPass, InRange, Data

LEMMA WriteKeeps ==
  ASSUME ArrayInv, StatusInv', NEW w \in Workers, NEW n \in Nodes,
         NEW t \in Types, NEW s \in Shapes, WriteVariant(w, n, t, s)
  PROVE  ArrayInv'
<1> DEFINE d == DataOf(n)
           a == Filled(Fresh(writes + 1, t), s)
<1>1. TypeOK /\ PhaseLinked
  BY DEF ArrayInv, StatusInv
<1>2. d \in DataValues /\ writes \in Nat /\ pos \in Nat
  BY <1>1, DataOfTyped, MaxLengthAssumption DEF TypeOK
<1>3. value' = [value EXCEPT ![d] = a] /\ writes' = writes + 1
        /\ UNCHANGED << node, at, phase, type, pos, got, copied >>
  BY DEF WriteVariant, timerVars
<1>4. a \in Variants /\ Uniform(a) /\ a.by = writes + 1
        /\ \A i \in Places : a.cells[i].by = writes + 1
  <2>1. /\ Fresh(writes + 1, t) \in Elements /\ Fresh(writes + 1, t).by = writes + 1
        /\ Fresh(writes + 1, t).count = 0
    BY <1>2, FreshTyped
  <2> QED
    BY <2>1, FilledTyped, FilledUniform
<1>5. \A e \in DataValues : value'[e] = IF e = d THEN a ELSE value[e]
  BY <1>1, <1>2, <1>3 DEF TypeOK
<1>6. \A e \in DataValues, i \in Places : value[e].cells[i].by \in Nat
  BY <1>1 DEF TypeOK, Variants, Elements
<1>7. Counted'
  <2>1. \A e \in DataValues, i \in Places : value'[e].cells[i].by <= writes'
    BY <1>2, <1>3, <1>4, <1>5, <1>6 DEF ArrayInv, Counted
  <2>2. phase' = "set" /\ type' # "time" => got'.by <= writes'
    BY <1>1, <1>2, <1>3 DEF ArrayInv, Counted, TypeOK, Elements
  <2> QED
    BY <2>1, <2>2 DEF Counted
<1>8. GotCurrent'
  <2>1. SUFFICES ASSUME phase = "set", type # "time" PROVE GotCurrent'
    BY <1>3 DEF GotCurrent
  <2>2. Data \in DataValues /\ Data' = Data
    BY <1>1, <1>3, <2>1, DataTyped DEF Data
  <2>3. CASE Data = d
    <3>1. got.by <= writes /\ got.by \in Nat
      BY <1>1, <2>1 DEF ArrayInv, Counted, TypeOK, Elements
    <3>2. value'[Data] = a /\ got.by # a.by
      BY <1>2, <1>4, <1>5, <2>2, <2>3, <3>1
    <3> QED
      BY <1>3, <1>4, <2>2, <3>2 DEF GotCurrent
  <2>4. CASE Data # d
    <3>1. value'[Data] = value[Data]
      BY <1>5, <2>2, <2>4
    <3> QED
      BY <1>3, <2>1, <2>2, <3>1 DEF ArrayInv, GotCurrent, InRange
  <2> QED
    BY <2>3, <2>4
<1>9. ArraysSound'
  <2>1. \A e \in DataValues : Split(e)' = Split(e) /\ Split(e) \in Nat
    BY <1>2, <1>3 DEF Split, InPass
  <2>2. ASSUME NEW e \in DataValues PROVE Sound(value'[e], Split(e))
    BY <1>4, <1>5, <2>1, UniformSound DEF ArrayInv, ArraysSound
  <2> QED
    BY <1>3, <2>1, <2>2 DEF ArrayInv, ArraysSound
<1> QED
  BY <1>7, <1>8, <1>9 DEF ArrayInv

(* updateArray puts an element back. *)
LEMMA SetKeeps ==
  ASSUME ArrayInv, StatusInv', SetElement
  PROVE  ArrayInv'
<1> DEFINE d == Data
           a == value[Data]
           b == value'[Data]
           e == Put(pos)
<1>1. TypeOK /\ PhaseLinked /\ phase = "set" /\ InRange
  BY DEF ArrayInv, StatusInv, SetElement
<1>2. d \in DataValues /\ a \in Variants /\ pos \in 1..a.len /\ pos \in Places /\ e \in Elements
        /\ a.cells[pos] \in Elements
  BY <1>1, DataTyped, PutTyped
<1>3. /\ value' = [value EXCEPT ![d] = [a EXCEPT !.cells = [a.cells EXCEPT ![pos] = e]]]
      /\ pos' = pos + 1 /\ phase' = "size"
      /\ UNCHANGED << node, writes, at, got, copied >>
  BY <1>1, <1>2 DEF SetElement, clientVars, TypeOK
<1>4. /\ b = [a EXCEPT !.cells = [a.cells EXCEPT ![pos] = e]]
      /\ \A c \in DataValues : c # d => value'[c] = value[c]
  BY <1>1, <1>2, <1>3 DEF TypeOK
<1>5. b.len = a.len /\ b.by = a.by /\ \A i \in Places : b.cells[i] = IF i = pos THEN e ELSE a.cells[i]
  BY <1>2, <1>4 DEF Variants
<1>6. b \in Variants
  BY <1>2 DEF StatusInv, TypeOK
<1>7. \A i \in 1..a.len : b.cells[i] = IF i = pos THEN e ELSE a.cells[i]
  BY <1>2, <1>5, WithinPlaces
<1>8. Sound(b, pos + 1)
  <2>1. CASE e \in {Updated(a.cells[pos]), Dated(a.cells[pos])}
    <3>1. Sound(a, pos)
      BY <1>1, <1>2 DEF ArrayInv, ArraysSound, Split, InPass, Data
    <3> QED
      BY <1>2, <1>5, <1>6, <1>7, <2>1, <3>1, StepSound
  <2>2. CASE e.by # a.by /\ Uniform(a)
    BY <1>2, <1>5, <1>6, <1>7, <2>2, StepForeign
  <2>3. CASE type = "time"
    <3>1. e = Dated(a.cells[pos])
      BY <2>3 DEF Put
    <3> QED
      BY <2>1, <3>1
  <2>4. CASE type # "time"
    <3>1. e = got
      BY <2>4 DEF Put
    <3> QED
      BY <1>1, <2>1, <2>2, <2>4, <3>1 DEF ArrayInv, GotCurrent
  <2> QED
    BY <2>3, <2>4
<1>9. \A c \in DataValues : Split(c) = (IF c = d THEN pos ELSE 1)
                             /\ Split(c)' = (IF c = d THEN pos + 1 ELSE 1)
  BY <1>1, <1>3 DEF Split, InPass, Data
<1>10. ArraysSound'
  BY <1>3, <1>4, <1>8, <1>9 DEF ArrayInv, ArraysSound
<1>11. Counted'
  <2>1. e.by <= writes
    BY <1>1, <1>2, PutTyped DEF ArrayInv, Counted
  <2>2. \A c \in DataValues, i \in Places : value'[c].cells[i].by <= writes
    BY <1>4, <1>5, <2>1 DEF ArrayInv, Counted
  <2> QED
    BY <1>3, <2>2 DEF Counted
<1>12. GotCurrent'
  BY <1>3 DEF GotCurrent
<1> QED
  BY <1>10, <1>11, <1>12 DEF ArrayInv

(* updateSingle replaces the variant by one element. *)
LEMMA SingleKeeps ==
  ASSUME ArrayInv, StatusInv', SetSingle
  PROVE  ArrayInv'
<1> DEFINE e == Put(1)
<1>1. TypeOK /\ PhaseLinked /\ phase = "set" /\ phase' = "stamp"
        /\ value' = [value EXCEPT ![Data] = Filled(e, Scalar)]
        /\ UNCHANGED << node, writes, at, pos, got, copied >>
  BY DEF ArrayInv, StatusInv, SetSingle, clientVars
<1>2. Data \in DataValues /\ 1 \in Places
  BY <1>1, DataTyped, MaxLengthAssumption DEF Places
<1>3. e \in Elements /\ e.by <= writes
  BY <1>1, <1>2, PutTyped DEF ArrayInv, Counted
<1>4. \A d \in DataValues : value'[d] = IF d = Data THEN Filled(e, Scalar) ELSE value[d]
  BY <1>1, <1>2 DEF TypeOK
<1>5. \A d \in DataValues : Split(d)' = 1 /\ (d # Data => Split(d) = 1)
  BY <1>1 DEF Split, InPass, Data
<1>6. Sound(Filled(e, Scalar), 1)
  BY <1>3, ScalarSound
<1>7. ArraysSound'
  BY <1>1, <1>4, <1>5, <1>6 DEF ArrayInv, ArraysSound
<1>8. \A i \in Places : Filled(e, Scalar).cells[i].by <= writes
  BY <1>3, FilledTyped, ShapeTyped
<1>9. Counted' /\ GotCurrent'
  BY <1>1, <1>4, <1>8 DEF ArrayInv, Counted, GotCurrent
<1> QED
  BY <1>7, <1>9 DEF ArrayInv

LEMMA NextArray == ArrayInv /\ [Next]_vars => ArrayInv'
<1> SUFFICES ASSUME ArrayInv, [Next]_vars PROVE ArrayInv'
  OBVIOUS
<1>1. StatusInv'
  BY NextStatus DEF ArrayInv
<1>2. TypeOK /\ PhaseLinked
  BY DEF ArrayInv, StatusInv
<1>3. CASE Startup
  BY <1>1, <1>2, <1>3, StartupLinks, ArrayStutter DEF clientVars, timerVars
<1>4. CASE writeLoopTimeValue
  BY <1>1, <1>4, ArrayStutter DEF writeLoopTimeValue, clientVars, timerVars
<1>5. ASSUME NEW w \in Workers, NEW n \in Nodes, NEW t \in Types, NEW s \in Shapes, WriteVariant(w, n, t, s)
      PROVE  ArrayInv'
  BY <1>1, <1>5, WriteKeeps
<1>6. ASSUME NEW w \in Workers, WriteStatus(w)
      PROVE  ArrayInv'
  BY <1>1, <1>6, ArrayStutter DEF WriteStatus, timerVars
<1>7. CASE ClockAdvances
  BY <1>1, <1>7, ArrayStutter DEF ClockAdvances, clientVars, timerVars
<1>8. CASE Expire
  <2>1. phase = "select" /\ UNCHANGED << value, node, writes, phase, pos, got, copied >>
    BY <1>2, <1>8 DEF Expire, PhaseLinked, TypeOK, Nodes, clientVars
  <2>2. \A d \in DataValues : Split(d) = 1 /\ Split(d)' = 1
    BY <2>1 DEF Split, InPass
  <2> QED
    BY <1>1, <2>1, <2>2 DEF ArrayInv, Counted, GotCurrent, ArraysSound
<1>9. CASE Select
  <2>1. phase = "select" /\ phase' \in {"select", "switch"}
          /\ UNCHANGED << value, node, writes, got, copied >>
    BY <1>9 DEF Select, Skip, NextNode, clientVars
  <2>2. \A d \in DataValues : Split(d) = 1 /\ Split(d)' = 1
    BY <2>1 DEF Split, InPass
  <2> QED
    BY <1>1, <2>1, <2>2 DEF ArrayInv, Counted, GotCurrent, ArraysSound
<1>10. CASE Switch
  <2>1. phase = "switch" /\ UNCHANGED << value, node, writes, got, copied >>
    BY <1>10 DEF Switch, clientVars
  <2>2. /\ phase' \in {"select", "get", "set", "size"} /\ (phase' # "select" => pos' = 1)
        /\ phase' = "set" => type' = "time"
    BY <1>10 DEF Switch, FirstAccess, Skip, NextNode
  <2>3. \A d \in DataValues : Split(d) = 1 /\ Split(d)' = 1
    BY <2>1, <2>2 DEF Split, InPass
  <2> QED
    BY <1>1, <2>1, <2>2, <2>3 DEF ArrayInv, Counted, GotCurrent, ArraysSound
<1>11. CASE TestSize
  <2>1. phase = "size" /\ phase' = (IF InRange THEN FirstAccess(type) ELSE "stamp")
          /\ UNCHANGED << value, node, writes, at, type, pos, got, copied >>
    BY <1>11 DEF TestSize, clientVars
  <2>2. Data \in DataValues /\ value[Data] \in Variants /\ pos \in Nat /\ value[Data].len \in Nat
    BY <1>2, <2>1, DataTyped, MaxLengthAssumption DEF TypeOK
  <2>3. ArraysSound'
    <3>1. CASE InRange
      <4>1. \A d \in DataValues : Split(d)' = Split(d)
        BY <2>1, <3>1 DEF FirstAccess, Split, InPass
      <4>2. phase' # "publish"
        BY <2>1, <3>1 DEF FirstAccess
      <4> QED
        BY <2>1, <4>1, <4>2 DEF ArrayInv, ArraysSound
    <3>2. CASE ~InRange
      <4>1. \A d \in DataValues : Split(d)' = 1 /\ (d # Data => Split(d) = 1)
        BY <2>1, <3>2 DEF Split, InPass, Data
      <4>2. Sound(value[Data], pos) /\ value[Data].len < pos
        BY <2>1, <2>2, <3>2 DEF ArrayInv, ArraysSound, Split, InPass, Data, InRange
      <4>3. Sound(value[Data], 1)
        BY <2>2, <4>2, PassEnds
      <4>4. \A d \in DataValues : Sound(value[d], 1)
        BY <4>1, <4>3 DEF ArrayInv, ArraysSound
      <4> QED
        BY <2>1, <3>2, <4>1, <4>4 DEF ArrayInv, ArraysSound
    <3> QED
      BY <3>1, <3>2
  <2>4. phase' = "set" => type' = "time"
    BY <2>1 DEF FirstAccess
  <2> QED
    BY <1>1, <2>1, <2>3, <2>4 DEF ArrayInv, Counted, GotCurrent
<1>12. CASE GetElement
  <2>1. phase = "get" /\ phase' = "set" /\ InRange /\ got' = Updated(value[Data].cells[pos])
          /\ UNCHANGED << value, node, writes, at, type, pos, copied >>
    BY <1>12 DEF GetElement, Readable, clientVars
  <2>2. Data \in DataValues /\ pos \in Places /\ value[Data].cells[pos] \in Elements
    BY <1>2, <2>1, DataTyped
  <2>3. got'.by <= writes
    BY <2>1, <2>2, UpdatedTyped DEF ArrayInv, Counted
  <2>4. Counted' /\ GotCurrent'
    BY <2>1, <2>3 DEF ArrayInv, Counted, GotCurrent, InRange, Data
  <2>5. \A d \in DataValues : Split(d)' = Split(d)
    BY <2>1 DEF Split, InPass
  <2> QED
    BY <1>1, <2>1, <2>4, <2>5 DEF ArrayInv, ArraysSound
<1>13. CASE SetElement
  BY <1>1, <1>13, SetKeeps
<1>14. CASE SetSingle
  BY <1>1, <1>14, SingleKeeps
<1>15. CASE AccessFails
  BY <1>1, <1>15, ArrayStutter DEF AccessFails, clientVars, timerVars
<1>16. CASE Stamp
  <2>1. phase = "stamp" /\ phase' = "copy" /\ UNCHANGED << value, node, writes, at, copied >>
    BY <1>16 DEF Stamp, clientVars
  <2>2. \A d \in DataValues : Split(d) = 1 /\ Split(d)' = 1
    BY <2>1 DEF Split, InPass
  <2> QED
    BY <1>1, <2>1, <2>2 DEF ArrayInv, Counted, GotCurrent, ArraysSound
<1>17. CASE CopyVariant
  <2>1. phase = "copy" /\ phase' = "publish" /\ copied' = value[Data]
          /\ UNCHANGED << value, node, writes, at, pos, got >>
    BY <1>17 DEF CopyVariant, clientVars
  <2>2. \A d \in DataValues : Split(d) = 1 /\ Split(d)' = 1
    BY <2>1 DEF Split, InPass
  <2>3. Data \in DataValues
    BY <1>2, <2>1, DataTyped
  <2> QED
    BY <1>1, <2>1, <2>2, <2>3 DEF ArrayInv, Counted, GotCurrent, ArraysSound
<1>18. CASE Publish
  <2>1. phase = "publish" /\ phase' = "select" /\ UNCHANGED << value, writes, pos, got >>
    BY <1>18 DEF Publish, NextNode, clientVars
  <2>2. at \in Nodes
    BY <1>2, <2>1, DataTyped
  <2>3. \A n \in Nodes : node'[n].variant = IF n = at THEN copied ELSE node[n].variant
    BY <1>2, <1>18, <2>2 DEF Publish, TypeOK
  <2>4. \A d \in DataValues : Split(d) = 1 /\ Split(d)' = 1
    BY <2>1 DEF Split, InPass
  <2> QED
    BY <1>1, <2>1, <2>3, <2>4 DEF ArrayInv, Counted, GotCurrent, ArraysSound
<1>19. CASE UNCHANGED vars
  BY <1>1, <1>19, ArrayStutter DEF vars, clientVars, timerVars
<1> QED
  BY <1>3, <1>4, <1>5, <1>6, <1>7, <1>8, <1>9, <1>10, <1>11, <1>12, <1>13, <1>14, <1>15,
     <1>16, <1>17, <1>18, <1>19 DEF Next, timerLoop

LEMMA AlwaysArray == Spec => []ArrayInv
BY InitArray, NextArray, PTL DEF Spec

(* updateArray works in place, and clients replace arrays under it: no client
   ever sees more than one element that is not of the latest write. *)
THEOREM OneForeignAtMost == Spec => []OneForeignElement
<1>1. ArrayInv => OneForeignElement
  BY DataOfTyped DEF ArrayInv, ArraysSound, Sound, OneForeignElement
<1> QED
  BY AlwaysArray, <1>1, PTL

LEMMA SteppedKeepsPace ==
  ASSUME NEW a \in Variants, NEW p \in Nat, Sound(a, p)
  PROVE  KeepsPace(a)
<1>1. a.len \in Nat
  BY LenTyped
<1>2. ASSUME NEW i \in 1..a.len, NEW j \in 1..a.len, a.cells[i].by = a.cells[j].by
      PROVE  Ahead(a.cells[i], a.cells[j]) \/ Ahead(a.cells[j], a.cells[i])
  <2>1. CASE i < j
    BY <1>2, <2>1 DEF Sound, Stepped
  <2>2. CASE j < i
    BY <1>2, <2>2 DEF Sound, Stepped
  <2>3. CASE i = j
    BY <2>3 DEF Ahead
  <2> QED
    BY <1>1, <2>1, <2>2, <2>3
<1> QED
  BY <1>2 DEF KeepsPace, Ahead

(* No client ever sees an element more than one update (updateArray) ahead of
   another one of the same write. *)
THEOREM PaceKept == Spec => []ElementsKeepPace
<1>1. ASSUME ArrayInv, NEW n \in Nodes
      PROVE  KeepsPace(value[DataOf(n)]) /\ KeepsPace(node[n].variant)
  <2>1. TypeOK
    BY <1>1 DEF ArrayInv, StatusInv
  <2>2. DataOf(n) \in DataValues /\ value[DataOf(n)] \in Variants /\ node[n].variant \in Variants
    BY <2>1, DataOfTyped DEF TypeOK
  <2>3. Split(DataOf(n)) \in Nat
    BY <2>1, MaxLengthAssumption DEF Split, TypeOK
  <2> QED
    BY <1>1, <2>2, <2>3, SteppedKeepsPace DEF ArrayInv, ArraysSound
<1>2. ArrayInv => ElementsKeepPace
  BY <1>1 DEF ElementsKeepPace
<1> QED
  BY AlwaysArray, <1>2, PTL
=============================================================================
