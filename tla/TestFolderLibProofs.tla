------------------------ MODULE TestFolderLibProofs ------------------------
(***************************************************************************)
(* Subscribers and readers of the simulated values never see time go       *)
(* backwards, and agree when nobody has written: for any number of nodes,  *)
(* server threads and writes.                                              *)
(***************************************************************************)
EXTENDS TestFolderLib, TLAPS

(* timerLoop leaves the selection of a node only for a linked one. *)
PhaseLinked == phase # "select" => at \in linked

(* Nothing stems from a write that has not been made. *)
Counted == got.by <= writes /\ \A n \in Nodes : value[n].by <= writes

(* The value that is about to be put back is not older than the one that
   subscribers have. *)
GotNotBehind == phase = "set" => node[at].variant.by <= got.by

(* Nor is the one that is about to be published, which a read has passed. *)
CopiedNotBehind ==
  phase = "publish" =>
    node[at].variant.by <= copied.by /\ copied.by <= value[at].by

OrderInv == TypeOK /\ PhaseLinked /\ Counted /\ ReadNotBehind /\ GotNotBehind /\ CopiedNotBehind

(* The round has not changed node n yet. *)
Untouched(n) == at # n \/ phase \in {"select", "get", "set"}

InSync ==
  \A n \in linked : Untouched(n) /\ value[n].form # "written" => node[n].variant = value[n]

CopiedCurrent ==
  phase = "publish" /\ value[at].form # "written" => copied = value[at]

(* A node that is not linked yet has never been updated. *)
UnlinkedWritten == \A n \in Nodes \ linked : value[n].form = "written"

SyncInv == OrderInv /\ InSync /\ CopiedCurrent /\ UnlinkedWritten

-----------------------------------------------------------------------------
(* Types                                                                   *)

(* Startup leaves the values alone; references are only ever added. *)
LEMMA StartupLinks ==
  ASSUME TypeOK, Startup
  PROVE  /\ linked \subseteq linked' /\ linked' \subseteq Nodes
         /\ main' \in MainStates /\ registered' \subseteq Nodes
         /\ periodNode' \in BOOLEAN /\ armed' \in BOOLEAN
         /\ UNCHANGED << value, status, node, writes, storing, at, phase, type, got, copied >>
<1>1. UNCHANGED << value, status, node, writes, storing, at, phase, type, got, copied >>
  BY DEF Startup, timerVars
<1>2. CASE getNamespaceInfo
  BY <1>1, <1>2 DEF getNamespaceInfo, TypeOK, MainStates
<1>3. CASE registerCallbacks
  BY <1>1, <1>3 DEF registerCallbacks, TypeOK, MainStates
<1>4. CASE registerLoopTimeCallbacks
  BY <1>1, <1>4 DEF registerLoopTimeCallbacks, TypeOK, MainStates
<1>5. CASE createNodeReferences
  BY <1>1, <1>5 DEF createNodeReferences, TypeOK, MainStates
<1>6. CASE startTimerLoop
  BY <1>1, <1>6 DEF startTimerLoop, TypeOK, MainStates
<1> QED
  BY <1>2, <1>3, <1>4, <1>5, <1>6 DEF Startup

LEMMA NextNodeTyped ==
  ASSUME at \in Nodes, NextNode
  PROVE  at' \in Nodes \cup {0} /\ phase' = "select"
BY NumNodesAssumption DEF NextNode, Nodes

LEMMA InitTyped == Init => TypeOK
<1> SUFFICES ASSUME Init PROVE TypeOK
  OBVIOUS
<1>1. Absent \in Variants /\ Created \in Variants
  BY DEF Absent, Created, Variant, Variants, Types, Forms
<1>2. "Success" \in Statuses /\ "other" \in Types /\ NotStoring.node = 0
        /\ NotStoring \in [node : Nodes \cup {0}, status : Statuses]
  BY DEF Statuses, Types, NotStoring
<1>3. [variant |-> Absent, status |-> "Success"] \in [variant : Variants, status : Statuses]
  BY <1>1, <1>2
<1>4. value \in [Nodes -> Variants] /\ status \in [Nodes -> Statuses]
        /\ node \in [Nodes -> [variant : Variants, status : Statuses]]
        /\ storing \in [Workers -> [node : Nodes \cup {0}, status : Statuses]]
  BY <1>1, <1>2, <1>3 DEF Init
<1> QED
  BY <1>1, <1>2, <1>4 DEF Init, TypeOK, MainStates

LEMMA NextTyped == TypeOK /\ [Next]_vars => TypeOK'
<1> SUFFICES ASSUME TypeOK, [Next]_vars PROVE TypeOK'
  OBVIOUS
<1> USE DEF TypeOK
<1>1. CASE Startup
  BY <1>1, StartupLinks
<1>2. CASE writeLoopTimeValue
  BY <1>2 DEF writeLoopTimeValue, timerVars
<1>3. ASSUME NEW w \in Workers, NEW n \in Nodes, NEW t \in Types, NEW s \in Statuses,
             WriteVariant(w, n, t, s)
      PROVE  TypeOK'
  <2>1. Variant(writes + 1, t, "written") \in Variants /\ writes + 1 \in Nat
    BY DEF Variant, Variants, Forms
  <2> QED
    BY <1>3, <2>1 DEF WriteVariant, startVars, timerVars
<1>4. ASSUME NEW w \in Workers, WriteStatus(w)
      PROVE  TypeOK'
  BY <1>4 DEF WriteStatus, startVars, timerVars, NotStoring, Statuses
<1>5. CASE Expire
  BY <1>5, NumNodesAssumption DEF Expire, startVars, Nodes
<1>6. CASE Select
  <2>1. at \in Nodes
    BY <1>6 DEF Select
  <2>2. at' \in Nodes \cup {0} /\ phase' \in {"select", "get"}
    BY <1>6, <2>1, NextNodeTyped DEF Select
  <2>3. type' \in Types
    BY <1>6, <2>1 DEF Select, Variants
  <2> QED
    BY <1>6, <2>2, <2>3 DEF Select, startVars
<1>7. CASE GetValue
  <2>1. at \in Nodes
    BY <1>7 DEF GetValue
  <2>2. got' \in Variants
    BY <1>7, <2>1 DEF GetValue, Variant, Variants, Forms
  <2> QED
    BY <1>7, <2>2 DEF GetValue, startVars
<1>8. CASE SetValue
  <2>1. at \in Nodes
    BY <1>8 DEF SetValue
  <2>2. Variant(got.by, got.type, IF got.form = "undefined" THEN "undefined" ELSE "updated")
          \in Variants
    BY DEF Variant, Variants, Forms
  <2> QED
    BY <1>8, <2>1, <2>2 DEF SetValue, startVars
<1>9. CASE Stamp
  BY <1>9 DEF Stamp, startVars, Statuses
<1>10. CASE CopyVariant
  BY <1>10 DEF CopyVariant, startVars
<1>11. CASE Publish
  <2>1. at \in Nodes
    BY <1>11 DEF Publish
  <2>2. at' \in Nodes \cup {0} /\ phase' = "select"
    BY <1>11, <2>1, NextNodeTyped DEF Publish
  <2> QED
    BY <1>11, <2>1, <2>2 DEF Publish, startVars
<1>12. CASE UNCHANGED vars
  BY <1>12 DEF vars, startVars, timerVars
<1> QED
  BY <1>1, <1>2, <1>3, <1>4, <1>5, <1>6, <1>7, <1>8, <1>9, <1>10, <1>11, <1>12
     DEF Next, timerLoop

-----------------------------------------------------------------------------
(* The order of writes                                                     *)

LEMMA InitOrder == Init => OrderInv
<1> SUFFICES ASSUME Init PROVE OrderInv
  OBVIOUS
<1>1. Absent.by = 0 /\ Created.by = 0
  BY DEF Absent, Created, Variant
<1>2. got.by = 0 /\ writes = 0 /\ phase = "select"
        /\ \A n \in Nodes : value[n].by = 0 /\ node[n].variant.by = 0
  BY <1>1 DEF Init
<1>3. TypeOK
  BY InitTyped
<1> QED
  BY <1>2, <1>3 DEF OrderInv, PhaseLinked, Counted, ReadNotBehind, GotNotBehind, CopiedNotBehind

(* The write numbers of well-typed values are naturals. *)
LEMMA NumbersNat ==
  ASSUME TypeOK
  PROVE  /\ \A n \in Nodes : value[n].by \in Nat /\ node[n].variant.by \in Nat
         /\ got.by \in Nat /\ copied.by \in Nat /\ writes \in Nat
BY DEF TypeOK, Variants

LEMMA NextOrder == OrderInv /\ [Next]_vars => OrderInv'
<1> SUFFICES ASSUME OrderInv, [Next]_vars PROVE OrderInv'
  OBVIOUS
<1>1. TypeOK /\ TypeOK'
  BY NextTyped DEF OrderInv
<1>2. /\ \A n \in Nodes : value[n].by \in Nat /\ node[n].variant.by \in Nat
      /\ got.by \in Nat /\ copied.by \in Nat /\ writes \in Nat
  BY <1>1, NumbersNat
<1>3. at \in Nodes \cup {0} /\ linked \subseteq Nodes
        /\ value \in [Nodes -> Variants]
        /\ node \in [Nodes -> [variant : Variants, status : Statuses]]
  BY <1>1 DEF TypeOK
<1>4. phase # "select" => at \in Nodes
  BY <1>3 DEF OrderInv, PhaseLinked
<1> USE DEF OrderInv, PhaseLinked, Counted, ReadNotBehind, GotNotBehind, CopiedNotBehind
<1>5. CASE Startup
  BY <1>1, <1>5, StartupLinks
<1>6. CASE writeLoopTimeValue
  BY <1>1, <1>6 DEF writeLoopTimeValue, timerVars
<1>7. ASSUME NEW w \in Workers, NEW n \in Nodes, NEW t \in Types, NEW s \in Statuses,
             WriteVariant(w, n, t, s)
      PROVE  OrderInv'
  <2>1. Variant(writes + 1, t, "written").by = writes + 1
    BY DEF Variant
  <2>2. /\ writes' = writes + 1
        /\ \A m \in Nodes : value'[m].by = IF m = n THEN writes + 1 ELSE value[m].by
        /\ UNCHANGED << linked, node, at, phase, got, copied >>
    BY <1>3, <1>7, <2>1 DEF WriteVariant, startVars, timerVars
  <2>3. Counted' /\ PhaseLinked' /\ GotNotBehind'
    BY <1>2, <2>2
  <2>4. ReadNotBehind'
    BY <1>2, <2>2
  <2>5. CopiedNotBehind'
    <3>1. SUFFICES ASSUME phase = "publish" PROVE copied.by <= value'[at].by
      BY <1>2, <1>4, <2>2
    <3>2. at \in Nodes /\ copied.by <= value[at].by /\ value[at].by <= writes
      BY <1>4, <3>1
    <3> QED
      BY <1>2, <2>2, <3>2
  <2> QED
    BY <1>1, <2>3, <2>4, <2>5
<1>8. ASSUME NEW w \in Workers, WriteStatus(w)
      PROVE  OrderInv'
  BY <1>1, <1>8 DEF WriteStatus, startVars, timerVars
<1>9. CASE Expire
  <2>1. UNCHANGED << linked, value, node, writes, phase, got, copied >> /\ at = 0
    BY <1>9 DEF Expire, startVars
  <2>2. phase = "select"
    BY <1>3, <2>1, NumNodesAssumption DEF Nodes
  <2> QED
    BY <1>1, <2>1, <2>2
<1>10. CASE Select
  <2>1. UNCHANGED << linked, value, node, writes, got, copied >>
    BY <1>10 DEF Select, startVars
  <2>2. phase' \in {"select", "get"} /\ (phase' = "get" => at' \in linked)
    BY <1>10 DEF Select, NextNode
  <2> QED
    BY <1>1, <2>1, <2>2
<1>11. CASE GetValue
  <2>1. /\ UNCHANGED << linked, value, node, writes, at, copied >>
        /\ phase = "get" /\ phase' = "set" /\ got'.by = value[at].by
    BY <1>11 DEF GetValue, startVars, Variant
  <2> QED
    BY <1>1, <1>4, <2>1
<1>12. CASE SetValue
  <2>1. UNCHANGED << linked, node, writes, at, got, copied >>
          /\ phase = "set" /\ phase' = "stamp" /\ at \in Nodes
    BY <1>4, <1>12 DEF SetValue, startVars
  <2>2. \A m \in Nodes : value'[m].by = IF m = at THEN got.by ELSE value[m].by
    BY <1>3, <1>12, <2>1 DEF SetValue, Variant
  <2> QED
    BY <1>1, <1>2, <2>1, <2>2
<1>13. CASE Stamp
  <2>1. UNCHANGED << linked, value, node, writes, at, got, copied >>
          /\ phase = "stamp" /\ phase' = "copy"
    BY <1>13 DEF Stamp, startVars
  <2> QED
    BY <1>1, <2>1
<1>14. CASE CopyVariant
  <2>1. UNCHANGED << linked, value, node, writes, at, got >>
          /\ phase = "copy" /\ phase' = "publish" /\ copied' = value[at]
    BY <1>14 DEF CopyVariant, startVars
  <2> QED
    BY <1>1, <1>2, <1>4, <2>1
<1>15. CASE Publish
  <2>1. UNCHANGED << linked, value, writes, got, copied >>
          /\ phase = "publish" /\ phase' = "select" /\ at \in Nodes
    BY <1>4, <1>15 DEF Publish, NextNode, startVars
  <2>2. \A m \in Nodes :
          node'[m].variant.by = IF m = at THEN copied.by ELSE node[m].variant.by
    BY <1>3, <1>15, <2>1 DEF Publish
  <2> QED
    BY <1>1, <1>2, <2>1, <2>2
<1>16. CASE UNCHANGED vars
  BY <1>1, <1>16 DEF vars, startVars, timerVars
<1> QED
  BY <1>5, <1>6, <1>7, <1>8, <1>9, <1>10, <1>11, <1>12, <1>13, <1>14, <1>15, <1>16
     DEF Next, timerLoop

LEMMA AlwaysOrder == Spec => []OrderInv
BY InitOrder, NextOrder, PTL DEF Spec

(* Every variable keeps its type. *)
THEOREM ValuesTypeCorrect == Spec => []TypeOK
<1>1. OrderInv => TypeOK
  BY DEF OrderInv
<1> QED
  BY AlwaysOrder, <1>1, PTL

(* A read (readValue) never returns a value older than the one subscribers
   have been sent, although timerLoop may put an old value back. *)
THEOREM ReadsNeverBehind == Spec => []ReadNotBehind
<1>1. OrderInv => ReadNotBehind
  BY DEF OrderInv
<1> QED
  BY AlwaysOrder, <1>1, PTL

(* Only the publication changes what subscribers see, and it publishes a copy
   that is not older than what they have seen. *)
LEMMA PublicationMovesForward ==
  ASSUME OrderInv, [Next]_vars, NEW n \in Nodes
  PROVE  node[n].variant.by <= node'[n].variant.by
<1>1. TypeOK
  BY DEF OrderInv
<1>2. node[n].variant.by \in Nat
  BY <1>1, NumbersNat
<1>3. node \in [Nodes -> [variant : Variants, status : Statuses]]
  BY <1>1 DEF TypeOK
<1>4. CASE Publish
  <2>1. node' = [node EXCEPT ![at] = [variant |-> copied, status |-> status[at]]]
          /\ phase = "publish"
    BY <1>4 DEF Publish
  <2>2. node[at].variant.by <= copied.by
    BY <2>1 DEF OrderInv, CopiedNotBehind
  <2> QED
    BY <1>2, <1>3, <2>1, <2>2
<1>5. CASE UNCHANGED node
  BY <1>2, <1>5
<1>6. Publish \/ UNCHANGED node
  <2>1. CASE Startup
    BY <1>1, <2>1, StartupLinks
  <2>2. CASE UNCHANGED vars
    BY <2>2 DEF vars
  <2> QED
    BY <2>1, <2>2 DEF Next, timerLoop, writeLoopTimeValue, WriteVariant, WriteStatus, Expire,
                      Select, GetValue, SetValue, Stamp, CopyVariant
<1> QED
  BY <1>4, <1>5, <1>6

(* Subscribers never see an older write after a newer one. *)
THEOREM PublicationNeverGoesBack == Spec => PublishedNeverGoesBack
<1>1. OrderInv /\ [Next]_vars =>
        [\A n \in Nodes : node[n].variant.by <= node'[n].variant.by]_vars
  BY PublicationMovesForward
<1> QED
  BY AlwaysOrder, <1>1, PTL DEF Spec, PublishedNeverGoesBack

-----------------------------------------------------------------------------
(* Subscribers and readers agree                                           *)

LEMMA InitSync == Init => SyncInv
<1> SUFFICES ASSUME Init PROVE SyncInv
  OBVIOUS
<1>1. \A n \in Nodes : value[n].form = "written"
  BY DEF Init, Created, Variant
<1>2. linked = {} /\ phase = "select"
  BY DEF Init
<1> QED
  BY <1>1, <1>2, InitOrder DEF SyncInv, InSync, CopiedCurrent, UnlinkedWritten

LEMMA NextSync == SyncInv /\ [Next]_vars => SyncInv'
<1> SUFFICES ASSUME SyncInv, [Next]_vars PROVE SyncInv'
  OBVIOUS
<1>1. OrderInv /\ OrderInv'
  BY NextOrder DEF SyncInv
<1>2. TypeOK /\ (phase # "select" => at \in linked)
  BY <1>1 DEF OrderInv, PhaseLinked
<1>3. at \in Nodes \cup {0} /\ linked \subseteq Nodes /\ value \in [Nodes -> Variants]
        /\ node \in [Nodes -> [variant : Variants, status : Statuses]] /\ copied \in Variants
  BY <1>2 DEF TypeOK
<1> USE DEF SyncInv, InSync, CopiedCurrent, UnlinkedWritten, Untouched
<1>4. CASE Startup
  <2>1. linked \subseteq linked' /\ linked' \subseteq Nodes
          /\ UNCHANGED << value, node, at, phase, copied >>
    BY <1>2, <1>4, StartupLinks
  <2> QED
    BY <1>1, <2>1
<1>5. CASE writeLoopTimeValue
  BY <1>1, <1>5 DEF writeLoopTimeValue, timerVars
<1>6. ASSUME NEW w \in Workers, NEW n \in Nodes, NEW t \in Types, NEW s \in Statuses,
             WriteVariant(w, n, t, s)
      PROVE  SyncInv'
  <2>1. /\ value' = [value EXCEPT ![n] = Variant(writes + 1, t, "written")]
        /\ UNCHANGED << linked, node, at, phase, copied >>
    BY <1>6 DEF WriteVariant, startVars, timerVars
  <2>2. value'[n].form = "written" /\ \A m \in Nodes : m # n => value'[m] = value[m]
    BY <1>3, <2>1 DEF Variant
  <2> QED
    BY <1>1, <1>2, <1>3, <2>1, <2>2
<1>7. ASSUME NEW w \in Workers, WriteStatus(w)
      PROVE  SyncInv'
  BY <1>1, <1>7 DEF WriteStatus, startVars, timerVars
<1>8. CASE Expire
  <2>1. UNCHANGED << linked, value, node, phase, copied >> /\ at = 0
    BY <1>8 DEF Expire, startVars
  <2>2. phase = "select"
    BY <1>2, <1>3, <2>1, NumNodesAssumption DEF Nodes
  <2> QED
    BY <1>1, <1>3, <2>1, <2>2
<1>9. CASE Select
  <2>1. UNCHANGED << linked, value, node, copied >> /\ phase = "select"
    BY <1>9 DEF Select, startVars
  <2>2. phase' \in {"select", "get"}
    BY <1>9 DEF Select, NextNode
  <2> QED
    BY <1>1, <2>1, <2>2
<1>10. CASE GetValue
  <2>1. UNCHANGED << linked, value, node, at, copied >> /\ phase = "get" /\ phase' = "set"
    BY <1>10 DEF GetValue, startVars
  <2> QED
    BY <1>1, <2>1
<1>11. CASE SetValue
  <2>1. UNCHANGED << linked, node, at, copied >> /\ phase = "set" /\ phase' = "stamp"
    BY <1>11 DEF SetValue, startVars
  <2>2. at \in linked /\ \A m \in Nodes : m # at => value'[m] = value[m]
    BY <1>2, <1>3, <1>11, <2>1 DEF SetValue
  <2> QED
    BY <1>1, <1>3, <2>1, <2>2
<1>12. CASE Stamp
  <2>1. UNCHANGED << linked, value, node, at, copied >> /\ phase = "stamp" /\ phase' = "copy"
    BY <1>12 DEF Stamp, startVars
  <2> QED
    BY <1>1, <2>1
<1>13. CASE CopyVariant
  <2>1. UNCHANGED << linked, value, node, at >> /\ phase = "copy" /\ phase' = "publish"
          /\ copied' = value[at]
    BY <1>13 DEF CopyVariant, startVars
  <2> QED
    BY <1>1, <2>1
<1>14. CASE Publish
  <2>1. UNCHANGED << linked, value, copied >> /\ phase = "publish" /\ phase' = "select"
    BY <1>14 DEF Publish, NextNode, startVars
  <2>2. at \in linked
    BY <1>2, <2>1
  <2>3. node'[at].variant = copied /\ \A m \in Nodes : m # at => node'[m] = node[m]
    BY <1>3, <1>14, <2>2 DEF Publish
  <2> QED
    BY <1>1, <1>3, <2>1, <2>2, <2>3
<1>15. CASE UNCHANGED vars
  BY <1>1, <1>15 DEF vars, startVars, timerVars
<1> QED
  BY <1>4, <1>5, <1>6, <1>7, <1>8, <1>9, <1>10, <1>11, <1>12, <1>13, <1>14, <1>15
     DEF Next, timerLoop

(* Away from the node timerLoop works on, subscribers and readers see the same
   computed value, unless a client's write waits for its first round. *)
THEOREM SubscribersAgreeWithReaders == Spec => []SubscribersInSync
<1>1. SyncInv => SubscribersInSync
  BY DEF SyncInv, InSync, Untouched, SubscribersInSync
<1> QED
  BY InitSync, NextSync, <1>1, PTL DEF Spec

-----------------------------------------------------------------------------
(* Refinement of ValueStore                                                *)

LEMMA InitImplements == Init => Store!Init
<1> SUFFICES ASSUME Init PROVE Store!Init
  OBVIOUS
<1>1. InHand = Store!Empty
  BY DEF Init, InHand, Store!Empty
<1>2. [n \in Nodes |-> value[n].by] = [n \in Nodes |-> 0]
  BY DEF Init, Created, Variant
<1>3. [n \in Nodes |-> node[n].variant.by] = [n \in Nodes |-> 0]
  BY DEF Init, Absent, Variant
<1> QED
  BY <1>1, <1>2, <1>3 DEF Init, Store!Init

(* A step that leaves the values, the published copies and the hand alone is
   a stutter of the store. *)
LEMMA StoreStutters ==
  ASSUME UNCHANGED << value, node, writes >>, InHand' = InHand
  PROVE  UNCHANGED Store!storeVars
BY DEF Store!storeVars

LEMMA NextImplements == TypeOK /\ PhaseLinked /\ [Next]_vars => [Store!Next]_Store!storeVars
<1> SUFFICES ASSUME TypeOK, PhaseLinked, [Next]_vars
             PROVE  Store!Next \/ UNCHANGED Store!storeVars
  OBVIOUS
<1> DEFINE Current == [n \in Nodes |-> value[n].by]
           Published == [n \in Nodes |-> node[n].variant.by]
<1>1. phase # "select" => at \in Nodes /\ at # 0
  BY NumNodesAssumption DEF TypeOK, PhaseLinked, Nodes
<1>2. value \in [Nodes -> Variants] /\ node \in [Nodes -> [variant : Variants, status : Statuses]]
  BY DEF TypeOK
<1>3. phase \notin {"set", "publish"} => InHand = Store!Empty
  BY DEF InHand, Store!Empty
<1>3a. phase' \notin {"set", "publish"} => InHand' = Store!Empty
  BY DEF InHand, Store!Empty
<1>4. CASE Startup
  BY <1>4, StartupLinks, StoreStutters DEF InHand
<1>5. CASE writeLoopTimeValue
  BY <1>5, StoreStutters DEF writeLoopTimeValue, timerVars, InHand
<1>6. ASSUME NEW w \in Workers, NEW n \in Nodes, NEW t \in Types, NEW s \in Statuses,
             WriteVariant(w, n, t, s)
      PROVE  Store!Write(n)
  <2>1. /\ value' = [value EXCEPT ![n] = Variant(writes + 1, t, "written")]
        /\ writes' = writes + 1
        /\ UNCHANGED << node, at, phase, got, copied >>
    BY <1>6 DEF WriteVariant, startVars, timerVars
  <2>2. Current' = [Current EXCEPT ![n] = writes + 1]
    BY <1>2, <2>1 DEF Variant
  <2>3. UNCHANGED << Published, InHand >>
    BY <2>1 DEF InHand
  <2> QED
    BY <2>1, <2>2, <2>3 DEF Store!Write
<1>7. ASSUME NEW w \in Workers, WriteStatus(w)
      PROVE  UNCHANGED Store!storeVars
  BY <1>7, StoreStutters DEF WriteStatus, timerVars, InHand
<1>8. CASE Expire
  BY <1>1, <1>8, <1>3, <1>3a, StoreStutters DEF Expire
<1>9. CASE Select
  <2>1. phase' \in {"select", "get"} /\ phase = "select" /\ UNCHANGED << value, node, writes >>
    BY <1>9 DEF Select, NextNode
  <2> QED
    BY <2>1, <1>3, <1>3a, StoreStutters
<1>10. CASE GetValue
  <2>1. phase = "get" /\ phase' = "set" /\ at \in Nodes
          /\ UNCHANGED << value, node, writes, at >> /\ got'.by = value[at].by
    BY <1>1, <1>10 DEF GetValue, Variant
  <2>2. InHand' = [node |-> at, version |-> Current[at]]
    BY <2>1 DEF InHand
  <2>3. Store!Take(at)
    BY <1>3, <2>1, <2>2 DEF Store!Take
  <2> QED
    BY <2>1, <2>3 DEF Store!Next
<1>11. CASE SetValue
  <2>1. phase = "set" /\ phase' = "stamp" /\ at \in Nodes /\ UNCHANGED << node, writes >>
    BY <1>1, <1>11 DEF SetValue
  <2>2. InHand = [node |-> at, version |-> got.by]
    BY <2>1 DEF InHand
  <2>3. Current' = [Current EXCEPT ![at] = got.by]
    BY <1>2, <1>11, <2>1 DEF SetValue, Variant
  <2>4. PICK n \in Nodes : n = at
    BY <2>1
  <2>5. Store!PutBack(n)
    BY <1>3a, <2>1, <2>2, <2>3, <2>4 DEF Store!PutBack
  <2> QED
    BY <2>5 DEF Store!Next
<1>12. CASE Stamp
  BY <1>12, <1>3, <1>3a, StoreStutters DEF Stamp
<1>13. CASE CopyVariant
  <2>1. phase = "copy" /\ phase' = "publish" /\ at \in Nodes
          /\ UNCHANGED << value, node, writes, at >> /\ copied'.by = value[at].by
    BY <1>1, <1>13 DEF CopyVariant
  <2>2. InHand' = [node |-> at, version |-> Current[at]]
    BY <2>1 DEF InHand
  <2>3. Store!Take(at)
    BY <1>3, <2>1, <2>2 DEF Store!Take
  <2> QED
    BY <2>1, <2>3 DEF Store!Next
<1>14. CASE Publish
  <2>1. phase = "publish" /\ phase' = "select" /\ at \in Nodes /\ UNCHANGED << value, writes >>
    BY <1>1, <1>14 DEF Publish, NextNode
  <2>2. InHand = [node |-> at, version |-> copied.by]
    BY <2>1 DEF InHand
  <2>3. Published' = [Published EXCEPT ![at] = copied.by]
    BY <1>2, <1>14, <2>1 DEF Publish
  <2>4. PICK n \in Nodes : n = at
    BY <2>1
  <2>5. Store!Publish(n)
    BY <1>3a, <2>1, <2>2, <2>3, <2>4 DEF Store!Publish
  <2> QED
    BY <2>5 DEF Store!Next
<1>15. CASE UNCHANGED vars
  BY <1>15, StoreStutters DEF vars, timerVars, InHand
<1> QED
  BY <1>4, <1>5, <1>6, <1>7, <1>8, <1>9, <1>10, <1>11, <1>12, <1>13, <1>14, <1>15
     DEF Next, timerLoop, Store!Next

(* Startup, writeValue and timerLoop do to the versions of the values nothing
   but what the abstract store allows, whatever the interleaving. *)
THEOREM TestFolderLibImplementsStore == Spec => ImplementsStore
<1>1. OrderInv => TypeOK /\ PhaseLinked
  BY DEF OrderInv
<1>2. OrderInv /\ [Next]_vars => [Store!Next]_Store!storeVars
  BY <1>1, NextImplements
<1> QED
  BY InitOrder, NextOrder, InitImplements, <1>2, PTL DEF Spec, ImplementsStore, Store!Spec
=============================================================================
