--------------------------- MODULE TestFolderLib ---------------------------
(***************************************************************************)
(* The simulated values of Library/TestFolderLib.cpp.                      *)
(*                                                                         *)
(* Every node exists twice: valueMap_ holds the component's own data value, *)
(* which clients read and write through the registered callbacks, and the  *)
(* server's address space holds the copy that subscriptions monitor.  The  *)
(* I/O thread runs timerLoop: in the order of the map it reads a value,    *)
(* computes the next one, stores it, stamps it with the time and a good    *)
(* status, and copies it into the address space.  The server's worker      *)
(* threads run writeValue, which overwrites the data value field by field. *)
(* Nothing is locked.                                                      *)
(*                                                                         *)
(* The simulation itself is in ValueWalk: here a value is known by the     *)
(* client write it stems from.  The timer that starts rounds, and the      *)
(* write of its period, are in LoopTimer: here it is armed or not.         *)
(***************************************************************************)
EXTENDS Naturals

CONSTANTS NumNodes,     \* nodes of the value map, numbered in its order
          Workers,      \* the server's threads
          MaxWrites     \* bound on the writes of all clients

ASSUME NumNodesAssumption == NumNodes \in Nat \ {0}
ASSUME MaxWritesAssumption == MaxWrites \in Nat

Nodes == 1..NumNodes

(* Two types that the update knows, and one that ends in its default case. *)
Types == {"number", "text", "other"}
KnownTypes == Types \ {"other"}

Statuses == {"Success", "Bad"}

(* "written" by a client or by createValueMap, "updated" by the simulation,
   "undefined" when computed from an uninitialised variable; the address
   space starts with a value that is "absent". *)
Forms == {"written", "updated", "undefined", "absent"}

Variant(by, type, form) == [by |-> by, type |-> type, form |-> form]
Variants == [by : Nat, type : Types, form : Forms]

-----------------------------------------------------------------------------
VARIABLES main,        \* where startup stands
          registered,  \* the nodes whose read and write callbacks are in force
          periodNode,  \* the loop time node is writable
          linked,      \* baseNodeClassWMap_: nodes with a reference to the address space
          armed,       \* an element of the slot timer runs
          value,       \* valueMap_: the variant of each node's data value
          status,      \* valueMap_: its status code
          node,        \* the address space: variant and status of each node
          writes,      \* history: how many writes clients have made
          storing,     \* the status code each worker has still to store, and where
          at,          \* the node timerLoop is at, or 0 between two rounds
          phase,       \* its next access to the data value
          type,        \* the case of the switch it is in
          got,         \* the variant it has read
          copied       \* the variant it has copied for the address space

startVars == << main, registered, periodNode, linked, armed >>
timerVars == << at, phase, type, got, copied >>
vars == << startVars, value, status, node, writes, storing, timerVars >>

NotStoring == [node |-> 0, status |-> "Success"]
Absent == Variant(0, "other", "absent")
Created == Variant(0, "number", "written")

Init ==
  /\ main = "getNamespaceInfo"
  /\ registered = {}
  /\ periodNode = FALSE
  /\ linked = {}
  /\ armed = FALSE
  /\ value = [n \in Nodes |-> Created]
  /\ status = [n \in Nodes |-> "Success"]
  /\ node = [n \in Nodes |-> [variant |-> Absent, status |-> "Success"]]
  /\ writes = 0
  /\ storing = [w \in Workers |-> NotStoring]
  /\ at = 0
  /\ phase = "select"
  /\ type = "other"
  /\ got = Absent
  /\ copied = Absent

-----------------------------------------------------------------------------
(* Startup                                                                 *)

getNamespaceInfo ==
  /\ main = "getNamespaceInfo"
  /\ main' \in {"registerCallbacks", "failed"}
  /\ UNCHANGED << registered, periodNode, linked, armed >>

(* One request registers all nodes; the nodes that are refused fail startup,
   the others stay registered. *)
registerCallbacks ==
  /\ main = "registerCallbacks"
  /\ registered' \in SUBSET Nodes
  /\ main' = IF registered' = Nodes THEN "registerLoopTimeCallbacks" ELSE "failed"
  /\ UNCHANGED << periodNode, linked, armed >>

registerLoopTimeCallbacks ==
  /\ main = "registerLoopTimeCallbacks"
  /\ periodNode' \in BOOLEAN
  /\ main' = IF periodNode' THEN "createNodeReferences" ELSE "failed"
  /\ UNCHANGED << registered, linked, armed >>

(* The references are inserted one by one up to the first bad one. *)
createNodeReferences ==
  /\ main = "createNodeReferences"
  /\ \/ /\ \E n \in Nodes \ linked :
             /\ \A m \in Nodes \ linked : n <= m
             /\ linked' = linked \cup {n}
        /\ main' = IF linked' = Nodes THEN "startTimerLoop" ELSE main
     \/ linked' = linked /\ main' = "failed"
  /\ UNCHANGED << registered, periodNode, armed >>

startTimerLoop ==
  /\ main = "startTimerLoop"
  /\ main' = "started"
  /\ armed' = TRUE
  /\ UNCHANGED << registered, periodNode, linked >>

Startup ==
  /\ \/ getNamespaceInfo \/ registerCallbacks \/ registerLoopTimeCallbacks
     \/ createNodeReferences \/ startTimerLoop
  /\ UNCHANGED << value, status, node, writes, storing, timerVars >>

(* A client writes the loop time, which also arms a timer that startup has not
   armed, or will never arm. *)
writeLoopTimeValue ==
  /\ periodNode
  /\ armed' = TRUE
  /\ UNCHANGED << main, registered, periodNode, linked, value, status, node, writes,
                  storing, timerVars >>

-----------------------------------------------------------------------------
(* writeValue                                                              *)

(* Mutant: the written value goes straight to the address space, too. *)
WriteVariantPublished(w, n, t, s) ==
  /\ n \in registered
  /\ storing[w].node = 0
  /\ writes < MaxWrites
  /\ writes' = writes + 1
  /\ value' = [value EXCEPT ![n] = Variant(writes + 1, t, "written")]
  /\ node' = [node EXCEPT ![n].variant = Variant(writes + 1, t, "written")]
  /\ storing' = [storing EXCEPT ![w] = [node |-> n, status |-> s]]
  /\ UNCHANGED << startVars, status, timerVars >>

(* A client's write reaches a worker, which overwrites the variant ... *)
WriteVariant(w, n, t, s) ==
  /\ n \in registered
  /\ storing[w].node = 0
  /\ writes < MaxWrites
  /\ writes' = writes + 1
  /\ value' = [value EXCEPT ![n] = Variant(writes + 1, t, "written")]
  /\ storing' = [storing EXCEPT ![w] = [node |-> n, status |-> s]]
  /\ UNCHANGED << startVars, status, node, timerVars >>

(* ... and then the status code and the timestamps. *)
WriteStatus(w) ==
  /\ storing[w].node # 0
  /\ status' = [status EXCEPT ![storing[w].node] = storing[w].status]
  /\ storing' = [storing EXCEPT ![w] = NotStoring]
  /\ UNCHANGED << startVars, value, node, writes, timerVars >>

-----------------------------------------------------------------------------
(* timerLoop, updateSingle and updateArray                                 *)

Expire ==
  /\ armed /\ at = 0
  /\ at' = 1
  /\ UNCHANGED << startVars, value, status, node, writes, storing, phase, type, got, copied >>

(* Mutant: the loop includes the end of the map. *)
NextNodePastEnd ==
  /\ at' = IF at > NumNodes THEN 0 ELSE at + 1
  /\ phase' = "select"

NextNode ==
  /\ at' = IF at = NumNodes THEN 0 ELSE at + 1
  /\ phase' = "select"

(* Mutant: a node of unknown type ends the round. *)
SelectEndsRound ==
  /\ at # 0 /\ phase = "select"
  /\ IF at \in linked
       THEN /\ type' = value[at].type
            /\ IF type' \in KnownTypes THEN phase' = "get" /\ at' = at
                                       ELSE phase' = "select" /\ at' = 0
       ELSE NextNode /\ UNCHANGED type
  /\ UNCHANGED << startVars, value, status, node, writes, storing, got, copied >>

(* A node without a reference is skipped; the switch returns at once from a
   value of unknown type. *)
Select ==
  /\ at # 0 /\ phase = "select"
  /\ IF at \in linked
       THEN /\ type' = value[at].type
            /\ IF type' \in KnownTypes THEN phase' = "get" /\ at' = at ELSE NextNode
       ELSE NextNode /\ UNCHANGED type
  /\ UNCHANGED << startVars, value, status, node, writes, storing, got, copied >>

(* getValue leaves the local variable uninitialised when the data value has
   changed its type since the switch. *)
GetValue ==
  /\ at # 0 /\ phase = "get"
  /\ got' = Variant(value[at].by, type,
                    IF value[at].type = type THEN value[at].form ELSE "undefined")
  /\ phase' = "set"
  /\ UNCHANGED << startVars, value, status, node, writes, storing, at, type, copied >>

(* Whatever the data value holds by now is replaced. *)
SetValue ==
  /\ at # 0 /\ phase = "set"
  /\ value' = [value EXCEPT ![at] =
                 Variant(got.by, got.type,
                         IF got.form = "undefined" THEN "undefined" ELSE "updated")]
  /\ phase' = "stamp"
  /\ UNCHANGED << startVars, status, node, writes, storing, at, type, got, copied >>

(* The timestamps and the status code Success. *)
Stamp ==
  /\ at # 0 /\ phase = "stamp"
  /\ status' = [status EXCEPT ![at] = "Success"]
  /\ phase' = "copy"
  /\ UNCHANGED << startVars, value, node, writes, storing, at, type, got, copied >>

(* setValueSync copies the data value field by field ... *)
CopyVariant ==
  /\ at # 0 /\ phase = "copy"
  /\ copied' = value[at]
  /\ phase' = "publish"
  /\ UNCHANGED << startVars, value, status, node, writes, storing, at, type, got >>

(* Mutant: only the status code reaches the address space. *)
PublishStatusOnly ==
  /\ at # 0 /\ phase = "publish"
  /\ node' = [node EXCEPT ![at].status = status[at]]
  /\ NextNode
  /\ UNCHANGED << startVars, value, status, writes, storing, type, got, copied >>

(* ... and replaces the node's value. *)
Publish ==
  /\ at # 0 /\ phase = "publish"
  /\ node' = [node EXCEPT ![at] = [variant |-> copied, status |-> status[at]]]
  /\ NextNode
  /\ UNCHANGED << startVars, value, status, writes, storing, type, got, copied >>

timerLoop == Select \/ GetValue \/ SetValue \/ Stamp \/ CopyVariant \/ Publish

-----------------------------------------------------------------------------
Next ==
  \/ Startup
  \/ writeLoopTimeValue
  \/ \E w \in Workers, n \in Nodes, t \in Types, s \in Statuses : WriteVariant(w, n, t, s)
  \/ \E w \in Workers : WriteStatus(w)
  \/ Expire
  \/ timerLoop

(* Threads go on, and an armed timer keeps expiring; nothing obliges a client
   to write. *)
Fairness ==
  /\ WF_vars(Startup)
  /\ \A w \in Workers : WF_vars(WriteStatus(w))
  /\ WF_vars(Expire)
  /\ WF_vars(timerLoop)

Spec == Init /\ [][Next]_vars
FairSpec == Spec /\ Fairness

-----------------------------------------------------------------------------
(* Properties                                                              *)

MainStates == {"getNamespaceInfo", "registerCallbacks", "registerLoopTimeCallbacks",
               "createNodeReferences", "startTimerLoop", "started", "failed"}

TypeOK ==
  /\ main \in MainStates
  /\ registered \subseteq Nodes
  /\ periodNode \in BOOLEAN
  /\ linked \subseteq Nodes
  /\ armed \in BOOLEAN
  /\ value \in [Nodes -> Variants]
  /\ status \in [Nodes -> Statuses]
  /\ node \in [Nodes -> [variant : Variants, status : Statuses]]
  /\ writes \in Nat
  /\ storing \in [Workers -> [node : Nodes \cup {0}, status : Statuses]]
  /\ at \in Nodes \cup {0}
  /\ phase \in {"select", "get", "set", "stamp", "copy", "publish"}
  /\ type \in Types
  /\ got \in Variants
  /\ copied \in Variants

(* A client that reads a node (readValue) never sees a value older than the
   one subscribers have been sent, although a round may put an old value back
   over a client's write. *)
ReadNotBehind == \A n \in Nodes : node[n].variant.by <= value[n].by

(* Subscribers never see an older write after a newer one. *)
PublishedNeverGoesBack ==
  [][\A n \in Nodes : node[n].variant.by <= node'[n].variant.by]_vars

(* When timerLoop is elsewhere, a linked node that no client has written since
   its update shows subscribers the value that a read returns. *)
SubscribersInSync ==
  \A n \in linked : at # n /\ value[n].form # "written" => node[n].variant = value[n]

(* The simulation publishes only what it has computed, hence inside the range
   of the type: "// 0 - 64" (TestFolderLib.cpp:638). *)
PublishedIsComputed == \A n \in Nodes : node[n].variant.form # "written"

(* The nodes that the rounds keep up to date: they have a reference, the timer
   runs and the value is of a type the update knows. *)
Simulated(n) == armed /\ n \in linked /\ value[n].type \in KnownTypes

(* When clients stop writing, each simulated node comes to show a computed
   value with a good status to subscribers and readers alike: the last write
   reaches subscribers or is lost to both, and no node keeps a round from the
   nodes after it. *)
StatusRecovers ==
  <>[](\A n \in Nodes :
         Simulated(n) => node[n].status = "Success" /\ node[n].variant = value[n])

-----------------------------------------------------------------------------
(* Refinement                                                              *)

(* The version timerLoop has in a local variable: the one it has read for the
   update, or the one it has copied for the address space. *)
InHand ==
  IF phase = "set" THEN [node |-> at, version |-> got.by]
  ELSE IF phase = "publish" THEN [node |-> at, version |-> copied.by]
  ELSE [node |-> 0, version |-> 0]

Store ==
  INSTANCE ValueStore WITH
    current <- [n \in Nodes |-> value[n].by],
    published <- [n \in Nodes |-> node[n].variant.by],
    last <- writes,
    hand <- InHand

(* Whatever clients write and whenever, timerLoop, writeValue and startup
   together do nothing to the versions of the values but what ValueStore
   allows: a write is lost only to an update that has read the value before
   it, and nothing is published that is older than what subscribers have. *)
ImplementsStore == Store!Spec
=============================================================================
