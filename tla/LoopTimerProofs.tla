--------------------------- MODULE LoopTimerProofs ---------------------------
(***************************************************************************)
(* Theorems about LoopTimer for any set of server threads, any periods and *)
(* any bound on the elements: however the handlers interleave, and what is *)
(* guaranteed the less they overlap.                                       *)
(***************************************************************************)
EXTENDS LoopTimer, FiniteSetTheorems, TLAPS

-----------------------------------------------------------------------------
(* Types                                                                   *)

(* TypeOK, and what startTimerLoop may be doing: the main thread handles the
   element only while it is "starting", and it has none to stop. *)
Typed ==
  /\ TypeOK
  /\ pc[Main] \in {"idle", "construct", "fill", "start"}
  /\ main = "starting" => pc[Main] # "idle"
  /\ main \notin {"starting", "crashed"} => pc[Main] = "idle"

(* What a handler does to the member needs no more than its type. *)
LEMMA NoElementOutside == NoElement \notin Elements
BY DEF NoElement, Elements

LEMMA FreshElements ==
  ASSUME NEW e \in Fresh
  PROVE  e \in Elements /\ e \notin started /\ e # member
BY DEF Fresh

LEMMA BoundedPeriod ==
  ASSUME NEW p \in Nat
  PROVE  Bounded(p) \in Nat /\ Bounded(p) >= MinPeriod
BY DEF Bounded, MinPeriod

LEMMA InitTyped == Init => Typed
<1> SUFFICES ASSUME Init PROVE Typed
  OBVIOUS
<1>1. TypeOK
  BY DEF Init, TypeOK, MainStates, Steps, NoElement, Unset
<1>2. pc[Main] = "idle" /\ main = "getNamespaceInfo"
  BY DEF Init, Threads
<1> QED
  BY <1>1, <1>2 DEF Typed

(* The steps of startup before startTimerLoop leave everything but main and
   the registration alone. *)
LookupStep ==
  /\ main \in {"getNamespaceInfo", "registerCallbacks", "registerLoopTimeCallbacks",
               "createNodeReferences"}
  /\ main' \in {"registerCallbacks", "registerLoopTimeCallbacks", "createNodeReferences",
                "startTimerLoop", "failed"}
  /\ writable' \in BOOLEAN
  /\ UNCHANGED << pc, wanted, loopTime, member, period, started, ticks, overlap >>

LEMMA LookupSteps ==
  ASSUME Startup
  PROVE  LookupStep \/ startTimerLoop
<1>1. ASSUME NEW from, NEW to, Lookup(from, to)
      PROVE  /\ main = from /\ main' \in {to, "failed"} /\ writable' \in BOOLEAN
             /\ UNCHANGED << pc, wanted, loopTime, member, period, started, ticks, overlap >>
  BY <1>1 DEF Lookup
<1> QED
  BY <1>1 DEF Startup, getNamespaceInfo, registerCallbacks, registerLoopTimeCallbacks,
     createNodeReferences, LookupStep

LEMMA NextTyped == Typed /\ [Next]_vars => Typed'
<1> SUFFICES ASSUME Typed, [Next]_vars PROVE Typed'
  OBVIOUS
<1> USE DEF Typed, TypeOK, Steps, MainStates, Threads, Goto
<1>1. CASE LookupStep
  BY <1>1 DEF LookupStep
<1>2. CASE startTimerLoop
  BY <1>2 DEF startTimerLoop, DefaultPeriod
<1>3. ASSUME NEW w \in Workers, NEW p \in Periods, writeLoopTimeValue(w, p)
      PROVE  Typed'
  <2>1. Bounded(p) \in Nat
    BY BoundedPeriod, PeriodsAssumption
  <2>2. overlap' \in {"none", "startup", "workers"}
    BY <1>3 DEF writeLoopTimeValue, Overlap
  <2> QED
    BY <1>3, <2>1, <2>2, MainAssumption DEF writeLoopTimeValue
<1>4. ASSUME NEW t \in Threads, CheckElement(t) PROVE Typed'
  BY <1>4 DEF CheckElement
<1>5. ASSUME NEW t \in Threads, StopElement(t) PROVE Typed'
  BY <1>5 DEF StopElement
<1>6. ASSUME NEW t \in Threads, ResetElement(t) PROVE Typed'
  BY <1>6 DEF ResetElement
<1>7. ASSUME NEW t \in Threads, ConstructElement(t) PROVE Typed'
  BY <1>7, FreshElements DEF ConstructElement, Unset
<1>8. ASSUME NEW t \in Threads, FillElement(t) PROVE Typed'
  BY <1>8 DEF FillElement
<1>9. ASSUME NEW t \in Threads, StartElement(t) PROVE Typed'
  BY <1>9 DEF StartElement, Unset, Alive
<1>10. ASSUME NEW t \in Threads, UseNull(t) PROVE Typed'
  BY <1>10 DEF UseNull
<1>11. CASE Expire
  BY <1>11 DEF Expire
<1>12. CASE UNCHANGED vars
  BY <1>12 DEF vars
<1> QED
  BY <1>1, <1>2, <1>3, <1>4, <1>5, <1>6, <1>7, <1>8, <1>9, <1>10, <1>11, <1>12, LookupSteps
     DEF Next, Install

LEMMA AlwaysTyped == Spec => []Typed
BY InitTyped, NextTyped, PTL DEF Spec

(* Every variable of LoopTimer keeps its type; in particular the member is an
   element or null, and periods are natural numbers. *)
THEOREM TimerTypeCorrect == Spec => []TypeOK
<1>1. Typed => TypeOK
  BY DEF Typed
<1> QED
  BY AlwaysTyped, <1>1, PTL

-----------------------------------------------------------------------------
(* The loop survives                                                       *)

(* Handlers past their stop, which will start an element before they return. *)
Installing(t) == pc[t] \in {"reset", "construct", "fill", "start"}

(* Whoever stops an element goes on to install one.  That is LoopSurvives for
   the states in the middle of handlers. *)
SurvivesInv == main = "started" => started # {} \/ \E t \in Threads : Installing(t)

LEMMA NextSurvives == Typed /\ SurvivesInv /\ [Next]_vars => SurvivesInv'
<1> SUFFICES ASSUME Typed, SurvivesInv, [Next]_vars, main' = "started"
             PROVE  started' # {} \/ \E t \in Threads : Installing(t)'
  BY DEF SurvivesInv
<1> USE DEF Installing, Goto
<1>1. pc \in [Threads -> Steps] /\ Main \in Threads /\ Workers \subseteq Threads
  BY DEF Typed, TypeOK, Threads
<1>2. ASSUME NEW t \in Threads, CheckElement(t) \/ StopElement(t) \/ ResetElement(t)
                                 \/ ConstructElement(t) \/ FillElement(t)
      PROVE  started' # {} \/ \E u \in Threads : Installing(u)'
  <2>1. /\ main = "started"
        /\ CheckElement(t) => started' = started /\ pc'[t] \in {"stop", "construct"}
        /\ ~CheckElement(t) => pc'[t] \in {"reset", "construct", "fill", "start"}
        /\ \A u \in Threads : u # t => pc'[u] = pc[u]
    BY <1>1, <1>2 DEF CheckElement, StopElement, ResetElement, ConstructElement, FillElement
  <2>2. CASE CheckElement(t)
    <3>1. pc[t] = "check"
      BY <2>2 DEF CheckElement
    <3> QED
      BY <2>1, <2>2, <3>1 DEF SurvivesInv
  <2>3. CASE ~CheckElement(t)
    BY <2>1, <2>3
  <2> QED
    BY <2>2, <2>3
<1>3. ASSUME NEW t \in Threads, StartElement(t)
      PROVE  started' # {}
  BY <1>3 DEF StartElement
<1>4. ASSUME NEW w \in Workers, NEW p \in Periods, writeLoopTimeValue(w, p)
      PROVE  started' # {} \/ \E u \in Threads : Installing(u)'
  <2>1. main = "started" /\ started' = started /\ pc[w] = "idle"
        /\ \A u \in Threads : u # w => pc'[u] = pc[u]
    BY <1>1, <1>4 DEF writeLoopTimeValue, Idle
  <2> QED
    BY <2>1 DEF SurvivesInv
<1>5. CASE Startup \/ \E t \in Threads : UseNull(t)
  BY <1>5, LookupSteps DEF LookupStep, startTimerLoop, UseNull
<1>6. CASE Expire \/ UNCHANGED vars
  BY <1>6 DEF Expire, vars, SurvivesInv
<1> QED
  BY <1>2, <1>3, <1>4, <1>5, <1>6 DEF Next, Install

(* Once startup has succeeded, some element runs whenever no handler is about
   to replace it: the update loop outlives every interleaving of
   writeLoopTimeValue with itself and with startTimerLoop. *)
THEOREM LoopAlwaysSurvives == Spec => []LoopSurvives
<1>1. Init => SurvivesInv
  BY DEF Init, SurvivesInv
<1>2. Spec => []SurvivesInv
  BY <1>1, AlwaysTyped, NextSurvives, PTL DEF Spec
<1>3. SurvivesInv => LoopSurvives
  BY DEF SurvivesInv, LoopSurvives, Quiet, Busy, Idle, Installing
<1> QED
  BY <1>2, <1>3, PTL

-----------------------------------------------------------------------------
(* Writes that do not overlap                                              *)

(* What an element in service shows: it runs, alone, with the period of the
   node; there may be none as long as startup has not started one. *)
InService ==
  /\ started = {member} \ {NoElement}
  /\ member # NoElement => period[member] = loopTime /\ loopTime >= MinPeriod

(* What a handler that no other has disturbed finds at its next access. *)
Undisturbed(t) ==
  /\ wanted[t] = loopTime /\ loopTime >= MinPeriod
  /\ pc[t] = "check" => started = {member} \ {NoElement}
  /\ pc[t] = "stop" => member # NoElement /\ started = {member}
  /\ pc[t] \in {"reset", "construct", "fill", "start"} => started = {}
  /\ pc[t] = "construct" => member = NoElement
  /\ pc[t] \in {"fill", "start"} => member # NoElement
  /\ pc[t] = "start" => period[member] = wanted[t]

StartupOver == main \in {"started", "failed"}

SerialInv ==
  overlap = "none" =>
    /\ Alive
    /\ \A t, u \in Threads : ~Idle(t) /\ ~Idle(u) => t = u
    /\ ~StartupOver => \A w \in Workers : Idle(w)
    /\ ~StartupOver /\ Idle(Main) => member = NoElement
    /\ Quiet => InService
    /\ \A t \in Threads : ~Idle(t) => Undisturbed(t)

LEMMA InitSerial == Init => SerialInv
<1> SUFFICES ASSUME Init PROVE SerialInv
  OBVIOUS
<1>1. \A t \in Threads : Idle(t)
  BY DEF Init, Idle
<1>2. Main \in Threads /\ Workers \subseteq Threads
  BY DEF Threads
<1> QED
  BY <1>1, <1>2 DEF Init, SerialInv, Alive, InService

(* A handler that has been disturbed by no other is the only one. *)
LEMMA Alone ==
  ASSUME Typed, SerialInv, overlap = "none", NEW t \in Threads, ~Idle(t)
  PROVE  /\ Undisturbed(t) /\ \A u \in Threads : u # t => Idle(u)
         /\ ~StartupOver => t = Main
BY DEF SerialInv, Threads

(* It is enough that a step of such a handler leaves what its next access
   expects. *)
LEMMA SerialStep ==
  ASSUME Typed, SerialInv, overlap = "none", NEW t \in Threads, ~Idle(t),
         NEW x \in Steps \ {"idle"}, pc' = [pc EXCEPT ![t] = x],
         main' = main, overlap' = overlap, Undisturbed(t)'
  PROVE  SerialInv'
<1>1. pc'[t] = x /\ \A u \in Threads : u # t => pc'[u] = pc[u] /\ Idle(u) /\ Idle(u)'
  BY Alone DEF Typed, TypeOK, Idle
<1>2. ~Idle(t)' /\ ~Quiet'
  BY <1>1 DEF Idle, Quiet, Busy
<1>3. ~StartupOver' => t = Main
  BY Alone DEF StartupOver
<1>4. ~StartupOver' => \A w \in Workers : Idle(w)'
  BY <1>1, <1>3, MainAssumption DEF Threads
<1> QED
  BY <1>1, <1>2, <1>3, <1>4 DEF SerialInv, Alive

LEMMA NextSerial == Typed /\ SerialInv /\ [Next]_vars => SerialInv'
<1> SUFFICES ASSUME Typed, SerialInv, [Next]_vars, overlap' = "none"
             PROVE  SerialInv'
  BY DEF SerialInv
<1> USE DEF Goto
<1>types. /\ pc \in [Threads -> Steps] /\ wanted \in [Threads -> Nat]
          /\ period \in [Elements -> Nat] /\ loopTime \in Nat
          /\ started \subseteq Elements /\ member \in Elements \cup {NoElement}
          /\ Main \in Threads /\ Workers \subseteq Threads /\ Main \notin Workers
  BY MainAssumption DEF Typed, TypeOK, Threads
<1>1. CASE LookupStep
  <2>1. overlap = "none" /\ \A t \in Threads : Idle(t)
    BY <1>1 DEF LookupStep, SerialInv, StartupOver, Typed, Idle, Threads
  <2>2. member = NoElement /\ InService
    BY <1>types, <2>1, <1>1 DEF LookupStep, SerialInv, StartupOver, Quiet, Busy
  <2>3. UNCHANGED << pc, member, period, started, loopTime >> /\ main' # "crashed"
    BY <1>1 DEF LookupStep
  <2>4. (\A t \in Threads : Idle(t)') /\ member' = NoElement /\ InService'
    BY <2>1, <2>2, <2>3 DEF Idle, InService
  <2> QED
    BY <1>types, <2>3, <2>4 DEF SerialInv, Alive
<1>2. CASE startTimerLoop
  <2>1. overlap = "none" /\ \A t \in Threads : Idle(t)
    BY <1>2 DEF startTimerLoop, SerialInv, StartupOver, Typed, Idle, Threads
  <2>2. member = NoElement /\ started = {}
    BY <1>types, <2>1, <1>2 DEF startTimerLoop, SerialInv, StartupOver, Quiet, Busy, InService
  <2>3. /\ main' = "starting" /\ loopTime' = DefaultPeriod /\ wanted'[Main] = DefaultPeriod
        /\ pc'[Main] = "construct" /\ \A t \in Threads : t # Main => pc'[t] = pc[t]
        /\ member' = NoElement /\ started' = {}
    BY <1>types, <2>2, <1>2 DEF startTimerLoop
  <2>4. Undisturbed(Main)'
    BY <2>3 DEF Undisturbed, DefaultPeriod, MinPeriod
  <2>5. ~Idle(Main)' /\ \A t \in Threads : t # Main => Idle(t)'
    BY <2>1, <2>3 DEF Idle
  <2> QED
    BY <1>types, <2>3, <2>4, <2>5 DEF SerialInv, Alive, Quiet, Busy
<1>3. ASSUME NEW w \in Workers, NEW p \in Periods, writeLoopTimeValue(w, p)
      PROVE  SerialInv'
  <2>1. /\ overlap = "none" /\ StartupOver /\ \A v \in Workers : Idle(v)
    BY <1>3, <1>types DEF writeLoopTimeValue, Overlap, Busy, StartupOver
  <2>2. \A t \in Threads : Idle(t)
    BY <2>1 DEF Typed, StartupOver, Idle, Threads
  <2>3. InService
    BY <2>1, <2>2 DEF SerialInv, Quiet, Busy
  <2>4. /\ main' = main /\ loopTime' = Bounded(p) /\ wanted'[w] = Bounded(p)
        /\ pc'[w] = "check" /\ \A t \in Threads : t # w => pc'[t] = pc[t]
        /\ UNCHANGED << member, period, started >>
    BY <1>types, <1>3 DEF writeLoopTimeValue
  <2>5. Undisturbed(w)'
    BY <2>3, <2>4, BoundedPeriod, PeriodsAssumption DEF Undisturbed, InService
  <2>6. ~Idle(w)' /\ \A t \in Threads : t # w => Idle(t)'
    BY <2>2, <2>4 DEF Idle
  <2>7. Alive' /\ StartupOver'
    BY <2>1, <2>4, <1>3 DEF StartupOver, Alive, writeLoopTimeValue
  <2> QED
    BY <1>types, <2>5, <2>6, <2>7 DEF SerialInv, Quiet, Busy
<1>4. ASSUME NEW t \in Threads, CheckElement(t) PROVE SerialInv'
  <2>1. overlap = "none" /\ ~Idle(t) /\ pc[t] = "check"
    BY <1>4 DEF CheckElement, Idle
  <2>2. Undisturbed(t)
    BY <2>1, Alone
  <2>3. Undisturbed(t)'
    BY <1>4, <1>types, <2>1, <2>2 DEF CheckElement, Undisturbed
  <2> QED
    BY <1>4, <2>1, <2>3, SerialStep DEF CheckElement, Steps
<1>5. ASSUME NEW t \in Threads, StopElement(t) PROVE SerialInv'
  <2>1. overlap = "none" /\ ~Idle(t) /\ pc[t] = "stop"
    BY <1>5 DEF StopElement, Idle
  <2>2. Undisturbed(t)
    BY <2>1, Alone
  <2>3. Undisturbed(t)'
    BY <1>5, <1>types, <2>1, <2>2 DEF StopElement, Undisturbed
  <2> QED
    BY <1>5, <2>1, <2>3, SerialStep DEF StopElement, Steps
<1>6. ASSUME NEW t \in Threads, ResetElement(t) PROVE SerialInv'
  <2>1. overlap = "none" /\ ~Idle(t) /\ pc[t] = "reset"
    BY <1>6 DEF ResetElement, Idle
  <2>2. Undisturbed(t)
    BY <2>1, Alone
  <2>3. Undisturbed(t)'
    BY <1>6, <1>types, <2>1, <2>2 DEF ResetElement, Undisturbed
  <2> QED
    BY <1>6, <2>1, <2>3, SerialStep DEF ResetElement, Steps
<1>7. ASSUME NEW t \in Threads, ConstructElement(t) PROVE SerialInv'
  <2>1. overlap = "none" /\ ~Idle(t) /\ pc[t] = "construct"
    BY <1>7 DEF ConstructElement, Idle
  <2>2. Undisturbed(t)
    BY <2>1, Alone
  <2>3. member' # NoElement
    BY <1>7, FreshElements, NoElementOutside DEF ConstructElement
  <2>4. Undisturbed(t)'
    BY <1>7, <1>types, <2>1, <2>2, <2>3 DEF ConstructElement, Undisturbed
  <2> QED
    BY <1>7, <2>1, <2>4, SerialStep DEF ConstructElement, Steps
<1>8. ASSUME NEW t \in Threads, FillElement(t) PROVE SerialInv'
  <2>1. overlap = "none" /\ ~Idle(t) /\ pc[t] = "fill"
    BY <1>8 DEF FillElement, Idle
  <2>2. Undisturbed(t)
    BY <2>1, Alone
  <2>3. Undisturbed(t)'
    BY <1>8, <1>types, <2>1, <2>2 DEF FillElement, Undisturbed
  <2> QED
    BY <1>8, <2>1, <2>3, SerialStep DEF FillElement, Steps
<1>9. ASSUME NEW t \in Threads, StartElement(t) PROVE SerialInv'
  <2>1. overlap = "none" /\ ~Idle(t) /\ pc[t] = "start"
    BY <1>9 DEF StartElement, Idle
  <2>2. Undisturbed(t) /\ (\A u \in Threads : u # t => Idle(u)) /\ (~StartupOver => t = Main)
    BY <2>1, Alone
  <2>3. /\ started' = {member} /\ period[member] = loopTime /\ loopTime >= MinPeriod
        /\ UNCHANGED << member, period, loopTime >> /\ member # NoElement
    BY <1>9, <2>1, <2>2 DEF StartElement, Undisturbed
  <2>4. InService'
    BY <2>3 DEF InService
  <2>5. \A u \in Threads : Idle(u)'
    BY <1>9, <1>types, <2>2 DEF StartElement, Idle
  <2>6. StartupOver'
    BY <1>9, <2>2 DEF StartElement, StartupOver
  <2> QED
    BY <1>types, <2>4, <2>5, <2>6 DEF SerialInv, Alive, StartupOver
<1>10. ASSUME NEW t \in Threads, UseNull(t) PROVE FALSE
  <2>1. overlap = "none" /\ ~Idle(t) /\ pc[t] \in {"stop", "fill", "start"} /\ member = NoElement
    BY <1>10 DEF UseNull, Idle
  <2> QED
    BY <2>1, Alone DEF Undisturbed
<1>11. CASE Expire \/ UNCHANGED vars
  BY <1>11 DEF Expire, vars, SerialInv, Alive, StartupOver, Idle, Quiet, Busy, InService, Undisturbed
<1> QED
  BY <1>1, <1>2, <1>3, <1>4, <1>5, <1>6, <1>7, <1>8, <1>9, <1>10, <1>11, LookupSteps
     DEF Next, Install

(* Without overlaps, the update loop has one timer, with the period a reader of
   the loop time node sees, and the member is never used while it is null. *)
THEOREM TimerAlwaysMatches == Spec => []TimerMatchesNode
<1>1. Spec => []SerialInv
  BY InitSerial, AlwaysTyped, NextSerial, PTL DEF Spec
<1>2. Typed /\ SerialInv => TimerMatchesNode
  <2> SUFFICES ASSUME Typed, SerialInv, overlap = "none"
               PROVE  /\ Alive
                      /\ \A e, f \in started : e = f
                      /\ Quiet => InService
    BY DEF TimerMatchesNode, InService
  <2>1. CASE Quiet
    BY <2>1 DEF SerialInv, InService
  <2>2. CASE ~Quiet
    <3>1. PICK t \in Threads : ~Idle(t)
      BY <2>2 DEF Quiet, Busy
    <3>2. Undisturbed(t) /\ pc[t] \in Steps \ {"idle"}
      BY <3>1 DEF SerialInv, Idle, Typed, TypeOK
    <3>3. started \subseteq {member}
      BY <3>2 DEF Undisturbed, Steps
    <3> QED
      BY <2>2, <3>3 DEF SerialInv
  <2> QED
    BY <2>1, <2>2
<1> QED
  BY <1>1, <1>2, AlwaysTyped, PTL

-----------------------------------------------------------------------------
(* Orphans                                                                 *)

(* How many orphans there can be: none before startTimerLoop has constructed
   its element, one of it after that, and one more when it has returned. *)
Bound ==
  IF main \in {"started", "crashed"} THEN 2
  ELSE IF pc[Main] \in {"fill", "start"} THEN 1 ELSE 0

(* A worker is about to drop what the member holds. *)
Dropping == \E w \in Workers : pc[w] \in {"reset", "construct"}

Orphans == IF Dropping THEN started ELSE started \ {member}

OneWorker == \A v, w \in Workers : ~Idle(v) /\ ~Idle(w) => v = w

OrphanInv == overlap # "workers" => OneWorker /\ Cardinality(Orphans) <= Bound

(* The elements are finitely many, so they can be counted. *)
LEMMA Countable ==
  ASSUME NEW S, S \subseteq Elements
  PROVE  IsFiniteSet(S) /\ Cardinality(S) \in Nat
<1>1. IsFiniteSet(Elements)
  BY MaxElementsAssumption, FS_Interval DEF Elements
<1> QED
  BY <1>1, FS_Subset, FS_CardinalityType

LEMMA FewerElements ==
  ASSUME NEW S, S \subseteq Elements, NEW T, T \subseteq S
  PROVE  Cardinality(T) <= Cardinality(S)
BY Countable, FS_Subset

LEMMA OneElementMore ==
  ASSUME NEW S, S \subseteq Elements, NEW e \in Elements, NEW T, T \subseteq S \cup {e}
  PROVE  Cardinality(T) <= Cardinality(S) + 1
<1>1. IsFiniteSet(S) /\ Cardinality(S) \in Nat
  BY Countable
<1>2. Cardinality(S \cup {e}) <= Cardinality(S) + 1
  BY <1>1, FS_AddElement
<1>3. Cardinality(T) <= Cardinality(S \cup {e})
  BY FewerElements
<1>4. Cardinality(T) \in Nat /\ Cardinality(S \cup {e}) \in Nat
  BY Countable
<1> QED
  BY <1>1, <1>2, <1>3, <1>4

LEMMA InitOrphans == Init => OrphanInv
<1> SUFFICES ASSUME Init PROVE OrphanInv
  OBVIOUS
<1>1. \A t \in Threads : Idle(t)
  BY DEF Init, Idle
<1>2. Orphans = {} /\ Bound = 0
  BY DEF Init, Orphans, Bound, Threads
<1> QED
  BY <1>1, <1>2, FS_EmptySet DEF OrphanInv, OneWorker, Threads

(* What a worker's access to the member does to the orphans when no other
   worker is busy: nothing, since it drops only what it has stopped, or what
   has been counted as an orphan since it was about to drop it. *)
LEMMA WorkerKeepsOrphans ==
  ASSUME Typed, OneWorker, NEW w \in Workers, Install(w), ~UseNull(w)
  PROVE  Orphans' \subseteq Orphans /\ Bound' = Bound
<1> USE DEF Goto
<1>types. /\ pc \in [Threads -> Steps] /\ w \in Threads /\ w # Main /\ Main \in Threads
          /\ started \subseteq Elements /\ NoElement \notin started
  BY MainAssumption, NoElementOutside DEF Typed, TypeOK, Threads
<1>1. ~Idle(w) /\ \A v \in Workers : v # w => Idle(v)
  BY DEF OneWorker, Install, CheckElement, StopElement, ResetElement, ConstructElement,
     FillElement, StartElement, Idle
<1>2. Dropping <=> pc[w] \in {"reset", "construct"}
  BY <1>1 DEF Dropping, Idle
<1>3. ASSUME NEW x \in Steps, pc' = [pc EXCEPT ![w] = x]
      PROVE  /\ Dropping' <=> x \in {"reset", "construct"}
             /\ pc'[Main] = pc[Main]
  <2>1. pc'[w] = x /\ \A v \in Threads : v # w => pc'[v] = pc[v]
    BY <1>types, <1>3
  <2> QED
    BY <1>1, <1>types, <2>1 DEF Dropping, Idle, Threads
<1>4. CASE CheckElement(w)
  <2>1. member = NoElement => started \ {member} = started
    BY <1>types
  <2> QED
    BY <1>2, <1>3, <1>4, <2>1 DEF CheckElement, Orphans, Bound, Steps
<1>5. CASE StopElement(w)
  BY <1>2, <1>3, <1>5 DEF StopElement, Orphans, Bound, Steps
<1>6. CASE ResetElement(w)
  BY <1>2, <1>3, <1>6 DEF ResetElement, Orphans, Bound, Steps
<1>7. CASE ConstructElement(w)
  BY <1>2, <1>3, <1>7 DEF ConstructElement, Orphans, Bound, Steps
<1>8. CASE FillElement(w)
  BY <1>2, <1>3, <1>8 DEF FillElement, Orphans, Bound, Steps
<1>9. CASE StartElement(w)
  BY <1>2, <1>3, <1>9, <1>types DEF StartElement, Orphans, Bound, Steps
<1> QED
  BY <1>4, <1>5, <1>6, <1>7, <1>8, <1>9 DEF Install

(* The main thread's construction replaces an element that may run; its start
   may start one that a worker is about to drop. *)
LEMMA MainAddsOne ==
  ASSUME Typed, Install(Main), ~UseNull(Main), overlap # "workers",
         OrphanInv
  PROVE  Cardinality(Orphans') <= Bound'
<1> USE DEF Goto
<1>types. /\ pc \in [Threads -> Steps] /\ Main \in Threads /\ Main \notin Workers
          /\ started \subseteq Elements /\ NoElement \notin started
          /\ member \in Elements \cup {NoElement}
          /\ pc[Main] \in {"construct", "fill", "start"} /\ main = "starting"
  BY MainAssumption, NoElementOutside
     DEF Typed, TypeOK, Threads, Install, CheckElement, StopElement, ResetElement,
         ConstructElement, FillElement, StartElement, Alive
<1>1. Orphans \subseteq Elements /\ Cardinality(Orphans) \in Nat /\ Cardinality(Orphans) <= Bound
  BY <1>types, Countable DEF Orphans, OrphanInv
<1>2. ASSUME NEW x \in Steps, pc' = [pc EXCEPT ![Main] = x]
      PROVE  (Dropping' <=> Dropping) /\ pc'[Main] = x
  BY <1>2, <1>types DEF Dropping, Threads
<1>3. CASE ConstructElement(Main)
  <2>1. (Dropping' <=> Dropping) /\ Bound = 0 /\ Bound' = 1
    BY <1>2, <1>3, <1>types DEF ConstructElement, Bound, Steps
  <2>2. Orphans' \subseteq Orphans \cup {member}
    BY <2>1, <1>3 DEF ConstructElement, Orphans
  <2>3. Cardinality(Orphans') <= Cardinality(Orphans) + 1
    <3>1. CASE member = NoElement
      <4>1. Orphans' \subseteq Orphans
        BY <2>1, <1>3, <1>types, <3>1 DEF ConstructElement, Orphans
      <4> QED
        BY <1>1, <4>1, FewerElements, Countable
    <3>2. CASE member \in Elements
      BY <1>1, <2>2, <3>2, OneElementMore
    <3> QED
      BY <3>1, <3>2, <1>types
  <2>4. Cardinality(Orphans') \in Nat
    BY <1>3, <1>types, Countable DEF ConstructElement, Orphans
  <2> QED
    BY <1>1, <2>1, <2>3, <2>4
<1>4. CASE FillElement(Main)
  BY <1>1, <1>2, <1>4, <1>types DEF FillElement, Orphans, Bound, Steps
<1>5. CASE StartElement(Main)
  <2>1. (Dropping' <=> Dropping) /\ Bound = 1 /\ Bound' = 2 /\ member \in Elements
    BY <1>2, <1>5, <1>types DEF StartElement, Bound, Steps
  <2>2. Orphans' \subseteq Orphans \cup {member}
    BY <2>1, <1>5 DEF StartElement, Orphans
  <2>3. Cardinality(Orphans') <= Cardinality(Orphans) + 1
    BY <1>1, <2>1, <2>2, OneElementMore
  <2>4. Cardinality(Orphans') \in Nat
    BY <1>1, <2>1, <2>2, Countable
  <2> QED
    BY <1>1, <2>1, <2>3, <2>4
<1> QED
  BY <1>3, <1>4, <1>5, <1>types DEF Install, CheckElement, StopElement, ResetElement

LEMMA NextOrphans == Typed /\ OrphanInv /\ [Next]_vars => OrphanInv'
<1> SUFFICES ASSUME Typed, OrphanInv, [Next]_vars, overlap' # "workers"
             PROVE  OneWorker' /\ Cardinality(Orphans') <= Bound'
  BY DEF OrphanInv
<1> USE DEF Goto
<1>types. /\ pc \in [Threads -> Steps] /\ Main \in Threads /\ Workers \subseteq Threads
          /\ Main \notin Workers /\ started \subseteq Elements
  BY MainAssumption DEF Typed, TypeOK, Threads
<1>before. overlap # "workers" => OneWorker /\ Cardinality(Orphans) <= Bound
  BY DEF OrphanInv
<1>orphans. Orphans \subseteq Elements /\ Cardinality(Orphans) \in Nat
  BY <1>types, Countable DEF Orphans
<1>1. CASE LookupStep
  <2>1. UNCHANGED << pc, started, member, overlap >> /\ Bound = 0 /\ Bound' = 0
    BY <1>1 DEF LookupStep, Bound, Typed
  <2> QED
    BY <1>before, <2>1 DEF OneWorker, Orphans, Dropping, Idle
<1>2. CASE startTimerLoop
  <2>1. /\ UNCHANGED << started, member, overlap >> /\ Bound = 0 /\ Bound' = 0
        /\ \A w \in Workers : pc'[w] = pc[w]
    BY <1>2, <1>types DEF startTimerLoop, Bound, Typed
  <2> QED
    BY <1>before, <2>1 DEF OneWorker, Orphans, Dropping, Idle
<1>3. ASSUME NEW w \in Workers, NEW p \in Periods, writeLoopTimeValue(w, p)
      PROVE  OneWorker' /\ Cardinality(Orphans') <= Bound'
  <2>1. overlap # "workers" /\ \A v \in Workers : Idle(v)
    BY <1>3, <1>types DEF writeLoopTimeValue, Overlap, Busy
  <2>2. /\ UNCHANGED << main, started, member >> /\ pc'[w] = "check" /\ pc'[Main] = pc[Main]
        /\ \A v \in Workers : v # w => pc'[v] = pc[v]
    BY <1>3, <1>types DEF writeLoopTimeValue
  <2>3. ~Dropping /\ ~Dropping' /\ OneWorker'
    BY <2>1, <2>2 DEF Dropping, Idle, OneWorker
  <2>4. Bound' = Bound /\ Orphans' = Orphans
    BY <2>2, <2>3 DEF Bound, Orphans
  <2> QED
    BY <1>before, <2>1, <2>3, <2>4
<1>4. ASSUME NEW t \in Threads, Install(t), ~UseNull(t)
      PROVE  OneWorker' /\ Cardinality(Orphans') <= Bound'
  <2>1. /\ overlap' = overlap /\ ~Idle(t) /\ \A u \in Threads : u # t => pc'[u] = pc[u]
    BY <1>4, <1>types DEF Install, CheckElement, StopElement, ResetElement, ConstructElement,
       FillElement, StartElement, Idle
  <2>2. OneWorker'
    BY <1>before, <1>types, <2>1 DEF OneWorker, Idle
  <2>3. CASE t = Main
    BY <1>4, <2>1, <2>2, <2>3, MainAddsOne
  <2>4. CASE t \in Workers
    <3>1. Orphans' \subseteq Orphans /\ Bound' = Bound
      BY <1>4, <1>before, <2>1, <2>4, WorkerKeepsOrphans
    <3>2. Cardinality(Orphans') <= Cardinality(Orphans) /\ Cardinality(Orphans') \in Nat
      BY <1>orphans, <3>1, FewerElements, Countable
    <3>3. Cardinality(Orphans) <= Bound /\ Bound \in Nat
      BY <1>before, <2>1 DEF Bound
    <3> QED
      BY <1>orphans, <2>2, <3>1, <3>2, <3>3
  <2> QED
    BY <2>3, <2>4 DEF Threads
<1>5. ASSUME NEW t \in Threads, UseNull(t)
      PROVE  OneWorker' /\ Cardinality(Orphans') <= Bound'
  <2>1. UNCHANGED << pc, started, member, overlap >> /\ Bound' = 2 /\ Bound \in {0, 1, 2}
    BY <1>5 DEF UseNull, Bound
  <2>2. Orphans' = Orphans /\ (OneWorker => OneWorker')
    BY <2>1 DEF Orphans, Dropping, OneWorker, Idle
  <2> QED
    BY <1>before, <1>orphans, <2>1, <2>2
<1>6. CASE Expire \/ UNCHANGED vars
  <2>1. UNCHANGED << main, pc, started, member, overlap >>
    BY <1>6 DEF Expire, vars
  <2> QED
    BY <1>before, <2>1 DEF OneWorker, Orphans, Bound, Dropping, Idle
<1> QED
  BY <1>1, <1>2, <1>3, <1>4, <1>5, <1>6, LookupSteps DEF Next, Install

(* Early writes cost at most two elements that run for ever, as long as the
   writes do not overlap each other: however they interleave with
   startTimerLoop, and however many there are. *)
THEOREM AtMostTwoOrphansEver == Spec => []AtMostTwoOrphans
<1>1. Spec => []OrphanInv
  BY InitOrphans, AlwaysTyped, NextOrphans, PTL DEF Spec
<1>2. Typed /\ OrphanInv => AtMostTwoOrphans
  <2> SUFFICES ASSUME Typed, OrphanInv, overlap # "workers"
               PROVE  Cardinality(started \ {member}) <= 2
    BY DEF AtMostTwoOrphans
  <2>1. started \ {member} \subseteq Orphans /\ Orphans \subseteq Elements
    BY DEF Orphans, Typed, TypeOK
  <2>2. /\ Cardinality(started \ {member}) <= Cardinality(Orphans)
        /\ Cardinality(started \ {member}) \in Nat /\ Cardinality(Orphans) \in Nat
    BY <2>1, FewerElements, Countable
  <2>3. Cardinality(Orphans) <= Bound /\ Bound \in {0, 1, 2}
    BY DEF OrphanInv, Bound
  <2> QED
    BY <2>2, <2>3
<1> QED
  BY <1>1, <1>2, AlwaysTyped, PTL
=============================================================================
