----------------------- MODULE HistoricalAccessProofs -----------------------
(***************************************************************************)
(* Paged historical reads give the whole history, each entry once and in   *)
(* order, for every length of the history, every integer width, and every  *)
(* mix of page sizes and clients.                                          *)
(***************************************************************************)
EXTENDS HistoricalAccess, SequenceTheorems, TLAPS

(* While a client reads, it holds exactly the entries before the one its
   continuation point names; without a point it holds none. *)
HoldsStart ==
  \A c \in Clients : Reading(c) => Len(got[c]) = StartIdx(point[c])

HistoryInv == TypeOK /\ HoldsStart /\ CollectsPrefix /\ CompleteMeansAll

ContinuationPoints == Indices \cup {None}

(* A sum that does not reach the modulus is left alone. *)
LEMMA SmallRemainder ==
  ASSUME NEW x \in Nat, NEW m \in Nat, x < m
  PROVE  x % m = x
OBVIOUS

(* The end index readHValue computes lies in the history; if the sum does not
   wrap it is the start plus the page size, or the end of the history. *)
LEMMA EndIdxValue ==
  ASSUME NEW cp \in ContinuationPoints, NEW n \in 0..(UInt32 - 1)
  PROVE  /\ StartIdx(cp) \in Indices
         /\ EndIdx(cp, n) \in 0..numberEntries
         /\ StartIdx(cp) + n < UInt32 => StartIdx(cp) < EndIdx(cp, n)
<1>1. StartIdx(cp) \in Indices
  BY numberEntriesAssumption, NoneAssumption DEF StartIdx, ContinuationPoints, Indices
<1> DEFINE s == StartIdx(cp)
           sum == (s + n) % UInt32
<1>2. s \in Nat /\ n \in Nat /\ UInt32 \in Nat /\ UInt32 > 0 /\ s < numberEntries
        /\ numberEntries \in Nat
  BY <1>1, numberEntriesAssumption, UInt32Assumption DEF Indices
<1>3. sum \in Nat /\ sum < UInt32
  BY <1>2
<1>4. s + n < UInt32 => sum = s + n
  <2>1. s + n \in Nat
    BY <1>2
  <2> QED
    BY <1>2, <2>1, SmallRemainder
<1>5. EndIdx(cp, n) = IF n # 0 /\ sum < numberEntries THEN sum ELSE numberEntries
  BY DEF EndIdx
<1> HIDE DEF s, sum
<1>6. EndIdx(cp, n) \in 0..numberEntries
  BY <1>2, <1>3, <1>5
<1>7. s + n < UInt32 => s < EndIdx(cp, n)
  BY <1>2, <1>3, <1>4, <1>5
<1> QED
  BY <1>1, <1>6, <1>7 DEF s

(* A page is a run of consecutive entries from the start index. *)
LEMMA PageIsRun ==
  ASSUME NEW cp \in ContinuationPoints, NEW n \in 0..(UInt32 - 1), NEW release \in BOOLEAN,
         ~Refused(cp, release)
  PROVE  /\ Page(cp, n, release) \in Seq(Indices)
         /\ \A i \in 1..Len(Page(cp, n, release)) :
              Page(cp, n, release)[i] = StartIdx(cp) + i - 1
         /\ StartIdx(cp) + n < UInt32 =>
              Len(Page(cp, n, release)) = EndIdx(cp, n) - StartIdx(cp)
<1> DEFINE s == StartIdx(cp)
           e == EndIdx(cp, n)
<1>1. s \in Indices /\ e \in 0..numberEntries /\ (s + n < UInt32 => s < e)
  BY EndIdxValue
<1>2. numberEntries \in Nat /\ s \in Nat /\ e \in Nat
  BY <1>1, numberEntriesAssumption DEF Indices
<1> HIDE DEF s, e
<1>3. Page(cp, n, release) = IF e <= s THEN << >> ELSE [i \in 1..(e - s) |-> s + i - 1]
  BY DEF Page, s, e
<1>4. CASE e <= s
  BY <1>1, <1>2, <1>3, <1>4 DEF s, e
<1>5. CASE ~(e <= s)
  <2>1. Page(cp, n, release) = [i \in 1..(e - s) |-> s + i - 1] /\ e - s \in Nat
    BY <1>2, <1>3, <1>5
  <2>2. \A i \in 1..(e - s) : s + i - 1 \in Indices
    BY <1>1, <1>2 DEF Indices
  <2>3. Page(cp, n, release) \in Seq(Indices)
    BY <2>1, <2>2
  <2>4. Len(Page(cp, n, release)) = e - s
    BY <2>1
  <2> QED
    BY <2>1, <2>3, <2>4 DEF s, e
<1> QED
  BY <1>4, <1>5

(* What an answer does to one client: the entries it holds stay a prefix of
   the history that ends at the new continuation point, or, without one, at
   the end of the history. *)
LEMMA AnswerExtends ==
  ASSUME NEW g \in Seq(Indices), NEW cp \in ContinuationPoints,
         NEW n \in 0..(UInt32 - 1), NEW release \in BOOLEAN,
         ~Refused(cp, release),
         Len(g) = StartIdx(cp),
         \A i \in 1..Len(g) : g[i] = i - 1
  PROVE  LET h == g \o Page(cp, n, release)
             next == NextPoint(cp, n, release)
         IN /\ h \in Seq(Indices)
            /\ next \in ContinuationPoints
            /\ StartIdx(cp) + n < UInt32 =>
                 /\ \A i \in 1..Len(h) : h[i] = i - 1
                 /\ next # None => next = Len(h)
                 /\ next = None /\ ~release => Len(h) = numberEntries
<1> DEFINE s == StartIdx(cp)
           e == EndIdx(cp, n)
           p == Page(cp, n, release)
           h == g \o p
           next == NextPoint(cp, n, release)
<1>1. s \in Indices /\ e \in 0..numberEntries /\ (s + n < UInt32 => s < e)
  BY EndIdxValue
<1>2. p \in Seq(Indices) /\ (\A i \in 1..Len(p) : p[i] = s + i - 1)
        /\ (s + n < UInt32 => Len(p) = e - s)
  BY PageIsRun
<1>3. next = IF e # numberEntries /\ ~release THEN e ELSE None
  BY DEF NextPoint
<1>4. Len(g) = s /\ (\A i \in 1..Len(g) : g[i] = i - 1)
  OBVIOUS
<1> HIDE DEF s, e, p, next
<1>5. h \in Seq(Indices) /\ Len(h) = Len(g) + Len(p)
  BY <1>2, ConcatProperties
<1>6. \A i \in 1..Len(h) : h[i] = i - 1
  <2>1. \A i \in 1..Len(h) : h[i] = IF i <= Len(g) THEN g[i] ELSE p[i - Len(g)]
    BY <1>2, ConcatProperties
  <2>2. Len(g) \in Nat /\ Len(p) \in Nat
    BY <1>2
  <2>3. s \in Nat
    BY <1>1 DEF Indices
  <2> HIDE DEF h
  <2>4. ASSUME NEW i \in 1..Len(h)
        PROVE  h[i] = i - 1
    <3>1. CASE i <= Len(g)
      BY <1>4, <2>1, <2>2, <3>1
    <3>2. CASE ~(i <= Len(g))
      <4>1. i \in Nat /\ i - Len(g) \in 1..Len(p)
        BY <1>5, <2>2, <3>2
      <4>2. h[i] = p[i - Len(g)]
        BY <2>1, <3>2
      <4>3. p[i - Len(g)] = s + (i - Len(g)) - 1
        BY <1>2, <4>1
      <4> QED
        BY <1>4, <2>2, <2>3, <4>1, <4>2, <4>3
    <3> QED
      BY <3>1, <3>2
  <2> QED
    BY <2>4
<1>7. numberEntries \in Nat /\ None \notin Nat /\ s \in Nat /\ e \in Nat
  BY <1>1, numberEntriesAssumption, NoneAssumption DEF Indices
<1> HIDE DEF h
<1>8. next \in ContinuationPoints
  BY <1>1, <1>3, <1>7 DEF ContinuationPoints, Indices
<1>9. s + n < UInt32 => (next # None => next = Len(h))
                          /\ (next = None /\ ~release => Len(h) = numberEntries)
  BY <1>2, <1>3, <1>4, <1>5, <1>7
<1> QED
  BY <1>5, <1>6, <1>8, <1>9 DEF s, e, p, h, next

LEMMA InitHistory == Init => HistoryInv
<1> SUFFICES ASSUME Init PROVE HistoryInv
  OBVIOUS
<1>1. \A c \in Clients : point[c] = None /\ got[c] = << >> /\ state[c] = "reading"
  BY DEF Init
<1>2. << >> \in Seq(Indices) /\ Len(<< >>) = 0
  OBVIOUS
<1>3. TypeOK
  BY <1>2 DEF Init, TypeOK
<1>4. HoldsStart /\ CollectsPrefix /\ CompleteMeansAll
  BY <1>1, <1>2 DEF HoldsStart, CollectsPrefix, CompleteMeansAll, StartIdx
<1> QED
  BY <1>3, <1>4 DEF HistoryInv

(* An answer to client c, whichever kind of request it made. *)
LEMMA AnswerHistory ==
  ASSUME HistoryInv, NEW c \in Clients, NEW n \in PageSizes, NEW release \in BOOLEAN,
         Answer(c, n, release), ~Refused(point[c], release),
         NEW new \in {"reading", "complete", "released"},
         state' = [state EXCEPT ![c] = new],
         new = "reading" => NextPoint(point[c], n, release) # None,
         new = "complete" => NextPoint(point[c], n, release) = None /\ ~release
  PROVE  HistoryInv'
<1> DEFINE h == got[c] \o Page(point[c], n, release)
           next == NextPoint(point[c], n, release)
<1>1. point \in [Clients -> Nat \cup {None}] /\ got \in [Clients -> Seq(Indices)]
        /\ state \in [Clients -> {"reading", "complete", "released", "crashed"}]
        /\ wrapped \in [Clients -> BOOLEAN] /\ turn \in [Clients -> BOOLEAN]
        /\ \A d \in Clients : point[d] \in ContinuationPoints
  BY DEF HistoryInv, TypeOK, ContinuationPoints
<1>2. state[c] = "reading" /\ ~wrapped[c]
  BY DEF Answer, Reading
<1>3. n \in 0..(UInt32 - 1)
  BY PageSizesAssumption
<1>4. Len(got[c]) = StartIdx(point[c]) /\ (\A i \in 1..Len(got[c]) : got[c][i] = i - 1)
  BY <1>2 DEF HistoryInv, HoldsStart, CollectsPrefix, Reading
<1>5. /\ h \in Seq(Indices)
      /\ next \in ContinuationPoints
      /\ StartIdx(point[c]) + n < UInt32 =>
           /\ \A i \in 1..Len(h) : h[i] = i - 1
           /\ next # None => next = Len(h)
           /\ next = None /\ ~release => Len(h) = numberEntries
  BY <1>1, <1>3, <1>4, AnswerExtends
<1>6. /\ got' = [got EXCEPT ![c] = h] /\ point' = [point EXCEPT ![c] = next]
      /\ wrapped' = [wrapped EXCEPT ![c] = Wraps(c, n)]
      /\ turn' = [turn EXCEPT ![c] = ~turn[c]]
  BY <1>1 DEF Answer
<1>7. Wraps(c, n) \in BOOLEAN /\ (~Wraps(c, n) => StartIdx(point[c]) + n < UInt32)
  <2>1. StartIdx(point[c]) \in Indices
    BY <1>1, <1>3, EndIdxValue
  <2> QED
    BY <2>1, <1>3, UInt32Assumption, numberEntriesAssumption DEF Wraps, Indices
<1> HIDE DEF h, next
<1>8. numberEntries \in Nat /\ None \notin Nat /\ Indices \subseteq Nat
  BY numberEntriesAssumption, NoneAssumption DEF Indices
<1>9. TypeOK'
  BY <1>1, <1>5, <1>6, <1>7, <1>8 DEF TypeOK, ContinuationPoints
<1>10. ASSUME NEW d \in Clients
       PROVE  /\ Reading(d)' => Len(got'[d]) = StartIdx(point'[d])
              /\ ~wrapped'[d] =>
                   /\ \A i \in 1..Len(got'[d]) : got'[d][i] = i - 1
                   /\ point'[d] # None => point'[d] = Len(got'[d])
              /\ state'[d] = "complete" /\ ~wrapped'[d] => Len(got'[d]) = numberEntries
  <2>1. CASE d = c
    <3>1. got'[d] = h /\ point'[d] = next /\ state'[d] = new /\ wrapped'[d] = Wraps(c, n)
      BY <1>1, <1>6, <2>1
    <3> QED
      BY <3>1, <1>5, <1>7 DEF Reading, StartIdx, next
  <2>2. CASE d # c
    <3>1. got'[d] = got[d] /\ point'[d] = point[d] /\ state'[d] = state[d]
            /\ wrapped'[d] = wrapped[d]
      BY <1>1, <1>6, <2>2
    <3> QED
      BY <3>1 DEF HistoryInv, HoldsStart, CollectsPrefix, CompleteMeansAll, Reading, StartIdx
  <2> QED
    BY <2>1, <2>2
<1>11. HoldsStart' /\ CollectsPrefix' /\ CompleteMeansAll'
  BY <1>10 DEF HoldsStart, CollectsPrefix, CompleteMeansAll, StartIdx
<1> QED
  BY <1>9, <1>11 DEF HistoryInv

LEMMA NextHistory == HistoryInv /\ [Next]_vars => HistoryInv'
<1> SUFFICES ASSUME HistoryInv, [Next]_vars PROVE HistoryInv'
  OBVIOUS
<1>1. /\ point \in [Clients -> Nat \cup {None}] /\ got \in [Clients -> Seq(Indices)]
      /\ state \in [Clients -> {"reading", "complete", "released", "crashed"}]
      /\ wrapped \in [Clients -> BOOLEAN] /\ turn \in [Clients -> BOOLEAN]
  BY DEF HistoryInv, TypeOK
<1>2. ASSUME NEW c \in Clients, NEW n \in PageSizes, ReadPage(c, n)
      PROVE  HistoryInv'
  <2> DEFINE new == IF NextPoint(point[c], n, FALSE) = None THEN "complete" ELSE "reading"
  <2>1. Answer(c, n, FALSE) /\ ~Refused(point[c], FALSE)
    BY <1>2 DEF ReadPage, Refused
  <2>2. state' = [state EXCEPT ![c] = new]
    BY <1>1, <1>2 DEF ReadPage, Answer, Reading
  <2> QED
    BY <2>1, <2>2, AnswerHistory
<1>3. ASSUME NEW c \in Clients, NEW n \in PageSizes, Release(c, n)
      PROVE  HistoryInv'
  <2>1. Answer(c, n, TRUE) /\ ~Refused(point[c], TRUE)
          /\ state' = [state EXCEPT ![c] = "released"]
    BY <1>3 DEF Release, Refused
  <2> QED
    BY <2>1, AnswerHistory
<1>4. ASSUME NEW c \in Clients, NEW n \in PageSizes, AllocationFails(c, n)
      PROVE  HistoryInv'
  <2>1. state' = [d \in Clients |-> "crashed"] /\ UNCHANGED << point, got, wrapped, turn >>
    BY <1>4 DEF AllocationFails
  <2>2. TypeOK'
    BY <2>1 DEF HistoryInv, TypeOK
  <2>3. HoldsStart' /\ CollectsPrefix' /\ CompleteMeansAll'
    BY <2>1 DEF HistoryInv, HoldsStart, CollectsPrefix, CompleteMeansAll, Reading, StartIdx
  <2> QED
    BY <2>2, <2>3 DEF HistoryInv
<1>5. ASSUME NEW c \in Clients, Restart(c)
      PROVE  HistoryInv'
  <2>1. /\ point' = [point EXCEPT ![c] = None] /\ got' = [got EXCEPT ![c] = << >>]
        /\ state' = [state EXCEPT ![c] = "reading"]
        /\ wrapped' = [wrapped EXCEPT ![c] = FALSE] /\ turn' = [turn EXCEPT ![c] = FALSE]
    BY <1>5 DEF Restart
  <2>2. << >> \in Seq(Indices) /\ Len(<< >>) = 0
    OBVIOUS
  <2>3. TypeOK'
    BY <1>1, <2>1, <2>2 DEF HistoryInv, TypeOK
  <2>4. HoldsStart' /\ CollectsPrefix' /\ CompleteMeansAll'
    BY <1>1, <2>1, <2>2
       DEF HistoryInv, HoldsStart, CollectsPrefix, CompleteMeansAll, Reading, StartIdx
  <2> QED
    BY <2>3, <2>4 DEF HistoryInv
<1>6. CASE UNCHANGED vars
  BY <1>6 DEF vars, HistoryInv, TypeOK, HoldsStart, CollectsPrefix, CompleteMeansAll,
              Reading, StartIdx
<1> QED
  BY <1>2, <1>3, <1>4, <1>5, <1>6 DEF Next

LEMMA AlwaysHistory == Spec => []HistoryInv
BY InitHistory, NextHistory, PTL DEF Spec

(* Continuation points stay indices of the history, pages stay entries of it. *)
THEOREM HistoryTypeCorrect == Spec => []TypeOK
<1>1. HistoryInv => TypeOK
  BY DEF HistoryInv
<1> QED
  BY AlwaysHistory, <1>1, PTL

(* The pages of readHValue add up to a prefix of the history, whatever page
   sizes clients mix. *)
THEOREM PagesCollectPrefix == Spec => []CollectsPrefix
<1>1. HistoryInv => CollectsPrefix
  BY DEF HistoryInv
<1> QED
  BY AlwaysHistory, <1>1, PTL

(* An answer of readHValue without a continuation point ends the history. *)
THEOREM NoPointMeansAll == Spec => []CompleteMeansAll
<1>1. HistoryInv => CompleteMeansAll
  BY DEF HistoryInv
<1> QED
  BY AlwaysHistory, <1>1, PTL
-----------------------------------------------------------------------------
(* Progress: the safety half of EventuallyComplete                         *)

(* An answer to a client that reads on brings it forward, unless a sum wraps:
   it has more entries than before, and no more than there are. *)
ReadAdvances ==
  \A c \in Clients, n \in PageSizes :
    ReadPage(c, n) /\ ~Wraps(c, n) =>
      Len(got[c]) < Len(got'[c]) /\ Len(got'[c]) <= numberEntries

LEMMA StepAdvances == HistoryInv => ReadAdvances
<1> SUFFICES ASSUME HistoryInv, NEW c \in Clients, NEW n \in PageSizes,
                    ReadPage(c, n), ~Wraps(c, n)
             PROVE  Len(got[c]) < Len(got'[c]) /\ Len(got'[c]) <= numberEntries
  BY DEF ReadAdvances
<1> DEFINE s == StartIdx(point[c])
           e == EndIdx(point[c], n)
           p == Page(point[c], n, FALSE)
<1>1. point[c] \in ContinuationPoints /\ n \in 0..(UInt32 - 1) /\ got[c] \in Seq(Indices)
        /\ got \in [Clients -> Seq(Indices)]
  BY PageSizesAssumption DEF HistoryInv, TypeOK, ContinuationPoints
<1>2. s \in Indices /\ e \in 0..numberEntries /\ (s + n < UInt32 => s < e)
  BY <1>1, EndIdxValue
<1>3. s + n < UInt32
  BY <1>1, <1>2, UInt32Assumption, numberEntriesAssumption DEF Wraps, Indices
<1>4. p \in Seq(Indices) /\ Len(p) = e - s
  BY <1>1, <1>3, PageIsRun DEF Refused
<1>5. Len(got[c]) = s
  BY DEF HistoryInv, HoldsStart, ReadPage, Answer
<1>6. got'[c] = got[c] \o p
  BY <1>1 DEF ReadPage, Answer
<1> HIDE DEF s, e, p
<1>7. Len(got'[c]) = Len(got[c]) + Len(p)
  BY <1>1, <1>4, <1>6, ConcatProperties
<1>8. Len(got'[c]) = e /\ s \in Nat /\ e \in Nat
  BY <1>2, <1>4, <1>5, <1>7, numberEntriesAssumption DEF Indices
<1> QED
  BY <1>2, <1>3, <1>5, <1>8, numberEntriesAssumption

(* readHValue never answers a client that reads on with nothing, so the client
   is through after numberEntries answers at the latest, whatever page sizes
   it mixes, as long as no sum wraps. *)
THEOREM EveryReadAdvances == Spec => [][ReadAdvances]_vars
BY AlwaysHistory, StepAdvances, PTL
=============================================================================
