-------------------------- MODULE HistoricalAccess --------------------------
(***************************************************************************)
(* Historical reads with continuation points (Library/HistoricalAccess.cpp *)
(* readHValue), driven by clients that each want the whole history.        *)
(*                                                                         *)
(* The server keeps nothing between two requests: the continuation point   *)
(* it hands out is the index of the next entry, as text, and comes back in *)
(* the next request.  A client may use another page size in each request,  *)
(* and may give up by releasing its continuation point.                    *)
(*                                                                         *)
(* Indices are uint32_t in the code and numbers modulo UInt32 here; an     *)
(* entry is the number readHValue stores in it, which is its index.        *)
(***************************************************************************)
EXTENDS Naturals, Sequences

CONSTANTS Clients,
          numberEntries,  \* HistoricalAccess.h: entries in the history
          UInt32,         \* 2^32; a smaller number when TLC runs
          PageSizes,      \* the values of numValuesPerNode clients use
          None            \* the empty continuation point

ASSUME numberEntriesAssumption == numberEntries \in Nat \ {0}
ASSUME UInt32Assumption == UInt32 \in Nat /\ UInt32 > numberEntries
ASSUME PageSizesAssumption == PageSizes \subseteq 0..(UInt32 - 1)
ASSUME NoneAssumption == None \notin Nat

-----------------------------------------------------------------------------
(* readHValue                                                              *)

StartIdx(cp) == IF cp = None THEN 0 ELSE cp

(* Mutant: the last entry of a full page is not counted. *)
EndIdxShort(cp, n) ==
  LET sum == (StartIdx(cp) + n) % UInt32 IN
    IF n # 0 /\ sum <= numberEntries THEN sum - 1 ELSE numberEntries

(* The sum of the comparison is computed in uint32_t. *)
EndIdx(cp, n) ==
  LET sum == (StartIdx(cp) + n) % UInt32 IN
    IF n # 0 /\ sum < numberEntries THEN sum ELSE numberEntries

(* A release without a continuation point returns before any data is set. *)
Refused(cp, release) == cp = None /\ release

(* Mutant: a full page is taken for the last one. *)
NextPointDropped(cp, n, release) == IF Refused(cp, release) THEN cp ELSE None

NextPoint(cp, n, release) ==
  IF Refused(cp, release) THEN cp
  ELSE IF EndIdx(cp, n) # numberEntries /\ ~release THEN EndIdx(cp, n) ELSE None

(* Mutant: the loop includes the end index. *)
PageOneMore(cp, n, release) ==
  IF Refused(cp, release) \/ EndIdx(cp, n) <= StartIdx(cp) THEN << >>
  ELSE [i \in 1..(EndIdx(cp, n) - StartIdx(cp) + 1) |-> StartIdx(cp) + i - 1]

Page(cp, n, release) ==
  IF Refused(cp, release) \/ EndIdx(cp, n) <= StartIdx(cp) THEN << >>
  ELSE [i \in 1..(EndIdx(cp, n) - StartIdx(cp)) |-> StartIdx(cp) + i - 1]

-----------------------------------------------------------------------------
VARIABLES point,    \* each client's continuation point
          got,      \* the entries it has collected
          state,    \* "reading", "complete", "released" or "crashed"
          wrapped,  \* history: a sum has wrapped around in this read
          turn      \* history: flips with every answer, so that none is a stutter

vars == << point, got, state, wrapped, turn >>

Init ==
  /\ point = [c \in Clients |-> None]
  /\ got = [c \in Clients |-> << >>]
  /\ state = [c \in Clients |-> "reading"]
  /\ wrapped = [c \in Clients |-> FALSE]
  /\ turn = [c \in Clients |-> FALSE]

Wraps(c, n) == StartIdx(point[c]) + n >= UInt32

(* The model follows a client up to the first answer in which a sum has
   wrapped; the client then begins anew. *)
Reading(c) == state[c] = "reading" /\ ~wrapped[c]

(* A request and its answer. *)
Answer(c, n, release) ==
  /\ Reading(c)
  /\ got' = [got EXCEPT ![c] = @ \o Page(point[c], n, release)]
  /\ point' = [point EXCEPT ![c] = NextPoint(@, n, release)]
  /\ wrapped' = [wrapped EXCEPT ![c] = Wraps(c, n)]
  /\ turn' = [turn EXCEPT ![c] = ~@]

ReadPage(c, n) ==
  /\ Answer(c, n, FALSE)
  /\ state' = [state EXCEPT ![c] =
                 IF NextPoint(point[c], n, FALSE) = None THEN "complete" ELSE @]

(* A sum that has wrapped may put the end before the start: the array is then
   asked to hold nearly UInt32 entries, and the allocation may fail. *)
AllocationFails(c, n) ==
  /\ Reading(c)
  /\ EndIdx(point[c], n) < StartIdx(point[c])
  /\ state' = [d \in Clients |-> "crashed"]
  /\ UNCHANGED << point, got, wrapped, turn >>

(* The client gives up and releases the continuation point it holds.  The
   server answers this request with a page of entries, too. *)
Release(c, n) ==
  /\ point[c] # None
  /\ Answer(c, n, TRUE)
  /\ state' = [state EXCEPT ![c] = "released"]

(* The client begins a new read. *)
Restart(c) ==
  /\ state[c] # "crashed" /\ ~Reading(c)
  /\ point' = [point EXCEPT ![c] = None]
  /\ got' = [got EXCEPT ![c] = << >>]
  /\ state' = [state EXCEPT ![c] = "reading"]
  /\ wrapped' = [wrapped EXCEPT ![c] = FALSE]
  /\ turn' = [turn EXCEPT ![c] = FALSE]

Next ==
  \E c \in Clients :
    \/ \E n \in PageSizes : ReadPage(c, n) \/ AllocationFails(c, n) \/ Release(c, n)
    \/ Restart(c)

(* A client that reads goes on until it has an answer without a continuation
   point. *)
Fairness == \A c \in Clients : WF_vars(\E n \in PageSizes : ReadPage(c, n))

Spec == Init /\ [][Next]_vars
FairSpec == Spec /\ Fairness

-----------------------------------------------------------------------------
Indices == 0..(numberEntries - 1)

(* Types; a continuation point is an index of the history. *)
TypeOK ==
  /\ point \in [Clients -> Nat \cup {None}]
  /\ \A c \in Clients : point[c] # None => point[c] \in Indices
  /\ got \in [Clients -> Seq(Indices)]
  /\ state \in [Clients -> {"reading", "complete", "released", "crashed"}]
  /\ wrapped \in [Clients -> BOOLEAN]
  /\ turn \in [Clients -> BOOLEAN]

(* As long as no sum has wrapped, readHValue gives a client the first entries
   of the history, each once and in order, whatever page sizes it mixes and
   whatever other clients read; its continuation point is the index of the
   first entry it lacks. *)
CollectsPrefix ==
  \A c \in Clients : ~wrapped[c] =>
    /\ \A i \in 1..Len(got[c]) : got[c][i] = i - 1
    /\ point[c] # None => point[c] = Len(got[c])

(* An answer without a continuation point ends the history: nothing is
   missing. *)
CompleteMeansAll ==
  \A c \in Clients :
    state[c] = "complete" /\ ~wrapped[c] => Len(got[c]) = numberEntries

(* A client that reads on gets to the end, unless a sum wraps: every answer
   brings it forward. *)
EventuallyComplete ==
  \A c \in Clients : state[c] = "reading" ~> (state[c] # "reading" \/ wrapped[c])

(* A client that releases its continuation point gets nothing more: "check if
   user wants to remove order" (HistoricalAccess.cpp:216), answered with a
   status and no entries. *)
ReleaseGivesNoEntries ==
  [][\A c \in Clients : state[c] = "reading" /\ state'[c] = "released" => got'[c] = got[c]]_vars
=============================================================================
