----------------------------- MODULE ValueStore -----------------------------
(***************************************************************************)
(* What the simulated values promise to clients, without threads, types or *)
(* status codes.  Each node has a current version, which readers see, and  *)
(* a published one, which subscribers have been sent; a version is the     *)
(* number of the client's write it stems from.                             *)
(*                                                                         *)
(* One updater takes the current version of a node in hand.  It then puts  *)
(* that version back, over whatever clients have written since, or it      *)
(* publishes it; either way its hand is empty again.  Nothing else is ever *)
(* put back or published, hence readers are never behind subscribers, and  *)
(* subscribers never go back to an older version.                          *)
(***************************************************************************)
EXTENDS Naturals

CONSTANT Nodes

VARIABLES current,    \* current[n]: the version readers see
          published,  \* published[n]: the version subscribers have been sent
          last,       \* the number of the latest write
          hand        \* the node and version the updater has in hand

storeVars == << current, published, last, hand >>

Empty == [node |-> 0, version |-> 0]

Init ==
  /\ current = [n \in Nodes |-> 0]
  /\ published = [n \in Nodes |-> 0]
  /\ last = 0
  /\ hand = Empty

(* A client writes a node. *)
Write(n) ==
  /\ last' = last + 1
  /\ current' = [current EXCEPT ![n] = last + 1]
  /\ UNCHANGED << published, hand >>

Take(n) ==
  /\ hand = Empty
  /\ hand' = [node |-> n, version |-> current[n]]
  /\ UNCHANGED << current, published, last >>

PutBack(n) ==
  /\ hand.node = n
  /\ current' = [current EXCEPT ![n] = hand.version]
  /\ hand' = Empty
  /\ UNCHANGED << published, last >>

Publish(n) ==
  /\ hand.node = n
  /\ published' = [published EXCEPT ![n] = hand.version]
  /\ hand' = Empty
  /\ UNCHANGED << current, last >>

Next == \E n \in Nodes : Write(n) \/ Take(n) \/ PutBack(n) \/ Publish(n)

Spec == Init /\ [][Next]_storeVars
=============================================================================
