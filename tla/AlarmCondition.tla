--------------------------- MODULE AlarmCondition ---------------------------
(***************************************************************************)
(* What the alarm promises to its clients, without saying in which order a *)
(* handler works.  The condition has four two-state variables; each shows  *)
(* itself in two fields, a text and a Boolean Id.  A handler brings some   *)
(* of the variables to a state; it may treat the fields one by one, in any *)
(* order, other handlers in between, but it treats each of them exactly    *)
(* once before it returns, and it touches nothing else.  An activation     *)
(* begins only while the condition is enabled.                             *)
(***************************************************************************)
CONSTANTS Threads, True, False, Null

States == {"Acked", "Confirmed", "Active", "Enabled"}
Fields == {"Text", "Id"}

(* The state each handler brings the variables it treats to. *)
Effect ==
  [acknowledge |-> [Acked |-> True],
   confirm |-> [Acked |-> True, Confirmed |-> True],
   enabled |-> [Enabled |-> True],
   disable |-> [Enabled |-> False],
   conditionRefresh |-> [s \in {} |-> True],
   timerLoop |-> [Acked |-> False, Confirmed |-> False, Active |-> True],
   startup |-> [Acked |-> True, Confirmed |-> True, Active |-> False, Enabled |-> True]]

VARIABLES field,    \* field[s][f]: what field f of variable s shows
          running,  \* the handler each thread runs, or "idle"
          todo      \* the fields it has still to treat

absVars == << field, running, todo >>

Init ==
  /\ field = [s \in States |-> [f \in Fields |-> Null]]
  /\ running = [t \in Threads |-> "idle"]
  /\ todo = [t \in Threads |-> {}]

Begin(t, o) ==
  /\ running[t] = "idle"
  /\ o = "timerLoop" => field["Enabled"]["Id"] = True
  /\ running' = [running EXCEPT ![t] = o]
  /\ todo' = [todo EXCEPT ![t] = (DOMAIN Effect[o]) \X Fields]
  /\ UNCHANGED field

Treat(t, s, f) ==
  /\ <<s, f>> \in todo[t]
  /\ field' = [field EXCEPT ![s][f] = Effect[running[t]][s]]
  /\ todo' = [todo EXCEPT ![t] = @ \ {<<s, f>>}]
  /\ UNCHANGED running

Return(t) ==
  /\ running[t] # "idle"
  /\ todo[t] = {}
  /\ running' = [running EXCEPT ![t] = "idle"]
  /\ UNCHANGED << field, todo >>

Next ==
  \E t \in Threads :
    \/ \E o \in DOMAIN Effect : Begin(t, o)
    \/ \E s \in States, f \in Fields : Treat(t, s, f)
    \/ Return(t)

Spec == Init /\ [][Next]_absVars
=============================================================================
