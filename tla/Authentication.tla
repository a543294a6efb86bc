--------------------------- MODULE Authentication ---------------------------
(***************************************************************************)
(* Users, sessions and their permissions (Library/Authentication.cpp).     *)
(*                                                                         *)
(* startup registers the callbacks first, then sets the protected values   *)
(* to their defaults, then creates the user profiles, while the server may *)
(* already forward the requests of sessions to the callbacks.  A session   *)
(* keeps the profile authenticationCallback gave it (its user context) and *)
(* autorizationCallback decides from the context, the service and the node.*)
(*                                                                         *)
(* Nodes with the same permissions stand for each other: "Auth.Value" is   *)
(* one of the five variables, "Auth.Object" one of the five objects of     *)
(* the namespace, "elsewhere" any other node.                              *)
(***************************************************************************)
EXTENDS Naturals

CONSTANTS Sessions,
          NoContext    \* the null user context

Users == {"user1", "user2", "user3", "user4", "user5", "user6"}

ASSUME NoContextAssumption == NoContext \notin Users

Creation == << "user1", "user2", "user3", "user4", "user5", "user6" >>
NumUsers == 6
NumValues == 5

Nodes == {"Auth.Value", "Auth.Object", "elsewhere"}
Operations == {"Read", "Write", "HRead", "HWrite", "MonitoredItem", "EventItem", "Method"}

(* An attribute other than the value matters to the service Read only. *)
Attributes == {"Value", "other"}

Tokens ==
  [type : {"anonymous", "x509", "unknown"}]
    \cup [type : {"username"}, user : Users \cup {"stranger"},
          password : {"right", "wrong", "empty"}]

-----------------------------------------------------------------------------
(* createUserProfiles: the one service each user is denied, and where. *)

Profile(operation, nodes) == [operation |-> operation, nodes |-> nodes]

Profiles ==
  [user1 |-> Profile("Read", {"Auth.Value"}),
   user2 |-> Profile("Write", {"Auth.Value"}),
   user3 |-> Profile("MonitoredItem", {"Auth.Value"}),
   user4 |-> Profile("EventItem", {"AuthObject"}),
   user5 |-> Profile("HRead", {"Auth.Value"}),
   user6 |-> Profile("HWrite", {"Auth.Value"})]

-----------------------------------------------------------------------------
VARIABLES main,        \* where startup stands
          registered,  \* the three callbacks are in force
          valuesSet,   \* how many of the five values have their default
          created,     \* userProfileMap_: how many profiles have been inserted
          session,     \* "closed" or "open"
          context,     \* the user context of each session
          decision     \* history: the last request of each session and its answer

vars == << main, registered, valuesSet, created, session, context, decision >>

NoDecision == [operation |-> "none"]

Init ==
  /\ main = "getNamespaceInfo"
  /\ registered = FALSE
  /\ valuesSet = 0
  /\ created = 0
  /\ session = [s \in Sessions |-> "closed"]
  /\ context = [s \in Sessions |-> NoContext]
  /\ decision = [s \in Sessions |-> NoDecision]

-----------------------------------------------------------------------------
(* Startup                                                                 *)

getNamespaceInfo ==
  /\ main = "getNamespaceInfo"
  /\ main' \in {"registerAuthenticationCallback", "failed"}
  /\ UNCHANGED << registered, valuesSet, created >>

registerAuthenticationCallback ==
  /\ main = "registerAuthenticationCallback"
  /\ registered' \in BOOLEAN
  /\ main' = IF registered' THEN "getRefFromResponse" ELSE "failed"
  /\ UNCHANGED << valuesSet, created >>

(* All references must be good before any value is set. *)
getRefFromResponse ==
  /\ main = "getRefFromResponse"
  /\ main' \in {"setValuesToDefault", "failed"}
  /\ UNCHANGED << registered, valuesSet, created >>

(* Mutant: a node that is gone is skipped. *)
setValueSkipped ==
  /\ main = "setValuesToDefault"
  /\ \/ valuesSet < NumValues /\ valuesSet' = valuesSet + 1 /\ main' = main
     \/ valuesSet' = valuesSet /\ main' = "createUserProfiles"
  /\ UNCHANGED << registered, created >>

(* The values are set one by one; a node that is gone ends startup. *)
setValuesToDefault ==
  /\ main = "setValuesToDefault"
  /\ \/ valuesSet < NumValues /\ valuesSet' = valuesSet + 1 /\ main' = main
     \/ valuesSet < NumValues /\ valuesSet' = valuesSet /\ main' = "failed"
     \/ valuesSet = NumValues /\ valuesSet' = valuesSet /\ main' = "createUserProfiles"
  /\ UNCHANGED << registered, created >>

(* Mutant: one profile too many. *)
createUserProfileTooMany ==
  /\ main = "createUserProfiles"
  /\ \/ created <= NumUsers /\ created' = created + 1 /\ main' = main
     \/ created > NumUsers /\ created' = created /\ main' = "started"
  /\ UNCHANGED << registered, valuesSet >>

createUserProfiles ==
  /\ main = "createUserProfiles"
  /\ \/ created < NumUsers /\ created' = created + 1 /\ main' = main
     \/ created = NumUsers /\ created' = created /\ main' = "started"
  /\ UNCHANGED << registered, valuesSet >>

Startup ==
  /\ \/ getNamespaceInfo \/ registerAuthenticationCallback \/ getRefFromResponse
     \/ setValuesToDefault \/ createUserProfiles
  /\ UNCHANGED << session, context, decision >>

-----------------------------------------------------------------------------
(* The callbacks                                                           *)

Known(user) == \E i \in 1..created : Creation[i] = user

Authenticated(token) ==
  \/ token.type \in {"anonymous", "x509"}
  \/ /\ token.type = "username"
     /\ Known(token.user)
     /\ token.password = "right"

ContextOf(token) == IF token.type = "username" THEN token.user ELSE NoContext

(* A session is opened, or an open session changes its user; a refused token
   leaves it as it is. *)
authenticationCallback(s, token) ==
  /\ registered
  /\ Authenticated(token)
  /\ session' = [session EXCEPT ![s] = "open"]
  /\ context' = [context EXCEPT ![s] = ContextOf(token)]
  /\ decision' = [decision EXCEPT ![s] = NoDecision]
  /\ UNCHANGED << main, registered, valuesSet, created >>

(* Mutant: the attribute is not looked at. *)
NotAllowedAnyAttribute(user, operation, node, attribute) ==
  /\ user # NoContext
  /\ Profiles[user].operation = operation
  /\ node \in Profiles[user].nodes

NotAllowed(user, operation, node, attribute) ==
  /\ user # NoContext
  /\ Profiles[user].operation = operation
  /\ node \in Profiles[user].nodes
  /\ operation = "Read" => attribute = "Value"

autorizationCallback(s, operation, node, attribute) ==
  /\ registered
  /\ session[s] = "open"
  /\ decision' = [decision EXCEPT ![s] =
       [operation |-> operation, node |-> node, attribute |-> attribute,
        status |-> IF NotAllowed(context[s], operation, node, attribute)
                     THEN "BadUserAccessDenied" ELSE "Success"]]
  /\ UNCHANGED << main, registered, valuesSet, created, session, context >>

(* closeSessionCallback only logs; the server drops the session. *)
closeSessionCallback(s) ==
  /\ registered
  /\ session[s] = "open"
  /\ session' = [session EXCEPT ![s] = "closed"]
  /\ context' = [context EXCEPT ![s] = NoContext]
  /\ decision' = [decision EXCEPT ![s] = NoDecision]
  /\ UNCHANGED << main, registered, valuesSet, created >>

-----------------------------------------------------------------------------
Next ==
  \/ Startup
  \/ \E s \in Sessions :
       \/ \E token \in Tokens : authenticationCallback(s, token)
       \/ \E o \in Operations, n \in Nodes, a \in Attributes : autorizationCallback(s, o, n, a)
       \/ closeSessionCallback(s)

Spec == Init /\ [][Next]_vars

-----------------------------------------------------------------------------
(* Properties                                                              *)

MainStates == {"getNamespaceInfo", "registerAuthenticationCallback", "getRefFromResponse",
               "setValuesToDefault", "createUserProfiles", "started", "failed"}

TypeOK ==
  /\ main \in MainStates
  /\ registered \in BOOLEAN
  /\ valuesSet \in 0..NumValues
  /\ created \in 0..NumUsers
  /\ session \in [Sessions -> {"open", "closed"}]
  /\ context \in [Sessions -> Users \cup {NoContext}]

(* However early requests arrive, a session has a named user only when all
   protected values hold their defaults: startup creates the profiles last,
   and a startup that has failed admits no named user at all. *)
NamedUserSeesDefaults ==
  \A s \in Sessions :
    context[s] # NoContext => valuesSet = NumValues /\ main # "failed"

(* The answers to a named user are those of the comments of createUserProfiles,
   which name one service each: "user1 cannot read variables" (line 245), "user2
   can not write variables" (256), "user3 can not monitor variables" (267),
   "user5 can not read historical values" (289), "user6can not write
   historical values" (300). *)
Denied == [user1 |-> "Read", user2 |-> "Write", user3 |-> "MonitoredItem",
           user5 |-> "HRead", user6 |-> "HWrite"]

VariablesProtected ==
  \A s \in Sessions :
    decision[s] # NoDecision /\ context[s] \in DOMAIN Denied =>
      LET d == decision[s] IN
        d.status = "BadUserAccessDenied" <=>
          /\ d.operation = Denied[context[s]]
          /\ d.node = "Auth.Value"
          /\ d.operation = "Read" => d.attribute = "Value"

(* "user4 cannot receive events from objects" (Authentication.cpp:278). *)
EventsDenied ==
  \A s \in Sessions :
    decision[s] # NoDecision /\ context[s] = "user4" =>
      LET d == decision[s] IN
        d.operation = "EventItem" /\ d.node = "Auth.Object" => d.status = "BadUserAccessDenied"
=============================================================================
