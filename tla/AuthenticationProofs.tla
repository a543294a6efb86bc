------------------------ MODULE AuthenticationProofs ------------------------
(***************************************************************************)
(* Theorems about Authentication for any set of sessions, whenever their   *)
(* requests arrive while startup runs, succeeds or fails.                  *)
(***************************************************************************)
EXTENDS Authentication, TLAPS

-----------------------------------------------------------------------------
(* Users                                                                   *)

(* Every profile belongs to one of the users of the table. *)
LEMMA CreationUsers == \A i \in 1..NumUsers : Creation[i] \in Users
<1> SUFFICES ASSUME NEW i \in 1..NumUsers PROVE Creation[i] \in Users
  OBVIOUS
<1>1. i \in {1, 2, 3, 4, 5, 6}
  BY DEF NumUsers
<1> QED
  BY <1>1 DEF Creation, Users

(* Only a user whose profile has been created is authenticated by name, and
   becomes the context of the session. *)
LEMMA NamedIsKnown ==
  ASSUME NEW token \in Tokens, created \in 0..NumUsers, Authenticated(token)
  PROVE  /\ ContextOf(token) \in Users \cup {NoContext}
         /\ ContextOf(token) # NoContext => created > 0
<1>1. CASE token.type = "username"
  <2>1. Known(token.user) /\ ContextOf(token) = token.user
    BY <1>1 DEF Authenticated, ContextOf
  <2>2. PICK i \in 1..created : Creation[i] = token.user
    BY <2>1 DEF Known
  <2>3. created > 0 /\ i \in 1..NumUsers
    BY <2>2 DEF NumUsers
  <2> QED
    BY <2>1, <2>2, <2>3, CreationUsers
<1>2. CASE token.type # "username"
  BY <1>2 DEF ContextOf
<1> QED
  BY <1>1, <1>2

-----------------------------------------------------------------------------
(* The inductive invariant                                                 *)

Answers ==
  [operation : Operations, node : Nodes, attribute : Attributes,
   status : {"BadUserAccessDenied", "Success"}]

(* A request whose answer is kept was answered from the user context that the
   session still has. *)
Answered(s) ==
  /\ decision[s] \in Answers
  /\ decision[s].status = "BadUserAccessDenied" <=>
       NotAllowed(context[s], decision[s].operation, decision[s].node, decision[s].attribute)

(* A user is known once its profile is in the map, and the first profile is
   created only when the last value has been set; from then on nothing in
   startup can fail.  NamedUserSeesDefaults alone is not inductive: it does
   not say that the failure is behind. *)
AuthInv ==
  /\ TypeOK
  /\ created > 0 => main \in {"createUserProfiles", "started"}
  /\ main \in {"createUserProfiles", "started"} => valuesSet = NumValues
  /\ \A s \in Sessions : context[s] # NoContext => created > 0
  /\ DOMAIN decision = Sessions
  /\ \A s \in Sessions : decision[s] = NoDecision \/ Answered(s)

LEMMA InitAuth == Init => AuthInv
<1> SUFFICES ASSUME Init PROVE AuthInv
  OBVIOUS
<1>1. TypeOK
  <2>1. 0 \in 0..NumValues /\ 0 \in 0..NumUsers
    BY DEF NumValues, NumUsers
  <2>2. /\ session \in [Sessions -> {"open", "closed"}]
        /\ context \in [Sessions -> Users \cup {NoContext}]
    BY DEF Init
  <2> QED
    BY <2>1, <2>2 DEF Init, TypeOK, MainStates
<1>2. \A s \in Sessions : context[s] = NoContext /\ decision[s] = NoDecision
  BY DEF Init
<1> QED
  BY <1>1, <1>2 DEF Init, AuthInv

(* Startup leaves the sessions alone. *)
LEMMA StartupAuth == AuthInv /\ Startup => AuthInv'
<1> SUFFICES ASSUME AuthInv, Startup PROVE AuthInv'
  OBVIOUS
<1>1. UNCHANGED << session, context, decision >>
  BY DEF Startup
<1>2. /\ main' \in MainStates /\ registered' \in BOOLEAN
      /\ valuesSet' \in 0..NumValues /\ created' \in 0..NumUsers
      /\ created' > 0 => main' \in {"createUserProfiles", "started"}
      /\ main' \in {"createUserProfiles", "started"} => valuesSet' = NumValues
      /\ created > 0 => created' > 0
  BY DEF AuthInv, TypeOK, Startup, getNamespaceInfo, registerAuthenticationCallback,
     getRefFromResponse, setValuesToDefault, createUserProfiles, MainStates, NumValues, NumUsers
<1>3. TypeOK'
  BY <1>1, <1>2 DEF AuthInv, TypeOK
<1>4. \A s \in Sessions : context'[s] # NoContext => created' > 0
  BY <1>1, <1>2 DEF AuthInv
<1>5. \A s \in Sessions : decision'[s] = NoDecision \/ Answered(s)'
  BY <1>1 DEF AuthInv, Answered
<1> QED
  BY <1>1, <1>2, <1>3, <1>4, <1>5 DEF AuthInv

LEMMA NextAuth == AuthInv /\ [Next]_vars => AuthInv'
<1> SUFFICES ASSUME AuthInv, [Next]_vars PROVE AuthInv'
  OBVIOUS
<1>1. CASE Startup
  BY <1>1, StartupAuth
<1>2. ASSUME NEW s \in Sessions, NEW token \in Tokens, authenticationCallback(s, token)
      PROVE  AuthInv'
  <2>1. /\ UNCHANGED << main, registered, valuesSet, created >>
        /\ session' = [session EXCEPT ![s] = "open"]
        /\ context' = [context EXCEPT ![s] = ContextOf(token)]
        /\ decision' = [decision EXCEPT ![s] = NoDecision]
    BY <1>2 DEF authenticationCallback
  <2>2. /\ ContextOf(token) \in Users \cup {NoContext}
        /\ ContextOf(token) # NoContext => created > 0
    BY <1>2, NamedIsKnown DEF authenticationCallback, AuthInv, TypeOK
  <2>3. TypeOK'
    BY <2>1, <2>2 DEF AuthInv, TypeOK
  <2>4. \A r \in Sessions : context'[r] # NoContext => created' > 0
    BY <2>1, <2>2 DEF AuthInv, TypeOK
  <2>5. \A r \in Sessions : decision'[r] = NoDecision \/ Answered(r)'
    BY <2>1 DEF AuthInv, TypeOK, Answered
  <2> QED
    BY <2>1, <2>3, <2>4, <2>5 DEF AuthInv
<1>3. ASSUME NEW s \in Sessions, NEW o \in Operations, NEW n \in Nodes, NEW a \in Attributes,
             autorizationCallback(s, o, n, a)
      PROVE  AuthInv'
  <2> DEFINE d == [operation |-> o, node |-> n, attribute |-> a,
                   status |-> IF NotAllowed(context[s], o, n, a)
                                THEN "BadUserAccessDenied" ELSE "Success"]
  <2>1. /\ UNCHANGED << main, registered, valuesSet, created, session, context >>
        /\ decision' = [decision EXCEPT ![s] = d]
    BY <1>3 DEF autorizationCallback
  <2>2. d \in Answers /\ d.operation = o /\ d.node = n /\ d.attribute = a
    BY DEF Answers
  <2>3. d.status = "BadUserAccessDenied" <=> NotAllowed(context[s], o, n, a)
    OBVIOUS
  <2> HIDE DEF d
  <2>4. \A r \in Sessions : decision'[r] = NoDecision \/ Answered(r)'
    <3> SUFFICES ASSUME NEW r \in Sessions PROVE decision'[r] = NoDecision \/ Answered(r)'
      OBVIOUS
    <3>1. CASE r = s
      <4>1. decision'[r] = d /\ context'[r] = context[s]
        BY <2>1, <3>1 DEF AuthInv
      <4> QED
        BY <2>2, <2>3, <4>1 DEF Answered, NotAllowed
    <3>2. CASE r # s
      <4>1. decision'[r] = decision[r] /\ context'[r] = context[r]
        BY <2>1, <3>2 DEF AuthInv
      <4> QED
        BY <4>1 DEF AuthInv, Answered, NotAllowed
    <3> QED
      BY <3>1, <3>2
  <2> QED
    BY <2>1, <2>4 DEF AuthInv, TypeOK
<1>4. ASSUME NEW s \in Sessions, closeSessionCallback(s)
      PROVE  AuthInv'
  <2>1. /\ UNCHANGED << main, registered, valuesSet, created >>
        /\ session' = [session EXCEPT ![s] = "closed"]
        /\ context' = [context EXCEPT ![s] = NoContext]
        /\ decision' = [decision EXCEPT ![s] = NoDecision]
    BY <1>4 DEF closeSessionCallback
  <2>2. \A r \in Sessions : decision'[r] = NoDecision \/ Answered(r)'
    BY <2>1 DEF AuthInv, TypeOK, Answered
  <2> QED
    BY <2>1, <2>2 DEF AuthInv, TypeOK
<1>5. CASE UNCHANGED vars
  BY <1>5 DEF vars, AuthInv, TypeOK, Answered
<1> QED
  BY <1>1, <1>2, <1>3, <1>4, <1>5 DEF Next

LEMMA AlwaysAuth == Spec => []AuthInv
BY InitAuth, NextAuth, PTL DEF Spec

-----------------------------------------------------------------------------
(* Every variable of Authentication keeps its type: no more profiles are
   created than users, no more values set than there are. *)
THEOREM AuthTypeCorrect == Spec => []TypeOK
<1>1. AuthInv => TypeOK
  BY DEF AuthInv
<1> QED
  BY AlwaysAuth, <1>1, PTL

(* However early the sessions' requests arrive, and wherever startup fails, a
   session has a named user only when all protected values hold their
   defaults. *)
THEOREM NamedUsersSeeDefaults == Spec => []NamedUserSeesDefaults
<1>1. AuthInv => NamedUserSeesDefaults
  BY DEF AuthInv, TypeOK, NamedUserSeesDefaults
<1> QED
  BY AlwaysAuth, <1>1, PTL

(* autorizationCallback answers every named user but user4 as the comments of
   createUserProfiles say. *)
THEOREM VariablesAlwaysProtected == Spec => []VariablesProtected
<1>1. AuthInv => VariablesProtected
  <2> SUFFICES ASSUME AuthInv, NEW s \in Sessions, decision[s] # NoDecision,
                      context[s] \in DOMAIN Denied
               PROVE  decision[s].status = "BadUserAccessDenied" <=>
                        /\ decision[s].operation = Denied[context[s]]
                        /\ decision[s].node = "Auth.Value"
                        /\ decision[s].operation = "Read" => decision[s].attribute = "Value"
    BY DEF VariablesProtected
  <2>1. context[s] # NoContext
    BY NoContextAssumption DEF Denied, Users
  <2>2. /\ Profiles[context[s]].operation = Denied[context[s]]
        /\ Profiles[context[s]].nodes = {"Auth.Value"}
    BY DEF Denied, Profiles, Profile
  <2>3. Answered(s)
    BY DEF AuthInv
  <2> QED
    BY <2>1, <2>2, <2>3 DEF Answered, NotAllowed
<1> QED
  BY AlwaysAuth, <1>1, PTL
=============================================================================
