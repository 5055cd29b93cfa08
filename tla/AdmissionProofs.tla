--------------------------- MODULE AdmissionProofs ---------------------------
(***************************************************************************)
(* That every request is accounted for, and that filters, router and       *)
(* handlers together keep what AccessControl promises, for any number of   *)
(* requests and users.                                                     *)
(***************************************************************************)
EXTENDS Admission, TLAPS

USE AdmissionAssumption

\* No binding is anybody's but a user's.
LEMMA NobodyHasAccess == AdmissionTypeOK => ~HasAccess(NoUser)
BY DEF AdmissionTypeOK, HasAccess

\* A step of a request that leaves the bindings alone leaves access alone.
LEMMA AccessStays == \A u : UNCHANGED bindings => (HasAccess(u)' <=> HasAccess(u))
BY DEF HasAccess

\* Each step of a request keeps the types.
LEMMA RequestTypes ==
  ASSUME AdmissionInv, NEW r \in Request, RequestStep(r)
  PROVE  AdmissionTypeOK'
<1> USE DEF AdmissionInv, AdmissionTypeOK, Goes, Answer, Stage, askedVars,
            subjectVars, answerVars, Role, Route
<1>1. CASE Arrive(r)
  BY <1>1 DEF Arrive
<1>2. CASE ExactSubjectAccess(r)
  <2>1. \A u : HasAccess(u) \in BOOLEAN
    BY DEF HasAccess
  <2>2. CASE TokenRead(r)
    BY <2>1, <2>2 DEF TokenRead
  <2>3. CASE TokenBroken(r) \/ NoToken(r)
    BY <2>3 DEF TokenBroken, NoToken
  <2> QED
    BY <1>2, <2>2, <2>3 DEF ExactSubjectAccess
<1>3. CASE AnswerAtOnce(r) \/ Upgrade(r)
  BY <1>3 DEF AnswerAtOnce, Upgrade
<1>4. CASE CheckUserAccess(r)
  BY <1>4 DEF CheckUserAccess
<1>5. CASE SendMessage(r) \/ SendError(r)
  BY <1>5 DEF SendMessage, SendError
<1>6. CASE TerminalEnds(r)
  BY <1>6 DEF TerminalEnds
<1>7. CASE LogRequest(r)
  BY <1>7 DEF LogRequest
<1> QED
  BY <1>1, <1>2, <1>3, <1>4, <1>5, <1>6, <1>7 DEF RequestStep

\* What is known of one request.
Known(r) ==
  /\ stage[r] \in {"off", "filters", "handler"} =>
       answers[r] = 0 /\ conn[r] = "none" /\ told[r] = "none"
  /\ stage[r] \in {"check", "granted", "refused"} =>
       answers[r] = 1 /\ conn[r] = "open" /\ told[r] = "none"
  /\ stage[r] = "terminal" =>
       answers[r] = 1 /\ conn[r] = "open" /\ told[r] = "access"
  /\ stage[r] = "returned" =>
       /\ answers[r] = IF UpgradeBroke(r) THEN 0 ELSE 1
       /\ conn[r] = "none" => told[r] = "none"
       /\ conn[r] = "open" => told[r] = "error" \/ (told[r] = "access" /\ route[r] = "user")
       /\ UpgradeBroke(r) => route[r] \in Terminals
  /\ held[r] => subject[r] # NoUser
  /\ subject[r] # NoUser /\ HasAccess(subject[r]) => held[r]
  /\ stage[r] = "granted" => held[r]
  /\ stage[r] \in {"off", "filters"} => subject[r] = NoUser

\* The invariant is about each request by itself.
LEMMA KnownIsInv ==
  AdmissionInv <=> AdmissionTypeOK /\ \A r \in Request : Known(r)
BY DEF AdmissionInv, StageInv, SubjectInv, Accounted, Known, UpgradeBroke

\* A request's own step keeps what is known of it ...
LEMMA OwnStepKeeps ==
  ASSUME AdmissionInv, NEW r \in Request, RequestStep(r)
  PROVE  Known(r)'
<1>0. Known(r) /\ AdmissionTypeOK
  BY KnownIsInv
<1>1. \A u : UNCHANGED bindings => (HasAccess(u)' <=> HasAccess(u))
  BY AccessStays
<1> USE <1>0 DEF Known, UpgradeBroke, AdmissionTypeOK, Goes, Answer, askedVars,
                 subjectVars, answerVars
<1>2. CASE Arrive(r)
  BY <1>1, <1>2 DEF Arrive
<1>3. CASE ExactSubjectAccess(r)
  BY <1>1, <1>3 DEF ExactSubjectAccess, TokenRead, TokenBroken, NoToken
<1>4. CASE AnswerAtOnce(r) \/ Upgrade(r)
  BY <1>1, <1>4 DEF AnswerAtOnce, Upgrade
<1>5. CASE CheckUserAccess(r)
  BY <1>1, <1>5 DEF CheckUserAccess
<1>6. CASE SendMessage(r) \/ SendError(r)
  BY <1>1, <1>6 DEF SendMessage, SendError
<1>7. CASE TerminalEnds(r) \/ LogRequest(r)
  BY <1>1, <1>7 DEF TerminalEnds, LogRequest
<1> QED
  BY <1>2, <1>3, <1>4, <1>5, <1>6, <1>7 DEF RequestStep

\* ... and what is known of the others.
LEMMA OtherStepsKeep ==
  ASSUME AdmissionInv, NEW r \in Request, RequestStep(r),
         NEW q \in Request, q # r
  PROVE  Known(q)'
<1>1. /\ stage'[q] = stage[q] /\ route'[q] = route[q]
      /\ subject'[q] = subject[q] /\ held'[q] = held[q]
      /\ answers'[q] = answers[q] /\ conn'[q] = conn[q] /\ told'[q] = told[q]
  BY DEF AdmissionInv, AdmissionTypeOK, RequestStep, Arrive, ExactSubjectAccess,
         TokenRead, TokenBroken, NoToken, AnswerAtOnce, Upgrade, CheckUserAccess,
         SendMessage, SendError, TerminalEnds, LogRequest, Goes, Answer,
         askedVars, subjectVars, answerVars
<1>2. UNCHANGED bindings
  BY DEF RequestStep, Arrive, ExactSubjectAccess, TokenRead, TokenBroken, NoToken,
         AnswerAtOnce, Upgrade, CheckUserAccess, SendMessage, SendError,
         TerminalEnds, LogRequest, Goes
<1>3. \A u : HasAccess(u)' <=> HasAccess(u)
  BY <1>2, AccessStays
<1>4. Known(q)
  BY KnownIsInv
<1> QED
  BY <1>1, <1>3, <1>4 DEF Known, UpgradeBroke

\* A binding made gives a role to whom it names; one taken away takes back
\* nothing that was held.
LEMMA BindingsKeep ==
  ASSUME AdmissionInv, BindingsChange
  PROVE  AdmissionInv'
<1>1. AdmissionTypeOK'
  BY DEF AdmissionInv, AdmissionTypeOK, BindingsChange, askedVars, answerVars,
         HasAccess
<1>2. ~HasAccess(NoUser)'
  BY <1>1 DEF AdmissionTypeOK, HasAccess
<1>3. ASSUME NEW r \in Request PROVE Known(r)'
  <2>1. Known(r) /\ AdmissionTypeOK
    BY KnownIsInv
  <2>2. /\ UNCHANGED <<stage, route, subject, answers, conn, told>>
        /\ held'[r] = (held[r] \/ HasAccess(subject[r])')
    BY DEF BindingsChange, askedVars, answerVars
  <2>3. subject'[r] = NoUser => ~HasAccess(subject[r])'
    BY <1>2, <2>2 DEF HasAccess
  <2> QED
    BY <2>1, <2>2, <2>3 DEF Known, UpgradeBroke
<1> QED
  <2>1. (AdmissionInv <=> AdmissionTypeOK /\ \A r \in Request : Known(r))'
    BY DEF AdmissionInv, StageInv, SubjectInv, Accounted, Known
  <2> QED
    BY <1>1, <1>3, <2>1

\* Why the filters, the router and the handlers do what they promise is
\* inductive, request by request (accesssubjuct.go, 38-62; handler.go, 59-146).
THEOREM AdmissionInductive == AdmissionSpec => []AdmissionInv
<1>1. AdmissionInit => AdmissionInv
  <2>1. ASSUME AdmissionInit PROVE AdmissionTypeOK
    BY <2>1 DEF AdmissionInit, AdmissionTypeOK, Constantly, Stage, Route
  <2>2. ASSUME AdmissionInit PROVE \A r \in Request : Known(r)
    BY <2>2 DEF AdmissionInit, Constantly, Known
  <2> QED
    BY <2>1, <2>2, KnownIsInv
<1>2. AdmissionInv /\ [AdmissionNext]_admissionVars => AdmissionInv'
  <2> SUFFICES ASSUME AdmissionInv, [AdmissionNext]_admissionVars
               PROVE  AdmissionInv'
    OBVIOUS
  <2>1. ASSUME NEW r \in Request, RequestStep(r) PROVE AdmissionInv'
    <3>1. \A q \in Request : Known(q)'
      BY <2>1, OwnStepKeeps, OtherStepsKeep
    <3>2. (AdmissionInv <=> AdmissionTypeOK /\ \A q \in Request : Known(q))'
      BY DEF AdmissionInv, StageInv, SubjectInv, Accounted, Known
    <3> QED
      BY <2>1, <3>1, <3>2, RequestTypes
  <2>2. CASE BindingsChange
    BY <2>2, BindingsKeep
  <2>3. CASE UNCHANGED admissionVars
    BY <2>3
    DEF AdmissionInv, AdmissionTypeOK, StageInv, SubjectInv, Accounted,
        UpgradeBroke, HasAccess, admissionVars, requestVars, askedVars,
        subjectVars, answerVars
  <2> QED
    BY <2>1, <2>2, <2>3 DEF AdmissionNext
<1> QED
  BY <1>1, <1>2, PTL DEF AdmissionSpec

\* However many requests come, each is answered once, unless its connection broke
\* in the upgrade, and an upgraded one told once about access, by the time it
\* returns.
THEOREM EachAccounted == AdmissionSpec => []Accounted
<1>1. AdmissionInv => Accounted
  BY DEF AdmissionInv
<1> QED
  BY <1>1, AdmissionInductive, PTL
-----------------------------------------------------------------------------
(* What AccessControl sees of all this. *)

Phases == [r \in Request |-> PhaseOf(r)]

\* A step of one request changes no other's phase.
LEMMA OnePhase ==
  ASSUME AdmissionInv, NEW r \in Request, RequestStep(r)
  PROVE  /\ Phases[r] = PhaseOf(r)
         /\ Phases' = [Phases EXCEPT ![r] = PhaseOf(r)']
<1>1. \A q \in Request : q # r => stage'[q] = stage[q] /\ told'[q] = told[q]
  BY DEF AdmissionInv, AdmissionTypeOK, RequestStep, Arrive, ExactSubjectAccess,
         TokenRead, TokenBroken, NoToken, AnswerAtOnce, Upgrade, CheckUserAccess,
         SendMessage, SendError, TerminalEnds, LogRequest, Goes, answerVars
<1>2. \A q \in Request : q # r => PhaseOf(q)' = PhaseOf(q)
  BY <1>1 DEF PhaseOf
<1> QED
  BY <1>2 DEF Phases

\* Nothing that is not written about access is an admission.
LEMMA PhaseIs ==
  ASSUME AdmissionInv, NEW r \in Request
  PROVE  /\ stage[r] = "off" => PhaseOf(r) = "none"
         /\ stage[r] \in {"filters", "handler", "check", "granted", "refused"} =>
              PhaseOf(r) = "asking" /\ told[r] = "none"
         /\ stage[r] = "terminal" => PhaseOf(r) = "admitted" /\ told[r] = "access"
         /\ stage[r] = "returned" /\ told[r] = "access" => PhaseOf(r) = "admitted"
         /\ stage[r] = "returned" /\ told[r] # "access" => PhaseOf(r) = "turnedAway"
BY DEF AdmissionInv, StageInv, PhaseOf

\* Each step of a request is a step of AccessControl, or none of its business.
LEMMA RequestImplements ==
  ASSUME AdmissionInv, NEW r \in Request, RequestStep(r)
  PROVE  [A!AccessNext]_(A!accessVars)
<1>0. AdmissionInv'
  BY OwnStepKeeps, OtherStepsKeep, RequestTypes
  DEF AdmissionInv, StageInv, SubjectInv, Accounted, Known
<1>1. /\ Phases[r] = PhaseOf(r)
      /\ Phases' = [Phases EXCEPT ![r] = PhaseOf(r)']
  BY OnePhase
<1>2. /\ stage \in [Request -> Stage] /\ held \in [Request -> BOOLEAN]
      /\ told \in [Request -> {"none", "access", "error"}]
      /\ held' \in [Request -> BOOLEAN]
  BY <1>0 DEF AdmissionInv, AdmissionTypeOK
<1>a. PhaseOf(r)' = PhaseOf(r) => UNCHANGED Phases
  BY <1>1 DEF Phases
<1>b. /\ stage'[r] = "off" => PhaseOf(r)' = "none"
      /\ stage'[r] \in {"filters", "handler", "check", "granted", "refused"} =>
           PhaseOf(r)' = "asking"
      /\ stage'[r] = "terminal" => PhaseOf(r)' = "admitted"
      /\ stage'[r] = "returned" /\ told'[r] = "access" => PhaseOf(r)' = "admitted"
      /\ stage'[r] = "returned" /\ told'[r] # "access" => PhaseOf(r)' = "turnedAway"
  BY <1>0 DEF PhaseOf
<1> USE DEF Goes, answerVars, subjectVars
<1>3. CASE Arrive(r)
  <2>1. PhaseOf(r) = "none" /\ PhaseOf(r)' = "asking" /\ UNCHANGED held
    BY <1>2, <1>3, <1>b, PhaseIs DEF Arrive
  <2> QED
    BY <1>1, <2>1 DEF Phases, A!AccessNext, A!Ask, A!Move
<1>4. CASE TokenRead(r)
  <2>1. UNCHANGED Phases
    BY <1>2, <1>4, <1>a, <1>b, PhaseIs DEF TokenRead
  <2>2. ~held[r]
    BY <1>2, <1>4 DEF TokenRead, AdmissionInv, SubjectInv
  <2>3. \A q \in Request : held[q] => held'[q]
    BY <1>2, <1>4, <2>2 DEF TokenRead
  <2> QED
    BY <1>2, <2>1, <2>3 DEF Phases, A!AccessNext, A!Hold
<1>5. CASE TokenBroken(r) \/ AnswerAtOnce(r) \/ SendError(r)
  <2>1. PhaseOf(r) = "asking" /\ PhaseOf(r)' = "turnedAway" /\ UNCHANGED held
    BY <1>2, <1>5, <1>b, PhaseIs DEF TokenBroken, AnswerAtOnce, SendError
  <2> QED
    BY <1>1, <2>1 DEF Phases, A!AccessNext, A!Refuse, A!Move
<1>6. CASE NoToken(r) \/ CheckUserAccess(r) \/ TerminalEnds(r)
  <2>1. UNCHANGED <<Phases, held>>
    BY <1>2, <1>6, <1>a, <1>b, PhaseIs DEF NoToken, CheckUserAccess, TerminalEnds
  <2> QED
    BY <2>1 DEF Phases, A!accessVars
<1>7. CASE Upgrade(r)
  <2>1. PhaseOf(r) = "asking" /\ PhaseOf(r)' \in {"asking", "turnedAway"}
        /\ UNCHANGED held
    BY <1>2, <1>7, <1>b, PhaseIs DEF Upgrade
  <2>2. CASE PhaseOf(r)' = "asking"
    BY <1>a, <2>1, <2>2 DEF Phases, A!accessVars
  <2>3. CASE PhaseOf(r)' = "turnedAway"
    BY <1>1, <2>1, <2>3 DEF Phases, A!AccessNext, A!Refuse, A!Move
  <2> QED
    BY <2>1, <2>2, <2>3
<1>8. CASE SendMessage(r)
  <2>1. PhaseOf(r) = "asking" /\ PhaseOf(r)' = "admitted" /\ UNCHANGED held
    BY <1>2, <1>8, <1>b, PhaseIs DEF SendMessage
  <2>2. held[r]
    BY <1>8 DEF SendMessage, AdmissionInv, SubjectInv
  <2> QED
    BY <1>1, <2>1, <2>2 DEF Phases, A!AccessNext, A!Admit, A!Move
<1>9. CASE LogRequest(r)
  <2>1. PhaseOf(r) \in {"admitted", "turnedAway"} /\ PhaseOf(r)' = "none"
    BY <1>2, <1>9, <1>b, PhaseIs DEF LogRequest
  <2>2. held' = [held EXCEPT ![r] = FALSE]
    BY <1>9 DEF LogRequest
  <2> QED
    BY <1>1, <2>1, <2>2 DEF Phases, A!AccessNext, A!Leave, A!Move
<1> QED
  BY <1>3, <1>4, <1>5, <1>6, <1>7, <1>8, <1>9 DEF RequestStep, ExactSubjectAccess

\* A binding made or taken away is a role held from now on, or nothing.
LEMMA BindingsImplement ==
  ASSUME AdmissionInv, BindingsChange
  PROVE  A!AccessNext
<1>1. \A r \in Request : PhaseOf(r)' = PhaseOf(r)
  BY DEF BindingsChange, answerVars, PhaseOf
<1>2. held' \in [Request -> BOOLEAN]
  BY BindingsKeep DEF AdmissionInv, AdmissionTypeOK
<1>3. \A r \in Request : held[r] => held'[r]
  BY DEF BindingsChange
<1> QED
  BY <1>1, <1>2, <1>3 DEF A!AccessNext, A!Hold

\* Filters, router, handlers and the cluster's bindings together keep what
\* AccessControl promises: a request is decided once, and for a terminal only
\* if its user held a role since the token was read.
THEOREM AccessImplemented == AdmissionSpec => ImplementsAccess
<1>1. AdmissionInit => A!AccessInit
  BY DEF AdmissionInit, Constantly, PhaseOf, A!AccessInit
<1>2. AdmissionInv /\ [AdmissionNext]_admissionVars => [A!AccessNext]_(A!accessVars)
  <2> SUFFICES ASSUME AdmissionInv, [AdmissionNext]_admissionVars
               PROVE  [A!AccessNext]_(A!accessVars)
    OBVIOUS
  <2>1. CASE \E r \in Request : RequestStep(r)
    BY <2>1, RequestImplements
  <2>2. CASE BindingsChange
    BY <2>2, BindingsImplement
  <2>3. CASE UNCHANGED admissionVars
    BY <2>3 DEF admissionVars, requestVars, subjectVars, answerVars, PhaseOf,
                A!accessVars
  <2> QED
    BY <2>1, <2>2, <2>3 DEF AdmissionNext
<1> QED
  BY <1>1, <1>2, AdmissionInductive, PTL DEF AdmissionSpec, ImplementsAccess,
                                             A!AccessSpec
=============================================================================
