----------------------------- MODULE Admission -----------------------------
(***************************************************************************)
(* pkg/apis/webterminal/v1: a request on its way through the two filters,  *)
(* the router and the handlers, up to the terminal it may get, while role  *)
(* bindings change.  Each request has a goroutine of its own, cut at its   *)
(* calls.  What happens in the terminal is UserTerminal's and Window's     *)
(* business; here it only ends.                                            *)
(***************************************************************************)
EXTENDS Naturals

CONSTANTS
  Request,  \* requests that may be served at the same time
  User,
  NoUser    \* what a request without a token is from

ASSUME AdmissionAssumption == NoUser \notin User

VARIABLES
  stage,     \* how far the request is
  route,     \* the route it matches
  owner,     \* the user in the path of a user terminal
  subject,   \* the context's "user"
  bindings,  \* the cluster's role bindings, by the names that matter
  held,      \* has the subject had one of them since the token was read?
  answers,   \* how many answers were written, handshakes included
  conn,      \* the upgraded connection
  told       \* what was written to it about access

askedVars == <<route, owner>>
subjectVars == <<subject, held>>
answerVars == <<answers, conn, told>>
requestVars == <<stage, askedVars, subjectVars, answerVars>>
admissionVars == <<requestVars, bindings>>

\* In "granted" and "refused" the list is read, and nobody told.
Stage == { "off", "filters", "handler", "check", "granted", "refused",
           "terminal", "returned" }
Role == {"platform-admin", "cluster-admin"}
Route == {"hello", "pod", "user", "none"}
Terminals == {"pod", "user"}

\* A binding is known by its name, the user's and the role's joined by "-".
\* No two pairs have the same name: neither role's name ends in the other's.
HasAccess(u) == \E role \in Role : <<u, role>> \in bindings

Constantly(x) == [r \in Request |-> x]

AdmissionTypeOK ==
  /\ stage \in [Request -> Stage]
  /\ route \in [Request -> Route]
  /\ owner \in [Request -> User]
  /\ subject \in [Request -> User \cup {NoUser}]
  /\ bindings \subseteq User \X Role
  /\ held \in [Request -> BOOLEAN]
  /\ answers \in [Request -> Nat]
  /\ conn \in [Request -> {"none", "open", "closed"}]
  /\ told \in [Request -> {"none", "access", "error"}]

AdmissionInit ==
  /\ stage = Constantly("off")
  /\ route = Constantly("none") /\ owner \in [Request -> User]
  /\ subject = Constantly(NoUser) /\ held = Constantly(FALSE)
  /\ answers = Constantly(0)
  /\ conn = Constantly("none") /\ told = Constantly("none")
  /\ bindings \in SUBSET (User \X Role)
-----------------------------------------------------------------------------
Goes(r, from, to) ==
  /\ stage[r] = from
  /\ stage' = [stage EXCEPT ![r] = to]
  /\ UNCHANGED bindings

\* Something is written to the restful.Response, or by the upgrade.
Answer(r) == answers' = [answers EXCEPT ![r] = @ + 1]

\* RecordAccessLogs, up to ProcessFilter.
Arrive(r) ==
  /\ Goes(r, "off", "filters")
  /\ \E rt \in Route : route' = [route EXCEPT ![r] = rt]
  /\ \E u \in User : owner' = [owner EXCEPT ![r] = u]
  /\ UNCHANGED <<subjectVars, answerVars>>

\* getSubject: the user a token names goes into the request's context.
TokenRead(r) ==
  /\ Goes(r, "filters", "handler")
  /\ \E u \in User : /\ subject' = [subject EXCEPT ![r] = u]
                     /\ held' = [held EXCEPT ![r] = HasAccess(u)]
  /\ UNCHANGED <<askedVars, answerVars>>

\* Faulty: the filter answers and goes on.
AnswerAndGoOn(r) ==
  /\ Goes(r, "filters", "handler")
  /\ Answer(r)
  /\ UNCHANGED <<askedVars, subjectVars, conn, told>>

TokenBroken(r) ==
  /\ Goes(r, "filters", "returned")
  /\ Answer(r)
  /\ UNCHANGED <<askedVars, subjectVars, conn, told>>

NoToken(r) ==
  /\ Goes(r, "filters", "handler")
  /\ UNCHANGED <<askedVars, subjectVars, answerVars>>

ExactSubjectAccess(r) == TokenRead(r) \/ TokenBroken(r) \/ NoToken(r)

\* sayHello, and the router's answer to what it has no route for, which runs
\* the filters, too.
AnswerAtOnce(r) ==
  /\ route[r] \notin Terminals
  /\ Goes(r, "handler", "returned")
  /\ Answer(r)
  /\ UNCHANGED <<askedVars, subjectVars, conn, told>>

\* HandlePodTerminal and HandleClusterTerminal begin with the upgrade, which
\* answers either way, unless it fails after it has taken the connection over:
\* it then closes it, and nothing is written.
Upgrade(r) ==
  /\ route[r] \in Terminals
  /\ \/ /\ Goes(r, "handler", "check") /\ Answer(r)
        /\ conn' = [conn EXCEPT ![r] = "open"]
     \/ /\ Goes(r, "handler", "returned") /\ Answer(r)
        /\ UNCHANGED conn
     \/ /\ Goes(r, "handler", "returned")
        /\ conn' = [conn EXCEPT ![r] = "closed"]
        /\ UNCHANGED answers
  /\ UNCHANGED <<askedVars, subjectVars, told>>

\* Faulty: it is the user in the path whose bindings are looked for.
CheckOwner(r) ==
  /\ \/ HasAccess(owner[r]) /\ Goes(r, "check", "granted")
     \/ Goes(r, "check", "refused")
  /\ UNCHANGED <<askedVars, subjectVars, answerVars>>

\* checkUserAccess: no user, no list or no binding in it, no access.
CheckUserAccess(r) ==
  /\ \/ /\ subject[r] # NoUser /\ HasAccess(subject[r])
        /\ Goes(r, "check", "granted")
     \/ /\ Goes(r, "check", "refused")
  /\ UNCHANGED <<askedVars, subjectVars, answerVars>>

\* sendWebSocketMessage, and the handler goes on.
SendMessage(r) ==
  /\ Goes(r, "granted", "terminal")
  /\ told' = [told EXCEPT ![r] = "access"]
  /\ UNCHANGED <<askedVars, subjectVars, answers, conn>>

\* Faulty: the handler does not look at what checkUserAccess returned.
SendErrorAndGoOn(r) ==
  /\ Goes(r, "refused", "terminal")
  /\ told' = [told EXCEPT ![r] = "error"]
  /\ UNCHANGED <<askedVars, subjectVars, answers, conn>>

\* sendWebSocketError; the handler returns and leaves the connection as it is.
SendError(r) ==
  /\ Goes(r, "refused", "returned")
  /\ told' = [told EXCEPT ![r] = "error"]
  /\ UNCHANGED <<askedVars, subjectVars, answers, conn>>

\* HandleTerminal closes the connection; HandleCusterTerminal may also return
\* without, when its wait for a deletion fails.
TerminalEnds(r) ==
  /\ Goes(r, "terminal", "returned")
  /\ \/ conn' = [conn EXCEPT ![r] = "closed"]
     \/ route[r] = "user" /\ UNCHANGED conn
  /\ UNCHANGED <<askedVars, subjectVars, answers, told>>

\* RecordAccessLogs after ProcessFilter: the line is logged and the request
\* over; the next one has a context of its own.
LogRequest(r) ==
  /\ Goes(r, "returned", "off")
  /\ route' = [route EXCEPT ![r] = "none"]
  /\ subject' = [subject EXCEPT ![r] = NoUser]
  /\ held' = [held EXCEPT ![r] = FALSE]
  /\ answers' = [answers EXCEPT ![r] = 0]
  /\ conn' = [conn EXCEPT ![r] = "none"]
  /\ told' = [told EXCEPT ![r] = "none"]
  /\ UNCHANGED owner

\* Somebody makes or deletes a ClusterRoleBinding.
BindingsChange ==
  /\ UNCHANGED <<stage, askedVars, subject, answerVars>>
  /\ \E b \in User \X Role :
       bindings' = IF b \in bindings THEN bindings \ {b} ELSE bindings \cup {b}
  /\ held' = [r \in Request |-> held[r] \/ HasAccess(subject[r])']
-----------------------------------------------------------------------------
RequestStep(r) ==
  \/ Arrive(r) \/ ExactSubjectAccess(r) \/ AnswerAtOnce(r) \/ Upgrade(r)
  \/ CheckUserAccess(r) \/ SendMessage(r) \/ SendError(r)
  \/ TerminalEnds(r) \/ LogRequest(r)

AdmissionNext == (\E r \in Request : RequestStep(r)) \/ BindingsChange

AdmissionSpec == AdmissionInit /\ [][AdmissionNext]_admissionVars
-----------------------------------------------------------------------------
\* The upgrade closed the connection it had taken over.
UpgradeBroke(r) == conn[r] = "closed" /\ told[r] = "none"

\* When its handler has returned, a request has had exactly one answer, unless
\* its connection broke in the upgrade, and an upgraded connection one word
\* about access; it is still open only if access was refused, or a user terminal
\* waited in vain for a deletion (accesssubjuct.go, lines 38-76; handler.go,
\* 64-164; terminal.go, 255-257).
Accounted ==
  \A r \in Request : stage[r] = "returned" =>
    /\ answers[r] = IF UpgradeBroke(r) THEN 0 ELSE 1
    /\ conn[r] = "none" => told[r] = "none"
    /\ conn[r] = "open" => told[r] = "error" \/ (told[r] = "access" /\ route[r] = "user")
    /\ UpgradeBroke(r) => route[r] \in Terminals

\* What a request has had by the time it is at each stage.
StageInv ==
  \A r \in Request :
    /\ stage[r] \in {"off", "filters", "handler"} =>
         answers[r] = 0 /\ conn[r] = "none" /\ told[r] = "none"
    /\ stage[r] \in {"check", "granted", "refused"} =>
         answers[r] = 1 /\ conn[r] = "open" /\ told[r] = "none"
    /\ stage[r] = "terminal" =>
         answers[r] = 1 /\ conn[r] = "open" /\ told[r] = "access"

\* A role is only asked for once the subject is known, and a list that has it
\* stays a reason for the terminal when the role is gone.
SubjectInv ==
  \A r \in Request :
    /\ held[r] => subject[r] # NoUser
    /\ subject[r] # NoUser /\ HasAccess(subject[r]) => held[r]
    /\ stage[r] = "granted" => held[r]
    /\ stage[r] \in {"off", "filters"} => subject[r] = NoUser

\* The reason why requests are accounted for, and AccessControl implemented.
AdmissionInv == AdmissionTypeOK /\ StageInv /\ SubjectInv /\ Accounted

\* Where a request is, as AccessControl sees it.
PhaseOf(r) ==
  CASE stage[r] = "off" -> "none"
    [] stage[r] \in {"filters", "handler", "check", "granted", "refused"} -> "asking"
    [] stage[r] = "terminal" -> "admitted"
    [] stage[r] = "returned" -> IF told[r] = "access" THEN "admitted" ELSE "turnedAway"

A == INSTANCE AccessControl
       WITH phase <- [r \in Request |-> PhaseOf(r)]

\* No request gets a terminal whose user, the token's, had no role at any time
\* since the token was read, and none is decided twice, however bindings
\* change meanwhile (accesssubjuct.go, lines 38-62; handler.go, 64-146).
ImplementsAccess == A!AccessSpec
=============================================================================
