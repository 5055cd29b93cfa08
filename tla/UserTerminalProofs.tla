------------------------- MODULE UserTerminalProofs -------------------------
(***************************************************************************)
(* What the sessions inherit from the reconciler: the service, sessions    *)
(* and reconciler together, is a behaviour of the open system Reconciler   *)
(* describes, so its theorems hold of the service too.                     *)
(***************************************************************************)
EXTENDS UserTerminal, ReconcilerProofs

\* A session either leaves the cluster alone, or creates or renews a template.
LEMMA SessionAct ==
  ASSUME NEW s \in Session, SessionStep(s), owner \in [Session -> User]
  PROVE  [Next]_vars /\ owner' \in [Session -> User]
<1>1. CASE \E u \in User : Connect(s, u)
  BY <1>1 DEF Connect
<1>2. CASE CreateTick(s)
  <2>1. CASE CreateTemplate(owner[s]) /\ UNCHANGED workerVars /\ Go(s, "recreate")
    BY <2>1 DEF Next, Others, Environment, Go
  <2>2. CASE ~(/\ CreateTemplate(owner[s])
               /\ UNCHANGED workerVars
               /\ Go(s, "recreate"))
    BY <1>2, <2>2 DEF CreateTick, Alone, Go
  <2> QED
    BY <2>1, <2>2
<1>3. CASE Renew(s)
  BY <1>3 DEF Renew, Next, Others, Environment, sessionVars
<1>4. CASE Lookup(s) \/ WaitGone(s) \/ WaitGoneTimeout(s) \/ PodFound(s)
           \/ CreateTimeout(s) \/ ShellFound(s) \/ NoShell(s) \/ End(s)
  BY <1>4 DEF Lookup, WaitGone, WaitGoneTimeout, PodFound, CreateTimeout,
              ShellFound, NoShell, End, Alone, Go
<1> QED
  BY <1>1, <1>2, <1>3, <1>4 DEF SessionStep

\* Every step of the service is a step of the open system, or leaves it alone.
LEMMA ServiceAct ==
  ASSUME owner \in [Session -> User], [ServiceNext]_serviceVars
  PROVE  [Next]_vars /\ owner' \in [Session -> User]
<1>1. CASE \E s \in Session : SessionStep(s)
  BY <1>1, SessionAct
<1>2. CASE started /\ Work /\ UNCHANGED sessionVars
  BY <1>2 DEF Next, sessionVars
<1>3. CASE ClusterStep
  BY <1>3 DEF ClusterStep, Next, Others, Environment, sessionVars
<1>4. CASE ServiceRestart \/ CachesStart
  BY <1>4 DEF ServiceRestart, CachesStart, Next
<1>5. CASE UNCHANGED serviceVars
  BY <1>5 DEF serviceVars, sessionVars
<1> QED
  BY <1>1, <1>2, <1>3, <1>4, <1>5 DEF ServiceNext

\* The sessions ask nothing of the cluster that the reconciler is not prepared
\* for (terminal.go, lines 218-297): whatever holds of Spec holds of the
\* service.
THEOREM SessionsImplement == ServiceSpec => ImplementsReconciler
<1> DEFINE Owned == owner \in [Session -> User]
<1>1. ServiceInit => Init /\ Owned
  BY DEF ServiceInit
<1>2. Owned /\ [ServiceNext]_serviceVars => [Next]_vars /\ Owned'
  BY ServiceAct
<1> HIDE DEF Owned
<1> QED
  BY <1>1, <1>2, PTL DEF ServiceSpec, ImplementsReconciler, Spec

\* A session's step keeps what is known of sessions.
LEMMA SessionKeeps ==
  ASSUME SessionInv, NEW s \in Session, SessionStep(s)
  PROVE  SessionInv'
<1> USE DEF SessionInv, SessionTypeOK, Step, Go, Alone, vars, workerVars
<1>1. CASE \E u \in User : Connect(s, u)
  BY <1>1 DEF Connect
<1>2. CASE Lookup(s)
  BY <1>2 DEF Lookup
<1>3. CASE WaitGone(s) \/ WaitGoneTimeout(s)
  BY <1>3 DEF WaitGone, WaitGoneTimeout
<1>4. CASE PodFound(s)
  BY <1>4 DEF PodFound
<1>5. CASE CreateTick(s)
  <2>1. UNCHANGED <<pc, owner, started>>
    BY <1>5 DEF CreateTick
  <2>2. \E to \in {"recreate", "creating", "probe"} :
          /\ step' = [step EXCEPT ![s] = to]
          /\ to = "recreate" => started
    BY <1>5 DEF CreateTick
  <2> QED
    BY <2>1, <2>2
<1>6. CASE CreateTimeout(s) \/ ShellFound(s) \/ NoShell(s) \/ End(s)
  BY <1>6 DEF CreateTimeout, ShellFound, NoShell, End
<1>7. CASE Renew(s)
  BY <1>7 DEF Renew, sessionVars
<1> QED
  BY <1>1, <1>2, <1>3, <1>4, <1>5, <1>6, <1>7 DEF SessionStep

\* The worker waits for the caches, however often the process dies and comes
\* back; a session that came before them has neither waited for a deletion nor
\* stored a template (main.go, lines 121-133; terminal.go, 218-297).
THEOREM SessionsInductive == ServiceSpec => []SessionInv
<1>1. ServiceInit => SessionInv
  BY DEF ServiceInit, Init, SessionInv, SessionTypeOK, Step
<1>2. SessionInv /\ [ServiceNext]_serviceVars => SessionInv'
  <2> SUFFICES ASSUME SessionInv, [ServiceNext]_serviceVars PROVE SessionInv'
    OBVIOUS
  <2>1. CASE \E s \in Session : SessionStep(s)
    BY <2>1, SessionKeeps
  <2>2. CASE started /\ Work /\ UNCHANGED sessionVars
    BY <2>2 DEF SessionInv, SessionTypeOK, sessionVars
  <2>3. CASE ClusterStep
    BY <2>3 DEF ClusterStep, SessionInv, SessionTypeOK, sessionVars, workerVars
  <2>4. CASE ServiceRestart
    BY <2>4 DEF ServiceRestart, Restart, SessionInv, SessionTypeOK, Step
  <2>5. CASE CachesStart
    BY <2>5 DEF CachesStart, SessionInv, SessionTypeOK
  <2>6. CASE UNCHANGED serviceVars
    BY <2>6 DEF serviceVars, sessionVars, vars, workerVars, SessionInv,
                SessionTypeOK
  <2> QED
    BY <2>1, <2>2, <2>3, <2>4, <2>5, <2>6 DEF ServiceNext
<1> QED
  BY <1>1, <1>2, PTL DEF ServiceSpec

\* What the reconciler guarantees in any environment, it guarantees next to any
\* number of sessions, through restarts, with stale pod reads and an API server
\* that fails: what is recorded is earned, what is torn down on a fresh copy is
\* not alive, what one has written no other takes back, what goes wrong goes
\* wrong where the blame says, and each user's workspace lives the life
\* Workspace describes.
THEOREM ServiceInherits ==
  ServiceSpec =>
    /\ [](TTLDeleteJustified /\ StatusEarned /\ (Fresh => NoPrematureKill))
    /\ NothingUndone /\ OnlyStatusForgets /\ OnlyStaleReadOrphans
    /\ ImplementsWorkspace
<1>1. Spec => [](TTLDeleteJustified /\ StatusEarned /\ (Fresh => NoPrematureKill))
  BY TTLSafe, StatusesEarned, NoFreshKills, PTL
<1>2. Spec => OnlyStatusForgets
  BY StatusForgets
<1>3. Spec => OnlyStaleReadOrphans
  BY StrayOrphans
<1>4. Spec => ImplementsWorkspace
  BY Implements
<1>5. Spec => NothingUndone
  BY NoneUndone
<1> QED
  BY <1>1, <1>2, <1>3, <1>4, <1>5, SessionsImplement, PTL DEF ImplementsReconciler

\* With current pod reads there is no orphan pod and no live workspace torn
\* down, however many sessions create and renew meanwhile.
THEOREM ServiceKeepsWorkspaces ==
  ASSUME ~PodCacheLags
  PROVE  ServiceSpec => [](NoOrphanPod /\ NoPrematureKill)
<1>1. Spec => []NoOrphanPod
  BY NoOrphans
<1>2. Spec => []NoPrematureKill
  BY NoKills
<1> QED
  BY <1>1, <1>2, SessionsImplement, PTL DEF ImplementsReconciler

\* With an API server that does not fail, no template a session waits for is
\* forgotten by the worker.
THEOREM ServiceForgetsNone ==
  ASSUME ~ApiFails
  PROVE  ServiceSpec => []NoLostWakeup
BY NoneForgotten, SessionsImplement, PTL DEF ImplementsReconciler
=============================================================================
