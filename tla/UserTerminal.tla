---------------------------- MODULE UserTerminal ----------------------------
(***************************************************************************)
(* pkg/webterminal, HandleCusterTerminal: the sessions that ask for a      *)
(* user's workspace, next to the reconciler that provides it.  A session   *)
(* is one upgraded request; it is cut at its calls and at its poll ticks.  *)
(* What goes on inside an open terminal is Window's business; here it only *)
(* renews, and ends.                                                       *)
(***************************************************************************)
EXTENDS Reconciler

CONSTANT Session  \* requests that may be served at the same time

VARIABLES
  step,   \* how far HandleCusterTerminal is for this session
  owner,  \* the user the session belongs to
  started \* have the caches been started since the process was?

sessionVars == <<step, owner, started>>
serviceVars == <<vars, sessionVars>>

\* CreateUserPod's poll is in "create" before its first tick, then in
\* "creating", and in "recreate" once its webTemplate was stored; "probe" is
\* getShell; in "abandoned" the handler is gone and the connection neither
\* served nor closed.
Step == { "off", "lookup", "waitGone", "create", "creating", "recreate",
          "probe", "streaming", "abandoned" }

SessionTypeOK ==
  /\ step \in [Session -> Step]
  /\ owner \in [Session -> User]
  /\ started \in BOOLEAN

ServiceInit ==
  /\ Init
  /\ step = [s \in Session |-> "off"]
  /\ owner \in [Session -> User]
  /\ started = FALSE

Go(s, to) ==
  /\ step' = [step EXCEPT ![s] = to]
  /\ UNCHANGED <<owner, started>>

\* The session moves on its own; the cluster sees nothing of it.
Alone(s, from, to) ==
  /\ step[s] = from
  /\ Go(s, to)
  /\ UNCHANGED vars
-----------------------------------------------------------------------------
Connect(s, u) ==
  /\ step[s] = "off"
  /\ step' = [step EXCEPT ![s] = "lookup"]
  /\ owner' = [owner EXCEPT ![s] = u]
  /\ UNCHANGED <<vars, started>>

\* Faulty: a cache that is not started is read like any other.
LookupAnyway(s) ==
  LET t == templateCache[owner[s]]
  IN Alone(s, "lookup", IF ~IsDeleting(t) /\ t # NoTemplate THEN "probe"
                        ELSE IF IsDeleting(t) /\ IsGuarded(t) THEN "waitGone"
                        ELSE "create")

\* The cached template decides: none, make one; alive, use it; being deleted,
\* wait for the finalizer to go.  A cache that is not started is an error, and
\* an error is taken for none.
Lookup(s) ==
  LET t == templateCache[owner[s]]
  IN Alone(s, "lookup", IF ~started THEN "create"
                        ELSE IF ~IsDeleting(t) /\ t # NoTemplate THEN "probe"
                        ELSE IF IsDeleting(t) /\ IsGuarded(t) THEN "waitGone"
                        ELSE "create")

\* A tick of the wait.  The object going away with its finalizer makes the
\* cached Get fail, and that ends the handler.
WaitGone(s) ==
  LET t == templateCache[owner[s]]
  IN \/ t = NoTemplate /\ Alone(s, "waitGone", "abandoned")
     \/ t # NoTemplate /\ ~IsGuarded(t) /\ Alone(s, "waitGone", "create")

WaitGoneTimeout(s) == Alone(s, "waitGone", "abandoned")

\* A tick of CreateUserPod that finds a ready pod ends the poll.
PodFound(s) ==
  /\ started
  /\ SeenPod(owner[s]) \in PodReady
  /\ \E at \in {"create", "creating", "recreate"} : Alone(s, at, "probe")

\* One that finds another pod, or cannot look, waits on.  One that finds none
\* creates the template; an existing template is left alone, and a webTemplate
\* that was stored before carries a resourceVersion and is refused.
CreateTick(s) ==
  \/ /\ started /\ SeenPod(owner[s]) = "absent"
     /\ step[s] \in {"create", "creating"}
     /\ CreateTemplate(owner[s]) /\ UNCHANGED workerVars
     /\ Go(s, "recreate")
  \/ /\ \/ ~started
        \/ SeenPod(owner[s]) \in {"pending", "dying"}
        \/ SeenPod(owner[s]) = "absent" /\ Exists(owner[s])
     /\ Alone(s, "create", "creating")
  \/ /\ started /\ SeenPod(owner[s]) = "absent"
     /\ \/ Alone(s, "recreate", "probe")
        \/ ApiFails /\ \E at \in {"create", "creating"} : Alone(s, at, "probe")

\* Faulty: the poll has no end.
NoCreateTimeout(s) == FALSE

CreateTimeout(s) ==
  \/ Alone(s, "creating", "probe")
  \/ Alone(s, "recreate", "probe")

\* getShell runs `which` in the container, if there is one to run it in.
ShellFound(s) ==
  /\ pod[owner[s]] # "absent"
  /\ Alone(s, "probe", "streaming")

NoShell(s) == Alone(s, "probe", "off")

\* Faulty: the renewal is written whatever was stored since it was read.
RenewBlindly(s) ==
  /\ step[s] = "streaming"
  /\ Exists(owner[s]) /\ templateCache[owner[s]] # NoTemplate
  /\ Store(owner[s], Renewed(templateCache[owner[s]]), {})
  /\ UNCHANGED <<templateCache, pod, podCache, queue, workerVars, sessionVars>>

\* Input or output of an open terminal.
Renew(s) ==
  /\ step[s] = "streaming" /\ started
  /\ Renewtime(owner[s]) /\ UNCHANGED workerVars
  /\ UNCHANGED sessionVars

\* The process, the pod or the connection is gone.
End(s) == Alone(s, "streaming", "off") \/ Alone(s, "abandoned", "off")
-----------------------------------------------------------------------------
SessionStep(s) ==
  \/ \E u \in User : Connect(s, u)
  \/ Lookup(s) \/ WaitGone(s) \/ WaitGoneTimeout(s)
  \/ PodFound(s) \/ CreateTick(s) \/ CreateTimeout(s)
  \/ ShellFound(s) \/ NoShell(s) \/ Renew(s) \/ End(s)

\* The rest of the cluster: as in Reconciler, but templates are created and
\* renewed by sessions only.
ClusterStep ==
  /\ \/ started /\ (Resync \/ \E u \in User : SyncTemplate(u) \/ SyncPod(u))
     \/ \E u \in User :
          \/ DeleteTemplate(u) \/ EvictPod(u) \/ GrowIdle(u)
          \/ PodStarts(u) \/ PodFails(u) \/ PodGone(u)
  /\ UNCHANGED <<workerVars, sessionVars>>

\* Sessions live in the process that dies.
ServiceRestart ==
  /\ Restart
  /\ step' = [s \in Session |-> "off"]
  /\ started' = FALSE
  /\ UNCHANGED owner

\* The manager starts, the API server having served since the line before:
\* the caches are listed, and with them comes the reconciler.
CachesStart ==
  /\ ~started
  /\ Restart
  /\ started' = TRUE
  /\ UNCHANGED <<step, owner>>

ServiceNext ==
  \/ \E s \in Session : SessionStep(s)
  \/ started /\ Work /\ UNCHANGED sessionVars
  \/ ClusterStep
  \/ ServiceRestart \/ CachesStart

ServiceSpec == ServiceInit /\ [][ServiceNext]_serviceVars

\* The manager comes up.  A session's polls tick, and end after a minute; the
\* rest is as fair as the reconciler alone.
ServiceFairness ==
  /\ Fairness
  /\ WF_serviceVars(CachesStart)
  /\ \A s \in Session :
       /\ WF_serviceVars(Lookup(s)) /\ WF_serviceVars(WaitGone(s))
       /\ WF_serviceVars(WaitGoneTimeout(s))
       /\ WF_serviceVars(PodFound(s) \/ CreateTick(s))
       /\ WF_serviceVars(CreateTimeout(s))
       /\ WF_serviceVars(ShellFound(s) \/ NoShell(s))

FairServiceSpec == ServiceSpec /\ ServiceFairness
-----------------------------------------------------------------------------
\* The worker waits for the caches, and a session that came before them neither
\* waits for a deletion nor has stored a template.
SessionInv ==
  /\ SessionTypeOK
  /\ ~started => /\ pc = "idle"
                 /\ \A s \in Session : step[s] \notin {"waitGone", "recreate"}

\* Seen from the cluster, sessions do nothing the reconciler is not prepared
\* for: the service is an instance of the open system Reconciler describes,
\* and what is proved there holds here (lines 218-297 of terminal.go).
ImplementsReconciler == Spec

\* No session waits for ever, whatever happens to the objects it waits for:
\* it gets its terminal or it is over (the polls of lines 241 and 269).
WaitsEnd ==
  \A s \in Session :
    step[s] \in {"lookup", "waitGone", "create", "creating", "recreate", "probe"}
      ~> step[s] \in {"streaming", "abandoned", "off"}

\* Once the users have left and their terminals are silent, nothing of their
\* workspaces remains, however late their sessions looked up, waited for or
\* created a template that was being deleted (checkTTL and handleFinalizer,
\* called by Reconcile for whatever a session of lines 218-297 has created).
NothingLeftBehind ==
  (/\ \A u \in User : WF_vars(GrowIdle(u) /\ UNCHANGED workerVars)
   /\ <>[][~(\/ \E s \in Session : Renew(s) \/ \E u \in User : Connect(s, u)
             \/ ServiceRestart
             \/ \E u \in User : /\ EvictPod(u) \/ PodFails(u)
                                /\ UNCHANGED workerVars)]_serviceVars)
  => <>[](\A u \in User : ~Exists(u) /\ pod[u] = "absent")

\* What the comment at terminal.go:260 says: a session that waited until a
\* deletion was complete goes on to create a new template.
WaitedThenCreates ==
  [][\A s \in Session :
       step[s] = "waitGone" /\ step'[s] = "abandoned"
         => templateCache[owner[s]] # NoTemplate]_serviceVars
=============================================================================
