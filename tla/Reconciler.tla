----------------------------- MODULE Reconciler -----------------------------
(***************************************************************************)
(* internal/controller: WebterminalTemplateReconciler.  One worker takes   *)
(* keys from the queue; a reconcile is cut where it calls the API server   *)
(* or waits for a poll tick, so that every other client, the caches and    *)
(* the kubelet may act in between.  The checks between two calls run on    *)
(* the copy wtTemplate, and are part of the action that makes the call     *)
(* before them.                                                            *)
(***************************************************************************)
EXTENDS Cluster, Naturals

CONSTANTS
  StatusSteps,  \* attempts of retry.RetryOnConflict (DefaultRetry: 5)
  ApiFails      \* may a call to the API server fail for no reason of its own?

ASSUME ReconcilerAssumption ==
  /\ StatusSteps \in Nat \ {0}
  /\ ApiFails \in BOOLEAN

VARIABLES
  pc,      \* where the worker is, "idle" between two reconciles
  key,     \* the user of the request being reconciled (stale when idle)
  polled,  \* has the current poll evaluated its condition at least once?
  status,  \* wtTemplate's status, then the one syncStatus is about to write
  tries    \* attempts of updateStatus that met a conflict

workerVars == <<pc, key, polled, status, tries>>
vars == <<clusterVars, workerVars>>

Control ==
  { "idle", "addFinalizer", "deletePod", "removeFinalizer", "createPod",
    "recordStart", "markRunning", "ttlDelete", "readPod", "updateStatus" }

Status == [phase : Phase, ready : BOOLEAN]
NoStatus == [phase |-> "", ready |-> FALSE]

TypeOK ==
  /\ ClusterTypeOK
  /\ pc \in Control
  /\ key \in User
  /\ polled \in BOOLEAN
  /\ status \in Status
  /\ tries \in 0 .. StatusSteps - 1

Init ==
  /\ ClusterInit
  /\ pc = "idle"
  /\ key \in User
  /\ polled = FALSE
  /\ status = NoStatus
  /\ tries = 0
-----------------------------------------------------------------------------
(* How a reconcile moves on, and how it ends. *)

StatusOf(t) == [phase |-> t.phase, ready |-> t.ready]

\* wtTemplate is t, and step is the first call the checks on it lead to.
Enter(step, t) ==
  /\ pc' = step
  /\ status' = IF step = "readPod" THEN StatusOf(t) ELSE NoStatus
  /\ UNCHANGED <<polled, tries>>

Goto(step) ==
  /\ pc' = step
  /\ polled' = FALSE
  /\ UNCHANGED <<key, status, tries>>

\* Faulty: an error, or a RequeueAfter, is swallowed.
ReturnAndForget(requeue) ==
  /\ pc' = "idle" /\ polled' = FALSE /\ status' = NoStatus /\ tries' = 0
  /\ UNCHANGED <<queue, key>>

\* The reconcile returns.  An error, or a RequeueAfter, puts the key back.
Return(requeue) ==
  /\ pc' = "idle"
  /\ polled' = FALSE
  /\ status' = NoStatus
  /\ tries' = 0
  /\ queue' = IF requeue THEN queue \cup {key} ELSE queue
  /\ UNCHANGED key

\* The templates the reconciler stores.
WithFinalizer(t) == [t EXCEPT !.finalizer = TRUE]
Started(t) == [t EXCEPT !.existsTime = TRUE, !.idle = FALSE]
WithStatus(t, s) == [t EXCEPT !.phase = s.phase, !.ready = s.ready]

\* Faulty: checkTTL runs before ensurePodRunning.
TTLFirst(t) ==
  IF t.idle THEN "ttlDelete"
  ELSE IF ~t.existsTime \/ t.phase = "Stopped" THEN "createPod" ELSE "readPod"

\* Faulty: an expired terminal's pod is deleted, and not its template.
TTLKillsPod(t) ==
  IF ~t.existsTime \/ t.phase = "Stopped" THEN "createPod"
  ELSE IF t.idle THEN "deletePod" ELSE "readPod"

\* Faulty: nothing expires.
TTLIgnored(t) ==
  IF ~t.existsTime \/ t.phase = "Stopped" THEN "createPod" ELSE "readPod"

\* Faulty: a template that has lost its pod is not started again.
StoppedIgnored(t) ==
  IF ~t.existsTime THEN "createPod" ELSE IF t.idle THEN "ttlDelete" ELSE "readPod"

\* Where Reconcile goes once the finalizer is in place: ensurePodRunning for
\* a template that was never started or has lost its pod, checkTTL for one
\* whose renewal is too old, syncStatus for the others.
AfterFinalizer(t) ==
  IF ~t.existsTime \/ t.phase = "Stopped" THEN "createPod"
  ELSE IF t.idle THEN "ttlDelete" ELSE "readPod"

\* The worker's copy has the newest resourceVersion: an Update is accepted.
Fresh == "wtTemplate" \in atHead[key]

\* The API call of the current step fails, without effect.
CallFails ==
  /\ Return(TRUE)
  /\ UNCHANGED <<template, templateCache, atHead, pod, podCache>>
-----------------------------------------------------------------------------
\* Reconcile takes a key, reads the template from the cache and decides on
\* it.  A template that is not there, or whose deletion is not ours to
\* finish, ends the reconcile.
Reconcile(u) ==
  LET t == templateCache[u]
      next == IF t = NoTemplate THEN "idle"
              ELSE IF t.deleting
                   THEN IF t.finalizer THEN "deletePod" ELSE "idle"
              ELSE IF ~t.finalizer THEN "addFinalizer"
              ELSE AfterFinalizer(t)
  IN /\ pc = "idle"
     /\ u \in queue
     /\ queue' = queue \ {u}
     /\ key' = u
     /\ Enter(next, t)
     /\ atHead' = [v \in User |->
                     IF v = u /\ "cache" \in atHead[u] THEN Holder
                     ELSE atHead[v] \ {"wtTemplate"}]
     /\ UNCHANGED <<template, templateCache, pod, podCache>>

\* Faulty: the finalizer is set on the copy only.
AddFinalizerToCopy ==
  /\ pc = "addFinalizer" /\ Fresh
  /\ Enter(AfterFinalizer(WithFinalizer(template[key])), template[key])
  /\ UNCHANGED <<clusterVars, key>>

\* handleFinalizer, first half: the finalizer is stored before anything else
\* is done for the template.
AddFinalizer ==
  /\ pc = "addFinalizer"
  /\ \/ /\ Fresh
        /\ LET t == WithFinalizer(template[key])
           IN Store(key, t, {"wtTemplate"}) /\ Enter(AfterFinalizer(t), t)
        /\ UNCHANGED <<templateCache, pod, podCache, queue, key>>
     \/ (~Fresh \/ ApiFails) /\ CallFails

\* Faulty: the finalizer goes as soon as the pod's deletion was accepted.
DeletePodWithoutWaiting ==
  /\ pc = "deletePod"
  /\ IF SeenPod(key) = "absent" THEN UNCHANGED pod
     ELSE pod' = [pod EXCEPT ![key] = Dying(@)]
  /\ Goto("removeFinalizer")
  /\ UNCHANGED <<template, templateCache, atHead, podCache, queue>>

\* deletePodTemplate, one tick of its poll: gone, delete it, or wait.
DeletePod ==
  /\ pc = "deletePod"
  /\ \/ /\ SeenPod(key) = "absent"
        /\ Goto("removeFinalizer")
        /\ UNCHANGED clusterVars
     \/ /\ SeenPod(key) \in {"pending", "ready"}
        /\ pod[key] # "absent"
        /\ pod' = [pod EXCEPT ![key] = Dying(@)]
        /\ polled' = TRUE
        /\ UNCHANGED <<template, templateCache, atHead, podCache, queue,
                       pc, key, status, tries>>
     \/ /\ SeenPod(key) \in PodDying
        /\ polled' = TRUE
        /\ UNCHANGED <<clusterVars, pc, key, status, tries>>
     \/ /\ SeenPod(key) \in {"pending", "ready"}
        /\ pod[key] = "absent" \/ ApiFails
        /\ CallFails

\* handleFinalizer, second half: the finalizer goes, and the object with it.
RemoveFinalizer ==
  /\ pc = "removeFinalizer"
  /\ \/ /\ Fresh
        /\ Store(key, WithoutFinalizer(template[key]), {"wtTemplate"})
        /\ Return(FALSE)
        /\ UNCHANGED <<templateCache, pod, podCache>>
     \/ (~Fresh \/ ApiFails) /\ CallFails

\* createPodTemplate, one tick of its poll: ready, create it, or wait.
CreatePod ==
  /\ pc = "createPod"
  /\ \/ /\ SeenPod(key) \in PodReady
        /\ Goto("recordStart")
        /\ UNCHANGED clusterVars
     \/ /\ SeenPod(key) = "absent"
        /\ pod[key] = "absent"
        /\ pod' = [pod EXCEPT ![key] = "pending"]
        /\ polled' = TRUE
        /\ UNCHANGED <<template, templateCache, atHead, podCache, queue,
                       pc, key, status, tries>>
     \/ /\ SeenPod(key) \in {"pending", "dying"}
        /\ polled' = TRUE
        /\ UNCHANGED <<clusterVars, pc, key, status, tries>>
     \/ /\ SeenPod(key) = "absent"
        /\ pod[key] # "absent" \/ ApiFails
        /\ CallFails

\* The minute of deletePodTemplate or createPodTemplate is over; at one tick
\* a second the condition has been evaluated by then.
PollTimeout ==
  /\ pc \in {"deletePod", "createPod"}
  /\ polled
  /\ CallFails

\* Faulty: that the start could not be recorded is logged, and that is all.
RecordStartOrLog ==
  /\ pc = "recordStart"
  /\ Goto("markRunning")
  /\ \/ Fresh /\ Store(key, Started(template[key]), {"wtTemplate"})
     \/ (~Fresh \/ ApiFails) /\ UNCHANGED <<template, atHead>>
  /\ UNCHANGED <<templateCache, pod, podCache, queue>>

\* ensurePodRunning: ExistsTime and RenewTime are set to now ...
RecordStart ==
  /\ pc = "recordStart"
  /\ \/ /\ Fresh
        /\ Store(key, Started(template[key]), {"wtTemplate"})
        /\ Goto("markRunning")
        /\ UNCHANGED <<templateCache, pod, podCache, queue>>
     \/ (~Fresh \/ ApiFails) /\ CallFails

\* ... and then, by a second write, the phase; the write's own event brings
\* the key back.
MarkRunning ==
  /\ pc = "markRunning"
  /\ \/ /\ Fresh
        /\ LET t == WithStatus(template[key],
                              [phase |-> "Runnings", ready |-> template[key].ready])
           IN IF t = template[key] THEN UNCHANGED <<template, atHead>>
              ELSE Store(key, t, {"wtTemplate"})
        /\ Return(FALSE)
        /\ UNCHANGED <<templateCache, pod, podCache>>
     \/ (~Fresh \/ ApiFails) /\ CallFails

\* checkTTL: the template is deleted by name, whatever its resourceVersion.
TTLDelete ==
  /\ pc = "ttlDelete"
  /\ \/ /\ Exists(key)
        /\ IF template[key].deleting THEN UNCHANGED <<template, atHead>>
           ELSE Store(key, Deleted(template[key]), {})
        /\ Return(FALSE)
        /\ UNCHANGED <<templateCache, pod, podCache>>
     \/ (~Exists(key) \/ ApiFails) /\ CallFails

\* syncStatus: the phase and the conditions to report for the pod.  Without
\* a pod the conditions stay as wtTemplate had them.
ReadPod ==
  /\ pc = "readPod"
  /\ pc' = "updateStatus"
  /\ status' = IF SeenPod(key) = "absent"
               THEN [phase |-> "Stopped", ready |-> status.ready]
               ELSE [phase |-> "Runnings", ready |-> SeenPod(key) \in PodReady]
  /\ UNCHANGED <<clusterVars, key, polled, tries>>

\* Faulty: one attempt too many.
LastTryLate == tries = StatusSteps

\* RetryOnConflict gives up after this attempt.
LastTry == tries + 1 = StatusSteps

\* Faulty: the cached template is written back whatever was stored since.
UpdateStatusBlindly ==
  /\ pc = "updateStatus" /\ templateCache[key] # NoTemplate /\ Exists(key)
  /\ Store(key, WithStatus(templateCache[key], status), {})
  /\ Return(TRUE)
  /\ UNCHANGED <<templateCache, pod, podCache>>

\* updateStatus, one attempt: the cached template with the new status is
\* stored if the cache is up to date; a conflict is tried again.  Conditions
\* can differ behind an equal ready, so an equal status may be a new version.
\* Only a stored status asks for the next reconcile, 20 seconds later.
UpdateStatus ==
  /\ pc = "updateStatus"
  /\ \/ /\ "cache" \in atHead[key] /\ Exists(key)
        /\ LET t == WithStatus(template[key], status)
           IN \/ Store(key, t, {})
              \/ t = template[key] /\ UNCHANGED <<template, atHead>>
        /\ Return(TRUE)
        /\ UNCHANGED <<templateCache, pod, podCache>>
     \/ /\ "cache" \notin atHead[key]
        /\ templateCache[key] # NoTemplate /\ Exists(key)
        /\ ~LastTry
        /\ tries' = tries + 1
        /\ UNCHANGED <<clusterVars, pc, key, polled, status>>
     \/ /\ \/ templateCache[key] = NoTemplate \/ ~Exists(key) \/ ApiFails
           \/ "cache" \notin atHead[key] /\ LastTry
        /\ Return(FALSE)
        /\ UNCHANGED <<template, templateCache, atHead, pod, podCache>>

\* The process dies, anywhere, and comes back: the reconcile is forgotten,
\* the caches are listed afresh and every template is queued.
Restart ==
  /\ pc' = "idle" /\ polled' = FALSE /\ status' = NoStatus /\ tries' = 0
  /\ templateCache' = template
  /\ podCache' = IF PodCacheLags THEN pod ELSE podCache
  /\ atHead' = [u \in User |-> {"cache"}]
  /\ queue' = {u \in User : Exists(u)}
  /\ UNCHANGED <<template, pod, key>>
-----------------------------------------------------------------------------
Work ==
  \/ \E u \in User : Reconcile(u)
  \/ AddFinalizer \/ DeletePod \/ RemoveFinalizer
  \/ CreatePod \/ PollTimeout \/ RecordStart \/ MarkRunning
  \/ TTLDelete \/ ReadPod \/ UpdateStatus

\* What others do to the objects of u, and what time does.
Environment(u) ==
  \/ CreateTemplate(u) \/ Renewtime(u) \/ DeleteTemplate(u) \/ EvictPod(u)
  \/ SyncTemplate(u) \/ SyncPod(u) \/ GrowIdle(u)
  \/ PodStarts(u) \/ PodFails(u) \/ PodGone(u)

Others ==
  /\ Resync \/ \E u \in User : Environment(u)
  /\ UNCHANGED workerVars

Next == Work \/ Others \/ Restart

Spec == Init /\ [][Next]_vars
-----------------------------------------------------------------------------
(* Safety. *)

\* A user's pod never outlives, or precedes, the finalizer that will have it
\* deleted: handleFinalizer stores the finalizer before ensurePodRunning
\* creates the pod, and removes it only after deletePodTemplate saw the pod
\* gone (lines 91-116).  No owner reference would collect the pod otherwise.
NoOrphanPod ==
  \A u \in User : pod[u] # "absent" => Exists(u) /\ template[u].finalizer

\* A live template is never forgotten: its key is queued, an event is on its
\* way, or it is being reconciled.  With nothing watching pods and a resync
\* every ten hours, each return of Reconcile must see to that itself (lines
\* 60-85, 118, 149, 166 and 301-304).
NoLostWakeup ==
  \A u \in User : Exists(u) =>
    \/ u \in queue
    \/ "cache" \notin atHead[u]
    \/ pc # "idle" /\ key = u

\* When checkTTL decides on the newest version of a template, that template
\* was started and went 26 minutes without renewal, and nobody is deleting
\* it already (lines 127 and 159-162).
TTLDeleteJustified ==
  (pc = "ttlDelete" /\ Fresh) =>
    /\ Exists(key)
    /\ LET t == template[key] IN t.idle /\ t.existsTime /\ ~t.deleting

\* Decided on a cached copy, carried out on the cluster: the pods a teardown
\* may delete are those of templates that really are being deleted, however
\* old the copy handleFinalizer looked at (lines 101-117 and 205-225).
NoPrematureKill ==
  (pc \in {"deletePod", "removeFinalizer"} /\ pod[key] # "absent") =>
    Exists(key) /\ template[key].deleting

\* What a template says of its pod, it has earned itself: a name may be used
\* again, and a worker may be slow, but no start and no status is recorded on
\* a template that was not started, or that its finalizer does not guard
\* (lines 91-98, 127-147, 172-199 and 287-297).
StatusEarned ==
  \A u \in User : Exists(u) =>
    LET t == template[u]
    IN /\ t.phase # "" => t.existsTime
       /\ t.ready => t.phase # ""
       /\ t.existsTime => t.finalizer

\* No write undoes another: neither the worker, whose copy was read some time
\* ago, nor a session takes a renewal, a start, the finalizer or a deletion mark
\* back from a template that stays; and only time makes one idle (lines 98, 116,
\* 138, 148 and 287-297; window.go, 64-81).
NothingUndone ==
  [][\A u \in User : Exists(u) /\ Exists(u)' =>
       LET s == template[u]
           t == template'[u]
       IN /\ s.finalizer => t.finalizer
          /\ s.deleting => t.deleting
          /\ s.existsTime => t.existsTime
          /\ s.phase # "" => t.phase # ""
          /\ t.idle => s.idle \/ GrowIdle(u)]_vars
-----------------------------------------------------------------------------
(* Where it goes wrong: the one step each that loses a template or a pod. *)

\* What NoLostWakeup rules out.
Forgotten(u) ==
  /\ Exists(u) /\ u \notin queue
  /\ "cache" \in atHead[u]
  /\ ~(pc # "idle" /\ key = u)

\* Of all the calls that may fail, and all the ways a reconcile may end, only
\* one forgets a template: updateStatus, the template being up to date, whose
\* write is refused for no reason of its own and whose error is swallowed
\* (lines 283-304, against 60-85).
OnlyStatusForgets ==
  [][\A u \in User : ~Forgotten(u) /\ Forgotten(u)' =>
       /\ ApiFails
       /\ pc = "updateStatus" /\ key = u /\ Fresh
       /\ UNCHANGED <<template, atHead>>]_vars

\* What NoOrphanPod rules out.
IsGuarded(t) == t # NoTemplate /\ t.finalizer
Orphaned(u) == pod[u] # "absent" /\ ~IsGuarded(template[u])

\* A pod is only ever left behind by a teardown whose last look at it was
\* stale, and that of a template that was to go: no conflict, crash, second
\* deletion or late start does it (lines 101-118 and 127-147).
OnlyStaleReadOrphans ==
  [][\A u \in User : ~Orphaned(u) /\ Orphaned(u)' =>
       /\ PodCacheLags
       /\ pc = "removeFinalizer" /\ key = u /\ Fresh
       /\ template[u].deleting]_vars
-----------------------------------------------------------------------------
(* What the properties above rest on: how the copies the code works on, the *)
(* cached template and wtTemplate, relate to the stored one.                *)

IsDeleting(t) == t # NoTemplate /\ t.deleting

LiveSteps ==
  { "createPod", "recordStart", "markRunning",
    "ttlDelete", "readPod", "updateStatus" }

Teardown == {"deletePod", "removeFinalizer"}

\* A cache at the newest version holds the stored template; an object that is
\* being deleted is there because of the finalizer; a guarded template seen
\* alive is still stored and guarded.
CacheInv ==
  \A u \in User :
    /\ "cache" \in atHead[u] => templateCache[u] = template[u]
    /\ IsDeleting(template[u]) => template[u].finalizer
    /\ IsDeleting(templateCache[u]) => templateCache[u].finalizer
    /\ IsGuarded(templateCache[u]) /\ ~IsDeleting(templateCache[u])
         => IsGuarded(template[u])

\* What the worker knows of the stored template at each step.
WorkerInv ==
  /\ pc = "addFinalizer" /\ Fresh =>
       /\ Exists(key)
       /\ ~IsDeleting(template[key]) /\ ~IsDeleting(templateCache[key])
  /\ pc \in Teardown /\ Fresh =>
       IsDeleting(template[key]) /\ IsDeleting(templateCache[key])
  /\ pc \in LiveSteps =>
       /\ IsGuarded(template[key])
       /\ IsDeleting(templateCache[key]) => IsDeleting(template[key])

\* A copy that is behind, and a template whose start was just recorded, have
\* an event on its way or their key queued.
WakeupInv ==
  pc # "idle" /\ (~Fresh \/ pc = "markRunning") =>
    "cache" \notin atHead[key] \/ key \in queue

\* What a cached copy or a step of the worker takes for started was started.
StartedInv ==
  /\ \A u \in User :
       LET t == templateCache[u]
       IN t # NoTemplate /\ t.existsTime /\ ~t.deleting =>
            Exists(u) /\ template[u].existsTime
  /\ pc \in {"markRunning", "readPod", "updateStatus"} => template[key].existsTime
  /\ pc = "updateStatus" => status.phase # ""

\* A teardown that has seen the pod gone is right, and a pod that is still
\* there while the cache says deleting is one to be deleted.
PodInv ==
  /\ pc = "removeFinalizer" => pod[key] = "absent"
  /\ \A u \in User : IsDeleting(templateCache[u]) /\ pod[u] # "absent"
       => IsDeleting(template[u])

\* The inductive invariant.  The facts about pods need pod reads that are not
\* stale, the one about wake-ups an API server that does not fail.
IInv ==
  /\ TypeOK
  /\ CacheInv /\ WorkerInv /\ TTLDeleteJustified
  /\ ~PodCacheLags => PodInv /\ NoOrphanPod /\ NoPrematureKill
  /\ StartedInv /\ StatusEarned
  /\ WakeupInv
  /\ ~ApiFails => NoLostWakeup
-----------------------------------------------------------------------------
(* The reconciler implements a Workspace per user. *)

StageOf(t) ==
  CASE t = NoTemplate -> "none"
    [] IsDeleting(t) -> "closing"
    [] IsGuarded(t) /\ ~IsDeleting(t) -> "guarded"
    [] OTHER -> "requested"

W == INSTANCE Workspace
       WITH Strays <- PodCacheLags,
            stage <- [u \in User |-> StageOf(template[u])],
            podUp <- [u \in User |-> pod[u] # "absent"]

\* Whatever the caches, conflicts, retries and restarts do in between, each
\* step of the system is a step of the workspaces' life cycle, or changes
\* none of them (handleFinalizer's order, lines 88-122, is what this rests on).
\* Stale pod reads may let a pod stray, and do nothing else to the life cycle.
ImplementsWorkspace == W!WorkspaceSpec
-----------------------------------------------------------------------------
(* Liveness.  The work queue is a queue: a key that keeps being there is   *)
(* taken in the end, so Reconcile is strongly fair.  A reconcile that runs *)
(* goes on, informers catch up, the kubelet starts and removes pods.       *)
(* Clients and failures owe nothing.  That 26 minutes without a renewal    *)
(* pass is an assumption of Reclaimed alone.                               *)

Fairness ==
  /\ \A u \in User :
       /\ SF_vars(Reconcile(u))
       /\ WF_vars(SyncTemplate(u) /\ UNCHANGED workerVars)
       /\ WF_vars(SyncPod(u) /\ UNCHANGED workerVars)
       /\ WF_vars(PodStarts(u) /\ UNCHANGED workerVars)
       /\ WF_vars(PodGone(u) /\ UNCHANGED workerVars)
  /\ WF_vars(AddFinalizer) /\ WF_vars(DeletePod) /\ WF_vars(RemoveFinalizer)
  /\ WF_vars(CreatePod) /\ WF_vars(PollTimeout)
  /\ WF_vars(RecordStart) /\ WF_vars(MarkRunning)
  /\ WF_vars(TTLDelete) /\ WF_vars(ReadPod) /\ WF_vars(UpdateStatus)

FairSpec == Spec /\ Fairness

\* A step by which a client, an administrator, an eviction or a crash upsets
\* what the reconciler is doing for u.
Disturbs(u) ==
  \/ /\ CreateTemplate(u) \/ Renewtime(u) \/ EvictPod(u) \/ PodFails(u)
     /\ UNCHANGED workerVars
  \/ Restart

\* A terminal that is left alone is reclaimed: once nobody renews, recreates
\* or disturbs it any more, its template and its pod are gone for good
\* (checkTTL, lines 156-170, then handleFinalizer, 101-118).
Reclaimed ==
  \A u \in User :
    WF_vars(GrowIdle(u) /\ UNCHANGED workerVars) /\ <>[][~Disturbs(u)]_vars
      => <>[](~Exists(u) /\ pod[u] = "absent")

\* A terminal that is in use recovers: once disturbances are over, and as
\* long as it does not expire, a template that stays has a ready pod, and
\* its status says so (ensurePodRunning, lines 127-147; syncStatus, 172-199).
Settles ==
  \A u \in User :
    <>[][~(\/ Disturbs(u)
           \/ (GrowIdle(u) \/ DeleteTemplate(u)) /\ UNCHANGED workerVars)]_vars
      => <>[](IsGuarded(template[u]) /\ ~IsDeleting(template[u]) =>
                /\ pod[u] = "ready"
                /\ template[u].phase = "Runnings" /\ template[u].ready)
=============================================================================
