-------------------------- MODULE ReconcilerProofs --------------------------
(***************************************************************************)
(* That the reconciler's invariants hold for every set of users, every     *)
(* number of retries, and that it implements Workspace, whatever its       *)
(* environment does.                                                       *)
(***************************************************************************)
EXTENDS Reconciler, TLAPS

USE ClusterAssumption, ReconcilerAssumption
-----------------------------------------------------------------------------
(* The templates that are stored, and what they keep of those before.      *)

\* Setting a flag of a template gives a template.
LEMMA SetFlag ==
  ASSUME NEW t \in Template, NEW b \in BOOLEAN
  PROVE  /\ [t EXCEPT !.finalizer = b] \in Template
         /\ [t EXCEPT !.deleting = b] \in Template
         /\ [t EXCEPT !.existsTime = b] \in Template
         /\ [t EXCEPT !.idle = b] \in Template
BY DEF Template

\* CreateUserPod's new template is a template.
LEMMA NewTemplateFact ==
  /\ NewTemplate \in Template
  /\ ~NewTemplate.finalizer /\ ~NewTemplate.deleting
  /\ ~NewTemplate.existsTime /\ NewTemplate.phase = "" /\ ~NewTemplate.ready
BY DEF NewTemplate, Template, Phase

\* Adding the finalizer changes nothing else.
LEMMA WithFinalizerFact ==
  ASSUME NEW t \in Template
  PROVE  /\ WithFinalizer(t) \in Template
         /\ WithFinalizer(t).finalizer
         /\ WithFinalizer(t).deleting = t.deleting
         /\ WithFinalizer(t).existsTime = t.existsTime
         /\ WithFinalizer(t).idle = t.idle
         /\ WithFinalizer(t).phase = t.phase /\ WithFinalizer(t).ready = t.ready
<1>1. WithFinalizer(t) \in Template
  BY SetFlag DEF WithFinalizer
<1> QED
  BY <1>1 DEF WithFinalizer, Template

\* Recording the start leaves finalizer and deletion mark alone.
LEMMA StartedFact ==
  ASSUME NEW t \in Template
  PROVE  /\ Started(t) \in Template
         /\ Started(t).finalizer = t.finalizer
         /\ Started(t).deleting = t.deleting
         /\ Started(t).existsTime /\ ~Started(t).idle
         /\ Started(t).phase = t.phase /\ Started(t).ready = t.ready
<1> DEFINE r == [t EXCEPT !.existsTime = TRUE]
<1>1. r \in Template
  BY SetFlag
<1>2. [r EXCEPT !.idle = FALSE] \in Template
  BY <1>1, SetFlag
<1> QED
  BY <1>2 DEF Started, Template

\* A renewal, and its growing old, do too.
LEMMA RenewedFact ==
  ASSUME NEW t \in Template
  PROVE  /\ Renewed(t) \in Template
         /\ Renewed(t).finalizer = t.finalizer
         /\ Renewed(t).deleting = t.deleting
         /\ Renewed(t).existsTime = t.existsTime /\ ~Renewed(t).idle
         /\ Renewed(t).phase = t.phase /\ Renewed(t).ready = t.ready
<1>1. Renewed(t) \in Template
  BY SetFlag DEF Renewed
<1> QED
  BY <1>1 DEF Renewed, Template

\* When 26 minutes pass, only the idleness of a copy changes.
LEMMA AgedFact ==
  ASSUME NEW t \in Template
  PROVE  /\ Aged(t) \in Template
         /\ Aged(t).idle
         /\ Aged(t).finalizer = t.finalizer
         /\ Aged(t).deleting = t.deleting
         /\ Aged(t).existsTime = t.existsTime
         /\ Aged(t).phase = t.phase /\ Aged(t).ready = t.ready
<1>1. Aged(t) = [t EXCEPT !.idle = TRUE]
  BY DEF Aged
<1>2. Aged(t) \in Template
  BY <1>1, SetFlag
<1> QED
  BY <1>1, <1>2 DEF Template

\* So does writing a status.
LEMMA WithStatusFact ==
  ASSUME NEW t \in Template, NEW s \in Status
  PROVE  /\ WithStatus(t, s) \in Template
         /\ WithStatus(t, s).finalizer = t.finalizer
         /\ WithStatus(t, s).deleting = t.deleting
         /\ WithStatus(t, s).existsTime = t.existsTime
         /\ WithStatus(t, s).idle = t.idle
         /\ WithStatus(t, s).phase = s.phase /\ WithStatus(t, s).ready = s.ready
<1> DEFINE r == [t EXCEPT !.phase = s.phase]
           b == s.ready
<1>1. r \in Template
  BY DEF Template, Status
<1>2. b \in BOOLEAN
  BY DEF Status
<1> HIDE DEF r, b
<1>3. [r EXCEPT !.ready = b] \in Template
  BY <1>1, <1>2 DEF Template
<1>4. WithStatus(t, s) \in Template
  BY <1>3 DEF WithStatus, r, b
<1> QED
  BY <1>4 DEF WithStatus, Template

\* A DELETE marks a guarded object and removes one that is not.
LEMMA DeletedFact ==
  ASSUME NEW t \in Template
  PROVE  /\ Deleted(t) \in Template \cup {NoTemplate}
         /\ t.finalizer => /\ Deleted(t) \in Template
                           /\ Deleted(t).deleting
                           /\ Deleted(t).finalizer
                           /\ Deleted(t).existsTime = t.existsTime
                           /\ Deleted(t).idle = t.idle
                           /\ Deleted(t).phase = t.phase
                           /\ Deleted(t).ready = t.ready
         /\ ~t.finalizer => Deleted(t) = NoTemplate
<1>1. CASE t.finalizer
  <2>1. Deleted(t) = [t EXCEPT !.deleting = TRUE]
    BY <1>1 DEF Deleted
  <2>2. Deleted(t) \in Template
    BY <2>1, SetFlag
  <2> QED
    BY <1>1, <2>1, <2>2 DEF Template
<1>2. CASE ~t.finalizer
  BY <1>2 DEF Deleted
<1> QED
  BY <1>1, <1>2

\* Removing the finalizer of a template being deleted removes the template.
LEMMA WithoutFinalizerFact ==
  ASSUME NEW t \in Template
  PROVE  /\ WithoutFinalizer(t) \in Template \cup {NoTemplate}
         /\ t.deleting => WithoutFinalizer(t) = NoTemplate
BY SetFlag DEF WithoutFinalizer

\* The status syncStatus starts from is a status.
LEMMA StatusOfFact ==
  ASSUME NEW t \in Template
  PROVE  StatusOf(t) \in Status
BY DEF StatusOf, Template, Status

\* So is the one of a worker that has none.
LEMMA NoStatusFact == NoStatus \in Status
BY DEF NoStatus, Status, Phase

\* updateStatus may start: no attempt has been made.
LEMMA ZeroTries == 0 \in 0 .. StatusSteps - 1
BY DEF ReconcilerAssumption
-----------------------------------------------------------------------------
(* The facts about copies, which need no assumption on the environment. *)

CoreInv == TypeOK /\ CacheInv /\ WorkerInv /\ TTLDeleteJustified

\* What the worker may store when its copy is the newest.
LEMMA FreshFact ==
  ASSUME CoreInv, Fresh,
         pc \in {"addFinalizer", "removeFinalizer", "recordStart", "markRunning"}
  PROVE  template[key] \in Template
BY DEF CoreInv, TypeOK, ClusterTypeOK, WorkerInv, Exists, IsDeleting,
       IsGuarded, LiveSteps, Teardown

\* A write keeps the stored templates and their holders well typed.
LEMMA StoreType ==
  ASSUME ClusterTypeOK, NEW u \in User, NEW t \in Template \cup {NoTemplate},
         NEW h \in SUBSET Holder, Store(u, t, h)
  PROVE  /\ template' \in [User -> Template \cup {NoTemplate}]
         /\ atHead' \in [User -> SUBSET Holder]
BY DEF Store, ClusterTypeOK

\* The worker is well typed when Reconcile returns ...
LEMMA ReturnType ==
  ASSUME TypeOK, NEW r \in BOOLEAN, Return(r)
  PROVE  /\ pc' \in Control /\ key' \in User /\ polled' \in BOOLEAN
         /\ status' \in Status /\ tries' \in 0 .. StatusSteps - 1
         /\ queue' \in SUBSET User
BY NoStatusFact, ZeroTries DEF TypeOK, ClusterTypeOK, Return, Control

\* ... when it moves on to its next call ...
LEMMA GotoType ==
  ASSUME TypeOK, NEW step \in Control, Goto(step)
  PROVE  /\ pc' \in Control /\ key' \in User /\ polled' \in BOOLEAN
         /\ status' \in Status /\ tries' \in 0 .. StatusSteps - 1
BY DEF TypeOK, Goto

\* ... and when the checks on a template send it to a first call.
LEMMA EnterType ==
  ASSUME TypeOK, NEW step \in Control, NEW t,
         step = "readPod" => t \in Template, Enter(step, t)
  PROVE  /\ pc' \in Control /\ polled' \in BOOLEAN
         /\ status' \in Status /\ tries' \in 0 .. StatusSteps - 1
BY StatusOfFact, NoStatusFact DEF TypeOK, Enter

\* Every step of Reconcile keeps the types.
LEMMA TypeWorkStep == CoreInv /\ Work => TypeOK'
<1> SUFFICES ASSUME CoreInv, Work PROVE TypeOK'
  OBVIOUS
<1>0. TypeOK /\ ClusterTypeOK
  BY DEF CoreInv, TypeOK
<1>1. ASSUME CallFails PROVE TypeOK'
  BY <1>0, <1>1, ReturnType DEF CallFails, TypeOK, ClusterTypeOK
<1>2. ASSUME NEW u \in User, Reconcile(u) PROVE TypeOK'
  <2> DEFINE t == templateCache[u]
             next == IF t = NoTemplate THEN "idle"
                     ELSE IF t.deleting
                          THEN IF t.finalizer THEN "deletePod" ELSE "idle"
                     ELSE IF ~t.finalizer THEN "addFinalizer"
                     ELSE AfterFinalizer(t)
  <2>1. t \in Template \cup {NoTemplate}
    BY <1>0 DEF ClusterTypeOK
  <2>2. next \in Control /\ (next = "readPod" => t \in Template)
    BY <2>1 DEF Control, AfterFinalizer
  <2>3. Enter(next, t)
    BY <1>2 DEF Reconcile
  <2> HIDE DEF next, t
  <2>4. /\ pc' \in Control /\ polled' \in BOOLEAN
        /\ status' \in Status /\ tries' \in 0 .. StatusSteps - 1
    BY <1>0, <2>2, <2>3, EnterType
  <2> QED
    BY <1>0, <1>2, <2>4 DEF Reconcile, TypeOK, ClusterTypeOK, Holder
<1>3. CASE AddFinalizer
  <2>1. CASE CallFails
    BY <1>1, <2>1
  <2>2. CASE ~CallFails
    <3> DEFINE t == WithFinalizer(template[key])
    <3>1. Fresh /\ Store(key, t, {"wtTemplate"}) /\ Enter(AfterFinalizer(t), t)
      BY <1>3, <2>2 DEF AddFinalizer
    <3>2. t \in Template
      BY <1>3, <3>1, FreshFact, WithFinalizerFact DEF AddFinalizer
    <3>3. AfterFinalizer(t) \in Control
      BY DEF AfterFinalizer, Control
    <3> HIDE DEF t
    <3> QED
      BY <1>0, <1>3, <2>2, <3>1, <3>2, <3>3, EnterType, StoreType
      DEF AddFinalizer, TypeOK, ClusterTypeOK, Holder
  <2> QED
    BY <2>1, <2>2
<1>4. CASE DeletePod
  BY <1>0, <1>1, <1>4, GotoType
  DEF DeletePod, Dying, clusterVars, TypeOK, ClusterTypeOK, Pod, Control
<1>5. CASE RemoveFinalizer
  <2>1. CASE CallFails
    BY <1>1, <2>1
  <2>2. CASE ~CallFails
    <3> DEFINE t == WithoutFinalizer(template[key])
    <3>1. Fresh /\ Store(key, t, {"wtTemplate"}) /\ Return(FALSE)
      BY <1>5, <2>2 DEF RemoveFinalizer
    <3>2. t \in Template \cup {NoTemplate}
      BY <1>5, <3>1, FreshFact, WithoutFinalizerFact DEF RemoveFinalizer
    <3> HIDE DEF t
    <3> QED
      BY <1>0, <1>5, <2>2, <3>1, <3>2, ReturnType, StoreType
      DEF RemoveFinalizer, TypeOK, ClusterTypeOK, Holder
  <2> QED
    BY <2>1, <2>2
<1>6. CASE CreatePod
  BY <1>0, <1>1, <1>6, GotoType
  DEF CreatePod, clusterVars, TypeOK, ClusterTypeOK, Pod, Control
<1>7. CASE PollTimeout
  BY <1>1, <1>7 DEF PollTimeout
<1>8. CASE RecordStart
  <2>1. CASE CallFails
    BY <1>1, <2>1
  <2>2. CASE ~CallFails
    <3> DEFINE t == Started(template[key])
    <3>1. Fresh /\ Store(key, t, {"wtTemplate"}) /\ Goto("markRunning")
      BY <1>8, <2>2 DEF RecordStart
    <3>2. t \in Template
      BY <1>8, <3>1, FreshFact, StartedFact DEF RecordStart
    <3>3. "markRunning" \in Control
      BY DEF Control
    <3> HIDE DEF t
    <3> QED
      BY <1>0, <1>8, <2>2, <3>1, <3>2, <3>3, GotoType, StoreType
      DEF RecordStart, TypeOK, ClusterTypeOK, Holder
  <2> QED
    BY <2>1, <2>2
<1>9. CASE MarkRunning
  <2>1. CASE CallFails
    BY <1>1, <2>1
  <2>2. CASE ~CallFails
    <3> DEFINE s == [phase |-> "Runnings", ready |-> template[key].ready]
               t == WithStatus(template[key], s)
    <3>1. /\ Fresh /\ Return(FALSE)
          /\ \/ UNCHANGED <<template, atHead>>
             \/ Store(key, t, {"wtTemplate"})
      BY <1>9, <2>2 DEF MarkRunning
    <3>2. template[key] \in Template
      BY <1>9, <3>1, FreshFact DEF MarkRunning
    <3>3. s \in Status
      BY <3>2 DEF Template, Status, Phase
    <3>4. t \in Template
      BY <3>2, <3>3, WithStatusFact
    <3> HIDE DEF t
    <3> QED
      BY <1>0, <1>9, <2>2, <3>1, <3>4, ReturnType, StoreType
      DEF MarkRunning, TypeOK, ClusterTypeOK, Holder
  <2> QED
    BY <2>1, <2>2
<1>10. CASE TTLDelete
  <2>1. CASE CallFails
    BY <1>1, <2>1
  <2>2. CASE ~CallFails
    <3> DEFINE t == Deleted(template[key])
    <3>1. /\ Exists(key) /\ Return(FALSE)
          /\ \/ UNCHANGED <<template, atHead>>
             \/ Store(key, t, {})
      BY <1>10, <2>2 DEF TTLDelete
    <3>2. t \in Template \cup {NoTemplate}
      BY <1>0, <3>1, DeletedFact DEF Exists, TypeOK, ClusterTypeOK
    <3> HIDE DEF t
    <3> QED
      BY <1>0, <1>10, <2>2, <3>1, <3>2, ReturnType, StoreType
      DEF TTLDelete, TypeOK, ClusterTypeOK, Holder
  <2> QED
    BY <2>1, <2>2
<1>11. CASE ReadPod
  <2> SUFFICES status' \in Status
    BY <1>0, <1>11 DEF ReadPod, clusterVars, TypeOK, ClusterTypeOK, Control
  <2> DEFINE r == SeenPod(key) \in PodReady
  <2>1. CASE SeenPod(key) = "absent"
    <3>1. status' = [phase |-> "Stopped", ready |-> status.ready]
      BY <1>11, <2>1 DEF ReadPod
    <3>2. status.ready \in BOOLEAN
      BY <1>0 DEF TypeOK, Status
    <3> QED
      BY <3>1, <3>2 DEF Status, Phase
  <2>2. CASE SeenPod(key) # "absent"
    <3>1. status' = [phase |-> "Runnings", ready |-> r]
      BY <1>11, <2>2 DEF ReadPod
    <3>2. r \in BOOLEAN
      OBVIOUS
    <3> HIDE DEF r
    <3> QED
      BY <3>1, <3>2 DEF Status, Phase
  <2> QED
    BY <2>1, <2>2
<1>12. CASE UpdateStatus
  <2> DEFINE t == WithStatus(template[key], status)
  <2>1. CASE Exists(key) /\ Return(TRUE) /\ Store(key, t, {})
             /\ UNCHANGED <<templateCache, pod, podCache>>
    <3>1. t \in Template
      BY <1>0, <2>1, WithStatusFact DEF Exists, TypeOK, ClusterTypeOK
    <3> HIDE DEF t
    <3> QED
      BY <1>0, <2>1, <3>1, ReturnType, StoreType DEF TypeOK, ClusterTypeOK, Holder
  <2>2. ASSUME NEW r \in BOOLEAN, Return(r),
               UNCHANGED <<template, templateCache, atHead, pod, podCache>>
        PROVE  TypeOK'
    BY <1>0, <2>2, ReturnType DEF TypeOK, ClusterTypeOK
  <2>3. CASE /\ tries + 1 # StatusSteps /\ tries' = tries + 1
             /\ UNCHANGED <<clusterVars, pc, key, polled, status>>
    <3>1. tries' \in 0 .. StatusSteps - 1
      BY <1>0, <2>3 DEF TypeOK, ReconcilerAssumption
    <3> QED
      BY <1>0, <2>3, <3>1 DEF clusterVars, TypeOK, ClusterTypeOK
  <2> QED
    BY <1>12, <2>1, <2>2, <2>3 DEF UpdateStatus, LastTry
<1> QED
  BY <1>2, <1>3, <1>4, <1>5, <1>6, <1>7, <1>8, <1>9, <1>10, <1>11, <1>12
  DEF Work

\* So does every step of the other clients, the caches and the kubelet.
LEMMA TypeEnvironmentStep ==
  ASSUME ClusterTypeOK, NEW u \in User, Environment(u)
  PROVE  ClusterTypeOK'
<1> USE DEF ClusterTypeOK
<1>0. template[u] \in Template \cup {NoTemplate}
  OBVIOUS
<1>1. CASE CreateTemplate(u)
  BY <1>1, NewTemplateFact DEF CreateTemplate, Store
<1>2. CASE Renewtime(u)
  BY <1>0, <1>2, RenewedFact, StoreType DEF Renewtime, Exists
<1>3. CASE DeleteTemplate(u)
  BY <1>0, <1>3, DeletedFact, StoreType DEF DeleteTemplate, Exists
<1>4. CASE EvictPod(u)
  BY <1>4 DEF EvictPod, Dying, Pod
<1>5. CASE SyncTemplate(u)
  BY <1>5 DEF SyncTemplate, Holder
<1>6. CASE SyncPod(u)
  BY <1>6 DEF SyncPod
<1>7. CASE GrowIdle(u)
  <2>1. Aged(template[u]) \in Template
    BY <1>0, <1>7, AgedFact DEF GrowIdle, Exists
  <2>2. Aged(templateCache[u]) \in Template \cup {NoTemplate}
    <3>1. CASE templateCache[u] = NoTemplate
      BY <3>1 DEF Aged
    <3>2. CASE templateCache[u] # NoTemplate
      BY <3>2, AgedFact
    <3> QED
      BY <3>1, <3>2
  <2> QED
    BY <1>7, <2>1, <2>2 DEF GrowIdle
<1>8. CASE PodStarts(u)
  BY <1>8 DEF PodStarts, Pod
<1>9. CASE PodFails(u)
  BY <1>9 DEF PodFails, Pod
<1>10. CASE PodGone(u)
  BY <1>10 DEF PodGone, Pod
<1> QED
  BY <1>1, <1>2, <1>3, <1>4, <1>5, <1>6, <1>7, <1>8, <1>9, <1>10 DEF Environment

\* So does every step, the restart of the process included.
LEMMA TypeStep == CoreInv /\ [Next]_vars => TypeOK'
<1> SUFFICES ASSUME CoreInv, [Next]_vars PROVE TypeOK'
  OBVIOUS
<1>0. TypeOK /\ ClusterTypeOK
  BY DEF CoreInv, TypeOK
<1>1. CASE Work
  BY <1>1, TypeWorkStep
<1>2. CASE Others
  <2>1. ASSUME Resync PROVE ClusterTypeOK'
    BY <1>0, <2>1 DEF Resync, ClusterTypeOK
  <2> QED
    BY <1>0, <1>2, <2>1, TypeEnvironmentStep DEF Others, workerVars, TypeOK
<1>3. CASE Restart
  BY <1>0, <1>3, NoStatusFact, ZeroTries
  DEF Restart, TypeOK, ClusterTypeOK, Control, Holder
<1>4. CASE UNCHANGED vars
  BY <1>0, <1>4 DEF vars, clusterVars, workerVars, TypeOK, ClusterTypeOK
<1> QED
  BY <1>1, <1>2, <1>3, <1>4 DEF Next

\* A write that keeps finalizer and deletion mark, or advances them, leaves
\* the cache in order.
LEMMA StoreCache ==
  ASSUME TypeOK, CacheInv, NEW u \in User, NEW t \in Template \cup {NoTemplate},
         NEW h \in SUBSET Holder, "cache" \notin h, Store(u, t, h),
         UNCHANGED templateCache,
         IsDeleting(t) => t.finalizer,
         IsGuarded(templateCache[u]) /\ ~IsDeleting(templateCache[u])
           => IsGuarded(t)
  PROVE  CacheInv'
BY DEF TypeOK, ClusterTypeOK, CacheInv, Store

\* What relates cache and store survives when neither changes.
LEMMA SameCache ==
  ASSUME CacheInv, UNCHANGED <<template, templateCache, atHead>>
  PROVE  CacheInv'
BY DEF CacheInv

\* While it is idle, nothing is claimed of the worker's copy.
LEMMA IdleWorker ==
  ASSUME pc' = "idle"
  PROVE  WorkerInv' /\ TTLDeleteJustified'
BY DEF WorkerInv, TTLDeleteJustified, LiveSteps, Teardown

\* Each call Reconcile makes keeps what it knows of the stored template, and
\* keeps the TTL deletion justified.
LEMMA CoreWorkStep == CoreInv /\ Work => (CacheInv /\ WorkerInv /\ TTLDeleteJustified)'
<1> SUFFICES ASSUME CoreInv, Work
             PROVE  CacheInv' /\ WorkerInv' /\ TTLDeleteJustified'
  OBVIOUS
<1>0. /\ TypeOK /\ ClusterTypeOK /\ CacheInv /\ WorkerInv /\ TTLDeleteJustified
      /\ key \in User /\ template[key] \in Template \cup {NoTemplate}
  BY DEF CoreInv, TypeOK, ClusterTypeOK
<1>1. ASSUME CallFails PROVE CacheInv' /\ WorkerInv' /\ TTLDeleteJustified'
  BY <1>0, <1>1, SameCache, IdleWorker DEF CallFails, Return
<1>2. ASSUME NEW u \in User, Reconcile(u)
      PROVE  CacheInv' /\ WorkerInv' /\ TTLDeleteJustified'
  <2>1. CacheInv'
    BY <1>0, <1>2 DEF Reconcile, CacheInv, Holder, ClusterTypeOK
  <2>2. WorkerInv'
    BY <1>0, <1>2
    DEF Reconcile, Enter, AfterFinalizer, WorkerInv, CacheInv, Fresh, Exists,
        IsDeleting, IsGuarded, LiveSteps, Teardown, ClusterTypeOK
  <2>3. TTLDeleteJustified'
    BY <1>0, <1>2
    DEF Reconcile, Enter, AfterFinalizer, TTLDeleteJustified, CacheInv, Fresh,
        Exists, ClusterTypeOK
  <2> QED
    BY <2>1, <2>2, <2>3
<1>3. CASE AddFinalizer
  <2>1. CASE CallFails
    BY <1>1, <2>1
  <2>2. CASE ~CallFails
    <3> DEFINE t == WithFinalizer(template[key])
    <3>1. /\ Fresh /\ Store(key, t, {"wtTemplate"}) /\ Enter(AfterFinalizer(t), t)
          /\ UNCHANGED <<templateCache, key>> /\ pc = "addFinalizer"
      BY <1>3, <2>2 DEF AddFinalizer
    <3>2. /\ template[key] \in Template /\ ~template[key].deleting
          /\ ~IsDeleting(templateCache[key])
      BY <1>0, <3>1, FreshFact DEF WorkerInv, IsDeleting, Exists, CoreInv
    <3>3. t \in Template /\ t.finalizer /\ ~t.deleting
      BY <3>2, WithFinalizerFact
    <3> HIDE DEF t
    <3>4. CacheInv'
      BY <1>0, <3>1, <3>3, StoreCache DEF IsGuarded, IsDeleting, Holder
    <3>5. template'[key] = t
      BY <1>0, <3>1 DEF Store, ClusterTypeOK
    <3>6. WorkerInv'
      BY <3>1, <3>2, <3>3, <3>5
      DEF Enter, AfterFinalizer, WorkerInv, LiveSteps, Teardown, IsGuarded,
          IsDeleting
    <3>7. TTLDeleteJustified'
      BY <3>1, <3>3, <3>5 DEF Enter, AfterFinalizer, TTLDeleteJustified, Exists
    <3> QED
      BY <3>4, <3>6, <3>7
  <2> QED
    BY <2>1, <2>2
<1>4. CASE DeletePod
  <2>1. CASE CallFails
    BY <1>1, <2>1
  <2>2. CASE ~CallFails
    <3>1. /\ UNCHANGED <<template, templateCache, atHead, key>>
          /\ pc \in Teardown /\ pc' \in Teardown
      BY <1>4, <2>2 DEF DeletePod, Goto, clusterVars, Teardown
    <3> QED
      BY <1>0, <3>1, SameCache
      DEF WorkerInv, TTLDeleteJustified, LiveSteps, Teardown, Fresh
  <2> QED
    BY <2>1, <2>2
<1>5. CASE RemoveFinalizer
  <2>1. CASE CallFails
    BY <1>1, <2>1
  <2>2. CASE ~CallFails
    <3>1. /\ Fresh /\ Store(key, WithoutFinalizer(template[key]), {"wtTemplate"})
          /\ UNCHANGED templateCache /\ pc' = "idle" /\ pc = "removeFinalizer"
      BY <1>5, <2>2 DEF RemoveFinalizer, Return
    <3>2. IsDeleting(template[key]) /\ IsDeleting(templateCache[key])
      BY <1>0, <3>1 DEF WorkerInv, Teardown
    <3>3. WithoutFinalizer(template[key]) = NoTemplate
      BY <1>0, <3>2, WithoutFinalizerFact DEF IsDeleting
    <3>4. CacheInv'
      BY <1>0, <3>1, <3>2, <3>3, StoreCache DEF IsDeleting, Holder
    <3> QED
      BY <3>1, <3>4, IdleWorker
  <2> QED
    BY <2>1, <2>2
<1>6. CASE CreatePod
  <2>1. CASE CallFails
    BY <1>1, <2>1
  <2>2. CASE ~CallFails
    <3>1. /\ UNCHANGED <<template, templateCache, atHead, key>>
          /\ pc = "createPod" /\ pc' \in {"createPod", "recordStart"}
      BY <1>6, <2>2 DEF CreatePod, Goto, clusterVars
    <3> QED
      BY <1>0, <3>1, SameCache
      DEF WorkerInv, TTLDeleteJustified, LiveSteps, Teardown, Fresh
  <2> QED
    BY <2>1, <2>2
<1>7. CASE PollTimeout
  BY <1>1, <1>7 DEF PollTimeout
<1>8. CASE RecordStart
  <2>1. CASE CallFails
    BY <1>1, <2>1
  <2>2. CASE ~CallFails
    <3> DEFINE t == Started(template[key])
    <3>1. /\ Fresh /\ Store(key, t, {"wtTemplate"}) /\ Goto("markRunning")
          /\ UNCHANGED <<templateCache, key>> /\ pc = "recordStart"
      BY <1>8, <2>2 DEF RecordStart, Goto
    <3>2. template[key] \in Template /\ IsGuarded(template[key])
      BY <1>0, <3>1, FreshFact DEF WorkerInv, LiveSteps, CoreInv
    <3>3. /\ t \in Template /\ t.finalizer = template[key].finalizer
          /\ t.deleting = template[key].deleting
      BY <3>2, StartedFact
    <3> HIDE DEF t
    <3>4. CacheInv'
      BY <1>0, <3>1, <3>2, <3>3, StoreCache DEF IsGuarded, IsDeleting, Holder
    <3>5. template'[key] = t
      BY <1>0, <3>1 DEF Store, ClusterTypeOK
    <3>6. WorkerInv' /\ TTLDeleteJustified'
      BY <1>0, <3>1, <3>2, <3>3, <3>5
      DEF Goto, WorkerInv, TTLDeleteJustified, LiveSteps, Teardown, IsGuarded,
          IsDeleting
    <3> QED
      BY <3>4, <3>6
  <2> QED
    BY <2>1, <2>2
<1>9. CASE MarkRunning
  <2>1. CASE CallFails
    BY <1>1, <2>1
  <2>2. CASE ~CallFails
    <3> DEFINE s == [phase |-> "Runnings", ready |-> template[key].ready]
               t == WithStatus(template[key], s)
    <3>1. /\ Fresh /\ pc' = "idle" /\ UNCHANGED templateCache /\ pc = "markRunning"
          /\ \/ UNCHANGED <<template, atHead>>
             \/ Store(key, t, {"wtTemplate"})
      BY <1>9, <2>2 DEF MarkRunning, Return
    <3>2. template[key] \in Template /\ IsGuarded(template[key])
      BY <1>0, <3>1, FreshFact DEF WorkerInv, LiveSteps, CoreInv
    <3>3. s \in Status
      BY <3>2 DEF Template, Status, Phase
    <3>4. /\ t \in Template /\ t.finalizer = template[key].finalizer
          /\ t.deleting = template[key].deleting
      BY <3>2, <3>3, WithStatusFact
    <3> HIDE DEF t
    <3>5. CacheInv'
      BY <1>0, <3>1, <3>2, <3>4, SameCache, StoreCache
      DEF IsGuarded, IsDeleting, Holder
    <3> QED
      BY <3>1, <3>5, IdleWorker
  <2> QED
    BY <2>1, <2>2
<1>10. CASE TTLDelete
  <2>1. CASE CallFails
    BY <1>1, <2>1
  <2>2. CASE ~CallFails
    <3> DEFINE t == Deleted(template[key])
    <3>1. /\ Exists(key) /\ pc' = "idle" /\ UNCHANGED templateCache /\ pc = "ttlDelete"
          /\ \/ UNCHANGED <<template, atHead>>
             \/ Store(key, t, {})
      BY <1>10, <2>2 DEF TTLDelete, Return
    <3>2. IsGuarded(template[key])
      BY <1>0, <3>1 DEF WorkerInv, LiveSteps
    <3>3. t \in Template /\ t.finalizer
      BY <1>0, <3>2, DeletedFact DEF IsGuarded
    <3> HIDE DEF t
    <3>4. CacheInv'
      BY <1>0, <3>1, <3>3, SameCache, StoreCache DEF IsGuarded, IsDeleting, Holder
    <3> QED
      BY <3>1, <3>4, IdleWorker
  <2> QED
    BY <2>1, <2>2
<1>11. CASE ReadPod
  BY <1>0, <1>11, SameCache
  DEF ReadPod, clusterVars, WorkerInv, TTLDeleteJustified, LiveSteps, Teardown,
      Fresh
<1>12. CASE UpdateStatus
  <2> DEFINE t == WithStatus(template[key], status)
  <2>1. CASE Exists(key) /\ Return(TRUE) /\ Store(key, t, {})
             /\ UNCHANGED templateCache
    <3>1. /\ t \in Template /\ t.finalizer = template[key].finalizer
          /\ t.deleting = template[key].deleting
      BY <1>0, <2>1, WithStatusFact DEF Exists, TypeOK
    <3>2. IsGuarded(template[key])
      BY <1>0, <1>12 DEF UpdateStatus, WorkerInv, LiveSteps
    <3> HIDE DEF t
    <3>3. CacheInv'
      BY <1>0, <2>1, <3>1, <3>2, StoreCache DEF IsGuarded, IsDeleting, Holder
    <3> QED
      BY <2>1, <3>3, IdleWorker DEF Return
  <2>2. ASSUME NEW r \in BOOLEAN, Return(r),
               UNCHANGED <<template, templateCache, atHead>>
        PROVE  CacheInv' /\ WorkerInv' /\ TTLDeleteJustified'
    BY <1>0, <2>2, SameCache, IdleWorker DEF Return
  <2>3. CASE UNCHANGED <<clusterVars, pc, key, polled, status>>
    BY <1>0, <2>3, SameCache
    DEF clusterVars, WorkerInv, TTLDeleteJustified, Fresh, Exists
  <2> QED
    BY <1>12, <2>1, <2>2, <2>3 DEF UpdateStatus
<1> QED
  BY <1>2, <1>3, <1>4, <1>5, <1>6, <1>7, <1>8, <1>9, <1>10, <1>11, <1>12
  DEF Work

\* What others store for u makes the worker's copy stale and keeps what it
\* relies on.
LEMMA StoreWorker ==
  ASSUME CoreInv, NEW u \in User, NEW t \in Template \cup {NoTemplate},
         Store(u, t, {}), UNCHANGED <<templateCache, workerVars>>,
         IsGuarded(template[u]) => IsGuarded(t),
         IsDeleting(template[u]) => IsDeleting(t)
  PROVE  WorkerInv' /\ TTLDeleteJustified'
BY DEF CoreInv, TypeOK, ClusterTypeOK, WorkerInv, TTLDeleteJustified, Store,
       Fresh, Exists, IsGuarded, IsDeleting, workerVars

\* Nothing others do takes from the worker what it knows.
LEMMA CoreEnvironmentStep ==
  ASSUME CoreInv, NEW u \in User, Environment(u), UNCHANGED workerVars
  PROVE  CacheInv' /\ WorkerInv' /\ TTLDeleteJustified'
<1>0. /\ TypeOK /\ ClusterTypeOK /\ CacheInv /\ WorkerInv /\ TTLDeleteJustified
      /\ key \in User /\ template[u] \in Template \cup {NoTemplate}
      /\ templateCache[u] \in Template \cup {NoTemplate}
  BY DEF CoreInv, TypeOK, ClusterTypeOK
<1>1. ASSUME UNCHANGED <<template, templateCache, atHead>>
      PROVE  CacheInv' /\ WorkerInv' /\ TTLDeleteJustified'
  BY <1>0, <1>1, SameCache
  DEF WorkerInv, TTLDeleteJustified, Fresh, Exists, workerVars
<1>2. CASE CreateTemplate(u)
  <2>1. /\ Store(u, NewTemplate, {}) /\ UNCHANGED templateCache
        /\ template[u] = NoTemplate
    BY <1>2 DEF CreateTemplate, Exists
  <2>2. ~IsGuarded(template[u]) /\ ~IsDeleting(template[u])
    BY <2>1 DEF IsGuarded, IsDeleting
  <2>3. IsGuarded(templateCache[u]) => IsDeleting(templateCache[u])
    BY <1>0, <2>2 DEF CacheInv
  <2> QED
    BY <1>0, <2>1, <2>2, <2>3, NewTemplateFact, StoreCache, StoreWorker
    DEF IsDeleting, Holder
<1>3. CASE Renewtime(u)
  <2> DEFINE t == Renewed(template[u])
  <2>1. Store(u, t, {}) /\ UNCHANGED templateCache /\ template[u] \in Template
    BY <1>0, <1>3 DEF Renewtime, Exists
  <2>2. /\ t \in Template /\ t.finalizer = template[u].finalizer
        /\ t.deleting = template[u].deleting
    BY <2>1, RenewedFact
  <2>3. t # NoTemplate /\ template[u] # NoTemplate
    BY <2>1, <2>2 DEF ClusterAssumption
  <2> HIDE DEF t
  <2> QED
    BY <1>0, <2>1, <2>2, <2>3, StoreCache, StoreWorker
    DEF IsDeleting, IsGuarded, CacheInv, Holder
<1>4. CASE DeleteTemplate(u)
  <2> DEFINE t == Deleted(template[u])
  <2>1. /\ Store(u, t, {}) /\ UNCHANGED templateCache
        /\ template[u] \in Template /\ ~template[u].deleting
    BY <1>0, <1>4 DEF DeleteTemplate, Exists
  <2>2. /\ t \in Template \cup {NoTemplate}
        /\ template[u].finalizer => t \in Template /\ t.deleting /\ t.finalizer
        /\ ~template[u].finalizer => t = NoTemplate
    BY <2>1, DeletedFact
  <2>3. template[u].finalizer => t # NoTemplate
    BY <2>2 DEF ClusterAssumption
  <2> HIDE DEF t
  <2> QED
    BY <1>0, <2>1, <2>2, <2>3, StoreCache, StoreWorker
    DEF IsDeleting, IsGuarded, CacheInv, Holder
<1>5. CASE SyncTemplate(u)
  <2>1. CacheInv'
    BY <1>0, <1>5 DEF SyncTemplate, CacheInv, ClusterTypeOK, IsGuarded, IsDeleting
  <2>2. WorkerInv' /\ TTLDeleteJustified'
    BY <1>0, <1>5
    DEF SyncTemplate, WorkerInv, TTLDeleteJustified, ClusterTypeOK, Fresh,
        Exists, workerVars
  <2> QED
    BY <2>1, <2>2
<1>6. CASE GrowIdle(u)
  <2>1. /\ template' = [template EXCEPT ![u] = Aged(template[u])]
        /\ templateCache' = [templateCache EXCEPT ![u] = Aged(templateCache[u])]
        /\ UNCHANGED atHead /\ template[u] \in Template
    BY <1>0, <1>6 DEF GrowIdle, Exists
  <2>2. ASSUME NEW s \in Template \cup {NoTemplate}
        PROVE  /\ Aged(s) = NoTemplate <=> s = NoTemplate
               /\ s # NoTemplate => /\ Aged(s).finalizer = s.finalizer
                                    /\ Aged(s).deleting = s.deleting
                                    /\ Aged(s).existsTime = s.existsTime
                                    /\ Aged(s).idle
    <3>1. CASE s = NoTemplate
      BY <3>1 DEF Aged
    <3>2. CASE s # NoTemplate
      BY <3>2, AgedFact DEF ClusterAssumption
    <3> QED
      BY <3>1, <3>2
  <2>3. /\ IsDeleting(Aged(template[u])) <=> IsDeleting(template[u])
        /\ IsGuarded(Aged(template[u])) <=> IsGuarded(template[u])
        /\ IsDeleting(Aged(templateCache[u])) <=> IsDeleting(templateCache[u])
        /\ IsGuarded(Aged(templateCache[u])) <=> IsGuarded(templateCache[u])
    BY <1>0, <2>2 DEF IsDeleting, IsGuarded
  <2>4. CacheInv'
    BY <1>0, <2>1, <2>2, <2>3 DEF CacheInv, ClusterTypeOK, IsDeleting
  <2>5. WorkerInv' /\ TTLDeleteJustified'
    BY <1>0, <2>1, <2>2, <2>3
    DEF WorkerInv, TTLDeleteJustified, ClusterTypeOK, Fresh, Exists, workerVars
  <2> QED
    BY <2>4, <2>5
<1>7. CASE EvictPod(u) \/ SyncPod(u) \/ PodStarts(u) \/ PodFails(u) \/ PodGone(u)
  BY <1>1, <1>7 DEF EvictPod, SyncPod, PodStarts, PodFails, PodGone
<1> QED
  BY <1>2, <1>3, <1>4, <1>5, <1>6, <1>7 DEF Environment

\* The facts about copies hold on an empty cluster ...
LEMMA CoreInit == Init => CoreInv
<1> SUFFICES ASSUME Init PROVE CoreInv
  OBVIOUS
<1>1. TypeOK
  BY NoStatusFact, ZeroTries
  DEF Init, ClusterInit, TypeOK, ClusterTypeOK, Pod, Control, Holder
<1>2. CacheInv
  BY DEF Init, ClusterInit, CacheInv, IsDeleting, IsGuarded
<1>3. WorkerInv /\ TTLDeleteJustified
  BY DEF Init, WorkerInv, TTLDeleteJustified, LiveSteps, Teardown
<1> QED
  BY <1>1, <1>2, <1>3 DEF CoreInv

\* ... and every step keeps them: they are inductive.
LEMMA CoreStep == CoreInv /\ [Next]_vars => CoreInv'
<1> SUFFICES ASSUME CoreInv, [Next]_vars
             PROVE  (CacheInv /\ WorkerInv /\ TTLDeleteJustified)'
  BY TypeStep DEF CoreInv
<1>0. TypeOK /\ ClusterTypeOK /\ CacheInv /\ WorkerInv /\ TTLDeleteJustified
  BY DEF CoreInv, TypeOK
<1>1. ASSUME UNCHANGED <<template, templateCache, atHead, workerVars>>
      PROVE  (CacheInv /\ WorkerInv /\ TTLDeleteJustified)'
  BY <1>0, <1>1, SameCache
  DEF WorkerInv, TTLDeleteJustified, Fresh, Exists, workerVars
<1>2. CASE Work
  BY <1>2, CoreWorkStep
<1>3. CASE Others
  BY <1>1, <1>3, CoreEnvironmentStep DEF Others, Resync
<1>4. CASE Restart
  <2>1. CacheInv'
    BY <1>0, <1>4 DEF Restart, CacheInv, IsGuarded, IsDeleting
  <2> QED
    BY <1>4, <2>1, IdleWorker DEF Restart
<1>5. CASE UNCHANGED vars
  BY <1>1, <1>5 DEF vars, clusterVars
<1> QED
  BY <1>2, <1>3, <1>4, <1>5 DEF Next
-----------------------------------------------------------------------------
(* What a step may do to a template, and to the cached copy of it. *)

\* The writes of the others, of time, and, at each call, of the worker.
Change(u) ==
  LET t == template[u]
  IN \/ template'[u] = t
     \/ t = NoTemplate /\ template'[u] = NewTemplate
     \/ t \in Template /\ template'[u] = Renewed(t)
     \/ t \in Template /\ GrowIdle(u) /\ template'[u] = Aged(t)
     \/ t \in Template /\ ~t.deleting /\ template'[u] = Deleted(t)
     \/ /\ u = key /\ t \in Template
        /\ \/ pc = "addFinalizer" /\ template'[u] = WithFinalizer(t)
           \/ pc = "removeFinalizer" /\ Fresh /\ template'[u] = NoTemplate
           \/ pc = "recordStart" /\ template'[u] = Started(t)
           \/ /\ pc = "markRunning"
              /\ template'[u] = WithStatus(t, [phase |-> "Runnings", ready |-> t.ready])
           \/ pc = "updateStatus" /\ template'[u] = WithStatus(t, status)

\* The worker writes to its own template only, and only what its call says.
LEMMA WorkChange ==
  ASSUME CoreInv, Work, NEW u \in User
  PROVE  Change(u)
<1>0. /\ ClusterTypeOK /\ CacheInv /\ WorkerInv
      /\ key \in User /\ template[key] \in Template \cup {NoTemplate}
  BY DEF CoreInv, TypeOK, ClusterTypeOK
<1>1. ASSUME UNCHANGED template PROVE Change(u)
  BY <1>1 DEF Change
<1>2. ASSUME NEW t, NEW h, Store(key, t, h)
      PROVE  IF u = key THEN template'[u] = t ELSE template'[u] = template[u]
  BY <1>0, <1>2 DEF Store, ClusterTypeOK
<1>3. CASE AddFinalizer
  <2>1. CASE CallFails
    BY <1>1, <2>1 DEF CallFails
  <2>2. CASE ~CallFails
    <3>1. /\ pc = "addFinalizer" /\ Fresh
          /\ Store(key, WithFinalizer(template[key]), {"wtTemplate"})
      BY <1>3, <2>2 DEF AddFinalizer
    <3> QED
      BY <1>2, <3>1, FreshFact DEF Change
  <2> QED
    BY <2>1, <2>2
<1>4. CASE RemoveFinalizer
  <2>1. CASE CallFails
    BY <1>1, <2>1 DEF CallFails
  <2>2. CASE ~CallFails
    <3>1. /\ pc = "removeFinalizer" /\ Fresh
          /\ Store(key, WithoutFinalizer(template[key]), {"wtTemplate"})
      BY <1>4, <2>2 DEF RemoveFinalizer
    <3>2. WithoutFinalizer(template[key]) = NoTemplate
      BY <1>0, <3>1, WithoutFinalizerFact DEF WorkerInv, Teardown, IsDeleting
    <3> QED
      BY <1>2, <3>1, <3>2, FreshFact DEF Change
  <2> QED
    BY <2>1, <2>2
<1>5. CASE RecordStart
  <2>1. CASE CallFails
    BY <1>1, <2>1 DEF CallFails
  <2>2. CASE ~CallFails
    <3>1. /\ pc = "recordStart" /\ Fresh
          /\ Store(key, Started(template[key]), {"wtTemplate"})
      BY <1>5, <2>2 DEF RecordStart
    <3> QED
      BY <1>2, <3>1, FreshFact DEF Change
  <2> QED
    BY <2>1, <2>2
<1>6. CASE MarkRunning
  <2> DEFINE t == WithStatus(template[key], [phase |-> "Runnings",
                                             ready |-> template[key].ready])
  <2>1. CASE CallFails \/ UNCHANGED template
    BY <1>1, <2>1 DEF CallFails
  <2>2. CASE ~(CallFails \/ UNCHANGED template)
    <3>1. pc = "markRunning" /\ Fresh /\ Store(key, t, {"wtTemplate"})
      BY <1>6, <2>2 DEF MarkRunning
    <3> QED
      BY <1>2, <3>1, FreshFact DEF Change
  <2> QED
    BY <2>1, <2>2
<1>7. CASE TTLDelete
  <2>1. CASE CallFails \/ UNCHANGED template
    BY <1>1, <2>1 DEF CallFails
  <2>2. CASE ~(CallFails \/ UNCHANGED template)
    <3>1. /\ template[key] # NoTemplate /\ ~template[key].deleting
          /\ Store(key, Deleted(template[key]), {})
      BY <1>7, <2>2 DEF TTLDelete, Exists
    <3> QED
      BY <1>0, <1>2, <3>1 DEF Change
  <2> QED
    BY <2>1, <2>2
<1>8. CASE UpdateStatus
  <2>1. CASE UNCHANGED template
    BY <1>1, <2>1
  <2>2. CASE ~UNCHANGED template
    <3>1. /\ pc = "updateStatus" /\ template[key] # NoTemplate
          /\ Store(key, WithStatus(template[key], status), {})
      BY <1>8, <2>2 DEF UpdateStatus, Exists, clusterVars
    <3> QED
      BY <1>0, <1>2, <3>1 DEF Change
  <2> QED
    BY <2>1, <2>2
<1>9. CASE \/ \E v \in User : Reconcile(v)
           \/ DeletePod \/ CreatePod \/ PollTimeout \/ ReadPod
  BY <1>1, <1>9
  DEF Reconcile, DeletePod, CreatePod, PollTimeout, ReadPod, CallFails, clusterVars
<1> QED
  BY <1>3, <1>4, <1>5, <1>6, <1>7, <1>8, <1>9 DEF Work

\* And the others do only what Cluster says.
LEMMA ChangeFact ==
  ASSUME CoreInv, [Next]_vars, NEW u \in User
  PROVE  Change(u)
<1>0. /\ ClusterTypeOK
      /\ \A v \in User : template[v] \in Template \cup {NoTemplate}
  BY DEF CoreInv, TypeOK, ClusterTypeOK
<1>1. ASSUME UNCHANGED template PROVE Change(u)
  BY <1>1 DEF Change
<1>2. ASSUME NEW v \in User, Environment(v) PROVE Change(u)
  <2>1. CASE CreateTemplate(v)
    BY <1>0, <2>1 DEF CreateTemplate, Store, Exists, ClusterTypeOK, Change
  <2>2. CASE Renewtime(v)
    BY <1>0, <2>2 DEF Renewtime, Store, Exists, ClusterTypeOK, Change
  <2>3. CASE DeleteTemplate(v)
    BY <1>0, <2>3 DEF DeleteTemplate, Store, Exists, ClusterTypeOK, Change
  <2>4. CASE GrowIdle(v)
    <3>1. /\ template[v] \in Template
          /\ template' = [template EXCEPT ![v] = Aged(@)]
      BY <1>0, <2>4 DEF GrowIdle, Exists
    <3>2. CASE u = v
      BY <1>0, <2>4, <3>1, <3>2 DEF ClusterTypeOK, Change
    <3>3. CASE u # v
      BY <1>0, <3>1, <3>3 DEF ClusterTypeOK, Change
    <3> QED
      BY <3>2, <3>3
  <2>5. CASE \/ SyncTemplate(v) \/ EvictPod(v) \/ SyncPod(v)
             \/ PodStarts(v) \/ PodFails(v) \/ PodGone(v)
    BY <1>1, <2>5
    DEF SyncTemplate, EvictPod, SyncPod, PodStarts, PodFails, PodGone
  <2> QED
    BY <1>2, <2>1, <2>2, <2>3, <2>4, <2>5 DEF Environment
<1>3. CASE Others
  BY <1>1, <1>2, <1>3 DEF Others, Resync
<1>4. CASE Restart \/ UNCHANGED vars
  BY <1>1, <1>4 DEF Restart, vars, clusterVars
<1> QED
  BY <1>3, <1>4, WorkChange DEF Next

\* The cached copy stays, grows old, or becomes the stored template, which no
\* step changes at the same time.
LEMMA CachedFact ==
  ASSUME CoreInv, [Next]_vars, NEW u \in User
  PROVE  \/ templateCache'[u] = templateCache[u]
         \/ templateCache'[u] = Aged(templateCache[u])
         \/ templateCache'[u] = template[u] /\ template'[u] = template[u]
<1>0. ClusterTypeOK
  BY DEF CoreInv, TypeOK
<1>1. CASE UNCHANGED templateCache
  BY <1>1
<1>2. ASSUME NEW v \in User, SyncTemplate(v) \/ GrowIdle(v)
      PROVE  \/ templateCache'[u] = templateCache[u]
             \/ templateCache'[u] = Aged(templateCache[u])
             \/ templateCache'[u] = template[u] /\ template'[u] = template[u]
  BY <1>0, <1>2 DEF SyncTemplate, GrowIdle, ClusterTypeOK
<1>3. CASE Restart
  BY <1>3 DEF Restart
<1>4. CASE Work
  BY <1>1, <1>4
  DEF Work, Reconcile, AddFinalizer, DeletePod, RemoveFinalizer, CreatePod,
      PollTimeout, RecordStart, MarkRunning, TTLDelete, ReadPod, UpdateStatus,
      CallFails, clusterVars
<1>5. CASE Others
  BY <1>1, <1>2, <1>5
  DEF Others, Resync, Environment, CreateTemplate, Renewtime, DeleteTemplate,
      EvictPod, SyncPod, PodStarts, PodFails, PodGone
<1>6. CASE UNCHANGED vars
  BY <1>1, <1>6 DEF vars, clusterVars
<1> QED
  BY <1>3, <1>4, <1>5, <1>6 DEF Next
-----------------------------------------------------------------------------
(* What a template says of its pod. *)

\* A started template stays started, until its finalizer is removed.
LEMMA StartKept ==
  ASSUME CoreInv, [Next]_vars, StatusEarned, NEW u \in User,
         template[u] # NoTemplate, template[u].existsTime,
         ~(pc = "removeFinalizer" /\ u = key /\ Fresh)
  PROVE  template'[u] # NoTemplate /\ template'[u].existsTime
<1>0. /\ template[u] \in Template /\ status \in Status
      /\ NoTemplate \notin Template
  BY DEF CoreInv, TypeOK, ClusterTypeOK, ClusterAssumption
<1>1. template[u].finalizer
  BY DEF StatusEarned, Exists
<1>2. [phase |-> "Runnings", ready |-> template[u].ready] \in Status
  BY <1>0 DEF Template, Status, Phase
<1>3. Change(u)
  BY ChangeFact
<1>4. CASE template'[u] \in {template[u], Renewed(template[u]), Aged(template[u])}
  BY <1>0, <1>4, RenewedFact, AgedFact
<1>5. CASE template'[u] = Deleted(template[u])
  BY <1>0, <1>1, <1>5, DeletedFact
<1>6. CASE template'[u] \in {WithFinalizer(template[u]), Started(template[u])}
  BY <1>0, <1>6, WithFinalizerFact, StartedFact
<1>7. CASE \E s \in Status : template'[u] = WithStatus(template[u], s)
  BY <1>0, <1>7, WithStatusFact
<1> QED
  BY <1>0, <1>2, <1>3, <1>4, <1>5, <1>6, <1>7 DEF Change

\* How the worker comes to the steps that record something of a pod.
LEMMA RecordingFact ==
  ASSUME CoreInv, [Next]_vars, pc' \in {"markRunning", "readPod", "updateStatus"}
  PROVE  \/ pc' = pc /\ UNCHANGED <<key, status>>
         \/ pc = "readPod" /\ key' = key /\ status'.phase # "" /\ pc' = "updateStatus"
         \/ /\ pc' # "updateStatus" /\ key' = key /\ template[key] \in Template
            /\ \/ pc = "recordStart" /\ template'[key] = Started(template[key])
               \/ /\ template'[key] = WithFinalizer(template[key])
                  /\ template'[key].existsTime
         \/ /\ pc' = "readPod" /\ key' \in User /\ UNCHANGED template
            /\ LET t == templateCache[key']
               IN t # NoTemplate /\ t.existsTime /\ ~t.deleting
<1>0. TypeOK /\ ClusterTypeOK /\ key \in User
  BY DEF CoreInv, TypeOK
<1>1. ASSUME NEW u \in User, Reconcile(u)
      PROVE  /\ pc' = "readPod" /\ key' \in User /\ UNCHANGED template
             /\ LET t == templateCache[key']
                IN t # NoTemplate /\ t.existsTime /\ ~t.deleting
  BY <1>1 DEF Reconcile, Enter, AfterFinalizer
<1>2. CASE AddFinalizer
  <2> DEFINE t == WithFinalizer(template[key])
  <2>1. /\ pc = "addFinalizer" /\ Fresh /\ key' = key /\ pc' = AfterFinalizer(t)
        /\ Store(key, t, {"wtTemplate"})
    BY <1>2 DEF AddFinalizer, CallFails, Return, Enter
  <2>2. template[key] \in Template /\ template'[key] = t
    BY <1>0, <2>1, FreshFact DEF Store, ClusterTypeOK
  <2>3. pc' = "readPod" /\ t.existsTime
    BY <2>1 DEF AfterFinalizer
  <2> QED
    BY <2>1, <2>2, <2>3
<1>3. CASE RecordStart
  <2>1. /\ pc = "recordStart" /\ Fresh /\ key' = key /\ pc' = "markRunning"
        /\ Store(key, Started(template[key]), {"wtTemplate"})
    BY <1>3 DEF RecordStart, CallFails, Return, Goto
  <2> QED
    BY <1>0, <2>1, FreshFact DEF Store, ClusterTypeOK
<1>4. CASE ReadPod
  BY <1>4 DEF ReadPod
<1>5. CASE UpdateStatus
  BY <1>5 DEF UpdateStatus, Return
<1>6. CASE \/ DeletePod \/ RemoveFinalizer \/ CreatePod \/ PollTimeout
           \/ MarkRunning \/ TTLDelete \/ Restart
  BY <1>6
  DEF DeletePod, RemoveFinalizer, CreatePod, PollTimeout, MarkRunning, TTLDelete,
      Restart, Goto, CallFails, Return, clusterVars
<1>7. CASE Others \/ UNCHANGED vars
  BY <1>7 DEF Others, vars, workerVars
<1> QED
  BY <1>1, <1>2, <1>3, <1>4, <1>5, <1>6, <1>7 DEF Next, Work

\* A workspace that does not exist has recorded nothing, and nobody is about to.
LEMMA EarnedInit == Init => StartedInv /\ StatusEarned
BY DEF Init, ClusterInit, StartedInv, StatusEarned, Exists

\* What is taken for started was started, whatever a step does.
LEMMA StartedStep ==
  ASSUME CoreInv, StartedInv, StatusEarned, [Next]_vars
  PROVE  StartedInv'
<1>0. /\ ClusterTypeOK /\ WorkerInv /\ key \in User
      /\ NoTemplate \notin Template
  BY DEF CoreInv, TypeOK, ClusterAssumption
<1>1. ASSUME NEW u \in User,
             templateCache'[u] # NoTemplate, templateCache'[u].existsTime,
             ~templateCache'[u].deleting
      PROVE  template'[u] # NoTemplate /\ template'[u].existsTime
  <2>1. templateCache[u] \in Template \cup {NoTemplate}
    BY <1>0 DEF ClusterTypeOK
  <2>2. CASE templateCache'[u] = template[u] /\ template'[u] = template[u]
    BY <1>1, <2>2
  <2>3. CASE templateCache'[u] \in {templateCache[u], Aged(templateCache[u])}
    <3>1. /\ templateCache[u] # NoTemplate /\ templateCache[u].existsTime
          /\ ~templateCache[u].deleting
      BY <1>1, <2>1, <2>3, AgedFact DEF Aged
    <3>2. template[u] # NoTemplate /\ template[u].existsTime
      BY <3>1 DEF StartedInv, Exists
    <3>3. ~(pc = "removeFinalizer" /\ u = key /\ Fresh)
      BY <1>0, <3>1 DEF WorkerInv, Teardown, IsDeleting
    <3> QED
      BY <3>2, <3>3, StartKept
  <2> QED
    BY <2>2, <2>3, CachedFact
<1>2. ASSUME pc' \in {"markRunning", "readPod", "updateStatus"}
      PROVE  template'[key'].existsTime
  <2>1. CASE pc \in {"markRunning", "readPod", "updateStatus"} /\ key' = key
    <3>1. template[key] # NoTemplate /\ template[key].existsTime
      BY <1>0, <2>1 DEF WorkerInv, LiveSteps, IsGuarded, StartedInv
    <3> QED
      BY <1>0, <2>1, <3>1, StartKept
  <2>2. CASE /\ key' = key /\ template[key] \in Template
             /\ template'[key] = Started(template[key])
    BY <2>2, StartedFact
  <2>3. CASE key' = key /\ template'[key].existsTime
    BY <2>3
  <2>4. CASE /\ key' \in User /\ UNCHANGED template
             /\ LET t == templateCache[key']
                IN t # NoTemplate /\ t.existsTime /\ ~t.deleting
    BY <2>4 DEF StartedInv
  <2> QED
    BY <1>2, <2>1, <2>2, <2>3, <2>4, RecordingFact
<1>3. ASSUME pc' = "updateStatus" PROVE status'.phase # ""
  BY <1>3, RecordingFact DEF StartedInv
<1> QED
  BY <1>1, <1>2, <1>3 DEF StartedInv, Exists

\* Nor does a step record anything on a template that did not earn it.
LEMMA EarnedStep ==
  ASSUME CoreInv, StartedInv, StatusEarned, [Next]_vars
  PROVE  StatusEarned'
<1> SUFFICES ASSUME NEW u \in User, template'[u] # NoTemplate
             PROVE  LET t == template'[u]
                    IN /\ t.phase # "" => t.existsTime
                       /\ t.ready => t.phase # ""
                       /\ t.existsTime => t.finalizer
  BY DEF StatusEarned, Exists
<1> DEFINE t == template[u]
<1>0. /\ t \in Template \cup {NoTemplate} /\ status \in Status /\ WorkerInv
      /\ t \in Template => t # NoTemplate
  BY DEF CoreInv, TypeOK, ClusterTypeOK, ClusterAssumption
<1>1. ASSUME t # NoTemplate
      PROVE  /\ t \in Template
             /\ t.phase # "" => t.existsTime
             /\ t.ready => t.phase # ""
             /\ t.existsTime => t.finalizer
  BY <1>0, <1>1 DEF StatusEarned, Exists
<1>2. Change(u)
  BY ChangeFact
<1> HIDE DEF t
<1>3. CASE template'[u] = t
  BY <1>1, <1>3
<1>4. CASE template'[u] = NewTemplate
  BY <1>4, NewTemplateFact
<1>5. CASE t \in Template /\ template'[u] \in {Renewed(t), Aged(t), Deleted(t)}
  <2>1. CASE template'[u] = Renewed(t)
    BY <1>0, <1>1, <1>5, <2>1, RenewedFact
  <2>2. CASE template'[u] = Aged(t)
    BY <1>0, <1>1, <1>5, <2>2, AgedFact
  <2>3. CASE template'[u] = Deleted(t)
    <3>1. t.finalizer
      BY <1>5, <2>3, DeletedFact
    <3>2. /\ Deleted(t).phase = t.phase /\ Deleted(t).ready = t.ready
          /\ Deleted(t).finalizer /\ Deleted(t).existsTime = t.existsTime
      BY <1>5, <3>1, DeletedFact
    <3> QED
      BY <1>0, <1>1, <1>5, <2>3, <3>1, <3>2
  <2> QED
    BY <1>5, <2>1, <2>2, <2>3
<1>6. CASE t \in Template /\ template'[u] = WithFinalizer(t)
  BY <1>0, <1>1, <1>6, WithFinalizerFact
<1>7. CASE t \in Template /\ u = key /\ pc = "recordStart" /\ template'[u] = Started(t)
  <2>1. t.finalizer
    BY <1>0, <1>7 DEF WorkerInv, LiveSteps, IsGuarded, t
  <2> QED
    BY <1>0, <1>1, <1>7, <2>1, StartedFact
<1>8. CASE /\ t \in Template /\ u = key
           /\ \/ /\ pc = "markRunning"
                 /\ template'[u] = WithStatus(t, [phase |-> "Runnings", ready |-> t.ready])
              \/ pc = "updateStatus" /\ template'[u] = WithStatus(t, status)
  <2>1. t.existsTime /\ (pc = "updateStatus" => status.phase # "")
    BY <1>8 DEF StartedInv, t
  <2> DEFINE Says(s) == s.phase # ""
  <2>2. PICK s \in Status : Says(s) /\ template'[u] = WithStatus(t, s)
    <3> DEFINE r == [phase |-> "Runnings", ready |-> t.ready]
    <3>1. r \in Status /\ r.phase # ""
      BY <1>8 DEF Template, Status, Phase
    <3>2. CASE template'[u] = WithStatus(t, r)
      <4> HIDE DEF r
      <4> QED
        BY <3>1, <3>2
    <3>3. CASE pc = "updateStatus" /\ template'[u] = WithStatus(t, status)
      BY <1>0, <2>1, <3>3
    <3> QED
      BY <1>8, <3>2, <3>3
  <2>3. /\ template'[u].phase = s.phase /\ template'[u].existsTime = t.existsTime
        /\ template'[u].finalizer = t.finalizer
    <3> HIDE DEF Says
    <3> QED
      BY <1>8, <2>2, WithStatusFact
  <2>4. t.finalizer
    BY <1>0, <1>1, <1>8, <2>1
  <2>5. /\ template'[u].existsTime /\ template'[u].finalizer
        /\ template'[u].phase # ""
    BY <2>1, <2>2, <2>3, <2>4
  <2> QED
    BY <2>5
<1> QED
  BY <1>2, <1>3, <1>4, <1>5, <1>6, <1>7, <1>8 DEF Change, t

\* What a write that keeps the template of u leaves as it was, or adds to.
Says(p) == p # ""

Keeps(u) ==
  LET s == template[u]
      t == template'[u]
  IN /\ s.finalizer => t.finalizer
     /\ s.deleting => t.deleting
     /\ s.existsTime => t.existsTime
     /\ Says(s.phase) => Says(t.phase)
     /\ t.idle => s.idle \/ GrowIdle(u)

\* No write takes anything back, as each kind of write shows.
LEMMA UndoneStep ==
  ASSUME CoreInv, StartedInv, [Next]_vars, NEW u \in User,
         template[u] # NoTemplate, template'[u] # NoTemplate
  PROVE  Keeps(u)
<1> DEFINE s == template[u]
<1>0. s \in Template /\ status \in Status
  BY DEF CoreInv, TypeOK, ClusterTypeOK
<1>1. Change(u)
  BY ChangeFact
<1>2. CASE template'[u] = s
  BY <1>2 DEF Keeps
<1>3. CASE template'[u] = Renewed(s)
  BY <1>0, <1>3, RenewedFact DEF Keeps
<1>4. CASE GrowIdle(u) /\ template'[u] = Aged(s)
  BY <1>0, <1>4, AgedFact DEF Keeps
<1>5. CASE template'[u] = Deleted(s)
  <2>1. s.finalizer
    BY <1>0, <1>5, DeletedFact
  <2> QED
    BY <1>0, <1>5, <2>1, DeletedFact DEF Keeps
<1>6. CASE template'[u] = WithFinalizer(s)
  BY <1>0, <1>6, WithFinalizerFact DEF Keeps
<1>7. CASE template'[u] = Started(s)
  BY <1>0, <1>7, StartedFact DEF Keeps
<1>8. ASSUME NEW x \in Status, Says(x.phase), template'[u] = WithStatus(s, x)
      PROVE  Keeps(u)
  BY <1>0, <1>8, WithStatusFact DEF Keeps
<1>9. CASE /\ pc = "markRunning"
           /\ template'[u] = WithStatus(s, [phase |-> "Runnings", ready |-> s.ready])
  <2> DEFINE x == [phase |-> "Runnings", ready |-> s.ready]
  <2>1. x \in Status /\ Says(x.phase)
    BY <1>0 DEF Template, Status, Phase, Says
  <2>2. template'[u] = WithStatus(s, x)
    BY <1>9
  <2> HIDE DEF x
  <2> QED
    BY <1>8, <2>1, <2>2
<1>10. CASE pc = "updateStatus" /\ template'[u] = WithStatus(s, status)
  <2>1. Says(status.phase)
    BY <1>10 DEF StartedInv, Says
  <2> QED
    BY <1>0, <1>8, <1>10, <2>1
<1> QED
  BY <1>0, <1>1, <1>2, <1>3, <1>4, <1>5, <1>6, <1>7, <1>9, <1>10
  DEF Change, ClusterAssumption
-----------------------------------------------------------------------------
(* How a step changes the stage of a workspace: this is what the facts about *)
(* pods and the refinement both rest on.                                     *)

Steady == \A u \in User : StageOf(template'[u]) = StageOf(template[u])

Moves(u, from, to) ==
  /\ StageOf(template[u]) = from /\ StageOf(template'[u]) = to
  /\ \A v \in User \ {u} : StageOf(template'[v]) = StageOf(template[v])
  /\ UNCHANGED pod

LifeStep ==
  \/ Steady
  \/ \E u \in User :
       \/ Moves(u, "none", "requested")
       \/ Moves(u, "requested", "none")
       \/ Moves(u, "requested", "guarded")
       \/ Moves(u, "guarded", "closing")
       \/ /\ Moves(u, "closing", "none")
          /\ pc = "removeFinalizer" /\ u = key /\ Fresh /\ pc' = "idle"

\* The stage of a template says all that Workspace tells apart.
LEMMA StageFact ==
  ASSUME NEW t \in Template \cup {NoTemplate}, IsDeleting(t) => t.finalizer
  PROVE  /\ t = NoTemplate <=> StageOf(t) = "none"
         /\ IsDeleting(t) <=> StageOf(t) = "closing"
         /\ IsGuarded(t) <=> StageOf(t) \in {"guarded", "closing"}
         /\ StageOf(t) \in {"none", "requested", "guarded", "closing"}
<1>1. CASE t = NoTemplate
  BY <1>1 DEF StageOf, IsDeleting, IsGuarded
<1>2. CASE t # NoTemplate /\ t.deleting
  BY <1>2 DEF StageOf, IsDeleting, IsGuarded
<1>3. CASE t # NoTemplate /\ ~t.deleting /\ t.finalizer
  BY <1>3 DEF StageOf, IsDeleting, IsGuarded
<1>4. CASE t # NoTemplate /\ ~t.deleting /\ ~t.finalizer
  BY <1>4 DEF StageOf, IsDeleting, IsGuarded
<1> QED
  BY <1>1, <1>2, <1>3, <1>4

\* The stage only depends on the finalizer and the deletion mark.
LEMMA SameStage ==
  ASSUME NEW s \in Template, NEW t \in Template,
         t.finalizer = s.finalizer, t.deleting = s.deleting
  PROVE  StageOf(t) = StageOf(s)
<1>1. s # NoTemplate /\ t # NoTemplate
  BY DEF ClusterAssumption
<1> QED
  BY <1>1 DEF StageOf, IsDeleting, IsGuarded

\* A write changes the stage of the template it stores, and of no other.
LEMMA StoreStage ==
  ASSUME ClusterTypeOK, NEW u \in User, NEW t, NEW h, Store(u, t, h)
  PROVE  /\ template'[u] = t
         /\ \A v \in User \ {u} : template'[v] = template[v]
BY DEF Store, ClusterTypeOK

\* A write that leaves finalizer and deletion mark alone changes no stage.
LEMMA SteadyStore ==
  ASSUME ClusterTypeOK, NEW u \in User, NEW t \in Template, NEW h, Store(u, t, h),
         template[u] \in Template,
         t.finalizer = template[u].finalizer, t.deleting = template[u].deleting
  PROVE  Steady
<1>1. StageOf(t) = StageOf(template[u])
  BY SameStage
<1> QED
  BY <1>1, StoreStage DEF Steady

\* A DELETE of an unguarded template removes it, of a guarded one closes it.
LEMMA DeleteMoves ==
  ASSUME ClusterTypeOK, NEW u \in User, template[u] \in Template,
         ~template[u].deleting, Store(u, Deleted(template[u]), {}), UNCHANGED pod
  PROVE  Moves(u, "requested", "none") \/ Moves(u, "guarded", "closing")
<1> DEFINE t == Deleted(template[u])
<1>0. template[u] # NoTemplate
  BY DEF ClusterAssumption
<1>1. CASE template[u].finalizer
  <2>1. t \in Template /\ t.deleting
    BY <1>1, DeletedFact
  <2>2. StageOf(template[u]) = "guarded"
    BY <1>0, <1>1 DEF StageOf, IsDeleting, IsGuarded
  <2>3. StageOf(t) = "closing"
    BY <2>1 DEF StageOf, IsDeleting, ClusterAssumption
  <2> QED
    BY <2>2, <2>3, StoreStage DEF Moves
<1>2. CASE ~template[u].finalizer
  <2>1. t = NoTemplate
    BY <1>2, DeletedFact
  <2>2. StageOf(template[u]) = "requested"
    BY <1>0, <1>2 DEF StageOf, IsDeleting, IsGuarded
  <2>3. StageOf(t) = "none"
    BY <2>1 DEF StageOf, IsDeleting, IsGuarded
  <2> QED
    BY <2>2, <2>3, StoreStage DEF Moves
<1> QED
  BY <1>1, <1>2

\* A call of Reconcile is one step of one life cycle, or of none ...
LEMMA WorkLifeStep == CoreInv /\ Work => LifeStep
<1> SUFFICES ASSUME CoreInv, Work PROVE LifeStep
  OBVIOUS
<1>0. /\ TypeOK /\ ClusterTypeOK /\ CacheInv /\ WorkerInv /\ TTLDeleteJustified
      /\ key \in User /\ template[key] \in Template \cup {NoTemplate}
  BY DEF CoreInv, TypeOK, ClusterTypeOK
<1>1. ASSUME UNCHANGED template PROVE LifeStep
  BY <1>1 DEF LifeStep, Steady
<1>2. CASE AddFinalizer
  <2>1. CASE CallFails
    BY <1>1, <2>1 DEF CallFails
  <2>2. CASE ~CallFails
    <3> DEFINE t == WithFinalizer(template[key])
    <3>1. /\ Fresh /\ Store(key, t, {"wtTemplate"})
          /\ UNCHANGED pod /\ pc = "addFinalizer"
      BY <1>2, <2>2 DEF AddFinalizer
    <3>2. template[key] \in Template /\ ~template[key].deleting
      BY <1>0, <3>1, FreshFact DEF WorkerInv, IsDeleting, Exists, CoreInv
    <3>3. t \in Template /\ t.finalizer /\ ~t.deleting
      BY <3>2, WithFinalizerFact
    <3> HIDE DEF t
    <3>4. StageOf(t) = "guarded"
      BY <3>3 DEF StageOf, IsDeleting, IsGuarded, ClusterAssumption
    <3>5. StageOf(template[key]) \in {"requested", "guarded"}
      BY <3>2 DEF StageOf, IsDeleting, IsGuarded, ClusterAssumption
    <3> QED
      BY <1>0, <3>1, <3>4, <3>5, StoreStage DEF LifeStep, Moves, Steady
  <2> QED
    BY <2>1, <2>2
<1>3. CASE RemoveFinalizer
  <2>1. CASE CallFails
    BY <1>1, <2>1 DEF CallFails
  <2>2. CASE ~CallFails
    <3>1. /\ Fresh /\ Store(key, WithoutFinalizer(template[key]), {"wtTemplate"})
          /\ UNCHANGED pod /\ pc' = "idle" /\ pc = "removeFinalizer"
      BY <1>3, <2>2 DEF RemoveFinalizer, Return
    <3>2. IsDeleting(template[key])
      BY <1>0, <3>1 DEF WorkerInv, Teardown
    <3>3. WithoutFinalizer(template[key]) = NoTemplate
      BY <1>0, <3>2, WithoutFinalizerFact DEF IsDeleting
    <3>4. StageOf(template[key]) = "closing" /\ StageOf(NoTemplate) = "none"
      BY <3>2 DEF StageOf, IsDeleting, IsGuarded
    <3> QED
      BY <1>0, <3>1, <3>3, <3>4, StoreStage DEF LifeStep, Moves
  <2> QED
    BY <2>1, <2>2
<1>4. CASE RecordStart
  <2>1. CASE CallFails
    BY <1>1, <2>1 DEF CallFails
  <2>2. CASE ~CallFails
    <3>1. Fresh /\ Store(key, Started(template[key]), {"wtTemplate"})
      BY <1>4, <2>2 DEF RecordStart
    <3>2. template[key] \in Template
      BY <1>4, <3>1, FreshFact DEF RecordStart
    <3> QED
      BY <1>0, <3>1, <3>2, StartedFact, SteadyStore DEF LifeStep
  <2> QED
    BY <2>1, <2>2
<1>5. CASE MarkRunning
  <2>1. CASE CallFails \/ UNCHANGED template
    BY <1>1, <2>1 DEF CallFails
  <2>2. CASE ~CallFails /\ ~UNCHANGED template
    <3> DEFINE s == [phase |-> "Runnings", ready |-> template[key].ready]
    <3>1. Fresh /\ Store(key, WithStatus(template[key], s), {"wtTemplate"})
      BY <1>5, <2>2 DEF MarkRunning
    <3>2. template[key] \in Template
      BY <1>5, <3>1, FreshFact DEF MarkRunning
    <3>3. s \in Status
      BY <3>2 DEF Template, Status, Phase
    <3> HIDE DEF s
    <3> QED
      BY <1>0, <3>1, <3>2, <3>3, WithStatusFact, SteadyStore DEF LifeStep
  <2> QED
    BY <2>1, <2>2
<1>6. CASE TTLDelete
  <2>1. CASE CallFails \/ UNCHANGED template
    BY <1>1, <2>1 DEF CallFails
  <2>2. CASE ~CallFails /\ ~UNCHANGED template
    <3>1. /\ Exists(key) /\ ~template[key].deleting
          /\ Store(key, Deleted(template[key]), {}) /\ UNCHANGED pod
      BY <1>6, <2>2 DEF TTLDelete
    <3> QED
      BY <1>0, <3>1, DeleteMoves DEF LifeStep, Exists
  <2> QED
    BY <2>1, <2>2
<1>7. CASE UpdateStatus
  <2>1. CASE UNCHANGED template
    BY <1>1, <2>1
  <2>2. CASE ~UNCHANGED template
    <3>1. Exists(key) /\ Store(key, WithStatus(template[key], status), {})
      BY <1>7, <2>2 DEF UpdateStatus, clusterVars
    <3>2. template[key] \in Template /\ status \in Status
      BY <1>0, <3>1 DEF Exists, TypeOK
    <3> QED
      BY <1>0, <3>1, <3>2, WithStatusFact, SteadyStore DEF LifeStep
  <2> QED
    BY <2>1, <2>2
<1>8. CASE \/ \E u \in User : Reconcile(u)
           \/ DeletePod \/ CreatePod \/ PollTimeout \/ ReadPod
  BY <1>1, <1>8
  DEF Reconcile, DeletePod, CreatePod, PollTimeout, ReadPod, CallFails, clusterVars
<1> QED
  BY <1>2, <1>3, <1>4, <1>5, <1>6, <1>7, <1>8 DEF Work

\* ... as is whatever the others do ...
LEMMA EnvironmentLifeStep ==
  ASSUME CoreInv, NEW u \in User, Environment(u)
  PROVE  LifeStep
<1>0. ClusterTypeOK /\ template[u] \in Template \cup {NoTemplate}
  BY DEF CoreInv, TypeOK, ClusterTypeOK
<1>1. ASSUME UNCHANGED template PROVE LifeStep
  BY <1>1 DEF LifeStep, Steady
<1>2. CASE CreateTemplate(u)
  <2>1. /\ Store(u, NewTemplate, {}) /\ UNCHANGED pod
        /\ template[u] = NoTemplate
    BY <1>2 DEF CreateTemplate, Exists
  <2>2. StageOf(NewTemplate) = "requested" /\ StageOf(NoTemplate) = "none"
    BY NewTemplateFact DEF StageOf, IsDeleting, IsGuarded, ClusterAssumption
  <2> QED
    BY <1>0, <2>1, <2>2, StoreStage DEF LifeStep, Moves
<1>3. CASE Renewtime(u)
  <2>1. Store(u, Renewed(template[u]), {}) /\ template[u] \in Template
    BY <1>0, <1>3 DEF Renewtime, Exists
  <2> QED
    BY <1>0, <2>1, RenewedFact, SteadyStore DEF LifeStep
<1>4. CASE DeleteTemplate(u)
  <2>1. /\ Store(u, Deleted(template[u]), {}) /\ UNCHANGED pod
        /\ template[u] \in Template /\ ~template[u].deleting
    BY <1>0, <1>4 DEF DeleteTemplate, Exists
  <2> QED
    BY <1>0, <2>1, DeleteMoves DEF LifeStep
<1>5. CASE GrowIdle(u)
  <2>1. /\ template' = [template EXCEPT ![u] = Aged(template[u])]
        /\ template[u] \in Template
    BY <1>0, <1>5 DEF GrowIdle, Exists
  <2>2. StageOf(Aged(template[u])) = StageOf(template[u])
    BY <2>1, AgedFact, SameStage
  <2> QED
    BY <1>0, <2>1, <2>2 DEF LifeStep, Steady, ClusterTypeOK
<1>6. CASE \/ SyncTemplate(u) \/ EvictPod(u) \/ SyncPod(u)
           \/ PodStarts(u) \/ PodFails(u) \/ PodGone(u)
  BY <1>1, <1>6
  DEF SyncTemplate, EvictPod, SyncPod, PodStarts, PodFails, PodGone
<1> QED
  BY <1>2, <1>3, <1>4, <1>5, <1>6 DEF Environment

\* ... and every step of the system.
LEMMA LifeStepFact == CoreInv /\ [Next]_vars => LifeStep
<1> SUFFICES ASSUME CoreInv, [Next]_vars PROVE LifeStep
  OBVIOUS
<1>1. ASSUME UNCHANGED template PROVE LifeStep
  BY <1>1 DEF LifeStep, Steady
<1>2. CASE Others
  BY <1>1, <1>2, EnvironmentLifeStep DEF Others, Resync
<1>3. CASE Restart \/ UNCHANGED vars
  BY <1>1, <1>3 DEF Restart, vars, clusterVars
<1> QED
  BY <1>2, <1>3, WorkLifeStep DEF Next
-----------------------------------------------------------------------------
(* Pods, when the pod a reconcile reads is the pod there is. *)

PodFacts == PodInv /\ NoOrphanPod /\ NoPrematureKill

\* A pod appears only in the reconcile of its user's guarded template.
LEMMA PodStepFact ==
  ASSUME CoreInv, [Next]_vars, NEW u \in User, pod'[u] # "absent"
  PROVE  \/ pod[u] # "absent"
         \/ /\ pc = "createPod" /\ u = key
            /\ UNCHANGED <<template, templateCache, pc, key>>
<1>0. pod \in [User -> Pod] /\ key \in User
  BY DEF CoreInv, TypeOK, ClusterTypeOK
<1>1. CASE Work
  <2>1. CASE DeletePod \/ CreatePod
    BY <1>0, <2>1 DEF DeletePod, CreatePod, CallFails, clusterVars
  <2>2. CASE UNCHANGED pod
    BY <2>2
  <2> QED
    BY <1>1, <2>1, <2>2
    DEF Work, Reconcile, AddFinalizer, RemoveFinalizer, PollTimeout, RecordStart,
        MarkRunning, TTLDelete, ReadPod, UpdateStatus, CallFails, clusterVars
<1>2. CASE Others
  <2>1. ASSUME NEW v \in User, Environment(v) PROVE pod[u] # "absent"
    BY <1>0, <2>1
    DEF Environment, CreateTemplate, Renewtime, DeleteTemplate, EvictPod,
        SyncTemplate, SyncPod, GrowIdle, PodStarts, PodFails, PodGone, PodReady
  <2> QED
    BY <1>2, <2>1 DEF Others, Resync
<1>3. CASE Restart \/ UNCHANGED vars
  BY <1>3 DEF Restart, vars, clusterVars
<1> QED
  BY <1>1, <1>2, <1>3 DEF Next

\* A cache learns of a deletion from the stored template only.
LEMMA CacheStepFact ==
  ASSUME CoreInv, [Next]_vars, NEW u \in User, IsDeleting(templateCache'[u])
  PROVE  IsDeleting(templateCache[u]) \/ IsDeleting(template'[u])
<1>0. ClusterTypeOK
  BY DEF CoreInv, TypeOK
<1>1. CASE UNCHANGED templateCache
  BY <1>1
<1>2. ASSUME NEW v \in User, SyncTemplate(v)
      PROVE  IsDeleting(templateCache[u]) \/ IsDeleting(template'[u])
  BY <1>0, <1>2 DEF SyncTemplate, ClusterTypeOK
<1>3. ASSUME NEW v \in User, GrowIdle(v)
      PROVE  IsDeleting(templateCache[u])
  <2>1. templateCache' = [templateCache EXCEPT ![v] = Aged(templateCache[v])]
    BY <1>3 DEF GrowIdle
  <2>2. templateCache[u] \in Template \cup {NoTemplate}
    BY <1>0 DEF ClusterTypeOK
  <2>3. CASE templateCache[u] \in Template
    BY <1>0, <2>1, <2>3, AgedFact DEF ClusterTypeOK, IsDeleting, ClusterAssumption
  <2>4. CASE templateCache[u] = NoTemplate
    BY <1>0, <2>1, <2>4 DEF Aged, ClusterTypeOK, IsDeleting
  <2> QED
    BY <2>2, <2>3, <2>4
<1>4. CASE Restart
  BY <1>4 DEF Restart
<1>5. CASE Work
  BY <1>1, <1>5
  DEF Work, Reconcile, AddFinalizer, DeletePod, RemoveFinalizer, CreatePod,
      PollTimeout, RecordStart, MarkRunning, TTLDelete, ReadPod, UpdateStatus,
      CallFails, clusterVars
<1>6. CASE Others
  BY <1>1, <1>2, <1>3, <1>6
  DEF Others, Resync, Environment, CreateTemplate, Renewtime, DeleteTemplate,
      EvictPod, SyncPod, PodStarts, PodFails, PodGone
<1>7. CASE UNCHANGED vars
  BY <1>1, <1>7 DEF vars, clusterVars
<1> QED
  BY <1>4, <1>5, <1>6, <1>7 DEF Next

\* A teardown starts on a cached copy that is being deleted, and goes on when
\* the pod was seen gone.
LEMMA TeardownStepFact ==
  ASSUME CoreInv, [Next]_vars, pc' \in Teardown
  PROVE  \/ pc' = pc /\ key' = key
         \/ /\ pc = "deletePod" /\ pc' = "removeFinalizer"
            /\ SeenPod(key) = "absent" /\ UNCHANGED <<key, pod>>
         \/ /\ pc' = "deletePod" /\ key' \in User
            /\ IsDeleting(templateCache[key'])
            /\ UNCHANGED <<template, templateCache, pod>>
<1>1. ASSUME NEW u \in User, Reconcile(u)
      PROVE  /\ pc' = "deletePod" /\ key' \in User
             /\ IsDeleting(templateCache[key'])
             /\ UNCHANGED <<template, templateCache, pod>>
  BY <1>1 DEF Reconcile, Enter, AfterFinalizer, IsDeleting, Teardown
<1>2. CASE DeletePod
  BY <1>2 DEF DeletePod, Goto, CallFails, Return, clusterVars, Teardown
<1>3. CASE AddFinalizer
  BY <1>3 DEF AddFinalizer, Enter, AfterFinalizer, CallFails, Return, Teardown
<1>4. CASE RemoveFinalizer \/ PollTimeout \/ MarkRunning \/ TTLDelete \/ Restart
  BY <1>4
  DEF RemoveFinalizer, PollTimeout, MarkRunning, TTLDelete, Restart, CallFails,
      Return, Teardown
<1>5. CASE CreatePod \/ RecordStart \/ ReadPod \/ UpdateStatus
  BY <1>5
  DEF CreatePod, RecordStart, ReadPod, UpdateStatus, Goto, CallFails, Return,
      clusterVars, Teardown
<1>6. CASE Others \/ UNCHANGED vars
  BY <1>6 DEF Others, vars, workerVars
<1> QED
  BY <1>1, <1>2, <1>3, <1>4, <1>5, <1>6 DEF Next, Work

\* No pods, no orphans.
LEMMA PodInit == Init => PodFacts
BY DEF Init, ClusterInit, PodFacts, PodInv, NoOrphanPod, NoPrematureKill

\* With current pod reads, no step makes an orphan of a pod or takes one from a
\* template that lives.
LEMMA PodStep ==
  ~PodCacheLags /\ CoreInv /\ CoreInv' /\ PodFacts /\ [Next]_vars => PodFacts'
<1> SUFFICES ASSUME ~PodCacheLags, CoreInv, CoreInv', PodFacts, [Next]_vars
             PROVE  PodFacts'
  OBVIOUS
<1>0. /\ TypeOK /\ ClusterTypeOK /\ CacheInv /\ WorkerInv
      /\ TypeOK' /\ ClusterTypeOK' /\ CacheInv' /\ key \in User /\ key' \in User
  BY DEF CoreInv, TypeOK
<1>1. ASSUME NEW u \in User
      PROVE  /\ IsDeleting(template[u]) <=> StageOf(template[u]) = "closing"
             /\ IsGuarded(template[u])
                  <=> StageOf(template[u]) \in {"guarded", "closing"}
             /\ IsDeleting(template'[u]) <=> StageOf(template'[u]) = "closing"
             /\ IsGuarded(template'[u])
                  <=> StageOf(template'[u]) \in {"guarded", "closing"}
  <2>1. /\ template[u] \in Template \cup {NoTemplate}
        /\ template'[u] \in Template \cup {NoTemplate}
        /\ IsDeleting(template[u]) => template[u].finalizer
        /\ IsDeleting(template'[u]) => template'[u].finalizer
    BY <1>0 DEF ClusterTypeOK, CacheInv
  <2> QED
    BY <2>1, StageFact
\* The template of a user who has a pod stays guarded, and marked if it was.
<1>2. ASSUME NEW u \in User, pod[u] # "absent"
      PROVE  /\ IsGuarded(template[u]) => IsGuarded(template'[u])
             /\ IsDeleting(template[u]) => IsDeleting(template'[u])
  <2>1. ~(pc = "removeFinalizer" /\ u = key)
    BY <1>2 DEF PodFacts, PodInv
  <2> QED
    BY <1>1, <2>1, LifeStepFact DEF LifeStep, Steady, Moves
<1>3. ASSUME NEW u \in User, pod'[u] # "absent"
      PROVE  /\ IsGuarded(template'[u])
             /\ IsDeleting(templateCache'[u]) => IsDeleting(template'[u])
  <2>1. CASE pod[u] # "absent"
    <3>1. IsGuarded(template[u])
      BY <2>1 DEF PodFacts, NoOrphanPod, Exists, IsGuarded
    <3>2. IsDeleting(templateCache[u]) => IsDeleting(template[u])
      BY <2>1 DEF PodFacts, PodInv
    <3> QED
      BY <1>2, <2>1, <3>1, <3>2, CacheStepFact
  <2>2. CASE /\ pc = "createPod" /\ u = key
             /\ UNCHANGED <<template, templateCache, pc, key>>
    BY <1>0, <2>2 DEF WorkerInv, LiveSteps
  <2> QED
    BY <1>3, <2>1, <2>2, PodStepFact
<1>4. NoOrphanPod'
  BY <1>3 DEF NoOrphanPod, Exists, IsGuarded
<1>5. PodInv'
  <2>1. ASSUME pc' = "removeFinalizer" PROVE pod'[key'] = "absent"
    <3>1. CASE pc' = pc /\ key' = key
      <4>1. pod[key] = "absent"
        BY <2>1, <3>1 DEF PodFacts, PodInv
      <4> QED
        BY <1>0, <2>1, <3>1, <4>1, PodStepFact
    <3>2. CASE SeenPod(key) = "absent" /\ UNCHANGED <<key, pod>>
      BY <3>2 DEF SeenPod
    <3> QED
      BY <2>1, <3>1, <3>2, TeardownStepFact DEF Teardown
  <2> QED
    BY <1>3, <2>1 DEF PodInv
<1>6. NoPrematureKill'
  <2> SUFFICES ASSUME pc' \in Teardown, pod'[key'] # "absent"
               PROVE  IsDeleting(template'[key'])
    BY DEF NoPrematureKill, Teardown, Exists, IsDeleting
  <2>1. CASE pc' = pc /\ key' = key
    <3>1. pod[key] # "absent"
      BY <1>0, <2>1, PodStepFact DEF Teardown
    <3>2. IsDeleting(template[key])
      BY <2>1, <3>1 DEF PodFacts, NoPrematureKill, Teardown, Exists, IsDeleting
    <3> QED
      BY <1>0, <1>2, <2>1, <3>1, <3>2
  <2>2. CASE pc' = "removeFinalizer"
    BY <1>5, <2>2 DEF PodInv
  <2>3. CASE /\ IsDeleting(templateCache[key'])
             /\ UNCHANGED <<template, templateCache, pod>>
    BY <1>0, <1>3, <2>3
  <2> QED
    BY <2>1, <2>2, <2>3, TeardownStepFact
<1> QED
  BY <1>4, <1>5, <1>6 DEF PodFacts
-----------------------------------------------------------------------------
(* Wake-ups. *)

\* The key of u will come to the worker: queued, or by an event on its way.
Awake(u) == "cache" \notin atHead[u] \/ u \in queue

\* Only taking a key from the queue takes it off the queue, and only a sync,
\* which queues it, ends the wait for an event.
LEMMA AwakeStepFact ==
  ASSUME CoreInv, [Next]_vars, NEW u \in User, Awake(u), ~Restart,
         ~Reconcile(u)
  PROVE  Awake(u)'
<1>0. ClusterTypeOK /\ key \in User
  BY DEF CoreInv, TypeOK
<1>1. CASE Work
  <2>1. ASSUME NEW v \in User, Reconcile(v) PROVE Awake(u)'
    <3>1. u # v
      BY <2>1
    <3> QED
      BY <1>0, <2>1, <3>1 DEF Reconcile, Awake, ClusterTypeOK
  <2>2. CASE AddFinalizer \/ RemoveFinalizer \/ RecordStart \/ MarkRunning
    BY <1>0, <2>2
    DEF AddFinalizer, RemoveFinalizer, RecordStart, MarkRunning, Store,
        CallFails, Return, Awake, ClusterTypeOK
  <2>3. CASE TTLDelete \/ UpdateStatus
    BY <1>0, <2>3
    DEF TTLDelete, UpdateStatus, Store, CallFails, Return, Awake, ClusterTypeOK,
        clusterVars
  <2>4. CASE DeletePod \/ CreatePod \/ PollTimeout \/ ReadPod
    BY <1>0, <2>4
    DEF DeletePod, CreatePod, PollTimeout, ReadPod, Goto, CallFails, Return,
        Awake, clusterVars
  <2> QED
    BY <1>1, <2>1, <2>2, <2>3, <2>4 DEF Work
<1>2. ASSUME NEW v \in User, Environment(v) PROVE Awake(u)'
  <2>1. CASE CreateTemplate(v) \/ Renewtime(v) \/ DeleteTemplate(v) \/ SyncTemplate(v)
    BY <1>0, <2>1
    DEF CreateTemplate, Renewtime, DeleteTemplate, SyncTemplate, Store, Awake,
        ClusterTypeOK
  <2>2. CASE \/ EvictPod(v) \/ SyncPod(v) \/ GrowIdle(v)
             \/ PodStarts(v) \/ PodFails(v) \/ PodGone(v)
    BY <2>2
    DEF EvictPod, SyncPod, GrowIdle, PodStarts, PodFails, PodGone, Awake
  <2> QED
    BY <1>2, <2>1, <2>2 DEF Environment
<1>3. CASE Others
  BY <1>0, <1>2, <1>3 DEF Others, Resync, Awake, ClusterTypeOK
<1>4. CASE UNCHANGED vars
  BY <1>4 DEF vars, clusterVars, Awake
<1> QED
  BY <1>1, <1>3, <1>4 DEF Next

\* A worker's copy that stays the newest was the newest, unless the worker
\* itself has just stored it.
LEMMA StaleStepFact ==
  ASSUME CoreInv, [Next]_vars, pc' # "idle", pc # "idle", Fresh, ~Fresh'
  PROVE  "cache" \notin atHead'[key] /\ key' = key
<1>0. ClusterTypeOK /\ key \in User
  BY DEF CoreInv, TypeOK
<1>1. CASE Work
  <2>1. CASE AddFinalizer \/ RecordStart
    BY <1>0, <2>1
    DEF AddFinalizer, RecordStart, Goto, Enter, Store, CallFails, Return, Fresh,
        ClusterTypeOK
  <2>2. CASE UpdateStatus
    BY <1>0, <2>2 DEF UpdateStatus, Return, Fresh, clusterVars
  <2>3. CASE DeletePod \/ CreatePod \/ PollTimeout \/ ReadPod
    BY <1>0, <2>3
    DEF DeletePod, CreatePod, PollTimeout, ReadPod, Goto, CallFails, Return,
        Fresh, clusterVars
  <2>4. CASE \/ RemoveFinalizer \/ MarkRunning \/ TTLDelete
             \/ \E u \in User : Reconcile(u)
    BY <2>4
    DEF RemoveFinalizer, MarkRunning, TTLDelete, Reconcile, CallFails, Return
  <2> QED
    BY <1>1, <2>1, <2>2, <2>3, <2>4 DEF Work
<1>2. ASSUME NEW v \in User, Environment(v), UNCHANGED workerVars
      PROVE  "cache" \notin atHead'[key] /\ key' = key
  <2>1. CASE CreateTemplate(v) \/ Renewtime(v) \/ DeleteTemplate(v) \/ SyncTemplate(v)
    BY <1>0, <1>2, <2>1
    DEF CreateTemplate, Renewtime, DeleteTemplate, SyncTemplate, Store, Fresh,
        ClusterTypeOK, workerVars
  <2>2. CASE \/ EvictPod(v) \/ SyncPod(v) \/ GrowIdle(v)
             \/ PodStarts(v) \/ PodFails(v) \/ PodGone(v)
    BY <1>2, <2>2
    DEF EvictPod, SyncPod, GrowIdle, PodStarts, PodFails, PodGone, Fresh, workerVars
  <2> QED
    BY <1>2, <2>1, <2>2 DEF Environment
<1>3. CASE Others
  BY <1>0, <1>2, <1>3 DEF Others, Resync, Fresh, workerVars
<1>4. CASE Restart \/ UNCHANGED vars
  BY <1>4 DEF Restart, vars, clusterVars, workerVars, Fresh
<1> QED
  BY <1>1, <1>3, <1>4 DEF Next

\* Nothing is forgotten at the start.
LEMMA WakeupInit == Init => WakeupInv /\ NoLostWakeup
BY DEF Init, ClusterInit, WakeupInv, NoLostWakeup, Exists

\* A copy that falls behind leaves an event on its way or its key queued.
LEMMA WakeupStep == CoreInv /\ WakeupInv /\ [Next]_vars => WakeupInv'
<1> SUFFICES ASSUME CoreInv, WakeupInv, [Next]_vars,
                    pc' # "idle", ~Fresh' \/ pc' = "markRunning"
             PROVE  Awake(key)'
  BY DEF WakeupInv, Awake
<1>0. ClusterTypeOK /\ key \in User
  BY DEF CoreInv, TypeOK
<1>1. CASE pc = "idle"
  <2>1. PICK u \in User : Reconcile(u)
    BY <1>1
    DEF Next, Work, AddFinalizer, DeletePod, RemoveFinalizer, CreatePod,
        PollTimeout, RecordStart, MarkRunning, TTLDelete, ReadPod, UpdateStatus,
        Others, Restart, workerVars, vars
  <2>2. key' = u /\ pc' # "markRunning"
    BY <2>1 DEF Reconcile, Enter, AfterFinalizer
  <2>3. "cache" \in atHead[u] => "wtTemplate" \in atHead'[u]
    BY <1>0, <2>1 DEF Reconcile, Holder, ClusterTypeOK
  <2>4. "cache" \notin atHead[u] => "cache" \notin atHead'[u]
    BY <1>0, <2>1 DEF Reconcile, ClusterTypeOK
  <2> QED
    BY <2>2, <2>3, <2>4 DEF Awake, Fresh
<1>2. CASE pc # "idle"
  <2>1. ~Restart /\ key' = key /\ \A u \in User : ~Reconcile(u)
    BY <1>2
    DEF Restart, Reconcile, Next, Work, AddFinalizer, Enter, DeletePod,
        RemoveFinalizer, CreatePod, PollTimeout, RecordStart, MarkRunning,
        TTLDelete, ReadPod, UpdateStatus, Goto, CallFails, Return, Others,
        workerVars, vars, clusterVars
  <2>2. CASE Awake(key)
    <3>1. Awake(key)' \/ key' # key
      BY <1>0, <2>1, <2>2, AwakeStepFact DEF Awake
    <3> QED
      BY <2>1, <3>1 DEF Awake
  <2>3. CASE ~Awake(key)
    <3>1. Fresh /\ pc # "markRunning"
      BY <1>2, <2>3 DEF WakeupInv, Awake
    <3>2. CASE ~Fresh'
      BY <1>2, <2>1, <3>1, <3>2, StaleStepFact DEF Awake
    <3>3. CASE pc' = "markRunning"
      <4>1. RecordStart
        BY <3>1, <3>3
        DEF Next, Work, Reconcile, Enter, AfterFinalizer, AddFinalizer, DeletePod,
            RemoveFinalizer, CreatePod, PollTimeout, MarkRunning, TTLDelete,
            ReadPod, UpdateStatus, Goto, CallFails, Return, Others, Restart,
            workerVars, vars, clusterVars
      <4> QED
        BY <1>0, <3>3, <4>1
        DEF RecordStart, Goto, CallFails, Return, Store, Awake, ClusterTypeOK
    <3> QED
      BY <3>2, <3>3
  <2> QED
    BY <2>2, <2>3
<1> QED
  BY <1>1, <1>2

\* A template that appears has its creation event on its way.
LEMMA AppearFact ==
  ASSUME CoreInv, [Next]_vars, NEW u \in User, ~Exists(u), Exists(u)'
  PROVE  Awake(u)'
<1>0. /\ ClusterTypeOK /\ key \in User
      /\ \A v \in User : Exists(v) <=> template[v] # NoTemplate
  BY DEF CoreInv, TypeOK, Exists
<1>1. CASE AddFinalizer \/ RemoveFinalizer \/ RecordStart \/ MarkRunning
  <2>1. CASE CallFails
    BY <2>1 DEF CallFails, Exists
  <2>2. CASE ~CallFails
    <3>1. template[key] \in Template /\ \A v \in User \ {key} : template'[v] = template[v]
      BY <1>0, <1>1, <2>2, FreshFact
      DEF AddFinalizer, RemoveFinalizer, RecordStart, MarkRunning, Store,
          ClusterTypeOK
    <3> QED
      BY <3>1 DEF Exists, ClusterAssumption
  <2> QED
    BY <2>1, <2>2
<1>2. CASE TTLDelete \/ UpdateStatus
  <2>1. Exists(key) => u # key
    OBVIOUS
  <2> QED
    BY <1>0, <1>2, <2>1
    DEF TTLDelete, UpdateStatus, CallFails, Store, ClusterTypeOK, clusterVars,
        Exists
<1>3. CASE \/ \E v \in User : Reconcile(v)
           \/ DeletePod \/ CreatePod \/ PollTimeout \/ ReadPod \/ Restart \/ Resync
           \/ UNCHANGED vars
  BY <1>3
  DEF Reconcile, DeletePod, CreatePod, PollTimeout, ReadPod, Restart, Resync,
      CallFails, vars, clusterVars, Exists
<1>4. ASSUME NEW v \in User, Environment(v) PROVE Awake(u)'
  <2>1. CASE CreateTemplate(v) \/ Renewtime(v) \/ DeleteTemplate(v) \/ GrowIdle(v)
    <3>1. u = v
      BY <1>0, <2>1
      DEF CreateTemplate, Renewtime, DeleteTemplate, GrowIdle, Store,
          ClusterTypeOK, Exists
    <3>2. CreateTemplate(u)
      BY <2>1, <3>1 DEF Renewtime, DeleteTemplate, GrowIdle
    <3> QED
      BY <1>0, <3>2 DEF CreateTemplate, Store, Awake, ClusterTypeOK
  <2>2. CASE \/ SyncTemplate(v) \/ EvictPod(v) \/ SyncPod(v)
             \/ PodStarts(v) \/ PodFails(v) \/ PodGone(v)
    BY <2>2
    DEF SyncTemplate, EvictPod, SyncPod, PodStarts, PodFails, PodGone, Exists
  <2> QED
    BY <1>4, <2>1, <2>2 DEF Environment
<1> QED
  BY <1>1, <1>2, <1>3, <1>4 DEF Next, Work, Others

\* updateStatus gives up on a template that is up to date.
GivesUp(u) ==
  /\ ApiFails
  /\ pc = "updateStatus" /\ key = u /\ Fresh
  /\ UNCHANGED <<template, atHead>>

\* Every way a reconcile ends sees to the next one, but that one.
LEMMA ReturnFact ==
  ASSUME CoreInv, WakeupInv, Work, pc # "idle", pc' = "idle"
  PROVE  (Awake(key)' \/ GivesUp(key)) /\ key' = key
<1>0. /\ TypeOK /\ ClusterTypeOK /\ CacheInv /\ WorkerInv /\ TTLDeleteJustified
      /\ key \in User /\ template[key] \in Template \cup {NoTemplate}
  BY DEF CoreInv, TypeOK, ClusterTypeOK
<1> USE DEF Awake
<1>1. ASSUME CallFails PROVE Awake(key)' /\ key' = key
  BY <1>1 DEF CallFails, Return
<1>2. CASE \E u \in User : Reconcile(u)
  BY <1>2 DEF Reconcile
<1>3. CASE AddFinalizer
  BY <1>1, <1>3 DEF AddFinalizer, Enter, AfterFinalizer
<1>4. CASE DeletePod \/ CreatePod \/ PollTimeout
  BY <1>1, <1>4 DEF DeletePod, CreatePod, PollTimeout, Goto
<1>5. CASE RemoveFinalizer
  BY <1>0, <1>1, <1>5 DEF RemoveFinalizer, Return, Store, ClusterTypeOK
<1>6. CASE RecordStart
  BY <1>1, <1>6 DEF RecordStart, Goto
<1>7. CASE MarkRunning
  BY <1>0, <1>1, <1>7 DEF MarkRunning, Return, Store, WakeupInv, ClusterTypeOK
<1>8. CASE TTLDelete
  <2>1. CASE CallFails
    BY <1>1, <2>1
  <2>2. CASE ~CallFails
    <3>1. /\ pc = "ttlDelete" /\ Return(FALSE)
          /\ \/ template[key].deleting /\ UNCHANGED <<template, atHead>>
             \/ Store(key, Deleted(template[key]), {})
      BY <1>8, <2>2 DEF TTLDelete
    <3>2. CASE Store(key, Deleted(template[key]), {})
      BY <1>0, <3>1, <3>2 DEF Return, Store, ClusterTypeOK
    <3>3. CASE template[key].deleting /\ UNCHANGED <<template, atHead>>
      BY <1>0, <3>1, <3>3 DEF TTLDeleteJustified, WakeupInv, Return
    <3> QED
      BY <3>1, <3>2, <3>3
  <2> QED
    BY <2>1, <2>2
<1>9. CASE ReadPod
  BY <1>9 DEF ReadPod
<1>10. CASE UpdateStatus
  <2>1. CASE Return(TRUE)
    BY <2>1 DEF Return
  <2>2. CASE ~Return(TRUE)
    <3>1. /\ Return(FALSE) /\ UNCHANGED <<template, atHead>> /\ pc = "updateStatus"
          /\ \/ templateCache[key] = NoTemplate \/ ~Exists(key) \/ ApiFails
             \/ "cache" \notin atHead[key]
      BY <1>10, <2>2 DEF UpdateStatus
    <3>2. template[key] # NoTemplate /\ Exists(key)
      BY <1>0, <3>1 DEF WorkerInv, LiveSteps, IsGuarded, Exists
    <3>3. "cache" \in atHead[key] => ApiFails
      BY <1>0, <3>1, <3>2 DEF CacheInv
    <3>4. Fresh \/ Awake(key)
      BY <1>0, <3>1 DEF WakeupInv
    <3> QED
      BY <3>1, <3>3, <3>4 DEF Return, GivesUp
  <2> QED
    BY <2>1, <2>2
<1> QED
  BY <1>2, <1>3, <1>4, <1>5, <1>6, <1>7, <1>8, <1>9, <1>10 DEF Work

\* A template that a step forgets is one that updateStatus gave up.
LEMMA ForgetStep ==
  ASSUME CoreInv, WakeupInv, [Next]_vars, NEW u \in User,
         ~Forgotten(u), ~GivesUp(u)
  PROVE  ~Forgotten(u)'
<1> SUFFICES ASSUME Exists(u)'
             PROVE  Awake(u)' \/ (pc' # "idle" /\ key' = u)
  BY DEF Forgotten, Awake
<1>0. /\ ClusterTypeOK /\ CacheInv /\ key \in User
      /\ templateCache[u] \in Template \cup {NoTemplate}
  BY DEF CoreInv, TypeOK, ClusterTypeOK
<1>1. CASE Restart
  BY <1>1 DEF Restart, Awake, Exists
<1>2. CASE Reconcile(u)
  <2>1. CASE templateCache[u] = NoTemplate
    <3>1. "cache" \notin atHead[u]
      BY <1>0, <1>2, <2>1 DEF Reconcile, CacheInv, Exists
    <3> QED
      BY <1>0, <1>2, <3>1 DEF Reconcile, Awake, ClusterTypeOK
  <2>2. CASE templateCache[u] # NoTemplate
    <3>1. templateCache[u].deleting => templateCache[u].finalizer
      BY <1>0, <2>2 DEF CacheInv, IsDeleting
    <3> QED
      BY <1>2, <2>2, <3>1 DEF Reconcile, Enter, AfterFinalizer
  <2> QED
    BY <2>1, <2>2
<1>3. CASE ~Restart /\ ~Reconcile(u)
  <2>1. CASE ~Exists(u)
    BY <2>1, AppearFact
  <2>2. CASE Exists(u) /\ Awake(u)
    BY <1>3, <2>2, AwakeStepFact
  <2>3. CASE Exists(u) /\ ~Awake(u)
    <3>1. pc # "idle" /\ key = u
      BY <2>3 DEF Forgotten, Awake
    <3>2. CASE Work /\ pc' = "idle"
      BY <3>1, <3>2, ReturnFact
    <3>3. CASE Work /\ pc' # "idle"
      BY <3>1, <3>3
      DEF Work, Reconcile, AddFinalizer, Enter, DeletePod, RemoveFinalizer,
          CreatePod, PollTimeout, RecordStart, MarkRunning, TTLDelete, ReadPod,
          UpdateStatus, Goto, CallFails, Return
    <3>4. CASE Others \/ UNCHANGED vars
      BY <3>1, <3>4 DEF Others, vars, workerVars
    <3> QED
      BY <1>3, <3>2, <3>3, <3>4 DEF Next
  <2> QED
    BY <2>1, <2>2, <2>3
<1> QED
  BY <1>1, <1>2, <1>3

\* With an API server that does not fail, nothing is given up.
LEMMA NoLostWakeupStep ==
  ~ApiFails /\ CoreInv /\ WakeupInv /\ NoLostWakeup /\ [Next]_vars => NoLostWakeup'
<1>1. NoLostWakeup <=> \A u \in User : ~Forgotten(u)
  BY DEF NoLostWakeup, Forgotten
<1>2. NoLostWakeup' <=> \A u \in User : ~Forgotten(u)'
  BY DEF NoLostWakeup, Forgotten
<1>3. ~ApiFails => \A u \in User : ~GivesUp(u)
  BY DEF GivesUp
<1> QED
  BY <1>1, <1>2, <1>3, ForgetStep
-----------------------------------------------------------------------------
(* The theorems. *)

\* The inductive invariant holds initially and is kept by every step.
THEOREM Inductive == Spec => []IInv
<1>1. Init => IInv
  BY CoreInit, PodInit, EarnedInit, WakeupInit DEF IInv, CoreInv, PodFacts
<1>2. IInv /\ [Next]_vars => IInv'
  <2> SUFFICES ASSUME IInv, [Next]_vars PROVE IInv'
    OBVIOUS
  <2>1. CoreInv
    BY DEF IInv, CoreInv
  <2>2. CoreInv'
    BY <2>1, CoreStep
  <2>3. WakeupInv'
    BY <2>1, WakeupStep DEF IInv
  <2>4. ~PodCacheLags => PodFacts'
    BY <2>1, <2>2, PodStep DEF IInv, PodFacts
  <2>5. ~ApiFails => NoLostWakeup'
    BY <2>1, NoLostWakeupStep DEF IInv
  <2>6. StartedInv' /\ StatusEarned'
    BY <2>1, StartedStep, EarnedStep DEF IInv
  <2> QED
    BY <2>2, <2>3, <2>4, <2>5, <2>6 DEF IInv, CoreInv, PodFacts
<1> QED
  BY <1>1, <1>2, PTL DEF Spec

\* Every variable keeps its type: no retry counter, status or stored template
\* ever leaves its range, whatever the environment does.
THEOREM TypeCorrect == Spec => []TypeOK
<1>1. IInv => TypeOK
  BY DEF IInv
<1> QED
  BY <1>1, Inductive, PTL

\* A template is only taken for expired by a worker that is right about it, or
\* whose copy is known to be stale (checkTTL, lines 156-170).
THEOREM TTLSafe == Spec => []TTLDeleteJustified
<1>1. IInv => TTLDeleteJustified
  BY DEF IInv
<1> QED
  BY <1>1, Inductive, PTL

\* handleFinalizer never leaves a pod without a guarded template, for any
\* number of users, retries, failures and restarts, if pod reads are current.
THEOREM NoOrphans ==
  ASSUME ~PodCacheLags PROVE Spec => []NoOrphanPod
<1>1. IInv => NoOrphanPod
  BY DEF IInv
<1> QED
  BY <1>1, Inductive, PTL

\* Nor does a teardown ever have a live user's pod in front of it.
THEOREM NoKills ==
  ASSUME ~PodCacheLags PROVE Spec => []NoPrematureKill
<1>1. IInv => NoPrematureKill
  BY DEF IInv
<1> QED
  BY <1>1, Inductive, PTL

\* If the API server does not fail, no return of Reconcile forgets a template.
THEOREM NoneForgotten ==
  ASSUME ~ApiFails PROVE Spec => []NoLostWakeup
<1>1. IInv => NoLostWakeup
  BY DEF IInv
<1> QED
  BY <1>1, Inductive, PTL

\* Whatever fails, is stale or restarts: no template says it was started, runs
\* or is ready that was not started and guarded itself, although names are used
\* again and the worker writes what it read some time ago.
THEOREM StatusesEarned == Spec => []StatusEarned
<1>1. IInv => StatusEarned
  BY DEF IInv
<1> QED
  BY <1>1, Inductive, PTL

\* The writes of the worker, of the sessions and of administrators never take
\* back what another has stored, however old the copies they are made from.
THEOREM NoneUndone == Spec => NothingUndone
<1>1. IInv /\ [Next]_vars => \A u \in User : Exists(u) /\ Exists(u)' => Keeps(u)
  BY UndoneStep DEF IInv, CoreInv, Exists
<1> DEFINE All == \A u \in User : Exists(u) /\ Exists(u)' =>
                    LET s == template[u]
                        t == template'[u]
                    IN /\ s.finalizer => t.finalizer
                       /\ s.deleting => t.deleting
                       /\ s.existsTime => t.existsTime
                       /\ s.phase # "" => t.phase # ""
                       /\ t.idle => s.idle \/ GrowIdle(u)
<1>2. IInv /\ [Next]_vars => [All]_vars
  BY <1>1 DEF Keeps, Says
<1>3. NothingUndone <=> [][All]_vars
  BY DEF NothingUndone
<1> HIDE DEF All
<1> QED
  BY <1>2, <1>3, Inductive, PTL DEF Spec

\* Of all ways to end a reconcile, with any failures, conflicts and restarts,
\* only updateStatus giving up forgets a template.
THEOREM StatusForgets == Spec => OnlyStatusForgets
<1> DEFINE Blame == \A u \in User : ~Forgotten(u) /\ Forgotten(u)' => GivesUp(u)
<1>1. IInv /\ [Next]_vars => Blame
  BY ForgetStep DEF IInv, CoreInv
<1>2. Blame => [\A u \in User : ~Forgotten(u) /\ Forgotten(u)' =>
                  /\ ApiFails
                  /\ pc = "updateStatus" /\ key = u /\ Fresh
                  /\ UNCHANGED <<template, atHead>>]_vars
  BY DEF GivesUp
<1> HIDE DEF Blame
<1> QED
  BY <1>1, <1>2, Inductive, PTL DEF Spec, OnlyStatusForgets

\* The step that leaves a pod behind, in whatever environment.
LEMMA OrphanStep ==
  ASSUME CoreInv, PodCacheLags \/ PodInv, [Next]_vars,
         NEW u \in User, ~Orphaned(u), Orphaned(u)'
  PROVE  /\ PodCacheLags
         /\ pc = "removeFinalizer" /\ key = u /\ Fresh
         /\ template[u].deleting
<1>0. ClusterTypeOK /\ ClusterTypeOK' /\ CacheInv /\ CacheInv' /\ WorkerInv
  BY CoreStep DEF CoreInv, TypeOK
<1>1. pod'[u] # "absent" /\ ~IsGuarded(template'[u])
  BY DEF Orphaned
\* The pod was there: its template was given up.
<1>2. CASE pod[u] # "absent"
  <2>1. /\ template[u] \in Template \cup {NoTemplate}
        /\ template'[u] \in Template \cup {NoTemplate}
        /\ IsDeleting(template[u]) => template[u].finalizer
        /\ IsDeleting(template'[u]) => template'[u].finalizer
    BY <1>0 DEF ClusterTypeOK, CacheInv
  <2>2. /\ StageOf(template[u]) \in {"guarded", "closing"}
        /\ StageOf(template'[u]) \in {"none", "requested"}
    BY <1>1, <1>2, <2>1, StageFact DEF Orphaned
  <2>3. /\ StageOf(template[u]) = "closing"
        /\ pc = "removeFinalizer" /\ u = key /\ Fresh
    BY <2>2, LifeStepFact DEF LifeStep, Steady, Moves
  <2>4. template[u].deleting
    BY <2>1, <2>3, StageFact DEF IsDeleting
  <2>5. PodCacheLags
    BY <1>2, <2>3 DEF PodInv
  <2> QED
    BY <2>3, <2>4, <2>5
\* A pod is created for a guarded template.
<1>3. CASE pc = "createPod" /\ u = key /\ UNCHANGED template
  BY <1>0, <1>1, <1>3 DEF WorkerInv, LiveSteps
<1> QED
  BY <1>1, <1>2, <1>3, PodStepFact

\* Of all the steps of the worker and of others, with conflicts, crashes, late
\* reads and names used again, one leaves a pod behind: that of a teardown
\* which last saw the pod gone (handleFinalizer, lines 101-118).
THEOREM StrayOrphans == Spec => OnlyStaleReadOrphans
<1> DEFINE Blame == \A u \in User : ~Orphaned(u) /\ Orphaned(u)' =>
                      /\ PodCacheLags
                      /\ pc = "removeFinalizer" /\ key = u /\ Fresh
                      /\ template[u].deleting
<1>1. IInv /\ [Next]_vars => Blame
  BY OrphanStep DEF IInv, CoreInv
<1>2. Blame => [\A u \in User : ~Orphaned(u) /\ Orphaned(u)' =>
                  /\ PodCacheLags
                  /\ pc = "removeFinalizer" /\ key = u /\ Fresh
                  /\ template[u].deleting]_vars
  OBVIOUS
<1> HIDE DEF Blame
<1> QED
  BY <1>1, <1>2, Inductive, PTL DEF Spec, OnlyStaleReadOrphans

\* A teardown is wrong only if it went by a copy that was not the newest: the
\* worker whose copy is, with whatever pod reads, deletes no pod of a template
\* that lives (handleFinalizer, lines 101-117).
THEOREM NoFreshKills == Spec => [](Fresh => NoPrematureKill)
<1>1. IInv => (Fresh => NoPrematureKill)
  BY DEF IInv, WorkerInv, NoPrematureKill, Teardown, Exists, IsDeleting
<1> QED
  BY <1>1, Inductive, PTL
-----------------------------------------------------------------------------
(* The refinement. *)

\* A step changes the pod of one user at most.
LEMMA OnePod ==
  ASSUME CoreInv, [Next]_vars
  PROVE  \/ UNCHANGED pod
         \/ \E u \in User : \A v \in User \ {u} : pod'[v] = pod[v]
<1>0. pod \in [User -> Pod] /\ key \in User
  BY DEF CoreInv, TypeOK, ClusterTypeOK
<1>1. CASE DeletePod \/ CreatePod
  <2>1. UNCHANGED pod \/ \A v \in User \ {key} : pod'[v] = pod[v]
    BY <1>0, <1>1 DEF DeletePod, CreatePod, CallFails, clusterVars
  <2> QED
    BY <1>0, <2>1
<1>2. ASSUME NEW u \in User, Environment(u)
      PROVE  UNCHANGED pod \/ \A v \in User \ {u} : pod'[v] = pod[v]
  BY <1>0, <1>2
  DEF Environment, CreateTemplate, Renewtime, DeleteTemplate, EvictPod,
      SyncTemplate, SyncPod, GrowIdle, PodStarts, PodFails, PodGone
<1>3. CASE Others
  BY <1>2, <1>3 DEF Others, Resync
<1>4. CASE UNCHANGED pod
  BY <1>4
<1> QED
  BY <1>1, <1>3, <1>4
  DEF Next, Work, Reconcile, AddFinalizer, RemoveFinalizer, PollTimeout,
      RecordStart,
      MarkRunning, TTLDelete, ReadPod, UpdateStatus, Restart, CallFails,
      clusterVars, vars

\* An empty cluster is a cluster without workspaces.
LEMMA WorkspaceInitFact == Init => W!WorkspaceInit
BY DEF Init, ClusterInit, W!WorkspaceInit, StageOf, IsDeleting, IsGuarded

\* Every step of the system is a step of a workspace, or of none: the
\* refinement, step by step.
LEMMA WorkspaceStep ==
  ASSUME IInv, [Next]_vars
  PROVE  [W!WorkspaceNext]_(W!workspaceVars)
<1> DEFINE stage == [u \in User |-> StageOf(template[u])]
           podUp == [u \in User |-> pod[u] # "absent"]
<1>0. /\ CoreInv /\ WorkerInv /\ ClusterTypeOK
      /\ PodCacheLags \/ PodInv
  BY DEF IInv, CoreInv, TypeOK
<1>1. ASSUME NEW u \in User, NEW from, NEW to, Moves(u, from, to)
      PROVE  W!Move(u, from, to)
  BY <1>1 DEF Moves, W!Move
<1>2. CASE ~Steady
  <2>1. PICK u \in User :
          \/ Moves(u, "none", "requested")
          \/ Moves(u, "requested", "none")
          \/ Moves(u, "requested", "guarded")
          \/ Moves(u, "guarded", "closing")
          \/ /\ Moves(u, "closing", "none")
             /\ pc = "removeFinalizer" /\ u = key
    BY <1>0, <1>2, LifeStepFact DEF LifeStep
  <2>2. CASE Moves(u, "closing", "none") /\ pc = "removeFinalizer" /\ u = key
    <3>1. pod[u] # "absent" => PodCacheLags
      BY <1>0, <2>2 DEF PodInv
    <3>2. W!Reap(u)
      BY <1>1, <2>2, <3>1 DEF W!Reap
    <3> QED
      BY <3>2 DEF W!WorkspaceNext
  <2> QED
    BY <1>1, <2>1, <2>2
    DEF W!WorkspaceNext, W!Request, W!Withdraw, W!Guard, W!Close
<1>3. CASE Steady
  <2>1. stage' = stage
    BY <1>3 DEF Steady
  <2>2. CASE podUp' = podUp
    BY <2>1, <2>2 DEF W!workspaceVars
  <2>3. CASE podUp' # podUp
    <3>1. PICK u \in User : \A v \in User \ {u} : pod'[v] = pod[v]
      BY <1>0, <2>3, OnePod
    <3>2. podUp'[u] # podUp[u]
      BY <2>3, <3>1
    <3>3. CASE pod[u] # "absent"
      <4>1. podUp' = [podUp EXCEPT ![u] = FALSE]
        BY <3>1, <3>2, <3>3
      <4>2. W!StopPod(u)
        BY <2>1, <3>3, <4>1 DEF W!StopPod
      <4> QED
        BY <4>2 DEF W!WorkspaceNext
    <3>4. CASE pod[u] = "absent"
      <4>1. podUp' = [podUp EXCEPT ![u] = TRUE]
        BY <3>1, <3>2, <3>4
      <4>2. pod'[u] # "absent"
        BY <3>2, <3>4
      <4>3. IsGuarded(template[u])
        BY <1>0, <3>4, <4>2, PodStepFact DEF WorkerInv, LiveSteps
      <4>4. StageOf(template[u]) \in {"guarded", "closing"}
        BY <4>3 DEF StageOf, IsDeleting, IsGuarded
      <4>5. W!StartPod(u)
        BY <2>1, <3>4, <4>1, <4>4 DEF W!StartPod
      <4> QED
        BY <4>5 DEF W!WorkspaceNext
    <3> QED
      BY <3>3, <3>4
  <2> QED
    BY <2>2, <2>3
<1> QED
  BY <1>2, <1>3

\* The reconciler, its caches, retries and restarts included, is an
\* implementation of one guarded life cycle per user: of one without strays
\* where pod reads are current, and of one whose pods may stray, and that is
\* otherwise the same, where they are not.
THEOREM Implements == Spec => ImplementsWorkspace
<1>1. Init => W!WorkspaceInit
  BY WorkspaceInitFact
<1>2. IInv /\ [Next]_vars => [W!WorkspaceNext]_(W!workspaceVars)
  BY WorkspaceStep
<1> QED
  BY <1>1, <1>2, Inductive, PTL DEF Spec, ImplementsWorkspace, W!WorkspaceSpec
=============================================================================
