------------------------------- MODULE Cluster -------------------------------
(***************************************************************************)
(* The Kubernetes objects the web-terminal service works on, as its code   *)
(* sees them: one WebterminalTemplate and one pod per user, both named     *)
(* "openfuyao-<user>", the informer caches the manager's client reads      *)
(* from, and the work queue those informers feed.  Nothing here is code of *)
(* the service except the records it stores and the writes its clients     *)
(* make; the API server, the caches and the kubelet are modelled from how  *)
(* the service relies on them.                                             *)
(*                                                                         *)
(* Optimistic concurrency is modelled without version numbers.  atHead[u]  *)
(* names the copies of u's template that carry the newest resourceVersion: *)
(* the informer cache and the reconciler's wtTemplate.  A write that       *)
(* changes the stored object empties it (but for the writer's own copy,    *)
(* which the response refreshes), and an Update succeeds exactly when the  *)
(* writer's copy is in it.                                                 *)
(***************************************************************************)
CONSTANTS
  User,          \* the users; each owns one template and one pod
  NoTemplate,    \* what is read when the template does not exist
  PodCacheLags   \* may a pod read return a state older than the poll period?

Phase == {"", "Runnings", "Stopped"}

\* Time is abstracted to whether the TTL has run out: idle says that
\* RenewTime is zero or 26 minutes old.  existsTime says that ExistsTime is
\* set, ready stands for the pod conditions mirrored into the status.
Template ==
  [ finalizer  : BOOLEAN,
    deleting   : BOOLEAN,
    existsTime : BOOLEAN,
    idle       : BOOLEAN,
    phase      : Phase,
    ready      : BOOLEAN ]

Pod == {"absent", "pending", "ready", "readyDying", "dying"}
PodReady == {"ready", "readyDying"}
PodDying == {"dying", "readyDying"}

Holder == {"cache", "wtTemplate"}

ASSUME ClusterAssumption ==
  /\ NoTemplate \notin Template
  /\ PodCacheLags \in BOOLEAN

VARIABLES
  template,       \* the template stored by the API server, per user
  templateCache,  \* the template the informer cache returns, per user
  atHead,         \* the copies that carry the newest resourceVersion
  pod,            \* the user's pod
  podCache,       \* the pod the informer cache returns
  queue           \* the keys waiting in the controller's work queue

clusterVars == <<template, templateCache, atHead, pod, podCache, queue>>

ClusterTypeOK ==
  /\ template \in [User -> Template \cup {NoTemplate}]
  /\ templateCache \in [User -> Template \cup {NoTemplate}]
  /\ atHead \in [User -> SUBSET Holder]
  /\ pod \in [User -> Pod]
  /\ podCache \in [User -> Pod]
  /\ queue \in SUBSET User

\* The service starts on an empty cluster; Restart covers the other starts.
ClusterInit ==
  /\ template = [u \in User |-> NoTemplate]
  /\ templateCache = [u \in User |-> NoTemplate]
  /\ atHead = [u \in User |-> {"cache"}]
  /\ pod = [u \in User |-> "absent"]
  /\ podCache = [u \in User |-> "absent"]
  /\ queue = {}
-----------------------------------------------------------------------------
(* What the API server does with a request. *)

Exists(u) == template[u] # NoTemplate

\* t becomes the stored template of u; only the copies in holders have its
\* resourceVersion.
Store(u, t, holders) ==
  /\ template' = [template EXCEPT ![u] = t]
  /\ atHead' = [atHead EXCEPT ![u] = holders]

\* The metadata, spec and status the service writes for a new template.
NewTemplate ==
  [ finalizer |-> FALSE, deleting |-> FALSE, existsTime |-> FALSE,
    idle |-> TRUE, phase |-> "", ready |-> FALSE ]

\* DELETE: the object stays, marked, until its last finalizer is removed.
Deleted(t) == IF t.finalizer THEN [t EXCEPT !.deleting = TRUE] ELSE NoTemplate

\* An update that drops the finalizer of a marked object removes it.
WithoutFinalizer(t) ==
  IF t.deleting THEN NoTemplate ELSE [t EXCEPT !.finalizer = FALSE]

Renewed(t) == [t EXCEPT !.idle = FALSE]

Dying(p) == IF p \in PodReady THEN "readyDying" ELSE "dying"

\* The pod a cached read returns.
SeenPod(u) == IF PodCacheLags THEN podCache[u] ELSE pod[u]
-----------------------------------------------------------------------------
(* What the clients of the API server write. *)

\* MgrClient.Create in CreateUserPod, when the name is free.
CreateTemplate(u) ==
  /\ ~Exists(u)
  /\ Store(u, NewTemplate, {})
  /\ UNCHANGED <<templateCache, pod, podCache, queue>>

\* Window.Renewtime: a cached Get and an Update.  The Update goes through
\* exactly when the copy that was read is still the newest, which is when the
\* cache is; in every other case nothing is stored and the error is logged.
Renewtime(u) ==
  /\ Exists(u)
  /\ "cache" \in atHead[u]
  /\ Store(u, Renewed(template[u]), {})
  /\ UNCHANGED <<templateCache, pod, podCache, queue>>

\* An administrator deletes the template.
DeleteTemplate(u) ==
  /\ Exists(u)
  /\ ~template[u].deleting
  /\ Store(u, Deleted(template[u]), {})
  /\ UNCHANGED <<templateCache, pod, podCache, queue>>

\* An administrator, or an eviction, deletes the pod.
EvictPod(u) ==
  /\ pod[u] \in {"pending", "ready"}
  /\ pod' = [pod EXCEPT ![u] = Dying(pod[u])]
  /\ UNCHANGED <<template, templateCache, atHead, podCache, queue>>
-----------------------------------------------------------------------------
(* What happens by itself. *)

\* The template informer catches up: the cache holds the newest version and
\* the event handler enqueues the key.
SyncTemplate(u) ==
  /\ "cache" \notin atHead[u]
  /\ templateCache' = [templateCache EXCEPT ![u] = template[u]]
  /\ atHead' = [atHead EXCEPT ![u] = @ \cup {"cache"}]
  /\ queue' = queue \cup {u}
  /\ UNCHANGED <<template, pod, podCache>>

\* The pod informer catches up; no handler is registered for pods.
SyncPod(u) ==
  /\ PodCacheLags
  /\ podCache[u] # pod[u]
  /\ podCache' = [podCache EXCEPT ![u] = pod[u]]
  /\ UNCHANGED <<template, templateCache, atHead, pod, queue>>

\* The informer's periodic resync enqueues every cached template.
Resync ==
  /\ queue' = queue \cup {u \in User : templateCache[u] # NoTemplate}
  /\ UNCHANGED <<template, templateCache, atHead, pod, podCache>>

Aged(t) == IF t = NoTemplate THEN t ELSE [t EXCEPT !.idle = TRUE]

\* 26 minutes pass without a renewal; every copy of RenewTime grows old.
GrowIdle(u) ==
  /\ Exists(u) /\ ~template[u].idle
  /\ template' = [template EXCEPT ![u] = Aged(@)]
  /\ templateCache' = [templateCache EXCEPT ![u] = Aged(@)]
  /\ UNCHANGED <<atHead, pod, podCache, queue>>

PodStarts(u) ==
  /\ pod[u] = "pending"
  /\ pod' = [pod EXCEPT ![u] = "ready"]
  /\ UNCHANGED <<template, templateCache, atHead, podCache, queue>>

\* A container of the pod fails its probe, or exits.
PodFails(u) ==
  /\ pod[u] \in PodReady
  /\ pod' = [pod EXCEPT ![u] = IF @ = "ready" THEN "pending" ELSE "dying"]
  /\ UNCHANGED <<template, templateCache, atHead, podCache, queue>>

PodGone(u) ==
  /\ pod[u] \in PodDying
  /\ pod' = [pod EXCEPT ![u] = "absent"]
  /\ UNCHANGED <<template, templateCache, atHead, podCache, queue>>
=============================================================================
