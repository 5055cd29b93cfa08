# Verification of web-terminal-service

This directory holds TLA+ models of the web-terminal-service, the TLC
configurations that check them, and proofs for TLAPS. The reference is the
source under `src/`; line numbers are those of this commit.

## 1. The system

The service gives a user a terminal in the browser: in any container of the
cluster (a *pod terminal*), or in a workspace pod of the user's own (a *user
terminal*). It is one process with two halves, started by `cmd/main.go`: a
controller-runtime manager that reconciles `WebterminalTemplate` objects, and
an HTTP API server whose handlers upgrade requests to websockets.

| component | state it keeps | operations | interacts with |
|---|---|---|---|
| Reconciler (`internal/controller`) | nothing of its own: the template's finalizer, `ExistsTime`, `RenewTime` and status; the pod | `Reconcile` = `handleFinalizer`, `ensurePodRunning`, `checkTTL`, `syncStatus` | API server (writes), informer caches (reads), work queue |
| User workspace sessions (`pkg/webterminal/terminal.go`) | how far each request is | `HandleCusterTerminal`, `CreateUserPod` | the same objects through the manager's client |
| Open terminal (`terminal.go`, `window.go`) | websocket, `sizeChan`, context, exec stream | `HandleTerminal`, `startProcess`, `startSessionWithPing`, `Window.Read/Write/Next/Close` | browser, container, four or five goroutines, `Renewtime` |
| Start-up (`cmd/main.go`, `apiserver.go`, `runtime/serverconfig.go`, `config`, `client/k8s`) | server configuration, listener | `main`, `StartAPIServer`, `NewServerConfig`, `Validate`, `initServer`, `Run` | environment, TLS files, kubeconfig |
| Admission (`handler.go`, `filters`, `register.go`) | request context, upgraded connection | `RecordAccessLogs`, `ExactSubjectAccess`, the routes, upgrade, `checkUserAccess` | cluster role bindings, browser; starts sessions and terminals |
| Logging (`pkg/zlog`) | the global `Logger` | `init`, `Log*`, reload on change | configuration file, every goroutine |
| HTTP client (`apiclient.go`), API scheme (`api/v1beta1`), deployment | - | - | - |

What is hard, component by component, and what makes each correct:

* **Reconciler.** It reads caches that lag, works on a copy it writes back
  under optimistic concurrency, is the only thing that will ever delete the
  pod, and is woken by events of the template only: nothing watches pods.
  Correct means: no pod without a guarded template, no live workspace torn
  down, no template forgotten, idle workspaces reclaimed, lost pods restored.
* **User workspace sessions.** Sessions of one user race with each other, with
  the reconciler, and with deletions. Correct means: whatever they do is
  something the reconciler can live with, no workspace starts in the pod of a
  previous one, no session waits for ever, nothing is left when users leave.
* **Open terminal.** Goroutines share a websocket that allows one writer, an
  unbuffered channel that one of them closes, and a context. Correct means: no
  panic (a panic ends every session), the terminal ends when its shell or its
  browser does, no goroutine stays, what is typed arrives in order, once.
* **Start-up.** Two goroutines come up without waiting for each other, from
  files and an environment that may be wrong in many ways. Correct means: all
  or nothing, and what serves is what was configured.
* **Admission.** A decision on a snapshot, answered on a connection that has
  been upgraded already, by code in five places. Correct means: no terminal for
  a user who held no role since the token was read, one answer for each
  request, and no connection left open but where the code leaves it.
* **Logging.** A global pointer that is replaced while everybody reads it, by a
  callback that may run before the pointer is first set. Correct means: logging
  does not bring the process down, a new configuration comes into force.

The places where these are hard to test are listed with their lines under
`hazards` in `PROJECT.json`.

## 2. The modules

| module | models |
|---|---|
| `Workspace` | abstract: what the reconciler promises about one user's workspace, and (`Strays`) what it cannot |
| `Cluster` | templates and pods as the API server stores them, informer caches, the work queue, and the writes clients make |
| `Reconciler` | `webterminaltemplate_controller.go` over `Cluster` |
| `UserTerminal` | `HandleCusterTerminal` and `CreateUserPod`, over `Reconciler`: the composed service |
| `Terminal` | abstract: what an open terminal promises to who types |
| `Window` | one open terminal and its goroutines |
| `Startup` | the process coming up |
| `AccessControl` | abstract: who gets a terminal |
| `Admission` | requests on their way through filters, router and handlers |
| `Logging` | the global `Logger`, `init()`, and the watcher that replaces it |
| `MCReconciler`, `MCUserTerminal` | symmetry and the quieter next-state relation for two users |
| `ReconcilerProofs`, `UserTerminalProofs`, `WindowProofs`, `TerminalProofs`, `StartupProofs`, `LoggingProofs`, `AdmissionProofs` | the theorems |

An operator introduced by a comment that begins with "Faulty:" is a variant of
the definition it stands before, with a plausible mistake. No specification
uses it; it is there to show that a property notices the mistake (`mutants` in
`PROJECT.json`).

### Cluster and Reconciler

A user's template is a record of what the code tests: has it the finalizer, is
it marked deleted, is `ExistsTime` set, is `RenewTime` older than 26 minutes
(`idle`; a zero time is), the phase, and whether the mirrored conditions say
ready. Time enters only as `GrowIdle`, poll ticks and timeouts.

Versions are not counted. `atHead[u]` is the set of copies (the informer's, the
worker's `wtTemplate`) that carry the newest `resourceVersion`. A write of a
changed object empties it but for the writer; `Update` succeeds exactly when
the writer's copy is in it. A conflict is thus not a random failure: it happens
exactly when somebody else wrote.

The worker's program counter `pc` names the API call it is about to make or the
poll it is in; the checks between two calls are part of the action that leads
to them. So `Reconcile` is the cached Get and everything up to the first call,
`AddFinalizer` is the Update and the checks that follow it, `DeletePod` and
`CreatePod` are one poll tick each, `PollTimeout` ends either poll,
`RecordStart` and `MarkRunning` are the two writes of `ensurePodRunning`,
`TTLDelete` is the Delete of `checkTTL`, `ReadPod` and `UpdateStatus` are
`syncStatus` and one attempt of `updateStatus`. `Restart` is a crash of the
process anywhere, or a planned stop, and the start that follows.

Two constants open the environment. `ApiFails` lets every call fail without
effect. `PodCacheLags` lets pod reads return any older state: informers of two
kinds have no common order. With `FALSE`, a pod read shows the pod as it is,
which is what a cache at most one poll period (1 s) old amounts to.

Template reads always come from a cache that may lag. With one worker
(`MaxConcurrentReconciles` is not set) there is one `pc`.

`Workspace` knows a stage (none, requested, guarded, closing) and whether the
pod is up. Its constant `Strays` is mapped to `PodCacheLags`: only then may a
closing workspace be gone while its pod is still up. Nothing else about the life
cycle depends on how old pod reads are.

### UserTerminal

`step[s]` is how far the handler of session `s` is. `Lookup` is the first Get,
`WaitGone` a tick of the wait for a deletion, `PodFound` and `CreateTick` a tick
of `CreateUserPod`, `CreateTimeout` its end. `CreateUserPod` reports nothing to its
caller, so every way out of it leads to the shell probe. `"abandoned"` is the
return of line 256, with nobody closing the connection. An open terminal is
abstracted to `Renew` and `End`; `Window` looks inside.

`started` says whether the caches were started since the process was. `main`
starts the API server (line 121) before the manager (line 133), so a request
may come first. The client's Get then fails with an error that is not
NotFound: `Lookup` takes it for a template that does not exist, and the ticks of
`CreateUserPod` wait. Neither worker nor informers move before `CachesStart`,
and `ServiceRestart` sets `started` back.

A session begins where `Admission` lets a request for a user terminal through
(its stage "terminal"); `Connect` makes no assumption about who that is.

### Window and Terminal

Each goroutine has a variable; a message is a text that fits the buffer it is
read with or one that does not, an unknown message, a close, or a size with
both sides, one side or none positive. `given` is what the shell was given, by
the texts' places among the messages; `Fits` is whether the `copy` of `Read`,
which drops what does not fit the library's 32 KiB buffer, dropped something.
`StreamEnds` does not wait for
the reader: the exec library waits for the process's output only. The
websocket's `isWriting` is the flag gorilla's `WriteMessage` panics on;
`WriteControl`, which pings and the library's close handler use, may run beside
it. `withPing`, chosen once, says whether it is a user terminal
(`startSessionWithPing`) or a pod terminal, which has the library's close
handler and no pinger. A probe by `getShell` precedes the stream and may fail.

Writes fail in more ways than by a websocket that is closed. `writeErr` is the
library's sticky error: a write that failed, or a Close frame that was sent, and
every later write fails. A write or a ping may miss its deadline at any time, the
browser being there; a ping that fails closes the websocket. `deadlineSet` says
that `Write` has set a write deadline (window.go:123). It stays on the
websocket, and the close handler's `WriteMessage`, which sets none, may find it
passed. `AnswerClose` is the library's own close handler, which has a second
for its frame and may fail. `PongMayBeLate`: the read of a terminal that pings
has a deadline from its first Pong on, so it may fail at any time.

`Terminal` forgets goroutines, channels and frames: a shell hears the texts in
their order, each once, and of one that is too long the beginning, and hears
nothing once the terminal is closed. `ImplementsTerminal` maps `main` to the phase
and `given` to `heard`. `HeardInOrder` is what the promise comes to, said of
the whole history instead of one step; `TextsInOrder` says it of the window.

### Startup

`main` is a sequence of steps that may each end the process; `api` follows
`StartAPIServer` in its goroutine. Each TLS file may be missing, unreadable,
unparsable or good, and may change between any two looks. `NewServerConfig`
returns nil for a certificate that is neither there nor missing; the nil is
dereferenced by `Validate` (`process = "panic"`). The kubeconfig, needed only
outside a cluster (`inCluster`), is another file with several looks:
`GetKubeConfigFile` finds it or not (`kubeFile`), `GetKubeConfig` looks and
reads again, or is fatal, and `Validate` looks once more, also in a cluster.

### Admission and AccessControl

Each request is a slot with a `stage`, which follows its goroutine through
`RecordAccessLogs`, `ExactSubjectAccess`, the router and the handler; requests
without a route pass the filters, too. `subject` is the context's value "user",
as opposed to `owner`, the user in the path. A role binding is known by the
name that `checkUserAccess` compares, a pair of a user and a role;
`BindingsChange` makes and deletes them at any moment. `CheckUserAccess` is one
List and the loop over its result; between it and `SendMessage` the list may
grow old. The List may fail, so a refusal is always possible. `answers` counts
what is written to the `restful.Response` and the handshakes of upgrades, `told`
what the browser was told about access, and `conn` what became of the upgraded
connection. An upgrade may also fail after it has taken the connection over: the
library then closes it without a word (`UpgradeBroke`).

`AccessControl` has only asking, being turned away and being admitted. `held`
is history: has the subject held one of the roles at some time since the token
was read? A request is admitted only if so.

### Logging

A configuration is the level it asks for; the file may also be broken or
missing. `start` is `init()`, cut between reading the file, starting viper's
watcher, registering the callback and storing the `Logger`. The watcher's
events are a flag each: that the file was written or replaced (`announced`), and
that it was removed after that (`removed`), on which viper stops watching. An
event that arrives before the callback is registered is taken and comes to
nothing. A `Log*` without a `Logger` is a nil dereference, in whichever goroutine;
`LogFatal` and `LogPanic` and their variants write their line and end the
process.

## 3. What is checked

All runs take less than two minutes on two workers.

| run | question | result |
|---|---|---|
| `reconciler_two_users` | queue and worker shared by two users, pod reads of any age: the inductive invariant, and which step alone leaves a pod behind | holds |
| `reconciler_forgets` | nothing is forgotten although writes may fail | violated |
| `reconciler_orphans` | no orphan pod although the pod cache lags | violated |
| `service_safety` | two sessions of one user and the reconciler, failing calls, crashes, requests before the caches: orphans, premature kills, TTL decisions, what templates say of their pods, writes that undo others, which step alone forgets a template; are the reconciler's environment and `Workspace` implemented | holds |
| `service_liveness` | nothing is forgotten, idle workspaces are reclaimed, workspaces in use recover, a session ends its waiting, nothing is left behind | holds |
| `service_wait` | who waits for a deletion goes on to create | violated |
| `window` | only two named races can panic; no size is held in vain, input ends with its reader; a terminal ends, leaves no goroutine, serves typing, implements `Terminal` | holds |
| `window_close` | a browser that closes is answered, if nothing has ended or failed before | violated |
| `window_resize` | reading a size is no error | violated |
| `startup` | what serves is what was configured; all or nothing | holds |
| `logging` | no nil `Logger` but in one race, no change missed, each comes into force | holds |
| `admission` | one answer for each request unless its connection breaks, connections accounted for, `AccessControl` implemented | holds |

The five violations are disagreements between the code and its own comments or
tests; `findings` quotes them. In short: a failed status write returns success
without a requeue; a teardown believes a cached NotFound; the wait for a
deletion fails at the very moment it succeeds; the close handler answers under
the write deadline of the last output, which has passed in a terminal that was
silent for ten seconds; a resize that races with the end of its terminal panics.

**Bounds.**

* `User`: one, except in `reconciler_two_users`. Users share nothing but the
  queue and the worker, and the worker's state names one `key`; two users are
  enough for one to wait, be queued or go stale while the other is served. That
  run leaves out pods that fail or are evicted, failing calls and crashes to
  stay small (`QuietNext`), and uses the symmetry of user names. Pod reads are of
  any age there, so the parts of `IInv` that hold under `~PodCacheLags` say
  nothing in it; `service_safety` checks `NoOrphanPod` and `NoPrematureKill`, of
  one user, and the proofs cover any number of users with all events.
* `StatusSteps` (5 in the code): 2, so that an attempt fails and is repeated
  and the limit is reached; 1 with two users. Proofs: any number.
* Calls that fail and processes that crash are in `service_safety`, so that the
  reconciler meets them next to the sessions; in `service_liveness` calls do not
  fail, but processes crash, pods are evicted and writes conflict.
* `Session`: two for safety, with the symmetry of session names, one for
  liveness. A session is replaced by a new one of any user when it ends, so
  one slot serves arbitrarily many sessions in sequence; but that something is
  done in the end is checked of sessions in sequence only. Two at a time make
  670,000 states, too many for TLC's liveness check here (no symmetry can be
  used), so what two sessions do to each other is covered by `service_safety`.
* `MaxMessages`: 2; 1 in the runs that find a violation. A collision needs a
  message and a closing terminal, a blocked reader needs a zero size and a
  message after it, and a text given twice or out of order needs two texts.
  Proof: any number.
* `Port`: 0, a usual one, the highest, and one too high. Proof: any set of
  integers.
* `Config`: two levels the code knows and one it does not. A change missed
  needs the one in force and another. Proof: any set.
* `Request` and `User` in `admission`: two each, so that the token's user differs
  from the path's, and a binding changes for one request while another is
  decided. A slot serves one request after another. Proofs: any sets.

Deadlock is checked except for `Window`, `Startup` and `Logging`, where a
session, or the process, really ends.

**Fairness, and why the code justifies it.** `Reconcile(u)` is strongly fair
because the work queue is a FIFO that a single worker drains: a key that keeps
being queued is taken. The steps of a running reconcile and of polls are weakly
fair because goroutines run and polls have deadlines. Informers catch up
(watches are re-established). Pods start and terminating pods go: the kubelet.
The polls of a session are weakly fair each. In `Window`, every goroutine that
can move does, and a ping that has to fail does fail (one that merely may, by
its deadline, need not); the writer is strongly fair in noticing the end of the
output, since what a process wrote before it exited is finite. `CachesStart` is weakly
fair: a manager that cannot start ends the process, and the deployment starts
it again. In `Logging`, `init()` and the watcher's goroutine are weakly fair;
`Admission` needs no fairness. Nothing is assumed of
browsers, shells, administrators or failures. `Reclaimed` and
`NothingLeftBehind` carry, in the formula, the assumption that 26 idle minutes
pass, and that disturbances stop; so does `Settles`.

## 4. What is proved

The theorems hold for every value of the constants, under the assumptions the
modules state (`ClusterAssumption`, `ReconcilerAssumption`, `WindowAssumption`,
`StartupAssumption`, `LoggingAssumption`, `AdmissionAssumption`: types, at least
one attempt or message, and that what stands for "none" is no user or level).

**Reconciler.** None of the safety properties is inductive: each depends on how
the cached template and the worker's copy relate to the stored one. `IInv`
says it in five parts. `CacheInv`: a cache at the head is the stored template;
a marked template is there because of its finalizer; and, the heart of it, a
template that was seen guarded and alive is still stored and guarded, because
only a teardown removes a finalizer and only a marked template gets one.
`WorkerInv` carries this over to each step of the worker. `PodInv`: after
the poll has seen the pod gone it stays gone, since nothing but the worker
creates pods. `WakeupInv`: a worker whose copy is behind, or which has just
recorded a start, has an event on its way. `StartedInv`:
what a cached copy, or a step of the worker, takes for started was started,
although the name may have been used before; it needs `StatusEarned` at its
side, and the two are proved together. They rest on two lemmas about a single
step: `ChangeFact` lists the nine ways in which any step may change a stored
template (`Change`), and `CachedFact` the three in which a cached copy may
change. From `Inductive` (`Spec => []IInv`) follow, in every environment,

* `TypeCorrect`, `TTLSafe`, `StatusesEarned`;
* `NoneUndone`: no write takes back what another has stored, each of the nine
  ways by a case;
* `Implements` (`Spec => ImplementsWorkspace`), by a lemma for each action that
  names the step of `Workspace` it is. With stale pod reads `Workspace` concedes
  a stray pod, and no more;
* the two theorems that say where the blame lies. `StatusForgets`: with any
  failures, the one step that forgets a template is `updateStatus` giving up.
  `StrayOrphans`: with pod reads of any age, the one step that leaves a pod
  behind is the removal of a finalizer after a stale read. Both show the step
  before the bad state; so what `reconciler_forgets` and `reconciler_orphans`
  find are the only ways;
* `NoFreshKills`: a teardown whose copy is the newest kills nothing alive, even
  with stale pod reads;

and under one condition each

* `NoOrphans`, `NoKills`: if pod reads are not stale (`~PodCacheLags`);
* `NoneForgotten`: if the API server does not fail (`~ApiFails`).

The two conditions are exactly what the runs `reconciler_orphans` and
`reconciler_forgets` show to be needed.

**Service.** `SessionsImplement`: each session step is a step of the
reconciler's environment or changes nothing of it, so all of the above holds of
the composed service: `ServiceInherits` says it of what holds in every
environment (`NothingUndone`, what is earned, the blame, `Workspace`),
`ServiceKeepsWorkspaces` and `ServiceForgetsNone` of what needs a condition.
`SessionsInductive`: before the caches are started nobody reconciles, waits for
a deletion or has stored a template. The second part is needed because a
tick of the wait, or a refused second Create, would otherwise have been made
with a client that cannot read.

**Window.** `WindowInductive`, for any number of messages and both kinds of
terminal. `CrashesAreRaces`: the only ways down are the two races. `EndingInv`
is the part about how goroutines start and end: the resizer only stops at a size
without sides or when `Close` has begun, and nobody reads before it is there.
From it follow `ResizesAreTaken` (the reader and the resizer do not deadlock on
the unbuffered channel for any other reason) and `InputsEnd` (the shell's input ends
when the reader does, and not before). Nothing of this rests on writes that succeed.
`TerminalImplemented`: the window implements
`Terminal`. The invariant needed for it is `NoneSkipped`: between the last text
given and the reader's position there is no text but the one the reader may hold,
and a reader that has lost one never reads again.

**Terminal.** `HeardAsTyped` proves, of the abstract specification alone, that its
steps add up to `HeardInOrder`: texts in the order they were typed, none twice,
none left out before the last. `TextsAsTyped` carries it over to the goroutines
through the refinement; it is not proved of them a second time.

**Startup.** `StartupInductive` and `ServesAsConfigured`, for any ports.

**Logging.** `LoggingInductive`, from which `NilLoggerIsRace` and `ChangesArrive`
follow. `NoChangeMissed` is not inductive by itself: `FreshInv` carries it
through `init()` and through the callback, by saying that what either has read
is what the file says unless an event is still to be taken.

**Admission.** `AdmissionInductive`, from which `EachAccounted` follows;
`AccessImplemented` uses the same invariant, of which `SubjectInv` is the part
that matters: a request whose list had the role stays entitled when the role is
gone, because `held` remembers it.

Only model-checked: all liveness properties (`Reclaimed`, `Settles`, `WaitsEnd`,
`NothingLeftBehind`, `TerminalEnds`, `NoGoroutineLeft`, `InputServed`,
`UpOrDown`, `Reloads`), since fairness is out of the prover's reach.

## 5. What is not modelled, and why

* The contents of pods and templates (images, volumes, labels): copied, never
  decided on. The order of conditions and the text of messages likewise. An
  image file that cannot be read when a template is made is fatal
  (terminal.go:348), which is one of the crashes `ServiceRestart` stands for.
* The level of the access log. The comment at accesslog.go:30 says that requests
  with a status above 400 are logged as warnings; the code asks for the status
  at line 32, before the request is handled, when it is 200, so none is.
  `LogRequest` models that a request ends with a line, not what it says.
* The bytes of output. `Write` makes a JSON string of each chunk, so a character
  split over two chunks is replaced (window.go:112); nothing is decided on it.
* Durations. Whether a poll of a minute delays other users for too long, and
  how a 27-second ping period meets a 30-second deadline, needs a timed model.
* Leader election: a flag that is off by default and with one replica changes nothing.
* `Toast` and `sendMessage` of `Window`, and `apiclient.go`: no caller.
* What else a data race may do: the `Logger` is a pointer, read and written
  whole on the platforms the service is built for.
* Encoders, log files and their rotation: zap's and lumberjack's.
* API scheme and deployment: generated code and manifests without behaviour.

## 6. Plan

Done, in this order, the most important behaviour first: `Cluster`,
`Reconciler`, `Workspace` and its refinement; `ReconcilerProofs`;
`UserTerminal` and its refinement; `Window`; `Startup`; their proofs;
`Admission` with `AccessControl`, and `Logging`, with their proofs; requests
before the caches are started; texts that do not fit, and `Terminal`.

Then the order of texts as an invariant of `Terminal`, how terminals end, what
templates have earned, what no write undoes, and which steps alone go wrong, with
their proofs.

Next:

1. A timed variant of the worker, that bounds how long one user's polls can
   delay another user's reconcile.
2. `Window` as a refinement of a session's `Renew` and `End`, and `Admission`
   composed with `UserTerminal`'s `Connect` in one specification.
