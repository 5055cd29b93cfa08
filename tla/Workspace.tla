------------------------------ MODULE Workspace ------------------------------
(***************************************************************************)
(* What the reconciler promises about a user's workspace, without caches,  *)
(* versions, polls or retries.  A workspace is requested, put under guard, *)
(* and closed; a pod only comes up under guard, and the workspace is not   *)
(* given up before its pod is gone, but where pods may stray.              *)
(***************************************************************************)
CONSTANTS
  User,
  Strays  \* may a workspace be given up while its pod is there?  (BOOLEAN)

VARIABLES
  stage,  \* how far the user's workspace has come
  podUp   \* does the user's pod exist?

workspaceVars == <<stage, podUp>>

Stage == {"none", "requested", "guarded", "closing"}

WorkspaceTypeOK ==
  /\ stage \in [User -> Stage]
  /\ podUp \in [User -> BOOLEAN]

WorkspaceInit ==
  /\ stage = [u \in User |-> "none"]
  /\ podUp = [u \in User |-> FALSE]

Move(u, from, to) ==
  /\ stage[u] = from
  /\ stage' = [stage EXCEPT ![u] = to]
  /\ UNCHANGED podUp

\* A session asks for a workspace.
Request(u) == Move(u, "none", "requested")

\* The request is taken back before anything was done for it.
Withdraw(u) == Move(u, "requested", "none")

\* From here on the pod is the reconciler's to clean up.
Guard(u) == Move(u, "requested", "guarded")

\* The workspace expired, or was deleted.
Close(u) == Move(u, "guarded", "closing")

\* The workspace is given up, its pod gone, or no longer looked for.
Reap(u) == (podUp[u] => Strays) /\ Move(u, "closing", "none")

\* A pod may still come up while the workspace closes: the reconcile that
\* creates it has not seen the deletion yet.
StartPod(u) ==
  /\ stage[u] \in {"guarded", "closing"}
  /\ ~podUp[u]
  /\ podUp' = [podUp EXCEPT ![u] = TRUE]
  /\ UNCHANGED stage

StopPod(u) ==
  /\ podUp[u]
  /\ podUp' = [podUp EXCEPT ![u] = FALSE]
  /\ UNCHANGED stage

WorkspaceNext ==
  \E u \in User :
    \/ Request(u) \/ Withdraw(u) \/ Guard(u) \/ Close(u) \/ Reap(u)
    \/ StartPod(u) \/ StopPod(u)

WorkspaceSpec == WorkspaceInit /\ [][WorkspaceNext]_workspaceVars
=============================================================================
