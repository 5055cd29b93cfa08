---------------------------- MODULE MCReconciler ----------------------------
(***************************************************************************)
(* Instances of the reconciler for TLC.  Users only meet in the work queue *)
(* and in the one worker, so most questions are asked of one user in a     *)
(* cluster where everything can happen.  Two users are checked together in *)
(* a cluster where pods do not fail and the process stays up.              *)
(***************************************************************************)
EXTENDS Reconciler, TLC

\* Users differ in nothing but their name.
UserSymmetry == Permutations(User)

QuietEnvironment(u) ==
  \/ CreateTemplate(u) \/ Renewtime(u) \/ DeleteTemplate(u)
  \/ SyncTemplate(u) \/ SyncPod(u) \/ GrowIdle(u) \/ PodStarts(u) \/ PodGone(u)

QuietNext ==
  \/ Work
  \/ (\E u \in User : QuietEnvironment(u)) /\ UNCHANGED workerVars

QuietSpec == Init /\ [][QuietNext]_vars
=============================================================================
