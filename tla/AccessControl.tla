--------------------------- MODULE AccessControl ---------------------------
(***************************************************************************)
(* What the API promises about who gets a terminal, whatever filters and   *)
(* handlers are in the way: a request is decided once, and for a terminal  *)
(* only if its user has held one of the two roles since it was read.       *)
(***************************************************************************)
CONSTANT Request

VARIABLES
  phase,  \* of each request
  held    \* has its user held a role since it was read?

accessVars == <<phase, held>>

AccessInit ==
  /\ phase = [r \in Request |-> "none"]
  /\ held = [r \in Request |-> FALSE]

Move(r, from, to) ==
  /\ phase[r] = from
  /\ phase' = [phase EXCEPT ![r] = to]

Ask(r) == Move(r, "none", "asking") /\ UNCHANGED held

\* Its user is known, or is given a role.  That one is taken away again is no
\* step here.
Hold ==
  /\ held' \in [Request -> BOOLEAN]
  /\ \A r \in Request : held[r] => held'[r]
  /\ UNCHANGED phase

Refuse(r) == Move(r, "asking", "turnedAway") /\ UNCHANGED held

Admit(r) == held[r] /\ Move(r, "asking", "admitted") /\ UNCHANGED held

Leave(r) ==
  /\ Move(r, "turnedAway", "none") \/ Move(r, "admitted", "none")
  /\ held' = [held EXCEPT ![r] = FALSE]

AccessNext ==
  Hold \/ \E r \in Request : Ask(r) \/ Refuse(r) \/ Admit(r) \/ Leave(r)

AccessSpec == AccessInit /\ [][AccessNext]_accessVars
=============================================================================
