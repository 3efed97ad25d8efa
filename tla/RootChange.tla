----------------------------- MODULE RootChange -----------------------------
(***************************************************************************)
(* What a change of the search roots promises to its caller, without how   *)
(* it is done: the set of roots changes in one step, when the change       *)
(* reports, or when the process that makes it dies.                        *)
(***************************************************************************)
CONSTANT RootPaths

VARIABLES
  rootSet,  \* the roots, as a caller may rely on them
  target,   \* the set the change in progress is to establish
  phase,    \* "idle" or "changing"
  outcome   \* what the last change reported

vars == <<rootSet, target, phase, outcome>>

Init ==
  /\ rootSet \in SUBSET RootPaths
  /\ target = {}
  /\ phase = "idle"
  /\ outcome = "none"

\* A new process, in which nothing has been reported yet.
Open ==
  /\ phase = "idle"
  /\ outcome' = "none"
  /\ target' = {}
  /\ UNCHANGED <<rootSet, phase>>

\* The request is refused before anything is touched.
Refuse ==
  /\ phase = "idle"
  /\ outcome' = "refused"
  /\ UNCHANGED <<rootSet, target, phase>>

\* A rebuild without roots has nothing to change.
Nothing ==
  /\ phase = "idle" /\ rootSet = {}
  /\ outcome' = "ok"
  /\ target' = {}
  /\ UNCHANGED <<rootSet, phase>>

Begin ==
  /\ phase = "idle"
  /\ phase' = "changing"
  /\ target' \in SUBSET RootPaths
  /\ UNCHANGED <<rootSet, outcome>>

Succeed ==
  /\ phase = "changing"
  /\ rootSet' = target
  /\ phase' = "idle" /\ outcome' = "ok"
  /\ UNCHANGED target

\* A failed change has no effect; only a removal may have taken place.
Fail ==
  /\ phase = "changing"
  /\ \/ rootSet' = rootSet
     \/ target \subseteq rootSet /\ rootSet' = target
  /\ phase' = "idle" /\ outcome' = "failed"
  /\ UNCHANGED target

\* No root appears that is neither an old nor a new one, and the old and new
\* sets are not mixed, even when the roll back fails or the process is killed.
Partial == \E s \in {rootSet, target} : rootSet' \in SUBSET s

Lose ==
  /\ phase = "changing"
  /\ Partial
  /\ phase' = "idle" /\ outcome' = "lost"
  /\ UNCHANGED target

Die ==
  /\ phase = "changing"
  /\ Partial
  /\ phase' = "idle" /\ outcome' = "none"
  /\ target' = {}

Next == Open \/ Refuse \/ Nothing \/ Begin \/ Succeed \/ Fail \/ Lose \/ Die

Spec == Init /\ [][Next]_vars
=============================================================================
