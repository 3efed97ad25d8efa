-------------------------- MODULE IndexRootService --------------------------
(***************************************************************************)
(* The application service for search-root changes                         *)
(* (src/runtime/IndexRootService.cpp), as it runs inside a process: the    *)
(* one-shot index worker, or a CLI command with maintenance switched off.  *)
(* One action per call the service makes into the private runtime, so that *)
(* any call may fail and the process may be killed between any two calls.  *)
(*                                                                         *)
(* What a runtime call has returned is taken to be durable: the runtime    *)
(* is reached through the C ABI only.                                      *)
(***************************************************************************)
EXTENDS PolicyMaintenance

CONSTANTS
  RootPaths,   \* the paths users select as roots
  Selections,  \* the root sets they pass to replace_roots
  HidePaths,   \* the paths they hide and show
  Legacy       \* root sets an earlier release may have persisted

\* resolve_root_request: only the aliases of the user's two AppData folders
\* turn into an explicit override.
RootRequests == {r \in [path : RootPaths, explicit : BOOLEAN] :
                   r.explicit => ManualAppDataRoot(r.path)}

ASSUME ServiceAssumption ==
  /\ RootPaths \subseteq Path
  /\ Selections \subseteq SUBSET RootRequests
  /\ HidePaths \subseteq Path
  /\ Legacy \subseteq SUBSET RootPaths

\* The AppData folders lie where Windows puts them: below a component of that
\* name, and not inside the installed product.
ASSUME AppDataAssumption ==
  \A p \in {Roaming, Local} : ProtectedPath(p) /\ ~Within(p, Install)

VARIABLES
  session,    \* "none", "worker" or "cli": the process the service runs in
  step,       \* "ready", "reset", "apply", "detach" or "done"
  mode,       \* "plain", "seed" or "rollback": which function makes the calls
  todoEx,     \* exclusions still to apply
  todoRoots,  \* roots still to add
  previous,   \* the roots before the operation (previous_roots)
  target,     \* the roots the operation is to establish
  outcome,    \* what the operation returned
  hidden,     \* history: what the user has hidden and not shown again
  shown,      \* history: what the user has shown and nothing excluded since
  torn        \* history: a full reseed was cut short and not yet made good

serviceVars == <<session, step, mode, todoEx, todoRoots, previous, target, outcome>>
userVars == <<hidden, shown>>
vars == <<runtimeVars, maintVars, serviceVars, userVars, torn>>

Init ==
  /\ roots \in Legacy
  /\ excluded = {} /\ indexing = FALSE
  /\ pending = FALSE /\ fixedReady = FALSE /\ fixedTodo = {} /\ term = 1 /\ seen = {}
  /\ session = "none" /\ step = "ready" /\ mode = "plain"
  /\ todoEx = {} /\ todoRoots = {} /\ previous = {} /\ target = {} /\ outcome = "none"
  /\ hidden = {} /\ shown = {}
  /\ torn = (roots # {})

-----------------------------------------------------------------------------
(* Sets of requests.                                                       *)

\* prepare_root_set: one entry per path, explicit if any request for it is.
OnePerPath(reqs) ==
  {[path |-> p, explicit |-> \E r \in reqs : r.path = p /\ r.explicit] :
     p \in {r.path : r \in reqs}}

Paths(reqs) == {r.path : r \in reqs}

-----------------------------------------------------------------------------
(* Processes.                                                              *)

FreshService ==
  /\ mode' = "plain" /\ todoEx' = {} /\ todoRoots' = {}
  /\ previous' = {} /\ target' = {} /\ outcome' = "none"
  /\ pending' = FALSE /\ fixedReady' = FALSE /\ fixedTodo' = {}
  /\ term' = 1 /\ seen' = {}

Start ==
  /\ session = "none"
  /\ session' \in {"worker", "cli"}
  /\ step' = "ready"
  /\ FreshService
  /\ UNCHANGED <<runtimeVars, userVars, torn>>

\* The process ends once its operation has returned: at once, or after waiting
\* for the crawl and, in the worker, for the maintenance.
Exit ==
  /\ session # "none" /\ step = "done"
  /\ session' = "none" /\ step' = "ready"
  /\ FreshService
  /\ indexing' = FALSE
  /\ UNCHANGED <<roots, excluded, userVars, torn>>

\* `such stop`, a crash or a power failure, between any two runtime calls.
Kill ==
  /\ session # "none" /\ step # "done"
  /\ session' = "none" /\ step' = "ready"
  /\ FreshService
  /\ indexing' = FALSE
  /\ torn' = (torn \/ (step = "apply" /\ mode # "plain"))
  /\ UNCHANGED <<roots, excluded, userVars>>

\* `such hide` and `such show` (mutate_file), or the same key in a frontend.
Hide(p) ==
  /\ session = "none"
  /\ excluded' = excluded \cup {p}
  /\ hidden' = hidden \cup {p}
  /\ shown' = shown \ {p}
  /\ UNCHANGED <<roots, indexing, maintVars, serviceVars, torn>>

Show(p) ==
  /\ session = "none"
  /\ excluded' = excluded \ {p}
  /\ hidden' = hidden \ {p}
  /\ shown' = shown \cup {p}
  /\ UNCHANGED <<roots, indexing, maintVars, serviceVars, torn>>

-----------------------------------------------------------------------------
(* The four operations, up to their first mutating call.                   *)

Idle == session # "none" /\ step = "ready"

\* Returns false before any mutation.
Refuse ==
  /\ step' = "done" /\ outcome' = "refused"
  /\ UNCHANGED <<runtimeVars, maintVars, session, mode, todoEx, todoRoots,
                 previous, target, userVars, torn>>

\* The calls of an operation still to be made: fst is the first of them.
Begin(m, fst, exclusions, attach, goal) ==
  /\ mode' = m /\ step' = fst
  /\ todoEx' = exclusions /\ todoRoots' = attach
  /\ previous' = roots /\ target' = goal
  /\ UNCHANGED <<runtimeVars, maintVars, session, outcome, userVars, torn>>

\* seed_root_set, up to its first call.
BeginSeed(reqs) ==
  Begin("seed", "reset", PlanSet(reqs).exclusions, Paths(reqs), Paths(reqs))

\* Listing the persisted roots fails.
RootsUnreadable == Idle /\ CallsMayFail /\ Refuse

\* Mutated form: a named AppData folder is added like any other root.
AddRootInPlace(req) ==
  LET reqs == OnePerPath(Persisted(roots) \cup {req})
      plan == PlanSet(reqs)
  IN /\ Idle
     /\ IF ~plan.allowed THEN Refuse
        ELSE Begin("plain", "apply", plan.exclusions, {req.path} \ roots, Paths(reqs))

AddRoot(req) ==
  LET reqs == OnePerPath(Persisted(roots) \cup {req})
      plan == PlanSet(reqs)
  IN /\ Idle
     /\ IF ~plan.allowed THEN Refuse
        ELSE IF req.explicit THEN BeginSeed(reqs)
        ELSE Begin("plain", "apply", plan.exclusions, {req.path} \ roots, Paths(reqs))

ReplaceRoots(selection) ==
  LET reqs == OnePerPath(selection)
  IN /\ Idle
     /\ IF PlanSet(reqs).allowed THEN BeginSeed(reqs) ELSE Refuse

RemoveRoot(p) ==
  LET reqs == Persisted(roots \ {p})
      plan == PlanSet(reqs)
  IN /\ Idle
     /\ IF ~plan.allowed THEN Refuse
        ELSE IF p \in roots /\ ManualAppDataRoot(p) THEN BeginSeed(reqs)
        ELSE Begin("plain", "detach", plan.exclusions, {p}, Paths(reqs))

\* With no roots there is nothing to reseed.
ReindexNothing ==
  /\ Idle /\ roots = {}
  /\ step' = "done" /\ outcome' = "ok"
  /\ target' = {}
  /\ indexing' = TRUE
  /\ RequestMaintenance(session = "worker")
  /\ UNCHANGED <<roots, excluded, session, mode, todoEx, todoRoots, previous, userVars, torn>>

Reindex ==
  /\ Idle /\ roots # {}
  /\ IF PlanSet(Persisted(roots)).allowed THEN BeginSeed(Persisted(roots)) ELSE Refuse

-----------------------------------------------------------------------------
(* The calls of an operation.                                              *)

\* runtime.replace_roots({}): clears the roots and the exclusion table.
ResetRoots ==
  /\ step = "reset"
  /\ roots' = {} /\ excluded' = {} /\ shown' = {}
  /\ step' = "apply"
  /\ UNCHANGED <<indexing, maintVars, session, mode, todoEx, todoRoots, previous,
                 target, outcome, hidden, torn>>

\* runtime.set_indexed(e, false) of apply_exclusions.
ApplyExclusion ==
  /\ step = "apply"
  /\ \E e \in todoEx :
       /\ excluded' = excluded \cup {e}
       /\ shown' = shown \ {e}
       /\ todoEx' = todoEx \ {e}
  /\ UNCHANGED <<roots, indexing, maintVars, session, step, mode, todoRoots,
                 previous, target, outcome, hidden, torn>>

\* Mutated form: roots are attached before, or between, the exclusions.
AttachRootEarly ==
  /\ step = "apply"
  /\ \E r \in todoRoots :
       /\ roots' = roots \cup {r}
       /\ todoRoots' = todoRoots \ {r}
  /\ indexing' = TRUE
  /\ UNCHANGED <<excluded, maintVars, session, step, mode, todoEx, previous,
                 target, outcome, userVars, torn>>

\* runtime.add_root(r): keeps the exclusion table, schedules a crawl.
AttachRoot ==
  /\ step = "apply" /\ todoEx = {}
  /\ \E r \in todoRoots :
       /\ roots' = roots \cup {r}
       /\ todoRoots' = todoRoots \ {r}
  /\ indexing' = TRUE
  /\ UNCHANGED <<excluded, maintVars, session, step, mode, todoEx, previous,
                 target, outcome, userVars, torn>>

\* runtime.remove_root(p) of a plain removal.
DetachRoot ==
  /\ step = "detach"
  /\ roots' = roots \ todoRoots
  /\ todoRoots' = {}
  /\ step' = "apply"
  /\ UNCHANGED <<excluded, indexing, maintVars, session, mode, todoEx, previous,
                 target, outcome, userVars, torn>>

\* Every call has succeeded: the operation, or its roll back, is complete.
Return ==
  /\ step = "apply" /\ todoEx = {} /\ todoRoots = {}
  /\ step' = "done"
  /\ outcome' = IF mode = "rollback" THEN "failed" ELSE "ok"
  /\ torn' = (torn /\ mode = "plain")
  /\ RequestMaintenance(session = "worker")
  /\ UNCHANGED <<runtimeVars, session, mode, todoEx, todoRoots, previous, target, userVars>>

\* There is a call to make and it fails.
CallFails ==
  /\ CallsMayFail
  /\ step \in {"reset", "detach"} \/ (step = "apply" /\ todoEx \cup todoRoots # {})

\* Mutated form: a failed reseed returns the error and is not rolled back.
FailsInPlace ==
  /\ CallFails
  /\ step' = "done" /\ outcome' = "failed"
  /\ UNCHANGED <<runtimeVars, maintVars, session, mode, todoEx, todoRoots,
                 previous, target, userVars, torn>>

\* A plain operation just returns the error.
PlainFails ==
  /\ CallFails /\ mode = "plain"
  /\ step' = "done" /\ outcome' = "failed"
  /\ UNCHANGED <<runtimeVars, maintVars, session, mode, todoEx, todoRoots,
                 previous, target, userVars, torn>>

\* rollback_roots: reseed the previous roots under the present policy.
StartRollback ==
  LET plan == PlanSet(Persisted(previous))
  IN /\ CallFails /\ mode = "seed" /\ plan.allowed
     /\ mode' = "rollback" /\ step' = "reset"
     /\ todoEx' = plan.exclusions /\ todoRoots' = previous
     /\ torn' = TRUE
     /\ UNCHANGED <<runtimeVars, maintVars, session, previous, target, outcome, userVars>>

\* The policy refuses the previous roots, or a call of the roll back fails.
RollbackFails ==
  /\ CallFails
  /\ mode = "rollback" \/ (mode = "seed" /\ ~PlanSet(Persisted(previous)).allowed)
  /\ step' = "done" /\ outcome' = "lost"
  /\ torn' = TRUE
  /\ RequestMaintenance(session = "worker")
  /\ UNCHANGED <<runtimeVars, session, mode, todoEx, todoRoots, previous, target, userVars>>

-----------------------------------------------------------------------------
(* After the operation: run_index_worker waits for the crawl and drains the *)
(* maintenance, but only if the operation succeeded.                        *)

WaitForIdle ==
  /\ session # "none" /\ step = "done"
  /\ CrawlEnds
  /\ UNCHANGED <<serviceVars, userVars, torn>>

Drain ==
  /\ session = "worker" /\ step = "done" /\ outcome = "ok"
  /\ Poll
  /\ shown' = shown \ excluded'
  /\ UNCHANGED <<serviceVars, hidden, torn>>

Operation ==
  \/ RootsUnreadable
  \/ \E r \in RootRequests : AddRoot(r)
  \/ \E s \in Selections : ReplaceRoots(s)
  \/ \E p \in RootPaths : RemoveRoot(p)
  \/ ReindexNothing
  \/ Reindex

RuntimeCall ==
  \/ ResetRoots \/ ApplyExclusion \/ AttachRoot \/ DetachRoot
  \/ Return \/ PlainFails \/ StartRollback \/ RollbackFails

Next ==
  \/ Start \/ Exit \/ Kill
  \/ \E p \in HidePaths : Hide(p) \/ Show(p)
  \/ Operation
  \/ RuntimeCall
  \/ WaitForIdle
  \/ Drain

Spec == Init /\ [][Next]_vars

-----------------------------------------------------------------------------
(* Properties.                                                             *)

TypeOK ==
  /\ MaintenanceTypeOK
  /\ roots \subseteq RootPaths
  /\ session \in {"none", "worker", "cli"}
  /\ step \in {"ready", "reset", "apply", "detach", "done"}
  /\ mode \in {"plain", "seed", "rollback"}
  /\ todoEx \subseteq Path
  /\ todoRoots \subseteq RootPaths
  /\ previous \subseteq RootPaths
  /\ target \subseteq RootPaths
  /\ outcome \in {"none", "ok", "failed", "refused", "lost"}
  /\ hidden \subseteq HidePaths
  /\ shown \subseteq HidePaths
  /\ torn \in BOOLEAN

Busy == step \in {"reset", "apply", "detach"}

\* The roots the runtime is about to crawl: those it has, and those the next
\* calls attach to it.
Attached == IF step = "apply" /\ todoEx = {} THEN roots \cup todoRoots ELSE roots

\* Reset, then exclusions, then roots: no root is ever attached before every
\* exclusion that the policy plans for the complete set is in the runtime, and
\* no later addition, removal, failure or roll back uncovers one.  Only what
\* the user has shown is exempt, and a reseed that was cut short.
PolicyCoversRoots ==
  ~torn => PlanSet(Persisted(Attached)).exclusions \subseteq excluded \cup shown

\* A selected AppData folder is open, whatever the fixed policy had excluded for
\* broader roots before or after it was selected: what is left out of it, or
\* shadows it, the user has hidden, or is a noise directory as of any root.
SelectedAppDataOpen ==
  \A r \in roots : ManualAppDataRoot(r) =>
    \A e \in excluded : Related(e, r) => e \in hidden \/ Last(e) \in NoiseNames

\* README.md: `such hide` excludes a file.  A rebuild that changes no root
\* leaves what the user has hidden excluded.  The code does not keep it, and no
\* run checks it (README, section 7).
HiddenStaysHidden ==
  (step = "done" /\ outcome = "ok" /\ target = previous) => hidden \subseteq excluded

-----------------------------------------------------------------------------
(* The inductive invariant behind PolicyCoversRoots.                       *)

Plan(paths) == PlanSet(Persisted(paths))

\* The calls still to be made are the plan of the roots they will leave.
CallsMatchPlan ==
  /\ step = "reset"  => /\ mode # "plain"
                        /\ Plan(todoRoots).allowed
                        /\ todoEx = Plan(todoRoots).exclusions
  /\ step = "detach" => /\ mode = "plain"
                        /\ Plan(roots \ todoRoots).allowed
                        /\ todoEx = Plan(roots \ todoRoots).exclusions
                        /\ \A p \in roots \cap todoRoots : ~ManualAppDataRoot(p)
  /\ step = "apply"  => /\ mode = "plain" => \A p, q \in todoRoots : p = q
                        /\ Plan(roots \cup todoRoots).allowed
                        /\ Plan(roots \cup todoRoots).exclusions
                             \subseteq excluded \cup shown \cup todoEx
                        /\ mode # "plain" /\ todoEx # {} => roots = {}

\* Outside a reseed the attached roots are admitted and covered.
CoveredOutsideReseed ==
  (~torn /\ ~(step = "apply" /\ mode # "plain")) =>
    /\ Plan(roots).allowed
    /\ Plan(roots).exclusions \subseteq excluded \cup shown

\* A poll that is due has a current term, and an operation needs a process.
Bookkeeping ==
  /\ CurrentTerm
  /\ session = "none" => step = "ready"

IInv == TypeOK /\ Bookkeeping /\ CallsMatchPlan /\ CoveredOutsideReseed

-----------------------------------------------------------------------------
(* The abstract change of roots.                                           *)

\* How far a change has come: what is attached and what is still to attach
\* make up the set the operation, or its roll back, is to establish.
CallsReachTarget ==
  /\ mode = "seed"     => /\ step = "reset" => roots = previous /\ todoRoots = target
                          /\ step = "apply" => roots \cup todoRoots = target
                          /\ step # "detach"
  /\ mode = "rollback" => /\ step = "reset" => /\ todoRoots = previous
                                               /\ \E s \in {previous, target} : roots \subseteq s
                          /\ step = "apply" => roots \cup todoRoots = previous
                          /\ step # "detach"
  /\ mode = "plain"    => /\ step = "detach" => roots = previous /\ target = roots \ todoRoots
                          /\ step = "apply" =>
                               /\ roots \cup todoRoots = target
                               /\ \A p, q \in todoRoots : p = q
                               /\ todoEx \cup todoRoots # {} =>
                                    \/ roots = previous
                                    \/ roots = target /\ target \subseteq previous
                          /\ step # "reset"

\* The change of roots as its caller sees it: one atomic step.
Change == INSTANCE RootChange
  WITH rootSet <- IF Busy THEN previous ELSE roots,
       phase   <- IF Busy THEN "changing" ELSE "idle"

\* Every operation is atomic for its caller: it reports success with exactly
\* the requested roots, or failure with exactly the previous ones (a removal
\* may have taken place), or that the roll back failed; and nothing else,
\* maintenance included, changes the roots.
ChangesAreAtomic == Change!Spec
=============================================================================
