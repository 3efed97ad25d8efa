-------------------------- MODULE IndexingProofs --------------------------
(***************************************************************************)
(* The root service and the one-shot worker that drives it, proved for     *)
(* every tree, every set of selections, any number of operations, every    *)
(* length of the drain, failures of any call and kills at any point.       *)
(***************************************************************************)
EXTENDS IndexRootService, IndexWorker, PolicyMaintenanceProofs

USE DEF CurrentTerm

-----------------------------------------------------------------------------
(* Lemmas about sets of requests.                                          *)

\* Rebuilding the requests from persisted paths keeps the paths.
LEMMA PersistedPaths ==
  ASSUME NEW S
  PROVE  Paths(Persisted(S)) = S
<1>1. \A p : p \in Paths(Persisted(S)) <=> \E r \in Persisted(S) : p = r.path
  BY DEF Paths
<1>2. \A p \in S : [path |-> p, explicit |-> ManualAppDataRoot(p)] \in Persisted(S)
  BY DEF Persisted
<1>3. \A r \in Persisted(S) : r.path \in S
  BY DEF Persisted
<1>4. QED
  BY <1>1, <1>2, <1>3

\* Merging the requests for a path loses no path (prepare_root_set).
LEMMA MergedPaths ==
  ASSUME NEW reqs
  PROVE  Paths(OnePerPath(reqs)) = Paths(reqs)
<1>1. Paths(reqs) = {r.path : r \in reqs}
  BY DEF Paths
<1>2. ASSUME NEW p \in Paths(reqs)
      PROVE  p \in Paths(OnePerPath(reqs))
  <2>1. [path |-> p, explicit |-> \E r \in reqs : r.path = p /\ r.explicit] \in OnePerPath(reqs)
    BY <1>1 DEF OnePerPath
  <2>2. QED
    BY <2>1 DEF Paths
<1>3. ASSUME NEW p \in Paths(OnePerPath(reqs))
      PROVE  p \in Paths(reqs)
  BY <1>1 DEF OnePerPath, Paths
<1>4. QED
  BY <1>2, <1>3

\* Every persisted root is a request of its own path and no other.
LEMMA PersistedRequests ==
  ASSUME NEW S, S \subseteq RootPaths
  PROVE  Persisted(S) \subseteq RootRequests
<1>1. \A p \in S : ManualAppDataRoot(p) \in BOOLEAN
  BY DEF ManualAppDataRoot
<1>2. QED
  BY <1>1 DEF Persisted, RootRequests

\* A policy that admits a plain request admits no AppData folder with it: the
\* intent rebuilt from the paths alone is the intent of the requests
\* (resolve_persisted_root, lines 99-109).
LEMMA IntentIsPersistent ==
  ASSUME NEW reqs, reqs \subseteq RootRequests, PlanSet(OnePerPath(reqs)).allowed
  PROVE  OnePerPath(reqs) = Persisted(Paths(reqs))
<1>1. ASSUME NEW p \in Paths(reqs)
      PROVE  (\E r \in reqs : r.path = p /\ r.explicit) = ManualAppDataRoot(p)
  <2> DEFINE x == \E r \in reqs : r.path = p /\ r.explicit
             q == [path |-> p, explicit |-> x]
  <2>1. q \in OnePerPath(reqs)
    BY <1>1 DEF OnePerPath, Paths
  <2>2. PlanRoot(q).allowed
    BY <2>1 DEF PlanSet, Denied
  <2>3. x \in BOOLEAN /\ ManualAppDataRoot(p) \in BOOLEAN
    BY DEF ManualAppDataRoot
  <2>4. x => ManualAppDataRoot(p)
    BY DEF RootRequests
  <2>5. ManualAppDataRoot(p) => x
    <3>1. SUFFICES ASSUME ManualAppDataRoot(p), ~x
                   PROVE  FALSE
      OBVIOUS
    <3>2. /\ OnWindows /\ p \in {Roaming, Local}
          /\ ProtectedPath(p) /\ ~InstallPath(p)
      BY <3>1, AppDataAssumption DEF ManualAppDataRoot, InstallPath
    <3>3. q.path = p /\ q.explicit = FALSE
      BY <2>3, <3>1
    <3>4. ~PlanRoot(q).allowed
      BY <3>2, <3>3 DEF PlanRoot, Denied
    <3>5. QED
      BY <2>2, <3>4
  <2>6. QED
    BY <2>3, <2>4, <2>5
<1>2. QED
  BY <1>1 DEF OnePerPath, Persisted, Paths

\* Nothing is planned for no roots.
LEMMA PlanOfNothing == Plan({}) = [allowed |-> TRUE, exclusions |-> {}]
<1>1. Persisted({}) = {}
  BY DEF Persisted
<1>2. QED
  BY <1>1 DEF Plan, PlanSet, Admit

\* Fewer roots need fewer exclusions, as long as no AppData folder leaves.
LEMMA PlanShrinks ==
  ASSUME NEW S, NEW T, T \subseteq S, Plan(S).allowed,
         \A p \in S \ T : ~ManualAppDataRoot(p)
  PROVE  /\ Plan(T).allowed
         /\ Plan(T).exclusions \subseteq Plan(S).exclusions
<1>1. Persisted(T) \subseteq Persisted(S)
  BY DEF Persisted
<1>2. \A r \in Persisted(S) : PlanRoot(r).allowed
  BY DEF Plan, PlanSet, Denied
<1>3. ExplicitRoots(Persisted(S)) \subseteq ExplicitRoots(Persisted(T))
  BY DEF ExplicitRoots, Persisted
<1>4. /\ Plan(S) = Admit({e \in UNION {PlanRoot(r).exclusions : r \in Persisted(S)} :
                \A x \in ExplicitRoots(Persisted(S)) : ~Related(e, x.path)})
      /\ Plan(T) = Admit({e \in UNION {PlanRoot(r).exclusions : r \in Persisted(T)} :
                \A x \in ExplicitRoots(Persisted(T)) : ~Related(e, x.path)})
  BY <1>1, <1>2 DEF Plan, PlanSet
<1>5. Plan(T).allowed
  BY <1>4 DEF Admit
<1>6. ASSUME NEW e \in Plan(T).exclusions
      PROVE  e \in Plan(S).exclusions
  BY <1>1, <1>3, <1>4 DEF Admit
<1>7. QED
  BY <1>5, <1>6

\* Admission of a set is admission of each of its subsets.
LEMMA PlanOfSubset ==
  ASSUME NEW S, NEW T, T \subseteq S, Plan(S).allowed
  PROVE  Plan(T).allowed
<1>1. Persisted(T) \subseteq Persisted(S)
  BY DEF Persisted
<1>2. QED
  BY <1>1 DEF Plan, PlanSet, Denied, Admit

\* What the policy plans for a set of roots are paths.
LEMMA PlannedPaths ==
  ASSUME NEW S
  PROVE  Plan(S).exclusions \subseteq Path
BY PlannedArePaths DEF Plan

-----------------------------------------------------------------------------
(* The operations, up to their first mutating call.                        *)

\* A reseed of an admitted set starts with exactly that set's plan to make.
LEMMA BeginSeedStep ==
  ASSUME IInv, Idle, NEW reqs, reqs \subseteq RootRequests,
         reqs = Persisted(Paths(reqs)), PlanSet(reqs).allowed, BeginSeed(reqs)
  PROVE  IInv'
<1>1. Paths(reqs) \subseteq RootPaths
  BY DEF Paths, RootRequests
<1>2. /\ mode' = "seed" /\ step' = "reset"
      /\ todoEx' = Plan(Paths(reqs)).exclusions /\ todoRoots' = Paths(reqs)
      /\ previous' = roots /\ target' = Paths(reqs)
      /\ UNCHANGED <<runtimeVars, maintVars, session, outcome, userVars, torn>>
  BY DEF BeginSeed, Begin, Plan
<1>3. todoEx' \subseteq Path
  BY <1>2, PlannedPaths
<1>4. TypeOK'
  BY <1>1, <1>2, <1>3
  DEF IInv, TypeOK, MaintenanceTypeOK, runtimeVars, maintVars, userVars
<1>5. Bookkeeping'
  BY <1>2 DEF IInv, Bookkeeping, Idle, maintVars
<1>6. CallsMatchPlan'
  BY <1>2 DEF CallsMatchPlan, Plan
<1>7. CoveredOutsideReseed'
  BY <1>2 DEF IInv, CoveredOutsideReseed, Idle, runtimeVars, userVars, Plan
<1>8. QED
  BY <1>4, <1>5, <1>6, <1>7 DEF IInv

\* A plain change starts with the exclusions that its resulting set needs.
LEMMA BeginPlainStep ==
  ASSUME IInv, Idle, NEW fst \in {"apply", "detach"}, NEW goal, goal \subseteq RootPaths,
         NEW attach, attach \subseteq RootPaths, \A p, q \in attach : p = q,
         goal = IF fst = "apply" THEN roots \cup attach ELSE roots \ attach,
         fst = "detach" => \A p \in roots \cap attach : ~ManualAppDataRoot(p),
         Plan(goal).allowed,
         Begin("plain", fst, Plan(goal).exclusions, attach, goal)
  PROVE  IInv'
<1>1. /\ mode' = "plain" /\ step' = fst
      /\ todoEx' = Plan(goal).exclusions /\ todoRoots' = attach
      /\ previous' = roots /\ target' = goal
      /\ UNCHANGED <<runtimeVars, maintVars, session, outcome, userVars, torn>>
  BY DEF Begin
<1>2. TypeOK'
  BY <1>1, PlannedPaths
  DEF IInv, TypeOK, MaintenanceTypeOK, runtimeVars, maintVars, userVars
<1>3. Bookkeeping'
  BY <1>1 DEF IInv, Bookkeeping, Idle, maintVars
<1>4. CallsMatchPlan'
  BY <1>1 DEF CallsMatchPlan, Plan, runtimeVars, userVars
<1>5. CoveredOutsideReseed'
  BY <1>1 DEF IInv, CoveredOutsideReseed, Idle, runtimeVars, userVars, Plan
<1>6. QED
  BY <1>2, <1>3, <1>4, <1>5 DEF IInv

\* request_maintenance (lines 279-287) leaves its own state well formed.
LEMMA RequestStep ==
  ASSUME IInv, NEW b, RequestMaintenance(b)
  PROVE  /\ pending' \in BOOLEAN /\ fixedReady' \in BOOLEAN
         /\ fixedTodo' \subseteq Path /\ seen' \subseteq Path
         /\ term' \in 1 .. (Len(Terms) + 1)
         /\ CurrentTerm'
<1>1. Len(Terms) \in Nat /\ 1 <= Len(Terms)
  BY MaintenanceAssumption
<1>2. CASE b
  <2>1. pending' = TRUE /\ fixedReady' = FALSE /\ fixedTodo' = {} /\ term' = 1 /\ seen' = {}
    BY <1>2 DEF RequestMaintenance
  <2>2. term' \in 1 .. (Len(Terms) + 1) /\ term' <= Len(Terms)
    BY <1>1, <2>1
  <2>3. QED
    BY <2>1, <2>2
<1>3. CASE ~b
  BY <1>1, <1>3
  DEF RequestMaintenance, maintVars, IInv, TypeOK, MaintenanceTypeOK, Bookkeeping
<1>4. QED
  BY <1>2, <1>3

\* A refused operation mutates nothing, so it keeps everything.
LEMMA RefuseStep ==
  ASSUME IInv, Idle, Refuse
  PROVE  IInv'
BY DEF Refuse, IInv, Idle, TypeOK, MaintenanceTypeOK, Bookkeeping, CallsMatchPlan,
       CoveredOutsideReseed, Plan, runtimeVars, maintVars, userVars

\* add_root (lines 387-424), for any request a user can make.
LEMMA AddRootStep ==
  ASSUME IInv, NEW req \in RootRequests, AddRoot(req)
  PROVE  IInv'
<1> DEFINE asked == Persisted(roots) \cup {req}
           reqs  == OnePerPath(asked)
           goal  == roots \cup {req.path}
<1>1. Idle /\ roots \subseteq RootPaths /\ req.path \in RootPaths
  BY DEF AddRoot, IInv, TypeOK, RootRequests
<1>2. asked \subseteq RootRequests
  BY <1>1, PersistedRequests
<1>3. Paths(asked) = goal
  BY PersistedPaths DEF Paths
<1>4. CASE ~PlanSet(reqs).allowed
  BY <1>1, <1>4, RefuseStep DEF AddRoot
<1>5. CASE PlanSet(reqs).allowed
  <2>1. reqs = Persisted(goal)
    BY <1>2, <1>3, <1>5, IntentIsPersistent
  <2>2. Paths(reqs) = goal
    BY <2>1, PersistedPaths
  <2>3. CASE req.explicit
    <3>1. BeginSeed(reqs)
      BY <1>5, <2>3 DEF AddRoot
    <3>2. reqs \subseteq RootRequests
      BY <1>1, <2>1, PersistedRequests
    <3>3. QED
      BY <1>1, <1>5, <2>1, <2>2, <3>1, <3>2, BeginSeedStep
  <2>4. CASE ~req.explicit
    <3>1. Begin("plain", "apply", PlanSet(reqs).exclusions, {req.path} \ roots, Paths(reqs))
      BY <1>5, <2>4 DEF AddRoot
    <3>2. PlanSet(reqs) = Plan(goal)
      BY <2>1 DEF Plan
    <3>3. goal = roots \cup ({req.path} \ roots)
      OBVIOUS
    <3>4. goal \subseteq RootPaths /\ {req.path} \ roots \subseteq RootPaths
      BY <1>1
    <3>5. Plan(goal).allowed
      BY <1>5, <3>2
    <3>6. Begin("plain", "apply", Plan(goal).exclusions, {req.path} \ roots, goal)
      BY <2>2, <3>1, <3>2
    <3> HIDE DEF goal, reqs, asked
    <3>7. QED
      BY <1>1, <3>3, <3>4, <3>5, <3>6, BeginPlainStep
  <2>5. QED
    BY <2>3, <2>4
<1>6. QED
  BY <1>4, <1>5

\* replace_roots (lines 426-443), for any selection.
LEMMA ReplaceRootsStep ==
  ASSUME IInv, NEW s \in Selections, ReplaceRoots(s)
  PROVE  IInv'
<1>1. Idle /\ s \subseteq RootRequests
  BY ServiceAssumption DEF ReplaceRoots
<1>2. CASE ~PlanSet(OnePerPath(s)).allowed
  BY <1>1, <1>2, RefuseStep DEF ReplaceRoots
<1>3. CASE PlanSet(OnePerPath(s)).allowed
  <2>1. OnePerPath(s) = Persisted(Paths(s))
    BY <1>1, <1>3, IntentIsPersistent
  <2>2. Paths(s) \subseteq RootPaths
    BY <1>1 DEF Paths, RootRequests
  <2>3. /\ OnePerPath(s) \subseteq RootRequests
        /\ OnePerPath(s) = Persisted(Paths(OnePerPath(s)))
    BY <2>1, <2>2, PersistedPaths, PersistedRequests
  <2>4. BeginSeed(OnePerPath(s))
    BY <1>3 DEF ReplaceRoots
  <2>5. QED
    BY <1>1, <1>3, <2>3, <2>4, BeginSeedStep
<1>4. QED
  BY <1>2, <1>3

\* remove_root (lines 445-481).
LEMMA RemoveRootStep ==
  ASSUME IInv, NEW p \in RootPaths, RemoveRoot(p)
  PROVE  IInv'
<1> DEFINE goal == roots \ {p}
<1>1. Idle /\ goal \subseteq RootPaths
  BY DEF RemoveRoot, IInv, TypeOK
<1>2. Paths(Persisted(goal)) = goal
  BY PersistedPaths
<1>3. CASE ~PlanSet(Persisted(goal)).allowed
  BY <1>1, <1>3, RefuseStep DEF RemoveRoot
<1>4. CASE PlanSet(Persisted(goal)).allowed
  <2>1. CASE p \in roots /\ ManualAppDataRoot(p)
    <3>1. BeginSeed(Persisted(goal))
      BY <1>4, <2>1 DEF RemoveRoot
    <3>2. Persisted(goal) \subseteq RootRequests
      BY <1>1, PersistedRequests
    <3>3. QED
      BY <1>1, <1>2, <1>4, <3>1, <3>2, BeginSeedStep
  <2>2. CASE ~(p \in roots /\ ManualAppDataRoot(p))
    <3>1. Begin("plain", "detach", Plan(goal).exclusions, {p}, goal)
      BY <1>2, <1>4, <2>2 DEF RemoveRoot, Plan
    <3>2. Plan(goal).allowed /\ goal = roots \ {p}
      BY <1>4 DEF Plan
    <3>3. \A q \in roots \cap {p} : ~ManualAppDataRoot(q)
      BY <2>2
    <3> HIDE DEF goal
    <3>4. QED
      BY <1>1, <3>1, <3>2, <3>3, BeginPlainStep
  <2>3. QED
    BY <2>1, <2>2
<1>5. QED
  BY <1>3, <1>4

\* reindex_async (lines 483-502), with roots and without.
LEMMA ReindexStep ==
  ASSUME IInv, Reindex \/ ReindexNothing
  PROVE  IInv'
<1>1. CASE Reindex
  <2>1. Idle /\ roots \subseteq RootPaths
    BY <1>1 DEF Reindex, IInv, TypeOK
  <2>2. Persisted(roots) \subseteq RootRequests /\ Paths(Persisted(roots)) = roots
    BY <2>1, PersistedRequests, PersistedPaths
  <2>3. QED
    BY <1>1, <2>1, <2>2, BeginSeedStep, RefuseStep DEF Reindex
<1>2. CASE ReindexNothing
  <2>1. /\ pending' \in BOOLEAN /\ fixedReady' \in BOOLEAN
        /\ fixedTodo' \subseteq Path /\ seen' \subseteq Path
        /\ term' \in 1 .. (Len(Terms) + 1)
        /\ CurrentTerm'
    BY <1>2, RequestStep DEF ReindexNothing
  <2>2. /\ step = "ready" /\ step' = "done" /\ outcome' = "ok" /\ target' = {}
        /\ indexing' = TRUE /\ session # "none"
        /\ UNCHANGED <<roots, excluded, session, mode, todoEx, todoRoots, previous,
                       userVars, torn>>
    BY <1>2 DEF ReindexNothing, Idle
  <2>3. TypeOK'
    BY <2>1, <2>2 DEF userVars, IInv, TypeOK, MaintenanceTypeOK
  <2>4. Bookkeeping'
    BY <2>1, <2>2 DEF IInv, Bookkeeping
  <2>5. CallsMatchPlan' /\ CoveredOutsideReseed'
    BY <2>2 DEF IInv, CallsMatchPlan, CoveredOutsideReseed, Plan, userVars
  <2>6. QED
    BY <2>3, <2>4, <2>5 DEF IInv
<1>3. QED
  BY <1>1, <1>2

\* Whichever operation a process begins, the invariant holds.
LEMMA OperationStep ==
  ASSUME IInv, Operation
  PROVE  IInv'
BY AddRootStep, ReplaceRootsStep, RemoveRootStep, ReindexStep, RefuseStep
DEF Operation, RootsUnreadable

-----------------------------------------------------------------------------
(* The calls of an operation.                                              *)

\* replace_roots({}) empties both tables; the plan still to make covers all.
LEMMA ResetRootsStep ==
  ASSUME IInv, ResetRoots
  PROVE  IInv'
<1>1. /\ step = "reset" /\ step' = "apply" /\ mode # "plain"
      /\ roots' = {} /\ excluded' = {} /\ shown' = {}
      /\ UNCHANGED <<indexing, maintVars, session, mode, todoEx, todoRoots, previous,
                     target, outcome, hidden, torn>>
      /\ Plan(todoRoots).allowed /\ todoEx = Plan(todoRoots).exclusions
  BY DEF ResetRoots, IInv, CallsMatchPlan
<1>2. TypeOK'
  BY <1>1 DEF IInv, TypeOK, MaintenanceTypeOK, maintVars
<1>3. Bookkeeping'
  BY <1>1 DEF IInv, Bookkeeping, TypeOK, maintVars
<1>4. {} \cup todoRoots = todoRoots
  OBVIOUS
<1>5. CallsMatchPlan'
  BY <1>1, <1>4 DEF CallsMatchPlan, Plan
<1>6. CoveredOutsideReseed'
  BY <1>1 DEF CoveredOutsideReseed
<1>7. QED
  BY <1>2, <1>3, <1>5, <1>6 DEF IInv

\* One exclusion moves from the calls still to be made into the runtime.
LEMMA ApplyExclusionStep ==
  ASSUME IInv, ApplyExclusion
  PROVE  IInv'
<1>1. PICK e \in todoEx :
        /\ step = "apply"
        /\ excluded' = excluded \cup {e} /\ shown' = shown \ {e} /\ todoEx' = todoEx \ {e}
        /\ UNCHANGED <<roots, indexing, maintVars, session, step, mode, todoRoots,
                       previous, target, outcome, hidden, torn>>
  BY DEF ApplyExclusion
<1>2. TypeOK'
  BY <1>1 DEF IInv, TypeOK, MaintenanceTypeOK, maintVars
<1>3. Bookkeeping'
  BY <1>1 DEF IInv, Bookkeeping, maintVars
<1>4. /\ excluded \cup shown \cup todoEx \subseteq excluded' \cup shown' \cup todoEx'
      /\ excluded \cup shown \subseteq excluded' \cup shown'
  BY <1>1
<1>5. CallsMatchPlan'
  BY <1>1, <1>4 DEF IInv, CallsMatchPlan, Plan
<1>6. CoveredOutsideReseed'
  BY <1>1, <1>4 DEF IInv, CoveredOutsideReseed, Plan
<1>7. QED
  BY <1>2, <1>3, <1>5, <1>6 DEF IInv

\* A root is attached once every exclusion of the complete set is in place.
LEMMA AttachRootStep ==
  ASSUME IInv, AttachRoot
  PROVE  IInv'
<1>1. PICK r \in todoRoots :
        /\ step = "apply" /\ todoEx = {}
        /\ roots' = roots \cup {r} /\ todoRoots' = todoRoots \ {r} /\ indexing' = TRUE
        /\ UNCHANGED <<excluded, maintVars, session, step, mode, todoEx, previous,
                       target, outcome, userVars, torn>>
  BY DEF AttachRoot
<1>2. TypeOK'
  BY <1>1, ServiceAssumption DEF IInv, TypeOK, MaintenanceTypeOK, maintVars, userVars
<1>3. Bookkeeping'
  BY <1>1 DEF IInv, Bookkeeping, maintVars
<1>4. roots' \cup todoRoots' = roots \cup todoRoots
  BY <1>1
<1>5. /\ mode = "plain" => \A p, q \in todoRoots : p = q
      /\ Plan(roots \cup todoRoots).allowed
      /\ Plan(roots \cup todoRoots).exclusions \subseteq excluded \cup shown
  BY <1>1 DEF IInv, CallsMatchPlan
<1>6. CallsMatchPlan'
  BY <1>1, <1>4, <1>5 DEF CallsMatchPlan, Plan, userVars
<1>7. CoveredOutsideReseed'
  <2>1. CASE mode # "plain"
    BY <1>1, <2>1 DEF CoveredOutsideReseed
  <2>2. CASE mode = "plain"
    <3>1. roots' = roots \cup todoRoots
      BY <1>1, <1>5, <2>2
    <3>2. QED
      BY <1>1, <1>5, <3>1 DEF CoveredOutsideReseed, Plan, userVars
  <2>3. QED
    BY <2>1, <2>2
<1>8. QED
  BY <1>2, <1>3, <1>6, <1>7 DEF IInv

\* Only a root that is no AppData folder is detached plainly, so what covered
\* the roots before covers those that are left.
LEMMA DetachRootStep ==
  ASSUME IInv, DetachRoot
  PROVE  IInv'
<1>1. /\ step = "detach" /\ step' = "apply" /\ mode = "plain"
      /\ roots' = roots \ todoRoots /\ todoRoots' = {}
      /\ UNCHANGED <<excluded, indexing, maintVars, session, mode, todoEx, previous,
                     target, outcome, userVars, torn>>
      /\ Plan(roots \ todoRoots).allowed
      /\ todoEx = Plan(roots \ todoRoots).exclusions
      /\ \A p \in roots \cap todoRoots : ~ManualAppDataRoot(p)
  BY DEF DetachRoot, IInv, CallsMatchPlan
<1>2. TypeOK'
  BY <1>1 DEF IInv, TypeOK, MaintenanceTypeOK, maintVars, userVars
<1>3. Bookkeeping'
  BY <1>1 DEF IInv, Bookkeeping, maintVars
<1>4. (roots \ todoRoots) \cup {} = roots \ todoRoots
  OBVIOUS
<1>5. CallsMatchPlan'
  BY <1>1, <1>4 DEF CallsMatchPlan, Plan, userVars
<1>6. CoveredOutsideReseed'
  <2>1. SUFFICES ASSUME ~torn
                 PROVE  Plan(roots \ todoRoots).exclusions \subseteq excluded \cup shown
    BY <1>1 DEF CoveredOutsideReseed, Plan, userVars
  <2>2. Plan(roots).allowed /\ Plan(roots).exclusions \subseteq excluded \cup shown
    BY <1>1, <2>1 DEF IInv, CoveredOutsideReseed
  <2>3. \A p \in roots \ (roots \ todoRoots) : ~ManualAppDataRoot(p)
    BY <1>1
  <2>4. QED
    BY <2>2, <2>3, PlanShrinks
<1>7. QED
  BY <1>2, <1>3, <1>5, <1>6 DEF IInv

\* An operation ends with its roots covered, or leaves a torn reseed on record.
LEMMA ReturnStep ==
  ASSUME IInv, Return
  PROVE  IInv'
<1>1. /\ step = "apply" /\ todoEx = {} /\ todoRoots = {} /\ step' = "done"
      /\ outcome' = IF mode = "rollback" THEN "failed" ELSE "ok"
      /\ torn' = (torn /\ mode = "plain")
      /\ UNCHANGED <<runtimeVars, session, mode, todoEx, todoRoots, previous, target, userVars>>
      /\ \E b : RequestMaintenance(b)
  BY DEF Return
<1>2. /\ pending' \in BOOLEAN /\ fixedReady' \in BOOLEAN
      /\ fixedTodo' \subseteq Path /\ seen' \subseteq Path
      /\ term' \in 1 .. (Len(Terms) + 1)
      /\ CurrentTerm'
  BY <1>1, RequestStep
<1>3. torn' \in BOOLEAN
  <2>1. torn \in BOOLEAN
    BY DEF IInv, TypeOK
  <2>2. QED
    BY <1>1, <2>1
<1>4. TypeOK'
  BY <1>1, <1>2, <1>3 DEF IInv, TypeOK, MaintenanceTypeOK, runtimeVars, userVars
<1>5. Bookkeeping' /\ CallsMatchPlan'
  <2>1. session # "none"
    BY <1>1 DEF IInv, Bookkeeping
  <2>2. QED
    BY <1>1, <1>2, <2>1 DEF Bookkeeping, CallsMatchPlan
<1>6. CoveredOutsideReseed'
  <2>1. roots \cup todoRoots = roots /\ excluded \cup shown \cup todoEx = excluded \cup shown
    BY <1>1
  <2>2. Plan(roots).allowed /\ Plan(roots).exclusions \subseteq excluded \cup shown
    BY <1>1, <2>1 DEF IInv, CallsMatchPlan
  <2>3. QED
    BY <1>1, <2>2 DEF CoveredOutsideReseed, Plan, runtimeVars, userVars
<1>7. QED
  BY <1>4, <1>5, <1>6 DEF IInv

\* A call fails: a plain operation reports it, a reseed rolls back.
LEMMA FailureStep ==
  ASSUME IInv, PlainFails \/ StartRollback \/ RollbackFails
  PROVE  IInv'
<1>1. session # "none"
  BY DEF PlainFails, StartRollback, RollbackFails, CallFails, IInv, Bookkeeping
<1>2. CASE PlainFails
  <2>1. /\ mode = "plain" /\ step' = "done" /\ outcome' = "failed"
        /\ UNCHANGED <<runtimeVars, maintVars, session, mode, todoEx, todoRoots,
                       previous, target, userVars, torn>>
    BY <1>2 DEF PlainFails
  <2>2. QED
    BY <1>1, <2>1
    DEF IInv, TypeOK, MaintenanceTypeOK, Bookkeeping, CallsMatchPlan,
        CoveredOutsideReseed, Plan, runtimeVars, maintVars, userVars
<1>3. CASE StartRollback
  <2>1. /\ Plan(previous).allowed
        /\ mode' = "rollback" /\ step' = "reset"
        /\ todoEx' = Plan(previous).exclusions /\ todoRoots' = previous
        /\ torn' = TRUE
        /\ UNCHANGED <<runtimeVars, maintVars, session, previous, target, outcome, userVars>>
    BY <1>3 DEF StartRollback, Plan
  <2>2. TypeOK'
    BY <2>1, PlannedPaths
    DEF IInv, TypeOK, MaintenanceTypeOK, runtimeVars, maintVars, userVars
  <2>3. Bookkeeping' /\ CallsMatchPlan' /\ CoveredOutsideReseed'
    BY <1>1, <2>1
    DEF IInv, Bookkeeping, CallsMatchPlan, CoveredOutsideReseed, Plan, maintVars
  <2>4. QED
    BY <2>2, <2>3 DEF IInv
<1>4. CASE RollbackFails
  <2>1. /\ step' = "done" /\ outcome' = "lost" /\ torn' = TRUE
        /\ UNCHANGED <<runtimeVars, session, mode, todoEx, todoRoots, previous, target, userVars>>
        /\ \E b : RequestMaintenance(b)
    BY <1>4 DEF RollbackFails
  <2>2. /\ pending' \in BOOLEAN /\ fixedReady' \in BOOLEAN
        /\ fixedTodo' \subseteq Path /\ seen' \subseteq Path
        /\ term' \in 1 .. (Len(Terms) + 1)
        /\ CurrentTerm'
    BY <2>1, RequestStep
  <2>3. TypeOK'
    BY <2>1, <2>2 DEF IInv, TypeOK, MaintenanceTypeOK, runtimeVars, userVars
  <2>4. Bookkeeping' /\ CallsMatchPlan' /\ CoveredOutsideReseed'
    BY <1>1, <2>1, <2>2 DEF Bookkeeping, CallsMatchPlan, CoveredOutsideReseed
  <2>5. QED
    BY <2>3, <2>4 DEF IInv
<1>5. QED
  BY <1>2, <1>3, <1>4

\* Whichever runtime call returns or fails, the invariant holds.
LEMMA RuntimeCallStep ==
  ASSUME IInv, RuntimeCall
  PROVE  IInv'
BY ResetRootsStep, ApplyExclusionStep, AttachRootStep, DetachRootStep, ReturnStep, FailureStep
DEF RuntimeCall

-----------------------------------------------------------------------------
(* Processes, the user's own exclusions, and the time after an operation.   *)

\* A process starts, ends or is killed: only a kill in a reseed tears the plan.
LEMMA ProcessStep ==
  ASSUME IInv, Start \/ Exit \/ Kill
  PROVE  IInv'
<1>1. /\ step' = "ready" /\ session' \in {"none", "worker", "cli"}
      /\ FreshService
      /\ UNCHANGED <<roots, excluded, userVars>>
      /\ indexing' \in BOOLEAN
  BY DEF Start, Exit, Kill, runtimeVars, IInv, TypeOK, MaintenanceTypeOK
<1>2. torn' \in BOOLEAN
  BY DEF Start, Exit, Kill, IInv, TypeOK
<1>3. 1 \in 1 .. (Len(Terms) + 1)
  BY MaintenanceAssumption
<1>4. TypeOK'
  BY <1>1, <1>2, <1>3
  DEF FreshService, IInv, TypeOK, MaintenanceTypeOK, userVars
<1>5. Bookkeeping' /\ CallsMatchPlan'
  BY <1>1 DEF FreshService, Bookkeeping, CallsMatchPlan
<1>6. ~torn' => ~torn /\ ~(step = "apply" /\ mode # "plain")
  BY DEF Start, Exit, Kill, IInv, Bookkeeping
<1>7. CoveredOutsideReseed'
  BY <1>1, <1>6 DEF IInv, CoveredOutsideReseed, Plan, userVars
<1>8. QED
  BY <1>4, <1>5, <1>7 DEF IInv

\* Hiding and showing: what is covered stays excluded, or is the user's wish.
LEMMA UserStep ==
  ASSUME IInv, NEW p \in HidePaths, Hide(p) \/ Show(p)
  PROVE  IInv'
<1>1. /\ UNCHANGED <<roots, indexing, maintVars, serviceVars, torn>>
      /\ excluded \cup shown \subseteq excluded' \cup shown'
      /\ excluded' \subseteq excluded \cup {p}
      /\ hidden' \subseteq hidden \cup {p}
      /\ shown' \subseteq shown \cup {p}
  BY DEF Hide, Show
<1>2. TypeOK'
  BY <1>1, ServiceAssumption
  DEF IInv, TypeOK, MaintenanceTypeOK, maintVars, serviceVars
<1>3. Bookkeeping' /\ CallsMatchPlan' /\ CoveredOutsideReseed'
  BY <1>1
  DEF IInv, Bookkeeping, CallsMatchPlan, CoveredOutsideReseed, Plan, maintVars, serviceVars
<1>4. QED
  BY <1>2, <1>3 DEF IInv

\* The crawl ends, and the maintenance polls: more exclusions, never fewer.
LEMMA AfterwardsStep ==
  ASSUME IInv, WaitForIdle \/ Drain
  PROVE  IInv'
<1>1. CASE WaitForIdle
  BY <1>1
  DEF WaitForIdle, CrawlEnds, IInv, TypeOK, MaintenanceTypeOK, Bookkeeping, CallsMatchPlan,
      CoveredOutsideReseed, Plan, maintVars, serviceVars, userVars
<1>2. CASE Drain
  <2>1. /\ Poll /\ step = "done" /\ shown' = shown \ excluded'
        /\ UNCHANGED <<serviceVars, hidden, torn>>
    BY <1>2 DEF Drain
  <2>2. UNCHANGED <<roots, indexing>> /\ excluded \subseteq excluded'
    BY <2>1, PollOnlyExcludes
  <2>3. MaintenanceTypeOK' /\ CurrentTerm'
    BY <2>1, PollKeepsTypes DEF IInv, TypeOK, Bookkeeping
  <2>4. TypeOK'
    BY <2>1, <2>2, <2>3 DEF IInv, TypeOK, serviceVars
  <2>5. Bookkeeping' /\ CallsMatchPlan' /\ CoveredOutsideReseed'
    BY <2>1, <2>2, <2>3
    DEF IInv, Bookkeeping, CallsMatchPlan, CoveredOutsideReseed, Plan, serviceVars
  <2>6. QED
    BY <2>4, <2>5 DEF IInv
<1>3. QED
  BY <1>1, <1>2

-----------------------------------------------------------------------------
(* Theorems.                                                               *)

\* The roots an earlier release persisted are on record as a torn reseed.
LEMMA InitIInv == Init => IInv
<1> SUFFICES ASSUME Init
             PROVE  IInv
  OBVIOUS
<1>1. 1 \in 1 .. (Len(Terms) + 1)
  BY MaintenanceAssumption
<1>2. roots \subseteq RootPaths /\ RootPaths \subseteq Path
  BY ServiceAssumption DEF Init
<1>3. torn \in BOOLEAN /\ (~torn => roots = {})
  BY DEF Init
<1>4. TypeOK
  BY <1>1, <1>2, <1>3 DEF Init, TypeOK, MaintenanceTypeOK
<1>5. Bookkeeping /\ CallsMatchPlan
  BY DEF Init, Bookkeeping, CallsMatchPlan
<1>6. CoveredOutsideReseed
  BY <1>3, PlanOfNothing DEF CoveredOutsideReseed
<1>7. QED
  BY <1>4, <1>5, <1>6 DEF IInv

\* The inductive invariant: between any two runtime calls, the calls that are
\* left are the plan of the roots they will leave.
THEOREM InductiveInvariant == Spec => []IInv
<1>1. IInv /\ [Next]_vars => IInv'
  <2>1. CASE Next
    BY <2>1, OperationStep, RuntimeCallStep, ProcessStep, UserStep, AfterwardsStep DEF Next
  <2>2. ASSUME IInv, UNCHANGED vars
        PROVE  IInv'
    <3>1. UNCHANGED <<roots, excluded, indexing, pending, fixedReady, fixedTodo, term, seen,
                      session, step, mode, todoEx, todoRoots, previous, target, outcome,
                      hidden, shown, torn>>
      BY <2>2 DEF vars, runtimeVars, maintVars, serviceVars, userVars
    <3>2. TypeOK' /\ Bookkeeping'
      BY <2>2, <3>1 DEF IInv, TypeOK, MaintenanceTypeOK, Bookkeeping
    <3>3. CallsMatchPlan' /\ CoveredOutsideReseed'
      BY <2>2, <3>1 DEF IInv, CallsMatchPlan, CoveredOutsideReseed, Plan
    <3>4. QED
      BY <3>2, <3>3 DEF IInv
  <2>3. QED
    BY <2>1, <2>2
<1>2. QED
  BY <1>1, InitIInv, PTL DEF Spec

\* Type correctness of the service and of the maintenance it drives.
THEOREM TypeCorrect == Spec => []TypeOK
<1>1. IInv => TypeOK
  BY DEF IInv
<1>2. QED
  BY <1>1, InductiveInvariant, PTL

\* No root is ever attached, by any sequence of operations in which calls fail
\* and processes die, before every exclusion that the policy plans for the
\* complete set is in the runtime, unless the user has shown the path since or
\* a reseed was cut short (apply_prepared_root_set, add_root, remove_root).
THEOREM RootsAreCovered == Spec => []PolicyCoversRoots
<1>1. IInv => PolicyCoversRoots
  <2>1. SUFFICES ASSUME IInv, ~torn
                 PROVE  Plan(Attached).exclusions \subseteq excluded \cup shown
    BY DEF PolicyCoversRoots, Plan
  <2>2. CASE step = "apply" /\ todoEx = {}
    BY <2>1, <2>2 DEF Attached, IInv, CallsMatchPlan
  <2>3. CASE step = "apply" /\ todoEx # {} /\ mode # "plain"
    BY <2>1, <2>3, PlanOfNothing DEF Attached, IInv, CallsMatchPlan
  <2>4. CASE ~(step = "apply" /\ todoEx = {}) /\ ~(step = "apply" /\ mode # "plain")
    BY <2>1, <2>4 DEF Attached, IInv, CoveredOutsideReseed
  <2>5. QED
    BY <2>2, <2>3, <2>4
<1>2. QED
  BY <1>1, InductiveInvariant, PTL

-----------------------------------------------------------------------------
(* The root service implements RootChange: whatever fails and whenever the *)
(* process dies, its caller sees one atomic change of the roots.           *)

RInv == IInv /\ CallsReachTarget

-----------------------------------------------------------------------------
(* The invariant of the mapping.                                           *)

\* The begin of each operation hands over calls that reach its target.
LEMMA OperationReaches ==
  ASSUME RInv, Operation
  PROVE  CallsReachTarget'
<1> USE DEF RInv, IInv, TypeOK, CallsReachTarget
<1>1. Idle
  BY DEF Operation, RootsUnreadable, AddRoot, ReplaceRoots, RemoveRoot, ReindexNothing, Reindex
<1>2. ASSUME Refuse
      PROVE  CallsReachTarget'
  BY <1>2 DEF Refuse, runtimeVars
<1>3. ASSUME NEW reqs, BeginSeed(reqs)
      PROVE  CallsReachTarget'
  BY <1>3 DEF BeginSeed, Begin, runtimeVars
<1>4. CASE \E r \in RootRequests : AddRoot(r)
  <2>1. PICK req \in RootRequests : AddRoot(req)
    BY <1>4
  <2> DEFINE asked == Persisted(roots) \cup {req}
             reqs  == OnePerPath(asked)
  <2>2. CASE Begin("plain", "apply", PlanSet(reqs).exclusions, {req.path} \ roots, Paths(reqs))
    <3>1. Paths(reqs) = roots \cup {req.path}
      <4>1. Paths(asked) = roots \cup {req.path}
        BY PersistedPaths DEF Paths
      <4>2. Paths(reqs) = Paths(asked)
        BY MergedPaths
      <4>3. QED
        BY <4>1, <4>2
    <3>2. /\ mode' = "plain" /\ step' = "apply" /\ todoRoots' = {req.path} \ roots
          /\ target' = roots \cup {req.path} /\ previous' = roots /\ roots' = roots
      BY <2>2, <3>1 DEF Begin, runtimeVars
    <3>3. QED
      BY <3>2
  <2>3. QED
    BY <1>2, <1>3, <2>1, <2>2 DEF AddRoot
<1>5. CASE \E s \in Selections : ReplaceRoots(s)
  BY <1>2, <1>3, <1>5 DEF ReplaceRoots
<1>6. CASE \E p \in RootPaths : RemoveRoot(p)
  <2>1. PICK p \in RootPaths : RemoveRoot(p)
    BY <1>6
  <2>2. CASE Begin("plain", "detach", PlanSet(Persisted(roots \ {p})).exclusions, {p},
                   Paths(Persisted(roots \ {p})))
    <3>1. Paths(Persisted(roots \ {p})) = roots \ {p}
      BY PersistedPaths
    <3>2. /\ mode' = "plain" /\ step' = "detach" /\ todoRoots' = {p}
          /\ target' = roots \ {p} /\ previous' = roots /\ roots' = roots
      BY <2>2, <3>1 DEF Begin, runtimeVars
    <3>3. QED
      BY <3>2
  <2>3. QED
    BY <1>2, <1>3, <2>1, <2>2 DEF RemoveRoot
<1>7. CASE ReindexNothing
  BY <1>7 DEF ReindexNothing
<1>8. CASE Reindex
  BY <1>2, <1>3, <1>8 DEF Reindex
<1>9. QED
  BY <1>2, <1>4, <1>5, <1>6, <1>7, <1>8 DEF Operation, RootsUnreadable

\* Each runtime call keeps what is attached and left on the way to the target.
LEMMA RuntimeCallReaches ==
  ASSUME RInv, RuntimeCall
  PROVE  CallsReachTarget'
<1> USE DEF RInv, IInv, TypeOK, CallsReachTarget
<1>1. CASE ResetRoots
  BY <1>1 DEF ResetRoots, CallsMatchPlan
<1>2. CASE ApplyExclusion
  BY <1>2 DEF ApplyExclusion
<1>3. CASE AttachRoot
  <2>1. PICK r \in todoRoots :
          /\ step = "apply" /\ todoEx = {} /\ todoEx' = {} /\ step' = step /\ mode' = mode
          /\ roots' = roots \cup {r} /\ todoRoots' = todoRoots \ {r}
          /\ previous' = previous /\ target' = target
    BY <1>3 DEF AttachRoot
  <2>2. roots' \cup todoRoots' = roots \cup todoRoots
    BY <2>1
  <2>3. mode = "plain" => todoRoots' = {}
    BY <2>1
  <2>4. QED
    BY <2>1, <2>2, <2>3
<1>4. CASE DetachRoot
  BY <1>4 DEF DetachRoot
<1>5. CASE Return \/ PlainFails \/ RollbackFails
  BY <1>5 DEF Return, PlainFails, RollbackFails, runtimeVars
<1>6. CASE StartRollback
  <2>1. /\ mode = "seed" /\ mode' = "rollback" /\ step' = "reset" /\ todoRoots' = previous
        /\ step \in {"reset", "detach", "apply"}
        /\ roots' = roots /\ previous' = previous /\ target' = target
    BY <1>6 DEF StartRollback, CallFails, runtimeVars
  <2>2. \E s \in {previous, target} : roots \subseteq s
    BY <2>1
  <2>3. QED
    BY <2>1, <2>2
<1>7. QED
  BY <1>1, <1>2, <1>3, <1>4, <1>5, <1>6 DEF RuntimeCall

\* Processes, the user and the maintenance do not disturb a change of roots.
LEMMA OtherReaches ==
  ASSUME RInv,
         \/ Start \/ Exit \/ Kill \/ WaitForIdle \/ Drain
         \/ \E p \in HidePaths : Hide(p) \/ Show(p)
         \/ UNCHANGED vars
  PROVE  CallsReachTarget'
<1> USE DEF RInv, CallsReachTarget
<1>1. CASE Start \/ Exit \/ Kill
  BY <1>1 DEF Start, Exit, Kill, FreshService
<1>2. CASE WaitForIdle
  BY <1>2 DEF WaitForIdle, CrawlEnds, serviceVars
<1>3. CASE Drain
  BY <1>3, PollOnlyExcludes DEF Drain, serviceVars
<1>4. CASE \E p \in HidePaths : Hide(p) \/ Show(p)
  BY <1>4 DEF Hide, Show, serviceVars
<1>5. CASE UNCHANGED vars
  BY <1>5 DEF vars, runtimeVars, serviceVars
<1>6. QED
  BY <1>1, <1>2, <1>3, <1>4, <1>5

\* The invariant behind the refinement: IInv, and the calls reach their target.
LEMMA RefinementInvariant == Spec => []RInv
<1>1. Init => CallsReachTarget
  BY DEF Init, CallsReachTarget
<1>2. IInv /\ IInv' /\ CallsReachTarget /\ [Next]_vars => CallsReachTarget'
  BY OperationReaches, RuntimeCallReaches, OtherReaches DEF Next, RInv
<1>3. QED
  BY <1>1, <1>2, InductiveInvariant, PTL DEF Spec, RInv

-----------------------------------------------------------------------------
(* The step simulation.                                                    *)

\* What a caller sees of a state: the mapping of ChangesAreAtomic.
SeenRoots == IF Busy THEN previous ELSE roots

SeenPhase == IF Busy THEN "changing" ELSE "idle"

\* The begin of an operation is the begin of the abstract change, or refuses it.
LEMMA OperationRefines ==
  ASSUME RInv, RInv', Operation
  PROVE  Change!Refuse \/ Change!Nothing \/ Change!Begin
<1>1. Idle
  BY DEF Operation, RootsUnreadable, AddRoot, ReplaceRoots, RemoveRoot, ReindexNothing, Reindex
<1>2. target' \in SUBSET RootPaths
  BY DEF RInv, IInv, TypeOK
<1>3. ASSUME Refuse
      PROVE  Change!Refuse
  BY <1>1, <1>3 DEF Refuse, Idle, Busy, Change!Refuse, runtimeVars
<1>4. ASSUME NEW m, NEW fst \in {"reset", "apply", "detach"}, NEW e, NEW a, NEW g,
             Begin(m, fst, e, a, g)
      PROVE  Change!Begin
  BY <1>1, <1>2, <1>4 DEF Begin, Idle, Busy, Change!Begin
<1>5. ASSUME NEW reqs, BeginSeed(reqs)
      PROVE  Change!Begin
  BY <1>4, <1>5 DEF BeginSeed
<1>6. CASE ReindexNothing
  BY <1>1, <1>6 DEF ReindexNothing, Idle, Busy, Change!Nothing
<1>7. CASE ~ReindexNothing
  BY <1>3, <1>4, <1>5, <1>7
  DEF Operation, RootsUnreadable, AddRoot, ReplaceRoots, RemoveRoot, Reindex
<1>8. QED
  BY <1>6, <1>7

\* A runtime call is hidden, or is the step that ends the abstract change.
LEMMA RuntimeCallRefines ==
  ASSUME RInv, RuntimeCall
  PROVE  \/ Change!Succeed \/ Change!Fail \/ Change!Lose
         \/ UNCHANGED <<SeenRoots, target, SeenPhase, outcome>>
<1> USE DEF RInv, IInv, CallsReachTarget, Busy
<1>1. CASE ResetRoots \/ ApplyExclusion \/ AttachRoot \/ DetachRoot \/ StartRollback
  BY <1>1
  DEF ResetRoots, ApplyExclusion, AttachRoot, DetachRoot, StartRollback, CallFails,
      SeenRoots, SeenPhase
<1>2. CASE Return
  <2>1. /\ step = "apply" /\ step' = "done" /\ todoRoots = {}
        /\ outcome' = IF mode = "rollback" THEN "failed" ELSE "ok"
        /\ target' = target /\ roots' = roots /\ previous' = previous
        /\ roots \cup todoRoots = roots /\ mode \in {"plain", "seed", "rollback"}
    BY <1>2 DEF Return, runtimeVars, TypeOK
  <2>2. CASE mode = "rollback"
    BY <2>1, <2>2 DEF Change!Fail
  <2>3. CASE mode # "rollback"
    BY <2>1, <2>3 DEF Change!Succeed
  <2>4. QED
    BY <2>2, <2>3
<1>3. CASE PlainFails
  <2>1. /\ Busy /\ step' = "done" /\ outcome' = "failed" /\ mode = "plain"
        /\ target' = target /\ roots' = roots
        /\ roots = previous \/ (roots = target /\ target \subseteq previous)
    BY <1>3 DEF PlainFails, CallFails, runtimeVars
  <2>2. QED
    BY <2>1 DEF Change!Fail
<1>4. CASE RollbackFails
  <2>1. /\ Busy /\ step' = "done" /\ outcome' = "lost" /\ mode \in {"seed", "rollback"}
        /\ target' = target /\ roots' = roots
    BY <1>4 DEF RollbackFails, CallFails, runtimeVars
  <2>2. \E s \in {previous, target} : roots \subseteq s
    BY <2>1
  <2>3. QED
    BY <2>1, <2>2 DEF Change!Lose, Change!Partial
<1>5. QED
  BY <1>1, <1>2, <1>3, <1>4 DEF RuntimeCall

\* Every other step is an abstract abort by a kill, or a stutter.
LEMMA OtherRefines ==
  ASSUME RInv,
         \/ Start \/ Exit \/ Kill \/ WaitForIdle \/ Drain
         \/ \E p \in HidePaths : Hide(p) \/ Show(p)
         \/ UNCHANGED vars
  PROVE  \/ Change!Open \/ Change!Die
         \/ UNCHANGED <<SeenRoots, target, SeenPhase, outcome>>
<1> USE DEF RInv, IInv, Busy
<1>1. CASE Start \/ Exit
  BY <1>1 DEF Start, Exit, FreshService, runtimeVars, Bookkeeping, Change!Open
<1>2. CASE Kill
  <2>1. /\ step' = "ready" /\ outcome' = "none" /\ target' = {} /\ roots' = roots
        /\ step # "done" /\ step \in {"ready", "reset", "apply", "detach", "done"}
        /\ mode \in {"plain", "seed", "rollback"}
    BY <1>2 DEF Kill, FreshService, TypeOK
  <2>2. CASE step = "ready"
    BY <2>1, <2>2 DEF Change!Open
  <2>3. CASE step # "ready"
    <3>1. \E s \in {previous, target} : roots \subseteq s
      BY <2>1, <2>3 DEF CallsReachTarget
    <3>2. QED
      BY <2>1, <2>3, <3>1 DEF Change!Die, Change!Partial
  <2>4. QED
    BY <2>2, <2>3
<1>3. CASE WaitForIdle \/ Drain
  BY <1>3, PollOnlyExcludes
  DEF WaitForIdle, CrawlEnds, Drain, serviceVars, SeenRoots, SeenPhase
<1>4. CASE \E p \in HidePaths : Hide(p) \/ Show(p)
  BY <1>4 DEF Hide, Show, serviceVars, SeenRoots, SeenPhase
<1>5. CASE UNCHANGED vars
  BY <1>5 DEF vars, runtimeVars, serviceVars, SeenRoots, SeenPhase
<1>6. QED
  BY <1>1, <1>2, <1>3, <1>4, <1>5

\* Every change of roots is atomic for its caller: it takes effect when it
\* reports success, has no effect when it reports failure (a removal may have
\* taken place), and never mixes the old and the new set, even when the roll
\* back fails or the process is killed (seed_root_set, rollback_roots).
THEOREM ChangesRefine == Spec => ChangesAreAtomic
<1>1. Init => Change!Init
  BY ServiceAssumption DEF Init, Busy, Change!Init
<1>2. RInv /\ RInv' /\ [Next]_vars => [Change!Next]_(Change!vars)
  BY OperationRefines, RuntimeCallRefines, OtherRefines
  DEF Next, Change!Next, Change!vars, SeenRoots, SeenPhase
<1>3. QED
  BY <1>1, <1>2, RefinementInvariant, PTL DEF Spec, ChangesAreAtomic, Change!Spec

-----------------------------------------------------------------------------
(* The user's own AppData folders.                                         *)

\* No exclusion of E is above or inside an AppData folder of S.
Spares(E, S) ==
  \A r \in S, e \in E : ManualAppDataRoot(r) => ~Related(e, r)

\* What is excluded above or inside an AppData folder of S is hidden or noise.
OpenTo(S) ==
  \A r \in S : ManualAppDataRoot(r) =>
    \A e \in excluded : Related(e, r) => e \in hidden \/ Last(e) \in NoiseNames

\* The AppData folders are open among the roots, and among those still to be
\* attached, which the exclusions still to be made spare.  What is left of a
\* fixed list belongs to the roots there are.
AppDataInv ==
  /\ OpenTo(roots)
  /\ step = "apply" => OpenTo(roots \cup todoRoots) /\ Spares(todoEx, roots \cup todoRoots)
  /\ Spares(fixedTodo, roots)
  /\ step # "done" => fixedTodo = {}

\* A plan reopens the AppData folders among its roots.
LEMMA PlanSpares ==
  ASSUME NEW S
  PROVE  Spares(Plan(S).exclusions, S)
<1>1. SUFFICES ASSUME NEW r \in S, NEW e \in Plan(S).exclusions, ManualAppDataRoot(r)
               PROVE  ~Related(e, r)
  BY DEF Spares
<1> DEFINE x == [path |-> r, explicit |-> ManualAppDataRoot(r)]
<1>2. x \in ExplicitRoots(Persisted(S)) /\ x.path = r
  BY <1>1 DEF ExplicitRoots, Persisted
<1>3. \A y \in ExplicitRoots(Persisted(S)) : ~Related(e, y.path)
  BY DEF Plan, PlanSet, Denied, Admit
<1>4. QED
  BY <1>2, <1>3

\* A plain request that is admitted is for no AppData folder.
LEMMA PlainIsNoAppData ==
  ASSUME IInv, NEW req \in RootRequests, ~req.explicit, req.path \notin roots,
         PlanSet(OnePerPath(Persisted(roots) \cup {req})).allowed
  PROVE  ~ManualAppDataRoot(req.path)
<1> DEFINE asked == Persisted(roots) \cup {req}
           q     == [path |-> req.path, explicit |-> FALSE]
<1>1. asked \subseteq RootRequests
  BY PersistedRequests DEF IInv, TypeOK
<1>2. OnePerPath(asked) = Persisted(Paths(asked))
  BY <1>1, IntentIsPersistent
<1>3. ~ \E r \in asked : r.path = req.path /\ r.explicit
  BY DEF Persisted
<1>4. q \in OnePerPath(asked)
  BY <1>3 DEF OnePerPath
<1>5. PICK p \in Paths(asked) : q = [path |-> p, explicit |-> ManualAppDataRoot(p)]
  BY <1>2, <1>4 DEF Persisted
<1>6. QED
  BY <1>5

\* An operation starts with calls that spare the AppData folders.
LEMMA OperationOpens ==
  ASSUME IInv, AppDataInv, Operation
  PROVE  AppDataInv'
<1>1. Idle
  BY DEF Operation, RootsUnreadable, AddRoot, ReplaceRoots, RemoveRoot, ReindexNothing, Reindex
<1>2. step = "ready" /\ fixedTodo = {} /\ OpenTo(roots)
  BY <1>1 DEF Idle, AppDataInv
<1>3. ASSUME UNCHANGED <<runtimeVars, maintVars, userVars>>, step' # "apply"
      PROVE  AppDataInv'
  BY <1>2, <1>3 DEF AppDataInv, OpenTo, Spares, runtimeVars, maintVars, userVars
<1>4. ASSUME Refuse
      PROVE  AppDataInv'
  BY <1>3, <1>4 DEF Refuse
<1>5. ASSUME NEW reqs, BeginSeed(reqs)
      PROVE  AppDataInv'
  BY <1>3, <1>5 DEF BeginSeed, Begin
<1>6. ASSUME NEW req \in RootRequests, AddRoot(req)
      PROVE  AppDataInv'
  <2> DEFINE asked == Persisted(roots) \cup {req}
             reqs  == OnePerPath(asked)
             new   == {req.path} \ roots
  <2>1. CASE PlanSet(reqs).allowed /\ ~req.explicit
    <3>1. Begin("plain", "apply", PlanSet(reqs).exclusions, new, Paths(reqs))
      BY <1>6, <2>1 DEF AddRoot
    <3>2. /\ step' = "apply" /\ todoEx' = PlanSet(reqs).exclusions /\ todoRoots' = new
          /\ UNCHANGED <<roots, excluded, fixedTodo, hidden>>
      BY <3>1 DEF Begin, runtimeVars, maintVars, userVars
    <3>3. asked \subseteq RootRequests
      BY PersistedRequests DEF IInv, TypeOK
    <3>4. reqs = Persisted(Paths(asked)) /\ Paths(asked) = roots \cup new
      <4>1. Paths(asked) = roots \cup {req.path}
        BY PersistedPaths DEF Paths
      <4>2. QED
        BY <2>1, <3>3, <4>1, IntentIsPersistent
    <3>5. Spares(todoEx', roots \cup new)
      BY <3>2, <3>4, PlanSpares DEF Plan
    <3>6. \A r \in new : ~ManualAppDataRoot(r)
      BY <2>1, PlainIsNoAppData
    <3>7. OpenTo(roots \cup new)
      BY <1>2, <3>6 DEF OpenTo
    <3> HIDE DEF new
    <3>8. QED
      BY <1>2, <3>2, <3>5, <3>7 DEF AppDataInv, OpenTo, Spares
  <2>2. QED
    BY <1>4, <1>5, <1>6, <2>1 DEF AddRoot
<1>7. ASSUME NEW s \in Selections, ReplaceRoots(s)
      PROVE  AppDataInv'
  BY <1>4, <1>5, <1>7 DEF ReplaceRoots
<1>8. ASSUME NEW p \in RootPaths, RemoveRoot(p)
      PROVE  AppDataInv'
  BY <1>3, <1>4, <1>5, <1>8 DEF RemoveRoot, Begin
<1>9. CASE ReindexNothing
  <2>1. roots' = roots /\ excluded' = excluded /\ hidden' = hidden /\ step' = "done"
        /\ roots = {} /\ \E b : RequestMaintenance(b)
    BY <1>9 DEF ReindexNothing, userVars
  <2>2. fixedTodo' = {}
    BY <1>2, <2>1 DEF RequestMaintenance, maintVars
  <2>3. QED
    BY <2>1, <2>2 DEF AppDataInv, OpenTo, Spares
<1>10. CASE Reindex
  BY <1>4, <1>5, <1>10 DEF Reindex
<1>11. QED
  BY <1>4, <1>6, <1>7, <1>8, <1>9, <1>10 DEF Operation, RootsUnreadable

\* No runtime call closes an AppData folder that is attached or is to be.
LEMMA RuntimeCallOpens ==
  ASSUME IInv, AppDataInv, RuntimeCall
  PROVE  AppDataInv'
<1>1. CASE ResetRoots
  <2>1. /\ step = "reset" /\ step' = "apply" /\ roots' = {} /\ excluded' = {}
        /\ todoEx = Plan(todoRoots).exclusions
        /\ UNCHANGED <<todoEx, todoRoots, fixedTodo, hidden>> /\ fixedTodo = {}
    BY <1>1 DEF ResetRoots, IInv, CallsMatchPlan, AppDataInv, maintVars
  <2>2. Spares(todoEx, roots' \cup todoRoots)
    BY <2>1, PlanSpares
  <2>3. QED
    BY <2>1, <2>2 DEF AppDataInv, OpenTo, Spares
<1>2. CASE ApplyExclusion
  <2>1. PICK e \in todoEx :
          /\ step = "apply" /\ excluded' = excluded \cup {e} /\ todoEx' = todoEx \ {e}
          /\ UNCHANGED <<roots, todoRoots, fixedTodo, hidden, step>>
    BY <1>2 DEF ApplyExclusion, maintVars
  <2>2. OpenTo(roots \cup todoRoots) /\ Spares(todoEx, roots \cup todoRoots)
    BY <2>1 DEF AppDataInv
  <2>3. (OpenTo(roots \cup todoRoots) /\ Spares(todoEx, roots \cup todoRoots))'
    BY <2>1, <2>2 DEF OpenTo, Spares
  <2>4. OpenTo(roots)'
    BY <2>3 DEF OpenTo
  <2>5. QED
    BY <2>1, <2>3, <2>4 DEF AppDataInv, Spares
<1>3. CASE AttachRoot
  <2>1. PICK r \in todoRoots :
          /\ step = "apply" /\ roots' = roots \cup {r} /\ todoRoots' = todoRoots \ {r}
          /\ UNCHANGED <<excluded, todoEx, fixedTodo, hidden, step>> /\ fixedTodo = {}
    BY <1>3 DEF AttachRoot, AppDataInv, maintVars, userVars
  <2>2. roots' \cup todoRoots' = roots \cup todoRoots
    BY <2>1
  <2>3. OpenTo(roots \cup todoRoots) /\ Spares(todoEx, roots \cup todoRoots)
    BY <2>1 DEF AppDataInv
  <2>4. QED
    BY <2>1, <2>2, <2>3 DEF AppDataInv, OpenTo, Spares
<1>4. CASE DetachRoot
  <2>1. /\ step = "detach" /\ roots' = roots \ todoRoots /\ todoRoots' = {}
        /\ todoEx = Plan(roots \ todoRoots).exclusions
        /\ UNCHANGED <<excluded, todoEx, fixedTodo, hidden>> /\ fixedTodo = {}
    BY <1>4 DEF DetachRoot, IInv, CallsMatchPlan, AppDataInv, maintVars, userVars
  <2>2. Spares(todoEx, roots \ todoRoots)
    BY <2>1, PlanSpares
  <2>3. roots' \cup todoRoots' = roots \ todoRoots
    BY <2>1
  <2>4. OpenTo(roots)
    BY DEF AppDataInv
  <2>5. QED
    BY <2>1, <2>2, <2>3, <2>4 DEF AppDataInv, OpenTo, Spares
<1>5. CASE Return \/ RollbackFails
  <2>1. /\ step # "done" /\ step' = "done"
        /\ UNCHANGED <<roots, excluded, hidden>> /\ \E b : RequestMaintenance(b)
    BY <1>5 DEF Return, RollbackFails, CallFails, runtimeVars, userVars
  <2>2. fixedTodo' = {}
    BY <2>1 DEF RequestMaintenance, maintVars, AppDataInv
  <2>3. QED
    BY <2>1, <2>2 DEF AppDataInv, OpenTo, Spares
<1>6. CASE PlainFails \/ StartRollback
  <2>1. /\ step' \in {"done", "reset"} /\ fixedTodo = {}
        /\ UNCHANGED <<roots, excluded, hidden, fixedTodo>>
    BY <1>6 DEF PlainFails, StartRollback, CallFails, AppDataInv, runtimeVars, maintVars, userVars
  <2>2. QED
    BY <2>1 DEF AppDataInv, OpenTo, Spares
<1>7. QED
  BY <1>1, <1>2, <1>3, <1>4, <1>5, <1>6 DEF RuntimeCall

\* What the maintenance excludes is planned for the roots there are, or noise.
LEMMA DrainOpens ==
  ASSUME IInv, AppDataInv, Drain
  PROVE  AppDataInv'
<1>1. /\ Poll /\ step = "done" /\ step' = "done" /\ hidden' = hidden
      /\ MaintenanceTypeOK /\ CurrentTerm
  BY DEF Drain, serviceVars, IInv, TypeOK, Bookkeeping
<1>2. roots' = roots
  BY <1>1, PollOnlyExcludes
<1>3. Spares(FixedList, roots)
  BY PlanSpares DEF FixedList, AppDataInv, Plan
<1>4. PICK batch \in SUBSET Path :
        /\ excluded' \subseteq excluded \cup FixedList \cup batch
        /\ \A e \in batch : Last(e) \in NoiseNames
  BY <1>1, PollAdds
<1>5. fixedTodo' \subseteq fixedTodo \cup FixedList
  BY <1>1, PollAdds
<1>6. OpenTo(roots)'
  BY <1>1, <1>2, <1>3, <1>4 DEF AppDataInv, OpenTo, Spares
<1>7. Spares(fixedTodo, roots)'
  BY <1>2, <1>3, <1>5 DEF AppDataInv, Spares
<1>8. QED
  BY <1>1, <1>6, <1>7 DEF AppDataInv

\* Processes come and go, and what the user hides is on record as hidden.
LEMMA OthersOpen ==
  ASSUME IInv, AppDataInv,
         \/ Start \/ Exit \/ Kill \/ WaitForIdle
         \/ \E p \in HidePaths : Hide(p) \/ Show(p)
         \/ UNCHANGED vars
  PROVE  AppDataInv'
<1>1. CASE Start \/ Exit \/ Kill
  <2>1. step' = "ready" /\ fixedTodo' = {} /\ UNCHANGED <<roots, excluded, hidden>>
    BY <1>1 DEF Start, Exit, Kill, FreshService, runtimeVars, userVars
  <2>2. QED
    BY <2>1 DEF AppDataInv, OpenTo, Spares
<1>2. CASE WaitForIdle \/ UNCHANGED vars
  BY <1>2 DEF WaitForIdle, CrawlEnds, vars, runtimeVars, maintVars, serviceVars, userVars,
              AppDataInv, OpenTo, Spares
<1>3. CASE \E p \in HidePaths : Hide(p) \/ Show(p)
  <2>1. /\ step' = "ready" /\ step = "ready"
        /\ UNCHANGED <<roots, fixedTodo>>
        /\ \A e \in excluded' : e \notin hidden' => e \in excluded /\ e \notin hidden
    BY <1>3 DEF Hide, Show, maintVars, serviceVars, IInv, Bookkeeping
  <2>2. QED
    BY <2>1 DEF AppDataInv, OpenTo, Spares
<1>4. QED
  BY <1>1, <1>2, <1>3

\* For every tree and every sequence of changes, failures and kills: nothing but
\* what the user has hidden, and noise, is left out of an AppData folder that the
\* user has named, and nothing else shadows it (plan_default_index_policy_set
\* reopens it below every broader root; add_root, remove_root reseed around it).
THEOREM AppDataStaysOpen == Spec => []SelectedAppDataOpen
<1>1. Init => AppDataInv
  BY DEF Init, AppDataInv, OpenTo, Spares
<1>2. IInv /\ AppDataInv /\ [Next]_vars => AppDataInv'
  BY OperationOpens, RuntimeCallOpens, DrainOpens, OthersOpen DEF Next
<1>3. AppDataInv => SelectedAppDataOpen
  BY DEF AppDataInv, OpenTo, SelectedAppDataOpen
<1>4. QED
  BY <1>1, <1>2, <1>3, InductiveInvariant, PTL DEF Spec

-----------------------------------------------------------------------------
(* The worker: the maintenance inside it.                                  *)

\* Nothing of the maintenance moves in an action that leaves its state alone, or
\* only its crawl.
LEMMA MaintenanceKept ==
  ASSUME MaintenanceInv, UNCHANGED <<roots, excluded, maintVars>>, indexing' \in BOOLEAN
  PROVE  MaintenanceInv'
BY DEF MaintenanceInv, MaintenanceTypeOK, CurrentTerm, maintVars

\* The root operation hands over a table that spares the product.
LEMMA OperationKeepsMaintenance ==
  ASSUME MaintenanceInv, OperationSucceeds
  PROVE  MaintenanceInv'
<1>1. /\ roots' \subseteq Path /\ excluded' \subseteq Path /\ indexing' = TRUE
      /\ \A e \in excluded' : OnWindows => ~Related(e, Install)
  BY InitialAssumption DEF OperationSucceeds
<1>2. pending' = TRUE /\ fixedReady' = FALSE /\ fixedTodo' = {} /\ term' = 1 /\ seen' = {}
  BY DEF OperationSucceeds, RequestMaintenance
<1>3. 1 \in 1 .. (Len(Terms) + 1) /\ 1 <= Len(Terms)
  BY MaintenanceAssumption
<1> QED BY <1>1, <1>2, <1>3 DEF MaintenanceInv, MaintenanceTypeOK, CurrentTerm

LEMMA WorkerKeepsMaintenance ==
  ASSUME MaintenanceInv, [WorkerNext]_allVars
  PROVE  MaintenanceInv'
<1>1. CASE OperationSucceeds
  BY <1>1, OperationKeepsMaintenance
<1>2. CASE DrainPoll
  <2>1. CASE Poll
    BY <2>1, PollKeepsInv
  <2>2. CASE UNCHANGED <<runtimeVars, maintVars>>
    BY <2>2, MaintenanceKept DEF runtimeVars, MaintenanceInv, MaintenanceTypeOK
  <2> QED BY <1>2, <2>1, <2>2 DEF DrainPoll
<1>3. CASE CrawlSucceeds \/ CrawlFails
  BY <1>3, MaintenanceKept DEF CrawlSucceeds, CrawlFails, CrawlEnds
<1>4. CASE CrawlRestarts
  BY <1>4, MaintenanceKept DEF CrawlRestarts
<1>5. CASE \/ BadArguments \/ Load \/ OperationFails \/ AwaitIdle \/ CheckStatus
           \/ DrainTurn \/ DrainExhausted \/ UNCHANGED allVars
  <2>1. UNCHANGED <<runtimeVars, maintVars>>
    BY <1>5 DEF BadArguments, Load, OperationFails, AwaitIdle, CheckStatus, DrainTurn,
                DrainExhausted, allVars
  <2> QED BY <2>1, MaintenanceKept DEF runtimeVars, MaintenanceInv, MaintenanceTypeOK
<1> QED BY <1>1, <1>2, <1>3, <1>4, <1>5 DEF WorkerNext

\* What holds of the maintenance on its own holds of it inside the worker.
THEOREM WorkerMaintenance == WorkerSpec => []MaintenanceInv
<1>1. WorkerInit => MaintenanceInv
  <2>1. 1 \in 1 .. (Len(Terms) + 1)
    BY MaintenanceAssumption
  <2> QED BY <2>1 DEF WorkerInit, MaintenanceInv, MaintenanceTypeOK, CurrentTerm
<1> QED BY <1>1, WorkerKeepsMaintenance, PTL DEF WorkerSpec

\* Whatever the worker's calls return: the index of the noise term stays in its
\* list while a poll is due.
THEOREM WorkerTypeCorrect == WorkerSpec => []MaintenanceTypeOK
<1>1. MaintenanceInv => MaintenanceTypeOK
  BY DEF MaintenanceInv
<1> QED BY <1>1, WorkerMaintenance, PTL

\* However long the worker drains, and whatever the queries return, the directory
\* the product is installed in is not hidden by it.
THEOREM WorkerSparesInstall == WorkerSpec => []InstallNeverHidden
<1>1. MaintenanceInv => InstallNeverHidden
  BY DEF MaintenanceInv, InstallNeverHidden, Related
<1> QED BY <1>1, WorkerMaintenance, PTL

-----------------------------------------------------------------------------
(* The worker: its exit code.                                              *)

\* A crawl that failed before the drain stays in the runtime's error slot until
\* the status call that reports it, and the worker has not gone further.
FailureInSlot ==
  /\ code # -1 => pc = "exited"
  /\ failure = "crawl" =>
       \/ pc \in {"wait", "check"} /\ abi = TRUE /\ ~indexing
       \/ pc = "exited" /\ code = 8

\* The answer of a status call with the runtime's error slot set is an error,
\* although listing the roots may clear the slot.
LEMMA SlotIsReported ==
  ASSUME abi = TRUE, NEW st \in Status
  PROVE  st.error
<1>1. PICK r, s, c \in BOOLEAN : st = Answer(r, s, c)
  <2> DEFINE fails == IF StatusMayFail THEN BOOLEAN ELSE {FALSE}
  <2>1. Status = {Answer(r, s, c) : r \in fails, s \in fails, c \in BOOLEAN}
    BY DEF Status
  <2>2. fails \subseteq BOOLEAN
    OBVIOUS
  <2> HIDE DEF fails
  <2> QED BY <2>1, <2>2
<1>2. CASE s = TRUE
  BY <1>1, <1>2 DEF Answer
<1>3. CASE s = FALSE
  BY <1>1, <1>3 DEF Answer
<1> QED BY <1>2, <1>3

LEMMA FailureStays ==
  ASSUME FailureInSlot, [WorkerNext]_allVars
  PROVE  FailureInSlot'
<1>1. CASE BadArguments \/ Load \/ OperationFails \/ OperationSucceeds
  BY <1>1 DEF BadArguments, Load, OperationFails, OperationSucceeds, ExitWith, Goto, FailureInSlot
<1>2. CASE AwaitIdle
  BY <1>2 DEF AwaitIdle, Goto, runtimeVars, slots, FailureInSlot
<1>3. CASE CheckStatus
  <2>1. PICK st \in Status : IF st.running \/ st.error THEN ExitWith(8)
                             ELSE IF pc = "check" THEN Goto("drain") ELSE ExitWith(0)
    BY <1>3 DEF CheckStatus
  <2>2. pc \in {"check", "drain"}
    BY <1>3 DEF CheckStatus
  <2>3. CASE failure = "crawl"
    <3>1. st.error
      BY <2>2, <2>3, SlotIsReported DEF FailureInSlot
    <3>2. ExitWith(8)
      BY <2>1, <3>1
    <3> QED BY <3>2 DEF ExitWith, FailureInSlot
  <2>4. CASE failure # "crawl"
    BY <2>1, <2>2, <2>4 DEF ExitWith, Goto, FailureInSlot
  <2> QED BY <2>3, <2>4
<1>4. CASE DrainPoll \/ DrainTurn \/ DrainExhausted \/ CrawlRestarts
  BY <1>4 DEF DrainPoll, DrainTurn, DrainExhausted, CrawlRestarts, ExitWith, FailureInSlot
<1>5. CASE CrawlSucceeds
  BY <1>5 DEF CrawlSucceeds, CrawlEnds, workerVars, slots, FailureInSlot
<1>6. CASE CrawlFails
  BY <1>6 DEF CrawlFails, CrawlEnds, FailureInSlot
<1>7. CASE UNCHANGED allVars
  BY <1>7 DEF allVars, runtimeVars, workerVars, slots, FailureInSlot
<1> QED BY <1>1, <1>2, <1>3, <1>4, <1>5, <1>6, <1>7 DEF WorkerNext

\* For any limits and any calls that fail: a crawl that failed before the drain
\* makes the worker exit with 8, which is all its launcher learns.
THEOREM FailedCrawlIsReported == WorkerSpec => []CrawlFailureReported
<1>1. WorkerInit => FailureInSlot
  BY DEF WorkerInit, FailureInSlot
<1>2. FailureInSlot => CrawlFailureReported
  BY DEF FailureInSlot, CrawlFailureReported
<1> QED BY <1>1, <1>2, FailureStays, PTL DEF WorkerSpec

-----------------------------------------------------------------------------
(* The worker: what the drain has left to do.                              *)

\* There are finitely many directories to exclude, whatever the roots are.
LEMMA PlansAreFinite ==
  ASSUME NEW reqs
  PROVE  IsFiniteSet(PlanSet(reqs).exclusions)
<1> DEFINE names == {<<"C:", n>> : n \in OSNames}
           all == (KnownSystem \cup names) \cup {Roaming, LocalLow} \cup Tree
<1>1. IsFiniteSet(names)
  <2> DEFINE f == [n \in OSNames |-> <<"C:", n>>]
  <2>1. f \in Surjection(OSNames, names)
    BY DEF Surjection
  <2> QED BY <2>1, FS_Surjection, LimitAssumption
<1>2. IsFiniteSet({Roaming, LocalLow})
  <2>1. IsFiniteSet({Roaming})
    BY FS_Singleton
  <2>2. {Roaming, LocalLow} = {Roaming} \cup {LocalLow}
    OBVIOUS
  <2> QED BY <2>1, <2>2, FS_AddElement
<1>3. IsFiniteSet(all)
  <2>1. IsFiniteSet(KnownSystem \cup names)
    BY <1>1, LimitAssumption, FS_Union
  <2>2. IsFiniteSet((KnownSystem \cup names) \cup {Roaming, LocalLow})
    BY <1>2, <2>1, FS_Union
  <2> QED BY <2>2, LimitAssumption, FS_Union
<1>4. \A x \in all : SplitAroundInstall(x) \subseteq all
  BY DEF SplitAroundInstall, ChildrenExcept
<1>5. PlanSet(reqs).exclusions \subseteq all
  <2>1. \A scope : \A e \in WindowsFixedExclusions(scope) : \E x \in all : e \in SplitAroundInstall(x)
    BY DEF WindowsFixedExclusions, SystemDirs, OtherAppData, LocalAppDataSiblings, ChildrenExcept
  <2> QED BY <1>4, <2>1, PlannedIsFixed
<1> QED BY <1>3, <1>5, FS_Subset

\* The noise directories that the drain may still exclude, and the polls that it
\* may still cost.
NoiseLeft ==
  {w \in NoiseWork : w[1] > term \/ (w[1] = term /\ w[2] \notin seen)}

PollsLeft ==
  FixedPolls(Cardinality(FixedList)) + Cardinality(NoiseLeft) + (Len(Terms) + 1 - term)

\* A finite tree has finitely many noise directories.
LEMMA NoiseWorkIsFinite == IsFiniteSet(NoiseWork)
<1> DEFINE Found(t) == UNION {NoisePrefixes(p, t) : p \in Tree}
           Work(i) == {i} \X {x \in Found(Terms[i]) : ~(OnWindows /\ Related(x, Install))}
<1>1. Len(Terms) \in Nat /\ DOMAIN Terms = 1 .. Len(Terms)
  BY MaintenanceAssumption
<1>2. ASSUME NEW p \in Tree, NEW t
      PROVE  IsFiniteSet(NoisePrefixes(p, t))
  <2> DEFINE f == [i \in DOMAIN p |-> SubSeq(p, 1, i)]
             T == {SubSeq(p, 1, i) : i \in DOMAIN p}
  <2>1. Len(p) \in Nat /\ DOMAIN p = 1 .. Len(p)
    BY PolicyAssumption
  <2>2. IsFiniteSet(DOMAIN p)
    BY <2>1, FS_Interval
  <2>3. f \in Surjection(DOMAIN p, T)
    BY DEF Surjection
  <2>4. IsFiniteSet(T)
    BY <2>2, <2>3, FS_Surjection
  <2>5. NoisePrefixes(p, t) \subseteq T
    BY DEF NoisePrefixes
  <2> QED BY <2>4, <2>5, FS_Subset
<1>3. ASSUME NEW t
      PROVE  IsFiniteSet(Found(t))
  <2> DEFINE f == [p \in Tree |-> NoisePrefixes(p, t)]
             T == {NoisePrefixes(p, t) : p \in Tree}
  <2>1. f \in Surjection(Tree, T)
    BY DEF Surjection
  <2>2. IsFiniteSet(T)
    BY <2>1, FS_Surjection, LimitAssumption
  <2>3. \A s \in T : IsFiniteSet(s)
    BY <1>2
  <2> QED BY <2>2, <2>3, FS_UNION
<1>4. ASSUME NEW i \in DOMAIN Terms
      PROVE  IsFiniteSet(Work(i))
  <2>1. IsFiniteSet({x \in Found(Terms[i]) : ~(OnWindows /\ Related(x, Install))})
    <3> DEFINE S == Found(Terms[i])
               T == {x \in S : ~(OnWindows /\ Related(x, Install))}
    <3>1. IsFiniteSet(S) /\ T \in SUBSET S
      BY <1>3
    <3>2. IsFiniteSet(T)
      <4> HIDE DEF S, T
      <4> QED BY <3>1, FS_Subset
    <3> QED BY <3>2
  <2>2. IsFiniteSet({i})
    BY FS_Singleton
  <2> QED BY <2>1, <2>2, FS_Product
<1>5. IsFiniteSet({Work(i) : i \in DOMAIN Terms})
  <2> DEFINE f == [i \in DOMAIN Terms |-> Work(i)]
             T == {Work(i) : i \in DOMAIN Terms}
  <2>1. f \in Surjection(DOMAIN Terms, T)
    BY DEF Surjection
  <2>2. IsFiniteSet(DOMAIN Terms)
    BY <1>1, FS_Interval
  <2> QED BY <2>1, <2>2, FS_Surjection
<1>6. \A s \in {Work(i) : i \in DOMAIN Terms} : IsFiniteSet(s)
  BY <1>4
<1> QED BY <1>5, <1>6, FS_UNION DEF NoiseWork

\* A full batch takes one poll off those that the fixed exclusions cost.
LEMMA FixedPollsType ==
  ASSUME NEW n \in Nat
  PROVE  FixedPolls(n) \in Nat
BY MaintenanceAssumption DEF FixedPolls

\* A full batch leaves one batch less to do.
LEMMA OneBatchLess ==
  ASSUME NEW n \in Nat, n > MutationLimit
  PROVE  FixedPolls(n - MutationLimit) = FixedPolls(n) - 1
<1> DEFINE m == MutationLimit
<1>1. m \in Nat /\ m > 0
  BY MaintenanceAssumption
<1> HIDE DEF m
<1>2. (n - m - 1) \div m = ((n - 1) \div m) - 1
  BY <1>1
<1> QED BY <1>1, <1>2 DEF FixedPolls, m

\* What is left of them can be counted.
LEMMA NoiseLeftType == IsFiniteSet(NoiseLeft) /\ Cardinality(NoiseLeft) \in Nat
<1>1. NoiseLeft \in SUBSET NoiseWork
  BY DEF NoiseLeft
<1> QED BY <1>1, NoiseWorkIsFinite, FS_Subset, FS_CardinalityType

\* So can the fixed list of a poll.
LEMMA FixedListIsFinite ==
  ASSUME IsFiniteSet(fixedTodo)
  PROVE  IsFiniteSet(FixedList) /\ Cardinality(FixedList) \in Nat
BY PlansAreFinite, FS_CardinalityType DEF FixedList

\* The measure is a number.
LEMMA PollsLeftType ==
  ASSUME MaintenanceInv, IsFiniteSet(fixedTodo), pending
  PROVE  PollsLeft \in Nat /\ PollsLeft >= 1
<1>1. FixedPolls(Cardinality(FixedList)) \in Nat
  BY FixedListIsFinite, FixedPollsType
<1>2. Cardinality(NoiseLeft) \in Nat
  BY NoiseLeftType
<1>3. term \in Nat /\ Len(Terms) \in Nat /\ term <= Len(Terms)
  BY MaintenanceAssumption DEF MaintenanceInv, MaintenanceTypeOK
<1> QED BY <1>1, <1>2, <1>3 DEF PollsLeft

\* What is tried as a noise directory is part of the work.
LEMMA FreshIsWork ==
  ASSUME NEW ex, NEW i \in DOMAIN Terms, NEW rows \in QueryAnswers(Terms[i], ex),
         NEW x \in FreshPrefixes(rows, Terms[i])
  PROVE  <<i, x>> \in NoiseWork /\ x \notin seen
<1>1. PICK p \in rows : x \in NoisePrefixes(p, Terms[i])
  BY DEF FreshPrefixes
<1>2. p \in Tree
  BY AnswersInTree
<1>3. x \notin seen /\ ~(OnWindows /\ Related(x, Install))
  BY DEF FreshPrefixes
<1> QED BY <1>1, <1>2, <1>3 DEF NoiseWork

\* Every poll that leaves the maintenance pending takes one off.
LEMMA PollMakesProgress ==
  ASSUME MaintenanceInv, IsFiniteSet(fixedTodo), Poll, pending'
  PROVE  IsFiniteSet(fixedTodo') /\ PollsLeft' <= PollsLeft - 1
<1> DEFINE n == Cardinality(FixedList)
           k == Cardinality(NoiseLeft)
<1>1. /\ n \in Nat /\ k \in Nat /\ FixedPolls(n) \in Nat
      /\ term \in Nat /\ Len(Terms) \in Nat /\ MutationLimit \in Nat \ {0}
  BY FixedListIsFinite, NoiseLeftType, FixedPollsType, MaintenanceAssumption
  DEF MaintenanceInv, MaintenanceTypeOK
<1>2. CASE PollFixed
  <2>1. PICK batch \in Batches(FixedList) : fixedTodo' = FixedList \ batch
    BY <1>2 DEF PollFixed
  <2>2. n > MutationLimit /\ fixedReady' = TRUE /\ UNCHANGED <<roots, term, seen>>
    BY <1>2 DEF PollFixed
  <2>3. batch \subseteq FixedList /\ Cardinality(batch) = Min({n, MutationLimit})
    BY <2>1 DEF Batches
  <2>4. Min({n, MutationLimit}) = MutationLimit
    BY <1>1, <2>2 DEF Min
  <2>5. /\ IsFiniteSet(FixedList \ batch)
        /\ Cardinality(FixedList \ batch) = n - Cardinality(FixedList \cap batch)
    BY FixedListIsFinite, FS_Difference
  <2>6. FixedList \cap batch = batch
    BY <2>3
  <2>7. FixedList' = fixedTodo'
    BY <2>2 DEF FixedList
  <2>8. FixedPolls(Cardinality(FixedList')) = FixedPolls(n) - 1
    BY <1>1, <2>1, <2>2, <2>3, <2>4, <2>5, <2>6, <2>7, OneBatchLess
  <2>9. NoiseLeft' = NoiseLeft
    BY <2>2 DEF NoiseLeft, NoiseWork
  <2>10. PollsLeft' = FixedPolls(Cardinality(FixedList')) + k + (Len(Terms) + 1 - term)
    BY <2>2, <2>9 DEF PollsLeft, FixedPolls
  <2> QED BY <1>1, <2>1, <2>5, <2>8, <2>10 DEF PollsLeft
<1>3. CASE PollNoise
  <2>1. PICK ex \in TablesAfterFixed : \E rows \in QueryAnswers(Terms[term], ex) :
         \E batch \in SUBSET FreshPrefixes(rows, Terms[term]) :
           /\ excluded' = ex \cup batch
           /\ IF batch = {}
                THEN term' = term + 1 /\ seen' = {}
                ELSE term' = term /\ seen' = seen \cup batch
    BY <1>3, NoisePoll
  <2>2. PICK rows \in QueryAnswers(Terms[term], ex) :
         \E batch \in SUBSET FreshPrefixes(rows, Terms[term]) :
           /\ IF batch = {}
                THEN term' = term + 1 /\ seen' = {}
                ELSE term' = term /\ seen' = seen \cup batch
    BY <2>1
  <2>3. PICK batch \in SUBSET FreshPrefixes(rows, Terms[term]) :
           IF batch = {}
                THEN term' = term + 1 /\ seen' = {}
                ELSE term' = term /\ seen' = seen \cup batch
    BY <2>2
  <2>4. fixedReady' = TRUE /\ fixedTodo' = {}
    BY <1>3 DEF PollNoise, FinishFixed
  <2>5. FixedPolls(Cardinality(FixedList')) = 0
    BY <2>4, FS_EmptySet DEF FixedList, FixedPolls
  <2>6. term \in DOMAIN Terms
    <3>1. term \in 1 .. (Len(Terms) + 1) /\ term <= Len(Terms)
      BY <1>3 DEF PollNoise, FinishFixed, CanPoll, MaintenanceInv, MaintenanceTypeOK
    <3> QED BY <1>1, <3>1, MaintenanceAssumption
  <2>7. IsFiniteSet(NoiseLeft) /\ IsFiniteSet(NoiseLeft')
    <3>1. NoiseLeft' \in SUBSET NoiseWork
      BY DEF NoiseLeft, NoiseWork
    <3> QED BY <3>1, NoiseLeftType, NoiseWorkIsFinite, FS_Subset
  <2>8. CASE batch = {}
    <3>1. term' = term + 1
      BY <2>3, <2>8
    <3>2. NoiseLeft' \in SUBSET NoiseLeft
      <4>1. \A w \in NoiseWork : w[1] \in Nat
        BY <1>1, MaintenanceAssumption DEF NoiseWork
      <4> QED BY <1>1, <3>1, <4>1 DEF NoiseLeft, NoiseWork
    <3>3. Cardinality(NoiseLeft') \in Nat /\ Cardinality(NoiseLeft') <= k
      BY <2>7, <3>2, FS_Subset, FS_CardinalityType
    <3>4. PollsLeft' = 0 + Cardinality(NoiseLeft') + (Len(Terms) + 1 - (term + 1))
      BY <2>5, <3>1 DEF PollsLeft, FixedPolls
    <3> QED BY <1>1, <2>4, <3>3, <3>4, FS_EmptySet DEF PollsLeft
  <2>9. CASE batch # {}
    <3>1. term' = term /\ seen' = seen \cup batch
      BY <2>3, <2>9
    <3>2. PICK x \in batch : TRUE
      BY <2>9
    <3>3. <<term, x>> \in NoiseLeft /\ <<term, x>> \notin NoiseLeft'
      <4>1. x \in FreshPrefixes(rows, Terms[term])
        BY <3>2
      <4>2. <<term, x>> \in NoiseWork /\ x \notin seen
        BY <2>6, <4>1, FreshIsWork
      <4>3. <<term, x>> \in NoiseLeft
        BY <4>2 DEF NoiseLeft
      <4>4. NoiseLeft' = {w \in NoiseWork : w[1] > term \/ (w[1] = term /\ w[2] \notin seen')}
        BY <3>1 DEF NoiseLeft, NoiseWork
      <4>5. ~(term > term)
        BY <1>1
      <4> QED BY <3>1, <3>2, <4>3, <4>4, <4>5
    <3>4. NoiseLeft' \in SUBSET NoiseLeft
      BY <3>1 DEF NoiseLeft, NoiseWork
    <3>5. Cardinality(NoiseLeft') \in Nat /\ Cardinality(NoiseLeft') <= k
          /\ Cardinality(NoiseLeft') # k
      BY <2>7, <3>3, <3>4, FS_Subset, FS_CardinalityType
    <3>6. PollsLeft' = 0 + Cardinality(NoiseLeft') + (Len(Terms) + 1 - term)
      BY <2>5, <3>1 DEF PollsLeft, FixedPolls
    <3> QED BY <1>1, <2>4, <3>5, <3>6, FS_EmptySet DEF PollsLeft
  <2> QED BY <2>8, <2>9
<1>4. CASE PollPrepareFails \/ PollSearchFails
  BY <1>4 DEF PollPrepareFails, PollSearchFails, Abandon
<1> QED BY <1>2, <1>3, <1>4 DEF Poll

\* The drain's counters, and what the limit leaves for: until a status call hides
\* a crawl, the polls made and those that may be needed fit below it, with one for
\* each crawl that has yet to start, and one for a crawl that the next poll meets.
Counting ==
  /\ polls \in Nat /\ restarts \in 0 .. RestartLimit
  /\ IsFiniteSet(fixedTodo)
  /\ code # -1 => pc = "exited"
  /\ pc \in {"start", "operate", "wait", "check"} => polls = 0 /\ restarts = 0
  /\ pc = "check" => ~indexing

Draining == pc \in {"wait", "check", "drain", "turn", "rewait"} /\ pending

Met == IF indexing /\ pc = "drain" THEN 1 ELSE 0

Budget ==
  Draining /\ ~blind => polls + PollsLeft + (RestartLimit - restarts) + Met <= PollLimit

DrainInv == Counting /\ Budget /\ DrainFinishes

\* The limit is not reached while a poll is due.
LEMMA LimitNotReached ==
  ASSUME MaintenanceInv, DrainInv, pc = "drain", pending, polls = PollLimit
  PROVE  blind
<1> SUFFICES ASSUME ~blind PROVE FALSE
  OBVIOUS
<1>1. polls + PollsLeft + (RestartLimit - restarts) + Met <= PollLimit
  BY DEF DrainInv, Budget, Draining
<1>2. PollsLeft \in Nat /\ PollsLeft >= 1
  BY PollsLeftType DEF DrainInv, Counting
<1>3. polls \in Nat /\ RestartLimit - restarts \in Nat /\ Met \in Nat
  BY WorkerAssumption DEF DrainInv, Counting, Met
<1> QED BY <1>1, <1>2, <1>3

\* A step that leaves the maintenance and its roots alone leaves the measure alone.
LEMMA PollsLeftKept ==
  ASSUME UNCHANGED <<roots, maintVars>>
  PROVE  PollsLeft' = PollsLeft
<1>1. UNCHANGED <<roots, fixedReady, fixedTodo, term, seen>>
  BY DEF maintVars
<1>2. FixedList' = FixedList /\ NoiseLeft' = NoiseLeft
  BY <1>1 DEF FixedList, NoiseLeft, NoiseWork
<1> QED BY <1>1, <1>2 DEF PollsLeft, FixedPolls

\* A root operation hands over no more than the limit allows for.
LEMMA OperationFitsLimit ==
  ASSUME DrainInv, OperationSucceeds
  PROVE  DrainInv'
<1>1. /\ roots' \in InitialRoots /\ fixedReady' = FALSE /\ fixedTodo' = {}
      /\ term' = 1 /\ seen' = {} /\ pc' = "wait"
      /\ UNCHANGED <<code, polls, restarts, blind>>
  BY DEF OperationSucceeds, RequestMaintenance, Goto
<1>2. polls = 0 /\ restarts = 0 /\ code = -1
  BY DEF OperationSucceeds, DrainInv, Counting
<1>3. FixedList' = PlanSet(Persisted(roots')).exclusions
  BY <1>1 DEF FixedList
<1> DEFINE n == FixedPolls(Cardinality(FixedList'))
<1>4. n \in Nat
  BY <1>3, PlansAreFinite, FS_CardinalityType, FixedPollsType
<1>5. Cardinality(NoiseLeft') \in Nat /\ Cardinality(NoiseLeft') <= Cardinality(NoiseWork)
      /\ Cardinality(NoiseWork) \in Nat
  <2>1. NoiseLeft' \in SUBSET NoiseWork
    BY DEF NoiseLeft, NoiseWork
  <2> QED BY <2>1, NoiseWorkIsFinite, FS_Subset, FS_CardinalityType
<1>6. n + Cardinality(NoiseWork) + Len(Terms) + RestartLimit <= PollLimit
  BY <1>1, <1>3, LimitAssumption DEF PollsNeeded
<1>7. PollsLeft' = n + Cardinality(NoiseLeft') + Len(Terms)
  <2>1. PollsLeft' = n + Cardinality(NoiseLeft') + (Len(Terms) + 1 - 1)
    BY <1>1 DEF PollsLeft, FixedPolls
  <2>2. Len(Terms) + 1 - 1 = Len(Terms)
    BY MaintenanceAssumption
  <2> QED BY <2>1, <2>2
<1>8. Met' = 0
  BY <1>1 DEF Met
<1> HIDE DEF n
<1>9. polls' + PollsLeft' + (RestartLimit - restarts') + Met' <= PollLimit
  BY <1>1, <1>2, <1>4, <1>5, <1>6, <1>7, <1>8, WorkerAssumption, MaintenanceAssumption
<1>10. Counting'
  BY <1>1, <1>2, FS_EmptySet, WorkerAssumption DEF Counting
<1> QED BY <1>1, <1>2, <1>9, <1>10 DEF DrainInv, Budget, DrainFinishes

\* A turn of the drain: a poll takes one off what is left, a poll that met a
\* crawl uses what was kept for it, and a status call that shows the crawl makes
\* the loop wait for it.
LEMMA DrainStaysInLimit ==
  ASSUME MaintenanceInv, MaintenanceInv', DrainInv, DrainPoll \/ DrainTurn \/ DrainExhausted \/ CrawlRestarts
  PROVE  DrainInv'
<1>1. /\ polls \in Nat /\ restarts \in 0 .. RestartLimit /\ RestartLimit \in Nat
      /\ PollLimit \in Nat
  BY WorkerAssumption DEF DrainInv, Counting
<1>2. CASE DrainPoll
  <2>1. /\ pc = "drain" /\ pending /\ pc' = "turn" /\ polls' = polls + 1
        /\ UNCHANGED <<code, restarts, blind>> /\ Met' = 0 /\ Met \in Nat
    BY <1>2 DEF DrainPoll, Met
  <2>2. PollsLeft \in Nat
    BY <2>1, PollsLeftType DEF DrainInv, Counting
  <2>3. CASE Poll
    <3>1. IsFiniteSet(fixedTodo')
      <4>1. CASE PollFixed
        BY <4>1, FixedListIsFinite, FS_Difference DEF PollFixed, DrainInv, Counting
      <4>2. CASE PollNoise \/ PollSearchFails
        BY <4>2, FS_EmptySet DEF PollNoise, PollSearchFails, FinishFixed
      <4>3. CASE PollPrepareFails
        BY <4>3 DEF PollPrepareFails, DrainInv, Counting
      <4> QED BY <2>3, <4>1, <4>2, <4>3 DEF Poll
    <3>2. Counting' /\ DrainFinishes'
      BY <1>1, <2>1, <3>1 DEF DrainInv, Counting, DrainFinishes
    <3>3. ASSUME pending', ~blind
          PROVE  polls' + PollsLeft' + (RestartLimit - restarts') + Met' <= PollLimit
      <4>1. PollsLeft' <= PollsLeft - 1
        BY <2>3, <3>3, PollMakesProgress DEF DrainInv, Counting
      <4>2. PollsLeft' \in Nat
        <5>1. (MaintenanceInv /\ IsFiniteSet(fixedTodo) /\ pending => PollsLeft \in Nat)'
          BY PollsLeftType, PTL
        <5> QED BY <3>1, <3>3, <5>1
      <4>3. polls + PollsLeft + (RestartLimit - restarts) + Met <= PollLimit
        BY <2>1, <3>3 DEF DrainInv, Budget, Draining
      <4>4. RestartLimit - restarts \in Int /\ RestartLimit - restarts' = RestartLimit - restarts
        BY <1>1, <2>1
      <4>5. polls' = polls + 1 /\ Met' = 0 /\ Met \in Nat
        BY <2>1
      <4> QED BY <1>1, <2>2, <4>1, <4>2, <4>3, <4>4, <4>5
    <3> QED BY <2>1, <3>2, <3>3 DEF DrainInv, Budget, Draining
  <2>4. CASE indexing /\ UNCHANGED <<runtimeVars, maintVars>>
    <3>1. PollsLeft' = PollsLeft /\ UNCHANGED <<fixedTodo, pending>>
      BY <2>4, PollsLeftKept DEF runtimeVars, maintVars
    <3>2. Met = 1
      BY <2>1, <2>4 DEF Met
    <3>3. Counting' /\ DrainFinishes'
      BY <1>1, <2>1, <3>1 DEF DrainInv, Counting, DrainFinishes
    <3>4. ~blind => polls + PollsLeft + (RestartLimit - restarts) + 1 <= PollLimit
      BY <2>1, <3>2 DEF DrainInv, Budget, Draining
    <3>5. ~blind => polls' + PollsLeft' + (RestartLimit - restarts') + Met' <= PollLimit
      BY <1>1, <2>1, <2>2, <3>1, <3>4
    <3> QED BY <2>1, <3>3, <3>5 DEF DrainInv, Budget
  <2> QED BY <1>2, <2>3, <2>4 DEF DrainPoll
<1>3. CASE DrainTurn
  <2>1. PICK st \in Status : /\ pc' = IF st.running THEN "rewait" ELSE "drain"
                             /\ blind' = (blind \/ (indexing /\ ~st.running))
    BY <1>3 DEF DrainTurn
  <2>2. /\ pc = "turn" /\ UNCHANGED <<runtimeVars, maintVars, code, polls, restarts>>
    BY <1>3 DEF DrainTurn
  <2>3. /\ PollsLeft' = PollsLeft /\ UNCHANGED <<fixedTodo, pending, indexing>>
    BY <2>2, PollsLeftKept DEF runtimeVars, maintVars
  <2>4. ~blind' => ~blind /\ Met' = 0 /\ Met = 0
    BY <2>1, <2>2, <2>3 DEF Met
  <2>5. Counting' /\ DrainFinishes'
    BY <2>1, <2>2, <2>3 DEF DrainInv, Counting, DrainFinishes
  <2>6. ASSUME pending', ~blind'
        PROVE  polls' + PollsLeft' + (RestartLimit - restarts') + Met' <= PollLimit
    BY <2>2, <2>3, <2>4, <2>6 DEF DrainInv, Budget, Draining
  <2> QED BY <2>5, <2>6 DEF DrainInv, Budget, Draining
<1>4. CASE DrainExhausted
  <2>1. pc = "drain" /\ pending /\ polls = PollLimit /\ pc' = "exited"
        /\ UNCHANGED <<polls, restarts, blind, fixedTodo>>
    BY <1>4 DEF DrainExhausted, ExitWith, maintVars
  <2>2. blind
    BY <2>1, LimitNotReached
  <2> QED BY <2>1, <2>2 DEF DrainInv, Counting, Budget, Draining, DrainFinishes
<1>5. CASE CrawlRestarts
  <2>1. /\ pc \in {"drain", "turn"} /\ ~indexing /\ restarts < RestartLimit
        /\ indexing' = TRUE /\ restarts' = restarts + 1
        /\ UNCHANGED <<roots, maintVars, pc, code, polls, blind>>
    BY <1>5 DEF CrawlRestarts
  <2>2. /\ PollsLeft' = PollsLeft /\ UNCHANGED <<fixedTodo, pending>>
    BY <2>1, PollsLeftKept DEF maintVars
  <2>3. Met = 0 /\ Met' \in 0 .. 1
    BY <2>1 DEF Met
  <2>4. Counting' /\ DrainFinishes'
    BY <1>1, <2>1, <2>2 DEF DrainInv, Counting, DrainFinishes
  <2>5. ASSUME pending', ~blind'
        PROVE  polls' + PollsLeft' + (RestartLimit - restarts') + Met' <= PollLimit
    <3>1. polls + PollsLeft + (RestartLimit - restarts) <= PollLimit
      <4>1. polls + PollsLeft + (RestartLimit - restarts) + 0 <= PollLimit
        BY <2>1, <2>2, <2>3, <2>5 DEF DrainInv, Budget, Draining
      <4>2. PollsLeft \in Nat
        BY <2>2, <2>5, PollsLeftType DEF DrainInv, Counting
      <4> QED BY <1>1, <4>1, <4>2
    <3>2. PollsLeft \in Nat
      BY <2>2, <2>5, PollsLeftType DEF DrainInv, Counting
    <3>3. /\ RestartLimit - restarts \in Int
          /\ RestartLimit - restarts' = (RestartLimit - restarts) - 1
      BY <1>1, <2>1
    <3>4. polls' = polls /\ PollsLeft' = PollsLeft
      BY <2>1, <2>2
    <3> QED BY <1>1, <2>3, <3>1, <3>2, <3>3, <3>4
  <2> QED BY <2>4, <2>5 DEF DrainInv, Budget, Draining
<1> QED BY <1>2, <1>3, <1>4, <1>5

\* The rest of the worker's calls, and the crawl, cost no poll.
LEMMA OthersStayInLimit ==
  ASSUME MaintenanceInv, DrainInv,
         \/ BadArguments \/ Load \/ OperationFails \/ AwaitIdle \/ CheckStatus
         \/ CrawlSucceeds \/ CrawlFails \/ UNCHANGED allVars
  PROVE  DrainInv'
<1>1. /\ UNCHANGED <<roots, maintVars, polls, restarts, blind>>
      /\ UNCHANGED fixedTodo /\ UNCHANGED pending /\ PollsLeft' = PollsLeft
  <2>1. UNCHANGED <<roots, maintVars, polls, restarts, blind>>
    BY DEF BadArguments, Load, OperationFails, AwaitIdle, CheckStatus, CrawlSucceeds, CrawlFails,
           CrawlEnds, Goto, ExitWith, allVars, runtimeVars, workerVars
  <2> QED BY <2>1, PollsLeftKept DEF maintVars
<1>2. CASE BadArguments \/ Load \/ OperationFails
  <2>1. /\ pc' \in {"operate", "exited"} /\ (code' # code => pc' = "exited" /\ code' # 7)
        /\ pc \in {"start", "operate"}
    BY <1>2 DEF BadArguments, Load, OperationFails, Goto, ExitWith
  <2> QED BY <1>1, <2>1 DEF DrainInv, Counting, Budget, Draining, DrainFinishes
<1>3. CASE AwaitIdle
  <2>1. /\ ~indexing /\ ~indexing' /\ UNCHANGED code
        /\ \/ pc = "wait" /\ pc' = "check"
           \/ pc = "rewait" /\ pc' = "drain"
    BY <1>3 DEF AwaitIdle, Goto, runtimeVars
  <2>2. Met = 0 /\ Met' = 0
    BY <2>1 DEF Met
  <2> QED BY <1>1, <2>1, <2>2 DEF DrainInv, Counting, Budget, Draining, DrainFinishes
<1>4. CASE CheckStatus
  <2>1. /\ \/ pc = "check" /\ pc' = "drain" /\ UNCHANGED code
           \/ pc' = "exited" /\ code' \in {0, 8}
        /\ UNCHANGED indexing
    BY <1>4 DEF CheckStatus, Goto, ExitWith, runtimeVars
  <2>2. pc = "check" => ~indexing
    BY DEF DrainInv, Counting
  <2>3. pc = "check" => Met = 0 /\ Met' = 0
    BY <2>1, <2>2 DEF Met
  <2> QED BY <1>1, <2>1, <2>3 DEF DrainInv, Counting, Budget, Draining, DrainFinishes
<1>5. CASE CrawlSucceeds \/ CrawlFails
  <2>1. ~indexing' /\ indexing /\ UNCHANGED <<pc, code>>
    BY <1>5 DEF CrawlSucceeds, CrawlFails, CrawlEnds, workerVars
  <2>2. Met' = 0 /\ Met \in 0 .. 1
    BY <2>1 DEF Met
  <2>3. Counting' /\ DrainFinishes'
    BY <1>1, <2>1 DEF DrainInv, Counting, DrainFinishes
  <2>4. ASSUME Draining', ~blind'
        PROVE  polls' + PollsLeft' + (RestartLimit - restarts') + Met' <= PollLimit
    <3>1. polls + PollsLeft + (RestartLimit - restarts) + Met <= PollLimit
      BY <1>1, <2>1, <2>4 DEF DrainInv, Budget, Draining
    <3>2. PollsLeft \in Nat
      BY <1>1, <2>4, PollsLeftType DEF DrainInv, Counting, Draining
    <3>3. polls \in Nat /\ RestartLimit - restarts \in Int /\ PollLimit \in Nat
      BY WorkerAssumption DEF DrainInv, Counting
    <3>4. UNCHANGED <<polls, restarts>> /\ PollsLeft' = PollsLeft
      BY <1>1
    <3> QED BY <2>2, <3>1, <3>2, <3>3, <3>4
  <2> QED BY <2>3, <2>4 DEF DrainInv, Budget
<1>6. CASE UNCHANGED allVars
  <2>1. UNCHANGED <<pc, code, indexing>>
    BY <1>6 DEF allVars, workerVars, runtimeVars
  <2>2. Met' = Met
    BY <2>1 DEF Met
  <2> QED BY <1>1, <2>1, <2>2 DEF DrainInv, Counting, Budget, Draining, DrainFinishes
<1> QED BY <1>2, <1>3, <1>4, <1>5, <1>6

\* For every tree, every set of roots an operation leaves and every limit that
\* allows for them, whatever the queries return and whichever calls fail: the
\* worker gives up its drain (exit code 7) only when a status call hid a crawl.
THEOREM DrainEnds == WorkerSpec => []DrainFinishes
<1>1. WorkerInit => DrainInv
  BY FS_EmptySet, WorkerAssumption
  DEF WorkerInit, DrainInv, Counting, Budget, Draining, DrainFinishes
<1>2. MaintenanceInv /\ MaintenanceInv' /\ DrainInv /\ [WorkerNext]_allVars => DrainInv'
  BY OperationFitsLimit, DrainStaysInLimit, OthersStayInLimit DEF WorkerNext
<1>3. DrainInv => DrainFinishes
  BY DEF DrainInv
<1> QED BY <1>1, <1>2, <1>3, WorkerMaintenance, PTL DEF WorkerSpec

-----------------------------------------------------------------------------
(* The worker: what a drain without faults leaves.                         *)

\* A row of a term has a first component of that name.
LEMMA RowsHavePrefixes ==
  ASSUME NEW t, NEW p \in NoiseRows(t)
  PROVE  \E x \in NoisePrefixes(p, t) : Within(p, x)
<1>1. p \in Seq(STRING) /\ Len(p) \in Nat /\ DOMAIN p = 1 .. Len(p)
  BY PolicyAssumption DEF NoiseRows
<1> DEFINE T == {i \in DOMAIN p : p[i] = t}
<1>2. T \subseteq Nat /\ T # {}
  BY <1>1 DEF NoiseRows, Components
<1>3. PICK i \in T : \A j \in T : i <= j
  <2> HIDE DEF T
  <2> QED BY <1>2, LeastNumber
<1>4. i \in 1 .. Len(p) /\ p[i] = t /\ \A j \in 1 .. (i - 1) : p[j] # t
  BY <1>1, <1>3
<1>5. SubSeq(p, 1, i) \in NoisePrefixes(p, t)
  BY <1>1, <1>4 DEF NoisePrefixes
<1>6. Within(p, SubSeq(p, 1, i))
  <2>1. SubSeq(p, 1, i) \in Seq(STRING) /\ Len(SubSeq(p, 1, i)) = i
    BY <1>1, <1>4
  <2>2. SubSeq(SubSeq(p, 1, i), 1, i) = SubSeq(p, 1, i)
    BY <2>1
  <2> QED BY <1>1, <1>4, <2>1, <2>2 DEF Within, IsPrefix
<1> QED BY <1>5, <1>6

\* In a run without faults: every term that the drain is done with has left no
\* rows but the product's, and every prefix that it remembers is in the table.
Scrubbed(i) == IndexedRows(Terms[i], excluded) \subseteq Spared(Terms[i])

ScrubInv ==
  ~rough =>
    /\ \A i \in DOMAIN Terms : i < term => Scrubbed(i)
    /\ seen \subseteq excluded

\* What has been excluded stays excluded, so a term once scrubbed stays scrubbed.
LEMMA ScrubbedStays ==
  ASSUME roots' = roots, excluded \subseteq excluded', NEW i \in DOMAIN Terms, Scrubbed(i)
  PROVE  Scrubbed(i)'
<1>1. CrawledRows(Terms[i])' = CrawledRows(Terms[i])
  BY DEF CrawledRows, NoiseRows
<1>2. IndexedRows(Terms[i], excluded)' \subseteq IndexedRows(Terms[i], excluded)
  BY <1>1 DEF IndexedRows, Open
<1>3. Spared(Terms[i])' = Spared(Terms[i])
  BY DEF Spared, NoiseRows
<1> QED BY <1>2, <1>3 DEF Scrubbed

\* The rows of an answer with nothing fresh in it are the product's.
LEMMA NothingFresh ==
  ASSUME NEW t, NEW ex, seen \subseteq ex, NEW rows \in SUBSET IndexedRows(t, ex),
         FreshPrefixes(rows, t) = {}
  PROVE  rows \subseteq Spared(t)
<1> SUFFICES ASSUME NEW p \in rows PROVE p \in Spared(t)
  OBVIOUS
<1>1. p \in NoiseRows(t) /\ Open(p, ex)
  BY DEF IndexedRows, CrawledRows
<1>2. PICK x \in NoisePrefixes(p, t) : Within(p, x)
  BY <1>1, RowsHavePrefixes
<1>3. x \notin seen
  BY <1>1, <1>2 DEF Open
<1>4. OnWindows /\ Related(x, Install)
  BY <1>2, <1>3 DEF FreshPrefixes
<1> QED BY <1>1, <1>2, <1>4 DEF Spared

\* An answer that the cap has cut short holds a row that is not the product's.
LEMMA NothingFreshIsAll ==
  ASSUME NEW i \in DOMAIN Terms, NEW ex, seen \subseteq ex,
         NEW rows \in QueryAnswers(Terms[i], ex), rows \subseteq IndexedRows(Terms[i], ex),
         FreshPrefixes(rows, Terms[i]) = {}, ~indexing
  PROVE  IndexedRows(Terms[i], ex) \subseteq Spared(Terms[i])
<1> DEFINE t == Terms[i]
<1>1. rows \subseteq Spared(t)
  BY NothingFresh
<1>2. IsFiniteSet(Spared(t)) /\ Cardinality(Spared(t)) < RowCap
  BY SparedAssumption
<1>3. Cardinality(rows) \in Nat /\ Cardinality(rows) <= Cardinality(Spared(t))
      /\ Cardinality(Spared(t)) \in Nat
  <2> DEFINE S == Spared(t)
  <2>1. IsFiniteSet(S) /\ rows \in SUBSET S
    BY <1>1, <1>2
  <2> HIDE DEF S
  <2>2. IsFiniteSet(rows) /\ Cardinality(rows) <= Cardinality(S)
    BY <2>1, FS_Subset
  <2>3. Cardinality(rows) \in Nat /\ Cardinality(S) \in Nat
    BY <2>1, <2>2, FS_CardinalityType
  <2> QED BY <2>2, <2>3 DEF S
<1>4. Cardinality(rows) < RowCap
  BY <1>2, <1>3, MaintenanceAssumption
<1>5. IndexedRows(t, ex) \subseteq rows
  BY <1>4 DEF QueryAnswers
<1> QED BY <1>1, <1>5

\* A batch of a set with members has members.
LEMMA BatchNotEmpty ==
  ASSUME NEW S, {} \in Batches(S)
  PROVE  S = {} \/ ~IsFiniteSet(S)
<1> SUFFICES ASSUME IsFiniteSet(S), S # {} PROVE FALSE
  OBVIOUS
<1>1. Cardinality(S) \in Nat /\ Cardinality(S) # 0
  BY FS_CardinalityType, FS_EmptySet
<1>2. Min({Cardinality(S), MutationLimit}) = 0
  BY FS_EmptySet DEF Batches
<1>3. Min({Cardinality(S), MutationLimit}) \in {Cardinality(S), MutationLimit}
  BY <1>1, MaintenanceAssumption DEF Min
<1> QED BY <1>1, <1>2, <1>3, MaintenanceAssumption

\* The prefixes that an answer offers are finitely many.
LEMMA FreshIsFinite ==
  ASSUME NEW ex, NEW i \in DOMAIN Terms, NEW rows \in QueryAnswers(Terms[i], ex)
  PROVE  IsFiniteSet(FreshPrefixes(rows, Terms[i]))
<1> DEFINE F == FreshPrefixes(rows, Terms[i])
           W == {<<i, x>> : x \in F}
           f == [w \in W |-> w[2]]
<1>1. W \in SUBSET NoiseWork
  BY FreshIsWork
<1>2. IsFiniteSet(W)
  BY <1>1, NoiseWorkIsFinite, FS_Subset
<1>3. f \in Surjection(W, F)
  <2> HIDE DEF F
  <2>1. \A w \in W : w[2] \in F
    OBVIOUS
  <2>2. \A x \in F : <<i, x>> \in W /\ f[<<i, x>>] = x
    OBVIOUS
  <2> HIDE DEF W
  <2>3. f \in [W -> F]
    BY <2>1
  <2> HIDE DEF f
  <2> QED BY <2>2, <2>3 DEF Surjection
<1>4. IsFiniteSet(F)
  <2> HIDE DEF F, W, f
  <2> QED BY <1>2, <1>3, FS_Surjection
<1> QED BY <1>4

\* A poll without faults scrubs its term, or stays with it.
LEMMA SteadyPollScrubs ==
  ASSUME MaintenanceInv, ScrubInv, ~rough, Poll, SteadyPoll
  PROVE  (\A i \in DOMAIN Terms : i < term' => Scrubbed(i)') /\ seen' \subseteq excluded'
<1>1. /\ \A i \in DOMAIN Terms : i < term => Scrubbed(i)
      /\ seen \subseteq excluded
  BY DEF ScrubInv
<1>2. roots' = roots /\ excluded \subseteq excluded'
  BY PollOnlyExcludes
<1>3. \A i \in DOMAIN Terms : i < term => Scrubbed(i)'
  BY <1>1, <1>2, ScrubbedStays
<1>4. CASE PollPrepareFails \/ PollFixed
  <2>1. term' = term /\ seen' = seen
    BY <1>4 DEF PollPrepareFails, PollFixed, Abandon
  <2> QED BY <1>1, <1>2, <1>3, <2>1
<1>5. CASE SteadyNoise
  <2> DEFINE ex == excluded \cup FixedList
             t == Terms[term]
  <2>1. PICK rows \in QueryAnswers(t, ex) :
          /\ rows \subseteq IndexedRows(t, ex)
          /\ \E batch \in Batches(FreshPrefixes(rows, t)) :
               excluded' = ex \cup batch /\ Advance(batch)
    BY <1>5 DEF SteadyNoise
  <2>2. PICK batch \in Batches(FreshPrefixes(rows, t)) :
          excluded' = ex \cup batch /\ Advance(batch)
    BY <2>1
  <2>3. term \in DOMAIN Terms /\ term \in Nat /\ DOMAIN Terms \subseteq Nat
    <3>1. term \in 1 .. (Len(Terms) + 1) /\ term <= Len(Terms)
      BY <1>5 DEF SteadyNoise, FinishFixed, CanPoll, MaintenanceInv, MaintenanceTypeOK
    <3> QED BY <3>1, MaintenanceAssumption
  <2>4. CASE batch = {}
    <3>1. term' = term + 1 /\ seen' = {} /\ excluded' = ex
      BY <2>2, <2>4 DEF Advance
    <3>2. FreshPrefixes(rows, t) = {}
      BY <2>2, <2>3, <2>4, BatchNotEmpty, FreshIsFinite
    <3>3. IndexedRows(t, ex) \subseteq Spared(t)
      BY <1>1, <2>1, <2>3, <3>2, NothingFreshIsAll DEF SteadyPoll
    <3>4. ASSUME NEW i \in DOMAIN Terms, i = term
          PROVE  Scrubbed(i)'
      <4>1. IndexedRows(Terms[i], excluded)' = IndexedRows(Terms[i], ex)
        BY <1>2, <3>1 DEF IndexedRows, CrawledRows, NoiseRows, Open
      <4>2. Spared(Terms[i])' = Spared(Terms[i])
        BY DEF Spared, NoiseRows
      <4> QED BY <3>3, <3>4, <4>1, <4>2 DEF Scrubbed
    <3>5. \A i \in DOMAIN Terms : i < term' => i < term \/ i = term
      BY <2>3, <3>1
    <3> QED BY <1>3, <3>1, <3>4, <3>5
  <2>5. CASE batch # {}
    <3>1. term' = term /\ seen' = seen \cup batch
      BY <2>2, <2>5 DEF Advance
    <3> QED BY <1>1, <1>2, <1>3, <2>2, <3>1
  <2> QED BY <2>4, <2>5
<1> QED BY <1>4, <1>5 DEF SteadyPoll

\* Every step of the worker keeps what has been scrubbed.
LEMMA ScrubInvKept ==
  ASSUME MaintenanceInv, ScrubInv, [WorkerNext]_allVars
  PROVE  ScrubInv'
<1>1. CASE OperationSucceeds
  <2>1. term' = 1 /\ seen' = {}
    BY <1>1 DEF OperationSucceeds, RequestMaintenance
  <2>2. \A i \in DOMAIN Terms : ~(i < 1)
    BY MaintenanceAssumption
  <2> QED BY <2>1, <2>2 DEF ScrubInv
<1>2. CASE Poll /\ rough' = (rough \/ ~SteadyPoll)
  BY <1>2, SteadyPollScrubs DEF ScrubInv
<1>3. CASE \/ BadArguments \/ Load \/ OperationFails \/ AwaitIdle \/ CheckStatus
           \/ UNCHANGED <<runtimeVars, maintVars, rough>>
           \/ DrainTurn \/ DrainExhausted \/ CrawlSucceeds \/ CrawlFails \/ CrawlRestarts
           \/ UNCHANGED allVars
  <2>1. /\ UNCHANGED <<roots, excluded, term, seen>>
        /\ ~rough' => ~rough
    <3>1. CASE BadArguments \/ Load \/ OperationFails \/ DrainExhausted
      BY <3>1 DEF BadArguments, Load, OperationFails, DrainExhausted, ExitWith, Goto,
                  runtimeVars, maintVars
    <3>2. CASE AwaitIdle \/ CheckStatus \/ DrainTurn
      BY <3>2 DEF AwaitIdle, CheckStatus, DrainTurn, ExitWith, Goto, runtimeVars, maintVars
    <3>3. CASE UNCHANGED <<runtimeVars, maintVars, rough>>
      BY <3>3 DEF runtimeVars, maintVars
    <3>4. CASE CrawlSucceeds \/ CrawlFails \/ CrawlRestarts
      BY <3>4 DEF CrawlSucceeds, CrawlFails, CrawlRestarts, CrawlEnds, workerVars, maintVars
    <3>5. CASE UNCHANGED allVars
      BY <3>5 DEF allVars, workerVars, runtimeVars, maintVars
    <3> QED BY <1>3, <3>1, <3>2, <3>3, <3>4, <3>5
  <2>2. \A i \in DOMAIN Terms : Scrubbed(i) => Scrubbed(i)'
    BY <2>1, ScrubbedStays
  <2> QED BY <2>1, <2>2 DEF ScrubInv
<1> QED BY <1>1, <1>2, <1>3 DEF WorkerNext, DrainPoll

\* For every tree whose product has fewer noise rows than a query returns: a drain
\* in which every poll saw the index as it was, and no call failed, and that came
\* to its end, has left no noise directory in the index (scrub_one_batch).
THEOREM SteadyScrub == WorkerSpec => []SteadyScrubFinishes
<1>1. WorkerInit => ScrubInv
  <2>1. \A i \in DOMAIN Terms : ~(i < 1)
    BY MaintenanceAssumption
  <2> QED BY <2>1 DEF WorkerInit, ScrubInv
<1>2. MaintenanceInv /\ ScrubInv => SteadyScrubFinishes
  <2>1. MaintenanceInv => \A i \in DOMAIN Terms : term > Len(Terms) => i < term
    BY MaintenanceAssumption DEF MaintenanceInv, MaintenanceTypeOK
  <2> QED BY <2>1 DEF ScrubInv, Scrubbed, SteadyScrubFinishes, NoiseScrubbed
<1> QED BY <1>1, <1>2, ScrubInvKept, WorkerMaintenance, PTL DEF WorkerSpec
=============================================================================
