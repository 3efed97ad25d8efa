------------------------- MODULE PolicyMaintenance -------------------------
(***************************************************************************)
(* The deferred policy maintenance of IndexRootService (Impl in            *)
(* src/runtime/IndexRootService.cpp): once the crawl is idle, every poll   *)
(* applies one bounded batch of the fixed exclusions, then scrubs the      *)
(* noise directories of one search term at a time out of the index.        *)
(*                                                                         *)
(* roots, excluded and indexing are the private runtime's state, known     *)
(* only through the C ABI (list_roots, set_indexed, status, search).       *)
(***************************************************************************)
EXTENDS IndexPathPolicy

CONSTANTS
  Terms,          \* the noise search terms, in the order they are scrubbed
  Decoys,         \* rows a term's query may return below no noise directory
  MutationLimit,  \* exclusions applied per poll and kind (16 in the code)
  RowCap,         \* rows per maintenance query (512 in the code)
  LaggingView,    \* may the runtime still return rows below an exclusion
  CallsMayFail    \* may an ABI call fail

ASSUME MaintenanceAssumption ==
  /\ Terms \in Seq(NoiseNames) \ {<<>>}
  /\ Decoys \subseteq Tree
  /\ MutationLimit \in Nat \ {0}
  /\ RowCap \in Nat \ {0}
  /\ LaggingView \in BOOLEAN /\ CallsMayFail \in BOOLEAN

VARIABLES
  roots,       \* paths of the runtime's search roots
  excluded,    \* the runtime's per-path exclusion table
  indexing,    \* a crawl is running in the runtime
  pending,     \* maintenance_pending
  fixedReady,  \* maintenance_fixed_ready
  fixedTodo,   \* the fixed exclusions from maintenance_fixed_index on
  term,        \* noise_term_index, from 1
  seen         \* the seen prefixes of the current term

runtimeVars == <<roots, excluded, indexing>>
maintVars == <<pending, fixedReady, fixedTodo, term, seen>>

-----------------------------------------------------------------------------
(* Derived views.                                                          *)

\* resolve_persisted_root: a persisted AppData folder can only have been
\* admitted by an explicit request, so that intent is reconstructed.
Persisted(paths) == {[path |-> p, explicit |-> ManualAppDataRoot(p)] : p \in paths}

\* A path is in the index view when no exclusion of the table ex covers it.
Open(p, ex) == \A e \in ex : ~Within(p, e)

\* default_noise_directory_prefix: the path up to its first component named t,
\* if it has one.
NoisePrefixes(p, t) ==
  {SubSeq(p, 1, i) : i \in {k \in DOMAIN p : p[k] = t /\ \A j \in 1 .. (k - 1) : p[j] # t}}

NoiseRows(t) == {p \in Tree : t \in Components(p)}

\* The rows a crawl of the roots finds for a term, and those of them the index
\* still holds once the table ex is applied.
CrawledRows(t) == {p \in NoiseRows(t) : \E r \in roots : Within(p, r)}

IndexedRows(t, ex) == {p \in CrawledRows(t) : Open(p, ex)}

\* What runtime.search(term, dialect, 512) may return: a query that is not cut
\* off by the row cap misses nothing the index holds, unless a crawl is running.
QueryAnswers(t, ex) ==
  LET held == IndexedRows(t, ex)
  IN {rows \in SUBSET ((IF LaggingView THEN CrawledRows(t) ELSE held) \cup Decoys) :
        /\ Cardinality(rows) <= RowCap
        /\ ~indexing /\ Cardinality(rows) < RowCap => held \subseteq rows}

\* The subsets of at most MutationLimit members that leave nothing out before
\* the limit is reached.
Batches(s) ==
  {b \in SUBSET s : Cardinality(b) = Min({Cardinality(s), MutationLimit})}

\* The members of s whose ABI call may fail.
Failures(s) == IF CallsMayFail THEN SUBSET s ELSE {{}}

-----------------------------------------------------------------------------
(* request_maintenance.                                                    *)

RequestMaintenance(enabled) ==
  IF enabled
    THEN /\ pending' = TRUE
         /\ fixedReady' = FALSE
         /\ fixedTodo' = {}
         /\ term' = 1
         /\ seen' = {}
    ELSE UNCHANGED maintVars

-----------------------------------------------------------------------------
(* scrub_one_batch.                                                        *)

Abandon ==
  /\ pending' = FALSE
  /\ UNCHANGED <<term, seen>>

\* What the poll asks first is status().indexing, which is false too when the
\* call fails: a poll may go on during a crawl.
NoCrawlSeen == indexing => CallsMayFail

\* Listing the roots fails, or the policy refuses a root that is persisted.
PollPrepareFails ==
  /\ pending /\ NoCrawlSeen /\ ~fixedReady
  /\ CallsMayFail \/ ~PlanSet(Persisted(roots)).allowed
  /\ Abandon
  /\ UNCHANGED <<runtimeVars, fixedReady, fixedTodo>>

\* The fixed exclusions this poll starts from (prepare_fixed_maintenance).
FixedList == IF fixedReady THEN fixedTodo ELSE PlanSet(Persisted(roots)).exclusions

CanPoll ==
  /\ pending /\ NoCrawlSeen
  /\ fixedReady \/ PlanSet(Persisted(roots)).allowed

\* More fixed exclusions than one batch: the poll ends after the batch.  An
\* exclusion that fails is dropped from the list all the same.
PollFixed ==
  /\ CanPoll
  /\ Cardinality(FixedList) > MutationLimit
  /\ \E batch \in Batches(FixedList) : \E failed \in Failures(batch) :
       /\ fixedTodo' = FixedList \ batch
       /\ excluded' = excluded \cup (batch \ failed)
  /\ fixedReady' = TRUE
  /\ UNCHANGED <<roots, indexing, pending, term, seen>>

\* The poll that finishes the fixed list: ex is the table it leaves.
FinishFixed(ex) ==
  /\ CanPoll
  /\ Cardinality(FixedList) <= MutationLimit
  /\ \E failed \in Failures(FixedList) : ex = excluded \cup (FixedList \ failed)
  /\ fixedReady' = TRUE
  /\ fixedTodo' = {}
  /\ UNCHANGED <<roots, indexing>>

TablesAfterFixed == {excluded \cup done : done \in SUBSET FixedList}

\* The fixed list is done and the term's query fails.
PollSearchFails ==
  /\ CallsMayFail
  /\ \E ex \in TablesAfterFixed : FinishFixed(ex) /\ excluded' = ex
  /\ Abandon

\* Mutated form: without the product's guard.
FreshPrefixesAnywhere(rows, t) ==
  {x \in UNION {NoisePrefixes(p, t) : p \in rows} : x \notin seen}

\* The prefixes of a query's rows that are tried: new ones, never above or
\* inside the installed product.
FreshPrefixes(rows, t) ==
  {x \in UNION {NoisePrefixes(p, t) : p \in rows} :
     x \notin seen /\ ~(OnWindows /\ Related(x, Install))}

\* Mutated forms: the index moves on twice, the term is never repeated, and the
\* prefixes that were handled are not remembered.
AdvanceTwice(batch) ==
  /\ IF batch = {} THEN term' = term + 2 ELSE term' = term
  /\ seen' = seen \cup batch
  /\ IF term' > Len(Terms) THEN pending' = FALSE ELSE UNCHANGED pending

AdvanceAlways(batch) ==
  /\ term' = term + 1
  /\ seen' = {}
  /\ IF term' > Len(Terms) THEN pending' = FALSE ELSE UNCHANGED pending

AdvanceForgetful(batch) ==
  /\ IF batch = {} THEN term' = term + 1 ELSE term' = term
  /\ IF term' > Len(Terms) THEN pending' = FALSE ELSE UNCHANGED pending
  /\ UNCHANGED seen

\* A poll that excluded nothing moves on to the next term, and past the last one
\* the maintenance is over.
Advance(batch) ==
  /\ IF batch = {}
       THEN term' = term + 1 /\ seen' = {}
       ELSE term' = term /\ seen' = seen \cup batch
  /\ IF term' > Len(Terms) THEN pending' = FALSE ELSE UNCHANGED pending

\* The fixed list is done: one query of the current term, and up to
\* MutationLimit of its new prefixes excluded.
PollNoise ==
  \E ex \in TablesAfterFixed :
    /\ FinishFixed(ex)
    /\ \E rows \in QueryAnswers(Terms[term], ex) :
         \E failed \in Failures(FreshPrefixes(rows, Terms[term])) :
           \E batch \in Batches(FreshPrefixes(rows, Terms[term]) \ failed) :
             /\ excluded' = ex \cup batch
             /\ Advance(batch)

\* IndexRootService::poll_policy_maintenance.
Poll == PollPrepareFails \/ PollFixed \/ PollSearchFails \/ PollNoise

-----------------------------------------------------------------------------
(* The maintenance on its own: some root change has just requested it, and *)
(* the crawl it started runs to its end.                                   *)

CONSTANTS InitialRoots, InitialExclusions  \* what that change may have left

ASSUME InitialAssumption ==
  /\ InitialRoots \subseteq SUBSET Path
  /\ InitialExclusions \subseteq Path
  /\ \A e \in InitialExclusions : OnWindows => ~Related(e, Install)

MaintenanceInit ==
  /\ roots \in InitialRoots
  /\ excluded \in SUBSET InitialExclusions
  /\ indexing = TRUE
  /\ pending = TRUE /\ fixedReady = FALSE /\ fixedTodo = {}
  /\ term = 1 /\ seen = {}

CrawlEnds ==
  /\ indexing
  /\ indexing' = FALSE
  /\ UNCHANGED <<roots, excluded, maintVars>>

MaintenanceNext == Poll \/ CrawlEnds

MaintenanceSpec == MaintenanceInit /\ [][MaintenanceNext]_<<runtimeVars, maintVars>>

-----------------------------------------------------------------------------
(* Properties.                                                             *)

MaintenanceTypeOK ==
  /\ roots \subseteq Path
  /\ excluded \subseteq Path
  /\ indexing \in BOOLEAN /\ pending \in BOOLEAN /\ fixedReady \in BOOLEAN
  /\ fixedTodo \subseteq Path
  /\ term \in 1 .. (Len(Terms) + 1)
  /\ seen \subseteq Path

\* No maintenance step hides the directory the product is installed in, through
\* the fixed list or through a noise directory above it (lines 350-361).
InstallNeverHidden ==
  \A e \in excluded : OnWindows => ~Within(Install, e)

\* What makes the two above inductive: there is a current term while a poll is
\* due, and all that is excluded, or is to be, is neither above the product nor
\* inside it.
CurrentTerm == pending => term <= Len(Terms)

MaintenanceInv ==
  /\ MaintenanceTypeOK
  /\ CurrentTerm
  /\ \A e \in excluded \cup fixedTodo : OnWindows => ~Related(e, Install)

\* The rows of a term that the product's guard keeps in the index.
Spared(t) ==
  {p \in NoiseRows(t) : OnWindows /\ \E x \in NoisePrefixes(p, t) : Related(x, Install)}

\* Maintenance that ran to its end has left no row of any noise term in the
\* index, except below the installed product: the same term is queried again
\* until no additional prefix remains.
NoiseScrubbed ==
  (~pending /\ term > Len(Terms)) =>
    \A i \in DOMAIN Terms : IndexedRows(Terms[i], excluded) \subseteq Spared(Terms[i])
=============================================================================
