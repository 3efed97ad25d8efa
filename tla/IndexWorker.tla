---------------------------- MODULE IndexWorker ----------------------------
(***************************************************************************)
(* The one-shot index worker (run_index_worker in src/cli/CliApp.cpp) with *)
(* the error slots of its RuntimeClient: one root operation, the crawl,    *)
(* the drain of the deferred maintenance, and an exit code, which is all   *)
(* that the process that launched it ever learns.                          *)
(***************************************************************************)
EXTENDS PolicyMaintenance

CONSTANTS
  PollLimit,       \* kMaintenancePollLimit (4096 in the code)
  RestartLimit,    \* bound: crawls the runtime starts by itself while draining
  StatusMayFail    \* may the calls inside RuntimeClient::status fail

ASSUME WorkerAssumption ==
  /\ PollLimit \in Nat \ {0}
  /\ RestartLimit \in Nat
  /\ StatusMayFail \in BOOLEAN

\* The polls that a root operation which leaves the roots R may cost: one for each
\* full batch of fixed exclusions before the last, one for each noise directory
\* that is excluded, one for each term, and one for each crawl that is running.
NoiseWork ==
  UNION {{i} \X {x \in UNION {NoisePrefixes(p, Terms[i]) : p \in Tree} :
                    ~(OnWindows /\ Related(x, Install))} : i \in DOMAIN Terms}

FixedPolls(n) == IF n = 0 THEN 0 ELSE (n - 1) \div MutationLimit

PollsNeeded(R) ==
  FixedPolls(Cardinality(PlanSet(Persisted(R)).exclusions))
    + Cardinality(NoiseWork) + Len(Terms) + RestartLimit

\* A limit that allows for them; only DrainFinishes needs it.
ASSUME LimitAssumption ==
  /\ IsFiniteSet(Tree) /\ IsFiniteSet(KnownSystem) /\ IsFiniteSet(OSNames)
  /\ \A R \in InitialRoots : PollsNeeded(R) <= PollLimit

\* The rows inside the product, which stay in the index, do not fill a query;
\* only SteadyScrubFinishes needs it.
ASSUME SparedAssumption ==
  \A i \in DOMAIN Terms : IsFiniteSet(Spared(Terms[i])) /\ Cardinality(Spared(Terms[i])) < RowCap

VARIABLES
  pc,        \* the next call of run_index_worker
  code,      \* exit code, -1 while it runs
  polls,     \* polls of the drain loop
  text,      \* RuntimeClient's own error text is not empty
  abi,       \* the runtime's error slot is not empty
  restarts,  \* crawls started while draining
  blind,     \* history: a failed status hid a crawl from the drain loop
  failure,   \* history: "none", "crawl" or "late": a crawl failed, and when
  rough      \* history: lag, a decoy row or a failing call changed a poll

slots == <<text, abi>>
workerVars == <<pc, code, polls, restarts, blind, failure, rough>>
allVars == <<runtimeVars, maintVars, workerVars, slots>>

WorkerInit ==
  /\ roots = {} /\ excluded = {} /\ indexing = FALSE
  /\ pending = FALSE /\ fixedReady = FALSE /\ fixedTodo = {} /\ term = 1 /\ seen = {}
  /\ pc = "start" /\ code = -1 /\ polls = 0 /\ restarts = 0 /\ blind = FALSE /\ failure = "none"
  /\ rough = FALSE
  /\ text = FALSE /\ abi = FALSE

ExitWith(c) ==
  /\ pc' = "exited" /\ code' = c
  /\ UNCHANGED <<polls, restarts, blind, failure, rough>>

Goto(next) ==
  /\ pc' = next
  /\ UNCHANGED <<code, polls, restarts, blind, failure, rough>>

-----------------------------------------------------------------------------
(* RuntimeClient::status.                                                  *)

\* Mutated form: the slots are read after roots() has cleared them.
AnswerRootsFirst(rootsFail, statusFail, cleared) ==
  LET abiAfter == (abi /\ ~(cleared /\ ~rootsFail)) \/ statusFail
  IN [error   |-> rootsFail \/ abiAfter,
      running |-> ~statusFail /\ indexing,
      text    |-> rootsFail,
      abi     |-> abiAfter]

\* The slots are read first; then roots() clears the client's text, or sets it,
\* and may clear the runtime's slot; a status call that fails reports its own
\* error in their place, and no crawl.
Answer(rootsFail, statusFail, cleared) ==
  LET abiAfter == (abi /\ ~(cleared /\ ~rootsFail)) \/ statusFail
  IN [error   |-> IF statusFail THEN rootsFail \/ abiAfter ELSE text \/ abi \/ rootsFail,
      running |-> ~statusFail /\ indexing,
      text    |-> rootsFail,
      abi     |-> abiAfter]

Status ==
  LET fails == IF StatusMayFail THEN BOOLEAN ELSE {FALSE}
  IN {Answer(r, s, c) : r \in fails, s \in fails, c \in BOOLEAN}

SlotsAfter(st) == text' = st.text /\ abi' = st.abi

-----------------------------------------------------------------------------
(* run_index_worker.                                                       *)

BadArguments ==
  /\ pc = "start" /\ ExitWith(2)
  /\ UNCHANGED <<runtimeVars, maintVars, slots>>

Load ==
  /\ pc = "start"
  /\ Goto("operate") \/ (CallsMayFail /\ ExitWith(5))
  /\ UNCHANGED <<runtimeVars, maintVars, slots>>

OperationFails ==
  /\ pc = "operate" /\ CallsMayFail /\ ExitWith(6)
  /\ UNCHANGED <<runtimeVars, maintVars, slots>>

\* The root operation (IndexRootService) succeeds: it has left some roots with
\* some exclusions, started a crawl and requested the maintenance.
OperationSucceeds ==
  /\ pc = "operate" /\ Goto("wait")
  /\ roots' \in InitialRoots /\ excluded' \in SUBSET InitialExclusions
  /\ indexing' = TRUE
  /\ RequestMaintenance(TRUE)
  /\ UNCHANGED slots

AwaitIdle ==
  /\ pc \in {"wait", "rewait"} /\ ~indexing
  /\ Goto(IF pc = "wait" THEN "check" ELSE "drain")
  /\ UNCHANGED <<runtimeVars, maintVars, slots>>

\* crawl_status and final_status: the same test, before and after the drain.
CheckStatus ==
  /\ \/ pc = "check"
     \/ pc = "drain" /\ ~pending
  /\ \E st \in Status :
       /\ SlotsAfter(st)
       /\ IF st.running \/ st.error THEN ExitWith(8)
          ELSE IF pc = "check" THEN Goto("drain") ELSE ExitWith(0)
  /\ UNCHANGED <<runtimeVars, maintVars>>

\* A poll that gives up has left the text of the call that failed.
GaveUp == ~pending' /\ term' <= Len(Terms) /\ PlanSet(Persisted(roots)).allowed

\* A poll as it goes when no call fails and the search view is current: every
\* exclusion it makes is in the table, and the query returns rows of the index.
SteadyNoise ==
  LET ex == excluded \cup FixedList
      t  == Terms[term]
  IN /\ FinishFixed(ex)
     /\ \E rows \in QueryAnswers(t, ex) :
          /\ rows \subseteq IndexedRows(t, ex)
          /\ \E batch \in Batches(FreshPrefixes(rows, t)) :
               excluded' = ex \cup batch /\ Advance(batch)

SteadyPoll ==
  /\ ~indexing
  /\ \/ PollPrepareFails /\ ~PlanSet(Persisted(roots)).allowed
     \/ PollFixed /\ excluded' = excluded \cup (FixedList \ fixedTodo')
     \/ SteadyNoise

\* One turn of the drain loop up to its status call.  A poll that finds a crawl
\* does nothing else; the calls of any other clear and set both slots.
DrainPoll ==
  /\ pc = "drain" /\ pending /\ polls < PollLimit
  /\ \/ Poll /\ rough' = (rough \/ ~SteadyPoll)
     \/ indexing /\ UNCHANGED <<runtimeVars, maintVars, rough>>
  /\ text' \in (IF GaveUp THEN {TRUE} ELSE BOOLEAN) /\ abi' \in BOOLEAN
  /\ pc' = "turn" /\ polls' = polls + 1
  /\ UNCHANGED <<code, restarts, blind, failure>>

\* The loop looks at the indexing flag only.
DrainTurn ==
  /\ pc = "turn"
  /\ \E st \in Status :
       /\ SlotsAfter(st)
       /\ pc' = IF st.running THEN "rewait" ELSE "drain"
       /\ blind' = (blind \/ (indexing /\ ~st.running))
  /\ UNCHANGED <<runtimeVars, maintVars, code, polls, restarts, failure, rough>>

DrainExhausted ==
  /\ pc = "drain" /\ pending /\ polls = PollLimit
  /\ ExitWith(7)
  /\ UNCHANGED <<runtimeVars, maintVars, slots>>

-----------------------------------------------------------------------------
(* The runtime's crawl, in its own threads.                                *)

CrawlSucceeds ==
  /\ CrawlEnds
  /\ UNCHANGED <<workerVars, slots>>

CrawlFails ==
  /\ CallsMayFail /\ CrawlEnds
  /\ abi' = TRUE
  /\ failure' = IF pc = "wait" THEN "crawl" ELSE "late"
  /\ UNCHANGED <<pc, code, polls, restarts, blind, rough, text>>

CrawlRestarts ==
  /\ pc \in {"drain", "turn"} /\ ~indexing /\ restarts < RestartLimit
  /\ indexing' = TRUE /\ restarts' = restarts + 1
  /\ UNCHANGED <<roots, excluded, maintVars, pc, code, polls, blind, failure, rough, slots>>

WorkerNext ==
  \/ BadArguments \/ Load \/ OperationFails \/ OperationSucceeds
  \/ AwaitIdle \/ CheckStatus
  \/ DrainPoll \/ DrainTurn \/ DrainExhausted
  \/ CrawlSucceeds \/ CrawlFails \/ CrawlRestarts

WorkerSpec == WorkerInit /\ [][WorkerNext]_allVars

-----------------------------------------------------------------------------
(* Properties.                                                             *)

\* The drain makes progress on every poll, whatever the queries return and
\* whichever exclusions fail: a worker whose limit allows for one poll per batch
\* of fixed exclusions, per noise prefix, per term and per crawl it finds running
\* gives up (exit code 7) only when a status call hid a crawl from the loop.
DrainFinishes == code = 7 => blind

\* With a runtime whose view is current and calls that succeed, the bounded
\* batches and row-capped queries leave no noise directory in the index, whatever
\* was crawled again while the worker drained.
SteadyScrubFinishes == ~rough => NoiseScrubbed

\* A crawl that fails before the drain is reported, although the status call
\* that reports it lists the roots, which clears the runtime's error slot.
CrawlFailureReported == (code >= 0 /\ failure = "crawl") => code = 8

\* The same for a crawl that the runtime started during the drain.  The code
\* does not keep it, and no run checks it (README, section 7).
LateFailureReported == (code >= 0 /\ failure = "late") => code # 0
=============================================================================
