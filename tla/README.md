# Decay Clocks in TLA+

Decay Clocks watches decision nodes (models, rule sets, schemas). Each node has
a reliability vector of five axes that signals and time wear down; a hazard
function turns the vector and a cost configuration into a status; a node that
gets bad enough is escalated to a human through a task and a Temporal workflow.

These modules model the engine, the scheduler, the review workflow, the signal
bus, the configuration table and the analytics around them (early warnings,
calibration, the allocation of review time, surges, reports), check them with
TLC and prove what matters most with TLAPS. All source paths are relative to the
repository (`src/`).

## 1. Inventory

| Part | Source | State it keeps | Operations | Module |
|---|---|---|---|---|
| Governance pipeline | `src/core/orchestrator/pipeline.py`, `escalation.py` | `nodes`, `escalation_tasks`, `audit_log` rows, through a SQLAlchemy session | `process_node_lifecycle`, `create_escalation_task` | `Governance` |
| Reliability engine | `src/core/engine/reliability_dynamics.py`, `propagation.py` | none | axis updates, vector, child degradation | `Reliability` |
| Hazard functions | `src/core/orchestrator/hazard*.py`, `config_validator.py` | none | linear and nonlinear action, validation | `Hazard`, `HazardCheck` |
| Human review | `src/worker/*.py` | task rows and Temporal executions | `dispatch_pending_tasks`, `approve_escalation`, `run` | `ReviewWorkflow` |
| Scheduler | `src/core/scheduler/runner.py` | local state of a cycle | `run_scheduled_cycle`, propagation, reconciliation | `Scheduler` |
| Signal bus | `src/core/signals/*.py`, `src/core/api/catalogue.py` | debounce memory of one run | match, debounce, magnitude | `SignalBus` |
| Configuration store | `src/core/api/config_loader.py`, part of `main.py` | `cost_config` rows | set, pin, look up, reset | `CostConfigStore` |
| HTTP API | `src/core/api/main.py`, `database.py` | none of its own | one transaction or more per request | the modules above |
| Decision wrapper | `src/core/output/wrapper.py` | none, reads a node and a configuration | `wrap_decision` | `DecisionWrapper` |
| Early warning | `src/core/engine/csd*.py` | none, reads audit rows, writes a node's status | variance, lag-1 correlation, `check_and_warn_node` | `EarlyWarning`, `Statistics` |
| Calibration | `src/core/engine/calibration.py` | none | half-life, threshold and signal quality updates | `Calibration` |
| Portfolio and optimizer | `src/core/engine/portfolio*.py` | none, reads audit rows | series, covariance, decomposition, greedy allocation | `Portfolio`, `Allocation`, `ReviewBudget`, `Statistics` |
| Surge and overdue | `src/core/orchestrator/resilience.py` | none | `should_auto_suspend`, `surge_calm` | `Resilience` |

How they meet: a request (`POST /signals/ingest`) or a scheduler cycle runs the
pipeline on each node it concerns, one session for all of them. The pipeline
calls the bus, the engine and a hazard function, writes the node, and for an
escalation opens a task. A dispatcher turns tasks into workflows, a reviewer
approves them; neither looks at the node. The administrator's requests
(`DEMO_MODE`) write nodes and tasks directly. `POST /decisions/wrap` reads a
node and then a configuration and reports both; early warnings and the portfolio
read the audit trail that the pipeline leaves. Calibration, the allocation,
`check_and_warn_node` and `resilience.py` are called by tests and library users
only: they are modelled with a caller that may call at any time. Nothing is
locked and no row has a version: what overlaps is settled by PostgreSQL's READ
COMMITTED and by the fact that SQLAlchemy writes back only columns that changed.

What makes it hard, and what has to be right:

- *Stale snapshots.* A session reads a node once and writes it back later. Risk
  must not go down without a human (`RiskNeverAutoDowngrades`, which overlaps break;
  `OnlyHumansActivate` is what they leave of it); a status must cover the vector
  committed with it (`StatusCoversHazard`).
- *Two commits per escalation.* The task commits before the audit rows. A node
  must not enter review without a task (`ReviewOpensTask`); the ledger must know
  the status (`LedgerAgrees`).
- *Repetition.* Runs repeat without news. Decay must not compound
  (`FreshnessNotCompounded`, under overlap `FreshnessCountsOnce`), an escalation must
  not repeat (`EscalatesOnce`).
- *Two stores.* No transaction spans PostgreSQL and Temporal. A task moves
  forward only (`LifecycleSpec`), is not closed behind its workflow's back by an
  approval (`ApprovalSignalsFirst`), is not reviewed twice (`ReviewedOnce`) and is not
  forgotten (`PendingIsDispatched`, `ApprovalIsRecorded`).
- *Exceptions inside a loop.* One bad node must not hide the others
  (`CycleReachesAll`, `OverdueIsNoticed`).
- *Arrival order.* Events of a batch come in any order (`DebouncedWithinRun`).
- *What nobody validated.* A severity may be anything; the penalties of a run are
  capped from above (`TypeOK` of `SignalBus`), and only from above (section 5).
- *An axis can rise.* A major regulatory change sets its axis to 0.3 and a
  breaking change to 0.2, whatever was there; an axis that many minor changes
  took lower goes up, and the suggestion with it. Only the upgrade-only guard
  keeps the status; the signals of `serial` reach this.
- *Thresholds.* Floors, gates, costs and modes must all point the same way
  (`WorseNeverSafer`, `DefaultEscalatesByFloorOnly`).
- *Replacing the configuration.* Requests overlap (`OneActivePerSession`,
  `DefaultsOnlyBeforeFirst`).
- *Two reads in one report.* Overlapping runs, administrators and configurations come
  between them (`PinnedReportCovers`).
- *Windows over a trail.* The newest entries decide, not the oldest
  (`OldSwingsForgotten`); flapping is not slowing down (`FlappingIsQuiet`); what the
  statistics cannot know is the direction (`RecoveryWarnsToo`).
- *Series of unequal length.* The matrix must be a covariance
  (`VarianceNeverNegative`), two modules must agree on hedges (`HedgesNeverPay`).
- *One greedy pass.* It keeps the budget and leaves out only what does not fit
  (`BudgetSpec`), and loses at most one review to the best choice
  (`WithinOneReview`).
- *Functions fed with their own results.* A half-life must approach the truth
  (`HalfLifeNeverOvershoots`); a threshold under adaptation must approach its target
  rate, and runs away from it (`TowardDesiredRate`).
- *Deadlines and ramps.* Time takes no verdict back (`VerdictsStand`), more
  escalations never make the engine stricter (`SurgeOnlyCalms`).

## 2. Modules

`Reliability` and `Hazard` are operators only, extended by `Governance`,
`Scheduler`, `HazardCheck` (both) and `SignalBus` (the first). Operators and
actions have the names of the functions they model; an action that is one part
of a function is named for what that part does. Each module's mutants - the
same definition with a plausible bug - stand right before the definition they
vary and are used by nothing.

**Units.** The code's floats in [0,1] are integers `0 .. Scale`. A hazard of 1.0
is `Scale^3`, so the three aggregations are exact and comparable. The
exponential of `update_axis_temporal` is a table `Freshness[n][d]` by elapsed
day. With `Scale = 10` the code's `_EPSILON` of 0.001 is 0 units.

**Governance.** Variables `row`, `task`, `logged` (what the audit ledger last
said of a node's status) and `session`, one record per open database session.
An action is one read that starts a snapshot or one commit: `Loaded` takes the
snapshot, `CommitRun` writes it back by column (`Flush`), and a run that
escalates goes through `create_escalation_task`, `ReloadNode` (the commit
expired the object, the next attribute access reads the row again) and
`CommitAudit`. `RaiseInvalid` is the ValueError of a rejected configuration: it
ends a request, a cycle goes on. `Crash` drops a session anywhere. The
Temporal side is reduced to the task column it writes. `RoomFor` keeps runs
from starting that could need a task beyond `TaskIds`.

**ReviewWorkflow.** The task row, the latest Temporal execution of `hr-<id>`,
and the local state of dispatchers and reviewers. A workflow id may be used
again once its execution has closed, Temporal's default. A call may fail before
or after it reached Temporal, a process may die between any two steps.
A reviewer's session approves (`approve_escalation`, `Signal`, `CommitCompleted`) or
resolves (`admin_resolve_task`, `CommitResolved`); the latter never calls Temporal.
`TaskLifecycle` is the abstract specification: opened, dispatched, closed, each
once. The refinement mapping is `status <- status`.

**Scheduler.** A pipeline run is one step (its interleavings are Governance's
subject); the cycle's loop, propagation and reconciliation are separate steps
with the exceptions they raise. Both `_evaluate_child_status` and
`reconcile_in_review_nodes` unpack two names from a triple; the model keeps
the arity (`Unpacks`) and so raises where the code does. The code behind those
lines never runs, and has no counterpart.

**SignalBus.** One pipeline run after the other, each with an empty memory, and
the events of each in arbitrary order. A severity is any integer of a constant set,
since nothing validates it, and the quality of a signal is part of the product, as in
`bus.py:82`. **CostConfigStore** is described in its
header. **HazardCheck** walks a vector down from healthy, one axis at a time.

**Statistics** holds the sums both analytics share: means, variances and
correlations are compared as fractions of integers, so no threshold is rounded.

**Portfolio and Allocation.** `Portfolio` is operators: which nodes have a
series, the alignment, the covariance up to one positive factor, the volatility
and the contribution of a node. `Allocation` is `allocate_reviewer_bandwidth` as
a program: `Score` computes every reduction, `Consider` is one iteration of the
loop, `Return` ends it. `Volatility` is the square root rounded down to an
integer of the trail's units, so reductions are compared to that precision.
`ReviewBudget` is its abstract specification; the refinement mapping forgets
scores and order (`chosen <- Chosen`, `closed <- (pc = "returned")`).

**EarlyWarning.** `trail` is what the pipeline recorded of one node,
`check_and_warn_node` compares the newest `Limit` entries with both thresholds.
PRE_FAILURE_WARNING is no key of `_SEVERITY`: a run of a warned node raises
KeyError (`pipeline.py:145`), so in the model its trail stands still until an
administrator recertifies it.

**Calibration** and **Resilience** are pure functions with a caller around them that
feeds each its own last result, or lets the clock and the load move.

**DecisionWrapper** extends `CostConfigStore`: `wrap_decision` reads the row,
`Reported` looks the configuration up and computes the hazard, and everything
else - runs, recertifications, resolved tasks, set_cost_config - may come
between. Rows are written as in `Governance`: a writer begins by reading the row
(`work` holds what it saw and what it will write) and commits later the columns it
changed, over whatever another one has committed meanwhile; an escalation's second
transaction writes no row. `patched` is a history variable: the nodes whose row holds
columns of different sessions, or an ACTIVE that a resolved task left beside an old
vector, until some commit finds the row as it had read it. It keeps the report's
guarantee apart from what overlaps destroy. Vectors are told apart only by what each
configuration suggests.

**MCEngine** explores `HazardCheck`, `Calibration`, `Resilience`, `Allocation`,
`EarlyWarning`, `CostConfigStore` and `DecisionWrapper` in one run. `subject` says
which of them moves and the variables of the others stay where they are, so the state
graph is the disjoint union of the seven. **MCCalibration** gives the rate of false
alarms to this run and to `threshold_adaptation`.

## 3. Runs

`tlc -config <run>.cfg <module>.tla`. Every property of a passing run also has
a mutant under PROJECT.json "mutants" with which TLC finds it violated.

| Run | Instance | Shows |
|---|---|---|
| `serial` | 2 nodes with different configurations, 1 session, 2 tasks, 3 days | the pipeline's guarantees when sessions do not overlap, crashes included |
| `concurrent` | 2 nodes, one with a rejected configuration, 2 sessions, 2 tasks | what every overlap and crash leaves: reviews open tasks, only humans set ACTIVE, no day of decay counts twice |
| `race_downgrade` | 1 node, 2 sessions | violated: a stale run lowers a status (README.md:83) |
| `ledger_crash` | 1 node, 1 session, crash | violated: a status change is never recorded (docs/architecture.md:15) |
| `engine` | seven subjects, see below | monotonicity of the hazard functions; calibration, early warning, allocation and surge; the configuration table under overlap; reports |
| `threshold_adaptation` | 1 threshold, a falling rate | violated: adaptation leads away from the target rate (calibration.py:94) |
| `review_lifecycle` | 3 tasks, 1 dispatcher, 2 reviewers, demo endpoints, failures | the handlers implement `TaskLifecycle`; safety of approval |
| `review_progress` | 3 tasks, 2 dispatchers, 1 reviewer, no failure | every task reaches a reviewer, every approval its row |
| `review_stranded` | 1 task, failures | violated: a task stays PENDING for ever (README.md:86) |
| `scheduler` | parent, child and a node with a rejected configuration, 2 days | a cycle reaches every node; overdue nodes are noticed |
| `scheduler_recovery` | parent and child, 3 days | violated: no recovery after cooldown (README.md:84) |
| `bus` | 3 catalogue signals that concern the node, 3 events, 2 requests | the debounce window holds within a run; penalties are capped whatever the severity |

**Why the bounds are enough.** Two nodes are the least with which a request has
a second node that is read after a commit. Two tasks let a node be escalated,
released by an administrator and escalated again, and one batch of `serial` carries
the negative shock of a negative severity. Two sessions are the least
that overlap, and every guard of the pipeline compares one snapshot with one
row. Days 0 to 2 let a node decay twice without a validation in between, which
is what compounding needs. `bus` needs three events for an order in which the
last is compared with a memory the second one moved; its hours span one window
and its edge, its severities are 4.0, -1.0 and none. In `engine`: three slots and
three rows let a commit fall into the window of two others; two writers are the
least that overlap on a row, and the report may find either's columns; the hazard grid takes every
valid configuration of 3 weights x 2 costs x 4 modes x 2 floors, and its levels
(steps of 4 of 10) fall on both sides of each floor and on the gate; the elapsed
times of calibration lie below, between and beyond a factor of two of the lives,
its threshold starts everywhere in 0.01 .. 0.99; the overdue clock passes 14
days and the load twice the surge limit, where the ramp ends; three nodes, with
trails too short, rising, falling, constant and of unequal length and reviews
that take no time, two or three half hours, are the least for which one pass can
skip a node and take a later one; the trail holds six snapshots for a window of
four, so entries leave the window; the first configuration asks for nothing and
the last for review, with a rejected one between. `MaxDay`, `TaskIds`,
`MaxHour`, `MaxEvents`, `MaxCalls`, `MaxResets`, `MaxReviews`, `MaxOverdue`,
`MaxLoad` and `MaxTrail` are the bounds that stand in guards.

**Deadlock** is checked in the Governance and Scheduler runs. Elsewhere the
system ends: all tasks are completed, the vector is all zero, the events or the
rows are used up, the allocation has returned.

**Fairness.** `review_progress` and `review_stranded` assume that a handler that
has begun goes on, that Temporal's worker runs, and that somebody keeps
dispatching and approving. The repository schedules neither call; this asks what
the handlers do if an operator does. Failures are never fair. `scheduler` and
`scheduler_recovery` assume that cycles are run repeatedly and that time passes;
signals and administrators owe nothing.

## 4. Proofs

`tlapm <module>.tla`. No theorem assumes a bound on nodes, sessions, tasks,
reviewers, days, configurations, events, fleets or reviews; each module assumes
the typing of its constants and `Scale >= 10`, in named assumptions that TLC
evaluates in the runs.

- **GovernanceProofs.** `TypeCorrect` is inductive once `SessionOK` (a session
  past its first read holds a node) is part of it. `ReviewIsOpened` needs no
  restriction on overlap: a column is flushed only if it changed, an assigned
  IN_REVIEW differs from the snapshot only when `Escalates` holds, and then the
  same commit creates the task. `SessionInv` says what no overlap disturbs: a
  session works on registered nodes, knows which request it serves, and has the date
  of a day that has come. With it, `ActiveIsHuman`: a run writes the status column
  only with something more severe than it has read, and that is never ACTIVE. And
  `OverlapsCountOnce`: a run writes the freshness of the days since the validation it
  has read, which are at most those of the whole clock; like the next it assumes
  `NoRevival`, a decay that never turns back. `RiskIsMonotone`, `EscalationIsSingle` and
  `StatusFollowsHazard` assume `OneSession`; their strengthening is the lemma
  `SerialInvariant`: the snapshot of the session that is at work equals the row,
  which nobody else can write.
  Without `OneSession` `RiskNeverAutoDowngrades` is false (`race_downgrade`).
  `StatusFollowsHazard` also assumes that a healthy vector is ACTIVE under every
  configuration, which floors up to 1, gates from 0 and a positive threshold give; an
  administrator's recertification writes that vector with status ACTIVE.
  `DecayIsNotCompounded` adds `ClockInv` (no row and no session is dated in the
  future) and assumes `NoRevival`: a run writes the freshness of its own day, which is
  at least that of any day after it.
- **SchedulerProofs.** `CycleInv` says that every node behind the loop is
  `EvaluatedOn` the cycle's day. A later run on the node keeps that because its day
  is not earlier (`NoRevival`), a recertification because it starts a new age
  (`HealthyIsActive`), and each way out of the loop's body, the raising ones
  included, takes the node off the list: `CycleCoversList`.
- **ReviewWorkflowProofs.** With one dispatcher, `OneDispatcherInv` (its list
  holds PENDING tasks only; a reviewer's task has left PENDING) is inductive and
  gives `ImplementsLifecycle`, step by step or by a stutter. For
  `CompletionIsSignalled`, with the demo endpoints on or off, the invariant also says
  that the task of an approval about to be committed has an approved or closed
  workflow; a lone dispatcher does not restart it.
  `ReviewRunsOnce` adds that a task whose workflow is approved or closed has left
  PENDING; a lone dispatcher starts workflows of PENDING tasks only, so it never
  starts a closed one again.
- **SignalBusProofs.** A memory is moved to the timestamp of each accepted shock,
  and an accepted one lies a window beyond it, so the memory of a key is at least
  as late as every shock of that key in this run, whatever the order of arrival:
  with that invariant the next accepted shock keeps its distance to all of them,
  not only to the last (`RunIsDebounced`). `BusTyped` follows a product of any integer
  severity through the division and the cap: at most 1 per event, with no lower bound.
- **HazardLemmas.** What the operators of `Reliability` and `Hazard` return, and how
  they move: each term of an aggregation falls when an axis rises, a sum, a maximum
  and the cap are monotone, then the ladder, the floors and the gates. The modules
  below and the two above cite them.
- **EngineProofs.** `LossIsNeverRewarded` combines the lemmas and uses of the walk
  only that a step lowers an axis. `DefaultIsLenient` is the arithmetic of
  500 and 1000. For calibration, `HalfLifeMovesToLife` is the arithmetic of the two
  clamps, by cases on review and estimate. For `Resilience`, `VerdictsAreFinal`
  compares the three deadlines and `SurgeIsCalm` follows the ramp through its
  division and its cap.
- **AnalyticsProofs.** Everything here is about sums over sets of any size.
  - *Induction.* The library's induction theorems take a predicate, which the
    installed provers cannot instantiate. `NatSetInduction` and `FiniteSetInduction`
    take a set W in its place, the elements that have the property: if some element
    were missing, the well-founded order has a least one, which the step puts into W.
    `SumsExist` builds a function that satisfies the recursion of the library's fold
    for one cardinality after the other, `SumsAreSums` shows that any such function is
    the sum, and from `SumTakesOut` follow linearity, monotonicity, the exchange of a
    double sum and the reversal of a series.
  - *Portfolio.* Cut to one length, the series form a matrix whose quadratic form is
    the moment of one series with itself, the mix of all (`VarianceIsAMoment`), and
    such a moment is a sum of squared deviations: `NoNegativeVariance`. A review of a
    node moves the mix along that node's series; when the node's share of the variance
    is not positive, both terms the move adds are at least 0, and the root is monotone
    (`HedgeKeepsVariance`, `VolatilityIsMonotone`): `HedgesAreLeftAlone`.
  - *Allocation.* Every node behind the loop is chosen or does not fit, and as time is
    only ever spent it will not fit later: with that `AllocationInv` each iteration is
    a `Choose` or a stutter and the end is a `Close` (`RespectsBudget`), whatever the
    order of the scores. `GreedyInv` says what the order adds: the first node f that
    was passed over ends a prefix P of it, P and f together exceed the budget, and
    zero-hour reviews, which score 0, are all taken. Weighing every node by its
    reduction and, with the density of f as the price, its hours, what P, f and the
    zero-hour nodes hold weighs 0 or more and the rest 0 or less
    (`DensityCutIsBest`): `LosesOneReview`. AllocationInv is not enough for it, since it
    forgets in which order nodes were looked at.
  - *Early warning.* The only invariant is that the trail holds snapshots. A constant
    window has moment 0 (`SteadyNodesAreLeftAlone`); if an axis flips, an induction
    along the window shows that neighbours add up to a constant, and then their moment
    is minus that of the first series with itself (`FlappingNeverWarns`); read
    backwards, the two series of the lag change places (`WarningsAreDirectionless`).
- **DecisionWrapperProofs.** For the table, `OwnRowsSeen`: while a request of a slot
  is under way its UPDATE covers every row the slot committed before. So its commit
  clears the slot's older active row: `OneActive`. `DefaultsAreInitial` follows from
  `NeverUnconfigured`, since UPDATE and INSERT commit together. `StoreTyped` needs
  that rows are never deleted. For the reports, the inductive invariant says of
  rows, of what each writer is about to write (`WorkCovered`), of rows that were read
  and of reports alike that the status covers what the node's own configuration
  suggests for the vector. A pin is set once, at creation, and from then on every run
  and every report uses it; a writer that commits over the row it has read leaves
  vector and status of one decision (`OneRowCovered`). The exceptions, rows an overlap
  or a resolved task wrote, are what `patched` carries along to the report. No number
  of writers is assumed.

Only model-checked: liveness (`PendingIsDispatched`, `ApprovalIsRecorded`,
`OverdueIsNoticed`), which is beyond the prover; every other property of a passing
run is a theorem.

## 5. Further disagreements

Five disagreements with the documentation are runs. The modules state and show
others; each is a property that fails, with the constants that reach it:

- `Governance!LedgerAgrees` with `DemoMode`: resolving a task may set a node
  ACTIVE and records `task_resolved` without a status (`main.py:255`).
- `Governance!ReviewMeansOpenTask`, 1 session: approval completes the task and
  leaves the node IN_REVIEW (`dispatcher.py:49`; `models/reliability.py:50` says
  "human review task open"). Also `autoflush=False` makes `admin_resolve_task`
  count the task it has just closed, so with one session it never releases a node.
- `ReviewWorkflow!StartsOnlyPending`, 2 dispatchers: an old list restarts a task
  that was completed meanwhile (`dispatcher.py:22`, against line 14).
- `ReviewWorkflow!ApprovalIsRecorded`, `MayFail`: a death after the signal leaves
  a task that can never be approved again (`dispatcher.py:46`, against line 39).
- `ReviewWorkflow!ReviewsClose`, `DemoMode`, no failure: `admin_resolve_task`
  completes the row and tells Temporal nothing (`main.py:246`); the workflow waits for
  ever, since `approve_escalation` refuses a COMPLETED task. `DEMO_MODE` is on unless
  the environment says otherwise (`main.py:29`).
- `Scheduler!DegradationPropagates`: the shock to a child is rolled back
  (`runner.py:90`, against its module docstring).
- `SignalBus!Debounced`, 2 requests: `memory={}` in every run
  (`pipeline.py:82`, against docs/architecture.md:20).
- `SignalBus!MacroForwarded` with `ApiCatalogue`, tag US: the regulatory signal
  comes first and one event makes one shock (`bus.py:88`).
- `SignalBus!ShocksInUnitInterval`: a negative severity makes a negative shock, which
  raises an axis; `min(1.0, magnitude)` caps from above only (`bus.py:85`).
- `CostConfigStore!SingleActive`, 2 slots: overlapping requests leave two active
  rows (`main.py:215`, against `config_loader.py:7`).
- `DecisionWrapper!OverlapReportCovers`, 2 writers: two overlapping runs of a pinned
  node leave the vector of one with the status of the other, and the report shows a
  status milder than the hazard next to it; the overlap is that of `race_downgrade`.
- `DecisionWrapper!ReportCovers`: a node without a pin is reported ACTIVE next to a
  hazard that the configuration set since its last run calls a review
  (`wrapper.py:26`).
- `EarlyWarning!RecertifiedIsCalm`: recertifying leaves the trail, so the same
  window warns again before the node has run (`main.py:275`). A warned node raises
  KeyError in every run, and an ingest request for it ends there
  (`pipeline.py:145`).
- `Allocation!ReviewsNeverHurt`: a hedge has reduction 0 and is still selected, and
  reviewing it raises the risk (`portfolio_optimizer.py:61`).
  `min_history_fallback` is a parameter nothing reads (`portfolio_optimizer.py:20`):
  nodes without a series are left out.
- `Resilience!SurgeCalmsAll`: a threshold configured above surge_calm's cap is
  lowered to it in a surge (`resilience.py:38`).
- `CostConfigStore!ResetClearsDemo`: `DependencyEdge` is not imported, so
  `admin_reset` raises and rolls back (`main.py:307`, against line 303).

## 6. Not modelled

Metrics, logging, the dashboard, migrations, scripts and build files have no part
in the state. `models/reliability.py` holds classes that no other module imports.
`should_batch_review` is one comparison and `rank_nodes_by_risk_contribution` a
sort for display. PRE_FAILURE_WARNING is a status of `EarlyWarning` alone:
`runner.py:12` imports `check_and_warn_node` and never calls it, so no run of the
program sets it and `Governance` does without. An order among audit rows of one
transaction time is not modelled: a trail has the order of its commits. Reads of
the API return rows and change nothing. Malformed requests that are refused before
the first read are left out.

## 7. Plan

1. `SignalBus` composed with `Governance`, so that the batches of a run come from
   events and the debounce memory meets the runs that lose it.
2. `EarlyWarning` composed with the scheduler: what a warned node's KeyError does to
   the nodes behind it in a request.
3. A variant of the pipeline with a version check on the row, for which
   `RiskNeverAutoDowngrades` and `OverlapReportCovers` would hold under overlap.
