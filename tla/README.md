# A formal model of the production scheduler

The repository is a production planning system for a cable factory: a FastAPI
back end over PostgreSQL and a React front end with a Gantt chart.  Stage 1 turns
a file of orders into batches, stage 2 places the batches on machines with a
greedy engine or with CP-SAT, and planners then take groups off the chart, split
them, move blocks by hand, look at the cascade a move would cause, undo, and say
why they did it.

This directory holds TLA+ models of the parts that are hard to test (decisions
taken on rows read earlier, undo, cascades, retries inside a transaction, rows
that several runs share), TLC configurations that check them on small instances,
and TLAPS proofs for every size.  Source paths are relative to `src/backend/app/`
unless they say otherwise.

Contents: 1 inventory, 2 modules and the code they model, 3 runs, 4 proofs, 5 where
the code does not do what is written, 6 what is left out, 7 plan.

## 1. Inventory

| Component | State | Operations | What is hard | Model |
|---|---|---|---|---|
| Manual changes and undo: `presentation/routes/schedules/{bulk_update,revert,detail}.py`, `application/validation/schedule_validators.py`, `application/decisions/alternatives.py` | `schedule_task`, `schedule_change_sets` | bulk update, revert, legacy bulk update, update of one task; diff and alternatives to read | check first, write later, at READ COMMITTED without locks; undo writes recorded rows blindly | `Snap`, `ChangeSets`, `UndoStack`, `Views` |
| Cascade preview: `application/cascade/*.py` | a snapshot per request | waves of pushes, limits, pulls | pushes move tasks that still await their turn; limits must be reported; slack is elapsed time, a calendar has pauses | `CascadePreview`, `Snap` |
| Stage 2 jobs and auto scheduling: `application/stage2_job_queue.py`, `application/ingest/pipeline_orchestrator.py`, `application/scheduling/greedy/auto_schedule.py` | `schedule_task`, `production_batch.status`, the jobs in memory, one long transaction with a savepoint | submit, load, place, retry, fall back, boost, commit, fail | several paths of purge and placement in one transaction; rollback inside a savepoint; operators working meanwhile | `AutoSchedule` |
| Batch status routes: `presentation/routes/plan_pipeline_batch.py` | `production_batch.status` | status of a row, of a row only, of a group | race with a job; groups left half changed | `AutoSchedule`, `BatchGroups`, `Stage1` |
| Calendar engine: `infrastructure/calendar_engine.py` | none (three calendars) | end of a task, start of a task, minutes between | shifts over midnight, breaks, holidays, weekends | `Calendar` |
| Slot search and placement: `application/scheduling/greedy/{slot_finder,jit_scheduling}.py`, `application/_shared/slot_filters.py` | the timeline of a machine | find a slot, align with the process before, shift just in time | rounding to the hour; a block stretched after the search | `Slots`, `Timeline` |
| Greedy engine: `application/scheduling/greedy/{optimization_loop,_group_and_sort,_assign_group}.py` | timelines, ends of processes | sort, choose machines, place, deal out | the order is made once and never revisited | `Machines`, `Placing`, `Greedy` |
| Plan checker: `application/validation/{constraint_checker,_checks_*}.py` | none | nineteen checks of a finished plan | reads the rules of the engine from other code | `PlanChecker` |
| Batch group life cycle: `application/validation/batch_group_lifecycle.py`, `presentation/routes/_batch_group_split.py` | rows, headers and tasks of a group | unassign, restore, restore at, split, status | found by the name of the group alone; stock divided between two parts | `BatchGroups` |
| Stock: `infrastructure/wip_lifecycle_listener.py`, `application/ingest/{wip_promotion,wip_matching}.py`, `application/sm_inventory.py` | `wip_inventory` | survey, match, expect, promote, measure | shared by all runs; changed by listeners of other writes | `Stock`, `Stage1` |
| Stage 1 and runs: `application/ingest/*`, `presentation/routes/plan_pipeline_{stage1,runs}.py` | orders, rows, runs | ingest, update in two modes, delete, compare | started work is carried over; rows of several runs of one name | `Grouping`, `Stage1` |
| CP-SAT scheduler: `application/scheduling/cp_sat/*` | the model with its bounds, the plan, the blocks | build, four phases, order, place, split or defer blocks | phases cut off by time; blocks that give way | `LexSolve`, `CpModel`, `CpSat` |
| Constraint configuration: `presentation/routes/constraints.py` | settings, history with baselines, runs of the solver | edit, promote, reset, solve | read row by row while others write; time stamps of seconds | `ConstraintStore` |
| Reasons and feedback: `presentation/routes/{change_sets,decision_feedback,decisions}.py` | reasons, flags on traces, comments | reason, bulk reason, comment, answer | flags outlive the rows they point at; rows of a bulk request do not see each other | `Reasons` |
| Rescheduling of affected tasks, orders and lists, decision cards and texts, in-memory schedules, master data, parsers and exporters, language model and logging, schemas and scripts, front end | derived, single rows, or none | | | not modelled, see section 6 |

How they interact.  Stage 1 fills `production_batch` and takes from the stock; a
stage 2 job reads planned rows and writes tasks; the manual endpoints write the
same tasks without any lock they share with a job; a split, an update or a
deletion deletes rows that change sets, comments and stock still name; status
routes and the job write the same column.  The preview only reads, and its answer
is applied by a later bulk update of the client.  A job reads the settings when it
begins, and its traces carry the flags of the reasons.  `PROJECT.json` lists every
component with its sources, and every hazard at its line.

What makes each component correct:

* manual changes: no machine runs two tasks at once; an undo is exactly the
  inverse of the newest change; what was recorded happened; what is shown before
  an undo or a move is what the undo or the move then does;
* preview: a plan it calls resolvable is sound; what a limit cut off is reported;
  the pulls it offers fit together; it answers;
* jobs: a committed plan has no overlap whichever path led to it; no row is
  `scheduled` without a task (it would never be loaded again); a retry for
  tardiness helps or leaves no trace; every job ends;
* timelines: a task gets working time that was free, all of it, and no free slot
  is passed over; no process begins before what it needs is there;
* groups: off the chart as a whole or not at all; after any splits enough is made
  for all orders, and handing over stock never costs a lot;
* stage 1: no reference is left hanging, started work and orders survive an update,
  older runs stay what they were, no drum of stock is promised twice;
* solver: what an early phase reached a later one keeps; no drum is lost;
* settings: a run finds every key, a baseline is one moment, every value is on record;
* reasons: a mark stands for a reason, and goes only with it.

## 2. Modules

Every definition that models code is in `map` of `PROJECT.json` with the lines it
stands for.

| Modules | Role | Built on |
|---|---|---|
| `Snap` | plans as rows per task: overlap, order of a line, the checks of a bulk update | |
| `UndoStack` | abstract: a plan and the stack of plans it replaced | |
| `ChangeSets` | the endpoints that write tasks; refines `UndoStack` in serial use | `Snap` |
| `Views` | what a planner reads before a move or an undo | `ChangeSets` |
| `CascadePreview` | the preview, one push or one offered pull a step | `Snap` |
| `AutoSchedule` | a stage 2 job as a transaction, operators beside it | |
| `Calendar` | working time, in half hours | |
| `Slots` | slot search, alignment, just-in-time shift | `Calendar` |
| `Timeline` | one machine filled task by task | `Slots` |
| `Machines` | which machines a group may use | |
| `Placing` | what both engines do for one group | `Slots`, `Machines` |
| `Greedy`, `PlanChecker` | the greedy engine; the checks of its plan | `Placing` |
| `LexSolve` | the phases of the solver, for any model of finitely many plans | |
| `CpModel` | the model that is handed to the solver | `Placing` |
| `CpSat` | a whole run of the solver and of what is made of its plan | `LexSolve`, `CpModel` |
| `BatchGroups` | groups between stage 1 and the shop floor | |
| `Stock`, `Grouping`, `Stage1` | stock; rows of a run; the requests of stage 1 | each on the one before |
| `ConstraintStore` | settings, baselines, runs | |
| `Reasons` | reasons, flags, comments | |
| `MC...` | instances for TLC | |
| `...Proofs` | theorems (section 4) | |

### ChangeSets and Views

`schedule` is `schedule_task`, a function from tasks to rows, `NoRow` once deleted.
`change_sets` is the table of the same name; `created_at` is a counter (`clock`),
taken when the INSERT is flushed, which is what `datetime.utcnow` as a column
default does.  Ties of two clock readings are assumed away.  `txn[s]` is the
session of one request: what it read (`from`), what it will write (`to`).

* `BulkUpdateValidate` is the handler up to `db.commit()`; `BulkUpdateInsert` is the
  INSERT that opens the flush; `BulkUpdateCommit` the UPDATEs and the commit.  The
  ORM writes only columns that differ from what was read (`WriteColumns`), and
  gives up the transaction when a row to update is gone (`...Abandon`).
* `RevertRead` checks for newer change sets and reads the rows; `RevertCommit`
  writes and deletes.  `LegacyRead` and `UpdateTaskRead` are the writers that
  check nothing about the plan and leave no change set.
* `DeleteTasks` stands for the requests that delete rows (split, deletion of a run,
  stage 2's purge).
* `Diff` and `Alternatives` are pure functions of the tables, stated against what
  the undo and the bulk update then do.  `Alternatives` counts conflicts with tasks of
  other batches only, so a machine shown as free may hold a task of the same batch;
  `FreeMachinesTakeTheTask` exempts that case, and the `undo` run has one task a batch.

Abstractions: equal statuses and run labels (the snapshot of the code mixes
them too), so a task is a row of times and machine; `PUT` always gives start and
end together; a client that repeats a task in a request is seen as its last
entry; product rules of a machine are the constant `Fits`.

### CascadePreview

`frontier`, `next` and `push_count` are the variables of
`plan_cascade_preview_on_snap`; `next` is also `processed_in_wave`, since both are
extended together.  One expanded overlap, one successor or one pull is a step.
The code sorts by start; the model takes any smallest.  `advance()` is the
identity in the code, `reverse_advance` subtracts working time.  Hours of rest are the
constant `Rest`.  Two remarks from the translation: the guard at
`application/cascade/service.py:89` can never fire once the list is filtered, and
`cross_equipment_conflict`, a reason of the schema, is never produced.

### AutoSchedule

`tasks` and `status` are the committed tables, `txn` what the job has written and
not committed (rows deleted, rows inserted, statuses, urgent batches), `savepoint`
the same as it was when the boost retry began.  What the job reads is
`TasksIn(txn)` and `StatusIn(txn)`: the committed rows, also those that others commit
while it runs, under its own changes.  A row it has written is locked, so an
operator waits (`SetStatus`).

* `Enter` is the purge of an old plan, `Load` the selection of planned batches (and
  marking those the stock makes needless), `Place` an engine: any choice of
  places per group, an empty one when no machine suits.  Each group gets tasks
  that name its first batch, and all its loaded batches become `scheduled`.
* `Retry`, `GiveUp` and `Accept` are the three ways out of the overlap check, which
  compares neighbours only (`HasOverlap`, as `_check_overlap` does) and not all
  pairs (`NoOverlap`, what is wanted).
* `Boost`, `EndBoost` are `_tardiness_boost_retry`; the recursive call is the same
  loop with `depth = 1`.  `Fail` is any other exception at any point.

Abstractions: the search for places (that is `Greedy` and `CpSat`); at most
`MaxMachines` tasks per group; the opt-in JIT pass (`SCHEDULER_JIT`, off by default,
whose own check only warns); the audit log; of more than ten late tasks the code
boosts the worst ten.  `customer_priority` stays 1 after an adopted boost although the
docstring calls the rise temporary (`urgent` records it; nothing depends on it).
Places are assumed to have a positive length: with empty tasks comparing neighbours
would not be the same question.

### Calendar, Slots, Timeline

Time is counted in half hours, which every shift, break and rounding of the code
falls on.  `EndOf` and `StartOf` walk the calendar day by day as
`calculate_end_datetime` and `calculate_start_datetime` do; what they compute is
compared with `Works(cat, t)`, written from the table of shifts.  `FindSlot` takes the
first candidate that fits, which is the loop of `slot_finder.py` without its cache.
`Timeline` enters one task after the other: `PlaceFree` without a predecessor,
`PlaceBehind` with the alignment of `slot_filters.py`.

### Machines, Placing, Greedy, PlanChecker

A group of batches is a record of what the engines read of it.  `Machines` is the
chain of filters, each of which narrows the list and is dropped when nothing is left; a list
of machines is the set of their places in the table.
`Placing` has what `_assign_group.py` and `_calendar_apply.py` share: the earliest start
after what the predecessors left (`EarliestAfter`), setups, the dealing out of drums
to several machines (`PlaceOnSeveral`).  A step of `Greedy` is one call of
`_assign_group`; `Shift` is one pass of the just-in-time shift.  `Never` is
`datetime.max`, the entry of a group without a machine; `Crash` is what becomes of it
in arithmetic.  `PlanChecker` translates the nineteen checks and is evaluated on every
plan that `Greedy` finishes.

Abstractions: working times are inputs instead of values of the speed table; names of
colours and customers are flags; warnings and audit rows are left out.

### LexSolve, CpModel, CpSat

`LexSolve` is the driver of the phases: `model` is the set of plans that satisfy what was
added so far, and the solver is *any* solver, which proves an optimum, finds some plan
or none, and calls a model infeasible only if it is.  A fall-back builds the model
again (`FallBack`), a recovery reads the best plan of an earlier phase.  `CpModel`
writes the model of `model_builder.py` and `constraints/` as the set of its solutions,
`CpSat` runs `LexSolve` on it and then places what came out in the calendar, cuts or
defers blocks for urgent groups, and places the rests.  Blocks of batches that were
started are on the timeline and seen by nothing else, as in the code.

Left out: durations that differ by machine, pinned groups, hints, hard due dates and
colour chains (off as `auto_schedule` calls it), groups without a due date, the skip of
orders that stock covers in `_load_inputs`, the trace and the audit rows.

### BatchGroups

`row` is `production_batch` (orders and headers of a run), `task` the chart.  Requests take
the rows of their group `FOR UPDATE`, so each is one step.  `Unassign`, `Restore`,
`RestoreAt`, `Split` (with `Rematch`, the hand-over of stock between the parts), the three
status requests, `Move` and `Stage2` are the actions.  `stuck` is not in the code: it
remembers the groups that a request which looks at no status has left half
unassigned, and which `UnassignedAsAWhole` therefore leaves out.  To see what becomes of them, check
it without `\ stuck`: a status request for one row of an unassigned group, or a split into
a group in the inbox, leaves a group that is neither restored nor taken off again.  A split that names the header itself among its batches, which
moves it along, is left out.  The two loops of the
hand-over are stated by what they select: `Receivers` is the one set in which each order is
exactly if it fits beside the longer ones of the set, `Given` the one dealing in which every
stock chooses among those that no stock before it has chosen.

### Stock, Grouping, Stage1

`d` is the database as a record of tables; `Survey`, `Match`, `Expected`, `Promote` are functions
from `d` to `d`, `CreateBatches`, `Deduplicate` and `AutoSplit` likewise, and a request of
`Stage1` composes them in the order of the handler.  An ingest that fails has purged
already (`IngestRefused`), because the purge is committed before the file is looked at.
Updates are incremental or full; `Copied`, `Forward` and `Cleared` are what becomes of
frozen rows, open orders and stock.  Stock rows belong to no run.

Abstractions: the route, lots and lengths of an order are constants; whether a group is
too much for one machine (which depends on durations) is left open (`TooLong`, `Late`); so is whether
the matching fails and is rolled back to its savepoint (`Matching`); colours,
voltages and ageing of stock and the branch of the matching for more than 22 orders
are left out.

### ConstraintStore

`config` is the table of settings, `history` its history with the baselines (rows under one
name), `runs` what each run of the solver has read.  Each query of a request is a step, because
at READ COMMITTED each sees what is committed by then; what is written becomes visible at
the commit.  `moments`, not in the code, is the set of all states the whole table was ever
in: what is read is compared with it.  `clock` gives several stamps to one second
(`Second`), the resolution of the names of baselines.  A JSON `null` in a patch is outside
the model: `Nothing` means that a key is missing.

### Reasons

Ids count up; `changes[c].override_reason` is the reason, `traces[i].link` the flag that a reason
sets on the traces of a run, `comments` the feedback.  A request is a step, except that the
rows of a bulk request are applied one after the other to a session that does not
flush before it queries (`Session`), which is `autoflush=False`.  A bulk request has up to
two rows, of different change sets.  `Solve` is a stage 2 that replaces the tasks and
writes a trace, `Drag` a bulk update, `Undo` a revert.

## 3. Runs

A run's bounds are the constants of its `.cfg`; values that are functions are
definitions of its MC module.

| Run (`.cfg`) | Properties | Instance | States |
|---|---|---|---|
| `undo` (`MCChangeSets_undo`) | `MachineRunsOneTask`, `UndoInv`, `ImplementsUndoStack`, `DiffShowsTheUndo`, `FreeMachinesTakeTheTask` | 2 tasks, 2 machines, 3 slots, 2 change sets, 1 session, bulk update and revert | 27,335 |
| `writers` (`MCChangeSets_writers`) | `ChangeSetsAreSound`, `RecordedChangesHappened`, `DeletedStaysDeleted`, `UndoRestoresRecordedRows` | 2 tasks, 1 machine, 2 sessions, all five endpoints, 2 change sets | 314,765 |
| `write_skew` (`MCChangeSets_write_skew`) | `MachineRunsOneTask`, violated (section 5) | 2 tasks, 2 sessions, bulk update | |
| `limits` (`MCCascadePreview_limits`) | `AutoResolvedIsSound`, `PullsMeetOverRest`, `Terminates` | 4 tasks, 2 machines, a break in the calendar, 3 waves, 3 pushes, horizon 3; every request on every sound plan | 182,040 |
| `jobs` (`MCAutoSchedule_jobs`) | `PlanIsSound`, `ScheduledBatchesHaveTasks`, `BoostHelpsOrLeavesNoTrace`, `EveryJobEnds` | 3 batches in 2 groups, overlapping places, 1 retry | 327,184 |
| `calendar` (`MCTimeline_calendar`) | `WorkIsApart`, `WorkIsDone`, `NoSlotIsSkipped` | the three calendars, a week with a holiday, 3 tasks, 3 working times | 29,622 |
| `greedy` (`MCGreedy_greedy`) | `FirstDrumFirst`, `AssemblyWaitsForItsCores`, `CheckerAgrees` | 17 groups of every process, 13 machines, 7 settings of working times, 2 base times, 3 plans to start from, just-in-time in at most 5 passes | 753 |
| `groups` (`MCBatchGroups_groups`) | `EnoughIsMade`, `UnassignedAsAWhole`, `RematchNeverCosts` | 4 orders, up to 3 headers, 2 groups of which one may be split twice; stock of one order, or shared by two of a group; one status request | 157,234 |
| `stage1` (`MCStage1_stage1`) | `ReferencesHold`, `StartedWorkIsKept`, `OrdersAreKept`, `RunsStayAsTheyWere`, `StockIsPromisedOnce` | 3 orders, 2 sections, 2 files, 2 surveys, 4 requests; updates split the groups of one section, the matching of an ingest may fail | 145,546 |
| `cpsat` (`MCCpSat_cpsat`) | `NoMachineTwice`, `FirstDrumBefore`, `EveryDrumOnce`, `PhasesKeepEarlierOnes` | 12 groups, 6 machines, with and without started blocks; every answer of the solver in every phase | 13,324 |
| `baselines` (`MCConstraintStore_baselines`) | `RunsHaveTheirKeys`, `BaselineIsASnapshot`, `EveryValueIsOnRecord` | 2 settings, 2 sessions, 5 bodies, 4 stamps in one second | 455,731 |
| `reasons` (`MCReasons_reasons`) | `FlagsHaveReasons`, `FlagsGoOffWithTheReason`, `RunsCanBeDeleted` | 2 runs, 3 tasks, 2 change sets, 2 traces, 1 comment | 705,806 |

Each property is followed in `PROJECT.json` by a mutant of the code that breaks it on that
very instance: a dropped guard, a swapped order, a missing reset.

Why the bounds are enough.

* Two tasks and two sessions are what a conflict of two requests needs; two change
  sets give an undo that is not the last and one that is.
* Four tasks on two machines give pushes that cross machines, come back, and meet a task
  already pushed in the wave; `MaxWaves`, `HardTaskLimit` and `Margin` are small so that each
  stops some preview, and most previews meet none of them.  `Rest = {1}` puts a break between
  the slots, so that pulls are worked back over it.
* In `jobs` one retry stands for two: the loop has no state but the counter.  The places
  `[0,2)` and `[1,3)` overlap without a common start or end, and the second is late for
  one group.
* In `calendar`, work is shorter than a morning, as long as a shift of half a day, and longer
  than a day; instants and ends of predecessors lie at breaks, at night, before a holiday and
  before a weekend.  A third task is what finds a gap between two others.
* In `greedy` every process has a group, two sections share one, cores of two sections meet in
  one assembly, and machines are fewer than groups, so that groups wait for each other.  The
  engine is deterministic: the states are the steps of 42 runs.
* In `groups` two splits are needed before stock is handed on twice; one group has a header
  and one has none; the stock of 12 m is that of one order, or of two which a split may take apart.
  In `stage1` an update finds the groups of section 10 too much for one machine, so that it splits groups
  whose names older runs have, too; that an ingest splits, and that the matching of an update fails, would
  double the states and is left to the proofs.  There four requests are an ingest, a start of work, an update and
  what follows it.
* In `cpsat` the axis has steps of half a shift, so that every solution of the model can be
  listed.
* In `baselines` four stamps allow two baselines of one name in one second with edits between
  them; in `reasons` two runs and two change sets let a change set span runs and a flag move.

The proofs have none of these bounds.

Fairness.  The preview (`WF_vars(Step)`) is one function in one thread that waits
for nothing.  A job (`WF_vars(JobStep)`) runs in a thread of its own; it waits
only for row locks, which operators hold for one short transaction.  Failures
(`Fail`), submissions and operators are not fair.  All other specifications state safety
only and have no fairness.  Symmetry is used on machines, sessions, runs and operators, in
runs without liveness.

Deadlock is checked where the system never rests: an idle server always accepts another
request, and a finished preview repeats its answer (`Answered`).  `CHECK_DEADLOCK FALSE`
stands where a behaviour ends by design (a machine is filled, a plan is placed and checked:
`calendar`, `greedy`, `cpsat`) or where the bound on requests or stamps is used up
(`stage1`, `baselines`, `reasons`).

## 4. Proofs

All are checked by TLAPS from nothing.  Constants are arbitrary within the named
assumptions of the modules (`...Assumption`), which TLC evaluates on every instance.
A theorem that states a property of section 3 shows it for every value of the constants.

### What the theorems say, and along which invariant

`ChangeSetsProofs`.

* `TypeCorrect`: types, for any endpoints and any number of sessions.
* *Any use* (all endpoints, any number of sessions): `ChangeSetsFit`, `ChangeSetsHappen`,
  `DeletedTasksStayAway`, `UndosRestoreRows`.  The invariant `UseInv` says what the check
  leaves to a later commit: stamps of change sets are unique and below the clock; what a
  waiting update is about to write has passed the check of overlaps among its own tasks;
  a waiting undo holds what the change set of its stamp recorded.  The plan itself is not in
  it, and cannot be: other sessions change it between check and commit.
* *Serial use* (assumption `Serial`: one session, bulk update and revert only):
  `SerialUseIsSound`, `SerialUseKeepsChain`, `SerialUseIsUndoStack`.  Soundness alone is not
  inductive: revert checks nothing, so every plan that undos can *reach* has to be sound.
  `UndoInv` says so through `PlanBefore(k)`, the plan after undoing all change sets down to
  `k`; it needs the chain (what one change set wrote is what the next found), unique
  `created_at`, and, for a request that has read and not yet written, that what it read is
  still there.  A bulk update adds one entry on top of the chain and leaves each `PlanBefore`
  as it was; a revert removes the top.  The same three facts give the refinement of
  `UndoStack`, step by step.
* `FreeMachinesAreFree` needs no invariant but the types: that the count of
  `alternatives.py`, taken over intervals that begin and intervals that are met, is zero
  exactly when the check of `schedule_validators.py` finds nothing.
* `DiffsTellTheUndo` (serial): the diff compares recorded rows, the undo writes over the plan.
  Beside `UndoInv` it needs `ChangesCount`: before and after of a change set name the same
  tasks and each of them changes.

`CascadeProofs`.  Of two overlapping tasks one still waits to be expanded (`OverlapsAwait`);
hence a preview with nothing unresolved is sound (`ResolvedPreviewIsSound`); nobody is pushed
twice in a wave (`PushedOncePerWave`).  `CascadeInv` adds that a task pushed as often as there
were waves is in the next frontier, and that a preview with nothing unresolved has emptied
its queues: then nobody waits, so nobody overlaps.  `OffersMeetOverRest`: in every calendar the
pulls collide, with each other or with what stays, by no more than the rest that they were pulled
over.  Without rest they fit, and with it they need not: that is `PullsFit` in section 5.
The proof is by `PullsInv`: the slack of an offer ends where the one before it on its machine ended,
and what was ahead of a task can only have moved further away.

`AutoScheduleProofs`.  Comparing neighbours finds an overlap whenever there is one
(`NeighboursSuffice`, by the least start between two overlapping tasks); what is committed has no
overlap (`CommittedPlansAreSound`); a boost helps or is undone (`BoostsHelp`).  `JobInv` adds that
what is about to be committed, and the savepoint, have been checked *against the tasks that
will be there*.  `ScheduledBatchesAreOnTheChart`: no row is `scheduled` without a task.
Here the invariant must hold in three places at once: of the committed tables, of what the
job sees of them under its own changes, and of what the savepoint would bring back; operators
change the first while the job works on the second.

`PlacingProofs`.  Four things: what the walks of the calendar compute, what placing does with
it, what a run of the greedy engine makes of that, and what a run of CP-SAT does.

* *The walks.*  A block ends at the first time by which the machine has worked for as long as the
  task takes (`EndIsEarliest`), who begins later by day ends no sooner (`LaterIsNotSooner`), and the
  walk back ends with a time (`WalkBackEnds`).  `EndFrom`, `EndThroughBreaks` and `StartFrom` are
  recursive functions, which in TLA+ denote *some* solution of their equation, if there is one.
  So each proof begins with a function that solves it.  For the forward walk it is the
  time found by counting (`TrueEnd`), and the solution is unique, by a least counterexample
  in the work that is left and the days off to come.  For the walk back it is
  that of any loop that hands its result through (`TailRecursion`); that it is a
  time needs that every path ends, by counting the days that remain.  All of this rests on
  one assumption about the data, that holidays are finitely many (they are rows of a table):
  then there is always a working Monday to come.  The bound of a thousand rounds at which
  the code gives up, some two hundred working days ahead, is not in the model.
* *Placing.*  `PlacesAreFree`: the working time of a task was free when it was placed, for any number
  of tasks.  `WorkIsAlwaysDone`: a block that begins by day has all of its working time.
  `NoPlaceIsSkipped`: by day, no time between the earliest and the chosen start would have
  done.  `TimelineInv` says that every entry is a time, that each task was free of those
  *entered before it*, whatever these do, and that a block has room for its work
  (`WorkHasRoom`), also where its end was stretched.  It does not say that blocks are
  apart, which is false (section 5).
* *The greedy engine.*  For any groups, machines, orders, calendars, kept tasks and working times: no
  assembly begins before its cores are insulated, each on one machine
  (`AssemblyStartsAfterItsCores`), and where no group of the process before was left without a
  machine a task begins after the first drum of that and, for a high-voltage sheath, twenty hours of curing
  (`NoTaskStartsBeforeTheFirstDrum`, the first half of `FirstDrumFirst`).  The engine never goes back
  to a group, so both rest on its sort.  `Sorted` is a fold over a set that takes the first by the
  key each time; that there is a first, and that the fold is a function, is `SortedIs`, for the order of
  tuples of numbers of any length (`BeforeIsOrder`).  `GroupsAreSorted`: no group
  comes after one that it precedes (`Precedes`, by the key of nine numbers).  `GreedyInv` adds to
  the tables' shape (`Typed`) that this holds of the groups left, among each other and with
  the groups placed (`InTurn`), and that an entry of `process_first_output_by_sq`
  is the first drum of a task (`FirstsAreKnown`) unless a group of that entry got no machine, whose
  `datetime.max` stays there.  A first drum at `Never` itself is left out: it would be
  taken for no entry.  Kept cores are not waited for (`AssemblyWaitsForItsCores` leaves them out):
  `_seed_state_from_existing` enters no ends of colours.
* *The CP-SAT engine.*  For any groups, machines and calendars, and any solution the solver returns.
  `PlacedAfterTheFirstDrum`: `FirstDrumBefore`.  The calendar uses no start of the solver but as
  one of the keys for sheaths, so what counts is that the key of the order (`SolvedOrderKey`) has the process
  in front; then the argument is that of the greedy engine, with one more case: until all groups are placed every
  task waits, displaced or not (`StartsAfterFirsts`), and afterwards only those do of which nothing was cut,
  taken off or put back (`UnmovedWait`), for a rest is put wherever there is room from the base
  date on.  `CpInv` ties the two together by `SharesAre`: what is still to be put back is of a group that is
  displaced, and so is the task it becomes.  It also has the shape of the tables
  (`CpTyped`, `CpSatIsTyped`) and that nothing is known before the order is made (`Fresh`).
  `NoDrumIsLost`: `EveryDrumOnce`, if every started block of a group whose first batch
  stands for all of it is one task with all its drums (`WholeSeeds`); a run that
  cut a block in two, of which both parts were then started, leaves seeds that are not so, and `drums_of` would
  count such a group twice.  The invariant is a balance: for each such group, the drums on the machines and
  those on the list of `preempted_remainder` add up to what the group has (`DrumsAreThere`).  To keep
  it, a cut needs to know that the block has as many drums as `drums_of` says, hence `WholeBlocks`.
  Sums over sets are counted as elements (`Units`), which makes a changed, an added and
  a missing part of a sum lemmas of a few lines.
  `PreemptionKeepsMachinesApart`: of all steps, only the placing of a group can give a machine two tasks
  at once.  A cut ends no later than the urgent group begins (`DrumsCompletable`), and a rest goes
  through the same search as any task.

`BatchGroupsProofs`.  `GroupsAreOffAsAWhole`: a group in the inbox is off the chart with all its
rows and tasks.  `GroupsInv` adds that a task names a row that there is and the group of
*that row*: a split moves rows to another group, and tasks must follow.  The theorem is about
all groups outside `stuck`; the requests that leave a group there, status requests and splits, look at no
status.  `RematchIsFree`: handing over stock never costs a lot, for any lengths, stock and size
of lots, as long as the two parts had no stock in common.  What is compared before the hand-over
is then what the headers come to after it (`HandIsHonest`), for either way to hand over.
`EnoughIsAlwaysMade`: for any orders, lengths, stock and
lots and however often groups are split, a group runs short only by an order that comes from a
group that was short, or that the split takes apart from another order with the same stock.
*Short* is: not `Supplied`, which is two things at once, that the lots of its headers and its stock make enough
for its orders, and that no other group with a header counts on that stock; without the second, the
stock handed over could be somebody else's.  The theorem assumes that the names tell which
groups are of stranding (`NamesTell`, the code compares the prefix of the name) and that these, and no
others, have headers at the start (`HeadersTell`).  It assumes nothing about who shares stock; the
instance has orders that do, and splits that take them apart.  `SuppliedIsEnoughInAll`: as long as
every group is supplied, the whole made and stocked is enough for all orders, the sum that is `EnoughInAll` in
section 5.  Needs may be added up because no two groups count on one stock; within
a group, `Net` takes shared stock off the sum once.
The proofs are about sums.  `Total` is a fold, that is a recursive function on the subsets of a
set; it is solved by counting units (`TotalCounts`), from which follow the laws of sums
(`SumOfTwoSets`, `SumOfTwo`, `SumOfParts`, `SumIsLess`), by an induction over finite sets that takes a family
of sets instead of a predicate (`SetInduction`).  The attempt to prove `RematchNeverCosts`
without its condition failed, and TLC found the reason (`RematchSavesLots` in section 5).

`SolverProofs`.  *The phases.*  For any model and any solver: no phase makes a later one infeasible
(`NoPhaseIsInfeasible`), the bounds of all phases are kept, also where a phase was cut off by its
time limit and its bound is not the optimum (`BoundsAreKept`), and if every phase
proves its optimum the plan is lexicographically optimal (`PhasesAreLexicographic`).
`LexInv`: the model is always what the bounds set so far leave of the built one, and a
bound that was proved least is least among the plans within the earlier bounds.

*What they are solved with.*  Runs find every key (`KeysAreKept`), a baseline is one moment of the whole
table (`BaselinesAreSnapshots`), every value in force is on record (`NothingIsUnrecorded`).
`StoreInv`: everything a request, a run or a baseline has read is one of the `moments`, every
moment is complete and on record, and the rows of two baselines differ in their time even
where the names coincide, so that "the newest row of each setting" picks rows of one baseline.

`Stage1Proofs`.  For any orders, routes, lots, stock, files and surveys, and any number of
requests: the tables keep types and keys (`TypeCorrect`), no row refers to one that is gone
(`ReferencesAlwaysHold`), a drum is promised once (`StockIsAlwaysPromisedOnce`), older plans stay
what they were (`RunsAlwaysStay`), started work is in the new plan once (`StartedWorkIsAlwaysKept`), and no
process of an order is lost unless stock has taken its place or the report says so (`OrdersAreAlwaysKept`).

* *The invariant.*  A request of stage 1 is one step of the model but a dozen functions from
  database to database, some of which fold over pools, orders or groups.  So there are two
  relations, and each function has a lemma for each.  `Good(d)` says what holds of the tables
  after *every part* of a request: types, numbers given out below the next one, one row per
  key, nothing hanging, and a task in the run of its row.  The references alone would not be
  inductive: what is inserted next may take the number of a row that is gone but still referred
  to, unless numbers are never given out twice.  `Fair(d, e)` says what a part may do to
  stock: what is used or measured stays so, and an order that gets stock gets some that was
  neither, and marks it.  `PlanInv` is `Good` of the tables, no row of a run that is yet to come
  (`Recent`), where updates split nothing `Routed` (below), and, as long as no run was deleted, that stock
  an order is on is marked as gone
  (`Taken`): the matching looks at the mark, the promise is about the orders.  TLC has checked
  `PlanInv` on the instance of `stage1`.
* *What an update carries over.*  `Renewed` describes the tables of an update by four stages, the
  copies of started rows with their tasks (`Copying`), what the new stock rewires (`Rewired`), what
  is batched anew (`Batched`), and what the automatic split makes of it (`Parted`).  That started work is kept
  follows from it and `Good` alone.
* *Older plans* (`RunsAlwaysStay`).  A split finds the header of a group, and that of its second half, by
  their names in all runs, so it may rewrite a header of an older plan or add one to it.  `Divided` says
  of each row what splits may make of it: an order of the new run moves to a second half, a header
  of whichever run is counted anew, and the latter only where the new run has rows in the half
  of that name (`HalfMade`).  `Parted` is kept by the split of one more group because a row
  that one split has moved is in no group that another one looks at.
* *No process is lost* (`OrdersAreAlwaysKept`).  A row of the parent is batched again only if the route of its order
  makes its process, so `PlanInv` also says that rows belong to the routes of their orders
  (`OnRoute`) and that a header that names an order stands with a row of that order (`Named`).
  Neither is kept by the split and the regrouping one row at a time; `Follows(d, e)` is what they
  and their folds keep: each row comes of one that is the same or of a row of the order its header names, and no
  order loses a row.  `Continued` adds what an update does to the orders: those that are not started
  are `AllSupplied`, a row for each process of the route unless stock covers it, and one
  that adds orders takes over all of the parent.
* *Folds.*  The matching hands out drums order by order and serves pool after pool, the
  split goes group by group.  `FoldExists` says that such a fold is a function of the subsets of the
  set, `SetInduction` (over families of sets) that what each step keeps the whole fold keeps.
* *What is assumed of splits.*  Nothing, but for `OrdersAreAlwaysKept`: it assumes `Late["update"] = {}`,
  that no group of an updated plan is too much for one machine.  What `Routed` says of headers is lost
  when the header of a second half is put into the run of whichever header was found.  On the
  instance, whose updates do split, `OrdersAreKept` holds.

`ReasonsProofs`.  Marks on card and chart stand for a reason (`ScreensAreTrue`), a flag goes off only
with it (`FlagsStayOn`), no comment of another run keeps a run from being deleted
(`DeletionsGoThrough`).  The hard step is the bulk request: its rows read a database that has
not seen the rows before them.  `InSession` says what a session may hold after some of its
rows; one more row of another change set keeps it.

### What is only model-checked

* Liveness: `Terminates`, `EveryJobEnds`.  The prover has no rule for fairness.
* The second half of `FirstDrumFirst` in `greedy`, that no task ends before the last drum of the process
  before: it holds on the instance.  Nothing makes `Align` keep it when it looks for a slot
  once more, for a tail, and takes the end of that.  `CheckerAgrees` rests on the instance as
  well: whether the nineteen checks find the plan of the engine good depends on its data.
* The library's induction theorems take an operator as a parameter, which no installed prover
  can instantiate; what is proved about recursive functions here (the walks of the calendar,
  sums of lengths, sorts, the folds of stage 1) uses least counterexamples and families of sets
  instead, function by function.
* The rest of `NoMachineTwice` of `cpsat`, that placing a group keeps it: it holds on the instance, and not
  of every calendar and start, since `Align` may stretch a block into its neighbour there as well (section 5).
* `OrdersAreKept` where updates split groups: on the instance of `stage1`, and not proved.

## 5. Where the code does not do what is written

One run shows a violation: in `write_skew` two bulk updates read the same plan, each moves
another task to one place, both pass the check and commit.  `schedule_validators.py:23` says
that the check detects such a race at once, and the design document
(`docs/specs/2026-04-18-block-duration-edit-cascade-design.md`, E7) promises 422
`CONCURRENT_UPDATE`, a code that nothing raises.

The other statements of documents, comments or tests that the code does not keep are
defined in the modules, too, and no run is spent on them.  To see a counterexample, check the
property alone with the configuration named here, which TLC refutes in seconds.

| Property | Configuration | What is written, and what happens |
|---|---|---|
| `UndoOnlyNewest` | `writers` | E15 and `revert.py:44`: undo is refused when a newer change set exists.  It looks at the start; a newer one is committed before the deletion (`revert.py:70`) |
| `UndoReplacesOwnChange` | `writers` | undo overwrites what `PUT /tasks/{id}` wrote after the change set |
| `OrderLineStaysInOrder` | `undo`, `LineOf <- OneLine` with `OneLine == [t \in Task \|-> l1]` | the processes of an order line stay in order; the check looks at a changed task as the successor only (`schedule_validators.py:56`) |
| `TasksHaveDuration` | `undo`, `Slots` with `Span(2, 0)` added | an end before the start is accepted (`bulk_update.py:246`) |
| `RequestsAreAnswered` | `undo`, `DueTasks = {t1}` | `schedule_validators.py:33`: a task past its due date is answered 422; `datetime > date` raises, the answer is 500 |
| `EarliestIsFree` | needs three tasks, of which one begins before and one within the interval | the earliest time shown for a machine is free; it looks at tasks that begin before only |
| `SuccessorsFollow` | `limits`, 3 machines, `ParallelLine`, `ParallelPlan`, `LongRows`, no due tasks, limits 9 | `service.py:107`: a later process that starts before the end is pushed; not when another predecessor has pushed it in the same wave (`:112`) |
| `PullsFit` | `limits` | `pull.py:12`: the end of the previous task of the machine limits a pull; elapsed slack is taken back as working time and overshoots it over a break (`:34`).  What is left of the claim is `PullsMeetOverRest` |
| `PullsKeepOrder`, `AutoResolvedIsAccepted` | `limits`, 3 tasks, `ThreeOfLine`, `ShortPlans`, `ShortRows`, no due tasks, limits 9 | the pull of a successor looks at the changed task alone (`pull.py:24`); the bulk update checks a task against its own predecessors, the preview does not (`service.py:163`) |
| `BoostFailureKeepsPlan` | `jobs` | `auto_schedule.py:611`: a failed boost restores the first plan; three overlaps inside it roll back the whole transaction and `sp.rollback()` raises: the job ends in error and the first, good plan is gone |
| `StartedBatchesKeepTheirTask` | `jobs` | started work stays on the chart; the purge keeps a task only if the very batch it names was started (`auto_schedule.py:669`) |
| `TimelineIsApart` | `calendar` | the end of a block is stretched to that of its predecessor without another look at the timeline, see below |
| `UnplacedHoldsBack` | `greedy` | `_assign_group.py:154`: a group without a machine holds back its successors; its `datetime.max` is taken for no entry, except on several machines, where it crashes |
| `JitKeepsPipeline` | `greedy` | the shift moves a predecessor past a successor that overlaps it |
| `AssemblyWaitsForSplitCores` | `greedy` | colours of cores that were dealt to several machines are not recorded, the assembly does not wait for them |
| `EnoughInAll` (an invariant) | `groups` | `_batch_group_split.py:158`: stock is taken off the sum of the orders that share it; split apart, each part takes off all of it (`:170`): orders of 12 and 20 m on stock of 12 m and one of 3 m, lots of 10 m, get two lots and the stock, 32 m for 35 m.  What is left is `EnoughIsMade` |
| `RematchSavesLots` | `groups`, `Begin <- MCSharedAcross`, `LenOf <- MCShortLen` | `_batch_group_split.py:146`: the stock goes to the side where it makes for fewer lots; a receiver is taken to have it for itself although an order of its part already uses it (`:223`): orders of 3 and 12 m on stock of 12 m and one of 12 m without, lots of 10 m, need two lots when the first is split off, and get three |
| `NothingIsForgotten` | `groups` | a split deletes the last tasks of a run; stage 2 then purges nothing and rows that are still `scheduled` are never planned again (`_batch_group_split.py:400`) |
| `MadeOnce` | `stage1` | `plan_pipeline_stage1.py:113`: no second rows for an order of which work was started; the parser knows orders by the new label only, takes it in again and it is batched beside its copied rows (`:346`) |
| `RunsStayUntouched` | `stage1` | `plan_pipeline_stage1.py:109`: older runs stay as they are; the automatic split finds a header by the name of its group in all runs (`batch_splitter.py:392`) and counts that of the older run anew.  What is left is `RunsStayAsTheyWere`: rows of orders, tasks, and headers whose half the new plan does not have |
| `UrgentStaysPut` | `cpsat` | `preemption.py:108`: blocks of the same or a higher priority are not displaced; a block of several drums is cut whatever its priority (`:223`) |
| `StartedStaysPut` | `cpsat` | started tasks are cut and taken off like others; no status is looked at |
| `OptimalStatusIsOptimal` | `cpsat` | status "OPTIMAL" although the first phase was only FEASIBLE (`_solver_runner.py:289`) |
| `NoSilentDrift`, `InputsStayPut`, `TraceShowsWhatWasSolved`, `OtherKeysStay` | `baselines` | drift between plan and settings goes unnoticed; weights are read again during a run; the trace shows later values; two edits of one row lose a key |
| `WontfixIsExplained`, `BulkEqualsOneByOne`, `CommentedRunsCanBeSolved` | `reasons` | a `wontfix` loses its note by a later PATCH (`decision_feedback.py:242`); `[(B,"x"),(A,null)]` in one request clears what B has just set; a comment on a task makes stage 2's purge raise |

The stretched block, in steps (strand machine, Monday).  A task of 1.5 hours is placed from
12:00 and occupies 12:00 to 15:00.  Another, of 4 hours from 08:00, has a predecessor that
ends at 13:00.  It would end at 12:00; working back from 13:00 gives a start of 08:00, so it is
not moved, and its end becomes 13:00 (`slot_filters.py:260`): it overlaps the first by an
hour.  The docstring (`slot_filters.py:175`) says that the block keeps its width, the design
document of 2026-04-18 on the alignment of ends forbids stretching, and
`test_overlap_tight_window` tests a case that happens to have room.

Remarks from the translation, about which the repository says nothing that a property could quote:

* *Calendar and engine.*  `calculate_start_datetime` is wrong for ends between 00:00 and 08:00;
  starts in the small hours are counted by the calendar date, so that `WorkIsDone` and
  `NoSlotIsSkipped` speak of starts by day; safety training is counted nowhere.  LLDPE names "A150"
  where the machine is "SH-A150"; `sq_to_equip` is keyed by the section alone; the sort key of
  one product compares a number with a date.
* *Plan checker.*  9-2 tests for a prefix "B100" while the machine is EX-B100 (`seed_db.py:424`);
  9-1 reports every pipelined task; 6-4 flags the night shift that ends on a holiday; 4-1 cannot
  fire without an overlap; tasks on several machines are judged by the due date of the first order.
* *Groups.*  Restore compares with tasks of status "planned" while the schedulers write
  "scheduled" (`batch_group_lifecycle.py:412`), so a restored group may cover another one; two
  restores at once both pass; a repeated suffix of a split makes a second header; status
  requests create mixed groups.  A purge deletes audit rows.
* *Stage 1.*  The matching gives a drum to an order longer than itself while others are free
  (`wip_matching.py:229`); an order that was frozen and set back is lost in the next update; a
  second update from one parent finds no open orders; an update may answer 500
  (`plan_pipeline_stage1.py:677`); deleting a run, also one that there never was,
  frees used stock of all runs (`plan_pipeline_runs.py:115`), a refused ingest leaves the run purged
  (`pipeline_orchestrator.py:92`), deleting a derived
  run deletes the orders rolled forward from its parent; `create_shortage_batches` repeated makes its
  batches again; two equal drums of a survey are one row; the report of a full update counts
  orders as preserved of which other lines are gone.
* *CP-SAT.*  Rests of displaced blocks are searched from the base date on without regard to
  predecessors (`_preemption_runner.py:60`) and are not reported when late; all drums may be cut off,
  leaving a rest of none; orders overdue by twice the horizon, or pinned starts before the base,
  make the model infeasible; a timeout in the recovery drops a good plan of phase B; the fall-back
  of levels 1 to 3 that is documented is a single call.
* *Jobs.*  Two jobs of one run work in parallel (`stage2_job_queue.py:128`): the second loads
  every row that the first has placed and not committed.  Not modelled: one job at a time.
* *Reasons.*  After reasons for A and then B in one run all flags point to B, so A's tasks lose
  their mark (`list.py:222`); concurrent set and clear may leave a flag without reason; feedback
  is deleted with its run although the model promises a replay.

## 6. What is left out

* *Rescheduling of affected tasks*: no route and no module calls it.
* *The front end* (drag, preview, apply): a composition of `CascadePreview` and `ChangeSets` with a
  client that confirms an answer that has become stale; `ChangeSets` already lets any
  client send any change.  The legacy preview is not called by the client, and its
  `can_auto_resolve` is a tautology.
* *Orders, lists, comparisons, decision cards, texts of the language model*: derived from rows that
  are modelled; wording.
* *Parsers and exporters*: layout; what a parsed file does is in `Stage1`.
* *In-memory schedules, master data, equipment, routes, audit log*: single rows without a protocol.
* *Logging, metrics, schemas, migrations, scripts, start-up*: no state of the plan.
* *The search of the solver* is OR-Tools': `LexSolve` assumes only that what it calls optimal is
  optimal and what it calls infeasible has no solution.
* PostgreSQL and SQLAlchemy are modelled from how they are used: READ COMMITTED, row locks,
  flush at commit or before a query, `StaleDataError` on a vanished row.

## 7. Plan

1. A second job in `AutoSchedule` with row locks, and the deletion of a run beside it.
2. A client that previews, waits and applies, composed of `CascadePreview` and `ChangeSets`.
