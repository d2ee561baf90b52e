---------------------------- MODULE AutoSchedule ----------------------------
(***************************************************************************)
(* Stage 2: a job that schedules the batches of one run                    *)
(* (stage2_job_queue.py, execute_stage2, and auto_schedule with its retry  *)
(* loop and its boost retry), while operators change the status of batches *)
(* (plan_pipeline_batch.py).                                               *)
(*                                                                         *)
(* The job works in one transaction for minutes.  Its changes are an       *)
(* overlay over the committed tables until it commits; a row it has        *)
(* updated is locked.  The boost retry runs inside a SAVEPOINT of it.      *)
(*                                                                         *)
(* Where an engine puts a group is any choice of places: the search avoids *)
(* occupied slots, but ends are rounded up to the hour afterwards, so      *)
(* tasks may overlap, which is what the retries are for.                   *)
(***************************************************************************)
EXTENDS Integers, FiniteSetsExt

CONSTANTS
    Batch,       \* batch ids, numbered in the order in which they are loaded
    GroupOf,     \* GroupOf[b]: the batch group
    Headers,     \* batches with batch_seq = -1, the first of their group
    InStock,     \* batches that the matched stock makes unnecessary
    DueOf,       \* DueOf[b]: the end of the day on which b is due
    Places,      \* [equipment, start, end] an engine may give a task
    MaxMachines, \* bound: machines over which one group is spread
    MAX_RETRIES, \* retries after an overlap (2 in the code)
    NewStatuses, \* the statuses that operators set
    Kept         \* a column the transaction has not written

Statuses == {"planned", "scheduled", "in_progress", "completed", "wip_complete"}
Frozen   == {"in_progress", "completed", "wip_complete"}

ASSUME AutoScheduleAssumption ==
    /\ Batch \subseteq Nat
    /\ Batch = DOMAIN GroupOf
    /\ Headers \subseteq Batch /\ InStock \subseteq Batch
    /\ DueOf \in [Batch -> Nat]
    /\ \A p \in Places : p.start \in Nat /\ p.end \in Nat /\ p.start < p.end
    /\ MaxMachines \in Nat
    /\ MAX_RETRIES \in Nat
    /\ NewStatuses \subseteq {"planned", "in_progress", "completed"}
    /\ Kept \notin Statuses

VARIABLES
    tasks,       \* schedule_task: what is committed
    status,      \* production_batch.status: what is committed
    urgent,      \* the batches whose customer_priority a boost has set to 1
    txn,         \* what the job has written and not yet committed
    savepoint,   \* txn as it was when the boost retry began
    job          \* the job and where it is

vars == <<tasks, status, urgent, txn, savepoint, job>>

(* One task per group and machine; it names the first batch of the group.  *)
TaskRow == [batch : Batch, place : Places]

Txn == [deleted : SUBSET TaskRow, inserted : SUBSET TaskRow,
        status : [Batch -> Statuses \cup {Kept}], urgent : SUBSET Batch]

NoTxn == [deleted |-> {}, inserted |-> {}, status |-> [b \in Batch |-> Kept], urgent |-> {}]

(* depth is 1 inside the boost retry; lex says that the solver ended its   *)
(* lexicographic search, so that a boost could not help.                   *)
Job == [at : {"idle", "enter", "load", "place", "check", "commit"},
        state : {"none", "running", "done", "overlap_alert", "error"},
        use_cpsat : BOOLEAN, engine : {"cpsat", "greedy"}, lex : BOOLEAN,
        attempt : 0 .. MAX_RETRIES, depth : 0 .. 1, loaded : SUBSET Batch]

TypeOK ==
    /\ tasks \in SUBSET TaskRow
    /\ status \in [Batch -> Statuses]
    /\ urgent \in SUBSET Batch
    /\ txn \in Txn
    /\ savepoint \in Txn
    /\ job \in Job

(* After stage 1: nothing is placed.                                       *)
Init ==
    /\ tasks = {}
    /\ status = [b \in Batch |-> "planned"]
    /\ urgent = {}
    /\ txn = NoTxn
    /\ savepoint = NoTxn
    /\ job = [at |-> "idle", state |-> "none", use_cpsat |-> FALSE, engine |-> "greedy",
              lex |-> FALSE, attempt |-> 0, depth |-> 0, loaded |-> {}]

-----------------------------------------------------------------------------
(* What the job sees: the committed rows under its own changes.            *)

TasksIn(x) == (tasks \ x.deleted) \cup x.inserted

StatusIn(x) == [b \in Batch |-> IF x.status[b] = Kept THEN status[b] ELSE x.status[b]]

Overlap(p, q) == p.equipment = q.equipment /\ p.start < q.end /\ q.start < p.end

NoOverlap(T) == \A t, u \in T : t # u => ~Overlap(t.place, u.place)

(* u comes after t when the tasks of their machine are sorted by start.    *)
Follows(T, t, u) ==
    /\ t # u /\ t.place.equipment = u.place.equipment
    /\ t.place.start <= u.place.start
    /\ \A v \in T : v.place.equipment = t.place.equipment =>
          ~(t.place.start < v.place.start /\ v.place.start < u.place.start)

(* Mutant: the wrong end of the neighbour is looked at.                    *)
HasOverlapByEnd(T) == \E t, u \in T : Follows(T, t, u) /\ t.place.end > u.place.end

(* _check_overlap compares neighbours only.                                *)
HasOverlap(T) == \E t, u \in T : Follows(T, t, u) /\ t.place.end > u.place.start

Late(T) == {t \in T : t.place.end > DueOf[t.batch]}

LateMinutes(T) == MapThenSumSet(LAMBDA t : t.place.end - DueOf[t.batch], Late(T))

(* (count, minutes) in lexicographic order.                                *)
LessTardy(T, U) ==
    \/ Cardinality(Late(T)) < Cardinality(Late(U))
    \/ Cardinality(Late(T)) = Cardinality(Late(U)) /\ LateMinutes(T) < LateMinutes(U)

-----------------------------------------------------------------------------
(* The job *)

(* Mutant: batches stay "scheduled" although their tasks are gone.         *)
PurgeTasksOnly(x) ==
    LET gone == {t \in TasksIn(x) : StatusIn(x)[t.batch] \notin Frozen} IN
    [x EXCEPT !.deleted = @ \cup (gone \cap tasks), !.inserted = @ \ gone]

(* _purge_run_tasks: away with every task whose batch has not been started *)
(* and every "scheduled" batch is "planned" again.                         *)
Purge(x) ==
    LET gone == {t \in TasksIn(x) : StatusIn(x)[t.batch] \notin Frozen} IN
    [x EXCEPT !.deleted = @ \cup (gone \cap tasks),
              !.inserted = @ \ gone,
              !.status = [b \in Batch |-> IF StatusIn(x)[b] = "scheduled" THEN "planned" ELSE @[b]]]

FirstEngine(j) == IF j.use_cpsat THEN "cpsat" ELSE "greedy"

(* POST /stage2 or /stage2/async.                                          *)
Submit(use_cpsat) ==
    /\ job.at = "idle"
    /\ job' = [at |-> "enter", state |-> "running", use_cpsat |-> use_cpsat,
               engine |-> IF use_cpsat THEN "cpsat" ELSE "greedy", lex |-> FALSE,
               attempt |-> 0, depth |-> 0, loaded |-> {}]
    /\ UNCHANGED <<tasks, status, urgent, txn, savepoint>>

(* A run scheduled before is cleared first.                                *)
Enter ==
    /\ job.at = "enter"
    /\ txn' = IF TasksIn(txn) = {} THEN txn ELSE Purge(txn)
    /\ job' = [job EXCEPT !.at = "load"]
    /\ UNCHANGED <<tasks, status, urgent, savepoint>>

(* The engine reads the planned batches; those in stock are done with.     *)
Load ==
    /\ job.at = "load"
    /\ LET planned == {b \in Batch : StatusIn(txn)[b] = "planned"} IN
       /\ txn' = [txn EXCEPT !.status =
                     [b \in Batch |-> IF b \in planned \cap InStock THEN "wip_complete" ELSE @[b]]]
       /\ job' = [job EXCEPT !.at = "place", !.loaded = planned \ InStock]
    /\ UNCHANGED <<tasks, status, urgent, savepoint>>

(* No solution in time, or nothing to solve: the greedy engine takes over. *)
SolverGivesUp ==
    /\ job.at = "place" /\ job.engine = "cpsat"
    /\ txn' = Purge(txn)
    /\ job' = [job EXCEPT !.at = "load", !.engine = "greedy"]
    /\ UNCHANGED <<tasks, status, urgent, savepoint>>

Groups(B) == {GroupOf[b] : b \in B}

Rep(g, B) == Min({b \in B : GroupOf[b] = g})

(* placing[g] is where group g goes; {} when there is no suitable machine. *)
Placings(B) == [Groups(B) -> {P \in SUBSET Places : Cardinality(P) <= MaxMachines}]

Placed(placing, B) ==
    UNION {{[batch |-> Rep(g, B), place |-> p] : p \in placing[g]} : g \in Groups(B)}

(* Every group that found a place is "scheduled", whatever has happened to *)
(* its batches since they were read.                                       *)
Place(placing, lex) ==
    /\ job.at = "place"
    /\ lex => job.engine = "cpsat"
    /\ job.engine = "cpsat" => job.loaded # {}
    /\ Placed(placing, job.loaded) \cap TasksIn(txn) = {}
    /\ txn' = [txn EXCEPT !.inserted = @ \cup Placed(placing, job.loaded),
                          !.status = [b \in Batch |->
                              IF b \in job.loaded /\ placing[GroupOf[b]] # {} THEN "scheduled"
                              ELSE @[b]]]
    /\ job' = [job EXCEPT !.at = "check", !.lex = lex]
    /\ UNCHANGED <<tasks, status, urgent, savepoint>>

(* Mutant: the number of the attempt stays the same.                       *)
RetryEndlessly ==
    /\ job.at = "check"
    /\ HasOverlap(TasksIn(txn))
    /\ job.attempt < MAX_RETRIES
    /\ txn' = Purge(txn)
    /\ job' = [job EXCEPT !.at = "load", !.engine = FirstEngine(job)]
    /\ UNCHANGED <<tasks, status, urgent, savepoint>>

(* An overlap: everything is cleared and placed again.                     *)
Retry ==
    /\ job.at = "check"
    /\ HasOverlap(TasksIn(txn))
    /\ job.attempt < MAX_RETRIES
    /\ txn' = Purge(txn)
    /\ job' = [job EXCEPT !.at = "load", !.attempt = @ + 1, !.engine = FirstEngine(job)]
    /\ UNCHANGED <<tasks, status, urgent, savepoint>>

End(state) ==
    /\ txn' = NoTxn
    /\ savepoint' = NoTxn
    /\ job' = [job EXCEPT !.at = "idle", !.state = state, !.depth = 0, !.loaded = {}]

(* The third attempt overlaps too: the transaction is rolled back, with    *)
(* its savepoint.  Inside the boost retry the error is caught, but rolling *)
(* back a savepoint that is gone raises the next one, which nobody expects.*)
GiveUp ==
    /\ job.at = "check"
    /\ HasOverlap(TasksIn(txn))
    /\ job.attempt = MAX_RETRIES
    /\ End(IF job.depth = 0 THEN "overlap_alert" ELSE "error")
    /\ UNCHANGED <<tasks, status, urgent>>

BoostMayHelp == job.use_cpsat /\ ~job.lex /\ Late(TasksIn(txn)) # {}

Accept ==
    /\ job.at = "check" /\ job.depth = 0
    /\ ~HasOverlap(TasksIn(txn))
    /\ ~BoostMayHelp
    /\ job' = [job EXCEPT !.at = "commit"]
    /\ UNCHANGED <<tasks, status, urgent, txn, savepoint>>

(* _tardiness_boost_retry: late batches become urgent and all is placed    *)
(* again.  Of more than ten late tasks the code takes the worst ten.       *)
Boost ==
    /\ job.at = "check" /\ job.depth = 0
    /\ ~HasOverlap(TasksIn(txn))
    /\ BoostMayHelp
    /\ savepoint' = txn
    /\ txn' = [Purge(txn) EXCEPT !.urgent = @ \cup {t.batch : t \in Late(TasksIn(txn))}]
    /\ job' = [job EXCEPT !.at = "load", !.depth = 1, !.attempt = 0, !.engine = "cpsat"]
    /\ UNCHANGED <<tasks, status, urgent>>

(* Mutant: a retry that is no better is adopted as well.                   *)
EndBoostAlways ==
    /\ job.at = "check" /\ job.depth = 1
    /\ ~HasOverlap(TasksIn(txn))
    /\ txn' = txn
    /\ savepoint' = NoTxn
    /\ job' = [job EXCEPT !.at = "commit", !.depth = 0]
    /\ UNCHANGED <<tasks, status, urgent>>

(* The better plan stays; otherwise all is as it was.  That the count of   *)
(* the second plan fails, which the code takes for no delay, is left out:  *)
(* it reads what was read for the first plan, and when the database        *)
(* refuses that it refuses to release the savepoint, too, which is Fail.   *)
EndBoost ==
    /\ job.at = "check" /\ job.depth = 1
    /\ ~HasOverlap(TasksIn(txn))
    /\ txn' = IF LessTardy(TasksIn(txn), TasksIn(savepoint)) THEN txn ELSE savepoint
    /\ savepoint' = NoTxn
    /\ job' = [job EXCEPT !.at = "commit", !.depth = 0]
    /\ UNCHANGED <<tasks, status, urgent>>

Commit ==
    /\ job.at = "commit"
    /\ tasks' = TasksIn(txn)
    /\ status' = StatusIn(txn)
    /\ urgent' = urgent \cup txn.urgent
    /\ End("done")

(* Any other exception: the savepoint is rolled back and the first plan    *)
(* stays, or the whole transaction is rolled back.                         *)
Fail ==
    /\ job.at # "idle"
    /\ IF job.depth = 1
       THEN /\ txn' = savepoint
            /\ savepoint' = NoTxn
            /\ job' = [job EXCEPT !.at = "commit", !.depth = 0]
       ELSE End("error")
    /\ UNCHANGED <<tasks, status, urgent>>

-----------------------------------------------------------------------------
(* Operators.  A row the job has written is locked until the job ends.     *)

SetStatus(B, s) ==
    /\ \A b \in B : txn.status[b] = Kept
    /\ status' = [b \in Batch |-> IF b \in B THEN s ELSE status[b]]
    /\ UNCHANGED <<tasks, urgent, txn, savepoint, job>>

WithHeader(b) == {b} \cup {h \in Headers : GroupOf[h] = GroupOf[b]}

UpdateBatchStatus(b, s) == SetStatus(WithHeader(b), s)

UpdateBatch(b, s) == SetStatus({b}, s)

UpdateBatchGroupStatus(g, s) == SetStatus({b \in Batch : GroupOf[b] = g}, s)

-----------------------------------------------------------------------------
JobStep ==
    \/ Enter \/ Load \/ SolverGivesUp
    \/ \E placing \in Placings(job.loaded), lex \in BOOLEAN : Place(placing, lex)
    \/ Retry \/ GiveUp \/ Accept \/ Boost \/ EndBoost \/ Commit

Operator ==
    \E s \in NewStatuses :
       \/ \E b \in Batch : UpdateBatchStatus(b, s) \/ UpdateBatch(b, s)
       \/ \E g \in Groups(Batch) : UpdateBatchGroupStatus(g, s)

Next ==
    \/ \E use_cpsat \in BOOLEAN : Submit(use_cpsat)
    \/ JobStep
    \/ Fail
    \/ Operator

Spec == Init /\ [][Next]_vars

(* The job runs in a thread of its own and waits for nobody for ever.      *)
FairSpec == Spec /\ WF_vars(JobStep)

-----------------------------------------------------------------------------
(* No machine of a committed plan runs two tasks at once, whichever path   *)
(* of retries, fall-backs, boosts and rollbacks led to it.                 *)
PlanIsSound == NoOverlap(tasks)

HasTask(b, T) == \E t \in T : GroupOf[t.batch] = GroupOf[b]

(* A batch that is "scheduled" has a task of its group on the chart.  The  *)
(* next run loads "planned" batches only, so one without a task would      *)
(* never be placed again (the loss _purge_run_tasks warns of).             *)
ScheduledBatchesHaveTasks ==
    \A b \in Batch : status[b] = "scheduled" => HasTask(b, tasks)

(* When the boost retry is over the plan is less tardy than the first one, *)
(* or it is the first one and nothing the retry wrote is left.             *)
BoostHelpsOrLeavesNoTrace ==
    [][job.depth = 1 /\ job'.at = "commit" =>
          txn' = savepoint \/ LessTardy(TasksIn(txn'), TasksIn(savepoint))]_vars

(* A job that has been accepted comes to an end that its client can see.   *)
EveryJobEnds == job.state = "running" ~> job.state # "running"

(* The inductive invariant: whatever a job is about to commit, or may      *)
(* return to, has been checked against all tasks that will be there.       *)
JobInv ==
    /\ TypeOK
    /\ NoOverlap(tasks)
    /\ job.at = "commit" => NoOverlap(TasksIn(txn))
    /\ job.depth = 1 => job.at # "commit" /\ NoOverlap(TasksIn(savepoint))

(* "A failed retry does not prevent the schedule": once the boost retry    *)
(* has begun there is a plan, and the job does not end without one.        *)
BoostFailureKeepsPlan == [][job.depth = 1 => job'.state = "running"]_vars

(* The task of a batch that was started is preserved (_purge_run_tasks).   *)
(* The code looks at the batch that the task names, which need not be the  *)
(* started one of the group, so the code does not keep this.               *)
StartedBatchesKeepTheirTask ==
    [][\A b \in Batch : status[b] \in Frozen /\ HasTask(b, tasks) => HasTask(b, tasks')]_vars

=============================================================================
