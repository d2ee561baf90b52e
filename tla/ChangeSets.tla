----------------------------- MODULE ChangeSets -----------------------------
(***************************************************************************)
(* Manual changes of the schedule and their undo: the endpoints that move  *)
(* rows of schedule_task and the table schedule_change_sets that lets the  *)
(* last change be reverted.                                                *)
(*                                                                         *)
(*   POST  /tasks/bulk-update         bulk_update_v2                       *)
(*   POST  /revert/{change_set_id}    revert                               *)
(*   PATCH /tasks/bulk-update-legacy  bulk_update_tasks_legacy             *)
(*   PUT   /tasks/{task_id}           update_task (database path)          *)
(*                                                                         *)
(* Each request runs in a thread of its own with a session of its own, at  *)
(* READ COMMITTED, and takes no lock while it decides: it reads and checks *)
(* in one step and writes in a later one.  The ORM writes a column only    *)
(* when the request gave it a value other than the one it had read, and    *)
(* fails the whole transaction when a row it must update is gone.          *)
(***************************************************************************)
EXTENDS Snap

CONSTANTS
    Session,     \* request threads; one session means requests never overlap
    Endpoints,   \* the endpoints in use, a subset of EndpointNames
    Slots,       \* the [start, end] pairs requests ask for
    Keep,        \* new_equipment_code = None: stay on the machine
    Fits,        \* Fits[e]: the tasks update_task accepts on equipment e
    CascadeV2,   \* FEATURE_FLAG_CASCADE_V2
    MaxChangeSets  \* bound: change sets ever inserted

VARIABLES
    schedule,    \* schedule_task: a plan
    change_sets, \* schedule_change_sets: a set of rows
    clock,       \* the next created_at
    txn,         \* txn[s]: what session s has read and is about to write
    reply        \* reply[s]: the last answer session s gave

vars == <<schedule, change_sets, clock, txn, reply>>

EndpointNames == {"bulk_update", "revert", "bulk_update_legacy", "update_task",
                  "delete_tasks"}

ASSUME ChangeSetsAssumption ==
    /\ Endpoints \subseteq EndpointNames
    /\ Slots \subseteq [start : Nat, end : Nat]
    /\ Keep \notin Equipment
    /\ Fits \in [Equipment -> SUBSET Task]
    /\ CascadeV2 \in BOOLEAN
    /\ MaxChangeSets \in Nat

ChangeSet == [created_at : Nat, before : Plan, after : Plan]

(* op "none" is an idle session.  "from" holds the rows as they were read, *)
(* "to" the same rows as they are to be; "stamp" is the created_at of the  *)
(* change set that an update inserts ("stamped") or a revert deletes.      *)
Txn == [op : {"none", "validated", "stamped", "revert", "direct"},
        from : Plan, to : Plan, stamp : Nat]

NoRows == [t \in Task |-> NoRow]
Idle   == [op |-> "none", from |-> NoRows, to |-> NoRows, stamp |-> 0]

(* 2xx, 4xx and 5xx; "none" while the request runs.                        *)
Replies == {"none", "ok", "rejected", "error"}

TypeOK ==
    /\ schedule \in Plan
    /\ change_sets \subseteq ChangeSet
    /\ clock \in 1 .. MaxChangeSets + 1
    /\ txn \in [Session -> Txn]
    /\ reply \in [Session -> Replies]

(* The plan a scheduler run leaves behind: every task placed, checked by   *)
(* validate_overlap_only before it is committed.                           *)
Init ==
    /\ schedule \in [Task -> {[start |-> w.start, end |-> w.end, equipment |-> e] :
                                w \in {v \in Slots : v.start < v.end},
                                e \in Equipment}]
    /\ NoOverlap(schedule) /\ ChainInOrder(schedule)
    /\ change_sets = {}
    /\ clock = 1
    /\ txn = [s \in Session |-> Idle]
    /\ reply = [s \in Session |-> "none"]

-----------------------------------------------------------------------------
(* Requests *)

Change  == [slot : Slots, equipment : Equipment \cup {Keep}]
Changes == UNION {[D -> Change] : D \in SUBSET Task \ {{}}}

(* The row that change c makes of row r.                                   *)
Target(r, c) ==
    [start |-> c.slot.start, end |-> c.slot.end,
     equipment |-> IF c.equipment = Keep THEN r.equipment ELSE c.equipment]

RowsOf(plan, D) == [t \in Task |-> IF t \in D THEN plan[t] ELSE NoRow]

(* What the flush writes: the columns that differ from the values read.    *)
WriteColumns(r, from, to) ==
    [start     |-> IF to.start = from.start THEN r.start ELSE to.start,
     end       |-> IF to.end = from.end THEN r.end ELSE to.end,
     equipment |-> IF to.equipment = from.equipment THEN r.equipment
                   ELSE to.equipment]

(* Mutant: rows deleted since they were read are passed over.              *)
DirtyPresent(x) == {t \in Live(x.to) : schedule[t] # NoRow /\ x.to[t] # x.from[t]}

Dirty(x) == {t \in Live(x.to) : x.to[t] # x.from[t]}

Flushed(x) ==
    [t \in Task |-> IF t \in Dirty(x)
                    THEN WriteColumns(schedule[t], x.from[t], x.to[t])
                    ELSE schedule[t]]

(* An UPDATE that matches no row makes the ORM abandon the transaction.    *)
RowVanished(x) == \E t \in Dirty(x) : schedule[t] = NoRow

Answer(s, r) ==
    /\ txn' = [txn EXCEPT ![s] = Idle]
    /\ reply' = [reply EXCEPT ![s] = r]

Proceed(s, x) ==
    /\ txn' = [txn EXCEPT ![s] = x]
    /\ reply' = [reply EXCEPT ![s] = "none"]

AbandonOnVanishedRow(s) ==
    /\ RowVanished(txn[s])
    /\ Answer(s, "error")
    /\ UNCHANGED <<schedule, change_sets, clock>>

-----------------------------------------------------------------------------
(* POST /tasks/bulk-update *)

(* Changes that ask for what the row already is are dropped.               *)
RealChanges(ch) == {t \in DOMAIN ch : Target(schedule[t], ch[t]) # schedule[t]}

Applied(ch) ==
    [t \in Task |-> IF t \in RealChanges(ch) THEN Target(schedule[t], ch[t])
                    ELSE schedule[t]]

(* What the request is answered before anything is written, or "accept".   *)
Screening(ch) ==
    IF ~CascadeV2 /\ \E t, o \in DOMAIN ch : t # o THEN "rejected"
    ELSE IF \E t \in DOMAIN ch : schedule[t] = NoRow THEN "rejected"
    ELSE IF RealChanges(ch) = {} THEN "ok"
    ELSE Verdict(RealChanges(ch), Applied(ch))

BulkUpdateAnswer(s, ch) ==
    /\ "bulk_update" \in Endpoints
    /\ txn[s].op = "none"
    /\ LET answer == Screening(ch) IN answer # "accept" /\ Answer(s, answer)
    /\ UNCHANGED <<schedule, change_sets, clock>>

BulkUpdateValidate(s, ch) ==
    /\ "bulk_update" \in Endpoints
    /\ txn[s].op = "none"
    /\ Screening(ch) = "accept"
    /\ clock <= MaxChangeSets
    /\ Proceed(s, [op |-> "validated",
                   from |-> RowsOf(schedule, RealChanges(ch)),
                   to |-> RowsOf(Applied(ch), RealChanges(ch)),
                   stamp |-> 0])
    /\ UNCHANGED <<schedule, change_sets, clock>>

(* commit() flushes: the change set is INSERTed first, and created_at is   *)
(* taken from the clock at that moment.                                    *)
BulkUpdateInsert(s) ==
    /\ txn[s].op = "validated"
    /\ clock <= MaxChangeSets
    /\ clock' = clock + 1
    /\ Proceed(s, [op |-> "stamped", from |-> txn[s].from, to |-> txn[s].to,
                   stamp |-> clock])
    /\ UNCHANGED <<schedule, change_sets>>

(* ... then the tasks are UPDATEd and the transaction commits.             *)
BulkUpdateCommit(s) ==
    /\ txn[s].op = "stamped"
    /\ ~RowVanished(txn[s])
    /\ schedule' = Flushed(txn[s])
    /\ change_sets' = change_sets \cup
           {[created_at |-> txn[s].stamp, before |-> txn[s].from, after |-> txn[s].to]}
    /\ Answer(s, "ok")
    /\ UNCHANGED clock

BulkUpdateAbandon(s) ==
    /\ txn[s].op = "stamped"
    /\ AbandonOnVanishedRow(s)

-----------------------------------------------------------------------------
(* POST /revert/{change_set_id} *)

(* Mutant: the freshness check is missing.                                 *)
NewerUnchecked(cs) == {}

Newer(cs) == {c \in change_sets : c.created_at > cs.created_at}

(* An id that is not, or no longer, in the table.                          *)
RevertUnknown(s) ==
    /\ "revert" \in Endpoints
    /\ txn[s].op = "none"
    /\ Answer(s, "rejected")
    /\ UNCHANGED <<schedule, change_sets, clock>>

RevertRefuse(s, cs) ==
    /\ "revert" \in Endpoints
    /\ txn[s].op = "none"
    /\ Newer(cs) # {}
    /\ Answer(s, "rejected")
    /\ UNCHANGED <<schedule, change_sets, clock>>

(* Mutant: the old end is not restored.                                    *)
RevertReadStart(s, cs) ==
    /\ "revert" \in Endpoints
    /\ txn[s].op = "none"
    /\ Newer(cs) = {}
    /\ LET present == Live(cs.before) \cap Live(schedule) IN
       Proceed(s, [op |-> "revert",
                   from |-> RowsOf(schedule, present),
                   to |-> [t \in Task |-> IF t \in present
                                         THEN [cs.before[t] EXCEPT !.end = schedule[t].end]
                                         ELSE NoRow],
                   stamp |-> cs.created_at])
    /\ UNCHANGED <<schedule, change_sets, clock>>

(* Tasks deleted since are skipped; the others are given their old values. *)
RevertRead(s, cs) ==
    /\ "revert" \in Endpoints
    /\ txn[s].op = "none"
    /\ Newer(cs) = {}
    /\ LET present == Live(cs.before) \cap Live(schedule) IN
       Proceed(s, [op |-> "revert",
                   from |-> RowsOf(schedule, present),
                   to |-> RowsOf(cs.before, present),
                   stamp |-> cs.created_at])
    /\ UNCHANGED <<schedule, change_sets, clock>>

(* Mutant: the rows are merged, which inserts those that are gone.         *)
RevertCommitMerging(s) ==
    /\ txn[s].op = "revert"
    /\ schedule' = [t \in Task |-> IF t \in Live(txn[s].to) THEN txn[s].to[t] ELSE schedule[t]]
    /\ change_sets' = {c \in change_sets : c.created_at # txn[s].stamp}
    /\ Answer(s, "ok")
    /\ UNCHANGED clock

(* A change set another revert has deleted meanwhile is no error.          *)
RevertCommit(s) ==
    /\ txn[s].op = "revert"
    /\ ~RowVanished(txn[s])
    /\ schedule' = Flushed(txn[s])
    /\ change_sets' = {c \in change_sets : c.created_at # txn[s].stamp}
    /\ Answer(s, "ok")
    /\ UNCHANGED clock

RevertAbandon(s) ==
    /\ txn[s].op = "revert"
    /\ AbandonOnVanishedRow(s)

-----------------------------------------------------------------------------
(* Writers that neither check the plan nor leave a change set *)

(* PATCH /tasks/bulk-update-legacy: times only.                            *)
LegacyRead(s, ch) ==
    /\ "bulk_update_legacy" \in Endpoints
    /\ txn[s].op = "none"
    /\ \A t \in DOMAIN ch : ch[t].equipment = Keep /\ schedule[t] # NoRow
    /\ Proceed(s, [op |-> "direct",
                   from |-> RowsOf(schedule, DOMAIN ch),
                   to |-> [t \in Task |-> IF t \in DOMAIN ch THEN Target(schedule[t], ch[t])
                                       ELSE NoRow],
                   stamp |-> 0])
    /\ UNCHANGED <<schedule, change_sets, clock>>

(* PUT /tasks/{id}: one task; the machine must suit the product.           *)
UpdateTaskRead(s, t, c) ==
    /\ "update_task" \in Endpoints
    /\ txn[s].op = "none"
    /\ schedule[t] # NoRow
    /\ c.equipment = Keep \/ (c.equipment # Keep /\ t \in Fits[c.equipment])
    /\ Proceed(s, [op |-> "direct",
                   from |-> RowsOf(schedule, {t}),
                   to |-> [NoRows EXCEPT ![t] = Target(schedule[t], c)],
                   stamp |-> 0])
    /\ UNCHANGED <<schedule, change_sets, clock>>

(* Either of them: a missing task, or one the machine cannot make.         *)
DirectRefuse(s, t, c) ==
    /\ txn[s].op = "none"
    /\ \/ /\ Endpoints \cap {"bulk_update_legacy", "update_task"} # {}
          /\ schedule[t] = NoRow
          /\ Answer(s, "rejected")
       \/ /\ "update_task" \in Endpoints
          /\ schedule[t] # NoRow
          /\ c.equipment # Keep /\ t \notin Fits[c.equipment]
          /\ Answer(s, "rejected")
    /\ UNCHANGED <<schedule, change_sets, clock>>

DirectCommit(s) ==
    /\ txn[s].op = "direct"
    /\ ~RowVanished(txn[s])
    /\ schedule' = Flushed(txn[s])
    /\ Answer(s, "ok")
    /\ UNCHANGED <<change_sets, clock>>

DirectAbandon(s) ==
    /\ txn[s].op = "direct"
    /\ AbandonOnVanishedRow(s)

(* A rescheduling run or a batch group split deletes rows of schedule_task *)
(* and leaves schedule_change_sets as it is.                               *)
DeleteTasks(D) ==
    /\ "delete_tasks" \in Endpoints
    /\ D # {} /\ D \subseteq Live(schedule)
    /\ schedule' = [t \in Task |-> IF t \in D THEN NoRow ELSE schedule[t]]
    /\ UNCHANGED <<change_sets, clock, txn, reply>>

-----------------------------------------------------------------------------
Begin(s) ==
    \/ \E ch \in Changes : \/ BulkUpdateAnswer(s, ch)
                           \/ BulkUpdateValidate(s, ch)
                           \/ LegacyRead(s, ch)
    \/ RevertUnknown(s)
    \/ \E cs \in change_sets : RevertRefuse(s, cs) \/ RevertRead(s, cs)
    \/ \E t \in Task, c \in Change : UpdateTaskRead(s, t, c) \/ DirectRefuse(s, t, c)

(* A request that has read goes on by itself.                              *)
Finish(s) ==
    \/ BulkUpdateInsert(s) \/ BulkUpdateCommit(s) \/ BulkUpdateAbandon(s)
    \/ RevertCommit(s) \/ RevertAbandon(s)
    \/ DirectCommit(s) \/ DirectAbandon(s)

Next ==
    \/ \E s \in Session : Begin(s) \/ Finish(s)
    \/ \E D \in SUBSET Task : DeleteTasks(D)

Spec == Init /\ [][Next]_vars

-----------------------------------------------------------------------------
(* The undo stack.  Undoing every change set from the newest down to the   *)
(* one created at k would give each task the value that the oldest of them *)
(* recorded for it.                                                        *)

Since(k, t) == {c \in change_sets : c.created_at >= k /\ t \in Live(c.before)}

Oldest(C) == CHOOSE c \in C : \A d \in C : c.created_at <= d.created_at

RowBefore(k, t) ==
    IF Since(k, t) = {} THEN schedule[t] ELSE Oldest(Since(k, t)).before[t]

PlanBefore(k) == [t \in Task |-> RowBefore(k, t)]

Past == {[version |-> c.created_at, plan |-> PlanBefore(c.created_at)] :
            c \in change_sets}

FullPlans == {p \in [Task -> Row] : NoOverlap(p)}

Undoable == INSTANCE UndoStack WITH Plans <- FullPlans, plan <- schedule, past <- Past

-----------------------------------------------------------------------------
(* Properties of serial use: requests do not overlap in time, and only     *)
(* bulk update and revert write.                                           *)
Serial == (\E s : Session = {s}) /\ Endpoints \subseteq {"bulk_update", "revert"}

(* No machine is ever given two tasks at once.  bulk_update_v2 checks only *)
(* the changed tasks, and revert checks nothing at all: it relies on every *)
(* earlier plan having been sound.                                         *)
MachineRunsOneTask == NoOverlap(schedule)

(* The change sets form a chain: what the newest change set naming a task  *)
(* says it set is what the task has now, and what an older one set is what *)
(* the next one found.  revert restores "before" blindly, so this is what  *)
(* makes an undo an undo.                                                  *)
ChainIntact ==
    \A c \in change_sets : \A t \in Live(c.after) :
       RowBefore(c.created_at + 1, t) = c.after[t]

(* bulk_update_v2 and revert implement the undo stack.                     *)
ImplementsUndoStack == Undoable!Spec

(* What makes these inductive: every plan an undo can reach is sound, and  *)
(* a request that waits to write still sees what it read.                  *)
Installs(x) ==
    [t \in Task |-> IF t \in Live(x.to) THEN x.to[t] ELSE schedule[t]]

EditPending(x) ==
    /\ x.from = RowsOf(schedule, Live(x.to))
    /\ Live(x.to) # {}
    /\ \A t \in Live(x.to) : x.to[t] # x.from[t]
    /\ NoOverlap(Installs(x))

UndoPending(x) ==
    \E c \in change_sets :
       /\ c.created_at = x.stamp
       /\ Newer(c) = {}
       /\ x.from = RowsOf(schedule, Live(c.before))
       /\ x.to = c.before

PendingIntact ==
    \A s \in Session :
       LET x == txn[s] IN
       /\ x.op # "direct"
       /\ x.op \in {"validated", "stamped"} => EditPending(x)
       /\ x.op = "stamped" => /\ x.stamp < clock
                              /\ \A c \in change_sets : c.created_at < x.stamp
       /\ x.op = "revert" => UndoPending(x)

UndoInv ==
    /\ TypeOK
    /\ schedule \in FullPlans
    /\ \A c \in change_sets : /\ c.created_at < clock
                              /\ PlanBefore(c.created_at) \in FullPlans
    /\ \A c, d \in change_sets : c.created_at = d.created_at => c = d
    /\ ChainIntact
    /\ PendingIntact

(* Properties of any use: every endpoint, any number of sessions at once.  *)

(* A change set in the table was carried out: when it appears, every       *)
(* column it set has the value it records, although rows may be deleted    *)
(* between the request's check and its commit.                             *)
RecordedChangesHappened ==
    [][\A c \in change_sets' \ change_sets : \A t \in Live(c.after) :
          /\ schedule'[t] # NoRow
          /\ c.after[t].start # c.before[t].start => schedule'[t].start = c.after[t].start
          /\ c.after[t].end # c.before[t].end => schedule'[t].end = c.after[t].end
          /\ c.after[t].equipment # c.before[t].equipment
                => schedule'[t].equipment = c.after[t].equipment]_vars

(* Neither an undo nor a late commit brings back a task that a reschedule  *)
(* or a split has deleted.                                                 *)
DeletedStaysDeleted ==
    [][\A t \in Task : schedule[t] = NoRow => schedule'[t] = NoRow]_vars

(* The tasks of one change set were checked against each other: their new  *)
(* rows fit on the machines together, whatever other sessions do.          *)
ChangeSetsAreSound ==
    \A c \in change_sets : \A t, u \in Live(c.after) :
       t # u => ~Overlap(c.after[t], c.after[u])

(* An undo gives every task of the change set the complete row recorded    *)
(* before the change, whatever other endpoints have written to it since,   *)
(* unless the row was changed again, or deleted, while the undo ran.       *)
UndoRestoresRecordedRows ==
    [][\A s \in Session, c \in change_sets :
          RevertCommit(s) /\ txn[s].stamp = c.created_at =>
             \A t \in Live(c.before) :
                schedule[t] # NoRow /\ schedule[t] = txn[s].from[t]
                   => schedule'[t] = c.before[t]]_vars

-----------------------------------------------------------------------------
(* What the documents say of the program and the code does not do.         *)

(* Undo is refused as soon as a newer change set exists (design document   *)
(* of the cascade, 5.4 and case E15); the revert looks for one when it     *)
(* starts and not again when it commits.                                   *)
UndoOnlyNewest ==
    [][\A c \in change_sets \ change_sets' : \A d \in change_sets' :
          d.created_at <= c.created_at]_vars

(* "Only the last one, safely": an undo replaces values that its change    *)
(* set wrote.  The freshness check sees change sets only, and update_task  *)
(* leaves none.                                                            *)
UndoReplacesOwnChange ==
    [][\A c \in change_sets \ change_sets' : \A t \in Live(c.after) :
          schedule[t] \in {c.after[t], NoRow}]_vars

(* A successor never starts before its predecessor has ended.  The check   *)
(* looks at a changed task as the successor only, so a change of the       *)
(* predecessor alone passes.                                               *)
OrderLineStaysInOrder == ChainInOrder(schedule)

(* A due date leads to an answer, a 422 or none: it never breaks the       *)
(* request.                                                                *)
RequestsAreAnswered == \A s \in Session : reply[s] # "error"

(* The server refuses a task whose end is not after its start (case E2).   *)
TasksHaveDuration == \A t \in Live(schedule) : schedule[t].start < schedule[t].end

=============================================================================
