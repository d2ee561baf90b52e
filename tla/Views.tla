-------------------------------- MODULE Views --------------------------------
(***************************************************************************)
(* What a planner is shown before a manual change or an undo, all of it    *)
(* read from the tables and written nowhere:                               *)
(*                                                                         *)
(*   GET /schedules/change-sets/{id}/diff    what a change set has changed *)
(*   GET /decisions/{batch_id}/alternatives  the machines a batch may go to*)
(*                                                                         *)
(* Both answer from one read of the plan, while the change that they lead  *)
(* to is judged by the code of ChangeSets.                                 *)
(***************************************************************************)
EXTENDS ChangeSets, FiniteSets

CONSTANTS
    BatchOf,     \* BatchOf[t]: the batch of task t
    CreatedAt,   \* CreatedAt[t]: when t was created
    Batch,       \* rows of production_batch, by id
    Machine,     \* rows of equipment_master, by code
    Null,        \* a column that is NULL
    DayTicks     \* length of a day

ASSUME ViewsAssumption ==
    /\ IsFiniteSet(Task)
    /\ BatchOf \in [Task -> DOMAIN Batch]
    /\ CreatedAt \in [Task -> Nat]
    /\ DOMAIN Machine = Equipment
    /\ DayTicks \in Nat \ {0}

LOCAL Sets == INSTANCE FiniteSetsExt

-----------------------------------------------------------------------------
(* get_change_set_diff *)

Delta(r, q) == [start |-> q.start - r.start, end |-> q.end - r.end]

(* _build_task_meta_map, _merge_meta: of tasks that are still there.       *)
TaskMeta(t) ==
    IF schedule[t] = NoRow THEN [batch |-> Null, is_urgent |-> FALSE]
    ELSE [batch |-> BatchOf[t],
          is_urgent |-> Batch[BatchOf[t]].priority # Null /\ Batch[BatchOf[t]].priority <= 7]

(* Mutant: a task that only changed machines is not shown.                 *)
DiffOfTimes(cs) ==
    LET moved == {t \in Live(cs.before) \cap Live(cs.after) :
                     Delta(cs.before[t], cs.after[t]) # [start |-> 0, end |-> 0]}
    IN  [moved |-> [t \in moved |-> [old |-> cs.before[t], new |-> cs.after[t],
                                     delta |-> Delta(cs.before[t], cs.after[t]), meta |-> TaskMeta(t)]],
         added |-> [t \in {} |-> NoRow], removed |-> [t \in {} |-> NoRow], unchanged |-> {}]

Diff(cs) ==
    LET common == Live(cs.before) \cap Live(cs.after)
        moved  == {t \in common : cs.before[t] # cs.after[t]}
    IN  [moved     |-> [t \in moved |-> [old |-> cs.before[t], new |-> cs.after[t],
                                         delta |-> Delta(cs.before[t], cs.after[t]), meta |-> TaskMeta(t)]],
         added     |-> [t \in Live(cs.after) \ Live(cs.before) |-> cs.after[t]],
         removed   |-> [t \in Live(cs.before) \ Live(cs.after) |-> cs.before[t]],
         unchanged |-> common \ moved]

-----------------------------------------------------------------------------
(* compute_alternatives *)

(* The newest task of the batch: a block that was cut has several.         *)
CurrentTask(b) ==
    CHOOSE t \in Live(schedule) :
       /\ BatchOf[t] = b
       /\ \A o \in Live(schedule) : BatchOf[o] = b => CreatedAt[o] <= CreatedAt[t]

IsCompatible(b, e) ==
    LET batch == Batch[b]  machine == Machine[e] IN
    /\ batch.sq # Null => /\ machine.min # Null => machine.min <= batch.sq
                          /\ machine.max # Null => batch.sq <= machine.max
    /\ machine.material \notin {Null, "ALL"} => batch.material \in {Null, machine.material}
    /\ machine.colors # Null => batch.color = Null \/ batch.color \in machine.colors

Compatible(b) == {e \in Equipment : Machine[e].process = Batch[b].process /\ IsCompatible(b, e)}

(* Mutant: a task that begins before the slot is not in its way.           *)
ConflictsBegunIn(b, e, r) ==
    {o \in Live(schedule) : /\ schedule[o].equipment = e /\ BatchOf[o] # b
                            /\ r.start <= schedule[o].start /\ schedule[o].start < r.end}

Conflicts(b, e, r) ==
    {o \in Live(schedule) : /\ schedule[o].equipment = e /\ BatchOf[o] # b
                            /\ schedule[o].start < r.end /\ r.start < schedule[o].end}

EarliestAvailable(b, e, r) ==
    IF Conflicts(b, e, r) = {} THEN r.start
    ELSE Sets!Max({schedule[o].end : o \in Conflicts(b, e, r)})

DelayDays(b, finish) ==
    IF Batch[b].due = Null THEN Null ELSE Sets!Max({0, finish \div DayTicks - Batch[b].due})

(* _evaluate_equipment, of the place that the newest task has.             *)
Evaluate(b, e, r) ==
    [equipment          |-> e,
     is_current         |-> e = r.equipment,
     conflict_count     |-> Cardinality(Conflicts(b, e, r)),
     earliest_available |-> EarliestAvailable(b, e, r),
     delay_days         |-> DelayDays(b, EarliestAvailable(b, e, r) + r.end - r.start)]

Unevaluated(e) ==
    [equipment |-> e, is_current |-> FALSE, conflict_count |-> 0,
     earliest_available |-> Null, delay_days |-> Null]

Alternatives(b) ==
    IF \E t \in Live(schedule) : BatchOf[t] = b
    THEN {Evaluate(b, e, schedule[CurrentTask(b)]) : e \in Compatible(b)}
    ELSE {Unevaluated(e) : e \in Compatible(b)}

-----------------------------------------------------------------------------
(* Properties *)

(* What the screen of a change set shows is what its undo takes back:      *)
(* with one request at a time and no other writer, the tasks that move     *)
(* when a change set is reverted are those shown as moved, from the new    *)
(* values that were shown to the old ones, and none is shown as added,     *)
(* removed or unchanged.                                                   *)
DiffShowsTheUndo ==
    [][\A cs \in change_sets \ change_sets' : \E d \in {Diff(cs)} :
          /\ {t \in Task : schedule'[t] # schedule[t]} = DOMAIN d.moved
          /\ \A t \in DOMAIN d.moved : /\ schedule[t] = d.moved[t].new
                                       /\ schedule'[t] = d.moved[t].old
          /\ DOMAIN d.added \cup DOMAIN d.removed \cup d.unchanged = {}]_vars

TaskIn(t, e) == [schedule EXCEPT ![t].equipment = e]

(* "0: free to move" (alternatives.py:50): a machine without a conflict    *)
(* takes the newest task of the batch as it is, and the bulk update that   *)
(* moves it finds no overlap, unless another task of the same batch is     *)
(* there, which the count leaves out.                                      *)
FreeMachinesTakeTheTask ==
    \A b \in DOMAIN Batch : \A a \in Alternatives(b) :
       (a.earliest_available # Null /\ a.conflict_count = 0) =>
          \A t \in {CurrentTask(b)} :
             \/ FindSameEqOverlap({t}, TaskIn(t, a.equipment)) = {}
             \/ \E o \in SameEquipmentOverlapping(t, TaskIn(t, a.equipment)) : BatchOf[o] = b

(* What the documents say and the code does not do: "the earliest time at  *)
(* which it can start on this machine when all conflicts are avoided"      *)
(* (alternatives.py:52) is the latest end of what is in the way of the     *)
(* present slot; what comes after that is not looked at.                   *)
EarliestIsFree ==
    \A b \in DOMAIN Batch : \A a \in Alternatives(b) :
       a.earliest_available # Null =>
          \A t \in {CurrentTask(b)} :
             \E plan \in {[schedule EXCEPT ![t] =
                   [start |-> a.earliest_available, equipment |-> a.equipment,
                    end |-> a.earliest_available + schedule[t].end - schedule[t].start]]} :
                FindSameEqOverlap({t}, plan) = {}

=============================================================================
