-------------------------------- MODULE Snap --------------------------------
(***************************************************************************)
(* The in-memory snapshot of schedule_task that the cascade preview and    *)
(* the bulk update work on (application/cascade/snap.py and bfs.py), and   *)
(* the checks that bulk update runs on it before it writes                 *)
(* (application/validation/schedule_validators.py).                        *)
(*                                                                         *)
(* A plan maps every task id to its row, or to NoRow when schedule_task    *)
(* has none (any more); a plan also serves as a set of rows of some tasks. *)
(* Times are natural numbers: nothing here depends on the calendar.        *)
(***************************************************************************)
EXTENDS Integers

CONSTANTS
    Task,        \* task ids
    Equipment,   \* equipment codes
    LineOf,      \* LineOf[t]: the sales order line of t's batch, or NoLine
    NoLine,      \* sales_order_id or sales_order_line is NULL
    DueTasks,    \* the tasks whose batch has a due date
    NoRow        \* there is no such row

Row  == [start : Nat, end : Nat, equipment : Equipment]
Plan == [Task -> Row \cup {NoRow}]

ASSUME SnapAssumption ==
    /\ Task = DOMAIN LineOf
    /\ DueTasks \subseteq Task
    /\ NoRow \notin Row

Live(plan) == {t \in Task : plan[t] # NoRow}

(* Half-open intervals on one machine that meet in more than a boundary.   *)
Overlap(r, q) ==
    /\ r.equipment = q.equipment
    /\ q.start < r.end
    /\ r.start < q.end

(* The other tasks on t's equipment, earlier or later, that t overlaps.    *)
SameEquipmentOverlapping(t, plan) ==
    {o \in Live(plan) \ {t} : Overlap(plan[t], plan[o])}

SameLine(t, o) == LineOf[t] # NoLine /\ LineOf[o] = LineOf[t]

(* o started before t on t's order line and still runs when t starts.      *)
RunsInto(o, t, plan) ==
    /\ SameLine(t, o)
    /\ plan[o].start < plan[t].start
    /\ plan[o].end > plan[t].start

-----------------------------------------------------------------------------
(* The three checks, in the order bulk update runs them; each looks only   *)
(* at the tasks the request changed.                                       *)

(* Mutant: only the neighbour that starts before t is looked at.           *)
FindOverlapBehind(changed, plan) ==
    {t \in changed : \E o \in SameEquipmentOverlapping(t, plan) : plan[o].start < plan[t].start}

FindSameEqOverlap(changed, plan) ==
    {t \in changed : SameEquipmentOverlapping(t, plan) # {}}

(* t is only ever looked at as the successor.                              *)
FindPredecessorViolation(changed, plan) ==
    {t \in changed : \E o \in Live(plan) \ {t} : RunsInto(o, t, plan)}

(* production_batch.due_date is a DATE column and t.end a datetime: Python *)
(* refuses to order the two, so the comparison raises for every changed    *)
(* task that has a due date, late or not, and the request ends in a 500.   *)
DueDateComparisonRaises(changed) == changed \cap DueTasks # {}

Verdict(changed, plan) ==
    IF \/ FindSameEqOverlap(changed, plan) # {}
       \/ FindPredecessorViolation(changed, plan) # {}
    THEN "rejected"
    ELSE IF DueDateComparisonRaises(changed) THEN "error"
    ELSE "accept"

-----------------------------------------------------------------------------
(* What a plan promises: no machine runs two tasks at once.                *)
NoOverlap(plan) ==
    \A t, o \in Live(plan) : t # o => ~Overlap(plan[t], plan[o])

(* What an order line promises: a process that starts before another one   *)
(* of the line is over when that one starts.                               *)
ChainInOrder(plan) ==
    \A t, o \in Live(plan) : t # o => ~RunsInto(o, t, plan)

=============================================================================
