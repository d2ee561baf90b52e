---------------------------- MODULE PlanChecker ----------------------------
(***************************************************************************)
(* The checker of finished plans (constraint_checker.py, _checks_*.py): it *)
(* reads the tasks, their batches and the machines again and says which    *)
(* constraints they break, knowing nothing of how they were placed.  What  *)
(* it returns is part of the answer to stage 2.                            *)
(*                                                                         *)
(* A violation is <<constraint, severity, task>>; the task is 0 where the  *)
(* row names none.  What the plan's records do not hold of a batch or a    *)
(* machine, and only the checker reads, is in Note and HoursADay.          *)
(***************************************************************************)
EXTENDS Greedy

CONSTANTS
    Enabled,         \* the constraints with is_enabled
    Unreadable,      \* those of them whose params_json their checker cannot use
    Params,          \* what the others' params_json says
    Note,            \* of each group: arrival, buffer, gc
    HoursADay,       \* base_working_hours of a machine
    B100Codes,       \* the machines whose code begins with B100
    Today            \* the day of the check

Tasks == {i \in DOMAIN plan : ~plan[i].gone}

Batch(i) == Note[plan[i].group]

Row(code) == Machines[CHOOSE k \in DOMAIN Machines : Machines[k].code = code]

Ahead(i, j) ==
    /\ plan[i].machine = plan[j].machine
    /\ plan[i].start < plan[j].start \/ (plan[i].start = plan[j].start /\ i < j)

(* Consecutive tasks of a machine, in the order of their starts.           *)
Neighbours == {p \in Tasks \X Tasks : Ahead(p[1], p[2]) /\ ~ \E k \in Tasks : Ahead(p[1], k) /\ Ahead(k, p[2])}

(* predecessor_task_id: the first task of the group that had been placed   *)
(* last with the order of the task's first batch.                          *)
PredecessorTask(i) ==
    LET begun  == Min({k \in DOMAIN plan : plan[k].group = plan[i].group})
        before == {k \in Made : k < begun /\ \E o \in DOMAIN GroupAt(k).orders : GroupAt(k).orders[o].order = plan[i].order}
    IN  IF plan[i].kept \/ before = {} THEN {}
        ELSE {Min({k \in before : plan[k].group = plan[Max(before)].group})} \cap Tasks

Rows(id, severity, tasks) == {<<id, severity, i>> : i \in tasks}

-----------------------------------------------------------------------------
(* Always checked *)

CheckOverlap == Rows("overlap", "error", {p[2] : p \in {q \in Neighbours : plan[q[1]].end > plan[q[2]].start}})

CheckDelivery == Rows("1-1", "error", {i \in Tasks : Day(plan[i].end) > plan[i].due})

-----------------------------------------------------------------------------
(* Checked if they are enabled *)

CheckPriorityOrder ==
    Rows("1-1", "warning", {p[1] : p \in {q \in Neighbours :
        GroupAt(q[1]).prio > GroupAt(q[2]).prio /\ plan[q[1]].due > plan[q[2]].due}})

(* Customers who count the arrival have their goods on the road.           *)
CheckDueType ==
    Rows("1-2", "warning", {i \in Tasks : Batch(i).arrival /\ Day(plan[i].end) > plan[i].due - Params.transport_days})

CheckColorGroup ==
    Rows("3-3", "error", {i \in Tasks : /\ Row(plan[i].machine).darkOnly
                                        /\ GroupAt(i).color \notin {"", "black", "blue"}})

(* The setup between tasks i and j, whichever of them it was written to.   *)
SetupLacking(i, j) ==
    LET required  == Max({plan[i].setup, plan[j].setup})
        effective == plan[j].start - plan[i].end + plan[i].setup + plan[j].setup
    IN  required > 0 /\ 2 * effective < required

CheckSetupTime ==
    Rows("4-1", "warning", {p[2] : p \in {q \in Neighbours :
        GroupAt(q[1]).sq # GroupAt(q[2]).sq /\ SetupLacking(q[1], q[2])}})

CheckSqRange ==
    Rows("5-1", "error", {i \in Tasks : LET m == Row(plan[i].machine) IN
        \/ m.min # 0 /\ GroupAt(i).sq < m.min
        \/ m.max # 0 /\ GroupAt(i).sq > m.max})

CheckSafetyEducation ==
    Rows("6-1", "warning", {i \in Tasks : Day(plan[i].start) \in LastMondays /\ Clock(plan[i].start) < Ticks(10)})

CheckFridayHours ==
    Rows("6-2", "warning", {i \in Tasks : WeekDay(Day(plan[i].start)) = 5 /\ Clock(plan[i].start) < Ticks(8)})

(* The tasks that begin on a day, against the hours of those present.      *)
CheckAbsenceHours ==
    LET used(d) == MapThenSumSet(LAMBDA i : plan[i].end - plan[i].start, {i \in Tasks : Day(plan[i].start) = d})
        left    == Ticks(Params.daily_available_hours - Params.absence_reduction_hours)
    IN  {<<"6-3", "warning", 0>> :
            d \in {x \in {Day(plan[i].start) : i \in Tasks} : Params.absence_reduction_hours > 0 /\ used(x) > left}}

CheckHoliday == Rows("6-4", "error", {i \in Tasks : Day(plan[i].start) \in Holidays})

CheckDefectBuffer == Rows("7-1", "warning", {i \in Tasks : ~Batch(i).buffer})

(* The hours of a machine against those it has from the first task of the  *)
(* plan to the last; the threshold is in per cent.                         *)
CheckEquipmentUtilization ==
    LET period  == IF Tasks = {} THEN 0
                   ELSE Max({plan[i].end : i \in Tasks}) - Min({plan[i].start : i \in Tasks})
        used(m) == MapThenSumSet(LAMBDA i : plan[i].end - plan[i].start, {i \in Tasks : plan[i].machine = m})
    IN  {<<"7-2", "warning", 0>> :
            m \in {x \in {plan[i].machine : i \in Tasks} :
                      used(x) * 24 * 100 > HoursADay[x] * period * Params.utilization_threshold}}

CheckMaterialAvailability ==
    Rows("8-1", "warning", {i \in Tasks : ~Params.material_available /\ GroupAt(i).process \in Sheathing \cup {"tape"}})

CheckProcurementLeadTime ==
    Rows("8-2", "warning", {i \in Tasks : Day(plan[i].start) < Today + Params.lead_time_days})

CheckRawMaterialAvailability ==
    Rows("8-3", "warning", {i \in Tasks : \/ GroupAt(i).material = "CU" /\ ~Params.cu_available
                                          \/ GroupAt(i).material = "AL" /\ ~Params.al_available})

CheckPrecedence ==
    Rows("9-1", "error", {i \in Tasks : \E p \in PredecessorTask(i) : plan[i].start < plan[p].end})

(* GC goods stay away from B100.                                           *)
CheckGcRouting ==
    Rows("9-2", "error", {i \in Tasks : plan[i].machine \in B100Codes /\ Batch(i).gc})

CheckMaterialSeparation ==
    Rows("10-2", "error", {i \in Tasks : Row(plan[i].machine).material \notin {"ALL", GroupAt(i).material}})

Check(id) ==
    CASE id = "1-1"  -> CheckPriorityOrder
      [] id = "1-2"  -> CheckDueType
      [] id = "3-3"  -> CheckColorGroup
      [] id = "4-1"  -> CheckSetupTime
      [] id = "5-1"  -> CheckSqRange
      [] id = "6-1"  -> CheckSafetyEducation
      [] id = "6-2"  -> CheckFridayHours
      [] id = "6-3"  -> CheckAbsenceHours
      [] id = "6-4"  -> CheckHoliday
      [] id = "7-1"  -> CheckDefectBuffer
      [] id = "7-2"  -> CheckEquipmentUtilization
      [] id = "8-1"  -> CheckMaterialAvailability
      [] id = "8-2"  -> CheckProcurementLeadTime
      [] id = "8-3"  -> CheckRawMaterialAvailability
      [] id = "9-1"  -> CheckPrecedence
      [] id = "9-2"  -> CheckGcRouting
      [] id = "10-2" -> CheckMaterialSeparation
      [] OTHER       -> {}

(* A checker that raises leaves an error row of its own.                   *)
validate_all ==
    CheckOverlap \cup CheckDelivery
    \cup UNION {IF id \in Unreadable THEN {<<id, "error", 0>>} ELSE Check(id) : id \in Enabled}

has_overlap == \E v \in validate_all : v[1] = "overlap"

-----------------------------------------------------------------------------
(* Properties *)

(* Planner and checker read the same rules from different code.  In a plan *)
(* that the engine calls finished the checker finds no error but lateness, *)
(* the beginning of a process before the end of the one before, which the  *)
(* engine means (the first drum is enough), and a task that begins in the  *)
(* small hours of a holiday, in the shift of the day before: neither the   *)
(* choice of machines by the section alone nor the just-in-time shift ever *)
(* breaks a range, a material or a colour rule, nor is a setup lacking,    *)
(* wherever in the blocks it was counted.  And the lateness is one that    *)
(* the engine has reported when it placed the task: the shift makes no     *)
(* task late behind its back.  The tasks of several machines are late by   *)
(* the orders dealt to them for the engine, and by the first order of the  *)
(* group for the checker.                                                  *)
CheckerAgrees ==
    status = "done" =>
       \A v \in validate_all : v[2] = "error" \/ v[1] = "4-1" =>
          \/ v[1] \in Unreadable
          \/ v[1] = "9-1"
          \/ /\ v[1] = "1-1"
             /\ v \in CheckDelivery /\ plan[v[3]].alone /\ ~plan[v[3]].kept => v[3] \in reported
          \/ v[1] = "6-4" /\ Works(plan[v[3]].cat, plan[v[3]].start) /\ Clock(plan[v[3]].start) < Ticks(8)

=============================================================================
