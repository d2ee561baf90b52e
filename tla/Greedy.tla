------------------------------- MODULE Greedy -------------------------------
(***************************************************************************)
(* The greedy engine (optimization_loop.py, _group_and_sort.py,            *)
(* _assign_group.py, group_ops.py): the batch groups of a run are sorted   *)
(* once, and each gets a task on one machine, or on several among which    *)
(* its drums are dealt out, after what its predecessors left behind.  The  *)
(* just-in-time shift (jit_scheduling.py) may follow.                      *)
(***************************************************************************)
EXTENDS Placing

CONSTANTS
    WithJit,         \* SCHEDULER_JIT
    MaxPasses        \* passes of the just-in-time shift (5 in the code)

VARIABLES
    status,          \* "running", "shifting", "done", or "crashed"
    passes           \* passes of the shift so far

vars == <<base, work, placing, status, passes>>

-----------------------------------------------------------------------------
(* The order of the groups *)

(* What a group is sorted by: tier, the due day and the diameter of the    *)
(* stranding cluster, process, the rank of the sheath cluster, due day,    *)
(* the larger section, and the customer's priority.  The step of the slack *)
(* (within five days or not) is left out: it depends on the due day alone, *)
(* which has been compared by then.                                        *)
SortKey(g) ==
    LET i     == Info[g]
        ofSt  == {EarliestDue(h) : h \in {x \in Group : Info[x].st /\ WireOf[Info[x].sq] = WireOf[i.sq]}}
        Sheath(rank) == IF i.process \in Sheathing THEN rank ELSE 0
    IN  <<IF i.core THEN 0 ELSE IF i.st THEN 1 ELSE 2,
          IF i.st /\ WireOf[i.sq] > 0 THEN Min(ofSt) ELSE Never,
          IF i.st THEN WireOf[i.sq] ELSE 0,
          ProcessOrder(i.process),
          Sheath(ClusterDue(g)), Sheath(ColorRank(i.color)), Sheath(HalfWeek(Orders(g)[1].due)),
          EarliestDue(g), -i.sq, i.prio>>

(* Mutant: the groups are sorted by their due day alone.                   *)
GroupAndSortByDue(groups) ==
    Sorted(groups, [g \in groups |-> <<EarliestDue(g)>>])

GroupAndSort(groups) ==
    Sorted(groups, [g \in groups |-> SortKey(g)])

-----------------------------------------------------------------------------
(* When and where a group begins *)

(* insul_last_output_by_color                                              *)
ColorEnd(sq, color) ==
    {plan[i].end : i \in {k \in MadeAlone : /\ GroupAt(k).process \in InsulationProcesses
                                            /\ GroupAt(k).sq = sq /\ GroupAt(k).color = color}}

(* Assembly waits for each colour of its cores that a task is known of.    *)
ColorEnds(g) ==
    IF Info[g].process # "assembly" THEN {}
    ELSE UNION {LET ends == ColorEnd(Info[g].sq, c) IN IF ends = {} THEN {} ELSE {Max(ends)} : c \in Info[g].cores}

(* Mutant: assembly waits for the first of its colours only.               *)
EarliestAnyColor(g, multi) ==
    LET ends == ColorEnds(g) IN
    Max({EarliestAfter(g, multi, DOMAIN plan)} \cup (IF ends = {} THEN {} ELSE {Min(ends)}))

(* The several machines of a group ask for no colour.                      *)
Earliest(g, multi) ==
    Max({EarliestAfter(g, multi, DOMAIN plan)} \cup (IF multi THEN {} ELSE ColorEnds(g)))

StartOn(g, code, earliest) ==
    FindSlot(MachineCat(code), EarliestOn(g, code, earliest), Duration(g, code), Timeline(code))

(* The machine of the earliest slot, the first of them in the list.        *)
Best(g, ms, earliest) ==
    CHOOSE code \in {Machines[Min({i \in ms : \A j \in ms : starts[i] <= starts[j]})].code :
                        starts \in {[i \in ms |-> StartOn(g, Machines[i].code, earliest)]}} : TRUE

PlaceAlone(g, ms, earliest) ==
    \E code \in {Best(g, ms, earliest)} :
    \E block \in BlocksFrom(g, code, Duration(g, code), EarliestOn(g, code, earliest), PredecessorEnd(g)) :
    \E task \in {NewTask(g, code, block, Info[g].setup, Info[g].drums, TRUE)} :
        /\ plan' = Append(plan, task)
        /\ Record(g, <<task>>)
        /\ reported' = IF Day(task.end) > EarliestDue(g) THEN reported \cup {Len(plan) + 1} ELSE reported

(* No machine: a warning, and the process never ends for those after it.   *)
Skip(g) ==
    /\ process_end_by_sq' = [process_end_by_sq EXCEPT ![<<Info[g].process, Info[g].sq>>] = Never]
    /\ process_first_output_by_sq' = [process_first_output_by_sq EXCEPT ![<<Info[g].process, Info[g].sq>>] = Never]
    /\ UNCHANGED <<plan, reported>>

(* A group, the machines that it may use, and how early it may begin.      *)
AssignGroup ==
    /\ status = "running" /\ todo # <<>>
    /\ \E g \in {Head(todo)} : \E ms \in {Choice(Info[g], SqToEquip)} :
          \/ ms = {} /\ Skip(g)
          \/ ms # {} /\ \E multi \in {Multi(g, ms)} : \E earliest \in {Earliest(g, multi)} :
                \/ ~multi /\ PlaceAlone(g, ms, earliest)
                \/ multi /\ PlaceOnSeveral(g, ms, earliest)
    /\ todo' = Tail(todo)
    /\ UNCHANGED <<base, work, status, passes>>

(* datetime.max is computed with: OverflowError.                           *)
Crash ==
    /\ status = "running" /\ todo # <<>>
    /\ \E g \in {Head(todo)} : Multi(g, Choice(Info[g], SqToEquip)) /\ Earliest(g, TRUE) >= Never
    /\ status' = "crashed"
    /\ UNCHANGED <<base, work, placing, passes>>

Finish ==
    /\ status = "running" /\ todo = <<>>
    /\ status' = IF WithJit THEN "shifting" ELSE "done"
    /\ UNCHANGED <<base, work, placing, passes>>

(* apply_jit_delay: passes over all tasks of the run, the kept ones too,   *)
(* until one moves nothing or there have been enough.                      *)
Shift ==
    /\ status = "shifting"
    /\ passes' = passes + 1
    /\ \E shifted \in {JitPass(plan)} :
          /\ plan' = shifted
          /\ status' = IF shifted = plan \/ passes' = MaxPasses THEN "done" ELSE "shifting"
    /\ UNCHANGED <<base, work, todo, process_end_by_sq, process_first_output_by_sq, reported>>

(* _seed_state_from_existing: the tasks that are kept stand for their      *)
(* process from the start, those of cores for their first drum only.       *)
Init ==
    /\ base \in Bases /\ work \in DrumWorks /\ plan \in Seeds
    /\ LET keys    == Processes \X UNION {Sections(g) : g \in Group}
           At(key) == {i \in DOMAIN plan : <<GroupAt(i).process, GroupAt(i).sq>> = key}
           first(key) == {plan[i].first : i \in {j \in At(key) : ~GroupAt(j).core}}
       IN  /\ process_end_by_sq =
                 [k \in keys |-> IF At(k) = {} THEN NoTime ELSE Max({plan[i].end : i \in At(k)})]
           /\ process_first_output_by_sq =
                 [k \in keys |-> IF first(k) = {} THEN NoTime ELSE Min(first(k))]
    /\ todo = GroupAndSort({g \in Group : \A i \in DOMAIN plan : plan[i].group # g})
    /\ reported = {}
    /\ status = "running"
    /\ passes = 0

Next == AssignGroup \/ Crash \/ Finish \/ Shift

Spec == Init /\ [][Next]_vars

-----------------------------------------------------------------------------
(* Properties *)

(* The groups that were to be planned and have no task.                    *)
Unplaced == {g \in Group : ~(\E i \in DOMAIN todo : todo[i] = g) /\ ~(\E i \in DOMAIN plan : plan[i].group = g)}

Follows(i, j) ==
    /\ GroupAt(i).process \in DOMAIN Predecessor
    /\ GroupAt(j).process = Predecessor[GroupAt(i).process]
    /\ GroupAt(j).sq = GroupAt(i).sq /\ ~GroupAt(j).core

(* The tasks of the process before that of task i, with the same section.  *)
Preceding(i) == {j \in DOMAIN plan : Follows(i, j)}

(* This run has placed task i, knowing all of the process before it.       *)
Informed(i) ==
    /\ ~plan[i].kept /\ Cardinality(Sections(plan[i].group)) = 1
    /\ ~ \E g \in Unplaced : Info[g].process = Predecessor[GroupAt(i).process] /\ Info[g].sq = GroupAt(i).sq

(* No machine ever has two tasks at the same time: neither the search for  *)
(* a slot nor the rounding of the end to the hour, the dealing out to      *)
(* several machines or the shift puts one over another.  The alignment may *)
(* (see Timeline), though it does not for the groups checked here.         *)
BlocksAreApart ==
    \A i, j \in DOMAIN plan :
       i < j /\ plan[i].machine = plan[j].machine => Disjoint(plan[i], plan[j])

(* Where everything before it has been placed, a task begins after the     *)
(* first drum of the process before, and a high-voltage sheath after its   *)
(* twenty hours of curing too, and does not end before the last drum of    *)
(* it.  The sort must have put the predecessors first: the engine never    *)
(* goes back.                                                              *)
FirstDrumFirst ==
    status = "running" =>
       \A i \in DOMAIN plan : Preceding(i) # {} /\ Informed(i) =>
          /\ plan[i].start >= Min({plan[j].first : j \in Preceding(i)}) + Curing(plan[i].group)
          /\ plan[i].end >= Max({plan[j].end : j \in Preceding(i)})

IsCoreOf(j, i) ==
    /\ GroupAt(i).process = "assembly" /\ ~plan[i].kept
    /\ GroupAt(j).process \in InsulationProcesses
    /\ GroupAt(j).sq = GroupAt(i).sq /\ GroupAt(j).color \in GroupAt(i).cores

(* An assembly begins when every colour of its cores is insulated, as far  *)
(* as this run has insulated them, on one machine each.                    *)
AssemblyWaitsForItsCores ==
    status = "running" =>
       \A i, j \in DOMAIN plan : IsCoreOf(j, i) /\ plan[j].alone /\ ~plan[j].kept => plan[i].start >= plan[j].end

(* The comment of _assign_group (S4 #10) without that exception: violated, *)
(* since several machines leave no end of their colour.                    *)
AssemblyWaitsForSplitCores ==
    status = "running" =>
       \A i, j \in DOMAIN plan : IsCoreOf(j, i) => plan[i].start >= plan[j].end

(* The comment of _assign_group on groups without a machine: their max     *)
(* time keeps the next process from starting.  Violated: only the process  *)
(* that is dealt out to several machines sees it, and it crashes.          *)
UnplacedHoldsBack ==
    \A g \in Unplaced, i \in Made :
       ~(/\ GroupAt(i).process \in DOMAIN Predecessor
         /\ Predecessor[GroupAt(i).process] = Info[g].process /\ GroupAt(i).sq = Info[g].sq)

(* The docstring of apply_jit_delay keeps the order of the processes.      *)
(* Violated, even for the beginnings: a process that began after the first *)
(* drum of the one before is not looked at when that is moved.             *)
JitKeepsPipeline ==
    [][status = "shifting" =>
          \A i, j \in DOMAIN plan :
             plan[i].order = plan[j].order /\ Follows(i, j) /\ plan[j].start <= plan[i].start
             => plan'[j].start <= plan'[i].start]_vars

=============================================================================
