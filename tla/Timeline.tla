------------------------------ MODULE Timeline ------------------------------
(***************************************************************************)
(* The timeline of one machine as the greedy engine fills it: every task   *)
(* is put into the first free slot (slot_finder.py), one with a preceding  *)
(* process is then aligned with it (slot_filters.py), and its end is taken *)
(* to the full hour before the block is entered (_assign_group.py).        *)
(***************************************************************************)
EXTENDS Slots

CONSTANTS
    Instants,        \* times from which a task may be placed
    PredEnds,        \* times at which its preceding process may end
    WorkSizes,       \* working times of a task, in half hours
    Tails,           \* the part of them that is its last drum
    MaxTasks         \* bound: tasks of the machine

ASSUME TimelineAssumption ==
    /\ Instants \subseteq Nat /\ PredEnds \subseteq Nat
    /\ WorkSizes \subseteq Nat /\ Tails \subseteq Nat

VARIABLES
    cat,             \* the calendar of the machine
    tasks            \* its tasks in the order in which they were placed

timelineVars == <<cat, tasks>>

Blocks == {[start |-> tasks[i].start, end |-> tasks[i].end] : i \in DOMAIN tasks}

TimelineInit == cat \in Categories /\ tasks = <<>>

(* The exact end is kept beside that of the block.                         *)
Enter(block, work) ==
    tasks' = Append(tasks, [start |-> block.start, end |-> RoundUp(block.end),
                            exact |-> block.end, work |-> work])

(* A task of a first process.                                              *)
PlaceFree(earliest, work) ==
    /\ Len(tasks) < MaxTasks
    /\ LET at == FindSlot(cat, earliest, work, Blocks)
       IN  Enter([start |-> at, end |-> EndOf(cat, at, work)], work)
    /\ UNCHANGED cat

(* A task whose preceding process ends at predEnd.                         *)
PlaceBehind(earliest, work, tail, predEnd) ==
    /\ Len(tasks) < MaxTasks
    /\ earliest <= predEnd
    /\ LET at == FindSlot(cat, earliest, work, Blocks)
       IN  Enter(Align(cat, Blocks, at, EndOf(cat, at, work), work, tail, predEnd), work)
    /\ UNCHANGED cat

TimelineNext ==
    \E earliest \in Instants, work \in WorkSizes :
       \/ PlaceFree(earliest, work)
       \/ \E predEnd \in PredEnds, tail \in Tails : PlaceBehind(earliest, work, tail, predEnd)

TimelineSpec == TimelineInit /\ [][TimelineNext]_timelineVars

-----------------------------------------------------------------------------
Daytime(t)       == Clock(t) >= Ticks(8)
Worked(from, to) == Cardinality({t \in from .. to - 1 : Works(cat, t)})

(* The block a task needs, from its start until its work is done, is free  *)
(* when the task is placed, whatever the order in which tasks come: the    *)
(* search sees the rounded ends that the engine enters, and a block that   *)
(* is aligned is searched for again (slot_finder.py,                       *)
(* align_start_to_predecessor_end).                                        *)
Needed(i) == [start |-> tasks[i].start, end |-> RoundUp(EndOf(cat, tasks[i].start, tasks[i].work))]

WorkIsApart == \A i, j \in DOMAIN tasks : i < j => Disjoint(tasks[i], Needed(j))

(* No machine has two tasks at once.  The code does not keep this: a task  *)
(* whose work ends before its preceding process does is stretched to that  *)
(* end without a look at the timeline (align_start_to_predecessor_end),    *)
(* and may then reach into the task behind it.                             *)
TimelineIsApart == \A i, j \in DOMAIN tasks : i < j => Disjoint(tasks[i], tasks[j])

(* A task that begins after 08:00 has its working time within its block:   *)
(* no break, night, weekend or holiday is counted (calculate_end_datetime).*)
WorkIsDone ==
    \A i \in DOMAIN tasks :
       Daytime(tasks[i].start) => Worked(tasks[i].start, tasks[i].exact) >= tasks[i].work

(* A slot is not skipped: from no time after 08:00 between the earliest    *)
(* and the chosen one would the block have been free (slot_finder.py).     *)
NoSlotIsSkipped ==
    [][\A earliest \in Instants, size \in WorkSizes : PlaceFree(earliest, size) =>
          \A t \in earliest .. tasks'[Len(tasks')].start - 1 :
             Daytime(t) => ~ Fits(cat, t, size, Blocks)]_timelineVars

=============================================================================
