------------------------------- MODULE CpSat -------------------------------
(***************************************************************************)
(* A run of the CP-SAT scheduler (orchestrator.py): the solver chooses a   *)
(* machine for every group and an order of the sheaths, and the calendar   *)
(* places the groups one by one (_calendar_apply.py), with its own rules   *)
(* for the earliest start.  A group of a high priority that would be late  *)
(* may take the machine from a block that is in its way (preemption.py);   *)
(* what is left of that block is placed last (_preemption_runner.py).      *)
(*                                                                         *)
(* The tasks of batches that were started, the kept ones, are on the       *)
(* timeline and otherwise unknown: neither the solver nor the rules for    *)
(* the earliest start see them.                                            *)
(***************************************************************************)
EXTENDS LexSolve, CpModel

VARIABLES
    drums_of,        \* drum_count of the first batch of each group
    ready,           \* the earliest start of the next group, once room was made for it
    preempted_remainder          \* what was taken off the machines, in order

cpState == <<meta, drums_of, ready, preempted_remainder>>

cpVars == <<lexVars, base, work, placing, cpState>>

(* The first batch of a group has no more drums than the group.            *)
ASSUME CpSatAssumption ==
    /\ Base \in Nat /\ Work \in [Group -> Nat]
    /\ \A g \in Group : /\ Info[g].headed \in BOOLEAN
                        /\ Orders(g)[1].drums \in 0 .. Info[g].drums
    /\ \A seed \in Seeds : \A i \in DOMAIN seed : seed[i].group \in Started

FirstBatchDrums(g) == IF Info[g].headed THEN Info[g].drums ELSE Orders(g)[1].drums

-----------------------------------------------------------------------------
(* apply_sheath_color_sort: the order of the groups *)

(* When the first drum of the process before is there, for the solver.     *)
PredReady(g) ==
    LET preds == {h \in CpGroups : PrecedesOf(h, g)} IN
    IF preds = {} THEN 0
    ELSE Min({found.choice[h].start + Max({1, Steps(h) \div Max({FirstBatchDrums(h), 1})}) : h \in preds})

(* cluster_sort_key                                                        *)
ClusterKey(g) ==
    LET mates == {h \in CpGroups : Cluster(h) = Cluster(g)} IN
    <<Min({EarliestDue(h) : h \in mates}), Min({PredReady(h) : h \in mates}),
      ColorRank(Info[g].color), HalfWeek(Orders(g)[1].due)>>

StrandClusterDue(g) ==
    IF WireOf[Info[g].sq] = 0 THEN Never
    ELSE Min({EarliestDue(h) : h \in {x \in CpGroups : Info[x].st /\ WireOf[Info[x].sq] = WireOf[Info[g].sq]}})

SolvedOrderKey(g) ==
    LET none == <<0, 0, 0, 0, 0>> IN
    <<ProcessOrder(Info[g].process)>>
      \o (IF Info[g].core THEN <<-1, -1>> \o none
          ELSE IF Info[g].st THEN <<StrandClusterDue(g), WireOf[Info[g].sq]>> \o none
          ELSE IF Info[g].process \in Sheathing THEN <<Never, 0, found.choice[g].start>> \o ClusterKey(g)
          ELSE <<EarliestDue(g), 0>> \o none)
      \o <<EarliestDue(g), Info[g].prio>>

(* Mutant: the processes are not looked at.                                *)
SolvedOrderByDue == Sorted(CpGroups, [g \in CpGroups |-> <<EarliestDue(g), Info[g].prio>>])

SolvedOrder ==
    CHOOSE order \in {Sorted(CpGroups, key) : key \in {[g \in CpGroups |-> SolvedOrderKey(g)]}} : TRUE

-----------------------------------------------------------------------------
(* apply_calendar_greedy: when a group may begin *)

CrossesWeekend(from, to) == \E d \in Day(from) .. Day(to) - 1 : WeekDay(d) >= 5

MondayAfter(t) == Morning(Day(t) + 7 - WeekDay(Day(t)))

(* A long sheath that would run over a weekend begins after it, if it is   *)
(* late on a Friday and still in time then.                                *)
AwayFromWeekend(g, code, earliest) ==
    LET duration == Duration(g, code)
        later    == IF WeekDay(Day(earliest)) >= 5 \/ (WeekDay(Day(earliest)) = 4 /\ Clock(earliest) >= Ticks(17))
                    THEN MondayAfter(earliest) ELSE earliest
    IN  IF /\ Info[g].process \in Sheathing
           /\ duration > Ticks(4)
           /\ CrossesWeekend(earliest, EndOf(MachineCat(code), earliest, duration))
           /\ Day(EndOf(MachineCat(code), later, duration)) <= EarliestDue(g)
        THEN later ELSE earliest

EarliestHere(g) ==
    LET code == found.choice[g].code IN
    AwayFromWeekend(g, code, EarliestOn(g, code, EarliestAfter(g, FALSE, Made)))

(* The end of the process before: that of the orders' own tasks, if there  *)
(* are any, and of the assembly of the section.                            *)
ChainEnd(g) ==
    LET own   == IF Info[g].process \notin InsulationProcesses \cup Sheathing THEN {}
                 ELSE {plan[i].end : i \in UNION {LastTaskOf(Orders(g)[k].order) : k \in DOMAIN Orders(g)}}
        procs == (IF Info[g].process \in DOMAIN Predecessor /\ own = {} THEN {Predecessor[Info[g].process]} ELSE {})
                 \cup (IF Info[g].process \in Sheathing THEN {"assembly"} ELSE {})
        ends  == ({process_end_by_sq[k] : k \in procs \X Sections(g)} \ {NoTime})
                 \cup (IF own = {} THEN {} ELSE {Max(own)})
    IN  IF ends = {} THEN NoTime ELSE Max(ends)

-----------------------------------------------------------------------------
(* try_preempt_for_urgent *)

(* Late as things stand, and only because of what is on the machine.       *)
WouldBeLate(g, code, earliest) ==
    \E start \in {FindSlot(MachineCat(code), earliest, Duration(g, code), Timeline(code))} :
        /\ Label(g) \in {"critical", "urgent"}
        /\ Day(EndOf(MachineCat(code), start, Duration(g, code))) > EarliestDue(g)
        /\ start > earliest

(* The block that has begun by then and is not over.                       *)
InTheWay(code, earliest) ==
    {i \in DOMAIN plan : /\ plan[i].machine = code /\ ~plan[i].gone
                         /\ plan[i].start < earliest /\ earliest < plan[i].end}

(* The end of a block that is left k of its drums.                         *)
EndAfter(i, k) == EndOf(plan[i].cat, plan[i].start, plan[i].setup + k * work[plan[i].group])

DrumsCompletable(i, at) == Max({0} \cup {k \in 1 .. drums_of[plan[i].group] : EndAfter(i, k) <= at})

Remainder(i, drums, setup) == [group |-> plan[i].group, machine |-> plan[i].machine, drums |-> drums, setup |-> setup]

(* Mutant: the drums that are left over are not handed on.                 *)
SplitAndForget(i, k) ==
    /\ plan' = [plan EXCEPT ![i].end = EndAfter(i, k), ![i].drums = k]
    /\ drums_of' = [drums_of EXCEPT ![plan[i].group] = k]
    /\ UNCHANGED preempted_remainder

(* A block of several drums keeps those that are ready in time.            *)
SplitBlock(i, k) ==
    /\ plan' = [plan EXCEPT ![i].end = EndAfter(i, k), ![i].drums = k]
    /\ preempted_remainder' =
          Append(preempted_remainder, Remainder(i, drums_of[plan[i].group] - k, 0))
    /\ drums_of' = [drums_of EXCEPT ![plan[i].group] = k]

(* One that has none ready, or has one drum only, is taken off, unless it  *)
(* is at least as urgent.                                                  *)
DeferBlock(i, g) ==
    \/ /\ GroupAt(i).prio > Info[g].prio
       /\ plan' = [plan EXCEPT ![i].gone = TRUE]
       /\ preempted_remainder' =
             Append(preempted_remainder, Remainder(i, drums_of[plan[i].group], GroupAt(i).setup))
       /\ UNCHANGED drums_of
    \/ /\ GroupAt(i).prio <= Info[g].prio
       /\ UNCHANGED <<plan, preempted_remainder, drums_of>>

-----------------------------------------------------------------------------
(* Steps *)

Alone(g) == ~Multi(g, meta[g].eligible)

(* build_group_meta, of the batches that are planned.                      *)
LoadGroups ==
    /\ phase = "load"
    /\ meta' = BuildGroupMeta
    /\ phase' = IF DOMAIN meta' = {} THEN "failed" ELSE "build"
    /\ UNCHANGED <<built, model, limits, answers, found, mode, lex_status, base, work, placing,
                   drums_of, ready, preempted_remainder>>

BuildModel ==
    /\ phase = "build"
    /\ built' = CpSolutions /\ model' = built'
    /\ phase' = "A"
    /\ UNCHANGED <<limits, answers, found, mode, lex_status, base, work, placing, cpState>>

Solve ==
    /\ LexNext
    /\ UNCHANGED <<base, work, placing, cpState>>

(* The order is made, or the caller has to do without a plan.  What the    *)
(* solver has learnt is not used again.                                    *)
Decide ==
    /\ phase = "done"
    /\ built' = {} /\ model' = {}
    /\ t_star' = None /\ s_star' = None /\ m_star' = None
    /\ answers' = [p \in DOMAIN answers |-> "NOT RUN"]
    /\ \/ lex_status \in Solved /\ phase' = "placing" /\ todo' = SolvedOrder
       \/ lex_status \notin Solved /\ phase' = "failed" /\ todo' = <<>>
    /\ UNCHANGED <<found, mode, lex_status, base, work, plan, process_end_by_sq,
                   process_first_output_by_sq, reported, cpState>>

(* Once for a group, before it is placed: the block in its way, if any.    *)
MakeRoom ==
    /\ phase = "placing" /\ todo # <<>> /\ ready = NoTime
    /\ \E g \in {Head(todo)} : Alone(g) /\ \E earliest \in {EarliestHere(g)} :
          /\ WouldBeLate(g, found.choice[g].code, earliest)
          /\ ready' = earliest
          /\ \/ /\ InTheWay(found.choice[g].code, earliest) = {}
                /\ UNCHANGED <<plan, preempted_remainder, drums_of>>
             \/ \E i \in InTheWay(found.choice[g].code, earliest) : \E k \in {DrumsCompletable(i, earliest)} :
                   \/ drums_of[plan[i].group] >= 2 /\ k > 0 /\ SplitBlock(i, k)
                   \/ (drums_of[plan[i].group] < 2 \/ k = 0) /\ DeferBlock(i, g)
    /\ UNCHANGED <<lexVars, meta, base, work, todo, process_end_by_sq, process_first_output_by_sq, reported>>

PlaceHere(g, earliest) ==
    LET code == found.choice[g].code IN
    \E block \in BlocksFrom(g, code, Duration(g, code), earliest, ChainEnd(g)) :
    \E task \in {NewTask(g, code, block, Setup(g, code), Info[g].drums, TRUE)} :
        /\ plan' = Append(plan, task)
        /\ Record(g, <<task>>)
        /\ reported' = IF Day(task.end) > EarliestDue(g) THEN reported \cup {Len(plan) + 1} ELSE reported

PlaceGroup ==
    /\ phase = "placing" /\ todo # <<>>
    /\ \E g \in {Head(todo)} :
          \/ ~Alone(g) /\ PlaceOnSeveral(g, meta[g].eligible, EarliestAfter(g, TRUE, Made))
          \/ Alone(g) /\ ready # NoTime /\ PlaceHere(g, ready)
          \/ /\ Alone(g) /\ ready = NoTime
             /\ \E earliest \in {EarliestHere(g)} :
                   ~WouldBeLate(g, found.choice[g].code, earliest) /\ PlaceHere(g, earliest)
    /\ todo' = Tail(todo) /\ ready' = NoTime
    /\ UNCHANGED <<lexVars, meta, base, work, drums_of, preempted_remainder>>

(* On the same machine, in the first gap from the base date on.            *)
PlaceRemainder ==
    /\ phase = "placing" /\ todo = <<>> /\ preempted_remainder # <<>>
    /\ \E r \in {Head(preempted_remainder)} : \E duration \in {r.drums * work[r.group] + r.setup} :
       \E at \in {FindSlot(MachineCat(r.machine), base, duration, Timeline(r.machine))} :
          plan' = Append(plan, NewTask(r.group, r.machine,
                                       [start |-> at, end |-> EndOf(MachineCat(r.machine), at, duration)],
                                       r.setup, r.drums, TRUE))
    /\ preempted_remainder' = Tail(preempted_remainder)
    /\ UNCHANGED <<lexVars, meta, base, work, todo, process_end_by_sq, process_first_output_by_sq, reported, drums_of, ready>>

Flush ==
    /\ phase = "placing" /\ todo = <<>> /\ preempted_remainder = <<>>
    /\ phase' = "finished"
    /\ UNCHANGED <<built, model, limits, answers, found, mode, lex_status, base, work, placing, cpState>>

(* preload_existing_timeline: what a run before has left.                  *)
PreloadExistingTimeline == plan \in Seeds

CpInit ==
    /\ phase = "load" /\ built = {} /\ model = {} /\ Unsolved
    /\ base = Base /\ work = Work /\ PreloadExistingTimeline
    /\ todo = <<>> /\ reported = {}
    /\ process_end_by_sq = [k \in Processes \X UNION {Sections(g) : g \in Group} |-> NoTime]
    /\ process_first_output_by_sq = process_end_by_sq
    /\ meta = <<>>
    /\ drums_of = [g \in Group |-> FirstBatchDrums(g)]
    /\ ready = NoTime /\ preempted_remainder = <<>>

CpNext == LoadGroups \/ BuildModel \/ Solve \/ Decide \/ MakeRoom \/ PlaceGroup \/ PlaceRemainder \/ Flush

CpSpec == CpInit /\ [][CpNext]_cpVars

-----------------------------------------------------------------------------
(* Properties *)

Standing == {i \in DOMAIN plan : ~plan[i].gone}

(* No machine ever has two tasks at the same time, whatever is taken off   *)
(* it, cut short or put back, as long as the alignment stretches no block  *)
(* over one that is placed already (which it may, see Timeline; not for    *)
(* the groups checked here).                                               *)
NoMachineTwice ==
    \A i, j \in Standing :
       i < j /\ plan[i].machine = plan[j].machine => Disjoint(plan[i], plan[j])

(* When the run is over, every drum of a group that it has planned, or     *)
(* whose block it has cut, is in exactly one block: for groups on one      *)
(* machine that have a header or a single batch.  For the others the first *)
(* batch stands for more, or for less, than its block.                     *)
EveryDrumOnce ==
    phase = "finished" =>
       \A g \in {plan[i].group : i \in Standing} :
          FirstBatchDrums(g) = Info[g].drums /\ (\A i \in DOMAIN plan : plan[i].group = g => plan[i].alone)
          => MapThenSumSet(LAMBDA i : plan[i].drums, {i \in Standing : plan[i].group = g}) = Info[g].drums

(* What the runs before have left for such a group is one task with all of *)
(* its drums.                                                              *)
WholeSeeds ==
    \A seed \in Seeds : \A i \in DOMAIN seed :
       LET g == seed[i].group IN
       seed[i].alone /\ FirstBatchDrums(g) = Info[g].drums
       => seed[i].drums = Info[g].drums /\ \A j \in DOMAIN seed : seed[j].group = g => j = i

(* A task of the group was taken off, or it has a block that was cut.      *)
Displaced(g) ==
    \E i \in DOMAIN plan : /\ plan[i].group = g
                           /\ plan[i].gone \/ (plan[i].alone /\ plan[i].drums # Info[g].drums)

(* A task begins after the first drum of the process before, as far as     *)
(* this run has placed that and has not displaced it: the order that is    *)
(* made of the solver's plan puts the predecessors first.                  *)
FirstDrumBefore ==
    \A i \in Made :
       LET preds == {j \in Made : PrecedesOf(plan[j].group, plan[i].group) /\ ~GroupAt(j).core}
       IN  /\ preds # {} /\ Cardinality(Sections(plan[i].group)) = 1
           /\ \A j \in preds : plan[j].first # Never
           /\ \A g \in {plan[i].group} \cup {plan[j].group : j \in preds} : ~Displaced(g)
           => plan[i].start >= Min({plan[j].first : j \in preds}) + Curing(plan[i].group)

(* The docstring of try_preempt_for_urgent: a block of the same priority,  *)
(* or of a higher one, is not displaced.  Violated: one of several drums   *)
(* is split whatever its priority.                                         *)
UrgentStaysPut ==
    [][phase = "placing" /\ todo # <<>> /\ ready = NoTime /\ ready' # NoTime =>
          \A i \in DOMAIN plan : GroupAt(i).prio <= Info[Head(todo)].prio => plan'[i] = plan[i]]_cpVars

(* _ALWAYS_FROZEN_STATUSES: what was started stays where it is.  Violated: *)
(* the search for a block in the way looks at no status.                   *)
StartedStaysPut ==
    [][\A i \in DOMAIN plan : plan[i].kept => plan'[i] = plan[i]]_cpVars

=============================================================================
