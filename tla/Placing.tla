------------------------------ MODULE Placing -------------------------------
(***************************************************************************)
(* What the greedy engine and the placing of the solver's plan have in     *)
(* common (_assign_group.py, _calendar_apply.py, group_ops.py): the batch  *)
(* groups of a run are taken in an order that was made before, and each    *)
(* gets a task on one machine, or on several among which its drums are     *)
(* dealt out, after what its predecessors left behind.                     *)
(*                                                                         *)
(* A group is a record: what its first batch says (process, sq, material,  *)
(* color, sheath, stranding), its name (core, line, st), its drums, the    *)
(* colours of its cores, its setup and its orders, a sequence of records   *)
(* of an order line, its due day, its drums and its sq; the first is that  *)
(* of the first batch.  A task that is gone was deleted to make room; what *)
(* was learnt from it stays.                                               *)
(***************************************************************************)
EXTENDS Slots, Machines

CONSTANTS
    Group,           \* the batch groups of the run
    Info,            \* their records
    DrumWorks,       \* working times of a drum of each group, in half hours
    Bases,           \* times from which the run may be planned
    Never,           \* datetime.max, later than everything
    Winding,         \* winding of a drum
    CompoundSetup,   \* change of the wire, the section's diameter being the same
    ColorChange,     \* change of the colour of a sheath
    Seeds            \* plans to start from: the groups that are kept

Predecessor == [p \in {"low insulation", "high insulation", "assembly", "tape", "low sheath", "high sheath"} |->
    CASE p \in InsulationProcesses -> "stranding"
      [] p = "high sheath"         -> "high insulation"
      [] OTHER                     -> "low insulation"]

Processes == {"stranding"} \cup DOMAIN Predecessor

ProcessOrder(p) ==
    CASE p = "stranding" -> 1 [] p \in InsulationProcesses -> 2 [] p \in Sheathing -> 4 [] OTHER -> 3

Codes == {Machines[i].code : i \in DOMAIN Machines}
Lines == {Info[g].orders[1].order : g \in Group}

(* A task of a group, on a machine; first is when its first drum is there. *)
TaskRows ==
    [group : Group, machine : Codes, cat : Categories, start : Nat, end : Nat, first : Nat, order : Lines, due : Int,
     drums : Nat, setup : Nat, alone : BOOLEAN, kept : BOOLEAN, gone : BOOLEAN]

ASSUME PlacingAssumption ==
    /\ DOMAIN Machines \subseteq Nat /\ IsFiniteSet(DOMAIN Machines)
    /\ \A i \in DOMAIN Machines : Machines[i].cat \in Categories
    /\ IsFiniteSet(Group)
    /\ \A g \in Group :
          /\ Info[g].process \in Processes /\ Info[g].core \in BOOLEAN /\ Info[g].st \in BOOLEAN
          /\ Info[g].core \/ Info[g].st => Info[g].process = "stranding"
          /\ Info[g].sq \in Int /\ WireOf[Info[g].sq] \in Int /\ Info[g].prio \in Int
          /\ Info[g].drums \in Nat /\ Info[g].setup \in Nat
          /\ IsFiniteSet(DOMAIN Info[g].orders) /\ 1 \in DOMAIN Info[g].orders
          /\ \A k \in DOMAIN Info[g].orders : Info[g].orders[k].due \in Int
          /\ Info[g].orders[1].sq = Info[g].sq
    /\ DrumWorks \subseteq [Group -> Nat] /\ Bases \subseteq Nat
    /\ Never \in Nat /\ Winding \in Nat /\ CompoundSetup \in Nat /\ ColorChange \in Nat
    /\ NoTime \notin Int
    /\ Seeds \subseteq Seq(TaskRows)
    /\ \A s \in Seeds : \A i \in DOMAIN s : s[i].kept /\ ~s[i].gone

VARIABLES
    base,            \* base_date
    work,            \* the time that a drum of each group takes
    todo,            \* the groups that are left, in their order
    plan,            \* the tasks: tasks_created and, before them, the kept ones
    process_end_by_sq,           \* when a process is over with a section
    process_first_output_by_sq,  \* when its first drum is there
    reported         \* the tasks with a delivery violation

placing == <<todo, plan, process_end_by_sq, process_first_output_by_sq, reported>>

Orders(g)      == Info[g].orders
Sections(g)    == {Info[g].orders[i].sq : i \in DOMAIN Info[g].orders}
EarliestDue(g) == Min({Orders(g)[i].due : i \in DOMAIN Orders(g)})

HalfWeek(due) == 2 * (due \div 7) + (IF due % 7 <= 2 THEN 0 ELSE 1)

(* build_sheath_clusters: the machine line, the half week and the colour.  *)
Cluster(g) == IF Info[g].process \in Sheathing
              THEN <<Info[g].process, Info[g].line, HalfWeek(Orders(g)[1].due), Info[g].color>>
              ELSE <<>>

ClusterDue(g) == Min({EarliestDue(h) : h \in {x \in Group : Cluster(x) = Cluster(g)}})

ColorRank(c) == CASE c = "black" -> 0 [] c = "brown" -> 1 [] OTHER -> 99

-----------------------------------------------------------------------------
(* What the tasks placed so far mean for the next group *)

MachineCat(code) == Machines[CHOOSE i \in DOMAIN Machines : Machines[i].code = code].cat

(* Mutant: only what this run has placed is looked at.                     *)
TimelineOfThisRun(code) == {[start |-> plan[i].start, end |-> plan[i].end] :
                       i \in {k \in DOMAIN plan : plan[k].machine = code /\ ~plan[k].gone /\ ~plan[k].kept}}

Timeline(code) == {[start |-> plan[i].start, end |-> plan[i].end] :
                       i \in {k \in DOMAIN plan : plan[k].machine = code /\ ~plan[k].gone}}

(* The groups that this run, and not an earlier one, has placed.           *)
Made        == {i \in DOMAIN plan : ~plan[i].kept}
MadeAlone   == {i \in Made : plan[i].alone}
GroupAt(i)  == Info[plan[i].group]

LastOn(tasks, code) == {i \in tasks : plan[i].machine = code /\ \A j \in tasks : plan[j].machine = code => j <= i}

(* sq_to_equip: only tasks that had a machine to themselves count.         *)
SqToEquip ==
    LET strands == {i \in MadeAlone : GroupAt(i).process = "stranding" /\ ~GroupAt(i).core}
    IN  [s \in {GroupAt(i).sq : i \in strands} |->
            plan[Max({i \in strands : GroupAt(i).sq = s})].machine]

(* first_insul_output and core_first_drum_by_main_sq, from the tasks that  *)
(* the engine has seen.                                                    *)
FirstInsulation(seen) ==
    {plan[i].first : i \in {k \in seen : GroupAt(k).process \in InsulationProcesses /\ (plan[k].kept \/ plan[k].alone)}}

FirstCore(sq, seen) == {plan[i].first : i \in {k \in seen : GroupAt(k).core /\ GroupAt(k).sq = sq}}

(* predecessor_map: the task that was placed last with an order line; a    *)
(* group of several tasks stands for its first, a deleted one for none.    *)
LastTaskOf(order) ==
    LET withIt == {i \in Made : \E k \in DOMAIN GroupAt(i).orders : GroupAt(i).orders[k].order = order}
        last   == plan[Max(withIt)].group
    IN  IF withIt = {} THEN {} ELSE {i \in {Min({k \in withIt : plan[k].group = last})} : ~plan[i].gone}

-----------------------------------------------------------------------------
(* When a group may begin, and how long it takes *)

(* Whether a group is dealt out to several of its machines.                *)
Multi(g, ms) ==
    /\ \/ Info[g].process = "stranding" /\ ~Info[g].core /\ Info[g].sq \notin DOMAIN SqToEquip
       \/ Info[g].process \in {"high insulation", "high sheath"}
    /\ Info[g].drums >= 2
    /\ Cardinality(ms) >= 2

(* What the predecessors of a group leave: the first drum of any of its    *)
(* sections.  With one section, several machines take datetime.max too.    *)
PredecessorFirst(g, multi) ==
    IF Info[g].process \notin DOMAIN Predecessor THEN {}
    ELSE LET first(sq) == process_first_output_by_sq[<<Predecessor[Info[g].process], sq>>]
             known     == {first(sq) : sq \in Sections(g)} \ {NoTime}
         IN  IF Cardinality(Sections(g)) > 1
             THEN IF known \ {Never} = {} THEN {} ELSE {Min(known \ {Never})}
             ELSE IF multi THEN known ELSE known \ {Never}

Curing(g) == IF Info[g].process = "high sheath" THEN Ticks(20) ELSE 0

CoreFirst(g, seen) ==
    LET f == FirstCore(Info[g].sq, seen) IN IF Info[g].st /\ f # {} THEN {Min(f)} ELSE {}

InsulationFirst(g, seen) ==
    LET f == FirstInsulation(seen) IN IF Info[g].line = "" \/ f = {} THEN {} ELSE {Min(f)}

(* Only groups that no rule above speaks of wait for their own orders.     *)
OwnPredecessors(g) ==
    IF Info[g].process \in DOMAIN Predecessor \/ Info[g].st THEN {}
    ELSE {plan[i].end : i \in UNION {LastTaskOf(Orders(g)[k].order) : k \in DOMAIN Orders(g)}}

(* The several machines of a group do not ask for the first drum of the    *)
(* insulation.                                                             *)
EarliestAfter(g, multi, seen) ==
    Max({Max({base} \cup PredecessorFirst(g, multi)) + Curing(g)} \cup CoreFirst(g, seen) \cup OwnPredecessors(g)
        \cup (IF multi THEN {} ELSE InsulationFirst(g, seen)))

(* 4-1: nothing for the same section, the compound for the same wire.      *)
SetupAfter(sq, g) ==
    IF sq = Info[g].sq THEN 0
    ELSE IF Info[g].process = "stranding" /\ WireOf[sq] > 0 /\ WireOf[sq] = WireOf[Info[g].sq]
         THEN CompoundSetup
    ELSE Info[g].setup

Setup(g, code) ==
    LET prev == {Last(GroupAt(i).orders).sq : i \in LastOn(Made, code)}
    IN  IF prev = {} THEN Info[g].setup ELSE SetupAfter(CHOOSE sq \in prev : TRUE, g)

(* 4-2: the colour that the machine had before.                            *)
ColorChangeOn(g, code) ==
    IF Info[g].process \in Sheathing /\ \E i \in LastOn(Made, code) : GroupAt(i).color # Info[g].color
    THEN ColorChange ELSE 0

GroupWork(g) == work[g] * Info[g].drums

Duration(g, code) == GroupWork(g) + Winding + Setup(g, code) + ColorChangeOn(g, code)

-----------------------------------------------------------------------------
(* Placing *)

(* The end of the processes before, as the alignment looks it up.          *)
PredecessorEnd(g) ==
    LET procs == (IF Info[g].process \in DOMAIN Predecessor THEN {Predecessor[Info[g].process]} ELSE {})
                 \cup (IF Info[g].process \in Sheathing THEN {"assembly"} ELSE {})
        ends  == {process_end_by_sq[k] : k \in procs \X Sections(g)} \ {NoTime, Never}
    IN  IF ends = {} THEN NoTime ELSE Max(ends)

NewTask(g, code, block, setup, drums, alone) ==
    [group |-> g, machine |-> code, cat |-> MachineCat(code), start |-> block.start, end |-> RoundUp(block.end),
     first |-> EndOf(MachineCat(code), block.start, setup + work[g]),
     order |-> Orders(g)[1].order, due |-> Orders(g)[1].due, drums |-> drums, setup |-> setup,
     alone |-> alone, kept |-> FALSE, gone |-> FALSE]

(* A block of so much time on a machine, at an earliest time, is aligned.  *)
BlocksFrom(g, code, duration, earliest, predecessorEnd) ==
    LET cat == MachineCat(code) IN
    {Align(cat, slots, at, EndOf(cat, at, duration), duration, work[g], predecessorEnd) :
        slots \in {Timeline(code)}, at \in {FindSlot(cat, earliest, duration, Timeline(code))}}

(* A sheath of the same cluster follows the last task of the machine; one  *)
(* of another does so if it is then in time.                               *)
EarliestOn(g, code, earliest) ==
    LET slots   == Timeline(code)
        append  == Max({earliest} \cup {s.end : s \in slots})
        sheaths == {i \in MadeAlone : GroupAt(i).process \in Sheathing}
        same    == \E i \in LastOn(sheaths, code) : Cluster(plan[i].group) = Cluster(g)
        inTime  == Day(EndOf(MachineCat(code), append, Duration(g, code))) <= EarliestDue(g)
    IN  IF Info[g].process \in Sheathing /\ slots # {} /\ (same \/ inTime) THEN append ELSE earliest

(* What a group leaves for those that come after it.                       *)
Record(g, tasks) ==
    LET key   == <<Info[g].process, Info[g].sq>>
        end   == Max({tasks[i].end : i \in DOMAIN tasks})
        first == Min({tasks[i].first : i \in DOMAIN tasks})
    IN  /\ process_end_by_sq' = [process_end_by_sq EXCEPT ![key] = IF @ = NoTime THEN end ELSE Max({@, end})]
        /\ process_first_output_by_sq' =
              IF Info[g].core THEN process_first_output_by_sq
              ELSE [process_first_output_by_sq EXCEPT ![key] = IF @ = NoTime THEN first ELSE Min({@, first})]

(* _schedule_multi_equipment: the machines by the slot of their first      *)
(* drum, the drums evenly, and the orders, the urgent ones first, to the   *)
(* machines until their drums are used up.                                 *)
SortedMachines(g, ms, earliest) ==
    LET Slot(i) == FindSlot(Machines[i].cat, earliest, work[g] + Info[g].setup, Timeline(Machines[i].code))
        Order(slot) == Sorted(ms, [i \in ms |-> <<slot[i], i>>])
    IN  {[k \in DOMAIN order |-> Machines[order[k]].code] : order \in {Order(s) : s \in {[i \in ms |-> Slot(i)]}}}

DrumsOn(g, n, k) == (Info[g].drums \div n) + (IF k <= Info[g].drums % n THEN 1 ELSE 0)

(* The due day of what machine k of n makes: that of the orders dealt to   *)
(* it, if any.                                                             *)
SubDue(g, n, k) ==
    LET orders == SortSeq(Orders(g), LAMBDA a, b : a.due < b.due)
        take[c \in 1 .. Len(orders) + 1, left \in Int] ==
            IF left <= 0 \/ c > Len(orders) THEN c ELSE take[c + 1, left - orders[c].drums]
        upto[i \in 0 .. n] == IF i = 0 THEN 1 ELSE take[upto[i - 1], DrumsOn(g, n, i)]
    IN  {orders[c].due : c \in {x \in DOMAIN orders : upto[k - 1] <= x /\ (x < upto[k] \/ k = n)}}

(* The task of machine k of several.                                       *)
TasksOn(g, code, drums, earliest) ==
    {NewTask(g, code, block, Setup(g, code), drums, FALSE) :
        block \in BlocksFrom(g, code, work[g] * drums + Setup(g, code) + Winding, earliest, PredecessorEnd(g))}

PlaceOnSeveral(g, ms, earliest) ==
    /\ earliest < Never
    /\ \E machines \in SortedMachines(g, ms, earliest) :
       \E tasks \in {[k \in 1 .. Min({Cardinality(ms), Info[g].drums}) |->
                         CHOOSE t \in TasksOn(g, machines[k], DrumsOn(g, Cardinality(ms), k), earliest) : TRUE]} :
           /\ plan' = plan \o tasks
           /\ Record(g, tasks)
           /\ reported' = reported \cup {Len(plan) + k : k \in
                 {j \in DOMAIN tasks : LET dues == SubDue(g, Cardinality(ms), j) IN
                                       dues # {} /\ Day(tasks[j].end) > Min(dues)}}

=============================================================================
