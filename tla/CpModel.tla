------------------------------ MODULE CpModel ------------------------------
(***************************************************************************)
(* The model that the CP-SAT solver gets (helpers.py, model_builder.py,    *)
(* objective.py and the modules of constraints/): a machine and a start    *)
(* for every group, on an axis of its own, and the terms of its objective. *)
(* The order and the machines that come out of it are all that is used;    *)
(* the calendar decides when a task really begins.                         *)
(*                                                                         *)
(* The axis counts fourteen hours a working day for the due dates, but     *)
(* work and breaks alike for the durations.  Its steps are coarser here    *)
(* than the minutes of the code; as auto_schedule asks for it, neither the *)
(* due dates nor the chains of colours are hard, and nothing is pinned.    *)
(***************************************************************************)
EXTENDS Placing

CONSTANTS
    Work,            \* the time that a drum of each group takes
    Base,            \* base_date
    Started,         \* the groups that are not planned any more
    Step,            \* half hours of a step of the axis
    Buffer,          \* buffer_min and min_horizon_min, in steps
    MaxHorizon,      \* absolute_max, in steps
    Weights          \* the weights of the soft terms

VARIABLE
    meta             \* group_meta: the groups that have a machine, with what the model uses of them

ASSUME AxisAssumption == Step \in Nat \ {0} /\ Buffer \in Nat /\ MaxHorizon \in Nat

DaySteps == Ticks(14) \div Step

Ceil(a, b) == (a + b - 1) \div b

-----------------------------------------------------------------------------
(* build_group_meta *)

CpEligible(g) ==
    IF Info[g].process = "stranding" THEN NarrowByStranding(Info[g], Eligible(Info[g])) ELSE Eligible(Info[g])

(* The machines among which a group will be dealt out, as far as it can be *)
(* known before any has been placed.                                       *)
Split(g, n) ==
    IF \/ Info[g].process = "stranding" /\ ~Info[g].core
       \/ Info[g].process \in {"high insulation", "high sheath"}
    THEN Max({1, Min({Info[g].drums, n})}) ELSE 1

WorkdaysFrom(a, b) == Cardinality({d \in a .. b - 1 : Workdays(d)})

(* What is overdue has a negative due time.                                *)
DueSteps(due) ==
    IF due < Day(Base) THEN -(WorkdaysFrom(due, Day(Base)) * DaySteps)
                       ELSE WorkdaysFrom(Day(Base), due) * DaySteps

(* Groups without a machine get a warning and no variable.                 *)
BuildGroupMeta ==
    [g \in {h \in Group \ Started : CpEligible(h) # {}} |->
        [eligible |-> CpEligible(g),
         steps    |-> Max({1, Ceil(Ceil(Work[g] * Info[g].drums, Split(g, Cardinality(CpEligible(g))))
                                     + Info[g].setup + Winding, Step)}),
         due      |-> DueSteps(EarliestDue(g))]]

CpGroups         == DOMAIN meta
EligibleCodes(g) == {Machines[i].code : i \in meta[g].eligible}
Steps(g)         == meta[g].steps
DueStep(g)       == meta[g].due

(* The lots that a successor waits for the first of: the drums of a header *)
(* or of a core, or else one for each batch.                               *)
Lots(g) ==
    IF Info[g].headed \/ Info[g].core THEN Max({Info[g].drums, 1}) ELSE Max({Len(Orders(g)), 1})

FirstLot(g) == Max({1, Ceil(Steps(g), Lots(g))})

FirstLotOfCore(g) == Max({1, Ceil(Steps(g), Max({Info[g].drums, 1}))})

Horizon ==
    Min({Max({Buffer, Max({0} \cup {DueStep(g) : g \in CpGroups}) + Buffer}), MaxHorizon})

Label(g) ==
    IF Info[g].prio <= 3 THEN "critical" ELSE IF Info[g].prio <= 7 THEN "urgent" ELSE "normal"

(* A delay weighs more the longer the group is overdue already.            *)
Weight(g) ==
    LET past == Max({0, -DueStep(g)}) \div DaySteps
    IN  Weights[Label(g)] + (Weights[Label(g)] * past) \div Weights.severity

-----------------------------------------------------------------------------
(* Constraints.  a and b are the choices for the groups g and h. *)

EndStep(g, a) == a.start + Steps(g)

Tard(g, a) == Max({0, EndStep(g, a) - DueStep(g)})

(* The range of start, end and delay.                                      *)
Domain(g) ==
    {a \in [code : EligibleCodes(g), start : 0 .. Horizon - Steps(g)] : Tard(g, a) <= 2 * Horizon}

PrecedesOf(h, g) ==
    /\ Info[g].process \in DOMAIN Predecessor
    /\ Info[h].process = Predecessor[Info[g].process] /\ Info[h].sq = Info[g].sq

(* After the first lot of the process before, and not over before it.      *)
AfterPredecessor(g, a, h, b) ==
    PrecedesOf(h, g) => a.start >= b.start + FirstLot(h) /\ EndStep(g, a) >= EndStep(h, b)

(* An assembly begins when every colour of its cores is insulated.         *)
AfterCores(g, a, h, b) ==
    /\ Info[g].process = "assembly" /\ Info[h].process \in InsulationProcesses
    /\ Info[h].sq = Info[g].sq /\ Info[h].color \in Info[g].cores
    => a.start >= EndStep(h, b)

AfterCore(g, a, h, b) ==
    Info[g].st /\ Info[h].core /\ Info[h].sq = Info[g].sq => a.start >= b.start + FirstLotOfCore(h)

(* The time between two sheaths of a machine that differ in colour.        *)
Gap(g, h) ==
    IF /\ Info[g].process \in Sheathing /\ Info[h].process \in Sheathing
       /\ Info[g].color # "" /\ Info[h].color # "" /\ Info[g].color # Info[h].color
    THEN Ceil(ColorChange, Step) ELSE 0

NoOverlap(g, a, h, b) ==
    a.code = b.code =>
       a.start >= EndStep(h, b) + Gap(g, h) \/ b.start >= EndStep(g, a) + Gap(g, h)

Agree(g, a, h, b) ==
    /\ NoOverlap(g, a, h, b)
    /\ AfterPredecessor(g, a, h, b) /\ AfterCores(g, a, h, b) /\ AfterCore(g, a, h, b)

(* All choices that agree, made group by group in the order of the         *)
(* processes.                                                              *)
CpPlans ==
    LET plans[S \in SUBSET CpGroups] ==
            IF S = {} THEN {<<>>}
            ELSE LET g == CHOOSE x \in S : \A h \in S : ProcessOrder(Info[h].process) <= ProcessOrder(Info[x].process)
                 IN  UNION {{[h \in DOMAIN p \cup {g} |-> IF h = g THEN a ELSE p[h]] : a \in
                        {x \in Domain(g) : \A h \in DOMAIN p : Agree(g, x, h, p[h]) /\ Agree(h, p[h], g, x)}} :
                            p \in plans[S \ {g}]}
    IN  plans[CpGroups]

-----------------------------------------------------------------------------
(* Measures of a plan p *)

CpMaxTard(p)   == Max({0} \cup {Tard(g, p[g]) : g \in DOMAIN p})
CpTotalTard(p) == MapThenSumSet(LAMBDA g : Tard(g, p[g]), DOMAIN p)
CpMakespan(p)  == Max({0} \cup {EndStep(g, p[g]) : g \in DOMAIN p})

(* The time between the ends of two processes that follow each other.      *)
IdleTerms(p) ==
    MapThenSumSet(LAMBDA x : (IF Info[x[1]].process \in InsulationProcesses THEN 3 ELSE 1)
                             * (EndStep(x[2], p[x[2]]) - EndStep(x[1], p[x[1]])),
                  {x \in (DOMAIN p) \X (DOMAIN p) : PrecedesOf(x[1], x[2])})

SheathEnds(p) ==
    MapThenSumSet(LAMBDA g : EndStep(g, p[g]), {g \in DOMAIN p : Info[g].process \in Sheathing})

(* What is in time, and due soon, is to end early; what is due later, too, *)
(* but less so.                                                            *)
SlackTerms(p) ==
    MapThenSumSet(LAMBDA g : (IF DueStep(g) <= 5 * DaySteps THEN Max({1, 10 * Weights.slack})
                              ELSE Max({1, Weights.slack \div Max({1, DueStep(g)})})) * EndStep(g, p[g]),
                  {g \in DOMAIN p : DueStep(g) >= 0})

(* The pairs of a process that might share a machine, the earlier due date *)
(* first.                                                                  *)
EddPairs(p) ==
    {x \in (DOMAIN p) \X (DOMAIN p) :
        /\ Info[x[1]].process = Info[x[2]].process /\ DueStep(x[1]) < DueStep(x[2])
        /\ EligibleCodes(x[1]) \cap EligibleCodes(x[2]) # {}}

EddTerms(p) ==
    MapThenSumSet(LAMBDA x : IF DueStep(x[1]) < 0 /\ DueStep(x[2]) >= 0 THEN Weights.mixed ELSE Weights.edd,
                  {x \in EddPairs(p) : p[x[1]].start > p[x[2]].start})

(* Strands of two sections on one machine, when they are due at about the  *)
(* same time.                                                              *)
Transitions(p) ==
    Cardinality({{x[1], x[2]} : x \in {y \in (DOMAIN p) \X (DOMAIN p) :
        /\ Info[y[1]].process = "stranding" /\ Info[y[2]].process = "stranding"
        /\ Info[y[1]].sq # Info[y[2]].sq /\ p[y[1]].code = p[y[2]].code
        /\ EarliestDue(y[1]) - EarliestDue(y[2]) \in -14 .. 14}})

(* compose_objective, the due dates being soft.                            *)
CpSoft(p) ==
    MapThenSumSet(LAMBDA g : Weight(g) * Tard(g, p[g]), DOMAIN p)
      + Weights.idle * IdleTerms(p) + SheathEnds(p) + SlackTerms(p) + EddTerms(p)
      + Weights.transition * Transitions(p)

(* A solution: the choices, and the values that the solver minimises.      *)
CpSolutions ==
    {[choice |-> p, max_tard |-> CpMaxTard(p), total_tard |-> CpTotalTard(p),
      makespan |-> CpMakespan(p), soft |-> CpSoft(p)] : p \in CpPlans}

=============================================================================
