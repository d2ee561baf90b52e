--------------------------- MODULE CascadePreview ---------------------------
(***************************************************************************)
(* The cascade preview: which tasks have to move when the planner moves or *)
(* resizes one (application/cascade/service.py, pull.py, validators.py).   *)
(*                                                                         *)
(* The preview works on its own snapshot and in waves.  Each task of the   *)
(* frontier pushes away the tasks that overlap it on its machine, then the *)
(* later processes of its order line that start before it ends; the pushed *)
(* tasks are the next frontier.  After the waves the successors of a task  *)
(* that became shorter are offered an earlier time.  One push or one offer *)
(* is one step; lists that the code sorts by start time are taken smallest *)
(* first, equal ones in either order.                                      *)
(***************************************************************************)
EXTENDS Snap, Sequences, FiniteSets, FiniteSetsExt

CONSTANTS
    Plans,          \* the plans a preview may start from
    Requests,       \* the rows the planner may ask for
    MaxWaves,       \* MAX_WAVES
    HardTaskLimit,  \* HARD_TASK_LIMIT
    Margin,         \* how far past the last end a task may be pushed: 7 days
    Rest            \* the hours in which the calendar has no work

ASSUME CascadeAssumption ==
    /\ Plans \subseteq {p \in [Task -> Row] : NoOverlap(p)}
    /\ Requests \subseteq Row
    /\ MaxWaves \in Nat \ {0}
    /\ HardTaskLimit \in Nat /\ Margin \in Nat
    /\ Rest \subseteq Nat /\ IsFiniteSet(Rest)

VARIABLES
    original,    \* the plan as it was read
    changed,     \* the task the planner changed
    requested,   \* the row asked for
    snap,        \* the plan with the change and the pushes so far
    moved,       \* the tasks that apply() has touched: changed_tasks()
    pc,          \* what is looked for now
    wave,        \* 1 for the first wave
    frontier,    \* the tasks still to expand in this wave
    next,        \* next_frontier; its tasks are processed_in_wave
    push_count,  \* how often each task was pushed
    unresolved,  \* <<task, reason>>
    pulls,       \* the rows offered to successors, NoRow for the others
    prev_end,    \* no successor may be pulled to before this
    waiting      \* the successors still to be looked at for a pull

input  == <<original, changed, requested>>
offers == <<pulls, prev_end, waiting>>
vars   == <<input, snap, moved, pc, wave, frontier, next, push_count, unresolved, offers>>

Members(s) == {s[i] : i \in DOMAIN s}

T == Head(frontier)

Reasons == {"cycle_detected", "no_space_forward"}

(* A pull can lie before the first hour of the plan.                       *)
Offer == [start : Int, end : Int, equipment : Equipment]

WavesTypeOK ==
    /\ original \in [Task -> Row] /\ snap \in [Task -> Row]
    /\ changed \in Task /\ requested \in Row /\ moved \subseteq Task
    /\ pc \in {"overlaps", "successors", "pulls", "done", "failed"}
    /\ wave \in 1 .. MaxWaves
    /\ frontier \in Seq(Task) /\ next \in Seq(Task)
    /\ pc = "successors" => frontier # <<>>
    /\ push_count \in [Task -> Nat]
    /\ unresolved \subseteq Task \X Reasons

TypeOK ==
    /\ WavesTypeOK
    /\ pulls \in [Task -> Offer \cup {NoRow}]
    /\ prev_end \in Int
    /\ waiting \subseteq Task

(* A request for what is already there applies nothing, and the waves run  *)
(* all the same.                                                           *)
Init ==
    /\ original \in Plans
    /\ changed \in Task
    /\ requested \in Requests
    /\ snap = [original EXCEPT ![changed] = requested]
    /\ moved = IF snap = original THEN {} ELSE {changed}
    /\ pc = "overlaps" /\ wave = 1
    /\ frontier = <<changed>> /\ next = <<>>
    /\ push_count = [t \in Task |-> 0]
    /\ unresolved = {}
    /\ pulls = [t \in Task |-> NoRow] /\ prev_end = 0 /\ waiting = {}

-----------------------------------------------------------------------------
(* The waves *)

(* The ends, not after t's start, of the other tasks on t's machine, and   *)
(* the latest of them, if any.                                             *)
EndsBefore(t) ==
    {snap[o].end : o \in {u \in Task \ {t} : /\ snap[u].equipment = snap[t].equipment
                                             /\ snap[u].end <= snap[t].start}}

SameEqPrevEnd(t) == {e \in EndsBefore(t) : \A f \in EndsBefore(t) : f <= e}

(* Where t goes to make room for the head of the frontier; advance() is    *)
(* the identity.                                                           *)
Earliest(t) == Max({snap[T].end} \cup (SameEqPrevEnd(t) \ {snap[t].start}))

Conflicting == SameEquipmentOverlapping(T, snap) \ Members(next)

(* The later processes of the head's line, in the plan as it was read,     *)
(* that would now start too early.                                         *)
LateSuccessors ==
    {o \in Task \ {T} : /\ SameLine(T, o)
                        /\ original[o].start >= original[T].end
                        /\ snap[o].start < Earliest(o)} \ Members(next)

MovedTo(r, start) == [start |-> start, end |-> start + (r.end - r.start),
                      equipment |-> r.equipment]

Push(t) ==
    /\ snap' = [snap EXCEPT ![t] = MovedTo(snap[t], Earliest(t))]
    /\ moved' = moved \cup {t}
    /\ push_count' = [push_count EXCEPT ![t] = @ + 1]
    /\ next' = Append(next, t)

PushOverlapping(t) ==
    /\ pc = "overlaps" /\ frontier # <<>>
    /\ t \in Conflicting
    /\ \A o \in Conflicting : snap[t].start <= snap[o].start
    /\ Push(t)
    /\ UNCHANGED <<input, pc, wave, frontier, unresolved, offers>>

TurnToSuccessors ==
    /\ pc = "overlaps" /\ frontier # <<>>
    /\ Conflicting = {}
    /\ pc' = "successors"
    /\ UNCHANGED <<input, snap, moved, wave, frontier, next, push_count, unresolved, offers>>

PushSuccessor(t) ==
    /\ pc = "successors"
    /\ t \in LateSuccessors
    /\ \A o \in LateSuccessors : original[t].start <= original[o].start
    /\ Push(t)
    /\ UNCHANGED <<input, pc, wave, frontier, unresolved, offers>>

(* Mutant: the expanded task is queued again.                              *)
TurnToNextTaskRequeueing ==
    /\ pc = "successors"
    /\ LateSuccessors = {}
    /\ frontier' = Append(Tail(frontier), T)
    /\ pc' = "overlaps"
    /\ UNCHANGED <<input, snap, moved, wave, next, push_count, unresolved, offers>>

TurnToNextTask ==
    /\ pc = "successors"
    /\ LateSuccessors = {}
    /\ frontier' = Tail(frontier)
    /\ pc' = "overlaps"
    /\ UNCHANGED <<input, snap, moved, wave, next, push_count, unresolved, offers>>

Pushes == MapThenSumSet(LAMBDA t : push_count[t], Task)

NextWave ==
    /\ pc = "overlaps" /\ frontier = <<>> /\ next # <<>>
    /\ wave < MaxWaves /\ Pushes <= HardTaskLimit
    /\ wave' = wave + 1
    /\ frontier' = next /\ next' = <<>>
    /\ UNCHANGED <<input, snap, moved, pc, push_count, unresolved, offers>>

-----------------------------------------------------------------------------
(* After the waves *)

LastWaveOver ==
    /\ pc = "overlaps" /\ frontier = <<>>
    /\ next = <<>> \/ wave = MaxWaves \/ Pushes > HardTaskLimit

(* The end of the last task once the change is in, before any push.        *)
Horizon == Margin + Max({IF t = changed THEN requested.end ELSE original[t].end : t \in Task})

(* Mutant: the tasks left in next_frontier are not reported.               *)
UnresolvableForgetful ==
    {<<t, "cycle_detected">> : t \in {u \in Task : push_count[u] > MaxWaves}}
      \cup {<<t, "no_space_forward">> : t \in {u \in moved : snap[u].end > Horizon}}

(* The tasks that the waves left unexpanded (HARD_TASK_LIMIT names the     *)
(* changed task too), those pushed more often than there are waves, and    *)
(* those pushed too far.                                                   *)
Unresolvable ==
    {<<t, "cycle_detected">> : t \in Members(next)}
      \cup {<<t, "cycle_detected">> : t \in {c \in {changed} : next # <<>> /\ wave < MaxWaves}}
      \cup {<<t, "cycle_detected">> : t \in {u \in Task : push_count[u] > MaxWaves}}
      \cup {<<t, "no_space_forward">> : t \in {u \in moved : snap[u].end > Horizon}}

(* validate_due_date compares a datetime with a date: the request fails.   *)
FailOnDueDate ==
    /\ LastWaveOver
    /\ DueDateComparisonRaises(moved)
    /\ pc' = "failed"
    /\ UNCHANGED <<input, snap, moved, wave, frontier, next, push_count, unresolved, offers>>

Shorter == changed \in moved /\ snap[changed].end < original[changed].end

(* The successors of the changed task as they stand now.                   *)
Successors == {o \in Task \ {changed} : /\ SameLine(changed, o)
                                        /\ snap[o].start >= snap[changed].end}

Validate ==
    /\ LastWaveOver
    /\ ~DueDateComparisonRaises(moved)
    /\ unresolved' = Unresolvable
    /\ IF Shorter
       THEN pc' = "pulls" /\ prev_end' = snap[changed].end /\ waiting' = Successors
       ELSE pc' = "done" /\ UNCHANGED <<prev_end, waiting>>
    /\ UNCHANGED <<input, snap, moved, wave, frontier, next, push_count, pulls>>

(* calculate_start_datetime: the latest hour from which n working hours    *)
(* lead up to end.                                                         *)
WorkingHours(from, to) == Cardinality((from .. to - 1) \ Rest)

ReverseAdvance(end, n) ==
    CHOOSE x \in (end - n - Cardinality(Rest)) .. end :
       /\ WorkingHours(x, end) = n
       /\ \A y \in x + 1 .. end : WorkingHours(y, end) < n

(* Mutant: the task before t on the machine is not looked at.              *)
PullToPrevEnd(t) == prev_end

PullTo(t) == Max({prev_end} \cup SameEqPrevEnd(t))

FirstWaiting(t) ==
    /\ pc = "pulls"
    /\ t \in waiting
    /\ \A o \in waiting : snap[t].start <= snap[o].start
    /\ waiting' = waiting \ {t}
    /\ UNCHANGED <<input, snap, moved, pc, wave, frontier, next, push_count, unresolved>>

(* The slack is elapsed time, and is taken back in working time.           *)
OfferPull(t) ==
    /\ FirstWaiting(t)
    /\ PullTo(t) < snap[t].start
    /\ LET r == MovedTo(snap[t], ReverseAdvance(snap[t].start, snap[t].start - PullTo(t)))
       IN  pulls' = [pulls EXCEPT ![t] = r] /\ prev_end' = r.end

LeaveInPlace(t) ==
    /\ FirstWaiting(t)
    /\ PullTo(t) >= snap[t].start
    /\ prev_end' = snap[t].end
    /\ UNCHANGED pulls

Answer ==
    /\ pc = "pulls" /\ waiting = {}
    /\ pc' = "done"
    /\ UNCHANGED <<input, snap, moved, wave, frontier, next, push_count, unresolved, offers>>

-----------------------------------------------------------------------------
Step ==
    \/ \E t \in Task : \/ PushOverlapping(t) \/ PushSuccessor(t)
                       \/ OfferPull(t) \/ LeaveInPlace(t)
    \/ TurnToSuccessors \/ TurnToNextTask \/ NextWave
    \/ FailOnDueDate \/ Validate \/ Answer

(* The preview runs in one piece; when it has answered, it rests.          *)
Answered == pc \in {"done", "failed"} /\ UNCHANGED vars

Next == Step \/ Answered

Spec == Init /\ [][Next]_vars /\ WF_vars(Step)

-----------------------------------------------------------------------------
(* Properties *)

can_auto_resolve == pc = "done" /\ unresolved = {}

WithPulls == [t \in Task |-> IF pulls[t] = NoRow THEN snap[t] ELSE pulls[t]]

(* A preview that reports nothing unresolved leaves no two tasks on one    *)
(* machine at once, although each step looks only at the head of the       *)
(* frontier and processed_in_wave makes it skip tasks.                     *)
AutoResolvedIsSound == can_auto_resolve => NoOverlap(snap)

(* Why: of two tasks that overlap, one is still to be expanded.            *)
Awaiting ==
    Members(next) \cup IF pc = "successors" THEN Members(Tail(frontier)) ELSE Members(frontier)

OverlapsAwaitTheirTurn ==
    \A t, o \in Task : t # o /\ Overlap(snap[t], snap[o]) => t \in Awaiting \/ o \in Awaiting

(* No task is pushed twice in one wave, so validate_cycles never finds a   *)
(* task pushed more than MAX_WAVES times.                                  *)
OncePerWave == \A t \in Task : push_count[t] <= wave

(* Pushing takes tasks back in time never, and keeps machine and length of *)
(* all but the task the planner changed.                                   *)
PushesOnlyDelay ==
    [][\A t \in Task : snap'[t] # snap[t] =>
          /\ snap[t].start < snap'[t].start
          /\ snap'[t].end - snap'[t].start = snap[t].end - snap[t].start
          /\ snap'[t].equipment = snap[t].equipment]_vars

(* The rest that the pull of t crosses.                                    *)
RestCrossed(t) == Cardinality(Rest \cap (pulls[t].start .. snap[t].start - 1))

(* An offer does not stop where the task before it on the machine ends     *)
(* (PullsFit below): slack is elapsed time, and is taken back as working   *)
(* time.  But rest is all that can be in the way of accepting the offers   *)
(* together: two tasks that then collide, with or without offers of their  *)
(* own, share no more hours than the rest that one of them was pulled      *)
(* over, in whatever order the chain of successors takes them.             *)
PullsMeetOverRest ==
    can_auto_resolve =>
       \A t, o \in Task :
          t # o /\ Overlap(WithPulls[t], WithPulls[o]) =>
             \E u, v \in {t, o} : /\ u # v /\ pulls[u] # NoRow
                                  /\ WithPulls[v].end - pulls[u].start <= RestCrossed(u)

(* The preview answers.                                                    *)
Terminates == <>(pc \in {"done", "failed"})

-----------------------------------------------------------------------------
(* What the documents say of the preview and the code does not do.         *)

(* "A later process of the same line that starts before T ends is pushed": *)
(* not when another predecessor has pushed it earlier in the same wave,    *)
(* and nobody looks at it again.                                           *)
SuccessorsFollow ==
    can_auto_resolve =>
       \A t \in moved, o \in Task \ {changed} :
          SameLine(t, o) /\ original[o].start >= original[t].end
             => snap[o].start >= snap[t].end

(* "The end of the task before it on the machine limits a pull": not when  *)
(* there is rest between that end and the start of the successor.          *)
PullsFit == can_auto_resolve => NoOverlap(WithPulls)

(* A preview without unresolved tasks may be applied as it stands; but the *)
(* bulk update checks the changed task against its own predecessors, which *)
(* the preview never does.                                                 *)
AutoResolvedIsAccepted ==
    can_auto_resolve /\ moved # {} =>
       Verdict(moved, [snap EXCEPT ![changed] = requested]) = "accept"

(* A pull that would break the order of the line is dropped (case E6).     *)
PullsKeepOrder ==
    can_auto_resolve /\ ChainInOrder(snap) => ChainInOrder(WithPulls)

=============================================================================
