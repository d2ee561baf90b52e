-------------------------- MODULE MCCascadePreview --------------------------
(* Instances of CascadePreview for TLC.                                     *)
EXTENDS CascadePreview, TLC

CONSTANTS t1, t2, t3, t4, e1, e2, e3, l1

At(e, a, b) == [start |-> a, end |-> b, equipment |-> e]

RowsOf(starts, lengths) ==
    {At(e, a, a + d) : e \in Equipment, a \in starts, d \in lengths}

SoundPlans(rows) == {p \in [Task -> rows] : NoOverlap(p)}

ThreeOfLine == (t1 :> l1) @@ (t2 :> l1) @@ (t3 :> l1)
TwoOfLine   == (t1 :> l1) @@ (t2 :> l1) @@ (t3 :> NoLine)
FourTasks   == (t1 :> l1) @@ (t2 :> l1) @@ (t3 :> l1) @@ (t4 :> NoLine)

(* Three tasks of one or two hours within four hours.                       *)
ShortRows  == RowsOf(0 .. 3, 1 .. 2)
ShortPlans == SoundPlans(ShortRows)

(* Four tasks of one hour; a task may be stretched over all of them.        *)
UnitPlans == SoundPlans(RowsOf(0 .. 2, {1}))
Stretched == RowsOf(0 .. 1, 1 .. 3)

(* t2 and t3 run in parallel between t1 and t4 of one line.                 *)
ParallelLine == [t \in Task |-> l1]
Parallel == (t1 :> At(e1, 0, 1)) @@ (t2 :> At(e2, 1, 2)) @@ (t3 :> At(e3, 1, 3))
              @@ (t4 :> At(e1, 3, 4))
ParallelPlan == {Parallel}
LongRows == RowsOf({0}, 3 .. 4)

Machines == Permutations(Equipment)
=============================================================================
