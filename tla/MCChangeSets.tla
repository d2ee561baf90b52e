---------------------------- MODULE MCChangeSets ----------------------------
(* Instances of ChangeSets for TLC.                                         *)
EXTENDS Views, TLC

CONSTANTS t1, t2, e1, e2, l1, s1, s2, b1, b2

Span(a, b) == [start |-> a, end |-> b]

TwoLines  == (t1 :> l1) @@ (t2 :> NoLine)

AllFit == [e \in Equipment |-> Task]
(* The only machine cannot make t2.                                          *)
OneFits == e1 :> {t1}

ThreeSlots == {Span(0, 1), Span(1, 2), Span(0, 2)}
TwoSlots   == {Span(0, 1), Span(1, 2)}

(* Two batches that either machine can make, one of them without any data;  *)
(* the machines are alike, so that they may be swapped.                     *)
Apart     == (t1 :> b1) @@ (t2 :> b2)
Created   == (t1 :> 1) @@ (t2 :> 2)
Batches   ==
    (b1 :> [process |-> "sheath", sq |-> 70, material |-> "CU", color |-> "red", due |-> 1, priority |-> 99])
    @@ (b2 :> [process |-> "sheath", sq |-> Null, material |-> Null, color |-> Null, due |-> Null, priority |-> 7])
Machines1 ==
    [e \in Equipment |-> [process |-> "sheath", min |-> 25, max |-> 95, material |-> "CU", colors |-> {"red", "blue"}]]

Sessions2 == Permutations({s1, s2})
Machines2 == Permutations({e1, e2})
=============================================================================
