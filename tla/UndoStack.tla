------------------------------ MODULE UndoStack ------------------------------
(***************************************************************************)
(* What bulk update and revert promise together, seen by the planner: a    *)
(* plan and the stack of plans it replaced.  An edit puts the current plan *)
(* on the stack and installs another admissible one; an undo takes the top *)
(* of the stack back, exactly as it was.  The entries carry a version so   *)
(* that the stack is a set: the top is the entry of the highest version.   *)
(***************************************************************************)
EXTENDS Integers

CONSTANT Plans      \* the admissible plans

VARIABLES plan,     \* the plan in force
          past      \* [version, plan] of every plan an undo can reach

Init == plan \in Plans /\ past = {}

Edit ==
    /\ plan' \in Plans \ {plan}
    /\ \E e \in past' :
          /\ past' = past \cup {e}
          /\ e.plan = plan
          /\ \A p \in past : p.version < e.version

Undo ==
    \E e \in past :
       /\ \A p \in past : p.version <= e.version
       /\ plan' = e.plan
       /\ past' = past \ {e}

Next == Edit \/ Undo

Spec == Init /\ [][Next]_<<plan, past>>

=============================================================================
