----------------------------- MODULE MCTimeline -----------------------------
(***************************************************************************)
(* A week with a holiday on Wednesday: tasks from Monday morning and noon, *)
(* from the small hours of Tuesday and from Friday afternoon; predecessors *)
(* that end after the break of Monday noon, on Tuesday before noon, in the *)
(* small hours of the holiday and with the last stranding shift of the     *)
(* week.                                                                   *)
(***************************************************************************)
EXTENDS Timeline

At(day, hour) == 48 * day + 2 * hour
MCInstants    == {At(0, 8), At(0, 12), At(1, 3), At(4, 15)}
MCPredEnds    == {At(0, 13), At(1, 11), At(2, 3), At(4, 22)}

=============================================================================
