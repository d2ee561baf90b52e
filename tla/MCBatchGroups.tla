---------------------------- MODULE MCBatchGroups ----------------------------
(***************************************************************************)
(* A group of three orders with a header, and one of a single order; the   *)
(* first may be split twice.                                               *)
(***************************************************************************)
EXTENDS BatchGroups

MCSuffixed == [g \in Groups |-> CASE g = "g1" -> {"g1_B"} [] OTHER -> {}]

MCLenOf == [b \in Order |-> CASE b = 1 -> 3 [] b = 2 -> 12 [] b = 3 -> 20 [] OTHER -> 1]

MCStockLen == [w \in Stock |-> 12]

Rows0(wip) ==
    [b \in DOMAIN wip \cup {4, 11} |->
       CASE b = 4  -> [group |-> "g2", status |-> "planned", wip |-> Nothing, lots |-> 0]
         [] b = 11 -> [group |-> "g1", status |-> "planned", wip |-> Nothing, lots |-> Lots(Net({1, 2, 3}, wip))]
         [] b \in DOMAIN wip -> [group |-> "g1", status |-> "planned", wip |-> wip[b], lots |-> 0]]

(* One of two orders has stock and shares it with nobody, or two orders    *)
(* share it, as stage 1 leaves them when both fit on one stock row.        *)
MCBegin == {Rows0(wip) : wip \in {[b \in {1, 2, 3} |-> IF b \in B THEN 101 ELSE Nothing] : B \in {{1}, {2}, {2, 3}}}}

(* Two orders share their stock, and a third fits into it.                 *)
MCShortLen == [b \in Order |-> CASE b = 1 -> 3 [] b \in {2, 3} -> 12 [] OTHER -> 1]

MCSharedAcross == {Rows0([b \in {1, 2, 3} |-> IF b = 2 THEN Nothing ELSE 101])}

MCPlaces == {[machine |-> "m1", start |-> s, end |-> s + 2] : s \in {0, 1}} \cup
            {[machine |-> "m2", start |-> 0, end |-> 2]}

=============================================================================
