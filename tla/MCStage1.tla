------------------------------- MODULE MCStage1 -------------------------------
(***************************************************************************)
(* Two orders of one cross section, one of another.  A lot is 2 m: the     *)
(* first two fit exactly; the third leaves a surplus of 20 m of a lot of   *)
(* 40 m, which a survey finds 1 m short.                                   *)
(* An update may find the groups of section 10 too much for one machine,   *)
(* as orders are added to them; an ingest may fail to match stock.         *)
(***************************************************************************)
EXTENDS Stage1

MCOrder  == 1 .. 3
MCSqOf   == <<10, 10, 20>>
MCQtyOf  == <<2, 4, 20>>
MCCores  == <<1, 1, 1>>
MCDueOf  == <<1, 5, 3>>
MCRoute  == <<<<1, 2>>, <<1, 2>>, <<1>>>>
MCLotOf  == [sq \in {10, 20} |-> IF sq = 10 THEN 2 ELSE 40]
MCCovers == [stage \in {"stranded", "insulated"} |-> IF stage = "stranded" THEN {1} ELSE {1, 2}]

MCFiles   == {<<1, 2, 3>>, <<3>>}
MCSurveys == {Nothing, <<[kind |-> <<"stranded", 20>>, len |-> 19], [kind |-> <<"insulated", 10>>, len |-> 4]>>}
MCWindows == {<<0, 3>>}
MCLate    == [ingest |-> {}, update |-> {10}]
MCMatching == [ingest |-> {TRUE, FALSE}, update |-> {TRUE}]
MCBound   == [ingest |-> 1, update |-> 2, status |-> 1, stage2 |-> 1, delete |-> 1, measure |-> 1, shortage |-> 1]

=============================================================================
