------------------------------ MODULE MCGreedy ------------------------------
(***************************************************************************)
(* A run with every kind of group: a core and its strand, sections of one  *)
(* wire, strands and sheaths for several machines, colours and an assembly *)
(* of each voltage, a sheath of the dark line, one that no machine takes,  *)
(* and a section (500) that no machine strands.                            *)
(***************************************************************************)
EXTENDS PlanChecker

Machine(code, process, cat, material, min, max, method) ==
    [code |-> code, process |-> process, cat |-> cat, material |-> material, min |-> min, max |-> max,
     method |-> method, darkOnly |-> code = "SH-A120", hfpo |-> FALSE]

MCMachines == <<
    Machine("T6B0", "stranding", "strand", "ALL", 0, 300, "7"),
    Machine("ST-1", "stranding", "strand", "CU", 0, 200, ""),
    Machine("ST-2", "stranding", "strand", "ALL", 0, 100, ""),
    Machine("ST-3", "stranding", "strand", "ALL", 0, 100, ""),
    Machine("54BO", "stranding", "strand", "ALL", 200, 400, "61"),
    Machine("EX-B100", "low insulation", "nonstop", "ALL", 0, 0, ""),
    Machine("EX-CV1", "high insulation", "cv", "ALL", 0, 0, ""),
    Machine("EX-CV2", "high insulation", "cv", "ALL", 0, 0, ""),
    Machine("CA-4BO", "assembly", "strand", "ALL", 0, 0, ""),
    Machine("SH-A100", "low sheath", "nonstop", "ALL", 0, 0, ""),
    Machine("SH-A120", "low sheath", "nonstop", "ALL", 0, 0, ""),
    Machine("SH-A150", "high sheath", "nonstop", "ALL", 0, 0, ""),
    Machine("SH-B150", "high sheath", "nonstop", "ALL", 0, 0, "")>>

O(order, due, drums, sq) == [order |-> order, due |-> due, drums |-> drums, sq |-> sq]

G(process, sq, color, line, drums, orders) ==
    [process |-> process, sq |-> sq, material |-> "CU", color |-> color, sheath |-> "PVC", stranding |-> "",
     core |-> FALSE, st |-> process = "stranding", line |-> line, drums |-> drums, cores |-> {}, setup |-> 2,
     prio |-> 5, orders |-> orders]

MCInfo == [
    core  |-> [G("stranding", 300, "", "", 2, <<O("o3", 7, 2, 300)>>) EXCEPT !.core = TRUE, !.st = FALSE, !.stranding = "7 core"],
    st300 |-> G("stranding", 300, "", "", 2, <<O("o3", 7, 2, 300)>>),
    st70  |-> G("stranding", 70, "", "", 1, <<O("o1", 4, 1, 70)>>),
    st70b |-> [G("stranding", 70, "", "", 1, <<O("o2", 9, 1, 70)>>) EXCEPT !.prio = 1],
    al70  |-> [G("stranding", 70, "", "", 1, <<O("o8", 12, 1, 70)>>) EXCEPT !.material = "AL"],
    st95  |-> [G("stranding", 95, "", "", 3, <<O("o4", 3, 1, 95), O("o5", 8, 2, 95)>>) EXCEPT !.material = "AL"],
    red   |-> G("low insulation", 70, "red", "", 1, <<O("o1", 4, 1, 70)>>),
    black |-> G("low insulation", 70, "black", "", 2, <<O("o1", 9, 2, 70)>>),
    union |-> [G("assembly", 70, "", "", 1, <<O("o1", 4, 1, 70)>>) EXCEPT !.cores = {"red", "black"}],
    dark  |-> G("low sheath", 70, "black", "SH-A120", 1, <<O("o1", 4, 1, 70), O("o2", 9, 1, 95)>>),
    pink  |-> [G("low sheath", 70, "red", "SH-A120", 1, <<O("o2", 9, 1, 70)>>) EXCEPT !.prio = 1],
    hv    |-> G("high insulation", 300, "brown", "", 3, <<O("o3", 7, 3, 300)>>),
    hvu   |-> [G("assembly", 300, "", "", 1, <<O("o3", 12, 1, 300)>>) EXCEPT !.prio = 1, !.cores = {"brown"}],
    hs    |-> G("high sheath", 300, "red", "", 2, <<O("o3", 12, 2, 300)>>),
    st500 |-> G("stranding", 500, "", "", 2, <<O("o6", 20, 2, 500)>>),
    li500 |-> G("low insulation", 500, "black", "", 1, <<O("o7", 20, 1, 500)>>),
    hv500 |-> G("high insulation", 500, "brown", "", 2, <<O("o6", 20, 2, 500)>>)]

MCGroup == DOMAIN MCInfo

MCWireOf == [s \in {0, 70, 95, 300, 500} |-> IF s >= 300 THEN 3 ELSE 2]

(* One group takes twenty hours a drum, the others ninety minutes.         *)
MCDrumWorks == {[g \in MCGroup |-> IF g = slow THEN 40 ELSE 3] : slow \in {"al70", "st70", "st300", "black", "union", "hv", "hs"}}

(* A Monday and a Thursday afternoon, with Friday a holiday.               *)
MCBases == {16, 3 * 48 + 32}

Kept(g, machine, start, end, first, order, due) ==
    [group |-> g, machine |-> machine, cat |-> MachineCat(machine), start |-> start, end |-> end, first |-> first,
     order |-> order, due |-> due, drums |-> Info[g].drums, setup |-> Info[g].setup, alone |-> TRUE, kept |-> TRUE, gone |-> FALSE]

MCSeeds ==
    LET hv500 == Kept("hv500", "EX-CV1", 16, 24, 20, "o6", 20)
        st70  == Kept("st70", "ST-1", 20, 28, 25, "o1", 4)
    IN  {<<>>, <<hv500>>, <<st70, hv500>>}

(* Two groups of customers who count the arrival, one lot has no buffer.   *)
MCNote == [g \in MCGroup |->
    [arrival |-> g \in {"union", "hs"},
     buffer |-> g # "dark", gc |-> g = "red"]]

MCHours == [code \in {MCMachines[i].code : i \in DOMAIN MCMachines} |-> 20]

MCEnabled == {"1-1", "1-2", "3-3", "4-1", "5-1", "6-1", "6-2", "6-3", "6-4", "7-1", "7-2", "8-1", "8-2", "8-3",
              "9-1", "9-2", "10-2"}

MCParams == [transport_days |-> 1, daily_available_hours |-> 40, absence_reduction_hours |-> 8,
             utilization_threshold |-> 90, material_available |-> FALSE, lead_time_days |-> 7,
             cu_available |-> TRUE, al_available |-> FALSE]

=============================================================================
