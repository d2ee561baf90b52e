------------------------------ MODULE MCCpSat ------------------------------
(***************************************************************************)
(* A run from a Thursday on: two sections of one wire on one strander, the *)
(* second of them urgent, each with its insulation and its sheath in a     *)
(* colour of its own, and the assembly of the first; a strand that is      *)
(* dealt out to two machines.  Blocks that were started are on the machine *)
(* of the strands, where one is urgent itself, and on that of the          *)
(* insulation; one on the machine of the sheaths begins too late to be in  *)
(* the way of any.                                                         *)
(***************************************************************************)
EXTENDS CpSat

Machine(code, process, cat, material) ==
    [code |-> code, process |-> process, cat |-> cat, material |-> material, min |-> 0, max |-> 0,
     method |-> "", darkOnly |-> FALSE, hfpo |-> FALSE]

MCMachines == <<
    Machine("ST-1", "stranding", "strand", "CU"),
    Machine("ST-2", "stranding", "strand", "AL"),
    Machine("ST-3", "stranding", "strand", "AL"),
    Machine("EX-1", "low insulation", "nonstop", "ALL"),
    Machine("CA-1", "assembly", "strand", "ALL"),
    Machine("SH-1", "low sheath", "nonstop", "ALL")>>

O(order, due, drums, sq) == [order |-> order, due |-> due, drums |-> drums, sq |-> sq]

G(process, sq, color, prio, drums, orders) ==
    [process |-> process, sq |-> sq, material |-> "CU", color |-> color, sheath |-> "PVC", stranding |-> "",
     core |-> FALSE, st |-> process = "stranding", line |-> "", drums |-> drums, cores |-> {}, setup |-> 2,
     prio |-> prio, headed |-> TRUE, orders |-> orders]

MCInfo == [
    st70  |-> G("stranding", 70, "", 99, 3, <<O("o1", 3, 3, 70)>>),
    st95  |-> G("stranding", 95, "", 5, 2, <<O("o2", 4, 2, 95)>>),
    al    |-> [G("stranding", 150, "", 99, 2, <<O("o3", 9, 1, 150), O("o4", 9, 1, 150)>>) EXCEPT !.material = "AL"],
    in70  |-> [G("low insulation", 70, "red", 4, 3, <<O("o1", 3, 2, 70), O("o5", 8, 1, 70)>>) EXCEPT !.headed = FALSE],
    in95  |-> G("low insulation", 95, "red", 5, 1, <<O("o2", 4, 1, 95)>>),
    uni70 |-> [G("assembly", 70, "", 99, 1, <<O("o1", 7, 1, 70)>>) EXCEPT !.cores = {"red"}],
    sh70  |-> G("low sheath", 70, "black", 99, 2, <<O("o1", 7, 2, 70)>>),
    sh95  |-> G("low sheath", 95, "red", 2, 1, <<O("o2", 4, 1, 95)>>),
    one   |-> G("stranding", 70, "", 99, 1, <<O("o6", 9, 1, 70)>>),
    hot   |-> G("stranding", 70, "", 1, 1, <<O("o6", 9, 1, 70)>>),
    dark  |-> G("low sheath", 70, "black", 99, 1, <<O("o6", 9, 1, 70)>>),
    three |-> G("low insulation", 70, "red", 3, 3, <<O("o6", 9, 3, 70)>>)]

MCGroup   == DOMAIN MCInfo
MCStarted == {"one", "hot", "dark", "three"}
MCWireOf  == [s \in {0, 70, 95, 150} |-> IF s = 150 THEN 3 ELSE 2]
MCWork    == [g \in MCGroup |-> 
    CASE g \in {"st70", "in70"} -> 8 [] g = "sh70" -> 5 [] g = "al" -> 50 [] g = "uni70" -> 16 [] g = "st95" -> 8
      [] g \in {"one", "hot"} -> 70 [] g = "three" -> 50 [] OTHER -> 3]
MCBase    == 3 * 48 + 16
MCWeights == [critical |-> 10000, urgent |-> 1000, normal |-> 100, severity |-> 5, idle |-> 1, slack |-> 20,
              edd |-> 10, mixed |-> 1000, transition |-> 5]

Kept(g, machine, start) ==
    LET cat == MachineCat(machine) IN
    [group |-> g, machine |-> machine, cat |-> cat, start |-> start,
     end |-> RoundUp(EndOf(cat, start, Info[g].setup + Info[g].drums * MCWork[g])),
     first |-> EndOf(cat, start, Info[g].setup + MCWork[g]),
     order |-> Info[g].orders[1].order, due |-> Info[g].orders[1].due, drums |-> Info[g].drums,
     setup |-> Info[g].setup, alone |-> TRUE, kept |-> TRUE, gone |-> FALSE]

MCSeeds ==
    LET one   == Kept("one", "ST-1", MCBase - 6)
        dark  == Kept("dark", "SH-1", MCBase + 226)
        hot   == Kept("hot", "ST-1", MCBase - 6)
        three == Kept("three", "EX-1", MCBase - 6)
    IN  {<<one, three>>, <<hot, three, dark>>}

(* The hypothesis of NoDrumIsLost is true of these.                        *)
ASSUME MCSeedsAreWhole == WholeSeeds

MCAssignments == [MCGroup \ MCStarted -> [code : {MCMachines[i].code : i \in DOMAIN MCMachines}, start : 0 .. 6]]

=============================================================================
