------------------------------ MODULE Machines ------------------------------
(***************************************************************************)
(* Which machines a batch group may use: the filters of slot_filters.py    *)
(* and the preferences of _assign_group.py, each of which narrows the list *)
(* and is dropped when nothing would be left of it.                        *)
(*                                                                         *)
(* A group is a record of its first batch (process, sq, material, ...);    *)
(* a machine is a row of EquipmentMaster, in the order of the table, and a *)
(* list of machines is the set of their places in it.                      *)
(***************************************************************************)
EXTENDS Integers

CONSTANTS
    Machines,        \* the rows of EquipmentMaster, a sequence
    WireOf           \* the wire diameter of a cross section, 0 if unknown

Sheathing == {"low sheath", "high sheath"}

InsulationProcesses == {"low insulation", "high insulation"}

(* "Keep those that pass, or all of them if none does."                    *)
Narrow(ms, Test(_)) ==
    LET kept == {i \in ms : Test(Machines[i])} IN IF kept = {} THEN ms ELSE kept

(* 10-3: the material of the sheath.                                       *)
FilterBySheathRouting(g, ms) ==
    CASE g.sheath = "HFPO"  -> Narrow(ms, LAMBDA m : m.hfpo)
      [] g.sheath = "LLDPE" -> Narrow(ms, LAMBDA m : m.code = "A150")
      [] OTHER              -> ms

(* Groups named A100_ and A120_ have one machine, and no other will do.    *)
Candidates(g) ==
    LET OfProcess == {i \in DOMAIN Machines : Machines[i].process = g.process}
        Routed    == IF g.process \in Sheathing THEN FilterBySheathRouting(g, OfProcess) ELSE OfProcess
    IN  IF g.line = "" THEN Routed ELSE {i \in Routed : Machines[i].code = g.line}

(* Mutant: the colours of the dark line are left to its name.              *)
EligibleAnyColor(g) ==
    {i \in Candidates(g) : LET m == Machines[i] IN
        /\ m.material \in {"ALL", g.material}
        /\ m.min = 0 \/ m.min <= g.sq
        /\ m.max = 0 \/ g.sq <= m.max}

(* Material, range of cross sections and colours.  A range of 0 is none.   *)
Eligible(g) ==
    {i \in Candidates(g) : LET m == Machines[i] IN
        /\ m.material \in {"ALL", g.material}
        /\ m.min = 0 \/ m.min <= g.sq
        /\ m.max = 0 \/ g.sq <= m.max
        /\ m.darkOnly => g.color \in {"black", "blue"}}

NarrowByStranding(g, ms) ==
    IF g.stranding = "7 core"
    THEN Narrow(ms, LAMBDA m : m.method = "7" /\ (g.material = "AL" => m.material = "AL"))
    ELSE IF g.sq >= 300 THEN Narrow(ms, LAMBDA m : m.method = "61")
    ELSE Narrow(ms, LAMBDA m : m.method \notin {"7", "61"})

(* The machine that the cross section is mapped to, from 70 SQ on, or else *)
(* one that has the same wire on it; mapped is a function on sections.     *)
PreferMapped(g, ms, mapped) ==
    IF g.sq \in DOMAIN mapped
    THEN IF g.sq >= 70 THEN Narrow(ms, LAMBDA m : m.code = mapped[g.sq]) ELSE ms
    ELSE IF WireOf[g.sq] = 0 THEN ms
    ELSE Narrow(ms, LAMBDA m : m.code \in {mapped[s] : s \in {x \in DOMAIN mapped : WireOf[x] = WireOf[g.sq]}})

Choice(g, mapped) ==
    CASE g.process = "stranding" ->
            LET ms == NarrowByStranding(g, Eligible(g)) IN
            IF g.core THEN ms ELSE PreferMapped(g, ms, mapped)
      [] g.process = "tape" -> Narrow(Eligible(g), LAMBDA m : m.code = "TP-2")
      [] OTHER -> Eligible(g)

=============================================================================
