----------------------------- MODULE BatchGroups -----------------------------
(***************************************************************************)
(* The life of the batch groups of a run between stage 1 and the shop      *)
(* floor: a group is taken off the chart and put back                      *)
(* (batch_group_lifecycle.py), split in two (_batch_group_split.py), its   *)
(* batches are started and completed (plan_pipeline_batch.py), its tasks   *)
(* are moved, and stage 2 places what is planned anew.                     *)
(*                                                                         *)
(* Rows are found by the name of the group alone, as in the code.  A group *)
(* of stranding has a header (batch_seq = -1), the work of the group in    *)
(* lots; the other rows are its orders.  Each request is one transaction,  *)
(* and takes the rows of its group FOR UPDATE: it is one step.             *)
(***************************************************************************)
EXTENDS Integers, FiniteSetsExt, SequencesExt

CONSTANTS
    Order,           \* batch ids of the orders, numbers
    Header,          \* batch ids that headers may get, numbers
    Groups,          \* names of groups
    Suffixed,        \* Suffixed[g]: the names that a part split off g may get
    Begin,           \* the rows and their headers after stage 1
    LenOf,           \* length of an order
    LotSize,         \* drum_length_m of the headers
    Stock,           \* wip ids of stranded or insulated stock, numbers
    StockLen,        \* its length
    Places,          \* [machine, start, end] a task may have
    NewStatuses,     \* the statuses that are set
    MaxUpdates,      \* bound: requests that set a status
    Nothing          \* NULL

VARIABLES
    row,             \* production_batch: the rows that there are, by batch id
    task,            \* schedule_task
    stuck,           \* groups that a request has left half unassigned
    updates          \* requests that have set a status

vars == <<row, task, stuck, updates>>

Batch == Order \cup Header

Statuses == {"planned", "scheduled", "in_progress", "completed", "wip_complete", "unassigned"}
Frozen   == {"in_progress", "completed", "wip_complete"}

Row  == [group : Groups, status : Statuses, wip : Stock \cup {Nothing}, lots : Nat]
Task == [batch : Batch, group : Groups, status : {"planned", "scheduled", "unassigned"}, place : Places]

(* No stage 1 leaves a row "unassigned", and no status request sets it.    *)
ASSUME BatchGroupsAssumption ==
    /\ Batch \subseteq Nat /\ IsFiniteSet(Batch) /\ Order \cap Header = {}
    /\ Stock \subseteq Nat /\ IsFiniteSet(Stock) /\ Nothing \notin Stock
    /\ LenOf \in [Order -> Nat] /\ StockLen \in [Stock -> Nat] /\ LotSize \in Nat \ {0}
    /\ \A g \in Groups : Suffixed[g] \subseteq Groups \ {g}
    /\ \A r \in Begin : /\ DOMAIN r \subseteq Batch /\ r \in [DOMAIN r -> Row]
                       /\ \A b \in DOMAIN r : r[b].status # "unassigned"
    /\ NewStatuses \subseteq {"planned", "in_progress", "completed"}
    /\ MaxUpdates \in Nat

Rows == DOMAIN row

TypeOK ==
    /\ Rows \subseteq Batch /\ row \in [Rows -> Row]
    /\ task \subseteq Task
    /\ stuck \subseteq Groups
    /\ updates \in 0 .. MaxUpdates

RowsOf(g)     == {b \in Rows : row[b].group = g}
OrdersOf(g)   == RowsOf(g) \cap Order
HeadersOf(g)  == RowsOf(g) \cap Header
StatusesOf(g) == {row[b].status : b \in RowsOf(g)}

(* The tasks of the batches of a group; a task also names a group.         *)
TasksOf(g) == {t \in task : t.batch \in RowsOf(g)}

WithStatus(B, s) == [b \in Rows |-> IF b \in B THEN [row[b] EXCEPT !.status = s] ELSE row[b]]

(* The sum of the values of a function.                                    *)
Total(f) == FoldFunction(+, 0, f)

Overlap(p, q) == p.machine = q.machine /\ p.start < q.end /\ q.start < p.end

SetTasks(T, s) == (task \ T) \cup {[t EXCEPT !.status = s] : t \in T}

Init ==
    /\ row \in Begin
    /\ task = {}
    /\ stuck = {}
    /\ updates = 0

-----------------------------------------------------------------------------
(* Off the chart and back *)

(* Mutant: the header is forgotten.                                        *)
UnassignOrders(g) ==
    /\ StatusesOf(g) # {} /\ StatusesOf(g) \subseteq {"planned", "scheduled"}
    /\ \A b \in RowsOf(g) : row[b].wip = Nothing
    /\ row' = WithStatus(OrdersOf(g), "unassigned")
    /\ task' = SetTasks(TasksOf(g), "unassigned")
    /\ UNCHANGED <<stuck, updates>>

(* unassign_batch_group: only a group that nobody has started, and that    *)
(* takes nothing from stock.  Its tasks keep their place.                  *)
Unassign(g) ==
    /\ StatusesOf(g) # {} /\ StatusesOf(g) \subseteq {"planned", "scheduled"}
    /\ \A b \in RowsOf(g) : row[b].wip = Nothing
    /\ row' = WithStatus(RowsOf(g), "unassigned")
    /\ task' = SetTasks(TasksOf(g), "unassigned")
    /\ UNCHANGED <<stuck, updates>>

(* Tasks that are in the way of the group: those with status "planned".    *)
InTheWay(g) ==
    {u \in task : u.status = "planned" /\ \E t \in TasksOf(g) : u # t /\ Overlap(t.place, u.place)}

(* restore_batch_group: back to where it was, if nothing is in the way.    *)
Restore(g) ==
    /\ StatusesOf(g) = {"unassigned"}
    /\ InTheWay(g) = {}
    /\ row' = WithStatus(RowsOf(g), "planned")
    /\ task' = SetTasks(TasksOf(g), "planned")
    /\ UNCHANGED <<stuck, updates>>

(* list_batch_group_snapshots: the groups that wait in the inbox, each     *)
(* counted from its unassigned rows, the header among them.                *)
Inbox ==
    LET waiting == {b \in Rows : row[b].status = "unassigned"} IN
    [g \in {row[b].group : b \in waiting} |->
       LET B == {b \in waiting : row[b].group = g} IN
       [order_count  |-> Cardinality(B),
        total_length |-> Total([b \in B |-> IF b \in Header THEN row[b].lots * LotSize ELSE LenOf[b]])]]

-----------------------------------------------------------------------------
(* Started, completed, planned again; these look at no status before.      *)

(* A request that leaves a group with unassigned rows and others.          *)
StuckAfter ==
    {g \in Groups : LET s == {row'[b].status : b \in {x \in DOMAIN row' : row'[x].group = g}}
                    IN  "unassigned" \in s /\ s # {"unassigned"}}

SetStatus(B, s) ==
    /\ row' = WithStatus(B, s)
    /\ updates < MaxUpdates /\ updates' = updates + 1
    /\ stuck' = stuck \cup StuckAfter
    /\ UNCHANGED task

(* With the first header of its group.                                     *)
UpdateBatchStatus(b, s) ==
    /\ b \in Rows
    /\ \/ HeadersOf(row[b].group) = {} /\ SetStatus({b}, s)
       \/ \E h \in HeadersOf(row[b].group) : SetStatus({b, h}, s)

UpdateBatch(b, s) == b \in Rows /\ SetStatus({b}, s)

UpdateBatchGroupStatus(g, s) == RowsOf(g) # {} /\ SetStatus(RowsOf(g), s)

-----------------------------------------------------------------------------
(* Split *)

SumLen(B) == Total([b \in B |-> LenOf[b]])

Positive(n) == IF n > 0 THEN n ELSE 0

Lots(n) == IF n <= 0 THEN 0 ELSE (n + LotSize - 1) \div LotSize

Without(B, wip)  == {b \in B : wip[b] = Nothing}
Users(B, wip, w) == {b \in B : wip[b] = w}
Used(B, wip)     == {wip[b] : b \in B} \ {Nothing}

(* _group_net: what must be stranded for orders B; orders that have the    *)
(* same stock share it.                                                    *)
Net(B, wip) ==
    SumLen(Without(B, wip)) + Total([w \in Used(B, wip) |-> Positive(SumLen(Users(B, wip, w)) - StockLen[w])])

Longer(a, b) == LenOf[a] > LenOf[b] \/ (LenOf[a] = LenOf[b] /\ a < b)

(* _select_receivers: the longest orders first, each that still fits into  *)
(* the budget beside those selected before it.                             *)
Receivers(candidates, budget) ==
    CHOOSE R \in SUBSET candidates :
       \A b \in candidates : b \in R <=> SumLen({r \in R : Longer(r, b)}) + LenOf[b] <= budget

(* Who gets which of the stock of orders From: orders To that have none    *)
(* and got none of the stock before.                                       *)
Given(From, To, wip) ==
    CHOOSE given \in [Used(From, wip) -> SUBSET Without(To, wip)] :
       \A w \in Used(From, wip) :
          given[w] = Receivers(Without(To, wip) \ UNION {given[v] : v \in {x \in Used(From, wip) : x < w}}, StockLen[w])

(* Mutant: the orders From keep what they had.                             *)
HandTwice(From, To, wip) ==
    LET given == Given(From, To, wip)
        gain  == Total([w \in DOMAIN given |-> Min({SumLen(given[w]), StockLen[w]})])
    IN  [wip  |-> [b \in DOMAIN wip |-> IF \E w \in DOMAIN given : b \in given[w]
                                        THEN CHOOSE w \in DOMAIN given : b \in given[w] ELSE wip[b]],
         lots |-> Lots(Positive(Net(To, wip) - gain)) + Lots(Net(From, wip))]

(* The stock after that, and how many lots this is thought to leave.       *)
Hand(From, To, wip) ==
    LET given == Given(From, To, wip)
        gain  == Total([w \in DOMAIN given |-> Min({SumLen(given[w]), StockLen[w]})])
        loss  == Total([w \in DOMAIN given |-> Min({SumLen(Users(From, wip, w)), StockLen[w]})])
    IN  [wip  |-> [b \in DOMAIN wip |->
                      IF \E w \in DOMAIN given : b \in given[w] THEN CHOOSE w \in DOMAIN given : b \in given[w]
                      ELSE IF b \in From THEN Nothing ELSE wip[b]],
         lots |-> Lots(Positive(Net(To, wip) - gain)) + Lots(Net(From, wip) + loss)]

(* Mutant: the stock goes to the part split off if that can use it at all. *)
RematchEagerly(off, rest, wip) ==
    LET a == Hand(rest, off, wip) IN IF a.wip # wip THEN a.wip ELSE wip

(* All stock to the one part or all to the other, when that saves a lot.   *)
Rematch(off, rest, wip) ==
    LET now == Lots(Net(off, wip)) + Lots(Net(rest, wip))
        a   == Hand(rest, off, wip)
        b   == Hand(off, rest, wip)
    IN  IF a.lots < now /\ a.lots <= b.lots THEN a.wip
        ELSE IF b.lots < now /\ b.lots < a.lots THEN b.wip
        ELSE wip

WipOf(g) == [b \in OrdersOf(g) |-> row[b].wip]

(* The rows when orders B of g leave its header h for a new one, n.        *)
Divided(g, B, new, h, n, wip) ==
    LET rest == OrdersOf(g) \ B IN
    [b \in Rows \cup {n} |->
       CASE b = n -> [group |-> new, status |-> "planned", wip |-> Nothing, lots |-> Lots(Net(B, wip))]
         [] b = h -> [row[h] EXCEPT !.lots = Lots(Net(rest, wip)),
                                    !.status = IF Net(rest, wip) = 0 THEN "wip_complete" ELSE @]
         [] b \in B    -> [row[b] EXCEPT !.group = new, !.wip = wip[b]]
         [] b \in rest -> [row[b] EXCEPT !.wip = wip[b]]
         [] OTHER      -> row[b]]

(* split_batch_group: orders B of g get a header of their own; the tasks   *)
(* of both groups are gone.                                                *)
Split(g, B, new) ==
    /\ B # {} /\ B \subseteq OrdersOf(g)
    /\ \/ /\ HeadersOf(g) = {}
          /\ row' = [b \in Rows |-> IF b \in B THEN [row[b] EXCEPT !.group = new] ELSE row[b]]
       \/ \E h \in HeadersOf(g) : \E n \in {x \in Header \ Rows : \A y \in Header \ Rows : x <= y} :
          \E wip \in {Rematch(B, OrdersOf(g) \ B, WipOf(g))} : row' = Divided(g, B, new, h, n, wip)
    /\ task' = {t \in task : t.group \notin {g, new}}
    /\ stuck' = stuck \cup StuckAfter
    /\ UNCHANGED updates

-----------------------------------------------------------------------------
(* The chart *)

(* A task is dragged to a place that is free.                              *)
Move(t, p) ==
    /\ t \in task
    /\ \A u \in task \ {t} : ~Overlap(p, u.place)
    /\ task' = (task \ {t}) \cup {[t EXCEPT !.place = p]}
    /\ UNCHANGED <<row, stuck, updates>>

(* compute_restore_at_plan, confirmed: bulk-update-v2 moves the task to    *)
(* the place that was asked for; the group stays off the chart.            *)
RestoreAt(g, p) == StatusesOf(g) = {"unassigned"} /\ \E t \in TasksOf(g) : Move(t, p)

(* What stage 2 loads; only a run with tasks is cleared first.             *)
Planned == {b \in Rows : row[b].status \in (IF task = {} THEN {"planned"} ELSE {"planned", "scheduled"})}

PlannedGroups == {row[b].group : b \in Planned}

(* A task of a group names its header.                                     *)
Rep(g) == LET B == {b \in Planned : row[b].group = g} IN Min(IF B \cap Header # {} THEN B \cap Header ELSE B)

(* Stage 2: away with the tasks of all that was not started, unassigned    *)
(* groups included, and a task for each group with planned batches.        *)
Stage2(placing) ==
    LET kept == {t \in task : row[t.batch].status \in Frozen} IN
    /\ \A g, h \in PlannedGroups : g # h => ~Overlap(placing[g], placing[h])
    /\ \A g \in PlannedGroups, t \in kept : ~Overlap(placing[g], t.place)
    /\ task' = kept \cup {[batch |-> Rep(g), group |-> g, status |-> "scheduled", place |-> placing[g]] : g \in PlannedGroups}
    /\ row' = WithStatus(Planned, "scheduled")
    /\ UNCHANGED <<stuck, updates>>

Next ==
    \/ \E g \in Groups : Unassign(g) \/ Restore(g)
    \/ \E g \in Groups : \E new \in Suffixed[g], B \in SUBSET Order : Split(g, B, new)
    \/ \E s \in NewStatuses :
          \/ \E b \in Batch : UpdateBatchStatus(b, s) \/ UpdateBatch(b, s)
          \/ \E g \in Groups : UpdateBatchGroupStatus(g, s)
    \/ \E p \in Places : (\E t \in task : Move(t, p)) \/ (\E g \in Groups : RestoreAt(g, p))
    \/ \E placing \in [PlannedGroups -> Places] : Stage2(placing)

Spec == Init /\ [][Next]_vars

-----------------------------------------------------------------------------
(* Properties *)

(* A group with a header: what its headers have made and its stock gives   *)
(* is enough for its orders.                                               *)
MakesEnough(g) ==
    LET B   == OrdersOf(g)
        wip == WipOf(g)
    IN  SumLen(B) <= Total([h \in HeadersOf(g) |-> row[h].lots * LotSize])
                       + Total([w \in Used(B, wip) |-> Min({SumLen(Users(B, wip, w)), StockLen[w]})])

(* It makes enough, and no other group with a header counts on its stock.  *)
Supplied(g) ==
    /\ MakesEnough(g)
    /\ \A b \in OrdersOf(g) : row[b].wip # Nothing =>
          \A c \in Order \cap Rows : row[c].wip = row[b].wip /\ row[c].group # g => HeadersOf(row[c].group) = {}

(* What a group has: its orders, their stock, and the lots of its header.  *)
Held == [b \in Rows |-> [group |-> row[b].group, wip |-> row[b].wip, lots |-> row[b].lots]]

(* A step takes order b out of a group with an order that has its stock.   *)
Parted(b) ==
    row[b].wip # Nothing /\ \E c \in OrdersOf(row[b].group) : row[c].wip = row[b].wip /\ row'[c].group # row'[b].group

(* However often groups are split and their stock is handed from one part  *)
(* to the other, all parts stay supplied: a group runs short only by an    *)
(* order that comes from a group that was short already, or that the split *)
(* takes apart from another with the same stock.                           *)
EnoughIsMade ==
    [][Held' # Held =>
          \A g \in Groups : HeadersOf(g)' # {} /\ ~Supplied(g)' =>
             \E b \in OrdersOf(g)' : ~Supplied(row[b].group) \/ Parted(b)]_vars

(* Of all groups together, as _batch_group_split.py:158 has it: stock is   *)
(* taken off the sum of the orders that share it.  It is violated where a  *)
(* split takes such orders apart: each part takes all of it off its own    *)
(* need.                                                                   *)
EnoughInAll ==
    LET headed  == {b \in Order \cap Rows : HeadersOf(row[b].group) # {}}
        made    == Total([h \in Header \cap Rows |-> row[h].lots * LotSize])
        stocked == Total([w \in Stock |-> Min({StockLen[w], SumLen({b \in headed : row[b].wip = w})})])
    IN  made + stocked >= SumLen(headed)

(* A split, seen from outside: the orders that leave a group, the stock of *)
(* its orders afterwards, the lots of both parts if they had stock wip.    *)
SplitOff(g, new) == {b \in OrdersOf(g) : row'[b].group = new}
NewWipOf(g)      == [b \in OrdersOf(g) |-> row'[b].wip]

LotsOfParts(g, new, wip) ==
    Lots(Net(SplitOff(g, new), wip)) + Lots(Net(OrdersOf(g) \ SplitOff(g, new), wip))

(* Orders of both parts had the same stock.                                *)
SharedBefore(g, new) ==
    \E b \in SplitOff(g, new), c \in OrdersOf(g) \ SplitOff(g, new) :
       row[b].wip = row[c].wip /\ row[b].wip # Nothing

(* Handing the stock over never costs a lot: unless the parts shared stock *)
(* before, a split is not worse than it would have been with the stock     *)
(* left where it was.                                                      *)
RematchNeverCosts ==
    [][\A g \in Groups : \A new \in Suffixed[g] :
          HeadersOf(g) # {} /\ SplitOff(g, new) # {} /\ ~SharedBefore(g, new) =>
             LotsOfParts(g, new, NewWipOf(g)) <= LotsOfParts(g, new, WipOf(g))]_vars

(* The same of every split, as the comment at _batch_group_split.py:146    *)
(* says: the stock goes to the side where it makes for fewer lots.  It is  *)
(* violated: the orders that receive a stock are taken to have it for      *)
(* themselves, when others of their part have it already.                  *)
RematchSavesLots ==
    [][\A g \in Groups : \A new \in Suffixed[g] :
          HeadersOf(g) # {} /\ SplitOff(g, new) # {} =>
             LotsOfParts(g, new, NewWipOf(g)) <= LotsOfParts(g, new, WipOf(g))]_vars

(* A group that waits in the inbox is off the chart as a whole, with all   *)
(* its tasks, and the inbox counts all its rows, unless one of the         *)
(* requests that look at no status has been there.  Only then can it be    *)
(* neither restored nor taken off.                                         *)
UnassignedAsAWhole ==
    \A g \in DOMAIN Inbox \ stuck :
       /\ StatusesOf(g) = {"unassigned"}
       /\ Inbox[g].order_count = Cardinality(RowsOf(g))
       /\ \A t \in TasksOf(g) : t.status = "unassigned"

(* What was split or cleared away comes back: a row that is "scheduled"    *)
(* without a task is made "planned" by the next stage 2, which clears the  *)
(* run first if it has tasks.  Violated: the split has deleted the last    *)
(* task, and nothing ever plans the rows again.                            *)
NothingIsForgotten ==
    \A b \in Rows :
       row[b].status = "scheduled" /\ (\A t \in task : t.group # row[b].group) => task # {}

=============================================================================
