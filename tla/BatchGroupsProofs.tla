------------------------- MODULE BatchGroupsProofs -------------------------
(***************************************************************************)
(* For any rows, groups, lengths and places: a group that waits in the     *)
(* inbox is off the chart as a whole, a split never costs a lot by the     *)
(* stock that it hands over, and a group runs short only by an order that  *)
(* comes from a short group or is taken apart from another with its stock. *)
(*                                                                         *)
(* The first rests on an invariant that ties a task to the group of the    *)
(* row it names, so that a split, which looks for tasks by the name of the *)
(* group, leaves none behind that names a row of another group.  The       *)
(* second is about sums: a fold over a finite set is a recursive function  *)
(* on its subsets, solved by the number of units under the lengths; from   *)
(* that number come the laws of sums, and from these what each way to hand *)
(* over the stock comes to.  The third follows the orders of each part of  *)
(* a split, and adds up what its headers have made and its stock gives.    *)
(***************************************************************************)
EXTENDS BatchGroups, FiniteSetTheorems, WellFoundedInduction, TLAPS

-----------------------------------------------------------------------------
(* The header stands for the group *)

(* Every finite non-empty set of natural numbers has a greatest element:   *)
(* of all elements take the one with the fewest above it.                  *)
LEMMA GreatestOfFinite ==
    ASSUME NEW S \in SUBSET Nat, IsFiniteSet(S), S # {}
    PROVE  Max(S) \in S /\ \A y \in S : y <= Max(S)
  <1> DEFINE Above(x) == {y \in S : y > x}
             C == {Cardinality(Above(x)) : x \in S}
  <1>1. \A x \in S : IsFiniteSet(Above(x)) /\ Cardinality(Above(x)) \in Nat
    BY FS_Subset, FS_CardinalityType
  <1>2. PICK c \in C : \A d \in C : <<d, c>> \notin OpToRel(<, Nat)
    <2>1. C \subseteq Nat /\ C # {}
      BY <1>1
    <2> HIDE DEF C
    <2>2. QED
      BY <2>1, WFMin, NatLessThanWellFounded
  <1>3. PICK m \in S : c = Cardinality(Above(m))
    BY <1>2
  <1>4. ASSUME NEW y \in S PROVE m >= y
    <2>1. SUFFICES ASSUME y > m PROVE FALSE
      OBVIOUS
    <2>2. Above(y) \in SUBSET Above(m) /\ y \in Above(m) /\ y \notin Above(y)
      <3>1. \A z \in S : z \in Nat
        OBVIOUS
      <3>2. \A z \in S : z > y => z > m
        BY <2>1, <3>1
      <3>3. ~(y > y)
        BY <3>1
      <3>4. QED
        BY <2>1, <3>2, <3>3
    <2>3. Cardinality(Above(y)) <= Cardinality(Above(m)) /\ Cardinality(Above(y)) # Cardinality(Above(m))
      <3> HIDE DEF Above
      <3>1. Cardinality(Above(y)) <= Cardinality(Above(m))
        BY <1>1, <2>2, FS_Subset
      <3>2. Cardinality(Above(y)) = Cardinality(Above(m)) => Above(y) = Above(m)
        BY <1>1, <2>2, FS_Subset
      <3>3. QED
        BY <2>2, <3>1, <3>2
    <2>4. ~(Cardinality(Above(y)) < Cardinality(Above(m)))
      <3>1. Cardinality(Above(y)) \in C /\ Cardinality(Above(y)) \in Nat /\ c \in Nat
        BY <1>1, <1>3
      <3>2. QED
        BY <1>2, <1>3, <3>1 DEF OpToRel
    <2>5. QED
      BY <1>1, <2>3, <2>4
  <1>5. \E x \in S : \A y \in S : x >= y
    BY <1>4
  <1>6. Max(S) \in S /\ \A y \in S : Max(S) >= y
    BY <1>5, Zenon DEF Max
  <1>7. QED
    BY <1>6

(* And a least one.                                                        *)
LEMMA LeastOfSome ==
    ASSUME NEW S \in SUBSET Nat, S # {}
    PROVE  Min(S) \in S
  <1>1. PICK m \in S : \A y \in S : <<y, m>> \notin OpToRel(<, Nat)
    BY WFMin, NatLessThanWellFounded
  <1>2. ASSUME NEW y \in S PROVE m <= y
    <2>1. m \in Nat /\ y \in Nat
      OBVIOUS
    <2>2. ~(y < m)
      BY <1>1, <2>1 DEF OpToRel
    <2>3. QED
      BY <2>1, <2>2
  <1>3. \E x \in S : \A y \in S : x <= y
    BY <1>2
  <1>4. QED
    BY <1>3, Zenon DEF Min

(* The batch that a task of a placed group names is a row of the group.    *)
LEMMA RepIsARow ==
    ASSUME Rows \subseteq Batch, NEW g \in PlannedGroups
    PROVE  Rep(g) \in Planned /\ row[Rep(g)].group = g
  <1> DEFINE B == {b \in Planned : row[b].group = g}
             H == IF B \cap Header # {} THEN B \cap Header ELSE B
  <1>1. B # {} /\ B \subseteq Batch
    BY DEF PlannedGroups, Planned
  <1>2. H # {} /\ H \subseteq B
    BY <1>1
  <1>3. H \in SUBSET Nat
    <2> HIDE DEF H, B
    <2>1. QED
      BY <1>1, <1>2, BatchGroupsAssumption
  <1>4. Min(H) \in H
    <2> HIDE DEF H
    <2>1. QED
      BY <1>2, <1>3, LeastOfSome
  <1>5. Min(H) \in B
    BY <1>2, <1>4
  <1>6. Rep(g) = Min(H)
    BY Zenon DEF Rep
  <1>7. QED
    <2> HIDE DEF H
    <2>1. QED
      BY <1>5, <1>6

-----------------------------------------------------------------------------
(* The invariant *)

RowShape(r) == r \in [group : Groups, status : Statuses, wip : {r.wip}, lots : {r.lots}]

RowsHaveShape ==
    /\ Rows \subseteq Batch
    /\ row = [b \in Rows |-> row[b]]
    /\ \A b \in Rows : RowShape(row[b])

(* A task names its row's group.                                           *)
TasksHaveRows ==
    /\ task \subseteq Task
    /\ \A t \in task : t.batch \in Rows /\ row[t.batch].group = t.group

(* Where one row of a group is unassigned, all its rows and tasks are.     *)
OffAsAWhole(g) ==
    (\E b \in Rows : row[b].group = g /\ row[b].status = "unassigned") =>
       /\ \A b \in Rows : row[b].group = g => row[b].status = "unassigned"
       /\ \A t \in task : t.group = g => t.status = "unassigned"

GroupsInv ==
    /\ RowsHaveShape
    /\ TasksHaveRows
    /\ \A g \in Groups \ stuck : OffAsAWhole(g)

LEMMA GroupsInit ==
    ASSUME Init
    PROVE  GroupsInv
  <1>1. Rows \subseteq Batch /\ row \in [Rows -> Row] /\ \A b \in Rows : row[b].status # "unassigned"
    BY BatchGroupsAssumption DEF Init, Rows
  <1>2. RowsHaveShape
    <2>1. row = [b \in Rows |-> row[b]]
      BY <1>1
    <2>2. ASSUME NEW b \in Rows PROVE RowShape(row[b])
      BY <1>1 DEF RowShape, Row
    <2>3. QED
      BY <1>1, <2>1, <2>2 DEF RowsHaveShape
  <1>3. TasksHaveRows
    BY DEF Init, TasksHaveRows
  <1>4. QED
    BY <1>1, <1>2, <1>3 DEF GroupsInv, OffAsAWhole

(* Setting the status of some rows.                                        *)
LEMMA StatusesAreSet ==
    ASSUME RowsHaveShape, NEW B, NEW s \in Statuses, row' = WithStatus(B, s)
    PROVE  /\ RowsHaveShape' /\ Rows' = Rows
           /\ \A b \in Rows : /\ row'[b].group = row[b].group
                              /\ row'[b].status = IF b \in B THEN s ELSE row[b].status
  <1>1. Rows' = Rows /\ \A b \in Rows : row'[b] = IF b \in B THEN [row[b] EXCEPT !.status = s] ELSE row[b]
    BY DEF WithStatus, Rows
  <1>2. ASSUME NEW b \in Rows
        PROVE  /\ RowShape(row'[b]) /\ row'[b].group = row[b].group
               /\ row'[b].status = IF b \in B THEN s ELSE row[b].status
    <2>1. RowShape(row[b])
      BY DEF RowsHaveShape
    <2>2. PICK w, n : row[b] \in [group : Groups, status : Statuses, wip : {w}, lots : {n}]
      BY <2>1 DEF RowShape
    <2>3. CASE b \in B
      <3>1. row'[b] = [row[b] EXCEPT !.status = s]
        BY <1>1, <2>3
      <3>2. QED
        BY <2>2, <2>3, <3>1 DEF RowShape
    <2>4. CASE b \notin B
      BY <1>1, <2>1, <2>4
    <2>5. QED
      BY <2>3, <2>4
  <1>3. row' = [b \in Rows' |-> row'[b]]
    BY <1>1 DEF WithStatus
  <1>4. QED
    BY <1>1, <1>2, <1>3 DEF RowsHaveShape

(* Setting the status of some tasks.                                       *)
LEMMA TaskStatusesAreSet ==
    ASSUME task \subseteq Task, NEW T \in SUBSET task, NEW s \in {"planned", "scheduled", "unassigned"},
           NEW u \in SetTasks(T, s)
    PROVE  u \in Task /\ \E t \in task : /\ u.batch = t.batch /\ u.group = t.group
                                         /\ u.status = IF t \in T THEN s ELSE t.status
  <1>1. CASE u \in task \ T
    BY <1>1
  <1>2. CASE \E t \in T : u = [t EXCEPT !.status = s]
    <2>1. PICK t \in T : u = [t EXCEPT !.status = s]
      BY <1>2
    <2>2. t \in Task
      OBVIOUS
    <2>3. QED
      BY <2>1, <2>2 DEF Task
  <1>3. QED
    BY <1>1, <1>2 DEF SetTasks

(* A group's tasks by their rows are those that name it.                   *)
LEMMA TasksByGroup ==
    ASSUME TasksHaveRows, NEW g
    PROVE  TasksOf(g) = {t \in task : t.group = g}
  BY DEF TasksHaveRows, TasksOf, RowsOf

(* A whole group is set from one status to another, with its tasks.        *)
LEMMA WholeGroup ==
    ASSUME GroupsInv, NEW g, NEW s \in {"planned", "unassigned"},
           row' = WithStatus(RowsOf(g), s), task' = SetTasks(TasksOf(g), s), stuck' = stuck
    PROVE  GroupsInv'
  <1>1. RowsHaveShape /\ TasksHaveRows /\ s \in Statuses /\ task \subseteq Task
        /\ TasksOf(g) = {t \in task : t.group = g}
    BY TasksByGroup DEF GroupsInv, Statuses, TasksHaveRows
  <1>2. /\ RowsHaveShape' /\ Rows' = Rows
        /\ \A b \in Rows : /\ row'[b].group = row[b].group
                           /\ row'[b].status = IF row[b].group = g THEN s ELSE row[b].status
    BY <1>1, StatusesAreSet DEF RowsOf
  <1>3. ASSUME NEW u \in task'
        PROVE  u \in Task /\ \E t \in task : /\ u.batch = t.batch /\ u.group = t.group
                                             /\ u.status = IF t.group = g THEN s ELSE t.status
    <2>1. TasksOf(g) \in SUBSET task
      BY <1>1
    <2>2. u \in Task /\ \E t \in task : /\ u.batch = t.batch /\ u.group = t.group
                                        /\ u.status = IF t \in TasksOf(g) THEN s ELSE t.status
      BY <1>1, <2>1, TaskStatusesAreSet
    <2>3. QED
      BY <1>1, <2>2
  <1>4. TasksHaveRows'
    BY <1>1, <1>2, <1>3 DEF TasksHaveRows
  <1>5. ASSUME NEW h \in Groups \ stuck' PROVE OffAsAWhole(h)'
    <2>1. OffAsAWhole(h)
      BY <1>5 DEF GroupsInv
    <2>2. QED
      BY <1>2, <1>3, <2>1 DEF OffAsAWhole
  <1>6. QED
    BY <1>2, <1>4, <1>5 DEF GroupsInv

(* A group that is unassigned after a status request or a split, and not   *)
(* left stuck by it, is unassigned in all its rows.                        *)
LEMMA NotStuck ==
    ASSUME NEW g \in Groups, g \notin StuckAfter,
           NEW b \in Rows', row'[b].group = g, row'[b].status = "unassigned"
    PROVE  \A c \in Rows' : row'[c].group = g => row'[c].status = "unassigned"
  BY DEF StuckAfter, Rows

(* A status request: the tasks stay as they are.                           *)
LEMMA RequestKeeps ==
    ASSUME GroupsInv, NEW B, NEW s \in NewStatuses, SetStatus(B, s)
    PROVE  GroupsInv'
  <1>1. /\ RowsHaveShape /\ TasksHaveRows /\ s \in Statuses /\ s # "unassigned"
        /\ task' = task /\ stuck' = stuck \cup StuckAfter /\ row' = WithStatus(B, s)
    BY BatchGroupsAssumption DEF GroupsInv, Statuses, SetStatus
  <1>2. /\ RowsHaveShape' /\ Rows' = Rows
        /\ \A b \in Rows : /\ row'[b].group = row[b].group
                           /\ row'[b].status = IF b \in B THEN s ELSE row[b].status
    BY <1>1, StatusesAreSet
  <1>3. TasksHaveRows'
    BY <1>1, <1>2 DEF TasksHaveRows
  <1>4. ASSUME NEW g \in Groups \ stuck' PROVE OffAsAWhole(g)'
    <2> SUFFICES ASSUME NEW b \in Rows', row'[b].group = g, row'[b].status = "unassigned"
                 PROVE  /\ \A c \in Rows' : row'[c].group = g => row'[c].status = "unassigned"
                        /\ \A t \in task' : t.group = g => t.status = "unassigned"
      BY DEF OffAsAWhole
    <2>1. \A c \in Rows' : row'[c].group = g => row'[c].status = "unassigned"
      BY <1>1, <1>4, NotStuck
    <2>2. row[b].group = g /\ row[b].status = "unassigned" /\ b \in Rows
      BY <1>1, <1>2
    <2>3. OffAsAWhole(g)
      BY <1>1, <1>4 DEF GroupsInv
    <2>4. QED
      BY <1>1, <2>1, <2>2, <2>3 DEF OffAsAWhole
  <1>5. QED
    BY <1>2, <1>3, <1>4 DEF GroupsInv

-----------------------------------------------------------------------------
(* Split *)

(* Only rows of g change, and these stay in g or go to new; a header that  *)
(* is made is one of new.                                                  *)
SplitRows(g, new) ==
    /\ Rows \subseteq Rows'
    /\ \A b \in Rows : row[b].group # g => row'[b] = row[b]
    /\ \A b \in Rows' : b \notin Rows \/ row[b].group = g => row'[b].group \in {g, new}

LEMMA SplitRowsHaveShape ==
    ASSUME RowsHaveShape, NEW g \in Groups, NEW new \in Suffixed[g], NEW B \in SUBSET Order,
           Split(g, B, new)
    PROVE  RowsHaveShape' /\ SplitRows(g, new)
  <1>1. new \in Groups /\ B \subseteq OrdersOf(g) /\ OrdersOf(g) \subseteq RowsOf(g)
        /\ HeadersOf(g) \subseteq RowsOf(g)
    BY BatchGroupsAssumption DEF Split, OrdersOf, HeadersOf
  <1>2. ASSUME NEW b \in RowsOf(g)
        PROVE  b \in Rows /\ row[b].group = g /\ \E w, n : row[b] \in [group : Groups, status : Statuses, wip : {w}, lots : {n}]
    BY DEF RowsHaveShape, RowShape, RowsOf
  <1>3. CASE HeadersOf(g) = {} /\ row' = [b \in Rows |-> IF b \in B THEN [row[b] EXCEPT !.group = new] ELSE row[b]]
    <2>1. Rows' = Rows /\ \A b \in Rows : row'[b] = IF b \in B THEN [row[b] EXCEPT !.group = new] ELSE row[b]
      BY <1>3 DEF Rows
    <2>2. ASSUME NEW b \in B PROVE RowShape(row'[b]) /\ row'[b].group = new /\ row[b].group = g /\ b \in Rows
      <3>1. b \in Rows /\ row[b].group = g
        BY <1>1, <1>2
      <3>2. PICK w, n : row[b] \in [group : Groups, status : Statuses, wip : {w}, lots : {n}]
        BY <1>1, <1>2
      <3>3. row'[b] = [row[b] EXCEPT !.group = new]
        BY <2>1, <3>1
      <3>4. QED
        BY <1>1, <3>1, <3>2, <3>3 DEF RowShape
    <2>3. RowsHaveShape'
      BY <1>3, <2>1, <2>2 DEF RowsHaveShape
    <2>4. QED
      BY <2>1, <2>2, <2>3 DEF SplitRows
  <1>4. ASSUME NEW h \in HeadersOf(g), NEW n \in Header \ Rows, NEW wip, row' = Divided(g, B, new, h, n, wip)
        PROVE  RowsHaveShape' /\ SplitRows(g, new)
    <2> DEFINE rest == OrdersOf(g) \ B
               becomes(b) ==
                  CASE b = n -> [group |-> new, status |-> "planned", wip |-> Nothing, lots |-> Lots(Net(B, wip))]
                    [] b = h -> [row[h] EXCEPT !.lots = Lots(Net(rest, wip)),
                                               !.status = IF Net(rest, wip) = 0 THEN "wip_complete" ELSE @]
                    [] b \in B    -> [row[b] EXCEPT !.group = new, !.wip = wip[b]]
                    [] b \in rest -> [row[b] EXCEPT !.wip = wip[b]]
                    [] OTHER      -> row[b]
    <2>0. row' = [b \in Rows \cup {n} |-> becomes(b)]
      BY <1>4, Zenon DEF Divided
    <2>1. Rows' = Rows \cup {n} /\ row' = [b \in Rows' |-> row'[b]]
          /\ \A b \in Rows \cup {n} : row'[b] = becomes(b)
      <3> HIDE DEF becomes
      <3>1. QED
        BY <2>0 DEF Rows
    <2>2. /\ h \in RowsOf(g) /\ rest \subseteq RowsOf(g) /\ B \subseteq RowsOf(g)
          /\ n \in Batch /\ n \notin Rows /\ n # h /\ n \notin B /\ n \notin rest
          /\ h \notin B /\ h \notin rest
      BY <1>1, <1>4, BatchGroupsAssumption DEF Batch, OrdersOf, HeadersOf, RowsOf
    <2>3. row'[n] = [group |-> new, status |-> "planned", wip |-> Nothing, lots |-> Lots(Net(B, wip))]
      <3>1. row'[n] = becomes(n)
        BY <2>1
      <3>2. QED
        BY <2>2, <3>1, Zenon
    <2>4. RowShape(row'[n]) /\ row'[n].group = new
      BY <1>1, <2>3 DEF RowShape, Statuses
    <2>5. ASSUME NEW b \in RowsOf(g) PROVE RowShape(row'[b]) /\ row'[b].group \in {g, new}
      <3>1. b \in Rows /\ b # n /\ row[b].group = g
        BY <1>2, <2>2
      <3>2. PICK w, k : row[b] \in [group : Groups, status : Statuses, wip : {w}, lots : {k}]
        BY <1>2
      <3>3. CASE b = h
        <4>1. row'[b] = [row[b] EXCEPT !.lots = Lots(Net(rest, wip)),
                                       !.status = IF Net(rest, wip) = 0 THEN "wip_complete" ELSE row[b].status]
          <5>1. row'[b] = becomes(b)
            BY <2>1, <3>1
          <5>2. QED
            BY <2>2, <3>1, <3>3, <5>1, Zenon
        <4>2. PICK st \in Statuses : row'[b] = [row[b] EXCEPT !.lots = Lots(Net(rest, wip)), !.status = st]
          BY <3>2, <4>1 DEF Statuses
        <4>3. QED
          BY <3>1, <3>2, <4>2 DEF RowShape
      <3>4. CASE b # h /\ b \in B
        <4>1. row'[b] = [row[b] EXCEPT !.group = new, !.wip = wip[b]]
          <5>1. row'[b] = becomes(b)
            BY <2>1, <3>1
          <5>2. QED
            BY <2>2, <3>1, <3>4, <5>1, Zenon
        <4>2. QED
          BY <1>1, <3>1, <3>2, <4>1 DEF RowShape
      <3>5. CASE b # h /\ b \notin B /\ b \in rest
        <4>1. row'[b] = [row[b] EXCEPT !.wip = wip[b]]
          <5>1. row'[b] = becomes(b)
            BY <2>1, <3>1
          <5>2. QED
            BY <2>2, <3>1, <3>5, <5>1, Zenon
        <4>2. QED
          BY <1>1, <3>1, <3>2, <4>1 DEF RowShape
      <3>6. CASE b # h /\ b \notin B /\ b \notin rest
        <4>1. row'[b] = row[b]
          <5>1. row'[b] = becomes(b)
            BY <2>1, <3>1
          <5>2. QED
            BY <2>2, <3>1, <3>6, <5>1, Zenon
        <4>2. QED
          BY <3>1, <4>1 DEF RowsHaveShape, RowShape
      <3>7. QED
        BY <3>3, <3>4, <3>5, <3>6
    <2>6. ASSUME NEW b \in Rows, row[b].group # g PROVE row'[b] = row[b]
      <3>1. b # n /\ b # h /\ b \notin B /\ b \notin rest
        BY <2>2, <2>6 DEF RowsOf
      <3>2. QED
        <4>1. row'[b] = becomes(b)
          BY <2>1
        <4>2. QED
          BY <3>1, <4>1, Zenon
    <2>7. \A b \in Rows' : b = n \/ (b \in RowsOf(g) /\ row[b].group = g) \/ (b \in Rows /\ row[b].group # g)
      BY <2>1 DEF RowsOf
    <2>8. \A b \in Rows' : RowShape(row'[b])
      BY <2>4, <2>5, <2>6, <2>7 DEF RowsHaveShape
    <2>9. \A b \in Rows' : b \notin Rows \/ row[b].group = g => row'[b].group \in {g, new}
      BY <2>4, <2>5, <2>7
    <2>10. Rows' \subseteq Batch
      BY <2>1, <2>2 DEF RowsHaveShape
    <2>11. QED
      BY <2>1, <2>6, <2>8, <2>9, <2>10 DEF RowsHaveShape, SplitRows
  <1>5. QED
    <2>1. CASE HeadersOf(g) = {} /\ row' = [b \in Rows |-> IF b \in B THEN [row[b] EXCEPT !.group = new] ELSE row[b]]
      BY <1>3, <2>1
    <2>2. CASE \E h \in HeadersOf(g) : \E n \in {x \in Header \ Rows : \A y \in Header \ Rows : x <= y} :
               \E wip \in {Rematch(B, OrdersOf(g) \ B, WipOf(g))} : row' = Divided(g, B, new, h, n, wip)
      BY <1>4, <2>2
    <2>3. QED
      BY <2>1, <2>2, Zenon DEF Split

(* The rows that go to the new group have no task any more.                *)
LEMMA SplitKeeps ==
    ASSUME GroupsInv, NEW g \in Groups, NEW new \in Suffixed[g], NEW B \in SUBSET Order,
           Split(g, B, new)
    PROVE  GroupsInv'
  <1>1. /\ RowsHaveShape /\ TasksHaveRows
        /\ task' = {t \in task : t.group \notin {g, new}} /\ stuck' = stuck \cup StuckAfter
    BY DEF GroupsInv, Split
  <1>2. /\ RowsHaveShape' /\ Rows \subseteq Rows'
        /\ \A b \in Rows : row[b].group # g => row'[b] = row[b]
        /\ \A b \in Rows' : b \notin Rows \/ row[b].group = g => row'[b].group \in {g, new}
    BY <1>1, SplitRowsHaveShape DEF SplitRows
  <1>3. TasksHaveRows'
    BY <1>1, <1>2 DEF TasksHaveRows
  <1>4. ASSUME NEW h \in Groups \ stuck' PROVE OffAsAWhole(h)'
    <2> SUFFICES ASSUME NEW b \in Rows', row'[b].group = h, row'[b].status = "unassigned"
                 PROVE  /\ \A c \in Rows' : row'[c].group = h => row'[c].status = "unassigned"
                        /\ \A t \in task' : t.group = h => t.status = "unassigned"
      BY DEF OffAsAWhole
    <2>1. \A c \in Rows' : row'[c].group = h => row'[c].status = "unassigned"
      BY <1>1, <1>4, NotStuck
    <2>2. CASE h \in {g, new}
      BY <1>1, <2>1, <2>2
    <2>3. CASE h \notin {g, new}
      <3>1. b \in Rows /\ row'[b] = row[b]
        BY <1>2, <2>3
      <3>2. OffAsAWhole(h)
        BY <1>1, <1>4 DEF GroupsInv
      <3>3. QED
        BY <1>1, <2>1, <3>1, <3>2 DEF OffAsAWhole
    <2>4. QED
      BY <2>2, <2>3
  <1>5. QED
    BY <1>2, <1>3, <1>4 DEF GroupsInv

-----------------------------------------------------------------------------
(* The chart *)

(* A task that is moved keeps its row, its group and its status.           *)
LEMMA MoveKeeps ==
    ASSUME GroupsInv, NEW t \in task, NEW p \in Places, Move(t, p)
    PROVE  GroupsInv'
  <1>1. /\ RowsHaveShape /\ TasksHaveRows /\ t \in Task
        /\ task' = (task \ {t}) \cup {[t EXCEPT !.place = p]} /\ UNCHANGED <<row, stuck>>
    BY DEF GroupsInv, Move, TasksHaveRows
  <1>2. PICK m : m = [t EXCEPT !.place = p]
    OBVIOUS
  <1>3. m \in Task /\ m.batch = t.batch /\ m.group = t.group /\ m.status = t.status
    BY <1>1, <1>2 DEF Task
  <1>4. Rows' = Rows /\ RowsHaveShape'
    BY <1>1 DEF Rows, RowsHaveShape
  <1>5. \A u \in task' : u \in task \/ u = m
    BY <1>1, <1>2
  <1>6. TasksHaveRows'
    BY <1>1, <1>3, <1>4, <1>5 DEF TasksHaveRows
  <1>7. ASSUME NEW g \in Groups \ stuck' PROVE OffAsAWhole(g)'
    <2>1. OffAsAWhole(g)
      BY <1>1, <1>7 DEF GroupsInv
    <2>2. QED
      BY <1>1, <1>3, <1>4, <1>5, <2>1 DEF OffAsAWhole
  <1>8. QED
    BY <1>4, <1>6, <1>7 DEF GroupsInv

(* Stage 2 takes nothing that is unassigned, and clears its tasks away.    *)
LEMMA Stage2Keeps ==
    ASSUME GroupsInv, NEW placing \in [PlannedGroups -> Places], Stage2(placing)
    PROVE  GroupsInv'
  <1> DEFINE made(g) == [batch |-> Rep(g), group |-> g, status |-> "scheduled", place |-> placing[g]]
  <1>1. /\ RowsHaveShape /\ TasksHaveRows /\ "scheduled" \in Statuses
        /\ row' = WithStatus(Planned, "scheduled") /\ stuck' = stuck
    BY DEF GroupsInv, Stage2, Statuses
  <1>2. ASSUME NEW u \in task'
        PROVE  \/ u \in task /\ row[u.batch].status \in Frozen
               \/ \E g \in PlannedGroups : u = made(g)
    BY DEF Stage2
  <1>3. /\ RowsHaveShape' /\ Rows' = Rows
        /\ \A b \in Rows : /\ row'[b].group = row[b].group
                           /\ row'[b].status = IF b \in Planned THEN "scheduled" ELSE row[b].status
    BY <1>1, StatusesAreSet
  <1>4. Planned \subseteq Rows /\ \A b \in Planned : row[b].status \in {"planned", "scheduled"}
    BY DEF Planned
  <1>5. ASSUME NEW g \in PlannedGroups
        PROVE  made(g) \in Task /\ made(g).batch \in Planned /\ row[made(g).batch].group = g /\ made(g).group = g
    <2>1. Rep(g) \in Planned /\ row[Rep(g)].group = g
      BY <1>1, RepIsARow DEF RowsHaveShape
    <2>2. Rep(g) \in Batch /\ g \in Groups
      BY <1>1, <1>4, <2>1 DEF RowsHaveShape, RowShape
    <2>3. placing[g] \in Places
      OBVIOUS
    <2>4. QED
      BY <2>1, <2>2, <2>3 DEF Task
  <1> HIDE DEF made
  <1>6. TasksHaveRows'
    <2>1. ASSUME NEW u \in task' PROVE u \in Task /\ u.batch \in Rows' /\ row'[u.batch].group = u.group
      <3>1. CASE u \in task
        BY <1>1, <1>3, <3>1 DEF TasksHaveRows
      <3>2. CASE \E g \in PlannedGroups : u = made(g)
        BY <1>3, <1>4, <1>5, <3>2
      <3>3. QED
        BY <1>2, <3>1, <3>2
    <2>2. QED
      BY <2>1 DEF TasksHaveRows
  <1>7. ASSUME NEW g \in Groups \ stuck' PROVE OffAsAWhole(g)'
    <2> SUFFICES ASSUME NEW b \in Rows', row'[b].group = g, row'[b].status = "unassigned"
                 PROVE  /\ \A c \in Rows' : row'[c].group = g => row'[c].status = "unassigned"
                        /\ \A u \in task' : u.group = g => u.status = "unassigned"
      BY DEF OffAsAWhole
    <2>1. b \in Rows /\ row[b].group = g /\ row[b].status = "unassigned"
      BY <1>3
    <2>2. OffAsAWhole(g)
      BY <1>1, <1>7 DEF GroupsInv
    <2>3. \A c \in Rows : row[c].group = g => row[c].status = "unassigned" /\ c \notin Planned
      BY <1>4, <2>1, <2>2 DEF OffAsAWhole
    <2>4. ASSUME NEW u \in task', u.group = g PROVE FALSE
      <3>1. CASE u \in task /\ row[u.batch].status \in Frozen
        BY <1>1, <2>3, <2>4, <3>1 DEF TasksHaveRows, Frozen
      <3>2. CASE \E h \in PlannedGroups : u = made(h)
        BY <1>4, <1>5, <2>3, <2>4, <3>2
      <3>3. QED
        BY <1>2, <3>1, <3>2
    <2>5. QED
      BY <1>3, <2>3, <2>4
  <1>8. QED
    BY <1>3, <1>6, <1>7 DEF GroupsInv

-----------------------------------------------------------------------------
(* Every step keeps the invariant.                                         *)
LEMMA GroupsStep ==
    ASSUME GroupsInv, [Next]_vars
    PROVE  GroupsInv'
  <1>1. ASSUME NEW g \in Groups, Unassign(g) PROVE GroupsInv'
    BY <1>1, WholeGroup DEF Unassign
  <1>2. ASSUME NEW g \in Groups, Restore(g) PROVE GroupsInv'
    BY <1>2, WholeGroup DEF Restore
  <1>3. ASSUME NEW g \in Groups, NEW new \in Suffixed[g], NEW B \in SUBSET Order, Split(g, B, new)
        PROVE  GroupsInv'
    BY <1>3, SplitKeeps
  <1>4. ASSUME NEW s \in NewStatuses,
               \/ \E b \in Batch : UpdateBatchStatus(b, s) \/ UpdateBatch(b, s)
               \/ \E g \in Groups : UpdateBatchGroupStatus(g, s)
        PROVE  GroupsInv'
    <2>1. \E B : SetStatus(B, s)
      BY <1>4 DEF UpdateBatchStatus, UpdateBatch, UpdateBatchGroupStatus
    <2>2. QED
      BY <2>1, RequestKeeps
  <1>5. ASSUME NEW p \in Places, (\E t \in task : Move(t, p)) \/ (\E g \in Groups : RestoreAt(g, p))
        PROVE  GroupsInv'
    <2>1. \E t \in task : Move(t, p)
      BY <1>5 DEF RestoreAt, TasksOf
    <2>2. QED
      BY <2>1, MoveKeeps
  <1>6. ASSUME NEW placing \in [PlannedGroups -> Places], Stage2(placing) PROVE GroupsInv'
    BY <1>6, Stage2Keeps
  <1>7. CASE UNCHANGED vars
    BY <1>7 DEF vars, GroupsInv, RowsHaveShape, TasksHaveRows, OffAsAWhole, Rows
  <1>8. QED
    BY <1>1, <1>2, <1>3, <1>4, <1>5, <1>6, <1>7 DEF Next

(* A task names a row that there is, and the group of that row; a group    *)
(* that nobody has left half unassigned is unassigned in all its rows and  *)
(* tasks or in none.                                                       *)
THEOREM GroupsInvariant == Spec => []GroupsInv
  <1>1. Init => GroupsInv
    BY GroupsInit
  <1>2. GroupsInv /\ [Next]_vars => GroupsInv'
    BY GroupsStep
  <1>3. QED
    BY <1>1, <1>2, PTL DEF Spec

(* A group in the inbox is off the chart with all its rows and tasks, and  *)
(* the inbox counts all its rows.                                          *)
THEOREM GroupsAreOffAsAWhole == Spec => []UnassignedAsAWhole
  <1>1. ASSUME GroupsInv PROVE UnassignedAsAWhole
    <2> DEFINE waiting == {b \in Rows : row[b].status = "unassigned"}
    <2>1. DOMAIN Inbox = {row[b].group : b \in waiting}
      BY DEF Inbox
    <2>2. ASSUME NEW g \in DOMAIN Inbox PROVE Inbox[g].order_count = Cardinality({b \in waiting : row[b].group = g})
      BY DEF Inbox
    <2>3. ASSUME NEW g \in DOMAIN Inbox \ stuck
          PROVE  /\ StatusesOf(g) = {"unassigned"}
                 /\ Inbox[g].order_count = Cardinality(RowsOf(g))
                 /\ \A t \in TasksOf(g) : t.status = "unassigned"
      <3>1. PICK b \in Rows : row[b].status = "unassigned" /\ row[b].group = g
        BY <2>1, <2>3
      <3>2. g \in Groups
        BY <1>1, <3>1 DEF GroupsInv, RowsHaveShape, RowShape
      <3>3. \A c \in RowsOf(g) : row[c].status = "unassigned"
        BY <1>1, <2>3, <3>1, <3>2 DEF GroupsInv, OffAsAWhole, RowsOf
      <3>4. StatusesOf(g) = {"unassigned"}
        BY <3>1, <3>3 DEF StatusesOf, RowsOf
      <3>5. {c \in waiting : row[c].group = g} = RowsOf(g)
        BY <3>3 DEF RowsOf
      <3>6. \A t \in TasksOf(g) : t.status = "unassigned"
        BY <1>1, <2>3, <3>1, <3>2, TasksByGroup DEF GroupsInv, OffAsAWhole
      <3>7. QED
        BY <2>2, <3>4, <3>5, <3>6
    <2>4. QED
      BY <2>3 DEF UnassignedAsAWhole
  <1>2. QED
    BY <1>1, GroupsInvariant, PTL

-----------------------------------------------------------------------------
(* Sums *)

(* What holds of a set whenever it holds of all that lack one element less *)
(* holds of every finite set.                                              *)
LEMMA SetInduction ==
    ASSUME NEW S, IsFiniteSet(S), NEW P,
           \A T \in SUBSET S : (\A x \in T : T \ {x} \in P) => T \in P
    PROVE  S \in P
  <1> DEFINE Bad == {T \in SUBSET S : T \notin P}
             C   == {Cardinality(T) : T \in Bad}
  <1>1. SUFFICES ASSUME S \notin P PROVE FALSE
    OBVIOUS
  <1>2. \A T \in SUBSET S : IsFiniteSet(T) /\ Cardinality(T) \in Nat
    BY FS_Subset, FS_CardinalityType
  <1>3. PICK c \in C : \A d \in C : <<d, c>> \notin OpToRel(<, Nat)
    <2>1. C \subseteq Nat /\ C # {}
      BY <1>1, <1>2
    <2> HIDE DEF C
    <2>2. QED
      BY <2>1, WFMin, NatLessThanWellFounded
  <1>4. PICK T \in Bad : c = Cardinality(T)
    BY <1>3
  <1>5. PICK x \in T : T \ {x} \notin P
    BY <1>4
  <1>6. T \ {x} \in Bad /\ Cardinality(T \ {x}) = Cardinality(T) - 1
    BY <1>2, <1>4, <1>5, FS_RemoveElement
  <1>7. Cardinality(T \ {x}) \in C /\ Cardinality(T \ {x}) \in Nat /\ c \in Nat
    BY <1>2, <1>4, <1>6
  <1>8. Cardinality(T \ {x}) < c
    BY <1>2, <1>4, <1>6
  <1>9. QED
    <2> HIDE DEF C, Bad
    <2>1. QED
      BY <1>3, <1>7, <1>8 DEF OpToRel

(* A sum is the number of its units.                                       *)
Units(f, T) == {u \in T \X Nat : u[2] < f[u[1]]}

LEMMA UnitsOfOne ==
    ASSUME NEW f, NEW x, f[x] \in Nat
    PROVE  IsFiniteSet(Units(f, {x})) /\ Cardinality(Units(f, {x})) = f[x]
  <1>1. Units(f, {x}) = {x} \X (0 .. f[x] - 1)
    <2>1. \A u : u \in Units(f, {x}) <=> u \in {x} \X (0 .. f[x] - 1)
      BY DEF Units
    <2>2. QED
      BY <2>1
  <1>2. IsFiniteSet({x}) /\ Cardinality({x}) = 1
    BY FS_Singleton
  <1>3. IsFiniteSet(0 .. f[x] - 1) /\ Cardinality(0 .. f[x] - 1) = f[x]
    <2>1. ASSUME NEW n \in Nat PROVE IsFiniteSet(0 .. n - 1) /\ Cardinality(0 .. n - 1) = n
      <3>1. 0 \in Int /\ n - 1 \in Int
        OBVIOUS
      <3>2. IsFiniteSet(0 .. n - 1) /\ Cardinality(0 .. n - 1) = IF 0 > n - 1 THEN 0 ELSE n - 1 - 0 + 1
        BY <3>1, FS_Interval
      <3>3. QED
        BY <3>2
    <2>2. QED
      BY <2>1, Zenon
  <1>4. Cardinality({x} \X (0 .. f[x] - 1)) = 1 * f[x] /\ IsFiniteSet({x} \X (0 .. f[x] - 1))
    BY <1>2, <1>3, FS_Product
  <1>5. 1 * f[x] = f[x]
    OBVIOUS
  <1>6. QED
    BY <1>1, <1>4, <1>5, Zenon

LEMMA UnitsOfMore ==
    ASSUME NEW f, NEW T, NEW x, x \notin T, f[x] \in Nat, IsFiniteSet(Units(f, T))
    PROVE  /\ IsFiniteSet(Units(f, T \cup {x}))
           /\ Cardinality(Units(f, T \cup {x})) = Cardinality(Units(f, T)) + f[x]
  <1>1. Units(f, T \cup {x}) = Units(f, T) \cup Units(f, {x})
    BY DEF Units
  <1>2. Units(f, T) \cap Units(f, {x}) = {}
    BY DEF Units
  <1>3. Cardinality({}) = 0
    BY FS_EmptySet
  <1>4. /\ IsFiniteSet(Units(f, {x})) /\ Cardinality(Units(f, {x})) = f[x]
        /\ Cardinality(Units(f, T)) \in Nat
    BY UnitsOfOne, FS_CardinalityType
  <1>5. /\ IsFiniteSet(Units(f, T) \cup Units(f, {x}))
        /\ Cardinality(Units(f, T) \cup Units(f, {x})) =
              Cardinality(Units(f, T)) + Cardinality(Units(f, {x})) - Cardinality(Units(f, T) \cap Units(f, {x}))
    BY <1>4, FS_Union
  <1>6. Cardinality(Units(f, T \cup {x})) = Cardinality(Units(f, T)) + f[x] - 0
    BY <1>1, <1>2, <1>3, <1>4, <1>5, Zenon
  <1>7. IsFiniteSet(Units(f, T \cup {x}))
    BY <1>1, <1>5, Zenon
  <1>8. QED
    BY <1>4, <1>6, <1>7

LEMMA UnitsAreFinite ==
    ASSUME NEW S, IsFiniteSet(S), NEW f, \A x \in S : f[x] \in Nat
    PROVE  IsFiniteSet(Units(f, S))
  <1> DEFINE P == {T \in SUBSET S : IsFiniteSet(Units(f, T))}
  <1>1. ASSUME NEW T \in SUBSET S, \A x \in T : T \ {x} \in P PROVE T \in P
    <2>1. CASE T = {}
      <3>1. Units(f, {}) = {}
        BY DEF Units
      <3>2. QED
        BY <2>1, <3>1, FS_EmptySet
    <2>2. CASE T # {}
      <3>1. PICK x \in T : TRUE
        BY <2>2
      <3>2. T = (T \ {x}) \cup {x} /\ IsFiniteSet(Units(f, T \ {x}))
        BY <1>1, <3>1
      <3>3. QED
        BY <3>2, UnitsOfMore
    <2>3. QED
      BY <2>1, <2>2
  <1>2. S \in P
    <2> HIDE DEF P
    <2>1. QED
      BY <1>1, SetInduction
  <1>3. QED
    BY <1>2

(* The fold solves its equation: it counts the units.                      *)
LEMMA TotalCounts ==
    ASSUME NEW S, IsFiniteSet(S), NEW f \in [S -> Nat]
    PROVE  Total(f) = Cardinality(Units(f, S))
  <1> DEFINE some(s) == CHOOSE x \in s : TRUE
             Solved(g) == g = [s \in SUBSET S |-> IF s = {} THEN 0 ELSE f[some(s)] + g[s \ {some(s)}]]
             count == [s \in SUBSET S |-> Cardinality(Units(f, s))]
             iter == CHOOSE g : Solved(g)
             P == {T \in SUBSET S : iter[T] = count[T]}
  <1>1. Total(f) = iter[S]
    BY DEF Total, FoldFunction, FoldFunctionOnSet, MapThenFoldSet
  <1>2. ASSUME NEW s \in SUBSET S PROVE IsFiniteSet(Units(f, s)) /\ Cardinality(Units(f, s)) \in Nat
    <2>1. IsFiniteSet(s)
      BY FS_Subset
    <2>2. QED
      BY <2>1, UnitsAreFinite, FS_CardinalityType
  <1>3. ASSUME NEW s \in SUBSET S, s # {}
        PROVE  /\ some(s) \in s /\ s \ {some(s)} \in SUBSET S
               /\ count[s] = f[some(s)] + count[s \ {some(s)}]
    <2>1. some(s) \in s /\ s \ {some(s)} \in SUBSET S
      BY <1>3
    <2> DEFINE x == some(s)
               t == s \ {x}
    <2>2. x \in s /\ t \in SUBSET S /\ s = t \cup {x} /\ x \notin t /\ f[x] \in Nat
      BY <2>1
    <2> HIDE DEF x, t
    <2>3. Cardinality(Units(f, s)) = Cardinality(Units(f, t)) + f[x]
      BY <1>2, <2>2, UnitsOfMore
    <2>4. QED
      BY <1>2, <2>1, <2>2, <2>3 DEF x, t
  <1>4. count[{}] = 0
    <2>1. Units(f, {}) = {}
      BY DEF Units
    <2>2. QED
      BY <2>1, FS_EmptySet
  <1>5. Solved(count)
    <2>1. \A s \in SUBSET S : count[s] = IF s = {} THEN 0 ELSE f[some(s)] + count[s \ {some(s)}]
      BY <1>3, <1>4
    <2>2. count = [s \in SUBSET S |-> count[s]]
      OBVIOUS
    <2> HIDE DEF count, some
    <2>3. QED
      BY <2>1, <2>2, Zenon
  <1>6. Solved(iter)
    <2> HIDE DEF Solved, count
    <2>1. QED
      BY <1>5
  <1>7. ASSUME NEW T \in SUBSET S, \A x \in T : T \ {x} \in P PROVE T \in P
    <2>1. iter[T] = IF T = {} THEN 0 ELSE f[some(T)] + iter[T \ {some(T)}]
      <3> HIDE DEF iter, some
      <3>1. QED
        BY <1>6
    <2>2. T # {} => T \ {some(T)} \in P
      BY <1>7
    <2> HIDE DEF iter, count, some
    <2>3. T # {} => iter[T \ {some(T)}] = count[T \ {some(T)}]
      BY <2>2
    <2>4. QED
      BY <1>3, <1>4, <2>1, <2>3
  <1>8. S \in P
    <2> HIDE DEF P
    <2>1. QED
      BY <1>7, SetInduction
  <1>9. QED
    <2> HIDE DEF iter
    <2>1. QED
      BY <1>1, <1>8

Sum(f, T) == Cardinality(Units(f, T))

LEMMA TotalIsSum ==
    ASSUME NEW S, IsFiniteSet(S), NEW f \in [S -> Nat]
    PROVE  Total(f) = Sum(f, S)
  BY TotalCounts DEF Sum

LEMMA SumIsNat ==
    ASSUME NEW S, IsFiniteSet(S), NEW f, \A x \in S : f[x] \in Nat
    PROVE  Sum(f, S) \in Nat
  BY UnitsAreFinite, FS_CardinalityType DEF Sum

LEMMA SumOfNone ==
    ASSUME NEW S, NEW f, \A x \in S : f[x] = 0
    PROVE  Sum(f, S) = 0
  <1>1. Units(f, S) = {}
    BY DEF Units
  <1>2. QED
    BY <1>1, FS_EmptySet DEF Sum

LEMMA SumOfMore ==
    ASSUME NEW S, IsFiniteSet(S), NEW x, x \notin S, NEW f, \A y \in S \cup {x} : f[y] \in Nat
    PROVE  Sum(f, S \cup {x}) = Sum(f, S) + f[x]
  BY UnitsAreFinite, UnitsOfMore DEF Sum

LEMMA SumIsSame ==
    ASSUME NEW S, NEW f, NEW g, \A x \in S : f[x] = g[x]
    PROVE  Sum(f, S) = Sum(g, S)
  <1>1. Units(f, S) = Units(g, S)
    BY DEF Units
  <1>2. QED
    BY <1>1 DEF Sum

LEMMA SumOfTwoSets ==
    ASSUME NEW S, IsFiniteSet(S), NEW T, IsFiniteSet(T), S \cap T = {},
           NEW f, \A x \in S \cup T : f[x] \in Nat
    PROVE  Sum(f, S \cup T) = Sum(f, S) + Sum(f, T)
  <1>1. /\ IsFiniteSet(Units(f, S)) /\ IsFiniteSet(Units(f, T))
        /\ Sum(f, S) \in Nat /\ Sum(f, T) \in Nat
    BY UnitsAreFinite, SumIsNat
  <1>2. Units(f, S \cup T) = Units(f, S) \cup Units(f, T)
    BY DEF Units
  <1>3. Units(f, S) \cap Units(f, T) = {}
    BY DEF Units
  <1>4. Sum(f, S \cup T) = Sum(f, S) + Sum(f, T) - Cardinality(Units(f, S) \cap Units(f, T))
    BY <1>1, <1>2, FS_Union, Zenon DEF Sum
  <1>5. Cardinality({}) = 0
    BY FS_EmptySet
  <1>6. Sum(f, S \cup T) = Sum(f, S) + Sum(f, T) - 0
    BY <1>3, <1>4, <1>5, Zenon
  <1>7. QED
    BY <1>1, <1>6

LEMMA SumOfTwo ==
    ASSUME NEW S, IsFiniteSet(S), NEW f, NEW g, NEW h,
           \A x \in S : f[x] \in Nat /\ g[x] \in Nat /\ h[x] = f[x] + g[x]
    PROVE  Sum(h, S) = Sum(f, S) + Sum(g, S)
  <1> DEFINE P == {T \in SUBSET S : Sum(h, T) = Sum(f, T) + Sum(g, T)}
  <1>1. ASSUME NEW T \in SUBSET S, \A x \in T : T \ {x} \in P PROVE T \in P
    <2>1. CASE T = {}
      <3>1. Sum(f, {}) = 0 /\ Sum(g, {}) = 0 /\ Sum(h, {}) = 0
        BY SumOfNone
      <3>2. QED
        BY <2>1, <3>1
    <2>2. CASE T # {}
      <3>1. PICK x \in T : TRUE
        BY <2>2
      <3> DEFINE R == T \ {x}
      <3>2. R \in SUBSET S /\ T = R \cup {x} /\ x \notin R /\ IsFiniteSet(R)
        BY <3>1, FS_Subset
      <3>3. Sum(h, R) = Sum(f, R) + Sum(g, R)
        BY <1>1
      <3> HIDE DEF R
      <3>4. /\ Sum(h, T) = Sum(h, R) + h[x] /\ Sum(f, T) = Sum(f, R) + f[x] /\ Sum(g, T) = Sum(g, R) + g[x]
        <4>1. /\ \A y \in R \cup {x} : f[y] \in Nat
              /\ \A y \in R \cup {x} : g[y] \in Nat
              /\ \A y \in R \cup {x} : h[y] \in Nat
          BY <3>2
        <4>2. Sum(h, R \cup {x}) = Sum(h, R) + h[x]
          BY <3>2, <4>1, SumOfMore
        <4>3. Sum(f, R \cup {x}) = Sum(f, R) + f[x]
          BY <3>2, <4>1, SumOfMore
        <4>4. Sum(g, R \cup {x}) = Sum(g, R) + g[x]
          BY <3>2, <4>1, SumOfMore
        <4>5. QED
          BY <3>2, <4>2, <4>3, <4>4
      <3>5. /\ Sum(f, R) \in Nat /\ Sum(g, R) \in Nat /\ f[x] \in Nat /\ g[x] \in Nat /\ h[x] = f[x] + g[x]
        BY <3>1, <3>2, SumIsNat
      <3>6. QED
        BY <3>3, <3>4, <3>5
    <2>3. QED
      BY <2>1, <2>2
  <1>2. S \in P
    <2> HIDE DEF P
    <2>1. QED
      BY <1>1, SetInduction
  <1>3. QED
    BY <1>2

(* Parts that have nothing in common add up to the whole.                  *)
LEMMA SumOfParts ==
    ASSUME NEW S, IsFiniteSet(S), NEW f, \A x \in S : f[x] \in Nat,
           NEW D, IsFiniteSet(D), NEW U \in [D -> SUBSET S],
           \A v \in D : \A w \in D : v # w => U[v] \cap U[w] = {}
    PROVE  Sum(f, UNION {U[w] : w \in D}) = Sum([w \in D |-> Sum(f, U[w])], D)
  <1> DEFINE s == [w \in D |-> Sum(f, U[w])]
             All(T) == UNION {U[w] : w \in T}
             P == {T \in SUBSET D : Sum(f, All(T)) = Sum(s, T)}
  <1>1. \A T \in SUBSET S : IsFiniteSet(T) /\ Sum(f, T) \in Nat
    BY FS_Subset, SumIsNat
  <1>2. \A w \in D : s[w] \in Nat
    BY <1>1
  <1>3. ASSUME NEW T \in SUBSET D, \A x \in T : T \ {x} \in P PROVE T \in P
    <2>1. CASE T = {}
      <3>1. All({}) = {} /\ Sum(f, {}) = 0 /\ Sum(s, {}) = 0
        BY SumOfNone
      <3>2. QED
        BY <2>1, <3>1
    <2>2. CASE T # {}
      <3>1. PICK x \in T : TRUE
        BY <2>2
      <3> DEFINE R == T \ {x}
      <3>2. R \in SUBSET D /\ T = R \cup {x} /\ x \notin R /\ IsFiniteSet(R) /\ x \in D
        BY <3>1, FS_Subset
      <3>3. Sum(f, All(R)) = Sum(s, R)
        BY <1>3
      <3>4. All(T) = All(R) \cup U[x] /\ All(R) \cap U[x] = {}
        BY <3>2
      <3>5. All(R) \in SUBSET S /\ U[x] \in SUBSET S
        BY <3>2
      <3> HIDE DEF All, R
      <3>6. Sum(f, All(T)) = Sum(f, All(R)) + Sum(f, U[x])
        BY <1>1, <3>4, <3>5, SumOfTwoSets
      <3>7. Sum(s, T) = Sum(s, R) + s[x]
        <4> HIDE DEF s
        <4>1. \A y \in R \cup {x} : s[y] \in Nat
          BY <1>2, <3>2
        <4>2. QED
          BY <3>2, <4>1, SumOfMore
      <3>8. s[x] = Sum(f, U[x])
        BY <3>2
      <3> HIDE DEF s
      <3>9. QED
        BY <3>3, <3>6, <3>7, <3>8
    <2>3. QED
      BY <2>1, <2>2
  <1>4. D \in P
    <2> HIDE DEF P
    <2>1. QED
      BY <1>3, SetInduction
  <1>5. QED
    BY <1>4

-----------------------------------------------------------------------------
(* Who receives stock *)

Wips == [Order -> Stock \cup {Nothing}]

LEMMA OrdersAreFinite ==
    ASSUME NEW B \in SUBSET Order
    PROVE  /\ IsFiniteSet(B) /\ \A b \in B : b \in Nat /\ LenOf[b] \in Nat
           /\ SumLen(B) = Sum(LenOf, B) /\ SumLen(B) \in Nat
  <1>1. IsFiniteSet(B) /\ \A b \in B : b \in Nat /\ LenOf[b] \in Nat
    <2>1. B \in SUBSET Batch
      BY DEF Batch
    <2>2. QED
      BY <2>1, BatchGroupsAssumption, FS_Subset DEF Batch
  <1> DEFINE f == [b \in B |-> LenOf[b]]
  <1>2. f \in [B -> Nat] /\ \A b \in B : f[b] = LenOf[b]
    BY <1>1
  <1>3. SumLen(B) = Total(f)
    BY DEF SumLen
  <1> HIDE DEF f
  <1>4. Total(f) = Sum(f, B) /\ Sum(f, B) = Sum(LenOf, B)
    BY <1>1, <1>2, TotalIsSum, SumIsSame
  <1>5. QED
    BY <1>1, <1>3, <1>4, SumIsNat

(* Of some orders, one is behind all others.                               *)
LEMMA LastOrder ==
    ASSUME NEW B \in SUBSET Order, B # {}
    PROVE  \E m \in B : \A b \in B \ {m} : Longer(b, m) /\ ~Longer(m, b)
  <1>1. IsFiniteSet(B) /\ \A b \in B : b \in Nat /\ LenOf[b] \in Nat
    BY OrdersAreFinite
  <1> DEFINE L == {LenOf[b] : b \in B}
  <1>2. PICK l \in L : \A k \in L : <<k, l>> \notin OpToRel(<, Nat)
    <2>1. L \subseteq Nat /\ L # {}
      BY <1>1
    <2> HIDE DEF L
    <2>2. QED
      BY <2>1, WFMin, NatLessThanWellFounded
  <1>3. \A b \in B : LenOf[b] >= l
    <2>1. SUFFICES ASSUME NEW b \in B PROVE LenOf[b] >= l
      OBVIOUS
    <2>2. LenOf[b] \in L /\ LenOf[b] \in Nat /\ l \in Nat
      BY <1>1, <1>2
    <2> HIDE DEF L
    <2>3. <<LenOf[b], l>> \notin OpToRel(<, Nat)
      BY <1>2, <2>2
    <2>4. ~(LenOf[b] < l)
      BY <2>2, <2>3 DEF OpToRel
    <2>5. QED
      BY <2>2, <2>4
  <1> DEFINE M == {b \in B : LenOf[b] = l}
  <1>4. M \in SUBSET Nat /\ IsFiniteSet(M) /\ M # {}
    BY <1>1, <1>2, FS_Subset
  <1>5. Max(M) \in M /\ \A b \in M : b <= Max(M)
    <2> HIDE DEF M
    <2>1. QED
      BY <1>4, GreatestOfFinite
  <1>6. PICK m \in M : \A b \in M : b <= m
    BY <1>5
  <1>7. ASSUME NEW b \in B \ {m} PROVE Longer(b, m) /\ ~Longer(m, b)
    <2>1. b \in Nat /\ m \in Nat /\ LenOf[b] \in Nat /\ LenOf[m] = l /\ l \in Nat /\ LenOf[b] >= l /\ b # m
      BY <1>1, <1>3
    <2>2. LenOf[b] = l => b <= m
      BY <1>6
    <2>3. QED
      BY <2>1, <2>2 DEF Longer
  <1>8. QED
    BY <1>7

Select(R, candidates, budget) ==
    \A b \in candidates : b \in R <=> SumLen({r \in R : Longer(r, b)}) + LenOf[b] <= budget

(* The selection exists: decide on the last candidate after all others.    *)
LEMMA SelectionExists ==
    ASSUME NEW C \in SUBSET Order, NEW budget \in Nat
    PROVE  \E R \in SUBSET C : Select(R, C, budget)
  <1> DEFINE P == {T \in SUBSET C : \E R \in SUBSET T : Select(R, T, budget)}
  <1>1. ASSUME NEW T \in SUBSET C, \A x \in T : T \ {x} \in P PROVE T \in P
    <2>1. CASE T = {}
      BY <2>1 DEF Select
    <2>2. CASE T # {}
      <3>1. T \in SUBSET Order
        OBVIOUS
      <3>2. PICK m \in T : \A b \in T \ {m} : Longer(b, m) /\ ~Longer(m, b)
        BY <2>2, <3>1, LastOrder
      <3>3. PICK Q \in SUBSET (T \ {m}) : Select(Q, T \ {m}, budget)
        BY <1>1
      <3>4. LenOf[m] \in Nat /\ ~Longer(m, m)
        <4>1. m \in Order /\ m \in Nat /\ LenOf[m] \in Nat
          BY <3>1, OrdersAreFinite
        <4>2. QED
          BY <4>1 DEF Longer
      <3> DEFINE R == IF SumLen(Q) + LenOf[m] <= budget THEN Q \cup {m} ELSE Q
      <3>5. ASSUME NEW b \in T \ {m}
            PROVE  b \in R <=> SumLen({r \in R : Longer(r, b)}) + LenOf[b] <= budget
        <4>1. ~Longer(m, b)
          BY <3>2
        <4>2. {r \in R : Longer(r, b)} = {r \in Q : Longer(r, b)}
          BY <4>1
        <4>3. b \in R <=> b \in Q
          OBVIOUS
        <4>4. b \in Q <=> SumLen({r \in Q : Longer(r, b)}) + LenOf[b] <= budget
          BY <3>3 DEF Select
        <4> HIDE DEF R
        <4>5. QED
          BY <4>2, <4>3, <4>4, Zenon
      <3>6. m \in R <=> SumLen({r \in R : Longer(r, m)}) + LenOf[m] <= budget
        <4>1. {r \in R : Longer(r, m)} = Q
          BY <3>2, <3>4
        <4>2. m \in R <=> SumLen(Q) + LenOf[m] <= budget
          BY <3>3
        <4> HIDE DEF R
        <4>3. QED
          BY <4>1, <4>2, Zenon
      <3>7. R \in SUBSET T
        BY <3>2
      <3> HIDE DEF R
      <3>8. Select(R, T, budget)
        BY <3>5, <3>6, Zenon DEF Select
      <3>9. QED
        BY <3>7, <3>8
    <2>3. QED
      BY <2>1, <2>2
  <1>2. C \in P
    <2> HIDE DEF P
    <2>1. IsFiniteSet(C)
      BY OrdersAreFinite
    <2>2. QED
      BY <1>1, <2>1, SetInduction
  <1>3. QED
    BY <1>2

(* Those selected are candidates and fit into the budget.                  *)
LEMMA ReceiversFit ==
    ASSUME NEW C \in SUBSET Order, NEW budget \in Nat
    PROVE  Receivers(C, budget) \in SUBSET C /\ SumLen(Receivers(C, budget)) <= budget
  <1> DEFINE R == Receivers(C, budget)
  <1>1. R \in SUBSET C /\ Select(R, C, budget)
    <2>1. R = CHOOSE S \in SUBSET C : Select(S, C, budget)
      BY Zenon DEF Receivers, Select
    <2> HIDE DEF R
    <2>2. QED
      BY <2>1, SelectionExists
  <1> HIDE DEF R
  <1>2. CASE R = {}
    <2>1. SumLen({}) = 0
      BY OrdersAreFinite, SumOfNone
    <2>2. QED
      BY <1>2, <2>1 DEF R
  <1>3. CASE R # {}
    <2>1. R \in SUBSET Order
      BY <1>1
    <2>2. PICK m \in R : \A b \in R \ {m} : Longer(b, m) /\ ~Longer(m, b)
      BY <1>3, <2>1, LastOrder
    <2>3. m \in Nat /\ LenOf[m] \in Nat
      BY <2>1, OrdersAreFinite
    <2>4. ~Longer(m, m)
      BY <2>3 DEF Longer
    <2> DEFINE Q == R \ {m}
    <2>5. {r \in R : Longer(r, m)} = Q
      BY <2>2, <2>4
    <2>6. SumLen({r \in R : Longer(r, m)}) + LenOf[m] <= budget
      BY <1>1, <2>2 DEF Select
    <2>7. Q \in SUBSET Order /\ m \notin Q /\ R = Q \cup {m}
      BY <2>1, <2>2
    <2> HIDE DEF Q
    <2>8. Sum(LenOf, Q \cup {m}) = Sum(LenOf, Q) + LenOf[m]
      <3>1. IsFiniteSet(Q) /\ \A y \in Q \cup {m} : LenOf[y] \in Nat
        BY <2>3, <2>7, OrdersAreFinite
      <3>2. QED
        BY <2>7, <3>1, SumOfMore
    <2>9. SumLen(R) = Sum(LenOf, R) /\ SumLen(Q) = Sum(LenOf, Q)
      BY <2>1, <2>7, OrdersAreFinite
    <2>10. SumLen(R) <= budget
      BY <2>5, <2>6, <2>7, <2>8, <2>9
    <2>11. QED
      BY <1>1, <2>10 DEF R
  <1>4. QED
    BY <1>2, <1>3

(* What is handed out of each stock, one stock after the other.            *)
Deal(given, D, free) ==
    \A w \in D : given[w] = Receivers(free \ UNION {given[v] : v \in {x \in D : x < w}}, StockLen[w])

LEMMA DealExists ==
    ASSUME NEW D \in SUBSET Stock, NEW free \in SUBSET Order
    PROVE  \E given \in [D -> SUBSET free] : Deal(given, D, free)
  <1> DEFINE P == {T \in SUBSET D : \E given \in [T -> SUBSET free] : Deal(given, T, free)}
  <1>1. IsFiniteSet(D) /\ D \in SUBSET Nat
    BY BatchGroupsAssumption, FS_Subset
  <1>2. ASSUME NEW T \in SUBSET D, \A x \in T : T \ {x} \in P PROVE T \in P
    <2>1. CASE T = {}
      <3>1. [w \in {} |-> {}] \in [{} -> SUBSET free] /\ Deal([w \in {} |-> {}], {}, free)
        BY DEF Deal
      <3>2. QED
        BY <2>1, <3>1
    <2>2. CASE T # {}
      <3>1. T \in SUBSET Nat /\ IsFiniteSet(T)
        BY <1>1, FS_Subset
      <3>2. PICK m \in T : \A w \in T : w <= m
        BY <2>2, <3>1, GreatestOfFinite
      <3>3. PICK old \in [T \ {m} -> SUBSET free] : Deal(old, T \ {m}, free)
        BY <1>2
      <3> DEFINE left == free \ UNION {old[v] : v \in T \ {m}}
                 new  == [w \in T |-> IF w = m THEN Receivers(left, StockLen[m]) ELSE old[w]]
      <3>4. Receivers(left, StockLen[m]) \in SUBSET free
        <4>1. left \in SUBSET Order /\ left \in SUBSET free /\ StockLen[m] \in Nat
          BY <3>2, BatchGroupsAssumption
        <4> HIDE DEF left
        <4>2. QED
          BY <4>1, ReceiversFit
      <3>5. new \in [T -> SUBSET free]
        <4> HIDE DEF left
        <4>1. QED
          BY <3>3, <3>4
      <3>6. ASSUME NEW w \in T
            PROVE  new[w] = Receivers(free \ UNION {new[v] : v \in {x \in T : x < w}}, StockLen[w])
        <4>1. CASE w = m
          <5>1. {x \in T : x < w} = T \ {m}
            <6>1. \A x \in T : x < w <=> x # m
              BY <3>1, <3>2, <4>1
            <6>2. QED
              BY <6>1
          <5>2. \A v \in T \ {m} : new[v] = old[v]
            OBVIOUS
          <5>3. {new[v] : v \in {x \in T : x < w}} = {old[v] : v \in T \ {m}}
            <6> HIDE DEF new
            <6>1. QED
              BY <5>1, <5>2
          <5>4. new[w] = Receivers(left, StockLen[w])
            BY <4>1
          <5> HIDE DEF new
          <5>5. QED
            BY <5>3, <5>4, Zenon
        <4>2. CASE w # m
          <5>1. {x \in T : x < w} = {x \in T \ {m} : x < w}
            BY <3>1, <3>2, <4>2
          <5>2. \A v \in T \ {m} : new[v] = old[v]
            OBVIOUS
          <5>3. {new[v] : v \in {x \in T : x < w}} = {old[v] : v \in {x \in T \ {m} : x < w}}
            <6> HIDE DEF new
            <6>1. QED
              BY <5>1, <5>2
          <5>4. old[w] = Receivers(free \ UNION {old[v] : v \in {x \in T \ {m} : x < w}}, StockLen[w])
            BY <3>3, <4>2 DEF Deal
          <5>5. new[w] = old[w]
            BY <4>2
          <5> HIDE DEF new
          <5>6. QED
            BY <5>3, <5>4, <5>5, Zenon
        <4>3. QED
          BY <4>1, <4>2
      <3> HIDE DEF new
      <3>7. Deal(new, T, free)
        BY <3>6 DEF Deal
      <3>8. QED
        BY <3>5, <3>7
    <2>3. QED
      BY <2>1, <2>2
  <1>3. D \in P
    <2> HIDE DEF P
    <2>1. QED
      BY <1>1, <1>2, SetInduction
  <1>4. QED
    BY <1>3

-----------------------------------------------------------------------------
(* What handing over leaves *)

LEMMA TheDeal ==
    ASSUME NEW From \in SUBSET Order, NEW To \in SUBSET Order,
           NEW wip, \A b \in From \cup To : wip[b] \in Stock \cup {Nothing}
    PROVE  LET D     == Used(From, wip)
               free  == Without(To, wip)
               given == Given(From, To, wip)
           IN  /\ D \in SUBSET Stock /\ free \in SUBSET To
               /\ given \in [D -> SUBSET free]
               /\ \A w \in D : SumLen(given[w]) <= StockLen[w]
               /\ \A v \in D : \A w \in D : v # w => given[v] \cap given[w] = {}
  <1> DEFINE D     == Used(From, wip)
             free  == Without(To, wip)
             given == Given(From, To, wip)
  <1>1. D \in SUBSET Stock /\ free \in SUBSET To /\ free \in SUBSET Order
    BY DEF Used, Without
  <1>2. given = CHOOSE g \in [D -> SUBSET free] : Deal(g, D, free)
    BY Zenon DEF Given, Deal
  <1> HIDE DEF D, free, given
  <1>3. given \in [D -> SUBSET free] /\ Deal(given, D, free)
    <2>1. \E g \in [D -> SUBSET free] : Deal(g, D, free)
      BY <1>1, DealExists
    <2>2. QED
      BY <1>2, <2>1
  <1>4. ASSUME NEW w \in D
        PROVE  /\ given[w] \in SUBSET (free \ UNION {given[v] : v \in {x \in D : x < w}})
               /\ SumLen(given[w]) <= StockLen[w]
    <2> DEFINE left == free \ UNION {given[v] : v \in {x \in D : x < w}}
    <2>1. left \in SUBSET Order /\ StockLen[w] \in Nat
      BY <1>1, BatchGroupsAssumption
    <2>2. given[w] = Receivers(left, StockLen[w])
      BY <1>3 DEF Deal
    <2> HIDE DEF left
    <2>3. given[w] \in SUBSET left /\ SumLen(given[w]) <= StockLen[w]
      BY <2>1, <2>2, ReceiversFit
    <2>4. QED
      BY <2>3 DEF left
  <1>5. ASSUME NEW v \in D, NEW w \in D, v < w PROVE given[v] \cap given[w] = {}
    BY <1>4, <1>5
  <1>6. ASSUME NEW v \in D, NEW w \in D, v # w PROVE given[v] \cap given[w] = {}
    <2>1. v \in Nat /\ w \in Nat
      BY <1>1, BatchGroupsAssumption
    <2>2. v < w \/ w < v
      BY <1>6, <2>1
    <2>3. QED
      BY <1>5, <2>2
  <1>7. QED
    BY <1>1, <1>3, <1>4, <1>6 DEF D, free, given

(* What is missing of a stock for its users.                               *)
Short(B, wip, w) == Positive(SumLen(Users(B, wip, w)) - StockLen[w])

LEMMA ShortIsNat ==
    ASSUME NEW B \in SUBSET Order, NEW wip, NEW w \in Stock
    PROVE  /\ Short(B, wip, w) \in Nat
           /\ SumLen(Users(B, wip, w)) <= StockLen[w] => Short(B, wip, w) = 0
           /\ Users(B, wip, w) = {} => Short(B, wip, w) = 0
  <1>1. Users(B, wip, w) \in SUBSET Order
    BY DEF Users
  <1>2. SumLen(Users(B, wip, w)) \in Nat /\ StockLen[w] \in Nat
    BY <1>1, OrdersAreFinite, BatchGroupsAssumption
  <1>3. SumLen({}) = 0
    BY OrdersAreFinite, SumOfNone
  <1>4. Users(B, wip, w) = {} => SumLen(Users(B, wip, w)) = 0
    BY <1>3
  <1>5. QED
    BY <1>2, <1>4 DEF Short, Positive

(* The sum of Net may be taken over more stock than is used.               *)
LEMMA NetIs ==
    ASSUME NEW B \in SUBSET Order, NEW wip, NEW V \in SUBSET Stock, Used(B, wip) \subseteq V
    PROVE  /\ Net(B, wip) = Sum(LenOf, Without(B, wip)) + Sum([w \in V |-> Short(B, wip, w)], V)
           /\ Net(B, wip) \in Nat
           /\ Sum(LenOf, Without(B, wip)) \in Nat /\ Sum([w \in V |-> Short(B, wip, w)], V) \in Nat
  <1> DEFINE W == Used(B, wip)
             s == [w \in V |-> Short(B, wip, w)]
             t == [w \in W |-> Short(B, wip, w)]
  <1>1. W \subseteq V /\ \A w \in V : s[w] \in Nat
    BY ShortIsNat
  <1>2. IsFiniteSet(V) /\ IsFiniteSet(W) /\ IsFiniteSet(V \ W)
    BY BatchGroupsAssumption, FS_Subset
  <1>3. t \in [W -> Nat] /\ \A w \in W : t[w] = s[w]
    <2> HIDE DEF W
    <2>1. QED
      BY <1>1
  <1>4. \A w \in V \ W : s[w] = 0
    <2>1. SUFFICES ASSUME NEW w \in V \ W PROVE Short(B, wip, w) = 0
      OBVIOUS
    <2>2. Users(B, wip, w) = {}
      <3>1. w # Nothing
        BY BatchGroupsAssumption
      <3>2. QED
        BY <3>1 DEF Users, Used
    <2>3. QED
      BY <2>2, ShortIsNat
  <1>5. Net(B, wip) = SumLen(Without(B, wip)) + Total(t)
    BY Zenon DEF Net, Short
  <1>6. SumLen(Without(B, wip)) = Sum(LenOf, Without(B, wip)) /\ Sum(LenOf, Without(B, wip)) \in Nat
    <2>1. Without(B, wip) \in SUBSET Order
      BY DEF Without
    <2> HIDE DEF s, t, W
    <2>2. QED
      BY <2>1, OrdersAreFinite
  <1> HIDE DEF s, t, W
  <1>7. Total(t) = Sum(s, W)
    BY <1>2, <1>3, TotalIsSum, SumIsSame
  <1>8. Sum(s, V) = Sum(s, W) + Sum(s, V \ W) /\ Sum(s, W) \in Nat
    <2>1. V = W \cup (V \ W) /\ W \cap (V \ W) = {}
      BY <1>1
    <2>2. \A w \in W \cup (V \ W) : s[w] \in Nat
      BY <1>1
    <2>3. Sum(s, W \cup (V \ W)) = Sum(s, W) + Sum(s, V \ W)
      BY <1>2, <2>1, <2>2, SumOfTwoSets
    <2>4. QED
      BY <1>1, <1>2, <2>1, <2>3, SumIsNat
  <1>9. Sum(s, V \ W) = 0
    BY <1>4, SumOfNone
  <1>10. QED
    BY <1>5, <1>6, <1>7, <1>8, <1>9 DEF s

LEMMA LeastOfTwo ==
    ASSUME NEW a \in Nat, NEW b \in Nat
    PROVE  Min({a, b}) = IF a <= b THEN a ELSE b
  <1>1. \E x \in {a, b} : \A y \in {a, b} : x <= y
    BY SMT
  <1>2. Min({a, b}) \in {a, b} /\ \A y \in {a, b} : Min({a, b}) <= y
    BY <1>1, Zenon DEF Min
  <1>3. QED
    BY <1>2

(* What the orders that hand over would have to make more.                 *)
LEMMA HandingSideMakesMore ==
    ASSUME NEW From \in SUBSET Order, NEW wip, \A b \in From : wip[b] \in Stock \cup {Nothing}
    PROVE  LET D == Used(From, wip)
               loss == [w \in D |-> Min({SumLen(Users(From, wip, w)), StockLen[w]})]
           IN  Net(From, wip) + Total(loss) = Sum(LenOf, From) /\ Total(loss) \in Nat
  <1> DEFINE D    == Used(From, wip)
             U    == [w \in D |-> Users(From, wip, w)]
             all  == [w \in D |-> Sum(LenOf, U[w])]
             miss == [w \in D |-> Short(From, wip, w)]
             loss == [w \in D |-> Min({SumLen(Users(From, wip, w)), StockLen[w]})]
             bare == Without(From, wip)
  <1>1. D \in SUBSET Stock /\ IsFiniteSet(D)
    <2>1. D \in SUBSET Stock
      BY DEF Used
    <2>2. QED
      BY <2>1, BatchGroupsAssumption, FS_Subset
  <1>2. ASSUME NEW w \in D
        PROVE  /\ U[w] \in SUBSET From /\ all[w] \in Nat /\ miss[w] \in Nat /\ loss[w] \in Nat
               /\ all[w] = miss[w] + loss[w]
    <2>1. U[w] \in SUBSET From /\ U[w] \in SUBSET Order /\ U[w] = Users(From, wip, w)
      BY DEF Users
    <2>2. /\ SumLen(U[w]) \in Nat /\ SumLen(U[w]) = Sum(LenOf, U[w]) /\ StockLen[w] \in Nat
      <3> HIDE DEF U
      <3>1. QED
        BY <1>1, <2>1, OrdersAreFinite, BatchGroupsAssumption
    <2>3. miss[w] = Positive(SumLen(U[w]) - StockLen[w])
      BY <2>1 DEF Short
    <2>4. loss[w] = IF SumLen(U[w]) <= StockLen[w] THEN SumLen(U[w]) ELSE StockLen[w]
      <3>1. loss[w] = Min({SumLen(U[w]), StockLen[w]})
        BY <2>1
      <3> HIDE DEF loss, U
      <3>2. QED
        BY <2>2, <3>1, LeastOfTwo
    <2>5. all[w] = SumLen(U[w])
      BY <2>2
    <2> HIDE DEF U, all, miss, loss
    <2>6. QED
      BY <2>1, <2>2, <2>3, <2>4, <2>5 DEF Positive
  <1>3. \A v \in D : \A w \in D : v # w => U[v] \cap U[w] = {}
    BY DEF Users
  <1>4. UNION {U[w] : w \in D} = From \ bare
    <2>1. ASSUME NEW b \in From \ bare PROVE wip[b] \in D /\ b \in U[wip[b]]
      BY DEF Used, Users, Without
    <2>2. ASSUME NEW w \in D, NEW b \in U[w] PROVE b \in From \ bare
      <3>1. b \in From /\ wip[b] = w /\ w # Nothing
        BY <2>2 DEF Used, Users
      <3>2. QED
        BY <3>1 DEF Without
    <2> HIDE DEF U, D, bare
    <2>3. QED
      BY <2>1, <2>2
  <1>5. bare \in SUBSET From
    BY DEF Without
  <1>6. Net(From, wip) = Sum(LenOf, bare) + Sum(miss, D) /\ Sum(LenOf, bare) \in Nat /\ Sum(miss, D) \in Nat
    BY <1>1, NetIs
  <1>7. loss \in [D -> Nat] /\ U \in [D -> SUBSET From]
    <2> HIDE DEF D
    <2>1. QED
      BY <1>2
  <1> HIDE DEF D, U, all, miss, loss, bare
  <1>8. Total(loss) = Sum(loss, D) /\ Sum(loss, D) \in Nat
    BY <1>1, <1>2, <1>7, TotalIsSum, SumIsNat
  <1>9. Sum(all, D) = Sum(miss, D) + Sum(loss, D)
    BY <1>1, <1>2, SumOfTwo
  <1>10. Sum(LenOf, From \ bare) = Sum(all, D)
    <2>1. IsFiniteSet(From) /\ \A b \in From : LenOf[b] \in Nat
      BY OrdersAreFinite
    <2>2. Sum(LenOf, UNION {U[w] : w \in D}) = Sum([w \in D |-> Sum(LenOf, U[w])], D)
      BY <1>1, <1>3, <1>7, <2>1, SumOfParts
    <2>3. QED
      BY <1>4, <2>2, Zenon DEF all
  <1>11. Sum(LenOf, From) = Sum(LenOf, bare) + Sum(LenOf, From \ bare)
    <2>1. From = bare \cup (From \ bare) /\ bare \cap (From \ bare) = {}
      BY <1>5
    <2>2. IsFiniteSet(bare) /\ IsFiniteSet(From \ bare) /\ \A b \in bare \cup (From \ bare) : LenOf[b] \in Nat
      BY <1>5, OrdersAreFinite
    <2>3. Sum(LenOf, bare \cup (From \ bare)) = Sum(LenOf, bare) + Sum(LenOf, From \ bare)
      BY <2>1, <2>2, SumOfTwoSets
    <2>4. QED
      BY <2>1, <2>3
  <1>12. QED
    BY <1>6, <1>8, <1>9, <1>10, <1>11 DEF D, loss

(* What Hand thinks the parts need is what they need afterwards, unless    *)
(* they have stock in common.                                              *)
LEMMA HandIsHonest ==
    ASSUME NEW From \in SUBSET Order, NEW To \in SUBSET Order, From \cap To = {},
           NEW wip, DOMAIN wip = From \cup To, \A b \in From \cup To : wip[b] \in Stock \cup {Nothing},
           \A b \in From : \A c \in To : wip[b] = wip[c] => wip[b] = Nothing
    PROVE  LET after == Hand(From, To, wip)
           IN  /\ after.lots = Lots(Net(To, after.wip)) + Lots(Net(From, after.wip))
               /\ DOMAIN after.wip = From \cup To
               /\ \A b \in From \cup To : after.wip[b] \in Stock \cup {Nothing}
  <1> DEFINE D     == Used(From, wip)
             free  == Without(To, wip)
             given == Given(From, To, wip)
             got   == UNION {given[w] : w \in D}
             new   == [b \in DOMAIN wip |->
                         IF \E w \in DOMAIN given : b \in given[w] THEN CHOOSE w \in DOMAIN given : b \in given[w]
                         ELSE IF b \in From THEN Nothing ELSE wip[b]]
             loss  == [w \in D |-> Min({SumLen(Users(From, wip, w)), StockLen[w]})]
             gain  == [w \in D |-> Min({SumLen(given[w]), StockLen[w]})]
             V     == Used(To, wip) \cup D
  <1>1. /\ D \in SUBSET Stock /\ free \in SUBSET To /\ given \in [D -> SUBSET free]
        /\ \A w \in D : SumLen(given[w]) <= StockLen[w]
        /\ \A v \in D : \A w \in D : v # w => given[v] \cap given[w] = {}
    BY TheDeal
  <1>2. DOMAIN given = D
    BY <1>1
  <1>3. Hand(From, To, wip) = [wip  |-> new,
                               lots |-> Lots(Positive(Net(To, wip) - Total(gain))) + Lots(Net(From, wip) + Total(loss))]
    <2>1. Hand(From, To, wip) =
            [wip  |-> new,
             lots |-> Lots(Positive(Net(To, wip) - Total([w \in DOMAIN given |-> Min({SumLen(given[w]), StockLen[w]})])))
                      + Lots(Net(From, wip) + Total([w \in DOMAIN given |-> Min({SumLen(Users(From, wip, w)), StockLen[w]})]))]
      BY Zenon DEF Hand
    <2> HIDE DEF new, given, D
    <2>2. QED
      BY <1>2, <2>1, Zenon
  <1>4. ASSUME NEW w \in D, NEW b \in given[w] PROVE new[b] = w
    <2>1. b \in To /\ b \in DOMAIN wip
      BY <1>1
    <2> DEFINE v == CHOOSE x \in DOMAIN given : b \in given[x]
    <2>2. v \in DOMAIN given /\ b \in given[v]
      <3> HIDE DEF given
      <3>1. QED
        BY <1>2
    <2>3. new[b] = v
      <3> HIDE DEF given
      <3>1. QED
        BY <1>2, <2>1
    <2> HIDE DEF v, new, given, D
    <2>4. QED
      BY <1>1, <1>2, <2>2, <2>3
  <1>5. ASSUME NEW b \in From \cup To, b \notin got PROVE new[b] = IF b \in From THEN Nothing ELSE wip[b]
    <2>1. ~ \E w \in DOMAIN given : b \in given[w]
      BY <1>2, <1>5
    <2> HIDE DEF given
    <2>2. QED
      BY <2>1
  <1>6. got \in SUBSET free
    BY <1>1
  <1>7. D \cap Used(To, wip) = {}
    BY DEF Used
  <1> HIDE DEF new, given
  <1>8. Net(From, new) = Sum(LenOf, From)
    <2>1. \A b \in From : new[b] = Nothing
      BY <1>1, <1>5, <1>6
    <2>2. Without(From, new) = From /\ Used(From, new) \subseteq {}
      BY <2>1 DEF Without, Used
    <2>3. {} \in SUBSET Stock
      OBVIOUS
    <2>4. /\ Net(From, new) = Sum(LenOf, Without(From, new)) + Sum([w \in {} |-> Short(From, new, w)], {})
          /\ Sum(LenOf, Without(From, new)) \in Nat
      BY <2>2, <2>3, NetIs
    <2>5. Sum([w \in {} |-> Short(From, new, w)], {}) = 0
      BY SumOfNone
    <2>6. QED
      BY <2>2, <2>4, <2>5
  <1>9. Net(From, wip) + Total(loss) = Sum(LenOf, From) /\ Total(loss) \in Nat
    BY HandingSideMakesMore
  <1>10. Total(gain) = Sum(LenOf, got) /\ Sum(LenOf, got) \in Nat
    <2>1. IsFiniteSet(D) /\ IsFiniteSet(free) /\ \A b \in free : LenOf[b] \in Nat
      <3>1. free \in SUBSET Order
        BY <1>1
      <3> HIDE DEF D, free
      <3>2. QED
        BY <1>1, <3>1, BatchGroupsAssumption, FS_Subset, OrdersAreFinite
    <2>2. \A w \in D : gain[w] = Sum(LenOf, given[w]) /\ gain[w] \in Nat
      <3>1. SUFFICES ASSUME NEW w \in D PROVE gain[w] = Sum(LenOf, given[w]) /\ gain[w] \in Nat
        OBVIOUS
      <3>2. /\ SumLen(given[w]) \in Nat /\ SumLen(given[w]) = Sum(LenOf, given[w]) /\ StockLen[w] \in Nat
            /\ SumLen(given[w]) <= StockLen[w]
        <4>1. given[w] \in SUBSET Order /\ w \in Stock
          BY <1>1
        <4>2. QED
          BY <1>1, <4>1, OrdersAreFinite, BatchGroupsAssumption
      <3>3. gain[w] = Min({SumLen(given[w]), StockLen[w]})
        OBVIOUS
      <3> HIDE DEF gain
      <3>4. QED
        BY <3>2, <3>3, LeastOfTwo
    <2>3. gain \in [D -> Nat]
      <3>1. gain = [w \in D |-> gain[w]]
        OBVIOUS
      <3> HIDE DEF gain, D
      <3>2. QED
        BY <2>2, <3>1
    <2> HIDE DEF D, free
    <2>4. Sum(LenOf, got) = Sum([w \in D |-> Sum(LenOf, given[w])], D)
      BY <1>1, <2>1, SumOfParts
    <2>5. Sum(gain, D) = Sum([w \in D |-> Sum(LenOf, given[w])], D)
      <3> HIDE DEF gain
      <3>1. QED
        BY <2>2, SumIsSame
    <2>6. Total(gain) = Sum(gain, D) /\ Sum(gain, D) \in Nat
      <3> HIDE DEF gain
      <3>1. QED
        BY <2>1, <2>2, <2>3, TotalIsSum, SumIsNat
    <2>7. QED
      BY <2>4, <2>5, <2>6
  <1>11. Net(To, new) = Net(To, wip) - Total(gain)
    <2>1. V \in SUBSET Stock /\ Used(To, wip) \subseteq V
      BY <1>1 DEF Used
    <2>2. \A b \in To : b \notin From
      OBVIOUS
    <2>3. Used(To, new) \subseteq V
      <3>1. ASSUME NEW b \in To, new[b] # Nothing PROVE new[b] \in V
        <4>1. CASE b \in got
          BY <1>4, <4>1
        <4>2. CASE b \notin got
          BY <1>5, <2>2, <3>1, <4>2 DEF Used
        <4>3. QED
          BY <4>1, <4>2
      <3> HIDE DEF V
      <3>2. QED
        BY <3>1 DEF Used
    <2>4. Without(To, new) = free \ got
      <3>1. ASSUME NEW b \in To PROVE new[b] = Nothing <=> b \in free \ got
        <4>1. CASE b \in got
          BY <1>1, <1>4, <4>1, BatchGroupsAssumption
        <4>2. CASE b \notin got
          BY <1>5, <2>2, <4>2 DEF Without
        <4>3. QED
          BY <4>1, <4>2
      <3>2. free \ got \in SUBSET To
        BY <1>1
      <3> HIDE DEF free, got
      <3>3. QED
        BY <3>1, <3>2 DEF Without
    <2>5. ASSUME NEW w \in V PROVE Short(To, new, w) = Short(To, wip, w)
      <3>1. CASE w \in D
        <4>1. Users(To, wip, w) = {}
          BY <1>7, <3>1, <2>1, BatchGroupsAssumption DEF Used, Users
        <4>2. Users(To, new, w) = given[w]
          <5>1. ASSUME NEW b \in To, new[b] = w PROVE b \in given[w]
            <6>1. CASE b \in got
              BY <1>4, <5>1, <6>1
            <6>2. CASE b \notin got
              <7>1. wip[b] = w
                BY <1>5, <2>2, <5>1, <6>2
              <7>2. QED
                BY <4>1, <7>1 DEF Users
            <6>3. QED
              BY <6>1, <6>2
          <5>2. \A b \in given[w] : b \in To /\ new[b] = w
            BY <1>1, <1>4, <3>1
          <5>3. QED
            BY <5>1, <5>2 DEF Users
        <4>3. SumLen(Users(To, new, w)) <= StockLen[w]
          BY <1>1, <3>1, <4>2
        <4>4. w \in Stock
          BY <1>1, <3>1
        <4>5. QED
          BY <4>1, <4>3, <4>4, ShortIsNat
      <3>2. CASE w \notin D
        <4>1. ASSUME NEW b \in To PROVE new[b] = w <=> wip[b] = w
          <5>1. CASE b \in got
            <6>1. new[b] \in D
              BY <1>4, <5>1
            <6>2. wip[b] = Nothing /\ w # Nothing
              BY <1>6, <2>1, <5>1, BatchGroupsAssumption DEF Without
            <6>3. QED
              BY <3>2, <6>1, <6>2
          <5>2. CASE b \notin got
            BY <1>5, <2>2, <5>2
          <5>3. QED
            BY <5>1, <5>2
        <4>2. Users(To, new, w) = Users(To, wip, w)
          BY <4>1 DEF Users
        <4>3. QED
          BY <4>2, Zenon DEF Short
      <3>3. QED
        BY <3>1, <3>2
    <2> DEFINE s == [w \in V |-> Short(To, wip, w)]
               t == [w \in V |-> Short(To, new, w)]
    <2>6. /\ Net(To, wip) = Sum(LenOf, free) + Sum(s, V) /\ Sum(LenOf, free) \in Nat /\ Sum(s, V) \in Nat
      <3> HIDE DEF V
      <3>1. QED
        BY <2>1, NetIs
    <2>7. /\ Net(To, new) = Sum(LenOf, free \ got) + Sum(t, V)
          /\ Sum(LenOf, free \ got) \in Nat /\ Sum(t, V) \in Nat
      <3> HIDE DEF V, free, got
      <3>1. /\ Net(To, new) = Sum(LenOf, Without(To, new)) + Sum(t, V)
            /\ Sum(LenOf, Without(To, new)) \in Nat /\ Sum(t, V) \in Nat
        BY <2>1, <2>3, NetIs
      <3> HIDE DEF t
      <3>2. QED
        BY <2>4, <3>1, Zenon
    <2>8. Sum(t, V) = Sum(s, V)
      <3>1. \A w \in V : t[w] = s[w]
        <4> HIDE DEF V
        <4>1. QED
          BY <2>5
      <3> HIDE DEF s, t, V
      <3>2. QED
        BY <3>1, SumIsSame
    <2>9. Sum(LenOf, free) = Sum(LenOf, free \ got) + Sum(LenOf, got)
      <3>1. free = (free \ got) \cup got /\ (free \ got) \cap got = {} /\ free \in SUBSET Order
        BY <1>1, <1>6
      <3> HIDE DEF free, got
      <3>2. /\ IsFiniteSet(free \ got) /\ IsFiniteSet(got)
            /\ \A b \in (free \ got) \cup got : LenOf[b] \in Nat
        BY <3>1, OrdersAreFinite
      <3>3. Sum(LenOf, (free \ got) \cup got) = Sum(LenOf, free \ got) + Sum(LenOf, got)
        BY <3>1, <3>2, SumOfTwoSets
      <3>4. QED
        BY <3>1, <3>3
    <2> HIDE DEF s, t, V, free, got, gain
    <2>10. QED
      BY <1>10, <2>6, <2>7, <2>8, <2>9
  <1>12. Positive(Net(To, wip) - Total(gain)) = Net(To, new)
    <2>1. Net(To, new) \in Nat
      <3>1. Stock \in SUBSET Stock /\ Used(To, new) \subseteq Stock
        <4>1. ASSUME NEW b \in To, new[b] # Nothing PROVE new[b] \in Stock
          <5>1. CASE b \in got
            BY <1>1, <1>4, <5>1
          <5>2. CASE b \notin got
            BY <1>5, <4>1, <5>2
          <5>3. QED
            BY <5>1, <5>2
        <4>2. QED
          BY <4>1 DEF Used
      <3>2. QED
        BY <3>1, NetIs
    <2> HIDE DEF gain
    <2>2. QED
      BY <1>11, <2>1 DEF Positive
  <1>13. \A b \in From \cup To : new[b] \in Stock \cup {Nothing}
    <2>1. SUFFICES ASSUME NEW b \in From \cup To PROVE new[b] \in Stock \cup {Nothing}
      OBVIOUS
    <2>2. CASE b \in got
      BY <1>1, <1>4, <2>2
    <2>3. CASE b \notin got
      BY <1>5, <2>3
    <2>4. QED
      BY <2>2, <2>3
  <1>14. DOMAIN new = From \cup To
    BY DEF new
  <1> HIDE DEF gain, loss
  <1>15. /\ Hand(From, To, wip).wip = new
         /\ Hand(From, To, wip).lots = Lots(Positive(Net(To, wip) - Total(gain))) + Lots(Net(From, wip) + Total(loss))
    BY <1>3
  <1>16. Hand(From, To, wip).lots = Lots(Net(To, new)) + Lots(Net(From, new))
    <2>1. Net(From, wip) + Total(loss) = Net(From, new)
      BY <1>8, <1>9
    <2>2. QED
      BY <1>12, <1>15, <2>1, Zenon
  <1>17. QED
    BY <1>13, <1>14, <1>15, <1>16, Zenon

LEMMA LotsIsInt ==
    ASSUME NEW n \in Nat
    PROVE  Lots(n) \in Int
  BY BatchGroupsAssumption DEF Lots

(* The comparison of the three ways to hand over the stock is a comparison *)
(* of what they come to.                                                   *)
LEMMA RematchDoesNotCost ==
    ASSUME NEW off \in SUBSET Order, NEW rest \in SUBSET Order, off \cap rest = {},
           NEW wip, DOMAIN wip = off \cup rest, \A b \in off \cup rest : wip[b] \in Stock \cup {Nothing},
           \A b \in off : \A c \in rest : wip[b] = wip[c] => wip[b] = Nothing
    PROVE  LET after == Rematch(off, rest, wip)
               lots(w) == Lots(Net(off, w)) + Lots(Net(rest, w))
           IN  lots(after) <= lots(wip)
  <1> DEFINE now == Lots(Net(off, wip)) + Lots(Net(rest, wip))
             a   == Hand(rest, off, wip)
             b   == Hand(off, rest, wip)
  <1>1. a.lots = Lots(Net(off, a.wip)) + Lots(Net(rest, a.wip)) /\ DOMAIN a.wip = off \cup rest
        /\ \A o \in off \cup rest : a.wip[o] \in Stock \cup {Nothing}
    <2>1. rest \cap off = {} /\ DOMAIN wip = rest \cup off /\ rest \cup off = off \cup rest
      OBVIOUS
    <2>2. \A o \in rest : \A c \in off : wip[o] = wip[c] => wip[o] = Nothing
      OBVIOUS
    <2>3. \A o \in rest \cup off : wip[o] \in Stock \cup {Nothing}
      OBVIOUS
    <2> HIDE DEF a
    <2>4. QED
      BY <2>1, <2>2, <2>3, HandIsHonest DEF a
  <1>2. b.lots = Lots(Net(rest, b.wip)) + Lots(Net(off, b.wip)) /\ DOMAIN b.wip = off \cup rest
        /\ \A o \in off \cup rest : b.wip[o] \in Stock \cup {Nothing}
    BY HandIsHonest
  <1>3. ASSUME NEW w, \A o \in off \cup rest : w[o] \in Stock \cup {Nothing}
        PROVE  Lots(Net(off, w)) \in Int /\ Lots(Net(rest, w)) \in Int
    <2>1. Stock \in SUBSET Stock /\ Used(off, w) \subseteq Stock /\ Used(rest, w) \subseteq Stock
      BY <1>3 DEF Used
    <2>2. QED
      BY <2>1, NetIs, LotsIsInt
  <1>4. /\ Lots(Net(off, wip)) \in Int /\ Lots(Net(rest, wip)) \in Int
        /\ Lots(Net(off, a.wip)) \in Int /\ Lots(Net(rest, a.wip)) \in Int
        /\ Lots(Net(off, b.wip)) \in Int /\ Lots(Net(rest, b.wip)) \in Int
    <2> HIDE DEF a, b
    <2>1. QED
      BY <1>1, <1>2, <1>3
  <1>5. Rematch(off, rest, wip) = IF a.lots < now /\ a.lots <= b.lots THEN a.wip
                                  ELSE IF b.lots < now /\ b.lots < a.lots THEN b.wip
                                  ELSE wip
    BY Zenon DEF Rematch
  <1> HIDE DEF a, b
  <1>6. CASE a.lots < now /\ a.lots <= b.lots
    <2>1. Rematch(off, rest, wip) = a.wip
      BY <1>5, <1>6
    <2>2. Lots(Net(off, a.wip)) + Lots(Net(rest, a.wip)) <= now
      BY <1>1, <1>4, <1>6
    <2>3. QED
      BY <1>1, <2>1, <2>2, Zenon
  <1>7. CASE ~(a.lots < now /\ a.lots <= b.lots) /\ b.lots < now /\ b.lots < a.lots
    <2>1. Rematch(off, rest, wip) = b.wip
      BY <1>5, <1>7
    <2>2. Lots(Net(off, b.wip)) + Lots(Net(rest, b.wip)) <= now
      BY <1>2, <1>4, <1>7
    <2>3. QED
      BY <1>2, <2>1, <2>2, Zenon
  <1>8. CASE ~(a.lots < now /\ a.lots <= b.lots) /\ ~(b.lots < now /\ b.lots < a.lots)
    <2>1. Rematch(off, rest, wip) = wip
      BY <1>5, <1>8
    <2>2. now <= now
      BY <1>4
    <2>3. QED
      BY <2>1, <2>2, Zenon
  <1>9. QED
    BY <1>6, <1>7, <1>8

-----------------------------------------------------------------------------
(* Types, and what a split costs *)

RowsTyped == Rows \subseteq Batch /\ row \in [Rows -> Row]

LEMMA RowsAreTyped ==
    ASSUME RowsTyped, NEW b \in Rows
    PROVE  /\ row[b] \in Row /\ row[b].group \in Groups /\ row[b].status \in Statuses
           /\ row[b].wip \in Stock \cup {Nothing} /\ row[b].lots \in Nat
  BY DEF RowsTyped, Row

LEMMA TypedRowsHaveShape ==
    ASSUME RowsTyped
    PROVE  RowsHaveShape
  <1>1. \A b \in Rows : RowShape(row[b])
    BY DEF RowsTyped, RowShape, Row
  <1>2. row = [b \in Rows |-> row[b]]
    BY DEF RowsTyped
  <1>3. QED
    BY <1>1, <1>2 DEF RowsHaveShape, RowsTyped

LEMMA StatusesStayTyped ==
    ASSUME RowsTyped, NEW B, NEW s \in Statuses, row' = WithStatus(B, s)
    PROVE  RowsTyped'
  <1>1. Rows' = Rows /\ row' = [b \in Rows |-> IF b \in B THEN [row[b] EXCEPT !.status = s] ELSE row[b]]
    BY DEF WithStatus, Rows
  <1>2. ASSUME NEW b \in Rows PROVE row[b] \in Row /\ [row[b] EXCEPT !.status = s] \in Row
    BY DEF RowsTyped, Row
  <1>3. QED
    BY <1>1, <1>2 DEF RowsTyped

(* Whatever is handed over, orders have stock or none.                     *)
LEMMA HandsOutStock ==
    ASSUME NEW From \in SUBSET Order, NEW To \in SUBSET Order,
           NEW wip, DOMAIN wip = From \cup To, \A b \in From \cup To : wip[b] \in Stock \cup {Nothing}
    PROVE  Hand(From, To, wip).wip \in [From \cup To -> Stock \cup {Nothing}]
  <1> DEFINE D     == Used(From, wip)
             given == Given(From, To, wip)
             new   == [b \in DOMAIN wip |->
                         IF \E w \in DOMAIN given : b \in given[w] THEN CHOOSE w \in DOMAIN given : b \in given[w]
                         ELSE IF b \in From THEN Nothing ELSE wip[b]]
  <1>1. D \in SUBSET Stock /\ given \in [D -> SUBSET Without(To, wip)]
    BY TheDeal
  <1>2. DOMAIN given \subseteq Stock
    BY <1>1
  <1>3. Hand(From, To, wip).wip = new
    BY DEF Hand
  <1> HIDE DEF given, D
  <1>4. ASSUME NEW b \in From \cup To PROVE new[b] \in Stock \cup {Nothing}
    <2>1. CASE \E w \in DOMAIN given : b \in given[w]
      BY <1>2, <2>1
    <2>2. CASE ~ \E w \in DOMAIN given : b \in given[w]
      BY <2>2
    <2>3. QED
      BY <2>1, <2>2
  <1>5. new \in [From \cup To -> Stock \cup {Nothing}]
    <2>1. new = [b \in From \cup To |-> new[b]]
      OBVIOUS
    <2> HIDE DEF new
    <2>2. QED
      BY <1>4, <2>1
  <1>6. QED
    BY <1>3, <1>5, Zenon

LEMMA RematchHandsOutStock ==
    ASSUME NEW off \in SUBSET Order, NEW rest \in SUBSET Order, NEW wip \in [off \cup rest -> Stock \cup {Nothing}]
    PROVE  Rematch(off, rest, wip) \in [off \cup rest -> Stock \cup {Nothing}]
  <1>1. DOMAIN wip = off \cup rest /\ \A b \in off \cup rest : wip[b] \in Stock \cup {Nothing}
    OBVIOUS
  <1>2. Hand(off, rest, wip).wip \in [off \cup rest -> Stock \cup {Nothing}]
    BY <1>1, HandsOutStock
  <1>3. Hand(rest, off, wip).wip \in [off \cup rest -> Stock \cup {Nothing}]
    <2>1. rest \cup off = off \cup rest
      OBVIOUS
    <2>2. DOMAIN wip = rest \cup off /\ \A b \in rest \cup off : wip[b] \in Stock \cup {Nothing}
      BY <1>1, <2>1
    <2>3. Hand(rest, off, wip).wip \in [rest \cup off -> Stock \cup {Nothing}]
      BY <2>2, HandsOutStock
    <2>4. QED
      BY <2>1, <2>3, Zenon
  <1>4. \/ Rematch(off, rest, wip) = Hand(rest, off, wip).wip
        \/ Rematch(off, rest, wip) = Hand(off, rest, wip).wip
        \/ Rematch(off, rest, wip) = wip
    BY DEF Rematch
  <1>5. QED
    BY <1>2, <1>3, <1>4, Zenon

LEMMA LotsAreNat ==
    ASSUME NEW B \in SUBSET Order, NEW wip, \A b \in B : wip[b] \in Stock \cup {Nothing}
    PROVE  Net(B, wip) \in Nat /\ Lots(Net(B, wip)) \in Nat
  <1>1. Stock \in SUBSET Stock /\ Used(B, wip) \subseteq Stock
    BY DEF Used
  <1>2. Net(B, wip) \in Nat
    BY <1>1, NetIs
  <1>3. ASSUME NEW n \in Nat PROVE Lots(n) \in Nat
    <2>1. LotSize \in Nat /\ LotSize > 0
      BY BatchGroupsAssumption
    <2>2. n + LotSize - 1 \in Nat
      BY <2>1
    <2>3. (n + LotSize - 1) \div LotSize \in Nat
      BY <2>1, <2>2
    <2>4. QED
      BY <2>3 DEF Lots
  <1>4. QED
    BY <1>2, <1>3

(* The rows after a split of a group with a header.                        *)
LEMMA DividedRows ==
    ASSUME RowsTyped, NEW g \in Groups, NEW new \in Groups \ {g}, NEW B \in SUBSET OrdersOf(g),
           NEW h \in HeadersOf(g), NEW n \in Header \ Rows,
           NEW wip, \A b \in OrdersOf(g) : wip[b] \in Stock \cup {Nothing},
           row' = Divided(g, B, new, h, n, wip)
    PROVE  /\ RowsTyped'
           /\ \A b \in OrdersOf(g) : row'[b].wip = wip[b] /\ (row'[b].group = new <=> b \in B)
  <1> DEFINE rest == OrdersOf(g) \ B
             becomes(b) ==
                CASE b = n -> [group |-> new, status |-> "planned", wip |-> Nothing, lots |-> Lots(Net(B, wip))]
                  [] b = h -> [row[h] EXCEPT !.lots = Lots(Net(rest, wip)),
                                             !.status = IF Net(rest, wip) = 0 THEN "wip_complete" ELSE @]
                  [] b \in B    -> [row[b] EXCEPT !.group = new, !.wip = wip[b]]
                  [] b \in rest -> [row[b] EXCEPT !.wip = wip[b]]
                  [] OTHER      -> row[b]
  <1>1. /\ OrdersOf(g) \in SUBSET Order /\ OrdersOf(g) \subseteq Rows /\ B \in SUBSET Order /\ rest \in SUBSET Order
        /\ h \in Rows /\ h \notin Order /\ n \notin Order /\ n \in Batch /\ n \notin Rows /\ n # h
        /\ \A b \in OrdersOf(g) : row[b].group = g
    BY BatchGroupsAssumption DEF OrdersOf, HeadersOf, RowsOf, Batch
  <1>2. Lots(Net(B, wip)) \in Nat /\ Lots(Net(rest, wip)) \in Nat
    BY <1>1, LotsAreNat
  <1>3. row' = [b \in Rows \cup {n} |-> becomes(b)]
    BY Zenon DEF Divided
  <1>4. Rows' = Rows \cup {n} /\ \A b \in Rows \cup {n} : row'[b] = becomes(b)
    <2> HIDE DEF becomes
    <2>1. QED
      BY <1>3 DEF Rows
  <1>5. row'[n] \in Row
    <2>1. row'[n] = [group |-> new, status |-> "planned", wip |-> Nothing, lots |-> Lots(Net(B, wip))]
      BY <1>1, <1>4
    <2>2. QED
      BY <1>2, <2>1 DEF Row, Statuses
  <1>6. ASSUME NEW b \in Rows, b = h PROVE row'[b] \in Row
    <2>1. row'[b] = [row[h] EXCEPT !.lots = Lots(Net(rest, wip)),
                                   !.status = IF Net(rest, wip) = 0 THEN "wip_complete" ELSE @]
      BY <1>1, <1>4, <1>6
    <2>2. row[h] \in Row
      BY <1>1, RowsAreTyped
    <2> HIDE DEF rest
    <2>3. QED
      BY <1>2, <2>1, <2>2 DEF Row, Statuses
  <1>7. ASSUME NEW b \in B PROVE row'[b] \in Row /\ row'[b].wip = wip[b] /\ row'[b].group = new
    <2>1. b \in Rows /\ b # n /\ b # h /\ row[b] \in Row /\ b \in OrdersOf(g)
      BY <1>1, RowsAreTyped
    <2>2. row'[b] = [row[b] EXCEPT !.group = new, !.wip = wip[b]]
      BY <1>4, <2>1
    <2>3. QED
      BY <2>1, <2>2 DEF Row
  <1>8. ASSUME NEW b \in rest PROVE row'[b] \in Row /\ row'[b].wip = wip[b] /\ row'[b].group = g
    <2>1. b \in Rows /\ b # n /\ b # h /\ row[b] \in Row /\ b \in OrdersOf(g) /\ b \notin B /\ row[b].group = g
      BY <1>1, RowsAreTyped
    <2>2. row'[b] = [row[b] EXCEPT !.wip = wip[b]]
      BY <1>4, <2>1
    <2>3. QED
      BY <2>1, <2>2 DEF Row
  <1>9. ASSUME NEW b \in Rows, b # h, b \notin B, b \notin rest PROVE row'[b] \in Row
    <2>1. row'[b] = row[b]
      BY <1>1, <1>4, <1>9
    <2>2. QED
      BY <2>1, RowsAreTyped
  <1> HIDE DEF becomes
  <1>10. \A b \in Rows \cup {n} : row'[b] \in Row
    BY <1>5, <1>6, <1>7, <1>8, <1>9
  <1>11. RowsTyped'
    <2>1. row' = [b \in Rows' |-> row'[b]]
      BY <1>3, <1>4
    <2>2. Rows' \subseteq Batch
      BY <1>1, <1>4 DEF RowsTyped
    <2>3. QED
      BY <1>4, <1>10, <2>1, <2>2 DEF RowsTyped
  <1>12. QED
    BY <1>7, <1>8, <1>11

LEMMA SplitIsTyped ==
    ASSUME RowsTyped, NEW g \in Groups, NEW new \in Suffixed[g], NEW B \in SUBSET Order, Split(g, B, new)
    PROVE  RowsTyped'
  <1>1. new \in Groups \ {g} /\ B \in SUBSET OrdersOf(g)
    BY BatchGroupsAssumption DEF Split
  <1>2. CASE HeadersOf(g) = {} /\ row' = [b \in Rows |-> IF b \in B THEN [row[b] EXCEPT !.group = new] ELSE row[b]]
    <2>1. Rows' = Rows
      BY <1>2 DEF Rows
    <2>2. ASSUME NEW b \in Rows PROVE row[b] \in Row /\ [row[b] EXCEPT !.group = new] \in Row
      BY <1>1 DEF RowsTyped, Row
    <2>3. QED
      BY <1>2, <2>1, <2>2 DEF RowsTyped
  <1>3. ASSUME NEW h \in HeadersOf(g), NEW n \in Header \ Rows,
               row' = Divided(g, B, new, h, n, Rematch(B, OrdersOf(g) \ B, WipOf(g)))
        PROVE  RowsTyped'
    <2> DEFINE after == Rematch(B, OrdersOf(g) \ B, WipOf(g))
    <2>1. \A b \in OrdersOf(g) : after[b] \in Stock \cup {Nothing}
      <3>1. OrdersOf(g) \in SUBSET Order /\ B \in SUBSET Order /\ B \cup (OrdersOf(g) \ B) = OrdersOf(g)
        BY <1>1 DEF OrdersOf
      <3>2. WipOf(g) \in [OrdersOf(g) -> Stock \cup {Nothing}]
        BY RowsAreTyped DEF WipOf, OrdersOf, RowsOf
      <3>3. after \in [B \cup (OrdersOf(g) \ B) -> Stock \cup {Nothing}]
        BY <3>1, <3>2, RematchHandsOutStock
      <3> HIDE DEF after
      <3>4. QED
        BY <3>1, <3>3
    <2> HIDE DEF after
    <2>2. row' = Divided(g, B, new, h, n, after)
      BY <1>3 DEF after
    <2>3. QED
      BY <1>1, <2>1, <2>2, DividedRows
  <1>4. QED
    BY <1>2, <1>3 DEF Split

LEMMA RowsStayTyped ==
    ASSUME RowsTyped, [Next]_vars
    PROVE  RowsTyped'
  <1>1. ASSUME NEW B, NEW s \in Statuses, row' = WithStatus(B, s) PROVE RowsTyped'
    BY <1>1, StatusesStayTyped
  <1>2. "planned" \in Statuses /\ "scheduled" \in Statuses /\ "unassigned" \in Statuses /\ NewStatuses \subseteq Statuses
    BY BatchGroupsAssumption DEF Statuses
  <1>3. ASSUME NEW g \in Groups, Unassign(g) \/ Restore(g) PROVE RowsTyped'
    BY <1>1, <1>2, <1>3 DEF Unassign, Restore
  <1>4. ASSUME NEW g \in Groups, NEW new \in Suffixed[g], NEW B \in SUBSET Order, Split(g, B, new)
        PROVE  RowsTyped'
    BY <1>4, SplitIsTyped
  <1>5. ASSUME NEW s \in NewStatuses,
               \/ \E b \in Batch : UpdateBatchStatus(b, s) \/ UpdateBatch(b, s)
               \/ \E g \in Groups : UpdateBatchGroupStatus(g, s)
        PROVE  RowsTyped'
    <2>1. \E B : row' = WithStatus(B, s)
      BY <1>5 DEF UpdateBatchStatus, UpdateBatch, UpdateBatchGroupStatus, SetStatus
    <2>2. QED
      BY <1>1, <1>2, <2>1
  <1>6. ASSUME NEW p \in Places, (\E t \in task : Move(t, p)) \/ (\E g \in Groups : RestoreAt(g, p))
        PROVE  RowsTyped'
    <2>1. row' = row
      BY <1>6 DEF Move, RestoreAt
    <2>2. QED
      BY <2>1 DEF RowsTyped, Rows
  <1>7. ASSUME NEW placing \in [PlannedGroups -> Places], Stage2(placing) PROVE RowsTyped'
    BY <1>1, <1>2, <1>7 DEF Stage2
  <1>8. CASE UNCHANGED vars
    BY <1>8 DEF vars, RowsTyped, Rows
  <1>9. QED
    BY <1>3, <1>4, <1>5, <1>6, <1>7, <1>8 DEF Next

(* A step by which orders of a group come to be in a part split off it is  *)
(* the split.                                                              *)
LEMMA OnlySplitsSplit ==
    ASSUME RowsTyped, [Next]_vars, NEW g \in Groups, NEW new \in Suffixed[g], SplitOff(g, new) # {}
    PROVE  \E B \in SUBSET Order : Split(g, B, new)
  <1>1. PICK b \in OrdersOf(g) : row'[b].group = new
    BY DEF SplitOff
  <1>2. b \in Rows /\ row[b].group = g /\ new # g /\ row[b] \in Row
    BY RowsAreTyped, BatchGroupsAssumption DEF OrdersOf, RowsOf
  <1>3. row'[b].group # row[b].group
    BY <1>1, <1>2
  <1>4. \A B, s : row' # WithStatus(B, s)
    <2>1. SUFFICES ASSUME NEW B, NEW s, row' = WithStatus(B, s) PROVE FALSE
      OBVIOUS
    <2>2. row'[b] = IF b \in B THEN [row[b] EXCEPT !.status = s] ELSE row[b]
      BY <1>2, <2>1 DEF WithStatus
    <2>3. row'[b].group = row[b].group
      BY <1>2, <2>2 DEF Row
    <2>4. QED
      BY <1>3, <2>3
  <1>5. row' # row
    BY <1>3
  <1>6. ASSUME NEW f \in Groups, NEW into \in Suffixed[f], NEW B \in SUBSET Order, Split(f, B, into)
        PROVE  f = g /\ into = new
    <2>1. SplitRows(f, into)
      BY <1>6, TypedRowsHaveShape, SplitRowsHaveShape
    <2>2. f = g
      BY <1>2, <1>3, <2>1 DEF SplitRows
    <2>3. row'[b].group \in {f, into}
      BY <1>2, <2>1, <2>2 DEF SplitRows
    <2>4. QED
      BY <1>1, <1>2, <2>2, <2>3
  <1>7. ~ \E s \in NewStatuses : \/ \E c \in Batch : UpdateBatchStatus(c, s) \/ UpdateBatch(c, s)
                                \/ \E f \in Groups : UpdateBatchGroupStatus(f, s)
    BY <1>4 DEF UpdateBatchStatus, UpdateBatch, UpdateBatchGroupStatus, SetStatus
  <1>8. ~ \E p \in Places : (\E t \in task : Move(t, p)) \/ (\E f \in Groups : RestoreAt(f, p))
    BY <1>5 DEF Move, RestoreAt
  <1>9. ~ \E f \in Groups : Unassign(f) \/ Restore(f)
    BY <1>4 DEF Unassign, Restore
  <1>10. ~ \E placing \in [PlannedGroups -> Places] : Stage2(placing)
    BY <1>4 DEF Stage2
  <1>11. \E f \in Groups : \E into \in Suffixed[f], B \in SUBSET Order : Split(f, B, into)
    BY <1>5, <1>7, <1>8, <1>9, <1>10 DEF Next, vars
  <1>12. QED
    BY <1>6, <1>11

(* Handing the stock over never costs a lot (split_batch_group): for any   *)
(* number of orders, any stock, lengths and size of lots, whoever had the  *)
(* stock before, as long as the two parts did not share it.                *)
THEOREM RematchIsFree == Spec => RematchNeverCosts
  <1>1. ASSUME RowsTyped, [Next]_vars, NEW g \in Groups, NEW new \in Suffixed[g],
               HeadersOf(g) # {}, SplitOff(g, new) # {}, ~SharedBefore(g, new)
        PROVE  LotsOfParts(g, new, NewWipOf(g)) <= LotsOfParts(g, new, WipOf(g))
    <2>1. PICK B \in SUBSET Order : Split(g, B, new)
      BY <1>1, OnlySplitsSplit
    <2> DEFINE rest  == OrdersOf(g) \ B
               wip   == WipOf(g)
               after == Rematch(B, rest, wip)
    <2>2. /\ new \in Groups \ {g} /\ B \in SUBSET OrdersOf(g) /\ rest \in SUBSET Order /\ B \cap rest = {}
          /\ B \cup rest = OrdersOf(g)
      BY <2>1, BatchGroupsAssumption DEF Split, OrdersOf
    <2>3. DOMAIN wip = OrdersOf(g) /\ \A b \in OrdersOf(g) : wip[b] = row[b].wip
      BY DEF WipOf
    <2>4. wip \in [OrdersOf(g) -> Stock \cup {Nothing}]
      BY <1>1, RowsAreTyped DEF WipOf, OrdersOf, RowsOf
    <2>5. PICK h \in HeadersOf(g), n \in Header \ Rows : row' = Divided(g, B, new, h, n, after)
      BY <1>1, <2>1 DEF Split
    <2> HIDE DEF rest, wip, after
    <2>6. after \in [OrdersOf(g) -> Stock \cup {Nothing}]
      BY <2>2, <2>4, RematchHandsOutStock DEF after
    <2>7. \A b \in OrdersOf(g) : row'[b].wip = after[b] /\ (row'[b].group = new <=> b \in B)
      BY <1>1, <2>2, <2>5, <2>6, DividedRows
    <2>8. SplitOff(g, new) = B /\ OrdersOf(g) \ SplitOff(g, new) = rest
      BY <2>2, <2>7 DEF SplitOff, rest
    <2>9. \A b \in B : \A c \in rest : wip[b] = wip[c] => wip[b] = Nothing
      BY <1>1, <2>2, <2>3, <2>8 DEF SharedBefore
    <2>10. Lots(Net(B, after)) + Lots(Net(rest, after)) <= Lots(Net(B, wip)) + Lots(Net(rest, wip))
      BY <2>2, <2>3, <2>4, <2>9, RematchDoesNotCost DEF after
    <2>11. NewWipOf(g) = after
      BY <2>6, <2>7 DEF NewWipOf
    <2>12. QED
      BY <2>8, <2>10, <2>11, Zenon DEF LotsOfParts, wip
  <1>2. Init => RowsTyped
    BY BatchGroupsAssumption DEF Init, RowsTyped, Rows
  <1>3. RowsTyped /\ [Next]_vars => RowsTyped'
    BY RowsStayTyped
  <1>4. RowsTyped /\ [Next]_vars =>
          [\A g \in Groups : \A new \in Suffixed[g] :
             HeadersOf(g) # {} /\ SplitOff(g, new) # {} /\ ~SharedBefore(g, new) =>
                LotsOfParts(g, new, NewWipOf(g)) <= LotsOfParts(g, new, WipOf(g))]_vars
    BY <1>1
  <1>5. QED
    BY <1>2, <1>3, <1>4, PTL DEF Spec, RematchNeverCosts

-----------------------------------------------------------------------------
(* Enough is made *)

(* Term by term less is less in sum.                                       *)
LEMMA SumIsLess ==
    ASSUME NEW S, IsFiniteSet(S), NEW f, NEW g,
           \A x \in S : f[x] \in Nat /\ g[x] \in Nat /\ f[x] <= g[x]
    PROVE  Sum(f, S) <= Sum(g, S)
  <1> DEFINE d == [x \in S |-> g[x] - f[x]]
  <1>1. \A x \in S : f[x] \in Nat /\ d[x] \in Nat /\ g[x] = f[x] + d[x]
    OBVIOUS
  <1> HIDE DEF d
  <1>2. Sum(g, S) = Sum(f, S) + Sum(d, S)
    BY <1>1, SumOfTwo
  <1>3. Sum(f, S) \in Nat /\ Sum(d, S) \in Nat
    BY <1>1, SumIsNat
  <1>4. QED
    BY <1>2, <1>3

(* The lots of a header are enough for what they are made for.             *)
LEMMA LotsSuffice ==
    ASSUME NEW n \in Nat
    PROVE  Lots(n) \in Nat /\ n <= Lots(n) * LotSize /\ Lots(n) * LotSize \in Nat
  <1>1. LotSize \in Nat /\ LotSize > 0
    BY BatchGroupsAssumption
  <1>2. CASE n = 0
    <2>1. Lots(n) = 0
      BY <1>2 DEF Lots
    <2>2. QED
      BY <1>1, <1>2, <2>1
  <1>3. CASE n > 0
    <2> DEFINE m == n + LotSize - 1
               q == m \div LotSize
    <2>1. m \in Nat /\ Lots(n) = q
      BY <1>1, <1>3 DEF Lots
    <2>2. q \in Nat /\ m % LotSize \in 0 .. LotSize - 1 /\ m = q * LotSize + (m % LotSize)
      <3> HIDE DEF m
      <3>1. QED
        BY <1>1, <2>1
    <2>3. q * LotSize \in Nat
      <3> HIDE DEF q
      <3>1. QED
        BY <1>1, <2>2
    <2>4. QED
      <3> DEFINE p == q * LotSize
      <3>1. m = p + (m % LotSize) /\ p \in Nat /\ m = n + LotSize - 1
        BY <2>2, <2>3
      <3>2. m % LotSize <= LotSize - 1 /\ m % LotSize \in Int
        BY <1>1, <2>2
      <3>3. n <= p
        <4> HIDE DEF p, m, q
        <4>1. QED
          BY <1>1, <3>1, <3>2
      <3>4. QED
        BY <2>1, <2>2, <2>3, <3>3
  <1>4. QED
    BY <1>2, <1>3

(* What orders need does not depend on the stock of others.                *)
LEMMA NetIsSame ==
    ASSUME NEW B, NEW wip, NEW other, \A b \in B : wip[b] = other[b]
    PROVE  Net(B, wip) = Net(B, other) /\ Used(B, wip) = Used(B, other)
  <1>1. Without(B, wip) = Without(B, other) /\ Used(B, wip) = Used(B, other)
    BY DEF Without, Used
  <1>2. \A w : Users(B, wip, w) = Users(B, other, w)
    BY DEF Users
  <1>3. [w \in Used(B, wip) |-> Positive(SumLen(Users(B, wip, w)) - StockLen[w])] =
        [w \in Used(B, other) |-> Positive(SumLen(Users(B, other, w)) - StockLen[w])]
    BY <1>1, <1>2, Zenon
  <1>4. QED
    BY <1>1, <1>3, Zenon DEF Net

(* Together, orders need at most what they need apart, if they share no    *)
(* stock: stock that both have is counted twice when they are apart.       *)
LEMMA NetOfBoth ==
    ASSUME NEW A \in SUBSET Order, NEW B \in SUBSET Order, A \cap B = {},
           NEW wip, \A b \in A \cup B : wip[b] \in Stock \cup {Nothing},
           \A a \in A : \A b \in B : wip[a] = wip[b] => wip[a] = Nothing
    PROVE  Net(A \cup B, wip) <= Net(A, wip) + Net(B, wip)
  <1> DEFINE sA == [w \in Stock |-> Short(A, wip, w)]
             sB == [w \in Stock |-> Short(B, wip, w)]
             s  == [w \in Stock |-> Short(A \cup B, wip, w)]
             t  == [w \in Stock |-> sA[w] + sB[w]]
  <1>1. /\ Stock \in SUBSET Stock /\ A \cup B \in SUBSET Order /\ IsFiniteSet(Stock)
        /\ Used(A, wip) \subseteq Stock /\ Used(B, wip) \subseteq Stock /\ Used(A \cup B, wip) \subseteq Stock
    BY BatchGroupsAssumption DEF Used
  <1>2. ASSUME NEW w \in Stock
        PROVE  sA[w] \in Nat /\ sB[w] \in Nat /\ s[w] \in Nat /\ s[w] <= sA[w] + sB[w]
    <2> DEFINE UA == Users(A, wip, w)
               UB == Users(B, wip, w)
    <2>1. /\ UA \in SUBSET Order /\ UB \in SUBSET Order /\ UA \cap UB = {}
          /\ Users(A \cup B, wip, w) = UA \cup UB
      BY DEF Users
    <2> HIDE DEF UA, UB
    <2>2. UA = {} \/ UB = {}
      <3>1. w # Nothing
        BY BatchGroupsAssumption
      <3>2. \A a \in UA : \A b \in UB : FALSE
        BY <3>1 DEF UA, UB, Users
      <3>3. QED
        BY <3>2
    <2>3. Users(A \cup B, wip, w) = Users(A, wip, w) \/ Users(A \cup B, wip, w) = Users(B, wip, w)
      BY <2>1, <2>2 DEF UA, UB
    <2>4. s[w] = sA[w] \/ s[w] = sB[w]
      BY <2>3 DEF Short
    <2>5. sA[w] \in Nat /\ sB[w] \in Nat /\ s[w] \in Nat
      BY <1>1, ShortIsNat
    <2> HIDE DEF sA, sB, s
    <2>6. QED
      BY <2>4, <2>5
  <1>3. ASSUME NEW X \in SUBSET Order, Used(X, wip) \subseteq Stock
        PROVE  /\ Net(X, wip) = Sum(LenOf, Without(X, wip)) + Sum([w \in Stock |-> Short(X, wip, w)], Stock)
               /\ Sum(LenOf, Without(X, wip)) \in Nat /\ Sum([w \in Stock |-> Short(X, wip, w)], Stock) \in Nat
    <2>1. Stock \in SUBSET Stock
      OBVIOUS
    <2>2. QED
      BY <1>3, <2>1, NetIs
  <1>4. /\ Net(A, wip) = Sum(LenOf, Without(A, wip)) + Sum(sA, Stock)
        /\ Sum(LenOf, Without(A, wip)) \in Nat /\ Sum(sA, Stock) \in Nat
        /\ Net(B, wip) = Sum(LenOf, Without(B, wip)) + Sum(sB, Stock)
        /\ Sum(LenOf, Without(B, wip)) \in Nat /\ Sum(sB, Stock) \in Nat
    BY <1>1, <1>3, Zenon
  <1>5. /\ Net(A \cup B, wip) = Sum(LenOf, Without(A \cup B, wip)) + Sum(s, Stock)
        /\ Sum(LenOf, Without(A \cup B, wip)) \in Nat /\ Sum(s, Stock) \in Nat
    BY <1>1, <1>3, Zenon
  <1>6. Sum(LenOf, Without(A \cup B, wip)) = Sum(LenOf, Without(A, wip)) + Sum(LenOf, Without(B, wip))
    <2>1. /\ Without(A, wip) \in SUBSET Order /\ Without(B, wip) \in SUBSET Order
          /\ Without(A \cup B, wip) = Without(A, wip) \cup Without(B, wip)
          /\ Without(A, wip) \cap Without(B, wip) = {}
      BY DEF Without
    <2>2. /\ IsFiniteSet(Without(A, wip)) /\ IsFiniteSet(Without(B, wip))
          /\ \A b \in Without(A, wip) \cup Without(B, wip) : LenOf[b] \in Nat
      BY <2>1, OrdersAreFinite
    <2>3. QED
      <3> DEFINE X == Without(A, wip)
                 Y == Without(B, wip)
      <3> HIDE DEF X, Y
      <3>1. X \cap Y = {} /\ IsFiniteSet(X) /\ IsFiniteSet(Y) /\ \A b \in X \cup Y : LenOf[b] \in Nat
        BY <2>1, <2>2 DEF X, Y
      <3>2. Sum(LenOf, X \cup Y) = Sum(LenOf, X) + Sum(LenOf, Y)
        BY <3>1, SumOfTwoSets
      <3>3. QED
        BY <2>1, <3>2 DEF X, Y
  <1>7. \A w \in Stock : t[w] = sA[w] + sB[w]
    OBVIOUS
  <1> HIDE DEF sA, sB, s, t
  <1>8. Sum(t, Stock) = Sum(sA, Stock) + Sum(sB, Stock)
    BY <1>1, <1>2, <1>7, SumOfTwo
  <1>9. Sum(s, Stock) <= Sum(t, Stock)
    <2>1. \A w \in Stock : s[w] \in Nat /\ t[w] \in Nat /\ s[w] <= t[w]
      BY <1>2, <1>7
    <2>2. QED
      BY <1>1, <2>1, SumIsLess
  <1>10. QED
    BY <1>4, <1>5, <1>6, <1>8, <1>9

(* Stock is handed over whole: of two parts that share none, none is       *)
(* shared afterwards, and there is no stock that was not there before.     *)
LEMMA HandKeepsApart ==
    ASSUME NEW From \in SUBSET Order, NEW To \in SUBSET Order, From \cap To = {},
           NEW wip, DOMAIN wip = From \cup To, \A b \in From \cup To : wip[b] \in Stock \cup {Nothing}
    PROVE  /\ \A b \in From : Hand(From, To, wip).wip[b] = Nothing
           /\ \A b \in To : Hand(From, To, wip).wip[b] \in Used(From, wip) \cup {wip[b]}
  <1> DEFINE D     == Used(From, wip)
             given == Given(From, To, wip)
             new   == [b \in DOMAIN wip |->
                         IF \E w \in DOMAIN given : b \in given[w] THEN CHOOSE w \in DOMAIN given : b \in given[w]
                         ELSE IF b \in From THEN Nothing ELSE wip[b]]
  <1>1. Without(To, wip) \in SUBSET To /\ given \in [D -> SUBSET Without(To, wip)]
    BY TheDeal
  <1>2. DOMAIN given = D /\ \A w \in D : given[w] \subseteq To
    BY <1>1
  <1>3. Hand(From, To, wip).wip = new
    BY DEF Hand
  <1> HIDE DEF given, D
  <1>4. ASSUME NEW b \in From PROVE new[b] = Nothing
    BY <1>2
  <1>5. ASSUME NEW b \in To PROVE new[b] \in D \cup {wip[b]}
    <2>1. b \in DOMAIN wip /\ b \notin From
      OBVIOUS
    <2>2. CASE \E w \in DOMAIN given : b \in given[w]
      BY <1>2, <2>1, <2>2
    <2>3. CASE ~ \E w \in DOMAIN given : b \in given[w]
      BY <2>1, <2>3
    <2>4. QED
      BY <2>2, <2>3
  <1> HIDE DEF new
  <1>6. QED
    BY <1>3, <1>4, <1>5 DEF D

LEMMA RematchKeepsApart ==
    ASSUME NEW off \in SUBSET Order, NEW rest \in SUBSET Order, off \cap rest = {},
           NEW wip, DOMAIN wip = off \cup rest, \A b \in off \cup rest : wip[b] \in Stock \cup {Nothing}
    PROVE  /\ (\A b \in off : \A c \in rest : wip[b] = wip[c] => wip[b] = Nothing) =>
                 \A b \in off : \A c \in rest :
                    Rematch(off, rest, wip)[b] = Rematch(off, rest, wip)[c] => Rematch(off, rest, wip)[b] = Nothing
           /\ \A b \in off \cup rest : Rematch(off, rest, wip)[b] \in Used(off \cup rest, wip) \cup {Nothing}
  <1> DEFINE a == Hand(rest, off, wip).wip
             b == Hand(off, rest, wip).wip
  <1>1. /\ \A o \in rest : a[o] = Nothing
        /\ \A o \in off : a[o] \in Used(rest, wip) \cup {wip[o]}
    <2>1. rest \cap off = {} /\ rest \cup off = off \cup rest
      OBVIOUS
    <2>2. DOMAIN wip = rest \cup off /\ \A o \in rest \cup off : wip[o] \in Stock \cup {Nothing}
      BY <2>1
    <2>3. QED
      BY <2>1, <2>2, HandKeepsApart
  <1>2. /\ \A o \in off : b[o] = Nothing
        /\ \A o \in rest : b[o] \in Used(off, wip) \cup {wip[o]}
    BY HandKeepsApart
  <1>3. Rematch(off, rest, wip) = a \/ Rematch(off, rest, wip) = b \/ Rematch(off, rest, wip) = wip
    BY DEF Rematch
  <1>4. /\ Used(off, wip) \cup Used(rest, wip) \subseteq Used(off \cup rest, wip)
        /\ \A o \in off \cup rest : wip[o] \in Used(off \cup rest, wip) \cup {Nothing}
    BY DEF Used
  <1> HIDE DEF a, b
  <1>5. QED
    BY <1>1, <1>2, <1>3, <1>4

(* What a header makes, and the headers of a group.                        *)
LotsMade == [h \in Header \cap Rows |-> row[h].lots * LotSize]

Made(g) == Sum(LotsMade, HeadersOf(g))

(* What follows of both from the types of the rows.                        *)
LEMMA HeadersAreFinite ==
    ASSUME RowsTyped, NEW g
    PROVE  /\ IsFiniteSet(Header \cap Rows) /\ HeadersOf(g) \in SUBSET (Header \cap Rows) /\ IsFiniteSet(HeadersOf(g))
           /\ \A h \in Header \cap Rows : LotsMade[h] = row[h].lots * LotSize /\ LotsMade[h] \in Nat
           /\ Made(g) \in Nat
  <1>1. IsFiniteSet(Header \cap Rows)
    <2>1. Header \cap Rows \subseteq Batch
      BY DEF Batch
    <2>2. QED
      BY <2>1, BatchGroupsAssumption, FS_Subset
  <1>2. HeadersOf(g) \in SUBSET (Header \cap Rows)
    BY DEF HeadersOf, RowsOf
  <1>3. ASSUME NEW h \in Header \cap Rows PROVE LotsMade[h] = row[h].lots * LotSize /\ LotsMade[h] \in Nat
    <2>1. row[h].lots \in Nat /\ LotSize \in Nat
      BY RowsAreTyped, BatchGroupsAssumption
    <2>2. LotsMade[h] = row[h].lots * LotSize
      BY DEF LotsMade
    <2>3. QED
      BY <2>1, <2>2
  <1>4. IsFiniteSet(HeadersOf(g)) /\ \A h \in HeadersOf(g) : LotsMade[h] \in Nat
    BY <1>1, <1>2, <1>3, FS_Subset
  <1>5. QED
    BY <1>1, <1>2, <1>3, <1>4, SumIsNat DEF Made

LEMMA OrdersHaveStock ==
    ASSUME RowsTyped, NEW g
    PROVE  /\ OrdersOf(g) \in SUBSET Order /\ OrdersOf(g) \subseteq Rows
           /\ WipOf(g) \in [OrdersOf(g) -> Stock \cup {Nothing}]
           /\ \A b \in OrdersOf(g) : WipOf(g)[b] = row[b].wip /\ row[b].group = g
           /\ Net(OrdersOf(g), WipOf(g)) \in Nat
  <1>1. OrdersOf(g) \in SUBSET Order /\ OrdersOf(g) \subseteq Rows /\ \A b \in OrdersOf(g) : row[b].group = g
    BY DEF OrdersOf, RowsOf
  <1>2. \A b \in OrdersOf(g) : WipOf(g)[b] = row[b].wip /\ row[b].wip \in Stock \cup {Nothing}
    BY <1>1, RowsAreTyped DEF WipOf
  <1>3. WipOf(g) \in [OrdersOf(g) -> Stock \cup {Nothing}]
    BY <1>2 DEF WipOf
  <1>4. Net(OrdersOf(g), WipOf(g)) \in Nat
    BY <1>1, <1>3, LotsAreNat
  <1>5. QED
    BY <1>1, <1>2, <1>3, <1>4

(* A group makes enough if its headers make what its orders need.          *)
LEMMA EnoughIs ==
    ASSUME NEW B \in SUBSET Order, NEW wip, \A b \in B : wip[b] \in Stock \cup {Nothing},
           NEW H, IsFiniteSet(H), NEW f \in [H -> Nat]
    PROVE  SumLen(B) <= Total(f) + Total([w \in Used(B, wip) |-> Min({SumLen(Users(B, wip, w)), StockLen[w]})])
             <=> Net(B, wip) <= Sum(f, H)
  <1> DEFINE loss == Total([w \in Used(B, wip) |-> Min({SumLen(Users(B, wip, w)), StockLen[w]})])
  <1>1. Net(B, wip) + loss = Sum(LenOf, B) /\ loss \in Nat
    BY HandingSideMakesMore
  <1>2. SumLen(B) = Sum(LenOf, B) /\ SumLen(B) \in Nat
    BY OrdersAreFinite
  <1>3. Total(f) = Sum(f, H) /\ Sum(f, H) \in Nat
    BY TotalIsSum, SumIsNat
  <1>4. Net(B, wip) \in Nat
    BY LotsAreNat
  <1> HIDE DEF loss
  <1>5. QED
    <2>1. SumLen(B) <= Total(f) + loss <=> Net(B, wip) <= Sum(f, H)
      BY <1>1, <1>2, <1>3, <1>4
    <2>2. QED
      BY <2>1 DEF loss

LEMMA MakesEnoughIs ==
    ASSUME RowsTyped, NEW g
    PROVE  MakesEnough(g) <=> Net(OrdersOf(g), WipOf(g)) <= Made(g)
  <1> DEFINE f == [h \in HeadersOf(g) |-> row[h].lots * LotSize]
  <1>1. /\ OrdersOf(g) \in SUBSET Order /\ \A b \in OrdersOf(g) : WipOf(g)[b] \in Stock \cup {Nothing}
        /\ IsFiniteSet(HeadersOf(g)) /\ \A h \in HeadersOf(g) : f[h] = LotsMade[h] /\ f[h] \in Nat
    BY OrdersHaveStock, HeadersAreFinite
  <1>2. f \in [HeadersOf(g) -> Nat]
    BY <1>1
  <1>3. MakesEnough(g) <=> Net(OrdersOf(g), WipOf(g)) <= Sum(f, HeadersOf(g))
    <2>1. MakesEnough(g) <=> SumLen(OrdersOf(g)) <=
             Total(f) + Total([w \in Used(OrdersOf(g), WipOf(g)) |->
                                 Min({SumLen(Users(OrdersOf(g), WipOf(g), w)), StockLen[w]})])
      BY Zenon DEF MakesEnough
    <2> HIDE DEF f
    <2>2. QED
      BY <1>1, <1>2, <2>1, EnoughIs, Zenon
  <1>4. Sum(f, HeadersOf(g)) = Made(g)
    <2> HIDE DEF f
    <2>1. QED
      BY <1>1, SumIsSame DEF Made
  <1>5. QED
    BY <1>3, <1>4

(* Where all groups are supplied, what all have made and the stock gives   *)
(* is what all orders need.                                                *)
LEMMA SuppliedIsEnough ==
    ASSUME RowsTyped, \A g \in Groups : HeadersOf(g) # {} => Supplied(g)
    PROVE  EnoughInAll
  <1> DEFINE headers == Header \cap Rows
             headed  == {b \in Order \cap Rows : HeadersOf(row[b].group) # {}}
             D       == {row[h].group : h \in headers}
             given   == [w \in Stock |-> Min({StockLen[w], SumLen({b \in headed : row[b].wip = w})})]
             used    == [g \in D |-> Used(OrdersOf(g), WipOf(g))]
             orders  == [g \in D |-> OrdersOf(g)]
             heads   == [g \in D |-> HeadersOf(g)]
             need    == [g \in D |-> Sum(LenOf, orders[g])]
             got     == [g \in D |-> Sum(given, used[g])]
             made    == [g \in D |-> Sum(LotsMade, heads[g])]
             both    == [g \in D |-> made[g] + got[g]]
  <1>1. /\ IsFiniteSet(headers) /\ IsFiniteSet(D) /\ IsFiniteSet(Stock) /\ D \subseteq Groups
        /\ headed \in SUBSET Order /\ IsFiniteSet(headed) /\ \A b \in headed : LenOf[b] \in Nat
    <2>1. IsFiniteSet(headers)
      BY HeadersAreFinite
    <2>2. IsFiniteSet(D)
      <3> DEFINE of == [h \in headers |-> row[h].group]
      <3>1. of \in Surjection(headers, D)
        BY DEF Surjection
      <3> HIDE DEF headers, D, of
      <3>2. QED
        BY <2>1, <3>1, FS_Surjection
    <2>3. D \subseteq Groups
      <3>1. ASSUME NEW h \in headers PROVE row[h].group \in Groups
        <4>1. row[h] \in Row
          BY RowsAreTyped
        <4>2. QED
          BY <4>1 DEF Row
      <3>2. QED
        BY <3>1
    <2>4. headed \in SUBSET Order
      OBVIOUS
    <2> HIDE DEF headers, headed, D
    <2>5. QED
      BY <2>1, <2>2, <2>3, <2>4, OrdersAreFinite, BatchGroupsAssumption
  <1>0. ASSUME NEW g \in D
        PROVE  /\ MakesEnough(g)
               /\ \A b \in OrdersOf(g) : \A c \in headed :
                     row[c].wip = row[b].wip /\ row[b].wip # Nothing => row[c].group = g
    <2>1. HeadersOf(g) # {}
      BY DEF HeadersOf, RowsOf
    <2>2. Supplied(g)
      BY <1>1, <2>1
    <2>3. QED
      BY <2>2 DEF Supplied
  <1>2. \A w \in Stock : given[w] \in Nat
    <2>1. SUFFICES ASSUME NEW w \in Stock PROVE Min({StockLen[w], SumLen({b \in headed : row[b].wip = w})}) \in Nat
      OBVIOUS
    <2>2. {b \in headed : row[b].wip = w} \in SUBSET Order
      OBVIOUS
    <2> HIDE DEF headed
    <2>3. SumLen({b \in headed : row[b].wip = w}) \in Nat /\ StockLen[w] \in Nat
      BY <2>2, OrdersAreFinite, BatchGroupsAssumption
    <2>4. QED
      BY <2>3, LeastOfTwo
  <1>3. ASSUME NEW g \in D
        PROVE  /\ OrdersOf(g) \in SUBSET headed /\ HeadersOf(g) \in SUBSET headers
               /\ used[g] \in SUBSET Stock
               /\ need[g] \in Nat /\ got[g] \in Nat /\ made[g] \in Nat /\ need[g] <= both[g]
    <2>1. OrdersOf(g) \in SUBSET Order /\ OrdersOf(g) \in SUBSET headed
      <3>1. HeadersOf(g) # {}
        BY DEF HeadersOf, RowsOf
      <3>2. QED
        BY <1>1, <3>1 DEF OrdersOf, RowsOf
    <2>2. \A b \in OrdersOf(g) : WipOf(g)[b] \in Stock \cup {Nothing} /\ WipOf(g)[b] = row[b].wip
      BY OrdersHaveStock
    <2> DEFINE U    == Used(OrdersOf(g), WipOf(g))
               loss == [w \in U |-> Min({SumLen(Users(OrdersOf(g), WipOf(g), w)), StockLen[w]})]
    <2>3. Net(OrdersOf(g), WipOf(g)) + Total(loss) = Sum(LenOf, OrdersOf(g)) /\ Total(loss) \in Nat
      BY <2>1, <2>2, HandingSideMakesMore
    <2>4. U \in SUBSET Stock /\ IsFiniteSet(U)
      <3>1. U \in SUBSET Stock
        BY <2>2 DEF Used
      <3>2. QED
        BY <1>1, <3>1, FS_Subset
    <2>5. ASSUME NEW w \in U PROVE loss[w] = given[w] /\ loss[w] \in Nat
      <3>1. PICK c \in OrdersOf(g) : row[c].wip = w
        BY <2>2 DEF Used
      <3>2. w # Nothing /\ w \in Stock
        BY <2>4 DEF Used
      <3>3. ASSUME NEW b \in headed, row[b].wip = w PROVE b \in OrdersOf(g)
        <4>1. row[b].group = g
          BY <1>0, <3>1, <3>2, <3>3
        <4>2. QED
          BY <4>1 DEF OrdersOf, RowsOf
      <3>4. Users(OrdersOf(g), WipOf(g), w) = {b \in headed : row[b].wip = w}
        <4>1. \A b \in OrdersOf(g) : WipOf(g)[b] = w <=> row[b].wip = w
          BY <2>2
        <4> HIDE DEF headed
        <4>2. QED
          BY <2>1, <3>3, <4>1 DEF Users
      <3> DEFINE l == SumLen({b \in headed : row[b].wip = w})
      <3>5. {l, StockLen[w]} = {StockLen[w], l}
        OBVIOUS
      <3>6. loss[w] = given[w]
        <4> HIDE DEF headed, U
        <4>1. loss[w] = Min({SumLen(Users(OrdersOf(g), WipOf(g), w)), StockLen[w]})
          OBVIOUS
        <4>2. given[w] = Min({StockLen[w], l})
          BY <3>2
        <4> HIDE DEF loss, given, l
        <4>3. QED
          BY <3>4, <3>5, <4>1, <4>2, Zenon DEF l
      <3> HIDE DEF loss, given
      <3>7. QED
        BY <1>2, <3>2, <3>6
    <2>6. Total(loss) = Sum(given, U)
      <3>1. loss \in [U -> Nat]
        <4>1. loss = [w \in U |-> loss[w]]
          OBVIOUS
        <4> HIDE DEF loss, U
        <4>2. QED
          BY <2>5, <4>1
      <3> HIDE DEF loss, U, given
      <3>2. QED
        BY <2>4, <2>5, <3>1, TotalIsSum, SumIsSame
    <2>7. Net(OrdersOf(g), WipOf(g)) <= Made(g) /\ Made(g) \in Nat /\ Net(OrdersOf(g), WipOf(g)) \in Nat
          /\ HeadersOf(g) \in SUBSET headers
      BY <1>0, <2>1, HeadersAreFinite, OrdersHaveStock, MakesEnoughIs
    <2>8. used[g] = U /\ need[g] = Sum(LenOf, OrdersOf(g)) /\ made[g] = Made(g)
          /\ got[g] = Sum(given, U) /\ both[g] = Made(g) + Sum(given, U)
      <3> HIDE DEF given, D
      <3>1. QED
        BY DEF Made
    <2>9. Sum(LenOf, OrdersOf(g)) \in Nat
      BY <2>1, OrdersAreFinite
    <2> HIDE DEF used, need, made, got, both, U, loss, given, headed, headers
    <2>10. QED
      BY <2>1, <2>3, <2>4, <2>6, <2>7, <2>8, <2>9
  <1>4. UNION {orders[g] : g \in D} = headed
    <2>1. ASSUME NEW b \in headed PROVE row[b].group \in D /\ b \in orders[row[b].group]
      <3>1. PICK h \in HeadersOf(row[b].group) : TRUE
        OBVIOUS
      <3>2. row[b].group \in D
        BY <3>1 DEF HeadersOf, RowsOf
      <3>3. QED
        BY <3>2 DEF OrdersOf, RowsOf
    <2>2. \A g \in D : orders[g] \subseteq headed
      BY <1>3
    <2> HIDE DEF orders, headed, D
    <2>3. QED
      BY <2>1, <2>2
  <1>5. UNION {heads[g] : g \in D} = headers
    <2>1. ASSUME NEW h \in headers PROVE row[h].group \in D /\ h \in heads[row[h].group]
      BY DEF HeadersOf, RowsOf
    <2>2. \A g \in D : heads[g] \subseteq headers
      BY <1>3
    <2> HIDE DEF heads, headers, D
    <2>3. QED
      BY <2>1, <2>2
  <1>6. \A f \in D : \A g \in D : f # g => /\ orders[f] \cap orders[g] = {} /\ heads[f] \cap heads[g] = {}
                                            /\ used[f] \cap used[g] = {}
    <2>1. SUFFICES ASSUME NEW f \in D, NEW g \in D, f # g
                   PROVE  /\ orders[f] \cap orders[g] = {} /\ heads[f] \cap heads[g] = {}
                          /\ used[f] \cap used[g] = {}
      OBVIOUS
    <2>2. orders[f] \cap orders[g] = {} /\ heads[f] \cap heads[g] = {}
      BY <2>1 DEF OrdersOf, HeadersOf, RowsOf
    <2>3. ASSUME NEW w \in used[f], w \in used[g] PROVE FALSE
      <3>1. w # Nothing /\ \E b \in OrdersOf(f) : WipOf(f)[b] = w
        BY DEF Used
      <3>2. \E c \in OrdersOf(g) : WipOf(g)[c] = w
        BY <2>3 DEF Used
      <3>3. PICK b \in OrdersOf(f) : row[b].wip = w
        BY <3>1, OrdersHaveStock
      <3>4. PICK c \in OrdersOf(g) : row[c].wip = w
        BY <3>2, OrdersHaveStock
      <3>5. c \in headed /\ row[c].group = g
        BY <1>3, <3>4 DEF OrdersOf, RowsOf
      <3>6. QED
        BY <1>0, <2>1, <3>1, <3>3, <3>4, <3>5
    <2>4. QED
      BY <2>2, <2>3
  <1>7. Sum(LenOf, headed) = Sum(need, D)
    <2>1. orders \in [D -> SUBSET headed]
      BY <1>3
    <2> HIDE DEF headed, orders, D
    <2>2. Sum(LenOf, UNION {orders[g] : g \in D}) = Sum([g \in D |-> Sum(LenOf, orders[g])], D)
      BY <1>1, <1>6, <2>1, SumOfParts
    <2>3. QED
      BY <1>4, <2>2, Zenon DEF need
  <1>8. Sum(LotsMade, headers) = Sum(made, D)
    <2>1. heads \in [D -> SUBSET headers]
      BY <1>3
    <2>2. \A h \in headers : LotsMade[h] \in Nat
      BY HeadersAreFinite
    <2> HIDE DEF headers, heads, D
    <2>3. Sum(LotsMade, UNION {heads[g] : g \in D}) = Sum([g \in D |-> Sum(LotsMade, heads[g])], D)
      BY <1>1, <1>6, <2>1, <2>2, SumOfParts
    <2>4. QED
      BY <1>5, <2>3, Zenon DEF made
  <1>9. Sum(got, D) <= Sum(given, Stock) /\ Sum(given, Stock) \in Nat
    <2> DEFINE V == UNION {used[g] : g \in D}
    <2>1. used \in [D -> SUBSET Stock]
      <3>1. used = [g \in D |-> used[g]]
        OBVIOUS
      <3> HIDE DEF used, D
      <3>2. QED
        BY <1>3, <3>1
    <2> HIDE DEF used, D, given
    <2>2. Sum(given, UNION {used[g] : g \in D}) = Sum([g \in D |-> Sum(given, used[g])], D)
      BY <1>1, <1>2, <1>6, <2>1, SumOfParts
    <2>3. V \in SUBSET Stock
      BY <2>1
    <2> HIDE DEF V
    <2>4. V \cup (Stock \ V) = Stock /\ V \cap (Stock \ V) = {} /\ IsFiniteSet(V) /\ IsFiniteSet(Stock \ V)
      BY <1>1, <2>3, FS_Subset
    <2>5. Sum(given, Stock) = Sum(given, V) + Sum(given, Stock \ V)
      <3>1. Sum(given, V \cup (Stock \ V)) = Sum(given, V) + Sum(given, Stock \ V)
        BY <1>2, <2>4, SumOfTwoSets
      <3>2. QED
        BY <2>4, <3>1, Zenon
    <2>6. Sum(given, V) \in Nat /\ Sum(given, Stock \ V) \in Nat
      BY <1>2, <2>3, <2>4, SumIsNat
    <2>7. Sum(given, V) = Sum(got, D)
      BY <2>2, Zenon DEF V, got
    <2>8. QED
      BY <2>5, <2>6, <2>7
  <1>10. Sum(need, D) <= Sum(both, D) /\ Sum(both, D) = Sum(made, D) + Sum(got, D)
         /\ Sum(made, D) \in Nat /\ Sum(got, D) \in Nat
    <2>1. \A g \in D : both[g] = made[g] + got[g]
      OBVIOUS
    <2> HIDE DEF D, both, made, got, need
    <2>2. \A g \in D : need[g] \in Nat /\ both[g] \in Nat /\ need[g] <= both[g] /\ made[g] \in Nat /\ got[g] \in Nat
      BY <1>3, <2>1
    <2>3. Sum(both, D) = Sum(made, D) + Sum(got, D)
      BY <1>1, <2>1, <2>2, SumOfTwo
    <2>4. QED
      BY <1>1, <2>2, <2>3, SumIsLess, SumIsNat
  <1>11. /\ Total([h \in Header \cap Rows |-> row[h].lots * LotSize]) = Sum(LotsMade, headers)
         /\ Total(given) = Sum(given, Stock) /\ SumLen(headed) = Sum(LenOf, headed)
         /\ SumLen(headed) \in Nat
    <2>1. LotsMade \in [headers -> Nat]
      <3>1. LotsMade = [h \in headers |-> LotsMade[h]]
        BY DEF LotsMade
      <3>2. QED
        BY <3>1, HeadersAreFinite
    <2>2. given \in [Stock -> Nat]
      <3>1. given = [w \in Stock |-> given[w]]
        OBVIOUS
      <3> HIDE DEF given
      <3>2. QED
        BY <1>2, <3>1
    <2>3. Total([h \in Header \cap Rows |-> row[h].lots * LotSize]) = Total(LotsMade)
      BY Zenon DEF LotsMade
    <2> HIDE DEF given, headers, headed
    <2>4. QED
      BY <1>1, <2>1, <2>2, <2>3, TotalIsSum, OrdersAreFinite
  <1>12. EnoughInAll <=> Total([h \in Header \cap Rows |-> row[h].lots * LotSize]) + Total(given) >= SumLen(headed)
    BY Zenon DEF EnoughInAll
  <1> HIDE DEF given, headers, headed, D, need, got, made, both
  <1>13. QED
    BY <1>7, <1>8, <1>9, <1>10, <1>11, <1>12

(* All of what the division of a group with a header leaves.               *)
Leaves(g, B, new, h, n, wip) ==
    /\ Rows' = Rows \cup {n}
    /\ row'[n].group = new /\ row'[n].lots = Lots(Net(B, wip))
    /\ row'[h].group = g /\ row'[h].lots = Lots(Net(OrdersOf(g) \ B, wip))
    /\ \A b \in B : row'[b].group = new /\ row'[b].wip = wip[b]
    /\ \A b \in OrdersOf(g) \ B : row'[b].group = g /\ row'[b].wip = wip[b]
    /\ \A b \in Rows : b # h /\ b \notin OrdersOf(g) => row'[b] = row[b]

LEMMA DividedIs ==
    ASSUME RowsTyped, NEW g \in Groups, NEW new \in Groups \ {g}, NEW B \in SUBSET OrdersOf(g),
           NEW h \in HeadersOf(g), NEW n \in Header \ Rows, NEW wip,
           row' = Divided(g, B, new, h, n, wip)
    PROVE  Leaves(g, B, new, h, n, wip)
  <1> DEFINE rest == OrdersOf(g) \ B
             becomes(b) ==
                CASE b = n -> [group |-> new, status |-> "planned", wip |-> Nothing, lots |-> Lots(Net(B, wip))]
                  [] b = h -> [row[h] EXCEPT !.lots = Lots(Net(rest, wip)),
                                             !.status = IF Net(rest, wip) = 0 THEN "wip_complete" ELSE @]
                  [] b \in B    -> [row[b] EXCEPT !.group = new, !.wip = wip[b]]
                  [] b \in rest -> [row[b] EXCEPT !.wip = wip[b]]
                  [] OTHER      -> row[b]
  <1>1. /\ OrdersOf(g) \in SUBSET Order /\ OrdersOf(g) \subseteq Rows
        /\ h \in Rows /\ h \notin Order /\ n \notin Order /\ n \notin Rows /\ n # h
        /\ row[h].group = g /\ \A b \in OrdersOf(g) : row[b].group = g
    BY BatchGroupsAssumption DEF OrdersOf, HeadersOf, RowsOf, Batch
  <1>2. row' = [b \in Rows \cup {n} |-> becomes(b)]
    BY Zenon DEF Divided
  <1>3. Rows' = Rows \cup {n} /\ \A b \in Rows \cup {n} : row'[b] = becomes(b)
    <2> HIDE DEF becomes
    <2>1. QED
      BY <1>2 DEF Rows
  <1>4. row'[n].group = new /\ row'[n].lots = Lots(Net(B, wip))
    <2>1. row'[n] = [group |-> new, status |-> "planned", wip |-> Nothing, lots |-> Lots(Net(B, wip))]
      BY <1>1, <1>3
    <2>2. QED
      BY <2>1
  <1>5. row'[h].group = g /\ row'[h].lots = Lots(Net(rest, wip))
    <2>1. row'[h] = [row[h] EXCEPT !.lots = Lots(Net(rest, wip)),
                                   !.status = IF Net(rest, wip) = 0 THEN "wip_complete" ELSE @]
      BY <1>1, <1>3
    <2>2. row[h] \in Row
      BY <1>1, RowsAreTyped
    <2> HIDE DEF rest
    <2>3. QED
      BY <1>1, <2>1, <2>2 DEF Row
  <1>6. ASSUME NEW b \in B PROVE row'[b].group = new /\ row'[b].wip = wip[b]
    <2>1. b \in Rows /\ b # n /\ b # h /\ row[b] \in Row
      BY <1>1, RowsAreTyped
    <2>2. row'[b] = [row[b] EXCEPT !.group = new, !.wip = wip[b]]
      BY <1>3, <2>1
    <2>3. QED
      BY <2>1, <2>2 DEF Row
  <1>7. ASSUME NEW b \in rest PROVE row'[b].group = g /\ row'[b].wip = wip[b]
    <2>1. b \in Rows /\ b # n /\ b # h /\ row[b] \in Row /\ b \notin B /\ row[b].group = g
      BY <1>1, RowsAreTyped
    <2>2. row'[b] = [row[b] EXCEPT !.wip = wip[b]]
      BY <1>3, <2>1
    <2>3. QED
      BY <2>1, <2>2 DEF Row
  <1>8. ASSUME NEW b \in Rows, b # h, b \notin OrdersOf(g) PROVE row'[b] = row[b]
    BY <1>1, <1>3, <1>8
  <1> HIDE DEF becomes
  <1>9. QED
    BY <1>3, <1>4, <1>5, <1>6, <1>7, <1>8 DEF Leaves

(* Names tell which groups are groups of stranding: a part split off such  *)
(* a group is one, and of another group is none.                           *)
NamesTell(Stranded) ==
    /\ Stranded \subseteq Groups
    /\ \A g \in Groups : Suffixed[g] \subseteq IF g \in Stranded THEN Stranded ELSE Groups \ Stranded

(* The groups of stranding are those with headers.                         *)
HeadersTell(Stranded) ==
    /\ \A h \in Header \cap Rows : row[h].group \in Stranded
    /\ \A g \in Stranded : OrdersOf(g) # {} => HeadersOf(g) # {}

(* The claim, of one step: a group all of whose orders come from groups    *)
(* that were supplied, and are not parted from others with their stock, is *)
(* supplied.                                                               *)
StaysSupplied(k) ==
    HeadersOf(k)' # {} /\ (\A b \in OrdersOf(k)' : Supplied(row[b].group) /\ ~Parted(b)) => Supplied(k)'

(* A group without orders is supplied.                                     *)
LEMMA NoneIsSupplied ==
    ASSUME RowsTyped, NEW g, OrdersOf(g) = {}
    PROVE  Supplied(g)
  <1>1. SumLen(OrdersOf(g)) = 0
    <2>1. SumLen({}) = Sum(LenOf, {})
      BY OrdersAreFinite
    <2>2. QED
      BY <2>1, SumOfNone
  <1>2. Net(OrdersOf(g), WipOf(g)) \in Nat /\ Made(g) \in Nat
    BY OrdersHaveStock, HeadersAreFinite
  <1>3. Net(OrdersOf(g), WipOf(g)) <= 0
    <2>1. \A b \in {} : WipOf(g)[b] \in Stock \cup {Nothing}
      OBVIOUS
    <2>2. Net({}, WipOf(g)) <= Sum(LenOf, {})
      <3> DEFINE loss == Total([w \in Used({}, WipOf(g)) |-> Min({SumLen(Users({}, WipOf(g), w)), StockLen[w]})])
      <3>1. Net({}, WipOf(g)) + loss = Sum(LenOf, {}) /\ loss \in Nat
        BY <2>1, HandingSideMakesMore
      <3>2. Net({}, WipOf(g)) \in Nat /\ Sum(LenOf, {}) = 0
        BY <1>2, SumOfNone
      <3> HIDE DEF loss
      <3>3. QED
        BY <3>1, <3>2
    <2>3. QED
      BY <2>2, SumOfNone
  <1>4. MakesEnough(g)
    BY <1>2, <1>3, MakesEnoughIs
  <1>5. QED
    BY <1>4 DEF Supplied

(* Steps that neither move rows between groups nor change stock or lots.   *)
LEMMA HeldAsBefore ==
    ASSUME NEW Stranded, HeadersTell(Stranded), Held' = Held
    PROVE  HeadersTell(Stranded)'
  <1>1. Rows' = Rows
    <2>1. Rows = DOMAIN Held /\ Rows' = DOMAIN Held'
      BY DEF Held
    <2>2. QED
      BY <2>1
  <1>2. ASSUME NEW b \in Rows PROVE row'[b].group = row[b].group
    <2>1. Held'[b].group = row'[b].group /\ Held[b].group = row[b].group
      BY <1>1 DEF Held
    <2>2. QED
      BY <2>1
  <1>3. ASSUME NEW g \in Stranded PROVE OrdersOf(g)' = OrdersOf(g) /\ HeadersOf(g)' = HeadersOf(g)
    BY <1>1, <1>2 DEF OrdersOf, HeadersOf, RowsOf
  <1>4. QED
    BY <1>1, <1>2, <1>3 DEF HeadersTell

(* Dividing a group supplies its parts, if the group was supplied and they *)
(* shared no stock.                                                        *)
LEMMA DivisionSupplies ==
    ASSUME RowsTyped, NEW Stranded, HeadersTell(Stranded),
           NEW g \in Groups, NEW new \in Groups \ {g}, g \in Stranded, new \in Stranded,
           NEW B \in SUBSET OrdersOf(g), B # {}, NEW h \in HeadersOf(g), NEW n \in Header \ Rows,
           NEW wip \in [OrdersOf(g) -> Stock \cup {Nothing}],
           (\A b \in B : \A c \in OrdersOf(g) \ B : row[b].wip = row[c].wip => row[b].wip = Nothing) =>
              \A b \in B : \A c \in OrdersOf(g) \ B : wip[b] = wip[c] => wip[b] = Nothing,
           \A b \in OrdersOf(g) : wip[b] \in Used(OrdersOf(g), WipOf(g)) \cup {Nothing},
           row' = Divided(g, B, new, h, n, wip)
    PROVE  HeadersTell(Stranded)' /\ \A k \in Groups : StaysSupplied(k)
  <1> DEFINE rest == OrdersOf(g) \ B
  <1>1. /\ Rows' = Rows \cup {n}
        /\ row'[n].group = new /\ row'[n].lots = Lots(Net(B, wip))
        /\ row'[h].group = g /\ row'[h].lots = Lots(Net(rest, wip))
        /\ \A b \in B : row'[b].group = new /\ row'[b].wip = wip[b]
        /\ \A b \in rest : row'[b].group = g /\ row'[b].wip = wip[b]
        /\ \A b \in Rows : b # h /\ b \notin OrdersOf(g) => row'[b] = row[b]
    <2>1. Leaves(g, B, new, h, n, wip)
      BY DividedIs
    <2>2. QED
      BY <2>1 DEF Leaves
  <1>2. RowsTyped'
    <2>1. \A b \in OrdersOf(g) : wip[b] \in Stock \cup {Nothing}
      OBVIOUS
    <2>2. QED
      BY <2>1, DividedRows
  <1>3. /\ Order \cap Header = {} /\ h \in Rows /\ h \in Header /\ row[h].group = g /\ n # h /\ n \notin Order
        /\ OrdersOf(g) \in SUBSET Order /\ B \in SUBSET Order /\ rest \in SUBSET Order
        /\ B \subseteq Rows /\ rest \subseteq Rows /\ \A b \in OrdersOf(g) : row[b].group = g
        /\ \A k \in Stranded : OrdersOf(k) \in SUBSET Order
    BY BatchGroupsAssumption DEF HeadersOf, OrdersOf, RowsOf
  <1>4. OrdersOf(g)' = rest /\ HeadersOf(g)' = HeadersOf(g)
    <2>1. OrdersOf(g)' = {b \in Rows' : row'[b].group = g} \cap Order
      BY DEF OrdersOf, RowsOf
    <2>2. HeadersOf(g)' = {b \in Rows' : row'[b].group = g} \cap Header
      BY DEF HeadersOf, RowsOf
    <2>3. ASSUME NEW b \in Order PROVE b \in OrdersOf(g)' <=> b \in rest
      BY <1>1, <1>3, <2>1 DEF OrdersOf, RowsOf
    <2>4. ASSUME NEW b \in Header PROVE b \in HeadersOf(g)' <=> b \in HeadersOf(g)
      BY <1>1, <1>3, <2>2 DEF HeadersOf, RowsOf
    <2>5. QED
      BY <1>3, <2>1, <2>2, <2>3, <2>4 DEF HeadersOf
  <1>5. OrdersOf(new)' = OrdersOf(new) \cup B /\ HeadersOf(new)' = HeadersOf(new) \cup {n}
    <2>1. OrdersOf(new)' = {b \in Rows' : row'[b].group = new} \cap Order
      BY DEF OrdersOf, RowsOf
    <2>2. HeadersOf(new)' = {b \in Rows' : row'[b].group = new} \cap Header
      BY DEF HeadersOf, RowsOf
    <2>3. ASSUME NEW b \in Order PROVE b \in OrdersOf(new)' <=> b \in OrdersOf(new) \cup B
      BY <1>1, <1>3, <2>1 DEF OrdersOf, RowsOf
    <2>4. ASSUME NEW b \in Header PROVE b \in HeadersOf(new)' <=> b \in HeadersOf(new) \cup {n}
      BY <1>1, <1>3, <2>2 DEF HeadersOf, RowsOf
    <2>5. QED
      BY <1>3, <2>1, <2>2, <2>3, <2>4 DEF HeadersOf, OrdersOf
  <1>6. ASSUME NEW k \in Stranded, k # g, k # new
        PROVE  OrdersOf(k)' = OrdersOf(k) /\ HeadersOf(k)' = HeadersOf(k)
    <2>1. OrdersOf(k)' = {b \in Rows' : row'[b].group = k} \cap Order
      BY DEF OrdersOf, RowsOf
    <2>2. HeadersOf(k)' = {b \in Rows' : row'[b].group = k} \cap Header
      BY DEF HeadersOf, RowsOf
    <2>3. ASSUME NEW b \in Order PROVE b \in OrdersOf(k)' <=> b \in OrdersOf(k)
      BY <1>1, <1>3, <1>6, <2>1 DEF OrdersOf, RowsOf
    <2>4. ASSUME NEW b \in Header PROVE b \in HeadersOf(k)' <=> b \in HeadersOf(k)
      BY <1>1, <1>3, <1>6, <2>2 DEF HeadersOf, RowsOf
    <2>5. QED
      BY <2>1, <2>2, <2>3, <2>4 DEF HeadersOf, OrdersOf
  <1>7. ASSUME NEW k \in Stranded, k # g
        PROVE  /\ \A b \in OrdersOf(k) : row'[b].wip = row[b].wip
               /\ \A x \in HeadersOf(k) : row'[x].lots = row[x].lots /\ LotsMade'[x] = LotsMade[x]
    <2>1. \A b \in OrdersOf(k) \cup HeadersOf(k) : row'[b] = row[b]
      BY <1>1, <1>3, <1>7 DEF OrdersOf, HeadersOf, RowsOf
    <2>2. ASSUME NEW x \in HeadersOf(k) PROVE LotsMade'[x] = LotsMade[x]
      <3>1. x \in Header \cap Rows /\ x \in Header \cap Rows' /\ row'[x].lots = row[x].lots
        BY <1>1, <2>1 DEF HeadersOf, RowsOf
      <3>2. LotsMade' = [y \in Header \cap Rows' |-> row'[y].lots * LotSize]
        BY DEF LotsMade
      <3>3. QED
        BY <3>1, <3>2 DEF LotsMade
    <2>3. QED
      BY <2>1, <2>2
  <1>8. ASSUME NEW k
        PROVE  /\ IsFiniteSet(HeadersOf(k)') /\ \A x \in HeadersOf(k)' : LotsMade'[x] \in Nat /\ LotsMade'[x] = row'[x].lots * LotSize
               /\ Made(k)' = Sum(LotsMade', HeadersOf(k)') /\ Net(OrdersOf(k), WipOf(k))' = Net(OrdersOf(k)', WipOf(k)')
               /\ WipOf(k)' = [b \in OrdersOf(k)' |-> row'[b].wip]
    <2>1. /\ IsFiniteSet(Header \cap Rows') /\ HeadersOf(k)' \in SUBSET (Header \cap Rows') /\ IsFiniteSet(HeadersOf(k)')
          /\ \A x \in Header \cap Rows' : LotsMade'[x] = row'[x].lots * LotSize /\ LotsMade'[x] \in Nat
      <3>1. Rows' \subseteq Batch /\ \A x \in Rows' : row'[x].lots \in Nat
        BY <1>2 DEF RowsTyped, Row
      <3>2. LotsMade' = [x \in Header \cap Rows' |-> row'[x].lots * LotSize]
        BY DEF LotsMade
      <3>3. IsFiniteSet(Header \cap Rows')
        <4>1. Header \cap Rows' \subseteq Batch
          BY <3>1
        <4>2. QED
          BY <4>1, BatchGroupsAssumption, FS_Subset
      <3>4. HeadersOf(k)' \in SUBSET (Header \cap Rows')
        BY DEF HeadersOf, RowsOf
      <3>5. ASSUME NEW x \in Header \cap Rows' PROVE LotsMade'[x] = row'[x].lots * LotSize /\ LotsMade'[x] \in Nat
        BY <3>1, <3>2, BatchGroupsAssumption
      <3>6. QED
        BY <3>3, <3>4, <3>5, FS_Subset
    <2>2. Made(k)' = Sum(LotsMade', HeadersOf(k)')
      BY DEF Made
    <2>3. WipOf(k)' = [b \in OrdersOf(k)' |-> row'[b].wip]
      BY DEF WipOf
    <2>4. Net(OrdersOf(k), WipOf(k))' = Net(OrdersOf(k)', WipOf(k)')
      OBVIOUS
    <2>5. QED
      BY <2>1, <2>2, <2>3, <2>4
  <1>9. Net(rest, wip) \in Nat /\ Net(B, wip) \in Nat
    BY <1>3, LotsAreNat
  <1>10. Net(OrdersOf(g), WipOf(g))' <= Made(g)'
    <2>1. Net(OrdersOf(g), WipOf(g))' = Net(rest, wip)
      <3>1. \A b \in rest : WipOf(g)'[b] = wip[b]
        BY <1>1, <1>4, <1>8
      <3>2. Net(rest, WipOf(g)') = Net(rest, wip)
        BY <3>1, NetIsSame
      <3>3. QED
        BY <1>4, <1>8, <3>2
    <2> DEFINE H == HeadersOf(g) \ {h}
    <2>2. H \cup {h} = HeadersOf(g)' /\ h \notin H /\ IsFiniteSet(H) /\ \A x \in H \cup {h} : LotsMade'[x] \in Nat
      <3>1. H \cup {h} = HeadersOf(g)' /\ H \subseteq HeadersOf(g)'
        BY <1>4
      <3>2. QED
        BY <1>8, <3>1, FS_Subset
    <2> HIDE DEF H
    <2>3. Sum(LotsMade', H \cup {h}) = Sum(LotsMade', H) + LotsMade'[h]
      BY <2>2, SumOfMore
    <2>4. Sum(LotsMade', H) \in Nat
      BY <2>2, SumIsNat
    <2>5. LotsMade'[h] = Lots(Net(rest, wip)) * LotSize
      BY <1>1, <1>8, <2>2
    <2>6. Net(rest, wip) <= LotsMade'[h] /\ LotsMade'[h] \in Nat
      BY <1>9, <2>5, LotsSuffice
    <2>7. Made(g)' = Sum(LotsMade', H) + LotsMade'[h]
      BY <1>8, <2>2, <2>3
    <2>8. QED
      BY <1>9, <2>1, <2>4, <2>6, <2>7
  <1>11. ASSUME NEW k
         PROVE  MakesEnough(k)' <=> Net(OrdersOf(k), WipOf(k))' <= Made(k)'
    <2> DEFINE H == HeadersOf(k)'
               B1 == OrdersOf(k)'
               w1 == WipOf(k)'
               f == [x \in H |-> row'[x].lots * LotSize]
    <2>1. /\ B1 \in SUBSET Order /\ IsFiniteSet(H) /\ f \in [H -> Nat]
          /\ \A x \in H : f[x] = LotsMade'[x]
      <3>1. B1 \in SUBSET Order
        BY DEF OrdersOf, RowsOf
      <3>2. QED
        BY <1>8, <3>1
    <2>2. \A b \in B1 : w1[b] \in Stock \cup {Nothing}
      <3>1. \A b \in B1 : w1[b] = row'[b].wip /\ b \in Rows'
        <4>1. w1 = [b \in B1 |-> row'[b].wip]
          BY <1>8
        <4>2. B1 \subseteq Rows'
          BY DEF OrdersOf, RowsOf
        <4> HIDE DEF w1, B1
        <4>3. QED
          BY <4>1, <4>2
      <3>2. \A b \in Rows' : row'[b].wip \in Stock \cup {Nothing}
        BY <1>2 DEF RowsTyped, Row
      <3> HIDE DEF B1, w1
      <3>3. QED
        BY <3>1, <3>2
    <2>3. MakesEnough(k)' <=> SumLen(B1) <=
             Total(f) + Total([w \in Used(B1, w1) |-> Min({SumLen(Users(B1, w1, w)), StockLen[w]})])
      BY Zenon DEF MakesEnough
    <2>4. Sum(f, H) = Sum(LotsMade', H) /\ Made(k)' = Sum(LotsMade', H)
          /\ Net(OrdersOf(k), WipOf(k))' = Net(B1, w1)
      <3>1. Sum(f, H) = Sum(LotsMade', H)
        <4> HIDE DEF f, H
        <4>1. QED
          BY <2>1, SumIsSame
      <3>2. QED
        BY <1>8, <3>1
    <2> HIDE DEF H, B1, w1, f
    <2>5. MakesEnough(k)' <=> Net(B1, w1) <= Sum(f, H)
      BY <2>1, <2>2, <2>3, EnoughIs, Zenon
    <2>6. QED
      BY <2>4, <2>5
  <1>12. /\ \A x \in Header \cap Rows' : row'[x].group \in Stranded
         /\ \A k \in Stranded : OrdersOf(k)' # {} => HeadersOf(k)' # {}
    <2>1. \A x \in Header \cap Rows : row[x].group \in Stranded
      BY DEF HeadersTell
    <2>2. \A k \in Stranded : OrdersOf(k) # {} => HeadersOf(k) # {}
      BY DEF HeadersTell
    <2>3. \A x \in Header \cap Rows' : row'[x].group \in Stranded
      BY <1>1, <1>3, <2>1
    <2>4. QED
      BY <1>4, <1>5, <1>6, <2>2, <2>3
  <1>13. /\ HeadersOf(g) # {} /\ \A b \in OrdersOf(g) : row[b].group = g
         /\ \A k \in Stranded : \A b \in OrdersOf(k) : row[b].group = k /\ HeadersOf(k) # {}
    BY <1>3 DEF HeadersTell, OrdersOf, RowsOf
  (* Orders of g and of another group that count on the same stock.        *)
  <1>14. ASSUME NEW b \in OrdersOf(g), NEW k \in Stranded, k # g, NEW c \in OrdersOf(k), wip[b] = row[c].wip,
                wip[b] # Nothing
         PROVE  ~Supplied(g) /\ ~Supplied(k)
    <2>1. wip[b] \in Used(OrdersOf(g), WipOf(g))
      BY <1>14
    <2>2. PICK a \in OrdersOf(g) : WipOf(g)[a] = wip[b]
      BY <2>1 DEF Used
    <2>3. row[a].wip = row[c].wip /\ row[a].wip # Nothing
      BY <1>14, <2>2, OrdersHaveStock
    <2>4. /\ row[a].group = g /\ row[c].group = k /\ HeadersOf(g) # {} /\ HeadersOf(k) # {}
          /\ a \in Order \cap Rows /\ c \in Order \cap Rows
      BY <1>13 DEF OrdersOf, RowsOf
    <2>5. ~Supplied(g)
      BY <1>14, <2>3, <2>4 DEF Supplied
    <2>6. ~Supplied(k)
      BY <1>14, <2>3, <2>4 DEF Supplied
    <2>7. QED
      BY <2>5, <2>6
  (* An order that is on one side with a partner on the other is parted.   *)
  <1>15. ASSUME NEW k \in {g, new}, \A b \in OrdersOf(k)' : ~Parted(b)
         PROVE  \A b \in B : \A c \in rest : wip[b] = wip[c] => wip[b] = Nothing
    <2>1. ASSUME NEW b \in B, NEW c \in rest, row[b].wip = row[c].wip, row[b].wip # Nothing PROVE FALSE
      <3>1. b \in OrdersOf(g) /\ c \in OrdersOf(g) /\ row'[b].group = new /\ row'[c].group = g
        BY <1>1
      <3>2. Parted(b) /\ Parted(c)
        BY <1>13, <2>1, <3>1 DEF Parted
      <3>3. b \in OrdersOf(k)' \/ c \in OrdersOf(k)'
        BY <1>4, <1>5
      <3>4. QED
        BY <1>15, <3>2, <3>3
    <2>2. QED
      BY <2>1
  <1>16. ASSUME \A b \in OrdersOf(new)' : Supplied(row[b].group) /\ ~Parted(b)
         PROVE  Net(OrdersOf(new), WipOf(new))' <= Made(new)'
    <2>0. Supplied(g) /\ (OrdersOf(new) # {} => Supplied(new))
      BY <1>5, <1>13, <1>16
    <2> DEFINE w == WipOf(new)'
               N == OrdersOf(new)
               H == HeadersOf(new)
    <2>1. /\ N \in SUBSET Order /\ N \cap B = {} /\ WipOf(new) \in [N -> Stock \cup {Nothing}]
          /\ \A b \in N : w[b] = WipOf(new)[b] /\ w[b] = row[b].wip
          /\ \A b \in B : w[b] = wip[b]
      <3>1. N \in SUBSET Order /\ N \cap B = {}
        BY <1>3 DEF OrdersOf, RowsOf
      <3>2. \A b \in N : w[b] = row[b].wip /\ WipOf(new)[b] = row[b].wip
        BY <1>5, <1>7, <1>8, OrdersHaveStock
      <3>3. \A b \in B : w[b] = wip[b]
        BY <1>1, <1>5, <1>8
      <3> HIDE DEF w, N
      <3>4. QED
        BY <3>1, <3>2, <3>3, OrdersHaveStock DEF N
    <2>2. Net(N, w) = Net(N, WipOf(new)) /\ Net(B, w) = Net(B, wip)
      <3> HIDE DEF w, N
      <3>1. QED
        BY <2>1, NetIsSame
    <2>3. Net(N \cup B, w) <= Net(N, w) + Net(B, w)
      <3>1. \A b \in N \cup B : w[b] \in Stock \cup {Nothing}
        <4> HIDE DEF w, N
        <4>1. QED
          BY <2>1
      <3>2. ASSUME NEW a \in N, NEW b \in B, w[a] = w[b] PROVE w[a] = Nothing
        <4>1. w[b] = wip[b] /\ w[a] = row[a].wip
          BY <2>1
        <4> HIDE DEF w
        <4>2. QED
          BY <1>14, <2>0, <3>2, <4>1
      <3> HIDE DEF w, N
      <3>3. QED
        BY <1>3, <2>1, <3>1, <3>2, NetOfBoth
    <2>4. Made(new)' = Made(new) + LotsMade'[n]
      <3>1. n \notin H /\ H \cup {n} = HeadersOf(new)' /\ H \subseteq HeadersOf(new)'
        BY <1>5 DEF HeadersOf, RowsOf
      <3>2. IsFiniteSet(H) /\ \A x \in H \cup {n} : LotsMade'[x] \in Nat
        BY <1>8, <3>1, FS_Subset
      <3>3. Sum(LotsMade', H \cup {n}) = Sum(LotsMade', H) + LotsMade'[n]
        BY <3>1, <3>2, SumOfMore
      <3>4. Sum(LotsMade', H) = Sum(LotsMade, H)
        BY <1>7, SumIsSame
      <3>5. QED
        BY <1>8, <3>1, <3>3, <3>4 DEF Made
    <2>5. LotsMade'[n] = Lots(Net(B, wip)) * LotSize
      BY <1>1, <1>5, <1>8
    <2>6. Net(B, wip) <= LotsMade'[n] /\ LotsMade'[n] \in Nat
      BY <1>9, <2>5, LotsSuffice
    <2>7. Net(N, WipOf(new)) <= Made(new) /\ Net(N, WipOf(new)) \in Nat /\ Made(new) \in Nat
      <3>1. Supplied(new)
        BY <2>0, NoneIsSupplied
      <3>2. QED
        BY <3>1, OrdersHaveStock, HeadersAreFinite, MakesEnoughIs DEF Supplied
    <2>8. Net(OrdersOf(new), WipOf(new))' = Net(N \cup B, w)
      BY <1>5, <1>8
    <2>9. Net(N \cup B, w) \in Nat
      <3>1. \A b \in N \cup B : w[b] \in Stock \cup {Nothing}
        <4> HIDE DEF w, N
        <4>1. QED
          BY <2>1
      <3>2. N \cup B \in SUBSET Order
        BY <1>3, <2>1
      <3> HIDE DEF w, N
      <3>3. QED
        BY <3>1, <3>2, LotsAreNat
    <2> HIDE DEF w, N
    <2>10. QED
      BY <1>9, <2>2, <2>3, <2>4, <2>6, <2>7, <2>8, <2>9
  <1>17. ASSUME NEW k \in Stranded, k # g, k # new, Supplied(k)
         PROVE  Net(OrdersOf(k), WipOf(k))' <= Made(k)'
    <2>1. WipOf(k)' = WipOf(k)
      BY <1>6, <1>7, <1>8, <1>17 DEF WipOf
    <2>2. Sum(LotsMade', HeadersOf(k)) = Sum(LotsMade, HeadersOf(k))
      BY <1>7, <1>17, SumIsSame
    <2>3. Net(OrdersOf(k), WipOf(k)) <= Made(k)
      BY <1>17, MakesEnoughIs DEF Supplied
    <2>4. QED
      BY <1>6, <1>8, <1>17, <2>1, <2>2, <2>3 DEF Made
  <1>18. ASSUME NEW k \in Groups, HeadersOf(k)' # {},
                \A b \in OrdersOf(k)' : Supplied(row[b].group) /\ ~Parted(b)
         PROVE  Supplied(k)'
    <2>1. k \in Stranded
      <3>1. PICK x \in HeadersOf(k)' : TRUE
        BY <1>18
      <3>2. x \in Header \cap Rows' /\ row'[x].group = k
        BY DEF HeadersOf, RowsOf
      <3>3. QED
        BY <1>12, <3>2
    <2>2. MakesEnough(k)'
      <3>1. CASE k = g
        BY <1>10, <1>11, <3>1
      <3>2. CASE k = new
        BY <1>11, <1>16, <1>18, <3>2
      <3>3. CASE k # g /\ k # new
        <4>1. OrdersOf(k)' = OrdersOf(k)
          BY <1>6, <2>1, <3>3
        <4>2. Supplied(k)
          BY <1>13, <1>18, <2>1, <4>1, NoneIsSupplied
        <4>3. QED
          BY <1>11, <1>17, <2>1, <3>3, <4>2
      <3>4. QED
        BY <3>1, <3>2, <3>3
    <2>3. ASSUME NEW j \in Stranded, NEW a \in OrdersOf(j)'
          PROVE  \/ a \in B /\ j = new /\ row'[a].wip = wip[a]
                 \/ a \in rest /\ j = g /\ row'[a].wip = wip[a]
                 \/ j # g /\ a \in OrdersOf(j) /\ row'[a].wip = row[a].wip
      BY <1>1, <1>4, <1>5, <1>6, <1>7, <2>3
    <2>4. ASSUME NEW b \in OrdersOf(k)', row'[b].wip # Nothing, NEW c \in Order \cap Rows',
                 row'[c].wip = row'[b].wip, row'[c].group # k, NEW x \in Header \cap Rows',
                 row'[x].group = row'[c].group
          PROVE  FALSE
      <3>0. PICK j \in Stranded : j = row'[c].group
        BY <1>12, <2>4
      <3>1. c \in OrdersOf(j)' /\ j # k
        BY <2>4, <3>0 DEF OrdersOf, RowsOf
      <3>2. \/ b \in B /\ k = new /\ row'[b].wip = wip[b]
            \/ b \in rest /\ k = g /\ row'[b].wip = wip[b]
            \/ k # g /\ b \in OrdersOf(k) /\ row'[b].wip = row[b].wip
        BY <2>1, <2>3, <2>4
      <3>3. \/ c \in B /\ j = new /\ row'[c].wip = wip[c]
            \/ c \in rest /\ j = g /\ row'[c].wip = wip[c]
            \/ j # g /\ c \in OrdersOf(j) /\ row'[c].wip = row[c].wip
        BY <2>3, <3>1
      <3>4. Supplied(row[b].group)
        BY <1>18, <2>4
      <3>5. CASE b \in OrdersOf(g) /\ c \in OrdersOf(g)
        <4>1. \A i \in Stranded : \A a \in OrdersOf(i) : a \in OrdersOf(g) => i = g
          BY DEF OrdersOf, RowsOf
        <4>2. \/ b \in B /\ c \in rest /\ k = new /\ row'[b].wip = wip[b] /\ row'[c].wip = wip[c]
              \/ b \in rest /\ c \in B /\ k = g /\ row'[b].wip = wip[b] /\ row'[c].wip = wip[c]
          BY <2>1, <3>1, <3>2, <3>3, <3>5, <4>1
        <4>3. k \in {g, new} /\ \A a \in OrdersOf(k)' : ~Parted(a)
          BY <1>18, <4>2
        <4>4. \A p \in B : \A q \in rest : wip[p] = wip[q] => wip[p] = Nothing
          BY <1>15, <4>3
        <4>5. QED
          BY <2>4, <4>2, <4>4
      <3>6. CASE b \in OrdersOf(g) /\ c \notin OrdersOf(g)
        <4>1. \A i \in Stranded : \A a \in OrdersOf(i) : a \in OrdersOf(g) => i = g
          BY DEF OrdersOf, RowsOf
        <4>2. row'[b].wip = wip[b] /\ row[b].group = g
          BY <1>13, <2>1, <3>2, <3>6, <4>1
        <4>3. j # g /\ c \in OrdersOf(j) /\ row'[c].wip = row[c].wip
          BY <3>3, <3>6
        <4>4. wip[b] = row[c].wip /\ wip[b] # Nothing
          BY <2>4, <4>2, <4>3
        <4>5. ~Supplied(g)
          BY <1>14, <3>1, <3>6, <4>3, <4>4
        <4>6. QED
          BY <3>4, <4>2, <4>5
      <3>7. CASE b \notin OrdersOf(g) /\ c \in OrdersOf(g)
        <4>1. \A i \in Stranded : \A a \in OrdersOf(i) : a \in OrdersOf(g) => i = g
          BY DEF OrdersOf, RowsOf
        <4>2. row'[c].wip = wip[c]
          BY <3>1, <3>3, <3>7, <4>1
        <4>3. k # g /\ b \in OrdersOf(k) /\ row'[b].wip = row[b].wip
          BY <3>2, <3>7
        <4>4. wip[c] = row[b].wip /\ wip[c] # Nothing
          BY <2>4, <4>2, <4>3
        <4>5. ~Supplied(k)
          BY <1>14, <2>1, <3>7, <4>3, <4>4
        <4>6. QED
          BY <1>13, <2>1, <3>4, <4>3, <4>5
      <3>8. CASE b \notin OrdersOf(g) /\ c \notin OrdersOf(g)
        <4>1. /\ b \in OrdersOf(k) /\ row'[b].wip = row[b].wip /\ row[b].group = k
              /\ c \in OrdersOf(j) /\ row'[c].wip = row[c].wip /\ row[c].group = j /\ HeadersOf(j) # {}
          BY <1>13, <2>1, <3>1, <3>2, <3>3, <3>8
        <4>2. c \in Order \cap Rows /\ row[c].wip = row[b].wip /\ row[b].wip # Nothing /\ row[c].group # k
              /\ HeadersOf(row[c].group) # {}
          BY <2>4, <3>1, <4>1 DEF OrdersOf, RowsOf
        <4>3. ~Supplied(k)
          BY <4>1, <4>2 DEF Supplied
        <4>4. QED
          BY <3>4, <4>1, <4>3
      <3>9. QED
        BY <3>5, <3>6, <3>7, <3>8
    <2>5. QED
      BY <2>2, <2>4 DEF Supplied, HeadersOf, RowsOf
  <1>19. QED
    BY <1>12, <1>18 DEF HeadersTell, StaysSupplied

(* Orders B in another group.                                              *)
Moved(B, new) == [b \in Rows |-> IF b \in B THEN [row[b] EXCEPT !.group = new] ELSE row[b]]

(* A split of a group without a header touches no group with one.          *)
LEMMA PlainSplitSupplies ==
    ASSUME RowsTyped, NEW Stranded, HeadersTell(Stranded),
           NEW g \in Groups, NEW new \in Groups, g \notin Stranded, new \notin Stranded, NEW B \in SUBSET OrdersOf(g),
           row' = Moved(B, new)
    PROVE  HeadersTell(Stranded)' /\ \A k \in Groups : StaysSupplied(k)
  <1>1. Rows' = Rows /\ \A b \in Rows : row'[b] = IF b \in B THEN [row[b] EXCEPT !.group = new] ELSE row[b]
    BY DEF Rows, Moved
  <1>2. ASSUME NEW b \in B
        PROVE  b \in Rows /\ row[b].group = g /\ row'[b].group = new /\ row'[b].wip = row[b].wip
    <2>1. b \in Rows /\ row[b].group = g /\ row[b] \in Row
      BY RowsAreTyped DEF OrdersOf, RowsOf
    <2>2. row'[b] = [row[b] EXCEPT !.group = new]
      BY <1>1, <2>1
    <2>3. QED
      BY <2>1, <2>2 DEF Row
  <1>3. ASSUME NEW b \in Rows
        PROVE  /\ row'[b].wip = row[b].wip
               /\ row'[b] = row[b] \/ (row[b].group \notin Stranded /\ row'[b].group \notin Stranded)
    <2>1. CASE b \in B
      BY <1>2, <2>1
    <2>2. CASE b \notin B
      <3>1. row'[b] = row[b]
        BY <1>1, <2>2, Zenon
      <3>2. QED
        BY <3>1
    <2>3. QED
      BY <2>1, <2>2
  <1>4. ASSUME NEW k \in Stranded
        PROVE  /\ OrdersOf(k)' = OrdersOf(k) /\ HeadersOf(k)' = HeadersOf(k) /\ WipOf(k)' = WipOf(k)
               /\ \A x \in HeadersOf(k) : row'[x] = row[x]
    <2>1. OrdersOf(k)' = OrdersOf(k) /\ HeadersOf(k)' = HeadersOf(k)
      BY <1>1, <1>3 DEF OrdersOf, HeadersOf, RowsOf
    <2>2. \A b \in OrdersOf(k) : row'[b].wip = row[b].wip
      BY <1>3 DEF OrdersOf, RowsOf
    <2>3. WipOf(k)' = WipOf(k)
      BY <2>1, <2>2 DEF WipOf
    <2>4. \A x \in HeadersOf(k) : row'[x] = row[x]
      BY <1>3 DEF HeadersOf, RowsOf
    <2>5. QED
      BY <2>1, <2>3, <2>4
  <1>5. \A x \in Header \cap Rows' : row'[x].group \in Stranded /\ row'[x] = row[x]
    BY <1>1, <1>3 DEF HeadersTell
  <1>6. ASSUME NEW k \in Stranded PROVE MakesEnough(k)' <=> MakesEnough(k)
    <2> DEFINE gives(B1, w1) == Total([w \in Used(B1, w1) |-> Min({SumLen(Users(B1, w1, w)), StockLen[w]})])
               f == [x \in HeadersOf(k) |-> row[x].lots * LotSize]
               e == [x \in HeadersOf(k)' |-> row'[x].lots * LotSize]
    <2>1. e = f
      <3>1. \A x \in HeadersOf(k) : row'[x].lots * LotSize = row[x].lots * LotSize
        BY <1>4
      <3>2. HeadersOf(k)' = HeadersOf(k)
        BY <1>4
      <3>3. QED
        BY <3>1, <3>2
    <2>2. MakesEnough(k) <=> SumLen(OrdersOf(k)) <= Total(f) + gives(OrdersOf(k), WipOf(k))
      BY Zenon DEF MakesEnough
    <2>3. MakesEnough(k)' <=> SumLen(OrdersOf(k)') <= Total(e) + gives(OrdersOf(k)', WipOf(k)')
      BY Zenon DEF MakesEnough
    <2> HIDE DEF gives, e, f
    <2>4. QED
      BY <1>4, <2>1, <2>2, <2>3
  <1>7. ASSUME NEW k \in Groups, HeadersOf(k)' # {},
               \A b \in OrdersOf(k)' : Supplied(row[b].group) /\ ~Parted(b)
        PROVE  Supplied(k)'
    <2>1. k \in Stranded
      BY <1>5, <1>7 DEF HeadersOf, RowsOf
    <2>2. Supplied(k)
      <3>1. \A b \in OrdersOf(k) : row[b].group = k
        BY DEF OrdersOf, RowsOf
      <3>2. QED
        BY <1>4, <1>7, <2>1, <3>1, NoneIsSupplied
    <2>3. ASSUME NEW b \in OrdersOf(k)', row'[b].wip # Nothing, NEW c \in Order \cap Rows',
                 row'[c].wip = row'[b].wip, row'[c].group # k, NEW x \in Header \cap Rows',
                 row'[x].group = row'[c].group
          PROVE  FALSE
      <3>1. row'[c].group \in Stranded
        BY <1>5, <2>3
      <3>2. c \in Order \cap Rows /\ row'[c] = row[c]
        BY <1>1, <1>3, <3>1
      <3>3. b \in OrdersOf(k) /\ row'[b].wip = row[b].wip
        BY <1>3, <1>4, <2>1 DEF OrdersOf, RowsOf
      <3>4. HeadersOf(row[c].group) # {}
        BY <1>1, <1>5, <2>3, <3>2 DEF HeadersOf, RowsOf
      <3>5. row[c].wip = row[b].wip /\ row[b].wip # Nothing /\ row[c].group # k
        BY <2>3, <3>2, <3>3
      <3>6. QED
        BY <2>2, <3>2, <3>3, <3>4, <3>5 DEF Supplied
    <2>4. QED
      BY <1>6, <2>1, <2>2, <2>3 DEF Supplied, HeadersOf, RowsOf
  <1>8. HeadersTell(Stranded)'
    BY <1>4, <1>5 DEF HeadersTell
  <1>9. QED
    BY <1>7, <1>8 DEF StaysSupplied

LEMMA SplitSupplies ==
    ASSUME RowsTyped, NEW Stranded, NamesTell(Stranded), HeadersTell(Stranded),
           NEW g \in Groups, NEW new \in Suffixed[g], NEW B \in SUBSET Order, Split(g, B, new)
    PROVE  HeadersTell(Stranded)' /\ \A k \in Groups : StaysSupplied(k)
  <1>1. /\ new \in Groups \ {g} /\ B \in SUBSET OrdersOf(g) /\ B # {}
        /\ g \in Stranded <=> new \in Stranded
    BY BatchGroupsAssumption DEF Split, NamesTell
  <1>2. CASE HeadersOf(g) = {} /\ row' = [b \in Rows |-> IF b \in B THEN [row[b] EXCEPT !.group = new] ELSE row[b]]
    <2>1. g \notin Stranded /\ new \notin Stranded
      BY <1>1, <1>2 DEF HeadersTell
    <2>2. QED
      <3>1. new \in Groups /\ row' = Moved(B, new)
        BY <1>1, <1>2 DEF Moved
      <3>2. QED
        BY <1>1, <2>1, <3>1, PlainSplitSupplies
  <1>3. ASSUME NEW h \in HeadersOf(g), NEW n \in Header \ Rows,
               row' = Divided(g, B, new, h, n, Rematch(B, OrdersOf(g) \ B, WipOf(g)))
        PROVE  HeadersTell(Stranded)' /\ \A k \in Groups : StaysSupplied(k)
    <2> DEFINE rest  == OrdersOf(g) \ B
               wip   == WipOf(g)
               after == Rematch(B, rest, wip)
    <2>1. g \in Stranded /\ new \in Stranded
      BY <1>1 DEF HeadersTell, HeadersOf, RowsOf
    <2>2. /\ B \in SUBSET Order /\ rest \in SUBSET Order /\ B \cap rest = {} /\ B \cup rest = OrdersOf(g)
      BY <1>1 DEF OrdersOf
    <2>3. wip \in [OrdersOf(g) -> Stock \cup {Nothing}] /\ \A b \in OrdersOf(g) : wip[b] = row[b].wip
      BY OrdersHaveStock
    <2> HIDE DEF rest, wip
    <2>4. after \in [OrdersOf(g) -> Stock \cup {Nothing}]
      BY <2>2, <2>3, RematchHandsOutStock
    <2> HIDE DEF after
    <2>5. row' = Divided(g, B, new, h, n, after)
      BY <1>3 DEF after, rest, wip
    <2>6. /\ (\A b \in B : \A c \in rest : wip[b] = wip[c] => wip[b] = Nothing) =>
                \A b \in B : \A c \in rest : after[b] = after[c] => after[b] = Nothing
          /\ \A b \in B \cup rest : after[b] \in Used(B \cup rest, wip) \cup {Nothing}
      <3>1. DOMAIN wip = B \cup rest /\ \A b \in B \cup rest : wip[b] \in Stock \cup {Nothing}
        BY <2>2, <2>3
      <3>2. QED
        BY <2>2, <3>1, RematchKeepsApart DEF after
    <2>7. (\A b \in B : \A c \in OrdersOf(g) \ B : row[b].wip = row[c].wip => row[b].wip = Nothing) =>
             \A b \in B : \A c \in OrdersOf(g) \ B : after[b] = after[c] => after[b] = Nothing
      BY <2>2, <2>3, <2>6 DEF rest
    <2>8. \A b \in OrdersOf(g) : after[b] \in Used(OrdersOf(g), WipOf(g)) \cup {Nothing}
      BY <2>2, <2>6 DEF wip
    <2>9. QED
      BY <1>1, <2>1, <2>4, <2>5, <2>7, <2>8, DivisionSupplies
  <1>4. QED
    BY <1>2, <1>3 DEF Split

LEMMA StepSupplies ==
    ASSUME RowsTyped, NEW Stranded, NamesTell(Stranded), HeadersTell(Stranded), [Next]_vars
    PROVE  HeadersTell(Stranded)' /\ (Held' # Held => \A k \in Groups : StaysSupplied(k))
  <1>1. ASSUME NEW B, NEW s \in Statuses, row' = WithStatus(B, s) PROVE Held' = Held
    <2>1. Rows' = Rows /\ \A b \in Rows : row'[b] = IF b \in B THEN [row[b] EXCEPT !.status = s] ELSE row[b]
      BY <1>1 DEF WithStatus, Rows
    <2>2. ASSUME NEW b \in Rows
          PROVE  row'[b].group = row[b].group /\ row'[b].wip = row[b].wip /\ row'[b].lots = row[b].lots
      <3>1. row[b] \in Row
        BY RowsAreTyped
      <3>2. QED
        BY <2>1, <3>1 DEF Row
    <2>3. QED
      BY <2>1, <2>2 DEF Held
  <1>2. ASSUME row' = row PROVE Held' = Held
    BY <1>2 DEF Held, Rows
  <1>3. "planned" \in Statuses /\ "scheduled" \in Statuses /\ "unassigned" \in Statuses /\ NewStatuses \subseteq Statuses
    BY BatchGroupsAssumption DEF Statuses
  <1>4. ASSUME NEW g \in Groups, Unassign(g) \/ Restore(g) PROVE Held' = Held
    BY <1>1, <1>3, <1>4 DEF Unassign, Restore
  <1>5. ASSUME NEW g \in Groups, NEW new \in Suffixed[g], NEW B \in SUBSET Order, Split(g, B, new)
        PROVE  HeadersTell(Stranded)' /\ \A k \in Groups : StaysSupplied(k)
    BY <1>5, SplitSupplies
  <1>6. ASSUME NEW s \in NewStatuses,
               \/ \E b \in Batch : UpdateBatchStatus(b, s) \/ UpdateBatch(b, s)
               \/ \E g \in Groups : UpdateBatchGroupStatus(g, s)
        PROVE  Held' = Held
    <2>1. \E B : row' = WithStatus(B, s)
      BY <1>6 DEF UpdateBatchStatus, UpdateBatch, UpdateBatchGroupStatus, SetStatus
    <2>2. QED
      BY <1>1, <1>3, <2>1
  <1>7. ASSUME NEW p \in Places, (\E t \in task : Move(t, p)) \/ (\E g \in Groups : RestoreAt(g, p))
        PROVE  Held' = Held
    <2>1. row' = row
      BY <1>7 DEF Move, RestoreAt
    <2>2. QED
      BY <1>2, <2>1
  <1>8. ASSUME NEW placing \in [PlannedGroups -> Places], Stage2(placing) PROVE Held' = Held
    BY <1>1, <1>3, <1>8 DEF Stage2
  <1>9. CASE UNCHANGED vars
    BY <1>2, <1>9, HeldAsBefore DEF vars
  <1>10. QED
    BY <1>4, <1>5, <1>6, <1>7, <1>8, <1>9, HeldAsBefore DEF Next

(* Every part of a split group makes enough for its orders beside the      *)
(* stock they have, for any orders, lengths, stock and lots and however    *)
(* often groups are split: only an order from a group that was short, or   *)
(* one taken apart from another with the same stock, leaves a group short  *)
(* (split_batch_group, _group_net).  The names of the groups must tell     *)
(* which have headers, and stage 1 must have given them theirs.            *)
THEOREM EnoughIsAlwaysMade ==
    ASSUME NEW Stranded, NamesTell(Stranded)
    PROVE  Spec /\ HeadersTell(Stranded) => EnoughIsMade
  <1>1. Init => RowsTyped
    BY BatchGroupsAssumption DEF Init, RowsTyped, Rows
  <1>2. RowsTyped /\ [Next]_vars => RowsTyped'
    BY RowsStayTyped
  <1>3. RowsTyped /\ HeadersTell(Stranded) /\ [Next]_vars => HeadersTell(Stranded)'
    BY StepSupplies
  <1>4. RowsTyped /\ HeadersTell(Stranded) /\ [Next]_vars =>
          [Held' # Held =>
             \A g \in Groups : HeadersOf(g)' # {} /\ ~Supplied(g)' =>
                \E b \in OrdersOf(g)' : ~Supplied(row[b].group) \/ Parted(b)]_vars
    BY StepSupplies DEF StaysSupplied
  <1>5. QED
    BY <1>1, <1>2, <1>3, <1>4, PTL DEF Spec, EnoughIsMade

(* As long as every group is supplied, all that the headers have made and  *)
(* the stock gives is enough for all orders together (_group_net).         *)
THEOREM SuppliedIsEnoughInAll == Spec => []((\A g \in Groups : HeadersOf(g) # {} => Supplied(g)) => EnoughInAll)
  <1>1. Init => RowsTyped
    BY BatchGroupsAssumption DEF Init, RowsTyped, Rows
  <1>2. RowsTyped /\ [Next]_vars => RowsTyped'
    BY RowsStayTyped
  <1>3. RowsTyped => ((\A g \in Groups : HeadersOf(g) # {} => Supplied(g)) => EnoughInAll)
    BY SuppliedIsEnough
  <1>4. QED
    BY <1>1, <1>2, <1>3, PTL DEF Spec

=============================================================================
