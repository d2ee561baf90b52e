-------------------------- MODULE ChangeSetsProofs --------------------------
(***************************************************************************)
(* What stays true of manual changes when any number of sessions use any   *)
(* of the endpoints at once and tasks are deleted in between.              *)
(*                                                                         *)
(* First the types.  Then UseInv, which says what a request that has read  *)
(* still knows when it writes: the rows an update is about to set were     *)
(* checked against each other, and an undo holds the rows of the change    *)
(* set with its stamp, for no stamp is ever given twice.                   *)
(*                                                                         *)
(* The second half is about serial use of bulk update and revert: no       *)
(* machine ever runs two tasks, the change sets form a chain, and together *)
(* the two endpoints implement the undo stack.  All of it follows from     *)
(* UndoInv, whose heart is that neither a commit nor an undo changes the   *)
(* plans the remaining undos lead to (PushKeepsPast, PopKeepsPast).        *)
(*                                                                         *)
(* Last, what a planner is shown before a change and an undo (Views).      *)
(***************************************************************************)
EXTENDS Views, FiniteSetTheorems, WellFoundedInduction, TLAPS

-----------------------------------------------------------------------------
(* Types *)

LEMMA TargetType ==
    ASSUME NEW r \in Row, NEW c \in Change
    PROVE  Target(r, c) \in Row
  BY ChangeSetsAssumption DEF Target, Change, Row

LEMMA RowsOfType ==
    ASSUME NEW p \in Plan, NEW D
    PROVE  RowsOf(p, D) \in Plan
  BY DEF RowsOf, Plan

LEMMA NoRowsType == NoRows \in Plan
  BY DEF NoRows, Plan

LEMMA IdleType == Idle \in Txn
  BY NoRowsType DEF Idle, Txn

LEMMA AnswerType ==
    ASSUME TypeOK, NEW s \in Session, NEW r \in Replies, Answer(s, r)
    PROVE  txn' \in [Session -> Txn] /\ reply' \in [Session -> Replies]
  BY IdleType DEF TypeOK, Answer

LEMMA ProceedType ==
    ASSUME TypeOK, NEW s \in Session, NEW x \in Txn, Proceed(s, x)
    PROVE  txn' \in [Session -> Txn] /\ reply' \in [Session -> Replies]
  BY DEF TypeOK, Proceed, Replies

(* A change in a request is for one task and has the type of a change.     *)
LEMMA ChangesType ==
    ASSUME NEW ch \in Changes
    PROVE  DOMAIN ch \subseteq Task /\ \A t \in DOMAIN ch : ch[t] \in Change
  BY DEF Changes

LEMMA AppliedType ==
    ASSUME TypeOK, NEW ch \in Changes, \A t \in DOMAIN ch : schedule[t] # NoRow
    PROVE  Applied(ch) \in Plan
  <1>1. \A t \in RealChanges(ch) : Target(schedule[t], ch[t]) \in Row
    BY ChangesType, TargetType DEF RealChanges, TypeOK, Plan
  <1>2. QED
    BY <1>1 DEF Applied, TypeOK, Plan

LEMMA FlushedType ==
    ASSUME TypeOK, NEW s \in Session, ~RowVanished(txn[s])
    PROVE  Flushed(txn[s]) \in Plan
  <1> DEFINE x == txn[s]
  <1>1. x \in Txn
    BY DEF TypeOK
  <1>2. ASSUME NEW t \in Dirty(x)
        PROVE  WriteColumns(schedule[t], x.from[t], x.to[t]) \in Row
    <2>1. t \in Task /\ schedule[t] \in Row /\ x.to[t] \in Row
      BY <1>1, <1>2 DEF Dirty, Live, RowVanished, TypeOK, Txn, Plan
    <2>2. QED
      BY <2>1 DEF WriteColumns, Row
  <1>3. QED
    BY <1>2 DEF Flushed, TypeOK, Plan

LEMMA TypeInit == Init => TypeOK
  <1> SUFFICES ASSUME Init PROVE TypeOK
    OBVIOUS
  <1>1. schedule \in Plan
    BY ChangeSetsAssumption DEF Init, Plan, Row
  <1>2. clock \in 1 .. MaxChangeSets + 1
    BY ChangeSetsAssumption DEF Init
  <1>3. QED
    BY <1>1, <1>2, IdleType DEF Init, TypeOK, Replies

LEMMA AbandonType ==
    ASSUME TypeOK, NEW s \in Session, AbandonOnVanishedRow(s)
    PROVE  TypeOK'
  BY AnswerType DEF AbandonOnVanishedRow, TypeOK, Replies

LEMMA BulkUpdateType ==
    ASSUME TypeOK, NEW s \in Session
    PROVE  /\ \A ch \in Changes : BulkUpdateAnswer(s, ch) => TypeOK'
           /\ \A ch \in Changes : BulkUpdateValidate(s, ch) => TypeOK'
           /\ BulkUpdateInsert(s) => TypeOK'
           /\ BulkUpdateCommit(s) => TypeOK'
  <1>1. ASSUME NEW ch \in Changes, BulkUpdateAnswer(s, ch) PROVE TypeOK'
    <2>1. Screening(ch) \in Replies \cup {"accept"}
      BY DEF Screening, Verdict, Replies
    <2>2. QED
      BY <1>1, <2>1, AnswerType DEF BulkUpdateAnswer, TypeOK
  <1>2. ASSUME NEW ch \in Changes, BulkUpdateValidate(s, ch) PROVE TypeOK'
    <2>1. \A t \in DOMAIN ch : schedule[t] # NoRow
      BY <1>2 DEF BulkUpdateValidate, Screening
    <2>2. /\ RowsOf(schedule, RealChanges(ch)) \in Plan
          /\ RowsOf(Applied(ch), RealChanges(ch)) \in Plan
      BY <2>1, AppliedType, RowsOfType DEF TypeOK
    <2>3. [op |-> "validated",
           from |-> RowsOf(schedule, RealChanges(ch)),
           to |-> RowsOf(Applied(ch), RealChanges(ch)),
           stamp |-> 0] \in Txn
      BY <2>2 DEF Txn
    <2>4. QED
      BY <1>2, <2>3, ProceedType DEF BulkUpdateValidate, TypeOK
  <1>3. ASSUME BulkUpdateInsert(s) PROVE TypeOK'
    <2>1. clock \in Nat /\ clock' \in 1 .. MaxChangeSets + 1
      BY <1>3, ChangeSetsAssumption DEF BulkUpdateInsert, TypeOK
    <2>2. [op |-> "stamped", from |-> txn[s].from, to |-> txn[s].to,
           stamp |-> clock] \in Txn
      BY <2>1 DEF TypeOK, Txn
    <2>3. QED
      BY <1>3, <2>1, <2>2, ProceedType DEF BulkUpdateInsert, TypeOK
  <1>4. ASSUME BulkUpdateCommit(s) PROVE TypeOK'
    <2>1. schedule' \in Plan
      BY <1>4, FlushedType DEF BulkUpdateCommit
    <2>2. change_sets' \subseteq ChangeSet
      BY <1>4 DEF BulkUpdateCommit, TypeOK, Txn, ChangeSet
    <2>3. QED
      BY <1>4, <2>1, <2>2, AnswerType DEF BulkUpdateCommit, TypeOK, Replies
  <1>5. QED
    BY <1>1, <1>2, <1>3, <1>4

LEMMA RevertType ==
    ASSUME TypeOK, NEW s \in Session
    PROVE  /\ RevertUnknown(s) => TypeOK'
           /\ \A cs \in change_sets : RevertRefuse(s, cs) => TypeOK'
           /\ \A cs \in change_sets : RevertRead(s, cs) => TypeOK'
           /\ RevertCommit(s) => TypeOK'
  <1>1. ASSUME RevertUnknown(s) PROVE TypeOK'
    BY <1>1, AnswerType DEF RevertUnknown, TypeOK, Replies
  <1>2. ASSUME NEW cs \in change_sets, RevertRefuse(s, cs) PROVE TypeOK'
    BY <1>2, AnswerType DEF RevertRefuse, TypeOK, Replies
  <1>3. ASSUME NEW cs \in change_sets, RevertRead(s, cs) PROVE TypeOK'
    <2> DEFINE present == Live(cs.before) \cap Live(schedule)
    <2>1. cs \in ChangeSet
      BY DEF TypeOK
    <2>2. RowsOf(schedule, present) \in Plan /\ RowsOf(cs.before, present) \in Plan
      BY <2>1, RowsOfType DEF TypeOK, ChangeSet
    <2>3. [op |-> "revert", from |-> RowsOf(schedule, present),
           to |-> RowsOf(cs.before, present), stamp |-> cs.created_at] \in Txn
      BY <2>1, <2>2 DEF Txn, ChangeSet
    <2>4. QED
      BY <1>3, <2>3, ProceedType DEF RevertRead, TypeOK
  <1>4. ASSUME RevertCommit(s) PROVE TypeOK'
    <2>1. schedule' \in Plan
      BY <1>4, FlushedType DEF RevertCommit
    <2>2. QED
      BY <1>4, <2>1, AnswerType DEF RevertCommit, TypeOK, Replies
  <1>5. QED
    BY <1>1, <1>2, <1>3, <1>4

LEMMA DirectType ==
    ASSUME TypeOK, NEW s \in Session
    PROVE  /\ \A ch \in Changes : LegacyRead(s, ch) => TypeOK'
           /\ \A t \in Task, c \in Change : UpdateTaskRead(s, t, c) => TypeOK'
           /\ \A t \in Task, c \in Change : DirectRefuse(s, t, c) => TypeOK'
           /\ DirectCommit(s) => TypeOK'
  <1>1. ASSUME NEW ch \in Changes, LegacyRead(s, ch) PROVE TypeOK'
    <2> DEFINE to == [t \in Task |-> IF t \in DOMAIN ch THEN Target(schedule[t], ch[t])
                                     ELSE NoRow]
    <2>1. \A t \in DOMAIN ch : schedule[t] \in Row /\ ch[t] \in Change
      BY <1>1, ChangesType DEF LegacyRead, TypeOK, Plan
    <2>2. to \in Plan
      BY <2>1, TargetType DEF Plan
    <2>3. [op |-> "direct", from |-> RowsOf(schedule, DOMAIN ch), to |-> to,
           stamp |-> 0] \in Txn
      BY <2>2, RowsOfType DEF Txn, TypeOK
    <2>4. QED
      BY <1>1, <2>3, ProceedType DEF LegacyRead, TypeOK
  <1>2. ASSUME NEW t \in Task, NEW c \in Change, UpdateTaskRead(s, t, c) PROVE TypeOK'
    <2> DEFINE to == [NoRows EXCEPT ![t] = Target(schedule[t], c)]
    <2>1. schedule[t] \in Row
      BY <1>2 DEF UpdateTaskRead, TypeOK, Plan
    <2>2. to \in Plan
      BY <2>1, TargetType, NoRowsType DEF Plan
    <2>3. [op |-> "direct", from |-> RowsOf(schedule, {t}), to |-> to, stamp |-> 0] \in Txn
      BY <2>2, RowsOfType DEF Txn, TypeOK
    <2>4. QED
      BY <1>2, <2>3, ProceedType DEF UpdateTaskRead, TypeOK
  <1>3. ASSUME NEW t \in Task, NEW c \in Change, DirectRefuse(s, t, c) PROVE TypeOK'
    BY <1>3, AnswerType DEF DirectRefuse, TypeOK, Replies
  <1>4. ASSUME DirectCommit(s) PROVE TypeOK'
    BY <1>4, AnswerType, FlushedType DEF DirectCommit, TypeOK, Replies
  <1>5. QED
    BY <1>1, <1>2, <1>3, <1>4

LEMMA TypeStep == TypeOK /\ [Next]_vars => TypeOK'
  <1> SUFFICES ASSUME TypeOK, [Next]_vars PROVE TypeOK'
    OBVIOUS
  <1>1. ASSUME NEW s \in Session, Begin(s) PROVE TypeOK'
    BY <1>1, BulkUpdateType, RevertType, DirectType DEF Begin
  <1>2. ASSUME NEW s \in Session, Finish(s) PROVE TypeOK'
    BY <1>2, BulkUpdateType, RevertType, DirectType, AbandonType
    DEF Finish, BulkUpdateAbandon, RevertAbandon, DirectAbandon
  <1>3. ASSUME NEW D \in SUBSET Task, DeleteTasks(D) PROVE TypeOK'
    BY <1>3 DEF DeleteTasks, TypeOK, Plan
  <1>4. CASE UNCHANGED vars
    BY <1>4 DEF vars, TypeOK
  <1>5. QED
    BY <1>1, <1>2, <1>3, <1>4 DEF Next

(* Every reachable state is well typed, with any number of sessions, any   *)
(* endpoints and any tasks.                                                *)
THEOREM TypeCorrect == Spec => []TypeOK
  BY TypeInit, TypeStep, PTL DEF Spec

-----------------------------------------------------------------------------
(* What a request still knows when it writes *)

Editing(x) == x.op \in {"validated", "stamped"}

(* An update changes every row it holds, and they fit together.            *)
EditsFit ==
    \A s \in Session : Editing(txn[s]) =>
       /\ NoOverlap(txn[s].to)
       /\ \A t \in Live(txn[s].to) : txn[s].to[t] # txn[s].from[t]

(* No two change sets, in the table or about to be, have the same stamp.   *)
StampsDiffer ==
    /\ \A c \in change_sets : c.created_at < clock
    /\ \A c, d \in change_sets : c.created_at = d.created_at => c = d
    /\ \A s \in Session : txn[s].op \in {"stamped", "revert"} => txn[s].stamp < clock
    /\ \A s \in Session : txn[s].op = "stamped" =>
          /\ \A c \in change_sets : c.created_at # txn[s].stamp
          /\ \A r \in Session : r # s /\ txn[r].op \in {"stamped", "revert"} => txn[r].stamp # txn[s].stamp

(* An undo holds what its change set recorded of the rows it has read.     *)
UndosAreRead ==
    \A s \in Session, c \in change_sets :
       txn[s].op = "revert" /\ txn[s].stamp = c.created_at =>
          \A t \in Live(c.before) : txn[s].from[t] # NoRow => txn[s].to[t] = c.before[t]

UseInv == TypeOK /\ ChangeSetsAreSound /\ EditsFit /\ StampsDiffer /\ UndosAreRead

Steady == UNCHANGED <<change_sets, clock>>

-----------------------------------------------------------------------------
(* A check that finds no overlap of the changed tasks has looked at each   *)
(* pair of them.                                                           *)
LEMMA CheckedRowsFit ==
    ASSUME NEW p \in Plan, NEW D \in SUBSET Task, FindSameEqOverlap(D, p) = {}
    PROVE  NoOverlap(RowsOf(p, D))
  <1> DEFINE q == RowsOf(p, D)
  <1> SUFFICES ASSUME NEW t \in Live(q), NEW o \in Live(q), t # o PROVE ~Overlap(q[t], q[o])
    BY DEF NoOverlap
  <1>1. t \in D /\ o \in D /\ q[t] = p[t] /\ q[o] = p[o]
    BY DEF Live, RowsOf
  <1>2. o \in Live(p) \ {t}
    BY <1>1 DEF Live, RowsOf
  <1>3. SameEquipmentOverlapping(t, p) = {}
    BY <1>1 DEF FindSameEqOverlap
  <1>4. QED
    BY <1>1, <1>2, <1>3 DEF SameEquipmentOverlapping

LEMMA UseInit == Init => UseInv
  <1> SUFFICES ASSUME Init PROVE UseInv
    OBVIOUS
  <1>1. TypeOK
    BY TypeInit
  <1>2. \A s \in Session : txn[s].op = "none"
    BY DEF Init, Idle
  <1>3. QED
    BY <1>1, <1>2 DEF UseInv, Init, ChangeSetsAreSound, EditsFit, Editing, StampsDiffer, UndosAreRead

(* A request that is over leaves the others as they were.                  *)
LEMMA OthersGoOn ==
    ASSUME UseInv, TypeOK', NEW s \in Session, NEW x \in Txn,
           txn' = [txn EXCEPT ![s] = x], Steady,
           Editing(x) => /\ NoOverlap(x.to)
                         /\ \A t \in Live(x.to) : x.to[t] # x.from[t],
           x.op # "stamped",
           x.op = "revert" => \E c \in change_sets :
                                 /\ x.stamp = c.created_at
                                 /\ \A t \in Live(c.before) : x.from[t] # NoRow => x.to[t] = c.before[t]
    PROVE  UseInv'
  <1> USE DEF UseInv, Steady
  <1>1. txn'[s] = x /\ \A r \in Session \ {s} : txn'[r] = txn[r]
    BY DEF TypeOK
  <1>2. ChangeSetsAreSound'
    BY DEF ChangeSetsAreSound
  <1>3. EditsFit'
    BY <1>1 DEF EditsFit
  <1>4. x.op = "revert" =>
          /\ x.stamp < clock
          /\ \A r \in Session : txn[r].op = "stamped" => txn[r].stamp # x.stamp
    BY DEF StampsDiffer
  <1>5. StampsDiffer'
    BY <1>1, <1>4 DEF StampsDiffer
  <1>6. UndosAreRead'
    BY <1>1 DEF UndosAreRead, StampsDiffer
  <1>7. QED
    BY <1>2, <1>3, <1>5, <1>6

LEMMA AnswerStep ==
    ASSUME UseInv, TypeOK', NEW s \in Session, NEW r, Answer(s, r), Steady
    PROVE  UseInv'
  <1>1. Idle \in Txn /\ Idle.op = "none"
    BY IdleType DEF Idle
  <1>2. txn' = [txn EXCEPT ![s] = Idle]
    BY DEF Answer
  <1>3. QED
    BY <1>1, <1>2, OthersGoOn DEF Editing

(* What bulk_update_v2 is about to write has passed its check.             *)
LEMMA ValidateStep ==
    ASSUME UseInv, TypeOK', NEW s \in Session, NEW ch \in Changes, BulkUpdateValidate(s, ch)
    PROVE  UseInv'
  <1> DEFINE D == RealChanges(ch)
             x == [op |-> "validated", from |-> RowsOf(schedule, D),
                   to |-> RowsOf(Applied(ch), D), stamp |-> 0]
  <1>1. \A t \in DOMAIN ch : schedule[t] # NoRow
    BY DEF BulkUpdateValidate, Screening
  <1>2. Applied(ch) \in Plan /\ D \in SUBSET Task
    BY <1>1, AppliedType, ChangesType DEF UseInv, RealChanges
  <1>3. FindSameEqOverlap(D, Applied(ch)) = {}
    BY DEF BulkUpdateValidate, Screening, Verdict
  <1>4. NoOverlap(x.to)
    BY <1>2, <1>3, CheckedRowsFit
  <1>5. \A t \in Live(x.to) : x.to[t] # x.from[t]
    BY <1>2 DEF Live, RowsOf, Applied, RealChanges
  <1>6. x \in Txn
    BY <1>2, RowsOfType DEF Txn, UseInv, TypeOK
  <1>7. txn' = [txn EXCEPT ![s] = x] /\ Steady
    BY DEF BulkUpdateValidate, Proceed, Steady
  <1>8. QED
    BY <1>4, <1>5, <1>6, <1>7, OthersGoOn

(* The stamp an update takes is newer than all that were given.            *)
LEMMA InsertStep ==
    ASSUME UseInv, TypeOK', NEW s \in Session, BulkUpdateInsert(s)
    PROVE  UseInv'
  <1> USE DEF UseInv
  <1> DEFINE x == [op |-> "stamped", from |-> txn[s].from, to |-> txn[s].to, stamp |-> clock]
  <1>1. /\ txn[s].op = "validated" /\ clock' = clock + 1 /\ clock \in Nat
        /\ UNCHANGED change_sets
        /\ txn'[s] = x /\ \A r \in Session \ {s} : txn'[r] = txn[r]
    BY ChangeSetsAssumption DEF BulkUpdateInsert, Proceed, TypeOK
  <1>2. ChangeSetsAreSound' /\ EditsFit' /\ UndosAreRead'
    BY <1>1 DEF ChangeSetsAreSound, EditsFit, Editing, UndosAreRead
  <1>3. \A c \in change_sets : c.created_at \in Nat /\ c.created_at < clock
    BY DEF TypeOK, ChangeSet, StampsDiffer
  <1>4. \A r \in Session : /\ txn[r].stamp \in Nat
                           /\ txn[r].op \in {"stamped", "revert"} => txn[r].stamp < clock
    BY DEF TypeOK, Txn, StampsDiffer
  <1>5. StampsDiffer'
    <2>1. \A c \in change_sets' : c.created_at < clock'
      BY <1>1, <1>3
    <2>2. \A r \in Session : txn'[r].op \in {"stamped", "revert"} => txn'[r].stamp < clock'
      BY <1>1, <1>4
    <2>3. \A r \in Session : txn'[r].op = "stamped" =>
             /\ \A c \in change_sets' : c.created_at # txn'[r].stamp
             /\ \A q \in Session : q # r /\ txn'[q].op \in {"stamped", "revert"}
                                     => txn'[q].stamp # txn'[r].stamp
      <3> SUFFICES ASSUME NEW r \in Session, txn'[r].op = "stamped"
                   PROVE  /\ \A c \in change_sets : c.created_at # txn'[r].stamp
                          /\ \A q \in Session : q # r /\ txn'[q].op \in {"stamped", "revert"}
                                                  => txn'[q].stamp # txn'[r].stamp
        BY <1>1
      <3>1. CASE r = s
        BY <1>1, <1>3, <1>4, <3>1
      <3>2. CASE r # s
        BY <1>1, <1>4, <3>2 DEF StampsDiffer
      <3>3. QED
        BY <3>1, <3>2
    <2>4. \A c, d \in change_sets' : c.created_at = d.created_at => c = d
      BY <1>1 DEF StampsDiffer
    <2>5. QED
      BY <2>1, <2>2, <2>3, <2>4 DEF StampsDiffer
  <1>6. QED
    BY <1>2, <1>5

LEMMA CommitUse ==
    ASSUME UseInv, TypeOK', NEW s \in Session, BulkUpdateCommit(s)
    PROVE  UseInv'
  <1> USE DEF UseInv
  <1> DEFINE x == txn[s]
             new == [created_at |-> x.stamp, before |-> x.from, after |-> x.to]
  <1>1. /\ x.op = "stamped" /\ change_sets' = change_sets \cup {new} /\ clock' = clock
        /\ txn'[s].op = "none" /\ \A r \in Session \ {s} : txn'[r] = txn[r]
    BY DEF BulkUpdateCommit, Answer, TypeOK, Idle
  <1>2. ChangeSetsAreSound'
    BY <1>1 DEF ChangeSetsAreSound, EditsFit, Editing, NoOverlap
  <1>3. EditsFit'
    BY <1>1 DEF EditsFit, Editing
  <1>4. /\ x.stamp < clock
        /\ \A c \in change_sets : c.created_at # x.stamp
        /\ \A r \in Session \ {s} : txn[r].op \in {"stamped", "revert"} => txn[r].stamp # x.stamp
    BY <1>1 DEF StampsDiffer
  <1>5. StampsDiffer'
    BY <1>1, <1>4 DEF StampsDiffer
  <1>6. UndosAreRead'
    BY <1>1, <1>4 DEF UndosAreRead
  <1>7. QED
    BY <1>2, <1>3, <1>5, <1>6

LEMMA RevertUse ==
    ASSUME UseInv, TypeOK', NEW s \in Session
    PROVE  /\ \A cs \in change_sets : RevertRead(s, cs) => UseInv'
           /\ RevertCommit(s) => UseInv'
  <1>1. ASSUME NEW cs \in change_sets, RevertRead(s, cs) PROVE UseInv'
    <2> DEFINE present == Live(cs.before) \cap Live(schedule)
               x == [op |-> "revert", from |-> RowsOf(schedule, present),
                     to |-> RowsOf(cs.before, present), stamp |-> cs.created_at]
    <2>1. txn' = [txn EXCEPT ![s] = x] /\ Steady
      BY <1>1 DEF RevertRead, Proceed, Steady
    <2>2. x \in Txn
      BY RowsOfType DEF Txn, UseInv, TypeOK, ChangeSet
    <2>3. \A t \in Live(cs.before) : x.from[t] # NoRow => x.to[t] = cs.before[t]
      BY DEF Live, RowsOf
    <2>4. QED
      BY <2>1, <2>2, <2>3, OthersGoOn DEF Editing
  <1>2. ASSUME RevertCommit(s) PROVE UseInv'
    <2>1. /\ change_sets' \subseteq change_sets /\ clock' = clock
          /\ txn'[s].op = "none" /\ \A r \in Session \ {s} : txn'[r] = txn[r]
      BY <1>2 DEF RevertCommit, Answer, UseInv, TypeOK, Idle
    <2>2. ChangeSetsAreSound' /\ EditsFit'
      BY <2>1 DEF UseInv, ChangeSetsAreSound, EditsFit, Editing
    <2>3. StampsDiffer' /\ UndosAreRead'
      BY <2>1 DEF UseInv, StampsDiffer, UndosAreRead
    <2>4. QED
      BY <2>2, <2>3 DEF UseInv
  <1>3. QED
    BY <1>1, <1>2

LEMMA DirectUse ==
    ASSUME UseInv, TypeOK', NEW s \in Session
    PROVE  /\ \A ch \in Changes : LegacyRead(s, ch) => UseInv'
           /\ \A t \in Task, c \in Change : UpdateTaskRead(s, t, c) => UseInv'
  <1>1. ASSUME NEW x, x.op = "direct", Proceed(s, x), Steady PROVE UseInv'
    <2>1. txn'[s] = x /\ txn' = [txn EXCEPT ![s] = x] /\ x \in Txn
      BY <1>1 DEF Proceed, UseInv, TypeOK
    <2>2. QED
      BY <1>1, <2>1, OthersGoOn DEF Editing
  <1>2. \A ch \in Changes : LegacyRead(s, ch) => UseInv'
    BY <1>1 DEF LegacyRead, Steady
  <1>3. \A t \in Task, c \in Change : UpdateTaskRead(s, t, c) => UseInv'
    BY <1>1 DEF UpdateTaskRead, Steady
  <1>4. QED
    BY <1>2, <1>3

LEMMA UseStep == UseInv /\ TypeOK' /\ [Next]_vars => UseInv'
  <1> SUFFICES ASSUME UseInv, TypeOK', [Next]_vars PROVE UseInv'
    OBVIOUS
  <1>1. ASSUME NEW s \in Session, Begin(s) PROVE UseInv'
    <2>1. ASSUME NEW ch \in Changes, BulkUpdateAnswer(s, ch) PROVE UseInv'
      BY <2>1, AnswerStep DEF BulkUpdateAnswer, Steady
    <2>2. ASSUME RevertUnknown(s) PROVE UseInv'
      BY <2>2, AnswerStep DEF RevertUnknown, Steady
    <2>3. ASSUME NEW cs \in change_sets, RevertRefuse(s, cs) PROVE UseInv'
      BY <2>3, AnswerStep DEF RevertRefuse, Steady
    <2>4. ASSUME NEW t \in Task, NEW c \in Change, DirectRefuse(s, t, c) PROVE UseInv'
      BY <2>4, AnswerStep DEF DirectRefuse, Steady
    <2>5. QED
      BY <1>1, <2>1, <2>2, <2>3, <2>4, ValidateStep, RevertUse, DirectUse DEF Begin
  <1>2. ASSUME NEW s \in Session, Finish(s) PROVE UseInv'
    <2>1. ASSUME AbandonOnVanishedRow(s) PROVE UseInv'
      BY <2>1, AnswerStep DEF AbandonOnVanishedRow, Steady
    <2>2. ASSUME DirectCommit(s) PROVE UseInv'
      BY <2>2, AnswerStep DEF DirectCommit, Steady
    <2>3. QED
      BY <1>2, <2>1, <2>2, InsertStep, CommitUse, RevertUse
      DEF Finish, BulkUpdateAbandon, RevertAbandon, DirectAbandon
  <1>3. ASSUME NEW D \in SUBSET Task, DeleteTasks(D) PROVE UseInv'
    BY <1>3 DEF DeleteTasks, UseInv, ChangeSetsAreSound, EditsFit, StampsDiffer, UndosAreRead
  <1>4. CASE UNCHANGED vars
    BY <1>4 DEF vars, UseInv, ChangeSetsAreSound, EditsFit, StampsDiffer, UndosAreRead
  <1>5. QED
    BY <1>1, <1>2, <1>3, <1>4 DEF Next

(* Only the commit of an update inserts a change set ...                   *)
LEMMA OnlyCommitsInsert ==
    ASSUME [Next]_vars, NEW c \in change_sets' \ change_sets
    PROVE  \E s \in Session : BulkUpdateCommit(s)
  <1>1. ASSUME NEW s \in Session, Begin(s) PROVE FALSE
    BY <1>1 DEF Begin, BulkUpdateAnswer, BulkUpdateValidate, LegacyRead, RevertUnknown, RevertRefuse,
                RevertRead, UpdateTaskRead, DirectRefuse
  <1>2. ASSUME NEW s \in Session, Finish(s), ~BulkUpdateCommit(s) PROVE FALSE
    BY <1>2 DEF Finish, BulkUpdateInsert, BulkUpdateAbandon, RevertCommit, RevertAbandon, DirectCommit,
                DirectAbandon, AbandonOnVanishedRow
  <1>3. ASSUME NEW D \in SUBSET Task, DeleteTasks(D) PROVE FALSE
    BY <1>3 DEF DeleteTasks
  <1>4. CASE UNCHANGED vars
    BY <1>4 DEF vars
  <1>5. QED
    BY <1>1, <1>2, <1>3, <1>4 DEF Next

(* ... and nothing writes schedule_task but a flush and a deletion.        *)
LEMMA StepsOnSchedule ==
    ASSUME [Next]_vars
    PROVE  \/ UNCHANGED schedule
           \/ \E s \in Session : ~RowVanished(txn[s]) /\ schedule' = Flushed(txn[s])
           \/ \E D \in SUBSET Task : DeleteTasks(D)
  <1>1. ASSUME NEW s \in Session, Begin(s) PROVE UNCHANGED schedule
    BY <1>1 DEF Begin, BulkUpdateAnswer, BulkUpdateValidate, LegacyRead, RevertUnknown, RevertRefuse,
                RevertRead, UpdateTaskRead, DirectRefuse
  <1>2. ASSUME NEW s \in Session, Finish(s)
        PROVE  UNCHANGED schedule \/ (~RowVanished(txn[s]) /\ schedule' = Flushed(txn[s]))
    BY <1>2 DEF Finish, BulkUpdateInsert, BulkUpdateCommit, BulkUpdateAbandon, RevertCommit, RevertAbandon,
                DirectCommit, DirectAbandon, AbandonOnVanishedRow
  <1>3. CASE UNCHANGED vars
    BY <1>3 DEF vars
  <1>4. QED
    BY <1>1, <1>2, <1>3 DEF Next

-----------------------------------------------------------------------------
(* Theorems *)

(* In any use the rows of a change set that is in the table were checked   *)
(* against each other, and a waiting undo holds what its change set        *)
(* recorded (bulk_update_v2, revert).                                      *)
THEOREM UseInvariant == Spec => []UseInv
  BY UseInit, UseStep, TypeCorrect, PTL DEF Spec

(* The tasks of one change set fit on the machines together, whatever the  *)
(* other sessions do (find_same_eq_overlap).                               *)
THEOREM ChangeSetsFit == Spec => []ChangeSetsAreSound
  <1>1. UseInv => ChangeSetsAreSound
    BY DEF UseInv
  <1>2. QED
    BY <1>1, UseInvariant, PTL

(* When an update commits, every column that it says it has set is set,    *)
(* although rows may be deleted between its check and its commit.          *)
THEOREM ChangeSetsHappen == Spec => RecordedChangesHappened
  <1>1. UseInv /\ [Next]_vars =>
          \A c \in change_sets' \ change_sets : \A t \in Live(c.after) :
             /\ schedule'[t] # NoRow
             /\ c.after[t].start # c.before[t].start => schedule'[t].start = c.after[t].start
             /\ c.after[t].end # c.before[t].end => schedule'[t].end = c.after[t].end
             /\ c.after[t].equipment # c.before[t].equipment
                   => schedule'[t].equipment = c.after[t].equipment
    <2> SUFFICES ASSUME UseInv, [Next]_vars,
                        NEW c \in change_sets' \ change_sets, NEW t \in Live(c.after)
                 PROVE  /\ schedule'[t] # NoRow
                        /\ c.after[t].start # c.before[t].start => schedule'[t].start = c.after[t].start
                        /\ c.after[t].end # c.before[t].end => schedule'[t].end = c.after[t].end
                        /\ c.after[t].equipment # c.before[t].equipment
                              => schedule'[t].equipment = c.after[t].equipment
      OBVIOUS
    <2>1. PICK s \in Session : BulkUpdateCommit(s)
      BY OnlyCommitsInsert
    <2> DEFINE x == txn[s]
    <2>2. /\ x \in Txn /\ x.op = "stamped" /\ c.before = x.from /\ c.after = x.to
          /\ schedule' = Flushed(x) /\ ~RowVanished(x)
      BY <2>1 DEF BulkUpdateCommit, UseInv, TypeOK
    <2>3. t \in Task /\ t \in Dirty(x) /\ schedule[t] # NoRow
      BY <2>2 DEF UseInv, EditsFit, Editing, Dirty, Live, RowVanished
    <2>4. schedule'[t] = WriteColumns(schedule[t], x.from[t], x.to[t])
      BY <2>2, <2>3 DEF Flushed
    <2>5. schedule'[t] \in Row
      BY <2>2, <2>3, <2>4 DEF Dirty, Live, Txn, Plan, UseInv, TypeOK, WriteColumns, Row
    <2>6. QED
      BY <2>2, <2>4, <2>5, SnapAssumption DEF WriteColumns
  <1>2. QED
    BY <1>1, UseInvariant, PTL DEF Spec, RecordedChangesHappened

(* A task that was deleted while a request was under way is not brought    *)
(* back by its commit (the ORM updates rows and inserts none).             *)
THEOREM DeletedTasksStayAway == Spec => DeletedStaysDeleted
  <1>1. [Next]_vars => \A t \in Task : schedule[t] = NoRow => schedule'[t] = NoRow
    <2> SUFFICES ASSUME [Next]_vars, NEW t \in Task, schedule[t] = NoRow PROVE schedule'[t] = NoRow
      OBVIOUS
    <2>1. CASE UNCHANGED schedule
      BY <2>1
    <2>2. ASSUME NEW s \in Session, ~RowVanished(txn[s]), schedule' = Flushed(txn[s])
          PROVE  schedule'[t] = NoRow
      BY <2>2 DEF RowVanished, Flushed
    <2>3. ASSUME NEW D \in SUBSET Task, DeleteTasks(D) PROVE schedule'[t] = NoRow
      BY <2>3 DEF DeleteTasks
    <2>4. QED
      BY <2>1, <2>2, <2>3, StepsOnSchedule
  <1>2. QED
    BY <1>1, PTL DEF Spec, DeletedStaysDeleted

(* An undo gives a task the complete row that was recorded, unless the row *)
(* was changed or deleted while the undo ran (revert).                     *)
THEOREM UndosRestoreRows == Spec => UndoRestoresRecordedRows
  <1>1. UseInv =>
          \A s \in Session, c \in change_sets :
             RevertCommit(s) /\ txn[s].stamp = c.created_at =>
                \A t \in Live(c.before) :
                   schedule[t] # NoRow /\ schedule[t] = txn[s].from[t] => schedule'[t] = c.before[t]
    <2> SUFFICES ASSUME UseInv, NEW s \in Session, NEW c \in change_sets,
                        RevertCommit(s), txn[s].stamp = c.created_at,
                        NEW t \in Live(c.before),
                        schedule[t] # NoRow, schedule[t] = txn[s].from[t]
                 PROVE  schedule'[t] = c.before[t]
      OBVIOUS
    <2> DEFINE x == txn[s]
    <2>1. /\ t \in Task /\ x \in Txn /\ x.op = "revert" /\ schedule' = Flushed(x)
          /\ c.before[t] \in Row
      BY DEF RevertCommit, UseInv, TypeOK, ChangeSet, Plan, Live
    <2>2. x.to[t] = c.before[t] /\ t \in Live(x.to)
      BY <2>1 DEF UseInv, UndosAreRead, Live
    <2>3. CASE t \in Dirty(x)
      BY <2>1, <2>2, <2>3 DEF Flushed, WriteColumns, Row
    <2>4. CASE t \notin Dirty(x)
      BY <2>1, <2>2, <2>4 DEF Flushed, Dirty
    <2>5. QED
      BY <2>3, <2>4
  <1>2. QED
    BY <1>1, UseInvariant, PTL DEF UndoRestoresRecordedRows

-----------------------------------------------------------------------------
(* Serial use *)

StampsUnique == \A c, d \in change_sets : c.created_at = d.created_at => c = d

-----------------------------------------------------------------------------
(* The oldest change set *)

LEMMA NatMin ==
    ASSUME NEW T, T \subseteq Nat, T # {}
    PROVE  \E x \in T : \A y \in T : x <= y
  <1>1. PICK x \in T : \A y \in T : <<y, x>> \notin OpToRel(<, Nat)
    BY NatLessThanWellFounded, WFMin, Zenon
  <1>2. \A y \in T : y \in Nat /\ ~(y < x)
    BY <1>1 DEF OpToRel
  <1>3. QED
    BY <1>2

LEMMA OldestIs ==
    ASSUME NEW C, C \subseteq ChangeSet, NEW c \in C,
           \A d \in C : c.created_at <= d.created_at,
           \A d \in C : d.created_at = c.created_at => d = c
    PROVE  Oldest(C) = c
  <1> DEFINE P(x) == x \in C /\ \A d \in C : x.created_at <= d.created_at
  <1>1. \A x : P(x) => x = c
    BY DEF ChangeSet
  <1>2. P(c)
    OBVIOUS
  <1>3. P(Oldest(C))
    BY <1>2 DEF Oldest
  <1>4. QED
    BY <1>1, <1>3

LEMMA SinceType ==
    ASSUME TypeOK, NEW k, NEW t
    PROVE  Since(k, t) \subseteq ChangeSet /\ Since(k, t) \subseteq change_sets
  BY DEF Since, TypeOK

LEMMA SinceMin ==
    ASSUME TypeOK, NEW k, NEW t, Since(k, t) # {}
    PROVE  \E c \in Since(k, t) : \A d \in Since(k, t) : c.created_at <= d.created_at
  <1> DEFINE T == {c.created_at : c \in Since(k, t)}
  <1>1. T \subseteq Nat /\ T # {}
    BY SinceType DEF ChangeSet
  <1>2. PICK x \in T : \A y \in T : x <= y
    BY <1>1, NatMin
  <1>3. QED
    BY <1>2

-----------------------------------------------------------------------------
(* The plans that undos lead to *)

LEMMA PushKeepsPast ==
    ASSUME TypeOK, TypeOK', StampsUnique,
           NEW n \in ChangeSet, change_sets' = change_sets \cup {n},
           \A c \in change_sets : c.created_at < n.created_at,
           NEW k \in Nat, k <= n.created_at, NEW t \in Task,
           t \in Live(n.before) => n.before[t] = schedule[t],
           t \notin Live(n.before) => schedule'[t] = schedule[t]
    PROVE  RowBefore(k, t)' = RowBefore(k, t)
  <1>1. Since(k, t)' = IF t \in Live(n.before) THEN Since(k, t) \cup {n} ELSE Since(k, t)
    BY DEF Since
  <1>2. CASE Since(k, t) = {}
    <2>1. CASE t \in Live(n.before)
      <3>1. Since(k, t)' = {n}
        BY <1>1, <1>2, <2>1
      <3>2. Oldest({n}) = n
        BY OldestIs DEF ChangeSet
      <3>3. RowBefore(k, t)' = n.before[t]
        BY <3>1, <3>2 DEF RowBefore
      <3>4. QED
        BY <3>3, <2>1, <1>2 DEF RowBefore
    <2>2. CASE t \notin Live(n.before)
      BY <1>1, <1>2, <2>2 DEF RowBefore
    <2>3. QED
      BY <2>1, <2>2
  <1>3. CASE Since(k, t) # {}
    <2>1. PICK c \in Since(k, t) : \A d \in Since(k, t) : c.created_at <= d.created_at
      BY <1>3, SinceMin
    <2>2. c \in Since(k, t)' /\ Since(k, t)' \subseteq ChangeSet /\ c \in ChangeSet
      BY <1>1, SinceType
    <2>3. Oldest(Since(k, t)) = c
      BY <2>1, SinceType, OldestIs DEF StampsUnique
    <2>4. Oldest(Since(k, t)') = c
      <3>1. \A d \in Since(k, t)' : d \in Since(k, t) \/ d = n
        BY <1>1
      <3>2. c.created_at < n.created_at
        BY SinceType
      <3>3. \A d \in Since(k, t)' : c.created_at <= d.created_at
        BY <2>1, <2>2, <3>1, <3>2 DEF ChangeSet
      <3>4. \A d \in Since(k, t)' : d.created_at = c.created_at => d = c
        BY <2>2, <3>1, <3>2, SinceType DEF StampsUnique, ChangeSet
      <3>5. QED
        BY <2>2, <3>3, <3>4, OldestIs
    <2>5. QED
      BY <2>2, <2>3, <2>4, <1>3 DEF RowBefore
  <1>4. QED
    BY <1>2, <1>3

LEMMA PopKeepsPast ==
    ASSUME TypeOK, TypeOK', StampsUnique,
           NEW r \in change_sets, change_sets' = change_sets \ {r},
           \A c \in change_sets : c.created_at <= r.created_at,
           NEW k \in Nat, k <= r.created_at, NEW t \in Task,
           t \in Live(r.before) => schedule'[t] = r.before[t],
           t \notin Live(r.before) => schedule'[t] = schedule[t]
    PROVE  RowBefore(k, t)' = RowBefore(k, t)
  <1>1. Since(k, t)' = Since(k, t) \ {r}
    BY DEF Since
  <1>2. r \in Since(k, t) <=> t \in Live(r.before)
    BY DEF Since
  <1>3. CASE Since(k, t)' = {}
    <2>1. CASE t \in Live(r.before)
      <3>1. Since(k, t) = {r}
        BY <1>1, <1>2, <1>3, <2>1
      <3>2. Oldest({r}) = r
        BY OldestIs DEF ChangeSet, TypeOK
      <3>3. RowBefore(k, t) = r.before[t]
        BY <3>1, <3>2 DEF RowBefore
      <3>4. QED
        BY <3>3, <1>3, <2>1 DEF RowBefore
    <2>2. CASE t \notin Live(r.before)
      BY <1>1, <1>2, <1>3, <2>2 DEF RowBefore
    <2>3. QED
      BY <2>1, <2>2
  <1>4. CASE Since(k, t)' # {}
    <2>1. PICK c \in Since(k, t) : \A d \in Since(k, t) : c.created_at <= d.created_at
      BY <1>1, <1>4, SinceMin
    <2>2. Since(k, t) \subseteq ChangeSet /\ Since(k, t) \subseteq change_sets
      BY SinceType
    <2>3. c # r
      <3>1. PICK d \in Since(k, t) : d # r
        BY <1>1, <1>4
      <3>2. d.created_at < r.created_at
        BY <2>2, <3>1 DEF StampsUnique, ChangeSet, TypeOK
      <3>3. QED
        BY <2>1, <2>2, <3>1, <3>2 DEF ChangeSet
    <2>4. Oldest(Since(k, t)) = c
      BY <2>1, <2>2, OldestIs DEF StampsUnique
    <2>5. Oldest(Since(k, t)') = c
      BY <1>1, <2>1, <2>2, <2>3, OldestIs DEF StampsUnique
    <2>6. QED
      BY <1>1, <1>4, <2>1, <2>4, <2>5 DEF RowBefore
  <1>5. QED
    BY <1>3, <1>4

-----------------------------------------------------------------------------
(* What a flush and a check do *)

LEMMA FlushedInstalls ==
    ASSUME NEW x \in Txn, schedule \in [Task -> Row],
           NEW D, x.from = RowsOf(schedule, D), Live(x.to) = D
    PROVE  Flushed(x) = Installs(x)
  <1> SUFFICES ASSUME NEW t \in Task PROVE Flushed(x)[t] = Installs(x)[t]
    BY DEF Flushed, Installs
  <1>1. CASE t \in Dirty(x)
    <2>1. t \in Live(x.to) /\ x.from[t] = schedule[t] /\ x.to[t] \in Row
      BY <1>1 DEF Dirty, RowsOf, Txn, Plan, Live
    <2>2. WriteColumns(schedule[t], x.from[t], x.to[t]) = x.to[t]
      BY <2>1 DEF WriteColumns, Row
    <2>3. QED
      BY <1>1, <2>1, <2>2 DEF Flushed, Installs
  <1>2. CASE t \notin Dirty(x)
    BY <1>2 DEF Flushed, Installs, Dirty, RowsOf, Live
  <1>3. QED
    BY <1>1, <1>2

(* A plan of which the changed tasks pass the check, and the others were   *)
(* in order before, is in order.                                           *)
LEMMA CheckedPlanSound ==
    ASSUME NEW p \in [Task -> Row], NEW q \in [Task -> Row], NEW D \in SUBSET Task,
           NoOverlap(p), \A t \in Task \ D : q[t] = p[t],
           FindSameEqOverlap(D, q) = {}
    PROVE  NoOverlap(q)
  <1>1. Live(p) = Task /\ Live(q) = Task
    BY SnapAssumption DEF Live
  <1> SUFFICES ASSUME NEW t \in Task, NEW o \in Task, t # o, Overlap(q[t], q[o])
               PROVE  FALSE
    BY <1>1 DEF NoOverlap
  <1>2. Overlap(q[o], q[t])
    BY DEF Overlap
  <1>3. t \notin D /\ o \notin D
    BY <1>1, <1>2 DEF FindSameEqOverlap, SameEquipmentOverlapping
  <1>4. QED
    BY <1>1, <1>3 DEF NoOverlap

LEMMA ValidatePending ==
    ASSUME TypeOK, schedule \in FullPlans, NEW s \in Session, NEW ch \in Changes,
           BulkUpdateValidate(s, ch)
    PROVE  EditPending(txn'[s]) /\ txn'[s].op = "validated"
  <1> DEFINE D == RealChanges(ch)
             q == Applied(ch)
             x == txn'[s]
  <1>1. /\ x.op = "validated"
        /\ x.from = RowsOf(schedule, D)
        /\ x.to = RowsOf(q, D)
    BY DEF BulkUpdateValidate, Proceed, TypeOK
  <1>2. D # {} /\ D \in SUBSET Task /\ FindSameEqOverlap(D, q) = {}
    BY ChangesType DEF BulkUpdateValidate, Screening, Verdict, RealChanges
  <1>3. \A t \in D : ch[t] \in Change /\ schedule[t] \in Row
    BY ChangesType DEF RealChanges, FullPlans
  <1>4. q \in [Task -> Row]
    BY <1>3, TargetType DEF Applied, FullPlans
  <1>5. Live(x.to) = D
    BY <1>1, <1>2, <1>4, SnapAssumption DEF Live, RowsOf
  <1>6. Installs(x) = q
    BY <1>1, <1>5 DEF Installs, RowsOf, Applied
  <1>7. NoOverlap(q)
    <2>1. \A t \in Task \ D : q[t] = schedule[t]
      BY DEF Applied
    <2>2. QED
      BY <1>2, <1>4, <2>1, CheckedPlanSound DEF FullPlans
  <1>8. \A t \in D : x.to[t] # x.from[t]
    BY <1>1, <1>2 DEF RowsOf, Applied, RealChanges
  <1>9. QED
    BY <1>1, <1>2, <1>5, <1>6, <1>7, <1>8 DEF EditPending

-----------------------------------------------------------------------------
(* The invariant *)

LEMMA UndoInit == ASSUME Init, TypeOK PROVE UndoInv
  <1>1. schedule \in FullPlans
    BY ChangeSetsAssumption DEF Init, FullPlans, Row
  <1>2. PendingIntact
    BY DEF Init, PendingIntact, Idle
  <1>3. QED
    BY <1>1, <1>2 DEF Init, UndoInv, ChainIntact

(* A step that writes neither table.                                       *)
LEMMA UndoFrame ==
    ASSUME UndoInv, TypeOK', UNCHANGED <<schedule, change_sets>>, clock <= clock',
           PendingIntact'
    PROVE  UndoInv' /\ UNCHANGED <<schedule, Past>>
  <1>1. \A k, t : RowBefore(k, t)' = RowBefore(k, t)
    BY DEF RowBefore, Since
  <1>2. \A k : PlanBefore(k)' = PlanBefore(k)
    BY <1>1 DEF PlanBefore
  <1>3. schedule' \in FullPlans
    BY DEF UndoInv
  <1>4. \A c \in change_sets' : c.created_at < clock' /\ PlanBefore(c.created_at)' \in FullPlans
    BY <1>2 DEF UndoInv, TypeOK, ChangeSet
  <1>5. ChainIntact'
    BY <1>1 DEF UndoInv, ChainIntact
  <1>6. \A c, d \in change_sets' : c.created_at = d.created_at => c = d
    BY DEF UndoInv
  <1>7. Past' = Past
    BY <1>2 DEF Past
  <1>8. QED
    BY <1>3, <1>4, <1>5, <1>6, <1>7 DEF UndoInv

LEMMA CommitStep ==
    ASSUME UndoInv, TypeOK', NEW s, Session = {s}, BulkUpdateCommit(s)
    PROVE  UndoInv' /\ Undoable!Edit
  <1>0. PICK x, n : /\ x = txn[s]
                    /\ n = [created_at |-> x.stamp, before |-> x.from, after |-> x.to]
    OBVIOUS
  <1>1. /\ x \in Txn /\ n \in ChangeSet /\ x.stamp \in Nat
        /\ n.created_at = x.stamp /\ n.before = x.from /\ n.after = x.to
        /\ EditPending(x)
        /\ x.stamp < clock
        /\ \A c \in change_sets : c.created_at < x.stamp
    BY <1>0 DEF UndoInv, TypeOK, Txn, ChangeSet, PendingIntact, BulkUpdateCommit
  <1>2. schedule \in [Task -> Row] /\ StampsUnique /\ TypeOK
    BY DEF UndoInv, FullPlans, StampsUnique
  <1>3. schedule' = Installs(x) /\ change_sets' = change_sets \cup {n} /\ clock' = clock
    BY <1>0, <1>1, <1>2, FlushedInstalls DEF BulkUpdateCommit, EditPending
  <1>4. Live(n.before) = Live(x.to)
    BY <1>1, <1>2, SnapAssumption DEF EditPending, RowsOf, Live
  <1>5. ASSUME NEW t \in Task
        PROVE  /\ t \in Live(n.before) => n.before[t] = schedule[t]
               /\ t \notin Live(n.before) => schedule'[t] = schedule[t]
               /\ t \in Live(n.after) => schedule'[t] = n.after[t]
    BY <1>1, <1>3, <1>4 DEF EditPending, RowsOf, Installs
  <1>6. \A k \in Nat : k <= n.created_at => PlanBefore(k)' = PlanBefore(k)
    BY <1>1, <1>2, <1>3, <1>5, PushKeepsPast DEF PlanBefore
  <1>7. PlanBefore(n.created_at)' = schedule
    <2>1. \A t \in Task : Since(n.created_at, t) = {}
      BY <1>1 DEF Since, UndoInv, TypeOK, ChangeSet
    <2>2. PlanBefore(n.created_at) = schedule
      BY <2>1, <1>2 DEF PlanBefore, RowBefore
    <2>3. QED
      BY <1>1, <1>6, <2>2
  <1>8. schedule' \in FullPlans
    <2>1. Installs(x) \in [Task -> Row]
      BY <1>1, <1>2 DEF Installs, Live, Txn, Plan
    <2>2. QED
      BY <1>1, <1>3, <2>1 DEF EditPending, FullPlans
  <1>9. \A c \in change_sets' : /\ c.created_at < clock'
                                /\ PlanBefore(c.created_at)' \in FullPlans
    BY <1>1, <1>3, <1>6, <1>7 DEF UndoInv, TypeOK, ChangeSet
  <1>10. \A c, d \in change_sets' : c.created_at = d.created_at => c = d
    BY <1>1, <1>2, <1>3 DEF StampsUnique, ChangeSet, TypeOK
  <1>11. ChainIntact'
    <2> SUFFICES ASSUME NEW c \in change_sets', NEW t \in Live(c.after)
                 PROVE  RowBefore(c.created_at + 1, t)' = c.after[t]
      BY DEF ChainIntact
    <2>1. t \in Task
      BY DEF Live
    <2>2. CASE c = n
      <3>1. Since(n.created_at + 1, t)' = {}
        BY <1>1, <1>3 DEF Since, UndoInv, TypeOK, ChangeSet
      <3>2. QED
        BY <2>1, <2>2, <3>1, <1>5 DEF RowBefore
    <2>3. CASE c \in change_sets
      <3>1. c.created_at + 1 \in Nat /\ c.created_at + 1 <= n.created_at
        BY <1>1, <1>2, <2>3 DEF TypeOK, ChangeSet
      <3>2. RowBefore(c.created_at + 1, t)' = RowBefore(c.created_at + 1, t)
        BY <1>1, <1>2, <1>3, <1>5, <2>1, <3>1, PushKeepsPast
      <3>3. QED
        BY <2>3, <3>2 DEF UndoInv, ChainIntact
    <2>4. QED
      BY <1>3, <2>2, <2>3
  <1>12. PendingIntact'
    BY DEF BulkUpdateCommit, Answer, Idle, PendingIntact, UndoInv, TypeOK
  <1>13. UndoInv'
    BY <1>8, <1>9, <1>10, <1>11, <1>12 DEF UndoInv
  <1>14. Undoable!Edit
    <2> DEFINE e == [version |-> n.created_at, plan |-> schedule]
    <2>1. schedule' # schedule
      BY <1>1, <1>2, <1>3 DEF EditPending, Installs, RowsOf, Live
    <2>2. \A c \in change_sets : PlanBefore(c.created_at)' = PlanBefore(c.created_at)
      BY <1>1, <1>6 DEF UndoInv, TypeOK, ChangeSet
    <2>3. Past' = Past \cup {e}
      <3>1. Past' = {[version |-> c.created_at, plan |-> PlanBefore(c.created_at)'] :
                        c \in change_sets \cup {n}}
        BY <1>3 DEF Past
      <3>2. QED
        BY <1>7, <2>2, <3>1 DEF Past
    <2>4. \A p \in Past : p.version < e.version
      BY <1>1 DEF Past
    <2>5. e.plan = schedule /\ e \in Past'
      BY <2>3
    <2>6. QED
      BY <1>8, <2>1, <2>3, <2>4, <2>5 DEF Undoable!Edit
  <1>15. QED
    BY <1>13, <1>14

LEMMA RevertStep ==
    ASSUME UndoInv, TypeOK', NEW s, Session = {s}, RevertCommit(s)
    PROVE  UndoInv' /\ Undoable!Undo
  <1> DEFINE x == txn[s]
  <1>1. PICK r \in change_sets : /\ r.created_at = x.stamp
                                /\ Newer(r) = {}
                                /\ x.from = RowsOf(schedule, Live(r.before))
                                /\ x.to = r.before
    BY DEF UndoInv, PendingIntact, UndoPending, RevertCommit
  <1>2. schedule \in [Task -> Row] /\ StampsUnique /\ TypeOK /\ x \in Txn /\ r \in ChangeSet
    BY DEF UndoInv, FullPlans, StampsUnique, TypeOK
  <1>3. schedule' = Installs(x) /\ clock' = clock
    BY <1>1, <1>2, FlushedInstalls DEF RevertCommit
  <1>4. change_sets' = change_sets \ {r}
    BY <1>1, <1>2 DEF RevertCommit, StampsUnique
  <1>5. \A c \in change_sets : c.created_at <= r.created_at
    BY <1>1, <1>2 DEF Newer, TypeOK, ChangeSet
  <1>6. ASSUME NEW t \in Task
        PROVE  /\ t \in Live(r.before) => schedule'[t] = r.before[t]
               /\ t \notin Live(r.before) => schedule'[t] = schedule[t]
    BY <1>1, <1>3 DEF Installs
  <1>7. \A k \in Nat : k <= r.created_at => PlanBefore(k)' = PlanBefore(k)
    BY <1>2, <1>4, <1>5, <1>6, PopKeepsPast DEF PlanBefore
  <1>8. PlanBefore(r.created_at) = schedule'
    <2>1. \A t \in Task : Since(r.created_at, t)' = {}
      BY <1>2, <1>4, <1>5 DEF Since, StampsUnique, ChangeSet, TypeOK
    <2>2. PlanBefore(r.created_at)' = schedule'
      <3>1. schedule' = [t \in Task |-> schedule'[t]]
        BY DEF TypeOK, Plan
      <3>2. QED
        BY <2>1, <3>1 DEF PlanBefore, RowBefore
    <2>3. QED
      BY <1>2, <1>7, <2>2 DEF ChangeSet
  <1>9. schedule' \in FullPlans
    BY <1>8 DEF UndoInv
  <1>10. \A c \in change_sets : PlanBefore(c.created_at)' = PlanBefore(c.created_at)
    BY <1>2, <1>5, <1>7 DEF TypeOK, ChangeSet
  <1>11. \A c \in change_sets' : /\ c.created_at < clock'
                                 /\ PlanBefore(c.created_at)' \in FullPlans
    BY <1>3, <1>4, <1>10 DEF UndoInv
  <1>12. \A c, d \in change_sets' : c.created_at = d.created_at => c = d
    BY <1>2, <1>4 DEF StampsUnique
  <1>13. ChainIntact'
    <2> SUFFICES ASSUME NEW c \in change_sets', NEW t \in Live(c.after)
                 PROVE  RowBefore(c.created_at + 1, t)' = c.after[t]
      BY DEF ChainIntact
    <2>1. t \in Task
      BY DEF Live
    <2>2. c.created_at + 1 \in Nat /\ c.created_at + 1 <= r.created_at
      BY <1>2, <1>4, <1>5 DEF StampsUnique, TypeOK, ChangeSet
    <2>3. RowBefore(c.created_at + 1, t)' = RowBefore(c.created_at + 1, t)
      BY <1>2, <1>4, <1>5, <1>6, <2>1, <2>2, PopKeepsPast
    <2>4. QED
      BY <1>4, <2>3 DEF UndoInv, ChainIntact
  <1>14. PendingIntact'
    BY DEF RevertCommit, Answer, Idle, PendingIntact, UndoInv, TypeOK
  <1>15. UndoInv'
    BY <1>9, <1>11, <1>12, <1>13, <1>14 DEF UndoInv
  <1>16. Undoable!Undo
    <2> DEFINE e == [version |-> r.created_at, plan |-> PlanBefore(r.created_at)]
    <2>1. e \in Past /\ e.plan = schedule'
      BY <1>8 DEF Past
    <2>2. \A p \in Past : p.version <= e.version
      BY <1>5 DEF Past
    <2>3. Past' = Past \ {e}
      <3>1. Past' = {[version |-> c.created_at, plan |-> PlanBefore(c.created_at)] :
                        c \in change_sets \ {r}}
        BY <1>4, <1>10 DEF Past
      <3>2. \A c \in change_sets \ {r} : c.created_at # r.created_at
        BY <1>2 DEF StampsUnique
      <3>3. QED
        BY <3>1, <3>2 DEF Past
    <2>4. QED
      BY <2>1, <2>2, <2>3 DEF Undoable!Undo
  <1>17. QED
    BY <1>15, <1>16

LEMMA UndoStep ==
    ASSUME Serial, UndoInv, [Next]_vars
    PROVE  UndoInv' /\ [Undoable!Next]_<<schedule, Past>>
  <1>0. PICK s : Session = {s}
    BY DEF Serial
  <1>1. TypeOK' /\ TypeOK /\ clock \in Nat
    BY TypeStep DEF UndoInv, TypeOK
  <1>2. ASSUME NEW ch \in Changes, BulkUpdateAnswer(s, ch)
        PROVE  UndoInv' /\ UNCHANGED <<schedule, Past>>
    <2>1. PendingIntact'
      BY <1>0, <1>1, <1>2 DEF BulkUpdateAnswer, Answer, Idle, PendingIntact, TypeOK
    <2>2. QED
      BY <1>1, <1>2, <2>1, UndoFrame DEF BulkUpdateAnswer
  <1>3. ASSUME NEW ch \in Changes, BulkUpdateValidate(s, ch)
        PROVE  UndoInv' /\ UNCHANGED <<schedule, Past>>
    <2>1. EditPending(txn'[s]) /\ txn'[s].op = "validated"
      BY <1>0, <1>1, <1>3, ValidatePending DEF UndoInv
    <2>2. EditPending(txn[s])'
      BY <1>3, <2>1 DEF BulkUpdateValidate, EditPending, Installs
    <2>3. PendingIntact'
      BY <1>0, <2>1, <2>2 DEF PendingIntact
    <2>4. QED
      BY <1>1, <1>3, <2>3, UndoFrame DEF BulkUpdateValidate
  <1>4. ASSUME BulkUpdateInsert(s)
        PROVE  UndoInv' /\ UNCHANGED <<schedule, Past>>
    <2>1. /\ txn'[s].op = "stamped" /\ txn'[s].stamp = clock
          /\ txn'[s].from = txn[s].from /\ txn'[s].to = txn[s].to
          /\ UNCHANGED <<schedule, change_sets>> /\ clock' = clock + 1
      BY <1>0, <1>1, <1>4 DEF BulkUpdateInsert, Proceed, TypeOK
    <2>2. EditPending(txn[s])
      BY <1>0, <1>4 DEF BulkUpdateInsert, UndoInv, PendingIntact
    <2>3. EditPending(txn[s])'
      BY <2>1, <2>2 DEF EditPending, Installs
    <2>4. PendingIntact'
      BY <1>0, <1>1, <2>1, <2>3 DEF PendingIntact, UndoInv
    <2>5. QED
      BY <1>1, <2>1, <2>4, UndoFrame
  <1>5. ASSUME BulkUpdateCommit(s)
        PROVE  UndoInv' /\ Undoable!Edit
    BY <1>0, <1>1, <1>5, CommitStep
  <1>6. ASSUME RevertUnknown(s)
        PROVE  UndoInv' /\ UNCHANGED <<schedule, Past>>
    <2>1. PendingIntact'
      BY <1>0, <1>1, <1>6 DEF RevertUnknown, Answer, Idle, PendingIntact, TypeOK
    <2>2. QED
      BY <1>1, <1>6, <2>1, UndoFrame DEF RevertUnknown
  <1>7. ASSUME NEW cs \in change_sets, RevertRefuse(s, cs)
        PROVE  UndoInv' /\ UNCHANGED <<schedule, Past>>
    <2>1. PendingIntact'
      BY <1>0, <1>1, <1>7 DEF RevertRefuse, Answer, Idle, PendingIntact, TypeOK
    <2>2. QED
      BY <1>1, <1>7, <2>1, UndoFrame DEF RevertRefuse
  <1>8. ASSUME NEW cs \in change_sets, RevertRead(s, cs)
        PROVE  UndoInv' /\ UNCHANGED <<schedule, Past>>
    <2>1. Live(schedule) = Task /\ cs \in ChangeSet
      <3>1. schedule \in [Task -> Row]
        BY DEF UndoInv, FullPlans
      <3>2. QED
        BY <1>1, <3>1, SnapAssumption DEF Live, TypeOK
    <2>2. Live(cs.before) \cap Live(schedule) = Live(cs.before)
      BY <2>1 DEF Live
    <2>3. RowsOf(cs.before, Live(cs.before)) = cs.before
      BY <2>1 DEF RowsOf, Live, ChangeSet, Plan
    <2>4. /\ txn'[s].op = "revert" /\ txn'[s].stamp = cs.created_at
          /\ txn'[s].from = RowsOf(schedule, Live(cs.before))
          /\ txn'[s].to = cs.before
          /\ UNCHANGED <<schedule, change_sets, clock>> /\ Newer(cs) = {}
      BY <1>0, <1>1, <1>8, <2>2, <2>3 DEF RevertRead, Proceed, TypeOK
    <2>5. UndoPending(txn[s])'
      BY <2>4 DEF UndoPending, Newer
    <2>6. PendingIntact'
      BY <1>0, <2>4, <2>5 DEF PendingIntact
    <2>7. QED
      BY <1>1, <2>4, <2>6, UndoFrame
  <1>9. ASSUME RevertCommit(s)
        PROVE  UndoInv' /\ Undoable!Undo
    BY <1>0, <1>1, <1>9, RevertStep
  <1>10. ASSUME BulkUpdateAbandon(s) \/ RevertAbandon(s)
         PROVE  UndoInv' /\ UNCHANGED <<schedule, Past>>
    <2>1. PendingIntact'
      BY <1>0, <1>1, <1>10
      DEF BulkUpdateAbandon, RevertAbandon, AbandonOnVanishedRow, Answer, Idle,
          PendingIntact, TypeOK
    <2>2. QED
      BY <1>1, <1>10, <2>1, UndoFrame
      DEF BulkUpdateAbandon, RevertAbandon, AbandonOnVanishedRow
  <1>11. /\ \A ch \in Changes : ~LegacyRead(s, ch)
         /\ \A t \in Task, c \in Change : ~UpdateTaskRead(s, t, c) /\ ~DirectRefuse(s, t, c)
         /\ \A D \in SUBSET Task : ~DeleteTasks(D)
    BY DEF Serial, LegacyRead, UpdateTaskRead, DirectRefuse, DeleteTasks
  <1>12. ~DirectCommit(s) /\ ~DirectAbandon(s)
    BY <1>0 DEF UndoInv, PendingIntact, DirectCommit, DirectAbandon
  <1>13. CASE UNCHANGED vars
    <2>1. PendingIntact'
      BY <1>13 DEF vars, UndoInv, PendingIntact, EditPending, UndoPending, Installs, Newer
    <2>2. QED
      BY <1>1, <1>13, <2>1, UndoFrame DEF vars
  <1>14. QED
    BY <1>0, <1>2, <1>3, <1>4, <1>5, <1>6, <1>7, <1>8, <1>9, <1>10, <1>11, <1>12, <1>13
    DEF Next, Begin, Finish, Undoable!Next

-----------------------------------------------------------------------------
(* Serial requests keep the invariant from which the rest follows.         *)
THEOREM UndoInvariant == ASSUME Serial PROVE Spec => []UndoInv
  <1>1. Init => UndoInv
    BY TypeInit, UndoInit
  <1>2. UndoInv /\ [Next]_vars => UndoInv'
    BY UndoStep
  <1>3. QED
    BY <1>1, <1>2, PTL DEF Spec

(* Whatever serial requests move and undo, no machine runs two tasks.      *)
THEOREM SerialUseIsSound == ASSUME Serial PROVE Spec => []MachineRunsOneTask
  <1>1. UndoInv => MachineRunsOneTask
    BY DEF UndoInv, FullPlans, MachineRunsOneTask
  <1>2. QED
    BY <1>1, UndoInvariant, PTL

(* After any serial use each change set still fits what followed it.       *)
THEOREM SerialUseKeepsChain == ASSUME Serial PROVE Spec => []ChainIntact
  <1>1. UndoInv => ChainIntact
    BY DEF UndoInv
  <1>2. QED
    BY <1>1, UndoInvariant, PTL

(* Under serial use bulk update and revert are the undo stack: an accepted *)
(* update pushes the plan it replaces, a revert pops exactly that plan.    *)
THEOREM SerialUseIsUndoStack == ASSUME Serial PROVE Spec => ImplementsUndoStack
  <1>1. Init => Undoable!Init
    BY TypeInit, UndoInit DEF Init, UndoInv, Past, Undoable!Init
  <1>2. UndoInv /\ [Next]_vars => [Undoable!Next]_<<schedule, Past>>
    BY UndoStep
  <1>3. QED
    BY <1>1, <1>2, UndoInvariant, PTL DEF Spec, ImplementsUndoStack, Undoable!Spec

-----------------------------------------------------------------------------
(* The machines a batch may go to *)

TasksOf(b) == {t \in Live(schedule) : BatchOf[t] = b}

LEMMA NewestTask ==
    ASSUME NEW S \in SUBSET Task, S # {}
    PROVE  \E t \in S : \A o \in S : CreatedAt[o] <= CreatedAt[t]
  <1> DEFINE Later(t) == {o \in S : CreatedAt[o] > CreatedAt[t]}
             C == {Cardinality(Later(t)) : t \in S}
  <1>0. IsFiniteSet(S) /\ \A t \in S : CreatedAt[t] \in Nat
    BY FS_Subset, ViewsAssumption
  <1>1. \A t \in S : IsFiniteSet(Later(t)) /\ Cardinality(Later(t)) \in Nat
    BY <1>0, FS_Subset, FS_CardinalityType
  <1>2. PICK c \in C : \A d \in C : c <= d
    <2>1. C \subseteq Nat /\ C # {}
      BY <1>1
    <2> HIDE DEF C
    <2>2. QED
      BY <2>1, NatMin
  <1>3. PICK t \in S : c = Cardinality(Later(t))
    BY <1>2
  <1>4. ASSUME NEW o \in S PROVE CreatedAt[o] <= CreatedAt[t]
    <2>1. SUFFICES ASSUME CreatedAt[o] > CreatedAt[t] PROVE FALSE
      BY <1>0
    <2>2. Later(o) \in SUBSET Later(t) /\ o \in Later(t) /\ o \notin Later(o)
      BY <1>0, <2>1
    <2>3. Cardinality(Later(o)) <= Cardinality(Later(t)) /\ Cardinality(Later(o)) # Cardinality(Later(t))
      <3> HIDE DEF Later
      <3>1. Cardinality(Later(o)) <= Cardinality(Later(t))
        BY <1>1, <2>2, FS_Subset
      <3>2. Cardinality(Later(o)) = Cardinality(Later(t)) => Later(o) = Later(t)
        BY <1>1, <2>2, FS_Subset
      <3>3. QED
        BY <2>2, <3>1, <3>2
    <2>4. Cardinality(Later(t)) <= Cardinality(Later(o))
      BY <1>2, <1>3
    <2>5. QED
      <3> HIDE DEF Later
      <3>1. QED
        BY <1>1, <2>3, <2>4
  <1>5. QED
    BY <1>3, <1>4

LEMMA CurrentTaskIs ==
    ASSUME NEW b, TasksOf(b) # {}
    PROVE  CurrentTask(b) \in TasksOf(b)
  <1>1. TasksOf(b) \in SUBSET Task
    BY DEF TasksOf, Live
  <1>2. PICK t \in TasksOf(b) : \A o \in TasksOf(b) : CreatedAt[o] <= CreatedAt[t]
    BY <1>1, NewestTask
  <1> DEFINE P(x) == /\ BatchOf[x] = b
                     /\ \A o \in Live(schedule) : BatchOf[o] = b => CreatedAt[o] <= CreatedAt[x]
  <1>3. t \in Live(schedule) /\ P(t)
    BY <1>2 DEF TasksOf
  <1>4. CurrentTask(b) \in Live(schedule) /\ P(CurrentTask(b))
    BY <1>3, Zenon DEF CurrentTask
  <1>5. QED
    BY <1>4 DEF TasksOf

LEMMA NoConflictNoOverlap ==
    ASSUME TypeOK, NEW b, NEW e \in Equipment, NEW t \in TasksOf(b),
           Conflicts(b, e, schedule[t]) = {}
    PROVE  \/ FindSameEqOverlap({t}, TaskIn(t, e)) = {}
           \/ \E o \in SameEquipmentOverlapping(t, TaskIn(t, e)) : BatchOf[o] = b
  <1> DEFINE q == TaskIn(t, e)
  <1>1. t \in Task /\ t \in Live(schedule) /\ schedule \in Plan /\ schedule[t] \in Row
    BY DEF TasksOf, Live, TypeOK, Plan
  <1>2. q[t] = [schedule[t] EXCEPT !.equipment = e] /\ \A o \in Task \ {t} : q[o] = schedule[o]
    BY <1>1 DEF TaskIn, Plan
  <1>3. q[t].start = schedule[t].start /\ q[t].end = schedule[t].end /\ q[t].equipment = e
    BY <1>1, <1>2 DEF Row
  <1>4. ASSUME NEW o \in SameEquipmentOverlapping(t, q) PROVE BatchOf[o] = b
    <2>1. o \in Task /\ o # t /\ q[o] # NoRow /\ Overlap(q[t], q[o])
      BY DEF SameEquipmentOverlapping, Live
    <2>2. o \in Live(schedule) /\ q[o] = schedule[o]
      BY <1>2, <2>1 DEF Live
    <2>3. schedule[o].equipment = e /\ schedule[o].start < schedule[t].end /\ schedule[t].start < schedule[o].end
      BY <1>3, <2>1, <2>2 DEF Overlap
    <2>4. QED
      BY <2>2, <2>3 DEF Conflicts
  <1>5. QED
    BY <1>4 DEF FindSameEqOverlap

-----------------------------------------------------------------------------
(* What an undo is shown to do *)

(* A change set names the tasks that it changes, and each one changes.     *)
ChangesCount ==
    \A c \in change_sets : /\ Live(c.before) = Live(c.after)
                           /\ \A t \in Live(c.after) : c.after[t] # c.before[t]

LEMMA ChangesCountStep ==
    ASSUME Serial, UndoInv, ChangesCount, [Next]_vars
    PROVE  ChangesCount'
  <1> SUFFICES ASSUME NEW c \in change_sets', c \notin change_sets
               PROVE  /\ Live(c.before) = Live(c.after)
                      /\ \A t \in Live(c.after) : c.after[t] # c.before[t]
    BY DEF ChangesCount
  <1>1. PICK s \in Session : BulkUpdateCommit(s)
    BY OnlyCommitsInsert
  <1>2. c.before = txn[s].from /\ c.after = txn[s].to /\ txn[s].op = "stamped"
    BY <1>1 DEF BulkUpdateCommit
  <1>3. EditPending(txn[s]) /\ \A t \in Task : schedule[t] # NoRow
    BY <1>2, SnapAssumption DEF UndoInv, PendingIntact, FullPlans
  <1>4. Live(txn[s].from) = Live(txn[s].to)
    BY <1>3 DEF EditPending, RowsOf, Live
  <1>5. QED
    BY <1>2, <1>3, <1>4 DEF EditPending

(* Only an undo takes a change set away.                                   *)
LEMMA OnlyUndosDelete ==
    ASSUME [Next]_vars, NEW c \in change_sets \ change_sets'
    PROVE  \E s \in Session : RevertCommit(s)
  <1>1. ASSUME NEW s \in Session, Begin(s) PROVE FALSE
    BY <1>1 DEF Begin, BulkUpdateAnswer, BulkUpdateValidate, LegacyRead, RevertUnknown, RevertRefuse,
                RevertRead, UpdateTaskRead, DirectRefuse
  <1>2. ASSUME NEW s \in Session, Finish(s), ~RevertCommit(s) PROVE FALSE
    BY <1>2 DEF Finish, BulkUpdateInsert, BulkUpdateCommit, BulkUpdateAbandon, RevertAbandon, DirectCommit,
                DirectAbandon, AbandonOnVanishedRow
  <1>3. ASSUME NEW D \in SUBSET Task, DeleteTasks(D) PROVE FALSE
    BY <1>3 DEF DeleteTasks
  <1>4. CASE UNCHANGED vars
    BY <1>4 DEF vars
  <1>5. QED
    BY <1>1, <1>2, <1>3, <1>4 DEF Next

LEMMA UndoSwapsRows ==
    ASSUME Serial, UndoInv, [Next]_vars, NEW c \in change_sets \ change_sets'
    PROVE  /\ \A t \in Live(c.after) : schedule[t] = c.after[t]
           /\ \A t \in Task : schedule'[t] = IF t \in Live(c.before) THEN c.before[t] ELSE schedule[t]
  <1>1. PICK s \in Session : RevertCommit(s)
    BY OnlyUndosDelete
  <1> DEFINE x == txn[s]
  <1>2. schedule \in [Task -> Row] /\ StampsUnique /\ TypeOK /\ x \in Txn
    BY DEF UndoInv, FullPlans, StampsUnique, TypeOK
  <1>3. PICK r \in change_sets : /\ r.created_at = x.stamp
                                /\ Newer(r) = {}
                                /\ x.from = RowsOf(schedule, Live(r.before))
                                /\ x.to = r.before
    BY <1>1 DEF UndoInv, PendingIntact, UndoPending, RevertCommit
  <1>4. c = r
    BY <1>1, <1>2, <1>3 DEF RevertCommit, StampsUnique
  <1>5. schedule' = Installs(x)
    BY <1>1, <1>2, <1>3, FlushedInstalls DEF RevertCommit
  <1>6. \A t \in Task : Since(c.created_at + 1, t) = {}
    BY <1>2, <1>3, <1>4 DEF Since, Newer, TypeOK, ChangeSet
  <1>7. \A t \in Live(c.after) : schedule[t] = c.after[t]
    BY <1>6 DEF UndoInv, ChainIntact, RowBefore, Live
  <1>8. \A t \in Task : schedule'[t] = IF t \in Live(c.before) THEN c.before[t] ELSE schedule[t]
    BY <1>3, <1>4, <1>5 DEF Installs
  <1>9. QED
    BY <1>7, <1>8

-----------------------------------------------------------------------------
(* Where the alternatives of a batch show no conflict, the bulk update     *)
(* that takes its newest task there finds no overlap with another batch,   *)
(* in any use (_evaluate_equipment, find_same_eq_overlap).                 *)
THEOREM FreeMachinesAreFree == Spec => []FreeMachinesTakeTheTask
  <1>1. TypeOK => FreeMachinesTakeTheTask
    <2> SUFFICES ASSUME TypeOK, NEW b \in DOMAIN Batch, NEW a \in Alternatives(b),
                        a.earliest_available # Null, a.conflict_count = 0,
                        NEW t \in {CurrentTask(b)}
                 PROVE  \/ FindSameEqOverlap({t}, TaskIn(t, a.equipment)) = {}
                        \/ \E o \in SameEquipmentOverlapping(t, TaskIn(t, a.equipment)) : BatchOf[o] = b
      BY Zenon DEF FreeMachinesTakeTheTask
    <2>1. TasksOf(b) # {}
      <3>1. CASE ~\E o \in Live(schedule) : BatchOf[o] = b
        BY <3>1 DEF Alternatives, Unevaluated
      <3>2. QED
        BY <3>1 DEF TasksOf
    <2>2. t \in TasksOf(b)
      BY <2>1, CurrentTaskIs
    <2>3. PICK e \in Compatible(b) : a = Evaluate(b, e, schedule[t])
      BY <2>1, Zenon DEF Alternatives, TasksOf
    <2>4. e \in Equipment /\ a.equipment = e /\ Cardinality(Conflicts(b, e, schedule[t])) = 0
      BY <2>3 DEF Evaluate, Compatible
    <2>5. Conflicts(b, e, schedule[t]) = {}
      <3>1. Conflicts(b, e, schedule[t]) \in SUBSET Task
        BY DEF Conflicts, Live
      <3>2. QED
        BY <2>4, <3>1, FS_Subset, FS_EmptySet, ViewsAssumption
    <2>6. QED
      BY <2>2, <2>4, <2>5, NoConflictNoOverlap
  <1>2. QED
    BY <1>1, TypeCorrect, PTL

(* In serial use the diff of a change set shows exactly what its undo then *)
(* does: which tasks move, from which rows to which (get_change_set_diff,  *)
(* revert).                                                                *)
THEOREM DiffsTellTheUndo == ASSUME Serial PROVE Spec => DiffShowsTheUndo
  <1>1. ASSUME UndoInv, ChangesCount, [Next]_vars, NEW c \in change_sets \ change_sets', NEW d \in {Diff(c)}
        PROVE  /\ {t \in Task : schedule'[t] # schedule[t]} = DOMAIN d.moved
               /\ \A t \in DOMAIN d.moved : /\ schedule[t] = d.moved[t].new
                                            /\ schedule'[t] = d.moved[t].old
               /\ DOMAIN d.added \cup DOMAIN d.removed \cup d.unchanged = {}
    <2> DEFINE L == Live(c.after)
    <2>1. /\ Live(c.before) = L /\ L \subseteq Task
          /\ \A t \in L : c.after[t] # c.before[t]
      BY <1>1 DEF ChangesCount, Live
    <2>2. /\ \A t \in L : schedule[t] = c.after[t]
          /\ \A t \in Task : schedule'[t] = IF t \in L THEN c.before[t] ELSE schedule[t]
      BY <1>1, <2>1, UndoSwapsRows
    <2>3. {t \in L : c.before[t] # c.after[t]} = L
      BY <2>1
    <2>4. /\ DOMAIN d.moved = L
          /\ \A t \in L : d.moved[t].new = c.after[t] /\ d.moved[t].old = c.before[t]
          /\ DOMAIN d.added = {} /\ DOMAIN d.removed = {} /\ d.unchanged = {}
      <3>1. d = Diff(c) /\ Live(c.before) \cap Live(c.after) = L
        BY <2>1
      <3>2. L \ L = {}
        OBVIOUS
      <3>3. d.moved = [t \in L |-> [old |-> c.before[t], new |-> c.after[t],
                                   delta |-> Delta(c.before[t], c.after[t]), meta |-> TaskMeta(t)]]
        BY <2>1, <2>3, <3>1, Zenon DEF Diff
      <3>4. /\ d.added = [t \in {} |-> c.after[t]] /\ d.removed = [t \in {} |-> c.before[t]]
            /\ d.unchanged = {}
        BY <2>1, <2>3, <3>1, <3>2, Zenon DEF Diff
      <3>5. QED
        BY <3>3, <3>4
    <2>5. {t \in Task : schedule'[t] # schedule[t]} = L
      BY <2>1, <2>2
    <2>6. QED
      BY <2>2, <2>4, <2>5, <2>1
  <1>2. Init => ChangesCount
    BY DEF Init, ChangesCount
  <1>3. UndoInv /\ ChangesCount /\ [Next]_vars => ChangesCount'
    BY ChangesCountStep
  <1>4. UndoInv /\ ChangesCount /\ [Next]_vars =>
          \A cs \in change_sets \ change_sets' : \E d \in {Diff(cs)} :
             /\ {t \in Task : schedule'[t] # schedule[t]} = DOMAIN d.moved
             /\ \A t \in DOMAIN d.moved : /\ schedule[t] = d.moved[t].new
                                          /\ schedule'[t] = d.moved[t].old
             /\ DOMAIN d.added \cup DOMAIN d.removed \cup d.unchanged = {}
    BY <1>1
  <1>5. Spec => [](UndoInv /\ ChangesCount)
    BY <1>2, <1>3, UndoInvariant, PTL DEF Spec
  <1>6. QED
    BY <1>4, <1>5, PTL DEF Spec, DiffShowsTheUndo

=============================================================================
