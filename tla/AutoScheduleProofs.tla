------------------------- MODULE AutoScheduleProofs -------------------------
(***************************************************************************)
(* For any set of batches, any places an engine may choose and any number  *)
(* of retries: a committed plan has no overlap.  Comparing neighbours      *)
(* finds every overlap; what a job commits, or may return to, was compared *)
(* when everything the plan will consist of was in place.  And no batch is *)
(* "scheduled" without a task, on none of the ways through the retries.    *)
(***************************************************************************)
EXTENDS AutoSchedule, WellFoundedInduction, TLAPS

-----------------------------------------------------------------------------
(* The check for overlaps *)

(* Every non-empty set of natural numbers has a least element.             *)
LEMMA LeastNumber ==
    ASSUME NEW S, S \subseteq Nat, S # {}
    PROVE  \E m \in S : \A n \in S : m <= n
  <1>1. PICK m \in S : \A n \in S : <<n, m>> \notin OpToRel(<, Nat)
    BY WFMin, NatLessThanWellFounded
  <1>2. m \in Nat /\ \A n \in S : n \in Nat
    OBVIOUS
  <1>3. \A n \in S : ~(n < m)
    BY <1>1, <1>2 DEF OpToRel
  <1>4. \A n \in S : m <= n
    BY <1>2, <1>3
  <1>5. QED
    BY <1>4

(* Two tasks overlap on a machine only if some task there overlaps its     *)
(* neighbour, so comparing neighbours is enough (_check_overlap).          *)
LEMMA NeighboursSuffice ==
    ASSUME NEW T \in SUBSET TaskRow
    PROVE  HasOverlap(T) <=> ~NoOverlap(T)
  <1> USE AutoScheduleAssumption
  <1>1. \A t \in T : /\ t.place \in Places /\ t.place.start \in Nat /\ t.place.end \in Nat
                     /\ t.place.start < t.place.end
    BY DEF TaskRow
  <1>2. ASSUME HasOverlap(T) PROVE ~NoOverlap(T)
    <2>1. PICK t \in T, u \in T : Follows(T, t, u) /\ t.place.end > u.place.start
      BY <1>2 DEF HasOverlap
    <2>2. t # u /\ Overlap(t.place, u.place)
      BY <1>1, <2>1 DEF Follows, Overlap
    <2>3. QED
      BY <2>2 DEF NoOverlap
  <1>3. ASSUME NEW t \in T, NEW u \in T, t # u, Overlap(t.place, u.place),
               t.place.start <= u.place.start
        PROVE  HasOverlap(T)
    <2> DEFINE between == {v \in T : /\ v # t /\ v.place.equipment = t.place.equipment
                                     /\ t.place.start <= v.place.start
                                     /\ v.place.start <= u.place.start}
               starts == {v.place.start : v \in between}
    <2>1. u \in between
      BY <1>1, <1>3 DEF Overlap
    <2>2. starts \subseteq Nat /\ starts # {}
      BY <1>1, <2>1
    <2>3. PICK m \in starts : \A n \in starts : m <= n
      <3> HIDE DEF starts
      <3>1. QED
        BY <2>2, LeastNumber
    <2>4. PICK v \in between : v.place.start = m
      OBVIOUS
    <2>5. ASSUME NEW w \in T, w.place.equipment = t.place.equipment,
                 t.place.start < w.place.start, w.place.start < v.place.start
          PROVE  FALSE
      <3>1. w \in between
        BY <1>1, <2>4, <2>5
      <3>2. m <= w.place.start
        BY <2>3, <3>1
      <3>3. QED
        BY <1>1, <2>4, <2>5, <3>2
    <2>6. Follows(T, t, v)
      BY <2>4, <2>5 DEF Follows
    <2>7. t.place.end > v.place.start
      BY <1>1, <1>3, <2>4 DEF Overlap
    <2>8. QED
      BY <2>4, <2>6, <2>7 DEF HasOverlap
  <1>4. ASSUME ~NoOverlap(T) PROVE HasOverlap(T)
    <2>1. PICK t \in T, u \in T : t # u /\ Overlap(t.place, u.place)
      BY <1>4 DEF NoOverlap
    <2>2. CASE t.place.start <= u.place.start
      BY <1>3, <2>1, <2>2
    <2>3. CASE u.place.start <= t.place.start
      <3>1. Overlap(u.place, t.place)
        BY <2>1 DEF Overlap
      <3>2. QED
        BY <1>3, <2>1, <2>3, <3>1
    <2>4. QED
      BY <1>1, <2>2, <2>3
  <1>5. QED
    BY <1>2, <1>4

-----------------------------------------------------------------------------
(* Types *)

(* What a transaction sees are tasks and statuses.                         *)
LEMMA SeenTypes ==
    ASSUME TypeOK, NEW x \in Txn
    PROVE  TasksIn(x) \in SUBSET TaskRow /\ StatusIn(x) \in [Batch -> Statuses]
  BY DEF TypeOK, TasksIn, StatusIn, Txn

(* _purge_run_tasks writes tasks and statuses.                             *)
LEMMA PurgeType ==
    ASSUME TypeOK, NEW x \in Txn
    PROVE  Purge(x) \in Txn
  <1> DEFINE gone == {t \in TasksIn(x) : StatusIn(x)[t.batch] \notin Frozen}
             reset == [b \in Batch |-> IF StatusIn(x)[b] = "scheduled" THEN "planned" ELSE x.status[b]]
  <1>1. gone \cap tasks \in SUBSET TaskRow
    BY DEF TypeOK
  <1>2. reset \in [Batch -> Statuses \cup {Kept}]
    BY DEF Txn, Statuses
  <1>3. Purge(x) = [x EXCEPT !.deleted = @ \cup (gone \cap tasks), !.inserted = @ \ gone, !.status = reset]
    BY DEF Purge, Txn
  <1> HIDE DEF gone, reset
  <1>4. QED
    BY <1>1, <1>2, <1>3 DEF Txn

(* A placing of loaded batches makes tasks that name some of them.         *)
LEMMA PlacedType ==
    ASSUME NEW B \in SUBSET Batch, NEW placing \in Placings(B)
    PROVE  Placed(placing, B) \in SUBSET TaskRow
  <1>1. ASSUME NEW g \in Groups(B), NEW p \in placing[g]
        PROVE  [batch |-> Rep(g, B), place |-> p] \in TaskRow
    <2> DEFINE S == {b \in B : GroupOf[b] = g}
    <2>1. S \subseteq Nat /\ S # {}
      BY <1>1, AutoScheduleAssumption DEF Groups
    <2>2. \E m \in S : \A n \in S : m <= n
      <3> HIDE DEF S
      <3>1. QED
        BY <2>1, LeastNumber
    <2>3. Min(S) \in S
      BY <2>2 DEF Min
    <2>4. p \in Places
      BY <1>1 DEF Placings
    <2>5. QED
      BY <2>3, <2>4 DEF Rep, TaskRow
  <1>2. QED
    BY <1>1 DEF Placed

LEMMA NoTxnType == NoTxn \in Txn
  BY DEF NoTxn, Txn

(* Every step keeps the types.                                             *)
LEMMA TypeStep ==
    ASSUME TypeOK, [Next]_vars
    PROVE  TypeOK'
  <1> USE AutoScheduleAssumption
  <1>0. txn \in Txn /\ savepoint \in Txn /\ job \in Job
    BY DEF TypeOK
  <1>00. 0 \in 0 .. 1 /\ 1 \in 0 .. 1 /\ 0 \in 0 .. MAX_RETRIES /\ {} \in SUBSET Batch
    OBVIOUS
  <1>1. ASSUME NEW use_cpsat \in BOOLEAN, Submit(use_cpsat) PROVE TypeOK'
    BY <1>1 DEF TypeOK, Submit, Job
  <1>2. CASE Enter
    <2>1. txn' \in Txn
      BY <1>0, <1>2, PurgeType DEF Enter
    <2>2. job' \in Job
      BY <1>0, <1>2 DEF Enter, Job
    <2>3. QED
      BY <1>2, <2>1, <2>2 DEF Enter, TypeOK
  <1>3. CASE Load
    <2>1. PICK planned \in SUBSET Batch :
             /\ txn' = [txn EXCEPT !.status =
                           [b \in Batch |-> IF b \in planned \cap InStock THEN "wip_complete" ELSE @[b]]]
             /\ job' = [job EXCEPT !.at = "place", !.loaded = planned \ InStock]
      BY <1>3 DEF Load
    <2>2. txn' \in Txn
      BY <1>0, <2>1 DEF Txn, Statuses
    <2>3. job' \in Job
      BY <1>0, <2>1 DEF Job
    <2>4. QED
      BY <1>3, <2>2, <2>3 DEF Load, TypeOK
  <1>4. CASE SolverGivesUp
    <2>1. txn' \in Txn
      BY <1>0, <1>4, PurgeType DEF SolverGivesUp
    <2>2. job' \in Job
      BY <1>0, <1>4 DEF SolverGivesUp, Job
    <2>3. QED
      BY <1>4, <2>1, <2>2 DEF SolverGivesUp, TypeOK
  <1>5. ASSUME NEW placing \in Placings(job.loaded), NEW lex \in BOOLEAN, Place(placing, lex)
        PROVE  TypeOK'
    <2>1. job.loaded \in SUBSET Batch
      BY <1>0 DEF Job
    <2>2. Placed(placing, job.loaded) \in SUBSET TaskRow
      BY <2>1, PlacedType
    <2>3. txn' \in Txn
      BY <1>0, <1>5, <2>2 DEF Place, Txn, Statuses
    <2>4. job' \in Job
      BY <1>0, <1>5 DEF Place, Job
    <2>5. QED
      BY <1>5, <2>3, <2>4 DEF Place, TypeOK
  <1>6. CASE Retry
    <2>1. txn' \in Txn
      BY <1>0, <1>6, PurgeType DEF Retry
    <2>2. job' \in Job
      <3>1. job.attempt + 1 \in 0 .. MAX_RETRIES
        BY <1>0, <1>6 DEF Retry, Job
      <3>2. FirstEngine(job) \in {"cpsat", "greedy"}
        BY DEF FirstEngine
      <3>3. job' = [job EXCEPT !.at = "load", !.attempt = job.attempt + 1, !.engine = FirstEngine(job)]
        BY <1>6 DEF Retry
      <3>4. QED
        BY <1>0, <3>1, <3>2, <3>3 DEF Job
    <2>3. QED
      BY <1>6, <2>1, <2>2 DEF Retry, TypeOK
  <1>7. ASSUME NEW state \in {"done", "overlap_alert", "error"}, End(state)
        PROVE  txn' \in Txn /\ savepoint' \in Txn /\ job' \in Job
    <2>1. job' = [job EXCEPT !.at = "idle", !.state = state, !.depth = 0, !.loaded = {}]
      BY <1>7 DEF End
    <2>2. job' \in Job
      BY <1>0, <1>00, <1>7, <2>1 DEF Job
    <2>3. QED
      BY <1>7, <2>2, NoTxnType DEF End
  <1>8. CASE GiveUp
    <2>1. End("overlap_alert") \/ End("error")
      BY <1>8 DEF GiveUp
    <2>2. QED
      BY <1>7, <1>8, <2>1 DEF GiveUp, TypeOK
  <1>9. CASE Accept
    <2>1. job' \in Job
      BY <1>0, <1>9 DEF Accept, Job
    <2>2. QED
      BY <1>9, <2>1 DEF Accept, TypeOK
  <1>10. CASE Boost
    <2>1. {t.batch : t \in Late(TasksIn(txn))} \in SUBSET Batch
      BY <1>0, SeenTypes DEF Late, TaskRow
    <2>2. txn' \in Txn
      <3>1. Purge(txn) \in Txn
        BY <1>0, PurgeType
      <3>2. QED
        BY <1>10, <2>1, <3>1 DEF Boost, Txn
    <2>3. job' \in Job
      <3>1. job' = [job EXCEPT !.at = "load", !.depth = 1, !.attempt = 0, !.engine = "cpsat"]
        BY <1>10 DEF Boost
      <3>2. QED
        BY <1>0, <1>00, <3>1 DEF Job
    <2>4. QED
      BY <1>10, <2>2, <2>3 DEF Boost, TypeOK
  <1>11. CASE EndBoost
    <2>1. job' \in Job
      <3>1. job' = [job EXCEPT !.at = "commit", !.depth = 0]
        BY <1>11 DEF EndBoost
      <3>2. QED
        BY <1>0, <1>00, <3>1 DEF Job
    <2>2. QED
      BY <1>0, <1>11, <2>1, NoTxnType DEF EndBoost, TypeOK
  <1>12. CASE Commit
    <2>1. tasks' \in SUBSET TaskRow /\ status' \in [Batch -> Statuses] /\ urgent' \in SUBSET Batch
      <3>1. TasksIn(txn) \in SUBSET TaskRow /\ StatusIn(txn) \in [Batch -> Statuses]
        BY <1>0, SeenTypes
      <3>2. QED
        BY <1>0, <1>12, <3>1 DEF Commit, TypeOK, Txn
    <2>2. QED
      BY <1>7, <1>12, <2>1 DEF Commit, TypeOK
  <1>13. CASE Fail
    <2>1. CASE job.depth = 1
      <3>1. job' \in Job
        <4>1. job' = [job EXCEPT !.at = "commit", !.depth = 0]
          BY <1>13, <2>1 DEF Fail
        <4>2. QED
          BY <1>0, <1>00, <4>1 DEF Job
      <3>2. QED
        BY <1>0, <1>13, <2>1, <3>1, NoTxnType DEF Fail, TypeOK
    <2>2. CASE job.depth # 1
      BY <1>7, <1>13, <2>2 DEF Fail, TypeOK
    <2>3. QED
      BY <2>1, <2>2
  <1>14. ASSUME NEW B, NEW s \in NewStatuses, SetStatus(B, s) PROVE TypeOK'
    <2>1. status' \in [Batch -> Statuses]
      BY <1>14 DEF SetStatus, TypeOK, Statuses
    <2>2. QED
      BY <1>14, <2>1 DEF SetStatus, TypeOK
  <1>15. CASE Operator
    BY <1>14, <1>15 DEF Operator, UpdateBatchStatus, UpdateBatch, UpdateBatchGroupStatus
  <1>16. CASE UNCHANGED vars
    BY <1>16 DEF TypeOK, vars
  <1>17. QED
    BY <1>1, <1>2, <1>3, <1>4, <1>5, <1>6, <1>8, <1>9, <1>10, <1>11, <1>12, <1>13, <1>15, <1>16
       DEF Next, JobStep

-----------------------------------------------------------------------------
(* Nothing that overlaps is committed *)

(* A step that writes neither the committed tasks nor the transaction, and *)
(* leaves the job where it is, keeps the invariant.                        *)
LEMMA JobInvFrame ==
    ASSUME JobInv, TypeOK', UNCHANGED <<tasks, txn, savepoint, job>>
    PROVE  JobInv'
  BY DEF JobInv, TasksIn

(* Every step keeps the invariant.                                         *)
LEMMA JobInvStep ==
    ASSUME JobInv, [Next]_vars
    PROVE  JobInv'
  <1>0. /\ TypeOK /\ TypeOK' /\ NoOverlap(tasks)
        /\ txn \in Txn /\ savepoint \in Txn /\ job \in Job
    BY TypeStep DEF JobInv, TypeOK
  <1>00. ~HasOverlap(TasksIn(txn)) => NoOverlap(TasksIn(txn))
    BY <1>0, SeenTypes, NeighboursSuffice
  <1>1. ASSUME NEW use_cpsat \in BOOLEAN, Submit(use_cpsat) PROVE JobInv'
    <2>1. job'.at = "enter" /\ job'.depth = 0 /\ tasks' = tasks
      BY <1>1 DEF Submit
    <2>2. QED
      BY <1>0, <2>1 DEF JobInv
  <1>2. ASSUME tasks' = tasks, savepoint' = savepoint, job'.at # "commit", job'.depth = job.depth
        PROVE  JobInv'
    BY <1>0, <1>2 DEF JobInv, TasksIn
  <1>3. CASE Enter
    <2>1. job'.at = "load" /\ job'.depth = job.depth /\ UNCHANGED <<tasks, savepoint>>
      BY <1>0, <1>3 DEF Enter, Job
    <2>2. QED
      BY <1>2, <2>1
  <1>4. CASE Load
    <2>1. job'.at = "place" /\ job'.depth = job.depth /\ UNCHANGED <<tasks, savepoint>>
      BY <1>0, <1>4 DEF Load, Job
    <2>2. QED
      BY <1>2, <2>1
  <1>5. CASE SolverGivesUp
    <2>1. job'.at = "load" /\ job'.depth = job.depth /\ UNCHANGED <<tasks, savepoint>>
      BY <1>0, <1>5 DEF SolverGivesUp, Job
    <2>2. QED
      BY <1>2, <2>1
  <1>6. ASSUME NEW placing \in Placings(job.loaded), NEW lex \in BOOLEAN, Place(placing, lex)
        PROVE  JobInv'
    <2>1. job'.at = "check" /\ job'.depth = job.depth /\ UNCHANGED <<tasks, savepoint>>
      BY <1>0, <1>6 DEF Place, Job
    <2>2. QED
      BY <1>2, <2>1
  <1>7. CASE Retry
    <2>1. job'.at = "load" /\ job'.depth = job.depth /\ UNCHANGED <<tasks, savepoint>>
      BY <1>0, <1>7 DEF Retry, Job
    <2>2. QED
      BY <1>2, <2>1
  <1>8. ASSUME NEW state, End(state), NoOverlap(tasks')
        PROVE  JobInv'
    <2>1. job'.at = "idle" /\ job'.depth = 0
      BY <1>0, <1>8 DEF End, Job
    <2>2. QED
      BY <1>0, <1>8, <2>1 DEF JobInv
  <1>9. CASE GiveUp
    BY <1>0, <1>8, <1>9 DEF GiveUp
  <1>10. CASE Accept
    <2>1. NoOverlap(TasksIn(txn)) /\ job.depth = 0 /\ job'.depth = 0
      BY <1>0, <1>00, <1>10 DEF Accept, Job
    <2>2. QED
      BY <1>0, <1>10, <2>1 DEF Accept, JobInv, TasksIn
  <1>11. CASE Boost
    <2>1. NoOverlap(TasksIn(txn)) /\ savepoint' = txn /\ tasks' = tasks
      BY <1>0, <1>00, <1>11 DEF Boost
    <2>2. job'.at = "load"
      BY <1>0, <1>11 DEF Boost, Job
    <2>3. QED
      BY <1>0, <2>1, <2>2 DEF JobInv, TasksIn
  <1>12. CASE EndBoost
    <2>1. NoOverlap(TasksIn(txn)) /\ NoOverlap(TasksIn(savepoint))
      BY <1>0, <1>00, <1>12 DEF EndBoost, JobInv
    <2>2. txn' \in {txn, savepoint} /\ tasks' = tasks
      BY <1>12 DEF EndBoost
    <2>3. job'.depth = 0
      BY <1>0, <1>12 DEF EndBoost, Job
    <2>4. NoOverlap(TasksIn(txn)')
      <3>1. CASE txn' = txn
        <4>1. TasksIn(txn)' = TasksIn(txn)
          BY <2>2, <3>1 DEF TasksIn
        <4>2. QED
          BY <2>1, <4>1
      <3>2. CASE txn' = savepoint
        <4>1. TasksIn(txn)' = TasksIn(savepoint)
          BY <2>2, <3>2 DEF TasksIn
        <4>2. QED
          BY <2>1, <4>1
      <3>3. QED
        BY <2>2, <3>1, <3>2
    <2>5. NoOverlap(tasks')
      BY <1>0, <2>2
    <2>6. QED
      BY <1>0, <2>3, <2>4, <2>5 DEF JobInv
  <1>13. CASE Commit
    <2>1. End("done") /\ NoOverlap(tasks')
      BY <1>13 DEF Commit, JobInv
    <2>2. QED
      BY <1>8, <2>1
  <1>14. CASE Fail
    <2>1. CASE job.depth = 1
      <3>1. txn' = savepoint /\ tasks' = tasks /\ NoOverlap(TasksIn(savepoint))
        BY <1>14, <2>1 DEF Fail, JobInv
      <3>2. job'.depth = 0
        BY <1>0, <1>14, <2>1 DEF Fail, Job
      <3>3. QED
        BY <1>0, <3>1, <3>2 DEF JobInv, TasksIn
    <2>2. CASE job.depth # 1
      BY <1>0, <1>8, <1>14, <2>2 DEF Fail
    <2>3. QED
      BY <2>1, <2>2
  <1>15. CASE Operator
    <2>1. UNCHANGED <<tasks, txn, savepoint, job>>
      BY <1>15 DEF Operator, UpdateBatchStatus, UpdateBatch, UpdateBatchGroupStatus, SetStatus
    <2>2. QED
      BY <1>0, <2>1, JobInvFrame
  <1>16. CASE UNCHANGED vars
    <2>1. UNCHANGED <<tasks, txn, savepoint, job>>
      BY <1>16 DEF vars
    <2>2. QED
      BY <1>0, <2>1, JobInvFrame
  <1>17. QED
    BY <1>1, <1>3, <1>4, <1>5, <1>6, <1>7, <1>9, <1>10, <1>11, <1>12, <1>13, <1>14, <1>15, <1>16
       DEF Next, JobStep

LEMMA JobInvInit ==
    ASSUME Init
    PROVE  JobInv
  <1>1. TypeOK
    <2>1. job \in Job
      BY AutoScheduleAssumption DEF Init, Job
    <2>2. QED
      BY <2>1, NoTxnType DEF Init, TypeOK, Statuses
  <1>2. NoOverlap(tasks)
    BY DEF Init, NoOverlap
  <1>3. QED
    BY <1>1, <1>2 DEF Init, JobInv

(* The invariant holds in every state of every behaviour: what a job is    *)
(* about to commit, or may still return to, has no overlap.                *)
THEOREM JobInvariant == Spec => []JobInv
  <1>1. Init => JobInv
    BY JobInvInit
  <1>2. JobInv /\ [Next]_vars => JobInv'
    BY JobInvStep
  <1>3. QED
    BY <1>1, <1>2, PTL DEF Spec

(* No committed plan has two tasks at once on a machine, whichever path of *)
(* retries, fall-backs, boosts and rollbacks led to it.                    *)
THEOREM CommittedPlansAreSound == Spec => []PlanIsSound
  <1>1. JobInv => PlanIsSound
    BY DEF JobInv, PlanIsSound
  <1>2. QED
    BY <1>1, JobInvariant, PTL

(* A boost retry is adopted only when it makes the plan less tardy; in any *)
(* other case all it wrote is undone.                                      *)
THEOREM BoostsHelp == Spec => BoostHelpsOrLeavesNoTrace
  <1> DEFINE Good == job.depth = 1 /\ job'.at = "commit" =>
                        txn' = savepoint \/ LessTardy(TasksIn(txn'), TasksIn(savepoint))
  <1>1. ASSUME JobInv, [Next]_vars PROVE Good
    <2>1. job \in Job /\ (job.depth = 1 => job.at # "commit")
      BY <1>1 DEF JobInv, TypeOK
    <2>2. CASE EndBoost
      <3>1. (txn' = txn /\ LessTardy(TasksIn(txn), TasksIn(savepoint))) \/ txn' = savepoint
        BY <2>2 DEF EndBoost
      <3>2. QED
        BY <3>1
    <2>3. CASE Fail
      BY <2>1, <2>3 DEF Fail, End, Job
    <2>4. CASE Accept
      BY <2>4 DEF Accept
    <2>5. CASE Commit \/ GiveUp
      <3>1. PICK state : End(state)
        BY <2>5 DEF Commit, GiveUp
      <3>2. QED
        BY <2>1, <3>1 DEF End, Job
    <2>6. CASE Enter \/ Load \/ SolverGivesUp \/ Retry \/ Boost
      BY <2>1, <2>6 DEF Enter, Load, SolverGivesUp, Retry, Boost, Job
    <2>7. ASSUME NEW placing, NEW lex, Place(placing, lex) PROVE Good
      BY <2>1, <2>7 DEF Place, Job
    <2>8. ASSUME NEW use_cpsat, Submit(use_cpsat) PROVE Good
      BY <2>8 DEF Submit
    <2>9. CASE Operator
      BY <2>1, <2>9 DEF Operator, UpdateBatchStatus, UpdateBatch, UpdateBatchGroupStatus, SetStatus
    <2>10. CASE UNCHANGED vars
      BY <2>1, <2>10 DEF vars
    <2>11. QED
      <3> HIDE DEF Good
      <3>1. QED
        BY <1>1, <2>2, <2>3, <2>4, <2>5, <2>6, <2>7, <2>8, <2>9, <2>10 DEF Next, JobStep
  <1>2. QED
    BY <1>1, JobInvariant, PTL DEF Spec, BoostHelpsOrLeavesNoTrace

-----------------------------------------------------------------------------
(* Nothing is "scheduled" without a task *)

HaveTasks(S, T) == \A b \in Batch : S[b] = "scheduled" => HasTask(b, T)

(* What is committed, what the job is about to commit and what it may      *)
(* return to: in none of them is a batch "scheduled" without a task, and   *)
(* an operator in between makes no batch "scheduled".                      *)
ScheduledInv ==
    /\ TypeOK
    /\ HaveTasks(status, tasks)
    /\ HaveTasks(StatusIn(txn), TasksIn(txn))
    /\ HaveTasks(StatusIn(savepoint), TasksIn(savepoint))

(* A job that has written nothing sees what is committed.                  *)
LEMMA NothingWritten ==
    ASSUME TypeOK
    PROVE  StatusIn(NoTxn) = status /\ TasksIn(NoTxn) = tasks
  BY DEF StatusIn, TasksIn, NoTxn, TypeOK

(* After _purge_run_tasks nothing is "scheduled".                          *)
LEMMA NothingIsScheduled ==
    ASSUME TypeOK, NEW x \in Txn
    PROVE  \A b \in Batch : StatusIn(Purge(x))[b] # "scheduled"
  <1> DEFINE reset == [b \in Batch |-> IF StatusIn(x)[b] = "scheduled" THEN "planned" ELSE x.status[b]]
  <1>1. Purge(x).status = reset
    BY DEF Purge, Txn
  <1>2. ASSUME NEW b \in Batch
        PROVE  StatusIn(Purge(x))[b] # "scheduled"
    <2>1. Kept # "planned" /\ Kept # "scheduled"
      BY AutoScheduleAssumption DEF Statuses
    <2>2. StatusIn(x)[b] = IF x.status[b] = Kept THEN status[b] ELSE x.status[b]
      BY DEF StatusIn
    <2>3. StatusIn(Purge(x))[b] = IF reset[b] = Kept THEN status[b] ELSE reset[b]
      BY <1>1 DEF StatusIn
    <2>4. reset[b] = IF StatusIn(x)[b] = "scheduled" THEN "planned" ELSE x.status[b]
      OBVIOUS
    <2> HIDE DEF reset
    <2>5. QED
      BY <2>1, <2>2, <2>3, <2>4
  <1>3. QED
    BY <1>2

(* The first batch of a group of loaded batches is one of them.            *)
LEMMA RepOfGroup ==
    ASSUME NEW B \in SUBSET Batch, NEW g \in Groups(B)
    PROVE  Rep(g, B) \in B /\ GroupOf[Rep(g, B)] = g
  <1> DEFINE S == {b \in B : GroupOf[b] = g}
  <1>1. S \subseteq Nat /\ S # {}
    BY AutoScheduleAssumption DEF Groups
  <1>2. \E m \in S : \A n \in S : m <= n
    <2> HIDE DEF S
    <2>1. QED
      BY <1>1, LeastNumber
  <1>3. Min(S) \in S
    BY <1>2 DEF Min
  <1>4. QED
    BY <1>3 DEF Rep

(* A group that found a place has a task there.                            *)
LEMMA PlacedHaveTasks ==
    ASSUME TypeOK, HaveTasks(StatusIn(txn), TasksIn(txn)),
           NEW placing \in Placings(job.loaded), NEW lex \in BOOLEAN, Place(placing, lex)
    PROVE  HaveTasks(StatusIn(txn'), TasksIn(txn'))
  <1> DEFINE B == job.loaded
             made == [b \in Batch |-> IF b \in B /\ placing[GroupOf[b]] # {} THEN "scheduled"
                                      ELSE txn.status[b]]
  <1>1. txn \in Txn /\ B \in SUBSET Batch
    BY DEF TypeOK, Job
  <1>2. txn' = [txn EXCEPT !.inserted = txn.inserted \cup Placed(placing, B), !.status = made]
    BY <1>1 DEF Place, Txn
  <1>3. /\ txn'.status = made /\ txn'.deleted = txn.deleted
        /\ txn'.inserted = txn.inserted \cup Placed(placing, B)
    <2> HIDE DEF made
    <2>1. QED
      BY <1>1, <1>2 DEF Txn
  <1>4. TasksIn(txn) \subseteq TasksIn(txn') /\ Placed(placing, B) \subseteq TasksIn(txn')
    BY <1>3 DEF TasksIn
  <1>5. ASSUME NEW b \in Batch, StatusIn(txn')[b] = "scheduled"
        PROVE  HasTask(b, TasksIn(txn'))
    <2>1. CASE b \in B /\ placing[GroupOf[b]] # {}
      <3>1. GroupOf[b] \in Groups(B)
        BY <1>1, <2>1 DEF Groups
      <3>2. PICK p \in placing[GroupOf[b]] : TRUE
        BY <2>1
      <3>3. [batch |-> Rep(GroupOf[b], B), place |-> p] \in Placed(placing, B)
        BY <3>1, <3>2 DEF Placed
      <3>4. GroupOf[Rep(GroupOf[b], B)] = GroupOf[b]
        BY <1>1, <3>1, RepOfGroup
      <3>5. QED
        BY <1>4, <3>3, <3>4 DEF HasTask
    <2>2. CASE ~(b \in B /\ placing[GroupOf[b]] # {})
      <3>1. txn'.status[b] = txn.status[b]
        BY <1>3, <2>2
      <3>2. StatusIn(txn)[b] = "scheduled"
        BY <1>5, <3>1 DEF StatusIn
      <3>3. HasTask(b, TasksIn(txn))
        BY <3>2 DEF HaveTasks
      <3>4. QED
        BY <1>4, <3>3 DEF HasTask
    <2>3. QED
      BY <2>1, <2>2
  <1>6. QED
    BY <1>5 DEF HaveTasks

(* Load takes batches to "wip_complete", none to "scheduled".              *)
LEMMA LoadedHaveTasks ==
    ASSUME TypeOK, HaveTasks(StatusIn(txn), TasksIn(txn)), Load
    PROVE  HaveTasks(StatusIn(txn'), TasksIn(txn'))
  <1>1. PICK planned \in SUBSET Batch :
           txn' = [txn EXCEPT !.status =
                      [b \in Batch |-> IF b \in planned \cap InStock THEN "wip_complete" ELSE txn.status[b]]]
    BY DEF Load
  <1> DEFINE made == [b \in Batch |-> IF b \in planned \cap InStock THEN "wip_complete" ELSE txn.status[b]]
  <1>2. txn'.status = made /\ txn'.deleted = txn.deleted /\ txn'.inserted = txn.inserted
    <2>1. txn' = [txn EXCEPT !.status = made]
      BY <1>1
    <2> HIDE DEF made
    <2>2. QED
      BY <2>1 DEF TypeOK, Txn
  <1>3. TasksIn(txn') = TasksIn(txn)
    BY <1>2 DEF TasksIn
  <1>4. \A b \in Batch : StatusIn(txn')[b] = "scheduled" => StatusIn(txn)[b] = "scheduled"
    BY <1>2, AutoScheduleAssumption DEF StatusIn, Statuses
  <1>5. QED
    BY <1>3, <1>4 DEF HaveTasks

(* A step that commits nothing: only what the job sees is in question.     *)
LEMMA ScheduledFrame ==
    ASSUME ScheduledInv, TypeOK', UNCHANGED <<tasks, status>>,
           savepoint' \in {savepoint, txn, NoTxn},
           HaveTasks(StatusIn(txn'), TasksIn(txn'))
    PROVE  ScheduledInv'
  <1>1. HaveTasks(status, tasks)'
    BY DEF ScheduledInv, HaveTasks, HasTask
  <1>2. HaveTasks(StatusIn(NoTxn), TasksIn(NoTxn))
    BY NothingWritten DEF ScheduledInv
  <1>3. PICK x \in {savepoint, txn, NoTxn} : savepoint' = x
    OBVIOUS
  <1>4. HaveTasks(StatusIn(x), TasksIn(x))
    BY <1>2 DEF ScheduledInv
  <1>5. StatusIn(savepoint)' = StatusIn(x) /\ TasksIn(savepoint)' = TasksIn(x)
    BY <1>3 DEF StatusIn, TasksIn
  <1>6. StatusIn(txn)' = StatusIn(txn') /\ TasksIn(txn)' = TasksIn(txn')
    BY DEF StatusIn, TasksIn
  <1>7. QED
    BY <1>1, <1>4, <1>5, <1>6 DEF ScheduledInv, HaveTasks, HasTask

(* Every step keeps the invariant.                                         *)
LEMMA ScheduledStep ==
    ASSUME ScheduledInv, [Next]_vars
    PROVE  ScheduledInv'
  <1>0. /\ TypeOK /\ TypeOK' /\ txn \in Txn /\ savepoint \in Txn
        /\ HaveTasks(StatusIn(txn), TasksIn(txn))
        /\ HaveTasks(StatusIn(savepoint), TasksIn(savepoint))
        /\ HaveTasks(StatusIn(NoTxn), TasksIn(NoTxn))
    BY TypeStep, NothingWritten DEF ScheduledInv, TypeOK
  <1>1. HaveTasks(StatusIn(Purge(txn)), TasksIn(Purge(txn)))
    BY <1>0, NothingIsScheduled DEF HaveTasks
  <1>2. ASSUME UNCHANGED <<tasks, status>>, savepoint' \in {savepoint, txn, NoTxn},
               txn' \in {txn, savepoint, NoTxn, Purge(txn)}
        PROVE  ScheduledInv'
    <2>1. HaveTasks(StatusIn(txn'), TasksIn(txn'))
      BY <1>0, <1>1, <1>2
    <2>2. QED
      BY <1>0, <1>2, <2>1, ScheduledFrame
  <1>3. CASE (\E use_cpsat \in BOOLEAN : Submit(use_cpsat)) \/ Enter \/ SolverGivesUp \/ Retry \/ Accept \/ EndBoost
    BY <1>2, <1>3 DEF Submit, Enter, SolverGivesUp, Retry, Accept, EndBoost
  <1>4. CASE GiveUp \/ Fail
    <2>1. UNCHANGED <<tasks, status>> /\ savepoint' \in {savepoint, txn, NoTxn}
          /\ txn' \in {txn, savepoint, NoTxn, Purge(txn)}
      BY <1>4 DEF GiveUp, Fail, End
    <2>2. QED
      BY <1>2, <2>1
  <1>5. CASE Load
    <2>1. HaveTasks(StatusIn(txn'), TasksIn(txn')) /\ UNCHANGED <<tasks, status, savepoint>>
      BY <1>0, <1>5, LoadedHaveTasks DEF Load
    <2>2. QED
      BY <1>0, <2>1, ScheduledFrame
  <1>6. ASSUME NEW placing \in Placings(job.loaded), NEW lex \in BOOLEAN, Place(placing, lex)
        PROVE  ScheduledInv'
    <2>1. HaveTasks(StatusIn(txn'), TasksIn(txn')) /\ UNCHANGED <<tasks, status, savepoint>>
      BY <1>0, <1>6, PlacedHaveTasks DEF Place
    <2>2. QED
      BY <1>0, <2>1, ScheduledFrame
  <1>7. CASE Boost
    <2>1. PICK U \in SUBSET Batch : txn' = [Purge(txn) EXCEPT !.urgent = U]
      <3>1. Purge(txn) \in Txn /\ TasksIn(txn) \in SUBSET TaskRow
        BY <1>0, PurgeType, SeenTypes
      <3>2. {t.batch : t \in Late(TasksIn(txn))} \in SUBSET Batch
        BY <3>1 DEF Late, TaskRow
      <3>3. Purge(txn).urgent \cup {t.batch : t \in Late(TasksIn(txn))} \in SUBSET Batch
        BY <3>1, <3>2 DEF Txn
      <3>4. QED
        BY <1>7, <3>3 DEF Boost
    <2>2. /\ txn'.status = Purge(txn).status /\ txn'.deleted = Purge(txn).deleted
          /\ txn'.inserted = Purge(txn).inserted
      BY <1>0, <2>1, PurgeType DEF Txn
    <2>3. StatusIn(txn') = StatusIn(Purge(txn)) /\ TasksIn(txn') = TasksIn(Purge(txn))
      BY <2>2 DEF StatusIn, TasksIn
    <2>4. UNCHANGED <<tasks, status>> /\ savepoint' = txn
      BY <1>7 DEF Boost
    <2>5. QED
      BY <1>0, <1>1, <2>3, <2>4, ScheduledFrame
  <1>8. CASE Commit
    <2>1. tasks' = TasksIn(txn) /\ status' = StatusIn(txn) /\ txn' = NoTxn /\ savepoint' = NoTxn
      BY <1>8 DEF Commit, End
    <2>2. HaveTasks(status, tasks)'
      BY <1>0, <2>1 DEF HaveTasks, HasTask
    <2>3. StatusIn(NoTxn)' = status' /\ TasksIn(NoTxn)' = tasks'
      BY <1>0 DEF StatusIn, TasksIn, NoTxn, TypeOK
    <2>4. StatusIn(txn)' = StatusIn(NoTxn)' /\ StatusIn(savepoint)' = StatusIn(NoTxn)'
          /\ TasksIn(txn)' = TasksIn(NoTxn)' /\ TasksIn(savepoint)' = TasksIn(NoTxn)'
      BY <2>1 DEF StatusIn, TasksIn, NoTxn
    <2>5. QED
      BY <1>0, <2>2, <2>3, <2>4 DEF ScheduledInv, HaveTasks, HasTask
  <1>9. ASSUME NEW B, NEW s \in NewStatuses, SetStatus(B, s) PROVE ScheduledInv'
    <2>1. UNCHANGED <<tasks, txn, savepoint>>
      BY <1>9 DEF SetStatus
    <2>2. \A b \in Batch : status'[b] = "scheduled" => status[b] = "scheduled"
      BY <1>9, AutoScheduleAssumption DEF SetStatus
    <2>3. \A b \in Batch : StatusIn(txn)'[b] = "scheduled" => StatusIn(txn)[b] = "scheduled"
      BY <2>1, <2>2 DEF StatusIn
    <2>4. \A b \in Batch : StatusIn(savepoint)'[b] = "scheduled" => StatusIn(savepoint)[b] = "scheduled"
      BY <2>1, <2>2 DEF StatusIn
    <2>5. TasksIn(txn)' = TasksIn(txn) /\ TasksIn(savepoint)' = TasksIn(savepoint)
      BY <2>1 DEF TasksIn
    <2>6. QED
      BY <1>0, <2>1, <2>2, <2>3, <2>4, <2>5 DEF ScheduledInv, HaveTasks, HasTask
  <1>10. CASE Operator
    BY <1>9, <1>10 DEF Operator, UpdateBatchStatus, UpdateBatch, UpdateBatchGroupStatus
  <1>11. CASE UNCHANGED vars
    BY <1>2, <1>11 DEF vars
  <1>12. QED
    BY <1>3, <1>4, <1>5, <1>6, <1>7, <1>8, <1>10, <1>11 DEF Next, JobStep

LEMMA ScheduledInit ==
    ASSUME Init
    PROVE  ScheduledInv
  <1>1. TypeOK
    BY JobInvInit DEF JobInv
  <1>2. HaveTasks(status, tasks)
    BY DEF Init, HaveTasks
  <1>3. QED
    BY <1>1, <1>2, NothingWritten DEF Init, ScheduledInv

(* No batch is "scheduled" without a task of its group, whatever a job     *)
(* does, gives up or takes back, and whatever operators do meanwhile.      *)
THEOREM ScheduledBatchesAreOnTheChart == Spec => []ScheduledBatchesHaveTasks
  <1>1. Init => ScheduledInv
    BY ScheduledInit
  <1>2. ScheduledInv /\ [Next]_vars => ScheduledInv'
    BY ScheduledStep
  <1>3. ScheduledInv => ScheduledBatchesHaveTasks
    BY DEF ScheduledInv, HaveTasks, ScheduledBatchesHaveTasks
  <1>4. QED
    BY <1>1, <1>2, <1>3, PTL DEF Spec

=============================================================================
