--------------------------- MODULE CascadeProofs ---------------------------
(***************************************************************************)
(* What every cascade preview guarantees, for any number of tasks and any  *)
(* limits.  The invariant is that two tasks that overlap are never both    *)
(* behind the point the waves have reached; a preview that resolves        *)
(* everything has nothing left to expand, hence no overlap.  An offered    *)
(* pull passes the task before it on the machine by no more than the rest  *)
(* it crosses, so that rest is all that can keep two offers apart.         *)
(***************************************************************************)
EXTENDS CascadePreview, FiniteSetTheorems, WellFoundedInduction, TLAPS

-----------------------------------------------------------------------------
(* Sequences and maxima *)

LEMMA MembersAppend ==
    ASSUME NEW s \in Seq(Task), NEW t \in Task
    PROVE  Members(Append(s, t)) = Members(s) \cup {t}
  <1> DEFINE q == Append(s, t)
  <1>1. /\ DOMAIN s = 1 .. Len(s) /\ DOMAIN q = 1 .. Len(s) + 1 /\ Len(s) \in Nat
        /\ q[Len(s) + 1] = t /\ \A i \in 1 .. Len(s) : q[i] = s[i]
    OBVIOUS
  <1>2. \A i \in 1 .. Len(s) + 1 : i = Len(s) + 1 \/ i \in 1 .. Len(s)
    BY <1>1
  <1>3. \A i \in 1 .. Len(s) : i \in 1 .. Len(s) + 1
    BY <1>1
  <1>4. Len(s) + 1 \in 1 .. Len(s) + 1
    BY <1>1
  <1> HIDE DEF q
  <1>5. Members(q) \subseteq Members(s) \cup {t}
    BY <1>1, <1>2 DEF Members
  <1>6. Members(s) \cup {t} \subseteq Members(q)
    BY <1>1, <1>3, <1>4 DEF Members
  <1>7. QED
    BY <1>5, <1>6 DEF q

LEMMA MembersHeadTail ==
    ASSUME NEW s \in Seq(Task), s # <<>>
    PROVE  /\ Head(s) \in Task /\ Tail(s) \in Seq(Task)
           /\ Members(s) = {Head(s)} \cup Members(Tail(s))
  <1>1. Head(s) \in Task /\ Tail(s) \in Seq(Task) /\ Len(s) >= 1 /\ Head(s) = s[1]
    OBVIOUS
  <1>2. Len(Tail(s)) = Len(s) - 1 /\ \A i \in 1 .. Len(s) - 1 : Tail(s)[i] = s[i + 1]
    OBVIOUS
  <1>3. DOMAIN s = 1 .. Len(s) /\ DOMAIN Tail(s) = 1 .. Len(s) - 1
    BY <1>1, <1>2
  <1>4. ASSUME NEW x \in Members(s) PROVE x \in {Head(s)} \cup Members(Tail(s))
    <2>1. PICK i \in 1 .. Len(s) : x = s[i]
      BY <1>3 DEF Members
    <2>2. CASE i = 1
      BY <1>1, <2>1, <2>2
    <2>3. CASE i # 1
      <3>1. i - 1 \in 1 .. Len(s) - 1 /\ Tail(s)[i - 1] = s[i]
        BY <1>2, <2>1, <2>3
      <3>2. QED
        BY <1>3, <2>1, <3>1 DEF Members
    <2>4. QED
      BY <2>2, <2>3
  <1>5. ASSUME NEW x \in {Head(s)} \cup Members(Tail(s)) PROVE x \in Members(s)
    <2>1. CASE x = Head(s)
      BY <1>1, <1>3, <2>1 DEF Members
    <2>2. CASE x \in Members(Tail(s))
      <3>1. PICK i \in 1 .. Len(s) - 1 : x = Tail(s)[i]
        BY <1>3, <2>2 DEF Members
      <3>2. i + 1 \in 1 .. Len(s) /\ x = s[i + 1]
        BY <1>2, <3>1
      <3>3. QED
        BY <1>3, <3>2 DEF Members
    <2>3. QED
      BY <1>5, <2>1, <2>2
  <1>6. QED
    BY <1>1, <1>4, <1>5

LEMMA MembersEmpty ==
    ASSUME NEW s \in Seq(Task)
    PROVE  Members(s) \subseteq Task /\ (Members(s) = {} <=> s = <<>>)
  <1>1. DOMAIN s = 1 .. Len(s) /\ Len(s) \in Nat /\ \A i \in 1 .. Len(s) : s[i] \in Task
    OBVIOUS
  <1>2. Members(s) \subseteq Task
    BY <1>1 DEF Members
  <1>3. CASE s = <<>>
    BY <1>3 DEF Members
  <1>4. CASE s # <<>>
    BY <1>2, <1>4, MembersHeadTail
  <1>5. QED
    BY <1>2, <1>3, <1>4

LEMMA MaxOfTwo ==
    ASSUME NEW a \in Int, NEW S \in SUBSET Int, \A x, y \in S : x = y
    PROVE  Max({a} \cup S) \in {a} \cup S /\ Max({a} \cup S) >= a
  <1> DEFINE U == {a} \cup S
  <1>1. \E x \in U : \A y \in U : x >= y
    <2>1. CASE S = {}
      BY <2>1
    <2>2. CASE S # {}
      <3>1. PICK b \in S : TRUE
        BY <2>2
      <3>2. U = {a, b}
        BY <3>1
      <3>3. a >= b \/ b >= a
        BY <3>1
      <3>4. QED
        BY <3>1, <3>2, <3>3
    <2>3. QED
      BY <2>1, <2>2
  <1>2. Max(U) \in U /\ \A y \in U : Max(U) >= y
    BY <1>1 DEF Max
  <1>3. QED
    BY <1>2

LEMMA EarliestType ==
    ASSUME WavesTypeOK, frontier # <<>>, NEW t \in Task
    PROVE  Earliest(t) \in Nat /\ Earliest(t) >= snap[T].end
  <1>1. T \in Task /\ snap[T].end \in Nat
    BY MembersHeadTail DEF WavesTypeOK, T, Row
  <1>2. SameEqPrevEnd(t) \subseteq Nat /\ \A x, y \in SameEqPrevEnd(t) : x = y
    <2>1. EndsBefore(t) \subseteq Nat
      BY DEF EndsBefore, WavesTypeOK, Row
    <2>2. QED
      BY <2>1 DEF SameEqPrevEnd
  <1> DEFINE S == SameEqPrevEnd(t) \ {snap[t].start}
  <1>3. S \in SUBSET Int /\ S \subseteq Nat /\ \A x, y \in S : x = y
    BY <1>2
  <1>4. Earliest(t) = Max({snap[T].end} \cup S)
    BY Zenon DEF Earliest
  <1> HIDE DEF S
  <1>5. snap[T].end \in Int
    BY <1>1
  <1>6. Max({snap[T].end} \cup S) \in {snap[T].end} \cup S
        /\ Max({snap[T].end} \cup S) >= snap[T].end
    BY <1>3, <1>5, MaxOfTwo
  <1>7. QED
    BY <1>1, <1>3, <1>4, <1>6

-----------------------------------------------------------------------------
(* The invariant *)

CascadeInv ==
    /\ WavesTypeOK
    /\ OverlapsAwaitTheirTurn
    /\ \A t \in Task : push_count[t] < wave \/ (push_count[t] = wave /\ t \in Members(next))
    /\ pc \in {"pulls", "done"} /\ unresolved = {} => next = <<>> /\ frontier = <<>>

LEMMA CascadeInit == Init => CascadeInv
  <1> SUFFICES ASSUME Init PROVE CascadeInv
    OBVIOUS
  <1>1. original \in [Task -> Row] /\ NoOverlap(original) /\ requested \in Row
    BY CascadeAssumption DEF Init
  <1>2. WavesTypeOK
    BY <1>1, CascadeAssumption DEF Init, WavesTypeOK
  <1>3. Members(frontier) = {changed} /\ Awaiting = Members(next) \cup {changed}
    BY DEF Init, Members, Awaiting
  <1>4. \A t, o \in Task : t # changed /\ o # changed /\ t # o
                              => ~Overlap(snap[t], snap[o])
    <2>1. Live(original) = Task
      BY <1>1, SnapAssumption DEF Live
    <2>2. QED
      BY <1>1, <2>1 DEF Init, NoOverlap
  <1>5. OverlapsAwaitTheirTurn
    BY <1>3, <1>4 DEF OverlapsAwaitTheirTurn
  <1>6. QED
    BY <1>2, <1>5 DEF Init, CascadeInv

(* A push leaves every overlap of the pushed task to be expanded later.    *)
LEMMA PushKeeps ==
    ASSUME CascadeInv, NEW t \in Task \ Members(next), frontier # <<>>, Push(t),
           snap[t].start < Earliest(t), pc \in {"overlaps", "successors"},
           UNCHANGED <<input, pc, wave, frontier, unresolved>>
    PROVE  CascadeInv'
  <1>1. WavesTypeOK /\ Earliest(t) \in Nat /\ snap[t] \in Row
    BY EarliestType DEF CascadeInv, WavesTypeOK
  <1>2. /\ snap' = [snap EXCEPT ![t] = MovedTo(snap[t], Earliest(t))]
        /\ next' = Append(next, t)
        /\ push_count' = [push_count EXCEPT ![t] = @ + 1]
        /\ moved' = moved \cup {t}
        /\ UNCHANGED <<original, changed, requested>>
    BY DEF Push, input
  <1>3. MovedTo(snap[t], Earliest(t)) \in Row
    BY <1>1 DEF MovedTo, Row
  <1>4. next' \in Seq(Task) /\ Members(next') = Members(next) \cup {t}
    BY <1>1, <1>2, MembersAppend DEF WavesTypeOK
  <1>5. WavesTypeOK'
    BY <1>1, <1>2, <1>3, <1>4 DEF WavesTypeOK
  <1>6. OverlapsAwaitTheirTurn'
    <2>1. Awaiting' = Awaiting \cup {t}
      BY <1>4 DEF Awaiting
    <2>2. \A o \in Task \ {t} : snap'[o] = snap[o]
      BY <1>1, <1>2 DEF WavesTypeOK
    <2>3. QED
      BY <2>1, <2>2 DEF OverlapsAwaitTheirTurn, CascadeInv
  <1>7. \A o \in Task : push_count'[o] < wave' \/ (push_count'[o] = wave' /\ o \in Members(next'))
    <2>1. push_count[t] < wave /\ push_count'[t] = push_count[t] + 1
          /\ wave \in Nat /\ push_count[t] \in Nat
      BY <1>1, <1>2 DEF CascadeInv, WavesTypeOK
    <2>2. \A o \in Task \ {t} : push_count'[o] = push_count[o]
      BY <1>1, <1>2 DEF WavesTypeOK
    <2>3. QED
      BY <1>4, <2>1, <2>2 DEF CascadeInv
  <1>8. QED
    BY <1>5, <1>6, <1>7 DEF CascadeInv

(* A step that pushes nothing.                                             *)
LEMMA FrameKeeps ==
    ASSUME CascadeInv, WavesTypeOK', UNCHANGED <<snap, push_count>>,
           wave' >= wave, Awaiting \subseteq Awaiting',
           wave' = wave => Members(next) \subseteq Members(next'),
           pc' \in {"pulls", "done"} /\ unresolved' = {} => next' = <<>> /\ frontier' = <<>>
    PROVE  CascadeInv'
  <1>1. OverlapsAwaitTheirTurn'
    BY DEF CascadeInv, OverlapsAwaitTheirTurn
  <1>2. \A t \in Task : push_count[t] \in Nat /\ wave \in Nat /\ wave' \in Nat
    BY DEF CascadeInv, WavesTypeOK
  <1>3. \A t \in Task : push_count'[t] < wave' \/ (push_count'[t] = wave' /\ t \in Members(next'))
    BY <1>2 DEF CascadeInv
  <1>4. QED
    BY <1>1, <1>3 DEF CascadeInv

LEMMA CascadeStep ==
    ASSUME CascadeInv, [Next]_vars
    PROVE  CascadeInv'
  <1>1. WavesTypeOK
    BY DEF CascadeInv
  <1>2. ASSUME NEW t \in Task, PushOverlapping(t) PROVE CascadeInv'
    <2>1. T \in Task /\ snap[T].end <= Earliest(t) /\ Earliest(t) \in Nat
          /\ snap[T].end \in Nat /\ snap[t].start \in Nat
      BY <1>1, <1>2, EarliestType, MembersHeadTail DEF PushOverlapping, T, WavesTypeOK, Row
    <2>2. t \notin Members(next) /\ snap[t].start < snap[T].end
      BY <1>2 DEF PushOverlapping, Conflicting, SameEquipmentOverlapping, Overlap
    <2>3. snap[t].start < Earliest(t)
      BY <2>1, <2>2
    <2>4. QED
      BY <1>2, <2>2, <2>3, PushKeeps DEF PushOverlapping
  <1>3. ASSUME NEW t \in Task, PushSuccessor(t) PROVE CascadeInv'
    <2>1. t \notin Members(next) /\ snap[t].start < Earliest(t) /\ frontier # <<>>
      BY <1>1, <1>3 DEF PushSuccessor, LateSuccessors, WavesTypeOK
    <2>2. QED
      BY <1>3, <2>1, PushKeeps DEF PushSuccessor
  <1>4. ASSUME TurnToSuccessors PROVE CascadeInv'
    <2>1. Members(frontier) = {T} \cup Members(Tail(frontier)) /\ T \in Task
      BY <1>1, <1>4, MembersHeadTail DEF TurnToSuccessors, WavesTypeOK, T
    <2>2. Awaiting = Members(next) \cup {T} \cup Members(Tail(frontier))
      BY <1>4, <2>1 DEF TurnToSuccessors, Awaiting
    <2>3. Awaiting' = Members(next) \cup Members(Tail(frontier))
      BY <1>4 DEF TurnToSuccessors, Awaiting
    <2>4. \A o \in Task \ {T} : Overlap(snap[T], snap[o]) => o \in Members(next)
      <3>1. Live(snap) = Task
        BY <1>1, SnapAssumption DEF WavesTypeOK, Live
      <3>2. QED
        BY <1>4, <3>1 DEF TurnToSuccessors, Conflicting, SameEquipmentOverlapping
    <2>5. \A t, o \in Task : Overlap(snap[t], snap[o]) => Overlap(snap[o], snap[t])
      BY DEF Overlap
    <2>6. OverlapsAwaitTheirTurn'
      BY <1>4, <2>2, <2>3, <2>4, <2>5 DEF TurnToSuccessors, CascadeInv, OverlapsAwaitTheirTurn
    <2>7. WavesTypeOK'
      BY <1>1, <1>4 DEF TurnToSuccessors, WavesTypeOK, input
    <2>8. QED
      BY <1>4, <2>6, <2>7 DEF TurnToSuccessors, CascadeInv
  <1>5. ASSUME TurnToNextTask PROVE CascadeInv'
    <2>1. WavesTypeOK'
      BY <1>1, <1>5, MembersHeadTail DEF TurnToNextTask, WavesTypeOK, input
    <2>2. Awaiting' = Awaiting
      BY <1>5 DEF TurnToNextTask, Awaiting
    <2>3. QED
      BY <1>1, <1>5, <2>1, <2>2, FrameKeeps DEF TurnToNextTask, WavesTypeOK
  <1>6. ASSUME NextWave PROVE CascadeInv'
    <2>1. WavesTypeOK'
      BY <1>1, <1>6, CascadeAssumption DEF NextWave, WavesTypeOK, input
    <2>2. Members(<<>>) = {}
      BY DEF Members
    <2>3. Awaiting \subseteq Awaiting'
      BY <1>6, <2>2 DEF NextWave, Awaiting
    <2>4. QED
      BY <1>1, <1>6, <2>1, <2>3, FrameKeeps DEF NextWave, WavesTypeOK
  <1>7. ASSUME FailOnDueDate PROVE CascadeInv'
    <2>1. WavesTypeOK'
      BY <1>1, <1>7 DEF FailOnDueDate, WavesTypeOK, input
    <2>2. Awaiting' = Awaiting
      BY <1>7 DEF FailOnDueDate, LastWaveOver, Awaiting
    <2>3. QED
      BY <1>1, <1>7, <2>1, <2>2, FrameKeeps DEF FailOnDueDate, WavesTypeOK
  <1>8. ASSUME Validate PROVE CascadeInv'
    <2>1. Unresolvable \subseteq Task \X Reasons
      BY <1>1, MembersEmpty DEF Unresolvable, WavesTypeOK, Reasons
    <2>2. WavesTypeOK'
      BY <1>1, <1>8, <2>1 DEF Validate, LastWaveOver, WavesTypeOK, input
    <2>3. Awaiting' = Awaiting
      BY <1>8 DEF Validate, LastWaveOver, Awaiting
    <2>4. unresolved' = {} => next' = <<>> /\ frontier' = <<>>
      <3>1. Unresolvable = {} => Members(next) = {}
        BY Zenon DEF Unresolvable
      <3>2. Members(next) = {} => next = <<>>
        BY <1>1, MembersEmpty DEF WavesTypeOK
      <3>3. QED
        BY <1>8, <3>1, <3>2 DEF Validate, LastWaveOver
    <2>5. UNCHANGED <<snap, push_count, wave, next>>
      BY <1>8 DEF Validate
    <2>6. QED
      BY <1>1, <2>2, <2>3, <2>4, <2>5, FrameKeeps DEF WavesTypeOK
  <1>9. ASSUME NEW t \in Task, OfferPull(t) \/ LeaveInPlace(t) PROVE CascadeInv'
    BY <1>9 DEF OfferPull, LeaveInPlace, FirstWaiting, CascadeInv, WavesTypeOK, input,
                OverlapsAwaitTheirTurn, Awaiting
  <1>10. ASSUME Answer PROVE CascadeInv'
    BY <1>10 DEF Answer, CascadeInv, WavesTypeOK, input, OverlapsAwaitTheirTurn, Awaiting
  <1>11. CASE UNCHANGED vars
    BY <1>11 DEF vars, CascadeInv, WavesTypeOK, input, OverlapsAwaitTheirTurn, Awaiting
  <1>12. QED
    BY <1>2, <1>3, <1>4, <1>5, <1>6, <1>7, <1>8, <1>9, <1>10, <1>11
    DEF Next, Step, Answered

-----------------------------------------------------------------------------
THEOREM CascadeInvariant == Spec => []CascadeInv
  BY CascadeInit, CascadeStep, PTL DEF Spec

(* Every overlap is on its way to being resolved.                          *)
THEOREM OverlapsAwait == Spec => []OverlapsAwaitTheirTurn
  <1>1. CascadeInv => OverlapsAwaitTheirTurn
    BY DEF CascadeInv
  <1>2. QED
    BY <1>1, CascadeInvariant, PTL

(* A preview without unresolved tasks has no machine run two tasks.        *)
THEOREM ResolvedPreviewIsSound == Spec => []AutoResolvedIsSound
  <1>1. CascadeInv => AutoResolvedIsSound
    <2> SUFFICES ASSUME CascadeInv, can_auto_resolve PROVE NoOverlap(snap)
      BY DEF AutoResolvedIsSound
    <2>1. next = <<>> /\ frontier = <<>> /\ pc = "done"
      BY DEF can_auto_resolve, CascadeInv
    <2>2. Awaiting = {}
      BY <2>1 DEF Awaiting, Members
    <2>3. QED
      BY <2>2 DEF CascadeInv, OverlapsAwaitTheirTurn, NoOverlap, Live
  <1>2. QED
    BY <1>1, CascadeInvariant, PTL

(* No task is pushed more often than there were waves.                     *)
THEOREM PushedOncePerWave == Spec => []OncePerWave
  <1>1. CascadeInv => OncePerWave
    <2> SUFFICES ASSUME CascadeInv, NEW t \in Task PROVE push_count[t] <= wave
      BY DEF OncePerWave
    <2>1. push_count[t] \in Nat /\ wave \in Nat
      BY CascadeAssumption DEF CascadeInv, WavesTypeOK
    <2>2. QED
      BY <2>1 DEF CascadeInv
  <1>2. QED
    BY <1>1, CascadeInvariant, PTL

-----------------------------------------------------------------------------
(* Pulls *)

(* A set of natural numbers with a bound has a greatest element.           *)
LEMMA GreatestNumber ==
    ASSUME NEW S \in SUBSET Nat, S # {}, NEW n \in Nat, \A e \in S : e <= n
    PROVE  \E m \in S : \A e \in S : e <= m
  <1> DEFINE D == {n - e : e \in S}
  <1>1. D \subseteq Nat /\ D # {}
    <2>1. \A e \in S : n - e \in Nat
      OBVIOUS
    <2>2. QED
      BY <2>1
  <1>2. PICK d \in D : \A c \in D : <<c, d>> \notin OpToRel(<, Nat)
    <2> HIDE DEF D
    <2>1. QED
      BY <1>1, WFMin, NatLessThanWellFounded
  <1>3. PICK m \in S : d = n - m
    OBVIOUS
  <1>4. ASSUME NEW e \in S PROVE e <= m
    <2>1. n - e \in D /\ n - e \in Nat /\ d \in Nat
      BY <1>1
    <2>2. ~(n - e < d)
      BY <1>2, <2>1 DEF OpToRel
    <2>3. QED
      BY <1>3, <2>2
  <1>5. QED
    BY <1>4

(* Working hours and rest make up a span.                                  *)
LEMMA HoursAndRest ==
    ASSUME NEW x \in Int, NEW end \in Int, x <= end
    PROVE  /\ WorkingHours(x, end) \in Nat /\ Cardinality(Rest \cap (x .. end - 1)) \in Nat
           /\ WorkingHours(x, end) + Cardinality(Rest \cap (x .. end - 1)) = end - x
           /\ Cardinality(Rest \cap (x .. end - 1)) <= Cardinality(Rest)
  <1> DEFINE S == x .. (end - 1)
  <1>1. IsFiniteSet(S) /\ Cardinality(S) = end - x
    <2>1. IsFiniteSet(S) /\ Cardinality(S) = IF x > end - 1 THEN 0 ELSE (end - 1) - x + 1
      BY FS_Interval
    <2> HIDE DEF S
    <2>2. QED
      BY <2>1
  <1>2. Cardinality(S \ Rest) = Cardinality(S) - Cardinality(S \cap Rest)
    BY <1>1, CascadeAssumption, FS_Difference
  <1>3. S \cap Rest = Rest \cap S
    OBVIOUS
  <1>4. IsFiniteSet(Rest \cap S) /\ Cardinality(Rest \cap S) <= Cardinality(Rest)
    BY CascadeAssumption, FS_Subset
  <1>5. IsFiniteSet(S \ Rest)
    BY <1>1, FS_Difference
  <1>6. Cardinality(S \ Rest) \in Nat /\ Cardinality(Rest \cap S) \in Nat
    BY <1>4, <1>5, FS_CardinalityType
  <1>7. WorkingHours(x, end) = Cardinality(S \ Rest)
    BY DEF WorkingHours
  <1>8. Cardinality(S \cap Rest) = Cardinality(Rest \cap S)
    BY <1>3
  <1>9. Cardinality(S \ Rest) + Cardinality(Rest \cap S) = end - x
    <2> HIDE DEF S
    <2>1. QED
      BY <1>1, <1>2, <1>6, <1>8
  <1>10. QED
    BY <1>4, <1>6, <1>7, <1>9

(* An hour earlier there is at most one working hour more.                 *)
LEMMA OneHourMore ==
    ASSUME NEW x \in Int, NEW end \in Int, x < end
    PROVE  WorkingHours(x, end) <= WorkingHours(x + 1, end) + 1
  <1> DEFINE S == (x .. end - 1) \ Rest
             U == (x + 1 .. end - 1) \ Rest
  <1>1. IsFiniteSet(U) /\ IsFiniteSet(S)
    <2>1. IsFiniteSet(x + 1 .. end - 1) /\ IsFiniteSet(x .. end - 1)
      BY FS_Interval
    <2>2. QED
      BY <2>1, FS_Difference
  <1>2. S \subseteq U \cup {x}
    OBVIOUS
  <1>3. IsFiniteSet(U \cup {x}) /\ Cardinality(U \cup {x}) = (IF x \in U THEN Cardinality(U) ELSE Cardinality(U) + 1)
    BY <1>1, FS_AddElement
  <1>4. Cardinality(S) <= Cardinality(U \cup {x})
    BY <1>2, <1>3, FS_Subset
  <1>5. Cardinality(U) \in Nat /\ Cardinality(S) \in Nat
    BY <1>1, FS_CardinalityType
  <1>6. WorkingHours(x, end) = Cardinality(S) /\ WorkingHours(x + 1, end) = Cardinality(U)
    BY DEF WorkingHours
  <1> HIDE DEF S, U
  <1>7. QED
    BY <1>3, <1>4, <1>5, <1>6

(* To go back n working hours is possible, and takes as much longer as     *)
(* there is rest on the way.                                               *)
LEMMA BackOverRest ==
    ASSUME NEW end \in Int, NEW n \in Nat
    PROVE  /\ ReverseAdvance(end, n) \in Int /\ ReverseAdvance(end, n) <= end
           /\ ReverseAdvance(end, n) + Cardinality(Rest \cap (ReverseAdvance(end, n) .. end - 1)) = end - n
  <1> DEFINE c == Cardinality(Rest)
             B == (end - n - c) .. end
             P(x) == /\ WorkingHours(x, end) = n
                     /\ \A y \in x + 1 .. end : WorkingHours(y, end) < n
             K == {k \in Nat : WorkingHours(end - k, end) >= n}
  <1>1. c \in Nat
    BY CascadeAssumption, FS_CardinalityType
  <1>2. ASSUME NEW k \in Nat
        PROVE  WorkingHours(end - k, end) \in Nat /\ WorkingHours(end - k, end) <= k /\ WorkingHours(end - k, end) >= k - c
    <2>1. end - k \in Int /\ end - k <= end /\ end - (end - k) = k
      OBVIOUS
    <2> DEFINE x == end - k
               r == Cardinality(Rest \cap (x .. end - 1))
    <2> HIDE DEF x
    <2>2. x \in Int /\ x <= end /\ end - x = k
      BY <2>1 DEF x
    <2>3. /\ WorkingHours(x, end) \in Nat /\ r \in Nat
          /\ WorkingHours(x, end) + r = end - x /\ r <= c
      BY <2>2, HoursAndRest
    <2> HIDE DEF r, c
    <2>4. WorkingHours(x, end) <= k /\ WorkingHours(x, end) >= k - c
      BY <1>1, <2>2, <2>3
    <2>5. QED
      BY <2>3, <2>4 DEF x
  <1> HIDE DEF c
  <1>3. n + c \in K /\ K \subseteq Nat
    <2>1. n + c \in Nat
      BY <1>1
    <2>2. WorkingHours(end - (n + c), end) \in Nat /\ WorkingHours(end - (n + c), end) >= (n + c) - c
      BY <1>2, <2>1
    <2>3. QED
      BY <1>1, <2>1, <2>2
  <1>4. PICK k \in K : \A j \in K : <<j, k>> \notin OpToRel(<, Nat)
    <2> HIDE DEF K
    <2>1. QED
      BY <1>3, WFMin, NatLessThanWellFounded
  <1>5. ASSUME NEW j \in Nat, j < k PROVE WorkingHours(end - j, end) < n
    <2>1. j \notin K
      BY <1>4, <1>5 DEF OpToRel
    <2>2. ~(WorkingHours(end - j, end) >= n)
      BY <2>1
    <2>3. WorkingHours(end - j, end) \in Nat
      BY <1>2
    <2>4. QED
      BY <2>2, <2>3
  <1>6. k \in Nat /\ WorkingHours(end - k, end) >= n
    OBVIOUS
  <1>7. k <= n + c
    <2>1. ~(n + c < k)
      BY <1>1, <1>3, <1>4, <1>6 DEF OpToRel
    <2>2. QED
      BY <1>1, <1>6, <2>1
  <1> HIDE DEF K
  <1>8. WorkingHours(end - k, end) = n
    <2>1. CASE k = 0
      BY <1>2, <1>6, <2>1
    <2>2. CASE k # 0
      <3>1. k - 1 \in Nat /\ k - 1 < k /\ end - (k - 1) = (end - k) + 1 /\ end - k \in Int /\ end - k < end
        BY <1>6, <2>2
      <3>2. WorkingHours(end - (k - 1), end) < n /\ WorkingHours(end - (k - 1), end) \in Nat
        BY <1>2, <1>5, <3>1
      <3>3. WorkingHours(end - k, end) <= WorkingHours((end - k) + 1, end) + 1
        BY <3>1, OneHourMore
      <3>4. WorkingHours(end - k, end) \in Nat
        BY <1>2, <1>6
      <3>5. QED
        BY <1>6, <3>1, <3>2, <3>3, <3>4
    <2>3. QED
      BY <2>1, <2>2
  <1>9. end - k \in B /\ P(end - k)
    <2>1. ASSUME NEW y \in (end - k) + 1 .. end PROVE WorkingHours(y, end) < n
      <3>1. end - y \in Nat /\ end - y < k /\ end - (end - y) = y
        BY <1>6
      <3>2. WorkingHours(end - (end - y), end) < n
        BY <1>5, <3>1
      <3>3. QED
        BY <3>1, <3>2
    <2>2. end - k \in Int /\ end - n - c <= end - k /\ end - k <= end
      BY <1>1, <1>6, <1>7
    <2>3. QED
      BY <1>1, <1>8, <2>1, <2>2
  <1> DEFINE x == ReverseAdvance(end, n)
  <1>10. x \in B /\ P(x)
    <2>1. x = CHOOSE y \in B : P(y)
      BY DEF ReverseAdvance, c
    <2> HIDE DEF B, P, x
    <2>2. QED
      BY <1>9, <2>1
  <1>11. x \in Int /\ x <= end /\ WorkingHours(x, end) = n
    BY <1>1, <1>10
  <1> HIDE DEF x, B, P
  <1>12. /\ Cardinality(Rest \cap (x .. end - 1)) \in Nat
         /\ WorkingHours(x, end) + Cardinality(Rest \cap (x .. end - 1)) = end - x
    BY <1>11, HoursAndRest
  <1>13. QED
    BY <1>11, <1>12 DEF x

(* A pull goes no further than the end of any task before it.              *)
LEMMA PullIsBehindOthers ==
    ASSUME TypeOK, NEW t \in Task
    PROVE  /\ PullTo(t) \in Int
           /\ \A e \in EndsBefore(t) : e <= PullTo(t)
  <1> DEFINE E == EndsBefore(t)
             S == SameEqPrevEnd(t)
  <1>1. /\ E \in SUBSET Nat /\ snap[t].start \in Nat /\ prev_end \in Int
        /\ \A e \in E : e <= snap[t].start
    <2>1. snap \in [Task -> Row] /\ prev_end \in Int
      BY DEF TypeOK, WavesTypeOK
    <2>2. \A o \in Task : snap[o].start \in Nat /\ snap[o].end \in Nat
      BY <2>1 DEF Row
    <2>3. \A e \in E : \E o \in Task : e = snap[o].end /\ snap[o].end <= snap[t].start
      BY DEF EndsBefore
    <2> HIDE DEF E
    <2>4. QED
      BY <2>1, <2>2, <2>3
  <1>2. S = {e \in E : \A f \in E : f <= e}
    BY DEF SameEqPrevEnd
  <1> HIDE DEF E, S
  <1>3. S \in SUBSET Int /\ \A x, y \in S : x = y
    <2>1. \A x \in S : x \in E /\ x \in Nat
      BY <1>1, <1>2
    <2>2. \A x, y \in S : x <= y /\ y <= x
      BY <1>2
    <2>3. QED
      BY <2>1, <2>2
  <1>4. PullTo(t) = Max({prev_end} \cup S)
    BY Zenon DEF PullTo, S
  <1>5. Max({prev_end} \cup S) \in {prev_end} \cup S
    BY <1>1, <1>3, MaxOfTwo
  <1>6. \A e \in {prev_end} \cup S : e <= Max({prev_end} \cup S)
    <2>1. \E x \in {prev_end} \cup S : \A y \in {prev_end} \cup S : x >= y
      <3>1. CASE S = {}
        BY <1>1, <3>1
      <3>2. CASE S # {}
        <4>1. PICK b \in S : {prev_end} \cup S = {prev_end, b}
          BY <1>3, <3>2
        <4>2. b \in Int /\ (b >= prev_end \/ prev_end >= b)
          BY <1>1, <1>3
        <4>3. QED
          BY <1>1, <4>1, <4>2
      <3>3. QED
        BY <3>1, <3>2
    <2>2. QED
      BY <1>1, <1>3, <2>1 DEF Max
  <1>7. ASSUME NEW e \in E PROVE e <= Max({prev_end} \cup S)
    <2>1. PICK m \in E : \A f \in E : f <= m
      BY <1>1, GreatestNumber
    <2>2. m \in S /\ e <= m /\ m \in Int /\ e \in Int
      BY <1>1, <1>2, <2>1
    <2>3. m <= Max({prev_end} \cup S) /\ Max({prev_end} \cup S) \in Int
      BY <1>1, <1>3, <1>5, <1>6, <2>2
    <2>4. QED
      BY <2>2, <2>3
  <1>8. QED
    BY <1>1, <1>3, <1>4, <1>5, <1>7 DEF E

(* An offer lies on the task's machine, before the end that the task has   *)
(* now, and passes what comes before the task by the rest it crosses.      *)
OfferFits(t) ==
    /\ pulls[t].equipment = snap[t].equipment
    /\ \A e \in EndsBefore(t) : e <= pulls[t].start + RestCrossed(t)
    /\ pulls[t].end <= snap[t].end

(* Offers are made after the last push only.                               *)
PullsInv ==
    /\ CascadeInv
    /\ TypeOK
    /\ pc \in {"overlaps", "successors", "failed"} => \A t \in Task : pulls[t] = NoRow
    /\ \A t \in Task : pulls[t] # NoRow => OfferFits(t)

(* Without a push and an offer nothing changes for the offers.             *)
LEMMA OffersFrame ==
    ASSUME PullsInv, CascadeInv', UNCHANGED <<snap, pulls>>, prev_end' \in Int, waiting' \subseteq Task,
           pc' \in {"overlaps", "successors", "failed"} => pc \in {"overlaps", "successors", "failed"}
    PROVE  PullsInv'
  <1>1. TypeOK'
    BY DEF PullsInv, CascadeInv, TypeOK
  <1>2. \A t \in Task : EndsBefore(t)' = EndsBefore(t)
    BY DEF EndsBefore
  <1>3. \A t \in Task : OfferFits(t) => OfferFits(t)'
    BY <1>2 DEF OfferFits, RestCrossed
  <1>4. QED
    BY <1>1, <1>3 DEF PullsInv

(* The offer of a successor that has room.                                 *)
LEMMA OfferKeeps ==
    ASSUME PullsInv, CascadeInv', NEW t \in Task, OfferPull(t)
    PROVE  PullsInv'
  <1> DEFINE a == snap[t].start
             p == PullTo(t)
             r == MovedTo(snap[t], ReverseAdvance(a, a - p))
  <1>1. /\ TypeOK /\ pc = "pulls" /\ snap' = snap /\ pc' = pc /\ waiting' \subseteq Task
        /\ pulls' = [pulls EXCEPT ![t] = r] /\ prev_end' = r.end /\ p < a
    BY DEF OfferPull, FirstWaiting, PullsInv, TypeOK
  <1>2. p \in Int /\ \A e \in EndsBefore(t) : e <= p
    BY <1>1, PullIsBehindOthers
  <1>3. snap[t] \in Row /\ a \in Nat /\ snap[t].end \in Nat
    BY <1>1 DEF TypeOK, WavesTypeOK, Row
  <1> DEFINE x == ReverseAdvance(a, a - p)
             c == Cardinality(Rest \cap (x .. a - 1))
  <1>4. x \in Int /\ x <= a /\ c \in Nat /\ x + c = p
    <2>1. a \in Int /\ a - p \in Nat /\ a - (a - p) = p
      BY <1>1, <1>2, <1>3
    <2> HIDE DEF a, p
    <2>2. x \in Int /\ x <= a /\ x + c = a - (a - p)
      BY <2>1, BackOverRest
    <2>3. c \in Nat
      BY <2>1, <2>2, HoursAndRest
    <2>4. QED
      BY <2>1, <2>2, <2>3
  <1>5. /\ r.start = x /\ r.end = x + (snap[t].end - a) /\ r.equipment = snap[t].equipment
        /\ r \in Offer
    BY <1>2, <1>3, <1>4 DEF MovedTo, Offer, Row
  <1>6. r.end <= snap[t].end /\ r.end \in Int
    <2> HIDE DEF a, p, r, x, c
    <2>1. QED
      BY <1>1, <1>2, <1>3, <1>4, <1>5
  <1>7. \A o \in Task : EndsBefore(o)' = EndsBefore(o)
    BY <1>1 DEF EndsBefore
  <1>8. pulls' \in [Task -> Offer \cup {NoRow}] /\ pulls'[t] = r
        /\ \A o \in Task \ {t} : pulls'[o] = pulls[o]
    BY <1>1, <1>5 DEF TypeOK
  <1>9. TypeOK'
    BY <1>1, <1>6, <1>8 DEF TypeOK, CascadeInv
  <1>10. OfferFits(t)'
    <2>1. RestCrossed(t)' = c
      BY <1>1, <1>5, <1>8 DEF RestCrossed
    <2> HIDE DEF a, p, r, x, c
    <2>2. QED
      BY <1>1, <1>2, <1>4, <1>5, <1>6, <1>7, <1>8, <2>1 DEF OfferFits
  <1> HIDE DEF a, p, r, x, c
  <1>11. \A o \in Task \ {t} : OfferFits(o) => OfferFits(o)'
    BY <1>1, <1>7, <1>8 DEF OfferFits, RestCrossed
  <1>12. QED
    BY <1>1, <1>8, <1>9, <1>10, <1>11 DEF PullsInv

(* A push: there are no offers yet.                                        *)
LEMMA BeforeOffers ==
    ASSUME PullsInv, CascadeInv', UNCHANGED offers, pc \in {"overlaps", "successors"}
    PROVE  PullsInv'
  <1>1. TypeOK'
    BY DEF PullsInv, CascadeInv, TypeOK, offers
  <1>2. \A t \in Task : pulls'[t] = NoRow
    BY DEF PullsInv, offers
  <1>3. QED
    BY <1>1, <1>2 DEF PullsInv

LEMMA PullsStep ==
    ASSUME PullsInv, [Next]_vars
    PROVE  PullsInv'
  <1>0. /\ TypeOK /\ CascadeInv /\ CascadeInv'
        /\ prev_end \in Int /\ waiting \subseteq Task
    BY CascadeStep DEF PullsInv, TypeOK
  <1>1. ASSUME NEW t \in Task, PushOverlapping(t) \/ PushSuccessor(t) PROVE PullsInv'
    BY <1>0, <1>1, BeforeOffers DEF PushOverlapping, PushSuccessor
  <1>2. CASE TurnToSuccessors \/ TurnToNextTask \/ NextWave \/ FailOnDueDate
    <2>1. UNCHANGED offers /\ pc \in {"overlaps", "successors"}
      BY <1>2 DEF TurnToSuccessors, TurnToNextTask, NextWave, FailOnDueDate, LastWaveOver
    <2>2. QED
      BY <1>0, <2>1, BeforeOffers
  <1>3. CASE Validate
    <2>1. /\ UNCHANGED <<snap, pulls>> /\ pc' \in {"pulls", "done"}
          /\ prev_end' \in {prev_end, snap[changed].end} /\ waiting' \in {waiting, Successors}
      BY <1>3 DEF Validate
    <2>2. snap[changed].end \in Int /\ Successors \subseteq Task
      BY <1>0 DEF TypeOK, WavesTypeOK, Row, Successors
    <2>3. QED
      BY <1>0, <2>1, <2>2, OffersFrame
  <1>4. ASSUME NEW t \in Task, OfferPull(t) PROVE PullsInv'
    BY <1>0, <1>4, OfferKeeps
  <1>5. ASSUME NEW t \in Task, LeaveInPlace(t) PROVE PullsInv'
    <2>1. snap[t].end \in Int
      BY <1>0 DEF TypeOK, WavesTypeOK, Row
    <2>2. UNCHANGED <<snap, pulls, pc>> /\ prev_end' = snap[t].end /\ waiting' \subseteq waiting
      BY <1>5 DEF LeaveInPlace, FirstWaiting
    <2>3. QED
      BY <1>0, <2>1, <2>2, OffersFrame
  <1>6. CASE Answer
    <2>1. UNCHANGED <<snap, pulls, prev_end, waiting>> /\ pc' = "done"
      BY <1>6 DEF Answer, offers
    <2>2. QED
      BY <1>0, <2>1, OffersFrame
  <1>7. CASE UNCHANGED vars
    <2>1. UNCHANGED <<snap, pulls, prev_end, waiting, pc>>
      BY <1>7 DEF vars, offers
    <2>2. QED
      BY <1>0, <2>1, OffersFrame
  <1>8. QED
    BY <1>1, <1>2, <1>3, <1>4, <1>5, <1>6, <1>7 DEF Next, Step, Answered

(* In every calendar, the offers of a preview that resolves everything     *)
(* collide, with each other or with a task that stays, by no more than the *)
(* rest that the later one was pulled over: its slack ends where the one   *)
(* before it on the machine ends, and that one is only pulled further away *)
(* (propose_for_successors).                                               *)
THEOREM OffersMeetOverRest == Spec => []PullsMeetOverRest
  <1>1. Init => PullsInv
    <2> SUFFICES ASSUME Init PROVE PullsInv
      OBVIOUS
    <2>1. CascadeInv /\ pulls = [t \in Task |-> NoRow] /\ prev_end = 0 /\ waiting = {}
      BY CascadeInit DEF Init
    <2>2. QED
      BY <2>1 DEF PullsInv, TypeOK, CascadeInv
  <1>2. PullsInv /\ [Next]_vars => PullsInv'
    BY PullsStep
  <1>3. PullsInv => PullsMeetOverRest
    <2> DEFINE W(x) == WithPulls[x]
    <2> SUFFICES ASSUME PullsInv, can_auto_resolve, NEW t \in Task, NEW o \in Task, t # o, Overlap(W(t), W(o))
                 PROVE  \E u, v \in {t, o} : /\ u # v /\ pulls[u] # NoRow
                                             /\ W(v).end - pulls[u].start <= RestCrossed(u)
      BY DEF PullsMeetOverRest
    <2>1. /\ snap \in [Task -> Row] /\ pulls \in [Task -> Offer \cup {NoRow}]
          /\ snap[t] \in Row /\ snap[o] \in Row
      BY DEF PullsInv, TypeOK, WavesTypeOK
    <2>2. ~Overlap(snap[t], snap[o])
      <3>1. next = <<>> /\ frontier = <<>> /\ pc = "done"
        BY DEF can_auto_resolve, PullsInv, CascadeInv
      <3>2. Awaiting = {}
        BY <3>1 DEF Awaiting, Members
      <3>3. QED
        BY <3>2 DEF PullsInv, CascadeInv, OverlapsAwaitTheirTurn
    <2>3. ASSUME NEW x \in Task
          PROVE  /\ W(x).equipment = snap[x].equipment
                 /\ W(x).start \in Int /\ W(x).end \in Int
                 /\ W(x).end <= snap[x].end
                 /\ IF pulls[x] = NoRow THEN W(x).start = snap[x].start
                    ELSE /\ W(x).start = pulls[x].start
                         /\ \A e \in EndsBefore(x) : e <= pulls[x].start + RestCrossed(x)
      <3>1. CASE pulls[x] = NoRow
        BY <2>1, <3>1 DEF WithPulls, Row
      <3>2. CASE pulls[x] # NoRow
        BY <2>1, <3>2 DEF WithPulls, PullsInv, OfferFits, Offer
      <3>3. QED
        BY <3>1, <3>2
    <2> HIDE DEF W
    <2>4. ASSUME NEW x \in Task, pulls[x] # NoRow PROVE RestCrossed(x) \in Nat
      <3>1. IsFiniteSet(Rest \cap (pulls[x].start .. snap[x].start - 1))
        BY CascadeAssumption, FS_Subset
      <3>2. QED
        BY <3>1, FS_CardinalityType DEF RestCrossed
    <2>5. ASSUME NEW x \in Task, NEW y \in Task, x # y, snap[x].equipment = snap[y].equipment,
                 snap[x].end <= snap[y].start, W(y).start < W(x).end
          PROVE  pulls[y] # NoRow /\ W(x).end - pulls[y].start <= RestCrossed(y)
      <3>1. snap[x].end \in EndsBefore(y)
        BY <2>5 DEF EndsBefore
      <3>2. snap[x].end \in Int /\ snap[y].start \in Int
        BY <2>1 DEF Row
      <3>3. W(x).end <= snap[x].end /\ W(x).end \in Int /\ W(y).start \in Int
        BY <2>3
      <3>4. pulls[y] # NoRow
        BY <2>3, <2>5, <3>2, <3>3
      <3>5. W(y).start = pulls[y].start /\ snap[x].end <= pulls[y].start + RestCrossed(y)
        BY <2>3, <3>1, <3>4
      <3>6. QED
        BY <2>4, <3>2, <3>3, <3>4, <3>5
    <2>6. W(t).equipment = W(o).equipment /\ W(o).start < W(t).end /\ W(t).start < W(o).end
      BY DEF Overlap
    <2>7. snap[t].equipment = snap[o].equipment
      BY <2>3, <2>6
    <2>8. snap[t].end <= snap[o].start \/ snap[o].end <= snap[t].start
      BY <2>1, <2>2, <2>7 DEF Overlap, Row
    <2>9. CASE snap[t].end <= snap[o].start
      BY <2>5, <2>6, <2>7, <2>9
    <2>10. CASE snap[o].end <= snap[t].start
      BY <2>5, <2>6, <2>7, <2>10
    <2>11. QED
      BY <2>8, <2>9, <2>10
  <1>4. QED
    BY <1>1, <1>2, <1>3, PTL DEF Spec

=============================================================================
