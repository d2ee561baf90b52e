--------------------------- MODULE PlacingProofs ---------------------------
(***************************************************************************)
(* The walks of the calendar end, and the walk forward ends at the         *)
(* earliest time by which the work is done; the search for a free slot,    *)
(* whatever the timeline; and what follows for a machine: no task is given *)
(* a place it cannot use, no free place is passed over, and every task has *)
(* its working time.  Then the greedy engine: its sort puts every group    *)
(* behind those of earlier processes, and so no task begins before the     *)
(* first drum of the process before, and no assembly before its cores.     *)
(*                                                                         *)
(* Last, what is made of the plan of the CP-SAT solver: its order puts     *)
(* every group behind those it depends on, whatever the solver answers;    *)
(* and the blocks that are cut or taken off for an urgent group lose no    *)
(* drum and put no two tasks on one machine.  Drums are counted as the     *)
(* elements of a set (Units), for a fold over a set cannot be reasoned     *)
(* about but by taking its elements away one by one.                       *)
(*                                                                         *)
(* EndFrom and StartFrom are recursive functions: some function of which   *)
(* the equation is true, should there be one.  So there is one to be shown *)
(* first.  For EndFrom it is counted (TrueEnd), for StartFrom it is that   *)
(* of any loop which hands its result through (TailRecursion), and for the *)
(* fold that sorts it is built set by set, small ones first (FoldExists).  *)
(***************************************************************************)
EXTENDS Timeline, Greedy, CpSat, FiniteSetTheorems, WellFoundedInduction, TLAPS

-----------------------------------------------------------------------------
(* The least and the greatest of some numbers *)

LEMMA LeastOf ==
    ASSUME NEW S, S \subseteq Nat, S # {}
    PROVE  \E x \in S : \A y \in S : x <= y
  <1>1. PICK x \in S : \A y \in S : <<y, x>> \notin OpToRel(<, Nat)
    BY NatLessThanWellFounded, WFMin, Zenon
  <1>2. \A y \in S : y \in Nat /\ ~(y < x)
    BY <1>1 DEF OpToRel
  <1>3. QED
    BY <1>2

(* The least bound of a bounded set belongs to it.                         *)
LEMMA MaxIs ==
    ASSUME NEW S, S \subseteq Nat, S # {}, NEW n \in Nat, \A x \in S : x <= n
    PROVE  Max(S) \in S /\ \A x \in S : x <= Max(S)
  <1> DEFINE U == {k \in Nat : \A x \in S : x <= k}
  <1>1. PICK k \in U : \A y \in U : k <= y
    <2>1. U \subseteq Nat /\ U # {}
      OBVIOUS
    <2> HIDE DEF U
    <2>2. QED
      BY <2>1, LeastOf
  <1>2. k \in S
    <2>1. SUFFICES ASSUME k \notin S PROVE FALSE
      OBVIOUS
    <2>2. \A x \in S : x <= k /\ x # k /\ x \in Nat /\ k \in Nat
      BY <1>1, <2>1
    <2>3. k > 0 /\ \A x \in S : x <= k - 1
      <3>1. PICK x \in S : TRUE
        OBVIOUS
      <3>2. k > 0
        BY <2>2, <3>1
      <3>3. QED
        BY <2>2, <3>2
    <2>4. k - 1 \in U
      BY <2>2, <2>3
    <2>5. QED
      BY <1>1, <2>2, <2>4
  <1>3. \E m \in S : \A x \in S : m >= x
    BY <1>1, <1>2
  <1>4. Max(S) \in S /\ \A x \in S : Max(S) >= x
    <2> HIDE DEF U
    <2>1. QED
      BY <1>3, Zenon DEF Max
  <1>5. QED
    BY <1>4

LEMMA MinIs ==
    ASSUME NEW S, S \subseteq Nat, S # {}
    PROVE  Min(S) \in S /\ \A x \in S : Min(S) <= x
  <1>1. \E m \in S : \A x \in S : m <= x
    BY LeastOf
  <1>2. QED
    BY <1>1, Zenon DEF Min

-----------------------------------------------------------------------------
(* Counting *)

(* How many of the times from a until b, which is not counted, are in W.   *)
CountIn(W, a, b) == Cardinality({t \in a .. b - 1 : t \in W})

LEMMA CountIsNat ==
    ASSUME NEW W, NEW a \in Nat, NEW b \in Nat
    PROVE  CountIn(W, a, b) \in Nat
  <1>1. IsFiniteSet(a .. b - 1)
    BY FS_Interval
  <1>2. IsFiniteSet({t \in a .. b - 1 : t \in W})
    BY <1>1, FS_Subset
  <1>3. QED
    BY <1>2, FS_CardinalityType DEF CountIn

LEMMA CountSplit ==
    ASSUME NEW W, NEW a \in Nat, NEW b \in Nat, NEW c \in Nat, a <= b, b <= c
    PROVE  CountIn(W, a, c) = CountIn(W, a, b) + CountIn(W, b, c)
  <1> DEFINE S == {t \in a .. b - 1 : t \in W}
             T == {t \in b .. c - 1 : t \in W}
  <1>1. IsFiniteSet(a .. b - 1) /\ IsFiniteSet(b .. c - 1)
    BY FS_Interval
  <1>2. IsFiniteSet(S) /\ IsFiniteSet(T)
    BY <1>1, FS_Subset
  <1>3. {t \in a .. c - 1 : t \in W} = S \cup T
    OBVIOUS
  <1>4. S \cap T = {}
    OBVIOUS
  <1>5. Cardinality(S) \in Nat /\ Cardinality(T) \in Nat
    BY <1>2, FS_CardinalityType
  <1>6. Cardinality(S \cup T) = Cardinality(S) + Cardinality(T) - Cardinality({})
    <2> HIDE DEF S, T
    <2>1. QED
      BY <1>2, <1>4, FS_Union
  <1>7. QED
    <2> HIDE DEF S, T
    <2>1. Cardinality(S \cup T) = Cardinality(S) + Cardinality(T)
      BY <1>5, <1>6, FS_EmptySet
    <2>2. QED
      BY <1>3, <2>1 DEF CountIn, S, T

LEMMA CountNone ==
    ASSUME NEW W, NEW a \in Nat, NEW b \in Nat, \A t \in a .. b - 1 : t \notin W
    PROVE  CountIn(W, a, b) = 0
  <1>1. {t \in a .. b - 1 : t \in W} = {}
    OBVIOUS
  <1>2. QED
    BY <1>1, FS_EmptySet DEF CountIn

LEMMA CountAll ==
    ASSUME NEW W, NEW a \in Nat, NEW b \in Nat, a <= b, \A t \in a .. b - 1 : t \in W
    PROVE  CountIn(W, a, b) = b - a
  <1>1. {t \in a .. b - 1 : t \in W} = a .. b - 1
    OBVIOUS
  <1>2. Cardinality(a .. b - 1) = IF a > b - 1 THEN 0 ELSE (b - 1) - a + 1
    <2>1. b - 1 \in Int
      OBVIOUS
    <2>2. QED
      BY <2>1, FS_Interval
  <1>3. CountIn(W, a, b) = IF a > b - 1 THEN 0 ELSE (b - 1) - a + 1
    BY <1>1, <1>2, Zenon DEF CountIn
  <1>4. QED
    BY <1>3

LEMMA CountSame ==
    ASSUME NEW W, NEW V, NEW a \in Nat, NEW b \in Nat, \A t \in a .. b - 1 : t \in W <=> t \in V
    PROVE  CountIn(W, a, b) = CountIn(V, a, b)
  <1>1. {t \in a .. b - 1 : t \in W} = {t \in a .. b - 1 : t \in V}
    OBVIOUS
  <1>2. QED
    BY <1>1 DEF CountIn

-----------------------------------------------------------------------------
(* The end of some work *)

(* e is the earliest end of the work left, done in the times of W.         *)
EndsAt(W, from, left, e) ==
    /\ e \in Nat
    /\ from <= e
    /\ CountIn(W, from, e) = left
    /\ e # from => e - 1 \in W

(* By any earlier end, less is done.                                       *)
LEMMA LessBefore ==
    ASSUME NEW W, NEW from \in Nat, NEW left \in Nat, NEW e, EndsAt(W, from, left, e),
           NEW u \in Nat, from <= u, u < e
    PROVE  CountIn(W, from, u) < left
  <1>1. e \in Nat /\ from <= e - 1 /\ e - 1 \in Nat /\ u <= e - 1 /\ e - 1 \in W
    BY DEF EndsAt
  <1>2. CountIn(W, from, e) = CountIn(W, from, e - 1) + CountIn(W, e - 1, e)
    BY <1>1, CountSplit
  <1>3. CountIn(W, e - 1, e) = 1
    <2>1. \A t \in e - 1 .. e - 1 : t \in W
      BY <1>1
    <2>2. CountIn(W, e - 1, e) = e - (e - 1)
      BY <1>1, <2>1, CountAll
    <2>3. QED
      BY <1>1, <2>2
  <1>4. CountIn(W, from, e - 1) = CountIn(W, from, u) + CountIn(W, u, e - 1)
    BY <1>1, CountSplit
  <1>5. CountIn(W, from, u) \in Nat /\ CountIn(W, u, e - 1) \in Nat
    BY <1>1, CountIsNat
  <1>6. QED
    BY <1>2, <1>3, <1>4, <1>5 DEF EndsAt

LEMMA OneEnd ==
    ASSUME NEW W, NEW from \in Nat, NEW left \in Nat, NEW d, NEW e,
           EndsAt(W, from, left, d), EndsAt(W, from, left, e)
    PROVE  d = e
  <1>1. d \in Nat /\ e \in Nat /\ from <= d /\ from <= e
    BY DEF EndsAt
  <1>2. ~ d < e
    <2>1. ASSUME d < e PROVE FALSE
      <3>1. CountIn(W, from, d) < left
        BY <1>1, <2>1, LessBefore
      <3>2. QED
        BY <3>1 DEF EndsAt
    <2>2. QED
      BY <2>1
  <1>3. ~ e < d
    <2>1. ASSUME e < d PROVE FALSE
      <3>1. CountIn(W, from, e) < left
        BY <1>1, <2>1, LessBefore
      <3>2. QED
        BY <3>1 DEF EndsAt
    <2>2. QED
      BY <2>1
  <1>4. QED
    BY <1>1, <1>2, <1>3

LEMMA NothingLeft ==
    ASSUME NEW W, NEW from \in Nat
    PROVE  EndsAt(W, from, 0, from)
  <1>1. CountIn(W, from, from) = 0
    <2>1. \A t \in from .. from - 1 : t \notin W
      OBVIOUS
    <2>2. QED
      BY <2>1, CountNone
  <1>2. QED
    BY <1>1 DEF EndsAt

(* What is done until b, and the rest from there.                          *)
LEMMA GoOn ==
    ASSUME NEW W, NEW V, NEW a \in Nat, NEW b \in Nat, a <= b,
           \A t \in Nat : t >= b => (t \in W <=> t \in V),
           NEW done \in Nat, CountIn(W, a, b) = done,
           NEW rest \in Nat, rest > 0, NEW e, EndsAt(V, b, rest, e)
    PROVE  EndsAt(W, a, done + rest, e)
  <1>1. e \in Nat /\ b <= e
    BY DEF EndsAt
  <1>2. e # b
    <2>1. SUFFICES ASSUME e = b PROVE FALSE
      OBVIOUS
    <2>2. CountIn(V, b, b) = 0
      <3>1. \A t \in b .. b - 1 : t \notin V
        OBVIOUS
      <3>2. QED
        BY <3>1, CountNone
    <2>3. QED
      BY <2>1, <2>2 DEF EndsAt
  <1>3. CountIn(W, b, e) = rest
    <2>1. \A t \in b .. e - 1 : t \in W <=> t \in V
      OBVIOUS
    <2>2. CountIn(W, b, e) = CountIn(V, b, e)
      BY <1>1, <2>1, CountSame
    <2>3. QED
      BY <2>2 DEF EndsAt
  <1>4. CountIn(W, a, e) = CountIn(W, a, b) + CountIn(W, b, e)
    BY <1>1, CountSplit
  <1>5. e - 1 \in W
    BY <1>1, <1>2 DEF EndsAt
  <1>6. QED
    BY <1>1, <1>3, <1>4, <1>5 DEF EndsAt

LEMMA EndsSomewhere ==
    ASSUME NEW W, \A n \in Nat : \E t \in Nat : t >= n /\ t \in W,
           NEW from \in Nat, NEW left \in Nat
    PROVE  \E e : EndsAt(W, from, left, e)
  <1> DEFINE Bad == {n \in Nat : ~ \E e : EndsAt(W, from, n, e)}
  <1>1. SUFFICES ASSUME Bad # {} PROVE FALSE
    OBVIOUS
  <1>2. PICK n \in Bad : \A m \in Bad : n <= m
    <2>1. Bad \subseteq Nat
      OBVIOUS
    <2> HIDE DEF Bad
    <2>2. QED
      BY <1>1, <2>1, LeastOf
  <1>3. n # 0
    BY <1>2, NothingLeft
  <1>4. n - 1 \in Nat /\ n - 1 \notin Bad
    BY <1>2, <1>3
  <1>5. PICK d : EndsAt(W, from, n - 1, d)
    BY <1>4
  <1>6. d \in Nat /\ from <= d
    BY <1>5 DEF EndsAt
  <1> DEFINE Next_ == {t \in Nat : t >= d /\ t \in W}
  <1>7. PICK t \in Next_ : \A u \in Next_ : t <= u
    <2>1. Next_ \subseteq Nat /\ Next_ # {}
      BY <1>6
    <2> HIDE DEF Next_
    <2>2. QED
      BY <2>1, LeastOf
  <1>8. CountIn(W, d, t) = 0
    <2>1. \A u \in d .. t - 1 : u \notin W
      BY <1>6, <1>7
    <2>2. QED
      BY <1>6, <1>7, <2>1, CountNone
  <1>9. CountIn(W, t, t + 1) = 1
    <2>1. \A u \in t .. (t + 1) - 1 : u \in W
      BY <1>7
    <2>2. t \in Nat /\ t + 1 \in Nat /\ t <= t + 1
      BY <1>7
    <2>3. CountIn(W, t, t + 1) = (t + 1) - t
      BY <2>1, <2>2, CountAll
    <2>4. QED
      BY <2>2, <2>3
  <1>10. CountIn(W, from, t + 1) = n
    <2>1. CountIn(W, from, t) = CountIn(W, from, d) + CountIn(W, d, t)
      BY <1>6, <1>7, CountSplit
    <2>2. t \in Nat /\ t + 1 \in Nat /\ from <= t /\ t <= t + 1
      BY <1>6, <1>7
    <2>3. CountIn(W, from, t + 1) = CountIn(W, from, t) + CountIn(W, t, t + 1)
      BY <2>2, CountSplit
    <2>4. QED
      BY <1>2, <1>5, <1>8, <1>9, <2>1, <2>3 DEF EndsAt
  <1>11. EndsAt(W, from, n, t + 1)
    BY <1>6, <1>7, <1>10 DEF EndsAt
  <1>12. QED
    BY <1>2, <1>11

-----------------------------------------------------------------------------
(* Days and shifts *)

LEMMA DayIs ==
    ASSUME NEW t \in Int
    PROVE  /\ Day(t) \in Int /\ 48 * Day(t) <= t /\ t < 48 * Day(t) + 48
           /\ t \in Nat => Day(t) \in Nat
  BY DEF Day, Ticks

LEMMA OnDay ==
    ASSUME NEW d \in Int, NEW t \in Int, 48 * d <= t, t < 48 * d + 48
    PROVE  Day(t) = d
  <1>1. /\ Day(t) \in Int /\ 48 * Day(t) <= t /\ t < 48 * Day(t) + 48
    BY DayIs
  <1>2. QED
    BY <1>1

LEMMA ShiftIs ==
    ASSUME NEW c \in Categories, NEW d \in Int
    PROVE  /\ Morning(d) = 48 * d + 16
           /\ AvailableTicks(c, d) \in Nat
           /\ ShiftEnd(c, d) \in Int
           /\ Morning(d) <= ShiftEnd(c, d)
           /\ ShiftEnd(c, d) <= Morning(d + 1)
           /\ AvailableTicks(c, d) > 0 => Morning(d) < ShiftEnd(c, d)
  <1>1. WeekDay(d) \in 0 .. 6
    BY DEF WeekDay
  <1>2. CASE c = "strand"
    BY <1>1, <1>2 DEF Morning, Ticks, AvailableTicks, ShiftEnd, DailyTicks
  <1>3. CASE c = "nonstop"
    BY <1>1, <1>3 DEF Morning, Ticks, AvailableTicks, ShiftEnd, DailyTicks
  <1>4. CASE c = "cv"
    BY <1>1, <1>4 DEF Morning, Ticks, AvailableTicks, ShiftEnd, DailyTicks
  <1>5. QED
    BY <1>2, <1>3, <1>4 DEF Categories

LEMMA BreakIs ==
    ASSUME NEW c \in Categories, NEW d \in Int, NEW b \in Breaks(c, d)
    PROVE  /\ b.from \in Int /\ b.to \in Int
           /\ Morning(d) < b.from /\ b.from < b.to /\ b.to < 48 * d + 48 /\ b.to < ShiftEnd(c, d)
  BY DEF Breaks, Morning, Ticks, ShiftEnd

(* From one morning to the next, only the shift of that day counts.        *)
LEMMA WorksByShift ==
    ASSUME NEW c \in Categories, NEW d \in Int, NEW t \in Int, Morning(d) <= t, t < Morning(d + 1)
    PROVE  Works(c, t) <=> /\ AvailableTicks(c, d) > 0
                           /\ t < ShiftEnd(c, d)
                           /\ ~ \E b \in Breaks(c, d) : b.from <= t /\ t < b.to
  <1>1. Morning(d) = 48 * d + 16 /\ Morning(d + 1) = 48 * d + 64
    BY DEF Morning, Ticks
  <1>2. CASE t < 48 * d + 48
    <2>1. Day(t) = d
      BY <1>1, <1>2, OnDay
    <2>2. ShiftEnd(c, d - 1) <= t /\ ShiftEnd(c, d - 1) \in Int
      <3>1. /\ ShiftEnd(c, d - 1) \in Int
            /\ ShiftEnd(c, d - 1) <= Morning((d - 1) + 1)
        BY ShiftIs
      <3>2. (d - 1) + 1 = d
        OBVIOUS
      <3>3. Morning(d) \in Int
        BY <1>1
      <3>4. QED
        BY <3>1, <3>2, <3>3
    <2>3. QED
      BY <2>1, <2>2 DEF Works
  <1>3. CASE t >= 48 * d + 48
    <2>1. Day(t) = d + 1
      BY <1>1, <1>3, OnDay
    <2>2. ~ Morning(d + 1) <= t /\ Day(t) - 1 = d
      BY <1>1, <2>1
    <2>3. QED
      BY <2>1, <2>2 DEF Works
  <1>4. QED
    BY <1>1, <1>2, <1>3

-----------------------------------------------------------------------------
(* There is always work to come *)

LEMMA LastHoliday == \E last \in Nat : \A h \in Holidays : h <= last
  <1>1. IsFiniteSet(Holidays) /\ Holidays \subseteq Nat
    BY CalendarAssumption
  <1>2. PICK n \in Nat : ExistsSurjection(1 .. n, Holidays)
    BY <1>1, FS_NatSurjection
  <1>3. PICK f \in [1 .. n -> Holidays] : \A h \in Holidays : \E i \in 1 .. n : f[i] = h
    BY <1>2 DEF ExistsSurjection, Surjection
  <1> DEFINE Bad == {k \in 0 .. n : ~ \E last \in Nat : \A i \in 1 .. k : f[i] <= last}
  <1>4. Bad = {}
    <2>1. SUFFICES ASSUME Bad # {} PROVE FALSE
      OBVIOUS
    <2>2. PICK k \in Bad : \A j \in Bad : k <= j
      <3>1. Bad \subseteq Nat
        OBVIOUS
      <3> HIDE DEF Bad
      <3>2. QED
        BY <2>1, <3>1, LeastOf
    <2>3. k # 0
      BY <2>2
    <2>4. k \in 1 .. n /\ k - 1 \in 0 .. n /\ k - 1 \notin Bad
      <3>1. k \in 1 .. n /\ k - 1 \in 0 .. n
        BY <2>2, <2>3
      <3> HIDE DEF Bad
      <3>2. QED
        BY <2>2, <3>1
    <2>5. \A i \in 1 .. k : f[i] \in Nat
      <3>1. \A i \in 1 .. k : i \in 1 .. n
        BY <2>4
      <3>2. QED
        BY <1>1, <3>1
    <2>6. PICK last \in Nat : \A i \in 1 .. k - 1 : f[i] <= last
      BY <2>4
    <2>7. \A i \in 1 .. k : f[i] <= last + f[k]
      <3>1. SUFFICES ASSUME NEW i \in 1 .. k PROVE f[i] <= last + f[k]
        OBVIOUS
      <3>2. f[i] \in Nat
        BY <2>5
      <3>3. CASE i = k
        BY <2>5, <2>6, <3>2, <3>3
      <3>4. CASE i # k
        BY <2>4, <2>5, <2>6, <3>2, <3>4
      <3>5. QED
        BY <3>3, <3>4
    <2>8. QED
      BY <2>2, <2>4, <2>5, <2>7
  <1>5. n \in 0 .. n
    OBVIOUS
  <1>6. PICK last \in Nat : \A i \in 1 .. n : f[i] <= last
    BY <1>4, <1>5
  <1>7. QED
    BY <1>3, <1>6

(* The times that count for a task begun at now: those of the shift of its *)
(* day, even in the small hours before it, and then all working times.     *)
Counted(c, now) ==
    {t \in Nat : IF t < Morning(Day(now)) THEN AvailableTicks(c, Day(now)) > 0 ELSE Works(c, t)}

(* On every Monday after the last holiday.                                 *)
LEMMA WorkToCome ==
    ASSUME NEW c \in Categories, NEW now \in Nat, NEW n \in Nat
    PROVE  \E t \in Nat : t >= n /\ t \in Counted(c, now)
  <1>1. PICK last \in Nat : \A h \in Holidays : h <= last
    BY LastHoliday
  <1> DEFINE d == 7 * (last + n + now + 1)
  <1>2. d \in Nat /\ d > last /\ d >= n /\ d >= now
    OBVIOUS
  <1>3. WeekDay(d) = 0
    BY DEF WeekDay
  <1>4. d \notin Holidays
    BY <1>1, <1>2
  <1> HIDE DEF d
  <1>5. AvailableTicks(c, d) > 0
    BY <1>3, <1>4 DEF AvailableTicks, DailyTicks, Ticks, Categories
  <1>6. /\ Morning(d) = 48 * d + 16 /\ Morning(d + 1) = 48 * (d + 1) + 16
        /\ ShiftEnd(c, d) \in Int /\ Morning(d) < ShiftEnd(c, d)
    BY <1>2, <1>5, ShiftIs
  <1>7. Morning(d) \in Nat /\ Morning(d) >= n
    BY <1>2, <1>6
  <1>8. \A b \in Breaks(c, d) : b.from \in Int /\ Morning(d) < b.from
    BY <1>2, BreakIs
  <1>9. Works(c, Morning(d))
    <2>1. ~ \E b \in Breaks(c, d) : b.from <= Morning(d) /\ Morning(d) < b.to
      BY <1>7, <1>8
    <2>2. Morning(d) <= Morning(d) /\ Morning(d) < Morning(d + 1)
      BY <1>2, <1>6
    <2>3. QED
      BY <1>2, <1>5, <1>6, <1>7, <2>1, <2>2, WorksByShift
  <1>10. ~ Morning(d) < Morning(Day(now))
    <2>1. Day(now) \in Nat /\ 48 * Day(now) <= now
      BY DayIs
    <2>2. Morning(Day(now)) = 48 * Day(now) + 16
      BY DEF Morning, Ticks
    <2>3. QED
      BY <1>2, <1>6, <2>1, <2>2
  <1>11. QED
    BY <1>7, <1>9, <1>10 DEF Counted

-----------------------------------------------------------------------------
(* The walk to the end *)

(* Where the work in hand ends: with the shift or at the next break.       *)
Stop(c, now) ==
    Min({ShiftEnd(c, Day(now))} \cup {b.from : b \in {x \in Breaks(c, Day(now)) : x.from > now}})

(* One round of the loop; f is how it goes on.                             *)
Round(f, c, now, left) ==
    IF left = 0 THEN now
    ELSE IF AvailableTicks(c, Day(now)) = 0 \/ now >= ShiftEnd(c, Day(now))
         THEN f[<<c, Morning(Day(now) + 1), left>>]
    ELSE IF \E b \in Breaks(c, Day(now)) : b.from <= now /\ now < b.to
         THEN f[<<c, (CHOOSE b \in Breaks(c, Day(now)) : b.from <= now /\ now < b.to).to, left>>]
    ELSE IF left <= Stop(c, now) - now THEN now + left
    ELSE f[<<c, IF Stop(c, now) < ShiftEnd(c, Day(now)) THEN Stop(c, now) ELSE Morning(Day(now) + 1),
             left - (Stop(c, now) - now)>>]

Rounds(f) == [walk \in Walks |-> Round(f, walk[1], walk[2], walk[3])]

LEMMA EndFromIs == EndFrom = CHOOSE f : f = Rounds(f)
  BY DEF EndFrom, Rounds, Round, Stop

LEMMA RoundsAre ==
    ASSUME NEW c \in Categories, NEW now \in Nat, NEW left \in Nat, NEW f
    PROVE  Rounds(f)[<<c, now, left>>] = Round(f, c, now, left)
  BY DEF Rounds, Walks

LEMMA StopIs ==
    ASSUME NEW c \in Categories, NEW now \in Nat, now < ShiftEnd(c, Day(now))
    PROVE  /\ Stop(c, now) \in Nat /\ now < Stop(c, now) /\ Stop(c, now) <= ShiftEnd(c, Day(now))
           /\ \A b \in Breaks(c, Day(now)) : b.from > now => Stop(c, now) <= b.from
           /\ \/ Stop(c, now) = ShiftEnd(c, Day(now))
              \/ \E b \in Breaks(c, Day(now)) : Stop(c, now) = b.from
  <1> DEFINE d == Day(now)
             S == {ShiftEnd(c, d)} \cup {b.from : b \in {x \in Breaks(c, d) : x.from > now}}
  <1>1. d \in Int
    BY DayIs
  <1>2. ShiftEnd(c, d) \in Nat
    <2>1. ShiftEnd(c, d) \in Int
      BY <1>1, ShiftIs
    <2>2. QED
      BY <2>1
  <1>3. \A b \in Breaks(c, d) : b.from \in Int
    BY <1>1, BreakIs
  <1>4. S \subseteq Nat /\ S # {}
    BY <1>2, <1>3
  <1>5. Stop(c, now) = Min(S)
    BY Zenon DEF Stop
  <1>6. Min(S) \in S /\ \A x \in S : Min(S) <= x
    <2> HIDE DEF S
    <2>1. QED
      BY <1>4, MinIs
  <1>7. ShiftEnd(c, d) \in S /\ \A b \in Breaks(c, d) : b.from > now => b.from \in S
    OBVIOUS
  <1>8. \A x \in S : \/ x = ShiftEnd(c, d)
                     \/ \E b \in Breaks(c, d) : b.from > now /\ x = b.from
    OBVIOUS
  <1>9. \A x \in S : x \in Nat /\ now < x
    BY <1>2, <1>4, <1>8
  <1>10. QED
    <2> HIDE DEF S
    <2>1. QED
      BY <1>5, <1>6, <1>7, <1>8, <1>9

LEMMA CountedToday ==
    ASSUME NEW c \in Categories, NEW now \in Nat, NEW t \in Nat, now <= t, t < Morning(Day(now) + 1)
    PROVE  t \in Counted(c, now) <=>
              /\ AvailableTicks(c, Day(now)) > 0
              /\ t < ShiftEnd(c, Day(now))
              /\ ~ \E b \in Breaks(c, Day(now)) : b.from <= t /\ t < b.to
  <1> DEFINE d == Day(now)
  <1>1. /\ d \in Int /\ Morning(d) \in Int /\ ShiftEnd(c, d) \in Int /\ Morning(d) <= ShiftEnd(c, d)
        /\ \A b \in Breaks(c, d) : b.from \in Int /\ Morning(d) < b.from
    <2>1. d \in Int
      BY DayIs
    <2> HIDE DEF d
    <2>2. Morning(d) = 48 * d + 16 /\ ShiftEnd(c, d) \in Int /\ Morning(d) <= ShiftEnd(c, d)
      BY <2>1, ShiftIs
    <2>3. QED
      BY <2>1, <2>2, BreakIs
  <1>2. CASE t < Morning(d)
    <2>1. t < ShiftEnd(c, d) /\ ~ \E b \in Breaks(c, d) : b.from <= t /\ t < b.to
      BY <1>1, <1>2
    <2>2. QED
      BY <1>2, <2>1 DEF Counted
  <1>3. CASE ~ t < Morning(d)
    <2>1. Morning(d) <= t
      BY <1>1, <1>3
    <2>2. Works(c, t) <=> /\ AvailableTicks(c, d) > 0
                          /\ t < ShiftEnd(c, d)
                          /\ ~ \E b \in Breaks(c, d) : b.from <= t /\ t < b.to
      BY <1>1, <2>1, WorksByShift
    <2>3. QED
      BY <1>3, <2>2 DEF Counted
  <1>4. QED
    BY <1>2, <1>3

LEMMA GoOnFrom ==
    ASSUME NEW c \in Categories, NEW now \in Nat, NEW to \in Nat, now <= to,
           Morning(Day(now)) <= to, Morning(Day(to)) <= to,
           NEW done \in Nat, CountIn(Counted(c, now), now, to) = done, NEW rest \in Nat, rest > 0,
           NEW e, EndsAt(Counted(c, to), to, rest, e)
    PROVE  EndsAt(Counted(c, now), now, done + rest, e)
  <1>1. Morning(Day(now)) \in Int /\ Morning(Day(to)) \in Int
    <2>1. Day(now) \in Int /\ Day(to) \in Int
      BY DayIs
    <2>2. QED
      BY <2>1 DEF Morning, Ticks
  <1>2. \A t \in Nat : t >= to => (t \in Counted(c, now) <=> t \in Counted(c, to))
    BY <1>1 DEF Counted
  <1>3. QED
    BY <1>2, GoOn

(* Every round either comes to the end or goes on, later, with some work   *)
(* left, and what it has passed counts for the work that it has done.      *)
LEMMA RoundCounts ==
    ASSUME NEW c \in Categories, NEW now \in Nat, NEW left \in Nat, left > 0
    PROVE  \/ /\ \A f : Round(f, c, now, left) = now + left
              /\ EndsAt(Counted(c, now), now, left, now + left)
           \/ \E to \in Nat, rest \in Nat :
                 /\ now < to /\ rest > 0
                 /\ \A f : Round(f, c, now, left) = f[<<c, to, rest>>]
                 /\ \A e : EndsAt(Counted(c, to), to, rest, e) =>
                               EndsAt(Counted(c, now), now, left, e)
  <1> DEFINE d    == Day(now)
             W    == Counted(c, now)
             stop == Stop(c, now)
             noon == Morning(d + 1)
             In(b, t) == b.from <= t /\ t < b.to
  <1>1. /\ d \in Nat /\ d + 1 \in Int /\ 48 * d <= now /\ now < 48 * d + 48
        /\ Morning(d) = 48 * d + 16 /\ noon = 48 * (d + 1) + 16 /\ noon \in Nat
        /\ now < noon /\ Morning(d) <= noon
        /\ ShiftEnd(c, d) \in Nat /\ Morning(d) <= ShiftEnd(c, d) /\ ShiftEnd(c, d) <= noon
        /\ AvailableTicks(c, d) \in Nat
    <2>1. d \in Nat /\ d + 1 \in Int /\ 48 * d <= now /\ now < 48 * d + 48
      BY DayIs
    <2>2. /\ Morning(d) = 48 * d + 16 /\ noon = 48 * (d + 1) + 16
          /\ ShiftEnd(c, d) \in Int /\ Morning(d) <= ShiftEnd(c, d) /\ ShiftEnd(c, d) <= noon
          /\ AvailableTicks(c, d) \in Nat
      <3>1. Morning(d) = 48 * d + 16 /\ noon = 48 * (d + 1) + 16
        BY DEF Morning, Ticks
      <3>2. d \in Int
        BY <2>1
      <3> HIDE DEF d
      <3>3. QED
        BY <3>1, <3>2, ShiftIs
    <2> HIDE DEF d, noon
    <2>3. QED
      BY <2>1, <2>2
  <1>2. \A b \in Breaks(c, d) : /\ b.from \in Nat /\ b.to \in Nat /\ Morning(d) < b.from /\ b.from < b.to
                                /\ b.to < 48 * d + 48
    BY <1>1, BreakIs
  <1>3. Day(noon) = d + 1 /\ Morning(Day(noon)) <= noon
    <2>1. Day(noon) = d + 1
      BY <1>1, OnDay
    <2>2. QED
      BY <1>1, <2>1
  <1>4. \A t \in Nat : now <= t /\ t < noon =>
           (t \in W <=> AvailableTicks(c, d) > 0 /\ t < ShiftEnd(c, d) /\ ~ \E b \in Breaks(c, d) : In(b, t))
    BY CountedToday
  <1> HIDE DEF d, noon, stop, W
  <1>5. CASE AvailableTicks(c, d) = 0 \/ now >= ShiftEnd(c, d)
    <2>1. \A f : Round(f, c, now, left) = f[<<c, noon, left>>]
      BY <1>5 DEF Round, d, noon
    <2>2. CountIn(W, now, noon) = 0
      <3>1. \A t \in now .. noon - 1 : t \notin W
        BY <1>1, <1>4, <1>5
      <3>2. QED
        BY <1>1, <3>1, CountNone
    <2>3. ASSUME NEW e, EndsAt(Counted(c, noon), noon, left, e) PROVE EndsAt(W, now, left, e)
      <3>1. EndsAt(W, now, 0 + left, e)
        BY <1>1, <1>3, <2>2, <2>3, GoOnFrom DEF W, d
      <3>2. QED
        BY <3>1
    <2>4. QED
      BY <1>1, <2>1, <2>3 DEF W
  <1>6. CASE ~ (AvailableTicks(c, d) = 0 \/ now >= ShiftEnd(c, d)) /\ \E b \in Breaks(c, d) : In(b, now)
    <2> DEFINE b == CHOOSE b \in Breaks(c, d) : In(b, now)
    <2>1. b \in Breaks(c, d) /\ In(b, now)
      BY <1>6
    <2>2. \A f : Round(f, c, now, left) = f[<<c, b.to, left>>]
      BY <1>6 DEF Round, d
    <2> HIDE DEF b
    <2>3. b.to \in Nat /\ now < b.to /\ Morning(d) <= b.to /\ b.to < 48 * d + 48 /\ b.to < noon /\ b.from \in Nat
      BY <1>1, <1>2, <2>1
    <2>4. Day(b.to) = d
      BY <1>1, <2>3, OnDay
    <2>5. CountIn(W, now, b.to) = 0
      <3>1. \A t \in now .. b.to - 1 : t \in Nat /\ now <= t /\ t < noon /\ In(b, t)
        BY <1>1, <2>1, <2>3
      <3>2. \A t \in now .. b.to - 1 : t \notin W
        BY <1>4, <2>1, <3>1
      <3>3. QED
        BY <2>3, <3>2, CountNone
    <2>6. ASSUME NEW e, EndsAt(Counted(c, b.to), b.to, left, e) PROVE EndsAt(W, now, left, e)
      <3>1. EndsAt(W, now, 0 + left, e)
        BY <1>1, <2>3, <2>4, <2>5, <2>6, GoOnFrom DEF W, d
      <3>2. QED
        BY <3>1
    <2>7. QED
      BY <2>2, <2>3, <2>6 DEF W
  <1>7. CASE ~ (AvailableTicks(c, d) = 0 \/ now >= ShiftEnd(c, d)) /\ ~ \E b \in Breaks(c, d) : In(b, now)
    <2>1. /\ stop \in Nat /\ now < stop /\ stop <= ShiftEnd(c, d) /\ stop <= noon
          /\ \A b \in Breaks(c, d) : b.from > now => stop <= b.from
          /\ stop = ShiftEnd(c, d) \/ \E b \in Breaks(c, d) : stop = b.from
      <3>1. now < ShiftEnd(c, d)
        BY <1>1, <1>7
      <3>2. /\ stop \in Nat /\ now < stop /\ stop <= ShiftEnd(c, d)
            /\ \A b \in Breaks(c, d) : b.from > now => stop <= b.from
            /\ stop = ShiftEnd(c, d) \/ \E b \in Breaks(c, d) : stop = b.from
        BY <3>1, StopIs DEF d, stop
      <3>3. QED
        BY <1>1, <3>2
    <2>2. \A t \in now .. stop - 1 : t \in W
      <3>1. SUFFICES ASSUME NEW t \in now .. stop - 1 PROVE t \in W
        OBVIOUS
      <3>2. t \in Nat /\ now <= t /\ t < stop /\ t < noon /\ t < ShiftEnd(c, d)
        BY <1>1, <2>1
      <3>3. ASSUME NEW b \in Breaks(c, d), In(b, t) PROVE FALSE
        <4>1. b.from \in Nat /\ b.to \in Nat
          BY <1>2
        <4>2. CASE b.from > now
          BY <2>1, <3>2, <3>3, <4>1, <4>2
        <4>3. CASE ~ b.from > now
          BY <1>7, <3>2, <3>3, <4>1, <4>3
        <4>4. QED
          BY <4>2, <4>3
      <3>4. AvailableTicks(c, d) > 0
        BY <1>1, <1>7
      <3>5. QED
        BY <1>4, <3>2, <3>3, <3>4
    <2>3. CASE left <= stop - now
      <3>1. \A f : Round(f, c, now, left) = now + left
        BY <1>7, <2>3 DEF Round, d, stop
      <3>2. \A t \in now .. (now + left) - 1 : t \in W
        BY <2>1, <2>2, <2>3
      <3>3. CountIn(W, now, now + left) = left
        <4>1. now + left \in Nat /\ now <= now + left
          OBVIOUS
        <4>2. CountIn(W, now, now + left) = (now + left) - now
          BY <3>2, <4>1, CountAll
        <4>3. QED
          BY <4>2
      <3>4. EndsAt(W, now, left, now + left)
        BY <3>2, <3>3 DEF EndsAt
      <3>5. QED
        BY <3>1, <3>4 DEF W
    <2>4. CASE ~ left <= stop - now
      <3> DEFINE to   == IF stop < ShiftEnd(c, d) THEN stop ELSE noon
                 done == stop - now
                 rest == left - done
      <3>1. \A f : Round(f, c, now, left) = f[<<c, to, rest>>]
        BY <1>7, <2>4 DEF Round, d, stop, noon
      <3>2. done \in Nat /\ rest \in Nat /\ rest > 0 /\ done + rest = left
        BY <2>1, <2>4
      <3>3. to \in Nat /\ stop <= to /\ now < to /\ Morning(d) <= to /\ Morning(Day(to)) <= to
        <4>1. CASE stop < ShiftEnd(c, d)
          <5>1. PICK b \in Breaks(c, d) : stop = b.from
            BY <1>1, <2>1, <4>1
          <5>2. Morning(d) <= stop /\ stop < 48 * d + 48
            BY <1>1, <1>2, <5>1
          <5>3. Day(stop) = d
            BY <1>1, <2>1, <5>2, OnDay
          <5>4. QED
            BY <2>1, <4>1, <5>2, <5>3
        <4>2. CASE ~ stop < ShiftEnd(c, d)
          BY <1>1, <1>3, <2>1, <4>2
        <4>3. QED
          BY <4>1, <4>2
      <3>4. CountIn(W, now, to) = done
        <4>1. CountIn(W, now, stop) = done
          BY <2>1, <2>2, CountAll
        <4>2. CountIn(W, stop, to) = 0
          <5>1. CASE stop < ShiftEnd(c, d)
            <6>1. to = stop
              BY <5>1
            <6>2. \A t \in stop .. stop - 1 : t \notin W
              BY <2>1
            <6>3. QED
              BY <2>1, <6>1, <6>2, CountNone
          <5>2. CASE ~ stop < ShiftEnd(c, d)
            <6>1. to = noon /\ stop = ShiftEnd(c, d)
              BY <1>1, <2>1, <5>2
            <6>2. \A t \in stop .. noon - 1 : t \in Nat /\ now <= t /\ t < noon /\ ~ t < ShiftEnd(c, d)
              BY <1>1, <2>1, <6>1
            <6>3. \A t \in stop .. noon - 1 : t \notin W
              BY <1>4, <6>2
            <6>4. QED
              BY <1>1, <2>1, <6>1, <6>3, CountNone
          <5>3. QED
            BY <5>1, <5>2
        <4>3. CountIn(W, now, to) = CountIn(W, now, stop) + CountIn(W, stop, to)
          <5> HIDE DEF to
          <5>1. now <= stop
            BY <2>1
          <5>2. QED
            BY <2>1, <3>3, <5>1, CountSplit
        <4>4. QED
          <5> HIDE DEF to
          <5>1. QED
            BY <3>2, <4>1, <4>2, <4>3
      <3>5. ASSUME NEW e, EndsAt(Counted(c, to), to, rest, e) PROVE EndsAt(W, now, left, e)
        <4> HIDE DEF to, done, rest
        <4>1. now <= to
          BY <3>3
        <4>2. EndsAt(W, now, done + rest, e)
          BY <3>2, <3>3, <3>4, <3>5, <4>1, GoOnFrom DEF W, d
        <4>3. QED
          BY <3>2, <4>2
      <3>6. QED
        <4> HIDE DEF to, done, rest
        <4>1. QED
          BY <3>1, <3>2, <3>3, <3>5 DEF W
    <2>5. QED
      BY <2>3, <2>4
  <1>8. QED
    BY <1>5, <1>6, <1>7

(* The end of the work, by counting.                                       *)
TrueEnd(c, now, left) == CHOOSE e : EndsAt(Counted(c, now), now, left, e)

LEMMA TrueEndIs ==
    ASSUME NEW c \in Categories, NEW now \in Nat, NEW left \in Nat
    PROVE  /\ EndsAt(Counted(c, now), now, left, TrueEnd(c, now, left))
           /\ TrueEnd(c, now, left) \in Nat /\ now <= TrueEnd(c, now, left)
           /\ \A e : EndsAt(Counted(c, now), now, left, e) => e = TrueEnd(c, now, left)
  <1>1. \A n \in Nat : \E t \in Nat : t >= n /\ t \in Counted(c, now)
    BY WorkToCome
  <1>2. \E e : EndsAt(Counted(c, now), now, left, e)
    BY <1>1, EndsSomewhere
  <1>3. EndsAt(Counted(c, now), now, left, TrueEnd(c, now, left))
    BY <1>2, Zenon DEF TrueEnd
  <1>4. QED
    BY <1>3, OneEnd DEF EndsAt

LEMMA WalksAre ==
    ASSUME NEW walk \in Walks
    PROVE  /\ walk[1] \in Categories /\ walk[2] \in Nat /\ walk[3] \in Nat
           /\ walk = <<walk[1], walk[2], walk[3]>>
  BY DEF Walks

(* The walk is one of its own rounds: counting gives a function of which   *)
(* that is true, so the recursive definition has a value.                  *)
LEMMA EndFromGoesOn == EndFrom = Rounds(EndFrom)
  <1> DEFINE g == [walk \in Walks |-> TrueEnd(walk[1], walk[2], walk[3])]
  <1>1. ASSUME NEW walk \in Walks PROVE g[walk] = Rounds(g)[walk]
    <2> DEFINE c == walk[1]
               now == walk[2]
               left == walk[3]
    <2>1. c \in Categories /\ now \in Nat /\ left \in Nat /\ walk = <<c, now, left>>
      BY WalksAre
    <2>2. g[walk] = TrueEnd(c, now, left) /\ Rounds(g)[walk] = Round(g, c, now, left)
      BY <1>1 DEF Rounds
    <2>3. \A to \in Nat, rest \in Nat : g[<<c, to, rest>>] = TrueEnd(c, to, rest)
      BY <2>1 DEF Walks
    <2> HIDE DEF g, c, now, left
    <2>4. CASE left = 0
      <3>1. Round(g, c, now, left) = now
        BY <2>4 DEF Round
      <3>2. EndsAt(Counted(c, now), now, left, now)
        BY <2>1, <2>4, NothingLeft
      <3>3. QED
        BY <2>1, <2>2, <3>1, <3>2, TrueEndIs
    <2>5. CASE left # 0
      <3>1. left > 0
        BY <2>1, <2>5
      <3>2. CASE /\ \A f : Round(f, c, now, left) = now + left
                 /\ EndsAt(Counted(c, now), now, left, now + left)
        BY <2>1, <2>2, <3>2, TrueEndIs
      <3>3. ASSUME NEW to \in Nat, NEW rest \in Nat,
                   \A f : Round(f, c, now, left) = f[<<c, to, rest>>],
                   \A e : EndsAt(Counted(c, to), to, rest, e) => EndsAt(Counted(c, now), now, left, e)
            PROVE  g[walk] = Rounds(g)[walk]
        <4>1. EndsAt(Counted(c, to), to, rest, TrueEnd(c, to, rest))
          BY <2>1, TrueEndIs
        <4>2. EndsAt(Counted(c, now), now, left, TrueEnd(c, to, rest))
          BY <3>3, <4>1
        <4>3. TrueEnd(c, to, rest) = TrueEnd(c, now, left)
          BY <2>1, <4>2, TrueEndIs
        <4>4. QED
          BY <2>2, <2>3, <3>3, <4>3
      <3>4. \/ /\ \A f : Round(f, c, now, left) = now + left
               /\ EndsAt(Counted(c, now), now, left, now + left)
            \/ \E to \in Nat, rest \in Nat :
                  /\ now < to /\ rest > 0
                  /\ \A f : Round(f, c, now, left) = f[<<c, to, rest>>]
                  /\ \A e : EndsAt(Counted(c, to), to, rest, e) => EndsAt(Counted(c, now), now, left, e)
        BY <2>1, <3>1, RoundCounts
      <3>5. QED
        BY <3>2, <3>3, <3>4
    <2>6. QED
      BY <2>4, <2>5
  <1>2. g = [walk \in Walks |-> g[walk]] /\ Rounds(g) = [walk \in Walks |-> Rounds(g)[walk]]
    BY DEF Rounds
  <1>3. g = Rounds(g)
    <2> HIDE DEF g
    <2>1. QED
      BY <1>1, <1>2
  <1>4. \E f : f = Rounds(f)
    BY <1>3
  <1>5. QED
    BY <1>4, EndFromIs

(* calculate_end_datetime gives the earliest time by which the work is     *)
(* done, counted over the times that the calendar counts.                  *)
LEMMA EndOfCounts ==
    ASSUME NEW c \in Categories, NEW now \in Nat, NEW left \in Nat
    PROVE  EndOf(c, now, left) = TrueEnd(c, now, left)
  <1> DEFINE Wrong(t, l) == EndFrom[<<c, t, l>>] # TrueEnd(c, t, l)
             Bad == {n \in Nat : \E t \in Nat, l \in Nat : n = TrueEnd(c, t, l) - t /\ Wrong(t, l)}
  <1>1. Bad = {}
    <2>1. SUFFICES ASSUME Bad # {} PROVE FALSE
      OBVIOUS
    <2>2. PICK n \in Bad : \A m \in Bad : n <= m
      <3>1. Bad \subseteq Nat
        OBVIOUS
      <3> HIDE DEF Bad
      <3>2. QED
        BY <2>1, <3>1, LeastOf
    <2>3. PICK t \in Nat, l \in Nat : n = TrueEnd(c, t, l) - t /\ Wrong(t, l)
      BY <2>2
    <2>4. EndFrom[<<c, t, l>>] = Round(EndFrom, c, t, l)
      BY EndFromGoesOn, RoundsAre
    <2>5. CASE l = 0
      <3>1. Round(EndFrom, c, t, l) = t
        BY <2>5 DEF Round
      <3>2. EndsAt(Counted(c, t), t, l, t)
        BY <2>5, NothingLeft
      <3>3. t = TrueEnd(c, t, l)
        BY <3>2, TrueEndIs
      <3>4. QED
        BY <2>3, <2>4, <3>1, <3>3
    <2>6. CASE l # 0
      <3>1. l > 0
        BY <2>6
      <3>2. CASE /\ \A f : Round(f, c, t, l) = t + l
                 /\ EndsAt(Counted(c, t), t, l, t + l)
        BY <2>3, <2>4, <3>2, TrueEndIs
      <3>3. ASSUME NEW to \in Nat, NEW rest \in Nat, t < to,
                   \A f : Round(f, c, t, l) = f[<<c, to, rest>>],
                   \A e : EndsAt(Counted(c, to), to, rest, e) => EndsAt(Counted(c, t), t, l, e)
            PROVE  FALSE
        <4>1. EndsAt(Counted(c, to), to, rest, TrueEnd(c, to, rest))
          BY TrueEndIs
        <4>2. EndsAt(Counted(c, t), t, l, TrueEnd(c, to, rest))
          BY <3>3, <4>1
        <4>3. TrueEnd(c, to, rest) = TrueEnd(c, t, l)
          BY <4>2, TrueEndIs
        <4>4. EndFrom[<<c, to, rest>>] = EndFrom[<<c, t, l>>]
          BY <2>4, <3>3
        <4>5. Wrong(to, rest)
          BY <2>3, <4>3, <4>4
        <4>6. TrueEnd(c, to, rest) \in Nat /\ to <= TrueEnd(c, to, rest)
          BY TrueEndIs
        <4>7. TrueEnd(c, to, rest) - to \in Nat
          BY <4>6
        <4>8. TrueEnd(c, to, rest) - to \in Bad
          BY <4>5, <4>7
        <4>9. n <= TrueEnd(c, to, rest) - to
          <5> HIDE DEF Bad
          <5>1. QED
            BY <2>2, <4>8
        <4>10. QED
          BY <2>3, <3>3, <4>3, <4>6, <4>9
      <3>4. QED
        BY <3>1, <3>2, <3>3, RoundCounts
    <2>7. QED
      BY <2>5, <2>6
  <1>2. TrueEnd(c, now, left) - now \in Nat
    BY TrueEndIs
  <1>3. ~ Wrong(now, left)
    BY <1>1, <1>2
  <1>4. QED
    BY <1>3 DEF EndOf

LEMMA EndOfIs ==
    ASSUME NEW c \in Categories, NEW now \in Nat, NEW left \in Nat
    PROVE  /\ EndsAt(Counted(c, now), now, left, EndOf(c, now, left))
           /\ EndOf(c, now, left) \in Nat /\ now <= EndOf(c, now, left)
  BY EndOfCounts, TrueEndIs

LEMMA DayCounts ==
    ASSUME NEW c \in Categories, NEW start \in Nat, Daytime(start), NEW e \in Nat
    PROVE  CountIn(Counted(c, start), start, e) = Cardinality({t \in start .. e - 1 : Works(c, t)})
  <1>1. Morning(Day(start)) <= start /\ Morning(Day(start)) \in Int
    BY DEF Daytime, Clock, Morning, Day, Ticks
  <1>2. \A t \in start .. e - 1 : t \in Counted(c, start) <=> Works(c, t)
    BY <1>1 DEF Counted
  <1>3. {t \in start .. e - 1 : t \in Counted(c, start)} = {t \in start .. e - 1 : Works(c, t)}
    BY <1>2
  <1>4. QED
    BY <1>3 DEF CountIn

(* Begun by day, a task ends at the earliest time by which the machine has *)
(* worked for as long as it takes, over breaks, nights, weekends and       *)
(* holidays: not a half hour of them is counted and none of a shift is     *)
(* lost (calculate_end_datetime against the hours of get_working_window).  *)
THEOREM EndIsEarliest ==
    ASSUME NEW c \in Categories, NEW start \in Nat, Daytime(start), NEW size \in Nat
    PROVE  LET Done(e) == Cardinality({t \in start .. e - 1 : Works(c, t)})
               end     == EndOf(c, start, size)
           IN  /\ end \in Nat /\ Done(end) = size
               /\ \A e \in Nat : e < end => Done(e) < size \/ size = 0
  <1> DEFINE end == EndOf(c, start, size)
  <1>1. end \in Nat /\ start <= end /\ EndsAt(Counted(c, start), start, size, end)
    BY EndOfIs
  <1>2. CountIn(Counted(c, start), start, end) = size
    BY <1>1 DEF EndsAt
  <1>3. \A e \in Nat : start <= e /\ e < end => CountIn(Counted(c, start), start, e) < size
    BY <1>1, LessBefore
  <1> HIDE DEF end
  <1>4. \A e \in Nat : e < start => CountIn(Counted(c, start), start, e) = 0
    <2>1. SUFFICES ASSUME NEW e \in Nat, e < start PROVE CountIn(Counted(c, start), start, e) = 0
      OBVIOUS
    <2>2. \A t \in start .. e - 1 : t \notin Counted(c, start)
      BY <2>1
    <2>3. QED
      BY <2>2, CountNone
  <1>5. \A e \in Nat : e < end => CountIn(Counted(c, start), start, e) < size \/ size = 0
    BY <1>3, <1>4
  <1>6. QED
    BY <1>1, <1>2, <1>5, DayCounts DEF end

(* Who begins later, by day, ends no earlier (calculate_end_datetime).  In *)
(* the small hours this is not so: there the shift of the new day counts,  *)
(* on a Saturday none.                                                     *)
THEOREM LaterIsNotSooner ==
    ASSUME NEW c \in Categories, NEW t \in Nat, NEW u \in Nat, t <= u, Daytime(u), NEW size \in Nat
    PROVE  EndOf(c, t, size) <= EndOf(c, u, size)
  <1> DEFINE d == EndOf(c, t, size)
             e == EndOf(c, u, size)
  <1>1. /\ EndsAt(Counted(c, t), t, size, d) /\ EndsAt(Counted(c, u), u, size, e)
        /\ d \in Nat /\ e \in Nat /\ t <= d /\ u <= e
    BY EndOfIs
  <1>2. Morning(Day(u)) <= u /\ Morning(Day(t)) <= u
    <2>1. Morning(Day(u)) <= u
      BY DEF Daytime, Clock, Morning, Day, Ticks
    <2>2. Day(t) <= Day(u) /\ Day(t) \in Nat /\ Day(u) \in Nat
      BY DEF Day, Ticks
    <2>3. QED
      BY <2>1, <2>2 DEF Morning, Ticks
  <1>3. \A x \in u .. e - 1 : x \in Counted(c, t) <=> x \in Counted(c, u)
    <2>1. Day(t) \in Nat /\ Day(u) \in Nat
      BY DEF Day, Ticks
    <2>2. Morning(Day(t)) \in Nat /\ Morning(Day(u)) \in Nat
      BY <2>1 DEF Morning, Ticks
    <2>3. QED
      BY <1>2, <2>2 DEF Counted
  <1>4. CountIn(Counted(c, t), u, e) = size
    <2>1. CountIn(Counted(c, t), u, e) = CountIn(Counted(c, u), u, e)
      BY <1>1, <1>3, CountSame
    <2>2. QED
      BY <1>1, <2>1 DEF EndsAt
  <1>5. CountIn(Counted(c, t), t, e) >= size
    <2>1. t <= u
      OBVIOUS
    <2>2. CountIn(Counted(c, t), t, e) = CountIn(Counted(c, t), t, u) + CountIn(Counted(c, t), u, e)
      BY <1>1, <2>1, CountSplit
    <2>3. CountIn(Counted(c, t), t, u) \in Nat
      BY CountIsNat
    <2>4. QED
      BY <1>4, <2>2, <2>3
  <1>6. ~ e < d
    <2>1. ASSUME e < d PROVE FALSE
      <3>1. t <= e /\ CountIn(Counted(c, t), t, e) \in Nat
        BY <1>1, CountIsNat
      <3>2. CountIn(Counted(c, t), t, e) < size
        BY <1>1, <2>1, <3>1, LessBefore
      <3>3. QED
        BY <1>5, <3>1, <3>2
    <2>2. QED
      BY <2>1
  <1>7. QED
    BY <1>1, <1>6

-----------------------------------------------------------------------------
(* The walk back *)

Solves(f, X, Done, val, next) == f = [x \in X |-> IF x \in Done THEN val[x] ELSE f[next[x]]]

(* A loop that hands its result through has a result for every state, be   *)
(* it an arbitrary one for states from which it does not end.              *)
LEMMA TailRecursion ==
    ASSUME NEW X, NEW Done \in SUBSET X, NEW val, NEW next, \A x \in X \ Done : next[x] \in X
    PROVE  \E f : Solves(f, X, Done, val, next)
  <1> DEFINE Closed(S)   == S \subseteq X /\ \A s \in S \ Done : next[s] \in S
             Comes(x, y) == \A S \in SUBSET X : Closed(S) /\ x \in S => y \in S
             Exits(x)     == {y \in Done : Comes(x, y)}
             f           == [x \in X |-> IF Exits(x) = {} THEN 0 ELSE val[CHOOSE y \in Exits(x) : TRUE]]
  <1>1. ASSUME NEW x \in Done PROVE Exits(x) = {x}
    <2>1. Closed({x})
      OBVIOUS
    <2>2. \A y : Comes(x, y) => y = x
      BY <2>1
    <2>3. Comes(x, x)
      OBVIOUS
    <2>4. QED
      BY <2>2, <2>3
  <1>2. ASSUME NEW x \in X \ Done PROVE Exits(x) = Exits(next[x])
    <2>1. ASSUME NEW y \in Done, Comes(x, y) PROVE Comes(next[x], y)
      <3>1. SUFFICES ASSUME NEW S \in SUBSET X, Closed(S), next[x] \in S PROVE y \in S
        OBVIOUS
      <3>2. Closed(S \cup {x}) /\ S \cup {x} \in SUBSET X
        BY <3>1
      <3>3. y \in S \cup {x} /\ y # x
        BY <2>1, <3>2
      <3>4. QED
        BY <3>3
    <2>2. ASSUME NEW y \in Done, Comes(next[x], y) PROVE Comes(x, y)
      BY <2>2
    <2>3. QED
      BY <2>1, <2>2
  <1> HIDE DEF Exits
  <1>3. ASSUME NEW x \in X PROVE f[x] = IF x \in Done THEN val[x] ELSE f[next[x]]
    <2>1. CASE x \in Done
      BY <1>1, <2>1
    <2>2. CASE x \notin Done
      <3>1. next[x] \in X /\ Exits(x) = Exits(next[x])
        BY <1>2, <2>2
      <3>2. QED
        BY <2>2, <3>1
    <2>3. QED
      BY <2>1, <2>2
  <1>4. f = [x \in X |-> IF x \in Done THEN val[x] ELSE f[next[x]]]
    <2>1. f = [x \in X |-> f[x]]
      OBVIOUS
    <2> HIDE DEF f
    <2>2. QED
      BY <1>3, <2>1
  <1>5. Solves(f, X, Done, val, next)
    <2> HIDE DEF f
    <2>1. QED
      BY <1>4 DEF Solves
  <1>6. QED
    BY <1>5

(* Where the work behind now begins: with the shift or after a break.      *)
StopBack(c, now) ==
    Max({Morning(ShiftDay(now))} \cup {b.to : b \in {x \in Breaks(c, ShiftDay(now)) : x.to < now}})

(* One round of the loop; f is how it goes on.                             *)
RoundBack(f, c, now, left, clock) ==
    IF left = 0 THEN now
    ELSE IF AvailableTicks(c, ShiftDay(now)) = 0 \/ now <= Morning(ShiftDay(now))
         THEN IF ShiftEnd(c, ShiftDay(now) - 1) = now THEN clock
              ELSE f[<<c, ShiftEnd(c, ShiftDay(now) - 1), left, clock>>]
    ELSE IF \E b \in Breaks(c, ShiftDay(now)) : b.from < now /\ now <= b.to
         THEN f[<<c, (CHOOSE b \in Breaks(c, ShiftDay(now)) : b.from < now /\ now <= b.to).from, left, clock>>]
    ELSE IF left <= now - StopBack(c, now) THEN now - left
    ELSE f[<<c, IF StopBack(c, now) > Morning(ShiftDay(now)) THEN StopBack(c, now)
                ELSE ShiftEnd(c, ShiftDay(now) - 1),
             left - (now - StopBack(c, now)), clock>>]

RoundsBack(f) == [walk \in WalksBack |-> RoundBack(f, walk[1], walk[2], walk[3], walk[4])]

LEMMA StartFromIs == StartFrom = CHOOSE f : f = RoundsBack(f)
  BY DEF StartFrom, RoundsBack, RoundBack, StopBack

LEMMA RoundsBackAre ==
    ASSUME NEW c \in Categories, NEW now \in Int, NEW left \in Nat, NEW clock \in Int, NEW f
    PROVE  RoundsBack(f)[<<c, now, left, clock>>] = RoundBack(f, c, now, left, clock)
  BY DEF RoundsBack, WalksBack

LEMMA ShiftDayIs ==
    ASSUME NEW now \in Int
    PROVE  /\ ShiftDay(now) \in Int
           /\ 48 * ShiftDay(now) <= now /\ now <= 48 * ShiftDay(now) + 64
  <1>1. /\ Day(now) \in Int /\ 48 * Day(now) <= now /\ now < 48 * Day(now) + 48
    BY DayIs
  <1>2. Morning(Day(now)) = 48 * Day(now) + 16
    BY DEF Morning, Ticks
  <1>3. QED
    BY <1>1, <1>2 DEF ShiftDay

(* Within a day and behind its morning, also at the next one sharp.        *)
LEMMA OnShiftDay ==
    ASSUME NEW d \in Int, NEW now \in Int
    PROVE  /\ 48 * d + 16 < now /\ now < 48 * d + 48 => ShiftDay(now) = d
           /\ now = 48 * d + 64 => ShiftDay(now) = d
           /\ 48 * d <= now /\ now < 48 * d + 16 => ShiftDay(now) = d
  <1>1. ASSUME NEW k \in Int, 48 * k <= now, now < 48 * k + 48, now # 48 * k + 16 PROVE ShiftDay(now) = k
    <2>1. Day(now) = k
      BY <1>1, OnDay
    <2>2. Morning(k) = 48 * k + 16
      BY DEF Morning, Ticks
    <2>3. QED
      BY <1>1, <2>1, <2>2 DEF ShiftDay
  <1>2. ASSUME now = 48 * d + 64 PROVE ShiftDay(now) = d
    <2>1. Day(now) = d + 1
      <3>1. d + 1 \in Int /\ 48 * (d + 1) <= now /\ now < 48 * (d + 1) + 48
        BY <1>2
      <3>2. QED
        BY <3>1, OnDay
    <2>2. Morning(d + 1) = 48 * d + 64
      BY DEF Morning, Ticks
    <2>3. QED
      BY <1>2, <2>1, <2>2 DEF ShiftDay
  <1>3. QED
    BY <1>1, <1>2

Off(c, now) == AvailableTicks(c, ShiftDay(now)) = 0 \/ now <= Morning(ShiftDay(now))

LEMMA StopBackIs ==
    ASSUME NEW c \in Categories, NEW now \in Int, now > Morning(ShiftDay(now))
    PROVE  StopBack(c, now) \in Int /\ StopBack(c, now) < now
  <1> DEFINE d == ShiftDay(now)
             S == {Morning(d)} \cup {b.to : b \in {x \in Breaks(c, d) : x.to < now}}
  <1>1. d \in Int /\ Morning(d) = 48 * d + 16
    BY ShiftDayIs DEF Morning, Ticks
  <1>2. \A b \in Breaks(c, d) : b.to \in Int /\ Morning(d) < b.to
    <2> HIDE DEF d
    <2>1. QED
      BY <1>1, BreakIs
  <1>3. \A x \in S : x \in Int /\ 48 * d + 16 <= x /\ x < now
    BY <1>1, <1>2
  <1>4. \E m \in S : \A x \in S : m >= x
    <2> DEFINE T == {x - Morning(d) : x \in S}
    <2>1. T \subseteq Nat /\ T # {}
      BY <1>1, <1>3
    <2>2. now - Morning(d) \in Nat /\ \A x \in T : x <= now - Morning(d)
      BY <1>1, <1>3
    <2>3. Max(T) \in T /\ \A x \in T : x <= Max(T)
      <3> HIDE DEF T
      <3>1. QED
        BY <2>1, <2>2, MaxIs
    <2>4. PICK m \in S : Max(T) = m - Morning(d)
      BY <2>3
    <2>5. \A x \in S : x - Morning(d) \in T
      OBVIOUS
    <2>6. \A x \in S : m >= x
      <3> HIDE DEF S, T, d
      <3>1. QED
        BY <1>1, <1>3, <2>3, <2>4, <2>5
    <2>7. QED
      BY <2>6
  <1>5. StopBack(c, now) = Max(S)
    BY Zenon DEF StopBack
  <1>6. Max(S) \in S
    <2> HIDE DEF S
    <2>1. QED
      BY <1>4, Zenon DEF Max
  <1>7. QED
    BY <1>3, <1>5, <1>6

(* It comes to the end; it goes on with so much left.                      *)
Returns(c, now, left, clock, v)       == \A f : RoundBack(f, c, now, left, clock) = v
GoesTo(c, now, left, clock, to, rest) == \A f : RoundBack(f, c, now, left, clock) = f[<<c, to, rest, clock>>]

(* A round comes to the end, goes on from the end of the shift before, or  *)
(* goes on from where a break begins, or has less work left.               *)
LEMMA RoundBackIs ==
    ASSUME NEW c \in Categories, NEW now \in Int, NEW left \in Nat, NEW clock \in Int, left # 0
    PROVE  \/ /\ Off(c, now)
              /\ ShiftEnd(c, ShiftDay(now) - 1) = now
              /\ Returns(c, now, left, clock, clock)
           \/ /\ Off(c, now)
              /\ ShiftEnd(c, ShiftDay(now) - 1) \in Int
              /\ GoesTo(c, now, left, clock, ShiftEnd(c, ShiftDay(now) - 1), left)
           \/ \E b \in Breaks(c, ShiftDay(now)) :
                 /\ ~ Off(c, now) /\ b.from \in Int /\ b.from < now /\ now <= b.to
                 /\ GoesTo(c, now, left, clock, b.from, left)
           \/ /\ ~ Off(c, now) /\ ~ \E b \in Breaks(c, ShiftDay(now)) : b.from < now /\ now <= b.to
              /\ \/ \E t \in Int : Returns(c, now, left, clock, t)
                 \/ \E t \in Int, rest \in Nat : rest < left /\ GoesTo(c, now, left, clock, t, rest)
  <1> DEFINE d    == ShiftDay(now)
             prev == ShiftEnd(c, d - 1)
             stop == StopBack(c, now)
             In(b) == b.from < now /\ now <= b.to
  <1>1. d \in Int /\ d - 1 \in Int
    BY ShiftDayIs
  <1>2. prev \in Int /\ Morning(d) \in Int
    <2> HIDE DEF d
    <2>1. QED
      BY <1>1, ShiftIs DEF Morning, Ticks
  <1>3. CASE Off(c, now)
    <2>1. CASE prev = now
      BY <1>3, <2>1 DEF RoundBack, Off, Returns
    <2>2. CASE prev # now
      BY <1>2, <1>3, <2>2 DEF RoundBack, Off, GoesTo
    <2>3. QED
      BY <2>1, <2>2
  <1>4. CASE ~ Off(c, now) /\ \E b \in Breaks(c, d) : In(b)
    <2> DEFINE b == CHOOSE b \in Breaks(c, d) : In(b)
    <2>1. b \in Breaks(c, d) /\ In(b)
      BY <1>4
    <2>2. GoesTo(c, now, left, clock, b.from, left)
      BY <1>4 DEF RoundBack, Off, GoesTo
    <2> HIDE DEF b, d
    <2>3. b.from \in Int
      BY <1>1, <2>1, BreakIs
    <2>4. QED
      BY <1>4, <2>1, <2>2, <2>3 DEF d
  <1>5. CASE ~ Off(c, now) /\ ~ \E b \in Breaks(c, d) : In(b)
    <2>1. stop \in Int /\ stop < now
      <3>1. now > Morning(d)
        BY <1>2, <1>5 DEF Off
      <3>2. QED
        BY <3>1, StopBackIs
    <2>2. CASE left <= now - stop
      <3>1. now - left \in Int
        OBVIOUS
      <3>2. Returns(c, now, left, clock, now - left)
        BY <1>5, <2>2 DEF RoundBack, Off, Returns
      <3>3. QED
        BY <1>5, <3>1, <3>2
    <2>3. CASE ~ left <= now - stop
      <3> DEFINE t    == IF stop > Morning(d) THEN stop ELSE prev
                 rest == left - (now - stop)
      <3>1. GoesTo(c, now, left, clock, t, rest)
        BY <1>5, <2>3 DEF RoundBack, Off, GoesTo
      <3>2. t \in Int
        <4> HIDE DEF stop, prev
        <4>1. QED
          BY <1>2, <2>1
      <3>3. rest \in Nat /\ rest < left
        <4> HIDE DEF stop
        <4>1. QED
          BY <2>1, <2>3
      <3> HIDE DEF t, rest
      <3>4. QED
        BY <1>5, <3>1, <3>2, <3>3
    <2>4. QED
      BY <2>2, <2>3
  <1>6. QED
    BY <1>3, <1>4, <1>5

LEMMA WalksBackAre ==
    ASSUME NEW walk \in WalksBack
    PROVE  /\ walk[1] \in Categories /\ walk[2] \in Int /\ walk[3] \in Nat /\ walk[4] \in Int
           /\ walk = <<walk[1], walk[2], walk[3], walk[4]>>
  BY DEF WalksBack

LEMMA StartFromGoesOn == StartFrom = RoundsBack(StartFrom)
  <1> DEFINE Ends(w)  == \E v : \A f : RoundsBack(f)[w] = v
             Leads(w, y) == \A f : RoundsBack(f)[w] = f[y]
             Done == {w \in WalksBack : Ends(w)}
             val  == [w \in WalksBack |-> CHOOSE v : \A f : RoundsBack(f)[w] = v]
             next == [w \in WalksBack |-> CHOOSE y \in WalksBack : Leads(w, y)]
  <1>1. ASSUME NEW w \in WalksBack PROVE Ends(w) \/ \E y \in WalksBack : Leads(w, y)
    <2> DEFINE c == w[1]
               now == w[2]
               left == w[3]
               clock == w[4]
    <2>1. /\ c \in Categories /\ now \in Int /\ left \in Nat /\ clock \in Int
          /\ w = <<c, now, left, clock>>
      BY WalksBackAre
    <2>2. \A f : RoundsBack(f)[w] = RoundBack(f, c, now, left, clock)
      BY DEF RoundsBack
    <2> HIDE DEF c, now, left, clock
    <2>3. CASE left = 0
      <3>1. \A f : RoundsBack(f)[w] = now
        BY <2>2, <2>3 DEF RoundBack
      <3>2. QED
        BY <3>1
    <2>4. ASSUME NEW v, Returns(c, now, left, clock, v) PROVE Ends(w)
      <3>1. \A f : RoundsBack(f)[w] = v
        BY <2>2, <2>4 DEF Returns
      <3>2. QED
        BY <3>1
    <2>5. ASSUME NEW t \in Int, NEW rest \in Nat, GoesTo(c, now, left, clock, t, rest)
          PROVE  \E y \in WalksBack : Leads(w, y)
      <3>1. <<c, t, rest, clock>> \in WalksBack
        BY <2>1 DEF WalksBack
      <3>2. Leads(w, <<c, t, rest, clock>>)
        BY <2>2, <2>5 DEF GoesTo
      <3>3. QED
        BY <3>1, <3>2
    <2>6. CASE left # 0
      <3>1. \/ \E v : Returns(c, now, left, clock, v)
            \/ \E t \in Int, rest \in Nat : GoesTo(c, now, left, clock, t, rest)
        BY <2>1, <2>6, RoundBackIs
      <3>2. QED
        <4> HIDE DEF Ends, Leads
        <4>1. QED
          BY <2>4, <2>5, <3>1
    <2>7. QED
      BY <2>3, <2>6
  <1>2. Done \in SUBSET WalksBack
    OBVIOUS
  <1>3. \A w \in WalksBack \ Done : next[w] \in WalksBack /\ Leads(w, next[w])
    <2> HIDE DEF Leads
    <2>1. QED
      BY <1>1
  <1>4. \A w \in Done : \A f : RoundsBack(f)[w] = val[w]
    <2>1. SUFFICES ASSUME NEW w \in Done PROVE \A f : RoundsBack(f)[w] = val[w]
      OBVIOUS
    <2>2. \E v : \A f : RoundsBack(f)[w] = v
      OBVIOUS
    <2>3. val[w] = CHOOSE v : \A f : RoundsBack(f)[w] = v
      BY <1>2
    <2>4. QED
      BY <2>2, <2>3, Zenon
  <1>5. PICK f : Solves(f, WalksBack, Done, val, next)
    <2> HIDE DEF Done, val, next
    <2>1. \A w \in WalksBack \ Done : next[w] \in WalksBack
      BY <1>3
    <2>2. QED
      BY <1>2, <2>1, TailRecursion
  <1>6. \A w \in WalksBack : f[w] = RoundsBack(f)[w]
    <2>1. SUFFICES ASSUME NEW w \in WalksBack PROVE f[w] = RoundsBack(f)[w]
      OBVIOUS
    <2> HIDE DEF Done, val, next
    <2>2. f[w] = IF w \in Done THEN val[w] ELSE f[next[w]]
      BY <1>5 DEF Solves
    <2>3. QED
      BY <1>3, <1>4, <2>2
  <1>7. f = RoundsBack(f)
    <2>1. RoundsBack(f) = [w \in WalksBack |-> RoundsBack(f)[w]]
      BY DEF RoundsBack
    <2>2. f = [w \in WalksBack |-> f[w]]
      <3> HIDE DEF Done, val, next
      <3>1. QED
        BY <1>5 DEF Solves
    <2>3. QED
      BY <1>6, <2>1, <2>2
  <1>8. QED
    BY <1>7, StartFromIs

LEMMA StartFromRounds ==
    ASSUME NEW c \in Categories, NEW now \in Int, NEW left \in Nat, NEW clock \in Int
    PROVE  /\ \A v : Returns(c, now, left, clock, v) => StartFrom[<<c, now, left, clock>>] = v
           /\ \A t, rest : GoesTo(c, now, left, clock, t, rest) =>
                 StartFrom[<<c, now, left, clock>>] = StartFrom[<<c, t, rest, clock>>]
  <1>1. StartFrom[<<c, now, left, clock>>] = RoundBack(StartFrom, c, now, left, clock)
    BY StartFromGoesOn, RoundsBackAre
  <1>2. QED
    BY <1>1 DEF Returns, GoesTo

(* The walk from now has a result, and so have those with less work left.  *)
Arrives(c, now, left, clock) == StartFrom[<<c, now, left, clock>>] \in Int
LessArrives(c, left, clock)  == \A t \in Int, rest \in Nat : rest < left => Arrives(c, t, rest, clock)

LEMMA BreaksAreApart ==
    ASSUME NEW c \in Categories, NEW d \in Int, NEW a \in Breaks(c, d), NEW b \in Breaks(c, d)
    PROVE  ~ (b.from < a.from /\ a.from <= b.to)
  BY DEF Breaks, Ticks

LEMMA OnShift ==
    ASSUME NEW c \in Categories, NEW now \in Int, NEW left \in Nat, NEW clock \in Int,
           LessArrives(c, left, clock), left # 0, ~ Off(c, now)
    PROVE  Arrives(c, now, left, clock)
  <1>1. ASSUME NEW t \in Int, ~ Off(c, t), ~ \E b \in Breaks(c, ShiftDay(t)) : b.from < t /\ t <= b.to,
               \/ \E v \in Int : Returns(c, t, left, clock, v)
               \/ \E u \in Int, rest \in Nat : rest < left /\ GoesTo(c, t, left, clock, u, rest)
        PROVE  Arrives(c, t, left, clock)
    <2>1. CASE \E v \in Int : Returns(c, t, left, clock, v)
      BY <2>1, StartFromRounds DEF Arrives
    <2>2. CASE \E u \in Int, rest \in Nat : rest < left /\ GoesTo(c, t, left, clock, u, rest)
      <3>1. PICK u \in Int, rest \in Nat : rest < left /\ GoesTo(c, t, left, clock, u, rest)
        BY <2>2
      <3>2. StartFrom[<<c, t, left, clock>>] = StartFrom[<<c, u, rest, clock>>]
        BY <3>1, StartFromRounds
      <3>3. QED
        BY <3>1, <3>2 DEF Arrives, LessArrives
    <2>3. QED
      BY <1>1, <2>1, <2>2
  <1>2. ASSUME NEW a \in Breaks(c, ShiftDay(now)), a.from \in Int, GoesTo(c, now, left, clock, a.from, left)
        PROVE  Arrives(c, now, left, clock)
    <2> DEFINE d == ShiftDay(now)
    <2>1. d \in Int /\ Morning(d) = 48 * d + 16
      BY ShiftDayIs DEF Morning, Ticks
    <2>2. Morning(d) < a.from /\ a.from < 48 * d + 48
      <3>1. Morning(d) < a.from /\ a.from < a.to /\ a.to < 48 * d + 48 /\ a.to \in Int
        <4> a \in Breaks(c, d)
          OBVIOUS
        <4> HIDE DEF d
        <4>1. QED
          BY <2>1, BreakIs
      <3>2. QED
        BY <1>2, <2>1, <3>1
    <2>3. ShiftDay(a.from) = d
      <3> HIDE DEF d
      <3>1. QED
        BY <1>2, <2>1, <2>2, OnShiftDay
    <2>4. ~ Off(c, a.from)
      BY <1>2, <2>1, <2>2, <2>3 DEF Off
    <2>5. ~ \E b \in Breaks(c, ShiftDay(a.from)) : b.from < a.from /\ a.from <= b.to
      BY <1>2, <2>1, <2>3, BreaksAreApart
    <2>6. \/ \E v \in Int : Returns(c, a.from, left, clock, v)
          \/ \E u \in Int, rest \in Nat : rest < left /\ GoesTo(c, a.from, left, clock, u, rest)
      BY <1>2, <2>4, <2>5, RoundBackIs
    <2>7. Arrives(c, a.from, left, clock)
      BY <1>1, <1>2, <2>4, <2>5, <2>6
    <2>8. QED
      BY <1>2, <2>7, StartFromRounds DEF Arrives
  <1>3. QED
    BY <1>1, <1>2, RoundBackIs

(* Where the shift of the day before ends, and to which day that belongs.  *)
LEMMA ShiftBefore ==
    ASSUME NEW c \in Categories, NEW d \in Int, NEW t, t = ShiftEnd(c, d - 1)
    PROVE  /\ t \in Int /\ ShiftDay(t) \in Int
           /\ \/ ShiftDay(t) = d /\ t < Morning(d)
              \/ ShiftDay(t) = d - 1 /\ t > Morning(d - 1)
              \/ ShiftDay(t) = d - 2 /\ t > Morning(d - 2) /\ t = Morning(d - 1)
  <1>1. /\ t \in Int /\ Morning(d - 1) <= t /\ t <= Morning((d - 1) + 1)
        /\ Morning(d - 2) = 48 * d - 80 /\ Morning(d - 1) = 48 * d - 32 /\ Morning(d) = 48 * d + 16
        /\ (d - 1) + 1 = d
    <2>1. t \in Int /\ Morning(d - 1) <= t /\ t <= Morning((d - 1) + 1)
      BY ShiftIs
    <2>2. QED
      BY <2>1 DEF Morning, Ticks
  <1>2. CASE t = 48 * d - 32
    <2>1. t = 48 * (d - 2) + 64 /\ d - 2 \in Int
      BY <1>2
    <2>2. ShiftDay(t) = d - 2
      BY <1>1, <2>1, OnShiftDay
    <2>3. QED
      BY <1>1, <1>2, <2>2
  <1>3. CASE 48 * d - 32 < t /\ t < 48 * d
    <2>1. 48 * (d - 1) + 16 < t /\ t < 48 * (d - 1) + 48 /\ d - 1 \in Int
      BY <1>3
    <2>2. ShiftDay(t) = d - 1
      BY <1>1, <2>1, OnShiftDay
    <2>3. QED
      BY <1>1, <1>3, <2>2
  <1>4. CASE 48 * d <= t /\ t < 48 * d + 16
    <2>1. ShiftDay(t) = d
      BY <1>1, <1>4, OnShiftDay
    <2>2. QED
      BY <1>1, <1>4, <2>1
  <1>5. CASE t = 48 * d + 16
    <2>1. t = 48 * (d - 1) + 64 /\ d - 1 \in Int
      BY <1>5
    <2>2. ShiftDay(t) = d - 1
      BY <1>1, <2>1, OnShiftDay
    <2>3. QED
      BY <1>1, <1>5, <2>2
  <1>6. QED
    BY <1>1, <1>2, <1>3, <1>4, <1>5

(* A walk that does not end would come to an earlier day off.              *)
LEMMA BehindOff ==
    ASSUME NEW c \in Categories, NEW now \in Int, NEW left \in Nat, NEW clock \in Int,
           LessArrives(c, left, clock), left # 0, ~ Arrives(c, now, left, clock),
           NEW d, d = ShiftDay(now), NEW t, t = ShiftEnd(c, d - 1)
    PROVE  /\ t \in Int /\ ~ Arrives(c, t, left, clock)
           /\ AvailableTicks(c, ShiftDay(t)) = 0
           /\ ShiftDay(t) \in Int
           /\ \/ ShiftDay(t) = d - 1 /\ t > Morning(d - 1)
              \/ ShiftDay(t) = d - 2 /\ t > Morning(d - 2) /\ t = Morning(d - 1)
  <1>1. d \in Int
    BY ShiftDayIs
  <1>2. /\ t \in Int /\ ShiftDay(t) \in Int
        /\ \/ ShiftDay(t) = d /\ t < Morning(d)
           \/ ShiftDay(t) = d - 1 /\ t > Morning(d - 1)
           \/ ShiftDay(t) = d - 2 /\ t > Morning(d - 2) /\ t = Morning(d - 1)
    BY <1>1, ShiftBefore
  <1>3. Off(c, now)
    BY OnShift
  <1>4. \/ Returns(c, now, left, clock, clock)
        \/ GoesTo(c, now, left, clock, t, left)
    BY <1>3, RoundBackIs
  <1>5. ~ Arrives(c, t, left, clock)
    BY <1>4, StartFromRounds DEF Arrives
  <1>6. Off(c, t)
    BY <1>2, <1>5, OnShift
  <1>7. ~ (ShiftDay(t) = d /\ t < Morning(d))
    <2>1. SUFFICES ASSUME ShiftDay(t) = d PROVE FALSE
      OBVIOUS
    <2>2. ShiftEnd(c, ShiftDay(t) - 1) = t
      BY <2>1
    <2>3. \A f : RoundBack(f, c, t, left, clock) = clock
      BY <1>6, <2>2 DEF RoundBack, Off
    <2>4. Returns(c, t, left, clock, clock)
      BY <2>3 DEF Returns
    <2>5. StartFrom[<<c, t, left, clock>>] = clock
      BY <1>2, <2>4, StartFromRounds
    <2>6. QED
      BY <1>5, <2>5 DEF Arrives
  <1>8. t > Morning(ShiftDay(t)) /\ Morning(ShiftDay(t)) \in Int
    BY <1>2, <1>7 DEF Morning, Ticks
  <1>9. AvailableTicks(c, ShiftDay(t)) = 0
    BY <1>2, <1>6, <1>8 DEF Off
  <1>10. QED
    BY <1>2, <1>5, <1>7, <1>9

(* Before the first day there are only weekends, and a Friday before each. *)
LEMMA NotBeforeTheFirst ==
    ASSUME NEW c \in Categories, NEW now \in Int, NEW left \in Nat, NEW clock \in Int,
           LessArrives(c, left, clock), left # 0, ~ Arrives(c, now, left, clock),
           NEW d, d = ShiftDay(now), AvailableTicks(c, d) = 0
    PROVE  d \in Nat
  <1>1. d \in Int
    BY ShiftDayIs
  <1>2. SUFFICES ASSUME d < 0 PROVE FALSE
    BY <1>1
  <1> DEFINE t == ShiftEnd(c, d - 1)
             e == ShiftDay(t)
  <1>3. /\ t \in Int /\ AvailableTicks(c, e) = 0 /\ e \in Int
        /\ \/ e = d - 1 /\ t > Morning(d - 1)
           \/ e = d - 2 /\ t > Morning(d - 2) /\ t = Morning(d - 1)
    BY BehindOff
  <1>4. WeekDay(d) \in {5, 6}
    <2>1. d \notin Holidays /\ WeekDay(d) \in 0 .. 6
      BY <1>1, <1>2, CalendarAssumption DEF WeekDay
    <2>2. QED
      BY <1>1, <2>1 DEF AvailableTicks, DailyTicks, Ticks, Categories
  <1> HIDE DEF t, e
  <1>5. WeekDay(e) \in {5, 6}
    <2>1. e \notin Holidays /\ WeekDay(e) \in 0 .. 6
      BY <1>1, <1>2, <1>3, CalendarAssumption DEF WeekDay
    <2>2. QED
      BY <1>3, <2>1 DEF AvailableTicks, DailyTicks, Ticks, Categories
  <1>6. CASE WeekDay(d) = 5
    <2>1. WeekDay(d - 1) = 4 /\ WeekDay(d - 2) = 3
      BY <1>1, <1>6 DEF WeekDay
    <2>2. QED
      BY <1>3, <1>5, <2>1
  <1>7. CASE WeekDay(d) = 6
    <2>1. WeekDay(d - 1) = 5 /\ WeekDay(d - 2) = 4
      BY <1>1, <1>7 DEF WeekDay
    <2>2. t = Morning(d - 1)
      <3>1. DailyTicks(c, 5) = 0
        BY DEF DailyTicks
      <3>2. Morning(d - 1) \in Int
        BY <1>1 DEF Morning, Ticks
      <3>3. QED
        BY <2>1, <3>1, <3>2 DEF t, ShiftEnd
    <2>3. QED
      BY <1>1, <1>3, <1>5, <2>1, <2>2
  <1>8. QED
    BY <1>4, <1>6, <1>7

(* The walk back always ends.                                              *)
LEMMA StartFromIsTime ==
    ASSUME NEW c \in Categories, NEW now \in Int, NEW left \in Nat, NEW clock \in Int
    PROVE  Arrives(c, now, left, clock)
  <1> DEFINE Lost == {n \in Nat : \E t \in Int : ~ Arrives(c, t, n, clock)}
  <1>1. SUFFICES ASSUME Lost # {} PROVE FALSE
    OBVIOUS
  <1>2. PICK n \in Lost : \A m \in Lost : n <= m
    <2>1. Lost \subseteq Nat
      OBVIOUS
    <2> HIDE DEF Lost
    <2>2. QED
      BY <1>1, <2>1, LeastOf
  <1>3. n \in Nat /\ \E t \in Int : ~ Arrives(c, t, n, clock)
    BY <1>2
  <1>4. LessArrives(c, n, clock)
    <2>1. \A t \in Int, rest \in Nat : ~ Arrives(c, t, rest, clock) => rest \in Lost
      OBVIOUS
    <2> HIDE DEF Lost
    <2>2. QED
      BY <1>2, <1>3, <2>1 DEF LessArrives
  <1>5. n # 0
    <2>1. SUFFICES ASSUME n = 0, NEW t \in Int PROVE Arrives(c, t, n, clock)
      BY <1>3
    <2>2. Returns(c, t, n, clock, t)
      BY <2>1 DEF Returns, RoundBack
    <2>3. QED
      BY <1>3, <2>2, StartFromRounds DEF Arrives
  <1> DEFINE Days == {d \in Nat : \E t \in Int : ~ Arrives(c, t, n, clock) /\ d = ShiftDay(t)}
  <1> HIDE DEF Lost
  <1>6. ASSUME NEW t \in Int, ~ Arrives(c, t, n, clock)
        PROVE  \E d \in Days : d < ShiftDay(t)
    <2> DEFINE u == ShiftEnd(c, ShiftDay(t) - 1)
    <2>1. /\ u \in Int /\ ~ Arrives(c, u, n, clock) /\ AvailableTicks(c, ShiftDay(u)) = 0
          /\ ShiftDay(u) \in {ShiftDay(t) - 1, ShiftDay(t) - 2}
      BY <1>3, <1>4, <1>5, <1>6, BehindOff
    <2> HIDE DEF u
    <2>2. ShiftDay(u) \in Nat
      BY <1>3, <1>4, <1>5, <2>1, NotBeforeTheFirst
    <2>3. ShiftDay(t) \in Int
      BY ShiftDayIs
    <2>4. ShiftDay(u) \in Days
      BY <2>1, <2>2
    <2>5. QED
      <3> HIDE DEF Days
      <3>1. QED
        BY <2>1, <2>2, <2>3, <2>4
  <1>7. Days # {}
    BY <1>3, <1>6
  <1>8. PICK d \in Days : \A e \in Days : d <= e
    <2>1. Days \subseteq Nat
      OBVIOUS
    <2> HIDE DEF Days
    <2>2. QED
      BY <1>7, <2>1, LeastOf
  <1>9. PICK t \in Int : ~ Arrives(c, t, n, clock) /\ d = ShiftDay(t)
    BY <1>8
  <1>10. PICK e \in Days : e < d
    BY <1>6, <1>9
  <1>11. d \in Nat /\ e \in Nat
    BY <1>8, <1>10
  <1>12. QED
    <2> HIDE DEF Days
    <2>1. QED
      BY <1>8, <1>10, <1>11

(* The walk back comes to an end from every time, over any run of days     *)
(* off, or falls back on the clock (calculate_start_datetime).             *)
THEOREM WalkBackEnds ==
    ASSUME NEW c \in Categories, NEW end \in Nat, NEW size \in Nat
    PROVE  StartOf(c, end, size) \in Int
  <1>1. end \in Int /\ end - size \in Int
    OBVIOUS
  <1>2. QED
    BY <1>1, StartFromIsTime DEF Arrives, StartOf

-----------------------------------------------------------------------------
(* The search *)

(* Slots with times, none of which ends after some last time.              *)
AreSlots(slots) ==
    /\ \A s \in slots : s.start \in Nat /\ s.end \in Nat
    /\ \E n \in Nat : \A s \in slots : s.end <= n

(* The greatest of the earliest time and the ends of some slots.           *)
Behind(earliest, part) == Max({earliest} \cup {x.end : x \in part})

LEMMA BehindIs ==
    ASSUME NEW earliest \in Nat, NEW slots, AreSlots(slots), NEW part \in SUBSET slots
    PROVE  /\ Behind(earliest, part) \in Nat
           /\ earliest <= Behind(earliest, part)
           /\ \A x \in part : x.end <= Behind(earliest, part)
           /\ \/ Behind(earliest, part) = earliest
              \/ \E x \in part : Behind(earliest, part) = x.end
  <1> DEFINE S == {earliest} \cup {x.end : x \in part}
  <1>1. PICK n \in Nat : \A s \in slots : s.end <= n
    BY DEF AreSlots
  <1>2. S \subseteq Nat /\ S # {}
    BY DEF AreSlots
  <1>3. PICK k \in Nat : \A x \in S : x <= k
    <2>1. CASE earliest <= n
      <3>1. \A x \in S : x <= n
        BY <1>1, <2>1
      <3>2. QED
        BY <3>1
    <2>2. CASE n <= earliest
      <3>1. \A x \in part : x.end \in Nat /\ x.end <= n
        BY <1>1 DEF AreSlots
      <3>2. \A x \in S : x <= earliest
        BY <2>2, <3>1
      <3>3. QED
        BY <3>2
    <2>3. QED
      BY <2>1, <2>2
  <1>4. Max(S) \in S /\ \A x \in S : x <= Max(S)
    <2> HIDE DEF S
    <2>1. QED
      BY <1>2, <1>3, MaxIs
  <1>5. Behind(earliest, part) = Max(S)
    BY Zenon DEF Behind
  <1>6. earliest \in S /\ \A x \in part : x.end \in S
    OBVIOUS
  <1>7. \A y \in S : y = earliest \/ \E x \in part : y = x.end
    OBVIOUS
  <1>8. QED
    <2> HIDE DEF S
    <2>1. QED
      BY <1>2, <1>4, <1>5, <1>6, <1>7

(* Those that leave room before them.                                      *)
Open(c, earliest, size, slots) ==
    {s \in slots : RoundUp(EndOf(c, Candidate(earliest, slots, s), size)) <= s.start}

LEMMA FindSlotIs ==
    ASSUME NEW c, NEW earliest, NEW size, NEW slots
    PROVE  FindSlot(c, earliest, size, slots) =
              IF Open(c, earliest, size, slots) = {} THEN Behind(earliest, slots)
              ELSE Candidate(earliest, slots, FirstOf(Open(c, earliest, size, slots)))
  BY Zenon DEF FindSlot, Open, Behind

Earlier(slots, s) == {y \in slots : y.start < s.start}

LEMMA CandidateIs ==
    ASSUME NEW earliest, NEW slots, NEW s
    PROVE  Candidate(earliest, slots, s) = Behind(earliest, Earlier(slots, s))
  BY Zenon DEF Candidate, Behind, Earlier

LEMMA FirstIs ==
    ASSUME NEW slots, AreSlots(slots), NEW part \in SUBSET slots, part # {}
    PROVE  FirstOf(part) \in part /\ \A x \in part : FirstOf(part).start <= x.start
  <1>1. PICK n \in {s.start : s \in part} : \A y \in {s.start : s \in part} : n <= y
    <2>1. {s.start : s \in part} \subseteq Nat /\ {s.start : s \in part} # {}
      BY DEF AreSlots
    <2>2. QED
      BY <2>1, LeastOf
  <1>2. \E s \in part : \A x \in part : s.start <= x.start
    BY <1>1
  <1>3. QED
    BY <1>2, Zenon DEF FirstOf

LEMMA RoundUpIs ==
    ASSUME NEW t \in Nat
    PROVE  RoundUp(t) \in Nat /\ t <= RoundUp(t)
  BY DEF RoundUp

LEMMA RoundUpMonotone ==
    ASSUME NEW t \in Nat, NEW u \in Nat, t <= u
    PROVE  RoundUp(t) <= RoundUp(u)
  BY DEF RoundUp

(* The search ends at a time, not before the earliest, at which the block  *)
(* fits among the slots, even where these overlap.                         *)
LEMMA FoundSlotFits ==
    ASSUME NEW c \in Categories, NEW earliest \in Nat, NEW size \in Nat,
           NEW slots, AreSlots(slots), NEW at, at = FindSlot(c, earliest, size, slots)
    PROVE  at \in Nat /\ earliest <= at /\ Fits(c, at, size, slots)
  <1> DEFINE open == Open(c, earliest, size, slots)
             first == FirstOf(open)
             end == RoundUp(EndOf(c, at, size))
  <1>1. CASE open = {}
    <2>1. at = Behind(earliest, slots)
      BY <1>1, FindSlotIs
    <2>2. at \in Nat /\ earliest <= at /\ \A s \in slots : s.end <= at
      BY <2>1, BehindIs
    <2>3. QED
      BY <2>2 DEF Fits, Disjoint
  <1>2. CASE open # {}
    <2>1. open \in SUBSET slots
      BY DEF Open
    <2>2. first \in open /\ \A x \in open : first.start <= x.start
      <3> HIDE DEF open
      <3>1. QED
        BY <1>2, <2>1, FirstIs
    <2>3. at = Candidate(earliest, slots, first)
      BY <1>2, FindSlotIs
    <2>4. Earlier(slots, first) \in SUBSET slots
      BY DEF Earlier
    <2>5. at \in Nat /\ earliest <= at /\ \A x \in Earlier(slots, first) : x.end <= at
      <3> HIDE DEF first
      <3>1. QED
        BY <2>3, <2>4, BehindIs, CandidateIs
    <2>6. end <= first.start
      BY <2>2, <2>3 DEF Open
    <2>7. EndOf(c, at, size) \in Nat
      BY <2>5, EndOfIs
    <2>8. end \in Nat
      BY <2>7, RoundUpIs
    <2>9. first \in slots
      BY <2>1, <2>2
    <2> HIDE DEF first, end, open
    <2>10. ASSUME NEW s \in slots PROVE end <= s.start \/ s.end <= at
      <3>1. s.start \in Nat /\ first.start \in Nat
        BY <2>9 DEF AreSlots
      <3>2. CASE s.start < first.start
        BY <2>5, <3>2 DEF Earlier
      <3>3. CASE first.start <= s.start
        BY <2>6, <2>8, <3>1, <3>3
      <3>4. QED
        BY <3>1, <3>2, <3>3
    <2>11. QED
      BY <2>5, <2>10 DEF Fits, Disjoint, end
  <1>3. QED
    BY <1>1, <1>2

(* By day, no time before the one found would have done.                   *)
LEMMA NoSlotBefore ==
    ASSUME NEW c \in Categories, NEW earliest \in Nat, NEW size \in Nat,
           NEW slots, AreSlots(slots), NEW at, at = FindSlot(c, earliest, size, slots),
           NEW t \in Nat, earliest <= t, t < at, Daytime(t)
    PROVE  ~ Fits(c, t, size, slots)
  <1> DEFINE open == Open(c, earliest, size, slots)
             part == IF open = {} THEN slots ELSE Earlier(slots, FirstOf(open))
             late == {y \in slots : y.end > t}
             y == FirstOf(late)
             q == Candidate(earliest, slots, y)
  <1>1. SUFFICES ASSUME Fits(c, t, size, slots) PROVE FALSE
    OBVIOUS
  <1>2. open \in SUBSET slots /\ part \in SUBSET slots /\ late \in SUBSET slots
    BY DEF Open, Earlier
  <1>3. at = Behind(earliest, part)
    BY FindSlotIs, CandidateIs, Zenon
  <1>4. PICK x \in part : x.end > t
    <2> HIDE DEF part
    <2>1. at = earliest \/ \E x \in part : at = x.end
      BY <1>2, <1>3, BehindIs
    <2>2. QED
      BY <2>1
  <1>5. x \in late
    BY <1>2, <1>4
  <1>6. y \in late /\ \A z \in late : y.start <= z.start
    <2> HIDE DEF late
    <2>1. QED
      BY <1>2, <1>5, FirstIs
  <1>7. y \in slots /\ ~(y.end <= t) /\ y.start \in Nat /\ y.end \in Nat
    <2> HIDE DEF y
    <2>1. QED
      BY <1>6 DEF AreSlots
  <1>8. RoundUp(EndOf(c, t, size)) <= y.start
    <2> HIDE DEF y
    <2>1. QED
      BY <1>1, <1>7 DEF Fits, Disjoint
  <1>9. q \in Nat /\ q <= t
    <2>1. Earlier(slots, y) \in SUBSET slots
      BY DEF Earlier
    <2>2. q = Behind(earliest, Earlier(slots, y))
      BY CandidateIs
    <2>3. q \in Nat /\ (q = earliest \/ \E z \in Earlier(slots, y) : q = z.end)
      <3> HIDE DEF q, y
      <3>1. QED
        BY <2>1, <2>2, BehindIs
    <2>4. \A z \in Earlier(slots, y) : z.end <= t
      <3>1. SUFFICES ASSUME NEW z \in Earlier(slots, y) PROVE z.end <= t
        OBVIOUS
      <3>2. z \in slots /\ z.start < y.start /\ z.end \in Nat /\ z.start \in Nat
        BY DEF Earlier, AreSlots
      <3>3. ~(y.start <= z.start)
        <4> HIDE DEF y
        <4>1. QED
          BY <1>7, <3>2
      <3>4. z \notin late
        <4> HIDE DEF late, y
        <4>1. QED
          BY <1>6, <3>3
      <3>5. QED
        BY <3>2, <3>4
    <2>5. QED
      <3> HIDE DEF q, y
      <3>1. QED
        BY <2>3, <2>4
  <1>10. y \in open
    <2>1. EndOf(c, q, size) \in Nat /\ EndOf(c, t, size) \in Nat /\ EndOf(c, q, size) <= EndOf(c, t, size)
      <3> HIDE DEF q
      <3>1. QED
        BY <1>9, EndOfIs, LaterIsNotSooner
    <2>2. /\ RoundUp(EndOf(c, q, size)) <= RoundUp(EndOf(c, t, size))
          /\ RoundUp(EndOf(c, q, size)) \in Nat /\ RoundUp(EndOf(c, t, size)) \in Nat
      <3> HIDE DEF q
      <3>1. QED
        BY <2>1, RoundUpMonotone, RoundUpIs
    <2>3. RoundUp(EndOf(c, q, size)) <= y.start
      <3> HIDE DEF q, y
      <3>1. QED
        BY <1>7, <1>8, <2>2
    <2>4. QED
      BY <1>7, <2>3 DEF Open
  <1>11. /\ FirstOf(open) \in open /\ FirstOf(open).start <= y.start
         /\ FirstOf(open).start \in Nat
    <2> HIDE DEF open, y
    <2>1. FirstOf(open) \in open /\ FirstOf(open).start <= y.start
      BY <1>2, <1>10, FirstIs
    <2>2. QED
      BY <1>2, <2>1 DEF AreSlots
  <1>12. x.start < FirstOf(open).start /\ x.start \in Nat
    <2>1. x \in Earlier(slots, FirstOf(open))
      BY <1>10
    <2>2. QED
      BY <2>1 DEF Earlier, AreSlots
  <1>13. y.start <= x.start
    <2> HIDE DEF y, late
    <2>1. QED
      BY <1>5, <1>6
  <1>14. QED
    <2> HIDE DEF open, y, part, late
    <2>1. QED
      BY <1>7, <1>11, <1>12, <1>13

(* What the alignment makes of a place that fits still fits, and has room  *)
(* for the work.                                                           *)
LEMMA AlignedFits ==
    ASSUME NEW c \in Categories, NEW size \in Nat, NEW slots, AreSlots(slots),
           NEW at \in Nat, Fits(c, at, size, slots), NEW tail \in Nat, NEW predEnd \in Nat,
           NEW b, b = Align(c, slots, at, EndOf(c, at, size), size, tail, predEnd)
    PROVE  /\ b.start \in Nat /\ b.end \in Nat /\ Fits(c, b.start, size, slots)
           /\ EndOf(c, b.start, size) <= b.end /\ at <= b.start
  <1> DEFINE back  == StartOf(c, predEnd, size)
             moved == back > at
             s1    == IF moved THEN FindSlot(c, back, size, slots) ELSE at
             e1    == IF moved THEN EndOf(c, s1, size) ELSE EndOf(c, at, size)
             s2    == FindSlot(c, s1 + tail, size, slots)
             ends  == {e1, predEnd}
  <1>1. back \in Int
    BY WalkBackEnds
  <1>2. s1 \in Nat /\ at <= s1 /\ Fits(c, s1, size, slots)
    <2>1. CASE moved
      <3>1. back \in Nat
        BY <1>1, <2>1
      <3>2. QED
        <4> HIDE DEF back
        <4>1. s1 \in Nat /\ back <= s1 /\ Fits(c, s1, size, slots)
          BY <2>1, <3>1, FoundSlotFits
        <4>2. QED
          BY <2>1, <3>1, <4>1
    <2>2. CASE ~ moved
      BY <2>2
    <2>3. QED
      BY <2>1, <2>2
  <1>3. e1 \in Nat /\ e1 = EndOf(c, s1, size)
    <2>1. e1 = EndOf(c, s1, size)
      OBVIOUS
    <2> HIDE DEF s1, e1
    <2>2. QED
      BY <1>2, <2>1, EndOfIs
  <1>4. s2 \in Nat /\ at <= s2 /\ Fits(c, s2, size, slots)
    <2> HIDE DEF s1
    <2>1. s1 + tail \in Nat /\ at <= s1 + tail
      BY <1>2
    <2>2. s2 \in Nat /\ s1 + tail <= s2 /\ Fits(c, s2, size, slots)
      BY <2>1, FoundSlotFits
    <2> HIDE DEF s2
    <2>3. QED
      BY <1>2, <2>1, <2>2
  <1>5. EndOf(c, s2, size) \in Nat
    <2> HIDE DEF s2
    <2>1. QED
      BY <1>4, EndOfIs
  <1>6. Max(ends) \in Nat /\ e1 <= Max(ends)
    <2>1. ends \subseteq Nat /\ ends # {}
      <3> HIDE DEF e1
      <3>1. QED
        BY <1>3
    <2>2. e1 + predEnd \in Nat /\ \A x \in ends : x <= e1 + predEnd
      <3> HIDE DEF e1
      <3>1. QED
        BY <1>3
    <2>3. Max(ends) \in ends /\ \A x \in ends : x <= Max(ends)
      <3> HIDE DEF ends, e1
      <3>1. QED
        BY <2>1, <2>2, MaxIs
    <2>4. e1 \in ends
      OBVIOUS
    <2>5. QED
      <3> HIDE DEF ends, e1
      <3>1. QED
        BY <2>1, <2>3, <2>4
  <1>7. b = IF predEnd = NoTime THEN [start |-> at, end |-> EndOf(c, at, size)]
            ELSE IF tail > 0 /\ s1 > at THEN [start |-> s2, end |-> EndOf(c, s2, size)]
            ELSE [start |-> s1, end |-> Max(ends)]
    BY Zenon DEF Align
  <1>8. EndOf(c, at, size) \in Nat
    BY EndOfIs
  <1> HIDE DEF s1, e1, s2, ends
  <1>9. CASE predEnd = NoTime
    <2>1. b.start = at /\ b.end = EndOf(c, at, size)
      BY <1>7, <1>9
    <2>2. QED
      BY <1>8, <2>1
  <1>10. CASE predEnd # NoTime /\ tail > 0 /\ s1 > at
    <2>1. b.start = s2 /\ b.end = EndOf(c, s2, size)
      BY <1>7, <1>10
    <2>2. QED
      BY <1>4, <1>5, <2>1
  <1>11. CASE predEnd # NoTime /\ ~ (tail > 0 /\ s1 > at)
    <2>1. b.start = s1 /\ b.end = Max(ends)
      BY <1>7, <1>11
    <2>2. QED
      BY <1>2, <1>3, <1>6, <2>1
  <1>12. QED
    BY <1>9, <1>10, <1>11

-----------------------------------------------------------------------------
(* The timeline *)

Entry == [start : Nat, end : Nat, exact : Nat, work : Nat]

(* Every block is long enough for its work.                                *)
WorkHasRoom == \A i \in DOMAIN tasks : EndOf(cat, tasks[i].start, tasks[i].work) <= tasks[i].exact

(* Times are times, all of them before some last one, every task was free  *)
(* of the earlier ones and has room for its work.                          *)
TimelineInv ==
    /\ cat \in Categories
    /\ tasks \in Seq(Entry)
    /\ \E n \in Nat : \A i \in DOMAIN tasks : tasks[i].end <= n
    /\ WorkIsApart
    /\ WorkHasRoom

LEMMA EntriesAreTimes ==
    ASSUME tasks \in Seq(Entry), NEW i \in DOMAIN tasks
    PROVE  tasks[i].start \in Nat /\ tasks[i].end \in Nat
  <1>1. tasks[i] \in Entry
    OBVIOUS
  <1>2. QED
    BY <1>1 DEF Entry

LEMMA BlocksAreSlots ==
    ASSUME TimelineInv
    PROVE  AreSlots(Blocks)
  <1>1. PICK n \in Nat : \A i \in DOMAIN tasks : tasks[i].end <= n
    BY DEF TimelineInv
  <1>2. \A i \in DOMAIN tasks : tasks[i].start \in Nat /\ tasks[i].end \in Nat
    BY EntriesAreTimes DEF TimelineInv
  <1>3. \A s \in Blocks : s.start \in Nat /\ s.end \in Nat /\ s.end <= n
    BY <1>1, <1>2 DEF Blocks
  <1>4. QED
    BY <1>3 DEF AreSlots

(* A block that fits may be entered.                                       *)
LEMMA EnterKeepsInv ==
    ASSUME TimelineInv, NEW size \in Nat, NEW block,
           block.start \in Nat, block.end \in Nat, Fits(cat, block.start, size, Blocks),
           EndOf(cat, block.start, size) <= block.end,
           Enter(block, size), UNCHANGED cat
    PROVE  TimelineInv'
  <1> DEFINE new == [start |-> block.start, end |-> RoundUp(block.end),
                     exact |-> block.end, work |-> size]
  <1>1. new \in Entry
    BY RoundUpIs DEF Entry
  <1>2. /\ tasks \in Seq(Entry) /\ tasks' = Append(tasks, new)
        /\ tasks' \in Seq(Entry) /\ DOMAIN tasks' = 1 .. Len(tasks) + 1
        /\ DOMAIN tasks = 1 .. Len(tasks) /\ Len(tasks) \in Nat
        /\ tasks'[Len(tasks) + 1] = new
        /\ \A i \in DOMAIN tasks : tasks'[i] = tasks[i]
    <2>1. tasks \in Seq(Entry) /\ tasks' = Append(tasks, new)
      BY DEF TimelineInv, Enter
    <2> HIDE DEF new
    <2>2. QED
      BY <1>1, <2>1
  <1>3. \A i \in DOMAIN tasks : tasks[i].start \in Nat /\ tasks[i].end \in Nat
    BY <1>2, EntriesAreTimes
  <1>4. \E n \in Nat : \A i \in DOMAIN tasks' : tasks'[i].end <= n
    <2>1. PICK n \in Nat : \A i \in DOMAIN tasks : tasks[i].end <= n
      BY DEF TimelineInv
    <2>2. new.end \in Nat
      BY <1>1 DEF Entry
    <2> HIDE DEF new
    <2>3. n + new.end \in Nat /\ \A i \in DOMAIN tasks' : tasks'[i].end <= n + new.end
      <3>1. SUFFICES ASSUME NEW i \in DOMAIN tasks' PROVE tasks'[i].end <= n + new.end
        BY <2>2
      <3>2. CASE i \in DOMAIN tasks
        BY <1>2, <1>3, <2>1, <2>2, <3>2
      <3>3. CASE i = Len(tasks) + 1
        BY <1>2, <2>2, <3>3
      <3>4. QED
        BY <1>2, <3>2, <3>3
    <2>4. QED
      BY <2>3
  <1>5. WorkIsApart'
    <2>1. SUFFICES ASSUME NEW i \in DOMAIN tasks', NEW j \in DOMAIN tasks', i < j
                   PROVE  Disjoint(tasks'[i], Needed(j)')
      BY DEF WorkIsApart
    <2>2. i \in DOMAIN tasks
      BY <1>2, <2>1
    <2>3. CASE j \in DOMAIN tasks
      <3>1. Needed(j)' = Needed(j)
        BY <1>2, <2>3 DEF Needed
      <3>2. QED
        BY <1>2, <2>1, <2>2, <2>3, <3>1 DEF TimelineInv, WorkIsApart
    <2>4. CASE j = Len(tasks) + 1
      <3>1. Needed(j)' = [start |-> block.start, end |-> RoundUp(EndOf(cat, block.start, size))]
        BY <1>2, <2>4 DEF Needed
      <3>2. [start |-> tasks[i].start, end |-> tasks[i].end] \in Blocks
        BY <2>2 DEF Blocks
      <3>3. Disjoint([start |-> block.start, end |-> RoundUp(EndOf(cat, block.start, size))],
                     [start |-> tasks[i].start, end |-> tasks[i].end])
        BY <3>2 DEF Fits
      <3>4. QED
        BY <1>2, <2>2, <3>1, <3>3 DEF Disjoint
    <2>5. QED
      BY <1>2, <2>3, <2>4
  <1>6. WorkHasRoom'
    <2>1. SUFFICES ASSUME NEW i \in DOMAIN tasks'
                   PROVE  EndOf(cat, tasks'[i].start, tasks'[i].work) <= tasks'[i].exact
      BY DEF WorkHasRoom
    <2>2. CASE i \in DOMAIN tasks
      BY <1>2, <2>2 DEF TimelineInv, WorkHasRoom
    <2>3. CASE i = Len(tasks) + 1
      BY <1>2, <2>3
    <2>4. QED
      BY <1>2, <2>2, <2>3
  <1>7. QED
    BY <1>2, <1>4, <1>5, <1>6 DEF TimelineInv

LEMMA TimelineStep ==
    ASSUME TimelineInv, [TimelineNext]_timelineVars
    PROVE  TimelineInv'
  <1>1. cat \in Categories /\ AreSlots(Blocks)
    BY BlocksAreSlots DEF TimelineInv
  <1>2. ASSUME NEW earliest \in Instants, NEW size \in WorkSizes, PlaceFree(earliest, size)
        PROVE  TimelineInv'
    <2> DEFINE at == FindSlot(cat, earliest, size, Blocks)
               block == [start |-> at, end |-> EndOf(cat, at, size)]
    <2>1. earliest \in Nat /\ size \in Nat
      BY TimelineAssumption
    <2>2. at \in Nat /\ Fits(cat, at, size, Blocks)
      BY <1>1, <2>1, FoundSlotFits
    <2>3. Enter(block, size) /\ UNCHANGED cat
      BY <1>2, Zenon DEF PlaceFree
    <2>4. block.start = at /\ block.end \in Nat /\ block.end = EndOf(cat, at, size)
      <3> HIDE DEF at
      <3>1. QED
        BY <1>1, <2>1, <2>2, EndOfIs
    <2>5. QED
      <3> HIDE DEF at, block
      <3>1. QED
        BY <2>1, <2>2, <2>3, <2>4, EnterKeepsInv
  <1>3. ASSUME NEW earliest \in Instants, NEW size \in WorkSizes, NEW predEnd \in PredEnds,
               NEW tail \in Tails, PlaceBehind(earliest, size, tail, predEnd)
        PROVE  TimelineInv'
    <2> DEFINE at == FindSlot(cat, earliest, size, Blocks)
               block == Align(cat, Blocks, at, EndOf(cat, at, size), size, tail, predEnd)
    <2>1. earliest \in Nat /\ size \in Nat /\ predEnd \in Nat /\ tail \in Nat
      BY TimelineAssumption
    <2>2. at \in Nat /\ Fits(cat, at, size, Blocks)
      BY <1>1, <2>1, FoundSlotFits
    <2>3. Enter(block, size) /\ UNCHANGED cat
      BY <1>3, Zenon DEF PlaceBehind
    <2>4. /\ block.start \in Nat /\ block.end \in Nat /\ Fits(cat, block.start, size, Blocks)
          /\ EndOf(cat, block.start, size) <= block.end
      <3> HIDE DEF at
      <3>1. QED
        BY <1>1, <2>1, <2>2, AlignedFits
    <2>5. QED
      <3> HIDE DEF block
      <3>1. QED
        BY <2>1, <2>3, <2>4, EnterKeepsInv
  <1>4. CASE UNCHANGED timelineVars
    BY <1>4 DEF timelineVars, TimelineInv, WorkIsApart, Needed, WorkHasRoom
  <1>5. QED
    BY <1>2, <1>3, <1>4 DEF TimelineNext

(* The inductive invariant: every entry is a time, each task was free of   *)
(* the tasks entered before it, and its block has room for its work.       *)
THEOREM TimelineInvariant == TimelineSpec => []TimelineInv
  <1>1. TimelineInit => TimelineInv
    BY DEF TimelineInit, TimelineInv, WorkIsApart, WorkHasRoom
  <1>2. TimelineInv /\ [TimelineNext]_timelineVars => TimelineInv'
    BY TimelineStep
  <1>3. QED
    BY <1>1, <1>2, PTL DEF TimelineSpec

(* A task is only ever given a place where the work it needs is free of    *)
(* everything entered before (slot_finder.py, slot_filters.py): for any    *)
(* number of tasks, and even on a timeline whose stretched blocks overlap. *)
THEOREM PlacesAreFree == TimelineSpec => []WorkIsApart
  <1>1. TimelineInv => WorkIsApart
    BY DEF TimelineInv
  <1>2. QED
    BY <1>1, TimelineInvariant, PTL

(* The block of a task that begins by day has all of its working time, of  *)
(* which no break, night, weekend or holiday is a part: for every calendar *)
(* and any number of tasks (calculate_end_datetime,                        *)
(* align_start_to_predecessor_end).                                        *)
THEOREM WorkIsAlwaysDone == TimelineSpec => []WorkIsDone
  <1>1. TimelineInv => WorkIsDone
    <2>1. SUFFICES ASSUME TimelineInv, NEW i \in DOMAIN tasks, Daytime(tasks[i].start)
                   PROVE  Worked(tasks[i].start, tasks[i].exact) >= tasks[i].work
      BY DEF WorkIsDone
    <2> DEFINE start == tasks[i].start
               exact == tasks[i].exact
               size  == tasks[i].work
               end   == EndOf(cat, start, size)
               W     == Counted(cat, start)
    <2>2. start \in Nat /\ exact \in Nat /\ size \in Nat /\ cat \in Categories
      <3>1. tasks[i] \in Entry
        BY <2>1 DEF TimelineInv
      <3>2. QED
        BY <2>1, <3>1 DEF Entry, TimelineInv
    <2>3. end <= exact
      BY <2>1 DEF TimelineInv, WorkHasRoom
    <2>4. Daytime(start)
      BY <2>1
    <2> HIDE DEF start, exact, size
    <2>5. end \in Nat /\ start <= end /\ CountIn(W, start, end) = size
      BY <2>2, EndOfIs DEF EndsAt
    <2> HIDE DEF end
    <2>6. CountIn(W, start, exact) = CountIn(W, start, end) + CountIn(W, end, exact)
      BY <2>2, <2>3, <2>5, CountSplit
    <2>7. CountIn(W, end, exact) \in Nat
      BY <2>2, <2>5, CountIsNat
    <2>8. CountIn(W, start, exact) = Worked(start, exact)
      BY <2>2, <2>4, DayCounts DEF Worked
    <2>9. Worked(start, exact) >= size
      <3> HIDE DEF W
      <3>1. QED
        BY <2>2, <2>5, <2>6, <2>7, <2>8
    <2>10. QED
      BY <2>9 DEF start, exact, size
  <1>2. QED
    BY <1>1, TimelineInvariant, PTL

(* No slot is passed over: by day, no time between the earliest and the    *)
(* one chosen would have done (_find_available_slot).                      *)
THEOREM NoPlaceIsSkipped == TimelineSpec => NoSlotIsSkipped
  <1> DEFINE Kept == \A earliest \in Instants, size \in WorkSizes : PlaceFree(earliest, size) =>
                        \A t \in earliest .. tasks'[Len(tasks')].start - 1 :
                           Daytime(t) => ~ Fits(cat, t, size, Blocks)
  <1>1. TimelineInv /\ [TimelineNext]_timelineVars => [Kept]_timelineVars
    <2>1. SUFFICES ASSUME TimelineInv, NEW earliest \in Instants, NEW size \in WorkSizes,
                          PlaceFree(earliest, size),
                          NEW t \in earliest .. tasks'[Len(tasks')].start - 1, Daytime(t)
                   PROVE  ~ Fits(cat, t, size, Blocks)
      OBVIOUS
    <2> DEFINE at == FindSlot(cat, earliest, size, Blocks)
               block == [start |-> at, end |-> EndOf(cat, at, size)]
    <2>2. earliest \in Nat /\ size \in Nat /\ cat \in Categories /\ AreSlots(Blocks)
      BY <2>1, TimelineAssumption, BlocksAreSlots DEF TimelineInv
    <2>3. at \in Nat
      BY <2>2, FoundSlotFits
    <2>4. Enter(block, size)
      BY <2>1, Zenon DEF PlaceFree
    <2>5. tasks'[Len(tasks')].start = at
      <3> HIDE DEF at
      <3>1. tasks \in Seq(Entry)
        BY <2>1 DEF TimelineInv
      <3>2. QED
        BY <2>4, <3>1 DEF Enter
    <2>6. t \in Nat /\ earliest <= t /\ t < at
      <3> HIDE DEF at
      <3>1. QED
        BY <2>1, <2>2, <2>3, <2>5
    <2>7. QED
      BY <2>1, <2>2, <2>6, NoSlotBefore
  <1>2. QED
    BY <1>1, TimelineInvariant, PTL DEF TimelineSpec, NoSlotIsSkipped

-----------------------------------------------------------------------------
(* Finite sets *)

(* What holds of a set whenever it holds of all that lack one element less *)
(* holds of every finite set.                                              *)
LEMMA SetInduction ==
    ASSUME NEW S, IsFiniteSet(S), NEW P,
           \A T \in SUBSET S : (\A x \in T : T \ {x} \in P) => T \in P
    PROVE  S \in P
  <1> DEFINE Bad == {T \in SUBSET S : T \notin P}
             C   == {Cardinality(T) : T \in Bad}
  <1>1. SUFFICES ASSUME S \notin P PROVE FALSE
    OBVIOUS
  <1>2. \A T \in SUBSET S : IsFiniteSet(T) /\ Cardinality(T) \in Nat
    BY FS_Subset, FS_CardinalityType
  <1>3. PICK c \in C : \A d \in C : <<d, c>> \notin OpToRel(<, Nat)
    <2>1. C \subseteq Nat /\ C # {}
      BY <1>1, <1>2
    <2> HIDE DEF C
    <2>2. QED
      BY <2>1, WFMin, NatLessThanWellFounded
  <1>4. PICK T \in Bad : c = Cardinality(T)
    BY <1>3
  <1>5. PICK x \in T : T \ {x} \notin P
    BY <1>4
  <1>6. T \ {x} \in Bad /\ Cardinality(T \ {x}) = Cardinality(T) - 1
    BY <1>2, <1>4, <1>5, FS_RemoveElement
  <1>7. Cardinality(T \ {x}) \in C /\ Cardinality(T \ {x}) \in Nat /\ c \in Nat
    BY <1>2, <1>4, <1>6
  <1>8. Cardinality(T \ {x}) < c
    BY <1>2, <1>4, <1>6
  <1>9. QED
    <2> HIDE DEF C, Bad
    <2>1. QED
      BY <1>3, <1>7, <1>8 DEF OpToRel

(* Of finitely many things that can all be compared, one is the best.      *)
LEMMA BestOf ==
    ASSUME NEW S, IsFiniteSet(S), S # {}, NEW R,
           \A x, y \in S : <<x, y>> \in R \/ <<y, x>> \in R,
           \A x, y, z \in S : <<x, y>> \in R /\ <<y, z>> \in R => <<x, z>> \in R
    PROVE  \E x \in S : \A y \in S : <<x, y>> \in R
  <1> DEFINE P == {T \in SUBSET S : T # {} => \E x \in T : \A y \in T : <<x, y>> \in R}
  <1>1. ASSUME NEW T \in SUBSET S, \A x \in T : T \ {x} \in P PROVE T \in P
    <2>1. SUFFICES ASSUME T # {} PROVE \E x \in T : \A y \in T : <<x, y>> \in R
      OBVIOUS
    <2>2. PICK z \in T : TRUE
      BY <2>1
    <2>3. CASE T \ {z} = {}
      <3>1. T = {z}
        BY <2>2, <2>3
      <3>2. QED
        BY <2>2, <3>1
    <2>4. CASE T \ {z} # {}
      <3>1. PICK x \in T \ {z} : \A y \in T \ {z} : <<x, y>> \in R
        BY <1>1, <2>2, <2>4
      <3>2. CASE <<x, z>> \in R
        BY <3>1, <3>2
      <3>3. CASE <<z, x>> \in R
        <4>1. ASSUME NEW y \in T PROVE <<z, y>> \in R
          BY <2>2, <3>1, <3>3
        <4>2. QED
          BY <2>2, <4>1
      <3>4. QED
        BY <2>2, <3>1, <3>2, <3>3
    <2>5. QED
      BY <2>3, <2>4
  <1>2. S \in P
    <2> HIDE DEF P
    <2>1. QED
      BY <1>1, SetInduction
  <1>3. QED
    BY <1>2

(* The same of two numbers, the second of which counts if the first is     *)
(* the same.                                                               *)
LEMMA BestOfPairs ==
    ASSUME NEW S, IsFiniteSet(S), S # {}, NEW f \in [S -> Int], NEW g \in [S -> Int]
    PROVE  \E x \in S : \A y \in S : f[x] < f[y] \/ (f[x] = f[y] /\ g[x] <= g[y])
  <1> DEFINE R == {p \in S \X S : f[p[1]] < f[p[2]] \/ (f[p[1]] = f[p[2]] /\ g[p[1]] <= g[p[2]])}
  <1>1. \A x, y \in S : <<x, y>> \in R <=> f[x] < f[y] \/ (f[x] = f[y] /\ g[x] <= g[y])
    OBVIOUS
  <1>2. \A x \in S : f[x] \in Int /\ g[x] \in Int
    OBVIOUS
  <1> HIDE DEF R
  <1>3. \A x, y \in S : <<x, y>> \in R \/ <<y, x>> \in R
    <2> TAKE x, y \in S
    <2>1. f[x] \in Int /\ f[y] \in Int /\ g[x] \in Int /\ g[y] \in Int
      BY <1>2
    <2>2. QED
      BY <1>1, <2>1
  <1>4. \A x, y, z \in S : <<x, y>> \in R /\ <<y, z>> \in R => <<x, z>> \in R
    <2> TAKE x, y, z \in S
    <2>1. /\ f[x] \in Int /\ f[y] \in Int /\ f[z] \in Int
          /\ g[x] \in Int /\ g[y] \in Int /\ g[z] \in Int
      BY <1>2
    <2>2. QED
      BY <1>1, <2>1
  <1>5. \E x \in S : \A y \in S : <<x, y>> \in R
    BY <1>3, <1>4, BestOf
  <1>6. QED
    BY <1>1, <1>5, Zenon

(* Finitely many numbers have a smallest, that of some element.            *)
LEMMA BestNumber ==
    ASSUME NEW S, IsFiniteSet(S), S # {}, NEW f \in [S -> Int]
    PROVE  \E x \in S : \A y \in S : f[x] <= f[y]
  <1>1. \E x \in S : \A y \in S : f[x] < f[y] \/ (f[x] = f[y] /\ f[x] <= f[y])
    BY BestOfPairs
  <1>2. QED
    BY <1>1

(* The least of finitely many numbers is one of them.                      *)
LEMMA MinIsIn ==
    ASSUME NEW S, IsFiniteSet(S), S # {}, S \subseteq Int
    PROVE  Min(S) \in S
  <1> DEFINE f == [x \in S |-> x]
  <1>1. \E x \in S : \A y \in S : f[x] <= f[y]
    <2>1. f \in [S -> Int]
      OBVIOUS
    <2> HIDE DEF f
    <2>2. QED
      BY <2>1, BestNumber
  <1>2. QED
    BY <1>1 DEF Min

(* The greatest of finitely many numbers is one of them, and none is       *)
(* greater.                                                                *)
LEMMA MaxIsIn ==
    ASSUME NEW S, IsFiniteSet(S), S # {}, S \subseteq Int
    PROVE  Max(S) \in S /\ \A y \in S : y <= Max(S)
  <1> DEFINE f == [x \in S |-> -x]
  <1>1. PICK x \in S : \A y \in S : f[x] <= f[y]
    <2>1. f \in [S -> Int]
      OBVIOUS
    <2> HIDE DEF f
    <2>2. QED
      BY <2>1, BestNumber
  <1>2. x \in S /\ \A y \in S : x >= y
    BY <1>1
  <1>3. QED
    BY <1>2 DEF Max

-----------------------------------------------------------------------------
(* Folds *)

(* g is the fold over the parts of S: none if it is empty, else step applied*)
(* to what is picked and to the fold over the rest.                        *)
IsFold(g, S, X, none, pick, step) ==
    /\ g = [T \in SUBSET S |-> g[T]]
    /\ \A T \in SUBSET S : g[T] \in X[T]
    /\ g[{}] = none
    /\ \A T \in SUBSET S : T # {} => g[T] = step[pick[T]][g[T \ {pick[T]}]]

(* A fold of a finite set, one element after the other, is a function of   *)
(* the set; X says what comes of each part of it.                          *)
LEMMA FoldExists ==
    ASSUME NEW S, IsFiniteSet(S), NEW X, NEW none, none \in X[{}], NEW pick,
           \A T \in SUBSET S : T # {} => pick[T] \in T,
           NEW step,
           \A T \in SUBSET S : T # {} => \A a \in X[T \ {pick[T]}] : step[pick[T]][a] \in X[T]
    PROVE  \E g : IsFold(g, S, X, none, pick, step)
  <1> DEFINE After(g) == [T \in SUBSET S |-> IF T = {} THEN none ELSE step[pick[T]][g[T \ {pick[T]}]]]
             Upto(g, n) == \A T \in SUBSET S : Cardinality(T) <= n => g[T] = After(g)[T] /\ g[T] \in X[T]
             Bad == {n \in Nat : ~ \E g : Upto(g, n)}
  <1>1. \A T \in SUBSET S : IsFiniteSet(T) /\ Cardinality(T) \in Nat
    BY FS_Subset, FS_CardinalityType
  <1>2. \E g : Upto(g, 0)
    <2> DEFINE g == [T \in SUBSET S |-> none]
    <2>1. \A T \in SUBSET S : Cardinality(T) <= 0 => T = {}
      BY <1>1, FS_EmptySet
    <2>2. Upto(g, 0)
      BY <2>1
    <2>3. QED
      BY <2>2
  <1>3. ASSUME NEW n \in Nat, NEW g, Upto(g, n)
        PROVE  Upto(After(g), n + 1)
    <2> SUFFICES ASSUME NEW T \in SUBSET S, Cardinality(T) <= n + 1
                 PROVE  After(g)[T] = After(After(g))[T] /\ After(g)[T] \in X[T]
      OBVIOUS
    <2>1. CASE T = {}
      BY <2>1
    <2>2. CASE T # {}
      <3> DEFINE U == T \ {pick[T]}
      <3>1. pick[T] \in T /\ U \in SUBSET S
        BY <2>2
      <3>2. Cardinality(U) = Cardinality(T) - 1
        <4>1. IsFiniteSet(T)
          BY <1>1
        <4>2. \A x \in T : Cardinality(T \ {x}) = Cardinality(T) - 1
          BY <4>1, FS_RemoveElement
        <4>3. QED
          BY <3>1, <4>2
      <3>3. Cardinality(U) <= n
        BY <1>1, <3>1, <3>2
      <3>4. g[U] = After(g)[U] /\ g[U] \in X[U]
        BY <1>3, <3>1, <3>3
      <3>5. step[pick[T]][g[U]] \in X[T]
        BY <2>2, <3>4
      <3>6. After(g)[T] = step[pick[T]][g[U]] /\ After(After(g))[T] = step[pick[T]][After(g)[U]]
        BY <2>2, <3>1
      <3> HIDE DEF After, U
      <3>7. QED
        BY <3>4, <3>5, <3>6
    <2>3. QED
      BY <2>1, <2>2
  <1>4. Bad = {}
    <2> SUFFICES ASSUME Bad # {} PROVE FALSE
      OBVIOUS
    <2>1. PICK n \in Bad : \A m \in Bad : <<m, n>> \notin OpToRel(<, Nat)
      <3>1. Bad \subseteq Nat
        OBVIOUS
      <3> HIDE DEF Bad
      <3>2. QED
        BY <3>1, WFMin, NatLessThanWellFounded
    <2>2. n \in Nat /\ n # 0
      <3>1. 0 \notin Bad
        BY <1>2
      <3>2. QED
        BY <3>1
    <2>3. n - 1 \in Nat /\ <<n - 1, n>> \in OpToRel(<, Nat)
      <3>1. n - 1 \in Nat /\ n \in Nat /\ n - 1 < n
        BY <2>2
      <3>2. QED
        BY <3>1 DEF OpToRel
    <2>4. n - 1 \notin Bad
      <3> HIDE DEF Bad
      <3>1. QED
        BY <2>1, <2>3
    <2>5. PICK g : Upto(g, n - 1)
      BY <2>3, <2>4
    <2>6. Upto(After(g), (n - 1) + 1)
      <3> HIDE DEF Upto, After
      <3>1. QED
        BY <1>3, <2>3, <2>5
    <2>7. (n - 1) + 1 = n
      BY <2>2
    <2>8. \E h : Upto(h, n)
      <3> HIDE DEF Upto, After
      <3>1. QED
        BY <2>6, <2>7
    <2>9. QED
      BY <2>8
  <1>5. PICK h : Upto(h, Cardinality(S))
    <2>1. Cardinality(S) \in Nat
      BY <1>1
    <2>2. QED
      BY <1>4, <2>1
  <1> DEFINE g == [T \in SUBSET S |-> h[T]]
  <1>6. ASSUME NEW T \in SUBSET S PROVE h[T] = After(h)[T] /\ h[T] \in X[T]
    <2>1. Cardinality(T) <= Cardinality(S)
      BY FS_Subset
    <2>2. QED
      BY <1>5, <2>1
  <1>7. IsFold(g, S, X, none, pick, step)
    <2>1. g[{}] = none
      BY <1>6
    <2>2. ASSUME NEW T \in SUBSET S, T # {} PROVE g[T] = step[pick[T]][g[T \ {pick[T]}]]
      <3>1. T \ {pick[T]} \in SUBSET S
        OBVIOUS
      <3>2. h[T] = step[pick[T]][h[T \ {pick[T]}]]
        BY <1>6, <2>2
      <3>3. QED
        BY <3>1, <3>2
    <2>3. QED
      BY <1>6, <2>1, <2>2 DEF IsFold
  <1>8. QED
    BY <1>7

-----------------------------------------------------------------------------
(* Sorting *)

(* A key of n numbers.                                                     *)
IsKey(k, n) == DOMAIN k = 1 .. n /\ \A l \in 1 .. n : k[l] \in Int

(* The order of the keys: nothing is before itself, and what is before     *)
(* something is before all that comes after that.                          *)
LEMMA BeforeIsOrder ==
    ASSUME NEW n \in Nat, NEW a, NEW b, NEW c, IsKey(a, n), IsKey(b, n), IsKey(c, n)
    PROVE  /\ ~Before(a, a)
           /\ Before(a, b) /\ Before(b, c) => Before(a, c)
  <1>1. ~Before(a, a)
    BY DEF Before, IsKey
  <1>2. ASSUME Before(a, b), Before(b, c) PROVE Before(a, c)
    <2>1. PICK k \in 1 .. n : a[k] < b[k] /\ \A l \in 1 .. k - 1 : a[l] = b[l]
      BY <1>2 DEF Before, IsKey
    <2>2. PICK m \in 1 .. n : b[m] < c[m] /\ \A l \in 1 .. m - 1 : b[l] = c[l]
      BY <1>2 DEF Before, IsKey
    <2>3. CASE k <= m
      <3>1. a[k] < c[k]
        <4>1. a[k] \in Int /\ b[k] \in Int /\ c[k] \in Int /\ b[k] <= c[k]
          <5>1. CASE k = m
            BY <2>2, <5>1 DEF IsKey
          <5>2. CASE k < m
            BY <2>2, <5>2 DEF IsKey
          <5>3. QED
            BY <2>3, <5>1, <5>2
        <4>2. QED
          BY <2>1, <4>1
      <3>2. \A l \in 1 .. k - 1 : a[l] = c[l]
        BY <2>1, <2>2, <2>3 DEF IsKey
      <3>3. QED
        BY <3>1, <3>2 DEF Before, IsKey
    <2>4. CASE m < k
      <3>1. a[m] < c[m]
        BY <2>1, <2>2, <2>4 DEF IsKey
      <3>2. \A l \in 1 .. m - 1 : a[l] = c[l]
        BY <2>1, <2>2, <2>4 DEF IsKey
      <3>3. QED
        BY <3>1, <3>2 DEF Before, IsKey
    <2>5. QED
      BY <2>3, <2>4
  <1>3. QED
    BY <1>1, <1>2

(* Finitely many things with keys have a first one.                        *)
LEMMA FirstByKey ==
    ASSUME NEW T, IsFiniteSet(T), T # {}, NEW key, NEW n \in Nat, \A x \in T : IsKey(key[x], n)
    PROVE  \E x \in T : \A y \in T : ~Before(key[y], key[x])
  <1> DEFINE P == {U \in SUBSET T : U # {} => \E x \in U : \A y \in U : ~Before(key[y], key[x])}
  <1>1. ASSUME NEW U \in SUBSET T, \A x \in U : U \ {x} \in P PROVE U \in P
    <2>1. SUFFICES ASSUME U # {} PROVE \E x \in U : \A y \in U : ~Before(key[y], key[x])
      OBVIOUS
    <2>2. PICK z \in U : TRUE
      BY <2>1
    <2>3. ~Before(key[z], key[z])
      BY <2>2, BeforeIsOrder
    <2>4. CASE U \ {z} = {}
      <3>1. U = {z}
        BY <2>2, <2>4
      <3>2. QED
        BY <2>2, <2>3, <3>1
    <2>5. CASE U \ {z} # {}
      <3>1. PICK x \in U \ {z} : \A y \in U \ {z} : ~Before(key[y], key[x])
        BY <1>1, <2>2, <2>5
      <3>2. CASE ~Before(key[z], key[x])
        <4>1. ASSUME NEW y \in U PROVE ~Before(key[y], key[x])
          BY <3>1, <3>2
        <4>2. QED
          BY <3>1, <4>1
      <3>3. CASE Before(key[z], key[x])
        <4>1. ASSUME NEW y \in U PROVE ~Before(key[y], key[z])
          <5>1. CASE y = z
            BY <2>3, <5>1
          <5>2. CASE y # z
            <6>1. ~Before(key[y], key[x])
              BY <3>1, <5>2
            <6>2. QED
              BY <2>2, <3>1, <3>3, <6>1, BeforeIsOrder
          <5>3. QED
            BY <5>1, <5>2
        <4>2. QED
          BY <2>2, <4>1
      <3>4. QED
        BY <3>2, <3>3
    <2>6. QED
      BY <2>4, <2>5
  <1>2. T \in P
    <2> HIDE DEF P
    <2>1. QED
      BY <1>1, SetInduction
  <1>3. QED
    BY <1>2

(* The ways to list all of a set, each once and none after one that it is  *)
(* before.                                                                 *)
InOrder(T, key) ==
    {s \in Seq(T) :
        /\ Len(s) = Cardinality(T)
        /\ \A x \in T : \E i \in DOMAIN s : s[i] = x
        /\ \A i, j \in DOMAIN s : i # j => s[i] # s[j]
        /\ \A i, j \in DOMAIN s : i < j => ~Before(key[s[j]], key[s[i]])}

LEMMA FirstThenRest ==
    ASSUME NEW T, IsFiniteSet(T), NEW key, NEW x \in T, \A y \in T : ~Before(key[y], key[x]),
           NEW rest \in InOrder(T \ {x}, key)
    PROVE  <<x>> \o rest \in InOrder(T, key)
  <1> DEFINE s == <<x>> \o rest
  <1>1. rest \in Seq(T) /\ rest \in Seq(T \ {x}) /\ Len(rest) = Cardinality(T) - 1 /\ Cardinality(T) \in Nat
    <2>1. Cardinality(T \ {x}) = Cardinality(T) - 1 /\ Cardinality(T) \in Nat
      BY FS_RemoveElement, FS_CardinalityType
    <2>2. rest \in Seq(T \ {x}) /\ Len(rest) = Cardinality(T \ {x})
      BY DEF InOrder
    <2>3. rest \in Seq(T)
      BY <2>2
    <2>4. QED
      BY <2>1, <2>2, <2>3
  <1>2. /\ s \in Seq(T) /\ Len(s) = Cardinality(T) /\ DOMAIN s = 1 .. Len(rest) + 1
        /\ s[1] = x /\ Len(rest) \in Nat /\ DOMAIN rest = 1 .. Len(rest)
        /\ \A i \in 1 .. Len(rest) : s[i + 1] = rest[i] /\ rest[i] \in T \ {x}
    BY <1>1
  <1>3. ASSUME NEW i \in DOMAIN s, i # 1 PROVE i - 1 \in DOMAIN rest /\ s[i] = rest[i - 1] /\ s[i] \in T \ {x}
    <2>1. i - 1 \in 1 .. Len(rest) /\ (i - 1) + 1 = i
      BY <1>2, <1>3
    <2> HIDE DEF s
    <2>2. QED
      BY <1>2, <2>1
  <1> HIDE DEF s
  <1>4. \A y \in T : \E i \in DOMAIN s : s[i] = y
    <2> TAKE y \in T
    <2>1. CASE y = x
      <3>1. 1 \in DOMAIN s
        BY <1>2
      <3>2. QED
        BY <1>2, <2>1, <3>1
    <2>2. CASE y # x
      <3>1. PICK i \in DOMAIN rest : rest[i] = y
        BY <2>2 DEF InOrder
      <3>2. i + 1 \in DOMAIN s /\ s[i + 1] = y
        BY <1>2, <3>1
      <3>3. QED
        BY <3>2
    <2>3. QED
      BY <2>1, <2>2
  <1>5. ASSUME NEW i \in DOMAIN s, NEW j \in DOMAIN s, i # j PROVE s[i] # s[j]
    <2>1. CASE i = 1 \/ j = 1
      BY <1>2, <1>3, <1>5, <2>1
    <2>2. CASE i # 1 /\ j # 1
      <3>1. i - 1 # j - 1
        BY <1>2, <1>5
      <3>2. QED
        BY <1>3, <2>2, <3>1 DEF InOrder
    <2>3. QED
      BY <2>1, <2>2
  <1>6. ASSUME NEW i \in DOMAIN s, NEW j \in DOMAIN s, i < j PROVE ~Before(key[s[j]], key[s[i]])
    <2>1. j # 1
      BY <1>2, <1>6
    <2>2. CASE i = 1
      BY <1>2, <1>3, <2>1, <2>2
    <2>3. CASE i # 1
      <3>1. i - 1 < j - 1
        BY <1>2, <1>6
      <3>2. QED
        <4>1. ~Before(key[rest[j - 1]], key[rest[i - 1]])
          <5>1. i - 1 \in DOMAIN rest /\ j - 1 \in DOMAIN rest
            BY <1>3, <2>1, <2>3
          <5>2. QED
            BY <3>1, <5>1 DEF InOrder
        <4>2. QED
          BY <1>3, <2>1, <2>3, <4>1
    <2>4. QED
      BY <2>2, <2>3
  <1>7. s \in InOrder(T, key)
    BY <1>2, <1>4, <1>5, <1>6 DEF InOrder
  <1>8. QED
    BY <1>7 DEF s

(* Sorted lists a finite set in the order of its keys.                     *)
LEMMA SortedIs ==
    ASSUME NEW S, IsFiniteSet(S), NEW key, NEW n \in Nat, \A x \in S : IsKey(key[x], n)
    PROVE  Sorted(S, key) \in InOrder(S, key)
  <1> DEFINE first(T) == CHOOSE x \in T : \A y \in T : ~Before(key[y], key[x])
             Body(g) == [T \in SUBSET S |-> IF T = {} THEN <<>> ELSE <<first(T)>> \o g[T \ {first(T)}]]
             iter == CHOOSE g : g = Body(g)
             pick == [T \in SUBSET S |-> first(T)]
             step == [x \in S |-> [a \in Seq(S) |-> <<x>> \o a]]
             lists == [T \in SUBSET S |-> InOrder(T, key)]
             P == {T \in SUBSET S : iter[T] \in InOrder(T, key)}
  <1>1. Sorted(S, key) = iter[S]
    BY DEF Sorted, MapThenFoldSet
  <1>2. ASSUME NEW T \in SUBSET S, T # {}
        PROVE  /\ first(T) \in T /\ first(T) \in S /\ T \ {first(T)} \in SUBSET S
               /\ \A y \in T : ~Before(key[y], key[first(T)])
    <2>1. IsFiniteSet(T) /\ \A x \in T : IsKey(key[x], n)
      BY FS_Subset
    <2>2. \E x \in T : \A y \in T : ~Before(key[y], key[x])
      BY <1>2, <2>1, FirstByKey
    <2>3. QED
      BY <2>2
  <1>3. ASSUME NEW T \in SUBSET S, T # {}, NEW a \in InOrder(T \ {first(T)}, key)
        PROVE  a \in Seq(S) /\ <<first(T)>> \o a \in InOrder(T, key)
    <2>1. IsFiniteSet(T)
      BY FS_Subset
    <2>2. a \in Seq(T \ {first(T)})
      BY <1>3 DEF InOrder
    <2> HIDE DEF first
    <2>3. QED
      BY <1>2, <1>3, <2>1, <2>2, FirstThenRest
  <1>4. <<>> \in InOrder({}, key)
    BY FS_EmptySet DEF InOrder
  <1>5. \E g : g = Body(g)
    <2>1. \A T \in SUBSET S : T # {} => pick[T] \in T
      BY <1>2
    <2>2. \A T \in SUBSET S : T # {} => \A a \in lists[T \ {pick[T]}] : step[pick[T]][a] \in lists[T]
      <3> SUFFICES ASSUME NEW T \in SUBSET S, T # {}, NEW a \in lists[T \ {pick[T]}]
                   PROVE  step[pick[T]][a] \in lists[T]
        OBVIOUS
      <3>1. pick[T] = first(T) /\ first(T) \in S /\ T \ {first(T)} \in SUBSET S
        BY <1>2
      <3> HIDE DEF first
      <3>2. a \in InOrder(T \ {first(T)}, key)
        BY <3>1
      <3>3. step[pick[T]][a] = <<first(T)>> \o a
        BY <1>3, <3>1, <3>2
      <3>4. QED
        BY <1>3, <3>2, <3>3
    <2>3. <<>> \in lists[{}]
      BY <1>4
    <2>4. PICK g : IsFold(g, S, lists, <<>>, pick, step)
      <3> HIDE DEF step, pick, lists
      <3>1. QED
        BY <2>1, <2>2, <2>3, FoldExists, Zenon
    <2>5. ASSUME NEW T \in SUBSET S PROVE g[T] = IF T = {} THEN <<>> ELSE <<first(T)>> \o g[T \ {first(T)}]
      <3>1. CASE T = {}
        BY <2>4, <3>1 DEF IsFold
      <3>2. CASE T # {}
        <4>1. g[T] = step[first(T)][g[T \ {first(T)}]]
          BY <2>4, <3>2 DEF IsFold
        <4>2. first(T) \in S /\ T \ {first(T)} \in SUBSET S
          BY <1>2, <3>2
        <4>3. g[T \ {first(T)}] \in InOrder(T \ {first(T)}, key)
          <5>1. g[T \ {first(T)}] \in lists[T \ {first(T)}]
            BY <2>4, <4>2 DEF IsFold
          <5> HIDE DEF first
          <5>2. QED
            BY <4>2, <5>1
        <4> HIDE DEF first
        <4>4. step[first(T)][g[T \ {first(T)}]] = <<first(T)>> \o g[T \ {first(T)}]
          BY <1>3, <3>2, <4>2, <4>3
        <4>5. QED
          BY <3>2, <4>1, <4>4
      <3>3. QED
        BY <3>1, <3>2
    <2> HIDE DEF first
    <2>6. g = Body(g)
      BY <2>4, <2>5 DEF IsFold
    <2>7. QED
      BY <2>6
  <1>6. iter = Body(iter)
    <2> HIDE DEF Body
    <2>1. QED
      BY <1>5
  <1>7. ASSUME NEW T \in SUBSET S, \A x \in T : T \ {x} \in P PROVE T \in P
    <2>1. iter[T] = IF T = {} THEN <<>> ELSE <<first(T)>> \o iter[T \ {first(T)}]
      <3> HIDE DEF iter, first
      <3>1. QED
        BY <1>6
    <2>2. T # {} => iter[T \ {first(T)}] \in InOrder(T \ {first(T)}, key)
      BY <1>2, <1>7
    <2> HIDE DEF iter, first
    <2>3. iter[T] \in InOrder(T, key)
      <3>1. CASE T = {}
        BY <1>4, <2>1, <3>1
      <3>2. CASE T # {}
        BY <1>3, <2>1, <2>2, <3>2
      <3>3. QED
        BY <3>1, <3>2
    <2>4. QED
      BY <2>3
  <1>8. S \in P
    <2> HIDE DEF P
    <2>1. QED
      BY <1>7, SetInduction
  <1>9. QED
    BY <1>1, <1>8

-----------------------------------------------------------------------------
(* What the groups are *)

(* What a function makes of finitely many things is finite.                *)
LEMMA ImageIsFinite ==
    ASSUME NEW S, IsFiniteSet(S), NEW f
    PROVE  IsFiniteSet({f[x] : x \in S})
  <1> DEFINE T == {f[x] : x \in S}
             h == [x \in S |-> f[x]]
  <1>1. h \in Surjection(S, T)
    BY DEF Surjection
  <1>2. QED
    BY <1>1, FS_Surjection

(* The greatest of some natural numbers and another set of them.           *)
LEMMA MaxOfBoth ==
    ASSUME NEW S, IsFiniteSet(S), S # {}, S \subseteq Nat, NEW T, IsFiniteSet(T), T \subseteq Nat
    PROVE  Max(S \cup T) \in Nat /\ \A x \in S \cup T : x <= Max(S \cup T)
  <1>1. IsFiniteSet(S \cup T)
    BY FS_Union
  <1>2. S \cup T # {} /\ S \cup T \subseteq Int /\ S \cup T \subseteq Nat
    OBVIOUS
  <1>3. QED
    BY <1>1, <1>2, MaxIsIn

LEMMA GroupIs ==
    ASSUME NEW g \in Group
    PROVE  /\ Info[g].process \in Processes /\ Info[g].core \in BOOLEAN /\ Info[g].st \in BOOLEAN
           /\ Info[g].core \/ Info[g].st => Info[g].process = "stranding"
           /\ Info[g].sq \in Int /\ WireOf[Info[g].sq] \in Int /\ Info[g].prio \in Int
           /\ Info[g].drums \in Nat /\ Info[g].setup \in Nat
           /\ IsFiniteSet(DOMAIN Orders(g)) /\ 1 \in DOMAIN Orders(g)
           /\ \A k \in DOMAIN Orders(g) : Orders(g)[k].due \in Int
           /\ Orders(g)[1].sq = Info[g].sq /\ Orders(g)[1].order \in Lines
  BY PlacingAssumption DEF Orders, Lines

LEMMA SectionsAre ==
    ASSUME NEW g \in Group
    PROVE  IsFiniteSet(Sections(g)) /\ Info[g].sq \in Sections(g)
  <1> DEFINE f == [i \in DOMAIN Orders(g) |-> Orders(g)[i].sq]
  <1>1. IsFiniteSet({f[i] : i \in DOMAIN Orders(g)})
    <2> HIDE DEF f
    <2>1. QED
      BY GroupIs, ImageIsFinite
  <1>2. Sections(g) = {f[i] : i \in DOMAIN Orders(g)}
    BY DEF Sections, Orders
  <1>3. Info[g].sq \in Sections(g)
    BY GroupIs DEF Sections, Orders
  <1>4. QED
    BY <1>1, <1>2, <1>3

LEMMA DueIs ==
    ASSUME NEW g \in Group
    PROVE  EarliestDue(g) \in Int
  <1> DEFINE f == [i \in DOMAIN Orders(g) |-> Orders(g)[i].due]
             S == {f[i] : i \in DOMAIN Orders(g)}
  <1>1. IsFiniteSet(S)
    <2> HIDE DEF f
    <2>1. QED
      BY GroupIs, ImageIsFinite
  <1>2. S \subseteq Int /\ S # {}
    BY GroupIs
  <1>3. EarliestDue(g) = Min(S)
    BY DEF EarliestDue
  <1> HIDE DEF S
  <1>4. QED
    BY <1>1, <1>2, <1>3, MinIsIn

(* The least due day of some groups.                                       *)
LEMMA LeastDueIs ==
    ASSUME NEW T, T \subseteq Group, T # {}
    PROVE  Min({EarliestDue(h) : h \in T}) \in Int
  <1> DEFINE f == [h \in T |-> EarliestDue(h)]
             S == {f[h] : h \in T}
  <1>1. IsFiniteSet(T)
    BY FS_Subset, PlacingAssumption
  <1>2. IsFiniteSet(S)
    <2> HIDE DEF f
    <2>1. QED
      BY <1>1, ImageIsFinite
  <1>3. S \subseteq Int /\ S # {}
    BY DueIs
  <1>4. {EarliestDue(h) : h \in T} = S
    OBVIOUS
  <1> HIDE DEF S
  <1>5. QED
    BY <1>2, <1>3, <1>4, MinIsIn

-----------------------------------------------------------------------------
(* The order of the groups *)

LEMMA SortKeyIs ==
    ASSUME NEW g \in Group
    PROVE  IsKey(SortKey(g), 10)
  <1> DEFINE i     == Info[g]
             ofSt  == {EarliestDue(h) : h \in {x \in Group : Info[x].st /\ WireOf[Info[x].sq] = WireOf[i.sq]}}
             mates == {EarliestDue(h) : h \in {x \in Group : Cluster(x) = Cluster(g)}}
             k1 == IF i.core THEN 0 ELSE IF i.st THEN 1 ELSE 2
             k2 == IF i.st /\ WireOf[i.sq] > 0 THEN Min(ofSt) ELSE Never
             k3 == IF i.st THEN WireOf[i.sq] ELSE 0
             k4 == ProcessOrder(i.process)
             k5 == IF i.process \in Sheathing THEN ClusterDue(g) ELSE 0
             k6 == IF i.process \in Sheathing THEN ColorRank(i.color) ELSE 0
             k7 == IF i.process \in Sheathing THEN HalfWeek(Orders(g)[1].due) ELSE 0
             k8 == EarliestDue(g)
             k9 == -i.sq
             k10 == i.prio
  <1>1. k2 \in Int
    <2>1. i.st => {x \in Group : Info[x].st /\ WireOf[Info[x].sq] = WireOf[i.sq]} # {}
      OBVIOUS
    <2>2. i.st => Min(ofSt) \in Int
      BY <2>1, LeastDueIs
    <2>3. Never \in Int
      BY PlacingAssumption
    <2>4. QED
      BY <2>2, <2>3
  <1>2. k5 \in Int
    <2>1. ClusterDue(g) \in Int
      <3>1. g \in {x \in Group : Cluster(x) = Cluster(g)}
        OBVIOUS
      <3>2. QED
        BY <3>1, LeastDueIs DEF ClusterDue
    <2>2. QED
      BY <2>1
  <1>3. k6 \in Int
    BY DEF ColorRank
  <1>4. k7 \in Int
    <2>1. Orders(g)[1].due \in Int
      BY GroupIs
    <2>2. HalfWeek(Orders(g)[1].due) \in Int
      BY <2>1 DEF HalfWeek
    <2>3. QED
      BY <2>2
  <1>5. k3 \in Int /\ k8 \in Int /\ k9 \in Int /\ k10 \in Int
    BY GroupIs, DueIs
  <1>6. k1 \in Int /\ k4 \in Int
    BY DEF ProcessOrder
  <1>7. SortKey(g) = <<k1, k2, k3, k4, k5, k6, k7, k8, k9, k10>>
    BY DEF SortKey
  <1> HIDE DEF k1, k2, k3, k4, k5, k6, k7, k8, k9, k10
  <1>8. QED
    BY <1>1, <1>2, <1>3, <1>4, <1>5, <1>6, <1>7 DEF IsKey

(* A group that is not of a strand comes after all of an earlier process.  *)
Precedes(h, g) ==
    /\ ~Info[g].core /\ ~Info[g].st
    /\ ProcessOrder(Info[h].process) < ProcessOrder(Info[g].process)

LEMMA PrecedesIsBefore ==
    ASSUME NEW g \in Group, NEW h \in Group, Precedes(h, g)
    PROVE  Before(SortKey(h), SortKey(g))
  <1> DEFINE a == SortKey(h)
             b == SortKey(g)
  <1>1. /\ a[1] = (IF Info[h].core THEN 0 ELSE IF Info[h].st THEN 1 ELSE 2) /\ b[1] = 2
        /\ (~Info[h].st => a[2] = Never) /\ b[2] = Never
        /\ (~Info[h].st => a[3] = 0) /\ b[3] = 0
        /\ a[4] = ProcessOrder(Info[h].process) /\ b[4] = ProcessOrder(Info[g].process)
    BY DEF SortKey, Precedes
  <1>2. DOMAIN a = 1 .. 10
    BY SortKeyIs DEF IsKey
  <1> HIDE DEF a, b
  <1>3. CASE Info[h].core \/ Info[h].st
    <2>1. a[1] < b[1]
      BY <1>1, <1>3
    <2>2. \A l \in 1 .. 1 - 1 : a[l] = b[l]
      OBVIOUS
    <2>3. QED
      BY <1>2, <2>1, <2>2 DEF Before, a, b
  <1>4. CASE ~Info[h].core /\ ~Info[h].st
    <2>1. a[4] < b[4]
      BY <1>1 DEF Precedes
    <2>2. \A l \in 1 .. 4 - 1 : a[l] = b[l]
      BY <1>1, <1>4
    <2>3. QED
      BY <1>2, <2>1, <2>2 DEF Before, a, b
  <1>5. QED
    BY <1>3, <1>4

(* The engine takes the groups in an order in which none comes after one   *)
(* that it precedes.                                                       *)
LEMMA GroupsAreSorted ==
    ASSUME NEW T, T \subseteq Group
    PROVE  /\ GroupAndSort(T) \in Seq(T)
           /\ \A i, j \in DOMAIN GroupAndSort(T) :
                 i < j => ~Precedes(GroupAndSort(T)[j], GroupAndSort(T)[i])
           /\ \A i, j \in DOMAIN GroupAndSort(T) : i # j => GroupAndSort(T)[i] # GroupAndSort(T)[j]
           /\ \A g \in T : \E i \in DOMAIN GroupAndSort(T) : GroupAndSort(T)[i] = g
  <1> DEFINE key == [g \in T |-> SortKey(g)]
             s   == GroupAndSort(T)
  <1>1. IsFiniteSet(T)
    BY FS_Subset, PlacingAssumption
  <1>2. \A g \in T : IsKey(key[g], 10)
    BY SortKeyIs
  <1>3. s = Sorted(T, key)
    BY DEF GroupAndSort
  <1>4. s \in InOrder(T, key)
    <2> HIDE DEF key, s
    <2>1. QED
      BY <1>1, <1>2, <1>3, SortedIs
  <1> HIDE DEF s
  <1>5. ASSUME NEW i \in DOMAIN s, NEW j \in DOMAIN s, i < j PROVE ~Precedes(s[j], s[i])
    <2>1. s[i] \in T /\ s[j] \in T
      BY <1>4 DEF InOrder
    <2>2. ~Before(key[s[j]], key[s[i]])
      BY <1>4, <1>5 DEF InOrder
    <2>3. ~Before(SortKey(s[j]), SortKey(s[i]))
      BY <2>1, <2>2
    <2>4. QED
      BY <2>1, <2>3, PrecedesIsBefore
  <1>6. QED
    BY <1>4, <1>5 DEF InOrder, s

-----------------------------------------------------------------------------
(* When a group may begin *)

Keys == Processes \X UNION {Sections(g) : g \in Group}

Typed ==
    /\ base \in Nat /\ work \in [Group -> Nat]
    /\ todo \in Seq(Group) /\ plan \in Seq(TaskRows)
    /\ process_end_by_sq \in [Keys -> Nat \cup {NoTime}]
    /\ process_first_output_by_sq \in [Keys -> Nat \cup {NoTime}]

LEMMA TasksAre ==
    ASSUME Typed
    PROVE  /\ IsFiniteSet(DOMAIN plan) /\ DOMAIN plan = 1 .. Len(plan) /\ Len(plan) \in Nat
           /\ \A i \in DOMAIN plan : plan[i] \in TaskRows
           /\ \A i \in DOMAIN plan : /\ plan[i].group \in Group /\ plan[i].cat \in Categories
                                     /\ plan[i].start \in Nat /\ plan[i].end \in Nat /\ plan[i].first \in Nat
                                     /\ plan[i].kept \in BOOLEAN /\ plan[i].gone \in BOOLEAN
                                     /\ plan[i].alone \in BOOLEAN /\ plan[i].machine \in Codes
                                     /\ plan[i].drums \in Nat /\ plan[i].setup \in Nat
  <1>1. plan \in Seq(TaskRows)
    BY DEF Typed
  <1>2. DOMAIN plan = 1 .. Len(plan) /\ Len(plan) \in Nat /\ \A i \in DOMAIN plan : plan[i] \in TaskRows
    BY <1>1
  <1>3. IsFiniteSet(DOMAIN plan)
    BY <1>2, FS_Interval
  <1>4. QED
    BY <1>2, <1>3 DEF TaskRows

(* The ends and the first drums of some tasks are finitely many.           *)
LEMMA TimesAre ==
    ASSUME Typed, NEW A, A \subseteq DOMAIN plan
    PROVE  /\ IsFiniteSet(A)
           /\ IsFiniteSet({plan[i].end : i \in A}) /\ {plan[i].end : i \in A} \subseteq Nat
           /\ IsFiniteSet({plan[i].first : i \in A}) /\ {plan[i].first : i \in A} \subseteq Nat
  <1> DEFINE e == [i \in A |-> plan[i].end]
             f == [i \in A |-> plan[i].first]
  <1>1. IsFiniteSet(A)
    BY TasksAre, FS_Subset
  <1>2. IsFiniteSet({e[i] : i \in A}) /\ IsFiniteSet({f[i] : i \in A})
    <2> HIDE DEF e, f
    <2>1. QED
      BY <1>1, ImageIsFinite
  <1>3. {e[i] : i \in A} = {plan[i].end : i \in A} /\ {f[i] : i \in A} = {plan[i].first : i \in A}
    OBVIOUS
  <1>4. {plan[i].end : i \in A} \subseteq Nat /\ {plan[i].first : i \in A} \subseteq Nat
    BY TasksAre
  <1>5. QED
    BY <1>1, <1>2, <1>3, <1>4

LEMMA SlotsAre ==
    ASSUME Typed, NEW code
    PROVE  AreSlots(Timeline(code))
  <1> DEFINE A == {k \in DOMAIN plan : plan[k].machine = code /\ ~plan[k].gone}
             E == {plan[i].end : i \in A}
  <1>1. IsFiniteSet(E) /\ E \subseteq Nat
    BY TimesAre
  <1>2. Timeline(code) = {[start |-> plan[i].start, end |-> plan[i].end] : i \in A}
    BY DEF Timeline
  <1>3. \A s \in Timeline(code) : s.start \in Nat /\ s.end \in Nat /\ s.end \in E
    BY <1>2, TasksAre
  <1>4. \E n \in Nat : \A x \in E : x <= n
    <2> HIDE DEF E
    <2>1. CASE E = {}
      BY <2>1
    <2>2. CASE E # {}
      <3>1. E \subseteq Int
        BY <1>1
      <3>2. Max(E) \in E /\ \A x \in E : x <= Max(E)
        BY <1>1, <2>2, <3>1, MaxIsIn
      <3>3. QED
        BY <1>1, <3>2
    <2>3. QED
      BY <2>1, <2>2
  <1> HIDE DEF E
  <1>5. PICK n \in Nat : \A x \in E : x <= n
    BY <1>4
  <1>6. \A s \in Timeline(code) : s.end <= n
    BY <1>3, <1>5
  <1>7. QED
    BY <1>3, <1>6 DEF AreSlots

LEMMA CatIs ==
    ASSUME NEW code \in Codes
    PROVE  MachineCat(code) \in Categories
  <1>1. \E i \in DOMAIN Machines : Machines[i].code = code
    BY DEF Codes
  <1>2. QED
    BY <1>1, PlacingAssumption DEF MachineCat

(* What is known of the process before, if anything, is among the times    *)
(* that a group waits for.                                                 *)
LEMMA PredecessorFirstIs ==
    ASSUME Typed, NEW g \in Group, NEW multi \in BOOLEAN
    PROVE  /\ IsFiniteSet(PredecessorFirst(g, multi)) /\ PredecessorFirst(g, multi) \subseteq Nat
           /\ \A sq : /\ Sections(g) = {sq} /\ Info[g].process \in DOMAIN Predecessor
                      /\ process_first_output_by_sq[<<Predecessor[Info[g].process], sq>>] \notin {NoTime, Never}
                      => process_first_output_by_sq[<<Predecessor[Info[g].process], sq>>] \in PredecessorFirst(g, multi)
  <1> DEFINE first(sq) == process_first_output_by_sq[<<Predecessor[Info[g].process], sq>>]
             f     == [sq \in Sections(g) |-> first(sq)]
             all   == {f[sq] : sq \in Sections(g)}
             known == all \ {NoTime}
             p     == Info[g].process
  <1>1. CASE p \notin DOMAIN Predecessor
    <2>1. PredecessorFirst(g, multi) = {}
      BY <1>1 DEF PredecessorFirst
    <2>2. QED
      BY <1>1, <2>1, FS_EmptySet
  <1>2. CASE p \in DOMAIN Predecessor
    <2>1. Predecessor[p] \in Processes
      BY <1>2 DEF Predecessor, Processes, InsulationProcesses
    <2>2. \A sq \in Sections(g) : <<Predecessor[p], sq>> \in Keys
      BY <2>1 DEF Keys
    <2>3. \A sq \in Sections(g) : first(sq) \in Nat \cup {NoTime}
      BY <2>2 DEF Typed
    <2>4. IsFiniteSet(all)
      <3> HIDE DEF f
      <3>1. QED
        BY SectionsAre, ImageIsFinite
    <2>5. all \subseteq Nat \cup {NoTime}
      BY <2>3
    <2>6. IsFiniteSet(known) /\ known \subseteq Nat /\ IsFiniteSet(known \ {Never}) /\ known \ {Never} \subseteq Nat
      <3> HIDE DEF all
      <3>1. known \in SUBSET all /\ known \ {Never} \in SUBSET all
        OBVIOUS
      <3>2. QED
        BY <2>4, <2>5, <3>1, FS_Subset
    <2>7. known = {first(sq) : sq \in Sections(g)} \ {NoTime}
      OBVIOUS
    <2>8. PredecessorFirst(g, multi) = IF Cardinality(Sections(g)) > 1
                                       THEN IF known \ {Never} = {} THEN {} ELSE {Min(known \ {Never})}
                                       ELSE IF multi THEN known ELSE known \ {Never}
      BY <1>2, <2>7 DEF PredecessorFirst
    <2>9. \A sq : Sections(g) = {sq} => Cardinality(Sections(g)) = 1 /\ first(sq) \in all
      BY FS_Singleton
    <2> HIDE DEF known
    <2>10. CASE Cardinality(Sections(g)) > 1
      <3>1. known \ {Never} # {} => Min(known \ {Never}) \in Nat
        <4>1. known \ {Never} # {} => Min(known \ {Never}) \in known \ {Never}
          <5>1. known \ {Never} \subseteq Int
            BY <2>6
          <5>2. QED
            BY <2>6, <5>1, MinIsIn
        <4>2. QED
          BY <2>6, <4>1
      <3>2. PredecessorFirst(g, multi) = {} \/ PredecessorFirst(g, multi) = {Min(known \ {Never})}
        BY <2>8, <2>10
      <3>3. IsFiniteSet(PredecessorFirst(g, multi))
        <4>1. IsFiniteSet({}) /\ IsFiniteSet({Min(known \ {Never})})
          BY FS_EmptySet, FS_Singleton
        <4>2. QED
          BY <3>2, <4>1
      <3>4. PredecessorFirst(g, multi) \subseteq Nat
        BY <2>8, <2>10, <3>1
      <3>5. \A sq : Sections(g) # {sq}
        <4>1. \A sq : Cardinality({sq}) = 1
          BY FS_Singleton
        <4>2. ASSUME NEW sq, Sections(g) = {sq} PROVE FALSE
          <5>1. Cardinality(Sections(g)) = 1
            BY <4>1, <4>2
          <5>2. QED
            BY <2>10, <5>1
        <4>3. QED
          BY <4>2
      <3>6. QED
        BY <3>3, <3>4, <3>5
    <2>11. CASE ~(Cardinality(Sections(g)) > 1)
      <3>1. PredecessorFirst(g, multi) \in {known, known \ {Never}}
        BY <2>8, <2>11
      <3>2. known \ {Never} \subseteq PredecessorFirst(g, multi)
        BY <3>1
      <3>3. \A sq : Sections(g) = {sq} /\ first(sq) \notin {NoTime, Never} => first(sq) \in known \ {Never}
        BY <2>9 DEF known
      <3>4. QED
        BY <2>6, <3>1, <3>2, <3>3
    <2>12. QED
      BY <2>10, <2>11
  <1>3. QED
    BY <1>1, <1>2

LEMMA LastTaskIs ==
    ASSUME Typed, NEW order
    PROVE  LastTaskOf(order) \subseteq DOMAIN plan
  <1> DEFINE withIt == {i \in Made : \E k \in DOMAIN GroupAt(i).orders : GroupAt(i).orders[k].order = order}
             last   == plan[Max(withIt)].group
             same   == {k \in withIt : plan[k].group = last}
  <1>1. CASE withIt = {}
    BY <1>1 DEF LastTaskOf
  <1>2. CASE withIt # {}
    <2>1. withIt \subseteq DOMAIN plan /\ withIt \subseteq Int
      BY TasksAre DEF Made
    <2>2. IsFiniteSet(withIt)
      BY <2>1, TimesAre
    <2>3. Max(withIt) \in withIt
      <3> HIDE DEF withIt
      <3>1. QED
        BY <1>2, <2>1, <2>2, MaxIsIn
    <2>4. same # {} /\ same \subseteq withIt
      BY <2>3
    <2>5. IsFiniteSet(same)
      <3> HIDE DEF same
      <3>1. QED
        BY <2>2, <2>4, FS_Subset
    <2>6. Min(same) \in same
      <3> HIDE DEF same
      <3>1. QED
        BY <2>1, <2>4, <2>5, MinIsIn
    <2>7. LastTaskOf(order) = {i \in {Min(same)} : ~plan[i].gone}
      BY <1>2 DEF LastTaskOf
    <2>8. QED
      BY <2>1, <2>4, <2>6, <2>7
  <1>3. QED
    BY <1>1, <1>2

(* A group begins no earlier than the run, and not before the first drum   *)
(* of the process before is there and, for a high-voltage sheath, cured.   *)
LEMMA EarliestAfterIs ==
    ASSUME Typed, NEW g \in Group, NEW multi \in BOOLEAN, NEW seen, seen \subseteq DOMAIN plan
    PROVE  /\ EarliestAfter(g, multi, seen) \in Nat /\ Curing(g) \in Nat
           /\ \A x \in PredecessorFirst(g, multi) : x + Curing(g) <= EarliestAfter(g, multi, seen)
  <1> DEFINE first == PredecessorFirst(g, multi)
             begin == Max({base} \cup first)
             core  == CoreFirst(g, seen)
             own   == OwnPredecessors(g)
             insul == IF multi THEN {} ELSE InsulationFirst(g, seen)
  <1>1. Curing(g) \in Nat
    BY DEF Curing, Ticks
  <1>2. begin \in Nat /\ \A x \in first : x <= begin
    <2>1. IsFiniteSet({base}) /\ {base} # {} /\ {base} \subseteq Nat
      BY FS_Singleton DEF Typed
    <2>2. IsFiniteSet(first) /\ first \subseteq Nat
      BY PredecessorFirstIs
    <2> HIDE DEF first
    <2>3. QED
      BY <2>1, <2>2, MaxOfBoth
  <1>3. IsFiniteSet(core) /\ core \subseteq Nat
    <2> DEFINE A == {k \in seen : GroupAt(k).core /\ GroupAt(k).sq = Info[g].sq}
               f == {plan[i].first : i \in A}
    <2>1. A \subseteq DOMAIN plan
      OBVIOUS
    <2>2. IsFiniteSet(f) /\ f \subseteq Nat
      BY <2>1, TimesAre
    <2>3. core \in {{}, {Min(f)}} /\ (core # {} => f # {})
      BY DEF CoreFirst, FirstCore
    <2> HIDE DEF f, core
    <2>4. f # {} => Min(f) \in Nat
      <3>1. f \subseteq Int
        BY <2>2
      <3>2. QED
        BY <2>2, <3>1, MinIsIn
    <2>5. IsFiniteSet({}) /\ IsFiniteSet({Min(f)})
      BY FS_EmptySet, FS_Singleton
    <2>6. QED
      BY <2>3, <2>4, <2>5
  <1>4. IsFiniteSet(insul) /\ insul \subseteq Nat
    <2> DEFINE A == {k \in seen : GroupAt(k).process \in InsulationProcesses /\ (plan[k].kept \/ plan[k].alone)}
               f == {plan[i].first : i \in A}
    <2>1. A \subseteq DOMAIN plan
      OBVIOUS
    <2>2. IsFiniteSet(f) /\ f \subseteq Nat
      BY <2>1, TimesAre
    <2>3. insul \in {{}, {Min(f)}} /\ (insul # {} => f # {})
      BY DEF InsulationFirst, FirstInsulation
    <2> HIDE DEF f, insul
    <2>4. f # {} => Min(f) \in Nat
      <3>1. f \subseteq Int
        BY <2>2
      <3>2. QED
        BY <2>2, <3>1, MinIsIn
    <2>5. IsFiniteSet({}) /\ IsFiniteSet({Min(f)})
      BY FS_EmptySet, FS_Singleton
    <2>6. QED
      BY <2>3, <2>4, <2>5
  <1>5. IsFiniteSet(own) /\ own \subseteq Nat
    <2> DEFINE A == UNION {LastTaskOf(Orders(g)[k].order) : k \in DOMAIN Orders(g)}
    <2>1. A \subseteq DOMAIN plan
      BY LastTaskIs
    <2>2. IsFiniteSet({plan[i].end : i \in A}) /\ {plan[i].end : i \in A} \subseteq Nat
      BY <2>1, TimesAre
    <2>3. own = {} \/ own = {plan[i].end : i \in A}
      BY DEF OwnPredecessors
    <2> HIDE DEF A, own
    <2>4. QED
      BY <2>2, <2>3, FS_EmptySet
  <1> DEFINE rest == (core \cup own) \cup insul
  <1>6. EarliestAfter(g, multi, seen) = Max({begin + Curing(g)} \cup rest)
    <2>1. {begin + Curing(g)} \cup rest = {begin + Curing(g)} \cup core \cup own \cup insul
      OBVIOUS
    <2>2. EarliestAfter(g, multi, seen) = Max({begin + Curing(g)} \cup core \cup own \cup insul)
      BY DEF EarliestAfter
    <2>3. QED
      BY <2>1, <2>2
  <1>7. IsFiniteSet(rest) /\ rest \subseteq Nat
    <2> HIDE DEF core, own, insul
    <2>1. IsFiniteSet(core \cup own)
      BY <1>3, <1>5, FS_Union
    <2>2. IsFiniteSet(rest)
      BY <1>4, <2>1, FS_Union
    <2>3. QED
      BY <1>3, <1>4, <1>5, <2>2
  <1>8. IsFiniteSet({begin + Curing(g)}) /\ {begin + Curing(g)} # {} /\ {begin + Curing(g)} \subseteq Nat
    <2> HIDE DEF begin
    <2>1. IsFiniteSet({begin + Curing(g)})
      BY FS_Singleton
    <2>2. begin + Curing(g) \in Nat
      BY <1>1, <1>2
    <2>3. QED
      BY <2>1, <2>2
  <1> HIDE DEF begin, rest, first
  <1>9. Max({begin + Curing(g)} \cup rest) \in Nat /\ begin + Curing(g) <= Max({begin + Curing(g)} \cup rest)
    <2>1. begin + Curing(g) \in {begin + Curing(g)} \cup rest
      OBVIOUS
    <2>2. QED
      BY <1>7, <1>8, <2>1, MaxOfBoth
  <1>10. ASSUME NEW x \in first PROVE x + Curing(g) <= EarliestAfter(g, multi, seen)
    <2>1. x \in Nat
      BY PredecessorFirstIs DEF first
    <2>2. QED
      BY <1>1, <1>2, <1>6, <1>9, <2>1
  <1>11. QED
    BY <1>1, <1>6, <1>9, <1>10 DEF first

LEMMA SetupIs ==
    ASSUME NEW g \in Group, NEW code
    PROVE  Setup(g, code) \in Nat /\ ColorChangeOn(g, code) \in Nat
  <1>1. Info[g].setup \in Nat /\ CompoundSetup \in Nat /\ ColorChange \in Nat
    BY PlacingAssumption
  <1>2. \A sq : SetupAfter(sq, g) \in Nat
    BY <1>1, Zenon DEF SetupAfter
  <1>3. QED
    BY <1>1, <1>2 DEF Setup, ColorChangeOn

LEMMA DurationIs ==
    ASSUME Typed, NEW g \in Group, NEW code
    PROVE  Duration(g, code) \in Nat /\ work[g] \in Nat
  <1>1. work[g] \in Nat /\ Info[g].drums \in Nat /\ Winding \in Nat
    BY PlacingAssumption DEF Typed
  <1>2. work[g] * Info[g].drums \in Nat
    BY <1>1
  <1>3. QED
    BY <1>1, <1>2, SetupIs DEF Duration, GroupWork

LEMMA EarliestOnIs ==
    ASSUME Typed, NEW g \in Group, NEW code, NEW earliest \in Nat
    PROVE  EarliestOn(g, code, earliest) \in Nat /\ earliest <= EarliestOn(g, code, earliest)
  <1> DEFINE slots == Timeline(code)
  <1>1. Behind(earliest, slots) \in Nat /\ earliest <= Behind(earliest, slots)
    <2>1. AreSlots(slots)
      BY SlotsAre
    <2> HIDE DEF slots
    <2>2. QED
      BY <2>1, BehindIs
  <1>2. EarliestOn(g, code, earliest) \in {earliest, Behind(earliest, slots)}
    BY DEF EarliestOn, Behind
  <1>3. QED
    BY <1>1, <1>2

LEMMA EndsBeforeAre ==
    ASSUME Typed, NEW g \in Group
    PROVE  PredecessorEnd(g) \in Nat \cup {NoTime}
  <1> DEFINE procs == (IF Info[g].process \in DOMAIN Predecessor THEN {Predecessor[Info[g].process]} ELSE {})
                      \cup (IF Info[g].process \in Sheathing THEN {"assembly"} ELSE {})
             pairs == procs \X Sections(g)
             f     == [k \in pairs |-> process_end_by_sq[k]]
             ends  == {f[k] : k \in pairs} \ {NoTime, Never}
  <1>1. procs \subseteq Processes
    BY DEF Predecessor, Processes, InsulationProcesses
  <1>2. procs \subseteq {Predecessor[Info[g].process], "assembly"}
    OBVIOUS
  <1>3. IsFiniteSet(procs)
    <2>1. IsFiniteSet({Predecessor[Info[g].process]}) /\ IsFiniteSet({"assembly"})
      BY FS_Singleton
    <2>2. IsFiniteSet({Predecessor[Info[g].process]} \cup {"assembly"})
      BY <2>1, FS_Union
    <2>3. procs \in SUBSET ({Predecessor[Info[g].process]} \cup {"assembly"})
      BY <1>2
    <2> HIDE DEF procs
    <2>4. QED
      BY <2>2, <2>3, FS_Subset
  <1> HIDE DEF procs
  <1>4. IsFiniteSet(pairs)
    BY <1>3, SectionsAre, FS_Product
  <1>5. pairs \subseteq Keys
    BY <1>1 DEF Keys
  <1>6. ends \subseteq Nat
    BY <1>5 DEF Typed
  <1>7. IsFiniteSet(ends)
    <2> HIDE DEF f, pairs
    <2>1. IsFiniteSet({f[k] : k \in pairs})
      BY <1>4, ImageIsFinite
    <2>2. ends \in SUBSET {f[k] : k \in pairs}
      OBVIOUS
    <2> HIDE DEF ends
    <2>3. QED
      BY <2>1, <2>2, FS_Subset
  <1>8. PredecessorEnd(g) = IF ends = {} THEN NoTime ELSE Max(ends)
    <2>1. {process_end_by_sq[k] : k \in procs \X Sections(g)} = {f[k] : k \in pairs}
      OBVIOUS
    <2>2. QED
      BY <2>1 DEF PredecessorEnd, procs
  <1> HIDE DEF ends
  <1>9. ends # {} => Max(ends) \in ends
    <2>1. ends \subseteq Int
      BY <1>6
    <2>2. QED
      BY <1>7, <2>1, MaxIsIn
  <1>10. QED
    BY <1>6, <1>8, <1>9

-----------------------------------------------------------------------------
(* Placing a group *)

(* A block is where it was looked for, or later.                           *)
LEMMA BlocksFromAre ==
    ASSUME Typed, NEW g \in Group, NEW code \in Codes, NEW duration \in Nat, NEW earliest \in Nat,
           NEW end \in Nat \cup {NoTime}
    PROVE  /\ BlocksFrom(g, code, duration, earliest, end) # {}
           /\ \A b \in BlocksFrom(g, code, duration, earliest, end) :
                 b.start \in Nat /\ b.end \in Nat /\ earliest <= b.start
  <1> DEFINE c     == MachineCat(code)
             slots == Timeline(code)
             at    == FindSlot(c, earliest, duration, slots)
             b     == Align(c, slots, at, EndOf(c, at, duration), duration, work[g], end)
  <1>1. BlocksFrom(g, code, duration, earliest, end) = {b}
    BY DEF BlocksFrom
  <1>2. c \in Categories /\ AreSlots(slots) /\ work[g] \in Nat
    BY CatIs, SlotsAre, DurationIs
  <1>3. at \in Nat /\ earliest <= at /\ Fits(c, at, duration, slots)
    <2> HIDE DEF c, slots
    <2>1. QED
      BY <1>2, FoundSlotFits
  <1>4. b.start \in Nat /\ b.end \in Nat /\ at <= b.start
    <2> HIDE DEF c, slots, at
    <2>1. CASE end = NoTime
      <3>1. b = [start |-> at, end |-> EndOf(c, at, duration)]
        BY <2>1 DEF Align
      <3>2. EndOf(c, at, duration) \in Nat
        BY <1>2, <1>3, EndOfIs
      <3>3. QED
        BY <1>3, <3>1, <3>2
    <2>2. CASE end \in Nat
      <3> HIDE DEF b
      <3>1. QED
        BY <1>2, <1>3, <2>2, AlignedFits DEF b
    <2>3. QED
      BY <2>1, <2>2
  <1> HIDE DEF b, at
  <1>5. QED
    BY <1>1, <1>3, <1>4

(* What a group may get: a task of its own that does not begin before some *)
(* time.                                                                   *)
TasksFor(g, earliest) ==
    {t \in TaskRows : t.group = g /\ ~t.kept /\ ~t.gone /\ earliest <= t.start}

LEMMA NewTaskIs ==
    ASSUME Typed, NEW g \in Group, NEW code \in Codes, NEW setup \in Nat, NEW drums \in Nat, NEW alone \in BOOLEAN,
           NEW block, block.start \in Nat, block.end \in Nat, NEW earliest \in Nat, earliest <= block.start
    PROVE  /\ NewTask(g, code, block, setup, drums, alone) \in TasksFor(g, earliest)
           /\ NewTask(g, code, block, setup, drums, alone).alone = alone
           /\ NewTask(g, code, block, setup, drums, alone).drums = drums
           /\ NewTask(g, code, block, setup, drums, alone).machine = code
  <1>1. MachineCat(code) \in Categories /\ RoundUp(block.end) \in Nat
    BY CatIs, RoundUpIs
  <1>2. setup + work[g] \in Nat
    BY DurationIs
  <1>3. EndOf(MachineCat(code), block.start, setup + work[g]) \in Nat
    BY <1>1, <1>2, EndOfIs
  <1>4. Orders(g)[1].order \in Lines /\ Orders(g)[1].due \in Int
    BY GroupIs
  <1>5. QED
    BY <1>1, <1>3, <1>4 DEF NewTask, TaskRows, TasksFor

LEMMA KeyIs ==
    ASSUME NEW g \in Group
    PROVE  <<Info[g].process, Info[g].sq>> \in Keys
  BY GroupIs, SectionsAre DEF Keys

(* The later of two ends and the earlier of two first drums.               *)
LEMMA PairsAre ==
    ASSUME NEW a \in Nat, NEW b \in Nat
    PROVE  /\ Max({a, b}) \in {a, b} /\ a <= Max({a, b}) /\ b <= Max({a, b})
           /\ Min({a, b}) \in {a, b} /\ Min({a, b}) <= a /\ Min({a, b}) <= b
  <1>1. IsFiniteSet({a} \cup {b})
    <2>1. IsFiniteSet({a}) /\ IsFiniteSet({b})
      BY FS_Singleton
    <2>2. QED
      BY <2>1, FS_Union
  <1>2. {a, b} = {a} \cup {b} /\ {a, b} \subseteq Int /\ {a, b} \subseteq Nat /\ {a, b} # {}
    OBVIOUS
  <1>3. Max({a, b}) \in {a, b} /\ \A y \in {a, b} : y <= Max({a, b})
    BY <1>1, <1>2, MaxIsIn
  <1>4. Min({a, b}) \in {a, b} /\ \A y \in {a, b} : Min({a, b}) <= y
    BY <1>2, MinIs
  <1>5. QED
    BY <1>3, <1>4

(* What a group leaves for those that come after it: its own first drum is *)
(* there, and no other entry changes.                                      *)
LEMMA RecordIs ==
    ASSUME Typed, NEW g \in Group, NEW given, IsFiniteSet(DOMAIN given), DOMAIN given # {},
           \A i \in DOMAIN given : given[i] \in TaskRows, Record(g, given)
    PROVE  /\ process_end_by_sq' \in [Keys -> Nat \cup {NoTime}]
           /\ process_first_output_by_sq' \in [Keys -> Nat \cup {NoTime}]
           /\ Info[g].core => process_first_output_by_sq' = process_first_output_by_sq
           /\ \A k \in Keys : k # <<Info[g].process, Info[g].sq>> =>
                 process_first_output_by_sq'[k] = process_first_output_by_sq[k]
           /\ ~Info[g].core =>
                 LET key == <<Info[g].process, Info[g].sq>>
                     new == process_first_output_by_sq'[key]
                     old == process_first_output_by_sq[key]
                 IN  /\ new # NoTime
                     /\ new = old \/ \E i \in DOMAIN given : new = given[i].first
  <1> DEFINE key   == <<Info[g].process, Info[g].sq>>
             ends  == {given[i].end : i \in DOMAIN given}
             firsts == {given[i].first : i \in DOMAIN given}
             e     == [i \in DOMAIN given |-> given[i].end]
             f     == [i \in DOMAIN given |-> given[i].first]
             end   == Max(ends)
             first == Min(firsts)
  <1>1. key \in Keys
    BY KeyIs
  <1>2. ends \subseteq Nat /\ firsts \subseteq Nat /\ ends # {} /\ firsts # {}
    BY DEF TaskRows
  <1>3. IsFiniteSet(ends)
    <2>1. IsFiniteSet({e[i] : i \in DOMAIN given})
      <3> HIDE DEF e
      <3>1. QED
        BY ImageIsFinite
    <2>2. {e[i] : i \in DOMAIN given} = ends
      OBVIOUS
    <2>3. QED
      BY <2>1, <2>2
  <1>4. end \in Nat /\ first \in firsts /\ first \in Nat
    <2> HIDE DEF ends, firsts
    <2>1. ends \subseteq Int
      BY <1>2
    <2>2. end \in ends
      BY <1>2, <1>3, <2>1, MaxIsIn
    <2>3. first \in firsts
      BY <1>2, MinIs
    <2>4. QED
      BY <1>2, <2>2, <2>3
  <1> DEFINE oldEnd   == process_end_by_sq[key]
             oldFirst == process_first_output_by_sq[key]
             newEnd   == IF oldEnd = NoTime THEN end ELSE Max({oldEnd, end})
             newFirst == IF oldFirst = NoTime THEN first ELSE Min({oldFirst, first})
  <1>5. process_end_by_sq' = [process_end_by_sq EXCEPT ![key] = newEnd]
    BY DEF Record
  <1>6. process_first_output_by_sq' = IF Info[g].core THEN process_first_output_by_sq
                                      ELSE [process_first_output_by_sq EXCEPT ![key] = newFirst]
    BY DEF Record
  <1>7. oldEnd \in Nat \cup {NoTime} /\ oldFirst \in Nat \cup {NoTime}
    BY <1>1 DEF Typed
  <1> HIDE DEF end, first, firsts, ends
  <1>8. newEnd \in Nat
    <2> HIDE DEF oldEnd
    <2>1. QED
      BY <1>4, <1>7, PairsAre
  <1>9. newFirst \in Nat /\ newFirst \in {oldFirst, first}
    <2> HIDE DEF oldFirst
    <2>1. QED
      BY <1>4, <1>7, PairsAre
  <1>10. NoTime \notin Nat
    BY PlacingAssumption
  <1> HIDE DEF newEnd, newFirst, key
  <1>11. process_end_by_sq' \in [Keys -> Nat \cup {NoTime}]
    BY <1>5, <1>8 DEF Typed
  <1>12. process_first_output_by_sq' \in [Keys -> Nat \cup {NoTime}]
    BY <1>6, <1>9 DEF Typed
  <1>13. \A k \in Keys : k # key => process_first_output_by_sq'[k] = process_first_output_by_sq[k]
    BY <1>6 DEF Typed
  <1>14. ~Info[g].core => process_first_output_by_sq'[key] = newFirst
    BY <1>1, <1>6 DEF Typed
  <1>15. \E i \in DOMAIN given : first = given[i].first
    BY <1>4 DEF firsts
  <1>16. ~Info[g].core => newFirst # NoTime /\ (newFirst = oldFirst \/ \E i \in DOMAIN given : newFirst = given[i].first)
    BY <1>9, <1>10, <1>15
  <1>17. QED
    BY <1>6, <1>11, <1>12, <1>13, <1>14, <1>16 DEF key

(* The machines of a group that is dealt out are as many as it may have.   *)
LEMMA SortedMachinesAre ==
    ASSUME Typed, NEW g \in Group, NEW ms, ms \subseteq DOMAIN Machines, NEW earliest \in Nat,
           NEW machines \in SortedMachines(g, ms, earliest)
    PROVE  \A k \in 1 .. Cardinality(ms) : machines[k] \in Codes
  <1> DEFINE Slot(i) == FindSlot(Machines[i].cat, earliest, work[g] + Info[g].setup, Timeline(Machines[i].code))
             slot  == [i \in ms |-> Slot(i)]
             key   == [i \in ms |-> <<slot[i], i>>]
             order == Sorted(ms, key)
  <1>1. IsFiniteSet(ms)
    BY FS_Subset, PlacingAssumption
  <1>2. ASSUME NEW i \in ms PROVE IsKey(key[i], 2)
    <2>1. Machines[i].cat \in Categories /\ i \in Int
      BY PlacingAssumption
    <2>2. work[g] + Info[g].setup \in Nat
      BY DurationIs, GroupIs
    <2>3. AreSlots(Timeline(Machines[i].code))
      BY SlotsAre
    <2>4. Slot(i) \in Nat
      BY <2>1, <2>2, <2>3, FoundSlotFits
    <2>5. key[i] = <<Slot(i), i>>
      OBVIOUS
    <2> HIDE DEF key, Slot
    <2>6. QED
      BY <2>1, <2>4, <2>5 DEF IsKey
  <1>3. order \in InOrder(ms, key)
    <2> HIDE DEF key
    <2>1. \A i \in ms : IsKey(key[i], 2)
      BY <1>2
    <2>2. QED
      BY <1>1, <2>1, SortedIs
  <1>4. machines = [k \in DOMAIN order |-> Machines[order[k]].code]
    BY DEF SortedMachines
  <1> HIDE DEF order
  <1>5. order \in Seq(ms) /\ Len(order) = Cardinality(ms)
    BY <1>3 DEF InOrder
  <1>6. ASSUME NEW k \in 1 .. Cardinality(ms) PROVE machines[k] \in Codes
    <2>1. k \in DOMAIN order /\ order[k] \in ms
      BY <1>5
    <2>2. machines[k] = Machines[order[k]].code
      BY <1>4, <2>1
    <2>3. QED
      BY <2>1, <2>2 DEF Codes
  <1>7. QED
    BY <1>6

LEMMA DrumsOnAre ==
    ASSUME NEW g \in Group, NEW n \in Nat \ {0}, NEW k \in Nat
    PROVE  DrumsOn(g, n, k) \in Nat
  <1>1. Info[g].drums \in Nat
    BY GroupIs
  <1>2. Info[g].drums \div n \in Nat
    BY <1>1
  <1>3. QED
    BY <1>2 DEF DrumsOn

(* A group that is dealt out gets tasks none of which begins too early.    *)
LEMMA SeveralAre ==
    ASSUME Typed, NEW g \in Group, NEW ms, ms \subseteq DOMAIN Machines, Multi(g, ms), NEW earliest \in Nat,
           PlaceOnSeveral(g, ms, earliest)
    PROVE  \E given \in Seq(TaskRows) :
              /\ given # <<>> /\ plan' = plan \o given /\ Record(g, given)
              /\ \A i \in DOMAIN given : given[i] \in TasksFor(g, earliest) /\ ~given[i].alone
  <1> DEFINE n == Cardinality(ms)
             m == Min({n, Info[g].drums})
  <1>1. n \in Nat /\ n >= 2 /\ Info[g].drums \in Nat /\ Info[g].drums >= 2
    <2>1. IsFiniteSet(ms)
      BY FS_Subset, PlacingAssumption
    <2>2. QED
      BY <2>1, FS_CardinalityType, GroupIs DEF Multi
  <1>2. m \in Nat /\ m >= 1 /\ m <= n
    <2> HIDE DEF n
    <2>1. QED
      BY <1>1, PairsAre
  <1>3. PICK machines \in SortedMachines(g, ms, earliest) :
           \E given \in {[k \in 1 .. m |-> CHOOSE t \in TasksOn(g, machines[k], DrumsOn(g, n, k), earliest) : TRUE]} :
              plan' = plan \o given /\ Record(g, given)
    BY DEF PlaceOnSeveral
  <1> DEFINE given == [k \in 1 .. m |-> CHOOSE t \in TasksOn(g, machines[k], DrumsOn(g, n, k), earliest) : TRUE]
  <1>4. plan' = plan \o given /\ Record(g, given)
    BY <1>3
  <1> HIDE DEF n, m
  <1>5. ASSUME NEW k \in 1 .. m PROVE given[k] \in TasksFor(g, earliest) /\ ~given[k].alone
    <2> DEFINE code  == machines[k]
               drums == DrumsOn(g, n, k)
               setup == Setup(g, code)
    <2>1. code \in Codes
      <3>1. k \in 1 .. n
        BY <1>1, <1>2
      <3>2. QED
        BY <3>1, SortedMachinesAre DEF n
    <2>2. drums \in Nat
      <3>1. k \in Nat /\ n \in Nat \ {0}
        BY <1>1, <1>2
      <3>2. QED
        BY <3>1, DrumsOnAre
    <2> HIDE DEF code, drums
    <2>3. setup \in Nat /\ PredecessorEnd(g) \in Nat \cup {NoTime}
      BY SetupIs, EndsBeforeAre
    <2> HIDE DEF setup
    <2> DEFINE size   == work[g] * drums + setup + Winding
               blocks == BlocksFrom(g, code, size, earliest, PredecessorEnd(g))
    <2>4. size \in Nat
      <3>1. work[g] \in Nat /\ Winding \in Nat
        BY DurationIs, PlacingAssumption
      <3>2. work[g] * drums \in Nat
        BY <2>2, <3>1
      <3>3. QED
        BY <2>3, <3>1, <3>2
    <2> HIDE DEF size
    <2>5. blocks # {} /\ \A b \in blocks : b.start \in Nat /\ b.end \in Nat /\ earliest <= b.start
      BY <2>1, <2>3, <2>4, BlocksFromAre
    <2>6. TasksOn(g, code, drums, earliest) = {NewTask(g, code, b, setup, drums, FALSE) : b \in blocks}
      BY DEF TasksOn, setup, size
    <2> HIDE DEF blocks
    <2>7. ASSUME NEW t \in TasksOn(g, code, drums, earliest) PROVE t \in TasksFor(g, earliest) /\ ~t.alone
      <3>1. PICK b \in blocks : t = NewTask(g, code, b, setup, drums, FALSE)
        BY <2>6
      <3>2. b.start \in Nat /\ b.end \in Nat /\ earliest <= b.start
        BY <2>5
      <3>3. QED
        BY <2>1, <2>2, <2>3, <3>1, <3>2, NewTaskIs
    <2>8. TasksOn(g, code, drums, earliest) # {}
      BY <2>5, <2>6
    <2>9. given[k] = CHOOSE t \in TasksOn(g, code, drums, earliest) : TRUE
      BY DEF code, drums
    <2>10. given[k] \in TasksOn(g, code, drums, earliest)
      BY <2>8, <2>9
    <2>11. QED
      BY <2>7, <2>10
  <1>6. given \in Seq(TaskRows) /\ given # <<>> /\ DOMAIN given = 1 .. m
    <2>1. DOMAIN given = 1 .. m
      OBVIOUS
    <2>2. \A k \in 1 .. m : given[k] \in TaskRows
      BY <1>5 DEF TasksFor
    <2>3. given = [k \in 1 .. m |-> given[k]]
      OBVIOUS
    <2> HIDE DEF given
    <2>4. given \in [1 .. m -> TaskRows]
      BY <2>1, <2>2, <2>3
    <2>5. given \in Seq(TaskRows)
      BY <1>2, <2>4
    <2>6. given # <<>>
      BY <1>2, <2>1
    <2>7. QED
      BY <2>1, <2>5, <2>6
  <1> HIDE DEF given
  <1>7. QED
    BY <1>4, <1>5, <1>6

LEMMA ColorEndsAre ==
    ASSUME Typed, NEW g \in Group
    PROVE  /\ IsFiniteSet(ColorEnds(g)) /\ ColorEnds(g) \subseteq Nat
           /\ \A j \in MadeAlone :
                 /\ Info[g].process = "assembly" /\ GroupAt(j).process \in InsulationProcesses
                 /\ GroupAt(j).sq = Info[g].sq /\ GroupAt(j).color \in Info[g].cores
                 => \E x \in ColorEnds(g) : plan[j].end <= x
  <1> DEFINE all == {plan[i].end : i \in DOMAIN plan}
             sq  == Info[g].sq
             One(c) == IF ColorEnd(sq, c) = {} THEN {} ELSE {Max(ColorEnd(sq, c))}
             At(c)  == {k \in MadeAlone : /\ GroupAt(k).process \in InsulationProcesses
                                          /\ GroupAt(k).sq = sq /\ GroupAt(k).color = c}
  <1>1. IsFiniteSet(all) /\ all \subseteq Nat
    BY TimesAre
  <1>2. ASSUME NEW c
        PROVE  /\ ColorEnd(sq, c) \subseteq all
               /\ ColorEnd(sq, c) # {} => /\ Max(ColorEnd(sq, c)) \in ColorEnd(sq, c)
                                          /\ \A x \in ColorEnd(sq, c) : x <= Max(ColorEnd(sq, c))
    <2>1. At(c) \subseteq DOMAIN plan
      BY DEF MadeAlone, Made
    <2>2. ColorEnd(sq, c) = {plan[i].end : i \in At(c)}
      BY DEF ColorEnd
    <2> HIDE DEF At
    <2>3. IsFiniteSet(ColorEnd(sq, c)) /\ ColorEnd(sq, c) \subseteq Nat
      BY <2>1, <2>2, TimesAre
    <2>4. ColorEnd(sq, c) \subseteq Int
      BY <2>3
    <2>5. ColorEnd(sq, c) \subseteq all
      BY <2>1, <2>2
    <2>6. QED
      BY <2>3, <2>4, <2>5, MaxIsIn
  <1>3. ColorEnds(g) = IF Info[g].process # "assembly" THEN {} ELSE UNION {One(c) : c \in Info[g].cores}
    BY DEF ColorEnds
  <1>4. \A c : One(c) \subseteq all
    BY <1>2
  <1>5. ColorEnds(g) \in SUBSET all
    <2> HIDE DEF One, all
    <2>1. QED
      BY <1>3, <1>4
  <1>6. IsFiniteSet(ColorEnds(g)) /\ ColorEnds(g) \subseteq Nat
    <2> HIDE DEF all
    <2>1. QED
      BY <1>1, <1>5, FS_Subset
  <1>7. ASSUME NEW j \in MadeAlone, Info[g].process = "assembly", GroupAt(j).process \in InsulationProcesses,
               GroupAt(j).sq = sq, GroupAt(j).color \in Info[g].cores
        PROVE  \E x \in ColorEnds(g) : plan[j].end <= x
    <2> DEFINE c == GroupAt(j).color
    <2>1. plan[j].end \in ColorEnd(sq, c)
      BY <1>7 DEF ColorEnd
    <2>2. Max(ColorEnd(sq, c)) \in One(c) /\ plan[j].end <= Max(ColorEnd(sq, c))
      BY <1>2, <2>1
    <2>3. Max(ColorEnd(sq, c)) \in ColorEnds(g)
      <3> HIDE DEF One
      <3>1. QED
        BY <1>3, <1>7, <2>2
    <2>4. QED
      BY <2>2, <2>3
  <1>8. QED
    BY <1>6, <1>7

LEMMA EarliestIs ==
    ASSUME Typed, NEW g \in Group, NEW multi \in BOOLEAN
    PROVE  /\ Earliest(g, multi) \in Nat
           /\ EarliestAfter(g, multi, DOMAIN plan) <= Earliest(g, multi)
           /\ ~multi => \A x \in ColorEnds(g) : x <= Earliest(g, multi)
  <1> DEFINE after == EarliestAfter(g, multi, DOMAIN plan)
             ends  == IF multi THEN {} ELSE ColorEnds(g)
  <1>1. after \in Nat
    BY EarliestAfterIs
  <1>2. IsFiniteSet(ends) /\ ends \subseteq Nat
    BY ColorEndsAre, FS_EmptySet
  <1>3. IsFiniteSet({after}) /\ {after} # {} /\ {after} \subseteq Nat
    BY <1>1, FS_Singleton
  <1>4. Earliest(g, multi) = Max({after} \cup ends)
    BY DEF Earliest
  <1> HIDE DEF after
  <1>5. Earliest(g, multi) \in Nat /\ \A x \in {after} \cup ends : x <= Earliest(g, multi)
    <2> HIDE DEF ends
    <2>1. QED
      BY <1>2, <1>3, <1>4, MaxOfBoth
  <1>6. QED
    BY <1>5 DEF after

(* The machines that are chosen are machines.                              *)
LEMMA ChoiceIs ==
    ASSUME NEW g, NEW mapped
    PROVE  Choice(g, mapped) \subseteq DOMAIN Machines
  <1>1. Eligible(g) \subseteq DOMAIN Machines
    <2>1. Candidates(g) \subseteq DOMAIN Machines
      BY DEF Candidates, FilterBySheathRouting, Narrow
    <2>2. QED
      BY <2>1 DEF Eligible
  <1>2. NarrowByStranding(g, Eligible(g)) \subseteq DOMAIN Machines
    BY <1>1 DEF NarrowByStranding, Narrow
  <1>3. ASSUME NEW ms, ms \subseteq DOMAIN Machines PROVE PreferMapped(g, ms, mapped) \subseteq DOMAIN Machines
    BY <1>3 DEF PreferMapped, Narrow
  <1>4. Narrow(Eligible(g), LAMBDA m : m.code = "TP-2") \subseteq DOMAIN Machines
    BY <1>1 DEF Narrow
  <1>5. QED
    BY <1>1, <1>2, <1>3, <1>4 DEF Choice

LEMMA BestIs ==
    ASSUME Typed, NEW g \in Group, NEW ms, ms \subseteq DOMAIN Machines, ms # {}, NEW earliest \in Nat
    PROVE  Best(g, ms, earliest) \in Codes
  <1> DEFINE starts == [i \in ms |-> StartOn(g, Machines[i].code, earliest)]
             firsts == {i \in ms : \A j \in ms : starts[i] <= starts[j]}
  <1>1. IsFiniteSet(ms)
    BY FS_Subset, PlacingAssumption
  <1>2. ASSUME NEW i \in ms PROVE StartOn(g, Machines[i].code, earliest) \in Nat
    <2> DEFINE code == Machines[i].code
    <2>1. code \in Codes
      BY DEF Codes
    <2> HIDE DEF code
    <2>2. MachineCat(code) \in Categories /\ EarliestOn(g, code, earliest) \in Nat /\ Duration(g, code) \in Nat
          /\ AreSlots(Timeline(code))
      BY <2>1, CatIs, EarliestOnIs, DurationIs, SlotsAre
    <2>3. StartOn(g, code, earliest) \in Nat
      BY <2>2, FoundSlotFits DEF StartOn
    <2>4. QED
      BY <2>3 DEF code
  <1>3. starts \in [ms -> Int]
    BY <1>2
  <1>4. firsts # {}
    <2> HIDE DEF starts
    <2>1. QED
      BY <1>1, <1>3, BestNumber
  <1>5. firsts \subseteq Int /\ firsts \subseteq Nat
    BY PlacingAssumption
  <1>6. Min(firsts) \in firsts
    <2> HIDE DEF firsts
    <2>1. QED
      BY <1>4, <1>5, MinIs
  <1>7. Machines[Min(firsts)].code \in Codes
    BY <1>6 DEF Codes
  <1>8. Best(g, ms, earliest) = Machines[Min(firsts)].code
    BY DEF Best
  <1>9. QED
    BY <1>7, <1>8

(* A group that has a machine to itself gets a task that does not begin    *)
(* too early.                                                              *)
LEMMA AloneIs ==
    ASSUME Typed, NEW g \in Group, NEW ms, ms \subseteq DOMAIN Machines, ms # {}, NEW earliest \in Nat,
           PlaceAlone(g, ms, earliest)
    PROVE  \E given \in Seq(TaskRows) :
              /\ given # <<>> /\ plan' = plan \o given /\ Record(g, given)
              /\ \A i \in DOMAIN given : given[i] \in TasksFor(g, earliest)
  <1> DEFINE code     == Best(g, ms, earliest)
             duration == Duration(g, code)
             from     == EarliestOn(g, code, earliest)
             end      == PredecessorEnd(g)
  <1>1. PICK block \in BlocksFrom(g, code, duration, from, end) :
           \E task \in {NewTask(g, code, block, Info[g].setup, Info[g].drums, TRUE)} :
              plan' = Append(plan, task) /\ Record(g, <<task>>)
    BY DEF PlaceAlone
  <1>2. code \in Codes
    BY BestIs
  <1> HIDE DEF code
  <1>3. duration \in Nat /\ from \in Nat /\ earliest <= from /\ end \in Nat \cup {NoTime}
    BY DurationIs, EarliestOnIs, EndsBeforeAre
  <1> HIDE DEF duration, from, end
  <1>4. block.start \in Nat /\ block.end \in Nat /\ from <= block.start
    BY <1>2, <1>3, BlocksFromAre
  <1>5. earliest <= block.start
    BY <1>3, <1>4
  <1> DEFINE task == NewTask(g, code, block, Info[g].setup, Info[g].drums, TRUE)
  <1>6. task \in TasksFor(g, earliest)
    BY <1>2, <1>4, <1>5, GroupIs, NewTaskIs
  <1>7. plan' = Append(plan, task) /\ Record(g, <<task>>)
    BY <1>1
  <1> HIDE DEF task
  <1>8. task \in TaskRows /\ plan \in Seq(TaskRows)
    BY <1>6 DEF TasksFor, Typed
  <1>9. plan' = plan \o <<task>> /\ <<task>> \in Seq(TaskRows) /\ <<task>> # <<>>
    BY <1>7, <1>8
  <1>10. \A i \in DOMAIN <<task>> : <<task>>[i] \in TasksFor(g, earliest)
    BY <1>6
  <1>11. QED
    BY <1>7, <1>9, <1>10

(* A group that several machines share is no assembly.                     *)
LEMMA AssignedIs ==
    ASSUME Typed, AssignGroup
    PROVE  /\ todo # <<>> /\ Head(todo) \in Group /\ todo' = Tail(todo)
           /\ base' = base /\ work' = work /\ status' = status
           /\ \/ Skip(Head(todo))
              \/ \E given \in Seq(TaskRows), multi \in BOOLEAN :
                    /\ given # <<>> /\ plan' = plan \o given /\ Record(Head(todo), given)
                    /\ \A i \in DOMAIN given : given[i] \in TasksFor(Head(todo), Earliest(Head(todo), multi))
                    /\ multi => Info[Head(todo)].process # "assembly"
  <1> DEFINE g  == Head(todo)
             ms == Choice(Info[g], SqToEquip)
  <1>1. todo # <<>> /\ todo' = Tail(todo) /\ base' = base /\ work' = work /\ status' = status
    BY DEF AssignGroup
  <1>2. g \in Group
    BY <1>1 DEF Typed
  <1>3. \/ ms = {} /\ Skip(g)
        \/ ms # {} /\ \E multi \in {Multi(g, ms)} : \E earliest \in {Earliest(g, multi)} :
              \/ ~multi /\ PlaceAlone(g, ms, earliest)
              \/ multi /\ PlaceOnSeveral(g, ms, earliest)
    BY DEF AssignGroup
  <1>4. ms \subseteq DOMAIN Machines
    BY ChoiceIs
  <1>5. Multi(g, ms) \in BOOLEAN
    BY DEF Multi
  <1>6. Multi(g, ms) => Info[g].process # "assembly"
    BY DEF Multi
  <1> HIDE DEF g, ms
  <1>7. CASE ms # {} /\ ~Multi(g, ms) /\ PlaceAlone(g, ms, Earliest(g, Multi(g, ms)))
    <2>1. Multi(g, ms) = FALSE
      BY <1>5, <1>7
    <2>2. Earliest(g, FALSE) \in Nat
      BY <1>2, EarliestIs
    <2>3. PlaceAlone(g, ms, Earliest(g, FALSE))
      BY <1>7, <2>1
    <2>4. \E given \in Seq(TaskRows) :
              /\ given # <<>> /\ plan' = plan \o given /\ Record(g, given)
              /\ \A i \in DOMAIN given : given[i] \in TasksFor(g, Earliest(g, FALSE))
      BY <1>2, <1>4, <1>7, <2>2, <2>3, AloneIs
    <2>5. QED
      BY <1>1, <1>2, <2>4 DEF g
  <1>8. CASE Multi(g, ms) /\ PlaceOnSeveral(g, ms, Earliest(g, Multi(g, ms)))
    <2>1. Multi(g, ms) = TRUE
      BY <1>5, <1>8
    <2>2. Earliest(g, TRUE) \in Nat
      BY <1>2, EarliestIs
    <2>3. PlaceOnSeveral(g, ms, Earliest(g, TRUE))
      BY <1>8, <2>1
    <2>4. \E given \in Seq(TaskRows) :
              /\ given # <<>> /\ plan' = plan \o given /\ Record(g, given)
              /\ \A i \in DOMAIN given : given[i] \in TasksFor(g, Earliest(g, TRUE))
      BY <1>2, <1>4, <1>8, <2>2, <2>3, SeveralAre
    <2>5. QED
      BY <1>1, <1>2, <1>6, <1>8, <2>4 DEF g
  <1>9. CASE Skip(g)
    BY <1>1, <1>2, <1>9 DEF g
  <1>10. QED
    BY <1>3, <1>7, <1>8, <1>9

(* What the plan looks like when tasks have been appended to it.           *)
LEMMA Appended ==
    ASSUME Typed, NEW given \in Seq(TaskRows), plan' = plan \o given
    PROVE  /\ plan' \in Seq(TaskRows) /\ DOMAIN plan \subseteq DOMAIN plan'
           /\ \A i \in DOMAIN plan : plan'[i] = plan[i]
           /\ \A i \in DOMAIN plan' : i \in DOMAIN plan \/ \E k \in DOMAIN given : plan'[i] = given[k]
           /\ \A k \in DOMAIN given : \E i \in DOMAIN plan' \ DOMAIN plan : plan'[i] = given[k]
  <1>1. plan \in Seq(TaskRows) /\ DOMAIN plan = 1 .. Len(plan) /\ Len(plan) \in Nat
    BY TasksAre DEF Typed
  <1>2. DOMAIN given = 1 .. Len(given) /\ Len(given) \in Nat
    OBVIOUS
  <1>3. plan' \in Seq(TaskRows) /\ Len(plan') = Len(plan) + Len(given)
    BY <1>1
  <1>4. DOMAIN plan' = 1 .. Len(plan) + Len(given)
    BY <1>3
  <1>5. \A i \in 1 .. Len(plan) : plan'[i] = plan[i]
    BY <1>1, <1>2
  <1>6. \A i \in 1 .. Len(plan) + Len(given) : i > Len(plan) => plan'[i] = given[i - Len(plan)]
    BY <1>1, <1>2
  <1>7. ASSUME NEW i \in DOMAIN plan', i \notin DOMAIN plan PROVE \E k \in DOMAIN given : plan'[i] = given[k]
    <2>1. i - Len(plan) \in DOMAIN given /\ i > Len(plan)
      BY <1>1, <1>2, <1>4, <1>7
    <2>2. QED
      BY <1>4, <1>6, <2>1
  <1>8. ASSUME NEW k \in DOMAIN given PROVE \E i \in DOMAIN plan' \ DOMAIN plan : plan'[i] = given[k]
    <2>1. Len(plan) + k \in DOMAIN plan' \ DOMAIN plan /\ Len(plan) + k > Len(plan) /\ (Len(plan) + k) - Len(plan) = k
      BY <1>1, <1>2, <1>4
    <2>2. plan'[Len(plan) + k] = given[k]
      BY <1>4, <1>6, <2>1
    <2>3. QED
      BY <2>1, <2>2
  <1>9. QED
    BY <1>1, <1>3, <1>4, <1>5, <1>7, <1>8

(* What is left to do, when its first group is taken from it.              *)
LEMMA Taken ==
    ASSUME NEW s \in Seq(Group), s # <<>>
    PROVE  /\ Head(s) = s[1] /\ 1 \in DOMAIN s /\ Tail(s) \in Seq(Group)
           /\ \A i \in DOMAIN Tail(s) : i + 1 \in DOMAIN s /\ Tail(s)[i] = s[i + 1] /\ 1 < i + 1 /\ i \in Nat
           /\ \A i \in DOMAIN s : i = 1 \/ (i - 1 \in DOMAIN Tail(s) /\ Tail(s)[i - 1] = s[i])
  <1>1. Len(s) \in Nat /\ Len(s) > 0 /\ DOMAIN s = 1 .. Len(s)
    OBVIOUS
  <1>2. Tail(s) \in Seq(Group) /\ Len(Tail(s)) = Len(s) - 1 /\ \A i \in 1 .. Len(s) - 1 : Tail(s)[i] = s[i + 1]
    OBVIOUS
  <1>3. DOMAIN Tail(s) = 1 .. Len(s) - 1
    BY <1>1, <1>2
  <1>4. Head(s) = s[1]
    OBVIOUS
  <1>5. \A i \in DOMAIN s : i = 1 \/ (i - 1 \in DOMAIN Tail(s) /\ Tail(s)[i - 1] = s[i])
    BY <1>1, <1>2, <1>3
  <1>6. QED
    BY <1>1, <1>2, <1>3, <1>4, <1>5

LEMMA SkipIs ==
    ASSUME Typed, NEW g \in Group, Skip(g)
    PROVE  /\ plan' = plan
           /\ process_end_by_sq' \in [Keys -> Nat \cup {NoTime}]
           /\ process_first_output_by_sq' \in [Keys -> Nat \cup {NoTime}]
           /\ \A k \in Keys : k # <<Info[g].process, Info[g].sq>> =>
                 process_first_output_by_sq'[k] = process_first_output_by_sq[k]
  <1> DEFINE key == <<Info[g].process, Info[g].sq>>
  <1>1. key \in Keys /\ Never \in Nat
    BY KeyIs, PlacingAssumption
  <1>2. /\ process_end_by_sq' = [process_end_by_sq EXCEPT ![key] = Never]
        /\ process_first_output_by_sq' = [process_first_output_by_sq EXCEPT ![key] = Never]
        /\ plan' = plan
    BY DEF Skip
  <1> HIDE DEF key
  <1>3. process_end_by_sq' \in [Keys -> Nat \cup {NoTime}]
    BY <1>1, <1>2 DEF Typed
  <1>4. process_first_output_by_sq' \in [Keys -> Nat \cup {NoTime}]
    BY <1>1, <1>2 DEF Typed
  <1>5. \A k \in Keys : k # key => process_first_output_by_sq'[k] = process_first_output_by_sq[k]
    BY <1>2 DEF Typed
  <1>6. QED
    BY <1>2, <1>3, <1>4, <1>5 DEF key

LEMMA StaysTyped ==
    ASSUME Typed, AssignGroup
    PROVE  Typed'
  <1> DEFINE g == Head(todo)
  <1>1. todo # <<>> /\ g \in Group /\ todo' = Tail(todo) /\ base' = base /\ work' = work
    BY AssignedIs
  <1>2. todo \in Seq(Group)
    BY DEF Typed
  <1>3. todo' \in Seq(Group)
    BY <1>1, <1>2, Taken
  <1>4. base' \in Nat /\ work' \in [Group -> Nat]
    BY <1>1 DEF Typed
  <1>5. Keys' = Keys
    BY DEF Keys, Sections
  <1>6. /\ plan' \in Seq(TaskRows)
        /\ process_end_by_sq' \in [Keys -> Nat \cup {NoTime}]
        /\ process_first_output_by_sq' \in [Keys -> Nat \cup {NoTime}]
    <2> HIDE DEF g
    <2>1. CASE Skip(g)
      <3>1. plan \in Seq(TaskRows)
        BY DEF Typed
      <3>2. QED
        BY <1>1, <2>1, <3>1, SkipIs
    <2>2. ASSUME NEW given \in Seq(TaskRows), given # <<>>, plan' = plan \o given, Record(g, given)
          PROVE  /\ plan' \in Seq(TaskRows)
                 /\ process_end_by_sq' \in [Keys -> Nat \cup {NoTime}]
                 /\ process_first_output_by_sq' \in [Keys -> Nat \cup {NoTime}]
      <3>1. DOMAIN given = 1 .. Len(given) /\ Len(given) \in Nat /\ \A i \in DOMAIN given : given[i] \in TaskRows
        OBVIOUS
      <3>2. IsFiniteSet(DOMAIN given) /\ DOMAIN given # {}
        <4>1. Len(given) > 0
          BY <2>2
        <4>2. IsFiniteSet(1 .. Len(given)) /\ 1 \in DOMAIN given
          BY <3>1, <4>1, FS_Interval
        <4>3. QED
          BY <3>1, <4>2
      <3>3. plan' \in Seq(TaskRows)
        BY <2>2, Appended
      <3>4. QED
        BY <1>1, <2>2, <3>1, <3>2, <3>3, RecordIs
    <2>3. QED
      BY <2>1, <2>2, AssignedIs DEF g
  <1>7. QED
    BY <1>3, <1>4, <1>5, <1>6 DEF Typed

-----------------------------------------------------------------------------
(* The invariant of a run *)

(* The groups that are left come after those that precede them, and so do  *)
(* those that this run has placed; none has a task yet.                    *)
InTurn ==
    /\ \A i, j \in DOMAIN todo : i < j => ~Precedes(todo[j], todo[i])
    /\ \A i, j \in DOMAIN todo : i # j => todo[i] # todo[j]
    /\ \A i \in DOMAIN plan, j \in DOMAIN todo : plan[i].group # todo[j]
    /\ \A i \in Made, j \in DOMAIN todo : ~Precedes(todo[j], plan[i].group)

LEMMA StaysInTurn ==
    ASSUME Typed, InTurn, AssignGroup
    PROVE  InTurn'
  <1> DEFINE g == Head(todo)
  <1>1. todo # <<>> /\ g \in Group /\ todo' = Tail(todo)
    BY AssignedIs
  <1>2. todo \in Seq(Group) /\ plan \in Seq(TaskRows)
    BY DEF Typed
  <1>3. /\ g = todo[1] /\ 1 \in DOMAIN todo
        /\ \A i \in DOMAIN todo' : i + 1 \in DOMAIN todo /\ todo'[i] = todo[i + 1] /\ 1 < i + 1 /\ i \in Nat
    BY <1>1, <1>2, Taken
  <1>4. \A i \in DOMAIN plan' : \/ i \in DOMAIN plan /\ plan'[i] = plan[i]
                                \/ plan'[i].group = g
    <2> HIDE DEF g
    <2>1. CASE Skip(g)
      BY <1>1, <2>1, SkipIs
    <2>2. ASSUME NEW given \in Seq(TaskRows), plan' = plan \o given, NEW e, \A i \in DOMAIN given : given[i] \in TasksFor(g, e)
          PROVE  \A i \in DOMAIN plan' : \/ i \in DOMAIN plan /\ plan'[i] = plan[i]
                                         \/ plan'[i].group = g
      <3>1. \A k \in DOMAIN given : given[k].group = g
        BY <2>2 DEF TasksFor
      <3>2. QED
        BY <2>2, <3>1, Appended
    <2>3. QED
      BY <2>1, <2>2, AssignedIs DEF g
  <1> HIDE DEF g
  <1>5. \A i, j \in DOMAIN todo' : i < j => ~Precedes(todo'[j], todo'[i])
    BY <1>3 DEF InTurn
  <1>6. \A i, j \in DOMAIN todo' : i # j => todo'[i] # todo'[j]
    BY <1>3 DEF InTurn
  <1>7. \A j \in DOMAIN todo' : g # todo'[j] /\ ~Precedes(todo'[j], g)
    BY <1>3 DEF InTurn
  <1>8. \A i \in DOMAIN plan', j \in DOMAIN todo' : plan'[i].group # todo'[j]
    BY <1>3, <1>4, <1>7 DEF InTurn
  <1>9. \A i \in DOMAIN plan', j \in DOMAIN todo' : ~plan'[i].kept => ~Precedes(todo'[j], plan'[i].group)
    BY <1>3, <1>4, <1>7 DEF InTurn, Made
  <1>10. \A a, b : Precedes(a, b)' <=> Precedes(a, b)
    BY DEF Precedes
  <1>11. \A i \in Made' : i \in DOMAIN plan' /\ ~plan'[i].kept
    BY DEF Made
  <1>12. QED
    BY <1>5, <1>6, <1>8, <1>9, <1>11 DEF InTurn, Precedes

(* A new task comes in turn: no task of this run is of a group that its    *)
(* group precedes.                                                         *)
LEMMA NothingOvertakes ==
    ASSUME Typed, InTurn, AssignGroup, NEW i \in Made
    PROVE  ~Precedes(Head(todo), plan[i].group)
  <1>1. todo # <<>> /\ todo \in Seq(Group)
    BY AssignedIs DEF Typed
  <1>2. Head(todo) = todo[1] /\ 1 \in DOMAIN todo
    BY <1>1, Taken
  <1>3. QED
    BY <1>2 DEF InTurn

CoresWait ==
    \A i, j \in DOMAIN plan : IsCoreOf(j, i) /\ plan[j].alone /\ ~plan[j].kept => plan[i].start >= plan[j].end

(* What there is after a step: the tasks that were there, and tasks of the *)
(* group whose turn it is, none of which begins too early.                 *)
Grown(g, multi) ==
    /\ DOMAIN plan \subseteq DOMAIN plan'
    /\ \A i \in DOMAIN plan : plan'[i] = plan[i]
    /\ \A i \in DOMAIN plan' \ DOMAIN plan : plan'[i] \in TasksFor(g, Earliest(g, multi))

LEMMA StepGrows ==
    ASSUME Typed, AssignGroup
    PROVE  \E multi \in BOOLEAN : Grown(Head(todo), multi) /\ (multi => Info[Head(todo)].process # "assembly")
  <1> DEFINE g == Head(todo)
  <1>1. g \in Group
    BY AssignedIs
  <1> HIDE DEF g
  <1>2. CASE Skip(g)
    <2>1. plan' = plan
      BY <1>1, <1>2, SkipIs
    <2>2. Grown(g, FALSE)
      BY <2>1 DEF Grown
    <2>3. QED
      BY <2>2 DEF g
  <1>3. ASSUME NEW given \in Seq(TaskRows), NEW multi \in BOOLEAN, plan' = plan \o given,
               \A i \in DOMAIN given : given[i] \in TasksFor(g, Earliest(g, multi))
        PROVE  Grown(g, multi)
    <2>1. DOMAIN plan \subseteq DOMAIN plan' /\ \A i \in DOMAIN plan : plan'[i] = plan[i]
      BY <1>3, Appended
    <2>2. \A i \in DOMAIN plan' : i \in DOMAIN plan \/ \E k \in DOMAIN given : plan'[i] = given[k]
      BY <1>3, Appended
    <2>3. QED
      BY <1>3, <2>1, <2>2 DEF Grown
  <1>4. QED
    BY <1>2, <1>3, AssignedIs DEF g

(* Cores come before an assembly that their colours belong to.             *)
LEMMA CoresPrecede ==
    ASSUME NEW g \in Group, NEW h \in Group, Info[g].process = "assembly", Info[h].process \in InsulationProcesses
    PROVE  Precedes(h, g)
  <1>1. ~Info[g].core /\ ~Info[g].st
    BY GroupIs
  <1>2. ProcessOrder("assembly") = 3 /\ ProcessOrder(Info[h].process) = 2
    BY DEF ProcessOrder, Sheathing, InsulationProcesses
  <1>3. QED
    BY <1>1, <1>2 DEF Precedes

LEMMA CoresStillWait ==
    ASSUME Typed, InTurn, CoresWait, AssignGroup
    PROVE  CoresWait'
  <1> DEFINE g == Head(todo)
  <1>1. g \in Group
    BY AssignedIs
  <1>2. PICK multi \in BOOLEAN : Grown(g, multi) /\ (multi => Info[g].process # "assembly")
    BY StepGrows
  <1>3. Typed'
    BY StaysTyped
  <1>4. \A i \in Made : ~Precedes(g, plan[i].group)
    BY NothingOvertakes
  <1> HIDE DEF g
  <1>5. SUFFICES ASSUME NEW i \in DOMAIN plan', NEW j \in DOMAIN plan', IsCoreOf(j, i)', plan'[j].alone, ~plan'[j].kept
                 PROVE  plan'[i].start >= plan'[j].end
    BY DEF CoresWait
  <1>6. /\ Info[plan'[i].group].process = "assembly" /\ ~plan'[i].kept
        /\ Info[plan'[j].group].process \in InsulationProcesses
        /\ Info[plan'[j].group].sq = Info[plan'[i].group].sq
        /\ Info[plan'[j].group].color \in Info[plan'[i].group].cores
    BY <1>5 DEF IsCoreOf, GroupAt
  <1>7. CASE i \in DOMAIN plan /\ j \in DOMAIN plan
    <2>1. plan'[i] = plan[i] /\ plan'[j] = plan[j]
      BY <1>2, <1>7 DEF Grown
    <2>2. IsCoreOf(j, i)
      BY <1>6, <2>1 DEF IsCoreOf, GroupAt
    <2>3. QED
      BY <1>5, <1>7, <2>1, <2>2 DEF CoresWait
  <1>8. CASE i \notin DOMAIN plan /\ j \in DOMAIN plan
    <2>1. plan'[i] \in TasksFor(g, Earliest(g, multi)) /\ plan'[j] = plan[j]
      BY <1>2, <1>8 DEF Grown
    <2>2. plan'[i].group = g /\ Earliest(g, multi) <= plan'[i].start /\ plan'[i].start \in Nat
      BY <2>1 DEF TasksFor, TaskRows
    <2>3. j \in MadeAlone
      BY <1>5, <1>8, <2>1 DEF MadeAlone, Made
    <2>4. ~multi
      BY <1>2, <1>6, <2>2
    <2>5. PICK x \in ColorEnds(g) : plan[j].end <= x
      BY <1>1, <1>6, <2>1, <2>2, <2>3, ColorEndsAre DEF GroupAt
    <2>6. x \in Nat /\ x <= Earliest(g, multi) /\ Earliest(g, multi) \in Nat
      BY <1>1, <2>4, ColorEndsAre, EarliestIs
    <2>7. plan[j].end \in Nat
      BY <1>8, TasksAre
    <2>8. QED
      BY <2>1, <2>2, <2>5, <2>6, <2>7
  <1>9. CASE j \notin DOMAIN plan
    <2>1. plan'[j].group = g
      BY <1>2, <1>9 DEF Grown, TasksFor
    <2>2. i \in DOMAIN plan
      <3>1. i \notin DOMAIN plan => plan'[i].group = g
        BY <1>2 DEF Grown, TasksFor
      <3>2. QED
        BY <1>6, <2>1, <3>1 DEF InsulationProcesses
    <2>3. plan'[i] = plan[i] /\ i \in Made
      BY <1>2, <1>6, <2>2 DEF Grown, Made
    <2>4. plan[i].group \in Group
      BY <2>2, TasksAre
    <2>5. Precedes(g, plan[i].group)
      BY <1>1, <1>6, <2>1, <2>3, <2>4, CoresPrecede
    <2>6. QED
      BY <1>4, <2>3, <2>5
  <1>10. QED
    BY <1>7, <1>8, <1>9

(* The first drums of a section that are known are those of tasks, where   *)
(* no group had to be left without a machine.                              *)
SectionKey(g)   == <<Info[g].process, Info[g].sq>>
TasksOf(k) == {i \in DOMAIN plan : ~GroupAt(i).core /\ SectionKey(plan[i].group) = k}

FirstsAreKnown ==
    \A k \in Keys : (\A g \in Unplaced : SectionKey(g) # k) =>
       /\ TasksOf(k) # {} => process_first_output_by_sq[k] # NoTime
       /\ process_first_output_by_sq[k] # NoTime =>
             \E i \in TasksOf(k) : process_first_output_by_sq[k] = plan[i].first

(* A group that got no machine gets none later, and one whose turn it is   *)
(* and that has no task afterwards is one.                                 *)
LEMMA UnplacedStays ==
    ASSUME Typed, InTurn, AssignGroup
    PROVE  Unplaced \subseteq Unplaced'
  <1> DEFINE g == Head(todo)
  <1>1. todo # <<>> /\ todo \in Seq(Group) /\ todo' = Tail(todo)
    BY AssignedIs DEF Typed
  <1>2. /\ g = todo[1] /\ 1 \in DOMAIN todo
        /\ \A i \in DOMAIN todo' : i + 1 \in DOMAIN todo /\ todo'[i] = todo[i + 1]
    BY <1>1, Taken
  <1>3. PICK multi \in BOOLEAN : Grown(g, multi)
    BY StepGrows
  <1> HIDE DEF g
  <1>4. \A i \in DOMAIN plan' : plan'[i].group = g \/ (i \in DOMAIN plan /\ plan'[i] = plan[i])
    BY <1>3 DEF Grown, TasksFor
  <1>5. ASSUME NEW h \in Unplaced PROVE h \in Unplaced'
    <2>1. h \in Group /\ ~(\E i \in DOMAIN todo : todo[i] = h) /\ ~(\E i \in DOMAIN plan : plan[i].group = h)
      BY DEF Unplaced
    <2>2. h # g /\ ~(\E i \in DOMAIN todo' : todo'[i] = h)
      BY <1>2, <2>1
    <2>3. ~(\E i \in DOMAIN plan' : plan'[i].group = h)
      BY <1>4, <2>1, <2>2
    <2>4. QED
      BY <2>1, <2>2, <2>3 DEF Unplaced
  <1>6. QED
    BY <1>5

LEMMA SkippedIsUnplaced ==
    ASSUME Typed, InTurn, AssignGroup, Skip(Head(todo))
    PROVE  Head(todo) \in Unplaced'
  <1> DEFINE g == Head(todo)
  <1>1. todo # <<>> /\ todo \in Seq(Group) /\ todo' = Tail(todo) /\ g \in Group
    BY AssignedIs DEF Typed
  <1>2. /\ g = todo[1] /\ 1 \in DOMAIN todo
        /\ \A i \in DOMAIN todo' : i + 1 \in DOMAIN todo /\ todo'[i] = todo[i + 1] /\ 1 < i + 1 /\ i \in Nat
    BY <1>1, Taken
  <1>3. plan' = plan
    BY <1>1, SkipIs
  <1> HIDE DEF g
  <1>4. ~(\E i \in DOMAIN todo' : todo'[i] = g)
    BY <1>2 DEF InTurn
  <1>5. ~(\E i \in DOMAIN plan' : plan'[i].group = g)
    BY <1>2, <1>3 DEF InTurn
  <1>6. QED
    BY <1>1, <1>4, <1>5 DEF Unplaced, g

LEMMA FirstsStayKnown ==
    ASSUME Typed, InTurn, FirstsAreKnown, AssignGroup
    PROVE  FirstsAreKnown'
  <1> DEFINE g   == Head(todo)
             key == <<Info[g].process, Info[g].sq>>
  <1>1. g \in Group /\ key \in Keys
    BY AssignedIs, KeyIs
  <1>2. Keys' = Keys
    BY DEF Keys, Sections
  <1>3. Unplaced \subseteq Unplaced'
    BY UnplacedStays
  <1>4. SUFFICES ASSUME NEW k \in Keys, \A h \in Unplaced' : SectionKey(h) # k
                 PROVE  /\ TasksOf(k)' # {} => process_first_output_by_sq'[k] # NoTime
                        /\ process_first_output_by_sq'[k] # NoTime =>
                              \E i \in TasksOf(k)' : process_first_output_by_sq'[k] = plan'[i].first
    BY <1>2 DEF FirstsAreKnown, SectionKey
  <1>5. /\ TasksOf(k) # {} => process_first_output_by_sq[k] # NoTime
        /\ process_first_output_by_sq[k] # NoTime =>
              \E i \in TasksOf(k) : process_first_output_by_sq[k] = plan[i].first
    BY <1>3, <1>4 DEF FirstsAreKnown
  <1>6. ASSUME Skip(g)
        PROVE  /\ TasksOf(k)' # {} => process_first_output_by_sq'[k] # NoTime
               /\ process_first_output_by_sq'[k] # NoTime =>
                     \E i \in TasksOf(k)' : process_first_output_by_sq'[k] = plan'[i].first
    <2>1. g \in Unplaced'
      BY <1>6, SkippedIsUnplaced
    <2>2. k # key
      BY <1>4, <2>1 DEF SectionKey
    <2> HIDE DEF g, key
    <2>3. plan' = plan /\ process_first_output_by_sq'[k] = process_first_output_by_sq[k]
      BY <1>1, <1>6, <2>2, SkipIs DEF key
    <2>4. TasksOf(k)' = TasksOf(k)
      BY <2>3 DEF TasksOf, GroupAt, SectionKey
    <2>5. QED
      BY <1>5, <2>3, <2>4
  <1>7. ASSUME NEW given \in Seq(TaskRows), given # <<>>, plan' = plan \o given, Record(g, given),
               NEW e, \A i \in DOMAIN given : given[i] \in TasksFor(g, e)
        PROVE  /\ TasksOf(k)' # {} => process_first_output_by_sq'[k] # NoTime
               /\ process_first_output_by_sq'[k] # NoTime =>
                     \E i \in TasksOf(k)' : process_first_output_by_sq'[k] = plan'[i].first
    <2> DEFINE new == process_first_output_by_sq'[k]
               old == process_first_output_by_sq[k]
    <2>1. DOMAIN given = 1 .. Len(given) /\ Len(given) > 0 /\ Len(given) \in Nat /\ \A i \in DOMAIN given : given[i] \in TaskRows
      BY <1>7
    <2>2. IsFiniteSet(DOMAIN given) /\ DOMAIN given # {}
      <3>1. IsFiniteSet(1 .. Len(given)) /\ 1 \in DOMAIN given
        BY <2>1, FS_Interval
      <3>2. QED
        BY <2>1, <3>1
    <2> HIDE DEF g, key
    <2>3. /\ Info[g].core => process_first_output_by_sq' = process_first_output_by_sq
          /\ k # key => new = old
          /\ ~Info[g].core /\ k = key => new # NoTime /\ (new = old \/ \E i \in DOMAIN given : new = given[i].first)
      BY <1>1, <1>7, <2>1, <2>2, RecordIs DEF key
    <2>4. /\ DOMAIN plan \subseteq DOMAIN plan'
          /\ \A i \in DOMAIN plan : plan'[i] = plan[i]
          /\ \A i \in DOMAIN plan' : i \in DOMAIN plan \/ \E n \in DOMAIN given : plan'[i] = given[n]
          /\ \A n \in DOMAIN given : \E i \in DOMAIN plan' \ DOMAIN plan : plan'[i] = given[n]
      BY <1>7, Appended
    <2>5. \A n \in DOMAIN given : given[n].group = g
      BY <1>7 DEF TasksFor
    <2>6. TasksOf(k)' = {i \in DOMAIN plan' : ~Info[plan'[i].group].core /\ SectionKey(plan'[i].group) = k}
      BY DEF TasksOf, GroupAt, SectionKey
    <2>7. TasksOf(k) \subseteq TasksOf(k)'
      BY <2>4, <2>6 DEF TasksOf, GroupAt
    <2>8. \A i \in TasksOf(k)' : i \in TasksOf(k) \/ (~Info[g].core /\ k = key)
      BY <2>4, <2>5, <2>6 DEF TasksOf, GroupAt, SectionKey, key
    <2>9. CASE Info[g].core \/ k # key
      <3>1. new = old /\ TasksOf(k)' = TasksOf(k)
        BY <2>3, <2>7, <2>8, <2>9
      <3>2. \A i \in TasksOf(k) : plan'[i] = plan[i]
        BY <2>4 DEF TasksOf
      <3>3. QED
        BY <1>5, <3>1, <3>2
    <2>10. CASE ~Info[g].core /\ k = key
      <3>1. new # NoTime /\ (new = old \/ \E i \in DOMAIN given : new = given[i].first)
        BY <2>3, <2>10
      <3>2. CASE new = old
        <4>1. PICK i \in TasksOf(k) : old = plan[i].first
          BY <1>5, <3>1, <3>2
        <4>2. i \in TasksOf(k)' /\ plan'[i] = plan[i]
          BY <2>4, <2>7 DEF TasksOf
        <4>3. QED
          BY <3>1, <3>2, <4>1, <4>2
      <3>3. CASE \E i \in DOMAIN given : new = given[i].first
        <4>1. PICK n \in DOMAIN given : new = given[n].first
          BY <3>3
        <4>2. PICK i \in DOMAIN plan' : plan'[i] = given[n]
          BY <2>4
        <4>3. i \in TasksOf(k)'
          BY <2>5, <2>6, <2>10, <4>2 DEF SectionKey, key
        <4>4. QED
          BY <3>1, <4>1, <4>2, <4>3
      <3>4. QED
        BY <3>1, <3>2, <3>3
    <2>11. QED
      BY <2>9, <2>10
  <1>8. QED
    BY <1>6, <1>7, AssignedIs DEF g

(* Where everything before a task has been placed, it begins after the     *)
(* first drum of that, and after twenty hours of curing where it needs     *)
(* them (_calc_earliest_start).  A drum at datetime.max is not waited for. *)
StartsBehind ==
    \A i \in DOMAIN plan : Preceding(i) # {} /\ Informed(i) /\ (\A j \in Preceding(i) : plan[j].first # Never) =>
       plan[i].start >= Min({plan[j].first : j \in Preceding(i)}) + Curing(plan[i].group)

(* The process before comes first.                                         *)
LEMMA PredecessorPrecedes ==
    ASSUME NEW g \in Group, NEW h \in Group, Info[g].process \in DOMAIN Predecessor,
           Info[h].process = Predecessor[Info[g].process]
    PROVE  Precedes(h, g) /\ Info[h].process # Info[g].process
  <1>1. Info[g].process # "stranding"
    BY DEF Predecessor
  <1>2. ~Info[g].core /\ ~Info[g].st
    BY <1>1, GroupIs
  <1>3. ASSUME NEW p \in DOMAIN Predecessor
        PROVE  ProcessOrder(Predecessor[p]) < ProcessOrder(p) /\ Predecessor[p] # p
    <2>1. CASE p \in {"low insulation", "high insulation"}
      <3>1. Predecessor[p] = "stranding"
        BY <2>1 DEF Predecessor, InsulationProcesses
      <3>2. ProcessOrder("stranding") = 1 /\ ProcessOrder(p) = 2 /\ p # "stranding"
        BY <2>1 DEF ProcessOrder, InsulationProcesses, Sheathing
      <3>3. QED
        BY <3>1, <3>2
    <2>2. CASE p \in {"assembly", "tape", "low sheath", "high sheath"}
      <3>1. Predecessor[p] \in {"low insulation", "high insulation"} /\ Predecessor[p] # p
        BY <2>2 DEF Predecessor, InsulationProcesses
      <3>2. ProcessOrder(Predecessor[p]) = 2
        BY <3>1 DEF ProcessOrder, InsulationProcesses, Sheathing
      <3>3. ProcessOrder(p) \in {3, 4}
        BY <2>2 DEF ProcessOrder, InsulationProcesses, Sheathing
      <3>4. ProcessOrder(Predecessor[p]) < ProcessOrder(p)
        BY <3>2, <3>3
      <3>5. QED
        BY <3>1, <3>4
    <2>3. QED
      BY <2>1, <2>2 DEF Predecessor
  <1>4. QED
    BY <1>2, <1>3 DEF Precedes

LEMMA StillStartsBehind ==
    ASSUME Typed, InTurn, FirstsAreKnown, StartsBehind, AssignGroup
    PROVE  StartsBehind'
  <1> DEFINE g == Head(todo)
  <1>1. g \in Group
    BY AssignedIs
  <1>2. PICK multi \in BOOLEAN : Grown(g, multi)
    BY StepGrows
  <1>3. Typed' /\ Unplaced \subseteq Unplaced'
    BY StaysTyped, UnplacedStays
  <1>4. \A i \in Made : ~Precedes(g, plan[i].group)
    BY NothingOvertakes
  <1> HIDE DEF g
  <1> DEFINE Prior(i) == {j \in DOMAIN plan' : /\ Info[plan'[i].group].process \in DOMAIN Predecessor
                                                 /\ Info[plan'[j].group].process = Predecessor[Info[plan'[i].group].process]
                                                 /\ Info[plan'[j].group].sq = Info[plan'[i].group].sq
                                                 /\ ~Info[plan'[j].group].core}
  <1>5. \A i : Preceding(i)' = Prior(i)
    BY DEF Preceding, Follows, GroupAt
  <1>6. SUFFICES ASSUME NEW i \in DOMAIN plan', Prior(i) # {}, Informed(i)', \A j \in Prior(i) : plan'[j].first # Never
                 PROVE  plan'[i].start >= Min({plan'[j].first : j \in Prior(i)}) + Curing(plan'[i].group)
    <2>1. \A n : Curing(n)' = Curing(n)
      BY DEF Curing
    <2> HIDE DEF Prior
    <2>2. \A n : {plan[j].first : j \in Preceding(n)}' = {plan'[j].first : j \in Prior(n)}
      BY <1>5
    <2>3. QED
      BY <1>5, <1>6, <2>2 DEF StartsBehind, Curing
  <1>7. /\ ~plan'[i].kept /\ Cardinality(Sections(plan'[i].group)) = 1
        /\ \A h \in Unplaced' : ~(Info[h].process = Predecessor[Info[plan'[i].group].process] /\ Info[h].sq = Info[plan'[i].group].sq)
    BY <1>6 DEF Informed, GroupAt, Sections
  <1> DEFINE h == plan'[i].group
             p == Info[h].process
  <1>8. h \in Group /\ \A j \in DOMAIN plan' : plan'[j].group \in Group
    <2>1. plan' \in Seq(TaskRows)
      BY <1>3 DEF Typed
    <2>2. \A j \in DOMAIN plan' : plan'[j] \in TaskRows
      BY <2>1
    <2>3. QED
      BY <2>2 DEF TaskRows
  <1>9. \A j \in DOMAIN plan' \ DOMAIN plan : plan'[j].group = g
    BY <1>2 DEF Grown, TasksFor
  <1>10. p \in DOMAIN Predecessor
    BY <1>6
  <1>11. ASSUME NEW j \in Prior(i) PROVE j \in DOMAIN plan
    <2>1. SUFFICES ASSUME j \notin DOMAIN plan PROVE FALSE
      OBVIOUS
    <2>2. plan'[j].group = g
      BY <1>9, <2>1
    <2>3. Precedes(g, h) /\ Info[g].process # p
      BY <1>1, <1>8, <1>10, <1>11, <2>2, PredecessorPrecedes
    <2>4. i \in DOMAIN plan
      BY <1>9, <2>3
    <2>5. plan'[i] = plan[i] /\ i \in Made
      BY <1>2, <1>7, <2>4 DEF Grown, Made
    <2>6. QED
      BY <1>4, <2>3, <2>5
  <1>12. \A j \in Prior(i) : plan'[j] = plan[j]
    BY <1>2, <1>11 DEF Grown
  <1>13. CASE i \in DOMAIN plan
    <2>1. plan'[i] = plan[i]
      BY <1>2, <1>13 DEF Grown
    <2>2. Preceding(i) = Prior(i)
      BY <1>2, <1>11, <2>1 DEF Preceding, Follows, GroupAt, Grown
    <2> HIDE DEF Prior
    <2>3. Informed(i)
      BY <1>3, <1>7, <2>1 DEF Informed, GroupAt
    <2>4. {plan'[j].first : j \in Prior(i)} = {plan[j].first : j \in Preceding(i)}
      BY <1>12, <2>2
    <2>5. \A j \in Preceding(i) : plan[j].first # Never
      BY <1>6, <1>12, <2>2
    <2>6. plan[i].start >= Min({plan[j].first : j \in Preceding(i)}) + Curing(plan[i].group)
      BY <1>6, <1>13, <2>2, <2>3, <2>5 DEF StartsBehind
    <2>7. QED
      BY <2>1, <2>4, <2>6
  <1>14. CASE i \notin DOMAIN plan
    <2> DEFINE k      == <<Predecessor[p], Info[h].sq>>
               firsts == {plan'[j].first : j \in Prior(i)}
               x      == process_first_output_by_sq[k]
    <2>1. h = g /\ plan'[i] \in TasksFor(g, Earliest(g, multi))
      BY <1>2, <1>9, <1>14 DEF Grown
    <2>2. Predecessor[p] \in Processes
      BY <1>10 DEF Predecessor, Processes, InsulationProcesses
    <2>3. k \in Keys
      BY <1>8, <2>2, SectionsAre DEF Keys
    <2>4. \A u \in Unplaced : SectionKey(u) # k
      BY <1>3, <1>7 DEF SectionKey
    <2>5. TasksOf(k) = Prior(i)
      <3>1. Prior(i) \subseteq TasksOf(k)
        BY <1>11, <1>12 DEF TasksOf, GroupAt, SectionKey
      <3>2. TasksOf(k) \subseteq Prior(i)
        BY <1>2, <1>10 DEF TasksOf, GroupAt, SectionKey, Grown
      <3>3. QED
        BY <3>1, <3>2
    <2> HIDE DEF Prior
    <2>6. x # NoTime
      BY <1>6, <2>3, <2>4, <2>5 DEF FirstsAreKnown
    <2>7. PICK j \in TasksOf(k) : x = plan[j].first
      BY <2>3, <2>4, <2>6 DEF FirstsAreKnown
    <2>8. x \in firsts /\ x # Never
      BY <1>6, <1>12, <2>5, <2>7
    <2>9. firsts \subseteq Nat
      <3>1. \A n \in DOMAIN plan : plan[n].first \in Nat
        BY TasksAre
      <3>2. QED
        BY <1>11, <1>12, <3>1
    <2>10. Sections(g) = {Info[h].sq}
      <3>1. Info[h].sq \in Sections(g) /\ Cardinality(Sections(g)) = 1 /\ IsFiniteSet(Sections(g))
        BY <1>1, <1>7, <2>1, SectionsAre
      <3>2. \E s : Sections(g) = {s}
        BY <3>1, FS_Singleton
      <3>3. QED
        BY <3>1, <3>2
    <2>11. x \in PredecessorFirst(g, multi)
      <3> HIDE DEF firsts
      <3>1. QED
        BY <1>1, <1>10, <2>1, <2>6, <2>8, <2>10, PredecessorFirstIs
    <2> HIDE DEF x
    <2>12. x + Curing(g) <= EarliestAfter(g, multi, DOMAIN plan) /\ EarliestAfter(g, multi, DOMAIN plan) \in Nat
           /\ Curing(g) \in Nat
      BY <1>1, <2>11, EarliestAfterIs
    <2>13. EarliestAfter(g, multi, DOMAIN plan) <= Earliest(g, multi) /\ Earliest(g, multi) \in Nat
      BY <1>1, EarliestIs
    <2>14. Earliest(g, multi) <= plan'[i].start /\ plan'[i].start \in Nat
      BY <2>1 DEF TasksFor, TaskRows
    <2> HIDE DEF firsts
    <2>15. Min(firsts) \in Nat /\ Min(firsts) <= x /\ x \in Nat
      BY <2>8, <2>9, MinIs
    <2>16. plan'[i].start >= Min(firsts) + Curing(g)
      BY <2>12, <2>13, <2>14, <2>15
    <2>17. QED
      BY <2>1, <2>16 DEF firsts
  <1>15. QED
    BY <1>13, <1>14

GreedyInv ==
    status = "running" => Typed /\ InTurn /\ FirstsAreKnown /\ StartsBehind /\ CoresWait

LEMMA GreedyInit ==
    ASSUME Init
    PROVE  GreedyInv
  <1> DEFINE At(k)    == {i \in DOMAIN plan : SectionKey(plan[i].group) = k}
             Own(k)   == {i \in At(k) : ~GroupAt(i).core}
             first(k) == {plan[i].first : i \in Own(k)}
             left     == {g \in Group : \A i \in DOMAIN plan : plan[i].group # g}
  <1>1. base \in Nat /\ work \in [Group -> Nat] /\ plan \in Seq(TaskRows) /\ \A i \in DOMAIN plan : plan[i].kept
    BY PlacingAssumption DEF Init
  <1>2. DOMAIN plan = 1 .. Len(plan) /\ Len(plan) \in Nat /\ \A i \in DOMAIN plan : plan[i] \in TaskRows
    BY <1>1
  <1>3. /\ process_end_by_sq = [k \in Keys |-> IF At(k) = {} THEN NoTime ELSE Max({plan[i].end : i \in At(k)})]
        /\ process_first_output_by_sq = [k \in Keys |-> IF first(k) = {} THEN NoTime ELSE Min(first(k))]
    BY DEF Init, Keys, SectionKey, GroupAt
  <1>4. todo = GroupAndSort(left) /\ left \subseteq Group
    BY DEF Init
  <1>5. /\ todo \in Seq(left)
        /\ \A i, j \in DOMAIN todo : i < j => ~Precedes(todo[j], todo[i])
        /\ \A i, j \in DOMAIN todo : i # j => todo[i] # todo[j]
    <2> HIDE DEF left
    <2>1. QED
      BY <1>4, GroupsAreSorted
  <1>6. todo \in Seq(Group) /\ \A j \in DOMAIN todo : todo[j] \in left
    <2> HIDE DEF left
    <2>1. DOMAIN todo = 1 .. Len(todo) /\ Len(todo) \in Nat /\ \A j \in DOMAIN todo : todo[j] \in left
      BY <1>5
    <2>2. todo \in Seq(Group)
      BY <1>4, <1>5
    <2>3. QED
      BY <2>1, <2>2
  <1>7. ASSUME NEW k \in Keys
        PROVE  /\ At(k) # {} => Max({plan[i].end : i \in At(k)}) \in Nat
               /\ first(k) # {} => Min(first(k)) \in first(k) /\ Min(first(k)) \in Nat
    <2> DEFINE ends == {plan[i].end : i \in At(k)}
               e    == [i \in At(k) |-> plan[i].end]
    <2>1. ends \subseteq Nat /\ ends \subseteq Int /\ first(k) \subseteq Nat
      BY <1>2 DEF TaskRows
    <2>2. IsFiniteSet(At(k))
      <3>1. IsFiniteSet(DOMAIN plan)
        BY <1>2, FS_Interval
      <3>2. QED
        BY <3>1, FS_Subset
    <2>3. IsFiniteSet(ends)
      <3>1. IsFiniteSet({e[i] : i \in At(k)})
        <4> HIDE DEF e, At
        <4>1. QED
          BY <2>2, ImageIsFinite
      <3>2. {e[i] : i \in At(k)} = ends
        OBVIOUS
      <3>3. QED
        BY <3>1, <3>2
    <2>4. ends # {} => Max(ends) \in Nat
      <3> HIDE DEF ends
      <3>1. QED
        BY <2>1, <2>3, MaxIsIn
    <2>5. first(k) # {} => Min(first(k)) \in first(k)
      <3> HIDE DEF first
      <3>1. QED
        BY <2>1, MinIs
    <2>6. At(k) # {} => ends # {}
      OBVIOUS
    <2> HIDE DEF ends, first, At
    <2>7. QED
      BY <2>1, <2>4, <2>5, <2>6 DEF ends
  <1>8. NoTime \notin Nat
    BY PlacingAssumption
  <1>9. \A k \in Keys : TasksOf(k) = Own(k)
    BY DEF TasksOf
  <1>10. \A k : Own(k) # {} <=> first(k) # {}
    OBVIOUS
  <1>11. \A k, x : x \in first(k) => \E i \in Own(k) : x = plan[i].first
    OBVIOUS
  <1>12. /\ process_end_by_sq \in [Keys -> Nat \cup {NoTime}]
         /\ process_first_output_by_sq \in [Keys -> Nat \cup {NoTime}]
    <2> DEFINE Ends(k)   == IF At(k) = {} THEN NoTime ELSE Max({plan[i].end : i \in At(k)})
               Firsts(k) == IF first(k) = {} THEN NoTime ELSE Min(first(k))
    <2>1. \A k \in Keys : Ends(k) \in Nat \cup {NoTime} /\ Firsts(k) \in Nat \cup {NoTime}
      <3> HIDE DEF first, At
      <3>1. QED
        BY <1>7
    <2>2. process_end_by_sq = [k \in Keys |-> Ends(k)] /\ process_first_output_by_sq = [k \in Keys |-> Firsts(k)]
      BY <1>3
    <2> HIDE DEF Ends, Firsts
    <2>3. QED
      BY <2>1, <2>2
  <1>13. Typed
    BY <1>1, <1>6, <1>12 DEF Typed
  <1>14. Made = {}
    BY <1>1 DEF Made
  <1>15. InTurn
    BY <1>5, <1>6, <1>14 DEF InTurn
  <1>16. FirstsAreKnown
    <2> HIDE DEF first, Own
    <2>1. ASSUME NEW k \in Keys
          PROVE  /\ TasksOf(k) # {} => process_first_output_by_sq[k] # NoTime
                 /\ process_first_output_by_sq[k] # NoTime =>
                       \E i \in TasksOf(k) : process_first_output_by_sq[k] = plan[i].first
      <3>1. process_first_output_by_sq[k] = IF first(k) = {} THEN NoTime ELSE Min(first(k))
        BY <1>3
      <3>2. CASE first(k) = {}
        BY <1>9, <1>10, <3>1, <3>2
      <3>3. CASE first(k) # {}
        <4>1. process_first_output_by_sq[k] \in first(k) /\ process_first_output_by_sq[k] \in Nat
          BY <1>7, <3>1, <3>3
        <4>2. QED
          BY <1>8, <1>9, <1>11, <4>1
      <3>4. QED
        BY <3>2, <3>3
    <2>2. QED
      BY <2>1 DEF FirstsAreKnown
  <1>17. StartsBehind
    BY <1>1 DEF StartsBehind, Informed
  <1>18. CoresWait
    BY <1>1 DEF CoresWait
  <1>19. QED
    BY <1>13, <1>15, <1>16, <1>17, <1>18 DEF GreedyInv

LEMMA GreedyStep ==
    ASSUME GreedyInv, [Next]_vars
    PROVE  GreedyInv'
  <1>1. CASE AssignGroup
    <2>1. status = "running" /\ status' = status
      BY <1>1 DEF AssignGroup
    <2>2. Typed /\ InTurn /\ FirstsAreKnown /\ StartsBehind /\ CoresWait
      BY <2>1 DEF GreedyInv
    <2>3. Typed' /\ InTurn'
      BY <1>1, <2>2, StaysTyped, StaysInTurn
    <2>4. FirstsAreKnown' /\ StartsBehind'
      BY <1>1, <2>2, FirstsStayKnown, StillStartsBehind
    <2>5. CoresWait'
      BY <1>1, <2>2, CoresStillWait
    <2>6. QED
      BY <2>3, <2>4, <2>5 DEF GreedyInv
  <1>2. CASE Crash
    BY <1>2 DEF Crash, GreedyInv
  <1>3. CASE Finish
    BY <1>3 DEF Finish, GreedyInv
  <1>4. CASE Shift
    BY <1>4 DEF Shift, GreedyInv
  <1>5. CASE UNCHANGED vars
    <2>1. /\ status' = status /\ plan' = plan /\ todo' = todo /\ base' = base /\ work' = work
          /\ process_end_by_sq' = process_end_by_sq /\ process_first_output_by_sq' = process_first_output_by_sq
      BY <1>5 DEF vars, placing
    <2>2. Typed => Typed'
      BY <2>1 DEF Typed, Keys, Sections
    <2>3. InTurn => InTurn'
      BY <2>1 DEF InTurn, Precedes, Made
    <2>4. FirstsAreKnown => FirstsAreKnown'
      BY <2>1 DEF FirstsAreKnown, TasksOf, SectionKey, GroupAt, Unplaced, Keys, Sections
    <2>5. StartsBehind => StartsBehind'
      <3>1. \A i : Preceding(i)' = Preceding(i) /\ (Informed(i)' <=> Informed(i))
        BY <2>1 DEF Preceding, Informed, Follows, GroupAt, Unplaced, Sections
      <3>2. \A g : Curing(g)' = Curing(g)
        BY DEF Curing
      <3> HIDE DEF Preceding, Informed, Curing
      <3>3. QED
        BY <2>1, <3>1, <3>2 DEF StartsBehind
    <2>6. CoresWait => CoresWait'
      BY <2>1 DEF CoresWait, IsCoreOf, GroupAt
    <2>7. QED
      BY <2>1, <2>2, <2>3, <2>4, <2>5, <2>6 DEF GreedyInv
  <1>6. QED
    BY <1>1, <1>2, <1>3, <1>4, <1>5 DEF Next

THEOREM GreedyInvHolds == Spec => []GreedyInv
  <1>1. Init => GreedyInv
    BY GreedyInit
  <1>2. GreedyInv /\ [Next]_vars => GreedyInv'
    BY GreedyStep
  <1>3. QED
    BY <1>1, <1>2, PTL DEF Spec

(* An assembly begins when the colours of its cores are insulated, so far  *)
(* as this run has insulated each on one machine (the maximum over         *)
(* insul_last_output_by_color in _calc_earliest_start): the groups come    *)
(* in an order in which no insulation is placed after an assembly.         *)
THEOREM AssemblyStartsAfterItsCores == Spec => []AssemblyWaitsForItsCores
  <1>1. GreedyInv => AssemblyWaitsForItsCores
    BY DEF GreedyInv, CoresWait, AssemblyWaitsForItsCores
  <1>2. QED
    BY <1>1, GreedyInvHolds, PTL

(* Where every group of the process before has been placed, a task of this *)
(* run begins after the first drum of it and, for a high-voltage sheath,   *)
(* twenty hours of curing: process_first_output_by_sq is the first drum of *)
(* one of the tasks before, and none of those is placed later.             *)
THEOREM NoTaskStartsBeforeTheFirstDrum == Spec => [](status = "running" => StartsBehind)
  <1>1. GreedyInv => (status = "running" => StartsBehind)
    BY DEF GreedyInv
  <1>2. QED
    BY <1>1, GreedyInvHolds, PTL

(* The engine keeps its tables in shape: every task is of a group, on a    *)
(* machine, from one time to another, and the ends and first drums are     *)
(* times or unknown.                                                       *)
THEOREM GreedyIsTyped == Spec => [](status = "running" => Typed)
  <1>1. GreedyInv => (status = "running" => Typed)
    BY DEF GreedyInv
  <1>2. QED
    BY <1>1, GreedyInvHolds, PTL

-----------------------------------------------------------------------------
(* Sums *)

(* A sum is the number of its units.                                       *)
Units(f, T) == {u \in T \X Nat : u[2] < f[u[1]]}

Sum(f, T) == Cardinality(Units(f, T))

LEMMA UnitsOfOne ==
    ASSUME NEW f, NEW x, f[x] \in Nat
    PROVE  IsFiniteSet(Units(f, {x})) /\ Cardinality(Units(f, {x})) = f[x]
  <1>1. Units(f, {x}) = {x} \X (0 .. f[x] - 1)
    <2>1. \A u : u \in Units(f, {x}) <=> u \in {x} \X (0 .. f[x] - 1)
      BY DEF Units
    <2>2. QED
      BY <2>1
  <1>2. IsFiniteSet({x}) /\ Cardinality({x}) = 1
    BY FS_Singleton
  <1>3. IsFiniteSet(0 .. f[x] - 1) /\ Cardinality(0 .. f[x] - 1) = f[x]
    <2>1. ASSUME NEW n \in Nat PROVE IsFiniteSet(0 .. n - 1) /\ Cardinality(0 .. n - 1) = n
      <3>1. 0 \in Int /\ n - 1 \in Int
        OBVIOUS
      <3>2. IsFiniteSet(0 .. n - 1) /\ Cardinality(0 .. n - 1) = IF 0 > n - 1 THEN 0 ELSE n - 1 - 0 + 1
        BY <3>1, FS_Interval
      <3>3. QED
        BY <3>2
    <2>2. QED
      BY <2>1, Zenon
  <1>4. Cardinality({x} \X (0 .. f[x] - 1)) = 1 * f[x] /\ IsFiniteSet({x} \X (0 .. f[x] - 1))
    BY <1>2, <1>3, FS_Product
  <1>5. 1 * f[x] = f[x]
    OBVIOUS
  <1>6. QED
    BY <1>1, <1>4, <1>5, Zenon

LEMMA UnitsOfMore ==
    ASSUME NEW f, NEW T, NEW x, x \notin T, f[x] \in Nat, IsFiniteSet(Units(f, T))
    PROVE  /\ IsFiniteSet(Units(f, T \cup {x}))
           /\ Cardinality(Units(f, T \cup {x})) = Cardinality(Units(f, T)) + f[x]
  <1>1. Units(f, T \cup {x}) = Units(f, T) \cup Units(f, {x})
    BY DEF Units
  <1>2. Units(f, T) \cap Units(f, {x}) = {}
    BY DEF Units
  <1>3. Cardinality({}) = 0
    BY FS_EmptySet
  <1>4. /\ IsFiniteSet(Units(f, {x})) /\ Cardinality(Units(f, {x})) = f[x]
        /\ Cardinality(Units(f, T)) \in Nat
    BY UnitsOfOne, FS_CardinalityType
  <1>5. /\ IsFiniteSet(Units(f, T) \cup Units(f, {x}))
        /\ Cardinality(Units(f, T) \cup Units(f, {x})) =
              Cardinality(Units(f, T)) + Cardinality(Units(f, {x})) - Cardinality(Units(f, T) \cap Units(f, {x}))
    BY <1>4, FS_Union
  <1>6. Cardinality(Units(f, T \cup {x})) = Cardinality(Units(f, T)) + f[x] - 0
    BY <1>1, <1>2, <1>3, <1>4, <1>5, Zenon
  <1>7. IsFiniteSet(Units(f, T \cup {x}))
    BY <1>1, <1>5, Zenon
  <1>8. QED
    BY <1>4, <1>6, <1>7

LEMMA UnitsAreFinite ==
    ASSUME NEW S, IsFiniteSet(S), NEW f, \A x \in S : f[x] \in Nat
    PROVE  IsFiniteSet(Units(f, S))
  <1> DEFINE P == {T \in SUBSET S : IsFiniteSet(Units(f, T))}
  <1>1. ASSUME NEW T \in SUBSET S, \A x \in T : T \ {x} \in P PROVE T \in P
    <2>1. CASE T = {}
      <3>1. Units(f, {}) = {}
        BY DEF Units
      <3>2. QED
        BY <2>1, <3>1, FS_EmptySet
    <2>2. CASE T # {}
      <3>1. PICK x \in T : TRUE
        BY <2>2
      <3>2. T = (T \ {x}) \cup {x} /\ IsFiniteSet(Units(f, T \ {x}))
        BY <1>1, <3>1
      <3>3. QED
        BY <3>2, UnitsOfMore
    <2>3. QED
      BY <2>1, <2>2
  <1>2. S \in P
    <2> HIDE DEF P
    <2>1. QED
      BY <1>1, SetInduction
  <1>3. QED
    BY <1>2

(* The drums of some tasks, folded, are their sum.                         *)
LEMMA SumCounts ==
    ASSUME NEW S, IsFiniteSet(S), NEW given, \A x \in S : given[x].drums \in Nat
    PROVE  MapThenSumSet(LAMBDA x : given[x].drums, S) = Sum([x \in S |-> given[x].drums], S)
  <1> DEFINE f == [x \in S |-> given[x].drums]
             some(s) == CHOOSE x \in s : TRUE
             Folded(g) == g = [s \in SUBSET S |-> IF s = {} THEN 0 ELSE given[some(s)].drums + g[s \ {some(s)}]]
             count == [s \in SUBSET S |-> Cardinality(Units(f, s))]
             iter == CHOOSE g : Folded(g)
             P == {T \in SUBSET S : iter[T] = count[T]}
  <1>1. MapThenSumSet(LAMBDA x : given[x].drums, S) = iter[S]
    BY DEF MapThenSumSet, MapThenFoldSet
  <1>2. \A x \in S : f[x] = given[x].drums /\ f[x] \in Nat
    OBVIOUS
  <1> HIDE DEF f
  <1>3. ASSUME NEW s \in SUBSET S PROVE IsFiniteSet(Units(f, s)) /\ Cardinality(Units(f, s)) \in Nat
    <2>1. IsFiniteSet(s)
      BY FS_Subset
    <2>2. QED
      BY <1>2, <2>1, UnitsAreFinite, FS_CardinalityType
  <1>4. ASSUME NEW s \in SUBSET S, s # {}
        PROVE  /\ some(s) \in s /\ s \ {some(s)} \in SUBSET S
               /\ count[s] = given[some(s)].drums + count[s \ {some(s)}]
    <2>1. some(s) \in s /\ s \ {some(s)} \in SUBSET S
      BY <1>4
    <2> DEFINE x == some(s)
               t == s \ {x}
    <2>2. x \in s /\ t \in SUBSET S /\ s = t \cup {x} /\ x \notin t /\ f[x] \in Nat /\ f[x] = given[x].drums
      BY <1>2, <2>1
    <2> HIDE DEF x, t
    <2>3. Cardinality(Units(f, s)) = Cardinality(Units(f, t)) + f[x]
      BY <1>3, <2>2, UnitsOfMore
    <2>4. QED
      BY <1>3, <2>1, <2>2, <2>3 DEF x, t
  <1>5. count[{}] = 0
    <2>1. Units(f, {}) = {}
      BY DEF Units
    <2>2. QED
      BY <2>1, FS_EmptySet
  <1>6. Folded(count)
    <2>1. \A s \in SUBSET S : count[s] = IF s = {} THEN 0 ELSE given[some(s)].drums + count[s \ {some(s)}]
      BY <1>4, <1>5
    <2>2. count = [s \in SUBSET S |-> count[s]]
      OBVIOUS
    <2> HIDE DEF count, some
    <2>3. QED
      BY <2>1, <2>2, Zenon
  <1>7. Folded(iter)
    <2> HIDE DEF Folded, count
    <2>1. QED
      BY <1>6
  <1>8. ASSUME NEW T \in SUBSET S, \A x \in T : T \ {x} \in P PROVE T \in P
    <2>1. iter[T] = IF T = {} THEN 0 ELSE given[some(T)].drums + iter[T \ {some(T)}]
      <3> HIDE DEF iter, some
      <3>1. QED
        BY <1>7
    <2>2. T # {} => T \ {some(T)} \in P
      BY <1>8
    <2> HIDE DEF iter, count, some
    <2>3. T # {} => iter[T \ {some(T)}] = count[T \ {some(T)}]
      BY <2>2
    <2>4. QED
      BY <1>4, <1>5, <2>1, <2>3
  <1>9. S \in P
    <2> HIDE DEF P
    <2>1. QED
      BY <1>8, SetInduction
  <1>10. QED
    <2> HIDE DEF iter
    <2>1. QED
      BY <1>1, <1>9 DEF Sum, f

LEMMA SumIsNat ==
    ASSUME NEW S, IsFiniteSet(S), NEW f, \A x \in S : f[x] \in Nat
    PROVE  Sum(f, S) \in Nat
  BY UnitsAreFinite, FS_CardinalityType DEF Sum

LEMMA SumOfNone ==
    ASSUME NEW S, NEW f, \A x \in S : f[x] = 0
    PROVE  Sum(f, S) = 0
  <1>1. Units(f, S) = {}
    BY DEF Units
  <1>2. QED
    BY <1>1, FS_EmptySet DEF Sum

LEMMA SumOfMore ==
    ASSUME NEW S, IsFiniteSet(S), NEW x, x \notin S, NEW f, \A y \in S \cup {x} : f[y] \in Nat
    PROVE  Sum(f, S \cup {x}) = Sum(f, S) + f[x]
  BY UnitsAreFinite, UnitsOfMore DEF Sum

LEMMA SumIsSame ==
    ASSUME NEW S, NEW f, NEW g, \A x \in S : f[x] = g[x]
    PROVE  Sum(f, S) = Sum(g, S)
  <1>1. Units(f, S) = Units(g, S)
    BY DEF Units
  <1>2. QED
    BY <1>1 DEF Sum

(* One part of a sum changes; it gets another part; only some parts count. *)
LEMMA SumChanges ==
    ASSUME NEW S, IsFiniteSet(S), NEW x \in S, NEW f, NEW g,
           \A y \in S : f[y] \in Nat /\ g[y] \in Nat, \A y \in S \ {x} : g[y] = f[y]
    PROVE  Sum(g, S) + f[x] = Sum(f, S) + g[x]
  <1> DEFINE R == S \ {x}
  <1>1. S = R \cup {x} /\ x \notin R
    OBVIOUS
  <1>2. IsFiniteSet(R)
    BY FS_Subset
  <1>3. \A y \in R : f[y] \in Nat /\ g[y] \in Nat /\ g[y] = f[y]
    OBVIOUS
  <1> HIDE DEF R
  <1>4. Sum(f, S) = Sum(f, R) + f[x]
    BY <1>1, <1>2, SumOfMore
  <1>5. Sum(g, S) = Sum(g, R) + g[x]
    BY <1>1, <1>2, SumOfMore
  <1>6. Sum(g, R) = Sum(f, R)
    BY <1>3, SumIsSame
  <1>7. Sum(f, R) \in Nat /\ f[x] \in Nat /\ g[x] \in Nat
    BY <1>2, <1>3, SumIsNat
  <1>8. QED
    BY <1>4, <1>5, <1>6, <1>7

LEMMA SumOfPart ==
    ASSUME NEW S, NEW T, T \subseteq S, NEW f, \A x \in S \ T : f[x] = 0
    PROVE  Sum(f, S) = Sum(f, T)
  <1>1. Units(f, S) = Units(f, T)
    BY DEF Units
  <1>2. QED
    BY <1>1 DEF Sum

(* The sum of a list without its first number.                             *)
LEMMA SumOfRest ==
    ASSUME NEW n \in Nat, NEW f, \A k \in 1 .. n + 1 : f[k] \in Nat, NEW g, \A k \in 1 .. n : g[k] = f[k + 1]
    PROVE  Sum(f, 1 .. n + 1) = Sum(g, 1 .. n) + f[1]
  <1> DEFINE A == 2 .. n + 1
             U == Units(g, 1 .. n)
             V == Units(f, A)
             h == [u \in U |-> <<u[1] + 1, u[2]>>]
  <1>1. h \in Bijection(U, V)
    <2>1. \A u \in U : u[1] \in 1 .. n /\ u[2] \in Nat /\ u[2] < g[u[1]] /\ u = <<u[1], u[2]>>
      BY DEF Units
    <2>2. ASSUME NEW u \in U PROVE h[u] \in V
      <3>1. u[1] + 1 \in A /\ f[u[1] + 1] = g[u[1]]
        BY <2>1
      <3>2. QED
        BY <2>1, <3>1 DEF Units
    <2>3. h \in [U -> V]
      BY <2>2
    <2>4. ASSUME NEW u \in U, NEW v \in U, h[u] = h[v] PROVE u = v
      <3>1. u[1] + 1 = v[1] + 1 /\ u[2] = v[2]
        BY <2>4
      <3>2. u[1] = v[1]
        BY <2>1, <3>1
      <3>3. QED
        BY <2>1, <3>1, <3>2
    <2>5. ASSUME NEW v \in V PROVE \E u \in U : h[u] = v
      <3>1. v[1] \in A /\ v[2] \in Nat /\ v[2] < f[v[1]] /\ v = <<v[1], v[2]>>
        BY DEF Units
      <3> DEFINE u == <<v[1] - 1, v[2]>>
      <3>2. v[1] - 1 \in 1 .. n /\ g[v[1] - 1] = f[v[1]] /\ (v[1] - 1) + 1 = v[1]
        BY <3>1
      <3>3. u \in U
        BY <3>1, <3>2 DEF Units
      <3>4. h[u] = v
        BY <3>1, <3>2, <3>3
      <3>5. QED
        BY <3>3, <3>4
    <2> HIDE DEF h, U, V
    <2>6. h \in Injection(U, V)
      BY <2>3, <2>4 DEF Injection, IsInjective
    <2>7. h \in Surjection(U, V)
      BY <2>3, <2>5 DEF Surjection
    <2>8. QED
      BY <2>6, <2>7 DEF Bijection
  <1>2. IsFiniteSet(1 .. n) /\ IsFiniteSet(A)
    BY FS_Interval
  <1>3. IsFiniteSet(U)
    BY <1>2, UnitsAreFinite
  <1>4. Cardinality(V) = Cardinality(U)
    <2> HIDE DEF h, U, V
    <2>1. QED
      BY <1>1, <1>3, FS_Bijection DEF ExistsBijection
  <1>5. Sum(f, A) = Sum(g, 1 .. n)
    BY <1>4 DEF Sum
  <1>6. 1 .. n + 1 = A \cup {1} /\ 1 \notin A /\ \A y \in A \cup {1} : f[y] \in Nat
    OBVIOUS
  <1> HIDE DEF A
  <1>7. Sum(f, 1 .. n + 1) = Sum(f, A) + f[1]
    <2>1. Sum(f, A \cup {1}) = Sum(f, A) + f[1]
      BY <1>2, <1>6, SumOfMore
    <2>2. QED
      BY <1>6, <2>1, Zenon
  <1>8. QED
    BY <1>5, <1>7

-----------------------------------------------------------------------------
(* The model and the order that is made of its solution *)

(* A machine and a start on the axis.                                      *)
Places == [code : Codes, start : Int]

Shares == [group : Group, machine : Codes, drums : Nat, setup : Nat]

CpTyped ==
    /\ Typed
    /\ CpGroups \subseteq Group \ Started
    /\ \A g \in CpGroups : meta[g].eligible \subseteq DOMAIN Machines /\ meta[g].steps \in Int
    /\ drums_of \in [Group -> Nat] /\ \A g \in Group : drums_of[g] <= Info[g].drums
    /\ preempted_remainder \in Seq(Shares) /\ ready \in Nat \cup {NoTime}
    /\ \A s \in built \cup model : s.choice \in [CpGroups -> Places]
    /\ lex_status \in Solved => found.choice \in [CpGroups -> Places]

LEMMA CeilIs ==
    ASSUME NEW a \in Int, NEW b \in Nat \ {0}
    PROVE  Ceil(a, b) \in Int
  <1>1. a + b - 1 \in Int /\ b \in Int /\ b > 0
    OBVIOUS
  <1>2. QED
    BY <1>1 DEF Ceil

(* The greater of two whole numbers.                                       *)
LEMMA GreaterIs ==
    ASSUME NEW a \in Int, NEW b \in Int
    PROVE  Max({a, b}) \in {a, b} /\ a <= Max({a, b}) /\ b <= Max({a, b})
  <1>1. IsFiniteSet({a} \cup {b})
    <2>1. IsFiniteSet({a}) /\ IsFiniteSet({b})
      BY FS_Singleton
    <2>2. QED
      BY <2>1, FS_Union
  <1>2. {a, b} = {a} \cup {b} /\ {a, b} \subseteq Int /\ {a, b} # {}
    OBVIOUS
  <1>3. QED
    BY <1>1, <1>2, MaxIsIn

LEMMA EligibleAre ==
    ASSUME NEW g
    PROVE  CpEligible(g) \subseteq DOMAIN Machines
  <1>1. Eligible(Info[g]) \subseteq DOMAIN Machines
    <2>1. Candidates(Info[g]) \subseteq DOMAIN Machines
      BY DEF Candidates, FilterBySheathRouting, Narrow
    <2>2. QED
      BY <2>1 DEF Eligible
  <1>2. NarrowByStranding(Info[g], Eligible(Info[g])) \subseteq DOMAIN Machines
    BY <1>1 DEF NarrowByStranding, Narrow
  <1>3. QED
    BY <1>1, <1>2 DEF CpEligible

(* build_group_meta: groups that were not started, with machines and with  *)
(* a number of steps.                                                      *)
LEMMA MetaIs ==
    /\ DOMAIN BuildGroupMeta \subseteq Group \ Started
    /\ \A g \in DOMAIN BuildGroupMeta :
          /\ BuildGroupMeta[g].eligible \subseteq DOMAIN Machines
          /\ BuildGroupMeta[g].steps \in Int
  <1>1. DOMAIN BuildGroupMeta \subseteq Group \ Started
    BY DEF BuildGroupMeta
  <1>2. ASSUME NEW g \in DOMAIN BuildGroupMeta
        PROVE  BuildGroupMeta[g].eligible \subseteq DOMAIN Machines /\ BuildGroupMeta[g].steps \in Int
    <2> DEFINE n     == Cardinality(CpEligible(g))
               split == Split(g, n)
               time  == Ceil(Work[g] * Info[g].drums, split) + Info[g].setup + Winding
               steps == Max({1, Ceil(time, Step)})
    <2>1. g \in Group
      BY <1>1
    <2>2. n \in Nat
      <3>1. IsFiniteSet(CpEligible(g))
        BY EligibleAre, FS_Subset, PlacingAssumption
      <3>2. QED
        BY <3>1, FS_CardinalityType
    <2>3. /\ Info[g].drums \in Nat /\ Info[g].setup \in Nat /\ Winding \in Nat
          /\ Work[g] \in Nat /\ Step \in Nat \ {0}
      BY <2>1, GroupIs, PlacingAssumption, CpSatAssumption, AxisAssumption
    <2> HIDE DEF n
    <2>4. split \in Nat \ {0}
      <3> DEFINE m == Min({Info[g].drums, n})
      <3>1. m \in Nat
        BY <2>2, <2>3, PairsAre
      <3> HIDE DEF m
      <3>2. Max({1, m}) \in Nat /\ 1 <= Max({1, m})
        BY <3>1, PairsAre
      <3>3. split = Max({1, m}) \/ split = 1
        BY DEF Split, m
      <3>4. QED
        BY <3>2, <3>3
    <2> HIDE DEF split
    <2>5. time \in Int
      <3>1. Work[g] * Info[g].drums \in Int
        BY <2>3
      <3>2. Ceil(Work[g] * Info[g].drums, split) \in Int
        BY <2>4, <3>1, CeilIs
      <3>3. QED
        BY <2>3, <3>2
    <2> HIDE DEF time
    <2>6. steps \in Int
      <3> DEFINE c == Ceil(time, Step)
      <3>1. c \in Int
        BY <2>3, <2>5, CeilIs
      <3> HIDE DEF c
      <3>2. 1 \in Int
        OBVIOUS
      <3>3. Max({1, c}) \in {1, c}
        BY <3>1, <3>2, GreaterIs, Zenon
      <3>4. Max({1, c}) \in Int
        BY <3>1, <3>3
      <3>5. QED
        BY <3>4 DEF c
    <2>7. BuildGroupMeta[g].eligible = CpEligible(g) /\ BuildGroupMeta[g].steps = steps
      BY DEF BuildGroupMeta, steps, time, split, n
    <2>8. QED
      BY <2>6, <2>7, EligibleAre
  <1>3. QED
    BY <1>1, <1>2

(* The choices are those of machines and starts for the groups: the plans  *)
(* are made from none, one group after the other.                          *)
LEMMA PlansAre ==
    ASSUME CpTyped
    PROVE  \A p \in CpPlans : p \in [CpGroups -> Places]
  <1> DEFINE pick(T)    == CHOOSE x \in T : \A h \in T : ProcessOrder(Info[h].process) <= ProcessOrder(Info[x].process)
             Some(p, g) == {x \in Domain(g) : \A h \in DOMAIN p : Agree(g, x, h, p[h]) /\ Agree(h, p[h], g, x)}
             With(p, g, a) == [h \in DOMAIN p \cup {g} |-> IF h = g THEN a ELSE p[h]]
             More(P, g) == UNION {{With(p, g, a) : a \in Some(p, g)} : p \in P}
             Solving(f) == f = [T \in SUBSET CpGroups |-> IF T = {} THEN {<<>>} ELSE More(f[T \ {pick(T)}], pick(T))]
             plans  == CHOOSE f : Solving(f)
             X      == [T \in SUBSET CpGroups |-> SUBSET [T -> Places]]
             picked == [T \in SUBSET CpGroups |-> pick(T)]
             step   == [g \in CpGroups |-> [P \in UNION {X[T] : T \in SUBSET CpGroups} |-> More(P, g)]]
             Good   == {T \in SUBSET CpGroups : plans[T] \subseteq [T -> Places]}
  <1>1. CpPlans = plans[CpGroups]
    BY DEF CpPlans
  <1>2. IsFiniteSet(CpGroups) /\ CpGroups \subseteq Group
    <2>1. CpGroups \subseteq Group
      BY DEF CpTyped
    <2>2. QED
      BY <2>1, FS_Subset, PlacingAssumption
  <1>3. ASSUME NEW T \in SUBSET CpGroups, T # {} PROVE pick(T) \in T
    <2> DEFINE f == [x \in T |-> -ProcessOrder(Info[x].process)]
    <2>1. f \in [T -> Int] /\ IsFiniteSet(T)
      <3>1. \A x \in T : -ProcessOrder(Info[x].process) \in Int
        BY DEF ProcessOrder
      <3>2. IsFiniteSet(T)
        BY <1>2, FS_Subset
      <3>3. QED
        BY <3>1, <3>2
    <2> HIDE DEF f
    <2>2. PICK x \in T : \A h \in T : f[x] <= f[h]
      BY <1>3, <2>1, BestNumber
    <2>3. \A h \in T : ProcessOrder(Info[h].process) <= ProcessOrder(Info[x].process)
      <3>1. \A h \in T : ProcessOrder(Info[h].process) \in Int /\ f[h] = -ProcessOrder(Info[h].process)
        BY DEF ProcessOrder, f
      <3>2. QED
        BY <2>2, <3>1
    <2>4. QED
      BY <2>3
  <1>4. ASSUME NEW g \in CpGroups PROVE Domain(g) \subseteq Places
    <2>1. EligibleCodes(g) \subseteq Codes
      BY DEF EligibleCodes, Codes, CpTyped
    <2>2. \A n : 0 .. n \subseteq Int
      OBVIOUS
    <2>3. QED
      BY <2>1, <2>2 DEF Domain, Places
  <1>5. ASSUME NEW T \in SUBSET CpGroups, T # {}, NEW P, P \subseteq [T \ {pick(T)} -> Places]
        PROVE  More(P, pick(T)) \subseteq [T -> Places]
    <2> DEFINE g == pick(T)
    <2>1. g \in T /\ g \in CpGroups
      BY <1>3, <1>5
    <2> HIDE DEF g
    <2>2. ASSUME NEW p \in [T \ {g} -> Places], NEW a \in Places PROVE With(p, g, a) \in [T -> Places]
      <3>1. DOMAIN p \cup {g} = T
        BY <2>1
      <3>2. QED
        BY <3>1
    <2>3. \A p : Some(p, g) \subseteq Places
      BY <1>4, <2>1
    <2> HIDE DEF With, Some
    <2>4. ASSUME NEW q \in More(P, g) PROVE q \in [T -> Places]
      <3>1. PICK p \in P : \E a \in Some(p, g) : q = With(p, g, a)
        OBVIOUS
      <3>2. p \in [T \ {g} -> Places]
        BY <1>5 DEF g
      <3>3. QED
        BY <2>2, <2>3, <3>1, <3>2
    <2> HIDE DEF More
    <2>5. QED
      BY <2>4 DEF g
  <1> HIDE DEF pick, More
  <1>6. \E f : Solving(f)
    <2>1. \A T \in SUBSET CpGroups : T # {} => picked[T] \in T
      BY <1>3
    <2>2. {<<>>} \in X[{}]
      <3>1. <<>> \in [{} -> Places]
        OBVIOUS
      <3>2. QED
        BY <3>1
    <2>3. ASSUME NEW T \in SUBSET CpGroups, T # {}, NEW P \in X[T \ {picked[T]}]
          PROVE  step[picked[T]][P] \in X[T] /\ step[picked[T]][P] = More(P, pick(T))
      <3>1. picked[T] = pick(T) /\ pick(T) \in T /\ pick(T) \in CpGroups
        BY <1>3, <2>3
      <3>2. T \ {pick(T)} \in SUBSET CpGroups
        OBVIOUS
      <3>3. P \subseteq [T \ {pick(T)} -> Places]
        BY <2>3, <3>1, <3>2
      <3>4. P \in UNION {X[U] : U \in SUBSET CpGroups}
        BY <2>3, <3>1, <3>2
      <3>5. step[picked[T]][P] = More(P, pick(T))
        BY <3>1, <3>4
      <3>6. More(P, pick(T)) \subseteq [T -> Places]
        BY <1>5, <2>3, <3>3
      <3>7. X[T] = SUBSET [T -> Places]
        OBVIOUS
      <3> HIDE DEF X, step, picked
      <3>8. QED
        BY <3>5, <3>6, <3>7
    <2> HIDE DEF X, picked, step
    <2>4. \E f : IsFold(f, CpGroups, X, {<<>>}, picked, step)
      <3>1. \A T \in SUBSET CpGroups : T # {} => \A P \in X[T \ {picked[T]}] : step[picked[T]][P] \in X[T]
        BY <2>3
      <3>2. QED
        BY <1>2, <2>1, <2>2, <3>1, FoldExists
    <2>5. PICK f : IsFold(f, CpGroups, X, {<<>>}, picked, step)
      BY <2>4
    <2>6. ASSUME NEW T \in SUBSET CpGroups PROVE f[T] = IF T = {} THEN {<<>>} ELSE More(f[T \ {pick(T)}], pick(T))
      <3>1. CASE T = {}
        BY <2>5, <3>1 DEF IsFold
      <3>2. CASE T # {}
        <4>1. picked[T] = pick(T) /\ T \ {picked[T]} \in SUBSET CpGroups
          BY DEF picked
        <4>2. f[T \ {picked[T]}] \in X[T \ {picked[T]}]
          BY <2>5, <4>1 DEF IsFold
        <4>3. f[T] = step[picked[T]][f[T \ {picked[T]}]]
          BY <2>5, <3>2 DEF IsFold
        <4>4. step[picked[T]][f[T \ {picked[T]}]] = More(f[T \ {picked[T]}], pick(T))
          BY <2>3, <3>2, <4>2
        <4>5. QED
          BY <3>2, <4>1, <4>3, <4>4
      <3>3. QED
        BY <3>1, <3>2
    <2>7. f = [T \in SUBSET CpGroups |-> f[T]]
      BY <2>5 DEF IsFold
    <2>8. Solving(f)
      BY <2>6, <2>7, Zenon
    <2>9. QED
      BY <2>8
  <1>7. Solving(plans)
    <2> HIDE DEF Solving
    <2>1. QED
      BY <1>6
  <1>8. ASSUME NEW T \in SUBSET CpGroups, \A x \in T : T \ {x} \in Good PROVE T \in Good
    <2>1. plans[T] = IF T = {} THEN {<<>>} ELSE More(plans[T \ {pick(T)}], pick(T))
      <3> HIDE DEF plans
      <3>1. QED
        BY <1>7
    <2> HIDE DEF plans
    <2>2. CASE T = {}
      <3>1. <<>> \in [{} -> Places]
        OBVIOUS
      <3>2. {<<>>} \subseteq [T -> Places]
        BY <2>2, <3>1
      <3>3. plans[T] = {<<>>}
        BY <2>1, <2>2
      <3>4. QED
        BY <3>2, <3>3
    <2>3. CASE T # {}
      <3>1. plans[T \ {pick(T)}] \subseteq [T \ {pick(T)} -> Places]
        BY <1>3, <1>8, <2>3
      <3>2. More(plans[T \ {pick(T)}], pick(T)) \subseteq [T -> Places]
        BY <1>5, <2>3, <3>1
      <3>3. plans[T] \subseteq [T -> Places]
        BY <2>1, <2>3, <3>2
      <3>4. QED
        BY <3>3
    <2>4. QED
      BY <2>2, <2>3
  <1>9. CpGroups \in Good
    <2> HIDE DEF Good
    <2>1. QED
      BY <1>2, <1>8, SetInduction
  <1>10. QED
    BY <1>1, <1>9

(* The lot of a machine that a group waits for is a number of steps.       *)
LEMMA PredReadyIs ==
    ASSUME CpTyped, found.choice \in [CpGroups -> Places], NEW g
    PROVE  PredReady(g) \in Int
  <1> DEFINE before == {h \in CpGroups : PrecedesOf(h, g)}
             lot(h) == Max({1, Steps(h) \div Max({FirstBatchDrums(h), 1})})
             at     == [h \in before |-> found.choice[h].start + lot(h)]
             ready_ == {at[h] : h \in before}
  <1>1. IsFiniteSet(before) /\ before \subseteq Group
    <2>1. CpGroups \subseteq Group
      BY DEF CpTyped
    <2>2. before \subseteq Group
      BY <2>1
    <2>3. QED
      BY <2>2, FS_Subset, PlacingAssumption
  <1>2. ASSUME NEW h \in before PROVE at[h] \in Int
    <2> DEFINE n == Max({FirstBatchDrums(h), 1})
               q == Steps(h) \div n
    <2>1. h \in CpGroups /\ h \in Group
      BY <1>1
    <2>2. FirstBatchDrums(h) \in Nat
      BY <2>1, GroupIs, CpSatAssumption DEF FirstBatchDrums
    <2>3. n \in Nat /\ 1 <= n
      <3>1. 1 \in Nat
        OBVIOUS
      <3> HIDE DEF n
      <3>2. n \in {FirstBatchDrums(h), 1} /\ FirstBatchDrums(h) <= n /\ 1 <= n
        BY <2>2, <3>1, PairsAre, Zenon DEF n
      <3>3. QED
        BY <2>2, <3>2
    <2> HIDE DEF n
    <2>4. q \in Int
      <3>1. Steps(h) \in Int
        BY <2>1 DEF CpTyped, Steps
      <3>2. QED
        BY <2>3, <3>1
    <2> HIDE DEF q
    <2>5. Max({1, q}) \in Int
      <3>1. 1 \in Int
        OBVIOUS
      <3>2. Max({1, q}) \in {1, q}
        BY <2>4, <3>1, GreaterIs, Zenon
      <3>3. QED
        BY <2>4, <3>2
    <2>6. found.choice[h].start \in Int
      BY <2>1 DEF Places
    <2>7. at[h] = found.choice[h].start + Max({1, q})
      BY DEF q, n
    <2> HIDE DEF at
    <2>8. QED
      BY <2>5, <2>6, <2>7
  <1>3. IsFiniteSet(ready_)
    <2> HIDE DEF at, before
    <2>1. QED
      BY <1>1, ImageIsFinite
  <1>4. ready_ \subseteq Int
    <2> HIDE DEF at
    <2>1. QED
      BY <1>2
  <1>5. PredReady(g) = IF before = {} THEN 0 ELSE Min(ready_)
    <2>1. ready_ = {found.choice[h].start + lot(h) : h \in before}
      OBVIOUS
    <2>2. QED
      BY <2>1 DEF PredReady
  <1>6. before # {} => ready_ # {}
    OBVIOUS
  <1> HIDE DEF ready_, before
  <1>7. before # {} => Min(ready_) \in Int
    BY <1>3, <1>4, <1>6, MinIsIn
  <1>8. QED
    BY <1>5, <1>7

(* The key of a group is ten numbers, of which the first is its process.   *)
LEMMA Joined ==
    ASSUME NEW s \in Seq(Int), NEW t \in Seq(Int)
    PROVE  /\ s \o t \in Seq(Int) /\ Len(s \o t) = Len(s) + Len(t)
           /\ Len(s) > 0 => (s \o t)[1] = s[1]
  OBVIOUS

LEMMA TenNumbers ==
    ASSUME NEW s \in Seq(Int), Len(s) = 10
    PROVE  IsKey(s, 10)
  <1>1. ASSUME NEW q \in Seq(Int) PROVE DOMAIN q = 1 .. Len(q) /\ \A i \in DOMAIN q : q[i] \in Int
    OBVIOUS
  <1>2. DOMAIN s = 1 .. Len(s) /\ \A i \in DOMAIN s : s[i] \in Int
    BY <1>1, Zenon
  <1>3. QED
    BY <1>2 DEF IsKey

LEMMA SolvedKeyIs ==
    ASSUME CpTyped, found.choice \in [CpGroups -> Places], NEW g \in CpGroups
    PROVE  IsKey(SolvedOrderKey(g), 10) /\ SolvedOrderKey(g)[1] = ProcessOrder(Info[g].process)
  <1> DEFINE none  == <<0, 0, 0, 0, 0>>
             mates == {h \in CpGroups : Cluster(h) = Cluster(g)}
             wires == {x \in CpGroups : Info[x].st /\ WireOf[Info[x].sq] = WireOf[Info[g].sq]}
             m1    == Min({EarliestDue(h) : h \in mates})
             m2    == Min({PredReady(h) : h \in mates})
             m3    == ColorRank(Info[g].color)
             m4    == HalfWeek(Orders(g)[1].due)
             s     == StrandClusterDue(g)
             w     == WireOf[Info[g].sq]
             at    == found.choice[g].start
             due   == EarliestDue(g)
             prio  == Info[g].prio
             po    == ProcessOrder(Info[g].process)
             b     == IF Info[g].core THEN <<-1, -1>> \o none
                      ELSE IF Info[g].st THEN <<s, w>> \o none
                      ELSE IF Info[g].process \in Sheathing THEN <<Never, 0, at>> \o <<m1, m2, m3, m4>>
                      ELSE <<due, 0>> \o none
  <1>1. CpGroups \subseteq Group /\ g \in Group
    BY DEF CpTyped
  <1>2. po \in Int /\ w \in Int /\ due \in Int /\ prio \in Int /\ Never \in Int /\ at \in Int
    <2>1. po \in Int
      BY DEF ProcessOrder
    <2>2. w \in Int /\ due \in Int /\ prio \in Int /\ Never \in Int
      BY <1>1, GroupIs, DueIs, PlacingAssumption, CpSatAssumption
    <2>3. at \in Int
      BY DEF Places
    <2>4. QED
      BY <2>1, <2>2, <2>3
  <1>3. m1 \in Int
    <2>1. mates # {} /\ mates \subseteq Group
      BY <1>1
    <2>2. QED
      BY <2>1, LeastDueIs
  <1>4. m2 \in Int
    <2> DEFINE f == [h \in mates |-> PredReady(h)]
               S == {f[h] : h \in mates}
    <2>1. IsFiniteSet(mates)
      BY <1>1, FS_Subset, PlacingAssumption
    <2>2. IsFiniteSet(S)
      <3> HIDE DEF f, mates
      <3>1. QED
        BY <2>1, ImageIsFinite
    <2>3. S \subseteq Int /\ S # {}
      BY PredReadyIs
    <2>4. {PredReady(h) : h \in mates} = S
      OBVIOUS
    <2> HIDE DEF S
    <2>5. QED
      BY <2>2, <2>3, <2>4, MinIsIn
  <1>5. m3 \in Int /\ m4 \in Int
    <2>1. Orders(g)[1].due \in Int
      BY <1>1, GroupIs
    <2>2. QED
      BY <2>1 DEF ColorRank, HalfWeek
  <1>6. Info[g].st => s \in Int
    <2>1. Info[g].st => wires # {}
      OBVIOUS
    <2>2. wires \subseteq Group
      BY <1>1
    <2>3. Info[g].st => Min({EarliestDue(h) : h \in wires}) \in Int
      BY <2>1, <2>2, LeastDueIs
    <2>4. QED
      BY <1>2, <2>3 DEF StrandClusterDue
  <1>7. SolvedOrderKey(g) = <<po>> \o b \o <<due, prio>>
    BY DEF SolvedOrderKey, ClusterKey
  <1> HIDE DEF m1, m2, m3, m4, s, w, at, due, prio, po
  <1>8. b \in Seq(Int) /\ Len(b) = 7
    <2>1. none \in Seq(Int) /\ Len(none) = 5
      OBVIOUS
    <2> HIDE DEF none
    <2>2. ASSUME NEW x \in Int, NEW y \in Int PROVE <<x, y>> \o none \in Seq(Int) /\ Len(<<x, y>> \o none) = 7
      <3>1. <<x, y>> \in Seq(Int) /\ Len(<<x, y>>) = 2
        OBVIOUS
      <3>2. /\ <<x, y>> \o none \in Seq(Int)
            /\ Len(<<x, y>> \o none) = Len(<<x, y>>) + Len(none)
        BY <2>1, <3>1, Joined, Zenon
      <3>3. QED
        BY <2>1, <3>1, <3>2
    <2>3. <<Never, 0, at>> \o <<m1, m2, m3, m4>> \in Seq(Int) /\ Len(<<Never, 0, at>> \o <<m1, m2, m3, m4>>) = 7
      <3>1. <<Never, 0, at>> \in Seq(Int) /\ Len(<<Never, 0, at>>) = 3
        BY <1>2
      <3>2. <<m1, m2, m3, m4>> \in Seq(Int) /\ Len(<<m1, m2, m3, m4>>) = 4
        BY <1>3, <1>4, <1>5
      <3> DEFINE x == <<Never, 0, at>>
                 y == <<m1, m2, m3, m4>>
      <3> HIDE DEF x, y
      <3>3. x \o y \in Seq(Int) /\ Len(x \o y) = Len(x) + Len(y)
        BY <3>1, <3>2, Joined, Zenon DEF x, y
      <3>4. Len(x \o y) = 7
        BY <3>1, <3>2, <3>3 DEF x, y
      <3>5. QED
        BY <3>3, <3>4 DEF x, y
    <2>4. -1 \in Int /\ 0 \in Int
      OBVIOUS
    <2>5. CASE Info[g].core
      BY <2>2, <2>4, <2>5, Zenon
    <2>6. CASE ~Info[g].core /\ Info[g].st
      BY <1>2, <1>6, <2>2, <2>6, Zenon
    <2>7. CASE ~Info[g].core /\ ~Info[g].st
      BY <1>2, <2>2, <2>3, <2>4, <2>7, Zenon
    <2>8. QED
      BY <2>5, <2>6, <2>7, Zenon
  <1> HIDE DEF b
  <1>9. /\ <<po>> \in Seq(Int) /\ Len(<<po>>) = 1 /\ <<po>>[1] = po
        /\ <<due, prio>> \in Seq(Int) /\ Len(<<due, prio>>) = 2
    BY <1>2
  <1> DEFINE f == <<po>>
             l == <<due, prio>>
             k == (f \o b) \o l
  <1> HIDE DEF f, l
  <1>10. f \o b \in Seq(Int) /\ Len(f \o b) = 8 /\ (f \o b)[1] = po
    <2>1. f \in Seq(Int) /\ Len(f) = 1 /\ f[1] = po
      BY <1>9 DEF f
    <2>2. f \o b \in Seq(Int) /\ Len(f \o b) = Len(f) + Len(b) /\ (Len(f) > 0 => (f \o b)[1] = f[1])
      BY <1>8, <2>1, Joined
    <2>3. QED
      BY <1>8, <2>1, <2>2
  <1>11. k \in Seq(Int) /\ Len(k) = 10 /\ k[1] = po
    <2>1. l \in Seq(Int) /\ Len(l) = 2
      BY <1>9 DEF l
    <2> DEFINE h == f \o b
    <2>2. h \in Seq(Int) /\ Len(h) = 8 /\ h[1] = po
      BY <1>10
    <2> HIDE DEF h
    <2>3. h \o l \in Seq(Int) /\ Len(h \o l) = Len(h) + Len(l) /\ (Len(h) > 0 => (h \o l)[1] = h[1])
      BY <2>1, <2>2, Joined
    <2>4. h \o l \in Seq(Int) /\ Len(h \o l) = 10 /\ (h \o l)[1] = po
      BY <2>1, <2>2, <2>3
    <2>5. QED
      BY <2>4 DEF h
  <1> HIDE DEF k
  <1>12. IsKey(k, 10)
    BY <1>11, TenNumbers
  <1>13. SolvedOrderKey(g) = k
    BY <1>7 DEF k, f, l
  <1>14. QED
    BY <1>11, <1>12, <1>13 DEF po

(* The order of the groups: each once, and none after one that it precedes.*)
LEMMA OrderIs ==
    ASSUME CpTyped, found.choice \in [CpGroups -> Places]
    PROVE  /\ SolvedOrder \in Seq(CpGroups)
           /\ \A i, j \in DOMAIN SolvedOrder : i < j => ~Precedes(SolvedOrder[j], SolvedOrder[i])
           /\ \A i, j \in DOMAIN SolvedOrder : i # j => SolvedOrder[i] # SolvedOrder[j]
  <1> DEFINE key == [g \in CpGroups |-> SolvedOrderKey(g)]
             s   == SolvedOrder
  <1>1. IsFiniteSet(CpGroups)
    <2>1. CpGroups \subseteq Group
      BY DEF CpTyped
    <2>2. QED
      BY <2>1, FS_Subset, PlacingAssumption
  <1>2. \A g \in CpGroups : IsKey(key[g], 10) /\ key[g][1] = ProcessOrder(Info[g].process)
    BY SolvedKeyIs
  <1>3. s = Sorted(CpGroups, key)
    BY DEF SolvedOrder
  <1>4. s \in InOrder(CpGroups, key)
    <2> HIDE DEF key, s
    <2>1. QED
      BY <1>1, <1>2, <1>3, SortedIs
  <1> HIDE DEF s, key
  <1>5. ASSUME NEW i \in DOMAIN s, NEW j \in DOMAIN s, i < j PROVE ~Precedes(s[j], s[i])
    <2>1. s[i] \in CpGroups /\ s[j] \in CpGroups
      BY <1>4 DEF InOrder
    <2>2. ~Before(key[s[j]], key[s[i]])
      BY <1>4, <1>5 DEF InOrder
    <2>3. SUFFICES ASSUME Precedes(s[j], s[i]) PROVE FALSE
      OBVIOUS
    <2> DEFINE a == key[s[j]]
               b == key[s[i]]
    <2>4. a[1] < b[1] /\ DOMAIN a = 1 .. 10
      BY <1>2, <2>1, <2>3 DEF Precedes, IsKey
    <2> HIDE DEF a, b
    <2>5. Before(a, b)
      <3>1. \A l \in 1 .. 1 - 1 : a[l] = b[l]
        OBVIOUS
      <3>2. 1 \in DOMAIN a
        BY <2>4
      <3>3. QED
        BY <2>4, <3>1, <3>2 DEF Before
    <2>6. QED
      BY <2>2, <2>5 DEF a, b
  <1>6. QED
    BY <1>4, <1>5 DEF InOrder, s

-----------------------------------------------------------------------------
(* A group gets its tasks *)

(* A Monday after a time is later than that.                               *)
LEMMA AwayIs ==
    ASSUME NEW g, NEW code, NEW earliest \in Nat
    PROVE  AwayFromWeekend(g, code, earliest) \in Nat /\ earliest <= AwayFromWeekend(g, code, earliest)
  <1> DEFINE d == Day(earliest)
  <1>1. d \in Nat /\ earliest < 48 * d + 48
    BY DayIs
  <1> HIDE DEF d
  <1>2. WeekDay(d) \in 0 .. 6
    BY <1>1 DEF WeekDay
  <1>3. MondayAfter(earliest) = 48 * (d + 7 - WeekDay(d)) + 16
    <2>1. d + 7 - WeekDay(d) \in Int
      BY <1>1, <1>2
    <2>2. QED
      BY <2>1 DEF MondayAfter, Morning, Ticks, d
  <1>4. MondayAfter(earliest) \in Nat /\ earliest <= MondayAfter(earliest)
    BY <1>1, <1>2, <1>3
  <1>5. AwayFromWeekend(g, code, earliest) \in {earliest, MondayAfter(earliest)}
    BY DEF AwayFromWeekend
  <1>6. QED
    BY <1>4, <1>5

(* Wherever a group goes to, it waits for the first drum of the process    *)
(* before.                                                                 *)
LEMMA EarliestHereIs ==
    ASSUME Typed, NEW g \in Group
    PROVE  /\ EarliestHere(g) \in Nat
           /\ \A x \in PredecessorFirst(g, FALSE) : x + Curing(g) <= EarliestHere(g)
  <1> DEFINE code  == found.choice[g].code
             after == EarliestAfter(g, FALSE, Made)
             on    == EarliestOn(g, code, after)
  <1>1. Made \subseteq DOMAIN plan /\ FALSE \in BOOLEAN
    BY DEF Made
  <1>2. /\ after \in Nat /\ Curing(g) \in Nat
        /\ \A x \in PredecessorFirst(g, FALSE) : x + Curing(g) <= after
    BY <1>1, EarliestAfterIs
  <1> HIDE DEF after, code
  <1>3. on \in Nat /\ after <= on
    BY <1>2, EarliestOnIs
  <1> HIDE DEF on
  <1>4. AwayFromWeekend(g, code, on) \in Nat /\ on <= AwayFromWeekend(g, code, on)
    BY <1>3, AwayIs
  <1>5. EarliestHere(g) = AwayFromWeekend(g, code, on)
    BY DEF EarliestHere, code, on, after
  <1>6. PredecessorFirst(g, FALSE) \subseteq Nat
    BY <1>1, PredecessorFirstIs
  <1>7. ASSUME NEW x \in PredecessorFirst(g, FALSE) PROVE x + Curing(g) <= EarliestHere(g)
    <2>1. x \in Nat /\ x + Curing(g) <= after
      BY <1>2, <1>6
    <2>2. QED
      BY <1>2, <1>3, <1>4, <1>5, <2>1
  <1>8. QED
    BY <1>4, <1>5, <1>7

LEMMA ChainEndIs ==
    ASSUME Typed, NEW g \in Group
    PROVE  ChainEnd(g) \in Nat \cup {NoTime}
  <1> DEFINE own   == IF Info[g].process \notin InsulationProcesses \cup Sheathing THEN {}
                      ELSE {plan[i].end : i \in UNION {LastTaskOf(Orders(g)[k].order) : k \in DOMAIN Orders(g)}}
             procs == (IF Info[g].process \in DOMAIN Predecessor /\ own = {} THEN {Predecessor[Info[g].process]} ELSE {})
                      \cup (IF Info[g].process \in Sheathing THEN {"assembly"} ELSE {})
             pairs == procs \X Sections(g)
             f     == [k \in pairs |-> process_end_by_sq[k]]
             known == {f[k] : k \in pairs} \ {NoTime}
             last  == IF own = {} THEN {} ELSE {Max(own)}
             ends  == known \cup last
  <1>1. IsFiniteSet(own) /\ own \subseteq Nat
    <2> DEFINE A == UNION {LastTaskOf(Orders(g)[k].order) : k \in DOMAIN Orders(g)}
    <2>1. A \subseteq DOMAIN plan
      BY LastTaskIs
    <2>2. IsFiniteSet({plan[i].end : i \in A}) /\ {plan[i].end : i \in A} \subseteq Nat
      BY <2>1, TimesAre
    <2>3. own = {} \/ own = {plan[i].end : i \in A}
      OBVIOUS
    <2> HIDE DEF A, own
    <2>4. QED
      BY <2>2, <2>3, FS_EmptySet
  <1>2. IsFiniteSet(last) /\ last \subseteq Nat
    <2> HIDE DEF own
    <2>1. CASE own = {}
      BY <2>1, FS_EmptySet
    <2>2. CASE own # {}
      <3>1. own \subseteq Int
        BY <1>1
      <3>2. Max(own) \in own
        BY <1>1, <2>2, <3>1, MaxIsIn
      <3>3. IsFiniteSet({Max(own)})
        BY FS_Singleton
      <3>4. QED
        BY <1>1, <2>2, <3>2, <3>3
    <2>3. QED
      BY <2>1, <2>2
  <1> HIDE DEF last
  <1>3. procs \subseteq Processes /\ procs \subseteq {Predecessor[Info[g].process]} \cup {"assembly"}
    <2> HIDE DEF own
    <2>1. procs \subseteq Processes
      BY DEF Predecessor, Processes, InsulationProcesses
    <2>2. QED
      BY <2>1
  <1>4. IsFiniteSet(procs)
    <2> HIDE DEF procs
    <2>1. IsFiniteSet({Predecessor[Info[g].process]}) /\ IsFiniteSet({"assembly"})
      BY FS_Singleton
    <2>2. IsFiniteSet({Predecessor[Info[g].process]} \cup {"assembly"})
      BY <2>1, FS_Union
    <2>3. QED
      BY <1>3, <2>2, FS_Subset
  <1>5. ChainEnd(g) = IF ends = {} THEN NoTime ELSE Max(ends)
    <2>1. {process_end_by_sq[k] : k \in procs \X Sections(g)} = {f[k] : k \in pairs}
      OBVIOUS
    <2>2. QED
      BY <2>1 DEF ChainEnd, last
  <1> HIDE DEF procs, own
  <1>6. IsFiniteSet(pairs) /\ pairs \subseteq Keys
    BY <1>3, <1>4, SectionsAre, FS_Product DEF Keys
  <1>7. known \subseteq Nat
    BY <1>6 DEF Typed
  <1>8. IsFiniteSet(known)
    <2> HIDE DEF f, pairs
    <2>1. IsFiniteSet({f[k] : k \in pairs})
      BY <1>6, ImageIsFinite
    <2>2. known \in SUBSET {f[k] : k \in pairs}
      OBVIOUS
    <2> HIDE DEF known
    <2>3. QED
      BY <2>1, <2>2, FS_Subset
  <1> HIDE DEF known
  <1>9. IsFiniteSet(ends) /\ ends \subseteq Int /\ ends \subseteq Nat
    <2>1. IsFiniteSet(ends)
      BY <1>2, <1>8, FS_Union
    <2>2. QED
      BY <1>2, <1>7, <2>1
  <1> HIDE DEF ends
  <1>10. ends # {} => Max(ends) \in ends
    BY <1>9, MaxIsIn
  <1>11. QED
    BY <1>5, <1>9, <1>10

(* On its machine, a group gets one task with all of its drums.            *)
LEMMA HereIs ==
    ASSUME CpTyped, found.choice \in [CpGroups -> Places], NEW g \in CpGroups, NEW earliest \in Nat,
           PlaceHere(g, earliest)
    PROVE  \E task \in TasksFor(g, earliest) :
              /\ plan' = plan \o <<task>> /\ Record(g, <<task>>)
              /\ task.alone /\ task.drums = Info[g].drums
  <1> DEFINE code     == found.choice[g].code
             duration == Duration(g, code)
             end      == ChainEnd(g)
             setup    == Setup(g, code)
  <1>1. PICK block \in BlocksFrom(g, code, duration, earliest, end) :
           \E task \in {NewTask(g, code, block, setup, Info[g].drums, TRUE)} :
              plan' = Append(plan, task) /\ Record(g, <<task>>)
    BY DEF PlaceHere
  <1>2. g \in Group /\ code \in Codes /\ Typed
    BY DEF CpTyped, Places
  <1> HIDE DEF code
  <1>3. duration \in Nat /\ end \in Nat \cup {NoTime} /\ setup \in Nat /\ Info[g].drums \in Nat
    BY <1>2, DurationIs, ChainEndIs, SetupIs, GroupIs
  <1> HIDE DEF duration, end, setup
  <1>4. block.start \in Nat /\ block.end \in Nat /\ earliest <= block.start
    BY <1>2, <1>3, BlocksFromAre
  <1> DEFINE task == NewTask(g, code, block, setup, Info[g].drums, TRUE)
  <1>5. task \in TasksFor(g, earliest) /\ task.alone /\ task.drums = Info[g].drums
    <2>1. task \in TasksFor(g, earliest)
      BY <1>2, <1>3, <1>4, NewTaskIs
    <2>2. task.alone /\ task.drums = Info[g].drums
      BY DEF NewTask
    <2>3. QED
      BY <2>1, <2>2
  <1>6. plan' = Append(plan, task) /\ Record(g, <<task>>)
    BY <1>1
  <1> HIDE DEF task
  <1>7. task \in TaskRows /\ plan \in Seq(TaskRows)
    BY <1>2, <1>5 DEF TasksFor, Typed
  <1>8. plan' = plan \o <<task>>
    BY <1>6, <1>7
  <1>9. QED
    BY <1>5, <1>6, <1>8

(* The group whose turn it is gets one task with all of its drums, or some *)
(* that share them; none begins before the first drum of the process       *)
(* before.                                                                 *)
Waited(g, e) == \E multi \in BOOLEAN : \A x \in PredecessorFirst(g, multi) : x + Curing(g) <= e

ReadyIs ==
    ready # NoTime =>
       /\ todo # <<>> /\ ready \in Nat
       /\ \A x \in PredecessorFirst(Head(todo), FALSE) : x + Curing(Head(todo)) <= ready

LEMMA PlacedIs ==
    ASSUME CpTyped, ReadyIs, found.choice \in [CpGroups -> Places], todo \in Seq(CpGroups), PlaceGroup
    PROVE  /\ todo # <<>> /\ Head(todo) \in CpGroups /\ todo' = Tail(todo)
           /\ \E given \in Seq(TaskRows), e \in Nat :
                 /\ given # <<>> /\ plan' = plan \o given /\ Record(Head(todo), given)
                 /\ \A i \in DOMAIN given : given[i] \in TasksFor(Head(todo), e)
                 /\ Waited(Head(todo), e)
                 /\ \/ \A i \in DOMAIN given : ~given[i].alone
                    \/ /\ given = <<given[1]>>
                       /\ given[1].alone /\ given[1].drums = Info[Head(todo)].drums
  <1> DEFINE g  == Head(todo)
             ms == meta[g].eligible
             after == EarliestAfter(g, TRUE, Made)
  <1>1. todo # <<>> /\ todo' = Tail(todo)
    BY DEF PlaceGroup
  <1>2. g \in CpGroups
    BY <1>1
  <1>3. g \in Group /\ ms \subseteq DOMAIN Machines /\ Typed /\ NoTime \notin Nat
    BY <1>2, PlacingAssumption DEF CpTyped
  <1>4. \/ ~Alone(g) /\ PlaceOnSeveral(g, ms, after)
        \/ \E e \in {ready, EarliestHere(g)} :
              PlaceHere(g, e) /\ ((e = ready /\ ready # NoTime) \/ e = EarliestHere(g))
    BY DEF PlaceGroup
  <1>5. CASE ~Alone(g) /\ PlaceOnSeveral(g, ms, after)
    <2>1. Made \subseteq DOMAIN plan /\ TRUE \in BOOLEAN
      BY DEF Made
    <2>2. after \in Nat /\ \A x \in PredecessorFirst(g, TRUE) : x + Curing(g) <= after
      BY <1>3, <2>1, EarliestAfterIs
    <2>3. Multi(g, ms)
      BY <1>5 DEF Alone
    <2>4. Waited(g, after)
      BY <2>2 DEF Waited
    <2> HIDE DEF after, ms, g
    <2>5. PICK given \in Seq(TaskRows) :
              /\ given # <<>> /\ plan' = plan \o given /\ Record(g, given)
              /\ \A i \in DOMAIN given : given[i] \in TasksFor(g, after) /\ ~given[i].alone
      BY <1>3, <1>5, <2>2, <2>3, SeveralAre
    <2>6. QED
      BY <1>1, <1>2, <2>2, <2>4, <2>5 DEF g
  <1>6. ASSUME NEW e, PlaceHere(g, e), (e = ready /\ ready # NoTime) \/ e = EarliestHere(g)
        PROVE  \E given \in Seq(TaskRows) :
                 /\ e \in Nat /\ given # <<>> /\ plan' = plan \o given /\ Record(g, given)
                 /\ \A i \in DOMAIN given : given[i] \in TasksFor(g, e)
                 /\ Waited(g, e)
                 /\ given = <<given[1]>>
                 /\ given[1].alone /\ given[1].drums = Info[g].drums
    <2>1. e \in Nat /\ \A x \in PredecessorFirst(g, FALSE) : x + Curing(g) <= e
      BY <1>3, <1>6, EarliestHereIs DEF ReadyIs
    <2>2. Waited(g, e)
      BY <2>1 DEF Waited
    <2> HIDE DEF g
    <2>3. PICK task \in TasksFor(g, e) :
              /\ plan' = plan \o <<task>> /\ Record(g, <<task>>)
              /\ task.alone /\ task.drums = Info[g].drums
      BY <1>2, <1>6, <2>1, HereIs
    <2>4. task \in TaskRows
      BY DEF TasksFor
    <2>5. /\ <<task>> \in Seq(TaskRows) /\ <<task>> # <<>> /\ <<task>>[1] = task
          /\ \A i \in DOMAIN <<task>> : <<task>>[i] \in TasksFor(g, e)
      BY <2>4
    <2>6. QED
      BY <2>1, <2>2, <2>3, <2>5
  <1> HIDE DEF g, ms, after
  <1>7. ASSUME NEW e, PlaceHere(g, e), (e = ready /\ ready # NoTime) \/ e = EarliestHere(g)
        PROVE  \E given \in Seq(TaskRows), n \in Nat :
                 /\ given # <<>> /\ plan' = plan \o given /\ Record(g, given)
                 /\ \A i \in DOMAIN given : given[i] \in TasksFor(g, n)
                 /\ Waited(g, n)
                 /\ \/ \A i \in DOMAIN given : ~given[i].alone
                    \/ /\ given = <<given[1]>>
                       /\ given[1].alone /\ given[1].drums = Info[g].drums
    <2>1. PICK given \in Seq(TaskRows) :
                 /\ e \in Nat /\ given # <<>> /\ plan' = plan \o given /\ Record(g, given)
                 /\ \A i \in DOMAIN given : given[i] \in TasksFor(g, e)
                 /\ Waited(g, e)
                 /\ given = <<given[1]>>
                 /\ given[1].alone /\ given[1].drums = Info[g].drums
      BY <1>6, <1>7, Zenon
    <2>2. QED
      BY <2>1
  <1>8. QED
    BY <1>1, <1>2, <1>4, <1>5, <1>7 DEF g

-----------------------------------------------------------------------------
(* Room is made for a group *)

(* A block is cut at the end of some of its drums, or taken off, and the   *)
(* rest is handed on.                                                      *)
Cut(i, k, end) ==
    /\ i \in DOMAIN plan /\ ~plan[i].gone /\ k \in 1 .. drums_of[plan[i].group] /\ end \in Nat
    /\ plan' = [plan EXCEPT ![i] = [plan[i] EXCEPT !.end = end, !.drums = k]]
    /\ preempted_remainder' = Append(preempted_remainder, Remainder(i, drums_of[plan[i].group] - k, 0))
    /\ drums_of' = [drums_of EXCEPT ![plan[i].group] = k]

TakenOff(i) ==
    /\ i \in DOMAIN plan /\ ~plan[i].gone
    /\ plan' = [plan EXCEPT ![i] = [plan[i] EXCEPT !.gone = TRUE]]
    /\ preempted_remainder' = Append(preempted_remainder, Remainder(i, drums_of[plan[i].group], GroupAt(i).setup))
    /\ drums_of' = drums_of

LEMMA CompletableIs ==
    ASSUME CpTyped, NEW i \in DOMAIN plan, NEW at
    PROVE  /\ DrumsCompletable(i, at) \in 0 .. drums_of[plan[i].group]
           /\ DrumsCompletable(i, at) > 0 => EndAfter(i, DrumsCompletable(i, at)) <= at
  <1> DEFINE n == drums_of[plan[i].group]
             K == {k \in 1 .. n : EndAfter(i, k) <= at}
  <1>1. n \in Nat
    BY TasksAre DEF CpTyped
  <1> HIDE DEF n
  <1>2. IsFiniteSet({0} \cup K)
    <2>1. IsFiniteSet(1 .. n) /\ K \subseteq 1 .. n
      BY <1>1, FS_Interval
    <2>2. IsFiniteSet(K) /\ IsFiniteSet({0})
      BY <2>1, FS_Subset, FS_Singleton
    <2>3. QED
      BY <2>2, FS_Union
  <1>3. {0} \cup K \subseteq 0 .. n /\ {0} \cup K # {} /\ {0} \cup K \subseteq Int
    BY <1>1
  <1>4. DrumsCompletable(i, at) = Max({0} \cup K)
    BY DEF DrumsCompletable, n
  <1>5. \A k \in K : EndAfter(i, k) <= at
    OBVIOUS
  <1> HIDE DEF K
  <1>6. Max({0} \cup K) \in {0} \cup K
    BY <1>2, <1>3, MaxIsIn
  <1>7. Max({0} \cup K) > 0 => Max({0} \cup K) \in K
    BY <1>6
  <1>8. QED
    BY <1>3, <1>4, <1>5, <1>6, <1>7 DEF n

LEMMA EndAfterIs ==
    ASSUME Typed, NEW i \in DOMAIN plan, NEW k \in Nat
    PROVE  EndAfter(i, k) \in Nat
  <1>1. /\ plan[i].cat \in Categories /\ plan[i].start \in Nat /\ plan[i].setup \in Nat
        /\ plan[i].group \in Group
    BY TasksAre
  <1>2. work[plan[i].group] \in Nat
    BY <1>1 DEF Typed
  <1>3. k * work[plan[i].group] \in Nat
    BY <1>2
  <1>4. plan[i].setup + k * work[plan[i].group] \in Nat
    BY <1>1, <1>3
  <1>5. QED
    BY <1>1, <1>4, EndOfIs DEF EndAfter

LEMMA RoomIs ==
    ASSUME CpTyped, todo \in Seq(CpGroups), MakeRoom
    PROVE  /\ todo # <<>> /\ todo' = todo /\ phase = "placing"
           /\ UNCHANGED <<lexVars, meta, base, work, process_end_by_sq, process_first_output_by_sq>>
           /\ ready' \in Nat
           /\ \A x \in PredecessorFirst(Head(todo), FALSE) : x + Curing(Head(todo)) <= ready'
           /\ \/ UNCHANGED <<plan, preempted_remainder, drums_of>>
              \/ \E i, k, end : Cut(i, k, end)
              \/ \E i : TakenOff(i)
  <1> DEFINE g == Head(todo)
             at == EarliestHere(g)
             code == found.choice[g].code
  <1>1. /\ todo # <<>> /\ todo' = todo /\ phase = "placing" /\ ready' = at
        /\ UNCHANGED <<lexVars, meta, base, work, process_end_by_sq, process_first_output_by_sq>>
    BY DEF MakeRoom
  <1>2. g \in CpGroups /\ g \in Group /\ Typed
    BY <1>1 DEF CpTyped
  <1>3. at \in Nat /\ \A x \in PredecessorFirst(g, FALSE) : x + Curing(g) <= at
    BY <1>2, EarliestHereIs
  <1>4. \/ UNCHANGED <<plan, preempted_remainder, drums_of>>
        \/ \E i \in InTheWay(code, at) : \E k \in {DrumsCompletable(i, at)} :
              \/ drums_of[plan[i].group] >= 2 /\ k > 0 /\ SplitBlock(i, k)
              \/ DeferBlock(i, g)
    BY DEF MakeRoom
  <1> HIDE DEF g, at, code
  <1>5. ASSUME NEW i \in InTheWay(code, at), NEW k, k = DrumsCompletable(i, at), k > 0, SplitBlock(i, k)
        PROVE  Cut(i, k, EndAfter(i, k))
    <2>1. i \in DOMAIN plan /\ ~plan[i].gone
      BY DEF InTheWay
    <2>2. k \in 0 .. drums_of[plan[i].group]
      BY <1>5, <2>1, CompletableIs
    <2>3. drums_of[plan[i].group] \in Nat
      BY <2>1, TasksAre DEF CpTyped
    <2>4. k \in 1 .. drums_of[plan[i].group] /\ k \in Nat
      BY <1>5, <2>2, <2>3
    <2>5. EndAfter(i, k) \in Nat
      BY <1>2, <2>1, <2>4, EndAfterIs
    <2>6. plan' = [plan EXCEPT ![i] = [plan[i] EXCEPT !.end = EndAfter(i, k), !.drums = k]]
      BY <1>5 DEF SplitBlock
    <2>7. QED
      BY <1>5, <2>1, <2>4, <2>5, <2>6 DEF SplitBlock, Cut
  <1>6. ASSUME NEW i \in InTheWay(code, at), DeferBlock(i, g)
        PROVE  TakenOff(i) \/ UNCHANGED <<plan, preempted_remainder, drums_of>>
    <2>1. i \in DOMAIN plan /\ ~plan[i].gone
      BY DEF InTheWay
    <2>2. QED
      BY <1>6, <2>1 DEF DeferBlock, TakenOff
  <1>7. QED
    BY <1>1, <1>3, <1>4, <1>5, <1>6 DEF g

(* Nothing of a task but its end, its drums and whether it is there is     *)
(* changed, and of no other task anything.                                 *)
Touched ==
    /\ plan' \in Seq(TaskRows) /\ DOMAIN plan' = DOMAIN plan
    /\ \A i \in DOMAIN plan :
          /\ plan'[i].group = plan[i].group /\ plan'[i].start = plan[i].start /\ plan'[i].first = plan[i].first
          /\ plan'[i].kept = plan[i].kept /\ plan'[i].alone = plan[i].alone
          /\ plan[i].gone => plan'[i].gone

LEMMA CutIs ==
    ASSUME CpTyped, NEW i, NEW k, NEW end, Cut(i, k, end)
    PROVE  /\ Touched /\ plan[i].group \in Group /\ Remainder(i, drums_of[plan[i].group] - k, 0) \in Shares
           /\ drums_of[plan[i].group] \in Nat /\ k \in Nat /\ k >= 1 /\ k <= drums_of[plan[i].group]
           /\ plan'[i].drums = k /\ plan'[i].gone = plan[i].gone
           /\ \A j \in DOMAIN plan : j # i => plan'[j] = plan[j]
  <1> DEFINE t == [plan[i] EXCEPT !.end = end, !.drums = k]
  <1>1. i \in DOMAIN plan /\ k \in 1 .. drums_of[plan[i].group] /\ end \in Nat /\ plan' = [plan EXCEPT ![i] = t]
    BY DEF Cut
  <1>2. plan[i] \in TaskRows /\ plan \in Seq(TaskRows) /\ plan[i].group \in Group /\ plan[i].machine \in Codes
    BY <1>1, TasksAre DEF CpTyped, Typed
  <1>3. drums_of[plan[i].group] \in Nat
    BY <1>2 DEF CpTyped
  <1>4. k \in Nat /\ k >= 1 /\ k <= drums_of[plan[i].group]
    BY <1>1, <1>3
  <1>5. /\ t \in TaskRows /\ t.group = plan[i].group /\ t.start = plan[i].start /\ t.first = plan[i].first
        /\ t.kept = plan[i].kept /\ t.alone = plan[i].alone /\ t.gone = plan[i].gone /\ t.drums = k
    BY <1>1, <1>2, <1>4 DEF TaskRows
  <1> HIDE DEF t
  <1>6. plan' \in Seq(TaskRows) /\ DOMAIN plan' = DOMAIN plan
    BY <1>1, <1>2, <1>5
  <1>7. plan'[i] = t /\ \A j \in DOMAIN plan : j # i => plan'[j] = plan[j]
    BY <1>1
  <1>8. Touched
    BY <1>5, <1>6, <1>7 DEF Touched
  <1>9. Remainder(i, drums_of[plan[i].group] - k, 0) \in Shares
    BY <1>2, <1>3, <1>4 DEF Remainder, Shares
  <1>10. QED
    BY <1>2, <1>3, <1>4, <1>5, <1>7, <1>8, <1>9

LEMMA TakenOffIs ==
    ASSUME CpTyped, NEW i, TakenOff(i)
    PROVE  /\ Touched /\ plan[i].group \in Group
           /\ Remainder(i, drums_of[plan[i].group], GroupAt(i).setup) \in Shares
           /\ drums_of[plan[i].group] \in Nat
           /\ plan'[i].drums = plan[i].drums /\ plan'[i].gone
           /\ \A j \in DOMAIN plan : j # i => plan'[j] = plan[j]
  <1> DEFINE t == [plan[i] EXCEPT !.gone = TRUE]
  <1>1. i \in DOMAIN plan /\ plan' = [plan EXCEPT ![i] = t]
    BY DEF TakenOff
  <1>2. plan[i] \in TaskRows /\ plan \in Seq(TaskRows) /\ plan[i].group \in Group /\ plan[i].machine \in Codes
    BY <1>1, TasksAre DEF CpTyped, Typed
  <1>3. drums_of[plan[i].group] \in Nat /\ GroupAt(i).setup \in Nat
    BY <1>2, GroupIs DEF CpTyped, GroupAt
  <1>4. /\ t \in TaskRows /\ t.group = plan[i].group /\ t.start = plan[i].start /\ t.first = plan[i].first
        /\ t.kept = plan[i].kept /\ t.alone = plan[i].alone /\ t.gone /\ t.drums = plan[i].drums
    BY <1>1, <1>2 DEF TaskRows
  <1> HIDE DEF t
  <1>5. plan' \in Seq(TaskRows) /\ DOMAIN plan' = DOMAIN plan
    BY <1>1, <1>2, <1>4
  <1>6. plan'[i] = t /\ \A j \in DOMAIN plan : j # i => plan'[j] = plan[j]
    BY <1>1
  <1>7. Touched
    BY <1>4, <1>5, <1>6 DEF Touched
  <1>8. Remainder(i, drums_of[plan[i].group], GroupAt(i).setup) \in Shares
    BY <1>2, <1>3 DEF Remainder, Shares
  <1>9. QED
    BY <1>2, <1>3, <1>4, <1>6, <1>7, <1>8

-----------------------------------------------------------------------------
(* The invariant of a run *)

(* The tasks of this run for a process and a section, but for cores.       *)
MadeOf(k) == {j \in Made : ~GroupAt(j).core /\ SectionKey(plan[j].group) = k}

MadeFirstsAreKnown ==
    \A k \in Keys :
       /\ MadeOf(k) # {} => process_first_output_by_sq[k] # NoTime
       /\ process_first_output_by_sq[k] # NoTime =>
             \E i \in MadeOf(k) : process_first_output_by_sq[k] = plan[i].first

MadeBefore(i) == {j \in Made : PrecedesOf(plan[j].group, plan[i].group) /\ ~GroupAt(j).core}

(* As long as nothing is put back, every task waits, displaced or not.     *)
StartsAfterFirsts ==
    \A i \in Made :
       /\ MadeBefore(i) # {} /\ Cardinality(Sections(plan[i].group)) = 1
       /\ \A j \in MadeBefore(i) : plan[j].first # Never
       => plan[i].start >= Min({plan[j].first : j \in MadeBefore(i)}) + Curing(plan[i].group)

(* Later, those do that nothing was taken from or put back of.             *)
UnmovedWait ==
    \A i \in Made :
       /\ MadeBefore(i) # {} /\ Cardinality(Sections(plan[i].group)) = 1
       /\ \A j \in MadeBefore(i) : plan[j].first # Never
       /\ ~Displaced(plan[i].group) /\ \A j \in MadeBefore(i) : ~Displaced(plan[j].group)
       => plan[i].start >= Min({plan[j].first : j \in MadeBefore(i)}) + Curing(plan[i].group)

(* What is handed on is of a group that was taken off, or is not all of it.*)
SharesAre ==
    \A k \in DOMAIN preempted_remainder :
       \/ preempted_remainder[k].drums # Info[preempted_remainder[k].group].drums
       \/ \E i \in DOMAIN plan : plan[i].group = preempted_remainder[k].group /\ plan[i].gone

(* Until the groups are placed, there are the kept tasks and no others.    *)
Fresh ==
    /\ todo = <<>> /\ ready = NoTime /\ preempted_remainder = <<>> /\ plan \in Seeds
    /\ drums_of = [g \in Group |-> FirstBatchDrums(g)]
    /\ process_first_output_by_sq = [k \in Keys |-> NoTime]

Orderly == InTurn /\ MadeFirstsAreKnown /\ StartsAfterFirsts

CpInv ==
    /\ CpTyped /\ todo \in Seq(CpGroups) /\ ReadyIs
    /\ phase \notin {"placing", "finished"} => Fresh
    /\ phase = "load" => built = {} /\ model = {} /\ lex_status = ""
    /\ phase = "placing" => lex_status \in Solved
    /\ phase = "finished" => todo = <<>> /\ preempted_remainder = <<>>
    /\ todo # <<>> => Orderly
    /\ SharesAre /\ UnmovedWait

(* Nothing but kept tasks: nothing to wait for.                            *)
LEMMA FreshIs ==
    ASSUME Fresh
    PROVE  /\ Made = {} /\ plan \in Seq(TaskRows)
           /\ \A i \in DOMAIN plan : plan[i].group \in Started
           /\ MadeFirstsAreKnown /\ StartsAfterFirsts /\ UnmovedWait /\ SharesAre /\ ReadyIs
  <1>1. plan \in Seeds
    BY DEF Fresh
  <1>2. \A i \in DOMAIN plan : plan[i].kept /\ plan[i].group \in Started
    BY <1>1, PlacingAssumption, CpSatAssumption
  <1>3. Made = {}
    BY <1>2 DEF Made
  <1>4. \A k \in Keys : MadeOf(k) = {} /\ process_first_output_by_sq[k] = NoTime
    BY <1>3 DEF MadeOf, Fresh
  <1>5. MadeFirstsAreKnown /\ StartsAfterFirsts /\ UnmovedWait
    BY <1>3, <1>4 DEF MadeFirstsAreKnown, StartsAfterFirsts, UnmovedWait
  <1>6. DOMAIN preempted_remainder = {}
    BY DEF Fresh
  <1>7. SharesAre /\ ReadyIs
    BY <1>6 DEF SharesAre, ReadyIs, Fresh
  <1>8. plan \in Seq(TaskRows)
    BY <1>1, PlacingAssumption
  <1>9. QED
    BY <1>2, <1>3, <1>5, <1>7, <1>8

LEMMA BatchDrumsAre ==
    /\ [g \in Group |-> FirstBatchDrums(g)] \in [Group -> Nat]
    /\ \A g \in Group : FirstBatchDrums(g) <= Info[g].drums
  <1>1. \A g \in Group : FirstBatchDrums(g) \in Nat /\ FirstBatchDrums(g) <= Info[g].drums
    BY GroupIs, CpSatAssumption DEF FirstBatchDrums
  <1>2. QED
    BY <1>1

LEMMA UnmovedIsEnough ==
    ASSUME UnmovedWait
    PROVE  FirstDrumBefore
  <1>1. \A i : {j \in Made : PrecedesOf(plan[j].group, plan[i].group) /\ ~GroupAt(j).core} = MadeBefore(i)
    BY DEF MadeBefore
  <1> HIDE DEF MadeBefore
  <1>2. QED
    BY <1>1 DEF UnmovedWait, FirstDrumBefore

LEMMA EmptyIs ==
    ASSUME NEW X
    PROVE  <<>> \in Seq(X) /\ DOMAIN <<>> = {}
  OBVIOUS

LEMMA StartIsInv ==
    ASSUME CpInit
    PROVE  CpInv
  <1>1. /\ phase = "load" /\ built = {} /\ model = {} /\ lex_status = "" /\ base = Base /\ work = Work
        /\ plan \in Seeds /\ todo = <<>> /\ meta = <<>> /\ ready = NoTime /\ preempted_remainder = <<>>
        /\ drums_of = [g \in Group |-> FirstBatchDrums(g)]
    BY DEF CpInit, Unsolved, PreloadExistingTimeline
  <1>2. process_end_by_sq = [k \in Keys |-> NoTime] /\ process_first_output_by_sq = [k \in Keys |-> NoTime]
    BY DEF CpInit, Keys
  <1>3. Fresh
    BY <1>1, <1>2 DEF Fresh
  <1>4. CpGroups = {}
    BY <1>1, EmptyIs DEF CpGroups
  <1>5. Typed
    <2>1. base \in Nat /\ work \in [Group -> Nat]
      BY <1>1, CpSatAssumption
    <2>2. todo \in Seq(Group) /\ plan \in Seq(TaskRows)
      BY <1>1, <1>3, FreshIs, EmptyIs
    <2>3. QED
      BY <1>2, <2>1, <2>2 DEF Typed
  <1>6. CpTyped
    <2>1. "" \notin Solved
      BY DEF Solved
    <2>2. preempted_remainder \in Seq(Shares) /\ ready \in Nat \cup {NoTime}
      BY <1>1, EmptyIs
    <2>3. drums_of \in [Group -> Nat] /\ \A g \in Group : drums_of[g] <= Info[g].drums
      BY <1>1, BatchDrumsAre
    <2>4. QED
      BY <1>1, <1>4, <1>5, <2>1, <2>2, <2>3 DEF CpTyped
  <1>7. todo \in Seq(CpGroups)
    BY <1>1, EmptyIs
  <1>8. QED
    BY <1>1, <1>3, <1>6, <1>7, FreshIs DEF CpInv

-----------------------------------------------------------------------------
(* The steps before any group is placed *)

(* What is the same as before keeps its properties.                        *)
Still == UNCHANGED <<base, work, todo, plan, process_end_by_sq, process_first_output_by_sq, ready,
                     preempted_remainder, drums_of>>

LEMMA SameIs ==
    ASSUME Still
    PROVE  /\ Typed => Typed'
           /\ Fresh => Fresh'
           /\ Orderly => Orderly'
           /\ SharesAre => SharesAre'
           /\ UnmovedWait => UnmovedWait'
           /\ ReadyIs => ReadyIs'
  <1>1. /\ base' = base /\ work' = work /\ todo' = todo /\ plan' = plan
        /\ process_end_by_sq' = process_end_by_sq /\ process_first_output_by_sq' = process_first_output_by_sq
        /\ ready' = ready /\ preempted_remainder' = preempted_remainder /\ drums_of' = drums_of
    BY DEF Still
  <1>2. Typed => Typed'
    BY <1>1 DEF Typed, Keys, Sections
  <1>3. Fresh => Fresh'
    BY <1>1 DEF Fresh, Keys, Sections, FirstBatchDrums, Orders
  <1>4. Made' = Made
    BY <1>1 DEF Made
  <1>5. \A k : MadeOf(k)' = MadeOf(k)
    BY <1>1, <1>4 DEF MadeOf, GroupAt, SectionKey
  <1>6. MadeFirstsAreKnown => MadeFirstsAreKnown'
    <2> HIDE DEF MadeOf
    <2>1. QED
      BY <1>1, <1>5 DEF MadeFirstsAreKnown, Keys, Sections
  <1>7. \A i : MadeBefore(i)' = MadeBefore(i)
    BY <1>1, <1>4 DEF MadeBefore, GroupAt, PrecedesOf
  <1>8. \A g : Curing(g)' = Curing(g) /\ Sections(g)' = Sections(g)
    BY DEF Curing, Sections
  <1>9. StartsAfterFirsts => StartsAfterFirsts'
    <2> HIDE DEF MadeBefore, Curing, Sections
    <2>1. QED
      BY <1>1, <1>4, <1>7, <1>8 DEF StartsAfterFirsts
  <1>10. InTurn => InTurn'
    BY <1>1, <1>4 DEF InTurn, Precedes
  <1>11. SharesAre => SharesAre'
    BY <1>1 DEF SharesAre
  <1>12. UnmovedWait => UnmovedWait'
    <2>1. \A g : Displaced(g)' <=> Displaced(g)
      BY <1>1 DEF Displaced
    <2> HIDE DEF MadeBefore, Curing, Sections, Displaced
    <2>2. QED
      BY <1>1, <1>4, <1>7, <1>8, <2>1 DEF UnmovedWait
  <1>13. ReadyIs => ReadyIs'
    <2>1. \A g : PredecessorFirst(g, FALSE)' = PredecessorFirst(g, FALSE)
      BY <1>1 DEF PredecessorFirst, Sections
    <2> HIDE DEF PredecessorFirst, Curing
    <2>2. Head(todo)' = Head(todo)
      BY <1>1
    <2>3. QED
      BY <1>1, <1>8, <2>1, <2>2 DEF ReadyIs
  <1>14. QED
    BY <1>2, <1>3, <1>6, <1>9, <1>10, <1>11, <1>12, <1>13 DEF Orderly

LEMMA LoadKeepsInv ==
    ASSUME CpInv, LoadGroups
    PROVE  CpInv'
  <1>1. /\ phase = "load" /\ meta' = BuildGroupMeta /\ phase' \in {"failed", "build"}
        /\ built' = built /\ model' = model /\ lex_status' = lex_status /\ found' = found
        /\ Still
    BY DEF LoadGroups, placing, Still
  <1>2. Fresh /\ built = {} /\ model = {} /\ lex_status = "" /\ CpTyped
    BY <1>1 DEF CpInv
  <1>3. Fresh' /\ Typed'
    BY <1>1, <1>2, SameIs DEF CpTyped
  <1>4. CpGroups' = DOMAIN BuildGroupMeta
    BY <1>1 DEF CpGroups
  <1>5. todo' = <<>> /\ drums_of' = drums_of /\ preempted_remainder' = preempted_remainder /\ ready' = ready
    BY <1>1, <1>2 DEF Fresh, Still
  <1>6. CpTyped'
    <2>1. /\ CpGroups' \subseteq Group \ Started
          /\ \A g \in CpGroups' : meta'[g].eligible \subseteq DOMAIN Machines /\ meta'[g].steps \in Int
      BY <1>1, <1>4, MetaIs
    <2>2. "" \notin Solved
      BY DEF Solved
    <2>3. built' = {} /\ model' = {} /\ lex_status' = ""
      BY <1>1, <1>2
    <2>4. drums_of' \in [Group -> Nat] /\ (\A g \in Group : drums_of'[g] <= Info[g].drums)
          /\ preempted_remainder' \in Seq(Shares) /\ ready' \in Nat \cup {NoTime}
      BY <1>2, <1>5 DEF CpTyped
    <2>5. Shares' = Shares
      BY DEF Shares, Codes
    <2> HIDE DEF CpGroups
    <2>6. QED
      BY <1>3, <2>1, <2>2, <2>3, <2>4, <2>5 DEF CpTyped
  <1>7. todo' \in Seq(CpGroups')
    BY <1>5, EmptyIs
  <1>8. SharesAre' /\ UnmovedWait' /\ ReadyIs'
    BY <1>1, <1>2, FreshIs, SameIs
  <1>9. QED
    BY <1>1, <1>3, <1>5, <1>6, <1>7, <1>8 DEF CpInv

(* A step that changes nothing but what the solver knows.                  *)
LEMMA SolverKeepsInv ==
    ASSUME CpInv, UNCHANGED <<base, work, placing, cpState>>, phase \notin {"load", "placing", "finished"},
           phase' \notin {"load", "placing", "finished"},
           \A s \in built' \cup model' : s.choice \in [CpGroups -> Places],
           lex_status' \in Solved => found'.choice \in [CpGroups -> Places]
    PROVE  CpInv'
  <1>1. meta' = meta /\ Still
    BY DEF placing, cpState, Still
  <1>2. CpGroups' = CpGroups /\ Places' = Places
    BY <1>1 DEF CpGroups, Places, Codes
  <1>3. Fresh /\ CpTyped /\ SharesAre /\ UnmovedWait /\ ReadyIs
    BY DEF CpInv
  <1>4. Typed' /\ Fresh' /\ SharesAre' /\ UnmovedWait' /\ ReadyIs'
    BY <1>1, <1>3, SameIs DEF CpTyped
  <1>5. CpTyped'
    <2>1. /\ CpGroups' \subseteq Group \ Started
          /\ \A g \in CpGroups' : meta'[g].eligible \subseteq DOMAIN Machines /\ meta'[g].steps \in Int
      BY <1>1, <1>2, <1>3 DEF CpTyped
    <2>2. drums_of' \in [Group -> Nat] /\ (\A g \in Group : drums_of'[g] <= Info[g].drums)
          /\ preempted_remainder' \in Seq(Shares) /\ ready' \in Nat \cup {NoTime}
      BY <1>1, <1>3 DEF CpTyped, Still
    <2>3. Shares' = Shares
      BY DEF Shares, Codes
    <2>4. [CpGroups -> Places]' = [CpGroups -> Places]
      BY <1>2
    <2>5. /\ \A s \in built' \cup model' : s.choice \in [CpGroups -> Places]'
          /\ lex_status' \in Solved => found'.choice \in [CpGroups -> Places]'
      BY <2>4
    <2> HIDE DEF CpGroups, Places
    <2>6. QED
      BY <1>4, <2>1, <2>2, <2>3, <2>5 DEF CpTyped
  <1>6. todo' = <<>>
    BY <1>4 DEF Fresh
  <1>7. todo' \in Seq(CpGroups')
    BY <1>6, EmptyIs
  <1>8. QED
    BY <1>4, <1>5, <1>6, <1>7 DEF CpInv

LEMMA BuildKeepsInv ==
    ASSUME CpInv, BuildModel
    PROVE  CpInv'
  <1>1. /\ phase = "build" /\ phase' = "A" /\ built' = CpSolutions /\ model' = CpSolutions
        /\ lex_status' = lex_status /\ found' = found /\ UNCHANGED <<base, work, placing, cpState>>
    BY DEF BuildModel
  <1>2. CpTyped
    BY DEF CpInv
  <1>3. \A p \in CpPlans : p \in [CpGroups -> Places]
    BY <1>2, PlansAre
  <1>4. \A s \in CpSolutions : s.choice \in [CpGroups -> Places]
    BY <1>3 DEF CpSolutions
  <1>5. lex_status' \in Solved => found'.choice \in [CpGroups -> Places]
    BY <1>1, <1>2 DEF CpTyped
  <1>6. QED
    BY <1>1, <1>4, <1>5, SolverKeepsInv

(* The solver only ever gives a solution of its model.                     *)
LEMMA AnswersAre ==
    ASSUME NEW f(_), NEW a \in Answers(f), a[1] \in Solved
    PROVE  a[2] \in model
  BY DEF Answers, Least, Solved

LEMMA SolveKeepsInv ==
    ASSUME CpInv, Solve
    PROVE  CpInv'
  <1>1. /\ LexNext /\ built' = built /\ UNCHANGED <<base, work, placing, cpState>>
    BY DEF Solve, LexNext
  <1>2. /\ \A s \in built \cup model : s.choice \in [CpGroups -> Places]
        /\ lex_status \in Solved => found.choice \in [CpGroups -> Places]
    BY DEF CpInv, CpTyped
  <1>3. /\ phase \notin {"load", "placing", "finished"} /\ phase' \notin {"load", "placing", "finished"}
        /\ model' \subseteq built \cup model
        /\ lex_status' \in Solved => (lex_status' = lex_status /\ found' = found) \/ found' \in model
    <2>1. CASE SolveA
      BY <2>1 DEF SolveA, FallBack
    <2>2. CASE SolveA2
      BY <2>2 DEF SolveA2
    <2>3. CASE SolveB
      BY <2>3 DEF SolveB, FallBack
    <2>4. CASE SolveC
      BY <2>4, AnswersAre DEF SolveC, Give, limits
    <2>5. CASE Recover
      BY <2>5, AnswersAre DEF Recover, Give, FallBack, limits
    <2>6. CASE SolveWeighted
      BY <2>6, AnswersAre DEF SolveWeighted, Give, limits
    <2>7. QED
      BY <1>1, <2>1, <2>2, <2>3, <2>4, <2>5, <2>6 DEF LexNext
  <1>4. \A s \in built' \cup model' : s.choice \in [CpGroups -> Places]
    BY <1>1, <1>2, <1>3
  <1>5. lex_status' \in Solved => found'.choice \in [CpGroups -> Places]
    BY <1>2, <1>3
  <1>6. QED
    BY <1>1, <1>3, <1>4, <1>5, SolverKeepsInv

(* The order is made: no group of it has a task yet.                       *)
LEMMA DecideKeepsInv ==
    ASSUME CpInv, Decide
    PROVE  CpInv'
  <1>1. /\ phase = "done" /\ built' = {} /\ model' = {} /\ found' = found /\ lex_status' = lex_status
        /\ meta' = meta /\ base' = base /\ work' = work /\ plan' = plan /\ process_end_by_sq' = process_end_by_sq
        /\ process_first_output_by_sq' = process_first_output_by_sq
        /\ ready' = ready /\ preempted_remainder' = preempted_remainder /\ drums_of' = drums_of
        /\ \/ lex_status \in Solved /\ phase' = "placing" /\ todo' = SolvedOrder
           \/ lex_status \notin Solved /\ phase' = "failed" /\ todo' = <<>>
    BY DEF Decide, cpState
  <1>2. Fresh /\ CpTyped
    BY <1>1 DEF CpInv
  <1>3. CASE lex_status \notin Solved
    <2>1. todo' = <<>> /\ phase' = "failed"
      BY <1>1, <1>3
    <2>2. UNCHANGED <<base, work, placing, cpState>> \/ Still
      BY <1>1, <1>2, <2>1 DEF Still, Fresh
    <2>3. Still
      BY <1>1, <1>2, <2>1 DEF Still, Fresh
    <2>4. Typed' /\ Fresh' /\ SharesAre' /\ UnmovedWait' /\ ReadyIs'
      BY <1>2, <2>3, FreshIs, SameIs DEF CpTyped
    <2>5. CpGroups' = CpGroups /\ Places' = Places /\ Shares' = Shares
      BY <1>1 DEF CpGroups, Places, Shares, Codes
    <2>6. CpTyped'
      BY <1>1, <1>2, <1>3, <2>4, <2>5 DEF CpTyped
    <2>7. todo' \in Seq(CpGroups')
      BY <2>1, EmptyIs
    <2>8. QED
      BY <2>1, <2>4, <2>6, <2>7 DEF CpInv
  <1>4. CASE lex_status \in Solved
    <2>1. todo' = SolvedOrder /\ phase' = "placing" /\ found.choice \in [CpGroups -> Places]
      BY <1>1, <1>2, <1>4 DEF CpTyped, Solved
    <2>2. /\ SolvedOrder \in Seq(CpGroups)
          /\ \A i, j \in DOMAIN SolvedOrder : i < j => ~Precedes(SolvedOrder[j], SolvedOrder[i])
          /\ \A i, j \in DOMAIN SolvedOrder : i # j => SolvedOrder[i] # SolvedOrder[j]
      BY <1>2, <2>1, OrderIs
    <2> DEFINE order == SolvedOrder
    <2>3. order \in Seq(CpGroups) /\ todo' = order
      BY <2>1, <2>2
    <2>4. /\ \A i, j \in DOMAIN order : i < j => ~Precedes(order[j], order[i])
          /\ \A i, j \in DOMAIN order : i # j => order[i] # order[j]
      BY <2>2
    <2> HIDE DEF order
    <2>5. \A j \in DOMAIN order : order[j] \in CpGroups /\ order[j] \notin Started
      <3>1. DOMAIN order = 1 .. Len(order) /\ \A j \in DOMAIN order : order[j] \in CpGroups
        BY <2>3
      <3>2. QED
        BY <1>2, <3>1 DEF CpTyped
    <2>6. Made' = {} /\ Made = {} /\ \A i \in DOMAIN plan : plan[i].group \in Started
      <3>1. Made = {} /\ \A i \in DOMAIN plan : plan[i].group \in Started
        BY <1>2, FreshIs
      <3>2. Made' = Made
        BY <1>1 DEF Made
      <3>3. QED
        BY <3>1, <3>2
    <2>7. InTurn'
      <3>1. \A i, j \in DOMAIN todo' : i < j => ~Precedes(todo'[j], todo'[i])
        BY <2>3, <2>4
      <3>2. \A i, j \in DOMAIN todo' : i # j => todo'[i] # todo'[j]
        BY <2>3, <2>4
      <3>3. \A i \in DOMAIN plan', j \in DOMAIN todo' : plan'[i].group # todo'[j]
        BY <1>1, <2>3, <2>5, <2>6
      <3>4. QED
        BY <2>6, <3>1, <3>2, <3>3 DEF InTurn, Precedes
    <2>8. MadeFirstsAreKnown' /\ StartsAfterFirsts' /\ UnmovedWait'
      <3>1. \A k \in Keys : process_first_output_by_sq'[k] = NoTime
        BY <1>1, <1>2 DEF Fresh
      <3>2. Keys' = Keys
        BY DEF Keys, Sections
      <3>3. \A k : MadeOf(k)' = {}
        BY <2>6 DEF MadeOf
      <3>4. MadeFirstsAreKnown'
        <4> HIDE DEF MadeOf
        <4>1. QED
          BY <3>1, <3>2, <3>3 DEF MadeFirstsAreKnown
      <3>5. QED
        BY <2>6, <3>4 DEF StartsAfterFirsts, UnmovedWait
    <2>9. SharesAre' /\ ReadyIs'
      <3>1. preempted_remainder' = <<>> /\ ready' = NoTime
        BY <1>1, <1>2 DEF Fresh
      <3>2. DOMAIN preempted_remainder' = {}
        BY <3>1, EmptyIs
      <3>3. QED
        BY <3>1, <3>2 DEF SharesAre, ReadyIs
    <2>10. CpGroups' = CpGroups /\ Places' = Places /\ Shares' = Shares /\ Keys' = Keys
      BY <1>1 DEF CpGroups, Places, Shares, Codes, Keys, Sections
    <2>11. todo' \in Seq(CpGroups') /\ todo' \in Seq(Group)
      <3>1. CpGroups \subseteq Group
        BY <1>2 DEF CpTyped
      <3>2. QED
        BY <2>3, <2>10, <3>1
    <2>12. Typed'
      BY <1>1, <1>2, <2>10, <2>11 DEF CpTyped, Typed
    <2>13. CpTyped'
      <3>1. [CpGroups -> Places]' = [CpGroups -> Places]
        BY <2>10
      <3>2. found'.choice \in [CpGroups -> Places]'
        BY <1>1, <2>1, <3>1
      <3> HIDE DEF CpGroups, Places, Shares
      <3>3. QED
        BY <1>1, <1>2, <2>10, <2>12, <3>2 DEF CpTyped
    <2>14. QED
      BY <1>1, <1>4, <2>1, <2>7, <2>8, <2>9, <2>11, <2>13 DEF CpInv, Orderly
  <1>5. QED
    BY <1>3, <1>4

-----------------------------------------------------------------------------
(* The steps that place the groups *)

LEMMA TouchedKeepsOrder ==
    ASSUME CpTyped, Orderly, Touched, todo' = todo, process_first_output_by_sq' = process_first_output_by_sq
    PROVE  Orderly'
  <1>1. /\ DOMAIN plan' = DOMAIN plan
        /\ \A i \in DOMAIN plan :
              /\ plan'[i].group = plan[i].group /\ plan'[i].start = plan[i].start /\ plan'[i].first = plan[i].first
              /\ plan'[i].kept = plan[i].kept
    BY DEF Touched
  <1>2. Made' = Made /\ Made \subseteq DOMAIN plan
    BY <1>1 DEF Made
  <1>3. InTurn'
    BY <1>1, <1>2 DEF Orderly, InTurn, Precedes
  <1>4. \A k : MadeOf(k)' = MadeOf(k) /\ MadeOf(k) \subseteq DOMAIN plan
    BY <1>1, <1>2 DEF MadeOf, GroupAt, SectionKey
  <1>5. MadeFirstsAreKnown'
    <2>1. Keys' = Keys
      BY DEF Keys, Sections
    <2> HIDE DEF MadeOf, Keys
    <2>2. QED
      BY <1>1, <1>4, <2>1 DEF Orderly, MadeFirstsAreKnown
  <1>6. \A i \in Made : MadeBefore(i)' = MadeBefore(i) /\ MadeBefore(i) \subseteq DOMAIN plan
    BY <1>1, <1>2 DEF MadeBefore, GroupAt, PrecedesOf
  <1>7. \A g : Curing(g)' = Curing(g) /\ Sections(g)' = Sections(g)
    BY DEF Curing, Sections
  <1>8. \A i \in Made : {plan'[j].first : j \in MadeBefore(i)} = {plan[j].first : j \in MadeBefore(i)}
    <2> HIDE DEF MadeBefore
    <2>1. QED
      BY <1>1, <1>6
  <1>9. StartsAfterFirsts'
    <2> HIDE DEF MadeBefore, Curing, Sections
    <2>1. QED
      BY <1>1, <1>2, <1>6, <1>7, <1>8 DEF Orderly, StartsAfterFirsts
  <1>10. QED
    BY <1>3, <1>5, <1>9 DEF Orderly

(* The list of what was handed on, with one more at its end.               *)
LEMMA OneMore ==
    ASSUME NEW X, NEW s \in Seq(X), NEW r \in X
    PROVE  /\ Append(s, r) \in Seq(X) /\ DOMAIN s = 1 .. Len(s) /\ Len(s) \in Nat
           /\ DOMAIN Append(s, r) = 1 .. Len(s) + 1
           /\ Append(s, r)[Len(s) + 1] = r /\ \A k \in DOMAIN s : Append(s, r)[k] = s[k]
  OBVIOUS

LEMMA SharesStay ==
    ASSUME SharesAre, Touched, CpTyped, NEW r \in Shares, preempted_remainder' = Append(preempted_remainder, r),
           r.drums # Info[r.group].drums \/ \E i \in DOMAIN plan' : plan'[i].group = r.group /\ plan'[i].gone
    PROVE  preempted_remainder' \in Seq(Shares) /\ SharesAre'
  <1> DEFINE s == preempted_remainder
  <1>1. s \in Seq(Shares)
    BY DEF CpTyped
  <1>2. s' = Append(s, r)
    OBVIOUS
  <1>3. \A i \in DOMAIN plan : i \in DOMAIN plan' /\ plan'[i].group = plan[i].group /\ (plan[i].gone => plan'[i].gone)
    BY DEF Touched
  <1>4. \A k \in DOMAIN s : \/ s[k].drums # Info[s[k].group].drums
                            \/ \E i \in DOMAIN plan' : plan'[i].group = s[k].group /\ plan'[i].gone
    BY <1>3 DEF SharesAre
  <1> HIDE DEF s
  <1>5. /\ Append(s, r) \in Seq(Shares) /\ DOMAIN s = 1 .. Len(s) /\ Len(s) \in Nat
        /\ DOMAIN Append(s, r) = 1 .. Len(s) + 1
        /\ Append(s, r)[Len(s) + 1] = r /\ \A k \in DOMAIN s : Append(s, r)[k] = s[k]
    BY <1>1, OneMore
  <1>6. \A k \in DOMAIN Append(s, r) : k \in DOMAIN s \/ k = Len(s) + 1
    BY <1>5
  <1>7. \A k \in DOMAIN Append(s, r) :
           \/ Append(s, r)[k].drums # Info[Append(s, r)[k].group].drums
           \/ \E i \in DOMAIN plan' : plan'[i].group = Append(s, r)[k].group /\ plan'[i].gone
    BY <1>4, <1>5, <1>6
  <1>8. preempted_remainder' = Append(s, r)
    BY <1>2 DEF s
  <1>9. QED
    BY <1>5, <1>7, <1>8 DEF SharesAre

LEMMA RoomKeepsInv ==
    ASSUME CpInv, MakeRoom
    PROVE  CpInv'
  <1>1. CpTyped /\ todo \in Seq(CpGroups) /\ SharesAre
    BY DEF CpInv
  <1>2. /\ todo # <<>> /\ todo' = todo /\ phase = "placing" /\ ready' \in Nat
        /\ UNCHANGED <<lexVars, meta, base, work, process_end_by_sq, process_first_output_by_sq>>
        /\ \A x \in PredecessorFirst(Head(todo), FALSE) : x + Curing(Head(todo)) <= ready'
        /\ \/ UNCHANGED <<plan, preempted_remainder, drums_of>>
           \/ \E i, k, end : Cut(i, k, end)
           \/ \E i : TakenOff(i)
    BY <1>1, RoomIs
  <1>3. Orderly /\ lex_status \in Solved
    BY <1>2 DEF CpInv
  <1>4. /\ phase' = phase /\ built' = built /\ model' = model /\ found' = found /\ lex_status' = lex_status
        /\ meta' = meta /\ base' = base /\ work' = work /\ process_end_by_sq' = process_end_by_sq
        /\ process_first_output_by_sq' = process_first_output_by_sq
    BY <1>2 DEF lexVars
  <1>5. /\ Touched /\ preempted_remainder' \in Seq(Shares) /\ SharesAre'
        /\ drums_of' \in [Group -> Nat] /\ \A g \in Group : drums_of'[g] <= Info[g].drums
    <2>1. CASE UNCHANGED <<plan, preempted_remainder, drums_of>>
      <3>1. plan' = plan /\ preempted_remainder' = preempted_remainder /\ drums_of' = drums_of
        BY <2>1
      <3>2. Touched
        BY <1>1, <3>1 DEF Touched, CpTyped, Typed
      <3>3. SharesAre'
        BY <1>1, <3>1 DEF SharesAre
      <3>4. QED
        BY <1>1, <3>1, <3>2, <3>3 DEF CpTyped
    <2>2. ASSUME NEW i, NEW k, NEW end, Cut(i, k, end)
          PROVE  /\ Touched /\ preempted_remainder' \in Seq(Shares) /\ SharesAre'
                 /\ drums_of' \in [Group -> Nat] /\ \A g \in Group : drums_of'[g] <= Info[g].drums
      <3> DEFINE h == plan[i].group
                 r == Remainder(i, drums_of[h] - k, 0)
      <3>1. /\ Touched /\ h \in Group /\ r \in Shares
            /\ drums_of[h] \in Nat /\ k \in Nat /\ k >= 1 /\ k <= drums_of[h]
        BY <1>1, <2>2, CutIs
      <3>2. preempted_remainder' = Append(preempted_remainder, r) /\ drums_of' = [drums_of EXCEPT ![h] = k]
        BY <2>2 DEF Cut
      <3>3. r.drums = drums_of[h] - k /\ r.group = h
        BY DEF Remainder
      <3>4. drums_of[h] <= Info[h].drums /\ Info[h].drums \in Nat
        BY <1>1, <3>1, GroupIs DEF CpTyped
      <3> HIDE DEF r, h
      <3>5. r.drums # Info[r.group].drums
        BY <3>1, <3>3, <3>4
      <3>6. preempted_remainder' \in Seq(Shares) /\ SharesAre'
        BY <1>1, <3>1, <3>2, <3>5, SharesStay
      <3>7. drums_of' \in [Group -> Nat]
        BY <1>1, <3>1, <3>2 DEF CpTyped
      <3>8. \A g \in Group : drums_of'[g] = IF g = h THEN k ELSE drums_of[g]
        BY <1>1, <3>2 DEF CpTyped
      <3>9. \A g \in Group : drums_of'[g] <= Info[g].drums
        BY <1>1, <3>1, <3>4, <3>8 DEF CpTyped
      <3>10. QED
        BY <3>1, <3>6, <3>7, <3>9
    <2>3. ASSUME NEW i, TakenOff(i)
          PROVE  /\ Touched /\ preempted_remainder' \in Seq(Shares) /\ SharesAre' /\ drums_of' = drums_of
      <3> DEFINE r == Remainder(i, drums_of[plan[i].group], GroupAt(i).setup)
      <3>1. Touched /\ r \in Shares /\ plan'[i].gone
        BY <1>1, <2>3, TakenOffIs
      <3>2. preempted_remainder' = Append(preempted_remainder, r) /\ drums_of' = drums_of /\ i \in DOMAIN plan
        BY <2>3 DEF TakenOff
      <3>3. r.group = plan[i].group
        BY DEF Remainder
      <3> HIDE DEF r
      <3>4. i \in DOMAIN plan' /\ plan'[i].group = r.group
        BY <3>1, <3>2, <3>3 DEF Touched
      <3>5. preempted_remainder' \in Seq(Shares) /\ SharesAre'
        BY <1>1, <3>1, <3>2, <3>4, SharesStay
      <3>6. QED
        BY <3>1, <3>2, <3>5
    <2>4. QED
      BY <1>1, <1>2, <2>1, <2>2, <2>3 DEF CpTyped
  <1>6. Orderly'
    BY <1>1, <1>2, <1>3, <1>4, <1>5, TouchedKeepsOrder
  <1>7. CpGroups' = CpGroups /\ Places' = Places /\ Shares' = Shares /\ Keys' = Keys
    BY <1>4 DEF CpGroups, Places, Shares, Codes, Keys, Sections
  <1>8. Typed'
    <2>1. plan' \in Seq(TaskRows)
      BY <1>5 DEF Touched
    <2>2. QED
      BY <1>1, <1>2, <1>4, <1>7, <2>1 DEF CpTyped, Typed
  <1>9. CpTyped'
    <2>1. [CpGroups -> Places]' = [CpGroups -> Places]
      BY <1>7
    <2>2. (\A s \in built' \cup model' : s.choice \in [CpGroups -> Places]')
          /\ (lex_status' \in Solved => found'.choice \in [CpGroups -> Places]')
      BY <1>1, <1>4, <2>1 DEF CpTyped
    <2>3. /\ CpGroups' \subseteq Group \ Started
          /\ \A g \in CpGroups' : meta'[g].eligible \subseteq DOMAIN Machines /\ meta'[g].steps \in Int
      BY <1>1, <1>4, <1>7 DEF CpTyped
    <2> HIDE DEF CpGroups, Places, Shares
    <2>4. QED
      BY <1>2, <1>5, <1>7, <1>8, <2>2, <2>3 DEF CpTyped
  <1>10. ReadyIs'
    <2>1. \A g : PredecessorFirst(g, FALSE)' = PredecessorFirst(g, FALSE) /\ Curing(g)' = Curing(g)
      BY <1>4 DEF PredecessorFirst, Sections, Curing
    <2> HIDE DEF PredecessorFirst, Curing
    <2>2. Head(todo)' = Head(todo)
      BY <1>2
    <2>3. QED
      BY <1>2, <2>1, <2>2 DEF ReadyIs
  <1>11. UnmovedWait'
    BY <1>6 DEF Orderly, StartsAfterFirsts, UnmovedWait
  <1>12. todo' \in Seq(CpGroups')
    BY <1>1, <1>2, <1>7
  <1>13. QED
    BY <1>2, <1>3, <1>4, <1>5, <1>6, <1>9, <1>10, <1>11, <1>12 DEF CpInv

(* What there is when a group has been placed: the tasks that were there,  *)
(* and those of the group.                                                 *)
GrownBy(g, e) ==
    /\ DOMAIN plan \subseteq DOMAIN plan'
    /\ \A i \in DOMAIN plan : plan'[i] = plan[i]
    /\ \A i \in DOMAIN plan' \ DOMAIN plan : plan'[i] \in TasksFor(g, e)

LEMMA PlacedGrows ==
    ASSUME Typed, NEW g, NEW e, NEW given \in Seq(TaskRows), plan' = plan \o given,
           \A i \in DOMAIN given : given[i] \in TasksFor(g, e)
    PROVE  plan' \in Seq(TaskRows) /\ GrownBy(g, e)
  <1>1. /\ plan' \in Seq(TaskRows) /\ DOMAIN plan \subseteq DOMAIN plan'
        /\ \A i \in DOMAIN plan : plan'[i] = plan[i]
        /\ \A i \in DOMAIN plan' : i \in DOMAIN plan \/ \E k \in DOMAIN given : plan'[i] = given[k]
    BY Appended
  <1>2. QED
    BY <1>1 DEF GrownBy

LEMMA PlacedInTurn ==
    ASSUME CpTyped, todo \in Seq(CpGroups), todo # <<>>, InTurn, NEW e, GrownBy(Head(todo), e), todo' = Tail(todo)
    PROVE  InTurn' /\ todo' \in Seq(CpGroups) /\ todo' \in Seq(Group) /\ \A i \in Made : ~Precedes(Head(todo), plan[i].group)
  <1> DEFINE g == Head(todo)
  <1>1. todo \in Seq(Group) /\ CpGroups \subseteq Group
    BY DEF CpTyped, Typed
  <1>2. /\ g = todo[1] /\ 1 \in DOMAIN todo /\ todo' \in Seq(Group)
        /\ \A i \in DOMAIN todo' : i + 1 \in DOMAIN todo /\ todo'[i] = todo[i + 1] /\ 1 < i + 1 /\ i \in Nat
    BY <1>1, Taken
  <1>3. todo' \in Seq(CpGroups)
    OBVIOUS
  <1>4. \A i \in DOMAIN plan' : \/ i \in DOMAIN plan /\ plan'[i] = plan[i]
                                \/ plan'[i].group = g
    BY DEF GrownBy, TasksFor
  <1> HIDE DEF g
  <1>5. \A i, j \in DOMAIN todo' : i < j => ~Precedes(todo'[j], todo'[i])
    BY <1>2 DEF InTurn
  <1>6. \A i, j \in DOMAIN todo' : i # j => todo'[i] # todo'[j]
    BY <1>2 DEF InTurn
  <1>7. \A j \in DOMAIN todo' : g # todo'[j] /\ ~Precedes(todo'[j], g)
    BY <1>2 DEF InTurn
  <1>8. \A i \in DOMAIN plan', j \in DOMAIN todo' : plan'[i].group # todo'[j]
    BY <1>2, <1>4, <1>7 DEF InTurn
  <1>9. \A i \in DOMAIN plan', j \in DOMAIN todo' : ~plan'[i].kept => ~Precedes(todo'[j], plan'[i].group)
    BY <1>2, <1>4, <1>7 DEF InTurn, Made
  <1>10. \A i \in Made' : i \in DOMAIN plan' /\ ~plan'[i].kept
    BY DEF Made
  <1>11. InTurn'
    BY <1>5, <1>6, <1>8, <1>9, <1>10 DEF InTurn, Precedes
  <1>12. \A i \in Made : ~Precedes(g, plan[i].group)
    BY <1>2 DEF InTurn
  <1>13. QED
    BY <1>2, <1>3, <1>11, <1>12 DEF g

LEMMA PlacedIsKnown ==
    ASSUME Typed, MadeFirstsAreKnown, NEW g \in Group, NEW e, NEW given \in Seq(TaskRows), given # <<>>,
           plan' = plan \o given, \A i \in DOMAIN given : given[i] \in TasksFor(g, e), Record(g, given)
    PROVE  /\ process_end_by_sq' \in [Keys -> Nat \cup {NoTime}]
           /\ process_first_output_by_sq' \in [Keys -> Nat \cup {NoTime}]
           /\ MadeFirstsAreKnown'
  <1> DEFINE key == <<Info[g].process, Info[g].sq>>
  <1>1. key \in Keys /\ Keys' = Keys
    BY KeyIs DEF Keys, Sections
  <1>2. DOMAIN given = 1 .. Len(given) /\ Len(given) > 0 /\ Len(given) \in Nat /\ \A i \in DOMAIN given : given[i] \in TaskRows
    OBVIOUS
  <1>3. IsFiniteSet(DOMAIN given) /\ DOMAIN given # {}
    <2>1. IsFiniteSet(1 .. Len(given)) /\ 1 \in DOMAIN given
      BY <1>2, FS_Interval
    <2>2. QED
      BY <1>2, <2>1
  <1>4. /\ process_end_by_sq' \in [Keys -> Nat \cup {NoTime}]
        /\ process_first_output_by_sq' \in [Keys -> Nat \cup {NoTime}]
        /\ Info[g].core => process_first_output_by_sq' = process_first_output_by_sq
        /\ \A k \in Keys : k # key => process_first_output_by_sq'[k] = process_first_output_by_sq[k]
        /\ ~Info[g].core =>
              /\ process_first_output_by_sq'[key] # NoTime
              /\ \/ process_first_output_by_sq'[key] = process_first_output_by_sq[key]
                 \/ \E i \in DOMAIN given : process_first_output_by_sq'[key] = given[i].first
    BY <1>2, <1>3, RecordIs
  <1> HIDE DEF key
  <1>5. SUFFICES ASSUME NEW k \in Keys
                 PROVE  /\ MadeOf(k)' # {} => process_first_output_by_sq'[k] # NoTime
                        /\ process_first_output_by_sq'[k] # NoTime =>
                              \E i \in MadeOf(k)' : process_first_output_by_sq'[k] = plan'[i].first
    BY <1>1, <1>4 DEF MadeFirstsAreKnown
  <1> DEFINE new == process_first_output_by_sq'[k]
             old == process_first_output_by_sq[k]
  <1>6. /\ MadeOf(k) # {} => old # NoTime
        /\ old # NoTime => \E i \in MadeOf(k) : old = plan[i].first
    BY DEF MadeFirstsAreKnown
  <1>7. /\ Info[g].core \/ k # key => new = old
        /\ ~Info[g].core /\ k = key => new # NoTime /\ (new = old \/ \E i \in DOMAIN given : new = given[i].first)
    BY <1>4
  <1>8. /\ DOMAIN plan \subseteq DOMAIN plan'
        /\ \A i \in DOMAIN plan : plan'[i] = plan[i]
        /\ \A i \in DOMAIN plan' : i \in DOMAIN plan \/ \E n \in DOMAIN given : plan'[i] = given[n]
        /\ \A n \in DOMAIN given : \E i \in DOMAIN plan' \ DOMAIN plan : plan'[i] = given[n]
    BY Appended
  <1>9. \A n \in DOMAIN given : given[n].group = g /\ ~given[n].kept
    BY DEF TasksFor
  <1>10. MadeOf(k)' = {i \in DOMAIN plan' : ~plan'[i].kept /\ ~Info[plan'[i].group].core /\ SectionKey(plan'[i].group) = k}
    BY DEF MadeOf, Made, GroupAt, SectionKey
  <1>11. MadeOf(k) \subseteq MadeOf(k)' /\ MadeOf(k) \subseteq DOMAIN plan
    BY <1>8, <1>10 DEF MadeOf, Made, GroupAt
  <1>12. \A i \in MadeOf(k)' : i \in MadeOf(k) \/ (~Info[g].core /\ k = key)
    <2>1. ASSUME NEW i \in MadeOf(k)', i \in DOMAIN plan PROVE i \in MadeOf(k)
      BY <1>8, <1>10, <2>1 DEF MadeOf, Made, GroupAt
    <2>2. ASSUME NEW i \in MadeOf(k)', i \notin DOMAIN plan PROVE ~Info[g].core /\ k = key
      <3>1. i \in DOMAIN plan' /\ plan'[i].group = g
        BY <1>8, <1>9, <1>10, <2>2
      <3>2. ~Info[plan'[i].group].core /\ SectionKey(plan'[i].group) = k
        BY <1>10
      <3>3. QED
        BY <3>1, <3>2 DEF SectionKey, key
    <2>3. QED
      BY <2>1, <2>2
  <1> HIDE DEF new, old
  <1>13. CASE Info[g].core \/ k # key
    <2>1. new = old /\ MadeOf(k)' = MadeOf(k)
      BY <1>7, <1>11, <1>12, <1>13
    <2>2. \A i \in MadeOf(k) : plan'[i] = plan[i]
      BY <1>8, <1>11
    <2>3. (MadeOf(k)' # {} => new # NoTime) /\ (new # NoTime => \E i \in MadeOf(k)' : new = plan'[i].first)
      BY <1>6, <2>1, <2>2
    <2>4. QED
      BY <2>3 DEF new
  <1>14. CASE ~Info[g].core /\ k = key
    <2>1. new # NoTime /\ (new = old \/ \E i \in DOMAIN given : new = given[i].first)
      BY <1>7, <1>14
    <2>2. \E i \in MadeOf(k)' : new = plan'[i].first
      <3>1. CASE new = old
        <4>1. PICK i \in MadeOf(k) : old = plan[i].first
          BY <1>6, <2>1, <3>1
        <4>2. i \in MadeOf(k)' /\ plan'[i] = plan[i]
          BY <1>8, <1>11
        <4>3. QED
          BY <3>1, <4>1, <4>2
      <3>2. CASE \E i \in DOMAIN given : new = given[i].first
        <4>1. PICK n \in DOMAIN given : new = given[n].first
          BY <3>2
        <4>2. PICK i \in DOMAIN plan' : plan'[i] = given[n]
          BY <1>8
        <4>3. i \in MadeOf(k)'
          BY <1>9, <1>10, <1>14, <4>2 DEF SectionKey, key
        <4>4. QED
          BY <4>1, <4>2, <4>3
      <3>3. QED
        BY <2>1, <3>1, <3>2
    <2>3. QED
      BY <2>1, <2>2 DEF new
  <1>15. QED
    BY <1>13, <1>14

(* None of the tasks before comes later, and the first of them is waited   *)
(* for.                                                                    *)
LEMMA PlacedWaits ==
    ASSUME CpTyped, Orderly, NEW g \in Group, NEW e \in Nat, GrownBy(g, e), Waited(g, e),
           plan' \in Seq(TaskRows), \A i \in Made : ~Precedes(g, plan[i].group)
    PROVE  StartsAfterFirsts'
  <1>1. Typed
    BY DEF CpTyped
  <1> DEFINE Prior(i) == {j \in DOMAIN plan' : /\ ~plan'[j].kept
                                                 /\ Info[plan'[i].group].process \in DOMAIN Predecessor
                                                 /\ Info[plan'[j].group].process = Predecessor[Info[plan'[i].group].process]
                                                 /\ Info[plan'[j].group].sq = Info[plan'[i].group].sq
                                                 /\ ~Info[plan'[j].group].core}
  <1>2. \A i : MadeBefore(i)' = Prior(i)
    BY DEF MadeBefore, Made, PrecedesOf, GroupAt
  <1>3. SUFFICES ASSUME NEW i \in DOMAIN plan', ~plan'[i].kept, Prior(i) # {},
                        Cardinality(Sections(plan'[i].group)) = 1, \A j \in Prior(i) : plan'[j].first # Never
                 PROVE  plan'[i].start >= Min({plan'[j].first : j \in Prior(i)}) + Curing(plan'[i].group)
    <2>1. \A n : Curing(n)' = Curing(n) /\ Sections(n)' = Sections(n)
      BY DEF Curing, Sections
    <2>2. \A n \in Made' : n \in DOMAIN plan' /\ ~plan'[n].kept
      BY DEF Made
    <2> HIDE DEF Prior, MadeBefore, Curing, Sections
    <2>3. QED
      BY <1>2, <1>3, <2>1, <2>2 DEF StartsAfterFirsts
  <1> DEFINE h == plan'[i].group
             p == Info[h].process
  <1>4. h \in Group /\ \A j \in DOMAIN plan' : plan'[j].group \in Group
    <2>1. \A j \in DOMAIN plan' : plan'[j] \in TaskRows
      OBVIOUS
    <2>2. QED
      BY <2>1 DEF TaskRows
  <1>5. \A j \in DOMAIN plan' \ DOMAIN plan : plan'[j].group = g
    BY DEF GrownBy, TasksFor
  <1>6. p \in DOMAIN Predecessor
    BY <1>3
  <1>7. ASSUME NEW j \in Prior(i) PROVE j \in DOMAIN plan
    <2>1. SUFFICES ASSUME j \notin DOMAIN plan PROVE FALSE
      OBVIOUS
    <2>2. plan'[j].group = g
      BY <1>5, <2>1
    <2>3. Precedes(g, h) /\ Info[g].process # p
      BY <1>4, <1>6, <1>7, <2>2, PredecessorPrecedes
    <2>4. i \in DOMAIN plan
      BY <1>5, <2>3
    <2>5. plan'[i] = plan[i] /\ i \in Made
      BY <1>3, <2>4 DEF GrownBy, Made
    <2>6. QED
      BY <2>3, <2>5
  <1>8. \A j \in Prior(i) : plan'[j] = plan[j]
    BY <1>7 DEF GrownBy
  <1>9. CASE i \in DOMAIN plan
    <2>1. plan'[i] = plan[i] /\ i \in Made
      BY <1>3, <1>9 DEF GrownBy, Made
    <2>2. MadeBefore(i) = Prior(i)
      BY <1>7, <1>8, <2>1 DEF MadeBefore, PrecedesOf, GroupAt, GrownBy, Made
    <2> HIDE DEF Prior
    <2>3. {plan'[j].first : j \in Prior(i)} = {plan[j].first : j \in MadeBefore(i)}
      BY <1>8, <2>2
    <2>4. MadeBefore(i) # {} /\ \A j \in MadeBefore(i) : plan[j].first # Never
      BY <1>3, <1>8, <2>2
    <2> HIDE DEF MadeBefore
    <2>5. plan[i].start >= Min({plan[j].first : j \in MadeBefore(i)}) + Curing(plan[i].group)
      BY <1>3, <2>1, <2>4 DEF Orderly, StartsAfterFirsts
    <2>6. QED
      BY <2>1, <2>3, <2>5
  <1>10. CASE i \notin DOMAIN plan
    <2> DEFINE k      == <<Predecessor[p], Info[h].sq>>
               firsts == {plan'[j].first : j \in Prior(i)}
               x      == process_first_output_by_sq[k]
    <2>1. h = g /\ plan'[i] \in TasksFor(g, e)
      BY <1>5, <1>10 DEF GrownBy
    <2>2. Predecessor[p] \in Processes
      BY <1>6 DEF Predecessor, Processes, InsulationProcesses
    <2>3. k \in Keys
      BY <1>4, <2>2, SectionsAre DEF Keys
    <2>4. MadeOf(k) = Prior(i)
      <3>1. Prior(i) \subseteq MadeOf(k)
        BY <1>7, <1>8 DEF MadeOf, Made, GroupAt, SectionKey
      <3>2. MadeOf(k) \subseteq Prior(i)
        BY <1>6 DEF MadeOf, Made, GroupAt, SectionKey, GrownBy
      <3>3. QED
        BY <3>1, <3>2
    <2> HIDE DEF Prior
    <2>5. x # NoTime
      BY <1>3, <2>3, <2>4 DEF Orderly, MadeFirstsAreKnown
    <2>6. PICK j \in MadeOf(k) : x = plan[j].first
      BY <2>3, <2>5 DEF Orderly, MadeFirstsAreKnown
    <2>7. x \in firsts /\ x # Never
      BY <1>3, <1>8, <2>4, <2>6
    <2>8. firsts \subseteq Nat
      <3>1. \A n \in DOMAIN plan : plan[n].first \in Nat
        BY <1>1, TasksAre
      <3>2. QED
        BY <1>7, <1>8, <3>1
    <2>9. Sections(g) = {Info[h].sq}
      <3>1. Info[h].sq \in Sections(g) /\ Cardinality(Sections(g)) = 1 /\ IsFiniteSet(Sections(g))
        BY <1>3, <2>1, SectionsAre
      <3>2. \E s : Sections(g) = {s}
        BY <3>1, FS_Singleton
      <3>3. QED
        BY <3>1, <3>2
    <2>10. PICK multi \in BOOLEAN : \A y \in PredecessorFirst(g, multi) : y + Curing(g) <= e
      BY DEF Waited
    <2>11. x \in PredecessorFirst(g, multi)
      <3> HIDE DEF firsts
      <3>1. QED
        BY <1>1, <1>6, <2>1, <2>5, <2>7, <2>9, PredecessorFirstIs
    <2> HIDE DEF x
    <2>12. x + Curing(g) <= e /\ Curing(g) \in Nat
      <3>1. x + Curing(g) <= e
        BY <2>10, <2>11
      <3>2. Curing(g) \in Nat
        BY DEF Curing, Ticks
      <3>3. QED
        BY <3>1, <3>2
    <2>13. e <= plan'[i].start /\ plan'[i].start \in Nat
      BY <2>1 DEF TasksFor, TaskRows
    <2> HIDE DEF firsts
    <2>14. Min(firsts) \in Nat /\ Min(firsts) <= x /\ x \in Nat
      BY <2>7, <2>8, MinIs
    <2>15. plan'[i].start >= Min(firsts) + Curing(g)
      BY <2>12, <2>13, <2>14
    <2>16. QED
      BY <2>1, <2>15 DEF firsts
  <1>11. QED
    BY <1>9, <1>10

LEMMA PlaceKeepsInv ==
    ASSUME CpInv, PlaceGroup
    PROVE  CpInv'
  <1> DEFINE g == Head(todo)
  <1>1. /\ phase = "placing" /\ todo # <<>> /\ todo' = Tail(todo) /\ ready' = NoTime
        /\ UNCHANGED <<lexVars, meta, base, work, drums_of, preempted_remainder>>
    BY DEF PlaceGroup
  <1>2. CpTyped /\ Typed /\ ReadyIs /\ todo \in Seq(CpGroups) /\ lex_status \in Solved /\ Orderly /\ SharesAre
    BY <1>1 DEF CpInv, CpTyped
  <1>3. found.choice \in [CpGroups -> Places]
    BY <1>2 DEF CpTyped
  <1>4. g \in CpGroups /\ g \in Group
    BY <1>1, <1>2 DEF CpTyped
  <1>5. PICK given \in Seq(TaskRows), e \in Nat :
           /\ given # <<>> /\ plan' = plan \o given /\ Record(g, given)
           /\ \A i \in DOMAIN given : given[i] \in TasksFor(g, e)
           /\ Waited(g, e)
    BY <1>2, <1>3, PlacedIs
  <1>6. /\ phase' = phase /\ built' = built /\ model' = model /\ found' = found /\ lex_status' = lex_status
        /\ meta' = meta /\ base' = base /\ work' = work /\ drums_of' = drums_of
        /\ preempted_remainder' = preempted_remainder
    BY <1>1 DEF lexVars
  <1> HIDE DEF g
  <1>7. plan' \in Seq(TaskRows) /\ GrownBy(g, e)
    BY <1>2, <1>5, PlacedGrows
  <1>8. InTurn' /\ todo' \in Seq(CpGroups) /\ todo' \in Seq(Group) /\ \A i \in Made : ~Precedes(g, plan[i].group)
    BY <1>1, <1>2, <1>7, PlacedInTurn DEF Orderly, g
  <1>9. /\ process_end_by_sq' \in [Keys -> Nat \cup {NoTime}]
        /\ process_first_output_by_sq' \in [Keys -> Nat \cup {NoTime}]
        /\ MadeFirstsAreKnown'
    BY <1>2, <1>4, <1>5, PlacedIsKnown DEF Orderly
  <1>10. StartsAfterFirsts'
    BY <1>2, <1>4, <1>5, <1>7, <1>8, PlacedWaits
  <1>11. CpGroups' = CpGroups /\ Places' = Places /\ Shares' = Shares /\ Keys' = Keys
    BY <1>6 DEF CpGroups, Places, Shares, Codes, Keys, Sections
  <1>12. Typed'
    BY <1>2, <1>6, <1>7, <1>8, <1>9, <1>11 DEF Typed
  <1>13. CpTyped'
    <2>1. [CpGroups -> Places]' = [CpGroups -> Places]
      BY <1>11
    <2>2. (\A s \in built' \cup model' : s.choice \in [CpGroups -> Places]')
          /\ (lex_status' \in Solved => found'.choice \in [CpGroups -> Places]')
      BY <1>2, <1>6, <2>1 DEF CpTyped
    <2>3. /\ CpGroups' \subseteq Group \ Started
          /\ \A n \in CpGroups' : meta'[n].eligible \subseteq DOMAIN Machines /\ meta'[n].steps \in Int
      BY <1>2, <1>6, <1>11 DEF CpTyped
    <2>4. /\ drums_of' \in [Group -> Nat] /\ (\A n \in Group : drums_of'[n] <= Info[n].drums)
          /\ preempted_remainder' \in Seq(Shares)
      BY <1>2, <1>6 DEF CpTyped
    <2> HIDE DEF CpGroups, Places, Shares
    <2>5. QED
      BY <1>1, <1>11, <1>12, <2>2, <2>3, <2>4 DEF CpTyped
  <1>14. SharesAre'
    <2>1. \A k \in DOMAIN preempted_remainder :
             \/ preempted_remainder[k].drums # Info[preempted_remainder[k].group].drums
             \/ \E i \in DOMAIN plan' : plan'[i].group = preempted_remainder[k].group /\ plan'[i].gone
      BY <1>2, <1>7 DEF SharesAre, GrownBy
    <2>2. QED
      BY <1>6, <2>1 DEF SharesAre
  <1>15. ReadyIs'
    BY <1>1 DEF ReadyIs
  <1>16. UnmovedWait'
    BY <1>10 DEF StartsAfterFirsts, UnmovedWait
  <1>17. todo' \in Seq(CpGroups')
    BY <1>8, <1>11
  <1>18. QED
    BY <1>1, <1>2, <1>6, <1>8, <1>9, <1>10, <1>13, <1>14, <1>15, <1>16, <1>17 DEF CpInv, Orderly

-----------------------------------------------------------------------------
(* The steps that put back what was taken off *)

(* The list of what was handed on, without its first.                      *)
LEMMA OneLess ==
    ASSUME NEW X, NEW s \in Seq(X), s # <<>>
    PROVE  /\ Head(s) = s[1] /\ s[1] \in X /\ 1 \in DOMAIN s /\ Tail(s) \in Seq(X)
           /\ Len(Tail(s)) \in Nat /\ DOMAIN s = 1 .. Len(Tail(s)) + 1 /\ DOMAIN Tail(s) = 1 .. Len(Tail(s))
           /\ \A k \in DOMAIN Tail(s) : k + 1 \in DOMAIN s /\ Tail(s)[k] = s[k + 1]
  OBVIOUS

LEMMA PutBackIs ==
    ASSUME CpTyped, PlaceRemainder
    PROVE  /\ preempted_remainder # <<>> /\ preempted_remainder' = Tail(preempted_remainder)
           /\ \E task \in TasksFor(preempted_remainder[1].group, base) :
                 /\ plan' = plan \o <<task>>
                 /\ task.alone /\ task.drums = preempted_remainder[1].drums
  <1> DEFINE r        == Head(preempted_remainder)
             duration == r.drums * work[r.group] + r.setup
             at       == FindSlot(MachineCat(r.machine), base, duration, Timeline(r.machine))
             block    == [start |-> at, end |-> EndOf(MachineCat(r.machine), at, duration)]
             task     == NewTask(r.group, r.machine, block, r.setup, r.drums, TRUE)
  <1>1. /\ preempted_remainder # <<>> /\ preempted_remainder' = Tail(preempted_remainder)
        /\ plan' = Append(plan, task)
    BY DEF PlaceRemainder
  <1>2. preempted_remainder \in Seq(Shares) /\ Typed
    BY DEF CpTyped
  <1>3. r = preempted_remainder[1] /\ r \in Shares
    BY <1>1, <1>2, OneLess
  <1> HIDE DEF r
  <1>4. r.group \in Group /\ r.machine \in Codes /\ r.drums \in Nat /\ r.setup \in Nat
    BY <1>3 DEF Shares
  <1>5. base \in Nat /\ work[r.group] \in Nat
    BY <1>2, <1>4 DEF Typed
  <1>6. duration \in Nat
    <2>1. r.drums * work[r.group] \in Nat
      BY <1>4, <1>5
    <2>2. QED
      BY <1>4, <2>1
  <1> HIDE DEF duration
  <1>7. MachineCat(r.machine) \in Categories /\ AreSlots(Timeline(r.machine))
    BY <1>2, <1>4, CatIs, SlotsAre
  <1>8. at \in Nat /\ base <= at
    BY <1>5, <1>6, <1>7, FoundSlotFits
  <1> HIDE DEF at
  <1>9. block.start \in Nat /\ block.end \in Nat /\ base <= block.start
    <2>1. EndOf(MachineCat(r.machine), at, duration) \in Nat
      BY <1>6, <1>7, <1>8, EndOfIs
    <2>2. QED
      BY <1>8, <2>1
  <1> HIDE DEF block
  <1>10. task \in TasksFor(r.group, base) /\ task.alone /\ task.drums = r.drums
    <2>1. TRUE \in BOOLEAN
      OBVIOUS
    <2>2. task \in TasksFor(r.group, base)
      BY <1>2, <1>4, <1>5, <1>9, <2>1, NewTaskIs
    <2>3. task.alone /\ task.drums = r.drums
      BY DEF NewTask
    <2>4. QED
      BY <2>2, <2>3
  <1> HIDE DEF task
  <1>11. task \in TaskRows /\ plan \in Seq(TaskRows)
    BY <1>2, <1>10 DEF TasksFor, Typed
  <1>12. plan' = plan \o <<task>>
    BY <1>1, <1>11
  <1>13. QED
    BY <1>1, <1>3, <1>10, <1>12

(* What is put back is displaced, and what was displaced stays so.         *)
DisplacedThen(g) ==
    \E i \in DOMAIN plan' : /\ plan'[i].group = g
                            /\ plan'[i].gone \/ (plan'[i].alone /\ plan'[i].drums # Info[g].drums)

LEMMA PutBackIsMoved ==
    ASSUME CpTyped, UnmovedWait, NEW h \in Group, NEW e \in Nat, GrownBy(h, e), plan' \in Seq(TaskRows),
           \A i \in DOMAIN plan' \ DOMAIN plan : DisplacedThen(plan'[i].group)
    PROVE  UnmovedWait'
  <1> DEFINE Prior(i) == {j \in DOMAIN plan' : /\ ~plan'[j].kept
                                                 /\ PrecedesOf(plan'[j].group, plan'[i].group)
                                                 /\ ~Info[plan'[j].group].core}
  <1>1. \A i : MadeBefore(i)' = Prior(i)
    BY DEF MadeBefore, Made, PrecedesOf, GroupAt
  <1>2. \A i \in DOMAIN plan : i \in DOMAIN plan' /\ plan'[i] = plan[i]
    BY DEF GrownBy
  <1>3. \A g : (Displaced(g) => DisplacedThen(g)) /\ (Displaced(g)' <=> DisplacedThen(g))
    BY <1>2 DEF Displaced, DisplacedThen
  <1>4. \A g : Curing(g)' = Curing(g) /\ Sections(g)' = Sections(g)
    BY DEF Curing, Sections
  <1>5. \A i \in Made' : i \in DOMAIN plan' /\ ~plan'[i].kept
    BY DEF Made
  <1>6. SUFFICES ASSUME NEW i \in DOMAIN plan', ~plan'[i].kept, Prior(i) # {},
                        Cardinality(Sections(plan'[i].group)) = 1, \A j \in Prior(i) : plan'[j].first # Never,
                        ~DisplacedThen(plan'[i].group), \A j \in Prior(i) : ~DisplacedThen(plan'[j].group)
                 PROVE  plan'[i].start >= Min({plan'[j].first : j \in Prior(i)}) + Curing(plan'[i].group)
    <2> HIDE DEF Prior, MadeBefore, Curing, Sections, Displaced, DisplacedThen
    <2>1. QED
      BY <1>1, <1>3, <1>4, <1>5, <1>6 DEF UnmovedWait
  <1>7. i \in DOMAIN plan /\ Prior(i) \subseteq DOMAIN plan
    <2> HIDE DEF DisplacedThen
    <2>1. QED
      BY <1>6
  <1>8. plan'[i] = plan[i] /\ i \in Made /\ \A j \in Prior(i) : plan'[j] = plan[j]
    BY <1>2, <1>6, <1>7 DEF Made
  <1>9. MadeBefore(i) = Prior(i)
    BY <1>2, <1>7, <1>8 DEF MadeBefore, Made, GroupAt
  <1> HIDE DEF Prior, Displaced, DisplacedThen
  <1>10. {plan'[j].first : j \in Prior(i)} = {plan[j].first : j \in MadeBefore(i)}
    BY <1>8, <1>9
  <1>11. /\ MadeBefore(i) # {} /\ \A j \in MadeBefore(i) : plan[j].first # Never
         /\ ~Displaced(plan[i].group) /\ \A j \in MadeBefore(i) : ~Displaced(plan[j].group)
    BY <1>3, <1>6, <1>8, <1>9
  <1> HIDE DEF MadeBefore
  <1>12. plan[i].start >= Min({plan[j].first : j \in MadeBefore(i)}) + Curing(plan[i].group)
    BY <1>6, <1>8, <1>11 DEF UnmovedWait
  <1>13. QED
    BY <1>8, <1>10, <1>12

LEMMA PutBackKeepsInv ==
    ASSUME CpInv, PlaceRemainder
    PROVE  CpInv'
  <1> DEFINE s == preempted_remainder
             h == s[1].group
  <1>1. /\ phase = "placing" /\ todo = <<>> /\ todo' = todo
        /\ UNCHANGED <<lexVars, meta, base, work, process_end_by_sq, process_first_output_by_sq, drums_of, ready>>
    BY DEF PlaceRemainder
  <1>2. CpTyped /\ Typed /\ ReadyIs /\ lex_status \in Solved /\ SharesAre /\ UnmovedWait /\ s \in Seq(Shares)
    BY <1>1 DEF CpInv, CpTyped
  <1>3. s # <<>> /\ s' = Tail(s)
    BY <1>2, PutBackIs
  <1>4. PICK task \in TasksFor(h, base) : plan' = plan \o <<task>> /\ task.alone /\ task.drums = s[1].drums
    BY <1>2, PutBackIs
  <1>5. /\ phase' = phase /\ built' = built /\ model' = model /\ found' = found /\ lex_status' = lex_status
        /\ meta' = meta /\ base' = base /\ work' = work /\ drums_of' = drums_of /\ ready' = ready
        /\ process_end_by_sq' = process_end_by_sq /\ process_first_output_by_sq' = process_first_output_by_sq
    BY <1>1 DEF lexVars
  <1>6. /\ s[1] \in Shares /\ 1 \in DOMAIN s /\ s' \in Seq(Shares)
        /\ \A k \in DOMAIN s' : k + 1 \in DOMAIN s /\ s'[k] = s[k + 1]
    <2> HIDE DEF s
    <2>1. QED
      BY <1>2, <1>3, OneLess
  <1>7. h \in Group /\ base \in Nat
    BY <1>2, <1>6 DEF Shares, Typed
  <1>8. /\ plan' \in Seq(TaskRows) /\ GrownBy(h, base)
        /\ \A i \in DOMAIN plan' \ DOMAIN plan : plan'[i] = task
    <2>1. task \in TaskRows
      BY DEF TasksFor
    <2>2. <<task>> \in Seq(TaskRows) /\ \A k \in DOMAIN <<task>> : <<task>>[k] = task
      BY <2>1
    <2>3. plan' \in Seq(TaskRows) /\ GrownBy(h, base)
      BY <1>2, <1>4, <2>2, PlacedGrows
    <2>4. \A i \in DOMAIN plan' : i \in DOMAIN plan \/ \E k \in DOMAIN <<task>> : plan'[i] = <<task>>[k]
      BY <1>2, <1>4, <2>2, Appended
    <2>5. QED
      BY <2>2, <2>3, <2>4
  <1>9. \A i \in DOMAIN plan : i \in DOMAIN plan' /\ plan'[i] = plan[i]
    BY <1>8 DEF GrownBy
  <1>10. \A i \in DOMAIN plan' \ DOMAIN plan : DisplacedThen(plan'[i].group)
    <2>1. SUFFICES ASSUME NEW i \in DOMAIN plan', i \notin DOMAIN plan PROVE DisplacedThen(plan'[i].group)
      OBVIOUS
    <2>2. plan'[i] = task /\ task.group = h
      BY <1>8, <2>1 DEF TasksFor
    <2>3. s[1].drums # Info[h].drums \/ \E n \in DOMAIN plan : plan[n].group = h /\ plan[n].gone
      BY <1>2, <1>6 DEF SharesAre
    <2> HIDE DEF h, s
    <2>4. CASE s[1].drums # Info[h].drums
      BY <1>4, <2>1, <2>2, <2>4 DEF DisplacedThen
    <2>5. CASE \E n \in DOMAIN plan : plan[n].group = h /\ plan[n].gone
      <3>1. \E n \in DOMAIN plan' : plan'[n].group = h /\ plan'[n].gone
        BY <1>9, <2>5
      <3>2. QED
        BY <2>2, <3>1 DEF DisplacedThen
    <2>6. QED
      BY <2>3, <2>4, <2>5
  <1>11. UnmovedWait'
    <2> HIDE DEF h, s
    <2>1. QED
      BY <1>2, <1>7, <1>8, <1>10, PutBackIsMoved
  <1>12. SharesAre'
    <2>1. \A k \in DOMAIN s' : \/ s'[k].drums # Info[s'[k].group].drums
                               \/ \E i \in DOMAIN plan' : plan'[i].group = s'[k].group /\ plan'[i].gone
      BY <1>2, <1>6, <1>9 DEF SharesAre
    <2>2. QED
      BY <2>1 DEF SharesAre
  <1>13. CpGroups' = CpGroups /\ Places' = Places /\ Shares' = Shares /\ Keys' = Keys
    BY <1>5 DEF CpGroups, Places, Shares, Codes, Keys, Sections
  <1>14. Typed'
    BY <1>1, <1>2, <1>5, <1>8, <1>13 DEF Typed
  <1>15. CpTyped'
    <2>1. [CpGroups -> Places]' = [CpGroups -> Places]
      BY <1>13
    <2>2. (\A x \in built' \cup model' : x.choice \in [CpGroups -> Places]')
          /\ (lex_status' \in Solved => found'.choice \in [CpGroups -> Places]')
      BY <1>2, <1>5, <2>1 DEF CpTyped
    <2>3. /\ CpGroups' \subseteq Group \ Started
          /\ \A n \in CpGroups' : meta'[n].eligible \subseteq DOMAIN Machines /\ meta'[n].steps \in Int
      BY <1>2, <1>5, <1>13 DEF CpTyped
    <2>4. /\ drums_of' \in [Group -> Nat] /\ (\A n \in Group : drums_of'[n] <= Info[n].drums)
          /\ ready' \in Nat \cup {NoTime}
      BY <1>2, <1>5 DEF CpTyped
    <2> HIDE DEF CpGroups, Places, Shares
    <2>5. QED
      BY <1>6, <1>13, <1>14, <2>2, <2>3, <2>4 DEF CpTyped
  <1>16. ReadyIs' /\ todo' = <<>> /\ todo' \in Seq(CpGroups')
    <2>1. todo' = <<>> /\ todo' \in Seq(CpGroups')
      BY <1>1, EmptyIs
    <2>2. ready' = NoTime
      BY <1>1, <1>2, <1>5 DEF ReadyIs
    <2>3. QED
      BY <2>1, <2>2 DEF ReadyIs
  <1>17. QED
    BY <1>1, <1>2, <1>5, <1>11, <1>12, <1>15, <1>16 DEF CpInv

(* Nothing but where the run stands, or nothing at all.                    *)
LEMMA RestKeepsInv ==
    ASSUME CpInv, Flush \/ UNCHANGED cpVars
    PROVE  CpInv'
  <1>1. /\ built' = built /\ model' = model /\ found' = found /\ lex_status' = lex_status
        /\ UNCHANGED <<base, work, placing, cpState>>
        /\ \/ phase' = phase
           \/ phase = "placing" /\ phase' = "finished" /\ todo = <<>> /\ preempted_remainder = <<>>
    BY DEF Flush, cpVars, lexVars
  <1>2. meta' = meta /\ Still /\ todo' = todo /\ preempted_remainder' = preempted_remainder
    BY <1>1 DEF placing, cpState, Still
  <1>3. /\ CpTyped /\ todo \in Seq(CpGroups) /\ ReadyIs /\ SharesAre /\ UnmovedWait
        /\ phase \notin {"placing", "finished"} => Fresh
        /\ todo # <<>> => Orderly
    BY DEF CpInv
  <1>4. /\ Typed' /\ SharesAre' /\ UnmovedWait' /\ ReadyIs'
        /\ phase \notin {"placing", "finished"} => Fresh'
        /\ todo # <<>> => Orderly'
    BY <1>2, <1>3, SameIs DEF CpTyped
  <1>5. CpGroups' = CpGroups /\ Places' = Places /\ Shares' = Shares
    BY <1>2 DEF CpGroups, Places, Shares, Codes
  <1>6. CpTyped'
    <2>1. [CpGroups -> Places]' = [CpGroups -> Places]
      BY <1>5
    <2>2. (\A x \in built' \cup model' : x.choice \in [CpGroups -> Places]')
          /\ (lex_status' \in Solved => found'.choice \in [CpGroups -> Places]')
      BY <1>1, <1>3, <2>1 DEF CpTyped
    <2>3. /\ CpGroups' \subseteq Group \ Started
          /\ \A n \in CpGroups' : meta'[n].eligible \subseteq DOMAIN Machines /\ meta'[n].steps \in Int
      BY <1>2, <1>3, <1>5 DEF CpTyped
    <2>4. /\ drums_of' \in [Group -> Nat] /\ (\A n \in Group : drums_of'[n] <= Info[n].drums)
          /\ ready' \in Nat \cup {NoTime} /\ preempted_remainder' \in Seq(Shares)
      BY <1>2, <1>3 DEF CpTyped, Still
    <2> HIDE DEF CpGroups, Places, Shares
    <2>5. QED
      BY <1>4, <1>5, <2>2, <2>3, <2>4 DEF CpTyped
  <1>7. todo' \in Seq(CpGroups')
    BY <1>2, <1>3, <1>5
  <1>8. /\ phase' = "load" => built' = {} /\ model' = {} /\ lex_status' = ""
        /\ phase' = "placing" => lex_status' \in Solved
        /\ phase' = "finished" => todo' = <<>> /\ preempted_remainder' = <<>>
        /\ phase' \notin {"placing", "finished"} => phase \notin {"placing", "finished"}
    BY <1>1, <1>2 DEF CpInv
  <1>9. QED
    BY <1>2, <1>4, <1>6, <1>7, <1>8 DEF CpInv

LEMMA StepKeepsInv ==
    ASSUME CpInv, [CpNext]_cpVars
    PROVE  CpInv'
  <1>1. CASE LoadGroups
    BY <1>1, LoadKeepsInv
  <1>2. CASE BuildModel
    BY <1>2, BuildKeepsInv
  <1>3. CASE Solve
    BY <1>3, SolveKeepsInv
  <1>4. CASE Decide
    BY <1>4, DecideKeepsInv
  <1>5. CASE MakeRoom
    BY <1>5, RoomKeepsInv
  <1>6. CASE PlaceGroup
    BY <1>6, PlaceKeepsInv
  <1>7. CASE PlaceRemainder
    BY <1>7, PutBackKeepsInv
  <1>8. CASE Flush \/ UNCHANGED cpVars
    BY <1>8, RestKeepsInv
  <1>9. QED
    BY <1>1, <1>2, <1>3, <1>4, <1>5, <1>6, <1>7, <1>8 DEF CpNext

THEOREM CpInvHolds == CpSpec => []CpInv
  <1>1. CpInit => CpInv
    BY StartIsInv
  <1>2. CpInv /\ [CpNext]_cpVars => CpInv'
    BY StepKeepsInv
  <1>3. QED
    BY <1>1, <1>2, PTL DEF CpSpec

(* The tables and the lists of a run keep their shape, whatever the solver *)
(* answers: its plans choose a machine and a start for every group that    *)
(* has a machine, no group is left more drums than it has, and what is     *)
(* taken off the machines is drums of a group on a machine.                *)
THEOREM CpSatIsTyped == CpSpec => []CpTyped
  <1>1. CpInv => CpTyped
    BY DEF CpInv
  <1>2. QED
    BY <1>1, CpInvHolds, PTL

(* A group that the calendar has placed begins after the first drum of the *)
(* process before, as far as this run has placed that and neither was      *)
(* displaced: apply_sheath_color_sort never puts a predecessor behind, so  *)
(* that process_first_output_by_sq is known when it is asked for, and what *)
(* is put back at the end was displaced.                                   *)
THEOREM PlacedAfterTheFirstDrum == CpSpec => []FirstDrumBefore
  <1>1. CpInv => FirstDrumBefore
    BY UnmovedIsEnough DEF CpInv
  <1>2. QED
    BY <1>1, CpInvHolds, PTL

-----------------------------------------------------------------------------
(* The drums of a group, on the machines and taken off them *)

DrumsIn(p, g)  == [i \in DOMAIN p |-> IF p[i].group = g /\ ~p[i].gone THEN p[i].drums ELSE 0]
SharesIn(q, g) == [k \in DOMAIN q |-> IF q[k].group = g THEN q[k].drums ELSE 0]
InPlan(p, g)   == Sum(DrumsIn(p, g), DOMAIN p)
InShares(q, g) == Sum(SharesIn(q, g), DOMAIN q)

LEMMA InPlanIs ==
    ASSUME NEW p \in Seq(TaskRows), NEW g
    PROVE  /\ DOMAIN p = 1 .. Len(p) /\ Len(p) \in Nat /\ IsFiniteSet(DOMAIN p)
           /\ \A i \in DOMAIN p : DrumsIn(p, g)[i] \in Nat
           /\ InPlan(p, g) \in Nat
  <1>1. DOMAIN p = 1 .. Len(p) /\ Len(p) \in Nat /\ \A i \in DOMAIN p : p[i] \in TaskRows
    OBVIOUS
  <1>2. IsFiniteSet(DOMAIN p)
    BY <1>1, FS_Interval
  <1>3. \A i \in DOMAIN p : p[i].drums \in Nat
    BY <1>1 DEF TaskRows
  <1>4. \A i \in DOMAIN p : DrumsIn(p, g)[i] \in Nat
    BY <1>3 DEF DrumsIn
  <1>5. InPlan(p, g) \in Nat
    BY <1>2, <1>4, SumIsNat DEF InPlan
  <1>6. QED
    BY <1>1, <1>2, <1>4, <1>5

LEMMA InSharesIs ==
    ASSUME NEW q \in Seq(Shares), NEW g
    PROVE  /\ DOMAIN q = 1 .. Len(q) /\ Len(q) \in Nat /\ IsFiniteSet(DOMAIN q)
           /\ \A k \in DOMAIN q : SharesIn(q, g)[k] \in Nat
           /\ InShares(q, g) \in Nat
  <1>1. DOMAIN q = 1 .. Len(q) /\ Len(q) \in Nat /\ \A i \in DOMAIN q : q[i] \in Shares
    OBVIOUS
  <1>2. IsFiniteSet(DOMAIN q)
    BY <1>1, FS_Interval
  <1>3. \A i \in DOMAIN q : q[i].drums \in Nat
    BY <1>1 DEF Shares
  <1>4. \A i \in DOMAIN q : SharesIn(q, g)[i] \in Nat
    BY <1>3 DEF SharesIn
  <1>5. InShares(q, g) \in Nat
    BY <1>2, <1>4, SumIsNat DEF InShares
  <1>6. QED
    BY <1>1, <1>2, <1>4, <1>5

LEMMA NoneInPlan ==
    ASSUME NEW p, NEW g, \A i \in DOMAIN p : p[i].group # g
    PROVE  InPlan(p, g) = 0
  <1>1. \A i \in DOMAIN p : DrumsIn(p, g)[i] = 0
    BY DEF DrumsIn
  <1>2. QED
    BY <1>1, SumOfNone DEF InPlan

LEMMA OneInPlan ==
    ASSUME NEW p \in Seq(TaskRows), NEW g, NEW i \in DOMAIN p, p[i].group = g, ~p[i].gone,
           \A j \in DOMAIN p : p[j].group = g => j = i
    PROVE  InPlan(p, g) = p[i].drums
  <1> DEFINE f == DrumsIn(p, g)
  <1>1. f[i] = p[i].drums /\ f[i] \in Nat /\ \A j \in DOMAIN p \ {i} : f[j] = 0
    BY InPlanIs DEF DrumsIn
  <1> HIDE DEF f
  <1>2. Sum(f, DOMAIN p) = Sum(f, {i})
    BY <1>1, SumOfPart
  <1>3. Sum(f, {i}) = f[i]
    BY <1>1, UnitsOfOne DEF Sum
  <1>4. QED
    BY <1>1, <1>2, <1>3 DEF InPlan, f

(* One task changes.                                                       *)
LEMMA OneChanged ==
    ASSUME NEW p \in Seq(TaskRows), NEW q \in Seq(TaskRows), DOMAIN q = DOMAIN p, NEW i \in DOMAIN p, NEW g,
           \A j \in DOMAIN p : j # i => q[j] = p[j]
    PROVE  InPlan(q, g) + DrumsIn(p, g)[i] = InPlan(p, g) + DrumsIn(q, g)[i]
  <1> DEFINE f == DrumsIn(p, g)
             h == DrumsIn(q, g)
  <1>1. IsFiniteSet(DOMAIN p) /\ \A j \in DOMAIN p : f[j] \in Nat /\ h[j] \in Nat
    BY InPlanIs
  <1>2. \A j \in DOMAIN p \ {i} : h[j] = f[j]
    BY DEF DrumsIn
  <1>3. InPlan(q, g) = Sum(h, DOMAIN p) /\ InPlan(p, g) = Sum(f, DOMAIN p)
    BY DEF InPlan
  <1> HIDE DEF f, h
  <1>4. Sum(h, DOMAIN p) + f[i] = Sum(f, DOMAIN p) + h[i]
    <2> DEFINE S == DOMAIN p
    <2>1. i \in S /\ IsFiniteSet(S)
      BY <1>1
    <2>2. (\A j \in S : f[j] \in Nat /\ h[j] \in Nat) /\ \A j \in S \ {i} : h[j] = f[j]
      BY <1>1, <1>2
    <2> HIDE DEF S
    <2>3. Sum(h, S) + f[i] = Sum(f, S) + h[i]
      BY <2>1, <2>2, SumChanges
    <2>4. QED
      BY <2>3 DEF S
  <1>5. QED
    BY <1>3, <1>4 DEF f, h

(* Tasks of other groups do not count.                                     *)
LEMMA OthersAdded ==
    ASSUME NEW p \in Seq(TaskRows), NEW given \in Seq(TaskRows), NEW g, \A k \in DOMAIN given : given[k].group # g
    PROVE  InPlan(p \o given, g) = InPlan(p, g)
  <1> DEFINE q == p \o given
             f == DrumsIn(p, g)
             h == DrumsIn(q, g)
  <1>1. /\ DOMAIN p = 1 .. Len(p) /\ Len(p) \in Nat /\ DOMAIN given = 1 .. Len(given) /\ Len(given) \in Nat
        /\ DOMAIN q = 1 .. Len(p) + Len(given)
        /\ \A i \in 1 .. Len(p) : q[i] = p[i]
        /\ \A i \in 1 .. Len(p) + Len(given) : i > Len(p) => q[i] = given[i - Len(p)]
    OBVIOUS
  <1>2. \A i \in DOMAIN q \ DOMAIN p : q[i].group # g
    <2>1. ASSUME NEW i \in DOMAIN q, i \notin DOMAIN p PROVE q[i].group # g
      <3>1. i > Len(p) /\ i - Len(p) \in DOMAIN given
        BY <1>1, <2>1
      <3>2. q[i] = given[i - Len(p)]
        BY <1>1, <3>1
      <3>3. QED
        BY <3>1, <3>2
    <2>2. QED
      BY <2>1
  <1>3. DOMAIN p \subseteq DOMAIN q
    BY <1>1
  <1> HIDE DEF q
  <1>4. (\A i \in DOMAIN p : h[i] = f[i]) /\ \A i \in DOMAIN q \ DOMAIN p : h[i] = 0
    BY <1>1, <1>2, <1>3 DEF DrumsIn
  <1> HIDE DEF f, h
  <1>5. Sum(h, DOMAIN q) = Sum(h, DOMAIN p)
    BY <1>3, <1>4, SumOfPart
  <1>6. Sum(h, DOMAIN p) = Sum(f, DOMAIN p)
    BY <1>4, SumIsSame
  <1>7. QED
    BY <1>5, <1>6 DEF InPlan, f, h, q

LEMMA OneAdded ==
    ASSUME NEW p \in Seq(TaskRows), NEW t \in TaskRows, ~t.gone
    PROVE  InPlan(p \o <<t>>, t.group) = InPlan(p, t.group) + t.drums
  <1> DEFINE q == p \o <<t>>
             g == t.group
             n == Len(p) + 1
             f == DrumsIn(p, g)
             h == DrumsIn(q, g)
  <1>1. /\ DOMAIN p = 1 .. Len(p) /\ Len(p) \in Nat /\ DOMAIN q = 1 .. n /\ q \in Seq(TaskRows)
        /\ q[n] = t /\ \A i \in 1 .. Len(p) : q[i] = p[i]
    OBVIOUS
  <1>2. DOMAIN q = DOMAIN p \cup {n} /\ n \notin DOMAIN p
    BY <1>1
  <1>3. IsFiniteSet(DOMAIN p) /\ \A i \in DOMAIN p \cup {n} : h[i] \in Nat
    BY <1>1, <1>2, InPlanIs
  <1> HIDE DEF q
  <1>4. (\A i \in DOMAIN p : h[i] = f[i]) /\ h[n] = t.drums
    BY <1>1, <1>2 DEF DrumsIn
  <1> HIDE DEF f, h, n, g
  <1>5. Sum(h, DOMAIN p \cup {n}) = Sum(f, DOMAIN p) + h[n]
    <2> DEFINE S == DOMAIN p
    <2>1. n \notin S /\ IsFiniteSet(S)
      BY <1>2, <1>3
    <2>2. (\A j \in S \cup {n} : h[j] \in Nat) /\ \A j \in S : h[j] = f[j]
      BY <1>3, <1>4
    <2> HIDE DEF S
    <2>3. Sum(h, S \cup {n}) = Sum(h, S) + h[n]
      BY <2>1, <2>2, SumOfMore
    <2>4. Sum(h, S) = Sum(f, S)
      BY <2>2, SumIsSame
    <2>5. QED
      BY <2>3, <2>4 DEF S
  <1>6. QED
    BY <1>2, <1>4, <1>5 DEF InPlan, f, h, q, g

LEMMA ShareAdded ==
    ASSUME NEW q \in Seq(Shares), NEW r \in Shares, NEW g
    PROVE  InShares(Append(q, r), g) = InShares(q, g) + (IF r.group = g THEN r.drums ELSE 0)
  <1> DEFINE s == Append(q, r)
             n == Len(q) + 1
             f == SharesIn(q, g)
             h == SharesIn(s, g)
  <1>1. /\ s \in Seq(Shares) /\ DOMAIN q = 1 .. Len(q) /\ Len(q) \in Nat /\ DOMAIN s = 1 .. n
        /\ s[n] = r /\ \A k \in DOMAIN q : s[k] = q[k]
    BY OneMore
  <1>2. DOMAIN s = DOMAIN q \cup {n} /\ n \notin DOMAIN q
    BY <1>1
  <1>3. IsFiniteSet(DOMAIN q) /\ \A i \in DOMAIN q \cup {n} : h[i] \in Nat
    BY <1>1, <1>2, InSharesIs
  <1> HIDE DEF s
  <1>4. (\A i \in DOMAIN q : h[i] = f[i]) /\ h[n] = IF r.group = g THEN r.drums ELSE 0
    BY <1>1, <1>2 DEF SharesIn
  <1> HIDE DEF f, h, n
  <1>5. Sum(h, DOMAIN q \cup {n}) = Sum(f, DOMAIN q) + h[n]
    <2> DEFINE S == DOMAIN q
    <2>1. n \notin S /\ IsFiniteSet(S)
      BY <1>2, <1>3
    <2>2. (\A j \in S \cup {n} : h[j] \in Nat) /\ \A j \in S : h[j] = f[j]
      BY <1>3, <1>4
    <2> HIDE DEF S
    <2>3. Sum(h, S \cup {n}) = Sum(h, S) + h[n]
      BY <2>1, <2>2, SumOfMore
    <2>4. Sum(h, S) = Sum(f, S)
      BY <2>2, SumIsSame
    <2>5. QED
      BY <2>3, <2>4 DEF S
  <1>6. QED
    BY <1>2, <1>4, <1>5 DEF InShares, f, h, s

LEMMA ShareTaken ==
    ASSUME NEW q \in Seq(Shares), q # <<>>, NEW g
    PROVE  InShares(q, g) = InShares(Tail(q), g) + (IF q[1].group = g THEN q[1].drums ELSE 0)
  <1> DEFINE s == Tail(q)
             n == Len(s)
             f == SharesIn(q, g)
             h == SharesIn(s, g)
  <1>1. /\ s \in Seq(Shares) /\ n \in Nat /\ 1 \in DOMAIN q /\ DOMAIN q = 1 .. n + 1 /\ DOMAIN s = 1 .. n
        /\ \A k \in DOMAIN s : k + 1 \in DOMAIN q /\ s[k] = q[k + 1]
    BY OneLess
  <1>2. \A k \in DOMAIN q : f[k] \in Nat
    BY InSharesIs
  <1> HIDE DEF s, n
  <1>3. (\A k \in 1 .. n : h[k] = f[k + 1]) /\ f[1] = IF q[1].group = g THEN q[1].drums ELSE 0
    BY <1>1 DEF SharesIn
  <1>4. InShares(q, g) = Sum(f, 1 .. n + 1) /\ InShares(s, g) = Sum(h, 1 .. n)
    BY <1>1 DEF InShares
  <1> HIDE DEF f, h
  <1>5. \A k \in 1 .. n + 1 : f[k] \in Nat
    BY <1>1, <1>2
  <1>6. Sum(f, 1 .. n + 1) = Sum(h, 1 .. n) + f[1]
    BY <1>1, <1>3, <1>5, SumOfRest
  <1>7. QED
    BY <1>3, <1>4, <1>6 DEF s

LEMMA NoneInShares ==
    ASSUME NEW g
    PROVE  InShares(<<>>, g) = 0
  <1>1. DOMAIN <<>> = {}
    BY EmptyIs
  <1>2. \A k \in DOMAIN <<>> : SharesIn(<<>>, g)[k] = 0
    BY <1>1
  <1>3. QED
    BY <1>2, SumOfNone DEF InShares

-----------------------------------------------------------------------------
(* No drum is lost *)

(* The groups whose first batch stands for all of their drums, where all   *)
(* tasks have a machine to themselves.                                     *)
Whole(p, g)   == FirstBatchDrums(g) = Info[g].drums /\ \A i \in DOMAIN p : p[i].group = g => p[i].alone
HasTask(p, g) == \E i \in DOMAIN p : p[i].group = g

(* Until all are placed, such a group has one block at most, and drums_of  *)
(* says how many drums that makes.                                         *)
WholeBlocks(p, d) ==
    \A g \in Group : Whole(p, g) =>
       /\ ~HasTask(p, g) => d[g] = Info[g].drums
       /\ \A i \in DOMAIN p : p[i].group = g /\ ~p[i].gone => p[i].drums = d[g]
       /\ \A i, j \in DOMAIN p : p[i].group = g /\ p[j].group = g => i = j

DrumsAreThere(p, q) ==
    \A g \in Group : Whole(p, g) => InPlan(p, g) + InShares(q, g) = IF HasTask(p, g) THEN Info[g].drums ELSE 0

SharesHaveTasks(p, q) == \A k \in DOMAIN q : HasTask(p, q[k].group)

DrumInv ==
    /\ todo # <<>> => WholeBlocks(plan, drums_of)
    /\ DrumsAreThere(plan, preempted_remainder) /\ SharesHaveTasks(plan, preempted_remainder)

LEMMA SeedsKeepDrums ==
    ASSUME WholeSeeds, NEW p \in Seeds
    PROVE  /\ WholeBlocks(p, [g \in Group |-> FirstBatchDrums(g)])
           /\ DrumsAreThere(p, <<>>) /\ SharesHaveTasks(p, <<>>)
  <1>1. p \in Seq(TaskRows) /\ \A i \in DOMAIN p : ~p[i].gone
    BY PlacingAssumption
  <1>2. \A i \in DOMAIN p : p[i].alone /\ FirstBatchDrums(p[i].group) = Info[p[i].group].drums =>
           /\ p[i].drums = Info[p[i].group].drums
           /\ \A j \in DOMAIN p : p[j].group = p[i].group => j = i
    BY DEF WholeSeeds
  <1>3. ASSUME NEW g \in Group, Whole(p, g)
        PROVE  \A i \in DOMAIN p : p[i].group = g =>
                  /\ p[i].drums = Info[g].drums /\ \A j \in DOMAIN p : p[j].group = g => j = i
    <2> HIDE DEF FirstBatchDrums
    <2>1. QED
      BY <1>2, <1>3 DEF Whole
  <1>4. WholeBlocks(p, [g \in Group |-> FirstBatchDrums(g)])
    <2> DEFINE d == [g \in Group |-> FirstBatchDrums(g)]
    <2>1. ASSUME NEW g \in Group, Whole(p, g)
          PROVE  /\ d[g] = Info[g].drums
                 /\ \A i \in DOMAIN p : p[i].group = g /\ ~p[i].gone => p[i].drums = Info[g].drums
                 /\ \A i, j \in DOMAIN p : p[i].group = g /\ p[j].group = g => i = j
      <3> HIDE DEF FirstBatchDrums
      <3>1. d[g] = Info[g].drums
        BY <2>1 DEF Whole
      <3>2. QED
        BY <1>3, <2>1, <3>1
    <2> HIDE DEF d
    <2>2. WholeBlocks(p, d)
      BY <2>1 DEF WholeBlocks
    <2>3. QED
      BY <2>2 DEF d
  <1>5. ASSUME NEW g \in Group, Whole(p, g)
        PROVE  InPlan(p, g) + InShares(<<>>, g) = IF HasTask(p, g) THEN Info[g].drums ELSE 0
    <2>1. InShares(<<>>, g) = 0
      BY NoneInShares
    <2>2. CASE HasTask(p, g)
      <3>1. PICK i \in DOMAIN p : p[i].group = g
        BY <2>2 DEF HasTask
      <3>2. ~p[i].gone /\ p[i].drums = Info[g].drums /\ \A j \in DOMAIN p : p[j].group = g => j = i
        BY <1>1, <1>3, <1>5, <3>1
      <3>3. InPlan(p, g) = Info[g].drums
        BY <1>1, <3>1, <3>2, OneInPlan
      <3>4. QED
        BY <2>1, <2>2, <3>3, GroupIs
    <2>3. CASE ~HasTask(p, g)
      <3>1. InPlan(p, g) = 0
        BY <2>3, NoneInPlan DEF HasTask
      <3>2. QED
        BY <2>1, <2>3, <3>1
    <2>4. QED
      BY <2>2, <2>3
  <1>6. SharesHaveTasks(p, <<>>)
    BY EmptyIs DEF SharesHaveTasks
  <1>7. QED
    BY <1>4, <1>5, <1>6 DEF DrumsAreThere

(* A block changes, and no group, nor whether it is alone.                 *)
LEMMA SameWholes ==
    ASSUME NEW p, NEW q, DOMAIN q = DOMAIN p,
           \A i \in DOMAIN p : q[i].group = p[i].group /\ q[i].alone = p[i].alone, NEW g
    PROVE  (Whole(q, g) <=> Whole(p, g)) /\ (HasTask(q, g) <=> HasTask(p, g))
  BY DEF Whole, HasTask

LEMMA TakenAndGiven ==
    ASSUME NEW a \in Nat, NEW b \in Nat, NEW c \in Nat, NEW x \in Nat, NEW y \in Nat, NEW z \in Nat,
           a + x = b + y, y + z = x
    PROVE  a + (c + z) = b + c
  OBVIOUS

(* What is taken off a block is handed on.                                 *)
LEMMA HandedOn ==
    ASSUME CpTyped, Touched, DrumInv, todo # <<>>, NEW i \in DOMAIN plan, ~plan[i].gone,
           NEW r \in Shares, r.group = plan[i].group, preempted_remainder' = Append(preempted_remainder, r),
           \A j \in DOMAIN plan : j # i => plan'[j] = plan[j],
           IF plan'[i].gone THEN r.drums = drums_of[plan[i].group] /\ drums_of' = drums_of
           ELSE /\ plan'[i].drums + r.drums = drums_of[plan[i].group] /\ plan'[i].drums \in Nat
                /\ drums_of' = [drums_of EXCEPT ![plan[i].group] = plan'[i].drums]
    PROVE  /\ WholeBlocks(plan', drums_of') /\ DrumsAreThere(plan', preempted_remainder')
           /\ SharesHaveTasks(plan', preempted_remainder')
  <1> DEFINE p == plan
             n == plan'
             s == preempted_remainder
             h == plan[i].group
  <1>1. p \in Seq(TaskRows) /\ n \in Seq(TaskRows) /\ s \in Seq(Shares) /\ DOMAIN n = DOMAIN p
    BY DEF CpTyped, Typed, Touched
  <1>2. \A j \in DOMAIN p : n[j].group = p[j].group /\ n[j].alone = p[j].alone
    BY DEF Touched
  <1>3. WholeBlocks(p, drums_of) /\ DrumsAreThere(p, s) /\ SharesHaveTasks(p, s)
    BY DEF DrumInv
  <1>4. drums_of \in [Group -> Nat] /\ h \in Group /\ r.drums \in Nat
    BY TasksAre DEF CpTyped, Shares
  <1>5. r.group = h /\ n[i].group = h
    BY <1>2
  <1>6. \A g : (Whole(n, g) <=> Whole(p, g)) /\ (HasTask(n, g) <=> HasTask(p, g))
    <2> HIDE DEF p, n
    <2>1. QED
      BY <1>1, <1>2, SameWholes
  <1>7. \A j \in DOMAIN p : j # i => n[j] = p[j]
    OBVIOUS
  <1>8. IF n[i].gone THEN r.drums = drums_of[h] /\ drums_of' = drums_of
        ELSE /\ n[i].drums + r.drums = drums_of[h] /\ n[i].drums \in Nat
             /\ drums_of' = [drums_of EXCEPT ![h] = n[i].drums]
    OBVIOUS
  <1>9. ~p[i].gone /\ p[i].group = h /\ i \in DOMAIN p
    OBVIOUS
  <1> HIDE DEF p, n, s, h
  <1>10. WholeBlocks(n, drums_of')
    <2>1. SUFFICES ASSUME NEW g \in Group, Whole(n, g)
                   PROVE  /\ ~HasTask(n, g) => drums_of'[g] = Info[g].drums
                          /\ \A j \in DOMAIN n : n[j].group = g /\ ~n[j].gone => n[j].drums = drums_of'[g]
                          /\ \A j, k \in DOMAIN n : n[j].group = g /\ n[k].group = g => j = k
      BY DEF WholeBlocks
    <2>2. /\ ~HasTask(p, g) => drums_of[g] = Info[g].drums
          /\ \A j \in DOMAIN p : p[j].group = g /\ ~p[j].gone => p[j].drums = drums_of[g]
          /\ \A j, k \in DOMAIN p : p[j].group = g /\ p[k].group = g => j = k
      BY <1>3, <1>6, <2>1 DEF WholeBlocks
    <2>3. \A j, k \in DOMAIN n : n[j].group = g /\ n[k].group = g => j = k
      BY <1>1, <1>2, <2>2
    <2>4. CASE g # h
      <3>1. drums_of'[g] = drums_of[g]
        BY <1>4, <1>8, <2>4
      <3>2. \A j \in DOMAIN n : n[j].group = g => n[j] = p[j]
        BY <1>1, <1>5, <1>7, <2>4
      <3>3. QED
        BY <1>1, <1>6, <2>2, <2>3, <3>1, <3>2
    <2>5. CASE g = h
      <3>1. HasTask(n, g)
        BY <1>1, <1>5, <1>9, <2>5 DEF HasTask
      <3>2. \A j \in DOMAIN n : n[j].group = g => j = i
        BY <1>1, <1>5, <1>9, <2>3, <2>5
      <3>3. ~n[i].gone => n[i].drums = drums_of'[g]
        BY <1>4, <1>8, <2>5
      <3>4. QED
        BY <2>3, <3>1, <3>2, <3>3
    <2>6. QED
      BY <2>4, <2>5
  <1>11. DrumsAreThere(n, Append(s, r))
    <2>1. SUFFICES ASSUME NEW g \in Group, Whole(n, g)
                   PROVE  InPlan(n, g) + InShares(Append(s, r), g) = IF HasTask(n, g) THEN Info[g].drums ELSE 0
      BY DEF DrumsAreThere
    <2>2. Whole(p, g) /\ (HasTask(n, g) <=> HasTask(p, g))
      BY <1>6, <2>1
    <2>3. InPlan(p, g) + InShares(s, g) = IF HasTask(p, g) THEN Info[g].drums ELSE 0
      BY <1>3, <2>2 DEF DrumsAreThere
    <2>4. InPlan(n, g) + DrumsIn(p, g)[i] = InPlan(p, g) + DrumsIn(n, g)[i]
      BY <1>1, <1>7, <1>9, OneChanged
    <2>5. InShares(Append(s, r), g) = InShares(s, g) + (IF h = g THEN r.drums ELSE 0)
      BY <1>1, <1>5, ShareAdded
    <2>6. /\ InPlan(n, g) \in Nat /\ InPlan(p, g) \in Nat /\ InShares(s, g) \in Nat
          /\ DrumsIn(p, g)[i] \in Nat /\ DrumsIn(n, g)[i] \in Nat
      BY <1>1, <1>9, InPlanIs, InSharesIs
    <2>7. CASE g # h
      <3>1. DrumsIn(p, g)[i] = 0 /\ DrumsIn(n, g)[i] = 0
        BY <1>1, <1>5, <1>9, <2>7 DEF DrumsIn
      <3>2. QED
        BY <2>2, <2>3, <2>4, <2>5, <2>6, <2>7, <3>1
    <2>8. CASE g = h
      <3>1. p[i].drums = drums_of[h]
        BY <1>3, <1>9, <2>2, <2>8 DEF WholeBlocks
      <3>2. DrumsIn(p, g)[i] = drums_of[h]
        BY <1>9, <2>8, <3>1 DEF DrumsIn
      <3>3. DrumsIn(n, g)[i] = IF n[i].gone THEN 0 ELSE n[i].drums
        BY <1>1, <1>5, <1>9, <2>8 DEF DrumsIn
      <3>4. DrumsIn(n, g)[i] + r.drums = DrumsIn(p, g)[i]
        BY <1>4, <1>8, <3>2, <3>3
      <3>5. InPlan(n, g) + (InShares(s, g) + r.drums) = InPlan(p, g) + InShares(s, g)
        <4> DEFINE a == InPlan(n, g)
                   b == InPlan(p, g)
                   c == InShares(s, g)
                   x == DrumsIn(p, g)[i]
                   y == DrumsIn(n, g)[i]
                   z == r.drums
        <4>1. a \in Nat /\ b \in Nat /\ c \in Nat /\ x \in Nat /\ y \in Nat /\ z \in Nat
          BY <1>4, <2>6
        <4>2. a + x = b + y /\ y + z = x
          BY <2>4, <3>4
        <4> HIDE DEF a, b, c, x, y, z
        <4>3. a + (c + z) = b + c
          BY <4>1, <4>2, TakenAndGiven
        <4>4. QED
          BY <4>3 DEF a, b, c, z
      <3>6. QED
        BY <2>2, <2>3, <2>5, <2>8, <3>5
    <2>9. QED
      BY <2>7, <2>8
  <1>12. SharesHaveTasks(n, Append(s, r))
    <2>1. HasTask(n, r.group)
      BY <1>1, <1>5, <1>9 DEF HasTask
    <2>2. /\ DOMAIN s = 1 .. Len(s) /\ Len(s) \in Nat /\ DOMAIN Append(s, r) = 1 .. Len(s) + 1
          /\ Append(s, r)[Len(s) + 1] = r /\ \A k \in DOMAIN s : Append(s, r)[k] = s[k]
      BY <1>1, OneMore
    <2>3. \A k \in DOMAIN Append(s, r) : k \in DOMAIN s \/ k = Len(s) + 1
      BY <2>2
    <2>4. \A k \in DOMAIN s : HasTask(n, s[k].group)
      BY <1>3, <1>6 DEF SharesHaveTasks
    <2>5. QED
      BY <2>1, <2>2, <2>3, <2>4 DEF SharesHaveTasks
  <1>13. QED
    BY <1>10, <1>11, <1>12 DEF n, s

(* Tasks of one group are added.                                           *)
LEMMA Added ==
    ASSUME NEW p \in Seq(TaskRows), NEW given \in Seq(TaskRows), given # <<>>,
           NEW q, q = p \o given
    PROVE  /\ 1 \in DOMAIN given /\ Len(p) + 1 \in DOMAIN q /\ q[Len(p) + 1] = given[1]
           /\ \A i \in DOMAIN p : i \in DOMAIN q /\ q[i] = p[i]
           /\ \A i \in DOMAIN q : i \in DOMAIN p \/ (i - Len(p) \in DOMAIN given /\ q[i] = given[i - Len(p)])
  <1>1. /\ DOMAIN p = 1 .. Len(p) /\ Len(p) \in Nat /\ DOMAIN given = 1 .. Len(given) /\ Len(given) \in Nat
        /\ DOMAIN q = 1 .. Len(p) + Len(given) /\ 1 \in DOMAIN given
        /\ \A i \in 1 .. Len(p) : q[i] = p[i]
        /\ \A i \in 1 .. Len(p) + Len(given) : i > Len(p) => q[i] = given[i - Len(p)]
    OBVIOUS
  <1>2. Len(p) + 1 \in 1 .. Len(p) + Len(given) /\ Len(p) + 1 > Len(p) /\ Len(p) + 1 - Len(p) = 1
    BY <1>1
  <1>3. QED
    BY <1>1, <1>2

LEMMA WholeBefore ==
    ASSUME NEW p, NEW q, \A i \in DOMAIN p : i \in DOMAIN q /\ q[i] = p[i], NEW g, Whole(q, g)
    PROVE  Whole(p, g)
  BY DEF Whole

LEMMA RoomKeepsDrums ==
    ASSUME CpInv, DrumInv, MakeRoom
    PROVE  DrumInv'
  <1>1. CpTyped /\ todo \in Seq(CpGroups) /\ plan \in Seq(TaskRows) /\ preempted_remainder \in Seq(Shares)
    BY DEF CpInv, CpTyped, Typed
  <1>2. /\ todo # <<>> /\ todo' = todo
        /\ \/ UNCHANGED <<plan, preempted_remainder, drums_of>>
           \/ \E i, k, end : Cut(i, k, end)
           \/ \E i : TakenOff(i)
    BY <1>1, RoomIs
  <1>3. CASE UNCHANGED <<plan, preempted_remainder, drums_of>>
    BY <1>2, <1>3 DEF DrumInv
  <1>4. ASSUME NEW i, NEW k, NEW end, Cut(i, k, end)
        PROVE  DrumInv'
    <2> DEFINE h == plan[i].group
               r == Remainder(i, drums_of[h] - k, 0)
    <2>1. /\ Touched /\ h \in Group /\ r \in Shares /\ drums_of[h] \in Nat /\ k \in Nat /\ k <= drums_of[h]
          /\ plan'[i].drums = k /\ plan'[i].gone = plan[i].gone
          /\ \A j \in DOMAIN plan : j # i => plan'[j] = plan[j]
      BY <1>1, <1>4, CutIs
    <2>2. /\ i \in DOMAIN plan /\ ~plan[i].gone
          /\ preempted_remainder' = Append(preempted_remainder, r) /\ drums_of' = [drums_of EXCEPT ![h] = k]
      BY <1>4 DEF Cut
    <2>3. r.drums = drums_of[h] - k /\ r.group = h
      BY DEF Remainder
    <2> HIDE DEF r, h
    <2>4. k + r.drums = drums_of[h]
      BY <2>1, <2>3
    <2>5. IF plan'[i].gone THEN r.drums = drums_of[h] /\ drums_of' = drums_of
          ELSE /\ plan'[i].drums + r.drums = drums_of[h] /\ plan'[i].drums \in Nat
               /\ drums_of' = [drums_of EXCEPT ![h] = plan'[i].drums]
      BY <2>1, <2>2, <2>4
    <2>6. /\ WholeBlocks(plan', drums_of') /\ DrumsAreThere(plan', preempted_remainder')
          /\ SharesHaveTasks(plan', preempted_remainder')
      BY <1>1, <1>2, <2>1, <2>2, <2>3, <2>5, HandedOn DEF h
    <2>7. QED
      BY <2>6 DEF DrumInv
  <1>5. ASSUME NEW i, TakenOff(i)
        PROVE  DrumInv'
    <2> DEFINE h == plan[i].group
               r == Remainder(i, drums_of[h], GroupAt(i).setup)
    <2>1. /\ Touched /\ h \in Group /\ r \in Shares /\ plan'[i].gone
          /\ \A j \in DOMAIN plan : j # i => plan'[j] = plan[j]
      BY <1>1, <1>5, TakenOffIs
    <2>2. /\ i \in DOMAIN plan /\ ~plan[i].gone
          /\ preempted_remainder' = Append(preempted_remainder, r) /\ drums_of' = drums_of
      BY <1>5 DEF TakenOff
    <2>3. r.drums = drums_of[h] /\ r.group = h
      BY DEF Remainder
    <2> HIDE DEF r, h
    <2>4. IF plan'[i].gone THEN r.drums = drums_of[h] /\ drums_of' = drums_of
          ELSE /\ plan'[i].drums + r.drums = drums_of[h] /\ plan'[i].drums \in Nat
               /\ drums_of' = [drums_of EXCEPT ![h] = plan'[i].drums]
      BY <2>1, <2>2, <2>3
    <2>5. /\ WholeBlocks(plan', drums_of') /\ DrumsAreThere(plan', preempted_remainder')
          /\ SharesHaveTasks(plan', preempted_remainder')
      BY <1>1, <1>2, <2>1, <2>2, <2>3, <2>4, HandedOn DEF h
    <2>6. QED
      BY <2>5 DEF DrumInv
  <1>6. QED
    BY <1>2, <1>3, <1>4, <1>5

(* A group is placed that has no task yet, on one machine with all of its  *)
(* drums or on several.                                                    *)
LEMMA PlaceKeepsDrums ==
    ASSUME CpInv, DrumInv, PlaceGroup
    PROVE  DrumInv'
  <1> DEFINE h == Head(todo)
             p == plan
             s == preempted_remainder
  <1>1. /\ phase = "placing" /\ todo # <<>> /\ todo' = Tail(todo)
        /\ drums_of' = drums_of /\ preempted_remainder' = s
    BY DEF PlaceGroup
  <1>2. CpTyped /\ ReadyIs /\ todo \in Seq(CpGroups) /\ lex_status \in Solved /\ InTurn
    BY <1>1 DEF CpInv, Orderly
  <1>3. /\ found.choice \in [CpGroups -> Places] /\ p \in Seq(TaskRows) /\ s \in Seq(Shares)
        /\ CpGroups \subseteq Group
    BY <1>2 DEF CpTyped, Typed
  <1>4. WholeBlocks(p, drums_of) /\ DrumsAreThere(p, s) /\ SharesHaveTasks(p, s)
    BY <1>1 DEF DrumInv
  <1>5. h \in Group /\ ~HasTask(p, h)
    <2>1. h = todo[1] /\ 1 \in DOMAIN todo /\ todo[1] \in CpGroups
      BY <1>1, <1>2, OneLess
    <2>2. QED
      BY <1>2, <1>3, <2>1 DEF InTurn, HasTask
  <1>6. PICK given \in Seq(TaskRows), e \in Nat :
           /\ given # <<>> /\ plan' = p \o given
           /\ \A i \in DOMAIN given : given[i] \in TasksFor(h, e)
           /\ \/ \A i \in DOMAIN given : ~given[i].alone
              \/ given = <<given[1]>> /\ given[1].alone /\ given[1].drums = Info[h].drums
    BY <1>2, <1>3, PlacedIs
  <1>7. \A i \in DOMAIN given : given[i].group = h /\ ~given[i].gone
    BY <1>6 DEF TasksFor
  <1> DEFINE q == p \o given
  <1> HIDE DEF h, p, s
  <1>8. /\ \A g : (Whole(q, g) => Whole(p, g)) /\ (HasTask(q, g) <=> HasTask(p, g) \/ g = h)
        /\ Whole(q, h) => given[1].alone
        /\ 1 \in DOMAIN given
        /\ \A i \in DOMAIN p : i \in DOMAIN q /\ q[i] = p[i]
        /\ \A i \in DOMAIN q : i \in DOMAIN p \/ (i - Len(p) \in DOMAIN given /\ q[i] = given[i - Len(p)])
    <2> DEFINE n == q
    <2>1. n = p \o given
      OBVIOUS
    <2> HIDE DEF n
    <2>2. /\ 1 \in DOMAIN given /\ Len(p) + 1 \in DOMAIN n /\ n[Len(p) + 1] = given[1]
          /\ \A i \in DOMAIN p : i \in DOMAIN n /\ n[i] = p[i]
          /\ \A i \in DOMAIN n : i \in DOMAIN p \/ (i - Len(p) \in DOMAIN given /\ n[i] = given[i - Len(p)])
      BY <1>3, <1>6, <2>1, Added
    <2>3. ASSUME NEW g PROVE Whole(n, g) => Whole(p, g)
      BY <2>2, WholeBefore
    <2>4. ASSUME NEW g PROVE HasTask(n, g) <=> HasTask(p, g) \/ g = h
      <3>1. ASSUME HasTask(n, g) PROVE HasTask(p, g) \/ g = h
        BY <1>7, <2>2, <3>1 DEF HasTask
      <3>2. ASSUME HasTask(p, g) PROVE HasTask(n, g)
        BY <2>2, <3>2 DEF HasTask
      <3>3. HasTask(n, h)
        BY <1>7, <2>2 DEF HasTask
      <3>4. QED
        BY <3>1, <3>2, <3>3
    <2>5. Whole(n, h) => given[1].alone
      BY <1>7, <2>2 DEF Whole
    <2>6. QED
      BY <2>2, <2>3, <2>4, <2>5 DEF n
  <1>9. Whole(q, h) => given = <<given[1]>> /\ given[1].drums = Info[h].drums
    BY <1>6, <1>8
  <1>10. \A g : g # h => InPlan(q, g) = InPlan(p, g)
    BY <1>3, <1>7, OthersAdded
  <1>11. Whole(q, h) => InPlan(q, h) = InPlan(p, h) + given[1].drums
    <2>1. given[1] \in TaskRows /\ given[1].group = h /\ ~given[1].gone
      BY <1>7, <1>8
    <2>2. InPlan(p \o <<given[1]>>, given[1].group) = InPlan(p, given[1].group) + given[1].drums
      BY <1>3, <2>1, OneAdded
    <2>3. QED
      BY <1>9, <2>1, <2>2
  <1>12. \A g : InPlan(p, g) \in Nat /\ InShares(s, g) \in Nat
    BY <1>3, InPlanIs, InSharesIs
  <1>13. DrumsAreThere(q, s)
    <2>1. SUFFICES ASSUME NEW g \in Group, Whole(q, g)
                   PROVE  InPlan(q, g) + InShares(s, g) = IF HasTask(q, g) THEN Info[g].drums ELSE 0
      BY DEF DrumsAreThere
    <2>2. InPlan(p, g) + InShares(s, g) = IF HasTask(p, g) THEN Info[g].drums ELSE 0
      BY <1>4, <1>8, <2>1 DEF DrumsAreThere
    <2> HIDE DEF q
    <2>3. CASE g # h
      <3>1. HasTask(q, g) <=> HasTask(p, g)
        BY <1>8, <2>3
      <3>2. QED
        BY <1>10, <2>2, <2>3, <3>1
    <2>4. CASE g = h
      <3>1. InPlan(p, g) = 0 /\ InShares(s, g) = 0
        BY <1>5, <1>12, <2>2, <2>4
      <3>2. HasTask(q, g)
        BY <1>8, <2>4
      <3>3. InPlan(q, g) = 0 + Info[g].drums /\ Info[g].drums \in Nat
        BY <1>9, <1>11, <2>1, <2>4, <3>1, GroupIs
      <3>4. QED
        BY <3>1, <3>2, <3>3
    <2>5. QED
      BY <2>3, <2>4
  <1>14. WholeBlocks(q, drums_of)
    <2>1. SUFFICES ASSUME NEW g \in Group, Whole(q, g)
                   PROVE  /\ ~HasTask(q, g) => drums_of[g] = Info[g].drums
                          /\ \A i \in DOMAIN q : q[i].group = g /\ ~q[i].gone => q[i].drums = drums_of[g]
                          /\ \A i, j \in DOMAIN q : q[i].group = g /\ q[j].group = g => i = j
      BY DEF WholeBlocks
    <2>2. /\ ~HasTask(p, g) => drums_of[g] = Info[g].drums
          /\ \A i \in DOMAIN p : p[i].group = g /\ ~p[i].gone => p[i].drums = drums_of[g]
          /\ \A i, j \in DOMAIN p : p[i].group = g /\ p[j].group = g => i = j
      BY <1>4, <1>8, <2>1 DEF WholeBlocks
    <2> HIDE DEF q
    <2>3. CASE g # h
      <3>1. \A i \in DOMAIN q : q[i].group = g => i \in DOMAIN p /\ q[i] = p[i]
        BY <1>7, <1>8, <2>3
      <3>2. QED
        BY <1>8, <2>2, <2>3, <3>1
    <2>4. CASE g = h
      <3>1. HasTask(q, g) /\ ~HasTask(p, g) /\ drums_of[g] = Info[g].drums
        BY <1>5, <1>8, <2>2, <2>4
      <3>2. \A i \in DOMAIN q : q[i].group = g => i \notin DOMAIN p
        BY <1>8, <3>1 DEF HasTask
      <3>3. given = <<given[1]>> /\ given[1].drums = Info[g].drums
        BY <1>9, <2>1, <2>4
      <3>4. DOMAIN given = {1} /\ Len(p) \in Nat /\ DOMAIN q \subseteq Nat
        <4>1. DOMAIN <<given[1]>> = {1}
          OBVIOUS
        <4>2. DOMAIN q \subseteq Nat
          <5>1. q \in Seq(TaskRows)
            BY <1>3 DEF q
          <5>2. QED
            BY <5>1
        <4>3. QED
          BY <1>3, <3>3, <4>1, <4>2
      <3>5. \A i \in DOMAIN q : q[i].group = g => i = Len(p) + 1 /\ q[i] = given[1]
        <4>1. ASSUME NEW i \in DOMAIN q, q[i].group = g PROVE i = Len(p) + 1 /\ q[i] = given[1]
          <5>1. i - Len(p) \in DOMAIN given /\ q[i] = given[i - Len(p)] /\ i \in Nat
            BY <1>8, <3>2, <3>4, <4>1
          <5>2. i - Len(p) = 1
            BY <3>4, <5>1
          <5>3. i = Len(p) + 1
            BY <3>4, <5>1, <5>2
          <5>4. QED
            BY <5>1, <5>2, <5>3
        <4>2. QED
          BY <4>1
      <3>6. QED
        BY <3>1, <3>3, <3>5
    <2>5. QED
      BY <2>3, <2>4
  <1>15. SharesHaveTasks(q, s)
    <2> HIDE DEF q
    <2>1. QED
      BY <1>4, <1>8 DEF SharesHaveTasks
  <1>16. QED
    BY <1>1, <1>6, <1>13, <1>14, <1>15 DEF DrumInv, p, s

(* What is put back was handed on.                                         *)
LEMMA PutBackKeepsDrums ==
    ASSUME CpInv, DrumInv, PlaceRemainder
    PROVE  DrumInv'
  <1> DEFINE s == preempted_remainder
             p == plan
             h == s[1].group
  <1>1. todo = <<>> /\ todo' = todo
    BY DEF PlaceRemainder
  <1>2. CpTyped /\ s \in Seq(Shares) /\ p \in Seq(TaskRows)
    BY DEF CpInv, CpTyped, Typed
  <1>3. s # <<>> /\ s' = Tail(s)
    BY <1>2, PutBackIs
  <1>4. PICK task \in TasksFor(h, base) : plan' = p \o <<task>> /\ task.drums = s[1].drums
    BY <1>2, PutBackIs
  <1>5. task \in TaskRows /\ task.group = h /\ ~task.gone
    BY <1>4 DEF TasksFor
  <1>6. DrumsAreThere(p, s) /\ SharesHaveTasks(p, s)
    BY DEF DrumInv
  <1>7. s[1] \in Shares /\ 1 \in DOMAIN s /\ Tail(s) \in Seq(Shares)
        /\ \A k \in DOMAIN Tail(s) : k + 1 \in DOMAIN s /\ Tail(s)[k] = s[k + 1]
    BY <1>2, <1>3, OneLess
  <1> DEFINE given == <<task>>
             q     == p \o given
  <1>8. given \in Seq(TaskRows) /\ given # <<>> /\ \A k \in DOMAIN given : given[k].group = h
    BY <1>5
  <1>9. \A g : g # h => InPlan(q, g) = InPlan(p, g)
    <2> HIDE DEF given, h
    <2>1. QED
      BY <1>2, <1>8, OthersAdded
  <1>10. InPlan(q, h) = InPlan(p, h) + s[1].drums
    <2> HIDE DEF h
    <2>1. QED
      BY <1>2, <1>4, <1>5, OneAdded
  <1> HIDE DEF given, h, p, s
  <1>11. \A g : (Whole(q, g) => Whole(p, g)) /\ (HasTask(q, g) <=> HasTask(p, g) \/ g = h)
    <2>1. q = p \o given
      OBVIOUS
    <2> HIDE DEF q
    <2>2. /\ 1 \in DOMAIN given /\ Len(p) + 1 \in DOMAIN q /\ q[Len(p) + 1] = given[1]
          /\ \A i \in DOMAIN p : i \in DOMAIN q /\ q[i] = p[i]
          /\ \A i \in DOMAIN q : i \in DOMAIN p \/ (i - Len(p) \in DOMAIN given /\ q[i] = given[i - Len(p)])
      BY <1>2, <1>8, <2>1, Added
    <2>3. ASSUME NEW g PROVE Whole(q, g) => Whole(p, g)
      BY <2>2, WholeBefore
    <2>4. ASSUME NEW g PROVE HasTask(q, g) <=> HasTask(p, g) \/ g = h
      <3>1. ASSUME HasTask(q, g) PROVE HasTask(p, g) \/ g = h
        BY <1>8, <2>2, <3>1 DEF HasTask
      <3>2. ASSUME HasTask(p, g) PROVE HasTask(q, g)
        BY <2>2, <3>2 DEF HasTask
      <3>3. HasTask(q, h)
        BY <1>8, <2>2 DEF HasTask
      <3>4. QED
        BY <3>1, <3>2, <3>3
    <2>5. QED
      BY <2>3, <2>4
  <1> HIDE DEF q
  <1>12. HasTask(p, h)
    BY <1>6, <1>7 DEF SharesHaveTasks, h
  <1>13. \A g : InShares(s, g) = InShares(Tail(s), g) + (IF h = g THEN s[1].drums ELSE 0)
    BY <1>2, <1>3, ShareTaken DEF h
  <1>14. s[1].drums \in Nat /\ \A g : InPlan(p, g) \in Nat /\ InShares(Tail(s), g) \in Nat
    BY <1>2, <1>7, InPlanIs, InSharesIs DEF Shares
  <1>15. DrumsAreThere(q, Tail(s))
    <2>1. SUFFICES ASSUME NEW g \in Group, Whole(q, g)
                   PROVE  InPlan(q, g) + InShares(Tail(s), g) = IF HasTask(q, g) THEN Info[g].drums ELSE 0
      BY DEF DrumsAreThere
    <2>2. InPlan(p, g) + InShares(s, g) = IF HasTask(p, g) THEN Info[g].drums ELSE 0
      BY <1>6, <1>11, <2>1 DEF DrumsAreThere
    <2>3. HasTask(q, g) <=> HasTask(p, g)
      BY <1>11, <1>12
    <2>4. InPlan(q, g) + InShares(Tail(s), g) = InPlan(p, g) + InShares(s, g)
      <3>1. CASE g # h
        BY <1>9, <1>13, <1>14, <3>1
      <3>2. CASE g = h
        <4>1. InShares(s, g) = InShares(Tail(s), g) + s[1].drums /\ InPlan(q, g) = InPlan(p, g) + s[1].drums
          BY <1>10, <1>13, <3>2
        <4>2. \A a, b, d \in Nat : (a + d) + b = a + (b + d)
          OBVIOUS
        <4>3. QED
          BY <1>14, <4>1, <4>2
      <3>3. QED
        BY <3>1, <3>2
    <2>5. QED
      BY <2>2, <2>3, <2>4
  <1>16. SharesHaveTasks(q, Tail(s))
    BY <1>6, <1>7, <1>11 DEF SharesHaveTasks
  <1>17. QED
    BY <1>1, <1>3, <1>4, <1>15, <1>16 DEF DrumInv, p, s, q, given

(* No step but these touches the tasks or what was taken off them.         *)
LEMMA StepKeepsDrums ==
    ASSUME WholeSeeds, CpInv, DrumInv, [CpNext]_cpVars
    PROVE  DrumInv'
  <1>1. CASE MakeRoom
    BY <1>1, RoomKeepsDrums
  <1>2. CASE PlaceGroup
    BY <1>2, PlaceKeepsDrums
  <1>3. CASE PlaceRemainder
    BY <1>3, PutBackKeepsDrums
  <1>4. CASE LoadGroups \/ BuildModel \/ Solve \/ Flush \/ UNCHANGED cpVars
    <2>1. plan' = plan /\ preempted_remainder' = preempted_remainder /\ drums_of' = drums_of /\ todo' = todo
      BY <1>4 DEF LoadGroups, BuildModel, Solve, Flush, cpVars, placing, cpState
    <2>2. QED
      BY <2>1 DEF DrumInv
  <1>5. CASE Decide
    <2>1. phase = "done" /\ plan' = plan /\ preempted_remainder' = preempted_remainder /\ drums_of' = drums_of
      BY <1>5 DEF Decide, cpState
    <2>2. plan \in Seeds /\ drums_of = [g \in Group |-> FirstBatchDrums(g)]
      BY <2>1 DEF CpInv, Fresh
    <2>3. WholeBlocks(plan, drums_of)
      BY <2>2, SeedsKeepDrums
    <2>4. QED
      BY <2>1, <2>3 DEF DrumInv
  <1>6. QED
    BY <1>1, <1>2, <1>3, <1>4, <1>5 DEF CpNext

LEMMA AllAreThere ==
    ASSUME CpInv, DrumInv
    PROVE  EveryDrumOnce
  <1>1. SUFFICES ASSUME phase = "finished", NEW g \in {plan[i].group : i \in Standing}, Whole(plan, g)
                 PROVE  MapThenSumSet(LAMBDA i : plan[i].drums, {i \in Standing : plan[i].group = g}) = Info[g].drums
    BY DEF EveryDrumOnce, Whole
  <1> DEFINE S == {i \in Standing : plan[i].group = g}
             f == [x \in S |-> plan[x].drums]
  <1>2. /\ preempted_remainder = <<>> /\ DrumsAreThere(plan, preempted_remainder)
        /\ plan \in Seq(TaskRows) /\ Typed
    BY <1>1 DEF CpInv, CpTyped, Typed, DrumInv
  <1>3. g \in Group /\ HasTask(plan, g) /\ Info[g].drums \in Nat
    <2>1. HasTask(plan, g) /\ g \in Group
      BY <1>1, <1>2, TasksAre DEF Standing, HasTask
    <2>2. QED
      BY <2>1, GroupIs
  <1>4. InPlan(plan, g) + 0 = Info[g].drums /\ InPlan(plan, g) \in Nat
    BY <1>1, <1>2, <1>3, NoneInShares, InPlanIs DEF DrumsAreThere
  <1>5. S \subseteq DOMAIN plan /\ \A i \in DOMAIN plan \ S : DrumsIn(plan, g)[i] = 0
    BY DEF Standing, DrumsIn
  <1>6. \A x \in S : DrumsIn(plan, g)[x] = f[x]
    BY DEF Standing, DrumsIn
  <1>7. IsFiniteSet(S) /\ \A x \in S : plan[x].drums \in Nat
    <2>1. IsFiniteSet(DOMAIN plan) /\ \A x \in DOMAIN plan : plan[x].drums \in Nat
      BY <1>2, TasksAre
    <2> HIDE DEF S
    <2>2. QED
      BY <1>5, <2>1, FS_Subset
  <1> HIDE DEF S
  <1>8. MapThenSumSet(LAMBDA x : plan[x].drums, S) = Sum(f, S)
    BY <1>7, SumCounts
  <1> HIDE DEF f
  <1>9. Sum(DrumsIn(plan, g), S) = Sum(f, S)
    BY <1>6, SumIsSame
  <1>10. InPlan(plan, g) = Sum(DrumsIn(plan, g), S)
    BY <1>5, SumOfPart DEF InPlan
  <1>11. QED
    BY <1>4, <1>8, <1>9, <1>10 DEF S

(* Cutting a block, taking it off and placing the rest lose no drum and    *)
(* place none twice: when the run is over, a group on one machine whose    *)
(* first batch stands for all of it has all of its drums on the machines,  *)
(* if the runs before have left it so.                                     *)
THEOREM NoDrumIsLost == WholeSeeds => (CpSpec => []EveryDrumOnce)
  <1> SUFFICES ASSUME WholeSeeds PROVE CpSpec => []EveryDrumOnce
    OBVIOUS
  <1>1. CpInit => DrumInv
    <2>1. CpInit => plan \in Seeds /\ drums_of = [g \in Group |-> FirstBatchDrums(g)] /\ preempted_remainder = <<>>
      BY DEF CpInit, PreloadExistingTimeline
    <2>2. QED
      BY <2>1, SeedsKeepDrums DEF DrumInv
  <1>2. CpInv /\ DrumInv /\ [CpNext]_cpVars => DrumInv'
    BY StepKeepsDrums
  <1>3. CpInv /\ DrumInv => EveryDrumOnce
    BY AllAreThere
  <1>4. QED
    BY <1>1, <1>2, <1>3, CpInvHolds, PTL DEF CpSpec

-----------------------------------------------------------------------------
(* Two tasks on one machine *)

LEMMA RoomShrinks ==
    ASSUME CpTyped, todo \in Seq(CpGroups), MakeRoom
    PROVE  \/ plan' = plan
           \/ \E i \in DOMAIN plan, k, end \in Nat :
                 end <= plan[i].end /\ plan' = [plan EXCEPT ![i] = [plan[i] EXCEPT !.end = end, !.drums = k]]
           \/ \E i \in DOMAIN plan : plan' = [plan EXCEPT ![i] = [plan[i] EXCEPT !.gone = TRUE]]
  <1> DEFINE g    == Head(todo)
             at   == EarliestHere(g)
             code == found.choice[g].code
  <1>1. todo # <<>>
    BY DEF MakeRoom
  <1>2. g \in Group /\ Typed
    BY <1>1 DEF CpTyped
  <1>3. at \in Nat
    BY <1>2, EarliestHereIs
  <1>4. \/ plan' = plan
        \/ \E i \in InTheWay(code, at) : \E k \in {DrumsCompletable(i, at)} :
              (k > 0 /\ SplitBlock(i, k)) \/ DeferBlock(i, g)
    BY DEF MakeRoom
  <1> HIDE DEF g, at, code
  <1>5. ASSUME NEW i \in InTheWay(code, at), DrumsCompletable(i, at) > 0, SplitBlock(i, DrumsCompletable(i, at))
        PROVE  \E j \in DOMAIN plan, k, end \in Nat :
                  end <= plan[j].end /\ plan' = [plan EXCEPT ![j] = [plan[j] EXCEPT !.end = end, !.drums = k]]
    <2> DEFINE k == DrumsCompletable(i, at)
    <2>1. i \in DOMAIN plan /\ at < plan[i].end /\ plan[i].end \in Nat
      BY <1>2, TasksAre DEF InTheWay
    <2>2. k \in 0 .. drums_of[plan[i].group] /\ EndAfter(i, k) <= at
      BY <1>5, <2>1, CompletableIs
    <2>3. k \in Nat
      <3>1. drums_of[plan[i].group] \in Nat
        BY <2>1, TasksAre DEF CpTyped
      <3>2. QED
        BY <2>2, <3>1
    <2>4. plan' = [plan EXCEPT ![i] = [plan[i] EXCEPT !.end = EndAfter(i, k), !.drums = k]]
      BY <1>5 DEF SplitBlock
    <2> HIDE DEF k
    <2>5. EndAfter(i, k) \in Nat
      BY <1>2, <2>1, <2>3, EndAfterIs
    <2>6. EndAfter(i, k) <= plan[i].end
      BY <1>3, <2>1, <2>2, <2>5
    <2> HIDE DEF EndAfter
    <2>7. QED
      BY <2>1, <2>3, <2>4, <2>5, <2>6
  <1>6. ASSUME NEW i \in InTheWay(code, at), DeferBlock(i, g)
        PROVE  \/ plan' = plan
               \/ i \in DOMAIN plan /\ plan' = [plan EXCEPT ![i] = [plan[i] EXCEPT !.gone = TRUE]]
    <2>1. i \in DOMAIN plan
      BY DEF InTheWay
    <2>2. QED
      BY <1>6, <2>1 DEF DeferBlock
  <1>7. QED
    BY <1>4, <1>5, <1>6

(* A task that ends no later, or is gone, is as far from the others.       *)
LEMMA RoomIsApart ==
    ASSUME CpTyped, todo \in Seq(CpGroups), MakeRoom, NoMachineTwice
    PROVE  NoMachineTwice'
  <1>1. plan \in Seq(TaskRows) /\ \A i \in DOMAIN plan : plan[i] \in TaskRows /\ plan[i].start \in Nat /\ plan[i].end \in Nat
    BY TasksAre DEF CpTyped, Typed
  <1>2. /\ DOMAIN plan' = DOMAIN plan
        /\ \A i \in DOMAIN plan : ~plan'[i].gone =>
              /\ ~plan[i].gone /\ plan'[i].machine = plan[i].machine /\ plan'[i].start = plan[i].start
              /\ plan'[i].end \in Nat /\ plan'[i].end <= plan[i].end
    <2>1. CASE plan' = plan
      BY <1>1, <2>1
    <2>2. ASSUME NEW i \in DOMAIN plan, NEW k, NEW end \in Nat, end <= plan[i].end,
                 plan' = [plan EXCEPT ![i] = [plan[i] EXCEPT !.end = end, !.drums = k]]
          PROVE  /\ DOMAIN plan' = DOMAIN plan
                 /\ \A j \in DOMAIN plan : ~plan'[j].gone =>
                       /\ ~plan[j].gone /\ plan'[j].machine = plan[j].machine /\ plan'[j].start = plan[j].start
                       /\ plan'[j].end \in Nat /\ plan'[j].end <= plan[j].end
      <3> DEFINE t == [plan[i] EXCEPT !.end = end, !.drums = k]
      <3>1. t.gone = plan[i].gone /\ t.machine = plan[i].machine /\ t.start = plan[i].start /\ t.end = end
        BY <1>1 DEF TaskRows
      <3>2. plan' = [plan EXCEPT ![i] = t]
        BY <2>2
      <3> HIDE DEF t
      <3>3. DOMAIN plan' = DOMAIN plan /\ plan'[i] = t /\ \A j \in DOMAIN plan : j # i => plan'[j] = plan[j]
        BY <1>1, <3>2
      <3>4. QED
        BY <1>1, <2>2, <3>1, <3>3
    <2>3. ASSUME NEW i \in DOMAIN plan, plan' = [plan EXCEPT ![i] = [plan[i] EXCEPT !.gone = TRUE]]
          PROVE  /\ DOMAIN plan' = DOMAIN plan
                 /\ \A j \in DOMAIN plan : ~plan'[j].gone =>
                       /\ ~plan[j].gone /\ plan'[j].machine = plan[j].machine /\ plan'[j].start = plan[j].start
                       /\ plan'[j].end \in Nat /\ plan'[j].end <= plan[j].end
      <3> DEFINE t == [plan[i] EXCEPT !.gone = TRUE]
      <3>1. t.gone
        BY <1>1 DEF TaskRows
      <3>2. plan' = [plan EXCEPT ![i] = t]
        BY <2>3
      <3> HIDE DEF t
      <3>3. DOMAIN plan' = DOMAIN plan /\ plan'[i] = t /\ \A j \in DOMAIN plan : j # i => plan'[j] = plan[j]
        BY <1>1, <3>2
      <3>4. QED
        BY <1>1, <3>1, <3>3
    <2>4. QED
      BY <2>1, <2>2, <2>3, RoomShrinks
  <1>3. SUFFICES ASSUME NEW i \in DOMAIN plan, NEW j \in DOMAIN plan, ~plan'[i].gone, ~plan'[j].gone,
                        i < j, plan'[i].machine = plan'[j].machine
                 PROVE  Disjoint(plan'[i], plan'[j])
    BY <1>2 DEF NoMachineTwice, Standing, Disjoint
  <1>4. plan[i].machine = plan[j].machine /\ ~plan[i].gone /\ ~plan[j].gone
    BY <1>2, <1>3
  <1>5. Disjoint(plan[i], plan[j])
    BY <1>3, <1>4 DEF NoMachineTwice, Standing
  <1>6. QED
    BY <1>1, <1>2, <1>3, <1>5 DEF Disjoint

(* What is put back goes where the machine is free.                        *)
LEMMA PutBackIsApart ==
    ASSUME CpTyped, PlaceRemainder, NoMachineTwice
    PROVE  NoMachineTwice'
  <1> DEFINE r        == Head(preempted_remainder)
             duration == r.drums * work[r.group] + r.setup
             at       == FindSlot(MachineCat(r.machine), base, duration, Timeline(r.machine))
             end      == EndOf(MachineCat(r.machine), at, duration)
             block    == [start |-> at, end |-> end]
             task     == NewTask(r.group, r.machine, block, r.setup, r.drums, TRUE)
  <1>1. preempted_remainder # <<>> /\ plan' = Append(plan, task)
    BY DEF PlaceRemainder
  <1>2. preempted_remainder \in Seq(Shares) /\ Typed
    BY DEF CpTyped
  <1>3. r \in Shares
    BY <1>1, <1>2, OneLess
  <1> HIDE DEF r
  <1>4. r.group \in Group /\ r.machine \in Codes /\ r.drums \in Nat /\ r.setup \in Nat
    BY <1>3 DEF Shares
  <1>5. base \in Nat /\ work[r.group] \in Nat
    BY <1>2, <1>4 DEF Typed
  <1>6. duration \in Nat
    <2>1. r.drums * work[r.group] \in Nat
      BY <1>4, <1>5
    <2>2. QED
      BY <1>4, <2>1
  <1> HIDE DEF duration
  <1>7. MachineCat(r.machine) \in Categories /\ AreSlots(Timeline(r.machine))
    BY <1>2, <1>4, CatIs, SlotsAre
  <1>8. at \in Nat /\ base <= at /\ Fits(MachineCat(r.machine), at, duration, Timeline(r.machine))
    BY <1>5, <1>6, <1>7, FoundSlotFits
  <1> HIDE DEF at
  <1>9. \A s \in Timeline(r.machine) : RoundUp(end) <= s.start \/ s.end <= at
    BY <1>8 DEF Fits, Disjoint
  <1> HIDE DEF end
  <1>10. task.start = at /\ task.end = RoundUp(end) /\ task.machine = r.machine /\ ~task.gone
    BY DEF NewTask
  <1> HIDE DEF block, task
  <1>11. plan \in Seq(TaskRows) /\ DOMAIN plan = 1 .. Len(plan) /\ Len(plan) \in Nat
    BY <1>2, TasksAre DEF Typed
  <1>12. /\ DOMAIN plan' = 1 .. Len(plan) + 1 /\ plan'[Len(plan) + 1] = task
         /\ \A i \in DOMAIN plan : plan'[i] = plan[i]
    BY <1>1, <1>11
  <1>13. SUFFICES ASSUME NEW i \in DOMAIN plan', NEW j \in DOMAIN plan', ~plan'[i].gone, ~plan'[j].gone,
                         i < j, plan'[i].machine = plan'[j].machine
                  PROVE  Disjoint(plan'[i], plan'[j])
    BY DEF NoMachineTwice, Standing, Disjoint
  <1>14. i \in DOMAIN plan /\ plan'[i] = plan[i]
    BY <1>11, <1>12, <1>13
  <1>15. CASE j \in DOMAIN plan
    <2>1. plan'[j] = plan[j]
      BY <1>12, <1>15
    <2>2. QED
      BY <1>13, <1>14, <1>15, <2>1 DEF NoMachineTwice, Standing
  <1>16. CASE j \notin DOMAIN plan
    <2>1. plan'[j] = task
      BY <1>11, <1>12, <1>13, <1>16
    <2>2. plan[i].machine = r.machine /\ ~plan[i].gone
      BY <1>10, <1>13, <1>14, <2>1
    <2>3. [start |-> plan[i].start, end |-> plan[i].end] \in Timeline(r.machine)
      BY <1>14, <2>2 DEF Timeline
    <2>4. RoundUp(end) <= plan[i].start \/ plan[i].end <= at
      BY <1>9, <2>3
    <2>5. QED
      BY <1>10, <1>14, <2>1, <2>4 DEF Disjoint
  <1>17. QED
    BY <1>15, <1>16

(* A block that is cut ends before the one it makes room for begins, one   *)
(* that is taken off leaves its machine, and the rest goes where there is  *)
(* room: if two tasks of a machine meet, a group has been placed so, and   *)
(* no preemption.                                                          *)
THEOREM PreemptionKeepsMachinesApart == CpSpec => [][NoMachineTwice => PlaceGroup \/ NoMachineTwice']_cpVars
  <1>1. ASSUME CpInv, NoMachineTwice, [CpNext]_cpVars, ~PlaceGroup
        PROVE  NoMachineTwice'
    <2>1. CASE MakeRoom
      BY <1>1, <2>1, RoomIsApart DEF CpInv
    <2>2. CASE PlaceRemainder
      BY <1>1, <2>2, PutBackIsApart DEF CpInv
    <2>3. CASE LoadGroups \/ BuildModel \/ Solve \/ Decide \/ Flush \/ UNCHANGED cpVars
      <3>1. plan' = plan
        BY <2>3 DEF LoadGroups, BuildModel, Solve, Decide, Flush, cpVars, placing
      <3>2. Standing' = Standing
        BY <3>1 DEF Standing
      <3>3. QED
        BY <1>1, <3>1, <3>2 DEF NoMachineTwice, Disjoint
    <2>4. QED
      BY <1>1, <2>1, <2>2, <2>3 DEF CpNext
  <1>2. CpInv /\ [CpNext]_cpVars => [NoMachineTwice => PlaceGroup \/ NoMachineTwice']_cpVars
    BY <1>1
  <1>3. QED
    BY <1>2, CpInvHolds, PTL DEF CpSpec

=============================================================================
