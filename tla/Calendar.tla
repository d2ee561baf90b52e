------------------------------ MODULE Calendar ------------------------------
(***************************************************************************)
(* The operation calendar (calendar_engine.py, calendar_ops.py): when a    *)
(* machine works, when a task of some working time ends, and when it must  *)
(* begin to end in time.                                                   *)
(*                                                                         *)
(* Time is counted in half hours from a Monday 00:00; every shift and      *)
(* every break of the calendar begins and ends on a half hour.  A shift    *)
(* belongs to the day on which it begins, at 08:00, and may run into the   *)
(* next.  "strand" stands for stranding, assembly and the default,         *)
(* "nonstop" for low-voltage insulation and sheathing, "cv" for            *)
(* high-voltage insulation.                                                *)
(***************************************************************************)
EXTENDS Integers, FiniteSetsExt

CONSTANTS
    Holidays,        \* days without work, numbered from 0, a Monday
    LastMondays      \* days of the safety training

Categories == {"strand", "nonstop", "cv"}

ASSUME CalendarAssumption ==
    /\ Holidays \subseteq Nat /\ IsFiniteSet(Holidays)
    /\ LastMondays \subseteq Nat

Ticks(hours)  == 2 * hours
Day(t)        == t \div Ticks(24)
Clock(t)      == t % Ticks(24)
WeekDay(d)    == d % 7
Morning(d)    == Ticks(24) * d + Ticks(8)
Workdays(d)   == WeekDay(d) <= 4

-----------------------------------------------------------------------------
(* Hours and shifts *)

DailyTicks(cat, wd) ==
    IF wd >= 5 THEN 0
    ELSE CASE cat = "strand"  -> IF wd = 4 THEN Ticks(14) ELSE Ticks(22)
           [] cat = "nonstop" -> IF wd = 4 THEN Ticks(12) ELSE Ticks(24)
           [] cat = "cv"      -> IF wd = 4 THEN Ticks(12) ELSE IF wd = 0 THEN Ticks(18) ELSE Ticks(24)

(* The safety training takes two hours off, for those who ask for hours.   *)
AvailableTicks(cat, d) ==
    IF d \in Holidays THEN 0
    ELSE DailyTicks(cat, WeekDay(d)) - (IF WeekDay(d) = 0 /\ d \in LastMondays THEN Ticks(2) ELSE 0)

(* The end of the shift of day d; that of a weekend is empty.              *)
ShiftEnd(cat, d) ==
    Morning(d) + (IF cat = "strand" /\ WeekDay(d) <= 3 THEN Ticks(24) ELSE DailyTicks(cat, WeekDay(d)))

Breaks(cat, d) ==
    IF cat = "strand" /\ WeekDay(d) <= 3
    THEN LET At(from, to) == [from |-> Ticks(24) * d + from, to |-> Ticks(24) * d + to]
         IN {At(Ticks(12), Ticks(13)), At(Ticks(18), Ticks(18) + 1), At(Ticks(22), Ticks(22) + 1)}
    ELSE {}

(* The reference: whether the machine works during the tick t, by the      *)
(* shift of the day or that of the day before.                             *)
Works(cat, t) ==
    \E d \in {Day(t) - 1, Day(t)} :
       /\ AvailableTicks(cat, d) > 0
       /\ Morning(d) <= t /\ t < ShiftEnd(cat, d)
       /\ ~ \E b \in Breaks(cat, d) : b.from <= t /\ t < b.to

-----------------------------------------------------------------------------
(* calculate_end_datetime *)

(* A time of the walk: the calendar, now, and the work that is left.       *)
Walks == Categories \X Nat \X Nat

(* Mutant: a break is entered without being skipped.                       *)
EndThroughBreaks[walk \in Walks] ==
    LET cat  == walk[1]
        now  == walk[2]
        left == walk[3]
        d    == Day(now)
    IN  IF left = 0 THEN now
        ELSE IF AvailableTicks(cat, d) = 0 \/ now >= ShiftEnd(cat, d)
             THEN EndThroughBreaks[<<cat, Morning(d + 1), left>>]
        ELSE IF left <= ShiftEnd(cat, d) - now THEN now + left
        ELSE EndThroughBreaks[<<cat, Morning(d + 1), left - (ShiftEnd(cat, d) - now)>>]

(* From now on, with so much work left: over days off, breaks and nights.  *)
(* The shift is that of the day of now, even in the small hours.           *)
(* The code gives up after a thousand rounds, that is not before some two  *)
(* hundred working days or a thousand days off: this is left out.          *)
EndFrom[walk \in Walks] ==
    LET cat    == walk[1]
        now    == walk[2]
        left   == walk[3]
        d      == Day(now)
        breaks == Breaks(cat, d)
        stop   == Min({ShiftEnd(cat, d)} \cup {b.from : b \in {x \in breaks : x.from > now}})
    IN  IF left = 0 THEN now
        ELSE IF AvailableTicks(cat, d) = 0 \/ now >= ShiftEnd(cat, d)
             THEN EndFrom[<<cat, Morning(d + 1), left>>]
        ELSE IF \E b \in breaks : b.from <= now /\ now < b.to
             THEN EndFrom[<<cat, (CHOOSE b \in breaks : b.from <= now /\ now < b.to).to, left>>]
        ELSE IF left <= stop - now THEN now + left
        ELSE EndFrom[<<cat, IF stop < ShiftEnd(cat, d) THEN stop ELSE Morning(d + 1), left - (stop - now)>>]

EndOfMutant(cat, start, work) == EndThroughBreaks[<<cat, start, work>>]

EndOf(cat, start, work) == EndFrom[<<cat, start, work>>]

-----------------------------------------------------------------------------
(* calculate_start_datetime *)

(* 08:00 sharp is the end of the shift before.                             *)
ShiftDay(now) == IF now = Morning(Day(now)) THEN Day(now) - 1 ELSE Day(now)

(* The walk back also keeps what the clock alone would say.                *)
WalksBack == Categories \X Int \X Nat \X Int

(* Before 08:00 the walk goes on from the end of the shift before, which   *)
(* is later; when that is the very same time it never moves again and,     *)
(* after a thousand rounds, the code subtracts by the clock.               *)
StartFrom[walk \in WalksBack] ==
    LET cat    == walk[1]
        now    == walk[2]
        left   == walk[3]
        clock  == walk[4]
        d      == ShiftDay(now)
        breaks == Breaks(cat, d)
        stop   == Max({Morning(d)} \cup {b.to : b \in {x \in breaks : x.to < now}})
    IN  IF left = 0 THEN now
        ELSE IF AvailableTicks(cat, d) = 0 \/ now <= Morning(d)
             THEN IF ShiftEnd(cat, d - 1) = now THEN clock
                  ELSE StartFrom[<<cat, ShiftEnd(cat, d - 1), left, clock>>]
        ELSE IF \E b \in breaks : b.from < now /\ now <= b.to
             THEN StartFrom[<<cat, (CHOOSE b \in breaks : b.from < now /\ now <= b.to).from, left, clock>>]
        ELSE IF left <= now - stop THEN now - left
        ELSE StartFrom[<<cat, IF stop > Morning(d) THEN stop ELSE ShiftEnd(cat, d - 1),
                         left - (now - stop), clock>>]

StartOf(cat, end, work) == StartFrom[<<cat, end, work, end - work>>]

-----------------------------------------------------------------------------
(* _working_minutes_between and _due_work_min *)

WorkIn(cat, d, from, to) ==
    LET Clip(a, b) == Max({0, Min({b, to}) - Max({a, from})}) IN
    Clip(from, to) - MapThenSumSet(LAMBDA b : Clip(b.from, b.to), Breaks(cat, d))

(* Day by day; every day but the last counts its whole shift.              *)
WorkingTicks(cat, start, end) ==
    IF end <= start THEN 0
    ELSE LET From(d) == IF d = Day(start) THEN Max({start, Morning(d)}) ELSE Morning(d)
             To(d)   == IF d = Day(end) THEN Min({end, ShiftEnd(cat, d)}) ELSE ShiftEnd(cat, d)
             days    == {d \in Day(start) .. Day(end) : AvailableTicks(cat, d) > 0 /\ From(d) < To(d)}
         IN  MapThenSumSet(LAMBDA d : WorkIn(cat, d, From(d), To(d)), days)

(* The work left until 22:00 of the due day, negative when it is over.     *)
DueTicks(cat, due, base) ==
    LET end == Ticks(24) * due + Ticks(22) IN
    IF end <= base THEN -WorkingTicks(cat, end, base) ELSE WorkingTicks(cat, base, end)

(* The axis of the solver: 14 hours a day, weekends left out.              *)
DatetimeToAxis(t, base) ==
    LET days == Cardinality({d \in Day(base) .. Day(t) - 1 : Workdays(d)})
        time == Min({Max({Clock(t) - Ticks(8), 0}), Ticks(14)})
    IN  IF t < base THEN 0 ELSE Ticks(14) * days + time

=============================================================================
