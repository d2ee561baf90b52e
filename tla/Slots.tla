------------------------------- MODULE Slots --------------------------------
(***************************************************************************)
(* Where a task goes on the timeline of one machine: the search for a free *)
(* slot (slot_finder.py), the alignment with the end of the preceding      *)
(* process (slot_filters.py) and the just-in-time shift that follows the   *)
(* greedy engine (jit_scheduling.py).                                      *)
(*                                                                         *)
(* Blocks end on the hour.  The cache of ends that the greedy engine hands *)
(* to the search is left out: work is counted in whole half hours here,    *)
(* and for whole minutes the cache returns what the calendar would.        *)
(***************************************************************************)
EXTENDS Calendar, SequencesExt

CONSTANTS
    NoTime,          \* no such time is known
    MinSlack         \* days a task must be early to be shifted (3 in the code)

(* The order of tuples, their first numbers first.                         *)
Before(a, b) == \E k \in DOMAIN a : a[k] < b[k] /\ \A l \in 1 .. k - 1 : a[l] = b[l]

(* A set in the order of its keys.                                         *)
Sorted(S, key) ==
    MapThenFoldSet(LAMBDA x, rest : <<x>> \o rest, <<>>, LAMBDA x : x,
                   LAMBDA T : CHOOSE x \in T : \A y \in T : ~Before(key[y], key[x]), S)

(* end_dt is rounded up to the next full hour.                             *)
RoundUp(t) == t + (t % 2)

Disjoint(a, b) == a.end <= b.start \/ b.end <= a.start

-----------------------------------------------------------------------------
(* When the search comes to slot s, it is past those that begin before it. *)
Candidate(earliest, slots, s) == Max({earliest} \cup {x.end : x \in {y \in slots : y.start < s.start}})

FirstOf(slots) == CHOOSE s \in slots : \A x \in slots : s.start <= x.start

(* Mutant: the end is compared before it is rounded up.                    *)
FindSlotUnrounded(cat, earliest, work, slots) ==
    LET open == {s \in slots : EndOf(cat, Candidate(earliest, slots, s), work) <= s.start}
    IN  IF open = {} THEN Max({earliest} \cup {s.end : s \in slots})
        ELSE Candidate(earliest, slots, FirstOf(open))

(* Mutant: a task always follows the last one of the machine.              *)
FindSlotAtEnd(cat, earliest, work, slots) == Max({earliest} \cup {s.end : s \in slots})

(* _find_available_slot: before the first slot, in the order of their      *)
(* starts, that leaves room, or else behind them all.  No two slots begin  *)
(* at the same time.                                                       *)
FindSlot(cat, earliest, work, slots) ==
    LET open == {s \in slots : RoundUp(EndOf(cat, Candidate(earliest, slots, s), work)) <= s.start}
    IN  IF open = {} THEN Max({earliest} \cup {s.end : s \in slots})
        ELSE Candidate(earliest, slots, FirstOf(open))

Fits(cat, at, work, slots) ==
    \A s \in slots : Disjoint([start |-> at, end |-> RoundUp(EndOf(cat, at, work))], s)

(* align_start_to_predecessor_end: the last drum comes after the last drum *)
(* of the process before.  tail is the time of one drum.                   *)
Align(cat, slots, start, end, work, tail, predEnd) ==
    IF predEnd = NoTime THEN [start |-> start, end |-> end]
    ELSE LET back  == StartOf(cat, predEnd, work)
             moved == back > start
             s1    == IF moved THEN FindSlot(cat, back, work, slots) ELSE start
             e1    == IF moved THEN EndOf(cat, s1, work) ELSE end
             s2    == FindSlot(cat, s1 + tail, work, slots)
         IN  IF tail > 0 /\ s1 > start THEN [start |-> s2, end |-> EndOf(cat, s2, work)]
             ELSE [start |-> s1, end |-> Max({e1, predEnd})]

-----------------------------------------------------------------------------
(* apply_jit_delay.  plan[i] is a task: its machine, with the category of  *)
(* its calendar, its order line, its due day and its block.                *)

EndOfDue(due) == Ticks(24) * due + Ticks(24) - 1

OnMachine(plan, i) == {j \in DOMAIN plan : plan[j].machine = plan[i].machine}

(* The latest end: the next task of the machine, the next process of the   *)
(* order if it begins after this one has ended, and the due day.           *)
JitLimit(plan, i) ==
    LET next  == {plan[j].start : j \in {k \in OnMachine(plan, i) : plan[k].start > plan[i].start}}
        later == {plan[j].start : j \in {k \in DOMAIN plan \ {i} :
                     plan[k].order = plan[i].order /\ plan[k].start >= plan[i].end}}
    IN  Min({EndOfDue(plan[i].due)} \cup next \cup later)

(* One task is moved as far back as the calendar says, when that is a gain *)
(* and does not run into the task just before: where it may go, if any.    *)
(* An earlier one may still stretch beyond that task: none looks at it.    *)
JitBlock(plan, i) ==
    LET t       == plan[i]
        earlier == {k \in OnMachine(plan, i) : plan[k].start < t.start}
        before  == {k \in earlier : \A j \in earlier : plan[j].start <= plan[k].start}
    IN  {b \in {[start |-> StartOf(t.cat, end, t.end - t.start), end |-> end] : end \in {JitLimit(plan, i)}} :
            /\ t.due - Day(t.end) >= MinSlack
            /\ b.end > t.end
            /\ t.start < b.start /\ b.start < b.end
            /\ \A k \in before : plan[k].end <= b.start}

JitShift(plan, i) ==
    {[plan EXCEPT ![i].start = b.start, ![i].end = b.end] : b \in JitBlock(plan, i)}

(* A pass: machine by machine, each from its last task to its first, as    *)
(* they stood when the pass began.                                         *)
JitPass(plan) ==
    LET First(m) == Min({i \in DOMAIN plan : plan[i].machine = m})
        order == Sorted(DOMAIN plan, [i \in DOMAIN plan |-> <<First(plan[i].machine), -plan[i].start>>])
        after[n \in 0 .. Len(order)] ==
            IF n = 0 THEN plan
            ELSE CHOOSE p \in UNION {IF JitBlock(q, order[n]) = {} THEN {q} ELSE JitShift(q, order[n]) :
                                         q \in {after[n - 1]}} : TRUE
    IN  after[Len(order)]

=============================================================================
