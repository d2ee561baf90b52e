-------------------------------- MODULE Stock --------------------------------
(***************************************************************************)
(* The stock of half-made cable (wip_inventory) as stage 1 reads and       *)
(* changes it: what a survey finds (wip_parser.py), what is matched with   *)
(* the orders of a run (wip_matching.py), what the headers of stranding    *)
(* groups are expected to leave over (wip_lifecycle_listener.py), and what *)
(* becomes of it when they are completed (wip_promotion.py).               *)
(*                                                                         *)
(* d is the database: d.sales, d.rows, d.tasks and d.stock are the tables, *)
(* sets of records, and d.nextRow and d.nextStock the next numbers.        *)
(* Lengths are metres, and stock of insulated cable is told apart by its   *)
(* cross section alone.                                                    *)
(***************************************************************************)
EXTENDS Integers, FiniteSetsExt, SequencesExt

CONSTANTS
    Order,           \* order numbers, of one drum length each
    SqOf,            \* cross section of an order
    QtyOf,           \* ordered_qty_m
    DrumOf,          \* drum_length_m
    CoresOf,         \* core_count
    DueOf,           \* due_date
    LossLimit,       \* how much shorter than ordered a drum may be, in percent
    Nothing          \* NULL

ASSUME StockAssumption ==
    /\ Order \subseteq Nat \ {0}
    /\ SqOf \in [Order -> Nat] /\ QtyOf \in [Order -> Nat] /\ DrumOf \in [Order -> Nat]
    /\ CoresOf \in [Order -> Nat] /\ DueOf \in [Order -> Nat]
    /\ Nothing \notin Nat

Stages   == {"stranded", "insulated"}
Kinds    == Stages \X {SqOf[o] : o \in Order}
Listed   == {"free", "counted", "estimated"}                   \* level 2
Statuses == Listed \cup {"expected", "used", "actual"}

(* The cores of an order are stranded one by one.                          *)
LenOf(o) == QtyOf[o] * CoresOf[o]

Total(f) == FoldFunction(+, 0, f)

-----------------------------------------------------------------------------
(* A survey: drums, each of a kind and a length.  The session does not     *)
(* flush by itself: every drum is compared with the stock as it was before *)
(* the survey, and two drums may find the same row.                        *)

Unassigned(d, w) == \E b \in d.rows : b.id = w.source /\ b.status = "unassigned"

Candidates(d, drum) ==
    {w \in d.stock : /\ w.status \in {"expected", "estimated"}
                     /\ w.kind = drum.kind
                     /\ ~Unassigned(d, w)
                     /\ 10 * w.expected >= 9 * drum.len
                     /\ 10 * w.expected <= 11 * drum.len}

Gap(w, drum) == IF w.expected > drum.len THEN w.expected - drum.len ELSE drum.len - w.expected

(* The narrowest gap, then the oldest.                                     *)
Pick(d, drum) ==
    CHOOSE w \in Candidates(d, drum) :
       \A v \in Candidates(d, drum) :
          Gap(w, drum) < Gap(v, drum) \/ (Gap(w, drum) = Gap(v, drum) /\ w.id <= v.id)

Counted(w, drum) == [w EXCEPT !.status = "counted", !.len = drum.len, !.variance = drum.len - w.expected]

Orphan(id, run, drum) ==
    [id |-> id, kind |-> drum.kind, run |-> run, len |-> drum.len, status |-> "free", source |-> Nothing,
     expected |-> 0, variance |-> 0, matched |-> Nothing]

(* The last of the drums that found a row is what is written.              *)
Survey(d, run, drums) ==
    LET found == [i \in DOMAIN drums |-> IF Candidates(d, drums[i]) = {} THEN Nothing ELSE Pick(d, drums[i]).id]
        last(w) == Max({i \in DOMAIN drums : found[i] = w.id})
        hit   == {w \in d.stock : \E i \in DOMAIN drums : found[i] = w.id}
        news  == {i \in DOMAIN drums : found[i] = Nothing}
        id(i) == d.nextStock + Cardinality({j \in news : j < i})
    IN  [d EXCEPT !.stock = (@ \ hit) \cup {Counted(w, drums[last(w)]) : w \in hit}
                                      \cup {Orphan(id(i), run, drums[i]) : i \in news},
                  !.nextStock = @ + Cardinality(news)]

-----------------------------------------------------------------------------
(* Matching stock with the orders of a run *)

(* Mutant: stock that is used up is on the list.                           *)
AvailableTwice(d, except) == {w \in d.stock : w.status \in Listed \cup {"used"} /\ w.id \notin except /\ w.len > 0}

(* The stock that a run may use, of all runs; drums of one kind are a pool.*)
Available(d, except) == {w \in d.stock : w.status \in Listed /\ w.id \notin except /\ w.len > 0}

(* The order of the pools: by cross section, then by the longest drum.     *)
Before(p, q, W) ==
    LET longest(k) == Max({w.len : w \in {v \in W : v.kind = k}})
    IN  p[2] > q[2] \/ (p[2] = q[2] /\ longest(p) > longest(q))

Pools(W) == {w.kind : w \in W}

(* The pool of some that is served last.                                   *)
LastOf(K, W) == CHOOSE p \in K : \A q \in K : ~Before(p, q, W)

(* The orders that have no stock yet, and that the longest drum can serve: *)
(* a drum that was counted is as long as it was expected to be.            *)
DrumLen(w) == IF w.status = "counted" THEN w.expected ELSE w.len

Eligible(sales, run, kind, W) ==
    {s \in sales : /\ s.run = run
                   /\ s.use = Nothing
                   /\ SqOf[s.order] = kind[2]
                   /\ \E w \in W : 100 * DrumLen(w) >= (100 - LossLimit) * DrumOf[s.order]}

Sooner(s, t) ==
    \/ DueOf[s.order] < DueOf[t.order]
    \/ DueOf[s.order] = DueOf[t.order] /\ (s.order < t.order \/ (s.order = t.order /\ s.line < t.line))

Length(S) == Total([s \in S |-> LenOf(s.order)])

(* Of the sets of orders that the pool can serve in full, the one that     *)
(* leaves least; of several, the first in the order of the bit masks.      *)
Mask(S, C) == Total([s \in S |-> 2 ^ Cardinality({t \in C : Sooner(t, s)})])

BestCombo(C, total) ==
    LET fitting == {S \in SUBSET C : Length(S) <= total}
        best    == {S \in fitting : Length(S) = Max({Length(T) : T \in fitting})}
    IN  CHOOSE S \in best : \A T \in best : Mask(S, C) <= Mask(T, C)

Longer(s, t) == LenOf(s.order) > LenOf(t.order) \/ (LenOf(s.order) = LenOf(t.order) /\ Sooner(s, t))

(* The longest orders first, each on the first drum that has enough left,  *)
(* the longest drums first, and else on the one that has most left.        *)
Hand(left, W, s) ==
    LET enough == {w \in W : left[w.id] >= LenOf(s.order)}
        first  == CHOOSE w \in enough : \A v \in enough : w.len > v.len \/ (w.len = v.len /\ w.id <= v.id)
        most   == CHOOSE w \in W : \A v \in W : left[w.id] > left[v.id] \/ (left[w.id] = left[v.id] /\ w.id <= v.id)
    IN  IF enough # {} THEN first ELSE most

Assign(S, W) ==
    MapThenFoldSet(LAMBDA s, acc :
                     LET w == Hand(acc.left, W, s).id
                     IN  [left |-> [acc.left EXCEPT ![w] = @ - LenOf(s.order)], on |-> acc.on \cup {<<s, w>>}],
                   [left |-> [i \in {w.id : w \in W} |-> (CHOOSE w \in W : w.id = i).len], on |-> {}],
                   LAMBDA s : s,
                   LAMBDA T : CHOOSE s \in T : \A t \in T : ~Longer(s, t),
                   S)

(* The stock that an order is on is used up, however much is left of it.   *)
MatchPool(d, run, kind, except) ==
    LET W    == {w \in Available(d, except) : w.kind = kind}
        C    == Eligible(d.sales, run, kind, W)
        S    == BestCombo(C, Total([w \in W |-> w.len]))
        on   == Assign(S, W).on
        used == {w \in W : \E p \in on : p[2] = w.id}
        main(w) == CHOOSE p \in on : p[2] = w.id /\ \A q \in on : q[2] = w.id => ~Longer(q[1], p[1])
    IN  [d EXCEPT
           !.sales = (@ \ S) \cup {[p[1] EXCEPT !.use = kind[1], !.wip = p[2]] : p \in on},
           !.stock = (@ \ used) \cup
                     {[w EXCEPT !.status = "used", !.matched = <<main(w)[1].order, main(w)[1].line>>] : w \in used}]

Match(d, run, except) ==
    LET W == Available(d, except)
    IN  MapThenFoldSet(LAMBDA kind, acc : MatchPool(acc, run, kind, except), d, LAMBDA kind : kind,
                       LAMBDA K : LastOf(K, W), Pools(W))

-----------------------------------------------------------------------------
(* What headers leave over *)

(* A header that is inserted with a surplus is expected to leave it over.  *)
Expected(d, B) ==
    LET H     == {b \in B : b.seq = -1 /\ b.surplus > 0}
        id(h) == d.nextStock + Cardinality({g \in H : g.id < h.id})
    IN  [d EXCEPT !.stock = @ \cup {[id |-> id(h), kind |-> <<"stranded", h.sq>>, run |-> h.run, len |-> h.surplus,
                                     status |-> "expected", source |-> h.id, expected |-> h.surplus,
                                     variance |-> 0, matched |-> Nothing] : h \in H},
                  !.nextStock = @ + Cardinality(H)]

(* A batch that is completed turns what it was expected to leave into an   *)
(* estimate, once.                                                         *)
Promote(d, ids, status) ==
    [d EXCEPT !.stock = {IF status = "completed" /\ w.source \in ids /\ w.status = "expected"
                         THEN [w EXCEPT !.status = "estimated"] ELSE w : w \in @}]

=============================================================================
