------------------------------- MODULE Grouping -------------------------------
(***************************************************************************)
(* How stage 1 turns the orders of a run into batches (batch_grouper.py    *)
(* and its parts) and splits groups that are too long (batch_splitter.py). *)
(*                                                                         *)
(* Stranding is done for a whole group: a header (seq -1) has the work, in *)
(* lots of the drum size, and a row (seq 1) for each order is for show.    *)
(* Every other process has a row for each order.  A group is known by its  *)
(* name, <<process, cross section, n>>, in all runs: its n is how often    *)
(* "_B" was put behind the name by a split.                                *)
(***************************************************************************)
EXTENDS Stock

CONSTANTS
    Route,           \* the processes of an order, numbers; <<>>: no batches
    Cored,           \* orders whose core is stranded first (61 strands)
    LotOf,           \* lot_stranding of a cross section; 0: unknown
    Covers           \* the processes that stock of a stage has behind it

ASSUME GroupingAssumption ==
    /\ Route \in [Order -> Seq(Nat)]
    /\ LotOf \in [Range(SqOf) -> Nat]

Strand == 1
Core   == 0          \* the group of the cores; their process is stranding too

Started  == {"in_progress", "completed", "wip_complete"}

RowsOf(d, run) == {b \in d.rows : b.run = run}
OrderRows(d, run) == {b \in RowsOf(d, run) : b.seq >= 1}

(* The number of lots that some length takes, and what is left of the last.*)
Lots(len, sq)    == IF LotOf[sq] = 0 THEN 1 ELSE Max({(len + LotOf[sq] - 1) \div LotOf[sq], 1})
Surplus(len, sq) == IF LotOf[sq] = 0 THEN 0 ELSE Lots(len, sq) * LotOf[sq] - len

Row(run, s, seq, proc, group, wip) ==
    [id |-> 0, run |-> run, order |-> s.order, line |-> s.line, seq |-> seq, proc |-> proc, group |-> group,
     sq |-> SqOf[s.order], status |-> "planned", wip |-> wip, lots |-> 0, surplus |-> 0, due |-> DueOf[s.order]]

-----------------------------------------------------------------------------
(* The batches of a set of orders.  A row has no number yet: its id is 0.  *)

Stranded(S)   == {s \in S : \E i \in DOMAIN Route[s.order] : Route[s.order][i] = Strand}
OfSq(S, sq)   == {s \in Stranded(S) : SqOf[s.order] = sq}
Sqs(S)        == {SqOf[s.order] : s \in Stranded(S)}

(* What is left to strand once the stock is taken off.                     *)
Net(S) == Length({s \in S : s.use \notin Stages})

WipOf(s)   == IF s.use = Nothing THEN Nothing ELSE s.wip
Covered(d, s) == IF WipOf(s) = Nothing THEN {} ELSE Covers[(CHOOSE w \in d.stock : w.id = s.wip).kind[1]]

(* The header names the order that is due first; there is none when stock  *)
(* covers the whole group.                                                 *)
Header(run, S, sq) ==
    LET rep == CHOOSE s \in S : \A t \in S \ {s} : Sooner(s, t)
        h   == Row(run, rep, -1, Strand, <<Strand, sq, 0>>, Nothing)
    IN  [h EXCEPT !.lots = Lots(Net(S), sq), !.surplus = Surplus(Net(S), sq)]

StrandRows(run, S) ==
    UNION {(IF Net(OfSq(S, sq)) > 0 THEN {Header(run, OfSq(S, sq), sq)} ELSE {}) \cup
           {Row(run, s, 1, Strand, <<Strand, sq, 0>>, WipOf(s)) : s \in OfSq(S, sq)} \cup
           {Row(run, s, 0, Strand, <<Core, sq, 0>>, WipOf(s)) :
               s \in {t \in OfSq(S, sq) : t.order \in Cored /\ Net(OfSq(S, sq)) > 0}} : sq \in Sqs(S)}

PerOrderRows(d, run, S) ==
    UNION {LET R == Route[s.order]
               I == {i \in DOMAIN R : R[i] # Strand /\ R[i] \notin Covered(d, s)}
           IN  {Row(run, s, i, R[i], <<R[i], SqOf[s.order], 0>>, WipOf(s)) : i \in I} : s \in S}

(* New rows are numbered by process, header first, then core and orders.   *)
Rank(b) == <<b.proc, b.seq, b.order, b.line, b.id>>

Ahead(b, c) == \E i \in 1 .. 5 : Rank(b)[i] < Rank(c)[i] /\ \A j \in 1 .. i - 1 : Rank(b)[j] = Rank(c)[j]

Insert(d, D) ==
    LET B == {[b EXCEPT !.id = d.nextRow + Cardinality({c \in D : Ahead(c, b)})] : b \in D}
    IN  Expected([d EXCEPT !.rows = @ \cup B, !.nextRow = @ + Cardinality(B)], B)

-----------------------------------------------------------------------------
(* Duplicates are removed: rows of the same order, and then all headers of *)
(* a group but the one due first, which gets the work of all its orders.   *)

Twin(b, c) ==
    /\ b.group = c.group /\ b.order = c.order /\ b.line = c.line /\ b.seq = c.seq /\ b.proc = c.proc

Twins(d, run) ==
    {b \in RowsOf(d, run) : /\ b.seq # -1 /\ b.group # Nothing
                            /\ \E c \in RowsOf(d, run) : Twin(b, c) /\ c.id < b.id}

HeadersOf(d, run) == {b \in RowsOf(d, run) : b.seq = -1 /\ b.group # Nothing}

First(H) == CHOOSE h \in H : \A g \in H : h.due < g.due \/ (h.due = g.due /\ h.id <= g.id)

Aggregated(h, subs) ==
    LET net == Total([b \in subs |-> QtyOf[b.order] * CoresOf[h.order]])
    IN  IF subs = {} THEN h
        ELSE [h EXCEPT !.lots = Lots(net, h.sq), !.surplus = Surplus(net, h.sq), !.due = Min({b.due : b \in subs})]

(* Tasks and stock that refer to a row keep the database from deleting it: *)
(* then there is no result.                                                *)
Referred(d, B) == \E b \in B : (\E t \in d.tasks : t.batch = b.id) \/ (\E w \in d.stock : w.source = b.id)

Deduplicate(d, run) ==
    LET twins  == Twins(d, run)
        H      == HeadersOf(d, run)
        group(h) == {g \in H : g.group = h.group}
        kept   == {First(group(h)) : h \in H}
        subs(h) == {b \in OrderRows(d, run) \ twins : b.group = h.group}
    IN  IF Referred(d, twins \cup (H \ kept)) THEN {}
        ELSE {[d EXCEPT !.rows = (@ \ (twins \cup H)) \cup {Aggregated(h, subs(h)) : h \in kept}]}

CreateBatches(d, run, S) == Deduplicate(Insert(d, StrandRows(run, S) \cup PerOrderRows(d, run, S)), run)

-----------------------------------------------------------------------------
(* Groups that one machine cannot make in time are halved *)

CONSTANT GapDays     \* days between two orders that make a new drum worthwhile

(* The orders of a group are put on drums, the earliest first; one that    *)
(* does not fit starts a drum, and so does one due much later once the     *)
(* drum is four fifths full.                                               *)
Earlier(b, c) == b.due < c.due \/ (b.due = c.due /\ b.order < c.order)

NewDrum(drum, b, sq) ==
    LET len  == Total([c \in Range(drum) |-> QtyOf[c.order]])
        last == drum[Len(drum)]
    IN  \/ len + QtyOf[b.order] > LotOf[sq]
        \/ 5 * len >= 4 * LotOf[sq] /\ last.order # b.order /\ b.due - last.due >= GapDays

Drums(B, sq) ==
    FoldLeft(LAMBDA drums, b :
               IF drums = <<>> THEN <<<<b>>>>
               ELSE IF NewDrum(drums[Len(drums)], b, sq) THEN Append(drums, <<b>>)
               ELSE [drums EXCEPT ![Len(drums)] = Append(@, b)],
             <<>>, SetToSortSeq(B, Earlier))

(* The rows that go to the second half.                                    *)
SecondHalf(d, run, h) ==
    LET B     == {b \in OrderRows(d, run) : b.group = h.group}
        drums == Drums(B, h.sq)
        half  == (Len(drums) + 1) \div 2
    IN  {b \in B : \E i \in DOMAIN drums : i > half /\ b \in Range(drums[i])}

TooLong(d, run, late) ==
    {h \in HeadersOf(d, run) :
       h.proc = Strand /\ h.lots >= 3 /\ LotOf[h.sq] > 0 /\ h.sq \in late /\ SecondHalf(d, run, h) # {}}

WorkOf(h, B) ==
    LET net == Total([b \in B |-> QtyOf[b.order] * CoresOf[h.order]])
    IN  IF B = {} THEN [h EXCEPT !.lots = 0, !.surplus = 0]
        ELSE [h EXCEPT !.lots = Lots(net, h.sq), !.surplus = Surplus(net, h.sq), !.due = Min({b.due : b \in B})]

HalfOf(g) == <<g[1], g[2], g[3] + 1>>

(* The header and the rows of the group are looked for in all runs: h may  *)
(* be that of another run, and its run gets the header of the second half. *)
SplitOff(d, h, off) ==
    LET rest == {b \in d.rows : b.seq >= 1 /\ b.group = h.group} \ off
        name == HalfOf(h.group)
        s    == CHOOSE b \in off : \A c \in off \ {b} : Earlier(b, c) \/ ~Earlier(c, b)
        new  == [WorkOf(h, off) EXCEPT !.id = 0, !.order = s.order, !.line = s.line, !.group = name,
                                       !.status = "planned", !.wip = Nothing]
    IN  Insert([d EXCEPT !.rows = (@ \ ({h} \cup off)) \cup {WorkOf(h, rest)} \cup {[b EXCEPT !.group = name] : b \in off}],
               {new})

(* One group after the other; which header of the name is found is left    *)
(* open.                                                                   *)
AutoSplit(d, run, late) ==
    FoldSet(LAMBDA g, D :
              UNION {{SplitOff(e, h, SecondHalf(d, run, g)) : h \in {x \in e.rows : x.seq = -1 /\ x.group = g.group}} : e \in D},
            {d}, TooLong(d, run, late))

=============================================================================
