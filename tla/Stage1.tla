-------------------------------- MODULE Stage1 --------------------------------
(***************************************************************************)
(* Stage 1 over the life of a plan: a file of orders is taken in           *)
(* (execute_stage1_ingest), operators start and complete batches, stage 2  *)
(* gives them tasks, the plan is updated with a new file under a new run   *)
(* label (run_stage1_update), a run is deleted, stock is measured and      *)
(* shortages are made up for.                                              *)
(*                                                                         *)
(* Each request is a transaction, but for the first thing an ingest does:  *)
(* the old plan is deleted and committed before the file is looked at.     *)
(***************************************************************************)
EXTENDS Grouping

CONSTANTS
    Files,           \* ERP files: sequences of order numbers
    Surveys,         \* stock surveys: sequences of drums
    Windows,         \* <<first, last>> due dates that an ingest plans
    Late,            \* Late[request]: cross sections that may be too much for one machine
    Matching,        \* Matching[request]: whether the matching of stock succeeds
    NewStatuses,     \* statuses that operators set
    Lengths,         \* lengths that are measured
    Bound,           \* Bound[request]: how often it is made
    MaxRequests      \* bound: requests in all

ASSUME Stage1Assumption ==
    /\ Files \subseteq Seq(Order)
    /\ \A survey \in Surveys : survey = Nothing \/ survey \in Seq([kind : Kinds, len : Nat])
    /\ NewStatuses \subseteq {"planned", "scheduled"} \cup Started
    /\ Lengths \subseteq Nat
    /\ Bound \in [{"ingest", "update", "status", "stage2", "delete", "measure", "shortage"} -> Nat]

VARIABLES
    db,              \* the tables
    latest,          \* number of the newest run label
    last,            \* the last request, if it updated a plan: how, and which
    made             \* how often each request was made

vars == <<db, latest, last, made>>

Runs     == 0 .. latest
Keys(B)  == {<<b.order, b.line>> : b \in {x \in B : x.order # 0}}
Key(s)   == <<s.order, s.line>>

NoUpdate == [mode |-> "", parent |-> 0]

Init ==
    /\ db = [sales |-> {}, rows |-> {}, tasks |-> {}, stock |-> {}, nextRow |-> 1, nextStock |-> 1]
    /\ latest = 0
    /\ last = NoUpdate
    /\ made = [r \in DOMAIN Bound |-> 0]

(* A request, the bound on which is not reached, and the update that it is.*)
Asked(r, update) ==
    /\ made[r] < Bound[r] /\ Total(made) < MaxRequests
    /\ made' = [made EXCEPT ![r] = @ + 1]
    /\ last' = update

Request(r) == Asked(r, NoUpdate)

-----------------------------------------------------------------------------
(* The orders of a file *)

(* Only an order of this very run is known; the lines go on from its last. *)
Unknown(d, run, file) == {i \in DOMAIN file : \A s \in d.sales : s.run = run => s.order # file[i]}
LastLine(d, run)      == Max({0} \cup {s.line : s \in {x \in d.sales : x.run = run}})

Parsed(d, run, file) ==
    LET I == Unknown(d, run, file)
    IN  {[order |-> file[i], line |-> LastLine(d, run) + Cardinality({j \in I : j <= i}), run |-> run,
          use |-> Nothing, wip |-> Nothing] : i \in I}

(* Order and line are the key of the table.                                *)
Clash(d, sales) == \E s \in sales, t \in d.sales : Key(s) = Key(t)

-----------------------------------------------------------------------------
(* A new plan *)

Purged ==
    [db EXCEPT !.sales = {[s EXCEPT !.use = Nothing, !.wip = Nothing] : s \in @},
               !.rows = {}, !.tasks = {}, !.stock = {}]

Surveyed(d, run, survey) == IF survey = Nothing THEN d ELSE Survey(d, run, survey)

Within(s, window) == window[1] <= DueOf[s.order] /\ DueOf[s.order] <= window[2]

(* A matching that fails is rolled back, and the request goes on.          *)
Matched(d, run, except, matching) == IF matching THEN Match(d, run, except) ELSE d

Ingest(file, survey, window, late, matching) ==
    LET run == latest + 1 IN
    /\ Request("ingest")
    /\ \E parsed \in {[Purged EXCEPT !.sales = Parsed([Purged EXCEPT !.sales = {}], run, file)]} :
       \E matched \in {Matched(Surveyed(parsed, run, survey), run, {}, matching)} :
       \E d \in CreateBatches(matched, run, {s \in matched.sales : Within(s, window)}) :
       \E e \in AutoSplit(d, run, late) : db' = e
    /\ latest' = run

(* A file that is empty or cannot be read is refused when the old plan is  *)
(* gone; the orders are still there.                                       *)
IngestRefused ==
    /\ Request("ingest")
    /\ db' = Purged
    /\ UNCHANGED latest

-----------------------------------------------------------------------------
(* An update of a plan, under a new label *)

Frozen(p)  == {b \in RowsOf(db, p) : b.status \in Started}

(* Mutant: the rows that were started alone.                               *)
StartedAlone(p) == Frozen(p)

(* What is carried over: all rows of an order of which one was started.    *)
Related(p) == {b \in RowsOf(db, p) : b \in Frozen(p) \/ <<b.order, b.line>> \in Keys(Frozen(p))}

FrozenStock(p) == {b.wip : b \in {x \in Frozen(p) : x.wip # Nothing}}

(* Mutant: the rows are taken over, not copied.                            *)
CopiedAway(p, run) ==
    [db EXCEPT !.rows  = {IF b \in Related(p) THEN [b EXCEPT !.run = run] ELSE b : b \in @},
               !.tasks = {IF \E b \in Related(p) : b.id = t.batch THEN [t EXCEPT !.run = run] ELSE t : t \in @}]

(* Mutant: the tasks stay behind.                                          *)
CopiedBare(p, run) ==
    LET R       == Related(p)
        new(id) == db.nextRow + Cardinality({b \in R : b.id < id})
        B       == {[b EXCEPT !.id = new(b.id), !.run = run] : b \in R}
    IN  Expected([db EXCEPT !.rows = @ \cup B, !.nextRow = @ + Cardinality(B)], B)

(* The rows are copied, with their tasks; a header that is copied with a   *)
(* surplus is expected to leave it over once more.                         *)
Copied(p, run) ==
    LET R       == Related(p)
        new(id) == db.nextRow + Cardinality({b \in R : b.id < id})
        B       == {[b EXCEPT !.id = new(b.id), !.run = run] : b \in R}
        T       == {[run |-> run, batch |-> new(t.batch)] :
                       t \in {x \in db.tasks : x.run = p /\ \E b \in R : b.id = x.batch}}
    IN  Expected([db EXCEPT !.rows = @ \cup B, !.tasks = @ \cup T, !.nextRow = @ + Cardinality(B)], B)

(* The other orders of the run and its stock get the new label.            *)
Forward(d, p, run) ==
    [d EXCEPT !.sales = {IF s.run = p /\ Key(s) \notin Keys(Frozen(p)) THEN [s EXCEPT !.run = run] ELSE s : s \in @},
              !.stock = {IF w.run = p /\ w.id \notin FrozenStock(p) THEN [w EXCEPT !.run = run] ELSE w : w \in @}]

(* A full update first deletes the orders that have the new label.         *)
Remaining(d, run, mode) == IF mode = "full" THEN [d EXCEPT !.sales = {s \in @ : s.run # run}] ELSE d

(* A survey takes the place of all stock of the new label.                 *)
Cleared(d, run, survey) ==
    LET gone == {w.id : w \in {x \in d.stock : x.run = run}} IN
    IF survey = Nothing THEN d
    ELSE [d EXCEPT !.rows  = {IF b.wip \in gone THEN [b EXCEPT !.wip = Nothing] ELSE b : b \in @},
                   !.sales = {IF s.wip \in gone THEN [s EXCEPT !.wip = Nothing, !.use = Nothing] ELSE s : s \in @},
                   !.stock = {w \in @ : w.run # run}]

(* The plans that come of an update: none where the database refuses.      *)
Updated(mode, p, run, file, survey, late, matching) ==
    UNION {LET sales == Parsed(d, run, file) IN
           IF Clash(d, sales) THEN {}
           ELSE UNION {UNION {AutoSplit(e, run, late) :
                          e \in CreateBatches(m, run, {s \in m.sales : s.run = run /\ Key(s) \notin Keys(Frozen(p))})} :
                       m \in {Matched(Surveyed(Cleared([d EXCEPT !.sales = @ \cup sales], run, survey), run, survey),
                                      run, FrozenStock(p), matching)}} :
           d \in {Remaining(Forward(Copied(p, run), p, run), run, mode)}}

(* What a full update reports, by order: orders of the parent that are no  *)
(* longer there, those that are new, and those that stay as they were      *)
(* started.  d is the state before it, e that after it.                    *)
DiffSummary(d, e, p, run) ==
    LET frozen == {k[1] : k \in Keys({b \in RowsOf(d, p) : b.status \in Started})}
        pre    == {s.order : s \in {x \in d.sales : x.run = p}}
        post   == {s.order : s \in {x \in e.sales : x.run = run}} \cup frozen
    IN  [added            |-> post \ pre,
         updated          |-> (pre \cap post) \ frozen,
         deleted          |-> pre \ post,
         preserved_frozen |-> pre \cap post \cap frozen]

Accepted(mode, p) == mode = "incremental" => RowsOf(db, p) # {}

Update(mode, p, file, survey, late, matching) ==
    /\ Accepted(mode, p)
    /\ Asked("update", [mode |-> mode, parent |-> p])
    /\ db' \in Updated(mode, p, latest + 1, file, survey, late, matching)
    /\ latest' = latest + 1

UpdateRefused(mode, p, file, survey, late, matching) ==
    /\ Request("update")
    /\ Accepted(mode, p) => Updated(mode, p, latest + 1, file, survey, late, matching) = {}
    /\ UNCHANGED <<db, latest>>

-----------------------------------------------------------------------------
(* Work on the plan *)

WithStatus(d, ids, status) ==
    Promote([d EXCEPT !.rows = {IF b.id \in ids THEN [b EXCEPT !.status = status] ELSE b : b \in @}], ids, status)

(* One batch, and a header of its group: the group of whichever run.       *)
UpdateBatchStatus(b, status) ==
    LET H == {h \in db.rows : h.group = b.group /\ h.seq = -1} IN
    /\ Request("status")
    /\ IF H = {} THEN db' = WithStatus(db, {b.id}, status)
       ELSE \E h \in H : db' = WithStatus(db, {b.id, h.id}, status)
    /\ UNCHANGED latest

UpdateBatch(b, status) ==
    /\ Request("status")
    /\ db' = WithStatus(db, {b.id}, status)
    /\ UNCHANGED latest

(* All batches of the group, in all runs.                                  *)
UpdateBatchGroupStatus(g, status) ==
    /\ Request("status")
    /\ db' = WithStatus(db, {b.id : b \in {x \in db.rows : x.group = g}}, status)
    /\ UNCHANGED latest

(* Stage 2 on a run: the tasks of what is not started go, what stock       *)
(* covers is done, and the rest of each group gets one task, that of its   *)
(* header if it has one.                                                   *)
Planned(run) ==
    {b \in RowsOf(db, run) :
       b.status = "planned" \/ (b.status = "scheduled" /\ \E t \in db.tasks : t.run = run)}

InStock(b) == \E w \in db.stock : w.id = b.wip /\ b.proc \in Covers[w.kind[1]]

Rep(B) == Min({b.id : b \in IF \E h \in B : h.seq = -1 THEN {h \in B : h.seq = -1} ELSE B})

Stage2(run) ==
    LET done  == {b \in Planned(run) : InStock(b)}
        todo  == Planned(run) \ done
        group(b) == IF b.group = Nothing THEN {b} ELSE {c \in todo : c.group = b.group}
        kept  == {t \in db.tasks : t.run # run \/ \E b \in RowsOf(db, run) : b.id = t.batch /\ b.status \in Started}
        now(b) == IF b \in done THEN [b EXCEPT !.status = "wip_complete"]
                  ELSE IF b \in todo THEN [b EXCEPT !.status = "scheduled"] ELSE b
    IN  /\ Planned(run) # {}
        /\ Request("stage2")
        /\ db' = [db EXCEPT !.rows = {now(b) : b \in @},
                            !.tasks = kept \cup {[run |-> run, batch |-> Rep(group(b))] : b \in todo}]
        /\ UNCHANGED latest

(* Mutant: only the references within the run are cleared.                 *)
DeleteRunAlone(run) ==
    /\ db' = [db EXCEPT !.sales = {x \in @ : x.run # run}, !.rows = {x \in @ : x.run # run},
                        !.tasks = {t \in @ : t.run # run}, !.stock = {x \in @ : x.run # run}]
    /\ Request("delete")
    /\ UNCHANGED latest

(* All that has the label goes.  What refers to it from other runs is      *)
(* cleared first, and then all used stock of the other runs is made free:  *)
(* also where nothing has the label, which is reported afterwards.         *)
DeleteRun(run) ==
    LET stock == {w.id : w \in {x \in db.stock : x.run = run}}
        rows  == {b.id : b \in RowsOf(db, run)}
        free(w) == IF w.status = "used" /\ w.matched # Nothing
                   THEN [w EXCEPT !.status = "free", !.matched = Nothing] ELSE w
        loose(w) == IF w.source \in rows THEN [w EXCEPT !.source = Nothing] ELSE w
        off(x) == IF x.wip \in stock THEN [x EXCEPT !.wip = Nothing] ELSE x
    IN  /\ Request("delete")
        /\ db' = [db EXCEPT !.sales = {off(s) : s \in {x \in @ : x.run # run}},
                            !.rows  = {off(b) : b \in {x \in @ : x.run # run}},
                            !.tasks = {t \in @ : t.run # run},
                            !.stock = {free(loose(w)) : w \in {x \in @ : x.run # run}}]
        /\ UNCHANGED latest

(* Stock is measured.                                                      *)
UpdateWipActual(w, len) ==
    LET before == IF w.expected > 0 THEN w.expected ELSE w.len IN
    /\ Request("measure")
    /\ db' = [db EXCEPT !.stock = (@ \ {w}) \cup {[w EXCEPT !.len = len, !.variance = len - before, !.status = "actual"]}]
    /\ UNCHANGED latest

(* A header without a group for each row of stock that a survey has found  *)
(* short: as often as it is asked for.                                     *)
CreateShortageBatches(run) ==
    LET short == {w \in db.stock : w.run = run /\ w.variance < 0 /\ w.status = "counted"}
        sq(w) == w.kind[2]
        new(w) == [id |-> w.id, run |-> run, order |-> 0, line |-> 0, seq |-> -1, proc |-> Strand, group |-> Nothing,
                   sq |-> sq(w), status |-> "planned", wip |-> Nothing, lots |-> Lots(-w.variance, sq(w)),
                   surplus |-> Surplus(-w.variance, sq(w)), due |-> 0]
    IN  /\ short # {}
        /\ Request("shortage")
        /\ db' = Insert(db, {new(w) : w \in short})
        /\ UNCHANGED latest

-----------------------------------------------------------------------------
(* Two runs compared *)

(* What a row is called in every run; its id is another one in each.       *)
StableKey(b) ==
    <<IF b.order # 0 THEN <<"order", b.order>>
      ELSE IF b.group # Nothing THEN <<"group", b.group>> ELSE <<"UNK", b.id>>,
      b.line, b.proc, b.seq>>

(* compare_runs.  Where a task lies is left out: of a row that both runs   *)
(* have, moved says that one of them alone has placed it.                  *)
Compared(d, before, after) ==
    LET keys(run)   == {StableKey(b) : b \in RowsOf(d, run)}
        placed(run) == {StableKey(b) : b \in {x \in RowsOf(d, run) : [run |-> run, batch |-> x.id] \in d.tasks}}
    IN  [added   |-> keys(after) \ keys(before),
         removed |-> keys(before) \ keys(after),
         moved   |-> {k \in keys(before) \cap keys(after) : (k \in placed(before)) # (k \in placed(after))}]

-----------------------------------------------------------------------------
Next ==
    \/ \E survey \in Surveys :
          \/ \E file \in Files, window \in Windows, late \in SUBSET Late["ingest"], matching \in Matching["ingest"] :
                Ingest(file, survey, window, late, matching)
          \/ \E mode \in {"incremental", "full"}, p \in Runs, file \in Files, late \in SUBSET Late["update"],
             matching \in Matching["update"] :
                Update(mode, p, file, survey, late, matching) \/ UpdateRefused(mode, p, file, survey, late, matching)
    \/ IngestRefused
    \/ \E status \in NewStatuses :
          \/ \E b \in db.rows : UpdateBatchStatus(b, status) \/ UpdateBatch(b, status)
          \/ \E g \in {b.group : b \in db.rows} \ {Nothing} : UpdateBatchGroupStatus(g, status)
    \/ \E run \in Runs : Stage2(run) \/ DeleteRun(run) \/ CreateShortageBatches(run)
    \/ \E w \in db.stock, len \in Lengths : UpdateWipActual(w, len)

Spec == Init /\ [][Next]_vars

-----------------------------------------------------------------------------
(* Properties *)

SaleRows  == [order : Order, line : Nat, run : Nat, use : Stages \cup {Nothing}, wip : Nat \cup {Nothing}]
BatchRows ==
    [id : Nat, run : Nat, order : Order \cup {0}, line : Nat, seq : {-1} \cup Nat, proc : Nat,
     group : (Nat \X Range(SqOf) \X Nat) \cup {Nothing}, sq : Range(SqOf),
     status : {"planned", "scheduled"} \cup Started, wip : Nat \cup {Nothing}, lots : Nat, surplus : Nat, due : Nat]
StockRows ==
    [id : Nat, kind : Kinds, run : Nat, len : Nat, status : Statuses, source : Nat \cup {Nothing}, expected : Nat,
     variance : Int, matched : (Order \X Nat) \cup {Nothing}]

TypeOK ==
    /\ db.sales \subseteq SaleRows
    /\ db.rows \subseteq BatchRows
    /\ db.tasks \subseteq [run : Nat, batch : Nat]
    /\ db.stock \subseteq StockRows
    /\ \A b, c \in db.rows : b.id = c.id => b = c
    /\ \A v, w \in db.stock : v.id = w.id => v = w
    /\ \A s, t \in db.sales : Key(s) = Key(t) => s = t
    /\ latest \in Nat

(* Whatever is deleted, updated and surveyed, no row refers to one that is *)
(* gone: the tables that refer to each other are cleared in an order in    *)
(* which no foreign key is left (delete_run, stage1/update, _purge_run_data*)
(* each have their own).                                                   *)
ReferencesHold ==
    LET ids == {w.id : w \in db.stock} IN
    /\ \A t \in db.tasks : \E b \in RowsOf(db, t.run) : b.id = t.batch
    /\ \A w \in db.stock : w.source = Nothing \/ \E b \in db.rows : b.id = w.source
    /\ \A x \in db.rows \cup db.sales : x.wip = Nothing \/ x.wip \in ids

IsUpdate == made'["update"] # made["update"] /\ last' # NoUpdate

(* One row of an order in two runs: a split may have moved the second one. *)
Same(b, c) ==
    /\ b.order = c.order /\ b.line = c.line /\ b.seq = c.seq /\ b.proc = c.proc
    /\ c.group = b.group \/ (b.group # Nothing /\ c.group = HalfOf(b.group))

(* Work that was started is in the new plan, once, as it was: with its     *)
(* status and, if it had one, with its task; in its group, or in the half  *)
(* that is split off it.  Headers may be merged.                           *)
StartedWorkIsKept ==
    [][IsUpdate =>
         \A b \in Frozen(last'.parent) :
            b.seq >= 0 =>
              LET C == {c \in RowsOf(db', latest') : Same(b, c)} IN
              /\ Cardinality(C) = 1
              /\ \A c \in C : /\ c.status = b.status
                              /\ (\E t \in db.tasks : t.batch = b.id) => \E t \in db'.tasks : t.batch = c.id]_vars

(* An update that adds orders loses none: each process that an order had   *)
(* in the plan it has in the new one too, unless stock has taken its       *)
(* place; and of a full update, which may drop orders, the report names    *)
(* every order that is gone.  That is so where the order was started in    *)
(* this very plan or is still listed with it; one that was started in an   *)
(* older plan and put back since is neither, and is lost.                  *)
OrdersAreKept ==
    [][IsUpdate =>
         \A b \in OrderRows(db, last'.parent) :
            (\/ <<b.order, b.line>> \in Keys(Frozen(last'.parent))
             \/ \E s \in db.sales : Key(s) = <<b.order, b.line>> /\ s.run = last'.parent)
            => IF last'.mode = "incremental"
               THEN \/ \E c \in RowsOf(db', latest') : c.order = b.order /\ c.line = b.line /\ c.proc = b.proc
                    \/ \E s \in db'.sales : Key(s) = <<b.order, b.line>> /\ b.proc \in Covered(db', s)
               ELSE \/ \E c \in RowsOf(db', latest') : c.order = b.order
                    \/ \E s \in db'.sales : s.order = b.order /\ b.proc \in Covered(db', s)
                    \/ b.order \in DiffSummary(db, db', last'.parent, latest').deleted]_vars

(* A row that stays, but for its stock, and a header that is counted anew. *)
Unchanged(b, c) == c = [b EXCEPT !.wip = c.wip]
Recounted(b, c) == c = [b EXCEPT !.wip = c.wip, !.lots = c.lots, !.surplus = c.surplus, !.due = c.due]

Populated(d, run, g) == \E b \in OrderRows(d, run) : b.group = g

(* What compare_runs says of rows that are not headers.                    *)
OfOrders(diff) ==
    LET rows(K) == {k \in K : k[4] # -1}
    IN  [added |-> rows(diff.added), removed |-> rows(diff.removed), moved |-> rows(diff.moved)]

(* Plans can be compared: an update changes no row of an order and no task *)
(* of an older plan, but for the stock that rows are on, and the comparison*)
(* of two older plans says the same of all orders before and after it.     *)
(* Headers are not safe, for a split looks groups up by name in all runs,  *)
(* yet no header of an older plan changes but in work and due date, and    *)
(* none is added to it, unless the new plan has rows in the half of that   *)
(* name.                                                                   *)
RunsStayAsTheyWere ==
    [][IsUpdate =>
         /\ \A b \in db.rows : \E c \in db'.rows :
               \/ Unchanged(b, c)
               \/ b.seq = -1 /\ b.group # Nothing /\ Recounted(b, c) /\ Populated(db', latest', HalfOf(b.group))
         /\ \A c \in {x \in db'.rows : x.run # latest'} :
               IF c.seq = -1 THEN (\E b \in db.rows : b.id = c.id) \/ Populated(db', latest', c.group)
               ELSE \E b \in db.rows : Unchanged(b, c)
         /\ db.tasks \subseteq db'.tasks
         /\ \A p, q \in Runs : p < q => OfOrders(Compared(db', p, q)) = OfOrders(Compared(db, p, q))]_vars

(* Stock is promised once: an order never gets a drum that an order of     *)
(* this or an older plan was on before.  It is so as long as no run is     *)
(* deleted, which makes used stock free (match_wip does not look at runs). *)
OnStock(d) == {<<Key(s), s.wip>> : s \in {x \in d.sales : x.wip # Nothing}}

StockIsPromisedOnce ==
    [][made'["delete"] = 0 /\ made'["ingest"] = made["ingest"] =>
         \A p \in OnStock(db') \ OnStock(db), q \in OnStock(db) : p[2] # q[2]]_vars

-----------------------------------------------------------------------------
(* What the source says, and what does not hold *)

(* Older runs stay exactly as they are (plan_pipeline_stage1.py:109).      *)
Bare(d) == {[b EXCEPT !.wip = Nothing] : b \in d.rows}

RunsStayUntouched ==
    [][IsUpdate =>
         /\ Bare(db) \subseteq Bare(db') /\ db.tasks \subseteq db'.tasks
         /\ \A p, q \in Runs : p < q => Compared(db', p, q) = Compared(db, p, q)]_vars

(* An order is in a plan once (plan_pipeline_stage1.py:113).               *)
MadeOnce ==
    \A b, c \in db.rows :
       b.run = c.run /\ b.order = c.order /\ b.proc = c.proc /\ b.seq = c.seq /\ b.seq >= 1 => b = c

=============================================================================
