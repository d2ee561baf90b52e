------------------------------ MODULE Reasons ------------------------------
(***************************************************************************)
(* Why a plan was changed by hand and what operators think of it: the      *)
(* reasons given to change sets (routes/change_sets.py), the flag they put *)
(* on the traces of the solver, the two screens that read the flag (the    *)
(* decision card and the chart), and the comments on decision cards        *)
(* (routes/decision_feedback.py).  One request at a time; the rows of a    *)
(* bulk request share a session that does not flush before it queries.     *)
(***************************************************************************)
EXTENDS Naturals, FiniteSets, Sequences, Functions

CONSTANTS
    Run,             \* run labels; a run has one batch, named like the run
    Allowed,         \* ALLOWED_REASONS
    Other,           \* a reason outside of the list
    Operator,
    Status,          \* open, investigating, fixed, wontfix
    Nothing,
    MaxTasks, MaxChanges, MaxTraces, MaxComments    \* bounds on ids

ASSUME ReasonsAssumption ==
    /\ Nothing \notin Nat \cup Allowed /\ "open" \in Status
    /\ MaxTasks \in Nat /\ MaxChanges \in Nat /\ MaxTraces \in Nat /\ MaxComments \in Nat

VARIABLES
    planned,         \* runs that have their batch
    tasks,           \* schedule_task: id -> run_label
    changes,         \* schedule_change_sets: id, in order of creation -> row
    traces,          \* solver_run with its decisions, in order of started_at
    comments,        \* decision_feedback: id -> row
    made             \* ids handed out so far, and what the modal last showed

vars == <<planned, tasks, changes, traces, comments, made>>

Ids(max) == 1 .. max
Without(f, gone) == Restrict(f, DOMAIN f \ gone)

ChangeSet == [tasks : SUBSET Ids(MaxTasks), override_reason : Allowed \cup {Nothing}, counted : BOOLEAN]
Trace == [run_label : Run, link : Ids(MaxChanges) \cup {Nothing}]
Comment == [run_label : Run, batch : Run, task : Ids(MaxTasks) \cup {Nothing}, by : Operator,
            status : Status, dev_notes : BOOLEAN]

Init ==
    /\ planned = Run
    /\ tasks = <<>> /\ changes = <<>> /\ traces = <<>> /\ comments = <<>>
    /\ made = [task |-> 0, change |-> 0, comment |-> 0, listed |-> {}]

-----------------------------------------------------------------------------
\* What the requests read.

\* The runs whose tasks, those that still exist, the change set names.
AffectedRuns(c) == {tasks[t] : t \in changes[c].tasks \cap DOMAIN tasks}

\* The badge counts and the modal lists the same rows.
Missing(since) == {c \in DOMAIN changes : changes[c].override_reason = Nothing /\ c >= since /\ changes[c].counted}

\* The trace that the decision card of a run's batch shows: the latest one.
Latest(r) == LET of == {i \in DOMAIN traces : traces[i].run_label = r}
             IN IF of = {} THEN Nothing ELSE CHOOSE i \in of : \A j \in of : j <= i
CardIsAdjusted(r) == r \in planned /\ Latest(r) # Nothing /\ traces[Latest(r)].link # Nothing

\* The tasks that the chart marks: those named by a change set some trace points at.
MarkedOnChart ==
    {t \in DOMAIN tasks : \E i \in DOMAIN traces : traces[i].link \in DOMAIN changes /\ t \in changes[traces[i].link].tasks}

-----------------------------------------------------------------------------
\* Plans and changes made by hand.

\* Stage 2 clears the tasks of the run and places it again.  A comment that
\* refers to one of the tasks makes the deletion, and with it the job, fail.
\* Only the CP-SAT engine leaves a trace.
Solve(r, traced) ==
    LET old == {t \in DOMAIN tasks : tasks[t] = r}
        new == made.task + 1
    IN  /\ r \in planned /\ new <= MaxTasks
        /\ traced => Len(traces) < MaxTraces
        /\ \A f \in DOMAIN comments : comments[f].task \notin old
        /\ tasks' = [t \in (DOMAIN tasks \ old) \cup {new} |-> IF t = new THEN r ELSE tasks[t]]
        /\ traces' = IF traced THEN Append(traces, [run_label |-> r, link |-> Nothing]) ELSE traces
        /\ made' = [made EXCEPT !.task = new]
        /\ UNCHANGED <<planned, changes, comments>>

\* A bulk update: counted says that it had a preview and a real operator.
Drag(moved, counted) ==
    LET new == made.change + 1
    IN  /\ moved # {} /\ new <= MaxChanges
        /\ changes' = [c \in DOMAIN changes \cup {new} |->
                          IF c = new THEN [tasks |-> moved, override_reason |-> Nothing, counted |-> counted]
                          ELSE changes[c]]
        /\ made' = [made EXCEPT !.change = new]
        /\ UNCHANGED <<planned, tasks, traces, comments>>

\* The traces when those with the given numbers get a new link.
Linked(ts, which, link) == [i \in DOMAIN ts |-> IF i \in which THEN [ts[i] EXCEPT !.link = link] ELSE ts[i]]

\* The traces of the runs of a change set, and those that point at it.
OfRuns(c) == {i \in DOMAIN traces : traces[i].run_label \in AffectedRuns(c)}
PointingAt(c) == {i \in DOMAIN traces : traces[i].link = c}

\* The undo deletes the newest change set; the foreign key clears the links.
Undo(c) ==
    /\ c \in DOMAIN changes /\ \A d \in DOMAIN changes : d <= c
    /\ changes' = Without(changes, {c})
    /\ traces' = Linked(traces, PointingAt(c), Nothing)
    /\ UNCHANGED <<planned, tasks, comments, made>>

-----------------------------------------------------------------------------
\* Reasons.

Valid(row) == row.reason \in Allowed \cup {Nothing} /\ row.id \in DOMAIN changes

\* Two mistakes, for the mutants: the clear path takes the flags of the whole
\* run, or none.
ClearWholeRun(s, row) ==
    [changes |-> [s.changes EXCEPT ![row.id].override_reason = row.reason],
     traces  |-> IF row.reason # Nothing
                 THEN Linked(s.traces, OfRuns(row.id), row.id)
                 ELSE Linked(s.traces, PointingAt(row.id) \cup OfRuns(row.id), Nothing)]

ClearNoFlag(s, row) ==
    [changes |-> [s.changes EXCEPT ![row.id].override_reason = row.reason],
     traces  |-> IF row.reason # Nothing
                 THEN Linked(s.traces, OfRuns(row.id), row.id)
                 ELSE s.traces]

\* One row of a request.  s is the session: the rows as they will be written;
\* the rows that point at the change set are looked up in the database, which
\* has not seen the earlier rows of the request.
ApplyReason(s, row) ==
    [changes |-> [s.changes EXCEPT ![row.id].override_reason = row.reason],
     traces  |-> IF row.reason # Nothing
                 THEN Linked(s.traces, OfRuns(row.id), row.id)
                 ELSE Linked(s.traces, PointingAt(row.id), Nothing)]

\* A row that fails is reported, and the others go on.
Apply(s, row) == IF Valid(row) THEN ApplyReason(s, row) ELSE s
Stored == [changes |-> changes, traces |-> traces]
Session(rows) == Apply(Apply(Stored, rows[1]), rows[2])

Commit(s) ==
    /\ changes' = s.changes /\ traces' = s.traces
    /\ UNCHANGED <<planned, tasks, comments>>

PatchReason(row) == Valid(row) /\ Commit(ApplyReason(Stored, row)) /\ UNCHANGED made

OpenModal(since) ==
    /\ made.listed # Missing(since)
    /\ made' = [made EXCEPT !.listed = Missing(since)]
    /\ UNCHANGED <<planned, tasks, changes, traces, comments>>

\* The rows are committed together.  The modal sends one row for each change
\* set that it listed, which others may have reasoned or undone meanwhile.
BulkReason(rows) ==
    /\ Commit(Session(rows))
    /\ made' = [made EXCEPT !.listed = {}]

-----------------------------------------------------------------------------
\* Comments on decision cards.

\* A new comment is open, and nobody has taken a note of it.
Opened(body) == [run_label |-> body.run_label, batch |-> body.batch, task |-> body.task, by |-> body.by,
                 status |-> "open", dev_notes |-> FALSE]

CreateForAnyRun(body) ==
    LET new == made.comment + 1
    IN  /\ body.batch \in planned
        /\ body.task = Nothing \/ body.task \in DOMAIN tasks
        /\ new <= MaxComments
        /\ comments' = [f \in DOMAIN comments \cup {new} |->
                           IF f = new THEN Opened(body) ELSE comments[f]]
        /\ made' = [made EXCEPT !.comment = new]
        /\ UNCHANGED <<planned, tasks, changes, traces>>

Create(body) ==
    LET new == made.comment + 1
    IN  /\ body.batch \in planned /\ body.run_label = body.batch
        /\ body.task = Nothing \/ body.task \in DOMAIN tasks
        /\ new <= MaxComments
        /\ comments' = [f \in DOMAIN comments \cup {new} |->
                           IF f = new THEN Opened(body) ELSE comments[f]]
        /\ made' = [made EXCEPT !.comment = new]
        /\ UNCHANGED <<planned, tasks, changes, traces>>

\* PATCH of one comment: what is left out stays.  Empty notes are notes.
Answer(f, status, notes) ==
    /\ f \in DOMAIN comments
    /\ status = "wontfix" => (IF notes = Nothing THEN comments[f].dev_notes ELSE notes)
    /\ comments' = [comments EXCEPT ![f].status = IF status = Nothing THEN @ ELSE status,
                                    ![f].dev_notes = IF notes = Nothing THEN @ ELSE notes]
    /\ UNCHANGED <<planned, tasks, changes, traces, made>>

\* PATCH of many: one answer for all that exist, and notes for each wontfix.
AnswerAll(ids, status, notes) ==
    /\ ids \cap DOMAIN comments # {}
    /\ status = "wontfix" => notes = TRUE
    /\ comments' = [f \in DOMAIN comments |->
                       IF f \notin ids THEN comments[f]
                       ELSE [comments[f] EXCEPT !.status = status,
                                                !.dev_notes = IF notes = Nothing THEN @ ELSE notes]]
    /\ UNCHANGED <<planned, tasks, changes, traces, made>>

\* DELETE of a run: its comments go first, as they refer to its tasks and its
\* batch; a comment of another run on one of these makes the request fail.  The
\* traces of the solver stay.
DeleteRun(r) ==
    LET own == {f \in DOMAIN comments : comments[f].run_label = r}
        old == {t \in DOMAIN tasks : tasks[t] = r}
    IN  /\ r \in planned
        /\ \A f \in DOMAIN comments \ own : comments[f].batch # r /\ comments[f].task \notin old
        /\ planned' = planned \ {r}
        /\ tasks' = Without(tasks, old)
        /\ comments' = Without(comments, own)
        /\ UNCHANGED <<changes, traces, made>>

-----------------------------------------------------------------------------
\* Bodies of requests.

Rows == [id : Ids(MaxChanges), reason : Allowed \cup {Nothing, Other}]

\* The modal has one row for each change set, with a reason or without.
Bodies == {rows \in Rows \X Rows : rows[1].id # rows[2].id /\ rows[1].id \in made.listed /\ rows[2].id \in made.listed}
CommentBodies ==
    {body \in [run_label : Run, batch : Run, task : DOMAIN tasks \cup {Nothing}, by : Operator] :
        body.task # Nothing => tasks[body.task] = body.batch}

Next ==
    \/ \E r \in Run, traced \in BOOLEAN : Solve(r, traced)
    \/ \E moved \in SUBSET DOMAIN tasks, counted \in BOOLEAN : Drag(moved, counted)
    \/ \E c \in DOMAIN changes : Undo(c)
    \/ \E row \in Rows : PatchReason(row)
    \/ \E since \in Ids(MaxChanges) : OpenModal(since)
    \/ \E rows \in Bodies : BulkReason(rows)
    \/ \E body \in CommentBodies : Create(body)
    \/ \E f \in DOMAIN comments, status \in Status \cup {Nothing},
         notes \in BOOLEAN \cup {Nothing} : Answer(f, status, notes)
    \/ \E ids \in SUBSET Ids(MaxComments), status \in Status \ {"open"},
         notes \in BOOLEAN \cup {Nothing} : AnswerAll(ids, status, notes)
    \/ \E r \in Run : DeleteRun(r)

Spec == Init /\ [][Next]_vars

-----------------------------------------------------------------------------
\* The shapes of the rows, and the foreign keys between them.
TypeOK ==
    /\ planned \subseteq Run /\ DOMAIN tasks \subseteq Ids(made.task) /\ Range(tasks) \subseteq planned
    /\ \A c \in DOMAIN changes : changes[c] \in ChangeSet
    /\ \A i \in DOMAIN traces : traces[i] \in Trace
    /\ \A f \in DOMAIN comments : comments[f] \in Comment

\* What the screens say of a manual change is true: a trace is flagged, the
\* card of a batch is shown as adjusted, and a task is marked on the chart,
\* only for a change set that still exists and that has a reason
\* (_apply_reason_to_change_set, _manual_override_block, list_schedules).
Reasoned(c) == c \in DOMAIN changes /\ changes[c].override_reason # Nothing
FlagsHaveReasons ==
    /\ \A i \in DOMAIN traces : traces[i].link # Nothing => Reasoned(traces[i].link)
    /\ \A r \in Run : CardIsAdjusted(r) => \E c \in DOMAIN changes : Reasoned(c) /\ traces[Latest(r)].link = c
    /\ \A t \in MarkedOnChart : \E c \in DOMAIN changes : Reasoned(c) /\ t \in changes[c].tasks

\* A flag is taken from a trace only together with the reason it stands for,
\* or with the change set (the clear path, the undo); never by a request about
\* another change set, by a deletion or by a new plan.
FlagsGoOffWithTheReason ==
    [][\A i \in DOMAIN traces, c \in DOMAIN changes :
          traces[i].link = c /\ traces'[i].link = Nothing => ~Reasoned(c)']_vars

\* A run can be deleted at any time: no comment of another run refers to its
\* batch or to one of its tasks (plan_pipeline_runs.py deletes the comments by
\* their run_label and relies on it).
RunsCanBeDeleted ==
    \A f \in DOMAIN comments :
       /\ comments[f].batch = comments[f].run_label
       /\ comments[f].task # Nothing => tasks[comments[f].task] = comments[f].run_label

\* Not kept by the code, see the README: an empty note replaces the note of a
\* comment that was answered with wontfix.
WontfixIsExplained == \A f \in DOMAIN comments : comments[f].status = "wontfix" => comments[f].dev_notes

\* Not kept: the rows of a bulk request do what they would do one by one.
BulkEqualsOneByOne ==
    \A rows \in Bodies : Session(rows) = LET s == Apply(Stored, rows[1]) IN
       IF ~Valid(rows[2]) THEN s
       ELSE IF rows[2].reason # Nothing THEN ApplyReason(s, rows[2])
       ELSE [changes |-> [s.changes EXCEPT ![rows[2].id].override_reason = Nothing],
             traces  |-> Linked(s.traces, {i \in DOMAIN traces : s.traces[i].link = rows[2].id}, Nothing)]

\* Not kept: a plan whose cards were commented on can be placed again.
CommentedRunsCanBeSolved ==
    \A f \in DOMAIN comments : comments[f].task # Nothing => comments[f].task \notin DOMAIN tasks

=============================================================================
