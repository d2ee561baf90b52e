--------------------------- MODULE ConstraintStore --------------------------
(***************************************************************************)
(* The constraints and their parameters (routes/constraints.py): edits     *)
(* that are merged into a row and leave a row of history, baselines, which *)
(* are rows of history under a common name, the return to one of them, and *)
(* the runs of the solver that read the parameters when they begin.        *)
(*                                                                         *)
(* Every request is a transaction of its own, in which each query sees     *)
(* what is committed by then; what it writes is sent when it commits.      *)
(* Parameters are functions on some of the keys: a key may be missing.     *)
(***************************************************************************)
EXTENDS Naturals, FiniteSets

CONSTANTS
    Constraint,      \* the rows of constraint_config
    Seed,            \* their params_json at the beginning
    Patches,         \* bodies of PATCH: cid, params and is_enabled
    Tag,             \* tags of baselines
    Session,         \* requests that may be under way at the same time
    Second,          \* stamps that one second holds
    MaxStamps,       \* bound on the stamps of a behaviour
    Nobody,          \* changed_by of an edit
    Nothing          \* no value

ASSUME StoreAssumption ==
    /\ Second \in Nat \ {0} /\ MaxStamps \in Nat
    /\ \A p \in Patches : p.cid \in Constraint
    /\ \A p \in Patches : \A k \in DOMAIN p.params : p.params[k] # Nothing
    /\ \A c \in Constraint : \A k \in DOMAIN Seed[c] : Seed[c][k] # Nothing
    /\ Seed = [c \in Constraint |-> Seed[c]]
    /\ Nobody \notin Tag \X Nat

VARIABLES
    config,          \* constraint_config: params_json, is_enabled, updated_at
    history,         \* constraint_config_history
    runs,            \* solver_run and solver_decision, with what the run read
    scheduled,       \* created_at of the latest schedule_task, 0 without any
    clock,           \* stamps given so far
    request,         \* what each session is doing
    moments          \* what the params_json of the whole table have been

vars == <<config, history, runs, scheduled, clock, request, moments>>

(* The keys of p over those of q.                                          *)
Over(q, p) == [k \in DOMAIN q \cup DOMAIN p |-> IF k \in DOMAIN p THEN p[k] ELSE q[k]]

(* Mutant: what a body says replaces the whole row.                        *)
Assigned(params, body) == IF DOMAIN body = {} THEN params ELSE body

(* {**old_params, **patch}                                                 *)
Merged(params, body) == Over(params, body)

Idle == [op |-> "idle"]

Params(table) == [c \in Constraint |-> table[c].params]

Enabled(table) == {c \in Constraint : table[c].enabled}

Max2(m, n) == IF m > n THEN m ELSE n

(* _active_solver_run_exists: but a row is written when a run is over.     *)
ActiveSolverRun == \E r \in runs : r.finished_at = Nothing

(* BASELINE_<tag>_<iso>: the time is cut off at the second.                *)
BaselineName(tag, at) == <<tag, at \div Second>>

Baselines == {h.by : h \in history} \ {Nobody}

Newer(h, g) == h.at > g.at \/ (h.at = g.at /\ h.id > g.id)

Newest(rows) == CHOOSE h \in rows : \A g \in rows \ {h} : Newer(h, g)

(* _latest_params_per_constraint                                           *)
LatestParams(by) ==
    LET rows == {h \in history : h.by = by}
    IN  [c \in {h.cid : h \in rows} |-> Newest({h \in rows : h.cid = c}).new]

Begin(s, r) ==
    /\ request[s] = Idle /\ clock < MaxStamps
    /\ request' = [request EXCEPT ![s] = r]

End(s) == request' = [request EXCEPT ![s] = Idle]

-----------------------------------------------------------------------------
(* PATCH: read the row, merge, commit *)

PatchRead(s) ==
    /\ \E p \in Patches : Begin(s, [op |-> "patch", body |-> p, read |-> config[p.cid]])
    /\ UNCHANGED <<config, history, runs, scheduled, clock, moments>>

(* A row after an update of what differs from what was read.               *)
Row(old, read, params, enabled, at) ==
    [params  |-> IF params = read.params THEN old.params ELSE params,
     enabled |-> IF enabled = read.enabled THEN old.enabled ELSE enabled,
     updated |-> IF params = read.params /\ enabled = read.enabled THEN old.updated ELSE at]

(* Mutant: only a key that is new is recorded.                             *)
RecordOfNewKeys(c, old, new, at) ==
    IF DOMAIN old = DOMAIN new THEN {}
    ELSE {[id |-> Cardinality(history) + 1, cid |-> c, by |-> Nobody, at |-> at, old |-> old, new |-> new]}

Record(c, old, new, at) ==
    IF old = new THEN {}
    ELSE {[id |-> Cardinality(history) + 1, cid |-> c, by |-> Nobody, at |-> at, old |-> old, new |-> new]}

PatchCommit(s) ==
    /\ request[s].op = "patch"
    /\ LET c       == request[s].body.cid
           read    == request[s].read
           params  == Merged(read.params, request[s].body.params)
           enabled == IF request[s].body.enabled = Nothing THEN read.enabled ELSE request[s].body.enabled
           at      == clock + 1
       IN  /\ config' = [config EXCEPT ![c] = Row(@, read, params, enabled, at)]
           /\ history' = history \cup Record(c, read.params, params, at)
           /\ clock' = at
    /\ moments' = moments \cup {Params(config')}
    /\ End(s)
    /\ UNCHANGED <<runs, scheduled>>

-----------------------------------------------------------------------------
(* promote-baseline: all rows at once, then the row before of each *)

Promote(s) ==
    /\ ~ActiveSolverRun
    /\ \E tag \in Tag :
          Begin(s, [op |-> "promote", by |-> BaselineName(tag, clock + 1), at |-> clock + 1,
                    read |-> Params(config), old |-> [c \in {} |-> {}]])
    /\ clock' = clock + 1
    /\ UNCHANGED <<config, history, runs, scheduled, moments>>

(* Mutant: the row is read when its turn comes.                            *)
LookUpAgain(s, c) ==
    LET before == {h \in history : h.by # Nobody /\ h.cid = c}
        old    == IF before = {} THEN Nothing ELSE Newest(before).new
    IN  request' = [request EXCEPT ![s].old = Over(@, [x \in {c} |-> old]), ![s].read[c] = config[c].params]

(* The row of the constraint in the baseline before.                       *)
LookUp(s, c) ==
    LET before == {h \in history : h.by # Nobody /\ h.cid = c}
        old    == IF before = {} THEN Nothing ELSE Newest(before).new
    IN  request' = [request EXCEPT ![s].old = Over(@, [x \in {c} |-> old])]

PromoteNext(s) ==
    /\ request[s].op = "promote"
    /\ \E c \in Constraint \ DOMAIN request[s].old : LookUp(s, c)
    /\ UNCHANGED <<config, history, runs, scheduled, clock, moments>>

PromoteCommit(s) ==
    /\ request[s].op = "promote" /\ DOMAIN request[s].old = Constraint
    /\ history' = history \cup
          {[id |-> Cardinality(history) + 1, cid |-> c, by |-> request[s].by, at |-> request[s].at,
            old |-> request[s].old[c], new |-> request[s].read[c]] : c \in Constraint}
    /\ End(s)
    /\ UNCHANGED <<config, runs, scheduled, clock, moments>>

-----------------------------------------------------------------------------
(* reset-to-baseline: the rows of the baseline, then each constraint *)

Reset(s) ==
    /\ ~ActiveSolverRun
    /\ \E by \in Baselines : Begin(s, [op |-> "reset", params |-> LatestParams(by), read |-> [c \in {} |-> {}]])
    /\ UNCHANGED <<config, history, runs, scheduled, clock, moments>>

ResetNext(s) ==
    /\ request[s].op = "reset"
    /\ \E c \in DOMAIN request[s].params \ DOMAIN request[s].read :
          request' = [request EXCEPT ![s].read = Over(@, [x \in {c} |-> config[c]])]
    /\ UNCHANGED <<config, history, runs, scheduled, clock, moments>>

(* Only the parameters are put back, and no history is written.            *)
ResetCommit(s) ==
    /\ request[s].op = "reset" /\ DOMAIN request[s].read = DOMAIN request[s].params
    /\ config' = [c \in Constraint |->
          IF c \notin DOMAIN request[s].params THEN config[c]
          ELSE Row(config[c], request[s].read[c], request[s].params[c], request[s].read[c].enabled, clock + 1)]
    /\ moments' = moments \cup {Params(config')}
    /\ clock' = clock + 1
    /\ End(s)
    /\ UNCHANGED <<history, runs, scheduled>>

-----------------------------------------------------------------------------
(* A run of the solver: ConstraintParams.load, then the weights of the     *)
(* model from load_active_constraints, and at its end the tasks and the    *)
(* trace, for which the constraints are read once more *)

SolveBegin(s) ==
    /\ Begin(s, [op |-> "solve", started_at |-> clock + 1, params |-> Params(config), specs |-> Nothing])
    /\ clock' = clock + 1
    /\ UNCHANGED <<config, history, runs, scheduled, moments>>

SolveWeights(s) ==
    /\ request[s].op = "solve" /\ request[s].specs = Nothing
    /\ request' = [request EXCEPT ![s].specs = [c \in Enabled(config) |-> config[c].params]]
    /\ UNCHANGED <<config, history, runs, scheduled, clock, moments>>

SolveEnd(s) ==
    /\ request[s].op = "solve" /\ request[s].specs # Nothing
    /\ runs' = runs \cup {[started_at |-> request[s].started_at, finished_at |-> clock + 1,
                           params |-> request[s].params, specs |-> request[s].specs, applied |-> Enabled(config)]}
    /\ scheduled' = Max2(scheduled, clock + 1)
    /\ clock' = clock + 1
    /\ End(s)
    /\ UNCHANGED <<config, history, moments>>

-----------------------------------------------------------------------------
Init ==
    /\ config = [c \in Constraint |-> [params |-> Seed[c], enabled |-> TRUE, updated |-> 0]]
    /\ history = {} /\ runs = {}
    /\ scheduled = 0 /\ clock = 0
    /\ request = [s \in Session |-> Idle]
    /\ moments = {Seed}

Next == \E s \in Session :
    \/ PatchRead(s) \/ PatchCommit(s)
    \/ Promote(s) \/ PromoteNext(s) \/ PromoteCommit(s)
    \/ Reset(s) \/ ResetNext(s) \/ ResetCommit(s)
    \/ SolveBegin(s) \/ SolveWeights(s) \/ SolveEnd(s)

Spec == Init /\ [][Next]_vars

-----------------------------------------------------------------------------
(* What the pages and the engines make of the tables *)

(* get_drift_status: an edit later than the last task that was made.       *)
Dirty == scheduled = 0 \/ \E c \in Constraint : config[c].updated > scheduled

(* ConstraintParams.get, with Nothing where it raises or takes the default *)
(* (a setup of 0 minutes, in resolve_spec_setup_min).                      *)
Get(params, c, k) == IF c \in DOMAIN params /\ k \in DOMAIN params[c] THEN params[c][k] ELSE Nothing

(* diff_versions: the keys that two baselines differ in.                   *)
Diff(a, b) ==
    LET va == LatestParams(a)
        vb == LatestParams(b)
        keys == UNION {DOMAIN Seed[c] : c \in Constraint}
    IN  {d \in (DOMAIN va \cup DOMAIN vb) \X keys : Get(va, d[1], d[2]) # Get(vb, d[1], d[2])}

-----------------------------------------------------------------------------
(* Properties *)

(* No sequence of edits, baselines and returns, at the same time or one    *)
(* after the other, takes away a key that the seed has: every run finds a  *)
(* value for it, for else it would plan with no setup at all.              *)
RunsHaveTheirKeys ==
    \A r \in runs, c \in Constraint : \A k \in DOMAIN Seed[c] : Get(r.params, c, k) # Nothing

(* What is read as a baseline is what the whole table once was, although   *)
(* it is taken while others edit, and two of the same tag that were made   *)
(* in the same second have the same name.                                  *)
BaselineIsASnapshot == \A by \in Baselines : LatestParams(by) \in moments

(* Every value of the table is that of the seed or of a row of history:    *)
(* although a return to a baseline writes no history, and an edit may be   *)
(* lost to another that read the same row, nothing in force is unrecorded. *)
EveryValueIsOnRecord ==
    \A c \in Constraint : config[c].params \in {Seed[c]} \cup {h.new : h \in {x \in history : x.cid = c}}

(* The docstring of get_drift_status ("Silent drift"): a plan that is not  *)
(* reported as outdated was made from the parameters in force.  Violated   *)
(* by an edit during a run.                                                *)
NoSilentDrift ==
    ~Dirty => \E r \in runs : r.finished_at = scheduled /\ r.params = Params(config)

(* The comment on promote and reset (423): a run's parameters do not move  *)
(* while it solves.  Violated: edits are not locked out at all, and the    *)
(* lock looks for a row that is only written when the run is over.         *)
InputsStayPut ==
    \A r \in runs : \A c \in DOMAIN r.specs : r.specs[c] = r.params[c]

(* The comment of build_decision_inputs: the trace shows the constraints   *)
(* that the run had loaded.  Violated: it reads them when the run is over. *)
TraceShowsWhatWasSolved == \A r \in runs : r.applied = DOMAIN r.specs

(* The comment of update_constraint: keys that were not edited stay.       *)
(* Violated when two requests edit different keys of one row.              *)
OtherKeysStay ==
    [][\A s \in Session, c \in Constraint : \A k \in DOMAIN config[c].params :
          /\ request[s].op = "patch" /\ request'[s] = Idle
          /\ Get(Params(config'), c, k) # Get(Params(config), c, k)
          => request[s].body.cid = c /\ k \in DOMAIN request[s].body.params]_vars

=============================================================================
