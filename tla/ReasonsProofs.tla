--------------------------- MODULE ReasonsProofs ----------------------------
(***************************************************************************)
(* What the screens say of changes made by hand is true, and a run can be  *)
(* deleted: for any runs, reasons and operators, and any bounds.           *)
(*                                                                         *)
(* The hard step is the request that gives several reasons.  Its rows look *)
(* up the traces in a database that has not seen the rows before them, so  *)
(* the argument is about the session: InSession says what it may hold      *)
(* after the rows of the change sets in done, and one more row of another  *)
(* change set keeps it.                                                    *)
(***************************************************************************)
EXTENDS Reasons, WellFoundedInduction, TLAPS

Counters == [task : 0 .. MaxTasks, change : 0 .. MaxChanges, comment : 0 .. MaxComments, listed : SUBSET Nat]

(* The rows, with the ids that are handed out.                             *)
RowsAreSound ==
    /\ planned \subseteq Run /\ made \in Counters
    /\ tasks = [t \in DOMAIN tasks |-> tasks[t]] /\ DOMAIN tasks \subseteq Ids(made.task)
    /\ \A t \in DOMAIN tasks : tasks[t] \in planned
    /\ changes = [c \in DOMAIN changes |-> changes[c]] /\ DOMAIN changes \subseteq Ids(made.change)
    /\ \A c \in DOMAIN changes : changes[c] \in ChangeSet
    /\ traces \in Seq(Trace)
    /\ comments = [f \in DOMAIN comments |-> comments[f]]
    /\ \A f \in DOMAIN comments : comments[f] \in Comment

(* Every flag stands for a change set with a reason.                       *)
LinksAreReasoned == \A i \in DOMAIN traces : traces[i].link # Nothing => Reasoned(traces[i].link)

(* Every comment is on the batch and on a task of its own run.             *)
CommentsAreOfTheirRun ==
    \A f \in DOMAIN comments :
       /\ comments[f].batch = comments[f].run_label
       /\ comments[f].task # Nothing =>
             comments[f].task \in DOMAIN tasks /\ tasks[comments[f].task] = comments[f].run_label

ReasonsInv == RowsAreSound /\ LinksAreReasoned /\ CommentsAreOfTheirRun

-----------------------------------------------------------------------------
(* Links *)

LEMMA LinkedTraces ==
    ASSUME NEW ts \in Seq(Trace), NEW which, NEW link \in Ids(MaxChanges) \cup {Nothing}
    PROVE  /\ Linked(ts, which, link) \in Seq(Trace)
           /\ DOMAIN Linked(ts, which, link) = DOMAIN ts
           /\ \A i \in DOMAIN ts : Linked(ts, which, link)[i].link = IF i \in which THEN link ELSE ts[i].link
  <1> DEFINE new == Linked(ts, which, link)
  <1>1. DOMAIN ts = 1 .. Len(ts) /\ Len(ts) \in Nat /\ \A i \in DOMAIN ts : ts[i] \in Trace
    OBVIOUS
  <1>2. new = [i \in 1 .. Len(ts) |-> IF i \in which THEN [ts[i] EXCEPT !.link = link] ELSE ts[i]]
    BY <1>1 DEF Linked
  <1>3. ASSUME NEW i \in DOMAIN ts
        PROVE  new[i] \in Trace /\ new[i].link = IF i \in which THEN link ELSE ts[i].link
    <2>1. ts[i] \in Trace
      BY <1>1
    <2>2. [ts[i] EXCEPT !.link = link] \in Trace /\ [ts[i] EXCEPT !.link = link].link = link
      BY <2>1 DEF Trace
    <2>3. QED
      BY <1>1, <1>2, <2>1, <2>2
  <1>4. QED
    BY <1>1, <1>2, <1>3

(* What the session may hold after the rows of the change sets in done.    *)
LinkInSession(s, i, done) ==
    /\ s.traces[i].link # Nothing =>
          s.traces[i].link \in DOMAIN changes /\ s.changes[s.traces[i].link].override_reason # Nothing
    /\ s.traces[i].link \in {traces[i].link, Nothing} \cup done
    /\ traces[i].link # Nothing /\ s.traces[i].link = Nothing =>
          traces[i].link \in done /\ s.changes[traces[i].link].override_reason = Nothing

InSession(s, done) ==
    /\ s.changes = [c \in DOMAIN changes |-> s.changes[c]]
    /\ \A c \in DOMAIN changes : s.changes[c] \in ChangeSet
    /\ s.traces \in Seq(Trace) /\ DOMAIN s.traces = DOMAIN traces
    /\ \A i \in DOMAIN traces : LinkInSession(s, i, done)

LEMMA StoredInSession == ReasonsInv => InSession(Stored, {})
  BY DEF ReasonsInv, RowsAreSound, LinksAreReasoned, Reasoned, InSession, LinkInSession, Stored

(* One more row of another change set.                                     *)
LEMMA RowInSession ==
    ASSUME ReasonsInv, NEW done, NEW s, InSession(s, done), NEW row \in Rows, Valid(row), row.id \notin done
    PROVE  InSession(ApplyReason(s, row), done \cup {row.id})
  <1> DEFINE next == ApplyReason(s, row)
             c    == row.id
  <1>1. /\ c \in DOMAIN changes /\ c \in Ids(MaxChanges) /\ c # Nothing
        /\ row.reason \in Allowed \cup {Nothing}
    BY ReasonsAssumption DEF Valid, Rows, Ids
  <1>2. /\ next.changes = [s.changes EXCEPT ![c].override_reason = row.reason]
        /\ next.traces = IF row.reason # Nothing THEN Linked(s.traces, OfRuns(c), c)
                         ELSE Linked(s.traces, PointingAt(c), Nothing)
    BY DEF ApplyReason
  <1>3. s.changes[c] \in ChangeSet
    BY <1>1 DEF InSession
  <1>4. /\ next.changes = [d \in DOMAIN changes |-> next.changes[d]]
        /\ \A d \in DOMAIN changes \ {c} : next.changes[d] = s.changes[d]
        /\ next.changes[c] = [s.changes[c] EXCEPT !.override_reason = row.reason]
    BY <1>1, <1>2 DEF InSession
  <1>5. next.changes[c] \in ChangeSet /\ next.changes[c].override_reason = row.reason
    BY <1>1, <1>3, <1>4 DEF ChangeSet
  <1>6. \A d \in DOMAIN changes : next.changes[d] \in ChangeSet
    BY <1>4, <1>5 DEF InSession
  <1>7. /\ s.traces \in Seq(Trace) /\ DOMAIN s.traces = DOMAIN traces
        /\ \A i \in DOMAIN traces : LinkInSession(s, i, done)
    BY DEF InSession
  <1> DEFINE set == row.reason # Nothing
             which == IF set THEN OfRuns(c) ELSE PointingAt(c)
             link == IF set THEN c ELSE Nothing
  <1>9. /\ next.traces \in Seq(Trace) /\ DOMAIN next.traces = DOMAIN traces
        /\ \A i \in DOMAIN traces : next.traces[i].link = IF i \in which THEN link ELSE s.traces[i].link
    <2>1. next.traces = Linked(s.traces, which, link)
      BY <1>2
    <2>2. link \in Ids(MaxChanges) \cup {Nothing}
      BY <1>1
    <2> HIDE DEF which, link, next
    <2>3. QED
      BY <1>7, <2>1, <2>2, LinkedTraces
  <1>10. ~set => \A i \in DOMAIN traces : i \in which <=> traces[i].link = c
    BY DEF PointingAt
  <1> HIDE DEF next, which
  <1>11. ASSUME NEW i \in DOMAIN traces
         PROVE  LinkInSession(next, i, done \cup {c})
    <2>1. LinkInSession(s, i, done)
      BY <1>7
    <2>2. next.traces[i].link = IF i \in which THEN link ELSE s.traces[i].link
      BY <1>9
    <2>3. CASE i \in which
      BY <1>1, <1>5, <1>10, <2>2, <2>3 DEF LinkInSession
    <2>4. CASE i \notin which
      <3>1. next.traces[i].link = s.traces[i].link
        BY <2>2, <2>4
      <3>2. s.traces[i].link = c => set
        BY <1>1, <1>10, <2>1, <2>4 DEF LinkInSession
      <3>3. traces[i].link # Nothing => traces[i].link \in DOMAIN changes
        BY DEF ReasonsInv, LinksAreReasoned, Reasoned
      <3>4. QED
        BY <1>4, <1>5, <2>1, <3>1, <3>2, <3>3 DEF LinkInSession
    <2>5. QED
      BY <2>3, <2>4
  <1>12. InSession(next, done \cup {c})
    BY <1>4, <1>6, <1>9, <1>11 DEF InSession
  <1>13. QED
    BY <1>12 DEF next
-----------------------------------------------------------------------------
(* The steps *)

LEMMA InitInv == Init => ReasonsInv
  <1> SUFFICES ASSUME Init PROVE ReasonsInv
    OBVIOUS
  <1>1. made \in Counters
    BY ReasonsAssumption DEF Init, Counters
  <1>2. QED
    BY <1>1 DEF Init, ReasonsInv, RowsAreSound, LinksAreReasoned, CommentsAreOfTheirRun, Ids

LEMMA SolveStep ==
    ASSUME ReasonsInv, NEW r \in Run, NEW traced \in BOOLEAN, Solve(r, traced)
    PROVE  ReasonsInv'
  <1> DEFINE old == {t \in DOMAIN tasks : tasks[t] = r}
             new == made.task + 1
  <1>1. /\ made.task \in Nat /\ new <= MaxTasks /\ new \notin DOMAIN tasks
        /\ DOMAIN tasks' = (DOMAIN tasks \ old) \cup {new}
        /\ \A t \in DOMAIN tasks \ old : tasks'[t] = tasks[t]
        /\ tasks'[new] = r /\ r \in planned
    BY DEF Solve, ReasonsInv, RowsAreSound, Counters, Ids
  <1>2. made' \in Counters /\ made'.task = new /\ made'.change = made.change
    <2>1. made' = [made EXCEPT !.task = new] /\ made \in Counters
      BY DEF Solve, ReasonsInv, RowsAreSound
    <2>2. new \in 0 .. MaxTasks
      BY <1>1, ReasonsAssumption
    <2> HIDE DEF new
    <2>3. QED
      BY <2>1, <2>2 DEF Counters
  <1>3. tasks' = [t \in DOMAIN tasks' |-> tasks'[t]]
    BY DEF Solve
  <1>4. DOMAIN tasks' \subseteq Ids(made'.task)
    BY <1>1, <1>2 DEF ReasonsInv, RowsAreSound, Ids
  <1>5. traces' \in Seq(Trace) /\ \A i \in DOMAIN traces' : traces'[i].link # Nothing => i \in DOMAIN traces /\ traces'[i] = traces[i]
    <2>1. traces \in Seq(Trace)
      BY DEF ReasonsInv, RowsAreSound
    <2>2. CASE traced
      <3> DEFINE e == [run_label |-> r, link |-> Nothing]
      <3>1. e \in Trace /\ e.link = Nothing
        BY DEF Trace
      <3>2. traces' = Append(traces, e)
        BY <2>2 DEF Solve
      <3> HIDE DEF e
      <3>3. QED
        BY <2>1, <3>1, <3>2
    <2>3. CASE ~traced
      BY <2>1, <2>3 DEF Solve
    <2>4. QED
      BY <2>2, <2>3
  <1>6. UNCHANGED <<planned, changes, comments>> /\ \A f \in DOMAIN comments : comments[f].task \notin old
    BY DEF Solve
  <1>7. RowsAreSound'
    BY <1>1, <1>2, <1>3, <1>4, <1>5, <1>6 DEF ReasonsInv, RowsAreSound
  <1>8. LinksAreReasoned'
    BY <1>5, <1>6 DEF ReasonsInv, LinksAreReasoned, Reasoned
  <1>9. CommentsAreOfTheirRun'
    BY <1>1, <1>6 DEF ReasonsInv, CommentsAreOfTheirRun
  <1>10. QED
    BY <1>7, <1>8, <1>9 DEF ReasonsInv

LEMMA DragStep ==
    ASSUME ReasonsInv, NEW moved \in SUBSET DOMAIN tasks, NEW counted \in BOOLEAN, Drag(moved, counted)
    PROVE  ReasonsInv'
  <1> DEFINE new == made.change + 1
             row == [tasks |-> moved, override_reason |-> Nothing, counted |-> counted]
  <1>1. /\ made.change \in Nat /\ new <= MaxChanges /\ new \notin DOMAIN changes
        /\ changes' = [c \in DOMAIN changes \cup {new} |-> IF c = new THEN row ELSE changes[c]]
        /\ UNCHANGED <<planned, tasks, traces, comments>>
    BY DEF Drag, ReasonsInv, RowsAreSound, Counters, Ids
  <1>2. made' \in Counters /\ made'.task = made.task /\ made'.change = new
    <2>1. made' = [made EXCEPT !.change = new] /\ made \in Counters
      BY DEF Drag, ReasonsInv, RowsAreSound
    <2>2. new \in 0 .. MaxChanges
      BY <1>1, ReasonsAssumption
    <2> HIDE DEF new
    <2>3. QED
      BY <2>1, <2>2 DEF Counters
  <1>3. row \in ChangeSet
    <2>1. moved \subseteq Ids(MaxTasks)
      BY ReasonsAssumption DEF ReasonsInv, RowsAreSound, Counters, Ids
    <2>2. QED
      BY <2>1 DEF ChangeSet
  <1> HIDE DEF row
  <1>4. DOMAIN changes' \subseteq Ids(made'.change)
    BY <1>1, <1>2 DEF ReasonsInv, RowsAreSound, Ids
  <1>5. RowsAreSound'
    BY <1>1, <1>2, <1>3, <1>4 DEF ReasonsInv, RowsAreSound
  <1>6. LinksAreReasoned'
    BY <1>1 DEF ReasonsInv, LinksAreReasoned, Reasoned
  <1>7. CommentsAreOfTheirRun'
    BY <1>1 DEF ReasonsInv, CommentsAreOfTheirRun
  <1>8. QED
    BY <1>5, <1>6, <1>7 DEF ReasonsInv

LEMMA UndoStep ==
    ASSUME ReasonsInv, NEW c \in DOMAIN changes, Undo(c)
    PROVE  ReasonsInv'
  <1>1. /\ DOMAIN changes' = DOMAIN changes \ {c}
        /\ changes' = [d \in DOMAIN changes' |-> changes'[d]]
        /\ \A d \in DOMAIN changes' : changes'[d] = changes[d]
        /\ UNCHANGED <<planned, tasks, comments, made>>
    BY DEF Undo, Without, Restrict
  <1>2. /\ traces' \in Seq(Trace) /\ DOMAIN traces' = DOMAIN traces
        /\ \A i \in DOMAIN traces : traces'[i].link = IF i \in PointingAt(c) THEN Nothing ELSE traces[i].link
    BY LinkedTraces DEF Undo, ReasonsInv, RowsAreSound
  <1>3. RowsAreSound'
    BY <1>1, <1>2 DEF ReasonsInv, RowsAreSound
  <1>4. LinksAreReasoned'
    BY <1>1, <1>2 DEF ReasonsInv, LinksAreReasoned, Reasoned, PointingAt
  <1>5. CommentsAreOfTheirRun'
    BY <1>1 DEF ReasonsInv, CommentsAreOfTheirRun
  <1>6. QED
    BY <1>3, <1>4, <1>5 DEF ReasonsInv

(* What is committed is what the session holds.                            *)
LEMMA CommitStep ==
    ASSUME ReasonsInv, NEW s, NEW done, InSession(s, done), Commit(s),
           made' \in Counters, made'.task = made.task, made'.change = made.change
    PROVE  ReasonsInv'
  <1>1. changes' = s.changes /\ traces' = s.traces /\ UNCHANGED <<planned, tasks, comments>>
    BY DEF Commit
  <1>2. DOMAIN changes' = DOMAIN changes
    BY <1>1 DEF InSession
  <1>3. RowsAreSound'
    BY <1>1, <1>2 DEF InSession, ReasonsInv, RowsAreSound
  <1>4. LinksAreReasoned'
    BY <1>1, <1>2 DEF InSession, LinkInSession, LinksAreReasoned, Reasoned
  <1>5. CommentsAreOfTheirRun'
    BY <1>1 DEF ReasonsInv, CommentsAreOfTheirRun
  <1>6. QED
    BY <1>3, <1>4, <1>5 DEF ReasonsInv

(* A request with one reason, and one with several.                        *)
LEMMA PatchedSession ==
    ASSUME ReasonsInv, NEW row \in Rows, PatchReason(row)
    PROVE  \E done : InSession(ApplyReason(Stored, row), done)
  <1>1. InSession(Stored, {}) /\ Valid(row) /\ row.id \notin {}
    BY StoredInSession DEF PatchReason
  <1>2. InSession(ApplyReason(Stored, row), {} \cup {row.id})
    BY <1>1, RowInSession, Zenon
  <1>3. QED
    BY <1>2

LEMMA BulkSession ==
    ASSUME ReasonsInv, NEW rows \in Bodies
    PROVE  \E done : InSession(Session(rows), done)
  <1> DEFINE a == rows[1]
             b == rows[2]
             s == Apply(Stored, a)
  <1>1. a \in Rows /\ b \in Rows /\ a.id # b.id /\ Session(rows) = Apply(s, b)
    BY DEF Bodies, Session
  <1>2. InSession(Stored, {})
    BY StoredInSession
  <1>3. PICK done \in {{}, {a.id}} : InSession(s, done)
    BY <1>1, <1>2, RowInSession DEF Apply
  <1>4. b.id \notin done
    BY <1>1, <1>3
  <1> HIDE DEF a, b, s
  <1>5. CASE Valid(b)
    <2>1. InSession(ApplyReason(s, b), done \cup {b.id})
      BY <1>1, <1>3, <1>4, <1>5, RowInSession, Zenon
    <2>2. QED
      BY <1>1, <1>5, <2>1 DEF Apply
  <1>6. CASE ~Valid(b)
    BY <1>1, <1>3, <1>6 DEF Apply
  <1>7. QED
    BY <1>5, <1>6

LEMMA ReasonStep ==
    ASSUME ReasonsInv
    PROVE  /\ \A row \in Rows : PatchReason(row) => ReasonsInv'
           /\ \A rows \in Bodies : BulkReason(rows) => ReasonsInv'
  <1>1. ASSUME NEW row \in Rows, PatchReason(row) PROVE ReasonsInv'
    <2>1. Commit(ApplyReason(Stored, row)) /\ UNCHANGED made
      BY <1>1 DEF PatchReason
    <2>2. made' \in Counters /\ made'.task = made.task /\ made'.change = made.change
      BY <2>1 DEF ReasonsInv, RowsAreSound
    <2>3. PICK done : InSession(ApplyReason(Stored, row), done)
      BY <1>1, PatchedSession
    <2>4. QED
      BY <2>1, <2>2, <2>3, CommitStep
  <1>2. ASSUME NEW rows \in Bodies, BulkReason(rows) PROVE ReasonsInv'
    <2>1. Commit(Session(rows)) /\ made' = [made EXCEPT !.listed = {}]
      BY <1>2 DEF BulkReason
    <2>2. made' \in Counters /\ made'.task = made.task /\ made'.change = made.change
      BY <2>1 DEF ReasonsInv, RowsAreSound, Counters
    <2>3. PICK done : InSession(Session(rows), done)
      BY BulkSession
    <2>4. QED
      BY <2>1, <2>2, <2>3, CommitStep
  <1>3. QED
    BY <1>1, <1>2

LEMMA ModalStep ==
    ASSUME ReasonsInv, NEW since \in Ids(MaxChanges), OpenModal(since)
    PROVE  ReasonsInv'
  <1>1. Missing(since) \subseteq Nat
    BY DEF Missing, ReasonsInv, RowsAreSound, Ids
  <1>2. made' \in Counters /\ made'.task = made.task /\ made'.change = made.change
    BY <1>1 DEF OpenModal, ReasonsInv, RowsAreSound, Counters
  <1>3. QED
    BY <1>2 DEF OpenModal, ReasonsInv, RowsAreSound, LinksAreReasoned, Reasoned, CommentsAreOfTheirRun

LEMMA CreateStep ==
    ASSUME ReasonsInv, NEW body \in CommentBodies, Create(body)
    PROVE  ReasonsInv'
  <1> DEFINE new == made.comment + 1
  <1>1. /\ made.comment \in Nat /\ new <= MaxComments
        /\ comments' = [f \in DOMAIN comments \cup {new} |-> IF f = new THEN Opened(body) ELSE comments[f]]
        /\ UNCHANGED <<planned, tasks, changes, traces>>
    BY DEF Create, ReasonsInv, RowsAreSound, Counters
  <1>2. made' \in Counters /\ made'.task = made.task /\ made'.change = made.change
    BY <1>1, ReasonsAssumption DEF Create, ReasonsInv, RowsAreSound, Counters
  <1>3. Opened(body) \in Comment
    <2>1. DOMAIN tasks \subseteq Ids(MaxTasks)
      BY ReasonsAssumption DEF ReasonsInv, RowsAreSound, Counters, Ids
    <2>2. QED
      BY <2>1, ReasonsAssumption DEF Opened, Comment, CommentBodies
  <1>4. /\ Opened(body).batch = Opened(body).run_label
        /\ Opened(body).task # Nothing =>
              Opened(body).task \in DOMAIN tasks /\ tasks[Opened(body).task] = Opened(body).run_label
    BY DEF Create, CommentBodies, Opened
  <1>5. RowsAreSound'
    BY <1>1, <1>2, <1>3 DEF ReasonsInv, RowsAreSound
  <1>6. LinksAreReasoned'
    BY <1>1 DEF ReasonsInv, LinksAreReasoned, Reasoned
  <1>7. CommentsAreOfTheirRun'
    BY <1>1, <1>4 DEF ReasonsInv, CommentsAreOfTheirRun
  <1>8. QED
    BY <1>5, <1>6, <1>7 DEF ReasonsInv


LEMMA AnswerStep ==
    ASSUME ReasonsInv
    PROVE  /\ \A f \in DOMAIN comments, status \in Status \cup {Nothing}, notes \in BOOLEAN \cup {Nothing} :
                 Answer(f, status, notes) => ReasonsInv'
           /\ \A ids \in SUBSET Ids(MaxComments), status \in Status \ {"open"}, notes \in BOOLEAN \cup {Nothing} :
                 AnswerAll(ids, status, notes) => ReasonsInv'
  <1> DEFINE Same == /\ UNCHANGED <<planned, tasks, changes, traces, made>>
                     /\ comments' = [f \in DOMAIN comments |-> comments'[f]]
                     /\ \A f \in DOMAIN comments :
                           \/ comments'[f] = comments[f]
                           \/ \E status \in Status, notes \in BOOLEAN :
                                 comments'[f] = [[comments[f] EXCEPT !.status = status] EXCEPT !.dev_notes = notes]
  <1>1. ASSUME Same PROVE ReasonsInv'
    <2>1. \A f \in DOMAIN comments :
             /\ comments'[f] \in Comment /\ comments'[f].batch = comments[f].batch
             /\ comments'[f].task = comments[f].task /\ comments'[f].run_label = comments[f].run_label
      <3> SUFFICES ASSUME NEW f \in DOMAIN comments
                   PROVE  /\ comments'[f] \in Comment /\ comments'[f].batch = comments[f].batch
                          /\ comments'[f].task = comments[f].task
                          /\ comments'[f].run_label = comments[f].run_label
        OBVIOUS
      <3>1. CASE comments'[f] = comments[f]
        BY <3>1 DEF ReasonsInv, RowsAreSound
      <3>2. ASSUME NEW status \in Status, NEW notes \in BOOLEAN,
                   comments'[f] = [[comments[f] EXCEPT !.status = status] EXCEPT !.dev_notes = notes]
            PROVE  /\ comments'[f] \in Comment /\ comments'[f].batch = comments[f].batch
                   /\ comments'[f].task = comments[f].task
                   /\ comments'[f].run_label = comments[f].run_label
        <4>1. comments[f] \in Comment
          BY DEF ReasonsInv, RowsAreSound
        <4>2. QED
          BY <3>2, <4>1 DEF Comment
      <3>3. \/ comments'[f] = comments[f]
            \/ \E status \in Status, notes \in BOOLEAN :
                  comments'[f] = [[comments[f] EXCEPT !.status = status] EXCEPT !.dev_notes = notes]
        BY <1>1, Zenon
      <3>4. QED
        BY <3>1, <3>2, <3>3, Zenon
    <2>2. DOMAIN comments' = DOMAIN comments
      BY <1>1
    <2>3. RowsAreSound'
      BY <1>1, <2>1, <2>2 DEF ReasonsInv, RowsAreSound
    <2>4. LinksAreReasoned'
      BY <1>1 DEF ReasonsInv, LinksAreReasoned, Reasoned
    <2>5. CommentsAreOfTheirRun'
      BY <1>1, <2>1, <2>2 DEF ReasonsInv, CommentsAreOfTheirRun
    <2>6. QED
      BY <2>3, <2>4, <2>5 DEF ReasonsInv
  <1>2. ASSUME NEW f \in DOMAIN comments, NEW status \in Status \cup {Nothing},
               NEW notes \in BOOLEAN \cup {Nothing}, Answer(f, status, notes)
        PROVE  Same
    <2>1. comments[f] \in Comment
      BY DEF ReasonsInv, RowsAreSound
    <2> DEFINE st == IF status = Nothing THEN comments[f].status ELSE status
               no == IF notes = Nothing THEN comments[f].dev_notes ELSE notes
    <2>2. st \in Status /\ no \in BOOLEAN
      BY <2>1 DEF Comment
    <2>3. /\ comments' = [comments EXCEPT ![f] = [[comments[f] EXCEPT !.status = st] EXCEPT !.dev_notes = no]]
          /\ UNCHANGED <<planned, tasks, changes, traces, made>>
      BY <1>2, <2>1 DEF Answer, Comment
    <2> HIDE DEF st, no
    <2>4. QED
      BY <2>2, <2>3 DEF ReasonsInv, RowsAreSound
  <1>3. ASSUME NEW ids \in SUBSET Ids(MaxComments), NEW status \in Status \ {"open"},
               NEW notes \in BOOLEAN \cup {Nothing}, AnswerAll(ids, status, notes)
        PROVE  Same
    <2> DEFINE No(f) == IF notes = Nothing THEN comments[f].dev_notes ELSE notes
               New(f) == [[comments[f] EXCEPT !.status = status] EXCEPT !.dev_notes = No(f)]
    <2>1. \A f \in DOMAIN comments : comments[f] \in Comment
      BY DEF ReasonsInv, RowsAreSound
    <2>2. \A f \in DOMAIN comments : No(f) \in BOOLEAN
      BY <2>1 DEF Comment
    <2>3. \A f \in DOMAIN comments :
             [comments[f] EXCEPT !.status = status, !.dev_notes = IF notes = Nothing THEN @ ELSE notes] = New(f)
      BY <2>1 DEF Comment
    <2>4. /\ comments' = [f \in DOMAIN comments |-> IF f \notin ids THEN comments[f] ELSE New(f)]
          /\ UNCHANGED <<planned, tasks, changes, traces, made>>
      BY <1>3, <2>3 DEF AnswerAll
    <2>5. QED
      BY <2>2, <2>4
  <1>4. QED
    BY <1>1, <1>2, <1>3

LEMMA DeleteStep ==
    ASSUME ReasonsInv, NEW r \in Run, DeleteRun(r)
    PROVE  ReasonsInv'
  <1> DEFINE own == {f \in DOMAIN comments : comments[f].run_label = r}
             old == {t \in DOMAIN tasks : tasks[t] = r}
  <1>1. /\ planned' = planned \ {r} /\ UNCHANGED <<changes, traces, made>>
        /\ tasks' = [t \in DOMAIN tasks \ old |-> tasks[t]]
        /\ comments' = [f \in DOMAIN comments \ own |-> comments[f]]
        /\ \A f \in DOMAIN comments \ own : comments[f].task \notin old
    BY DEF DeleteRun, Without, Restrict
  <1>2. /\ DOMAIN tasks' = DOMAIN tasks \ old /\ \A t \in DOMAIN tasks' : tasks'[t] = tasks[t]
        /\ tasks' = [t \in DOMAIN tasks' |-> tasks'[t]]
        /\ DOMAIN comments' = DOMAIN comments \ own /\ \A f \in DOMAIN comments' : comments'[f] = comments[f]
        /\ comments' = [f \in DOMAIN comments' |-> comments'[f]]
    BY <1>1
  <1>3. RowsAreSound'
    BY <1>1, <1>2 DEF ReasonsInv, RowsAreSound
  <1>4. LinksAreReasoned'
    BY <1>1 DEF ReasonsInv, LinksAreReasoned, Reasoned
  <1>5. CommentsAreOfTheirRun'
    BY <1>1, <1>2 DEF ReasonsInv, CommentsAreOfTheirRun
  <1>6. QED
    BY <1>3, <1>4, <1>5 DEF ReasonsInv

LEMMA ReasonsStep == ReasonsInv /\ [Next]_vars => ReasonsInv'
  <1> SUFFICES ASSUME ReasonsInv, [Next]_vars PROVE ReasonsInv'
    OBVIOUS
  <1>1. CASE Next
    BY <1>1, SolveStep, DragStep, UndoStep, ReasonStep, ModalStep, CreateStep, AnswerStep, DeleteStep, Zenon DEF Next
  <1>2. CASE UNCHANGED vars
    BY <1>2 DEF vars, ReasonsInv, RowsAreSound, LinksAreReasoned, Reasoned, CommentsAreOfTheirRun
  <1>3. QED
    BY <1>1, <1>2

-----------------------------------------------------------------------------
(* What the screens show *)

LEMMA NatMin ==
    ASSUME NEW T, T \subseteq Nat, T # {}
    PROVE  \E x \in T : \A y \in T : x <= y
  <1>1. PICK x \in T : \A y \in T : <<y, x>> \notin OpToRel(<, Nat)
    BY NatLessThanWellFounded, WFMin, Zenon
  <1>2. \A y \in T : y \in Nat /\ ~(y < x)
    BY <1>1 DEF OpToRel
  <1>3. QED
    BY <1>2

(* The latest trace of a run is one of the traces.                         *)
LEMMA LatestTrace ==
    ASSUME ReasonsInv, NEW r \in Run, Latest(r) # Nothing
    PROVE  Latest(r) \in DOMAIN traces
  <1> DEFINE of == {i \in DOMAIN traces : traces[i].run_label = r}
             T  == {Len(traces) - i : i \in of}
  <1>1. of # {} /\ Latest(r) = CHOOSE i \in of : \A j \in of : j <= i
    BY DEF Latest
  <1>2. Len(traces) \in Nat /\ DOMAIN traces = 1 .. Len(traces)
    BY DEF ReasonsInv, RowsAreSound
  <1>3. T \subseteq Nat /\ T # {}
    BY <1>1, <1>2
  <1>4. PICK x \in T : \A y \in T : x <= y
    BY <1>3, NatMin
  <1>5. PICK i \in of : x = Len(traces) - i
    BY <1>4
  <1>6. \A j \in of : Len(traces) - i <= Len(traces) - j
    BY <1>4, <1>5
  <1>7. \A j \in of : j <= i
    BY <1>2, <1>6
  <1>8. QED
    BY <1>1, <1>7

-----------------------------------------------------------------------------
(* Theorems *)

(* The rows, the flags and the comments keep their shape and their         *)
(* references, whatever is requested in whatever order.                    *)
THEOREM ReasonsInvariant == Spec => []ReasonsInv
  BY InitInv, ReasonsStep, PTL DEF Spec

(* The foreign keys hold (models/schedule_change_set.py,                   *)
(* solver_decision.py, decision_feedback.py).                              *)
THEOREM ReasonsTypes == Spec => []TypeOK
  <1>1. ReasonsInv => TypeOK
    BY DEF ReasonsInv, RowsAreSound, TypeOK, Range
  <1>2. QED
    BY <1>1, ReasonsInvariant, PTL

(* The card and the chart show a manual change only where there is one     *)
(* with a reason (_apply_reason_to_change_set, list_schedules).            *)
THEOREM ScreensAreTrue == Spec => []FlagsHaveReasons
  <1>1. ReasonsInv => FlagsHaveReasons
    <2> SUFFICES ASSUME ReasonsInv PROVE FlagsHaveReasons
      OBVIOUS
    <2>1. \A i \in DOMAIN traces : traces[i].link # Nothing => Reasoned(traces[i].link)
      BY DEF ReasonsInv, LinksAreReasoned
    <2>2. ASSUME NEW r \in Run, CardIsAdjusted(r)
          PROVE  \E c \in DOMAIN changes : Reasoned(c) /\ traces[Latest(r)].link = c
      BY <2>1, <2>2, LatestTrace DEF CardIsAdjusted, Reasoned
    <2>3. ASSUME NEW t \in MarkedOnChart
          PROVE  \E c \in DOMAIN changes : Reasoned(c) /\ t \in changes[c].tasks
      <3>1. PICK i \in DOMAIN traces : traces[i].link \in DOMAIN changes /\ t \in changes[traces[i].link].tasks
        BY <2>3 DEF MarkedOnChart
      <3>2. traces[i].link # Nothing
        BY <3>1, ReasonsAssumption DEF ReasonsInv, RowsAreSound, Ids
      <3>3. QED
        BY <2>1, <3>1, <3>2
    <2>4. QED
      BY <2>1, <2>2, <2>3 DEF FlagsHaveReasons
  <1>2. QED
    BY <1>1, ReasonsInvariant, PTL

(* No comment of another run stands in the way of a deletion               *)
(* (create_decision_feedback, delete_run).                                 *)
THEOREM DeletionsGoThrough == Spec => []RunsCanBeDeleted
  <1>1. ReasonsInv => RunsCanBeDeleted
    BY DEF ReasonsInv, CommentsAreOfTheirRun, RunsCanBeDeleted
  <1>2. QED
    BY <1>1, ReasonsInvariant, PTL

(* A flag goes off only with the reason it stands for (the clear path of   *)
(* _apply_reason_to_change_set, revert).                                   *)
THEOREM FlagsStayOn == Spec => FlagsGoOffWithTheReason
  <1> DEFINE Kept == \A i \in DOMAIN traces, c \in DOMAIN changes :
                        traces[i].link = c /\ traces'[i].link = Nothing => ~Reasoned(c)'
  <1>1. ReasonsInv /\ [Next]_vars => [Kept]_vars
    <2> SUFFICES ASSUME ReasonsInv, Next PROVE Kept
      OBVIOUS
    <2>1. \A c \in DOMAIN changes : c # Nothing
      BY ReasonsAssumption DEF ReasonsInv, RowsAreSound, Ids
    <2>2. ASSUME \A i \in DOMAIN traces : traces'[i] = traces[i] PROVE Kept
      BY <2>1, <2>2
    <2>3. ASSUME NEW s, NEW done, InSession(s, done), Commit(s) PROVE Kept
      BY <2>1, <2>3 DEF InSession, LinkInSession, Commit, Reasoned
    <2>4. ASSUME NEW r \in Run, NEW traced \in BOOLEAN, Solve(r, traced) PROVE Kept
      <3>1. traces \in Seq(Trace)
        BY DEF ReasonsInv, RowsAreSound
      <3>2. CASE traced
        <4> DEFINE e == [run_label |-> r, link |-> Nothing]
        <4>1. traces' = Append(traces, e)
          BY <2>4, <3>2 DEF Solve
        <4> HIDE DEF e
        <4>2. QED
          BY <2>2, <3>1, <4>1
      <3>3. CASE ~traced
        BY <2>2, <2>4, <3>3 DEF Solve
      <3>4. QED
        BY <3>2, <3>3
    <2>5. ASSUME NEW c \in DOMAIN changes, Undo(c) PROVE Kept
      <3>1. /\ DOMAIN changes' = DOMAIN changes \ {c}
            /\ \A i \in DOMAIN traces : traces'[i].link = IF i \in PointingAt(c) THEN Nothing ELSE traces[i].link
        BY <2>5, LinkedTraces DEF Undo, Without, Restrict, ReasonsInv, RowsAreSound
      <3>2. QED
        BY <2>1, <3>1 DEF PointingAt, Reasoned
    <2>6. ASSUME NEW row \in Rows, PatchReason(row) PROVE Kept
      BY <2>3, <2>6, PatchedSession DEF PatchReason
    <2>7. ASSUME NEW rows \in Bodies, BulkReason(rows) PROVE Kept
      BY <2>3, <2>7, BulkSession DEF BulkReason
    <2>8. QED
      BY <2>2, <2>4, <2>5, <2>6, <2>7 DEF Next, Drag, OpenModal, Create, Answer, AnswerAll, DeleteRun
  <1>2. QED
    BY <1>1, ReasonsInvariant, PTL DEF Spec, FlagsGoOffWithTheReason
=============================================================================
