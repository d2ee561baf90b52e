---------------------------- MODULE SolverProofs ----------------------------
(***************************************************************************)
(* What a run of the solver rests on, for every value of the constants:    *)
(* the constraints that it reads, and the phases in which it solves.       *)
(*                                                                         *)
(* ConstraintStore.  The constraints keep their keys, a baseline is a      *)
(* snapshot and nothing in force is unrecorded: for any number of          *)
(* sessions, any bodies, any tags and any length of a second.  The         *)
(* invariant is about the moments: all that a request, a run or a          *)
(* baseline has read is the whole table at some moment, and every moment   *)
(* has all keys and is on record.  For baselines this rests on their       *)
(* stamps: two of the same name differ in the time of their rows, so that  *)
(* the newest row of each constraint is of the same one.                   *)
(*                                                                         *)
(* LexSolve.  What the lexicographic solver guarantees for every model and *)
(* every solver, however early each phase is cut off.  The invariant is    *)
(* that the model is always what is left of the built one by the bounds    *)
(* that were set, and that a bound that was proved to be the least is one. *)
(***************************************************************************)
EXTENDS ConstraintStore, LexSolve, WellFoundedInduction, TLAPS

-----------------------------------------------------------------------------
(* ConstraintStore *)

Complete(c, p) == \A k \in DOMAIN Seed[c] : k \in DOMAIN p /\ p[k] # Nothing

Recorded(c) == {Seed[c]} \cup {h.new : h \in {x \in history : x.cid = c}}

(* What a request that is written to in several steps holds.               *)
Fields(q) ==
    /\ q.op = "promote" => q = [op |-> "promote", by |-> q.by, at |-> q.at, read |-> q.read, old |-> q.old]
    /\ q.op = "reset" => q = [op |-> "reset", params |-> q.params, read |-> q.read]
    /\ q.op = "solve" => q = [op |-> "solve", started_at |-> q.started_at, params |-> q.params, specs |-> q.specs]

Shape ==
    /\ config = [c \in Constraint |-> config[c]]
    /\ request = [s \in Session |-> request[s]]
    /\ \A s \in Session : Fields(request[s])
    /\ clock \in Nat

(* Every moment of the table has all keys, and values that are on record.  *)
MomentsAreSound ==
    /\ Params(config) \in moments
    /\ \A m \in moments : /\ m = [c \in Constraint |-> m[c]]
                          /\ \A c \in Constraint : Complete(c, m[c]) /\ m[c] \in Recorded(c)

(* What was read is a moment.                                              *)
ReadsAreMoments ==
    /\ \A r \in runs : r.params \in moments
    /\ \A s \in Session :
          /\ request[s].op = "patch" => /\ request[s].body \in Patches
                                        /\ \E m \in moments : request[s].read.params = m[request[s].body.cid]
          /\ request[s].op = "promote" => request[s].read \in moments
          /\ request[s].op \in {"reset", "solve"} => request[s].params \in moments

OfBaseline(h) == h.by # Nobody

(* The rows of one baseline have a time of their own.                      *)
StampsAreApart ==
    /\ \A s \in Session : request[s].op = "promote" =>
          /\ request[s].at \in Nat /\ request[s].at <= clock
          /\ \A h \in history : OfBaseline(h) => h.at # request[s].at
          /\ \A r \in Session \ {s} : request[r].op = "promote" => request[r].at # request[s].at
    /\ \A h \in history : OfBaseline(h) => h.at \in Nat /\ h.at <= clock

(* The rows of one time are a moment, one row for each constraint.         *)
BaselinesAreMoments ==
    \A h \in history : OfBaseline(h) =>
       /\ h.cid \in Constraint
       /\ \A g \in history : OfBaseline(g) /\ g.at = h.at /\ g.cid = h.cid => g = h
       /\ \A c \in Constraint : \E g \in history : g.by = h.by /\ g.at = h.at /\ g.cid = c
       /\ \E m \in moments : \A g \in history : OfBaseline(g) /\ g.at = h.at => g.new = m[g.cid]

StoreInv == Shape /\ MomentsAreSound /\ ReadsAreMoments /\ StampsAreApart /\ BaselinesAreMoments

-----------------------------------------------------------------------------
(* The rows of a baseline *)

LEMMA NatMin ==
    ASSUME NEW T, T \subseteq Nat, T # {}
    PROVE  \E x \in T : \A y \in T : x <= y
  <1>1. PICK x \in T : \A y \in T : <<y, x>> \notin OpToRel(<, Nat)
    BY NatLessThanWellFounded, WFMin, Zenon
  <1>2. \A y \in T : y \in Nat /\ ~(y < x)
    BY <1>1 DEF OpToRel
  <1>3. QED
    BY <1>2

(* Of the rows of a baseline some are the latest.                          *)
LEMMA LatestRow ==
    ASSUME StoreInv, NEW by \in Baselines
    PROVE  \E h \in history : /\ h.by = by /\ OfBaseline(h)
                              /\ \A g \in history : g.by = by => g.at <= h.at
  <1> DEFINE rows == {h \in history : h.by = by}
             T    == {clock - h.at : h \in rows}
  <1>1. by # Nobody /\ rows # {}
    BY DEF Baselines
  <1>2. \A h \in rows : OfBaseline(h) /\ h.at \in Nat /\ h.at <= clock
    BY <1>1 DEF StoreInv, StampsAreApart, OfBaseline
  <1>3. clock \in Nat
    BY DEF StoreInv, Shape
  <1>4. T \subseteq Nat /\ T # {}
    BY <1>1, <1>2, <1>3
  <1>5. PICK x \in T : \A y \in T : x <= y
    BY <1>4, NatMin
  <1>6. PICK h \in rows : x = clock - h.at
    BY <1>5
  <1>7. \A g \in rows : clock - h.at <= clock - g.at
    BY <1>5, <1>6
  <1>8. \A g \in rows : g.at <= h.at
    BY <1>2, <1>3, <1>6, <1>7
  <1>9. QED
    BY <1>2, <1>6, <1>8

(* The newest row of each constraint is of the same baseline.              *)
LEMMA LatestIsAMoment ==
    ASSUME StoreInv, NEW by \in Baselines
    PROVE  LatestParams(by) \in moments
  <1>1. PICK h \in history : /\ h.by = by /\ OfBaseline(h)
                             /\ \A g \in history : g.by = by => g.at <= h.at
    BY LatestRow
  <1>2. PICK m \in moments : \A g \in history : OfBaseline(g) /\ g.at = h.at => g.new = m[g.cid]
    BY <1>1 DEF StoreInv, BaselinesAreMoments
  <1>3. m = [c \in Constraint |-> m[c]]
    BY <1>2 DEF StoreInv, MomentsAreSound
  <1> DEFINE rows  == {x \in history : x.by = by}
             of(c) == {x \in rows : x.cid = c}
  <1>4. \A g \in rows : /\ OfBaseline(g) /\ g.at \in Nat /\ g.at <= h.at /\ h.at \in Nat /\ g.cid \in Constraint
                        /\ \A x \in rows : x.at = g.at /\ x.cid = g.cid => x = g
    BY <1>1 DEF StoreInv, StampsAreApart, BaselinesAreMoments, OfBaseline
  <1>5. ASSUME NEW c \in Constraint PROVE Newest(of(c)).new = m[c]
    <2>1. PICK g \in history : g.by = by /\ g.at = h.at /\ g.cid = c
      BY <1>1 DEF StoreInv, BaselinesAreMoments
    <2> DEFINE P(x) == x \in of(c) /\ \A y \in of(c) \ {x} : Newer(x, y)
    <2>2. \A y \in of(c) \ {g} : y.at < g.at
      <3> SUFFICES ASSUME NEW y \in of(c) \ {g} PROVE y.at < g.at
        OBVIOUS
      <3>1. y.at \in Nat /\ g.at \in Nat /\ y.at <= g.at
        BY <1>4, <2>1
      <3>2. y.at # g.at
        BY <1>4, <2>1
      <3>3. QED
        BY <3>1, <3>2
    <2>3. P(g)
      BY <2>1, <2>2, <1>4 DEF Newer
    <2>4. \A x : P(x) => x = g
      <3> SUFFICES ASSUME NEW x, P(x), x # g PROVE FALSE
        OBVIOUS
      <3>1. Newer(x, g) /\ x.at < g.at
        BY <2>1, <2>2
      <3>2. x.at \in Nat /\ g.at \in Nat
        BY <1>4, <2>1
      <3>3. QED
        BY <3>1, <3>2 DEF Newer
    <2>5. Newest(of(c)) = g
      <3>1. Newest(of(c)) = CHOOSE x \in of(c) : \A y \in of(c) \ {x} : Newer(x, y)
        BY DEF Newest
      <3>2. P(Newest(of(c)))
        BY <2>3, <3>1
      <3> QED
        BY <2>4, <3>2
    <2>6. g.new = m[c]
      BY <1>2, <1>4, <2>1
    <2>7. QED
      BY <2>5, <2>6
  <1>6. {x.cid : x \in rows} = Constraint
    <2>1. \A c \in Constraint : \E g \in rows : g.cid = c
      BY <1>1 DEF StoreInv, BaselinesAreMoments
    <2>2. QED
      BY <1>4, <2>1
  <1>7. LatestParams(by) = [c \in Constraint |-> Newest(of(c)).new]
    BY <1>6 DEF LatestParams
  <1>8. QED
    BY <1>2, <1>3, <1>5, <1>7

-----------------------------------------------------------------------------
(* The invariant *)

LEMMA InitInv == Init => StoreInv
  <1> SUFFICES ASSUME Init PROVE StoreInv
    OBVIOUS
  <1>1. Params(config) = Seed
    BY StoreAssumption DEF Init, Params
  <1>2. Shape
    BY DEF Init, Shape, Fields, Idle
  <1>3. MomentsAreSound
    BY <1>1, StoreAssumption DEF Init, MomentsAreSound, Complete, Recorded
  <1>4. \A s \in Session : request[s].op = "idle"
    BY DEF Init, Idle
  <1>5. ReadsAreMoments /\ StampsAreApart /\ BaselinesAreMoments
    BY <1>4 DEF Init, ReadsAreMoments, StampsAreApart, BaselinesAreMoments
  <1>6. QED
    BY <1>2, <1>3, <1>5 DEF StoreInv

(* A moment stays one, and stays on record, when the sets only grow.       *)
LEMMA MomentsGrow ==
    ASSUME StoreInv, history \subseteq history', moments' = moments \cup {Params(config')},
           config' = [c \in Constraint |-> config'[c]],
           \A c \in Constraint : Complete(c, config'[c].params) /\ config'[c].params \in Recorded(c)'
    PROVE  MomentsAreSound'
  <1>1. \A c \in Constraint : Recorded(c) \subseteq Recorded(c)'
    BY DEF Recorded
  <1> DEFINE new == Params(config')
  <1>2. new = [c \in Constraint |-> new[c]] /\ \A c \in Constraint : new[c] = config'[c].params
    BY DEF Params
  <1>3. Params(config)' = new
    BY DEF Params
  <1>4. ASSUME NEW m \in moments'
        PROVE  /\ m = [c \in Constraint |-> m[c]]
               /\ \A c \in Constraint : Complete(c, m[c]) /\ m[c] \in Recorded(c)'
    <2>1. CASE m \in moments
      BY <1>1, <2>1 DEF StoreInv, MomentsAreSound
    <2>2. CASE m = new
      BY <1>2, <2>2
    <2>3. QED
      BY <1>4, <2>1, <2>2
  <1>5. QED
    BY <1>3, <1>4 DEF MomentsAreSound, Complete

(* What a request may have read.                                           *)
HasRead(s, r, now) ==
    /\ Fields(r)
    /\ r.op = "patch" => r.body \in Patches /\ \E m \in moments : r.read.params = m[r.body.cid]
    /\ r.op = "promote" => /\ r.read \in moments /\ r.at \in Nat /\ r.at <= now
                           /\ \A h \in history : OfBaseline(h) => h.at # r.at
                           /\ \A q \in Session \ {s} : request[q].op = "promote" => request[q].at # r.at
    /\ r.op \in {"reset", "solve"} => r.params \in moments

(* A request that only reads.                                              *)
LEMMA ReadStep ==
    ASSUME StoreInv, NEW s \in Session, NEW r, HasRead(s, r, clock'),
           request' = [request EXCEPT ![s] = r],
           UNCHANGED <<config, history, runs, moments>>, clock' \in Nat, clock <= clock'
    PROVE  StoreInv'
  <1> USE DEF HasRead
  <1>1. request'[s] = r /\ \A q \in Session \ {s} : request'[q] = request[q]
    BY DEF StoreInv, Shape
  <1>2. Shape'
    BY <1>1 DEF StoreInv, Shape, Fields
  <1>3. MomentsAreSound'
    BY DEF StoreInv, MomentsAreSound, Params, Recorded, Complete
  <1>4. ReadsAreMoments'
    BY <1>1 DEF StoreInv, ReadsAreMoments
  <1>5. clock \in Nat
    BY DEF StoreInv, Shape
  <1>6. StampsAreApart'
    BY <1>1, <1>5 DEF StoreInv, StampsAreApart, OfBaseline
  <1>7. BaselinesAreMoments'
    BY DEF StoreInv, BaselinesAreMoments, OfBaseline
  <1>8. QED
    BY <1>2, <1>3, <1>4, <1>6, <1>7 DEF StoreInv

(* A commit that writes the table and at most rows of edits.               *)
LEMMA WriteStep ==
    ASSUME StoreInv, NEW s \in Session, End(s), clock' = clock + 1, UNCHANGED runs,
           NEW E, history' = history \cup E, \A h \in E : h.by = Nobody,
           moments' = moments \cup {Params(config')},
           config' = [c \in Constraint |-> config'[c]],
           \A c \in Constraint : Complete(c, config'[c].params) /\ config'[c].params \in Recorded(c)'
    PROVE  StoreInv'
  <1>1. request'[s].op = "idle" /\ \A q \in Session \ {s} : request'[q] = request[q]
    BY DEF StoreInv, Shape, End, Idle
  <1>2. Shape'
    BY <1>1 DEF StoreInv, Shape, End, Fields
  <1>3. MomentsAreSound'
    BY MomentsGrow
  <1>4. ReadsAreMoments'
    BY <1>1 DEF StoreInv, ReadsAreMoments
  <1>5. clock \in Nat
    BY DEF StoreInv, Shape
  <1>6. \A h \in history' : OfBaseline(h)' => h \in history /\ OfBaseline(h)
    BY DEF OfBaseline
  <1>7. StampsAreApart'
    BY <1>1, <1>5, <1>6 DEF StoreInv, StampsAreApart
  <1>8. BaselinesAreMoments'
    BY <1>6 DEF StoreInv, BaselinesAreMoments, OfBaseline
  <1>9. QED
    BY <1>2, <1>3, <1>4, <1>7, <1>8 DEF StoreInv

-----------------------------------------------------------------------------
(* The steps *)

LEMMA PatchStep ==
    ASSUME StoreInv, NEW s \in Session
    PROVE  (PatchRead(s) \/ PatchCommit(s)) => StoreInv'
  <1>1. ASSUME PatchRead(s) PROVE StoreInv'
    <2>1. PICK p \in Patches : Begin(s, [op |-> "patch", body |-> p, read |-> config[p.cid]])
      BY <1>1 DEF PatchRead
    <2> DEFINE r == [op |-> "patch", body |-> p, read |-> config[p.cid]]
    <2>2. r.read.params = Params(config)[r.body.cid]
      BY StoreAssumption DEF Params
    <2>3. Params(config) \in moments /\ clock \in Nat
      BY DEF StoreInv, MomentsAreSound, Shape
    <2>4. /\ request' = [request EXCEPT ![s] = r]
          /\ UNCHANGED <<config, history, runs, clock, moments>>
      BY <1>1, <2>1 DEF PatchRead, Begin
    <2>5. HasRead(s, r, clock')
      BY <2>2, <2>3 DEF Fields, HasRead
    <2>6. clock' \in Nat /\ clock <= clock'
      BY <2>3, <2>4, <2>5
    <2> HIDE DEF r
    <2>7. QED
      BY <2>3, <2>4, <2>5, <2>6, ReadStep, Zenon
  <1>2. ASSUME PatchCommit(s) PROVE StoreInv'
    <2>1. PICK c \in Constraint : c = request[s].body.cid
      BY <1>2, StoreAssumption DEF PatchCommit, StoreInv, ReadsAreMoments
    <2> DEFINE read    == request[s].read
               params  == Merged(read.params, request[s].body.params)
               enabled == IF request[s].body.enabled = Nothing THEN read.enabled ELSE request[s].body.enabled
               at      == clock + 1
               E       == Record(c, read.params, params, at)
    <2>2. PICK m \in moments : read.params = m[c]
      BY <1>2, <2>1 DEF PatchCommit, StoreInv, ReadsAreMoments
    <2>3. request[s].body \in Patches
      BY <1>2, StoreAssumption DEF PatchCommit, StoreInv, ReadsAreMoments
    <2>4. Complete(c, read.params)
      BY <2>2, <2>3 DEF StoreInv, MomentsAreSound
    <2>5. Complete(c, params)
      <3>1. \A k \in DOMAIN request[s].body.params : request[s].body.params[k] # Nothing
        BY <2>3, StoreAssumption
      <3>2. QED
        BY <2>4, <3>1 DEF Complete, Merged, Over
    <2>6. /\ config' = [config EXCEPT ![c] = Row(config[c], read, params, enabled, at)]
          /\ history' = history \cup E
          /\ moments' = moments \cup {Params(config')} /\ clock' = clock + 1 /\ End(s)
          /\ UNCHANGED runs
      BY <1>2, <2>1 DEF PatchCommit
    <2>7. /\ config' = [x \in Constraint |-> config'[x]]
          /\ \A x \in Constraint \ {c} : config'[x] = config[x]
          /\ config'[c].params = IF params = read.params THEN config[c].params ELSE params
      BY <2>3, <2>6 DEF StoreInv, Shape, Row
    <2>8. \A x \in Constraint : Complete(x, config[x].params) /\ config[x].params \in Recorded(x)
      BY DEF StoreInv, MomentsAreSound, Params
    <2>9. \A x \in Constraint : Recorded(x) \subseteq Recorded(x)'
      BY <2>6 DEF Recorded
    <2>10. params # read.params => params \in Recorded(c)'
      <3> SUFFICES ASSUME params # read.params PROVE params \in Recorded(c)'
        OBVIOUS
      <3> DEFINE e == [id |-> Cardinality(history) + 1, cid |-> c, by |-> Nobody, at |-> at,
                       old |-> read.params, new |-> params]
      <3>1. e \in E
        BY DEF Record
      <3>2. e \in history' /\ e.cid = c /\ e.new = params
        BY <2>6, <3>1
      <3> HIDE DEF e, E, params
      <3>3. QED
        BY <3>2 DEF Recorded
    <2>11. ASSUME NEW x \in Constraint
           PROVE  Complete(x, config'[x].params) /\ config'[x].params \in Recorded(x)'
      <3>1. CASE x # c
        BY <2>7, <2>8, <2>9, <3>1
      <3>2. CASE x = c /\ params = read.params
        BY <2>7, <2>8, <2>9, <3>2
      <3>3. CASE x = c /\ params # read.params
        BY <2>5, <2>7, <2>10, <3>3
      <3>4. QED
        BY <3>1, <3>2, <3>3
    <2>12. \A h \in E : h.by = Nobody
      BY DEF Record
    <2>13. QED
      BY <2>6, <2>7, <2>11, <2>12, WriteStep
  <1>3. QED
    BY <1>1, <1>2

LEMMA PromoteStep ==
    ASSUME StoreInv, NEW s \in Session
    PROVE  (Promote(s) \/ PromoteNext(s)) => StoreInv'
  <1>1. ASSUME Promote(s) PROVE StoreInv'
    <2>1. PICK tag \in Tag : Begin(s, [op |-> "promote", by |-> BaselineName(tag, clock + 1), at |-> clock + 1,
                                       read |-> Params(config), old |-> [c \in {} |-> {}]])
      BY <1>1 DEF Promote
    <2> DEFINE r == [op |-> "promote", by |-> BaselineName(tag, clock + 1), at |-> clock + 1,
                     read |-> Params(config), old |-> [c \in {} |-> {}]]
    <2>2. clock \in Nat /\ Params(config) \in moments
      BY DEF StoreInv, Shape, MomentsAreSound
    <2>3. /\ \A h \in history : OfBaseline(h) => h.at # clock + 1
          /\ \A q \in Session : request[q].op = "promote" => request[q].at # clock + 1
      BY <2>2 DEF StoreInv, StampsAreApart
    <2>4. /\ request' = [request EXCEPT ![s] = r] /\ clock' = clock + 1
          /\ UNCHANGED <<config, history, runs, moments>>
      BY <1>1, <2>1 DEF Promote, Begin
    <2>5. HasRead(s, r, clock')
      BY <2>2, <2>3, <2>4 DEF Fields, HasRead
    <2>6. clock' \in Nat /\ clock <= clock'
      BY <2>2, <2>4, <2>5
    <2> HIDE DEF r
    <2>7. QED
      BY <2>2, <2>4, <2>5, <2>6, ReadStep, Zenon
  <1>2. ASSUME PromoteNext(s) PROVE StoreInv'
    <2>1. PICK c \in Constraint : LookUp(s, c)
      BY <1>2 DEF PromoteNext
    <2> DEFINE r == request'[s]
               q == request[s]
    <2>2. q.op = "promote" /\ q = [op |-> "promote", by |-> q.by, at |-> q.at, read |-> q.read, old |-> q.old]
      BY <1>2 DEF PromoteNext, StoreInv, Shape, Fields
    <2>3. PICK x : request' = [request EXCEPT ![s].old = x]
      BY <2>1 DEF LookUp
    <2>4. request' = [request EXCEPT ![s] = r] /\ r = [q EXCEPT !.old = x]
      BY <2>3 DEF StoreInv, Shape
    <2>5. r = [op |-> "promote", by |-> q.by, at |-> q.at, read |-> q.read, old |-> x]
      BY <2>2, <2>4
    <2>6. /\ q.read \in moments /\ q.at \in Nat /\ q.at <= clock /\ clock \in Nat
          /\ \A h \in history : OfBaseline(h) => h.at # q.at
          /\ \A o \in Session \ {s} : request[o].op = "promote" => request[o].at # q.at
      BY <2>2 DEF StoreInv, Shape, ReadsAreMoments, StampsAreApart
    <2>7. UNCHANGED <<config, history, runs, clock, moments>>
      BY <1>2 DEF PromoteNext
    <2>8. HasRead(s, r, clock')
      BY <2>5, <2>6, <2>7 DEF Fields, HasRead
    <2>9. clock' \in Nat /\ clock <= clock'
      BY <2>4, <2>6, <2>7, <2>8
    <2> HIDE DEF r
    <2>10. QED
      BY <2>4, <2>6, <2>7, <2>8, <2>9, ReadStep, Zenon
  <1>3. QED
    BY <1>1, <1>2

(* The rows of a promoted baseline: one for each constraint, of one moment.*)
LEMMA PromoteCommitStep ==
    ASSUME StoreInv, NEW s \in Session, PromoteCommit(s)
    PROVE  StoreInv'
  <1> DEFINE q == request[s]
             Made(c) == [id |-> Cardinality(history) + 1, cid |-> c, by |-> q.by, at |-> q.at,
                         old |-> q.old[c], new |-> q.read[c]]
             made == {Made(c) : c \in Constraint}
  <1>1. /\ q.op = "promote" /\ history' = history \cup made /\ End(s)
        /\ UNCHANGED <<config, runs, clock, moments>>
    BY DEF PromoteCommit
  <1>2. request'[s].op = "idle" /\ \A r \in Session \ {s} : request'[r] = request[r]
    BY <1>1 DEF StoreInv, Shape, End, Idle
  <1>3. Shape'
    BY <1>1, <1>2 DEF StoreInv, Shape, End, Fields
  <1>4. MomentsAreSound'
    <2>1. \A c \in Constraint : Recorded(c) \subseteq Recorded(c)'
      BY <1>1 DEF Recorded
    <2>2. QED
      BY <1>1, <2>1 DEF StoreInv, MomentsAreSound, Params, Complete
  <1>5. ReadsAreMoments'
    BY <1>1, <1>2 DEF StoreInv, ReadsAreMoments
  <1>6. /\ q.read \in moments /\ q.at \in Nat /\ q.at <= clock
        /\ \A h \in history : OfBaseline(h) => h.at # q.at
        /\ \A r \in Session \ {s} : request[r].op = "promote" => request[r].at # q.at
    BY <1>1 DEF StoreInv, ReadsAreMoments, StampsAreApart
  <1>7. StampsAreApart'
    BY <1>1, <1>2, <1>6 DEF StoreInv, StampsAreApart, OfBaseline
  <1>8. BaselinesAreMoments'
    <2> SUFFICES ASSUME NEW h \in history', OfBaseline(h)
                 PROVE  /\ h.cid \in Constraint
                        /\ \A g \in history' : OfBaseline(g) /\ g.at = h.at /\ g.cid = h.cid => g = h
                        /\ \A c \in Constraint : \E g \in history' : g.by = h.by /\ g.at = h.at /\ g.cid = c
                        /\ \E m \in moments' : \A g \in history' : OfBaseline(g) /\ g.at = h.at => g.new = m[g.cid]
      BY DEF BaselinesAreMoments, OfBaseline
    <2>1. CASE h \in history
      BY <1>1, <1>6, <2>1 DEF StoreInv, BaselinesAreMoments
    <2>2. CASE h \in made
      <3>1. \A c \in Constraint : Made(c) \in history' /\ Made(c).by = h.by /\ Made(c).at = h.at /\ Made(c).cid = c
        BY <1>1, <2>2
      <3>2. h.at = q.at /\ h.cid \in Constraint /\ h = Made(h.cid)
        BY <2>2
      <3>3. \A g \in history' : OfBaseline(g) /\ g.at = h.at => g \in made
        BY <1>1, <1>6, <3>2
      <3>4. \A g \in made : g = Made(g.cid) /\ g.new = q.read[g.cid]
        OBVIOUS
      <3>5. \A g \in history' : OfBaseline(g) /\ g.at = h.at /\ g.cid = h.cid => g = h
        BY <3>2, <3>3, <3>4
      <3>6. \A g \in history' : OfBaseline(g) /\ g.at = h.at => g.new = q.read[g.cid]
        BY <3>3, <3>4
      <3>7. \A c \in Constraint : \E g \in history' : g.by = h.by /\ g.at = h.at /\ g.cid = c
        BY <3>1
      <3>8. QED
        BY <1>1, <1>6, <3>2, <3>5, <3>6, <3>7
    <2>3. QED
      BY <1>1, <2>1, <2>2
  <1>9. QED
    BY <1>3, <1>4, <1>5, <1>7, <1>8 DEF StoreInv

LEMMA ResetStep ==
    ASSUME StoreInv, NEW s \in Session
    PROVE  (Reset(s) \/ ResetNext(s) \/ ResetCommit(s)) => StoreInv'
  <1>1. ASSUME Reset(s) PROVE StoreInv'
    <2>1. PICK by \in Baselines : Begin(s, [op |-> "reset", params |-> LatestParams(by), read |-> [c \in {} |-> {}]])
      BY <1>1 DEF Reset
    <2> DEFINE r == [op |-> "reset", params |-> LatestParams(by), read |-> [c \in {} |-> {}]]
    <2>2. r.params \in moments /\ clock \in Nat
      BY LatestIsAMoment DEF StoreInv, Shape
    <2>3. /\ request' = [request EXCEPT ![s] = r]
          /\ UNCHANGED <<config, history, runs, clock, moments>>
      BY <1>1, <2>1 DEF Reset, Begin
    <2>4. HasRead(s, r, clock')
      BY <2>2 DEF Fields, HasRead
    <2>5. clock' \in Nat /\ clock <= clock'
      BY <2>2, <2>3, <2>4
    <2> HIDE DEF r
    <2>6. QED
      BY <2>2, <2>3, <2>4, <2>5, ReadStep, Zenon
  <1>2. ASSUME ResetNext(s) PROVE StoreInv'
    <2> DEFINE r == request'[s]
               q == request[s]
    <2>1. q.op = "reset" /\ q = [op |-> "reset", params |-> q.params, read |-> q.read]
      BY <1>2 DEF ResetNext, StoreInv, Shape, Fields
    <2>2. PICK x : request' = [request EXCEPT ![s].read = x]
      BY <1>2 DEF ResetNext
    <2>3. request' = [request EXCEPT ![s] = r] /\ r = [q EXCEPT !.read = x]
      BY <2>2 DEF StoreInv, Shape
    <2>4. r = [op |-> "reset", params |-> q.params, read |-> x]
      BY <2>1, <2>3
    <2>5. q.params \in moments /\ clock \in Nat
      BY <2>1 DEF StoreInv, Shape, ReadsAreMoments
    <2>6. UNCHANGED <<config, history, runs, clock, moments>>
      BY <1>2 DEF ResetNext
    <2>7. HasRead(s, r, clock')
      BY <2>4, <2>5 DEF Fields, HasRead
    <2>8. clock' \in Nat /\ clock <= clock'
      BY <2>3, <2>5, <2>6, <2>7
    <2> HIDE DEF r
    <2>9. QED
      BY <2>3, <2>5, <2>6, <2>7, <2>8, ReadStep, Zenon
  <1>3. ASSUME ResetCommit(s) PROVE StoreInv'
    <2> DEFINE q == request[s]
               new == [c \in Constraint |->
                         IF c \notin DOMAIN q.params THEN config[c]
                         ELSE Row(config[c], q.read[c], q.params[c], q.read[c].enabled, clock + 1)]
    <2>1. /\ q.op = "reset" /\ config' = new /\ moments' = moments \cup {Params(config')}
          /\ clock' = clock + 1 /\ End(s) /\ UNCHANGED <<history, runs>>
      BY <1>3 DEF ResetCommit
    <2>2. q.params \in moments
      BY <2>1 DEF StoreInv, ReadsAreMoments
    <2>3. \A c \in Constraint : config'[c].params \in {config[c].params, q.params[c]}
      BY <2>1 DEF Row
    <2>4. \A c \in Constraint : /\ Complete(c, config[c].params) /\ config[c].params \in Recorded(c)
                                /\ Complete(c, q.params[c]) /\ q.params[c] \in Recorded(c)
      BY <2>2 DEF StoreInv, MomentsAreSound, Params
    <2>5. \A c \in Constraint : Recorded(c)' = Recorded(c)
      BY <2>1 DEF Recorded
    <2>6. \A c \in Constraint : Complete(c, config'[c].params) /\ config'[c].params \in Recorded(c)'
      BY <2>3, <2>4, <2>5
    <2>7. config' = [c \in Constraint |-> config'[c]]
      BY <2>1
    <2>8. QED
      <3> DEFINE E == {}
      <3>1. history' = history \cup E /\ \A h \in E : h.by = Nobody
        BY <2>1
      <3>2. /\ End(s) /\ clock' = clock + 1 /\ UNCHANGED runs
            /\ moments' = moments \cup {Params(config')}
        BY <2>1
      <3> HIDE DEF E, new
      <3>3. QED
        BY <2>6, <2>7, <3>1, <3>2, WriteStep
  <1>4. QED
    BY <1>1, <1>2, <1>3

LEMMA SolveStep ==
    ASSUME StoreInv, NEW s \in Session
    PROVE  (SolveBegin(s) \/ SolveWeights(s) \/ SolveEnd(s)) => StoreInv'
  <1>1. ASSUME SolveBegin(s) PROVE StoreInv'
    <2> DEFINE r == [op |-> "solve", started_at |-> clock + 1, params |-> Params(config), specs |-> Nothing]
    <2>1. r.params \in moments /\ clock \in Nat
      BY DEF StoreInv, Shape, MomentsAreSound
    <2>2. /\ request' = [request EXCEPT ![s] = r] /\ clock' = clock + 1
          /\ UNCHANGED <<config, history, runs, moments>>
      BY <1>1 DEF SolveBegin, Begin
    <2>3. HasRead(s, r, clock')
      BY <2>1 DEF Fields, HasRead
    <2>4. clock' \in Nat /\ clock <= clock'
      BY <2>1, <2>2, <2>3
    <2> HIDE DEF r
    <2>5. QED
      BY <2>1, <2>2, <2>3, <2>4, ReadStep, Zenon
  <1>2. ASSUME SolveWeights(s) PROVE StoreInv'
    <2> DEFINE r == request'[s]
               q == request[s]
    <2>1. /\ q.op = "solve"
          /\ q = [op |-> "solve", started_at |-> q.started_at, params |-> q.params, specs |-> q.specs]
      BY <1>2 DEF SolveWeights, StoreInv, Shape, Fields
    <2>2. PICK x : request' = [request EXCEPT ![s].specs = x]
      BY <1>2 DEF SolveWeights
    <2>3. request' = [request EXCEPT ![s] = r] /\ r = [q EXCEPT !.specs = x]
      BY <2>2 DEF StoreInv, Shape
    <2>4. r = [op |-> "solve", started_at |-> q.started_at, params |-> q.params, specs |-> x]
      BY <2>1, <2>3
    <2>5. q.params \in moments /\ clock \in Nat
      BY <2>1 DEF StoreInv, Shape, ReadsAreMoments
    <2>6. UNCHANGED <<config, history, runs, clock, moments>>
      BY <1>2 DEF SolveWeights
    <2>7. HasRead(s, r, clock')
      BY <2>4, <2>5 DEF Fields, HasRead
    <2>8. clock' \in Nat /\ clock <= clock'
      BY <2>3, <2>5, <2>6, <2>7
    <2> HIDE DEF r
    <2>9. QED
      BY <2>3, <2>5, <2>6, <2>7, <2>8, ReadStep, Zenon
  <1>3. ASSUME SolveEnd(s) PROVE StoreInv'
    <2> DEFINE q == request[s]
               run == [started_at |-> q.started_at, finished_at |-> clock + 1,
                       params |-> q.params, specs |-> q.specs, applied |-> Enabled(config)]
    <2>1. /\ q.op = "solve" /\ runs' = runs \cup {run} /\ clock' = clock + 1 /\ End(s)
          /\ UNCHANGED <<config, history, moments>>
      BY <1>3 DEF SolveEnd
    <2>2. request'[s].op = "idle" /\ \A r \in Session \ {s} : request'[r] = request[r]
      BY <2>1 DEF StoreInv, Shape, End, Idle
    <2>3. q.params \in moments /\ clock \in Nat
      BY <2>1 DEF StoreInv, Shape, ReadsAreMoments
    <2>4. Shape'
      BY <2>1, <2>2, <2>3 DEF StoreInv, Shape, End, Fields
    <2>5. MomentsAreSound' /\ BaselinesAreMoments'
      BY <2>1 DEF StoreInv, MomentsAreSound, Params, Recorded, Complete, BaselinesAreMoments, OfBaseline
    <2>6. ReadsAreMoments'
      BY <2>1, <2>2, <2>3 DEF StoreInv, ReadsAreMoments
    <2>7. StampsAreApart'
      BY <2>1, <2>2, <2>3 DEF StoreInv, StampsAreApart, OfBaseline
    <2>8. QED
      BY <2>4, <2>5, <2>6, <2>7 DEF StoreInv
  <1>4. QED
    BY <1>1, <1>2, <1>3

LEMMA StoreStep == StoreInv /\ [Next]_vars => StoreInv'
  <1> SUFFICES ASSUME StoreInv, [Next]_vars PROVE StoreInv'
    OBVIOUS
  <1>1. CASE Next
    BY <1>1, PatchStep, PromoteStep, PromoteCommitStep, ResetStep, SolveStep DEF Next
  <1>2. CASE UNCHANGED vars
    BY <1>2 DEF vars, StoreInv, Shape, Fields, MomentsAreSound, ReadsAreMoments, StampsAreApart,
                BaselinesAreMoments, OfBaseline, Params, Recorded, Complete
  <1>3. QED
    BY <1>1, <1>2

-----------------------------------------------------------------------------
(* Theorems *)

(* Whatever a request, a run or a baseline has read is the whole table as  *)
(* it once was, with all its keys, and on record (routes/constraints.py).  *)
THEOREM StoreInvariant == Spec => []StoreInv
  BY InitInv, StoreStep, PTL DEF Spec

(* Every run finds a value for every key of the seed (update_constraint,   *)
(* reset_to_baseline).                                                     *)
THEOREM KeysAreKept == Spec => []RunsHaveTheirKeys
  <1>1. StoreInv => RunsHaveTheirKeys
    BY DEF StoreInv, ReadsAreMoments, MomentsAreSound, RunsHaveTheirKeys, Complete, Get
  <1>2. QED
    BY <1>1, StoreInvariant, PTL

(* A baseline is what the whole table once was (promote_baseline,          *)
(* _latest_params_per_constraint).                                         *)
THEOREM BaselinesAreSnapshots == Spec => []BaselineIsASnapshot
  <1>1. StoreInv => BaselineIsASnapshot
    BY LatestIsAMoment DEF BaselineIsASnapshot
  <1>2. QED
    BY <1>1, StoreInvariant, PTL

(* Every value in force is that of the seed or of a row of history.        *)
THEOREM NothingIsUnrecorded == Spec => []EveryValueIsOnRecord
  <1>1. StoreInv => EveryValueIsOnRecord
    BY DEF StoreInv, MomentsAreSound, Params, Recorded, EveryValueIsOnRecord
  <1>2. QED
    BY <1>1, StoreInvariant, PTL

-----------------------------------------------------------------------------
(* LexSolve *)

Lexicographic == phase \in {"A2", "B", "C", "recover"} \/ (phase = "done" /\ mode = "lex_min_time")

Bounded(x) ==
    Within(x.max_tard, t_star) /\ Within(x.total_tard, s_star) /\ Within(x.makespan, m_star)

(* The constraints added so far are the bounds, and nothing else.          *)
ModelIsBounded == \A x \in built : x \in model <=> Bounded(x)

(* Which bounds are set in which phase.                                    *)
BoundsAreSet ==
    /\ phase = "A" => t_star = None
    /\ phase \in {"A", "A2"} => s_star = None
    /\ phase \in {"A", "A2", "B"} => m_star = None /\ answers.C = "NOT RUN"
    /\ phase = "C" => answers.C = "NOT RUN"
    /\ phase # "done" => mode = ""
    /\ Lexicographic => t_star # None
    /\ phase \in {"B", "C", "recover"} \/ (phase = "done" /\ mode = "lex_min_time") =>
          (answers.A2 = "OPTIMAL" => s_star # None)
    /\ phase \in {"C", "recover"} \/ (phase = "done" /\ mode = "lex_min_time") => m_star # None
    /\ phase = "recover" => answers.C # "OPTIMAL"

(* A bound that was proved is the least one.                               *)
BoundsAreLeast ==
    /\ t_star # None /\ answers.A = "OPTIMAL" => \A x \in built : t_star <= x.max_tard
    /\ s_star # None /\ answers.A2 = "OPTIMAL" =>
          \A x \in built : Within(x.max_tard, t_star) => s_star <= x.total_tard
    /\ m_star # None /\ answers.B = "OPTIMAL" =>
          \A x \in built : Within(x.max_tard, t_star) /\ Within(x.total_tard, s_star) => m_star <= x.makespan

(* What is given is a solution of the last model, and the best if proved.  *)
FoundIsInModel ==
    phase = "done" /\ mode = "lex_min_time" =>
       /\ found \in model
       /\ answers.C = "OPTIMAL" => \A x \in model : found.soft <= x.soft

LexInv ==
    /\ LexTypeOK /\ BoundsLeaveASolution
    /\ ModelIsBounded /\ BoundsAreSet /\ BoundsAreLeast /\ FoundIsInModel

-----------------------------------------------------------------------------
LEMMA LexInitInv == LexInit => LexInv
  <1> SUFFICES ASSUME LexInit PROVE LexInv
    OBVIOUS
  <1> USE DEF LexInit, Unsolved
  <1>1. LexTypeOK
    BY DEF LexTypeOK, Statuses, Solved
  <1>2. BoundsLeaveASolution
    BY DEF BoundsLeaveASolution
  <1>3. ModelIsBounded
    BY DEF ModelIsBounded, Bounded, Within
  <1>4. BoundsAreSet /\ BoundsAreLeast /\ FoundIsInModel
    BY DEF BoundsAreSet, BoundsAreLeast, FoundIsInModel, Lexicographic
  <1>5. QED
    BY <1>1, <1>2, <1>3, <1>4 DEF LexInv

(* A solver gives a status, and a solution if and only if it is solved: of *)
(* an optimum none is better.                                              *)
LEMMA AnswersOfMaxTard ==
    ASSUME LexTypeOK, NEW a \in Answers(MaxTard)
    PROVE  /\ a[1] \in Statuses
           /\ a[1] \in Solved => a[2] \in model
           /\ a[1] \notin Solved => a[2] = None
           /\ a[1] = "OPTIMAL" => \A y \in model : a[2].max_tard <= y.max_tard
  BY DEF Answers, Least, MaxTard, Statuses, Solved

LEMMA AnswersOfTotalTard ==
    ASSUME LexTypeOK, NEW a \in Answers(TotalTard)
    PROVE  /\ a[1] \in Statuses
           /\ a[1] \in Solved => a[2] \in model
           /\ a[1] \notin Solved => a[2] = None
           /\ a[1] = "OPTIMAL" => \A y \in model : a[2].total_tard <= y.total_tard
  BY DEF Answers, Least, TotalTard, Statuses, Solved

LEMMA AnswersOfMakespan ==
    ASSUME LexTypeOK, NEW a \in Answers(Makespan)
    PROVE  /\ a[1] \in Statuses
           /\ a[1] \in Solved => a[2] \in model
           /\ a[1] \notin Solved => a[2] = None
           /\ a[1] = "OPTIMAL" => \A y \in model : a[2].makespan <= y.makespan
  BY DEF Answers, Least, Makespan, Statuses, Solved

LEMMA AnswersOfSoft ==
    ASSUME LexTypeOK, NEW a \in Answers(Soft)
    PROVE  /\ a[1] \in Statuses
           /\ a[1] \in Solved => a[2] \in model
           /\ a[1] \notin Solved => a[2] = None
           /\ a[1] = "OPTIMAL" => \A y \in model : a[2].soft <= y.soft
  BY DEF Answers, Least, Soft, Statuses, Solved

-----------------------------------------------------------------------------
LEMMA FallBackInv ==
    ASSUME LexInv, FallBack, UNCHANGED built, phase # "done",
           answers' \in [A : Statuses \cup {"NOT RUN"}, A2 : Statuses \cup {"NOT RUN"},
                         B : Statuses \cup {"NOT RUN"}, C : Statuses \cup {"NOT RUN"}]
    PROVE  LexInv'
  <1> USE DEF FallBack, LexInv
  <1>1. LexTypeOK'
    BY DEF LexTypeOK
  <1>2. mode = ""
    BY DEF BoundsAreSet
  <1>3. BoundsLeaveASolution' /\ BoundsAreLeast'
    BY DEF BoundsLeaveASolution, BoundsAreLeast
  <1>4. BoundsAreSet' /\ FoundIsInModel'
    BY <1>2 DEF BoundsAreSet, FoundIsInModel, Lexicographic
  <1>5. ModelIsBounded'
    BY DEF ModelIsBounded, Bounded, Within
  <1>6. QED
    BY <1>1, <1>3, <1>4, <1>5

LEMMA SolveAInv == LexInv /\ SolveA /\ UNCHANGED built => LexInv'
  <1> SUFFICES ASSUME LexInv, SolveA, UNCHANGED built PROVE LexInv'
    OBVIOUS
  <1> USE DEF LexInv
  <1>1. PICK a \in Answers(MaxTard) :
          /\ answers' = [answers EXCEPT !.A = a[1]]
          /\ \/ a[1] \notin Solved /\ FallBack
             \/ /\ a[1] \in Solved
                /\ phase' = "A2" /\ t_star' = a[2].max_tard
                /\ model' = {x \in model : x.max_tard <= t_star'}
                /\ UNCHANGED <<s_star, m_star, found, mode, lex_status>>
    BY DEF SolveA
  <1>2. /\ a[1] \in Statuses
        /\ a[1] \in Solved => a[2] \in model
        /\ a[1] = "OPTIMAL" => \A y \in model : a[2].max_tard <= y.max_tard
    BY AnswersOfMaxTard
  <1>3. phase = "A"
    BY DEF SolveA
  <1>4. answers' \in [A : Statuses \cup {"NOT RUN"}, A2 : Statuses \cup {"NOT RUN"},
                      B : Statuses \cup {"NOT RUN"}, C : Statuses \cup {"NOT RUN"}]
    BY <1>1, <1>2 DEF LexTypeOK
  <1>5. CASE a[1] \notin Solved
    BY <1>1, <1>3, <1>4, <1>5, FallBackInv
  <1>6. CASE a[1] \in Solved
    <2>1. a[2] \in built /\ a[2] \in Solution /\ a[2].max_tard \in Nat
      BY <1>2, <1>6 DEF LexTypeOK, Solution
    <2>2. \A x \in built : x.max_tard \in Nat /\ x \in model
      BY <1>3 DEF LexTypeOK, Solution, ModelIsBounded, Bounded, BoundsAreSet, Within
    <2>3. LexTypeOK'
      BY <1>1, <1>4, <1>6, <2>1 DEF LexTypeOK
    <2>4. BoundsLeaveASolution'
      BY <1>1, <1>2, <1>6, <2>1 DEF BoundsLeaveASolution
    <2>5. t_star' # None /\ s_star' = None /\ m_star' = None
      <3>1. s_star = None /\ m_star = None
        BY <1>3 DEF BoundsAreSet
      <3>2. t_star' = a[2].max_tard /\ UNCHANGED <<s_star, m_star>>
        BY <1>1, <1>6
      <3>3. a[2].max_tard \in Int
        BY <2>1
      <3>4. QED
        BY <3>1, <3>2, <3>3, NoneAssumption
    <2>6. ModelIsBounded'
      BY <1>1, <1>6, <2>2, <2>5 DEF ModelIsBounded, Bounded, Within
    <2>7. BoundsAreSet'
      BY <1>1, <1>3, <1>6, <2>5 DEF BoundsAreSet, Lexicographic, LexTypeOK
    <2>8. BoundsAreLeast'
      BY <1>1, <1>2, <1>6, <2>2, <2>5 DEF BoundsAreLeast, LexTypeOK
    <2>9. FoundIsInModel'
      BY <1>1, <1>6 DEF FoundIsInModel
    <2>10. QED
      BY <2>3, <2>4, <2>6, <2>7, <2>8, <2>9
  <1>7. QED
    BY <1>5, <1>6

LEMMA SolveA2Inv == LexInv /\ SolveA2 /\ UNCHANGED built => LexInv'
  <1> SUFFICES ASSUME LexInv, SolveA2, UNCHANGED built PROVE LexInv'
    OBVIOUS
  <1> USE DEF LexInv
  <1>1. PICK a \in Answers(TotalTard) :
          /\ answers' = [answers EXCEPT !.A2 = a[1]]
          /\ \/ a[1] \notin Solved /\ UNCHANGED <<s_star, model>>
             \/ /\ a[1] \in Solved
                /\ s_star' = a[2].total_tard
                /\ model' = {x \in model : x.total_tard <= s_star'}
          /\ phase' = "B"
    BY DEF SolveA2
  <1>2. /\ a[1] \in Statuses
        /\ a[1] \in Solved => a[2] \in model
        /\ a[1] = "OPTIMAL" => \A y \in model : a[2].total_tard <= y.total_tard
    BY AnswersOfTotalTard
  <1>3. phase = "A2" /\ UNCHANGED <<t_star, m_star, found, mode, lex_status>>
    BY DEF SolveA2
  <1>4. answers' \in [A : Statuses \cup {"NOT RUN"}, A2 : Statuses \cup {"NOT RUN"},
                      B : Statuses \cup {"NOT RUN"}, C : Statuses \cup {"NOT RUN"}]
        /\ answers'.A2 = a[1] /\ answers'.A = answers.A /\ answers'.B = answers.B /\ answers'.C = answers.C
    BY <1>1, <1>2 DEF LexTypeOK
  <1>5. s_star = None /\ m_star = None /\ t_star # None /\ mode = ""
    BY <1>3 DEF BoundsAreSet, Lexicographic
  <1>6. FoundIsInModel'
    BY <1>1 DEF FoundIsInModel
  <1>7. CASE a[1] \notin Solved
    <2>1. a[1] # "OPTIMAL" /\ UNCHANGED <<s_star, model>>
      BY <1>1, <1>7 DEF Solved
    <2>2. LexTypeOK'
      BY <1>1, <1>3, <1>4, <2>1 DEF LexTypeOK
    <2>3. BoundsLeaveASolution' /\ ModelIsBounded'
      BY <1>1, <1>3, <2>1 DEF BoundsLeaveASolution, ModelIsBounded, Bounded, Within
    <2>4. BoundsAreSet'
      BY <1>1, <1>3, <1>4, <1>5, <2>1 DEF BoundsAreSet, Lexicographic
    <2>5. BoundsAreLeast'
      BY <1>3, <1>4, <1>5, <2>1 DEF BoundsAreLeast
    <2>6. QED
      BY <1>6, <2>2, <2>3, <2>4, <2>5
  <1>8. CASE a[1] \in Solved
    <2>1. a[2] \in built /\ a[2].total_tard \in Nat
      BY <1>2, <1>8 DEF LexTypeOK, Solution
    <2>2. s_star' = a[2].total_tard /\ s_star' # None
          /\ model' = {x \in model : x.total_tard <= s_star'}
      BY <1>1, <1>8, <2>1, NoneAssumption
    <2>3. LexTypeOK'
      BY <1>1, <1>3, <1>4, <2>1, <2>2 DEF LexTypeOK
    <2>4. BoundsLeaveASolution'
      BY <1>2, <1>8, <2>1, <2>2 DEF BoundsLeaveASolution
    <2>5. ModelIsBounded'
      BY <1>3, <1>5, <2>2 DEF ModelIsBounded, Bounded, Within
    <2>6. BoundsAreSet'
      BY <1>1, <1>3, <1>4, <1>5, <2>2 DEF BoundsAreSet, Lexicographic
    <2>7. \A x \in built : Within(x.max_tard, t_star) => x \in model
      BY <1>5 DEF ModelIsBounded, Bounded, Within
    <2>8. BoundsAreLeast'
      BY <1>2, <1>3, <1>4, <1>5, <2>2, <2>7 DEF BoundsAreLeast
    <2>9. QED
      BY <1>6, <2>3, <2>4, <2>5, <2>6, <2>8
  <1>9. QED
    BY <1>7, <1>8

LEMMA SolveBInv == LexInv /\ SolveB /\ UNCHANGED built => LexInv'
  <1> SUFFICES ASSUME LexInv, SolveB, UNCHANGED built PROVE LexInv'
    OBVIOUS
  <1> USE DEF LexInv
  <1>1. PICK a \in Answers(Makespan) :
          /\ answers' = [answers EXCEPT !.B = a[1]]
          /\ \/ a[1] \notin Solved /\ FallBack
             \/ /\ a[1] \in Solved
                /\ phase' = "C" /\ m_star' = a[2].makespan
                /\ model' = {x \in model : x.makespan <= m_star'}
                /\ UNCHANGED <<t_star, s_star, found, mode, lex_status>>
    BY DEF SolveB
  <1>2. /\ a[1] \in Statuses
        /\ a[1] \in Solved => a[2] \in model
        /\ a[1] = "OPTIMAL" => \A y \in model : a[2].makespan <= y.makespan
    BY AnswersOfMakespan
  <1>3. phase = "B"
    BY DEF SolveB
  <1>4. answers' \in [A : Statuses \cup {"NOT RUN"}, A2 : Statuses \cup {"NOT RUN"},
                      B : Statuses \cup {"NOT RUN"}, C : Statuses \cup {"NOT RUN"}]
        /\ answers'.B = a[1] /\ answers'.A = answers.A /\ answers'.A2 = answers.A2 /\ answers'.C = answers.C
    BY <1>1, <1>2 DEF LexTypeOK
  <1>5. CASE a[1] \notin Solved
    BY <1>1, <1>3, <1>4, <1>5, FallBackInv
  <1>6. CASE a[1] \in Solved
    <2>1. a[2] \in built /\ a[2].makespan \in Nat
      BY <1>2, <1>6 DEF LexTypeOK, Solution
    <2>2. m_star' = a[2].makespan /\ m_star' # None /\ phase' = "C"
          /\ model' = {x \in model : x.makespan <= m_star'}
          /\ UNCHANGED <<t_star, s_star, found, mode, lex_status>>
      BY <1>1, <1>6, <2>1, NoneAssumption
    <2>3. m_star = None /\ t_star # None /\ mode = "" /\ answers.C = "NOT RUN"
          /\ (answers.A2 = "OPTIMAL" => s_star # None)
      BY <1>3 DEF BoundsAreSet, Lexicographic
    <2>4. LexTypeOK'
      BY <1>4, <2>1, <2>2 DEF LexTypeOK
    <2>5. BoundsLeaveASolution'
      BY <1>2, <1>6, <2>1, <2>2 DEF BoundsLeaveASolution
    <2>6. ModelIsBounded'
      BY <2>2, <2>3 DEF ModelIsBounded, Bounded, Within
    <2>7. BoundsAreSet'
      BY <1>4, <2>2, <2>3 DEF BoundsAreSet, Lexicographic
    <2>8. \A x \in built : Within(x.max_tard, t_star) /\ Within(x.total_tard, s_star) => x \in model
      BY <2>3 DEF ModelIsBounded, Bounded, Within
    <2>9. BoundsAreLeast'
      BY <1>2, <1>4, <2>2, <2>8 DEF BoundsAreLeast, Within
    <2>10. FoundIsInModel'
      BY <2>2 DEF FoundIsInModel
    <2>11. QED
      BY <2>4, <2>5, <2>6, <2>7, <2>9, <2>10
  <1>7. QED
    BY <1>5, <1>6

LEMMA SolveCInv == LexInv /\ SolveC /\ UNCHANGED built => LexInv'
  <1> SUFFICES ASSUME LexInv, SolveC, UNCHANGED built PROVE LexInv'
    OBVIOUS
  <1> USE DEF LexInv
  <1>1. PICK a \in Answers(Soft) :
          /\ answers' = [answers EXCEPT !.C = a[1]]
          /\ \/ a[1] \notin Solved /\ phase' = "recover" /\ UNCHANGED <<found, mode, lex_status>>
             \/ /\ a[1] \in Solved
                /\ Give(a[2], "lex_min_time",
                        IF answers.B = "OPTIMAL" /\ a[1] = "OPTIMAL" THEN "OPTIMAL" ELSE "FEASIBLE")
    BY DEF SolveC
  <1>2. /\ a[1] \in Statuses
        /\ a[1] \in Solved => a[2] \in model
        /\ a[1] = "OPTIMAL" => \A y \in model : a[2].soft <= y.soft
    BY AnswersOfSoft
  <1>3. phase = "C" /\ UNCHANGED <<model, t_star, s_star, m_star>>
    BY DEF SolveC, limits
  <1>4. answers' \in [A : Statuses \cup {"NOT RUN"}, A2 : Statuses \cup {"NOT RUN"},
                      B : Statuses \cup {"NOT RUN"}, C : Statuses \cup {"NOT RUN"}]
        /\ answers'.C = a[1] /\ answers'.A = answers.A /\ answers'.A2 = answers.A2 /\ answers'.B = answers.B
    BY <1>1, <1>2 DEF LexTypeOK
  <1>5. m_star # None /\ t_star # None /\ mode = "" /\ (answers.A2 = "OPTIMAL" => s_star # None)
    BY <1>3 DEF BoundsAreSet, Lexicographic
  <1>6. ModelIsBounded' /\ BoundsAreLeast'
    BY <1>3, <1>4 DEF ModelIsBounded, Bounded, BoundsAreLeast
  <1>7. model # {}
    BY <1>3 DEF BoundsLeaveASolution
  <1>8. CASE a[1] \notin Solved
    <2>1. a[1] # "OPTIMAL" /\ phase' = "recover" /\ UNCHANGED <<found, mode, lex_status>>
      BY <1>1, <1>8 DEF Solved
    <2>2. LexTypeOK'
      BY <1>3, <1>4, <2>1 DEF LexTypeOK
    <2>3. BoundsLeaveASolution' /\ BoundsAreSet' /\ FoundIsInModel'
      BY <1>3, <1>4, <1>5, <1>7, <2>1 DEF BoundsLeaveASolution, BoundsAreSet, FoundIsInModel, Lexicographic
    <2>4. QED
      BY <1>6, <2>2, <2>3
  <1>9. CASE a[1] \in Solved
    <2>1. phase' = "done" /\ found' = a[2] /\ mode' = "lex_min_time" /\ lex_status' \in Solved
      BY <1>1, <1>9 DEF Give, Solved
    <2>2. LexTypeOK'
      BY <1>2, <1>3, <1>4, <1>9, <2>1 DEF LexTypeOK, Statuses
    <2>3. BoundsLeaveASolution' /\ BoundsAreSet'
      BY <1>3, <1>4, <1>5, <2>1 DEF BoundsLeaveASolution, BoundsAreSet, Lexicographic
    <2>4. FoundIsInModel'
      BY <1>2, <1>3, <1>4, <1>9, <2>1 DEF FoundIsInModel
    <2>5. QED
      BY <1>6, <2>2, <2>3, <2>4
  <1>10. QED
    BY <1>8, <1>9

LEMMA RecoverInv == LexInv /\ Recover /\ UNCHANGED built => LexInv'
  <1> SUFFICES ASSUME LexInv, Recover, UNCHANGED built PROVE LexInv'
    OBVIOUS
  <1> USE DEF LexInv
  <1>1. PICK a \in Answers(Makespan) :
          \/ a[1] \notin Solved /\ FallBack
          \/ a[1] \in Solved /\ Give(a[2], "lex_min_time", "FEASIBLE") /\ UNCHANGED <<model, limits>>
    BY DEF Recover
  <1>2. a[1] \in Solved => a[2] \in model
    BY AnswersOfMakespan
  <1>3. phase = "recover" /\ UNCHANGED answers
    BY DEF Recover
  <1>4. CASE a[1] \notin Solved
    <2>1. answers' \in [A : Statuses \cup {"NOT RUN"}, A2 : Statuses \cup {"NOT RUN"},
                        B : Statuses \cup {"NOT RUN"}, C : Statuses \cup {"NOT RUN"}]
      BY <1>3 DEF LexTypeOK
    <2>2. QED
      BY <1>1, <1>3, <1>4, <2>1, FallBackInv
  <1>5. CASE a[1] \in Solved
    <2>1. /\ phase' = "done" /\ found' = a[2] /\ mode' = "lex_min_time" /\ lex_status' = "FEASIBLE"
          /\ UNCHANGED <<model, t_star, s_star, m_star>>
      BY <1>1, <1>5 DEF Give, limits
    <2>2. LexTypeOK'
      <3>1. a[2] \in built /\ built' = built
        BY <1>2, <1>5 DEF LexTypeOK
      <3>2. "FEASIBLE" \in Statuses \cup {""}
        BY DEF Statuses, Solved
      <3>3. QED
        BY <1>3, <2>1, <3>1, <3>2 DEF LexTypeOK
    <2>3. BoundsLeaveASolution' /\ ModelIsBounded' /\ BoundsAreLeast'
      BY <1>3, <2>1 DEF BoundsLeaveASolution, ModelIsBounded, Bounded, BoundsAreLeast
    <2>4. BoundsAreSet' /\ FoundIsInModel'
      BY <1>2, <1>3, <1>5, <2>1 DEF BoundsAreSet, FoundIsInModel, Lexicographic
    <2>5. QED
      BY <2>2, <2>3, <2>4
  <1>6. QED
    BY <1>4, <1>5

LEMMA SolveWeightedInv == LexInv /\ SolveWeighted /\ UNCHANGED built => LexInv'
  <1> SUFFICES ASSUME LexInv, SolveWeighted, UNCHANGED built PROVE LexInv'
    OBVIOUS
  <1> USE DEF LexInv
  <1>1. PICK a \in Answers(Soft) : Give(a[2], "weighted_sum_fallback_from_lex", a[1])
    BY DEF SolveWeighted
  <1>2. a[1] \in Statuses /\ a[2] \in model \cup {None}
    BY AnswersOfSoft
  <1>3. UNCHANGED <<model, t_star, s_star, m_star, answers>> /\ phase = "weighted"
    BY DEF SolveWeighted, limits
  <1>4. /\ phase' = "done" /\ found' = a[2] /\ lex_status' = a[1]
        /\ mode' = "weighted_sum_fallback_from_lex"
    BY <1>1 DEF Give
  <1>5. LexTypeOK'
    BY <1>2, <1>3, <1>4 DEF LexTypeOK
  <1>6. BoundsLeaveASolution' /\ ModelIsBounded' /\ BoundsAreLeast'
    BY <1>3, <1>4 DEF BoundsLeaveASolution, ModelIsBounded, Bounded, BoundsAreLeast
  <1>7. BoundsAreSet' /\ FoundIsInModel'
    BY <1>3, <1>4 DEF BoundsAreSet, FoundIsInModel, Lexicographic
  <1>8. QED
    BY <1>5, <1>6, <1>7

LEMMA LexStep == LexInv /\ [LexNext]_lexVars => LexInv'
  <1> SUFFICES ASSUME LexInv, [LexNext]_lexVars PROVE LexInv'
    OBVIOUS
  <1>1. CASE SolveA /\ UNCHANGED built
    BY <1>1, SolveAInv
  <1>2. CASE SolveA2 /\ UNCHANGED built
    BY <1>2, SolveA2Inv
  <1>3. CASE SolveB /\ UNCHANGED built
    BY <1>3, SolveBInv
  <1>4. CASE SolveC /\ UNCHANGED built
    BY <1>4, SolveCInv
  <1>5. CASE Recover /\ UNCHANGED built
    BY <1>5, RecoverInv
  <1>6. CASE SolveWeighted /\ UNCHANGED built
    BY <1>6, SolveWeightedInv
  <1>7. CASE UNCHANGED lexVars
    <2>1. UNCHANGED <<phase, built, model, t_star, s_star, m_star, answers, found, mode, lex_status>>
      BY <1>7 DEF lexVars, limits
    <2>2. LexTypeOK' /\ BoundsLeaveASolution'
      <3>1. LexTypeOK /\ BoundsLeaveASolution
        BY DEF LexInv
      <3>2. LexTypeOK'
        <4>1. /\ phase' = phase /\ built' = built /\ model' = model /\ found' = found
              /\ t_star' = t_star /\ s_star' = s_star /\ m_star' = m_star
              /\ answers' = answers /\ mode' = mode /\ lex_status' = lex_status
          BY <2>1
        <4>2. answers' \in [A : Statuses \cup {"NOT RUN"}, A2 : Statuses \cup {"NOT RUN"},
                            B : Statuses \cup {"NOT RUN"}, C : Statuses \cup {"NOT RUN"}]
          BY <3>1, <4>1 DEF LexTypeOK
        <4>3. /\ built' \in SUBSET Solution /\ model' \in SUBSET built'
              /\ found' \in built' \cup {None}
          BY <3>1, <4>1 DEF LexTypeOK
        <4>4. /\ t_star' \in Nat \cup {None} /\ s_star' \in Nat \cup {None} /\ m_star' \in Nat \cup {None}
              /\ phase' \in {"A", "A2", "B", "C", "recover", "weighted", "done"}
          BY <3>1, <4>1 DEF LexTypeOK
        <4>5. /\ mode' \in {"", "lex_min_time", "weighted_sum_fallback_from_lex"}
              /\ lex_status' \in Statuses \cup {""}
          BY <3>1, <4>1 DEF LexTypeOK
        <4>6. QED
          BY <4>2, <4>3, <4>4, <4>5 DEF LexTypeOK
      <3>3. QED
        BY <2>1, <3>1, <3>2 DEF BoundsLeaveASolution
    <2>3. ModelIsBounded' /\ BoundsAreLeast'
      BY <2>1 DEF LexInv, ModelIsBounded, Bounded, BoundsAreLeast
    <2>4. BoundsAreSet' /\ FoundIsInModel'
      BY <2>1 DEF LexInv, BoundsAreSet, FoundIsInModel, Lexicographic
    <2>5. QED
      BY <2>2, <2>3, <2>4 DEF LexInv
  <1>8. QED
    BY <1>1, <1>2, <1>3, <1>4, <1>5, <1>6, <1>7 DEF LexNext

-----------------------------------------------------------------------------
(* What the solver holds at each phase is the built model cut down by the  *)
(* bounds of the phases before, and never empty (solve_lex_min_time adds   *)
(* each bound as a hard constraint).                                       *)
THEOREM LexInvariant == LexSpec => []LexInv
  BY LexInitInv, LexStep, PTL DEF LexSpec

(* After a bound no phase can be infeasible: the fallback of phases B and  *)
(* C answers a time limit and nothing else.                                *)
THEOREM NoPhaseIsInfeasible == LexSpec => []BoundsLeaveASolution
  <1>1. LexInv => BoundsLeaveASolution
    BY DEF LexInv
  <1>2. QED
    BY <1>1, LexInvariant, PTL

(* The soft terms never buy back a delay or a longer plan, whatever phase  *)
(* the time limit has cut off.                                             *)
THEOREM BoundsAreKept == LexSpec => []PhasesKeepEarlierOnes
  <1>1. LexInv => PhasesKeepEarlierOnes
    <2> SUFFICES ASSUME LexInv, phase = "done", mode = "lex_min_time"
                 PROVE  /\ found \in built /\ t_star # None /\ m_star # None
                        /\ found.max_tard <= t_star /\ Within(found.total_tard, s_star)
                        /\ found.makespan <= m_star
      BY DEF PhasesKeepEarlierOnes
    <2>1. found \in model /\ found \in built
      BY DEF LexInv, FoundIsInModel, LexTypeOK
    <2>2. t_star # None /\ m_star # None
      BY DEF LexInv, BoundsAreSet, Lexicographic
    <2>3. QED
      BY <2>1, <2>2 DEF LexInv, ModelIsBounded, Bounded, Within
  <1>2. QED
    BY <1>1, LexInvariant, PTL

(* Solving the phases one after the other is solving them together: if     *)
(* each has proved its optimum, no solution of the model comes before the  *)
(* one that is given, in the order of delay, delays, makespan, soft terms. *)
THEOREM PhasesAreLexicographic == LexSpec => []LexOptimal
  <1>1. LexInv => LexOptimal
    <2> SUFFICES ASSUME LexInv, phase = "done", mode = "lex_min_time",
                        answers = [A |-> "OPTIMAL", A2 |-> "OPTIMAL", B |-> "OPTIMAL", C |-> "OPTIMAL"],
                        NEW x \in built, Better(x, found)
                 PROVE  FALSE
      BY DEF LexOptimal
    <2>1. found \in model /\ found \in built /\ \A y \in model : found.soft <= y.soft
      BY DEF LexInv, FoundIsInModel, LexTypeOK
    <2>2. t_star # None /\ s_star # None /\ m_star # None
      BY DEF LexInv, BoundsAreSet, Lexicographic
    <2>3. t_star \in Nat /\ s_star \in Nat /\ m_star \in Nat /\ x \in Solution /\ found \in Solution
      BY <2>1, <2>2 DEF LexInv, LexTypeOK
    <2>4. /\ x.max_tard \in Nat /\ x.total_tard \in Nat /\ x.makespan \in Nat /\ x.soft \in Int
          /\ found.max_tard \in Nat /\ found.total_tard \in Nat /\ found.makespan \in Nat /\ found.soft \in Int
      BY <2>3 DEF Solution
    <2>5. found.max_tard <= t_star /\ found.total_tard <= s_star /\ found.makespan <= m_star
      BY <2>1, <2>2 DEF LexInv, ModelIsBounded, Bounded, Within
    <2>6. t_star <= x.max_tard
      BY <2>2 DEF LexInv, BoundsAreLeast
    <2>7. ~(x.max_tard < found.max_tard)
      BY <2>3, <2>4, <2>5, <2>6
    <2>8. x.max_tard = found.max_tard => s_star <= x.total_tard
      BY <2>2, <2>5 DEF LexInv, BoundsAreLeast, Within
    <2>9. ~(x.max_tard = found.max_tard /\ x.total_tard < found.total_tard)
      BY <2>3, <2>4, <2>5, <2>8
    <2>10. x.max_tard = found.max_tard /\ x.total_tard = found.total_tard => m_star <= x.makespan
      BY <2>2, <2>5 DEF LexInv, BoundsAreLeast, Within
    <2>11. ~(x.max_tard = found.max_tard /\ x.total_tard = found.total_tard /\ x.makespan < found.makespan)
      BY <2>3, <2>4, <2>5, <2>10
    <2>12. x.max_tard = found.max_tard /\ x.total_tard = found.total_tard /\ x.makespan = found.makespan
             => x \in model
      BY <2>5 DEF LexInv, ModelIsBounded, Bounded, Within
    <2>13. QED
      BY <2>1, <2>4, <2>7, <2>9, <2>11, <2>12 DEF Better
  <1>2. QED
    BY <1>1, LexInvariant, PTL

=============================================================================
