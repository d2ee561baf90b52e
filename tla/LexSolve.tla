------------------------------ MODULE LexSolve ------------------------------
(***************************************************************************)
(* The solver of a plan in lexicographic order (lex_min_time.py, and       *)
(* run_solver of _solver_runner.py): the largest delay first, then the sum *)
(* of the delays, then the makespan, then the weighted soft terms.  Each   *)
(* phase leaves its value behind as a constraint of the same model for the *)
(* phases that follow.                                                     *)
(*                                                                         *)
(* The solver is any solver: within its time it proves an optimum, or      *)
(* finds some solution, or finds none; it reports infeasibility only of    *)
(* what has no solution.  A rerun of it begins anew, so that between two   *)
(* phases nothing is kept but the bounds.                                  *)
(***************************************************************************)
EXTENDS Integers

CONSTANTS
    Assignments,          \* what the variables of the model may be
    None             \* no value, no solution

ASSUME NoneAssumption == None \notin [choice : Assignments, max_tard : Nat, total_tard : Nat, makespan : Nat, soft : Int]
                         /\ None \notin Int

(* The choices, with the largest delay, the sum of the delays, when the    *)
(* last group ends, and the weighted objective.                            *)
Solution == [choice : Assignments, max_tard : Nat, total_tard : Nat, makespan : Nat, soft : Int]

Solved   == {"OPTIMAL", "FEASIBLE"}
Statuses == Solved \cup {"INFEASIBLE", "UNKNOWN"}

VARIABLES
    phase,           \* what is solved next: "A", "A2", "B", "C", "recover", "weighted", or "done"
    built,           \* what satisfies the model as it was built
    model,           \* what satisfies the constraints that were added so far, too
    t_star,          \* max_tard <= t_star, once phase A has set it
    s_star,          \* total_tard <= s_star, if phase A2 has found a solution
    m_star,          \* makespan <= m_star, from phase C on
    answers,         \* the solver's answer to each phase that was run
    found,           \* the solution that the caller gets
    mode,            \* solver_mode
    lex_status       \* lex_status, or that of the weighted solver

limits == <<t_star, s_star, m_star>>

lexVars == <<phase, built, model, limits, answers, found, mode, lex_status>>

Least(f(_), S) == {x \in S : \A y \in S : f(x) <= f(y)}

MaxTard(x)   == x.max_tard
TotalTard(x) == x.total_tard
Makespan(x)  == x.makespan
Soft(x)      == x.soft

(* What the solver may answer when it minimises f over the model, and with *)
(* what solution.                                                          *)
Answers(f(_)) ==
    {<<"OPTIMAL", x>> : x \in Least(f, model)} \cup {<<"FEASIBLE", x>> : x \in model}
      \cup {<<"UNKNOWN", None>>}
      \cup (IF model = {} THEN {<<"INFEASIBLE", None>>} ELSE {})

Give(x, as, with) ==
    /\ phase' = "done" /\ found' = x /\ mode' = as /\ lex_status' = with

(* run_solver: the model is built again, without the constraints.          *)
FallBack ==
    /\ phase' = "weighted" /\ model' = built
    /\ t_star' = None /\ s_star' = None /\ m_star' = None
    /\ UNCHANGED <<found, mode, lex_status>>

-----------------------------------------------------------------------------
(* Mutant: the largest delay that was found does not become a bound.       *)
SolveAUnbounded ==
    /\ phase = "A"
    /\ \E a \in Answers(MaxTard) :
          /\ answers' = [answers EXCEPT !.A = a[1]]
          /\ \/ a[1] \notin Solved /\ FallBack
             \/ /\ a[1] \in Solved
                /\ phase' = "A2" /\ t_star' = a[2].max_tard
                /\ UNCHANGED <<model, s_star, m_star, found, mode, lex_status>>

SolveA ==
    /\ phase = "A"
    /\ \E a \in Answers(MaxTard) :
          /\ answers' = [answers EXCEPT !.A = a[1]]
          /\ \/ a[1] \notin Solved /\ FallBack
             \/ /\ a[1] \in Solved
                /\ phase' = "A2" /\ t_star' = a[2].max_tard
                /\ model' = {x \in model : x.max_tard <= t_star'}
                /\ UNCHANGED <<s_star, m_star, found, mode, lex_status>>

(* Whatever it finds is a bound; if it finds nothing there is none.        *)
SolveA2 ==
    /\ phase = "A2"
    /\ \E a \in Answers(TotalTard) :
          /\ answers' = [answers EXCEPT !.A2 = a[1]]
          /\ \/ a[1] \notin Solved /\ UNCHANGED <<s_star, model>>
             \/ /\ a[1] \in Solved
                /\ s_star' = a[2].total_tard
                /\ model' = {x \in model : x.total_tard <= s_star'}
          /\ phase' = "B"
    /\ UNCHANGED <<t_star, m_star, found, mode, lex_status>>

SolveB ==
    /\ phase = "B"
    /\ \E a \in Answers(Makespan) :
          /\ answers' = [answers EXCEPT !.B = a[1]]
          /\ \/ a[1] \notin Solved /\ FallBack
             \/ /\ a[1] \in Solved
                /\ phase' = "C" /\ m_star' = a[2].makespan
                /\ model' = {x \in model : x.makespan <= m_star'}
                /\ UNCHANGED <<t_star, s_star, found, mode, lex_status>>

SolveC ==
    /\ phase = "C"
    /\ \E a \in Answers(Soft) :
          /\ answers' = [answers EXCEPT !.C = a[1]]
          /\ \/ a[1] \notin Solved /\ phase' = "recover" /\ UNCHANGED <<found, mode, lex_status>>
             \/ /\ a[1] \in Solved
                /\ Give(a[2], "lex_min_time",
                        IF answers.B = "OPTIMAL" /\ a[1] = "OPTIMAL" THEN "OPTIMAL" ELSE "FEASIBLE")
    /\ UNCHANGED <<model, limits>>

(* Phase C found nothing: the makespan is minimised once more, and if that *)
(* finds nothing either, what phase B had found is lost.                   *)
Recover ==
    /\ phase = "recover"
    /\ \E a \in Answers(Makespan) :
          \/ a[1] \notin Solved /\ FallBack
          \/ a[1] \in Solved /\ Give(a[2], "lex_min_time", "FEASIBLE") /\ UNCHANGED <<model, limits>>
    /\ UNCHANGED answers

(* The weighted sum alone, when the lexicographic solver has failed.       *)
SolveWeighted ==
    /\ phase = "weighted"
    /\ \E a \in Answers(Soft) : Give(a[2], "weighted_sum_fallback_from_lex", a[1])
    /\ UNCHANGED <<model, limits, answers>>

Unsolved ==
    /\ t_star = None /\ s_star = None /\ m_star = None
    /\ answers = [A |-> "NOT RUN", A2 |-> "NOT RUN", B |-> "NOT RUN", C |-> "NOT RUN"]
    /\ found = None /\ mode = "" /\ lex_status = ""

LexInit == phase = "A" /\ built \in SUBSET Solution /\ model = built /\ Unsolved

LexNext ==
    /\ SolveA \/ SolveA2 \/ SolveB \/ SolveC \/ Recover \/ SolveWeighted
    /\ UNCHANGED built

LexSpec == LexInit /\ [][LexNext]_lexVars

-----------------------------------------------------------------------------
(* Properties *)

(* Nothing that is not a solution of the model is ever given.              *)
LexTypeOK ==
    /\ phase \in {"A", "A2", "B", "C", "recover", "weighted", "done"}
    /\ built \in SUBSET Solution /\ model \in SUBSET built
    /\ t_star \in Nat \cup {None} /\ s_star \in Nat \cup {None} /\ m_star \in Nat \cup {None}
    /\ answers \in [A : Statuses \cup {"NOT RUN"}, A2 : Statuses \cup {"NOT RUN"},
                   B : Statuses \cup {"NOT RUN"}, C : Statuses \cup {"NOT RUN"}]
    /\ found \in built \cup {None}
    /\ mode \in {"", "lex_min_time", "weighted_sum_fallback_from_lex"}
    /\ lex_status \in Statuses \cup {""}

Within(value, limit) == limit = None \/ value <= limit

(* What the lexicographic solver returns keeps the bound of every phase    *)
(* before: the soft terms never buy back a delay or a longer plan, however *)
(* early each phase was cut off (the comments on hard bounds of            *)
(* solve_lex_min_time).                                                    *)
PhasesKeepEarlierOnes ==
    phase = "done" /\ mode = "lex_min_time" =>
       /\ found \in built /\ t_star # None /\ m_star # None
       /\ found.max_tard <= t_star /\ Within(found.total_tard, s_star) /\ found.makespan <= m_star

(* A phase that has bounded the model always leaves a solution of it: no   *)
(* later phase can be infeasible, and the fallback of phases B and C only  *)
(* ever answers a time limit.                                              *)
BoundsLeaveASolution ==
    phase \in {"A2", "B", "C", "recover"} => model # {}

(* x is before y, in the order of the phases.                              *)
Better(x, y) ==
    \/ x.max_tard < y.max_tard
    \/ x.max_tard = y.max_tard /\ x.total_tard < y.total_tard
    \/ x.max_tard = y.max_tard /\ x.total_tard = y.total_tard /\ x.makespan < y.makespan
    \/ /\ x.max_tard = y.max_tard /\ x.total_tard = y.total_tard /\ x.makespan = y.makespan
       /\ x.soft < y.soft

(* If every phase proves its optimum, the plan is the best of all in the   *)
(* order of the phases: solving them one after the other is solving them   *)
(* together.                                                               *)
LexOptimal ==
    /\ phase = "done" /\ mode = "lex_min_time"
    /\ answers = [A |-> "OPTIMAL", A2 |-> "OPTIMAL", B |-> "OPTIMAL", C |-> "OPTIMAL"]
    => \A x \in built : ~Better(x, found)

(* The comment of _solver_runner.py on lex_status, by which auto_schedule  *)
(* gives up its boosted retry: "OPTIMAL" means that phases A and B both    *)
(* were, so that no plan has a smaller largest delay.  Violated: the       *)
(* answer of phase A is not part of the status.                           *)
OptimalStatusIsOptimal ==
    phase = "done" /\ mode = "lex_min_time" /\ lex_status = "OPTIMAL"
    => \A x \in built : t_star <= x.max_tard

=============================================================================
