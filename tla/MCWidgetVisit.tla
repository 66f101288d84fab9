---------------------------- MODULE MCWidgetVisit ----------------------------
(***************************************************************************)
(* WidgetVisit with two script tags, and, in behaviours of their own, the  *)
(* api's rate limiters: the two share no state.                            *)
(***************************************************************************)
EXTENDS WidgetVisit, RateLimiters

Visit(q, c, h, l) == [asked |-> q, calls |-> c, hides |-> h, losses |-> l]

\* A page hidden during its calls; Redis lost twice in a question and its retry.
SmallBudgets == {Visit(2, 3, 1, 0), Visit(1, 2, 0, 2)}

MCInit ==
    /\ Init /\ LimiterInit
    /\ watched # "none" => budget = Visit(1, 2, 0, 2)

\* Bound: of the three turns of a visit two run at the same time.
Pairwise == Cardinality({t \in Turn : pc'[t] \notin {"new", "replied", "failed"}}) <= 2

MCNext ==
    \/ watched = "none" /\ Next /\ Pairwise /\ UNCHANGED limiterVars
    \/ LimiterNext /\ UNCHANGED vars

MCSpec == MCInit /\ [][MCNext]_<<vars, limiterVars>> /\ WF_vars(watched = "none" /\ Proceed)
=============================================================================
