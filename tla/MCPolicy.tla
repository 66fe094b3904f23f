------------------------------ MODULE MCPolicy ------------------------------
(***************************************************************************)
(* Small instances of PolicyHistory.                                       *)
(***************************************************************************)
EXTENDS PolicyHistory, TLC

CONSTANTS t1, t2, s1, s2, s3, loop, loopRule

\* A policy with no cap and no pattern.
Free(v) ==
    [version |-> v, kill |-> FALSE, sessionBudget |-> Unlimited,
     orgBudget |-> Unlimited, orgSpend |-> 0, velocity |-> Unlimited,
     patterns |-> {}]

\* A budget, a lower one with a waste pattern, the kill-switch, an org budget.
SessionPolicies ==
    {[Free(1) EXCEPT !.sessionBudget = 2],
     [Free(2) EXCEPT !.sessionBudget = 1, !.patterns = {loop}],
     [Free(3) EXCEPT !.kill = TRUE],
     [Free(4) EXCEPT !.orgBudget = 2, !.orgSpend = 1]}

\* A pattern listed by the rule's name.
OneRulePattern == {[Free(1) EXCEPT !.patterns = {loopRule}]}

\* Org budgets; the second comes with a velocity cap.
OrgPolicies ==
    {[Free(1) EXCEPT !.orgBudget = 2, !.orgSpend = 1],
     [Free(2) EXCEPT !.orgBudget = 3, !.orgSpend = 2, !.velocity = 1]}

MCRuleOf == [k \in Patterns |-> loopRule]

Guarded1 == t1 :> "guarded"
Unguarded1 == t1 :> "unguarded"
Guarded2 == (t1 :> "guarded") @@ (t2 :> "guarded")
Unguarded1Probe1 == (t1 :> "unguarded") @@ (t2 :> "probe")

\* Sessions are interchangeable, and so are threads of one role.
SessionSymmetry == Permutations(Sessions)
ThreadSymmetry == Permutations(Threads)
=============================================================================
