-------------------------- MODULE MCPhase6Control --------------------------
(* Phase6Control with two remaining jobs and amounts of a few units. *)
EXTENDS Phase6Control

Bootstrap == [operation |-> "checkpoint_bootstrap", release |-> 1]
Validation == [operation |-> "gpu_validation", release |-> 2]
MCProposals == {Bootstrap, Validation}

Budget(rate, cold, normal, worst, hard, balance) ==
    [rate |-> rate, expectedCold |-> 1, cold |-> cold, bootstrap |-> 1, validation |-> 1,
     disk |-> 1, incurred |-> 1, normal |-> normal, worst |-> worst, hard |-> hard,
     balance |-> balance]

\* With two workers, an execution of 1 and 1 idle second a job costs at most
\* 2 * (cold + 2) * rate.
Cheap == Budget(1, 1, 14, 14, 20, 19)
Slow == Budget(1, 2, 14, 18, 20, 19)
\* Prices one job instead of two, and one that the account does not cover.
Understated == Budget(1, 4, 14, 14, 20, 19)
Uncovered == Budget(1, 2, 14, 18, 20, 16)
MCBudgets == {Cheap, Slow, Understated, Uncovered}

Approve(p, b) == [proposal |-> p, budget |-> b]
MCApprovals == {Approve(Bootstrap, Cheap), Approve(Validation, Slow),
                Approve(Validation, Understated), Approve(Validation, Uncovered)}
=============================================================================
