--------------------------- MODULE MCVerdictFold ---------------------------
(* Four networks: one without forks and with two leaves, one whose gate is
   fixed once, one that quarantines after a change of policy, and the one of
   the recheck that finds its candidate superseded. *)
EXTENDS VerdictFold

Scenario(forks, leaves, deadline, fuels, heights, logsPerHeight) ==
    [forks |-> forks, leaves |-> leaves, solve_deadline |-> deadline, fuels |-> fuels,
     heights |-> heights, logs |-> logsPerHeight]

NoForks == [h \in {} |-> ""]
OneFix == [h \in {8} |-> "kernel-fix"]
PolicyThenQuarantine == [h \in {5, 8} |-> IF h = 5 THEN "policy" ELSE "quarantine"]

MCScenarios ==
    {Scenario(NoForks, {"l1", "l2"}, 4, {0}, 9, 2),
     Scenario(OneFix, {"l1"}, 1, {0, 2}, 15, 3),
     Scenario(PolicyThenQuarantine, {"l1"}, 1, {0, 2}, 11, 4)}
RecheckScenario == {Scenario(OneFix, {"l1"}, 1, {0}, 11, 4)}
=============================================================================
