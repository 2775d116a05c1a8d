-------------------------- MODULE MCDevnetPosting --------------------------
(* The whole submission from its commit on, with a cancel; an opened one whose
   two parts share the budget of a head; and one part with two failures and a
   block that is replaced. *)
EXTENDS DevnetPosting

CommitFinal == << [stage |-> CommitStage, st |-> "ok", at |-> 1] >>
OpenFinal == Append(CommitFinal, [stage |-> OpenStage, st |-> "ok", at |-> 2])

Scenario(parts, w, past, cancel, heads, signed, failures, replaced) ==
    [parts |-> parts, w |-> w, past |-> past, cancel |-> cancel, heads |-> heads,
     txs |-> signed, faults |-> failures, reorgs |-> replaced]

MCScenarios ==
    {Scenario({1}, 4, <<>>, TRUE, 5, 3, 1, 0),
     Scenario({1, 2}, 9, OpenFinal, FALSE, 5, 4, 1, 0),
     Scenario({1}, 9, OpenFinal, FALSE, 6, 4, 2, 1)}
=============================================================================
