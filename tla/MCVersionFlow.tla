---------------------------- MODULE MCVersionFlow ----------------------------
(* A main line, a maintenance line and a feature branch; two groups.        *)
EXTENDS VersionFlow

MCBranches == {"main", "v1", "feature/x"}
MCMainlines == {"main", "v1"}
MCBranchIds == [b \in MCBranches |-> IF b = "feature/x" THEN <<Word("feature"), Word("x")>>
                                     ELSE <<Word(b)>>]
MCGroupSeq == <<[name |-> "MAIN", names |-> <<"core", "cli">>],
                [name |-> "LTS", names |-> <<"old">>]>>
MCFiles ==
    [b \in MCBranches |->
       [g \in {"MAIN", "LTS"} |->
          IF g = "LTS" THEN Ver(<<1, 0, 0>>, <<Word("rc"), Num(1)>>)
          ELSE IF b = "v1" THEN Stable(<<1, 9, 0>>) ELSE Ver(<<2, 0, 0>>, <<Word("alpha"), Num(0)>>)]]
=============================================================================
