------------------------------- MODULE MCHost -------------------------------
(* Two checks that need elevation, over every kind of target.              *)
EXTENDS Host

MCPlan == <<[profile |-> 1, canary |-> FALSE, elevated |-> TRUE, use |-> "none"],
            [profile |-> 1, canary |-> FALSE, elevated |-> TRUE, use |-> "none"]>>
=============================================================================
