-------------------------- MODULE MCPromptRegistry --------------------------
(* Instances of PromptRegistry: three prompt files, one of each schema_mode, *)
(* and two deploys, the second with the batch prompt edited.                 *)
EXTENDS PromptRegistry, TLC

CONSTANTS v1, v4, v5

MCVariants == <<v4, v5>>
MCSidecarMode == (v1 :> "legacy") @@ (v4 :> "single") @@ (v5 :> "batch")
MCTexts == 1..2
AsShipped == [f \in Files |-> 1]
MCDeployments == {AsShipped, [AsShipped EXCEPT ![v5] = 2]}

Symmetry == Permutations(Readers) \cup Permutations(Operators)

=============================================================================
