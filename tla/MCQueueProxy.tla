---------------------------- MODULE MCQueueProxy ----------------------------
(***************************************************************************)
(* Small configurations of QueueProxy for TLC.                             *)
(***************************************************************************)
EXTENDS QueueProxy, TLC

\* A model with a breaker and a prompt ceiling beside one whose engine does not
\* abort, in one pool of 2 units; a cost of 3 is never admitted.
MCPoolOf  == ("chat" :> "default") @@ ("slot" :> "default")
MCCap     == ("chat" :> 2) @@ ("slot" :> 1)
MCBudget  == [p \in {"default"} |-> 2]
MCCostsOf == ("chat" :> {1, 3}) @@ ("slot" :> {2})
=============================================================================
