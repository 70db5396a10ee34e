---------------------------- MODULE MCScheduler ----------------------------
(***************************************************************************)
(* Small configurations of Scheduler for TLC.                              *)
(***************************************************************************)
EXTENDS Scheduler, TLC

Symmetry == Permutations(Requests)

\* One shared pool of 4 units.
SharedPools  == {"default"}
SharedBudget == [p \in SharedPools |-> 4]

\* An exclusive pool with a member of cap 2 and one of cap 1 beside the default
\* pool, all of 4 units.  In the default pool a chat request costs 1 and a heavy
\* one 3 (its weight 4 is clamped by leave_room), rerank has a cap of 1 and costs
\* 1, and bulk declares no cap and a default cost that exceeds the pool.  The slot
\* is full_pool: a heavy request of small takes all of it, and the budget would
\* let two members in together.
MutexModels    == {"small", "large", "chat", "rerank", "bulk"}
MutexPools     == {"slot", "default"}
MutexPoolOf    == [m \in MutexModels |-> IF m \in {"small", "large"} THEN "slot" ELSE "default"]
MutexCap       == ("small" :> 2) @@ ("large" :> 1) @@ ("chat" :> 4) @@ ("rerank" :> 1) @@ ("bulk" :> 0)
MutexCost      == [m \in MutexModels |-> IF m = "large" THEN 2 ELSE IF m = "rerank" THEN 1 ELSE 0]
MutexBudget    == [p \in MutexPools |-> 4]

\* One pool and one model whose requests cost 1 or, heavy, 3; a key whose
\* ceiling the operator changes at run time.
AgingModels == {"chat", "rerank"}
AgingPoolOf == [m \in AgingModels |-> "default"]
AgingCap    == ("chat" :> 4) @@ ("rerank" :> 1)
AgingCost   == [m \in AgingModels |-> 0]
=============================================================================
