------------------------------ MODULE MCYieldJobs ------------------------------
(* An instance of YieldJobs. *)
EXTENDS YieldJobs

CONSTANT u1

\* Two pools with every combination of what the ranker looks at.
MCPool == [liquidity: {1, 2}, utilized: BOOLEAN, apy: {1, 3}, history: {<<>>, <<2>>, <<1, 5>>}]
MCPools == {<<p, q>> : p, q \in MCPool}
================================================================================
