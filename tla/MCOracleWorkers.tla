-------------------------- MODULE MCOracleWorkers --------------------------
(***************************************************************************)
(* Two workers: w1 has two mocks, one of whose prices is the product of    *)
(* two sources; w2 has one mock, which it does not validate.               *)
(***************************************************************************)
EXTENDS OracleWorkers, TLC

CONSTANTS w1, w2, mock1, mock2, mock3, eth, arb, s1, s2, s3

MCSources == (eth :> {s1}) @@ (arb :> {s2, s3})
MCJobs == (w1 :> <<mock1, mock2>>) @@ (w2 :> <<mock3>>)
MCPriceOf == (mock1 :> arb) @@ (mock2 :> eth) @@ (mock3 :> arb)
=============================================================================
