---------------------------- MODULE MCDeployment ----------------------------
(***************************************************************************)
(* A mintable token and one that exists.  The operator first deploys a     *)
(* pool with a double oracle; then he changes the oracle's options, takes  *)
(* another adapter for the dex, and adds a dex, a pool with a Pendle       *)
(* oracle and a keeper.                                                    *)
(***************************************************************************)
EXTENDS Deployment

CONSTANTS weth

Tokens == <<[id |-> "usdc", symbol |-> "fUSDC"]>>
Setting(options) == [pair |-> "usdc-weth", options |-> options]
Double(options) == [id |-> "double", kind |-> "uniswapV3Double", settings |-> <<Setting(options)>>]
Chainlink == [id |-> "feed", kind |-> "chainlink", settings |-> <<Setting(3)>>]
Pendle == [id |-> "pendle", kind |-> "pendle", settings |-> <<Setting("double")>>]
Pool(id, oracle) == [id |-> id, quote |-> "usdc", base |-> weth, oracle |-> oracle]

MCConfigs == <<
  [tokens |-> Tokens, oracles |-> <<Double(1)>>,
   adapters |-> <<[name |-> "UniswapV3Adapter", dexId |-> 0]>>,
   pools |-> <<Pool("p1", "double")>>, keepers |-> <<>>],
  [tokens |-> Tokens, oracles |-> <<Double(2), Pendle, Chainlink>>,
   adapters |-> <<[name |-> "RamsesAdapter", dexId |-> 0], [name |-> "UniswapV3Adapter", dexId |-> 1]>>,
   pools |-> <<Pool("p1", "double"), Pool("p2", "pendle")>>, keepers |-> <<"aave">>] >>
=============================================================================
