SPECIFICATION FairKeeperSpec
CONSTANTS
  tech = tech
  alice = alice
  bob = bob
  carol = carol
  keeper = keeper
  signer = signer
  Accounts <- KeeperAccounts
  NoAccount = nobody
  TechPositionOwner = tech
  KeeperContract = keeper
  Signer = signer
  LoanFee = 1
  MinProfit = 1
  KeeperTypes = {"reinit", "aave", "uniswapV3", "balancer"}
  Lendable = {"quote"}
  Q96 = 7921
  Q48 = 89
  WHOLE_ONE = 1000
  SECONDS_IN_YEAR = 10
  Uint96Max = 1000
  Uint128 = 1000000000
  Traders <- KeeperTraders
  Calls <- KeeperCalls
  Markets <- KeeperMarkets
  ParamSets <- LowerLeverage
  Donations <- NoDonations
  RescueAmount = 0
  MaxTime = 2
  MaxTxs = 1
INVARIANTS
  KeeperTypeOK
  KeeperEndsWithoutPosition
  WatcherAccruesLikeThePool
  OverleveragedIsReported
PROPERTIES
  OthersAreUntouched
  QuietPoolGetsClean
  KeeperStops
CHECK_DEADLOCK FALSE
