SPECIFICATION TradingSpec
CONSTANTS
  tech = tech
  alice = alice
  bob = bob
  carol = carol
  dave = dave
  erin = erin
  Accounts <- MCAccounts
  NoAccount = nobody
  TechPositionOwner = tech
  Q96 = 10000
  Q48 = 100
  WHOLE_ONE = 1000
  SECONDS_IN_YEAR = 10
  Uint96Max = 1000
  Uint128 = 1000000000
  Traders <- MCTraders
  Calls <- TradingCalls
  Markets <- TradingMarkets
  ParamSets <- TradingParams
  Donations <- NoDonations
  RescueAmount = 1000
  MaxTime = 3
  MaxTxs = 3
INVARIANTS
  TypeOK
  AggregatesAreSums
  HeapsMatchPositions
  RootIsCalledFirst
  CallerKeepsGoodLeverage
  BooksBalance
PROPERTIES
  OthersAreUntouched
  LossesComeFromMarginCalls
