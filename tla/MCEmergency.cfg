SPECIFICATION EmergencySpec
CONSTANTS
  tech = tech
  alice = alice
  bob = bob
  carol = carol
  dave = dave
  erin = erin
  Accounts <- MCAccounts
  NoAccount = nobody
  TechPositionOwner = tech
  Q96 = 10000
  Q48 = 100
  WHOLE_ONE = 1000
  SECONDS_IN_YEAR = 10
  Uint96Max = 1000
  Uint128 = 1000000000
  Traders <- EmergencyTraders
  Calls <- EmergencyCalls
  Markets <- EmergencyMarkets
  ParamSets <- TradingParams
  Donations <- NoDonations
  RescueAmount = 1000
  MaxTime = 2
  MaxTxs = 4
INVARIANTS
  EmergencyIsFunded
  AmountsAreBooked
PROPERTIES
  OthersAreUntouched
