SPECIFICATION PaymentsSpec
CONSTANTS
  NOrders = 2
  Handlers = {h1}
  Price = 3
  FeeBps = 5000
  MaxPayouts = 1
  MaxFails = 1
INVARIANTS BalanceMatchesSales AccessFollowsPayment
PROPERTIES EveryOrderIsDecided 
CHECK_DEADLOCK FALSE
