\* The loop of the backtester on every peculiarity of the market data.
CONSTANTS
    x = x
    y = y
    NoOrder = NoOrder
    Instruments <- Both
    Horizon = 4
    Worlds <- AllWorlds
    Lot = 2
    Deltas <- SomeDeltas
    MaxLots = 2

SPECIFICATION BacktestSpec

INVARIANTS BacktestTypeOK CommonBasis NeverStranded DividendsFollowHoldings FundingFollowsHoldings
PROPERTIES ObligationsShrinkByPurchases

CHECK_DEADLOCK FALSE
