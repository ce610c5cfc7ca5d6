SPECIFICATION ShadowSpec
CONSTANTS
    Prices <- MCPrices
    Inexact <- MCInexact
    MaxDisplayed = 2
    MaxShown = 4
    CapFloor = 2
INVARIANTS ShadowFollowsLive DepthIsConserved
