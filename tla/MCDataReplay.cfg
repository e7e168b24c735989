SPECIFICATION ReplaySpec
CONSTANTS
    Setup <- MCSetup
    Epochs = 4
    MaxStarts = 3
INVARIANT
    ReplayInv
PROPERTIES
    PlanKeepsSamples
    PlanImproves
    ReplaysSame
