SPECIFICATION Spec
CONSTANTS
    Step <- MCStep
    MaxTicks = 2
INVARIANTS UsageInRange NoTimeLost
