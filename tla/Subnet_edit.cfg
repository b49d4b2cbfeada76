SPECIFICATION Spec
CONSTANTS
    W = 4
    Byte = 3
    PoolLow <- Low
    PoolHigh <- High
    Ips <- SomeIps
    None = None
INVARIANT ServedAsAsked
