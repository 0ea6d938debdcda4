\* One local connection, two network ones, a slot for one relay, one
\* replacement, one fault.
SPECIFICATION MCSpec
CONSTANTS
    Jobs <- MCJobs
    Conns = {1}
    MaxReplace = 1
    MaxFaults = 1
    Gateways <- MCGateways
    Clients = {1, 2}
    MaxRelays = 1
    MaxInterim = 2
    MaxBytes = 2
    MaxRefusals = 1
INVARIANTS
    NothingPassesUnchecked
    ExchangesAreFramed
PROPERTIES
    TeardownIsExact
    GatewaysEnd
\* Gateways that have ended stay so.
CHECK_DEADLOCK FALSE
