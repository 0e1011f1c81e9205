SPECIFICATION FairSpec
CONSTANTS
    NULL = NULL
    Workers = {w1, w2}
    Jobs = {j1, j2}
    WORKER_LEASE_TIMEOUT = 4
    GATEWAY_HTTP_TIMEOUT = 1
    AI_TIMEOUT = 1
    AiLimit = 2
    GatewayLimit = 1
    RowWait = 1
    WORKER_POLL_INTERVAL = 1
    MaxKills = 2
INVARIANTS LeaseOutlastsWork TimingInvariant
PROPERTIES EveryJobIsProcessed
