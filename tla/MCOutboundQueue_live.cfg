\* Two messages of different priority and room for one in a batch.
SPECIFICATION FairSpec
CONSTANTS
    m1 = m1
    m2 = m2
    low = low
    c1 = c1
    a1 = a1
    w1 = w1
    w2 = w2
    None = None
    Messages = {m1, low}
    Customers = {c1}
    Automations = {a1}
    Workers = {w1, w2}
    MediaMessages = {m1}
    UnroutedMessages = {low}
    Priority <- MCPriority
    MaxAttempts <- MCTwoAttempts
    BatchSize = 1
    RecoveryBatch = 1
    MaxFaults = 1
    TenantOps = {}
PROPERTIES
    EventuallyConcluded
