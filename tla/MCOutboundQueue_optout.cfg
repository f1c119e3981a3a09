\* OPTED_OUT as documented.
SPECIFICATION Spec
CONSTANTS
    m1 = m1
    m2 = m2
    low = low
    c1 = c1
    a1 = a1
    w1 = w1
    w2 = w2
    None = None
    Messages = {m1}
    Customers = {c1}
    Automations = {a1}
    Workers = {w1}
    MediaMessages = {}
    UnroutedMessages = {}
    Priority <- MCPriority
    MaxAttempts <- MCTwoAttempts
    BatchSize = 1
    RecoveryBatch = 1
    MaxFaults = 0
    TenantOps = {"consent", "removeCustomer"}
INVARIANTS
    OptOutAbsolute
