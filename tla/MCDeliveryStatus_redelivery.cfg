\* Two handlers; m1 and twin share an id; requests mix them with m2.
SPECIFICATION FairSpec
CONSTANTS
    m1 = m1
    m2 = m2
    twin = twin
    i1 = i1
    i2 = i2
    h1 = h1
    h2 = h2
    Messages = {m1, m2, twin}
    Ids = {i1, i2}
    ProviderId <- MCProviderId
    Handlers = {h1, h2}
    Payloads <- MCMixedPayloads
    MaxFaults = 1
    EarlyReports = FALSE
INVARIANTS
    AcknowledgedIsRecorded
    AmbiguousUntouched
PROPERTIES
    OnlyForward
    EventuallyRecorded
