\* Two requests at a time for four channels; two on one instance; one message
\* through three channels.  One failed call each.
SPECIFICATION Spec
CONSTANTS
    k4 = k4
    Clients = {r1, r2}
    Keys = {e1, e2, meta, k4}
    NoKey = NoKey
    MaxLimit = 3
    MaxAborts = 1
    r1 = r1
    r2 = r2
    Requests = {r1, r2}
    MaxCallFaults = 1
    m1 = m1
    e1 = e1
    e2 = e2
    meta = meta
    a1 = a1
    Messages = {m1}
    Evolution = {e1, e2}
    Meta = {meta}
    Configured = {e1, e2, meta}
    Admins = {a1}
    MaxSends = 2
    NoChannel = NoChannel
SYMMETRY Symmetry
INVARIANTS
    WithinGrantedLimit
    UnavailableIsContention
    LogoutIsForStale
    ProvisionedIsConfigured
    ConnectedIsLive
    CreateIsReconciled
    EnqueuedIsSendable
    TakenIsNotRefused
    TakenTwiceIsUncertain
PROPERTIES
    EveryRequestEnds
