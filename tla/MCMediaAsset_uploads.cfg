\* Two clients upload one file again and again, with up to three faults of any kind.
SPECIFICATION Spec
CONSTANTS
    Assets = {a1, a2, a3}
    Uploads = {u1, u2}
    MaxFaults = 3
    None = None
SYMMETRY Symmetry
\* Clients may stop uploading; each attempt uses up an id.
CHECK_DEADLOCK FALSE
INVARIANTS
    KeyIsLock
    OneUploadAtATime
    ReadyHasObject
    ReturnedStaysReady
    PendingIsInProgress
    NoOrphans
