\* Two customers with one phone, and an opt-out that comes from it.
SPECIFICATION Spec
CONSTANTS
    c1 = c1
    c2 = c2
    l1 = l1
    l2 = l2
    k1 = k1
    r1 = r1
    r2 = r2
    Customers = {c1, c2}
    Mobile = {l1}
    Fixed = {l2}
    Cpfs = {k1}
    Entries <- MCEntries
    Edits <- MCEdits
    Files <- MCFiles
    Requests = {r1, r2}
    Unused = Unused
    Removed = Removed
    NoCustomer = NoCustomer
    NoCpf = NoCpf
    Keep = Keep
    x1 = x1
    o1 = o1
    o2 = o2
    p1 = p1
    p2 = p2
    Contacts = {x1}
    Options = {o1, o2}
    Wishes <- MCWishes
    PublicIds = {p1, p2}
    Sessions = {r1, r2}
    NoLink = NoLink
    g1 = g1
    b1 = b1
    Categories = {g1}
    Brands = {b1}
    Changes <- MCChanges
    Editors = {r1, r2}
    AsItIs = AsItIs
    NoCampaign = NoCampaign
    n1 = n1
    n2 = n2
    n3 = n3
    Names = {n1, n2, n3}
    AutomationLimit = 1
    Creators = {r1, r2}
    NoName = NoName
    Managers = {r1, r2}
    MaxAudits = 4
SYMMETRY Symmetry
PROPERTIES
    DuplicatesFailClosed
