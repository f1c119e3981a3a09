\* Overlapping ticks and dispatches over two days; midnight may overtake them.
SPECIFICATION Spec
CONSTANTS
    react = react
    bday = bday
    camp = camp
    ana = ana
    r1 = r1
    r2 = r2
    Automations = {react, bday, camp}
    Customers = {ana}
    Runs = {r1, r2}
    Kind <- MCKind
    Cooldown <- MCCooldown
    DueFrom <- MCDueFrom
    Birthday <- MCBirthday
    Steady = {react}
    Willing = {ana}
    Unsendable <- MCUnsendable
    MaxDay = 1
    MaxTime = 2
    MaxFaults = 1
    None = None
SYMMETRY Symmetry
CONSTRAINT OneAutomationInQueue
INVARIANTS
    OneOpenPerPair
    CooldownRespected
    BirthdayOnItsDay
    CompletedTickContacts
