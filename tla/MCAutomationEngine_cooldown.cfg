\* A message stays in the queue past midnight: two are sent within the cooldown.
SPECIFICATION Spec
CONSTANTS
    react = react
    bday = bday
    camp = camp
    ana = ana
    r1 = r1
    r2 = r2
    Automations = {react}
    Customers = {ana}
    Runs = {r1, r2}
    Kind <- MCKind
    Cooldown <- MCCooldown
    DueFrom <- MCDueFrom
    Birthday <- MCBirthday
    Steady = {}
    Willing = {ana}
    Unsendable <- MCUnsendable
    MaxDay = 1
    MaxTime = 2
    MaxFaults = 0
    None = None
SYMMETRY Symmetry
INVARIANTS
    CooldownAlways
