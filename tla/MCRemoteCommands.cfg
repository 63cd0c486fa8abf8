CONSTANTS
    MaxCommands = 2
    Admins = {a1, a2}
    Asked <- MCAsked
    None = None
    MaxFaults = 1
    MaxChanges = 1
SPECIFICATION FairSpec
INVARIANTS
    OneActive
    NothingWithoutTheUser
    PendingCanBeAnswered
    OnlyRecordingsAreRefused
PROPERTIES
    KeepsPromise
    CommandsEnd
CHECK_DEADLOCK FALSE
