\* One pool thread, two Machines, commands that come at any moment.
CONSTANTS
    Callbacks = {t1}
    MaxGen = 6
    MaxMachines = 2
    MaxSignals = 1
    MaxKicks = 2
    MaxWakes = 2
    Capacity = 1
    Batch = 1
SPECIFICATION FairSpec
INVARIANT ValidGuardHasPartition
INVARIANT CancelsItsOwnMachine
INVARIANT NoCallbackOutlivesGuard
INVARIANT EvidenceInOrder
PROPERTY CommandsAreTaken
CHECK_DEADLOCK TRUE
