SPECIFICATION Spec
CONSTANTS
    Groups = {1, 2}
    PlansOf <- MCPlans
    Need <- MCNeed
    Settings <- MCSettings
    Capacity = 2
    MaxWorkers = 2
    MaxGroups = 2
    PendingLimit = 5
INVARIANTS StreamSound
PROPERTIES GroupsReturn
