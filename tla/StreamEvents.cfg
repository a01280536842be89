CHECK_DEADLOCK FALSE
SPECIFICATION Spec
CONSTANTS
    Groups = {1, 2}
    PlansOf <- MCPlans
    Need <- MCNeed
    Settings <- JustFailing
    Capacity = 2
    MaxWorkers = 2
    MaxGroups = 1
    PendingLimit = 5
PROPERTIES PauseAwaitsEpisodes
