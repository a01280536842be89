SPECIFICATION Spec
CONSTANTS
    GroupSize = 2
    GroupsPerStep = 2
    QueueCapacity = 1
    MaxPolicyLag = 0
    MaxSteps = 1
    MaxGroups = 4
INVARIANTS
    CommitsAccepted
