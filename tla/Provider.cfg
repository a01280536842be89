SPECIFICATION Spec
CONSTANTS
    GroupSize = 2
    GroupsPerStep = 2
    QueueCapacity = 1
    MaxPolicyLag = 1
    MaxSteps = 2
    MaxGroups = 6
INVARIANTS AuthorityHeld MailboxAccounted
PROPERTIES CloseEnds
