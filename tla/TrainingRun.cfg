SPECIFICATION Spec
CONSTANTS
    GroupsPerStep = 2
    QueueCapacity = 3
    MaxPolicyLag = 1
    MaxSteps = 3
    MaxCrashes = 1
    EvalSteps <- EvaluateLast
INVARIANTS ExactlyOnce CheckpointsSound TrainingProtocol
PROPERTIES RunEnds
