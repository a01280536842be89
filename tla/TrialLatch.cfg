SPECIFICATION TrialSpec
CONSTANTS
    t1 = t1
    t2 = t2
    t3 = t3
    Trials = {t1, t2, t3}
    WaveSize = 2
    MaxTurns = 1
PROPERTIES UncertainStopsAdmission
CHECK_DEADLOCK FALSE
