SPECIFICATION MCSpec
CONSTANTS
    Requests = {r1, r2, r3}
    MaxVersion = 2
    Remote = TRUE
    Shim = TRUE
INVARIANTS SampledUnderItsPolicy UncertainOutcomeBlocks ActivationAfterDelivery
PROPERTIES ControlReturns
