CONSTANTS
    c1 = c1
    c2 = c2
    Claims <- MCTwoClaims
    MaxIndex = 0
    None = None
    Deletable <- MCMachineAndTemplate
    Pool = TRUE
    Lag = FALSE
    MaxFaults = 0
SPECIFICATION Spec
INVARIANTS
    TypeOK
    RenderedDataIsOwn
    AddressHeldWhileRunning
PROPERTIES
    TemplateFinalizerHolds
