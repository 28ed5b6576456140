SPECIFICATION Spec
CONSTANTS
    j1 = j1
    j2 = j2
    none = none
    open = open
    Jobs = {j1, j2}
    NoJob = none
    Builders = {j2}
    ClaimIds <- MCClaimIds
    Claim <- MCClaim
    Policy <- MCPolicy
    Schedule <- MCSchedule
    PromptPay <- MCPromptPay
    OpenEnded = open
    TiesUp = TRUE
    History <- MCHistory
    RunBatches <- MCRunBatches
    AsOfs = {430, 460}
    MaxRuns = 3
INVARIANTS
    TypeOK
    BatchSettlesWhole
    ExportHasItsRecords
PROPERTIES
    RerunRepeats
CHECK_DEADLOCK FALSE
