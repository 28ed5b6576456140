SPECIFICATION Spec
CONSTANTS
    j1 = j1
    j2 = j2
    none = none
    noDate = noDate
    noAmount = noAmount
    Jobs = {j1, j2}
    NoJob = none
    NoDate = noDate
    NoAmount = noAmount
    ClaimIds <- MCClaimIds
    Claim <- MCClaim
    Versions <- MCVersions
    History <- MCHistory
    HistoryCharges <- MCHistoryCharges
    Defective <- MCDefective
    RunBatches <- MCRunBatches
    AsOfs <- MCAsOfs
    MaxRuns = 3
INVARIANTS
    TypeOK
    WithinTerms
    DeductibleOnce
    EarlierClaimBearsDeductible
    ExportMirrorsLedger
PROPERTIES
    ImplementsBook
    StartedRunEnds
CHECK_DEADLOCK FALSE
