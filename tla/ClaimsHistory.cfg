SPECIFICATION Spec
CONSTANTS
    j1 = j1
    j2 = j2
    none = none
    noDate = noDate
    noAmount = noAmount
    Jobs = {j1, j2}
    NoJob = none
    NoDate = noDate
    NoAmount = noAmount
    ClaimIds <- MCClaimIds
    Claim <- MCClaim
    Versions <- MCVersions
    History <- MCHistory
    HistoryCharges <- MCHistoryCharges
    Defective <- MCDefective
    RunBatches <- MCHistoryBatches
    AsOfs <- MCAsOfs
    MaxRuns = 2
PROPERTIES
    PaidClaimsStayRecorded
CHECK_DEADLOCK FALSE
