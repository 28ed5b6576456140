SPECIFICATION Spec
CONSTANTS
    r1 = r1
    r2 = r2
    c1 = c1
    c2 = c2
    n1 = n1
    n2 = n2
    iban1 = iban1
    bad = bad
    none = none
    noText = noText
    Runs = {r1}
    InvoiceIds <- MCInvoiceIds
    Invoice <- MCInvoice
    PaidAtImport <- MCPaidAtImport
    LineIds <- MCLineIds
    Line <- MCLine
    Master <- MCMaster
    Statements <- MCStatements
    BadRow = bad
    NoCustomer = none
    NoText = noText
    Tolerance = 1
    FuzzyMaxDistance = 2
    B2Window = 14
    BatchMinRun = 2
    BatchMaxRun = 40
    BatchWindow = 60
    BatchSubsetCap = 12
    MaxLaunches = 3
INVARIANT BatchPaidTogether
CHECK_DEADLOCK FALSE
