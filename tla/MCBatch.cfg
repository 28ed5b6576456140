SPECIFICATION Spec
CONSTANTS
    InvoiceIds <- MCInvoiceIds
    Invoice <- MCInvoice
    Payments <- MCPayments
    Tolerance = 1
    BatchMinRun = 2
    BatchMaxRun = 4
    BatchWindow = 60
    BatchSubsetCap = 5
INVARIANTS
    TypeOK
    AnswerIsSection4
PROPERTY Terminates
CHECK_DEADLOCK FALSE
