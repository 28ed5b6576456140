SPECIFICATION Spec
CONSTANTS
    v1 = v1
    v2 = v2
    a = a
    b = b
    Validators = {v1, v2}
    Tasks = {a, b}
    Names <- MCNames
    Checkout <- MCCheckout
    Faults = 2
INVARIANTS
    TypeOK
    PassMeansOracle
    PassIsOfOneRun
CHECK_DEADLOCK FALSE
