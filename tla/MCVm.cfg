SPECIFICATION Spec
CONSTANTS
    Programs <- MCPrograms
    Environments <- MCEnvironments
INVARIANTS
    TypeOK
    FuelSuffices
    DecodedAsValidated
    FallsOffByJumping
CHECK_DEADLOCK FALSE
