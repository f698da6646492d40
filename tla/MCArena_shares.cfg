SPECIFICATION Spec
CONSTANTS
    p1 = p1  p2 = p2  p3 = p3  p4 = p4  o1 = o1  o2 = o2
    Players = {p1, p2, p3}
    Operators = {o1}
    Admin = Admin
    NoPlayer = NoPlayer
    InitParams <- Upto3
    ConfigUpdates <- FeeUpdates
    Secrets <- BuiltinSecret
    Commitments <- BuiltinCommitment
    ValidBytecodes = {"good"}
    NoBytecode = "none"
    Seeds <- OneSeed
    NoSeed = 0
    SlotBytes = {12}
    MatchScores <- Scores
    PairingOf <- MCPairingOf
    ForeignRefund = FALSE
    BaseRent = 50
    RentPerPlayer = 10
    EntryRent = 20
    ConfigRent = 30
    InitialWallet = 150
    ClaimExpiry = 1
    Closure = 1
    MatchesPerTx = 5
    U16Max = 4
    MaxTournamentId = 1
    MaxTime = 0
INVARIANTS
    SharesBacked
SYMMETRY PlayerSymmetry
CHECK_DEADLOCK FALSE
