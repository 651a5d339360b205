\* One phone, two overlapping calls, two codes of two attempts each.
SPECIFICATION Spec
CONSTANTS
    Calls = {a, b}
    MaxCodes = 2
    MaxAttempts = 2
    Tables = {"preference", "favorite", "review"}
    NoRow = NoRow
    Limit = 4
SYMMETRY CallSymmetry
INVARIANTS
    CustomersTypeOK
    GuessesAreBounded
    UnusedCodesAreBounded
    LoggedInIsVerified
PROPERTIES
    SessionsAsPromised
CHECK_DEADLOCK FALSE
