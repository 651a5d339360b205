SPECIFICATION Spec
CONSTANTS
    free = free
    basic = basic
    pro = pro
    r1 = r1
    r2 = r2
    Plans <- MCPlans
    Price <- MCPrice
    Credits <- MCCredits
    NoPlan = NoPlan
    NoRow = NoRow
    NoEntity = NoEntity
    Requests = {r1}
    MaxSends = 1
    BillingCycle = FALSE
PROPERTY
    CreditsRiseOnlyByGrantOrRefund
