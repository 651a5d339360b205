SPECIFICATION PaySpec
CONSTANTS
    free = free
    basic = basic
    pro = pro
    b1 = b1
    h1 = h1
    h2 = h2
    i1 = i1
    x = x
    y = y
    NoPlan = NoPlan
    NoRow = NoRow
    NoEntity = NoEntity
    Subscription = Subscription
    NoBooking = NoBooking
    NoSession = NoSession
    NoPayment = NoPayment
    NoKey = NoKey
    Plans <- NoPlans
    Price <- MCPrice
    Credits <- MCCredits
    Requests = {}
    MaxSends = 0
    BillingCycle = FALSE
    Bookings = {b1}
    Amounts = {1, 2}
    Gateways = {"stripe", "khalti", "esewa"}
    Refs = {x, y}
    Intents = {i1}
    Hooks = {h1, h2}
INVARIANTS
    PaymentsTypeOK
    SuccessWasCharged
    ConfirmedIsPaidInFull
PROPERTY
    PromiseSafety
