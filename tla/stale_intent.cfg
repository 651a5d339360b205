SPECIFICATION PaySpec
CONSTANTS
    free = free
    basic = basic
    pro = pro
    h1 = h1
    i1 = i1
    i2 = i2
    x = x
    y = y
    NoPlan = NoPlan
    NoRow = NoRow
    NoEntity = NoEntity
    Subscription = Subscription
    NoBooking = NoBooking
    NoSession = NoSession
    NoPayment = NoPayment
    NoKey = NoKey
    Plans <- FreeAndPro
    Price <- MCPrice
    Credits <- MCCredits
    Requests = {}
    MaxSends = 0
    BillingCycle = FALSE
    Bookings = {}
    Amounts = {}
    Gateways = {"stripe"}
    Refs = {x, y}
    Intents = {i1, i2}
    Hooks = {h1}
PROPERTY
    IntentsOnlyNoteThePlan
