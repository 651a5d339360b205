SPECIFICATION PaySpec
CONSTANTS
    free = free
    basic = basic
    pro = pro
    h1 = h1
    i1 = i1
    x = x
    NoPlan = NoPlan
    NoRow = NoRow
    NoEntity = NoEntity
    Subscription = Subscription
    NoBooking = NoBooking
    NoSession = NoSession
    NoPayment = NoPayment
    NoKey = NoKey
    Plans <- FreeAndPro
    Price <- MCPrice
    Credits <- MCCredits
    Requests = {}
    MaxSends = 0
    BillingCycle = FALSE
    Bookings = {}
    Amounts = {}
    Gateways = {"stripe"}
    Refs = {x}
    Intents = {i1}
    Hooks = {h1}
PROPERTY
    GrantedOncePerCharge
