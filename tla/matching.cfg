SPECIFICATION MatchFairSpec
CONSTANTS
    plan = plan
    l1 = l1
    l2 = l2
    l3 = l3
    a = a
    b = b
    v = v
    w = w
    c1 = c1
    c2 = c2
    c3 = c3
    room = room
    flat = flat
    MCBalance = 2
    Plans <- MCPlans
    Price <- MCPrice
    Credits <- MCCredits
    MaxListings <- MCMaxListings
    NoPlan = NoPlan
    NoRow = NoRow
    NoEntity = NoEntity
    NoListing = NoListing
    NoStatus = NoStatus
    Null = Null
    Requests = {}
    MaxSends = 3
    BillingCycle = FALSE
    Listings = {l1}
    Calls = {a}
    Asked = {"published"}
    BulkRows = 1
    Handlers = {"create", "update", "archive"}
    MaxJobs = 2
    Customers = {c1, c3}
    Preference <- MCPreference
    OptedIn = {c1, c3}
    Offer <- MCOffer
    Workers = {1, 2}
    Nepal = {c1, c3}
    SmsKeys = {"sparrow", "twilio"}
INVARIANTS
    MatchingTypeOK
    BalanceIsAccounted
    SentAtMostOncePerWorker
PROPERTIES
    PromiseSafety
    MatchesAreHandedOver
