\* Two requests at a time about accounts, or about one page and its messages.
SPECIFICATION Spec
CONSTANTS
    page1 = page1
    page2 = page2
    shared = shared
    own = own
    Subdomains = {"north", "south"}
    Emails = {"ann", "bob", "cem"}
    Requests = {1, 2}
    Asked = {"active", "suspended"}
    Services = {{"onboard", "invite"}, {"onboard", "update"}, {"connect", shared}, {"connect", own}}
    None = None
    Pages = {page1, page2}
    Deliveries = {shared, own}
    PageOf <- MCPageOf
    OwnApp = {own}
    Messages = 2
    MaxTries = 2
INVARIANTS
    TenantHasAdmin
    NobodyWaitsInACircle
    FacebookTypeOK
    AcceptedIsStored
PROPERTIES
    PageIsNotTakenOver
CHECK_DEADLOCK FALSE
