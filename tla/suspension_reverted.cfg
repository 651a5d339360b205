\* A company admin saves settings while a super admin suspends the tenant.
SPECIFICATION Spec
CONSTANTS
    page1 = page1
    page2 = page2
    shared = shared
    own = own
    Subdomains = {"north", "south"}
    Emails = {"ann", "bob", "cem"}
    Requests = {1, 2}
    Asked = {"active", "suspended"}
    Services = {{"onboard", "update"}}
    None = None
    Pages = {page1, page2}
    Deliveries = {shared, own}
    PageOf <- MCPageOf
    OwnApp = {own}
    Messages = 2
    MaxTries = 2
PROPERTIES
    StatusIsSetBySuperAdmin
CHECK_DEADLOCK FALSE
