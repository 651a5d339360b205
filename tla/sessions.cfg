\* Two tabs share a cookie jar, one of them logs out; the account is used
\* elsewhere, and staff disable and enable it.
SPECIFICATION Spec
CONSTANTS
    t1 = t1
    t2 = t2
    r1 = r1
    r2 = r2
    r3 = r3
    Tabs = {t1, t2}
    Requests = {r1, r3}
    TabOf <- MCTabOf
    Logouts = {r3}
    Changes = {TRUE, FALSE}
    NoTab = NoTab
    MaxNow = 2
INVARIANTS
    SessionsTypeOK
    RefusedOnlyIfDisturbed
