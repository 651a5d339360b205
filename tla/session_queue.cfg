\* Two requests and a logout of one tab, which queue behind one refresh; the
\* account is used elsewhere and may be disabled.
SPECIFICATION Spec
CONSTANTS
    t1 = t1
    t2 = t2
    r1 = r1
    r2 = r2
    r3 = r3
    Tabs = {t1}
    Requests = {r1, r2, r3}
    TabOf <- MCOneTab
    Logouts = {r3}
    Changes = {FALSE}
    NoTab = NoTab
    MaxNow = 2
INVARIANTS
    QueueIsServed
PROPERTIES
    RequestsEnd
