CONSTANTS
    a4 = a4
    b4 = b4
    a6 = a6
    b6 = b6
    ll6 = ll6
    V4Addrs <- MCV4Addrs
    V6Addrs <- MCV6Addrs
    LinkLocal <- MCLinkLocal
    MaxNetlinkAddrs = 1
    DeleteMayFail = TRUE
SPECIFICATION Spec
INVARIANT
    StaleAddressFree
