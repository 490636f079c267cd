SPECIFICATION Spec
SYMMETRY Symmetric
CONSTANTS
    Accounts = {usa, usb}
    OrderIds = {o1, o2}
    Tickers = {t1}
    NoAccount = none
    PageSize = 1
    Words = {"new", "submitted", "part", "cancelled"}
INVARIANTS
    TypeOK
    AccountIsJustified
    OnlyPagingLosesOrders
    OrdersAreObserved
