CONSTANTS
    Accounts = {A, B}
    NoAccount = NoAccount
    Activations = {1, 2}
    ReturnLimit = 2
    MaxNow = 3
    MaxEvents = 2
    Purchases = {1}
    NoPurchase = NoPurchase
    MaxBuys = 1
    MaxSwitches = 2
    MaxFailures = 1
    Readers = {1, 2}
    MaxChanges = 2
SPECIFICATION ClientSpec
PROPERTIES
    PaymentIsFollowed
    PurchaseReachesAccount
    SessionsAreRestored
CHECK_DEADLOCK FALSE
