SPECIFICATION Spec
CONSTANTS
    a = a
    b = b
    Caller = {a, b}
    Source <- OneAccount
    Offered <- AnyAndTransfer
    MaxAttempts <- OneRetry
    Refusals = {"tx_bad_seq", "tx_bad_auth"}
    CanSign = {"token", "market", "dividend"}
    VerificationTypes = {0, 1}
INVARIANTS
    DoneOncePerDoubt
    ConfirmedMeansDone
PROPERTIES
    RepeatedOnlyWhenSafe
    CallsEnd
CHECK_DEADLOCK FALSE
