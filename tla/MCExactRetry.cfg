SPECIFICATION DurableSpec
CONSTANTS
    kc = kc
    p = p
    kkc = kkc
    kp = kp
    kr = kr
    n1 = n1
    n2 = n2
    n3 = n3
    n4 = n4
    d1 = d1
    d2 = d2
    d3 = d3
    None = None
    Deliveries <- MCDeliveries
    Actors <- MCActors
    Keys <- MCKeys
    Nonces <- MCNonces
    Messages <- RetryMessages
    MaxCrashes = 0
PROPERTIES
    ExactRetryReplays
CHECK_DEADLOCK FALSE
