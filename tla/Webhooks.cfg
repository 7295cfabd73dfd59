\* Two workers on the deliveries of one endpoint: safety.
SPECIFICATION FairSpec
CONSTANTS
    Workers = {w1, w2}
    Deliveries = {d1}
    NoOne = NoOne
    MaxAttempts = 2
    MaxRedeliveries = 1
    MaxOverruns = 1
    MaxCrashes = 1
    MaxFailures = 1
INVARIANTS TypeOK OneSender AcceptedOnce
PROPERTIES ImplementsDeliveryLife Settles
CHECK_DEADLOCK FALSE
