\* Two calls overlap on one request for two units and its two deliveries.
SPECIFICATION Spec
CONSTANTS
    Users = {1, 2, 3}
    FanoutCap = 1
    Calls = {c1, c2}
    Demand = 2
    Legacy = FALSE
    MaxDeliveries = 2
    Stamps = {1, 2}
INVARIANTS TypeOK QuantitiesAgree NoticesReachAll
PROPERTIES ImplementsCase ReadStaysRead
SYMMETRY Interchangeable
CHECK_DEADLOCK FALSE
