SPECIFICATION Spec
CONSTANTS
    o1 = o1
    o2 = o2
    Orders <- MCOrders
    Polled <- MCOneOrder
    BatchLimit = 1
    MaxFaults = 1
INVARIANTS PaidIsBacked TwiceOnlyByOverlap
PROPERTIES PaymentSticks Settles HonouredUnlessFaults
\* Every order may be settled and nobody poll.
CHECK_DEADLOCK FALSE
