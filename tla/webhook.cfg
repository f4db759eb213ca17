SPECIFICATION Spec
CONSTANTS
    Payloads <- MCPayloads
    Signed <- MCSigned
    Entries <- MCEntries
    Malformed <- MCMalformed
    Deliveries <- MCDeliveries
    MaxFaults = 2
INVARIANTS
    TypeOK
    AcceptedIsPublished
    PublishedInOrder
    CopiesBounded
PROPERTIES
    EventuallyPublished
CHECK_DEADLOCK FALSE
