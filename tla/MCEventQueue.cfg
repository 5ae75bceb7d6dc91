CONSTANTS
    Event = {z, e1, e2}
    ZeroEvent = z
    EVENT_QUEUE_SIZE = 3
SPECIFICATION QueueSpec
INVARIANTS
    QueueTypeOK
    RingConsistent
PROPERTIES
    ImplementsEventFifo
