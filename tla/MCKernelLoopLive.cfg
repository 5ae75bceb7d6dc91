CONSTANTS
    Keys <- MCEnter
    WIRE_SIZE = 1
    Event <- MCEvent
    ZeroEvent <- NoEvent
    EVENT_QUEUE_SIZE = 2
SPECIFICATION LoopSpec
PROPERTIES
    BytesAreHandled
    EventsAreReadIfTyping
    LinesAreExecuted
