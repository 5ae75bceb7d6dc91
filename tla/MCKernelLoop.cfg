CONSTANTS
    Keys <- MCTwoKeys
    WIRE_SIZE = 1
    Event <- MCEvent
    ZeroEvent <- NoEvent
    EVENT_QUEUE_SIZE = 2
SPECIFICATION LoopSpec
INVARIANTS
    LoopTypeOK
    NoUnexpectedInterrupt
    InterruptsOnInLoop
    NoEventForgotten
    HandlerHasByte
PROPERTIES
    LoopImplementsEventFifo
