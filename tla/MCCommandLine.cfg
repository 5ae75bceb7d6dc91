CONSTANTS
    NIBBLES = 3
    ARGUMENT_SIZE = 10
    None = None
    Lines <- MCLines
SPECIFICATION CommandSpec
CHECK_DEADLOCK FALSE
INVARIANTS
    CommandTypeOK
    ArgumentIsTheNumber
    PrintedNumbersReadBack
