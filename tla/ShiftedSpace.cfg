CONSTANTS
    Keys <- MCSpaceKeys
    WIRE_SIZE = 2
SPECIFICATION DecodingSpec
INVARIANT
    CharacterEventsCarryCharacters
