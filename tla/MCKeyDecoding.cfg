CONSTANTS
    Keys <- MCKeys
    WIRE_SIZE = 4
SPECIFICATION DecodingSpec
INVARIANTS
    DecodingTypeOK
    ModifiersTrackKeys
    CharactersAsTyped
    NoPhantomKey
