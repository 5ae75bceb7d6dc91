CONSTANTS
    VGA_WIDTH = 4
    VGA_HEIGHT = 2
    Glyph = {" ", ">", "a", "b"}
    Blank = " "
    NewLine = "newline"
    Char = {"a", "b", "nul"}
    Nul = "nul"
    COMMAND_BUFFER_SIZE = 3
    HISTORY_SIZE = 2
    NoLine = NoLine
    Prompt <- MCPrompt
    Outputs <- MCOutputs
SPECIFICATION ConsoleSpec
INVARIANTS
    ConsoleTypeOK
    LineTerminated
    BrowsingShowsHistory
    ScreenShowsLine
PROPERTIES
    ImplementsLineEditor
