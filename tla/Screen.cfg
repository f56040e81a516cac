SPECIFICATION Spec
CONSTANTS
    NUM_TERMINAL = 2
    NUM_COLS = 2
    NUM_ROWS = 2
    Letters = {"a"}
    Glyph <- MCGlyph
    Written <- MCWritten
    Typed <- MCTyped
    Lines <- MCLines
    Messages <- MCMessages
    Canvas <- MCCanvas
INVARIANTS
    TypeOK
    MapFollows
PROPERTY
    ImplementsPages
