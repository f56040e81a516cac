SPECIFICATION Spec
CONSTANTS
    NUM_TERMINAL = 2
    NUM_COLS = 3
    NUM_ROWS = 2
    Letters = {"a"}
    Glyph <- MCGlyph
    Written <- MCWritten
    Typed <- MCTyped
    Lines <- MCLines
    Messages <- MCMessages
    Canvas = {}
PROPERTY LinesBeginAtStart
