SPECIFICATION Spec
CONSTANTS
  Writer = {w1, w2}
  Char = {10, 13, 224}
  Reply <- Answers
  FifoDepth = 2
  MboxDepth = 2
  AliasSize = 16
  VirtualStart = 100
  SCREEN_WIDTH = 6
  SCREEN_HEIGHT = 7
  INITIAL_X = 1
  INITIAL_Y = 1
  FONT_WIDTH = 1
  FONT_HEIGHT = 1
  SHELL_ZOOM_LEVEL = 2
  FONT_NUMGLYPHS = 224
INVARIANT TypeOK
INVARIANT FbIsGranted
INVARIANT GlyphsOnPage
INVARIANT GlyphsDisjoint
INVARIANT UartKeepsAll
PROPERTY NoOverwrite
PROPERTY InitEnds
PROPERTY PutcReturns
