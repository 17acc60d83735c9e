\* Characters of the program and of two handlers in the middle of them.
SPECIFICATION Spec
CONSTANTS
  Screens <- SmallScreens
  Found <- AsFound
  Chars = {"newline", "tab", "nul", "glyph"}
  MaxNmis = 1
  MaxPrints = 2
INVARIANTS
  TypeOK
  PixelsInside
  LossExplained
  PortReady
PROPERTIES
  PutcharReturns
