SPECIFICATION Spec
CONSTANTS
  UartDepth = 2
  Width = 5
  Height = 3
  Glyphs = {"a"}
  Blank = " "
  BootScreens <- MCBootScreens
  MaxLines = 4
INVARIANTS TypeOK ShowsLog LineFaithful
