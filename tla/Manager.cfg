SPECIFICATION FairSpec
CONSTANTS
  A = A
  B = B
  a = a
  a2 = a2
  b = b
  None = None
  Cameras = {A, B}
  Uris = {a, a2, b}
  Display <- PairDisplay
  Record <- PairRecord
  MaxPlayers = 2
  Options <- Mixed
  Races = {}
  MaxClicks = 3
INVARIANT TypeOK CellsApart StopKept NeverForgotten
PROPERTY  Reconnects GuiReturns
