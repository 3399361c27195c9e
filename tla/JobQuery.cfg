CONSTANTS
  Jobs = {mine, theirs}
  Own = {mine}
  Scripted = {mine}
  MaxMoves = 4
  mine = mine
  theirs = theirs
SPECIFICATION Spec
INVARIANTS ActiveIsListed KnownIsListed WaitingIsShown ReportedIsRecent MetadataFallsBack
CHECK_DEADLOCK FALSE
