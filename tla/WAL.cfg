CONSTANTS
  SegSizes = {1, 3}
  MaxHeightIndexSize = 1
  MaxLogHeight = 2
  MaxMessages = 4
  MaxStops = 2
SPECIFICATION LogSpec
INVARIANTS LogTypeOK NothingLost SearchIsRight ReplayIsExact
