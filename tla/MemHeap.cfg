SPECIFICATION Spec
CONSTANTS
  Size = 44
  Hdr = 2
  MinSize = 4
  Align = 2
  Width = 64
  Requests = {0, 1, 5, 8, 13, 20, 63}
INVARIANTS Sane UsedIsHeld WholeAgain FoundIfRoom
PROPERTIES ImplementsAllocator
