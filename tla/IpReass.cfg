SPECIFICATION Spec
CONSTANTS
  Ids = {d1, d2, d3}
  Size = 3
  MaxPbufs = 4
  NumReass = 2
  MaxAge = 2
INVARIANTS CountExact WholeDatagram NoneCompleteWaits EntriesSound
PROPERTIES OwnDatagramKept EntryLeaves
