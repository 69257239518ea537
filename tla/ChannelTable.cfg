SPECIFICATION Spec
CONSTANTS
  GroupSize = 2
  ByteSize = 4
  MaxStart = 2
  MaxCount = 3
  MaxDevice = 3
  Numbers = {0, 100, 199, 200, 300, 400}
  Junk = Junk
INVARIANTS
  RequestedIsListed
  FilledIsListed
