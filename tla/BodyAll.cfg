CONSTANTS
  Lengths = {None, 0, 2, 4}
  MaxLeftover = 3
  MaxSend = 5
  Caps = {None, 2, 3}
  BodyCaps = {None, 2}
  None = None
  ChunkSize = 2
SPECIFICATION FairSpec
INVARIANTS TypeOK StaysInBody CapHonoured EndedWhenWhole
PROPERTY CallsReturn
