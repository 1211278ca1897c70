CONSTANTS
  Writer = w
  Reader = {r1}
  NKeys = 3
  MaxHeight = 2
  BlockSize = 64
  MaxBlocks = 5
SPECIFICATION MemSpec
INVARIANTS Sorted ReadsPublished NodesApart
PROPERTIES ImplementsSet CallsEnd
