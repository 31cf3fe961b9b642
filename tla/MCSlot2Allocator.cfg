CONSTANTS
  Start <- MCStart
  RamSize <- MCRamSize
  HeaderSize <- MCHeaderSize
  ChunkMinSize <- MCChunkMinSize
  Modulus <- MCModulus
  Requests <- MCRequests
SPECIFICATION Spec
INVARIANTS
  TypeInvariant
  ListLinked
  ChunksDisjoint
  NoAdjacentFree
  UsageAddsUp
PROPERTY ImplementsPool
