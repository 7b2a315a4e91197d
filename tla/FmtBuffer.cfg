\* Every buffer of fmt, for texts that fill its array up to three times.
SPECIFICATION Spec
CONSTANTS
  Byte = {1, 2, 3, 4, 7}
  Pieces <- MCPieces
  BufferSize = 2
  AllocMax = 7
  Blocks = {b1, b2, b3}
  Kinds = {"memory", "container", "iterator", "iterator_n", "array_n", "counting"}
  Limits = {0, 1, 3, 4}
  Initials <- MCInitials
  Objects = {first, second}
  First = first
  MaxText = 6
INVARIANTS
  TypeOK
  WithinCapacity
  Delivered
  OneOwner
  RoomForOne
PROPERTIES
  CallReturns
