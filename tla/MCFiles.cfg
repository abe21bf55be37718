CONSTANTS
  Tags = {0, 1}
  Bytes = {0, 1}
  MaxRecipe = 2
  MaxPayload = 2
  MaxDamage = 2
  Segments = {0, 1}
  AppliedIds = {0, 1}
  MaxLen = 2
  None = None
  Kinds <- SomeKinds
  LegacyKinds <- OldKinds
  MaxSegId = 1
  MaxEpoch = 3

SPECIFICATION FSpec

INVARIANTS
  AcceptedIsIntact
  LazyAgrees
  ReadIsAsWritten
  BufferHoldsPayload
  MappedIsAsWritten
  PartialNeverRead

PROPERTIES
  SweepsTakeGarbage
  SweptAtOpen
