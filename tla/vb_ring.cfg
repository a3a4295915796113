CONSTANTS
  Capacity = 4
  Items = {a, b}
  BlankItem = blank
  OutOfStorage = outside
  ConsumerOps = {"tryPop", "drain"}
  MaxPushes = 7
SPECIFICATION FairSpec
INVARIANT RingInv
INVARIANT NoSlotRace
INVARIANT Conserved
PROPERTY QueueSpec
PROPERTY AllDelivered
