SPECIFICATION SlotSpec
CONSTANTS
  Writers = {w1}
  Readers = {r1, r2}
  Fields = {"value", "raw"}
  SeqModulus = 6
  MaxWrites = 5
  MaxCrashes = 1
INVARIANTS
  NoTornRead
  FreshRead
  IdleSlotReadable
