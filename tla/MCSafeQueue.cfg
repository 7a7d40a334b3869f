CONSTANTS
  Producers = {p1, p2}
  Consumers = {c1, c2}
  Items = {i1, i2}
  NoThread = NoThread
  MaxPush = 3
SPECIFICATION Spec
INVARIANTS QueueInv NoLostWakeup
PROPERTIES FifoOrder Delivered
