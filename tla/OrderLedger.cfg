SPECIFICATION LedgerSpec
CONSTANTS
  Accounts = {a, b}
  Markets = {m1, m2}
  Slots = {0, 1}
  Free = Free
  QueueCap = 2
  MaxOrders = 3
INVARIANTS
  SlotDiscipline
