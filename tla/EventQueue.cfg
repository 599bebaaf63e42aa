SPECIFICATION Spec
CONSTANTS
  Cap = 3
  Items = {a, b}
  Zero = Zero
  SeqModulus = 5
INVARIANTS
  NoUnwrittenEvent
PROPERTY
  ImplementsFifo
