SPECIFICATION Spec
CONSTANTS
  t1 = t1 t2 = t2
  NoName = NoName
  Names = {t1, t2}
  MaxProcs = 2
  Codes = {"ok"}
  Faults = {"crash"}
SYMMETRY Symmetry
INVARIANTS TypeOK OneActive
PROPERTIES OnlyDoomedStopped ImplementsSlot
CHECK_DEADLOCK FALSE
