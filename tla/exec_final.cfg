SPECIFICATION Spec
CONSTANTS
  t1 = t1 t2 = t2
  NoName = NoName
  Names = {t1, t2}
  MaxProcs = 1
  Codes = {"ok", "failed"}
  Faults = {}
SYMMETRY Symmetry
PROPERTIES FinalStays
CHECK_DEADLOCK FALSE
