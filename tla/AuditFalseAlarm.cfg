SPECIFICATION Spec
CONSTANTS
  None = None
  Processes = {p1, p2}
  Payloads = {x, y}
  MaxEntries = 3
  MaxDamage = 2
SYMMETRY Symmetry
INVARIANT
  NoFalseAlarm
