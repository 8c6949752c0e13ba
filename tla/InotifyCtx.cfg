SPECIFICATION Spec
\* Three tasks that keep to the discipline and two watches.
CONSTANTS
  Tasks = {t, u, v}
  MaxWds = 2
  MaxEvents = 2
  Careful = TRUE
SYMMETRY TaskSymmetry
INVARIANTS
  NoBadAccess
  WaiterKept
  NoLostWakeup
