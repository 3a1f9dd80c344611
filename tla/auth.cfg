SPECIFICATION Spec
CONSTANTS
  User = {root, u}
  Root = root
  Session = {s1, s2}
  Writer = {w1, w2}
  Greeter = {g1}
  NoUser = nouser
  AdminToken = TRUE
  Overlaps = FALSE
INVARIANTS  StaleSessionsExplained
PROPERTY RequestsKeepToTheirRights
CHECK_DEADLOCK FALSE
SYMMETRY Symmetry
