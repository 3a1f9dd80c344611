SPECIFICATION Spec
CONSTANTS
  Thread = {t1}
  Tester = {x1}
  Maintainer = {m, s}
  Reviewer = {s, v}
  Bootstrap = b
  Content = {c1, c2}
  Testable = {c1}
  NoOne = noone
  NoContent = nocontent
  MaxVersions = 2
  MaxRevision = 2
INVARIANTS  FourEyes ActiveIsPublished ReleasedIsTested
PROPERTY ReleasesAreFinal
CHECK_DEADLOCK FALSE
