SPECIFICATION Spec
CONSTANTS
  Thread = {t1}
  Tester = {x1}
  Maintainer = {m, s}
  Reviewer = {s}
  Bootstrap = b
  Content = {c1, c2}
  Testable = {c1}
  NoOne = noone
  NoContent = nocontent
  MaxVersions = 2
  MaxRevision = 2
INVARIANT AuthorNeverApproves
CHECK_DEADLOCK FALSE
