SPECIFICATION Spec
CONSTANTS
  Kinds = {"outline", "type", "footers", "sheets", "numerals", "headings", "figures",
           "budget", "term", "line", "grid", "identity", "values", "presence",
           "pages", "lines", "window", "drafts", "rules", "metrics", "rivals"}
  MaxBlocks = 4
  NoAmount = NoAmount
  NoRow = NoRow
  Words = {"name", "school", "ans"}
  NotANumber = NotANumber
  Clients = {"c"}
  Accounts = {"a", "b"}
  Attempts = {1, 2}
  RequestLimit = 3
  LoginLimit = 2
  Minute = 1
  MaxKeys = 1
  MaxTime = 2
INVARIANTS LayoutJudged NumberingJudged  NothingUnreadIsJudged
  WindowHolds  NoStandIns
CHECK_DEADLOCK FALSE
