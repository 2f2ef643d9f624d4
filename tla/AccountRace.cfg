SPECIFICATION Spec
CONSTANTS
  Accounts = {a, b}
  NoAccount = NoAccount
  LoggedIn = {a}
  MaxTokens = 2
  MaxOps = 2
  Acts = {"switch", "usage"}
CHECK_DEADLOCK FALSE
PROPERTY NeverSpendsLive
