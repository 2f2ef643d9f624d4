SPECIFICATION FairSpec
CONSTANTS
  Accounts = {a, b}
  NoAccount = NoAccount
  LoggedIn = {a}
  MaxTokens = 2
  MaxOps = 2
  Acts = {"cli", "login", "logout", "capture", "staged", "manage", "switch", "usage", "restart",
          "unwritable", "lost"}
CHECK_DEADLOCK FALSE
INVARIANT TypeOK
PROPERTIES
  NeverMisfiled
  LiveIsFiled
