SPECIFICATION Spec
CONSTANTS
  Garbage = Garbage
  Environments <- MCEnvironments
  Tokens = 2
  Days = 35
INVARIANT CookieMatchesToken
CHECK_DEADLOCK FALSE
