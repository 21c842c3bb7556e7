SPECIFICATION Spec
CONSTANTS
  Client = {c1, c2}
  Password = {pw1, pw2}
  Cred = {1, 2, 3}
  MaxCommands = 3
  MaxLost = 0
INVARIANT NoTokenOfOldPassword
CHECK_DEADLOCK FALSE
