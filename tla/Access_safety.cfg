SPECIFICATION Spec
CONSTANTS
  Client = {c1, c2}
  Password = {pw1, pw2}
  Cred = {1, 2, 3}
  MaxCommands = 3
  MaxLost = 1
INVARIANTS
  AccessTypeOK
  EffectsAuthorized
  RevocationComplete
  OwnerKeepsAccess
PROPERTY CommandEnds
CHECK_DEADLOCK FALSE
