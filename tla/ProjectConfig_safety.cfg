SPECIFICATION Spec
CONSTANTS
  PerSecond = 2
  Client = {c1, c2}
  Job = {j1}
  Value = {v1}
  Key = {k1, k2}
  NoKey = NoKey
  Name = {Email, Password}
  EnvName = {}
  SecretName = {Password}
  Email = Email
  Password = Password
  MaxSec = 1
  MaxRevisions = 2
  MaxCrashes = 1
INVARIANTS
  ConfigTypeOK
  LatestIsIntended
  LaterChangeWins
  RunUsesItsRevision
  SecretsReadable
SYMMETRY Clients
CHECK_DEADLOCK FALSE
