SPECIFICATION Spec
CONSTANTS
  Inits = {i1, i2}
  Deploys = {d1}
  Removals = {x1}
  Emails = {e1}
  Default = e1
  MaxAttempts = 2
  MaxFaults = 1
  None = None
INVARIANTS DatabaseSound SecretsStayValid
PROPERTIES RollbackIsOwn
SYMMETRY Symmetry
CHECK_DEADLOCK FALSE
