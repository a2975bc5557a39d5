SPECIFICATION RecoverySpec
CONSTANTS
  Version <- MCVersion
  SchemaOf <- MCSchemaOf
  Budget <- MCBudget
  t1 = t1
  t2 = t2
  p1 = p1
  Track = {t1, t2}
  Path = {p1}
  PathOf <- MCPathOf
  FileId = {1, 2, 3, 4}
  Original <- MCOriginal
  Allowance <- MCAllowance
INVARIANTS
  OldNeverOnNew
  SettledIsDeployed
  MediaKept
  NothingMissing
PROPERTIES
  OpenEnds
  ImplementsManaged
  NothingOverwritten
  InterruptedSettles
CHECK_DEADLOCK FALSE
