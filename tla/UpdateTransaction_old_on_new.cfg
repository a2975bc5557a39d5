SPECIFICATION Spec
CONSTANTS
  Version <- MCVersion
  SchemaOf <- MCSchemaOf
  Budget <- MCBudget
INVARIANT OldNeverStarted
CHECK_DEADLOCK FALSE
