SPECIFICATION Spec
CHECK_DEADLOCK FALSE
CONSTANTS
  Wants <- MCWants
  Scopes = {"bootstrap", "principal"}
  Events = {"fault", "change", "annotate", "profile", "delete", "operator", "loss", "restart"}
  MaxEvents = 1
INVARIANTS
  TypeOK
  UnlockIsConfigured
  NeverStranded
PROPERTY
  Converges
  RefusesChanges
  FinalizerHolds
