SPECIFICATION Spec
CHECK_DEADLOCK FALSE
CONSTANTS
  Wants <- MCWants
  Scopes = {"bootstrap"}
  Events = {"delete"}
  MaxEvents = 1
PROPERTY
  DeletionEnds
