\* A list of two challenges and three Call-IDs.
SPECIFICATION Spec
CONSTANTS
  Callers = {a, b, c}
  Limit = 2
  MaxInvites = 4
PROPERTIES
  HonestIsAdmitted
  StaleIsRefused
CHECK_DEADLOCK FALSE
