SPECIFICATION Spec
CONSTANTS
  Providers = {p1}
  Editors = {e1, e2}
  Nobody = Nobody
  MaxEdits = 2
  MaxCrashes = 1
INVARIANTS
  ResumedBeforeDue
PROPERTIES
  NeverAcknowledgesNewerEdit
CHECK_DEADLOCK FALSE
