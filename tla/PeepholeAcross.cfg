SPECIFICATION Spec
CONSTANTS
  Families <- OneAnd
INVARIANT SameMeaning
CHECK_DEADLOCK FALSE
