SPECIFICATION Spec
CONSTANT None = None
INVARIANTS FormatsAgree
PROPERTIES  TimesShown
CHECK_DEADLOCK FALSE
