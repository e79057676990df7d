\* Every order of setting the eight variables to one of three words.
SPECIFICATION Spec
CONSTANTS
  Words = {"true", "false", "word"}
  Booleans = {"true", "false"}
  Default <- DefaultOf
INVARIANTS
  EnvironmentIsObeyed
\* The variables are set once.
CHECK_DEADLOCK FALSE
