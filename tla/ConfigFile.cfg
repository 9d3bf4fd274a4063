SPECIFICATION LoaderSpec
CONSTANTS
  Valid = {"A", "B"}
  Default = "default"
  MaxInodes = 4
  MaxEdits = 4
INVARIANT SettlesOnFile
CHECK_DEADLOCK FALSE
