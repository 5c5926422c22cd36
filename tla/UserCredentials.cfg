SPECIFICATION FairSpec
CONSTANTS
  Sources = {"random", "meta", "import"}
  GivenNames = {1, 2}
  KeySets = {{"password"}, {"password", "passwordHash"}}
  Other = Other
  ImportOwners = {0}
  MaxEdits = 3
  MaxFaults = 1
INVARIANTS StatusNamesServerUser QuietIsSynced
PROPERTIES KeepsCredentials EventuallySynced
CHECK_DEADLOCK FALSE
