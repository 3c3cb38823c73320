CONSTANTS
  Kinds = {"client", "vehicle", "reservation"}
  Docs = {1, 2}
  MaxRetries = 2
  MaxCuts = 1
  MaxFaults = 1
  MaxCrashes = 1
  Nothing = Nothing
SPECIFICATION Spec
INVARIANTS TypeOK FileKeptUntilConfirmed UploadedOnce ReplacedEverywhere
PROPERTIES UploadsSettle
CHECK_DEADLOCK FALSE
