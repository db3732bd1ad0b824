CONSTANTS
  Handler <- AllHandlers
  Program <- Overridden
  Client <- ClientFormals
  Cached <- AllCaches
  Read <- AllReaders
SPECIFICATION Spec
INVARIANTS OwnAnswer MempoolNeverFatal  OneConnection FailuresAreErrors
