SPECIFICATION Spec
CONSTANTS
  Starts <- MCStarts
  Touched = {"kueue"}
  MaxErrors = 1
  MaxResent = 1
  MaxExternal = 1
INVARIANTS
  TypeOK
  OneErrorOneObject
  NilMeansDeleted
  SnapshotRestored
