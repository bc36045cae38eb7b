SPECIFICATION Spec
CONSTANTS
  Instances <- MCInstances
  FilesOf <- MCFilesOf
  Sessions = {s1, s2, s3}
  Pooled = TRUE
  NULL = NULL
INVARIANTS
  LoserFindsNothing
