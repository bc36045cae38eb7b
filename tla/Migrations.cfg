SPECIFICATION FairSpec
CONSTANTS
  Instances <- MCInstances
  FilesOf <- MCFilesOf
  Sessions = {s1, s2, s3}
  Pooled = FALSE
  NULL = NULL
INVARIANTS
  TypeOK
  SchemaIsARelease
  LoserFindsNothing
PROPERTIES
  BootEnds
