SPECIFICATION FairSpec
CONSTANTS
  Files <- MCFiles
  MaxSize = 3
  SmallMax = 1
  ChunkMax = 2
  VariantOf <- MCVariantOf
  Config <- MCConfig
  Ips = {"i1", "i2"}
  BucketOf <- MCBucketOf
  MetaSlots = 2
  Kind <- MCKind
  Indexes <- MCIndexes
  Blocked = {"conf"}
  Php = {"index.php"}
  SourceLike = {"index.php"}
INVARIANTS
  NotModifiedIsHonest
  ResponseExact
  SourceNeverSent
  QuotaHeld
PROPERTIES
  RetryAfterHonest
  RequestEnds
CHECK_DEADLOCK FALSE
