SPECIFICATION MCSpec
VIEW LiveVolume
CONSTANTS
  GROUPS_COUNT = 2
  BLOCKS_PER_GROUP = 34
  INODES_PER_GROUP = 3
  INODES_TABLE_BLOCK_COUNT = 1
  DIRECT_BLOCK_COUNT = 1
  POINTERS_PER_BLOCK = 3
  BLOCK_SIZE = 3
  UINT16 = 35
  Names = {"a", "b"}
  Buffers <- LongBuffers
  MaxCalls = 4
INVARIANT DirectoriesSound
INVARIANT BlocksSound
 
 
 
CHECK_DEADLOCK FALSE
