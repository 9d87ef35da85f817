SPECIFICATION MCSpec
VIEW LiveVolume
CONSTANTS
  GROUPS_COUNT = 1
  BLOCKS_PER_GROUP = 20
  INODES_PER_GROUP = 5
  INODES_TABLE_BLOCK_COUNT = 1
  DIRECT_BLOCK_COUNT = 2
  POINTERS_PER_BLOCK = 2
  BLOCK_SIZE = 3
  UINT16 = 21
  Names = {"a", "b"}
  Buffers <- OneBuffer
  MaxCalls = 6
INVARIANT TypeOK
INVARIANT DirectoriesSound
INVARIANT BlocksSound
 
 
CHECK_DEADLOCK FALSE
