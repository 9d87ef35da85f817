SPECIFICATION MCSpec
VIEW LiveVolume
CONSTANTS
  GROUPS_COUNT = 1
  BLOCKS_PER_GROUP = 60
  INODES_PER_GROUP = 90
  INODES_TABLE_BLOCK_COUNT = 1
  DIRECT_BLOCK_COUNT = 2
  POINTERS_PER_BLOCK = 2
  BLOCK_SIZE = 5
  UINT16 = 100
  BUFFER_BLOCKS = 4
  MAX_PATH_DEPTH = 4
  Names = {"a", "b"}
  Buffers <- TwoBuffers
  Paths <- MCPaths
  Filled <- MCFilled
  MaxCalls = 4
INVARIANT PathLeadsToCwd
INVARIANT LsListsCwd
INVARIANT FindFindsAll
INVARIANT DirectoriesSound
 
 
CHECK_DEADLOCK FALSE
