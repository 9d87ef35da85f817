SPECIFICATION Spec
CONSTANTS
  PAGE_FRAME_MAX_COUNT = 4
  PAGING_DIRECTORY_TABLE_MAX_COUNT = 2
INVARIANT TypeOK
INVARIANT Sound
PROPERTY ImplementsOwnership
