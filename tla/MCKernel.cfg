SPECIFICATION Spec
CONSTANTS
  PAGE_FRAME_MAX_COUNT = 8
  PAGING_DIRECTORY_TABLE_MAX_COUNT = 4
  PROCESS_COUNT_MAX = 4
  Programs = {"shell", "sound", "missing"}
INVARIANT TypeOK
INVARIANT ProcessesIsolated
INVARIANT KernelFrameReserved
INVARIANT TableConsistent
INVARIANT CleanupPointerAssigned
 
PROPERTY LiveMappingsStable
\* a crashed or corrupted machine has stopped
CHECK_DEADLOCK FALSE
