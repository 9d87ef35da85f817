SPECIFICATION Spec
CONSTANTS
  PAGE_FRAME_MAX_COUNT = 10
  PAGING_DIRECTORY_TABLE_MAX_COUNT = 5
  PROCESS_COUNT_MAX = 5
  Programs = {"timer"}
INVARIANT CurrentIsTheRunningProcess
CHECK_DEADLOCK FALSE
