CONSTANTS
  Requests <- MCRequests
  BufSize = 3
  MaxPost = 5
  Dates = {1, 2}
  FileSizes = {0, 2}
  Speeds = {0, 1}
  InitialSizes = {0, 7}
  ErrorPage = 3
  MaxCalls = 2
SPECIFICATION Spec
INVARIANTS
  FileIsSent
CHECK_DEADLOCK FALSE
