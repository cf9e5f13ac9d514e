SPECIFICATION Spec
CONSTANTS
  HEADER = 110
  Task = {t1, t2, t3}
  Stack = {s1, s2, s3}
  NULL = NULL
  Code = code
  TID_MAX = 4
  EXEC_MAX_INSTANCES = 2
  USER_CODE_SIZE = 8
  Names <- MCNames
  Archives <- MCArchives
SYMMETRY Symmetry
INVARIANTS BlocksOwned ImageIntact GroupStaysDown AccessOwned
